----------------------- MODULE CheckEliminationProofs -----------------------
(***************************************************************************)
(* Proofs about CheckElimination.tla, for programs of any length over any  *)
(* blocks and any strict partial order of dominance between them.          *)
(*                                                                         *)
(* CheckInv is the inductive invariant: the program is well formed, the    *)
(* users agree with the inputs, a removed check has left one behind, and   *)
(* what the enumeration and the loop over the users have saved is still    *)
(* where they expect it.                                                   *)
(***************************************************************************)
EXTENDS CheckElimination, UsersProofs

-----------------------------------------------------------------------------
(* The inductive invariant. *)

(* What instructions there are for CheckElimination. *)
Opcodes == {"none", "ref", "value", "null", "bounds", "use"}

(* The types. *)
TypesOK ==
  /\ created \in 0 .. MAX_INSNS
  /\ opcode \in [Insns -> Opcodes]
  /\ inputs \in [Insns -> Seq(1 .. created)]
  /\ users \in [Insns -> Seq(1 .. created)]
  /\ parentBB \in [Insns -> Blocks \cup {Null}]
  /\ code \in [Blocks -> Seq(1 .. created)]
  /\ dominance \in Dominances
  /\ pos \in 0 .. Len(RpoVector)
  /\ currInsn \in 0 .. created /\ nextInsn \in 0 .. created
  /\ checkToRemain \in 0 .. created
  /\ userIt \in Nat \ {0}
  /\ substitute \in [Insns -> 0 .. created]

(* An instruction that is yet to be created has nothing. *)
BlankBeyond ==
  \A i \in Insns : i > created =>
    inputs[i] = <<>> /\ users[i] = <<>> /\ opcode[i] = "none" /\ substitute[i] = Null

(* The instructions of a block are in the order of their creation. *)
Ascending(s) == \A k, l \in 1 .. Len(s) : k < l => s[k] < s[l]

(* Every block holds its own instructions, in that order. *)
CodeInOrder ==
  \A b \in Blocks : Ascending(code[b]) /\ \A i \in Uses(code[b]) : parentBB[i] = b

(* A check is a check of one reference. *)
ChecksHaveOneInput == \A i \in Insns : IsCheck(i) => Len(inputs[i]) = 1

(* i is a user of each of its inputs, and no more often than it has them. *)
EnteredIn(i, d) ==
  /\ Count(users[d], i) <= Count(inputs[i], d)
  /\ d \in Uses(inputs[i]) => i \in Uses(users[d])

(* The users of the instructions in the blocks agree with the inputs. *)
Entered ==
  /\ \A d \in InCode : Uses(users[d]) \subseteq InCode
  /\ \A i, d \in InCode : EnteredIn(i, d)

(* A check that has gone was one of a reference, and that reference still  *)
(* has a check before it.                                                  *)
Substituted ==
  \A c \in Insns : substitute[c] # Null =>
    /\ c \notin InCode
    /\ \E r \in Insns : opcode[r] = "ref" /\ inputs[c] = <<r>>
    /\ \E k \in InCode : IsCheck(k) /\ inputs[k] = inputs[c] /\ Before(k, c)

(* The instruction EnumerateInsns has saved is the next one of the block. *)
Walk ==
  /\ pos = 0 => currInsn = Null
  /\ currInsn = Null => nextInsn = Null /\ checkToRemain = Null
  /\ currInsn # Null => currInsn \in InCode
  /\ nextInsn # Null =>
       /\ nextInsn \in Uses(code[parentBB[currInsn]]) /\ currInsn < nextInsn
       /\ \A j \in Uses(code[parentBB[currInsn]]) : j > currInsn => j >= nextInsn

(* Every user that the loop has passed was kept for a reason. *)
Passed(d) ==
  IsCheck(d) =>
    /\ checkToRemain # Null
    /\ DominatedOver(checkToRemain, d) => MayKeep(checkToRemain, d)

(* The loop over the users is within the list, and the check that remains  *)
(* is a user of the reference.                                             *)
Searched ==
  /\ checkToRemain # Null =>
       InLoop /\ IsCheck(checkToRemain) /\ checkToRemain \in Uses(users[currInsn])
  /\ InLoop =>
       /\ userIt <= Len(users[currInsn]) + 1
       /\ \A k \in 1 .. userIt - 1 : Passed(users[currInsn][k])

(* The inductive invariant. *)
CheckInv ==
  /\ TypesOK /\ BlankBeyond /\ CodeInOrder /\ ChecksHaveOneInput
  /\ UsesDominated /\ Entered /\ Substituted /\ Walk /\ Searched

-----------------------------------------------------------------------------
(* Instructions in blocks, and the order between them. *)

(* Instructions in blocks exist, and their blocks hold them. *)
LEMMA InCodeFacts ==
  ASSUME TypesOK, CodeInOrder
  PROVE  /\ created \in Nat /\ 1 .. created \subseteq Insns /\ Insns \subseteq Nat \ {0}
         /\ InCode \subseteq 1 .. created /\ InCode \subseteq Insns
         /\ \A i \in InCode : parentBB[i] \in Blocks /\ i \in Uses(code[parentBB[i]])
         /\ \A b \in Blocks : Uses(code[b]) \subseteq InCode
<1>1. created \in Nat /\ 1 .. created \subseteq Insns /\ Insns \subseteq Nat \ {0}
  BY ProgramAssumption DEF TypesOK, Insns
<1>2. \A b \in Blocks : Uses(code[b]) \subseteq 1 .. created
  BY UsesTyped DEF TypesOK
<1>3. \A i \in InCode : \E b \in Blocks : i \in Uses(code[b])
  BY DEF InCode
<1>4. \A b \in Blocks : Uses(code[b]) \subseteq InCode
  BY DEF InCode
<1> QED
  BY <1>1, <1>2, <1>3, <1>4 DEF CodeInOrder

(* Before is a strict partial order of the instructions in blocks. *)
LEMMA BeforeIsOrder ==
  ASSUME TypesOK, NEW i \in Insns, NEW j \in Insns, NEW k \in Insns, parentBB[i] \in Blocks
  PROVE  /\ ~Before(i, i)
         /\ Before(i, j) => parentBB[j] \in Blocks
         /\ Before(i, j) /\ Before(j, k) => Before(i, k)
         /\ Before(i, j) /\ Before(j, k) /\ parentBB[i] = parentBB[k] =>
              parentBB[i] = parentBB[j] /\ i < j /\ j < k
<1>1. /\ dominance \in Dominances /\ dominance \subseteq Blocks \X Blocks
      /\ \A a \in Blocks : <<a, a>> \notin dominance
      /\ \A a, b, c \in Blocks :
           <<a, b>> \in dominance /\ <<b, c>> \in dominance => <<a, c>> \in dominance
  BY ProgramAssumption DEF TypesOK
<1>2. i \in Nat /\ j \in Nat /\ k \in Nat
  BY DEF Insns
<1>3. Before(i, j) => parentBB[j] \in Blocks
  BY <1>1 DEF Before
<1>4. Before(i, j) /\ Before(j, k) => parentBB[k] \in Blocks
  BY <1>1, <1>3 DEF Before
<1>5. ~Before(i, i)
  BY <1>2 DEF Before
<1>6. Before(i, j) /\ Before(j, k) => Before(i, k)
  BY <1>1, <1>2, <1>3, <1>4 DEF Before
<1>7. Before(i, j) /\ Before(j, k) /\ parentBB[i] = parentBB[k] =>
        parentBB[i] = parentBB[j] /\ i < j /\ j < k
  BY <1>1, <1>2, <1>3, <1>4 DEF Before
<1> QED
  BY <1>3, <1>5, <1>6, <1>7

(* Behind finds the next instruction of a block, if there is one. *)
LEMMA BehindIsNext ==
  ASSUME TypesOK, CodeInOrder, NEW b \in Blocks, NEW i \in Nat
  PROVE  \/ Behind(b, i) = Null
         \/ /\ Behind(b, i) \in Uses(code[b]) /\ i < Behind(b, i)
            /\ \A j \in Uses(code[b]) : j > i => j >= Behind(b, i)
<1> DEFINE s == code[b]
           n == Len(s)
           later == {k \in 1 .. n : s[k] > i}
<1>1. n \in Nat /\ later \in SUBSET (1 .. n) /\ s \in Seq(1 .. created) /\ created \in Nat
  BY InCodeFacts DEF TypesOK
<1>2. CASE later = {}
  BY <1>2 DEF Behind
<1>3. CASE later # {}
  <2> DEFINE m == Min(later)
  <2>1. m \in later /\ \A k \in later : m <= k
    <3> HIDE DEF later, n
    <3> QED
      BY <1>1, <1>3, MinIsPosition
  <2>2. Behind(b, i) = s[m]
    BY <1>3 DEF Behind
  <2> HIDE DEF m
  <2>3. \A k \in 1 .. n : s[k] \in Nat
    BY <1>1
  <2>4. ASSUME NEW j \in Uses(s), j > i PROVE j >= s[m]
    <3>1. PICK k \in 1 .. n : s[k] = j
      BY DEF Uses
    <3>2. m <= k /\ m \in 1 .. n
      BY <2>1, <2>4, <3>1
    <3>3. m < k => s[m] < s[k]
      BY <3>1, <3>2 DEF CodeInOrder, Ascending
    <3> QED
      BY <2>3, <3>1, <3>2, <3>3
  <2>5. s[m] \in Uses(s) /\ i < s[m]
    BY <2>1, <2>3 DEF Uses
  <2> QED
    BY <2>2, <2>4, <2>5
<1> QED
  BY <1>2, <1>3

(* Taking an instruction out of a block keeps the order of the others. *)
LEMMA RemovedFromOrder ==
  ASSUME NEW J \in SUBSET Nat, NEW s \in Seq(J), Ascending(s), NEW i \in Uses(s)
  PROVE  /\ RemoveFirst(s, i) \in Seq(J) /\ Ascending(RemoveFirst(s, i))
         /\ Uses(RemoveFirst(s, i)) = Uses(s) \ {i}
<1> DEFINE r == RemoveFirst(s, i)
           n == Len(s)
<1>1. PICK p \in 1 .. n : WithoutFirst(s, r, i, p)
  BY RemoveFirstAt
<1>2. r \in Seq(J)
  BY CountRemoveFirst
<1> HIDE DEF r
<1>3. /\ n \in Nat /\ n # 0 /\ s[p] = i
      /\ r = [k \in 1 .. n - 1 |-> IF k < p THEN s[k] ELSE s[k + 1]]
  BY <1>1 DEF WithoutFirst
<1>4. /\ Len(r) = n - 1 /\ n - 1 \in Nat
      /\ \A k \in 1 .. n - 1 : r[k] = IF k < p THEN s[k] ELSE s[k + 1]
  <2>1. n - 1 \in Nat
    BY <1>3
  <2> HIDE DEF n
  <2> QED
    BY <1>3, <2>1
<1>5. \A k \in 1 .. n - 1 : k \in 1 .. n /\ k + 1 \in 1 .. n
  BY <1>3
<1>6. \A k, l \in 1 .. n : k < l => s[k] < s[l]
  BY DEF Ascending
<1>7. \A k \in 1 .. n : s[k] \in Nat
  <2>1. \A k \in 1 .. n : s[k] \in J
    OBVIOUS
  <2> QED
    BY <2>1
<1> HIDE DEF n
<1>8. Ascending(r)
  <2> SUFFICES ASSUME NEW k \in 1 .. n - 1, NEW l \in 1 .. n - 1, k < l
               PROVE  r[k] < r[l]
    BY <1>4 DEF Ascending
  <2> QED
    BY <1>3, <1>4, <1>5, <1>6
<1>9. ASSUME NEW x PROVE x \in Uses(r) <=> x \in Uses(s) /\ x # i
  <2>1. ASSUME x \in Uses(r) PROVE x \in Uses(s) /\ x # i
    <3>1. PICK k \in 1 .. n - 1 : r[k] = x
      BY <1>4, <2>1 DEF Uses
    <3>2. \E l \in 1 .. n : s[l] = x /\ l # p
      BY <1>4, <1>5, <3>1
    <3>3. PICK l \in 1 .. n : s[l] = x /\ l # p
      BY <3>2
    <3>4. s[l] # s[p]
      BY <1>3, <1>6, <1>7, <3>3
    <3> QED
      BY <1>3, <3>3, <3>4 DEF Uses, n
  <2>2. ASSUME x \in Uses(s), x # i PROVE x \in Uses(r)
    <3>1. PICK l \in 1 .. n : s[l] = x
      BY <2>2 DEF Uses, n
    <3>2. l # p
      BY <1>3, <2>2, <3>1
    <3>3. \E k \in 1 .. n - 1 : r[k] = x
      <4>1. CASE l < p
        <5>1. l \in 1 .. n - 1
          BY <1>3, <4>1
        <5> QED
          BY <1>4, <3>1, <4>1, <5>1
      <4>2. CASE l > p
        <5>1. l - 1 \in 1 .. n - 1 /\ ~(l - 1 < p) /\ (l - 1) + 1 = l
          BY <1>3, <4>2
        <5> QED
          BY <1>4, <3>1, <5>1
      <4> QED
        BY <1>3, <3>2, <4>1, <4>2
    <3> QED
      BY <1>4, <3>3 DEF Uses
  <2> QED
    BY <2>1, <2>2
<1> QED
  BY <1>2, <1>8, <1>9 DEF r

-----------------------------------------------------------------------------
(* Building the program. *)

(* An instruction that is created at the end of a block keeps the          *)
(* invariant.                                                              *)
LEMMA CreateInstructionInv ==
  ASSUME CheckInv, pos = 0, created < MAX_INSNS,
         NEW op \in Opcodes \ {"none"}, NEW s \in Seq(InCode), NEW bb \in Blocks,
         op \in {"null", "bounds"} => Len(s) = 1,
         CreateInstruction(op, s, bb)
  PROVE  CheckInv'
<1> DEFINE i == created + 1
           J == 1 .. i
<1>1. /\ TypesOK /\ BlankBeyond /\ CodeInOrder /\ ChecksHaveOneInput
      /\ UsesDominated /\ Entered /\ Substituted /\ Walk /\ Searched
  BY DEF CheckInv
<1>2. /\ \A d \in Uses(s) : parentBB[d] = bb \/ <<parentBB[d], bb>> \in dominance
      /\ created' = i /\ opcode' = [opcode EXCEPT ![i] = op]
      /\ inputs' = [inputs EXCEPT ![i] = s]
      /\ users' = AddToUsers(users, s, i)
      /\ parentBB' = [parentBB EXCEPT ![i] = bb]
      /\ code' = [code EXCEPT ![bb] = Append(code[bb], i)]
      /\ UNCHANGED <<dominance, substitute, userIt, checkToRemain, pos, currInsn, nextInsn>>
  BY DEF CreateInstruction, loop, walk
<1>3. /\ created \in Nat /\ i \in Nat /\ i \in Insns /\ Insns \subseteq Nat \ {0}
      /\ 1 .. created \subseteq Insns
      /\ InCode \subseteq 1 .. created /\ InCode \subseteq Insns
      /\ \A j \in InCode : parentBB[j] \in Blocks /\ j \in Uses(code[parentBB[j]])
      /\ \A b \in Blocks : Uses(code[b]) \subseteq InCode
  <2>1. i \in Insns
    BY <1>1, InCodeFacts, ProgramAssumption DEF Insns
  <2> QED
    BY <1>1, <2>1, InCodeFacts
<1>4. \A j \in 1 .. created : j # i /\ j < i
  BY <1>3
<1>5. Uses(s) \subseteq InCode
  BY UsesTyped
<1>6. /\ inputs[i] = <<>> /\ users[i] = <<>> /\ opcode[i] = "none" /\ substitute[i] = Null
  BY <1>1, <1>3 DEF BlankBeyond
<1>7. 1 .. created \subseteq J
  BY <1>3
<1>8. Seq(1 .. created) \subseteq Seq(J) /\ s \in Seq(J) /\ s \in Seq(Insns)
  <2> HIDE DEF J
  <2>1. Seq(1 .. created) \subseteq Seq(J)
    BY <1>7, ListsGrow
  <2>2. InCode \subseteq J
    BY <1>3, <1>7
  <2> QED
    BY <1>3, <2>1, <2>2, ListsGrow
<1>9. users \in Lists(Insns, J) /\ i \in J
  BY <1>1, <1>3, <1>8 DEF TypesOK, Lists
<1>10. users' \in Lists(Insns, J) /\ Enters(Insns, users, users', s, i)
  <2> HIDE DEF i, J
  <2> QED
    BY <1>2, <1>8, <1>9, AddToUsersEnters
<1> HIDE DEF i
<1>11. /\ inputs'[i] = s /\ opcode'[i] = op /\ parentBB'[i] = bb
       /\ \A j \in Insns \ {i} : /\ inputs'[j] = inputs[j] /\ opcode'[j] = opcode[j]
                                 /\ parentBB'[j] = parentBB[j]
       /\ code'[bb] = Append(code[bb], i)
       /\ \A b \in Blocks \ {bb} : code'[b] = code[b]
  BY <1>1, <1>2, <1>3 DEF TypesOK
<1>12. /\ code[bb] \in Seq(J) /\ Uses(code'[bb]) = Uses(code[bb]) \cup {i}
       /\ code'[bb] \in Seq(J)
  <2>1. code[bb] \in Seq(J)
    BY <1>1, <1>8 DEF TypesOK
  <2> HIDE DEF J
  <2> QED
    BY <1>9, <1>11, <2>1, UsesAppend
<1>13. InCode' = InCode \cup {i}
  <2>1. ASSUME NEW x PROVE x \in InCode' <=> x \in InCode \/ x = i
    <3>1. x \in InCode' <=> \E b \in Blocks : x \in Uses(code'[b])
      BY DEF InCode
    <3>2. x \in InCode <=> \E b \in Blocks : x \in Uses(code[b])
      BY DEF InCode
    <3> QED
      BY <1>11, <1>12, <3>1, <3>2
  <2> QED
    BY <2>1
<1>14. ASSUME NEW j \in Insns \ {i}, NEW k \in Insns \ {i}
       PROVE  Before(j, k)' <=> Before(j, k)
  BY <1>2, <1>11 DEF Before
<1>15. TypesOK'
  <2>1. /\ created' \in 0 .. MAX_INSNS /\ opcode' \in [Insns -> Opcodes]
        /\ parentBB' \in [Insns -> Blocks \cup {Null}]
    BY <1>1, <1>2, <1>3, ProgramAssumption DEF TypesOK, Insns
  <2>2. inputs' \in [Insns -> Seq(J)] /\ users' \in [Insns -> Seq(J)]
    <3>1. inputs \in [Insns -> Seq(J)]
      BY <1>1, <1>8 DEF TypesOK
    <3> QED
      BY <1>2, <1>8, <1>10, <3>1 DEF Lists
  <2>3. code' \in [Blocks -> Seq(J)]
    <3>1. code \in [Blocks -> Seq(J)]
      BY <1>1, <1>8 DEF TypesOK
    <3> QED
      BY <1>2, <1>11, <1>12, <3>1
  <2>4. /\ dominance' \in Dominances /\ pos' \in 0 .. Len(RpoVector)
        /\ userIt' \in Nat \ {0}
        /\ currInsn' \in 0 .. created' /\ nextInsn' \in 0 .. created'
        /\ checkToRemain' \in 0 .. created'
        /\ substitute' \in [Insns -> 0 .. created']
    <3>1. 0 .. created \subseteq 0 .. i
      BY <1>3 DEF i
    <3> QED
      BY <1>1, <1>2, <3>1 DEF TypesOK
  <2> QED
    BY <1>2, <2>1, <2>2, <2>3, <2>4 DEF TypesOK, J
<1>16. \A d \in Insns : users[d] \in Seq(J) /\ users'[d] \in Seq(J) /\ inputs[d] \in Seq(J)
  BY <1>1, <1>8, <1>9, <1>10 DEF Lists, TypesOK
<1>17. ASSUME NEW d \in Insns
       PROVE  /\ \A x : x # i => Count(users'[d], x) = Count(users[d], x)
              /\ Count(users'[d], i) <= Count(s, d)
              /\ d \in Uses(s) => i \in Uses(users'[d])
              /\ d \notin Uses(s) => i \notin Uses(users'[d])
              /\ \A x : x # i => (x \in Uses(users'[d]) <=> x \in Uses(users[d]))
  <2>1. /\ \A x : x # i => Count(users'[d], x) = Count(users[d], x)
        /\ Count(users'[d], i) <= Count(users[d], i) + Count(s, d)
        /\ d \in Uses(s) => Count(users'[d], i) # 0
    BY <1>10 DEF Enters
  <2>2. i \notin Uses(users[d])
    <3>1. users[d] \in Seq(1 .. created)
      BY <1>1 DEF TypesOK
    <3>2. Uses(users[d]) \subseteq 1 .. created
      BY <3>1, UsesTyped
    <3> QED
      BY <1>4, <3>2
  <2>3. \A x : x \in Uses(users[d]) <=> Count(users[d], x) # 0
    BY <1>16, CountUses
  <2>4. \A x : x \in Uses(users'[d]) <=> Count(users'[d], x) # 0
    BY <1>16, CountUses
  <2>5. /\ Count(s, d) \in Nat /\ Count(users'[d], i) \in Nat
        /\ d \in Uses(s) <=> Count(s, d) # 0
    BY <1>8, <1>16, CountUses
  <2>6. Count(users[d], i) = 0
    BY <2>2, <2>3
  <2> QED
    BY <2>1, <2>3, <2>4, <2>5, <2>6
<1> HIDE DEF J
<1>18. BlankBeyond'
  <2> SUFFICES ASSUME NEW j \in Insns, j > i
               PROVE  /\ inputs'[j] = <<>> /\ users'[j] = <<>>
                      /\ opcode'[j] = "none" /\ substitute'[j] = Null
    BY <1>2 DEF BlankBeyond
  <2>1. j # i /\ j > created /\ j \notin InCode
    BY <1>3, <1>4 DEF i
  <2>2. inputs[j] = <<>> /\ users[j] = <<>> /\ opcode[j] = "none" /\ substitute[j] = Null
    BY <1>1, <2>1 DEF BlankBeyond
  <2>3. users'[j] = <<>>
    <3>1. Uses(users[j]) = {} /\ j \notin Uses(s)
      BY <1>5, <2>1, <2>2 DEF Uses
    <3>2. Uses(users'[j]) = {}
      <4>1. i \notin Uses(users'[j]) /\ \A x : x # i => x \notin Uses(users'[j])
        BY <1>17, <3>1
      <4> QED
        BY <4>1
    <3>3. users'[j] \in Seq(J)
      BY <1>16
    <3> DEFINE u == users'[j]
    <3> HIDE DEF u
    <3>4. u \in Seq(J)
      BY <3>3 DEF u
    <3>5. Uses(u) = {} <=> u = <<>>
      BY <3>4, UsesTyped
    <3> QED
      BY <3>2, <3>5 DEF u
  <2> QED
    BY <1>2, <1>11, <2>1, <2>2, <2>3
<1>19. CodeInOrder'
  <2> SUFFICES ASSUME NEW b \in Blocks
               PROVE  /\ Ascending(code'[b])
                      /\ \A j \in Uses(code'[b]) : parentBB'[j] = b
    BY DEF CodeInOrder, Ascending
  <2>1. Ascending(code[b]) /\ \A j \in Uses(code[b]) : parentBB[j] = b /\ j \in Insns \ {i}
    BY <1>1, <1>3, <1>4 DEF CodeInOrder
  <2>2. CASE b # bb
    BY <1>11, <2>1, <2>2
  <2>3. CASE b = bb
    <3>1. \A j \in Uses(code'[b]) : parentBB'[j] = b
      BY <1>11, <1>12, <2>1, <2>3
    <3>2. code[b] \in Seq(1 .. created) /\ code'[b] = Append(code[b], i)
      BY <1>1, <1>11, <2>3 DEF TypesOK
    <3> DEFINE c == code[b]
               n == Len(c)
               c2 == Append(c, i)
    <3>7. c \in Seq(1 .. created) /\ i \in Nat /\ created \in Nat
      BY <1>3, <3>2
    <3>3. /\ n \in Nat /\ Len(c2) = n + 1 /\ c2[n + 1] = i
          /\ \A k \in 1 .. n : c2[k] = c[k] /\ c[k] \in 1 .. created
      <4> HIDE DEF c
      <4> QED
        BY <3>7
    <3>4. \A k, l \in 1 .. n : k < l => c[k] < c[l]
      BY <2>1 DEF Ascending
    <3> HIDE DEF c, n, c2
    <3>5. \A k, l \in 1 .. n + 1 : k < l => c2[k] < c2[l]
      <4> SUFFICES ASSUME NEW k \in 1 .. n + 1, NEW l \in 1 .. n + 1, k < l
                   PROVE  c2[k] < c2[l]
        OBVIOUS
      <4>1. k \in 1 .. n
        BY <3>3
      <4>2. CASE l = n + 1
        BY <1>4, <3>3, <4>1, <4>2
      <4>3. CASE l \in 1 .. n
        BY <3>3, <3>4, <4>1, <4>3
      <4> QED
        BY <3>3, <4>2, <4>3
    <3>6. Ascending(c2)
      BY <3>3, <3>5 DEF Ascending
    <3> QED
      BY <3>1, <3>2, <3>6 DEF c2, c
  <2> QED
    BY <2>2, <2>3
<1>20. ChecksHaveOneInput'
  <2> SUFFICES ASSUME NEW j \in Insns, opcode'[j] \in {"null", "bounds"}
               PROVE  Len(inputs'[j]) = 1
    BY DEF ChecksHaveOneInput, IsCheck
  <2> QED
    BY <1>1, <1>11 DEF ChecksHaveOneInput, IsCheck
<1>21. UsesDominated'
  <2> SUFFICES ASSUME NEW j \in InCode \cup {i}, NEW d \in Uses(inputs'[j])
               PROVE  d \in InCode \cup {i} /\ Before(d, j)'
    BY <1>13 DEF UsesDominated
  <2>1. CASE j = i
    <3>1. d \in InCode /\ d \in Insns \ {i} /\ parentBB'[d] = parentBB[d] /\ d < i
      BY <1>3, <1>4, <1>5, <1>11, <2>1
    <3>2. parentBB[d] = bb \/ <<parentBB[d], bb>> \in dominance
      BY <1>2, <1>11, <2>1
    <3>3. parentBB'[j] = bb /\ dominance' = dominance /\ d < j
      BY <1>2, <1>11, <2>1, <3>1
    <3>4. Before(d, j)'
      BY <3>1, <3>2, <3>3 DEF Before
    <3> QED
      BY <3>1, <3>4
  <2>2. CASE j # i
    <3>1. j \in InCode /\ j \in Insns \ {i} /\ d \in Uses(inputs[j])
      BY <1>3, <1>11, <2>2
    <3>2. d \in InCode /\ Before(d, j) /\ d \in Insns \ {i}
      BY <1>1, <1>3, <1>4, <3>1 DEF UsesDominated
    <3> QED
      BY <1>14, <3>1, <3>2
  <2> QED
    BY <2>1, <2>2
<1>22. Entered'
  <2>1. ASSUME NEW d \in InCode \cup {i} PROVE Uses(users'[d]) \subseteq InCode \cup {i}
    <3>1. CASE d \in InCode
      BY <1>1, <1>3, <1>17, <3>1 DEF Entered
    <3>2. CASE d = i
      <4>1. i \in Insns /\ \A x : x \notin Uses(users[i])
        BY <1>3, <1>6 DEF Uses
      <4>2. \A x : x # i => x \notin Uses(users'[i])
        BY <1>17, <4>1
      <4> QED
        BY <3>2, <4>2
    <3> QED
      BY <3>1, <3>2
  <2>2. ASSUME NEW j \in InCode \cup {i}, NEW d \in InCode \cup {i}
        PROVE  /\ Count(users'[d], j) <= Count(inputs'[j], d)
               /\ d \in Uses(inputs'[j]) => j \in Uses(users'[d])
    <3>1. CASE j = i
      BY <1>3, <1>11, <1>17, <3>1
    <3>2. CASE j # i /\ d # i
      <4>1. /\ j \in InCode /\ d \in InCode /\ inputs'[j] = inputs[j]
        BY <1>3, <1>11, <3>2
      <4>2. /\ Count(users[d], j) <= Count(inputs[j], d)
            /\ d \in Uses(inputs[j]) => j \in Uses(users[d])
        BY <1>1, <4>1 DEF Entered, EnteredIn
      <4> QED
        BY <1>3, <1>17, <3>2, <4>1, <4>2
    <3>3. CASE j # i /\ d = i
      <4>1. /\ j \in InCode /\ inputs'[j] = inputs[j]
        BY <1>3, <1>11, <3>3
      <4>2. i \notin Uses(inputs[j])
        BY <1>1, <1>3, <1>4, <4>1 DEF UsesDominated
      <4>3. j \notin Uses(users[i])
        BY <1>6 DEF Uses
      <4>4. Count(users'[i], j) = Count(users[i], j)
        BY <1>3, <1>17, <3>3
      <4>5. Count(users[i], j) = 0
        BY <1>3, <1>16, <4>3, CountUses
      <4>6. Count(inputs[j], i) \in Nat
        BY <1>3, <1>16, <4>1, CountUses
      <4> QED
        BY <3>3, <4>1, <4>2, <4>4, <4>5, <4>6
    <3> QED
      BY <3>1, <3>2, <3>3
  <2> QED
    BY <1>13, <2>1, <2>2 DEF Entered, EnteredIn
<1>23. Substituted'
  <2> SUFFICES ASSUME NEW c \in Insns, substitute[c] # Null
               PROVE  /\ c \notin InCode \cup {i}
                      /\ \E r \in Insns : opcode'[r] = "ref" /\ inputs'[c] = <<r>>
                      /\ \E k \in InCode \cup {i} :
                           IsCheck(k)' /\ inputs'[k] = inputs'[c] /\ Before(k, c)'
    BY <1>2, <1>13 DEF Substituted
  <2>1. c # i /\ inputs'[c] = inputs[c] /\ c \notin InCode
    BY <1>1, <1>6, <1>11 DEF Substituted
  <2>2. PICK r \in Insns : opcode[r] = "ref" /\ inputs[c] = <<r>>
    BY <1>1 DEF Substituted
  <2>3. PICK k \in InCode : IsCheck(k) /\ inputs[k] = inputs[c] /\ Before(k, c)
    BY <1>1 DEF Substituted
  <2>4. r # i /\ opcode'[r] = "ref"
    BY <1>6, <1>11, <2>2
  <2>5. k # i /\ IsCheck(k)' /\ inputs'[k] = inputs'[c] /\ Before(k, c)'
    BY <1>3, <1>4, <1>11, <1>14, <2>1, <2>3 DEF IsCheck
  <2> QED
    BY <2>1, <2>2, <2>4, <2>5
<1>24. currInsn = Null /\ nextInsn = Null /\ checkToRemain = Null
  BY <1>1 DEF Walk
<1>25. Walk' /\ Searched'
  BY <1>2, <1>24 DEF Walk, Searched, InLoop
<1> QED
  BY <1>15, <1>18, <1>19, <1>20, <1>21, <1>22, <1>23, <1>25 DEF CheckInv

-----------------------------------------------------------------------------
(* The enumeration and the loop over the users. *)

(* What the steps of the optimization leave alone that change neither the  *)
(* instructions nor the edges.                                             *)
LEMMA ProgramUnchanged ==
  ASSUME CheckInv, UNCHANGED <<fields, edges>>
  PROVE  /\ BlankBeyond' /\ CodeInOrder' /\ ChecksHaveOneInput'
         /\ UsesDominated' /\ Entered' /\ Substituted'
<1>1. /\ BlankBeyond /\ CodeInOrder /\ ChecksHaveOneInput
      /\ UsesDominated /\ Entered /\ Substituted
  BY DEF CheckInv
<1>2. UNCHANGED <<created, opcode, parentBB, dominance, inputs, users, code, substitute>>
  BY DEF fields, edges
<1>3. InCode' = InCode
  BY <1>2 DEF InCode
<1>4. BlankBeyond' /\ CodeInOrder' /\ ChecksHaveOneInput'
  BY <1>1, <1>2 DEF BlankBeyond, CodeInOrder, ChecksHaveOneInput, IsCheck
<1>5. UsesDominated' /\ Entered'
  BY <1>1, <1>2, <1>3 DEF UsesDominated, Before, Entered, EnteredIn
<1>6. Substituted'
  BY <1>1, <1>2, <1>3 DEF Substituted, Before, IsCheck
<1> QED
  BY <1>4, <1>5, <1>6

(* The callback for an instruction of a block, or for none. *)
LEMMA CallbackInv ==
  ASSUME CheckInv, NEW i \in InCode \cup {Null}, CallbackFor(i),
         pos' \in 0 .. Len(RpoVector), i # Null => pos' # 0
  PROVE  CheckInv'
<1>1. TypesOK /\ CodeInOrder
  BY DEF CheckInv
<1>2. /\ currInsn' = i /\ userIt' = 1 /\ checkToRemain' = Null
      /\ nextInsn' = IF i = Null THEN Null ELSE Behind(parentBB[i], i)
      /\ UNCHANGED <<fields, edges>>
  BY DEF CallbackFor
<1>3. UNCHANGED <<created, opcode, parentBB, dominance, inputs, users, code, substitute>>
  BY <1>2 DEF fields, edges
<1>4. /\ created \in Nat /\ InCode \subseteq 1 .. created /\ InCode \subseteq Insns
      /\ \A j \in InCode : parentBB[j] \in Blocks
      /\ \A b \in Blocks : Uses(code[b]) \subseteq InCode
  BY <1>1, InCodeFacts
<1>5. InCode' = InCode
  BY <1>3 DEF InCode
<1>6. i # Null =>
        \/ nextInsn' = Null
        \/ /\ nextInsn' \in Uses(code[parentBB[i]]) /\ i < nextInsn'
           /\ \A j \in Uses(code[parentBB[i]]) : j > i => j >= nextInsn'
  BY <1>1, <1>2, <1>4, BehindIsNext
<1>7. i \in 0 .. created /\ nextInsn' \in 0 .. created
  <2>1. i \in 0 .. created
    BY <1>4 DEF Null
  <2>2. nextInsn' \in InCode \/ nextInsn' = 0
    BY <1>2, <1>4, <1>6 DEF Null
  <2>3. \A j \in InCode : j \in 0 .. created
    BY <1>4
  <2>4. 0 \in 0 .. created
    BY <1>4
  <2> QED
    BY <2>1, <2>2, <2>3, <2>4
<1>8. TypesOK'
  BY <1>1, <1>2, <1>3, <1>4, <1>7 DEF TypesOK, Null
<1>9. Walk'
  BY <1>2, <1>3, <1>5, <1>6 DEF Walk
<1>10. Searched'
  <2>1. InLoop' => users[i] \in Seq(1 .. created)
    BY <1>1, <1>2, <1>4 DEF InLoop, TypesOK
  <2>2. InLoop' => 1 <= Len(users[i]) + 1
    BY <2>1
  <2> QED
    BY <1>2, <1>3, <2>2 DEF Searched
<1> QED
  BY <1>2, <1>8, <1>9, <1>10, ProgramUnchanged DEF CheckInv

(* The callback for the first instruction of the next block. *)
LEMMA EnumerateBlockInv ==
  ASSUME CheckInv, EnumerateBlock
  PROVE  CheckInv'
<1>1. TypesOK /\ CodeInOrder
  BY DEF CheckInv
<1> DEFINE b == RpoVector[pos']
           i == Behind(b, Null)
<1>2. pos' \in 1 .. Len(RpoVector) /\ b \in Blocks /\ CallbackFor(i)
  BY <1>1, ProgramAssumption DEF EnumerateBlock, TypesOK
<1>3. i \in InCode \cup {Null}
  <2>1. Null \in Nat
    BY DEF Null
  <2> HIDE DEF b
  <2> QED
    BY <1>1, <1>2, <2>1, BehindIsNext, InCodeFacts
<1> HIDE DEF i
<1> QED
  BY <1>2, <1>3, CallbackInv

(* The callback for the saved instruction, and the end of the enumeration. *)
LEMMA NextInsnInv ==
  ASSUME CheckInv, StopEnumeration \/ NextInsn
  PROVE  CheckInv'
<1>1. TypesOK /\ CodeInOrder /\ Walk
  BY DEF CheckInv
<1>2. currInsn # Null /\ pos' = pos
  BY DEF StopEnumeration, NextInsn, InLoop
<1>3. pos' \in 0 .. Len(RpoVector) /\ pos' # 0
  BY <1>1, <1>2 DEF Walk, TypesOK
<1>4. nextInsn \in InCode \cup {Null}
  BY <1>1, <1>2, InCodeFacts DEF Walk
<1>5. CASE StopEnumeration
  BY <1>3, <1>5, CallbackInv DEF StopEnumeration
<1>6. CASE NextInsn
  BY <1>3, <1>4, <1>6, CallbackInv DEF NextInsn
<1> QED
  BY <1>5, <1>6

(* A user that stays. *)
LEMMA PassUserInv ==
  ASSUME CheckInv, SkipUser \/ FirstCheck \/ KeepCheck
  PROVE  CheckInv'
<1>1. TypesOK /\ CodeInOrder /\ Walk /\ Searched /\ Entered
  BY DEF CheckInv
<1>2. /\ InLoop /\ currInsn # Null /\ opcode[currInsn] = "ref"
      /\ userIt <= Len(users[currInsn]) /\ userIt' = userIt + 1
      /\ UNCHANGED <<fields, edges, walk>>
  BY DEF SkipUser, FirstCheck, KeepCheck, AtUser, InLoop, DoesProduceReference
<1>3. UNCHANGED <<created, opcode, parentBB, dominance, inputs, users, code, substitute,
                  idxToCheck, maxArrIdx, pos, currInsn, nextInsn>>
  BY <1>2 DEF fields, edges, walk
<1>4. currInsn \in InCode /\ currInsn \in Insns
  BY <1>1, <1>2, InCodeFacts DEF Walk
<1> DEFINE us == users[currInsn]
           n == Len(us)
<1>5. us \in Seq(1 .. created) /\ n \in Nat /\ userIt \in 1 .. n /\ CurrUser = us[userIt]
  <2>1. us \in Seq(1 .. created)
    BY <1>1, <1>4 DEF TypesOK
  <2> QED
    BY <1>1, <1>2, <2>1 DEF TypesOK, CurrUser
<1> HIDE DEF n, us
<1>6. PICK d : d = CurrUser
  OBVIOUS
<1>7. /\ d = us[userIt] /\ d \in Uses(us) /\ d \in InCode /\ d \in 1 .. created
      /\ created \in Nat
  <2>1. d \in Uses(us)
    BY <1>5, <1>6 DEF Uses, n
  <2> QED
    BY <1>1, <1>4, <1>5, <1>6, <2>1, InCodeFacts DEF Entered, us
<1>8. \/ checkToRemain' = checkToRemain
      \/ checkToRemain = Null /\ checkToRemain' = d /\ IsCheck(d)
  BY <1>6 DEF SkipUser, FirstCheck, KeepCheck
<1>9. checkToRemain' \in 0 .. created
  BY <1>1, <1>7, <1>8 DEF TypesOK
<1>10. InCode' = InCode
  BY <1>3 DEF InCode
<1>11. TypesOK' /\ Walk'
  <2>1. userIt' \in Nat \ {0}
    BY <1>1, <1>2 DEF TypesOK
  <2>2. currInsn' # Null
    BY <1>2, <1>3
  <2> QED
    BY <1>1, <1>2, <1>3, <1>9, <1>10, <2>1, <2>2 DEF TypesOK, Walk
<1>12. checkToRemain' # Null =>
         InLoop' /\ IsCheck(checkToRemain)' /\ checkToRemain' \in Uses(users'[currInsn'])
  <2>1. InLoop'
    BY <1>2, <1>3 DEF InLoop, DoesProduceReference
  <2>2. CASE checkToRemain' = checkToRemain
    BY <1>1, <1>3, <2>1, <2>2 DEF Searched, IsCheck
  <2>3. CASE checkToRemain' = d /\ IsCheck(d)
    BY <1>3, <1>7, <2>1, <2>3 DEF IsCheck, us
  <2> QED
    BY <1>8, <2>2, <2>3
<1>13. ASSUME NEW e, Passed(e) PROVE Passed(e)'
  <2>1. IsCheck(e)' <=> IsCheck(e)
    BY <1>3 DEF IsCheck
  <2>2. CASE IsCheck(e)
    <3>1. checkToRemain # Null /\ checkToRemain' = checkToRemain
      BY <1>8, <1>13, <2>2 DEF Passed
    <3> QED
      BY <1>3, <1>13, <3>1 DEF Passed, IsCheck, DominatedOver, MayKeep,
         OperandsEqual, GetIdxToCheck
  <2> QED
    BY <2>1, <2>2 DEF Passed
<1>14. Passed(d)'
  <2>1. CASE SkipUser
    <3>1. ~IsCheck(d)
      BY <1>6, <2>1 DEF SkipUser
    <3> QED
      BY <1>3, <3>1 DEF Passed, IsCheck
  <2>2. CASE FirstCheck
    <3>1. checkToRemain' = d
      BY <1>6, <2>2 DEF FirstCheck
    <3>2. d \in Nat /\ d # Null
      BY <1>7 DEF Null
    <3> QED
      BY <3>1, <3>2 DEF Passed, DominatedOver
  <2>3. CASE KeepCheck
    <3>1. /\ checkToRemain # Null
          /\ DominatedOver(checkToRemain, d) => MayKeep(checkToRemain, d)
      BY <1>6, <2>3 DEF KeepCheck
    <3>2. checkToRemain' = checkToRemain
      BY <2>3 DEF KeepCheck
    <3> QED
      BY <1>3, <3>1, <3>2 DEF Passed, DominatedOver, MayKeep, OperandsEqual, GetIdxToCheck
  <2> QED
    BY <2>1, <2>2, <2>3
<1>15. Searched'
  <2>1. /\ userIt' <= n + 1 /\ users'[currInsn'] = us /\ Len(users'[currInsn']) = n
        /\ userIt' - 1 = userIt
    BY <1>2, <1>3, <1>5 DEF us, n
  <2>2. \A k \in 1 .. userIt : k = userIt \/ k \in 1 .. userIt - 1
    BY <1>5
  <2>3. \A k \in 1 .. userIt - 1 : Passed(us[k])
    BY <1>1, <1>2 DEF Searched, us
  <2>4. ASSUME NEW k \in 1 .. userIt PROVE \E e : e = us[k] /\ Passed(e)'
    BY <1>7, <1>13, <1>14, <2>2, <2>3
  <2>5. ASSUME NEW k \in 1 .. userIt' - 1 PROVE Passed(users[currInsn][k])'
    <3>1. PICK e : e = us[k] /\ Passed(e)'
      BY <2>1, <2>4
    <3>2. users'[currInsn'][k] = e
      BY <2>1, <3>1
    <3> QED
      BY <3>1, <3>2 DEF Passed, IsCheck, DominatedOver, MayKeep, OperandsEqual,
         GetIdxToCheck
  <2> QED
    BY <1>12, <2>1, <2>5 DEF Searched
<1> QED
  BY <1>2, <1>11, <1>15, ProgramUnchanged DEF CheckInv

-----------------------------------------------------------------------------
(* Taking a check away. *)

(* The users of an instruction are those that have it as an input. *)
LEMMA UsersHaveInput ==
  ASSUME TypesOK, CodeInOrder, Entered, NEW d \in InCode, NEW j \in InCode
  PROVE  j \in Uses(users[d]) <=> d \in Uses(inputs[j])
<1>1. d \in Insns /\ j \in Insns
  BY InCodeFacts
<1>2. users[d] \in Seq(1 .. created) /\ inputs[j] \in Seq(1 .. created)
  BY <1>1 DEF TypesOK
<1>3. /\ Count(users[d], j) \in Nat /\ (j \in Uses(users[d]) <=> Count(users[d], j) # 0)
      /\ Count(inputs[j], d) \in Nat /\ (d \in Uses(inputs[j]) <=> Count(inputs[j], d) # 0)
  BY <1>2, CountUses
<1>4. EnteredIn(j, d)
  BY DEF Entered
<1> QED
  BY <1>3, <1>4 DEF EnteredIn

(* A list of one. *)
LEMMA ListOfOne ==
  ASSUME NEW J, NEW s \in Seq(J), Len(s) = 1, NEW r \in Uses(s)
  PROVE  s = <<r>> /\ Uses(s) = {r}
BY DEF Uses

(* Passing over a user is not affected by a step that changes edges only. *)
LEMMA PassedStays ==
  ASSUME UNCHANGED <<fields, checkToRemain>>, NEW d, Passed(d)
  PROVE  Passed(d)'
BY DEF Passed, fields, IsCheck, DominatedOver, MayKeep, OperandsEqual, GetIdxToCheck

(* The check i, a user of the reference r, gives way to n. *)
Removes(i, n, r) ==
  /\ i = CurrUser /\ n = checkToRemain /\ r = currInsn
  /\ {i, n, r} \subseteq InCode /\ i # n /\ i # r /\ n # r
  /\ {i, n} \subseteq Uses(users[r])
  /\ opcode[r] = "ref" /\ IsCheck(i) /\ IsCheck(n)
  /\ inputs[i] = <<r>> /\ Uses(inputs[i]) = {r} /\ inputs[n] = <<r>>
  /\ Before(r, n) /\ Before(r, i) /\ Before(n, i)
  /\ userIt \in 1 .. Len(users[r]) /\ users[r][userIt] = i

(* What RemoveCheck finds. *)
LEMMA RemovesFacts ==
  ASSUME CheckInv, RemoveCheck
  PROVE  Removes(CurrUser, checkToRemain, currInsn)
<1>1. /\ TypesOK /\ CodeInOrder /\ ChecksHaveOneInput /\ UsesDominated /\ Entered
      /\ Walk /\ Searched
  BY DEF CheckInv
<1>2. PICK i, n, r : i = CurrUser /\ n = checkToRemain /\ r = currInsn
  OBVIOUS
<1>3. /\ InLoop /\ r # Null /\ opcode[r] = "ref" /\ userIt <= Len(users[r])
      /\ IsCheck(i) /\ n # Null /\ DominatedOver(n, i)
  BY <1>2 DEF RemoveCheck, AtUser, InLoop, DoesProduceReference
<1>4. /\ IsCheck(n) /\ n \in Uses(users[r]) /\ r \in InCode
  BY <1>1, <1>2, <1>3 DEF Searched, Walk
<1>5. /\ created \in Nat /\ InCode \subseteq Insns
      /\ \A j \in InCode : parentBB[j] \in Blocks
  BY <1>1, InCodeFacts
<1>6. users[r] \in Seq(1 .. created)
  BY <1>1, <1>4, <1>5 DEF TypesOK
<1>7. userIt \in 1 .. Len(users[r]) /\ users[r][userIt] = i
  BY <1>1, <1>2, <1>3 DEF CurrUser, TypesOK
<1>8. i \in Uses(users[r])
  BY <1>7 DEF Uses
<1>9. i \in InCode /\ n \in InCode
  BY <1>1, <1>4, <1>8 DEF Entered
<1>10. r \in Uses(inputs[i]) /\ r \in Uses(inputs[n])
  BY <1>1, <1>4, <1>8, <1>9, UsersHaveInput
<1>11. /\ inputs[i] \in Seq(1 .. created) /\ inputs[n] \in Seq(1 .. created)
       /\ Len(inputs[i]) = 1 /\ Len(inputs[n]) = 1
  BY <1>1, <1>3, <1>4, <1>5, <1>9 DEF TypesOK, ChecksHaveOneInput
<1>12. inputs[i] = <<r>> /\ Uses(inputs[i]) = {r} /\ inputs[n] = <<r>>
  BY <1>10, <1>11, ListOfOne
<1>13. Before(r, i) /\ Before(r, n)
  BY <1>1, <1>9, <1>10 DEF UsesDominated
<1>14. Before(n, i)
  BY <1>3 DEF DominatedOver, Before
<1>15. i # n /\ i # r /\ n # r
  <2>1. ~Before(i, i) /\ ~Before(r, r)
    BY <1>1, <1>4, <1>5, <1>9, BeforeIsOrder
  <2> QED
    BY <1>13, <1>14, <2>1
<1> QED
  BY <1>2, <1>3, <1>4, <1>7, <1>8, <1>9, <1>12, <1>13, <1>14, <1>15 DEF Removes

(* The edges after RemoveCheck: the users of i have become users of n, and *)
(* r has forgotten i.                                                      *)
Redirected(i, n, r) ==
  /\ \A j \in Insns : /\ inputs'[j] \in Seq(1 .. created)
                      /\ Len(inputs'[j]) = Len(inputs[j])
                      /\ j \notin Uses(users[i]) => inputs'[j] = inputs[j]
  /\ \A j \in InCode :
       Uses(inputs'[j]) = IF i \in Uses(inputs[j]) THEN (Uses(inputs[j]) \ {i}) \cup {n}
                          ELSE Uses(inputs[j])
  /\ \A j \in InCode : \A d \in InCode \ {i} :
       Count(inputs'[j], d) = Count(inputs[j], d)
                              + (IF d = n THEN Count(inputs[j], i) ELSE 0)
  /\ inputs' \in [Insns -> Seq(1 .. created)]
  /\ users' \in [Insns -> Seq(1 .. created)]
  /\ \A d \in Insns \ {i, n, r} : users'[d] = users[d]
  /\ users'[r] = RemoveFirst(users[r], i)
  /\ \A x : x # i => Count(users'[r], x) = Count(users[r], x)
  /\ Count(users'[r], i) = 0
  /\ \E s \in Seq(1 .. created) :
       /\ Uses(s) = Uses(users[i]) /\ \A x : Count(s, x) <= 1
       /\ \A x : Count(users'[n], x) = Count(users[n], x) + Count(s, x)

(* RemoveCheck redirects the edges so. *)
LEMMA RedirectedFacts ==
  ASSUME CheckInv, NEW i, NEW n, NEW r, Removes(i, n, r), ReplaceAndForget(i, n)
  PROVE  Redirected(i, n, r)
<1>1. TypesOK /\ CodeInOrder /\ Entered
  BY DEF CheckInv
<1>2. /\ {i, n, r} \subseteq InCode /\ i # n /\ i # r /\ n # r
      /\ inputs[i] = <<r>> /\ i \in Uses(users[r])
  BY DEF Removes
<1> DEFINE J == 1 .. created
           D == Distinct(users[i])
           us1 == MoveUsers(users, D, i, n)
<1>3. /\ inputs' = [j \in Insns |-> IF j \in Uses(users[i])
                                    THEN ReplaceAll(inputs[j], i, n) ELSE inputs[j]]
      /\ users' = RemoveUsers(us1, inputs[i], i)
  BY DEF ReplaceAndForget
<1>4. /\ {i, n, r} \subseteq Insns /\ {i, n, r} \subseteq J /\ InCode \subseteq Insns
      /\ users \in Lists(Insns, J) /\ inputs \in [Insns -> Seq(J)]
  BY <1>1, <1>2, InCodeFacts DEF TypesOK, Lists
<1> HIDE DEF J
<1>5. /\ D \in Seq(J) /\ Uses(D) = Uses(users[i]) /\ \A x : Count(D, x) <= 1
  <2>1. users[i] \in Seq(J)
    BY <1>4 DEF Lists
  <2> QED
    BY <2>1, DistinctOnce
<1> HIDE DEF D
<1>6. us1 \in Lists(Insns, J) /\ Moves(Insns, users, us1, D, i, n)
  <2> HIDE DEF us1
  <2>1. i \in Insns /\ n \in Insns
    BY <1>4
  <2> QED
    BY <1>2, <1>4, <1>5, <2>1, MoveUsersMoves DEF us1
<1> HIDE DEF us1
<1>7. inputs[i] \in Seq(Insns) /\ Len(inputs[i]) = 1 /\ inputs[i][1] = r
  BY <1>2, <1>4
<1>8. users' \in Lists(Insns, J) /\ Leaves(Insns, us1, users', inputs[i], i)
  BY <1>3, <1>6, <1>7, RemoveUsersLeaves
<1>9. users' = RemoveUser(us1, r, i)
  <2>1. PICK chain \in [0 .. Len(inputs[i]) -> Lists(Insns, J)] :
          LeavesInSteps(chain, us1, users', inputs[i], i)
    BY <1>3, <1>6, <1>7, RemoveUsersSteps
  <2>2. /\ chain[0] = us1 /\ chain[1] = users'
        /\ \A k \in 1 .. 1 : chain[k] = RemoveUser(chain[k - 1], inputs[i][k], i)
    BY <1>7, <2>1 DEF LeavesInSteps
  <2>3. chain[1] = RemoveUser(chain[1 - 1], inputs[i][1], i)
    BY <2>2
  <2> QED
    BY <1>7, <2>2, <2>3
<1>10. us1[r] = users[r] /\ \A d \in Insns \ {i, n, r} : us1[d] = users[d]
  BY <1>2, <1>4, <1>6 DEF Moves
<1>11. /\ users'[r] = RemoveFirst(users[r], i)
       /\ \A d \in Insns \ {r} : users'[d] = us1[d]
  BY <1>4, <1>6, <1>9, <1>10 DEF RemoveUser, Lists
<1>12. \A d \in Insns \ {i, n, r} : users'[d] = users[d]
  BY <1>10, <1>11
<1>13. \A x : Count(users'[n], x) = Count(users[n], x) + Count(D, x)
  <2>1. users'[n] = us1[n] /\ n \in Insns \ {i}
    BY <1>2, <1>4, <1>11
  <2> QED
    BY <1>6, <2>1 DEF Moves
<1>14. /\ \A x : x # i => Count(users'[r], x) = Count(users[r], x)
       /\ Count(users'[r], i) = 0
  <2>1. /\ \A x : x # i => Count(users'[r], x) = Count(us1[r], x)
        /\ Count(us1[r], i) <= Count(inputs[i], r) => Count(users'[r], i) = 0
    BY <1>4, <1>8 DEF Leaves
  <2>2. Count(users[r], i) <= Count(inputs[i], r)
    BY <1>1, <1>2 DEF Entered, EnteredIn
  <2> QED
    BY <1>10, <2>1, <2>2
<1>15. ASSUME NEW j \in Insns
       PROVE  /\ inputs'[j] \in Seq(J) /\ Len(inputs'[j]) = Len(inputs[j])
              /\ j \notin Uses(users[i]) => inputs'[j] = inputs[j]
              /\ j \in Uses(users[i]) => inputs'[j] = ReplaceAll(inputs[j], i, n)
  <2>1. inputs[j] \in Seq(J) /\ n \in J
    BY <1>4
  <2>2. ReplaceAll(inputs[j], i, n) \in Seq(J)
    BY <2>1, CountReplaceAll
  <2>3. Len(ReplaceAll(inputs[j], i, n)) = Len(inputs[j])
    BY <2>1 DEF ReplaceAll
  <2> QED
    BY <1>3, <2>1, <2>2, <2>3
<1>16. ASSUME NEW j \in InCode
       PROVE  /\ Uses(inputs'[j]) = IF i \in Uses(inputs[j])
                                    THEN (Uses(inputs[j]) \ {i}) \cup {n}
                                    ELSE Uses(inputs[j])
              /\ \A d \in InCode \ {i} :
                   Count(inputs'[j], d) = Count(inputs[j], d)
                                          + (IF d = n THEN Count(inputs[j], i) ELSE 0)
  <2>1. j \in Uses(users[i]) <=> i \in Uses(inputs[j])
    BY <1>1, <1>2, UsersHaveInput
  <2>2. inputs[j] \in Seq(J) /\ n \in J /\ j \in Insns
    BY <1>4
  <2>3. \A d : /\ Count(inputs[j], d) \in Nat
               /\ d \in Uses(inputs[j]) <=> Count(inputs[j], d) # 0
    BY <2>2, CountUses
  <2>4. CASE i \in Uses(inputs[j])
    <3>1. inputs'[j] = ReplaceAll(inputs[j], i, n)
      BY <1>15, <2>1, <2>2, <2>4
    <3>2. Uses(inputs'[j]) = (Uses(inputs[j]) \ {i}) \cup {n}
      BY <2>2, <2>4, <3>1, UsesReplaceAll
    <3>3. ASSUME NEW d \in InCode \ {i}
          PROVE  Count(inputs'[j], d) = Count(inputs[j], d)
                                        + (IF d = n THEN Count(inputs[j], i) ELSE 0)
      <4>1. Count(ReplaceAll(inputs[j], i, n), d) =
              IF i = n THEN Count(inputs[j], d)
              ELSE IF d = i THEN 0
              ELSE IF d = n THEN Count(inputs[j], n) + Count(inputs[j], i)
              ELSE Count(inputs[j], d)
        BY <2>2, CountReplaceAll
      <4> QED
        BY <1>2, <2>3, <3>1, <4>1
    <3> QED
      BY <2>4, <3>2, <3>3
  <2>5. CASE i \notin Uses(inputs[j])
    <3>1. inputs'[j] = inputs[j]
      BY <1>15, <2>1, <2>2, <2>5
    <3>2. Count(inputs[j], i) = 0
      BY <2>3, <2>5
    <3> QED
      BY <2>3, <2>5, <3>1, <3>2
  <2> QED
    BY <2>4, <2>5
<1>17. inputs' \in [Insns -> Seq(J)]
  BY <1>3, <1>15
<1>18. users' \in [Insns -> Seq(J)]
  BY <1>8 DEF Lists
<1> QED
  BY <1>5, <1>11, <1>12, <1>13, <1>14, <1>15, <1>16, <1>17, <1>18 DEF Redirected, J

(* Taking the check out of its block and out of the lists of users keeps   *)
(* the invariant.                                                          *)
LEMMA RemoveCheckInv ==
  ASSUME CheckInv, RemoveCheck
  PROVE  CheckInv'
<1>1. /\ TypesOK /\ BlankBeyond /\ CodeInOrder /\ ChecksHaveOneInput
      /\ UsesDominated /\ Entered /\ Substituted /\ Walk /\ Searched
  BY DEF CheckInv
<1>2. PICK i, n, r : i = CurrUser /\ n = checkToRemain /\ r = currInsn
  OBVIOUS
<1>3. Removes(i, n, r)
  BY <1>2, RemovesFacts
<1>4. /\ {i, n, r} \subseteq InCode /\ i # n /\ i # r /\ n # r
      /\ {i, n} \subseteq Uses(users[r])
      /\ opcode[r] = "ref" /\ IsCheck(i) /\ IsCheck(n)
      /\ inputs[i] = <<r>> /\ Uses(inputs[i]) = {r} /\ inputs[n] = <<r>>
      /\ Before(r, n) /\ Before(r, i) /\ Before(n, i)
      /\ userIt \in 1 .. Len(users[r]) /\ users[r][userIt] = i
      /\ n = checkToRemain /\ r = currInsn
  BY <1>3 DEF Removes
<1> DEFINE b == parentBB[i]
<1>5. /\ ReplaceAndForget(i, n)
      /\ code' = [code EXCEPT ![b] = RemoveFirst(code[b], i)]
      /\ substitute' = [substitute EXCEPT ![i] = n]
      /\ UNCHANGED <<fields, loop, walk>>
  BY <1>2 DEF RemoveCheck
<1>6. UNCHANGED <<created, opcode, parentBB, dominance, idxToCheck, maxArrIdx, pos,
                  currInsn, nextInsn, userIt, checkToRemain>>
  BY <1>5 DEF fields, loop, walk
<1>7. Redirected(i, n, r)
  BY <1>3, <1>5, RedirectedFacts
<1>8. /\ created \in Nat /\ 1 .. created \subseteq Insns /\ Insns \subseteq Nat \ {0}
      /\ InCode \subseteq 1 .. created /\ InCode \subseteq Insns
      /\ \A j \in InCode : parentBB[j] \in Blocks /\ j \in Uses(code[parentBB[j]])
      /\ \A c \in Blocks : Uses(code[c]) \subseteq InCode
  BY <1>1, InCodeFacts
<1>9. /\ code'[b] \in Seq(1 .. created) /\ Ascending(code'[b])
      /\ Uses(code'[b]) = Uses(code[b]) \ {i}
  <2>1. /\ b \in Blocks /\ i \in Uses(code[b])
        /\ code[b] \in Seq(1 .. created) /\ Ascending(code[b])
    BY <1>1, <1>4, <1>8 DEF TypesOK, CodeInOrder
  <2>2. code'[b] = RemoveFirst(code[b], i)
    BY <1>1, <1>5, <2>1 DEF TypesOK
  <2>3. 1 .. created \in SUBSET Nat
    OBVIOUS
  <2> DEFINE s == code[b]
             J == 1 .. created
  <2> HIDE DEF s, J, b
  <2>4. s \in Seq(J) /\ Ascending(s) /\ i \in Uses(s) /\ J \in SUBSET Nat
    BY <2>1, <2>3 DEF s, J
  <2>5. /\ RemoveFirst(s, i) \in Seq(J) /\ Ascending(RemoveFirst(s, i))
        /\ Uses(RemoveFirst(s, i)) = Uses(s) \ {i}
    BY <2>4, RemovedFromOrder
  <2> QED
    BY <2>2, <2>5 DEF s, J
<1>10. \A c \in Blocks : c # b => code'[c] = code[c] /\ i \notin Uses(code[c])
  BY <1>1, <1>5 DEF TypesOK, CodeInOrder
<1>11. \A c \in Blocks : Uses(code'[c]) = Uses(code[c]) \ {i}
  BY <1>9, <1>10
<1>12. InCode' = InCode \ {i}
  <2>1. \A x : x \in InCode <=> \E c \in Blocks : x \in Uses(code[c])
    BY DEF InCode
  <2>2. \A x : x \in InCode' <=> \E c \in Blocks : x \in Uses(code'[c])
    BY DEF InCode
  <2> QED
    BY <1>11, <2>1, <2>2
<1>13. \A j, k : Before(j, k)' <=> Before(j, k)
  BY <1>6 DEF Before
<1>14. \A j : IsCheck(j)' <=> IsCheck(j)
  BY <1>6 DEF IsCheck
<1>15. \A j \in Insns : j \notin InCode => inputs'[j] = inputs[j]
  BY <1>1, <1>4, <1>7 DEF Entered, Redirected
<1>16. \A j \in InCode : j \in Uses(users[i]) <=> i \in Uses(inputs[j])
  BY <1>1, <1>4, UsersHaveInput
<1>17. TypesOK'
  <2>1. code' \in [Blocks -> Seq(1 .. created)]
    <3>1. code \in [Blocks -> Seq(1 .. created)]
      BY <1>1 DEF TypesOK
    <3> QED
      BY <1>5, <1>9, <1>10, <3>1
  <2>2. substitute' \in [Insns -> 0 .. created]
    <3>1. n \in 1 .. created
      BY <1>4, <1>8
    <3>2. n \in 0 .. created
      BY <1>8, <3>1
    <3> QED
      BY <1>1, <1>5, <3>2 DEF TypesOK
  <2>3. inputs' \in [Insns -> Seq(1 .. created)] /\ users' \in [Insns -> Seq(1 .. created)]
    BY <1>7 DEF Redirected
  <2> QED
    BY <1>1, <1>6, <2>1, <2>2, <2>3 DEF TypesOK
<1>18. BlankBeyond'
  <2> SUFFICES ASSUME NEW j \in Insns, j > created
               PROVE  /\ inputs'[j] = <<>> /\ users'[j] = <<>>
                      /\ opcode'[j] = "none" /\ substitute'[j] = Null
    BY <1>6 DEF BlankBeyond
  <2>1. j \notin InCode /\ j \notin {i, n, r}
    BY <1>4, <1>8
  <2>2. inputs[j] = <<>> /\ users[j] = <<>> /\ opcode[j] = "none" /\ substitute[j] = Null
    BY <1>1 DEF BlankBeyond
  <2>3. users'[j] = users[j]
    BY <1>7, <2>1 DEF Redirected
  <2>4. substitute'[j] = substitute[j]
    BY <1>1, <1>5, <2>1 DEF TypesOK
  <2> QED
    BY <1>6, <1>15, <2>1, <2>2, <2>3, <2>4
<1>19. CodeInOrder'
  <2> SUFFICES ASSUME NEW c \in Blocks
               PROVE  Ascending(code'[c]) /\ \A j \in Uses(code'[c]) : parentBB'[j] = c
    BY DEF CodeInOrder, Ascending
  <2>1. Ascending(code'[c])
    BY <1>1, <1>9, <1>10 DEF CodeInOrder
  <2> QED
    BY <1>1, <1>6, <1>11, <2>1 DEF CodeInOrder
<1>20. ChecksHaveOneInput'
  <2> SUFFICES ASSUME NEW j \in Insns, IsCheck(j)' PROVE Len(inputs'[j]) = 1
    BY DEF ChecksHaveOneInput
  <2> QED
    BY <1>1, <1>7, <1>14 DEF ChecksHaveOneInput, Redirected
<1>21. UsesDominated'
  <2> SUFFICES ASSUME NEW j \in InCode \ {i}, NEW d \in Uses(inputs'[j])
               PROVE  d \in InCode \ {i} /\ Before(d, j)
    BY <1>12, <1>13 DEF UsesDominated
  <2>1. Uses(inputs'[j]) = IF i \in Uses(inputs[j]) THEN (Uses(inputs[j]) \ {i}) \cup {n}
                           ELSE Uses(inputs[j])
    BY <1>7 DEF Redirected
  <2>2. CASE d \in Uses(inputs[j]) /\ d # i
    BY <1>1, <2>2 DEF UsesDominated
  <2>3. CASE d = n /\ i \in Uses(inputs[j])
    <3>1. Before(n, i) /\ Before(i, j)
      BY <1>1, <1>4, <2>3 DEF UsesDominated
    <3>2. Before(n, j)
      BY <1>1, <1>4, <1>8, <3>1, BeforeIsOrder
    <3> QED
      BY <1>4, <2>3, <3>2
  <2> QED
    BY <2>1, <2>2, <2>3
<1>22. PICK s \in Seq(1 .. created) :
         /\ Uses(s) = Uses(users[i]) /\ \A x : Count(s, x) <= 1
         /\ \A x : Count(users'[n], x) = Count(users[n], x) + Count(s, x)
  BY <1>7 DEF Redirected
<1>23. ASSUME NEW d \in InCode, NEW x
       PROVE  /\ Count(users[d], x) \in Nat
              /\ x \in Uses(users[d]) <=> Count(users[d], x) # 0
              /\ Count(users'[d], x) \in Nat
              /\ x \in Uses(users'[d]) <=> Count(users'[d], x) # 0
              /\ Count(s, x) \in Nat
              /\ x \in Uses(s) <=> Count(s, x) # 0
  <2>1. users[d] \in Seq(1 .. created) /\ users'[d] \in Seq(1 .. created)
    BY <1>1, <1>6, <1>8, <1>17 DEF TypesOK
  <2> QED
    BY <2>1, CountUses
<1>24. Entered'
  <2>1. ASSUME NEW d \in InCode \ {i} PROVE Uses(users'[d]) \subseteq InCode \ {i}
    <3>1. Uses(users[d]) \subseteq InCode
      BY <1>1 DEF Entered
    <3>2. i \in Uses(users[d]) => d = r
      BY <1>1, <1>4, UsersHaveInput
    <3>3. i \notin Uses(s) /\ Uses(s) \subseteq InCode
      BY <1>1, <1>4, <1>16, <1>22 DEF Entered
    <3>4. ASSUME NEW x \in Uses(users'[d]) PROVE x \in InCode \ {i}
      <4>1. CASE d = r
        <5>1. Count(users'[r], x) # 0
          BY <1>23, <3>4, <4>1
        <5>2. x # i
          BY <1>7, <5>1 DEF Redirected
        <5>3. Count(users[r], x) # 0
          BY <1>7, <5>1, <5>2 DEF Redirected
        <5> QED
          BY <1>23, <3>1, <4>1, <5>2, <5>3
      <4>2. CASE d = n
        <5>1. Count(users[n], x) # 0 \/ Count(s, x) # 0
          <6>1. /\ Count(users'[n], x) # 0
                /\ Count(users'[n], x) = Count(users[n], x) + Count(s, x)
            BY <1>22, <1>23, <3>4, <4>2
          <6>2. Count(users[n], x) \in Nat /\ Count(s, x) \in Nat
            BY <1>4, <1>23
          <6> QED
            BY <6>1, <6>2
        <5>2. x \in Uses(users[n]) \/ x \in Uses(s)
          BY <1>4, <1>23, <5>1
        <5> QED
          BY <1>4, <3>1, <3>2, <3>3, <4>2, <5>2
      <4>3. CASE d # r /\ d # n
        <5>1. users'[d] = users[d]
          BY <1>7, <1>8, <4>3 DEF Redirected
        <5> QED
          BY <3>1, <3>2, <3>4, <4>3, <5>1
      <4> QED
        BY <4>1, <4>2, <4>3
    <3> QED
      BY <3>4
  <2>2. ASSUME NEW j \in InCode \ {i}, NEW d \in InCode \ {i}
        PROVE  /\ Count(users'[d], j) <= Count(inputs'[j], d)
               /\ d \in Uses(inputs'[j]) => j \in Uses(users'[d])
    <3>1. /\ Count(users[d], j) <= Count(inputs[j], d)
          /\ d \in Uses(inputs[j]) => j \in Uses(users[d])
      BY <1>1 DEF Entered, EnteredIn
    <3>2. Count(inputs'[j], d) = Count(inputs[j], d)
                                 + (IF d = n THEN Count(inputs[j], i) ELSE 0)
      BY <1>7 DEF Redirected
    <3>3. Uses(inputs'[j]) = IF i \in Uses(inputs[j]) THEN (Uses(inputs[j]) \ {i}) \cup {n}
                             ELSE Uses(inputs[j])
      BY <1>7 DEF Redirected
    <3>4. /\ Count(inputs[j], d) \in Nat /\ Count(inputs[j], i) \in Nat
          /\ i \in Uses(inputs[j]) <=> Count(inputs[j], i) # 0
      <4>1. inputs[j] \in Seq(1 .. created)
        BY <1>1, <1>8 DEF TypesOK
      <4> QED
        BY <4>1, CountUses
    <3>5. CASE d = n
      <4>1. Count(users'[n], j) = Count(users[n], j) + Count(s, j) /\ Count(s, j) <= 1
        BY <1>22
      <4>2. /\ Count(users[n], j) \in Nat /\ Count(s, j) \in Nat
            /\ j \in Uses(users[n]) <=> Count(users[n], j) # 0
            /\ j \in Uses(users'[n]) <=> Count(users'[n], j) # 0
            /\ j \in Uses(s) <=> Count(s, j) # 0
        BY <1>4, <1>23
      <4>3. Count(s, j) # 0 <=> Count(inputs[j], i) # 0
        BY <1>16, <1>22, <3>4, <4>2
      <4>4. Count(users'[n], j) <= Count(inputs'[j], d)
        BY <3>1, <3>2, <3>4, <3>5, <4>1, <4>2, <4>3
      <4>5. ASSUME n \in Uses(inputs'[j]) PROVE Count(users'[n], j) # 0
        <5>1. n \in Uses(inputs[j]) \/ i \in Uses(inputs[j])
          BY <3>3, <4>5
        <5> QED
          BY <3>1, <3>4, <3>5, <4>1, <4>2, <4>3, <5>1
      <4> QED
        BY <3>5, <4>2, <4>4, <4>5
    <3>6. CASE d # n
      <4>1. Count(inputs'[j], d) = Count(inputs[j], d)
        BY <3>2, <3>4, <3>6
      <4>2. d \in Uses(inputs'[j]) => d \in Uses(inputs[j])
        BY <3>3, <3>6
      <4>3. Count(users'[d], j) = Count(users[d], j)
        BY <1>7, <1>8, <3>6 DEF Redirected
      <4> QED
        BY <1>23, <3>1, <4>1, <4>2, <4>3
    <3> QED
      BY <3>5, <3>6
  <2> QED
    BY <1>12, <2>1, <2>2 DEF Entered, EnteredIn
<1>25. inputs'[i] = inputs[i] /\ inputs'[n] = inputs[n]
  <2>1. Uses(inputs[n]) = {r}
    BY <1>4
  <2>2. i \notin Uses(users[i]) /\ n \notin Uses(users[i])
    BY <1>4, <1>16, <2>1
  <2> QED
    BY <1>4, <1>7, <1>8, <2>2 DEF Redirected
<1>26. Substituted'
  <2> SUFFICES ASSUME NEW c \in Insns, substitute'[c] # Null
               PROVE  /\ c \notin InCode \ {i}
                      /\ \E q \in Insns : opcode[q] = "ref" /\ inputs'[c] = <<q>>
                      /\ \E k \in InCode \ {i} :
                           IsCheck(k) /\ inputs'[k] = inputs'[c] /\ Before(k, c)
    BY <1>6, <1>12, <1>13, <1>14 DEF Substituted
  <2>1. CASE c = i
    BY <1>4, <1>8, <1>25, <2>1
  <2>2. CASE c # i
    <3>1. substitute[c] # Null
      BY <1>1, <1>5, <2>2 DEF TypesOK
    <3>2. c \notin InCode /\ inputs'[c] = inputs[c]
      BY <1>1, <1>15, <3>1 DEF Substituted
    <3>3. PICK q \in Insns : opcode[q] = "ref" /\ inputs[c] = <<q>>
      BY <1>1, <3>1 DEF Substituted
    <3>4. PICK k \in InCode : IsCheck(k) /\ inputs[k] = inputs[c] /\ Before(k, c)
      BY <1>1, <3>1 DEF Substituted
    <3>5. CASE k = i
      <4>1. Before(n, c)
        BY <1>1, <1>4, <1>8, <3>4, <3>5, BeforeIsOrder
      <4> QED
        BY <1>4, <1>25, <3>2, <3>3, <3>4, <3>5, <4>1
    <3>6. CASE k # i
      <4>1. i # q
        BY <1>4, <3>3 DEF IsCheck
      <4>2. Uses(inputs[k]) = {q}
        BY <3>3, <3>4 DEF Uses
      <4>3. inputs'[k] = inputs[k]
        BY <1>7, <1>8, <1>16, <3>4, <4>1, <4>2 DEF Redirected
      <4> QED
        BY <3>2, <3>3, <3>4, <3>6, <4>3
    <3> QED
      BY <3>5, <3>6
  <2> QED
    BY <2>1, <2>2
<1>27. Walk'
  <2>1. parentBB[r] \in Blocks
    BY <1>4, <1>8
  <2>2. nextInsn # Null => nextInsn # i
    <3> SUFFICES ASSUME nextInsn = i, nextInsn # Null PROVE FALSE
      OBVIOUS
    <3>1. /\ i \in Uses(code[parentBB[r]])
          /\ \A j \in Uses(code[parentBB[r]]) : j > r => j >= i
      BY <1>1, <1>4 DEF Walk
    <3>2. parentBB[r] = parentBB[i]
      BY <1>1, <2>1, <3>1 DEF CodeInOrder
    <3>3. parentBB[r] = parentBB[n] /\ r < n /\ n < i
      BY <1>1, <1>4, <1>8, <3>2, BeforeIsOrder
    <3>4. n \in Uses(code[parentBB[r]])
      BY <1>4, <1>8, <3>3
    <3>5. r \in Nat /\ n \in Nat /\ i \in Nat
      BY <1>4, <1>8
    <3>6. n > r
      BY <3>3, <3>5
    <3>7. n >= i
      BY <3>1, <3>4, <3>6
    <3> QED
      BY <3>3, <3>5, <3>7
  <2> QED
    BY <1>1, <1>4, <1>6, <1>11, <1>12, <2>1, <2>2 DEF Walk
<1>28. Searched'
  <2> DEFINE us == users[r]
             m == Len(us)
             vs == RemoveFirst(us, i)
  <2>1. us \in Seq(1 .. created) /\ i \in Uses(us) /\ m \in Nat
    BY <1>1, <1>4, <1>8 DEF TypesOK
  <2>2. users'[r] = vs
    BY <1>7 DEF Redirected
  <2> HIDE DEF us, vs
  <2>3. PICK p \in 1 .. Len(us) : WithoutFirst(us, vs, i, p)
    BY <2>1, RemoveFirstAt DEF vs
  <2>4. /\ us[p] = i /\ \A k \in 1 .. p - 1 : us[k] # i
        /\ vs = [k \in 1 .. m - 1 |-> IF k < p THEN us[k] ELSE us[k + 1]]
    BY <2>3 DEF WithoutFirst
  <2> HIDE DEF m
  <2>5. userIt \in 1 .. m /\ us[userIt] = i /\ p \in 1 .. m
    BY <1>4, <2>3 DEF us, m
  <2>6. p <= userIt
    BY <2>1, <2>4, <2>5
  <2>7. Len(vs) = m - 1
    BY <2>1, <2>4, <2>5
  <2>8. userIt <= Len(vs) + 1
    BY <2>1, <2>5, <2>7
  <2>9. /\ n # Null /\ InLoop
        /\ \A k \in 1 .. userIt - 1 : Passed(us[k])
    <3>1. n # Null
      BY <1>4, <1>8 DEF Null
    <3> QED
      BY <1>1, <1>4, <3>1 DEF Searched, us
  <2>10. ASSUME NEW k \in 1 .. userIt - 1 PROVE Passed(vs[k])
    <3>1. k \in 1 .. m - 1
      BY <2>1, <2>5
    <3>2. vs[k] = IF k < p THEN us[k] ELSE us[k + 1]
      BY <2>4, <3>1
    <3>3. CASE k < p
      BY <2>9, <3>2, <3>3
    <3>4. CASE ~(k < p) /\ k + 1 # userIt
      <4>1. k + 1 \in 1 .. userIt - 1
        BY <2>5, <3>4
      <4> QED
        BY <2>9, <3>2, <3>4, <4>1
    <3>5. CASE ~(k < p) /\ k + 1 = userIt
      <4>1. p \in 1 .. userIt - 1
        BY <2>5, <3>5
      <4> QED
        BY <2>4, <2>5, <2>9, <3>2, <3>5, <4>1
    <3> QED
      BY <3>3, <3>4, <3>5
  <2>11. n \in Uses(users'[r])
    <3>1. Count(users'[r], n) = Count(users[r], n)
      BY <1>4, <1>7 DEF Redirected
    <3> QED
      BY <1>4, <1>23, <3>1
  <2>12. InLoop'
    BY <1>6, <2>9 DEF InLoop, DoesProduceReference
  <2>13. ASSUME NEW k \in 1 .. userIt - 1 PROVE Passed(users[currInsn][k])'
    <3>1. PICK e : e = vs[k] /\ Passed(e)
      BY <2>10
    <3>2. Passed(e)'
      BY <1>5, <1>6, <3>1, PassedStays
    <3>3. users'[currInsn'][k] = e
      BY <1>4, <1>6, <2>2, <3>1
    <3> QED
      BY <3>2, <3>3 DEF Passed, IsCheck, DominatedOver, MayKeep, OperandsEqual,
         GetIdxToCheck
  <2> QED
    BY <1>4, <1>6, <1>14, <2>2, <2>8, <2>11, <2>12, <2>13 DEF Searched
<1> QED
  BY <1>17, <1>18, <1>19, <1>20, <1>21, <1>24, <1>26, <1>27, <1>28 DEF CheckInv

-----------------------------------------------------------------------------
(* Every step keeps the invariant. *)

(* Before the first instruction is created it holds. *)
LEMMA CheckInitInv ==
  ASSUME CheckInit
  PROVE  CheckInv
<1>1. InCode = {}
  BY DEF CheckInit, InCode, Uses
<1>2. /\ opcode = [i \in Insns |-> "none"]
      /\ inputs = [i \in Insns |-> <<>>] /\ users = [i \in Insns |-> <<>>]
      /\ code = [b \in Blocks |-> <<>>] /\ substitute = [i \in Insns |-> Null]
      /\ created = 0 /\ pos = 0 /\ currInsn = Null /\ nextInsn = Null
      /\ checkToRemain = Null /\ userIt = 1
  BY DEF CheckInit
<1>3. TypesOK
  <2>1. Len(RpoVector) \in Nat /\ MAX_INSNS \in Nat
    BY ProgramAssumption
  <2>2. <<>> \in Seq(1 .. created)
    OBVIOUS
  <2>3. parentBB \in [Insns -> Blocks \cup {Null}] /\ dominance \in Dominances
    BY DEF CheckInit
  <2> QED
    BY <1>2, <2>1, <2>2, <2>3 DEF TypesOK, Opcodes, Null
<1>4. BlankBeyond /\ ChecksHaveOneInput /\ Substituted
  BY <1>2 DEF BlankBeyond, ChecksHaveOneInput, IsCheck, Substituted
<1>5. CodeInOrder
  BY <1>2 DEF CodeInOrder, Ascending, Uses
<1>6. UsesDominated /\ Entered
  BY <1>1 DEF UsesDominated, Entered
<1>7. Walk /\ Searched
  BY <1>2 DEF Walk, Searched, InLoop
<1> QED
  BY <1>3, <1>4, <1>5, <1>6, <1>7 DEF CheckInv

(* IrBuilder's steps. *)
LEMMA BuildInv ==
  ASSUME CheckInv, Build
  PROVE  CheckInv'
<1>1. pos = 0 /\ created < MAX_INSNS
  BY DEF Build
<1>2. PICK bb \in Blocks :
        \/ CreateReference(bb) \/ CreateValue(bb)
        \/ \E d \in InCode :
             \/ CreateNullcheckInsn(d, bb)
             \/ \E idx, max \in Values : CreateBoundsCheckInsn(d, idx, max, bb)
             \/ CreateUse(<<d>>, bb) \/ CreateUse(<<d, d>>, bb)
  BY DEF Build
<1>3. /\ \A op \in {"ref", "value", "null", "bounds", "use"} : op \in Opcodes \ {"none"}
      /\ <<>> \in Seq(InCode)
      /\ \A d \in InCode : /\ <<d>> \in Seq(InCode) /\ Len(<<d>>) = 1
                           /\ <<d, d>> \in Seq(InCode)
  BY DEF Opcodes
<1>4. CASE CreateReference(bb) \/ CreateValue(bb)
  BY <1>1, <1>3, <1>4, CreateInstructionInv DEF CreateReference, CreateValue
<1>5. ASSUME NEW d \in InCode, CreateNullcheckInsn(d, bb) PROVE CheckInv'
  BY <1>1, <1>3, <1>5, CreateInstructionInv DEF CreateNullcheckInsn
<1>6. ASSUME NEW d \in InCode, NEW idx \in Values, NEW max \in Values,
             CreateBoundsCheckInsn(d, idx, max, bb)
      PROVE  CheckInv'
  BY <1>1, <1>3, <1>6, CreateInstructionInv DEF CreateBoundsCheckInsn
<1>7. ASSUME NEW d \in InCode, CreateUse(<<d>>, bb) \/ CreateUse(<<d, d>>, bb)
      PROVE  CheckInv'
  BY <1>1, <1>3, <1>7, CreateInstructionInv DEF CreateUse
<1> QED
  BY <1>2, <1>4, <1>5, <1>6, <1>7

(* A step that changes nothing keeps it, too. *)
LEMMA StutterInv ==
  ASSUME CheckInv, UNCHANGED checkVars
  PROVE  CheckInv'
<1>1. UNCHANGED <<created, opcode, parentBB, dominance, idxToCheck, maxArrIdx, inputs,
                  users, code, substitute, userIt, checkToRemain, pos, currInsn, nextInsn>>
  BY DEF checkVars, fields, edges, loop, walk
<1>2. InCode' = InCode
  BY <1>1 DEF InCode
<1>3. TypesOK' /\ Walk'
  BY <1>1, <1>2 DEF CheckInv, TypesOK, Walk
<1>4. Searched'
  BY <1>1 DEF CheckInv, Searched, InLoop, DoesProduceReference, IsCheck, Passed,
     DominatedOver, MayKeep, OperandsEqual, GetIdxToCheck
<1> QED
  BY <1>3, <1>4, ProgramUnchanged DEF checkVars, CheckInv

(* No step breaks the invariant. *)
LEMMA CheckStepInv ==
  ASSUME CheckInv, [CheckNext]_checkVars
  PROVE  CheckInv'
<1>1. CASE Build
  BY <1>1, BuildInv
<1>2. CASE EnumerateBlock
  BY <1>2, EnumerateBlockInv
<1>3. CASE StopEnumeration \/ NextInsn
  BY <1>3, NextInsnInv
<1>4. CASE SkipUser \/ FirstCheck \/ KeepCheck
  BY <1>4, PassUserInv
<1>5. CASE RemoveCheck
  BY <1>5, RemoveCheckInv
<1>6. CASE UNCHANGED checkVars
  BY <1>6, StutterInv
<1> QED
  BY <1>1, <1>2, <1>3, <1>4, <1>5, <1>6 DEF CheckNext, Optimize

(* The inductive invariant holds in every state. *)
THEOREM CheckInvariance == CheckSpec => []CheckInv
<1>1. CheckInit => CheckInv
  BY CheckInitInv
<1>2. CheckInv /\ [CheckNext]_checkVars => CheckInv'
  BY CheckStepInv
<1> QED
  BY <1>1, <1>2, PTL DEF CheckSpec

(* CheckElimination leaves a well-formed program: what an instruction uses *)
(* is in a block and comes before it on every path, whatever checks        *)
(* ReplaceInputsForUsers has put in the place of others.                   *)
THEOREM ProgramWellFormed == CheckSpec => []UsesDominated
<1>1. CheckInv => UsesDominated
  BY DEF CheckInv
<1> QED
  BY <1>1, CheckInvariance, PTL

(* Where CheckElimination has removed a check of a reference, one of the   *)
(* same reference still comes before, even when the check it gave way to   *)
(* has itself been removed since.                                          *)
THEOREM ReferencesStayChecked == CheckSpec => []ReferenceStillChecked
<1>1. CheckInv => ReferenceStillChecked
  BY DEF CheckInv, Substituted, ReferenceStillChecked
<1> QED
  BY <1>1, CheckInvariance, PTL

(* When the loop of Run reaches the end of the users of a reference, no    *)
(* check is left among them that the first one dominates and could         *)
(* replace, although the loop erases entries of the list it walks.         *)
THEOREM LoopMissesNoCheck == CheckSpec => []DominatedChecksGone
<1>1. CheckInv => DominatedChecksGone
  <2> SUFFICES ASSUME CheckInv, InLoop, ~AtUser, checkToRemain # Null,
                      NEW d \in Uses(users[currInsn]), IsCheck(d), Before(checkToRemain, d)
               PROVE  MayKeep(checkToRemain, d)
    BY DEF DominatedChecksGone
  <2>1. TypesOK /\ CodeInOrder /\ Walk /\ Searched
    BY DEF CheckInv
  <2>2. users[currInsn] \in Seq(1 .. created)
    BY <2>1, InCodeFacts DEF TypesOK, Walk, InLoop
  <2>3. PICK k \in 1 .. Len(users[currInsn]) : users[currInsn][k] = d
    BY DEF Uses
  <2>4. k \in 1 .. userIt - 1
    BY <2>1, <2>2, <2>3 DEF AtUser, TypesOK
  <2>5. Passed(d)
    BY <2>1, <2>3, <2>4 DEF Searched
  <2> QED
    BY <2>5 DEF Passed, DominatedOver, Before
<1> QED
  BY <1>1, CheckInvariance, PTL

(* The instruction that EnumerateInsns has saved before it called back is  *)
(* still in its block when the enumeration comes to it: the callback       *)
(* removes instructions, but never the next one.                           *)
THEOREM SavedInsnStays == CheckSpec => []NextInsnStays
<1>1. CheckInv => NextInsnStays
  <2> SUFFICES ASSUME CheckInv, nextInsn # Null PROVE nextInsn \in InCode
    BY DEF NextInsnStays
  <2>1. TypesOK /\ CodeInOrder /\ Walk
    BY DEF CheckInv
  <2>2. currInsn \in InCode /\ nextInsn \in Uses(code[parentBB[currInsn]])
    BY <2>1 DEF Walk
  <2> QED
    BY <2>1, <2>2, InCodeFacts
<1> QED
  BY <1>1, CheckInvariance, PTL
=============================================================================
