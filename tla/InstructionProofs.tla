-------------------------- MODULE InstructionProofs --------------------------
(***************************************************************************)
(* Proofs about InsnList.tla, for every set of instructions, and about     *)
(* DefUse.tla, for any number of instructions, phis, call arguments and    *)
(* blocks.                                                                 *)
(*                                                                         *)
(* ListInv ties the pointers of a block to the order of the insertions.    *)
(* DefUseInv is about the edges: the properties speak of the states        *)
(* between two calls; DefUseInv also says what holds in the middle of a    *)
(* replacement: which users the iterator has still to come to, what is     *)
(* known of the entries in the other lists, and that the replacement done  *)
(* so far changes nothing for who replaces what is left.                   *)
(***************************************************************************)
EXTENDS InsnList, DefUse, UsersProofs

-----------------------------------------------------------------------------
(* The list of a block. *)

(* No instruction is in a block twice (Injective), so it is found at its   *)
(* one place there.                                                        *)
LEMMA IndexOfElement ==
  ASSUME NEW s \in Seq(Instrs), Injective(s), NEW m \in 0 .. Len(s)
  PROVE  IndexIn(s, At(s, m)) = m
<1>1. CASE m = 0
  BY <1>1 DEF IndexIn, At
<1>2. CASE m # 0
  <2>1. m \in 1 .. Len(s) /\ At(s, m) = s[m] /\ s[m] \in Instrs
    BY <1>2 DEF At
  <2>2. s[m] # Null
    BY <2>1, InsnsAssumption
  <2>3. \A k \in 1 .. Len(s) : s[k] = s[m] => k = m
    BY <2>1 DEF Injective
  <2> QED
    BY <2>1, <2>2, <2>3 DEF IndexIn
<1> QED
  BY <1>1, <1>2
-----------------------------------------------------------------------------
(* An instruction that has not been put into the block is not linked. *)
FreshUnlinked ==
  \A i \in fresh : i \notin InBlock /\ next[i] = Null /\ prev[i] = Null

(* The current instruction, unless it has been removed, comes before the   *)
(* saved one, so that an insertion next to it is never visited.            *)
CurrentBeforeNext ==
  running =>
    \E n \in 1 .. Len(order) + 1 :
      /\ nextInsn = At(order, n)
      /\ pending = {order[k] : k \in n .. Len(order)}
      /\ \A m \in 1 .. Len(order) : order[m] = currInsn => m < n

(* The inductive invariant of the list and its enumeration. *)
ListInv ==
  /\ ListTypeOK
  /\ LinksFollowOrder
  /\ FreshUnlinked
  /\ CurrentBeforeNext
  /\ CrashOnlyOnTheLastOne

(* After an insertion at place m the pointers follow the new order. *)
LEMMA InsertKeepsLinks ==
  ASSUME ListTypeOK, LinksFollowOrder, FreshUnlinked,
         NEW i \in fresh, NEW m \in 0 .. Len(order),
         Insert(At(order, m), i),
         order' = InsertAt(order, m + 1, i),
         fresh' = fresh \ {i}
  PROVE  /\ firstInsn' \in Instrs \cup {Null} /\ lastInsn' \in Instrs \cup {Null}
         /\ next' \in [Instrs -> Instrs \cup {Null}]
         /\ prev' \in [Instrs -> Instrs \cup {Null}]
         /\ order' \in Seq(Instrs)
         /\ LinksFollowOrder'
         /\ FreshUnlinked'
<1>1. i \in Instrs /\ order \in Seq(Instrs) /\ Len(order) \in Nat
  BY DEF ListTypeOK
<1> DEFINE N == Len(order)
<1>2. order' \in Seq(Instrs) /\ InsertionOf(i, m, order, order')
  BY <1>1, InsertAtElements, Zenon
<1>3. /\ Len(order') = N + 1
      /\ \A j \in 1 .. N + 1 : order'[j] = IF j <= m THEN order[j]
                                           ELSE IF j = m + 1 THEN i ELSE order[j - 1]
  <2>1. \A j \in 1 .. N + 1 : /\ j <= m => j \in 1 .. m
                             /\ ~(j <= m) /\ j # m + 1 =>
                                  j - 1 \in m + 1 .. N /\ (j - 1) + 1 = j
    BY <1>1
  <2>2. Len(order') = N + 1 /\ order'[m + 1] = i
    BY <1>2 DEF InsertionOf
  <2>3. \A j \in 1 .. m : order'[j] = order[j]
    BY <1>2 DEF InsertionOf
  <2>4. \A j \in m + 1 .. N : order'[j + 1] = order[j]
    BY <1>2 DEF InsertionOf
  <2>5. ASSUME NEW j \in 1 .. N + 1
        PROVE  order'[j] = IF j <= m THEN order[j]
                           ELSE IF j = m + 1 THEN i ELSE order[j - 1]
    <3>1. CASE j <= m
      BY <2>1, <2>3, <3>1
    <3>2. CASE j = m + 1
      BY <1>1, <2>2, <3>2
    <3>3. CASE ~(j <= m) /\ j # m + 1
      <4>1. j - 1 \in m + 1 .. N /\ (j - 1) + 1 = j
        BY <2>1, <3>3
      <4> QED
        BY <2>4, <3>3, <4>1
    <3> QED
      BY <3>1, <3>2, <3>3
  <2> QED
    BY <2>2, <2>5
<1>4. \A j \in 1 .. N : order[j] \in Instrs /\ order[j] # i /\ order[j] # Null
  BY <1>1, InsnsAssumption DEF FreshUnlinked, InBlock
<1>5. i # Null /\ next[i] = Null /\ prev[i] = Null
  BY <1>1, InsnsAssumption DEF FreshUnlinked
<1>6. \A j, k \in 1 .. N : order[j] = order[k] => j = k
  BY DEF LinksFollowOrder
<1>7. \A j, k \in 1 .. N + 1 : order'[j] = order'[k] => j = k
  <2> DEFINE Old(j) == IF j <= m THEN j ELSE j - 1
  <2>1. \A j \in 1 .. N + 1 : j # m + 1 => Old(j) \in 1 .. N /\ order'[j] = order[Old(j)]
    BY <1>1, <1>3
  <2>2. order'[m + 1] = i
    BY <1>1, <1>3
  <2>3. \A j, k \in 1 .. N + 1 : j # m + 1 /\ k # m + 1 /\ Old(j) = Old(k) => j = k
    BY <1>1
  <2> HIDE DEF Old
  <2> QED
    BY SMTT(60), <1>4, <1>6, <2>1, <2>2, <2>3
<1>8. /\ next \in [Instrs -> Instrs \cup {Null}]
      /\ prev \in [Instrs -> Instrs \cup {Null}]
      /\ firstInsn \in Instrs \cup {Null} /\ lastInsn \in Instrs \cup {Null}
  BY DEF ListTypeOK
<1>9. /\ firstInsn = (IF N = 0 THEN Null ELSE order[1])
      /\ lastInsn = (IF N = 0 THEN Null ELSE order[N])
      /\ \A k \in 1 .. N : /\ next[order[k]] = (IF k = N THEN Null ELSE order[k + 1])
                           /\ prev[order[k]] = (IF k = 1 THEN Null ELSE order[k - 1])
  BY <1>1 DEF LinksFollowOrder, At
<1>10. At(order, m) = IF m = 0 THEN Null ELSE order[m]
  BY <1>1 DEF At
<1> DEFINE NextOf(x) == IF x = i THEN (IF m = N THEN Null ELSE order[m + 1])
                        ELSE IF m # 0 /\ x = order[m] THEN i ELSE next[x]
           PrevOf(x) == IF x = i THEN (IF m = 0 THEN Null ELSE order[m])
                        ELSE IF m # N /\ x = order[m + 1] THEN i ELSE prev[x]
           Linked ==
             /\ firstInsn' = order'[1] /\ lastInsn' = order'[N + 1]
             /\ \A x \in Instrs : next'[x] = NextOf(x) /\ prev'[x] = PrevOf(x)
             /\ next' \in [Instrs -> Instrs \cup {Null}]
             /\ prev' \in [Instrs -> Instrs \cup {Null}]
<1>11. Linked
  <2>1. CASE At(order, m) = lastInsn /\ PushInstruction(i)
    <3>1. m = N
      <4>1. CASE N = 0
        BY <1>1, <4>1
      <4>2. CASE N # 0
        <5>1. lastInsn = order[N] /\ N \in 1 .. N /\ order[N] # Null
          BY <1>1, <1>4, <1>9, <4>2
        <5>2. m \in 1 .. N /\ order[m] = order[N]
          BY <1>1, <1>10, <2>1, <5>1
        <5> QED
          BY <1>6, <5>1, <5>2
      <4> QED
        BY <4>1, <4>2
    <3>2. CASE N = 0
      BY <1>1, <1>3, <1>4, <1>5, <1>8, <1>9, <2>1, <3>1, <3>2 DEF PushInstruction
    <3>3. CASE N # 0
      <4>1. lastInsn = order[N] /\ firstInsn = order[1] /\ firstInsn # Null
        BY <1>1, <1>4, <1>9, <3>3
      <4>2. /\ next' = [next EXCEPT ![order[N]] = i]
            /\ prev' = [prev EXCEPT ![i] = order[N]]
            /\ firstInsn' = firstInsn /\ lastInsn' = i
        BY <2>1, <4>1 DEF PushInstruction
      <4> QED
        BY <1>1, <1>3, <1>4, <1>5, <1>8, <3>1, <3>3, <4>1, <4>2
    <3> QED
      BY <3>2, <3>3
  <2>2. CASE At(order, m) # lastInsn /\ At(order, m) = Null /\ InsertFirst(i)
    <3>1. m = 0 /\ N # 0 /\ firstInsn = order[1]
      BY <1>1, <1>4, <1>9, <1>10, <2>2
    <3>2. /\ next' = [next EXCEPT ![i] = order[1]]
          /\ prev' = [prev EXCEPT ![order[1]] = i, ![i] = Null]
          /\ firstInsn' = i /\ lastInsn' = lastInsn
      BY <2>2, <3>1 DEF InsertFirst
    <3> QED
      BY SMTT(60), <1>1, <1>3, <1>4, <1>5, <1>8, <1>9, <3>1, <3>2
  <2>3. CASE /\ At(order, m) # lastInsn /\ At(order, m) # Null
             /\ InsertBetween(At(order, m), i)
    <3>1. /\ m \in 1 .. N - 1 /\ At(order, m) = order[m] /\ next[order[m]] = order[m + 1]
          /\ firstInsn = order[1] /\ lastInsn = order[N]
      BY <1>1, <1>4, <1>9, <1>10, <2>3
    <3>2. /\ next' = [next EXCEPT ![i] = order[m + 1], ![order[m]] = i]
          /\ prev' = [prev EXCEPT ![order[m + 1]] = i, ![i] = order[m]]
          /\ firstInsn' = firstInsn /\ lastInsn' = lastInsn
      BY <2>3, <3>1 DEF InsertBetween
    <3>3. /\ order[m] \in Instrs /\ order[m] # i
          /\ order[m + 1] \in Instrs /\ order[m + 1] # i
      BY <1>1, <1>4, <3>1
    <3>4. firstInsn' = order'[1] /\ lastInsn' = order'[N + 1]
      BY <1>1, <1>3, <3>1, <3>2
    <3>5. /\ next' \in [Instrs -> Instrs \cup {Null}]
          /\ prev' \in [Instrs -> Instrs \cup {Null}]
      BY <1>1, <1>8, <3>2, <3>3
    <3>6. ASSUME NEW x \in Instrs
          PROVE  next'[x] = NextOf(x) /\ prev'[x] = PrevOf(x)
      <4>1. next'[x] = IF x = order[m] THEN i ELSE IF x = i THEN order[m + 1] ELSE next[x]
        BY <1>1, <1>8, <3>2, <3>3
      <4>2. prev'[x] = IF x = i THEN order[m] ELSE IF x = order[m + 1] THEN i ELSE prev[x]
        BY <1>1, <1>8, <3>2, <3>3
      <4>3. m # 0 /\ m # N
        BY <1>1, <3>1
      <4> QED
        BY <3>3, <4>1, <4>2, <4>3
    <3> QED
      BY <3>4, <3>5, <3>6, Zenon
  <2> QED
    BY <2>1, <2>2, <2>3 DEF Insert
<1> HIDE DEF Linked, NextOf, PrevOf
<1>12. ASSUME NEW j \in 1 .. N + 1
       PROVE  /\ next'[order'[j]] = IF j = N + 1 THEN Null ELSE order'[j + 1]
              /\ prev'[order'[j]] = IF j = 1 THEN Null ELSE order'[j - 1]
  <2>1. CASE j <= m
    <3>1. j \in 1 .. N /\ order'[j] = order[j] /\ order[j] \in Instrs /\ order[j] # i
      BY <1>1, <1>3, <1>4, <2>1
    <3>2. order[j] = order[m] <=> j = m
      BY <1>1, <1>6, <2>1, <3>1
    <3>3. m # N => order[j] # order[m + 1]
      BY <1>1, <1>6, <2>1, <3>1
    <3>4. next'[order[j]] = NextOf(order[j]) /\ prev'[order[j]] = PrevOf(order[j])
      BY <1>11, <3>1, Zenon DEF Linked
    <3>5. /\ next'[order[j]] = IF j = m THEN i ELSE order[j + 1]
          /\ prev'[order[j]] = IF j = 1 THEN Null ELSE order[j - 1]
      <4>1. next[order[j]] = (IF j = N THEN Null ELSE order[j + 1])
        BY <1>9, <3>1
      <4>2. prev[order[j]] = (IF j = 1 THEN Null ELSE order[j - 1])
        BY <1>9, <3>1
      <4>3. j = m => m # 0
        BY <1>1, <3>1
      <4>4. j # m => ~(m # 0 /\ order[j] = order[m])
        BY <3>2
      <4>5. next'[order[j]] = IF j = m THEN i ELSE order[j + 1]
        <5>1. CASE j = m
          BY <3>1, <3>2, <3>4, <4>3, <5>1 DEF NextOf
        <5>2. CASE j # m
          <6>1. j # N
            BY <1>1, <2>1, <5>2
          <6> QED
            BY <3>1, <3>4, <4>1, <4>4, <5>2, <6>1 DEF NextOf
        <5> QED
          BY <5>1, <5>2
      <4>6. prev'[order[j]] = IF j = 1 THEN Null ELSE order[j - 1]
        BY <3>1, <3>3, <3>4, <4>2 DEF PrevOf
      <4> QED
        BY <4>5, <4>6
    <3>6. /\ order'[j + 1] = (IF j = m THEN i ELSE order[j + 1])
          /\ j # 1 => order'[j - 1] = order[j - 1]
          /\ j # N + 1
      <4>1. j \in 1 .. N /\ j + 1 \in 1 .. N + 1 /\ (j + 1) - 1 = j /\ j # N + 1
        BY <1>1, <2>1
      <4>2. ASSUME j = m PROVE order'[j + 1] = i
        <5>1. j + 1 = m + 1 /\ ~(j + 1 <= m)
          BY <1>1, <4>2
        <5> QED
          BY <1>3, <4>1, <5>1
      <4>3. ASSUME j # m PROVE order'[j + 1] = order[j + 1]
        <5>1. j + 1 <= m
          BY <1>1, <2>1, <4>3
        <5> QED
          BY <1>3, <4>1, <5>1
      <4>4. ASSUME j # 1 PROVE order'[j - 1] = order[j - 1]
        <5>1. j - 1 \in 1 .. N + 1 /\ j - 1 <= m
          BY <1>1, <2>1, <4>1, <4>4
        <5> QED
          BY <1>3, <5>1
      <4> QED
        BY <4>1, <4>2, <4>3, <4>4
    <3> QED
      BY <3>1, <3>5, <3>6, Zenon
  <2>2. CASE j = m + 1
    <3>1. /\ order'[j] = i
          /\ j # N + 1 => order'[j + 1] = order[m + 1]
          /\ j # 1 => order'[j - 1] = order[m]
          /\ (m = N <=> j = N + 1) /\ (m = 0 <=> j = 1)
      BY SMTT(60), <1>1, <1>3, <2>2
    <3>2. /\ next'[i] = IF m = N THEN Null ELSE order[m + 1]
          /\ prev'[i] = IF m = 0 THEN Null ELSE order[m]
      BY <1>1, <1>11, Zenon DEF Linked, NextOf, PrevOf
    <3> QED
      BY <3>1, <3>2, Zenon
  <2>3. CASE j > m + 1
    <3>1. /\ j - 1 \in 1 .. N /\ order'[j] = order[j - 1]
          /\ order[j - 1] \in Instrs /\ order[j - 1] # i
      BY <1>1, <1>3, <1>4, <2>3
    <3>2. m # 0 => order[j - 1] # order[m]
      BY <1>1, <1>6, <2>3, <3>1
    <3>3. order[j - 1] = order[m + 1] <=> j - 1 = m + 1
      BY <1>1, <1>6, <2>3, <3>1
    <3>4. (j # N + 1 => order'[j + 1] = order[j]) /\ (j # m + 2 => order'[j - 1] = order[j - 2])
      BY SMTT(60), <1>1, <1>3, <2>3
    <3>5. m # N /\ order'[m + 1] = i
      BY <1>1, <1>3, <2>3
    <3> QED
      BY SMTT(60), <1>1, <1>9, <1>11, <2>3, <3>1, <3>2, <3>3, <3>4, <3>5 DEF Linked, NextOf, PrevOf
  <2> QED
    BY <1>1, <2>1, <2>2, <2>3
<1>13. LinksFollowOrder'
  BY <1>1, <1>3, <1>7, <1>11, <1>12 DEF LinksFollowOrder, At, Linked
<1>14. FreshUnlinked'
  <2>1. SUFFICES ASSUME NEW x \in fresh, x # i
                 PROVE  (x \notin InBlock)' /\ next'[x] = Null /\ prev'[x] = Null
    BY DEF FreshUnlinked
  <2>2. x \in Instrs /\ next[x] = Null /\ prev[x] = Null /\ \A j \in 1 .. N : order[j] # x
    BY DEF FreshUnlinked, ListTypeOK, InBlock
  <2>3. ASSUME NEW j \in 1 .. N + 1
        PROVE  order'[j] # x
    <3>1. CASE j <= m
      BY <1>1, <1>3, <2>2, <3>1
    <3>2. CASE j = m + 1
      BY <1>1, <1>3, <2>1, <3>2
    <3>3. CASE j > m + 1
      <4>1. j - 1 \in 1 .. N /\ order'[j] = order[j - 1]
        BY <1>1, <1>3, <3>3
      <4> QED
        BY <2>2, <4>1, Zenon
    <3> QED
      BY <1>1, <3>1, <3>2, <3>3
  <2>4. next'[x] = Null /\ prev'[x] = Null
    BY <1>1, <1>11, <2>1, <2>2 DEF Linked, NextOf, PrevOf
  <2> QED
    BY <1>3, <2>3, <2>4 DEF InBlock
<1>15. firstInsn' \in Instrs \cup {Null} /\ lastInsn' \in Instrs \cup {Null}
  BY <1>1, <1>2, <1>3, <1>11 DEF Linked, NextOf, PrevOf
<1> QED
  BY <1>2, <1>11, <1>13, <1>14, <1>15 DEF Linked, NextOf, PrevOf

(* After a removal from place m, unless it was the only instruction, the   *)
(* pointers follow the new order.                                          *)
LEMMA RemoveKeepsLinks ==
  ASSUME ListTypeOK, LinksFollowOrder, FreshUnlinked,
         NEW m \in 1 .. Len(order),
         ~NullDereferenced(order[m]),
         Unlink(order[m]),
         order' = RemoveAt(order, m),
         fresh' = fresh
  PROVE  /\ firstInsn' \in Instrs \cup {Null} /\ lastInsn' \in Instrs \cup {Null}
         /\ next' \in [Instrs -> Instrs \cup {Null}]
         /\ prev' \in [Instrs -> Instrs \cup {Null}]
         /\ order' \in Seq(Instrs)
         /\ LinksFollowOrder'
         /\ FreshUnlinked'
<1> DEFINE N == Len(order)
<1>1. order \in Seq(Instrs) /\ N \in Nat
  BY DEF ListTypeOK
<1>2. order' \in Seq(Instrs) /\ RemovalOf(m, order, order')
  BY <1>1, RemoveAtElements, Zenon
<1>3. /\ Len(order') = N - 1
      /\ \A j \in 1 .. N - 1 : order'[j] = IF j < m THEN order[j] ELSE order[j + 1]
  <2>1. \A j \in 1 .. N - 1 : ~(j < m) => j + 1 \in m + 1 .. N /\ (j + 1) - 1 = j
    BY <1>1
  <2>2. \A j \in 1 .. N - 1 : j < m => j \in 1 .. m - 1
    BY <1>1
  <2> QED
    BY <1>2, <2>1, <2>2 DEF RemovalOf
<1>4. \A j \in 1 .. N : order[j] \in Instrs /\ order[j] # Null
  BY <1>1, InsnsAssumption
<1>5. \A j, k \in 1 .. N : order[j] = order[k] => j = k
  BY DEF LinksFollowOrder
<1>6. \A j, k \in 1 .. N - 1 : order'[j] = order'[k] => j = k
  BY <1>1, <1>3, <1>5
<1>7. /\ next \in [Instrs -> Instrs \cup {Null}]
      /\ prev \in [Instrs -> Instrs \cup {Null}]
      /\ firstInsn \in Instrs \cup {Null} /\ lastInsn \in Instrs \cup {Null}
  BY DEF ListTypeOK
<1>8. /\ firstInsn = order[1] /\ lastInsn = order[N]
      /\ \A k \in 1 .. N : /\ next[order[k]] = (IF k = N THEN Null ELSE order[k + 1])
                           /\ prev[order[k]] = (IF k = 1 THEN Null ELSE order[k - 1])
  BY <1>1 DEF LinksFollowOrder, At
<1>9. N > 1
  BY <1>1, <1>8 DEF NullDereferenced
<1>10. (order[m] = firstInsn <=> m = 1) /\ (order[m] = lastInsn <=> m = N)
  BY <1>1, <1>5, <1>8
<1> DEFINE NextOf(x) == IF m # 1 /\ x = order[m - 1]
                        THEN (IF m = N THEN Null ELSE order[m + 1]) ELSE next[x]
           PrevOf(x) == IF m # N /\ x = order[m + 1]
                        THEN (IF m = 1 THEN Null ELSE order[m - 1]) ELSE prev[x]
           Linked ==
             /\ firstInsn' = order'[1] /\ lastInsn' = order'[N - 1]
             /\ \A x \in Instrs : next'[x] = NextOf(x) /\ prev'[x] = PrevOf(x)
             /\ next' \in [Instrs -> Instrs \cup {Null}]
             /\ prev' \in [Instrs -> Instrs \cup {Null}]
<1>11. Linked
  <2>1. CASE m = 1
    <3>1. /\ firstInsn' = order[2] /\ lastInsn' = lastInsn /\ next' = next
          /\ prev' = [prev EXCEPT ![order[2]] = Null]
      BY <1>1, <1>8, <1>9, <1>10, <2>1 DEF Unlink, RemoveFirstInsn
    <3> QED
      <4>1. m + 1 = 2 /\ m # N /\ 1 \in 1 .. N - 1 /\ N - 1 \in 1 .. N - 1 /\ 2 \in 1 .. N
            /\ ~(1 < m) /\ ~(N - 1 < m) /\ (N - 1) + 1 = N
        BY <1>1, <1>9, <2>1
      <4>2. firstInsn' = order'[1] /\ lastInsn' = order'[N - 1]
        BY <1>3, <1>8, <3>1, <4>1
      <4>3. order[2] \in Instrs
        BY <1>4, <4>1
      <4>4. /\ next' \in [Instrs -> Instrs \cup {Null}]
            /\ prev' \in [Instrs -> Instrs \cup {Null}]
        BY <1>7, <3>1, <4>3
      <4>5. ASSUME NEW x \in Instrs
            PROVE  next'[x] = NextOf(x) /\ prev'[x] = PrevOf(x)
        <5>1. next'[x] = next[x]
          BY <1>7, <3>1, <4>3
        <5>2. prev'[x] = IF x = order[2] THEN Null ELSE prev[x]
          BY <1>7, <3>1, <4>3
        <5> QED
          BY <2>1, <4>1, <5>1, <5>2
      <4> QED
        BY <4>2, <4>4, <4>5, Zenon
  <2>2. CASE m = N
    <3>1. /\ lastInsn' = order[N - 1] /\ firstInsn' = firstInsn /\ prev' = prev
          /\ next' = [next EXCEPT ![order[N - 1]] = Null]
      BY <1>1, <1>8, <1>9, <1>10, <2>2 DEF Unlink, RemoveLastInsn
    <3> QED
      <4>1. m - 1 = N - 1 /\ m # 1 /\ 1 \in 1 .. N - 1 /\ N - 1 \in 1 .. N - 1
            /\ N - 1 \in 1 .. N /\ 1 < m /\ N - 1 < m
        BY <1>1, <1>9, <2>2
      <4>2. firstInsn' = order'[1] /\ lastInsn' = order'[N - 1]
        BY <1>3, <1>8, <3>1, <4>1
      <4>3. order[N - 1] \in Instrs
        BY <1>4, <4>1
      <4>4. /\ next' \in [Instrs -> Instrs \cup {Null}]
            /\ prev' \in [Instrs -> Instrs \cup {Null}]
        BY <1>7, <3>1, <4>3
      <4>5. ASSUME NEW x \in Instrs
            PROVE  next'[x] = NextOf(x) /\ prev'[x] = PrevOf(x)
        <5>1. next'[x] = IF x = order[N - 1] THEN Null ELSE next[x]
          BY <1>7, <3>1, <4>3
        <5>2. prev'[x] = prev[x]
          BY <1>7, <3>1, <4>3
        <5> QED
          BY <2>2, <4>1, <5>1, <5>2
      <4> QED
        BY <4>2, <4>4, <4>5, Zenon
  <2>3. CASE m # 1 /\ m # N
    <3>1. /\ firstInsn' = firstInsn /\ lastInsn' = lastInsn
          /\ next' = [next EXCEPT ![order[m - 1]] = order[m + 1]]
          /\ prev' = [prev EXCEPT ![order[m + 1]] = order[m - 1]]
      BY <1>1, <1>8, <1>9, <1>10, <2>3 DEF Unlink, RemoveMiddle
    <3> QED
      <4>1. m - 1 \in 1 .. N /\ m + 1 \in 1 .. N /\ 1 \in 1 .. N - 1 /\ N - 1 \in 1 .. N - 1
            /\ 1 < m /\ ~(N - 1 < m) /\ (N - 1) + 1 = N
        BY <1>1, <1>9, <2>3
      <4>2. firstInsn' = order'[1] /\ lastInsn' = order'[N - 1]
        BY <1>3, <1>8, <3>1, <4>1
      <4>3. order[m - 1] \in Instrs /\ order[m + 1] \in Instrs
        BY <1>4, <4>1
      <4>4. /\ next' \in [Instrs -> Instrs \cup {Null}]
            /\ prev' \in [Instrs -> Instrs \cup {Null}]
        BY <1>7, <3>1, <4>3
      <4>5. ASSUME NEW x \in Instrs
            PROVE  next'[x] = NextOf(x) /\ prev'[x] = PrevOf(x)
        <5>1. next'[x] = IF x = order[m - 1] THEN order[m + 1] ELSE next[x]
          BY <1>7, <3>1, <4>3
        <5>2. prev'[x] = IF x = order[m + 1] THEN order[m - 1] ELSE prev[x]
          BY <1>7, <3>1, <4>3
        <5> QED
          BY <2>3, <4>1, <5>1, <5>2
      <4> QED
        BY <4>2, <4>4, <4>5, Zenon
  <2> QED
    BY <2>1, <2>2, <2>3, Zenon
<1> HIDE DEF Linked, NextOf, PrevOf
<1>12. ASSUME NEW j \in 1 .. N - 1
       PROVE  /\ next'[order'[j]] = IF j = N - 1 THEN Null ELSE order'[j + 1]
              /\ prev'[order'[j]] = IF j = 1 THEN Null ELSE order'[j - 1]
  <2>1. CASE j < m
    <3>1. /\ j \in 1 .. N /\ order'[j] = order[j] /\ order[j] \in Instrs \ {order[m]}
          /\ (m # N => order[j] # order[m + 1])
          /\ m # 1 /\ (order[j] = order[m - 1] <=> j = m - 1)
      <4>1. j \in 1 .. N /\ order'[j] = order[j] /\ j # m /\ m # 1 /\ m - 1 \in 1 .. N
        BY <1>1, <1>3, <2>1
      <4>2. m # N => m + 1 \in 1 .. N /\ j # m + 1
        BY <1>1, <2>1
      <4> QED
        BY <1>4, <1>5, <4>1, <4>2
    <3>2. next'[order[j]] = NextOf(order[j]) /\ prev'[order[j]] = PrevOf(order[j])
      BY <1>11, <3>1, Zenon DEF Linked
    <3>3. /\ next'[order[j]] = IF j = m - 1 THEN (IF m = N THEN Null ELSE order[m + 1])
                               ELSE order[j + 1]
          /\ prev'[order[j]] = IF j = 1 THEN Null ELSE order[j - 1]
      BY <1>8, <3>1, <3>2, <2>1 DEF NextOf, PrevOf
    <3>4. /\ j # N - 1 => order'[j + 1] = IF j = m - 1 THEN order[m + 1] ELSE order[j + 1]
          /\ j # 1 => order'[j - 1] = order[j - 1]
          /\ j = m - 1 => (m = N <=> j = N - 1)
          /\ j # m - 1 => j # N - 1
      <4>1. ASSUME j # N - 1, j = m - 1 PROVE order'[j + 1] = order[m + 1]
        <5>1. j + 1 \in 1 .. N - 1 /\ ~(j + 1 < m) /\ (j + 1) + 1 = m + 1
          BY <1>1, <4>1
        <5> QED
          BY <1>3, <5>1
      <4>2. ASSUME j # N - 1, j # m - 1 PROVE order'[j + 1] = order[j + 1]
        <5>1. j + 1 \in 1 .. N - 1 /\ j + 1 < m
          BY <1>1, <2>1, <4>2
        <5> QED
          BY <1>3, <5>1
      <4>3. ASSUME j # 1 PROVE order'[j - 1] = order[j - 1]
        <5>1. j - 1 \in 1 .. N - 1 /\ j - 1 < m
          BY <1>1, <2>1, <4>3
        <5> QED
          BY <1>3, <5>1
      <4>4. (j = m - 1 => (m = N <=> j = N - 1)) /\ (j # m - 1 => j # N - 1)
        BY <1>1, <2>1
      <4> QED
        BY <4>1, <4>2, <4>3, <4>4
    <3> QED
      BY <3>1, <3>3, <3>4, Zenon
  <2>2. CASE ~(j < m)
    <3>1. /\ j + 1 \in 1 .. N /\ order'[j] = order[j + 1]
          /\ order[j + 1] \in Instrs \ {order[m]}
          /\ (m # 1 => order[j + 1] # order[m - 1])
          /\ m # N /\ (order[j + 1] = order[m + 1] <=> j = m)
      BY SMTT(60), <1>1, <1>3, <1>4, <1>5, <2>2
    <3>2. /\ next'[order[j + 1]] = NextOf(order[j + 1])
          /\ prev'[order[j + 1]] = PrevOf(order[j + 1])
      BY <1>11, <3>1, Zenon DEF Linked
    <3>3. /\ next'[order[j + 1]] = IF j = N - 1 THEN Null ELSE order[j + 2]
          /\ prev'[order[j + 1]] = IF j = m THEN (IF m = 1 THEN Null ELSE order[m - 1])
                                   ELSE order[j]
      <4>1. /\ next[order[j + 1]] = IF j + 1 = N THEN Null ELSE order[(j + 1) + 1]
            /\ prev[order[j + 1]] = IF j + 1 = 1 THEN Null ELSE order[(j + 1) - 1]
        BY <1>8, <3>1
      <4>2. /\ (j + 1 = N <=> j = N - 1) /\ (j + 1) + 1 = j + 2
            /\ j + 1 # 1 /\ (j + 1) - 1 = j
        BY <1>1, <2>2
      <4>3. NextOf(order[j + 1]) = next[order[j + 1]]
        BY <3>1 DEF NextOf
      <4>4. PrevOf(order[j + 1]) = IF j = m THEN (IF m = 1 THEN Null ELSE order[m - 1])
                                   ELSE prev[order[j + 1]]
        BY <3>1 DEF PrevOf
      <4> QED
        BY <3>2, <4>1, <4>2, <4>3, <4>4, Zenon
    <3>4. /\ j # N - 1 => order'[j + 1] = order[j + 2]
          /\ j # 1 => order'[j - 1] = IF j = m THEN order[m - 1] ELSE order[j]
          /\ j = m => (m = 1 <=> j = 1)
          /\ j # m => j # 1
      BY <1>1, <1>3, <2>2
    <3> QED
      BY <3>1, <3>3, <3>4, Zenon
  <2> QED
    BY <2>1, <2>2
<1>13. LinksFollowOrder'
  <2>1. N - 1 \in Nat /\ 1 \in 1 .. N - 1 /\ Len(order') = N - 1 /\ N - 1 \in 1 .. N - 1
    BY <1>1, <1>3, <1>9
  <2>2. (firstInsn' = At(order, 1)' /\ lastInsn' = At(order, Len(order))')
    BY <1>11, <2>1 DEF At, Linked
  <2>3. ASSUME NEW j \in 1 .. N - 1
        PROVE  next'[order'[j]] = At(order, j + 1)' /\ prev'[order'[j]] = At(order, j - 1)'
    <3>1. /\ j + 1 \in 1 .. N - 1 <=> j # N - 1
          /\ j - 1 \in 1 .. N - 1 <=> j # 1
      BY <2>1
    <3>2. /\ next'[order'[j]] = IF j = N - 1 THEN Null ELSE order'[j + 1]
          /\ prev'[order'[j]] = IF j = 1 THEN Null ELSE order'[j - 1]
      BY <1>12
    <3> QED
      BY <2>1, <3>1, <3>2 DEF At
  <2> QED
    BY <1>6, <2>1, <2>2, <2>3 DEF LinksFollowOrder
<1>14. FreshUnlinked'
  <2>1. SUFFICES ASSUME NEW x \in fresh
                 PROVE  (x \notin InBlock)' /\ next'[x] = Null /\ prev'[x] = Null
    BY DEF FreshUnlinked
  <2>2. x \in Instrs /\ next[x] = Null /\ prev[x] = Null /\ \A j \in 1 .. N : order[j] # x
    BY DEF FreshUnlinked, ListTypeOK, InBlock
  <2>3. \A j \in 1 .. N - 1 : order'[j] # x
    BY <1>1, <1>3, <2>2
  <2>4. next'[x] = Null /\ prev'[x] = Null
    BY <1>1, <1>11, <2>2 DEF Linked, NextOf, PrevOf
  <2> QED
    BY <1>3, <2>3, <2>4 DEF InBlock
<1>15. firstInsn' \in Instrs \cup {Null} /\ lastInsn' \in Instrs \cup {Null}
  BY <1>1, <1>2, <1>3, <1>9, <1>11 DEF Linked
<1> QED
  BY <1>2, <1>11, <1>13, <1>14, <1>15 DEF Linked
-----------------------------------------------------------------------------
(* An insertion behind the instruction at place m keeps the invariant, in  *)
(* particular what an enumeration has still to visit, if one runs and it   *)
(* inserts directly in front of the current instruction or behind it.      *)
LEMMA InsertStep ==
  ASSUME ListInv, NEW i \in fresh, NEW m \in 0 .. Len(order),
         Insert(At(order, m), i), Inserted(At(order, m), i),
         running => \A c \in 1 .. Len(order) :
                      order[c] = currInsn => m \in {c - 1, c},
         running => \E c \in 1 .. Len(order) : order[c] = currInsn,
         ~crashed
  PROVE  ListInv'
<1> DEFINE N == Len(order)
<1>1. i \in Instrs /\ order \in Seq(Instrs) /\ N \in Nat
  BY DEF ListInv, ListTypeOK
<1>2. IndexIn(order, At(order, m)) = m
  BY <1>1, IndexOfElement DEF ListInv, LinksFollowOrder, Injective
<1>3. /\ order' = InsertAt(order, m + 1, i)
      /\ fresh' = fresh \ {i}
      /\ UNCHANGED <<crashed, running, currInsn, nextInsn, pending>>
  BY <1>2 DEF Inserted, walk
<1>4. /\ firstInsn' \in Instrs \cup {Null} /\ lastInsn' \in Instrs \cup {Null}
      /\ next' \in [Instrs -> Instrs \cup {Null}]
      /\ prev' \in [Instrs -> Instrs \cup {Null}]
      /\ order' \in Seq(Instrs)
      /\ LinksFollowOrder'
      /\ FreshUnlinked'
  BY <1>3, InsertKeepsLinks DEF ListInv
<1>5. ListTypeOK'
  BY <1>3, <1>4 DEF ListInv, ListTypeOK
<1>6. InsertionOf(i, m, order, order')
  BY <1>1, <1>3, InsertAtElements, Zenon
<1>7. CurrentBeforeNext'
  <2>1. SUFFICES ASSUME running
                 PROVE  \E n \in 1 .. Len(order') + 1 :
                          /\ nextInsn = At(order', n)
                          /\ pending = {order'[k] : k \in n .. Len(order')}
                          /\ \A c \in 1 .. Len(order') : order'[c] = currInsn => c < n
    BY <1>3 DEF CurrentBeforeNext
  <2>2. PICK n \in 1 .. N + 1 :
          /\ nextInsn = At(order, n)
          /\ pending = {order[k] : k \in n .. N}
          /\ \A c \in 1 .. N : order[c] = currInsn => c < n
    BY <2>1 DEF ListInv, CurrentBeforeNext
  <2>3. PICK c \in 1 .. N : order[c] = currInsn
    BY <2>1
  <2>4. m \in {c - 1, c} /\ c < n /\ m < n
    BY <1>1, <2>1, <2>2, <2>3
  <2>5. Len(order') = N + 1 /\ \A k \in n .. N : order'[k + 1] = order[k]
    BY <1>1, <1>6, <2>4 DEF InsertionOf
  <2>6. nextInsn = At(order', n + 1)
    BY <1>1, <2>2, <2>5 DEF At
  <2>7. {order'[k] : k \in n + 1 .. N + 1} = {order[k] : k \in n .. N}
    <3>1. \A k \in n + 1 .. N + 1 : k - 1 \in n .. N /\ order'[k] = order[k - 1]
      BY <1>1, <2>5
    <3>2. \A k \in n .. N : k + 1 \in n + 1 .. N + 1 /\ order[k] = order'[k + 1]
      BY <1>1, <2>5
    <3>3. \A k \in n + 1 .. N + 1 : \E j \in n .. N : order'[k] = order[j]
      BY <3>1
    <3>4. \A j \in n .. N : \E k \in n + 1 .. N + 1 : order[j] = order'[k]
      BY <3>2
    <3> DEFINE after == {order'[k] : k \in n + 1 .. N + 1}
               before == {order[k] : k \in n .. N}
    <3>5. ASSUME NEW x \in after PROVE x \in before
      <4>1. PICK k \in n + 1 .. N + 1 : x = order'[k]
        OBVIOUS
      <4> QED
        BY <3>3, <4>1
    <3>6. ASSUME NEW x \in before PROVE x \in after
      <4>1. PICK k \in n .. N : x = order[k]
        OBVIOUS
      <4> QED
        BY <3>4, <4>1
    <3> HIDE DEF after, before
    <3>7. after = before
      BY <3>5, <3>6
    <3> QED
      BY <3>7 DEF after, before
  <2>8. ASSUME NEW d \in 1 .. N + 1, order'[d] = currInsn
        PROVE  d < n + 1
    <3>1. CASE d <= m + 1
      BY <1>1, <2>4, <3>1
    <3>2. CASE d > m + 1
      <4>1. d - 1 \in m + 1 .. N /\ d - 1 \in 1 .. N /\ (d - 1) + 1 = d
        BY <1>1, <3>2
      <4>2. order'[d] = order[d - 1]
        BY <1>6, <4>1 DEF InsertionOf
      <4>3. d - 1 < n
        BY <2>2, <2>8, <4>1, <4>2
      <4> QED
        BY <4>3
    <3> QED
      BY <1>1, <3>1, <3>2
  <2>9. n + 1 \in 1 .. Len(order') + 1
    BY <1>1, <2>5
  <2> QED
    BY <2>2, <2>5, <2>6, <2>7, <2>8, <2>9
<1>8. CrashOnlyOnTheLastOne'
  BY <1>3 DEF CrashOnlyOnTheLastOne
<1> QED
  BY <1>4, <1>5, <1>7, <1>8 DEF ListInv

(* A removal keeps the invariant, also during an enumeration, which        *)
(* removes anything but the instruction it saved.                          *)
LEMMA RemoveStep ==
  ASSUME ListInv, NEW i \in Removable, RemoveInsn(i)
  PROVE  ListInv'
<1> DEFINE N == Len(order)
<1>1. order \in Seq(Instrs) /\ N \in Nat
  BY DEF ListInv, ListTypeOK
<1>2. PICK m \in 1 .. N : order[m] = i
  BY DEF Removable, InBlock
<1>3. At(order, m) = i /\ i \in Instrs
  BY <1>1, <1>2 DEF At
<1>4. IndexIn(order, i) = m
  BY <1>1, <1>2, <1>3, IndexOfElement DEF ListInv, LinksFollowOrder, Injective
<1>5. /\ order' = RemoveAt(order, m)
      /\ pending' = pending \ {i}
      /\ UNCHANGED <<fresh, crashed, running, currInsn, nextInsn>>
      /\ ~NullDereferenced(order[m]) /\ Unlink(order[m])
      /\ ~crashed
  BY <1>2, <1>4 DEF RemoveInsn, walk
<1>6. /\ firstInsn' \in Instrs \cup {Null} /\ lastInsn' \in Instrs \cup {Null}
      /\ next' \in [Instrs -> Instrs \cup {Null}]
      /\ prev' \in [Instrs -> Instrs \cup {Null}]
      /\ order' \in Seq(Instrs)
      /\ LinksFollowOrder'
      /\ FreshUnlinked'
  BY <1>5, RemoveKeepsLinks DEF ListInv
<1>7. ListTypeOK'
  BY <1>5, <1>6 DEF ListInv, ListTypeOK
<1>8. RemovalOf(m, order, order')
  BY <1>1, <1>5, RemoveAtElements, Zenon
<1>9. \A j, k \in 1 .. N : order[j] = order[k] => j = k
  BY DEF ListInv, LinksFollowOrder
<1>10. CurrentBeforeNext'
  <2>1. SUFFICES ASSUME running
                 PROVE  \E n \in 1 .. Len(order') + 1 :
                          /\ nextInsn = At(order', n)
                          /\ pending \ {i} = {order'[k] : k \in n .. Len(order')}
                          /\ \A c \in 1 .. Len(order') : order'[c] = currInsn => c < n
    BY <1>5 DEF CurrentBeforeNext
  <2>2. PICK n \in 1 .. N + 1 :
          /\ nextInsn = At(order, n)
          /\ pending = {order[k] : k \in n .. N}
          /\ \A c \in 1 .. N : order[c] = currInsn => c < n
    BY <2>1 DEF ListInv, CurrentBeforeNext
  <2>3. Len(order') = N - 1
    BY <1>8 DEF RemovalOf
  <2>4. i # nextInsn
    BY <2>1 DEF Removable
  <2>5. m # n
    BY <1>1, <1>2, <2>2, <2>4 DEF At
  <2>6. \A d \in 1 .. N - 1 : /\ d < m => order'[d] = order[d]
                              /\ ~(d < m) => order'[d] = order[d + 1]
    <3>1. \A d \in 1 .. N - 1 : /\ d < m => d \in 1 .. m - 1
                                /\ ~(d < m) => d + 1 \in m + 1 .. N /\ (d + 1) - 1 = d
      BY <1>1
    <3> QED
      BY <1>8, <3>1 DEF RemovalOf
  <2>7. CASE m < n
    <3>1. /\ n - 1 \in 1 .. (N - 1) + 1
          /\ \A k \in n .. N : k - 1 \in n - 1 .. N - 1 /\ order'[k - 1] = order[k]
      BY <1>1, <1>8, <2>7 DEF RemovalOf
    <3>2. \A k \in n - 1 .. N - 1 : k + 1 \in n .. N /\ order'[k] = order[k + 1]
      BY <1>1, <2>6, <2>7
    <3>3. nextInsn = At(order', n - 1)
      BY <1>1, <2>2, <2>3, <2>7, <3>1 DEF At
    <3>4. i \notin pending
      BY <1>1, <1>2, <1>9, <2>2, <2>7
    <3>5. {order'[k] : k \in n - 1 .. N - 1} = {order[k] : k \in n .. N}
      <4>1. \A k \in n - 1 .. N - 1 : \E j \in n .. N : order'[k] = order[j]
        BY <3>2
      <4>2. \A j \in n .. N : \E k \in n - 1 .. N - 1 : order[j] = order'[k]
        BY <3>1
      <4> DEFINE after == {order'[k] : k \in n - 1 .. N - 1}
                 before == {order[k] : k \in n .. N}
      <4>3. ASSUME NEW x \in after PROVE x \in before
        <5>1. PICK k \in n - 1 .. N - 1 : x = order'[k]
          OBVIOUS
        <5> QED
          BY <4>1, <5>1
      <4>4. ASSUME NEW x \in before PROVE x \in after
        <5>1. PICK k \in n .. N : x = order[k]
          OBVIOUS
        <5> QED
          BY <4>2, <5>1
      <4> HIDE DEF after, before
      <4>5. after = before
        BY <4>3, <4>4
      <4> QED
        BY <4>5 DEF after, before
    <3>6. ASSUME NEW d \in 1 .. N - 1, order'[d] = currInsn
          PROVE  d < n - 1
      <4>1. CASE d < m
        BY <1>1, <2>7, <4>1
      <4>2. CASE ~(d < m)
        <5>1. d + 1 \in 1 .. N /\ order[d + 1] = currInsn
          BY <1>1, <2>6, <3>6, <4>2
        <5>2. d + 1 < n
          BY <2>2, <5>1
        <5> QED
          BY <1>1, <5>2
      <4> QED
        BY <4>1, <4>2
    <3> QED
      BY <2>2, <2>3, <3>1, <3>3, <3>4, <3>5, <3>6
  <2>8. CASE n < m
    <3>1. n \in 1 .. (N - 1) + 1 /\ n \in 1 .. N - 1 /\ order'[n] = order[n]
      BY <1>1, <2>6, <2>8
    <3>2. nextInsn = At(order', n)
      BY <1>1, <2>2, <2>3, <3>1 DEF At
    <3>3. \A k \in n .. N - 1 :
            \E j \in n .. N : order'[k] = order[j] /\ order[j] # i
      <4>1. SUFFICES ASSUME NEW k \in n .. N - 1
                     PROVE  \E j \in n .. N : order'[k] = order[j] /\ order[j] # i
        OBVIOUS
      <4>2. CASE k < m
        <5>1. k \in n .. N /\ k \in 1 .. N /\ k # m /\ order'[k] = order[k]
          BY <1>1, <2>6, <4>2
        <5> QED
          BY <1>2, <1>9, <5>1
      <4>3. CASE ~(k < m)
        <5>1. k + 1 \in n .. N /\ k + 1 \in 1 .. N /\ k + 1 # m /\ order'[k] = order[k + 1]
          BY <1>1, <2>6, <4>3
        <5> QED
          BY <1>2, <1>9, <5>1
      <4> QED
        BY <4>2, <4>3
    <3>4. \A j \in n .. N : order[j] # i => \E k \in n .. N - 1 : order'[k] = order[j]
      <4>1. SUFFICES ASSUME NEW j \in n .. N, order[j] # i
                     PROVE  \E k \in n .. N - 1 : order'[k] = order[j]
        OBVIOUS
      <4>2. CASE j < m
        <5>1. j \in n .. N - 1 /\ order'[j] = order[j]
          BY <1>1, <2>6, <4>2
        <5> QED
          BY <5>1
      <4>3. CASE ~(j < m)
        <5>1. j - 1 \in n .. N - 1 /\ order'[j - 1] = order[j]
          <6>1. j # m
            BY <1>2, <4>1
          <6>2. j \in m + 1 .. N /\ j - 1 \in n .. N - 1
            BY <1>1, <2>8, <4>3, <6>1
          <6> QED
            BY <1>8, <6>2 DEF RemovalOf
        <5> QED
          BY <5>1
      <4> QED
        BY <4>2, <4>3
    <3>5. pending \ {i} = {order'[k] : k \in n .. N - 1}
      <4>1. ASSUME NEW x \in pending \ {i}
            PROVE  x \in {order'[k] : k \in n .. N - 1}
        BY <2>2, <3>4, SMT
      <4>2. ASSUME NEW x \in {order'[k] : k \in n .. N - 1}
            PROVE  x \in pending \ {i}
        <5>1. PICK k \in n .. N - 1 : x = order'[k]
          OBVIOUS
        <5>2. PICK j \in n .. N : order'[k] = order[j] /\ order[j] # i
          BY <3>3
        <5> QED
          BY <2>2, <5>1, <5>2
      <4> QED
        BY <4>1, <4>2, Zenon
    <3>6. ASSUME NEW d \in 1 .. N - 1, order'[d] = currInsn
          PROVE  d < n
      <4>1. CASE d < m
        <5>1. d \in 1 .. N /\ order[d] = currInsn
          BY <1>1, <2>6, <3>6, <4>1
        <5> QED
          BY <2>2, <5>1
      <4>2. CASE ~(d < m)
        <5>1. d + 1 \in 1 .. N /\ order[d + 1] = currInsn
          BY <1>1, <2>6, <3>6, <4>2
        <5>2. d + 1 < n
          BY <2>2, <5>1
        <5> QED
          BY <1>1, <5>2
      <4> QED
        BY <4>1, <4>2
    <3> QED
      BY <2>3, <3>1, <3>2, <3>5, <3>6
  <2> QED
    BY SMTT(60), <1>1, <2>5, <2>7, <2>8
<1>11. CrashOnlyOnTheLastOne'
  BY <1>5 DEF CrashOnlyOnTheLastOne
<1> QED
  BY <1>6, <1>7, <1>10, <1>11 DEF ListInv
-----------------------------------------------------------------------------
(* Where an insertion may take place during an enumeration: next to the    *)
(* current instruction.                                                    *)
LEMMA InsertPlace ==
  ASSUME ListInv, NEW p \in InsertPlaces
  PROVE  \E m \in 0 .. Len(order) :
           /\ p = At(order, m)
           /\ running => \A c \in 1 .. Len(order) :
                           order[c] = currInsn => m \in {c - 1, c}
           /\ running => \E c \in 1 .. Len(order) : order[c] = currInsn
<1> DEFINE N == Len(order)
<1>1. order \in Seq(Instrs) /\ N \in Nat
  BY DEF ListInv, ListTypeOK
<1>2. CASE ~running /\ p = Null
  BY <1>1, <1>2 DEF At
<1>3. CASE ~running /\ p # Null
  <2>1. PICK m \in 1 .. N : order[m] = p
    BY <1>3 DEF InsertPlaces, InBlock
  <2> QED
    BY <1>1, <1>3, <2>1 DEF At
<1>4. CASE running
  <2>1. PICK c \in 1 .. N : order[c] = currInsn
    BY <1>4 DEF InsertPlaces, InBlock
  <2>2. \A d \in 1 .. N : order[d] = currInsn => d = c
    BY <2>1 DEF ListInv, LinksFollowOrder
  <2>3. p = currInsn \/ p = prev[currInsn]
    BY <1>4 DEF InsertPlaces
  <2>4. CASE p = currInsn
    BY <1>1, <2>1, <2>2, <2>4 DEF At
  <2>5. CASE p = prev[currInsn]
    <3>1. c - 1 \in 0 .. N /\ p = At(order, c - 1)
      BY <1>1, <2>1, <2>5 DEF ListInv, LinksFollowOrder
    <3> QED
      BY <2>1, <2>2, <3>1
  <2> QED
    BY <2>3, <2>4, <2>5
<1> QED
  BY <1>2, <1>3, <1>4

(* The invariant holds of an empty block. *)
LEMMA ListInvInit == ListInit => ListInv
<1> SUFFICES ASSUME ListInit PROVE ListInv
  OBVIOUS
<1>1. order = <<>> /\ Len(order) = 0 /\ order \in Seq(Instrs) /\ InBlock = {}
  BY DEF ListInit, InBlock
<1>2. ListTypeOK
  BY <1>1 DEF ListInit, ListTypeOK
<1>3. LinksFollowOrder
  BY <1>1 DEF ListInit, LinksFollowOrder, At
<1>4. FreshUnlinked
  BY <1>1 DEF ListInit, FreshUnlinked
<1> QED
  BY <1>2, <1>3, <1>4 DEF ListInit, ListInv, CurrentBeforeNext, CrashOnlyOnTheLastOne

(* A call of the callback for the n-th instruction. *)
LEMMA CallbackStep ==
  ASSUME ListInv, NEW n \in 1 .. Len(order),
         CallbackFor(order[n]), running',
         pending' = {order[k] : k \in n + 1 .. Len(order)}
  PROVE  ListInv'
<1> DEFINE N == Len(order)
<1>1. order \in Seq(Instrs) /\ N \in Nat /\ order[n] \in Instrs
  BY DEF ListInv, ListTypeOK
<1>2. /\ currInsn' = order[n] /\ nextInsn' = next[order[n]]
      /\ UNCHANGED <<firstInsn, lastInsn, next, prev, fresh, crashed, order>>
  BY DEF CallbackFor, pointers
<1>3. nextInsn' = At(order, n + 1)
  BY <1>2 DEF ListInv, LinksFollowOrder
<1>4. ListTypeOK'
  <2>1. nextInsn' \in Instrs \cup {Null}
    BY <1>1, <1>2 DEF ListInv, ListTypeOK
  <2>2. pending' \subseteq Instrs
    BY <1>1
  <2> QED
    BY <1>1, <1>2, <2>1, <2>2 DEF ListInv, ListTypeOK
<1>5. CurrentBeforeNext'
  <2>1. n + 1 \in 1 .. N + 1
    BY <1>1
  <2>2. \A c \in 1 .. N : order[c] = order[n] => c < n + 1
    BY <1>1 DEF ListInv, LinksFollowOrder
  <2> QED
    BY <1>2, <1>3, <2>1, <2>2 DEF CurrentBeforeNext, At
<1>6. LinksFollowOrder' /\ FreshUnlinked' /\ CrashOnlyOnTheLastOne'
  BY ZenonT(60), <1>2 DEF ListInv, LinksFollowOrder, At, FreshUnlinked, InBlock, CrashOnlyOnTheLastOne
<1> QED
  BY <1>4, <1>5, <1>6 DEF ListInv

(* Every operation on the block and every step of an enumeration keeps the *)
(* invariant.                                                              *)
LEMMA ListInvStep == ListInv /\ [ListNext]_listVars => ListInv'
<1> SUFFICES ASSUME ListInv, [ListNext]_listVars
             PROVE  ListInv'
  OBVIOUS
<1> DEFINE N == Len(order)
<1>1. order \in Seq(Instrs) /\ N \in Nat
  BY DEF ListInv, ListTypeOK
<1>2. ASSUME NEW i \in fresh, BuildInsn(i)
      PROVE  ListInv'
  <2>1. lastInsn = At(order, N)
    BY DEF ListInv, LinksFollowOrder
  <2>2. N \in 0 .. N /\ Insert(At(order, N), i) /\ Inserted(At(order, N), i)
    BY <1>1, <1>2, <2>1 DEF BuildInsn, Insert
  <2>3. ~running /\ ~crashed
    BY <1>2 DEF BuildInsn
  <2> QED
    BY <2>2, <2>3, InsertStep
<1>3. ASSUME NEW i \in fresh, NEW p \in InsertPlaces, InsertInsn(p, i)
      PROVE  ListInv'
  <2>1. PICK m \in 0 .. N :
          /\ p = At(order, m)
          /\ running => \A c \in 1 .. N : order[c] = currInsn => m \in {c - 1, c}
          /\ running => \E c \in 1 .. N : order[c] = currInsn
    BY InsertPlace
  <2>2. Insert(At(order, m), i) /\ Inserted(At(order, m), i) /\ ~crashed
    BY <1>3, <2>1 DEF InsertInsn
  <2> QED
    BY <2>1, <2>2, InsertStep
<1>4. ASSUME NEW i \in Removable, RemoveInsn(i)
      PROVE  ListInv'
  BY <1>4, RemoveStep
<1>5. ASSUME NEW i \in Removable, RemoveCrashes(i)
      PROVE  ListInv'
  <2>1. UNCHANGED <<firstInsn, lastInsn, next, prev, fresh, order,
                    running, currInsn, nextInsn, pending>> /\ crashed'
    BY <1>5 DEF RemoveCrashes, pointers, walk
  <2>2. PICK m \in 1 .. N : order[m] = i
    BY DEF Removable, InBlock
  <2>3. order[m] = firstInsn /\ next[order[m]] = Null
    BY <1>5, <2>2 DEF RemoveCrashes, NullDereferenced
  <2>4. m = 1
    BY <1>1, <2>2, <2>3 DEF ListInv, LinksFollowOrder, At
  <2>5. At(order, 2) = Null
    BY <1>1, <2>2, <2>3, <2>4 DEF ListInv, LinksFollowOrder
  <2>6. 2 \in 1 .. N => order[2] \in Instrs
    BY <1>1
  <2>7. N = 1
    <3>1. 2 \notin 1 .. N
      BY <2>5, <2>6, InsnsAssumption DEF At
    <3>2. ~(2 <= N)
      BY <1>1, <3>1
    <3>3. 1 <= N
      BY <1>1, <2>2, <2>4
    <3>4. \A n \in Nat : 1 <= n /\ ~(2 <= n) => n = 1
      OBVIOUS
    <3> QED
      BY <1>1, <3>2, <3>3, <3>4, Zenon
  <2>8. ListTypeOK'
    BY <2>1 DEF ListInv, ListTypeOK
  <2>9. LinksFollowOrder' /\ FreshUnlinked'
    BY <2>1 DEF ListInv, LinksFollowOrder, At, FreshUnlinked, InBlock
  <2>10. CurrentBeforeNext'
    BY <2>1 DEF ListInv, CurrentBeforeNext, At
  <2> QED
    BY <2>1, <2>7, <2>8, <2>9, <2>10 DEF ListInv, CrashOnlyOnTheLastOne
<1>6. CASE Enumerate
  <2>1. 1 \in 1 .. N /\ firstInsn = order[1]
    BY <1>1, <1>6 DEF Enumerate, ListInv, LinksFollowOrder, At
  <2>2. InBlock \ {order[1]} = {order[k] : k \in 1 + 1 .. N}
    <3>1. \A k \in 1 .. N : order[k] = order[1] <=> k = 1
      BY <2>1 DEF ListInv, LinksFollowOrder
    <3>2. \A k \in 1 .. N : k \in 1 + 1 .. N <=> k # 1
      BY <1>1
    <3>3. \A k \in 1 + 1 .. N : k \in 1 .. N
      BY <1>1
    <3> QED
      BY <3>1, <3>2, <3>3 DEF InBlock
  <2> QED
    BY <1>6, <2>1, <2>2, CallbackStep DEF Enumerate
<1>7. CASE NextInsn
  <2>1. PICK n \in 1 .. N + 1 :
          /\ nextInsn = At(order, n)
          /\ pending = {order[k] : k \in n .. N}
    BY <1>7 DEF NextInsn, ListInv, CurrentBeforeNext
  <2>2. n \in 1 .. N /\ nextInsn = order[n]
    BY <1>1, <1>7, <2>1 DEF NextInsn, At
  <2>3. pending \ {order[n]} = {order[k] : k \in n + 1 .. N}
    <3>1. \A k \in n .. N : order[k] = order[n] <=> k = n
      BY <1>1, <2>2 DEF ListInv, LinksFollowOrder
    <3>2. \A k \in n .. N : k \in n + 1 .. N <=> k # n
      BY <1>1, <2>2
    <3>3. \A k \in n + 1 .. N : k \in n .. N
      BY <1>1, <2>2
    <3> QED
      BY <2>1, <3>1, <3>2, <3>3
  <2> QED
    BY <1>7, <2>2, <2>3, CallbackStep DEF NextInsn
<1>8. CASE EnumerationEnd \/ EnumerationStopped
  <2>1. /\ UNCHANGED <<firstInsn, lastInsn, next, prev, fresh, crashed, order>>
        /\ running' = FALSE /\ currInsn' = Null /\ nextInsn' = Null
        /\ pending' \in {pending, {}}
    BY <1>8 DEF EnumerationEnd, EnumerationStopped, pointers
  <2>2. ListTypeOK'
    BY <2>1 DEF ListInv, ListTypeOK
  <2>3. LinksFollowOrder' /\ FreshUnlinked' /\ CrashOnlyOnTheLastOne'
    BY <2>1 DEF ListInv, LinksFollowOrder, At, FreshUnlinked, InBlock, CrashOnlyOnTheLastOne
  <2>4. CurrentBeforeNext'
    BY <2>1 DEF CurrentBeforeNext
  <2> QED
    BY <2>2, <2>3, <2>4 DEF ListInv
<1>9. CASE UNCHANGED listVars
  BY <1>9 DEF listVars, pointers, walk, ListInv, ListTypeOK, LinksFollowOrder, At,
              FreshUnlinked, InBlock, CurrentBeforeNext, CrashOnlyOnTheLastOne
<1> QED
  BY <1>2, <1>3, <1>4, <1>5, <1>6, <1>7, <1>8, <1>9 DEF ListNext

(* The invariant that carries the three theorems below. *)
THEOREM ListInvariant == ListSpec => []ListInv
<1>1. ListInit => ListInv
  BY ListInvInit
<1>2. ListInv /\ [ListNext]_listVars => ListInv'
  BY ListInvStep
<1> QED
  BY <1>1, <1>2, PTL DEF ListSpec

(* PushInstruction, InsertInstruction and Remove keep the pointers of a    *)
(* block, in both directions, in the order of its instructions.            *)
THEOREM ListStaysLinked == ListSpec => []LinksFollowOrder
<1>1. ListInv => LinksFollowOrder
  BY DEF ListInv
<1> QED
  BY <1>1, ListInvariant, PTL

(* EnumerateInsns visits every instruction that was in the block at the    *)
(* start and has not been removed before its turn, once, and no other.     *)
THEOREM EnumerationVisitsAll == ListSpec => []EnumerationOnTrack
<1>1. ListInv => EnumerationOnTrack
  BY DEF ListInv, CurrentBeforeNext, EnumerationOnTrack
<1> QED
  BY <1>1, ListInvariant, PTL

(* Remove dereferences a null pointer only when it takes the only          *)
(* instruction out of a block.                                             *)
THEOREM RemoveCrashesOnlyOnTheLast == ListSpec => []CrashOnlyOnTheLastOne
<1>1. ListInv => CrashOnlyOnTheLastOne
  BY DEF ListInv
<1> QED
  BY <1>1, ListInvariant, PTL

-----------------------------------------------------------------------------
(* The inductive invariant of the def-use edges. *)

(* The instructions that are, or are about to be, in a block. *)
Live == IF Idle THEN placed ELSE placed \cup {new}

(* The types of the history variables. *)
HistoryOK ==
  /\ meant \in [Insns -> Seq(1 .. created)]
  /\ given \in [Insns -> SUBSET (Insns \X Blocks)]

(* What is replaced is in a block; what replaces it may not be yet. *)
ReplacementOK ==
  IF Idle THEN new = None ELSE old \in placed /\ new \in 1 .. created

(* An instruction that is yet to be created has nothing. *)
BlankBeyond ==
  \A i \in Insns : i > created =>
    /\ inputs[i] = <<>> /\ users[i] = <<>> /\ given[i] = {}
    /\ \A v \in Insns : deps[i][v] = {}

(* The conjuncts about each variable alone. *)
TypesOK == DefUseTypeOK /\ HistoryOK /\ ReplacementOK /\ BlankBeyond

(* The edges, in both directions, stay among the live instructions. *)
Closed ==
  \A i \in Live : Uses(inputs[i]) \subseteq Live /\ Uses(users[i]) \subseteq Live

(* i is a user of each of its inputs, and is in the users of d at most as  *)
(* often as d is an input of it: RemoveUsers takes one entry out for each  *)
(* input, and could otherwise leave one behind.                            *)
EnteredIn(i, d) ==
  /\ Count(users[d], i) <= Count(inputs[i], d)
  /\ d \in Uses(inputs[i]) => i \in Uses(users[d])

(* The instruction that is being replaced loses its users one by one. *)
Entered == \A i \in Live, d \in Live \ {old} : EnteredIn(i, d)

(* Who still uses what is being replaced has an entry at or after the      *)
(* iterator: the loop cannot end before all of them have been rewritten.   *)
StillAhead ==
  ~Idle => \A i \in Live : old \in Uses(inputs[i]) =>
             \E k \in userIt .. Len(users[old]) : users[old][k] = i

(* The keys of a phi's dependencies are its inputs. *)
PhiKeys ==
  \A i \in Live : kind[i] = "phi" =>
    \A v \in Insns : v \in Uses(inputs[i]) <=> deps[i][v] # {}

(* The dependencies of one phi, as pairs of a value and a block. *)
Pairs(ds) == {g \in Insns \X Blocks : g[2] \in ds[g[1]]}

(* Such pairs with the replaced value replaced. *)
Substituted(pairs) == {<<Substitute(g[1]), g[2]>> : g \in pairs}

(* Replacing what is left to replace gives what has been asked for, be the *)
(* user one that the loop has come to or not.                              *)
AsMeant ==
  \A i \in Live :
    /\ ReplaceIn(inputs[i]) = ReplaceIn(meant[i])
    /\ kind[i] = "phi" => Substituted(Pairs(deps[i])) = Substituted(given[i])

(* The inductive invariant. *)
DefUseInv == TypesOK /\ Closed /\ Entered /\ StillAhead /\ PhiKeys /\ AsMeant

(* What DefUseInv comes to between two calls. *)
Settled ==
  /\ Closed /\ PhiKeys
  /\ \A i, d \in Live : EnteredIn(i, d)
  /\ \A i \in Live :
       /\ inputs[i] = meant[i]
       /\ kind[i] = "phi" => Pairs(deps[i]) = given[i]

-----------------------------------------------------------------------------
(* Consequences of the invariant, and back. *)

(* Instructions that exist, and those in blocks, are among Insns. *)
LEMMA Numbers ==
  TypesOK => /\ created \in Nat /\ placed \subseteq 1 .. created
             /\ placed \subseteq Insns /\ 1 .. created \subseteq Insns
<1> SUFFICES ASSUME TypesOK
             PROVE  /\ created \in Nat /\ placed \subseteq 1 .. created
                    /\ placed \subseteq Insns /\ 1 .. created \subseteq Insns
  OBVIOUS
<1>1. /\ created \in 0 .. MAX_INSNS /\ placed \subseteq 1 .. created
      /\ MAX_INSNS \in Nat
  BY DefUseAssumption DEF TypesOK, DefUseTypeOK
<1>2. 1 .. created \subseteq Insns
  BY <1>1 DEF Insns
<1> QED
  BY <1>1, <1>2

(* Live instructions exist, and None is none of them. *)
LEMMA LiveTyped ==
  TypesOK => /\ Live \subseteq 1 .. created
             /\ Live \subseteq Insns /\ None \notin Live
BY DefUseAssumption DEF TypesOK, DefUseTypeOK, ReplacementOK, Live, Insns, None

(* Between two calls there is nothing left to replace. *)
LEMMA IdleSettled == DefUseInv /\ Idle => Settled
<1> SUFFICES ASSUME DefUseInv, Idle PROVE Settled
  OBVIOUS
<1>1. TypesOK /\ Closed /\ Entered /\ PhiKeys /\ AsMeant
  BY DEF DefUseInv
<1>2. old = None /\ new = None /\ Live = placed /\ None \notin Live
  BY <1>1, LiveTyped DEF Idle, Live, TypesOK, ReplacementOK
<1>3. \A i, d \in Live : EnteredIn(i, d)
  BY <1>1, <1>2 DEF Entered
<1>4. ASSUME NEW i \in Live PROVE inputs[i] = meant[i]
  <2>1. inputs[i] \in Seq(1 .. created) /\ meant[i] \in Seq(1 .. created)
    BY <1>1, LiveTyped DEF TypesOK, DefUseTypeOK, HistoryOK
  <2>2. None \notin Uses(inputs[i]) /\ None \notin Uses(meant[i])
    <3>1. /\ Uses(inputs[i]) \subseteq 1 .. created
          /\ Uses(meant[i]) \subseteq 1 .. created
      BY <2>1, UsesTyped
    <3> QED
      BY <3>1 DEF None
  <2>3. /\ ReplaceAll(inputs[i], old, new) = inputs[i]
        /\ ReplaceAll(meant[i], old, new) = meant[i]
    BY <1>2, <2>1, <2>2, UsesReplaceAll
  <2> QED
    BY <1>1, <2>3 DEF AsMeant, ReplaceIn
<1>5. ASSUME NEW i \in Live, kind[i] = "phi" PROVE Pairs(deps[i]) = given[i]
  <2>1. /\ Pairs(deps[i]) \subseteq Insns \X Blocks
        /\ given[i] \subseteq Insns \X Blocks
    BY <1>1, LiveTyped DEF TypesOK, HistoryOK, Pairs
  <2>2. \A A \in SUBSET (Insns \X Blocks) : Substituted(A) = A
    BY <1>2, DefUseAssumption DEF Substituted, Substitute, Insns, None
  <2> QED
    BY <1>1, <1>5, <2>1, <2>2 DEF AsMeant
<1> QED
  BY <1>1, <1>3, <1>4, <1>5 DEF Settled

(* A state that is settled when a loop begins, or when one has ended,      *)
(* satisfies the invariant.                                                *)
LEMMA SettledInv == TypesOK /\ Settled /\ userIt <= 1 => DefUseInv
<1> SUFFICES ASSUME TypesOK, Settled, userIt <= 1 PROVE DefUseInv
  OBVIOUS
<1>1. Closed /\ PhiKeys /\ Entered /\ AsMeant
  BY DEF Settled, Entered, AsMeant
<1>2. StillAhead
  <2> SUFFICES ASSUME ~Idle, NEW i \in Live, old \in Uses(inputs[i])
               PROVE  \E k \in userIt .. Len(users[old]) : users[old][k] = i
    BY DEF StillAhead
  <2>1. old \in Live /\ userIt = 1
    BY DEF TypesOK, DefUseTypeOK, ReplacementOK, Live, Idle
  <2>2. i \in Uses(users[old])
    BY <2>1 DEF Settled, EnteredIn
  <2> QED
    BY <2>1, <2>2 DEF Uses
<1> QED
  BY <1>1, <1>2 DEF DefUseInv

-----------------------------------------------------------------------------
(* Constructors, ResolveDependency and the calls of ReplaceInputsForUsers. *)

(* A constructor that enters the new instruction in the users of its       *)
(* inputs keeps the types.                                                 *)
LEMMA ConstructTypes ==
  ASSUME TypesOK, Idle, NEW k \in Kinds \ {"none"}, NEW s \in Seq(placed),
         NEW us \in Lists(Insns, 1 .. NewInsn),
         Enters(Insns, users, us, s, NewInsn),
         Construct(k, s, us)
  PROVE  /\ NewInsn \in Insns /\ created' = NewInsn /\ created \in Nat
         /\ kind' \in [Insns -> Kinds]
         /\ inputs' \in [Insns -> Seq(1 .. created')]
         /\ users' \in [Insns -> Seq(1 .. created')]
         /\ deps' \in [Insns -> [Insns -> SUBSET Blocks]]
         /\ HistoryOK'
         /\ BlankBeyond'
         /\ placed \subseteq 1 .. created
<1>1. /\ created \in Nat /\ NewInsn \in Insns /\ created' = NewInsn
      /\ NewInsn \in Nat /\ created <= NewInsn
  BY DEF TypesOK, DefUseTypeOK, Construct, NewInsn, Insns
<1>2. placed \subseteq 1 .. created /\ s \in Seq(1 .. created')
  <2>1. placed \subseteq 1 .. created
    BY DEF TypesOK, DefUseTypeOK
  <2>2. placed \subseteq 1 .. created'
    BY <1>1, <2>1
  <2> QED
    BY <2>1, <2>2, ListsGrow
<1>3. Seq(1 .. created) \subseteq Seq(1 .. created')
  <2>1. 1 .. created \subseteq 1 .. created'
    BY <1>1
  <2> QED
    BY <2>1, ListsGrow
<1>4. /\ inputs' \in [Insns -> Seq(1 .. created')]
      /\ users' \in [Insns -> Seq(1 .. created')]
  BY <1>1, <1>2, <1>3 DEF TypesOK, DefUseTypeOK, Construct, Lists
<1>5. HistoryOK'
  BY <1>1, <1>2, <1>3 DEF TypesOK, HistoryOK, Construct
<1>6. kind' \in [Insns -> Kinds] /\ deps' \in [Insns -> [Insns -> SUBSET Blocks]]
  BY <1>1 DEF TypesOK, DefUseTypeOK, Construct
<1>7. BlankBeyond'
  <2> SUFFICES ASSUME NEW i \in Insns, i > created'
               PROVE  /\ inputs'[i] = <<>> /\ users'[i] = <<>> /\ given'[i] = {}
                      /\ \A v \in Insns : deps'[i][v] = {}
    BY DEF BlankBeyond
  <2>1. i > created /\ i # NewInsn /\ i > NewInsn /\ i \notin placed
    BY <1>1, <1>2 DEF Insns
  <2>2. /\ users[i] = <<>> /\ inputs[i] = <<>> /\ given[i] = {}
        /\ \A v \in Insns : deps[i][v] = {}
    BY <2>1 DEF TypesOK, BlankBeyond
  <2>3. us[i] = <<>>
    <3>1. us[i] \in Seq(1 .. NewInsn) /\ i \notin Uses(s)
      BY <2>1, UsesTyped DEF Lists
    <3>2. Uses(users[i]) = {} /\ users[i] \in Seq({})
      BY <2>2 DEF Uses
    <3>3. /\ \A x : x # NewInsn => Count(us[i], x) = Count(users[i], x)
          /\ Count(us[i], NewInsn) <= Count(users[i], NewInsn) + Count(s, i)
      BY DEF Enters
    <3>4. \A x : Count(users[i], x) = 0
      BY <3>2, CountUses
    <3>5. Count(s, i) = 0 /\ \A x : Count(us[i], x) \in Nat
      BY <3>1, CountUses
    <3>6. \A x : Count(us[i], x) = 0
      BY <3>3, <3>4, <3>5
    <3>7. Uses(us[i]) = {}
      BY <3>1, <3>6, CountUses
    <3> QED
      BY <3>1, <3>7, UsesTyped
  <2> QED
    BY <2>1, <2>2, <2>3 DEF TypesOK, DefUseTypeOK, Construct
<1> QED
  BY <1>1, <1>2, <1>4, <1>5, <1>6, <1>7

(* It also leaves the edges settled, whether the instruction is placed or  *)
(* is to replace another: nothing had it as an input or as a user before.  *)
LEMMA ConstructSettles ==
  ASSUME TypesOK, Settled, Idle, NEW k \in Kinds \ {"none"}, NEW s \in Seq(placed),
         k = "phi" => s = <<>>,
         NEW us \in Lists(Insns, 1 .. NewInsn),
         Enters(Insns, users, us, s, NewInsn),
         Construct(k, s, us), Live' = placed \cup {NewInsn}
  PROVE  Settled'
<1> DEFINE n == NewInsn
<1>1. /\ n \in Insns /\ n \notin 1 .. created /\ placed \subseteq 1 .. created
      /\ Live = placed /\ placed \subseteq Insns
      /\ created \in Nat /\ n > created
  BY LiveTyped DEF TypesOK, DefUseTypeOK, Construct, NewInsn, Insns, Live
<1>2. /\ inputs'[n] = s /\ meant'[n] = s /\ kind'[n] = k /\ users' = us
      /\ deps' = deps /\ given' = given
      /\ \A i \in placed :
           inputs'[i] = inputs[i] /\ meant'[i] = meant[i] /\ kind'[i] = kind[i]
  BY <1>1 DEF TypesOK, DefUseTypeOK, HistoryOK, Construct
<1>3. users[n] = <<>> /\ given[n] = {} /\ \A v \in Insns : deps[n][v] = {}
  BY <1>1 DEF TypesOK, BlankBeyond
<1>4. Uses(s) \subseteq placed
  BY UsesTyped
<1>5. /\ \A d \in Insns : users[d] \in Seq(1 .. created) /\ users'[d] \in Seq(1 .. n)
      /\ \A d \in Insns : inputs[d] \in Seq(1 .. created)
  BY <1>2 DEF TypesOK, DefUseTypeOK, Lists
<1>6. \A i \in placed : Uses(inputs[i]) \subseteq placed /\ Uses(users[i]) \subseteq placed
  BY <1>1 DEF Settled, Closed
<1> HIDE DEF n
<1>7. ASSUME NEW d \in Insns
      PROVE  /\ \A x : x # n => Count(users'[d], x) = Count(users[d], x)
             /\ Count(users'[d], n) <= Count(s, d)
             /\ d \in Uses(s) => n \in Uses(users'[d])
             /\ d \notin Uses(s) => n \notin Uses(users'[d])
             /\ \A x : x # n => (x \in Uses(users'[d]) <=> x \in Uses(users[d]))
  <2>1. /\ \A x : x # n => Count(users'[d], x) = Count(users[d], x)
        /\ Count(users'[d], n) <= Count(users[d], n) + Count(s, d)
        /\ d \in Uses(s) => Count(users'[d], n) # 0
    BY <1>2 DEF Enters, n
  <2>2. n \notin Uses(users[d])
    BY <1>1, <1>5, UsesTyped
  <2>3. \A x : x \in Uses(users[d]) <=> Count(users[d], x) # 0
    BY <1>5, CountUses
  <2>4. \A x : x \in Uses(users'[d]) <=> Count(users'[d], x) # 0
    BY <1>5, CountUses
  <2>5. /\ Count(s, d) \in Nat /\ Count(users'[d], n) \in Nat
        /\ d \in Uses(s) <=> Count(s, d) # 0
    BY <1>5, CountUses
  <2>6. Count(users[d], n) = 0
    BY <2>2, <2>3
  <2> QED
    BY <2>1, <2>3, <2>4, <2>5, <2>6
<1>8. Closed'
  <2>1. ASSUME NEW i \in placed
        PROVE  /\ Uses(inputs'[i]) \subseteq placed
               /\ Uses(users'[i]) \subseteq placed \cup {n}
    BY <1>1, <1>2, <1>6, <1>7
  <2>2. Uses(inputs'[n]) \subseteq placed /\ Uses(users'[n]) = {}
    <3>1. Uses(users[n]) = {}
      BY <1>3 DEF Uses
    <3>2. n \notin Uses(s)
      BY <1>1, <1>4
    <3> QED
      BY <1>1, <1>2, <1>4, <1>7, <3>1, <3>2
  <2> QED
    BY <2>1, <2>2 DEF Closed, n
<1>9. PhiKeys'
  <2>1. ASSUME NEW i \in placed, kind'[i] = "phi", NEW v \in Insns
        PROVE  v \in Uses(inputs'[i]) <=> deps'[i][v] # {}
    BY <1>1, <1>2, <2>1 DEF Settled, PhiKeys
  <2>2. ASSUME kind'[n] = "phi", NEW v \in Insns
        PROVE  v \in Uses(inputs'[n]) <=> deps'[n][v] # {}
    BY <1>2, <1>3, <2>2 DEF Uses
  <2> QED
    BY <2>1, <2>2 DEF PhiKeys, n
<1>10. \A i, d \in Live' : EnteredIn(i, d)'
  <2> SUFFICES ASSUME NEW i \in placed \cup {n}, NEW d \in placed \cup {n}
               PROVE  /\ Count(users'[d], i) <= Count(inputs'[i], d)
                      /\ d \in Uses(inputs'[i]) => i \in Uses(users'[d])
    BY DEF EnteredIn, n
  <2>1. CASE i = n
    BY <1>1, <1>2, <1>7, <2>1
  <2>2. CASE i # n /\ d # n
    <3>1. /\ Count(users[d], i) <= Count(inputs[i], d)
          /\ d \in Uses(inputs[i]) => i \in Uses(users[d])
      BY <1>1, <2>2 DEF Settled, EnteredIn
    <3> QED
      BY <1>1, <1>2, <1>7, <2>2, <3>1
  <2>3. CASE i # n /\ d = n
    <3>1. i \notin Uses(users[n]) /\ Count(users'[n], i) = Count(users[n], i)
      <4>1. Uses(users[n]) = {}
        BY <1>3 DEF Uses
      <4> QED
        BY <1>1, <1>7, <2>3, <4>1
    <3>2. Count(users[n], i) = 0
      BY <1>1, <1>5, <3>1, CountUses
    <3>3. Count(inputs'[i], n) \in Nat
      BY <1>1, <1>2, <1>5, <2>3, CountUses
    <3>4. n \notin Uses(inputs'[i])
      BY <1>1, <1>2, <1>6, <2>3
    <3> QED
      BY <2>3, <3>1, <3>2, <3>3, <3>4
  <2> QED
    BY <2>1, <2>2, <2>3
<1>11. \A i \in Live' : /\ inputs'[i] = meant'[i]
                        /\ kind'[i] = "phi" => Pairs(deps'[i]) = given'[i]
  <2>1. Pairs(deps[n]) = {}
    BY <1>3 DEF Pairs
  <2> QED
    BY <1>1, <1>2, <1>3, <2>1 DEF Settled, n
<1> QED
  BY <1>8, <1>9, <1>10, <1>11 DEF Settled, Pairs

(* An instruction with default inputs is entered once in the users of each *)
(* of its inputs, also where they are the same.                            *)
LEMMA DefaultInputsEnter ==
  ASSUME TypesOK, NewInsn \in Insns, NEW s \in Seq(placed), Len(s) <= 2
  PROVE  /\ DefaultInputsUsers(NewInsn, s) \in Lists(Insns, 1 .. NewInsn)
         /\ Enters(Insns, users, DefaultInputsUsers(NewInsn, s), s, NewInsn)
<1> DEFINE n == NewInsn
           J == 1 .. NewInsn
           us == DefaultInputsUsers(NewInsn, s)
<1>1. created \in Nat /\ n \in J /\ placed \subseteq Insns
  BY Numbers DEF NewInsn
<1>2. users \in Lists(Insns, J)
  <2>1. 1 .. created \subseteq J
    BY <1>1 DEF NewInsn
  <2>2. Seq(1 .. created) \subseteq Seq(J)
    BY <2>1, ListsGrow
  <2> QED
    BY <2>2 DEF TypesOK, DefUseTypeOK, Lists
<1>3. s \in Seq(Insns)
  BY <1>1, ListsGrow
<1> HIDE DEF n, J, us
<1>4. CASE s = <<>>
  <2>1. us = users /\ Uses(s) = {}
    <3>1. Len(s) = 0
      BY <1>4
    <3>2. Len(s) # 2
      BY <3>1
    <3> QED
      BY <1>3, <1>4, <3>2, UsesTyped, Zenon DEF DefaultInputsUsers, us
  <2>2. ASSUME NEW d \in Insns, NEW x
        PROVE  Count(us[d], x) =
                 Count(users[d], x) + (IF d \in Uses(s) /\ x = n THEN 1 ELSE 0)
    BY <1>2, <2>1, CountUses DEF Lists
  <2>3. Enters(Insns, users, us, s, n)
    BY <1>2, <1>3, <2>2, EntersOnce
  <2> QED
    BY <1>2, <2>1, <2>3 DEF n, J, us
<1>5. CASE Len(s) = 2 /\ s[1] # s[2]
  <2>1. s[1] \in Insns /\ s[2] \in Insns /\ Uses(s) = {s[1], s[2]}
    <3>1. 1 .. Len(s) = {1, 2}
      BY <1>5
    <3>2. s[1] \in Insns /\ s[2] \in Insns
      BY <1>3, <1>5
    <3>3. Uses(s) = {s[k] : k \in {1, 2}}
      BY <3>1, Zenon DEF Uses
    <3> QED
      BY <3>2, <3>3
  <2> DEFINE us1 == AddUser(users, s[1], n)
             u1 == s[1]
             u2 == s[2]
  <2>2. us1 \in Lists(Insns, J) /\ AddsEntry(Insns, users, us1, u1, n)
    BY <1>1, <1>2, <2>1, AddUserCounts
  <2> HIDE DEF us1
  <2>3. us = AddUser(us1, u2, n)
    BY <1>5 DEF DefaultInputsUsers, us, us1, n
  <2>4. us \in Lists(Insns, J) /\ AddsEntry(Insns, us1, us, u2, n)
    BY <1>1, <2>1, <2>2, <2>3, AddUserCounts
  <2>5. Uses(s) = {u1, u2} /\ u1 # u2
    BY <1>5, <2>1
  <2> HIDE DEF u1, u2
  <2>6. ASSUME NEW d \in Insns, NEW x
        PROVE  Count(us[d], x) =
                 Count(users[d], x) + (IF d \in Uses(s) /\ x = n THEN 1 ELSE 0)
    <3>1. /\ Count(users[d], x) \in Nat
          /\ Count(us1[d], x) = Count(users[d], x) + (IF d = u1 /\ x = n THEN 1 ELSE 0)
          /\ Count(us[d], x) = Count(us1[d], x) + (IF d = u2 /\ x = n THEN 1 ELSE 0)
      BY <2>2, <2>4 DEF AddsEntry
    <3> QED
      BY <2>5, <3>1
  <2>7. Enters(Insns, users, us, s, n)
    BY <1>2, <1>3, <2>6, EntersOnce
  <2> QED
    BY <2>4, <2>7 DEF n, J, us
<1>6. CASE s # <<>> /\ ~ (Len(s) = 2 /\ s[1] # s[2])
  <2>1. s[1] \in Insns /\ Uses(s) = {s[1]}
    <3>1. Len(s) \in Nat /\ Len(s) # 0
      BY <1>3, <1>6
    <3>2. Len(s) = 1 \/ (Len(s) = 2 /\ s[2] = s[1])
      <4>1. \A k \in Nat : k # 0 /\ k <= 2 => k = 1 \/ k = 2
        OBVIOUS
      <4>2. Len(s) = 1 \/ Len(s) = 2
        BY <3>1, <4>1
      <4> QED
        BY <1>6, <4>2, Zenon
    <3>3. 1 .. 1 = {1} /\ 1 .. 2 = {1, 2}
      OBVIOUS
    <3> QED
      BY <1>3, <3>2, <3>3 DEF Uses
  <2>2. us = AddUser(users, s[1], n)
    BY <1>6 DEF DefaultInputsUsers, us, n
  <2>3. us \in Lists(Insns, J) /\ AddsEntry(Insns, users, us, s[1], n)
    BY <1>1, <1>2, <2>1, <2>2, AddUserCounts
  <2>4. ASSUME NEW d \in Insns, NEW x
        PROVE  Count(us[d], x) =
                 Count(users[d], x) + (IF d \in Uses(s) /\ x = n THEN 1 ELSE 0)
    BY <2>1, <2>3 DEF AddsEntry
  <2>5. Enters(Insns, users, us, s, n)
    BY <1>2, <1>3, <2>4, EntersOnce
  <2> QED
    BY <2>3, <2>5 DEF n, J, us
<1> QED
  BY <1>4, <1>5, <1>6

(* One with a vector is entered as often as it has the input. *)
LEMMA VectorInputsEnter ==
  ASSUME TypesOK, NewInsn \in Insns, NEW s \in Seq(placed)
  PROVE  /\ VectorInputsUsers(NewInsn, s) \in Lists(Insns, 1 .. NewInsn)
         /\ Enters(Insns, users, VectorInputsUsers(NewInsn, s), s, NewInsn)
<1>1. created \in Nat /\ NewInsn \in 1 .. NewInsn /\ placed \subseteq Insns
  BY Numbers DEF NewInsn
<1>2. users \in Lists(Insns, 1 .. NewInsn)
  <2>1. 1 .. created \subseteq 1 .. NewInsn
    BY <1>1 DEF NewInsn
  <2>2. Seq(1 .. created) \subseteq Seq(1 .. NewInsn)
    BY <2>1, ListsGrow
  <2> QED
    BY <2>2 DEF TypesOK, DefUseTypeOK, Lists
<1>3. s \in Seq(Insns)
  BY <1>1, ListsGrow
<1> QED
  BY <1>1, <1>2, <1>3, AddToUsersEnters DEF VectorInputsUsers

(* Creating an instruction and placing it keeps the invariant. *)
LEMMA PlacedInv ==
  ASSUME DefUseInv, Idle, NEW k \in Kinds \ {"none"}, NEW s \in Seq(placed),
         k = "phi" => s = <<>>,
         NEW us \in Lists(Insns, 1 .. NewInsn),
         Enters(Insns, users, us, s, NewInsn),
         Construct(k, s, us), Place
  PROVE  DefUseInv'
<1>1. TypesOK /\ Settled
  BY IdleSettled DEF DefUseInv
<1>2. /\ NewInsn \in Insns /\ created' = NewInsn /\ created \in Nat
      /\ kind' \in [Insns -> Kinds]
      /\ inputs' \in [Insns -> Seq(1 .. created')]
      /\ users' \in [Insns -> Seq(1 .. created')]
      /\ deps' \in [Insns -> [Insns -> SUBSET Blocks]]
      /\ HistoryOK' /\ BlankBeyond' /\ placed \subseteq 1 .. created
  BY <1>1, ConstructTypes
<1>3. /\ placed' = placed \cup {NewInsn} /\ Idle' /\ old' = None /\ new' = None
      /\ userIt' = 0
  BY <1>1 DEF Place, replacement, Idle, TypesOK, DefUseTypeOK, ReplacementOK
<1>4. TypesOK'
  <2>1. /\ created' \in 0 .. MAX_INSNS /\ placed' \subseteq 1 .. created'
        /\ 0 \in 0 .. created'
    BY <1>2, <1>3, DefUseAssumption DEF NewInsn, Insns
  <2> QED
    BY <1>2, <1>3, <2>1 DEF TypesOK, DefUseTypeOK, ReplacementOK, None
<1>5. Live' = placed \cup {NewInsn}
  BY <1>3 DEF Live
<1>6. Settled'
  BY <1>1, <1>5, ConstructSettles
<1>7. userIt' <= 1
  BY <1>3
<1>8. (TypesOK /\ Settled /\ userIt <= 1)' => DefUseInv'
  BY SettledInv, PTL
<1> QED
  BY <1>4, <1>6, <1>7, <1>8

(* The lists that are enumerated are lists of placed instructions. *)
LEMMA InputListsAreLists ==
  ASSUME NEW m \in Nat, NEW n \in Nat, NEW s \in InputLists(m, n)
  PROVE  s \in Seq(placed) /\ Len(s) <= n
<1>1. PICK k \in m .. n : s \in [1 .. k -> placed]
  BY DEF InputLists
<1>2. k \in Nat /\ k <= n
  OBVIOUS
<1> QED
  BY <1>1, <1>2

(* CreateDefault keeps the invariant. *)
LEMMA CreateDefaultInv ==
  ASSUME DefUseInv, NEW s \in InputLists(0, 2), CreateDefault(s)
  PROVE  DefUseInv'
<1>1. TypesOK /\ Idle /\ Place /\ NewInsn \in Insns
  BY DEF DefUseInv, CreateDefault, Construct
<1>2. s \in Seq(placed) /\ Len(s) <= 2
  BY InputListsAreLists
<1> DEFINE us == DefaultInputsUsers(NewInsn, s)
<1>3. us \in Lists(Insns, 1 .. NewInsn) /\ Enters(Insns, users, us, s, NewInsn)
  BY <1>1, <1>2, DefaultInputsEnter
<1>4. /\ Construct("default", s, us) /\ "default" \in Kinds \ {"none"}
      /\ "default" # "phi"
  BY DEF CreateDefault, Kinds
<1> HIDE DEF us
<1> QED
  BY <1>1, <1>2, <1>3, <1>4, PlacedInv

(* CreateVector keeps it. *)
LEMMA CreateVectorInv ==
  ASSUME DefUseInv, NEW s \in InputLists(1, MAX_INPUTS), CreateVector(s)
  PROVE  DefUseInv'
<1>1. TypesOK /\ Idle /\ Place /\ NewInsn \in Insns
  BY DEF DefUseInv, CreateVector, Construct
<1>2. s \in Seq(placed)
  BY InputListsAreLists, DefUseAssumption
<1> DEFINE us == VectorInputsUsers(NewInsn, s)
<1>3. us \in Lists(Insns, 1 .. NewInsn) /\ Enters(Insns, users, us, s, NewInsn)
  BY <1>1, <1>2, VectorInputsEnter
<1>4. /\ Construct("vector", s, us) /\ "vector" \in Kinds \ {"none"}
      /\ "vector" # "phi"
  BY DEF CreateVector, Kinds
<1> HIDE DEF us
<1> QED
  BY <1>1, <1>2, <1>3, <1>4, PlacedInv

(* CreatePhi keeps it. *)
LEMMA CreatePhiInv ==
  ASSUME DefUseInv, CreatePhi
  PROVE  DefUseInv'
<1>1. TypesOK /\ Idle /\ Place /\ NewInsn \in Insns
  BY DEF DefUseInv, CreatePhi, Construct
<1> DEFINE s == <<>>
<1>2. s \in Seq(placed) /\ Len(s) <= 2 /\ users = DefaultInputsUsers(NewInsn, s)
  BY DEF DefaultInputsUsers
<1> HIDE DEF s
<1>3. /\ users \in Lists(Insns, 1 .. NewInsn)
      /\ Enters(Insns, users, users, s, NewInsn)
  BY <1>1, <1>2, DefaultInputsEnter
<1>4. Construct("phi", s, users) /\ "phi" \in Kinds \ {"none"} /\ s = <<>>
  BY DEF CreatePhi, Kinds, s
<1> QED
  BY <1>1, <1>2, <1>3, <1>4, PlacedInv

(* ReplaceByNew keeps it: the new instruction is live from now on, though  *)
(* in no block yet, and a new sum is the last user of what it replaces.    *)
LEMMA ReplaceByNewInv ==
  ASSUME DefUseInv, NEW i \in placed, ReplaceByNew(i)
  PROVE  DefUseInv'
<1>1. TypesOK /\ Settled /\ Idle /\ Len(inputs[i]) = 2
  BY IdleSettled DEF DefUseInv, ReplaceByNew
<1>2. PICK s \in {<<>>, <<inputs[i][1], inputs[i][1]>>} :
        Construct("default", s, DefaultInputsUsers(NewInsn, s))
  BY DEF ReplaceByNew
<1>3. s \in Seq(placed) /\ Len(s) <= 2
  <2>1. i \in Insns /\ i \in Live /\ Live = placed
    BY <1>1, Numbers DEF Live
  <2>2. inputs[i] \in Seq(1 .. created) /\ Uses(inputs[i]) \subseteq placed
    BY <1>1, <2>1 DEF Settled, Closed, TypesOK, DefUseTypeOK
  <2>3. inputs[i][1] \in placed
    BY <1>1, <2>2 DEF Uses
  <2> DEFINE x == inputs[i][1]
  <2> HIDE DEF x
  <2>4. /\ <<>> \in Seq(placed) /\ Len(<<>>) <= 2 /\ <<x, x>> \in Seq(placed)
        /\ Len(<<x, x>>) <= 2
    BY <2>3 DEF x
  <2> QED
    BY <1>2, <2>4 DEF x
<1> DEFINE us == DefaultInputsUsers(NewInsn, s)
<1>4. NewInsn \in Insns
  BY <1>2 DEF Construct
<1>5. us \in Lists(Insns, 1 .. NewInsn) /\ Enters(Insns, users, us, s, NewInsn)
  BY <1>1, <1>3, <1>4, DefaultInputsEnter
<1>6. /\ Construct("default", s, us) /\ "default" \in Kinds \ {"none"}
      /\ "default" # "phi"
  BY <1>2 DEF Kinds
<1> HIDE DEF us
<1>7. /\ created' = NewInsn /\ created \in Nat
      /\ kind' \in [Insns -> Kinds]
      /\ inputs' \in [Insns -> Seq(1 .. created')]
      /\ users' \in [Insns -> Seq(1 .. created')]
      /\ deps' \in [Insns -> [Insns -> SUBSET Blocks]]
      /\ HistoryOK' /\ BlankBeyond' /\ placed \subseteq 1 .. created
  BY <1>1, <1>3, <1>5, <1>6, ConstructTypes
<1>8. placed' = placed /\ old' = i /\ new' = NewInsn /\ userIt' = 1
  BY DEF ReplaceByNew, Replace
<1>9. i \in 1 .. created' /\ NewInsn \in 1 .. created' /\ old' # None
  BY <1>7, <1>8 DEF NewInsn, None
<1>10. TypesOK'
  <2>1. created' \in 0 .. MAX_INSNS /\ placed' \subseteq 1 .. created'
    BY <1>4, <1>7, <1>8, DefUseAssumption DEF NewInsn, Insns
  <2>2. users'[i] \in Seq(1 .. created')
    BY <1>1, <1>7, Numbers
  <2>3. 1 \in 1 .. Len(users'[i]) + 1
    BY <2>2
  <2>4. old' \in 0 .. created' /\ new' \in 0 .. created'
    BY <1>8, <1>9
  <2>5. DefUseTypeOK'
    BY <1>7, <1>8, <1>9, <2>1, <2>3, <2>4 DEF DefUseTypeOK
  <2>6. ReplacementOK'
    BY <1>8, <1>9 DEF ReplacementOK, Idle
  <2> QED
    BY <1>7, <2>5, <2>6 DEF TypesOK
<1>11. Live' = placed \cup {NewInsn}
  BY <1>8, <1>9 DEF Live, Idle
<1>12. Settled'
  BY <1>1, <1>3, <1>5, <1>6, <1>11, ConstructSettles
<1>13. (TypesOK /\ Settled /\ userIt <= 1)' => DefUseInv'
  BY SettledInv, PTL
<1> QED
  BY <1>8, <1>10, <1>12, <1>13

(* ReplaceByInput and ReplaceByCheck keep it: every user is still ahead of *)
(* an iterator at the first entry.                                         *)
LEMMA StartReplacingInv ==
  ASSUME DefUseInv, Idle, NEW i \in placed, NEW n \in placed, Replace(i, n),
         UNCHANGED <<graph, inputs, users, deps, history>>
  PROVE  DefUseInv'
<1>1. TypesOK /\ Settled
  BY IdleSettled DEF DefUseInv
<1>2. /\ i \in Insns /\ i \in 1 .. created /\ n \in 1 .. created /\ i # None
      /\ created \in Nat
  BY <1>1, Numbers DEF None
<1>3. old' = i /\ new' = n /\ userIt' = 1
  BY DEF Replace
<1>4. TypesOK'
  <2>1. 1 \in 1 .. Len(users[i]) + 1
    BY <1>1, <1>2 DEF TypesOK, DefUseTypeOK
  <2>2. old' \in 0 .. created /\ new' \in 0 .. created
    BY <1>2, <1>3
  <2> QED
    BY <1>1, <1>2, <1>3, <2>1, <2>2
       DEF TypesOK, DefUseTypeOK, HistoryOK, ReplacementOK, BlankBeyond, Idle, graph, history
<1>5. Live' = Live
  BY <1>2, <1>3 DEF Live, Idle, graph
<1>6. Settled'
  BY <1>1, <1>5 DEF Settled, Closed, PhiKeys, EnteredIn, Pairs, graph, history
<1>7. (TypesOK /\ Settled /\ userIt <= 1)' => DefUseInv'
  BY SettledInv, PTL
<1> QED
  BY <1>3, <1>4, <1>6, <1>7

(* ResolveDependency keeps it: a value joins the inputs and the keys of    *)
(* the dependencies together, and the phi joins the users of the value.    *)
LEMMA ResolveDependencyInv ==
  ASSUME DefUseInv, NEW phi \in placed, NEW value \in placed, NEW bb \in Blocks,
         ResolveDependency(phi, value, bb)
  PROVE  DefUseInv'
<1>1. TypesOK /\ Settled /\ Idle /\ kind[phi] = "phi"
  BY IdleSettled DEF DefUseInv, ResolveDependency
<1>2. /\ phi \in Insns /\ value \in Insns /\ value \in 1 .. created
      /\ phi \in 1 .. created
      /\ Live = placed /\ placed \subseteq Insns /\ created \in Nat
  BY <1>1, Numbers DEF Live
<1>3. /\ Idle' /\ Live' = placed /\ userIt' = 0
      /\ UNCHANGED <<created, placed, kind, old, new, userIt>>
  BY <1>1
     DEF ResolveDependency, graph, replacement, Live, Idle, TypesOK, DefUseTypeOK
<1>4. /\ deps' = [deps EXCEPT
                   ![phi] = [deps[phi] EXCEPT ![value] = deps[phi][value] \cup {bb}]]
      /\ given' = [given EXCEPT ![phi] = given[phi] \cup {<<value, bb>>}]
  BY DEF ResolveDependency
<1>5. /\ deps \in [Insns -> [Insns -> SUBSET Blocks]]
      /\ given \in [Insns -> SUBSET (Insns \X Blocks)]
  BY <1>1 DEF TypesOK, DefUseTypeOK, HistoryOK
<1>6. /\ deps' \in [Insns -> [Insns -> SUBSET Blocks]]
      /\ given' \in [Insns -> SUBSET (Insns \X Blocks)]
  BY <1>2, <1>4, <1>5
<1>7. /\ \A i \in Insns : i # phi => deps'[i] = deps[i] /\ given'[i] = given[i]
      /\ \A v \in Insns :
           deps'[phi][v] = IF v = value THEN deps[phi][v] \cup {bb} ELSE deps[phi][v]
      /\ given'[phi] = given[phi] \cup {<<value, bb>>}
  BY <1>2, <1>4, <1>5
<1>8. /\ inputs \in [Insns -> Seq(1 .. created)]
      /\ users \in Lists(Insns, 1 .. created)
  BY <1>1 DEF TypesOK, DefUseTypeOK, Lists
<1>9. /\ inputs' \in [Insns -> Seq(1 .. created)]
      /\ users' \in Lists(Insns, 1 .. created)
      /\ meant' \in [Insns -> Seq(1 .. created)]
      /\ \A i \in Insns : i # phi => inputs'[i] = inputs[i] /\ meant'[i] = meant[i]
      /\ inputs'[phi] = meant'[phi]
      /\ Uses(inputs'[phi]) = Uses(inputs[phi]) \cup {value}
      /\ \A d \in Insns \ {value} :
           users'[d] = users[d] /\ Count(inputs'[phi], d) = Count(inputs[phi], d)
      /\ \A x : x # phi => (x \in Uses(users'[value]) <=> x \in Uses(users[value]))
      /\ \A x : x # phi => Count(users'[value], x) = Count(users[value], x)
      /\ phi \in Uses(users'[value])
      /\ Count(users'[value], phi) <= Count(inputs'[phi], value)
  <2>1. /\ inputs[phi] = meant[phi] /\ meant \in [Insns -> Seq(1 .. created)]
        /\ Count(users[value], phi) <= Count(inputs[phi], value)
        /\ value \in Uses(inputs[phi]) => phi \in Uses(users[value])
    BY <1>1, <1>2 DEF Settled, EnteredIn, TypesOK, HistoryOK
  <2>2. inputs[phi] \in Seq(1 .. created) /\ users[value] \in Seq(1 .. created)
    BY <1>2, <1>8 DEF Lists
  <2>3. CASE deps[phi][value] = {}
    <3> DEFINE s == inputs[phi]
               u == users[value]
    <3>1. /\ inputs' = [inputs EXCEPT ![phi] = Append(s, value)]
          /\ meant' = [meant EXCEPT ![phi] = Append(s, value)]
          /\ users' = [users EXCEPT ![value] = Append(u, phi)]
      BY <2>1, <2>3 DEF ResolveDependency, AddUser
    <3>2. /\ Count(s, value) \in Nat /\ Count(u, phi) \in Nat
          /\ \A x : Count(s, x) \in Nat /\ Count(u, x) \in Nat
      BY <2>2, CountUses
    <3>3. /\ \A x : Count(Append(s, value), x) = Count(s, x) + (IF value = x THEN 1 ELSE 0)
          /\ \A x : Count(Append(u, phi), x) = Count(u, x) + (IF phi = x THEN 1 ELSE 0)
          /\ Uses(Append(s, value)) = Uses(s) \cup {value}
          /\ Uses(Append(u, phi)) = Uses(u) \cup {phi}
      <4>1. s \in Seq(1 .. created) /\ u \in Seq(1 .. created)
        BY <2>2
      <4> HIDE DEF s, u
      <4>2. ASSUME NEW x
            PROVE  Count(Append(s, value), x) = Count(s, x) + (IF value = x THEN 1 ELSE 0)
        BY <1>2, <4>1, CountAppend
      <4>3. ASSUME NEW x
            PROVE  Count(Append(u, phi), x) = Count(u, x) + (IF phi = x THEN 1 ELSE 0)
        <5> DEFINE J == 1 .. created
        <5>1. u \in Seq(J) /\ phi \in J
          BY <1>2, <4>1
        <5> HIDE DEF J
        <5> QED
          BY <5>1, CountAppend
      <4>4. /\ Uses(Append(s, value)) = Uses(s) \cup {value}
            /\ Uses(Append(u, phi)) = Uses(u) \cup {phi}
        <5>1. Uses(Append(s, value)) = Uses(s) \cup {value}
          BY <1>2, <4>1, UsesAppend
        <5>2. Uses(Append(u, phi)) = Uses(u) \cup {phi}
          <6> DEFINE J == 1 .. created
          <6>1. u \in Seq(J) /\ phi \in J
            BY <1>2, <4>1
          <6> HIDE DEF J
          <6> QED
            BY <6>1, UsesAppend
        <5> QED
          BY <5>1, <5>2
      <4> QED
        BY <4>2, <4>3, <4>4
    <3>4. /\ Append(s, value) \in Seq(1 .. created)
          /\ Append(u, phi) \in Seq(1 .. created)
      BY <1>2, <2>2
    <3>5. /\ inputs'[phi] = Append(s, value) /\ meant'[phi] = Append(s, value)
          /\ users'[value] = Append(u, phi)
          /\ \A i \in Insns : i # phi => inputs'[i] = inputs[i] /\ meant'[i] = meant[i]
          /\ \A d \in Insns \ {value} : users'[d] = users[d]
      BY <1>2, <1>8, <2>1, <3>1 DEF Lists
    <3>6. /\ inputs' \in [Insns -> Seq(1 .. created)]
          /\ users' \in Lists(Insns, 1 .. created)
          /\ meant' \in [Insns -> Seq(1 .. created)]
      BY <1>8, <2>1, <3>1, <3>4 DEF Lists
    <3>7. ASSUME NEW d \in Insns \ {value}
          PROVE  Count(Append(s, value), d) = Count(s, d)
      <4>1. Count(Append(s, value), d) = Count(s, d) + 0
        BY <3>3
      <4> QED
        BY <3>2, <4>1
    <3>8. ASSUME NEW x, x # phi PROVE Count(Append(u, phi), x) = Count(u, x)
      <4>1. Count(Append(u, phi), x) = Count(u, x) + 0
        BY <3>3, <3>8
      <4> QED
        BY <3>2, <4>1
    <3>9. Count(Append(u, phi), phi) <= Count(Append(s, value), value)
      <4>1. /\ Count(Append(u, phi), phi) = Count(u, phi) + 1
            /\ Count(Append(s, value), value) = Count(s, value) + 1
        BY <3>3
      <4> QED
        BY <2>1, <3>2, <4>1
    <3> QED
      BY <3>3, <3>5, <3>6, <3>7, <3>8, <3>9
  <2>4. CASE deps[phi][value] # {}
    <3>1. inputs' = inputs /\ meant' = meant /\ users' = users
      BY <2>4 DEF ResolveDependency
    <3>2. value \in Uses(inputs[phi])
      BY <1>1, <1>2, <2>4 DEF Settled, PhiKeys
    <3> QED
      BY <1>8, <2>1, <3>1, <3>2
  <2> QED
    BY <2>3, <2>4
<1>10. TypesOK'
  <2>1. DefUseTypeOK'
    BY <1>1, <1>3, <1>6, <1>9 DEF TypesOK, DefUseTypeOK, Lists, Idle
  <2>2. HistoryOK' /\ ReplacementOK'
    BY <1>1, <1>3, <1>6, <1>9 DEF TypesOK, HistoryOK, ReplacementOK
  <2>3. BlankBeyond'
    <3> SUFFICES ASSUME NEW i \in Insns, i > created
                 PROVE  /\ inputs'[i] = <<>> /\ users'[i] = <<>> /\ given'[i] = {}
                        /\ \A v \in Insns : deps'[i][v] = {}
      BY <1>3 DEF BlankBeyond
    <3>1. i # phi /\ i # value
      BY <1>2
    <3> QED
      BY <1>1, <1>7, <1>9, <3>1 DEF TypesOK, BlankBeyond
  <2> QED
    BY <2>1, <2>2, <2>3 DEF TypesOK
<1>11. Closed'
  <2> SUFFICES ASSUME NEW i \in placed
               PROVE  /\ Uses(inputs'[i]) \subseteq placed
                      /\ Uses(users'[i]) \subseteq placed
    BY <1>3 DEF Closed
  <2>1. Uses(inputs[i]) \subseteq placed /\ Uses(users[i]) \subseteq placed
    BY <1>1, <1>2 DEF Settled, Closed
  <2> QED
    BY <1>2, <1>9, <2>1
<1>12. PhiKeys'
  <2> SUFFICES ASSUME NEW i \in placed, kind[i] = "phi", NEW v \in Insns
               PROVE  v \in Uses(inputs'[i]) <=> deps'[i][v] # {}
    BY <1>3 DEF PhiKeys
  <2>1. v \in Uses(inputs[i]) <=> deps[i][v] # {}
    BY <1>1, <1>2 DEF Settled, PhiKeys
  <2> QED
    BY <1>2, <1>7, <1>9, <2>1
<1>13. \A i, d \in Live' : EnteredIn(i, d)'
  <2> SUFFICES ASSUME NEW i \in placed, NEW d \in placed
               PROVE  /\ Count(users'[d], i) <= Count(inputs'[i], d)
                      /\ d \in Uses(inputs'[i]) => i \in Uses(users'[d])
    BY <1>3 DEF EnteredIn
  <2>1. /\ Count(users[d], i) <= Count(inputs[i], d)
        /\ d \in Uses(inputs[i]) => i \in Uses(users[d])
    BY <1>1, <1>2 DEF Settled, EnteredIn
  <2>2. CASE i = phi /\ d = value
    BY <1>9, <2>2
  <2>3. CASE i = phi /\ d # value
    BY <1>2, <1>9, <2>1, <2>3
  <2>4. CASE i # phi
    BY <1>2, <1>9, <2>1, <2>4
  <2> QED
    BY <2>2, <2>3, <2>4
<1>14. ASSUME NEW i \in placed
       PROVE  inputs'[i] = meant'[i] /\ (kind'[i] = "phi" => Pairs(deps'[i]) = given'[i])
  <2>1. inputs[i] = meant[i] /\ (kind[i] = "phi" => Pairs(deps[i]) = given[i])
    BY <1>1, <1>2 DEF Settled
  <2>2. CASE i = phi
    <3>1. Pairs(deps'[phi]) = Pairs(deps[phi]) \cup {<<value, bb>>}
      <4>1. ASSUME NEW g \in Insns \X Blocks
            PROVE  g[2] \in deps'[phi][g[1]]
                    <=> g[2] \in deps[phi][g[1]] \/ g = <<value, bb>>
        <5>1. g[1] \in Insns /\ (g = <<value, bb>> <=> g[1] = value /\ g[2] = bb)
          OBVIOUS
        <5>2. CASE g[1] = value
          <6>1. deps'[phi][g[1]] = deps[phi][g[1]] \cup {bb}
            BY <1>7, <5>1, <5>2
          <6> QED
            BY <5>1, <5>2, <6>1
        <5>3. CASE g[1] # value
          BY <1>7, <5>1, <5>3
        <5> QED
          BY <5>2, <5>3
      <4>2. <<value, bb>> \in Insns \X Blocks
        BY <1>2
      <4> QED
        BY <4>1, <4>2 DEF Pairs
    <3> QED
      BY <1>1, <1>7, <1>9, <2>1, <2>2, <3>1
  <2>3. CASE i # phi
    BY <1>2, <1>3, <1>7, <1>9, <2>1, <2>3
  <2> QED
    BY <2>2, <2>3
<1>15. Settled'
  BY <1>3, <1>11, <1>12, <1>13, <1>14 DEF Settled, Pairs
<1>16. (TypesOK /\ Settled /\ userIt <= 1)' => DefUseInv'
  BY SettledInv, PTL
<1> QED
  BY <1>3, <1>10, <1>15, <1>16

-----------------------------------------------------------------------------
(* The loop of ReplaceInputsForUsers. *)

(* What is known of the two instructions and of the user the iterator is   *)
(* at.                                                                     *)
LEMMA ReplacingFacts ==
  ASSUME DefUseInv, Replacing
  PROVE  /\ ~Idle /\ TypesOK /\ old \in Live /\ new \in Live /\ old \in Insns
         /\ new \in Insns
         /\ Live = placed \cup {new} /\ CurrUser \in Live /\ Live \subseteq Insns
         /\ Live \subseteq 1 .. created /\ created \in Nat
         /\ userIt \in 1 .. Len(users[old])
         /\ inputs \in [Insns -> Seq(1 .. created)]
         /\ users \in Lists(Insns, 1 .. created)
<1>1. /\ TypesOK /\ ~Idle /\ Live = placed \cup {new} /\ old \in Live
      /\ new \in Live
      /\ old # None
  BY DEF DefUseInv, Replacing, Idle, Live, TypesOK, ReplacementOK
<1>2. Live \subseteq Insns /\ Live \subseteq 1 .. created /\ created \in Nat
  BY <1>1, LiveTyped, Numbers
<1>3. /\ inputs \in [Insns -> Seq(1 .. created)]
      /\ users \in Lists(Insns, 1 .. created)
  BY <1>1 DEF TypesOK, DefUseTypeOK, Lists
<1>4. userIt \in 1 .. Len(users[old])
  <2>1. userIt \in 1 .. Len(users[old]) + 1 /\ userIt <= Len(users[old])
    BY <1>1 DEF TypesOK, DefUseTypeOK, Replacing
  <2>2. Len(users[old]) \in Nat
    BY <1>1, <1>2, <1>3 DEF Lists
  <2> QED
    BY <2>1, <2>2
<1>5. CurrUser \in Uses(users[old])
  BY <1>4 DEF CurrUser, Uses
<1>6. CurrUser \in Live
  BY <1>1, <1>5 DEF DefUseInv, Closed
<1> QED
  BY <1>1, <1>2, <1>3, <1>4, <1>6

(* SkipUser keeps the invariant: the user it passes by does not use the    *)
(* instruction, so it is none of those who must be ahead.                  *)
LEMMA SkipUserInv ==
  ASSUME DefUseInv, SkipUser
  PROVE  DefUseInv'
<1>1. Replacing /\ ~Idle /\ old \notin Uses(inputs[CurrUser])
  BY ReplacingFacts DEF SkipUser
<1>2. /\ UNCHANGED <<created, placed, kind, inputs, users, deps, old, new, meant, given>>
      /\ userIt' = userIt + 1
  BY DEF SkipUser, graph, history
<1>3. /\ userIt \in 1 .. Len(users[old]) /\ TypesOK /\ old \in Insns
      /\ users \in Lists(Insns, 1 .. created)
  BY <1>1, ReplacingFacts
<1>4. Len(users[old]) \in Nat
  BY <1>3 DEF Lists
<1>5. TypesOK'
  <2>1. userIt + 1 \in 1 .. Len(users[old]) + 1
    BY <1>3, <1>4
  <2> QED
    BY <1>1, <1>2, <1>3, <2>1
       DEF TypesOK, DefUseTypeOK, HistoryOK, ReplacementOK, BlankBeyond, Idle
<1>6. Live' = Live
  BY <1>2 DEF Live, Idle
<1>7. StillAhead'
  <2> SUFFICES ASSUME NEW i \in Live, old \in Uses(inputs[i])
               PROVE  \E k \in userIt + 1 .. Len(users[old]) : users[old][k] = i
    BY <1>2, <1>6 DEF StillAhead
  <2>1. PICK k \in userIt .. Len(users[old]) : users[old][k] = i
    BY <1>1 DEF DefUseInv, StillAhead
  <2>2. k # userIt
    BY <1>1, <2>1 DEF CurrUser
  <2>3. k \in userIt + 1 .. Len(users[old])
    BY <1>3, <1>4, <2>2
  <2> QED
    BY <2>1, <2>3
<1>8. Closed' /\ Entered' /\ PhiKeys' /\ AsMeant'
  BY <1>2, <1>6
     DEF DefUseInv, Closed, Entered, EnteredIn, PhiKeys, AsMeant, Pairs,
                    Substituted, Substitute, ReplaceIn
<1> QED
  BY <1>5, <1>7, <1>8 DEF DefUseInv

(* What ReplaceUser does to the lists of users.  The entry taken out is at *)
(* the iterator or before it, so that every other entry at or after the    *)
(* iterator stays there, although the iterator does not move in the list.  *)
LEMMA ReplaceUserLists ==
  ASSUME DefUseInv, ReplaceUser
  PROVE  /\ users' \in Lists(Insns, 1 .. created)
         /\ \A d \in Insns : \A x :
              x # CurrUser => Count(users'[d], x) = Count(users[d], x)
         /\ \A d \in Insns : \A x :
              x # CurrUser => (x \in Uses(users'[d]) <=> x \in Uses(users[d]))
         /\ \A d \in Insns \ {old} :
              Count(users'[d], CurrUser) =
                Count(users[d], CurrUser) + (IF d = new THEN 1 ELSE 0)
         /\ \A d \in Insns \ {old, new} : users'[d] = users[d]
         /\ new # old => CurrUser \in Uses(users'[new])
         /\ userIt \in 1 .. Len(users'[old]) + 1
         /\ \A i :
              i # CurrUser /\ (\E k \in userIt .. Len(users[old]) : users[old][k] = i) =>
              \E k \in userIt .. Len(users'[old]) : users'[old][k] = i
         /\ old = new => \E k \in userIt .. Len(users'[old]) : users'[old][k] = CurrUser
<1> DEFINE u == CurrUser
           J == 1 .. created
           s == users[old]
           n == Len(s)
           r == RemoveFirst(s, u)
           us1 == RemoveUser(users, old, u)
<1>1. /\ Replacing /\ users' = AddUser(us1, new, u)
  BY DEF ReplaceUser
<1>2. /\ old \in Insns /\ new \in Insns /\ u \in J /\ userIt \in 1 .. n
      /\ users \in Lists(Insns, J) /\ s[userIt] = u /\ s \in Seq(J) /\ n \in Nat
  BY <1>1, ReplacingFacts DEF CurrUser, Lists
<1>3. u \in Uses(s)
  BY <1>2 DEF Uses
<1>4. us1 = [users EXCEPT ![old] = r]
  BY DEF RemoveUser
<1> HIDE DEF u, J
<1>5. us1 \in Lists(Insns, J) /\ TakesEntry(Insns, users, us1, old, u)
  BY <1>2, RemoveUserCounts
<1>6. users' \in Lists(Insns, J) /\ AddsEntry(Insns, us1, users', new, u)
  <2> HIDE DEF us1
  <2> QED
    BY <1>1, <1>2, <1>5, AddUserCounts
<1>7. users' = [us1 EXCEPT ![new] = Append(us1[new], u)]
  BY <1>1 DEF AddUser
<1> HIDE DEF us1
<1>8. ASSUME NEW d \in Insns, NEW x, x # u
      PROVE  /\ Count(users'[d], x) = Count(users[d], x)
             /\ x \in Uses(users'[d]) <=> x \in Uses(users[d])
  <2>1. Count(us1[d], x) = Count(users[d], x) - 0 /\ Count(users[d], x) \in Nat
    BY <1>5, <1>8 DEF TakesEntry
  <2>2. Count(users'[d], x) = Count(us1[d], x) + 0
    BY <1>6, <1>8 DEF AddsEntry
  <2>3. users[d] \in Seq(J) /\ users'[d] \in Seq(J)
    BY <1>2, <1>6 DEF Lists
  <2>4. Count(users'[d], x) = Count(users[d], x)
    BY <2>1, <2>2
  <2>5. x \in Uses(users'[d]) <=> Count(users'[d], x) # 0
    BY <2>3, CountUses
  <2>6. x \in Uses(users[d]) <=> Count(users[d], x) # 0
    BY <2>3, CountUses
  <2> QED
    BY <2>4, <2>5, <2>6
<1>9. ASSUME NEW d \in Insns \ {old}
      PROVE  /\ Count(users'[d], u) = Count(users[d], u) + (IF d = new THEN 1 ELSE 0)
             /\ Count(users[d], u) \in Nat
  <2>1. Count(us1[d], u) = Count(users[d], u) - 0 /\ Count(users[d], u) \in Nat
    BY <1>5, <1>9 DEF TakesEntry
  <2>2. Count(users'[d], u) = Count(us1[d], u) + (IF d = new THEN 1 ELSE 0)
    BY <1>6, <1>9 DEF AddsEntry
  <2> QED
    BY <2>1, <2>2
<1>10. \A d \in Insns \ {old, new} : users'[d] = users[d]
  BY <1>2, <1>4, <1>5, <1>7 DEF Lists
<1>11. new # old => u \in Uses(users'[new])
  <2> SUFFICES ASSUME new # old PROVE u \in Uses(users'[new])
    OBVIOUS
  <2>1. /\ Count(users'[new], u) = Count(users[new], u) + 1
        /\ Count(users[new], u) \in Nat
    BY <1>2, <1>9
  <2>2. users'[new] \in Seq(J)
    BY <1>2, <1>6 DEF Lists
  <2>3. u \in Uses(users'[new]) <=> Count(users'[new], u) # 0
    BY <2>2, CountUses
  <2> QED
    BY <2>1, <2>3
<1>12. PICK p \in 1 .. n : WithoutFirst(s, r, u, p)
  BY <1>2, <1>3, RemoveFirstAt
<1>12a. /\ s[p] = u
        /\ \A k \in 1 .. p - 1 : s[k] # u
        /\ r = [k \in 1 .. n - 1 |-> IF k < p THEN s[k] ELSE s[k + 1]]
  BY <1>12 DEF WithoutFirst
<1>13. r \in Seq(J) /\ us1[old] = r
  BY <1>2, <1>4, CountRemoveFirst DEF Lists
<1>14. users'[old] = IF old = new THEN Append(r, u) ELSE r
  BY <1>2, <1>5, <1>7, <1>13 DEF Lists
<1> HIDE DEF r
<1>15. p <= userIt
  BY <1>2, <1>12a
<1>16. /\ Len(r) = n - 1 /\ n - 1 \in Nat
       /\ \A k \in 1 .. n - 1 : r[k] = IF k < p THEN s[k] ELSE s[k + 1]
  <2>1. n - 1 \in Nat
    BY <1>2
  <2>2. r = [k \in 1 .. n - 1 |-> IF k < p THEN s[k] ELSE s[k + 1]]
    BY <1>12a
  <2> HIDE DEF s, n
  <2> QED
    BY <2>1, <2>2
<1>17. ASSUME NEW k \in userIt .. n, k # userIt
       PROVE  k - 1 \in userIt .. n - 1 /\ r[k - 1] = s[k]
  <2>1. /\ k - 1 \in userIt .. n - 1 /\ k - 1 \in 1 .. n - 1 /\ ~ k - 1 < p
        /\ (k - 1) + 1 = k
    BY <1>2, <1>15, <1>17
  <2> QED
    BY <1>16, <2>1
<1>18. /\ Len(users'[old]) = IF old = new THEN n ELSE n - 1
       /\ \A k \in 1 .. n - 1 : users'[old][k] = r[k]
       /\ old = new => users'[old][n] = u
  BY <1>2, <1>13, <1>14, <1>16
<1>19. userIt \in 1 .. Len(users'[old]) + 1
  BY <1>2, <1>16, <1>18
<1>20. ASSUME NEW i, i # u, NEW k \in userIt .. n, s[k] = i
       PROVE  \E m \in userIt .. Len(users'[old]) : users'[old][m] = i
  <2>1. k # userIt
    BY <1>2, <1>20
  <2>2. k - 1 \in userIt .. n - 1 /\ r[k - 1] = i
    BY <1>17, <1>20, <2>1
  <2>3. k - 1 \in userIt .. Len(users'[old]) /\ k - 1 \in 1 .. n - 1
    BY <1>2, <1>18, <2>2
  <2> QED
    BY <1>18, <2>2, <2>3
<1>21. ASSUME old = new
       PROVE  \E k \in userIt .. Len(users'[old]) : users'[old][k] = u
  <2>1. n \in userIt .. Len(users'[old])
    BY <1>2, <1>18, <1>21
  <2> QED
    BY <1>18, <1>21, <2>1
<1> QED
  BY <1>6, <1>8, <1>9, <1>10, <1>11, <1>19, <1>20, <1>21 DEF u, J

(* ReplaceDependency moves the blocks of one value to the other and loses  *)
(* none of them.                                                           *)
LEMMA DependencyReplaced ==
  ASSUME NEW ds \in [Insns -> SUBSET Blocks], old \in Insns, new \in Insns
  PROVE  /\ ReplaceDependency(ds) \in [Insns -> SUBSET Blocks]
         /\ \A v \in Insns :
              ReplaceDependency(ds)[v] = IF v = new THEN ds[new] \cup ds[old]
                                         ELSE IF v = old THEN {} ELSE ds[v]
         /\ Substituted(Pairs(ReplaceDependency(ds))) = Substituted(Pairs(ds))
<1> DEFINE rd == ReplaceDependency(ds)
<1>1. \A v \in Insns : rd[v] = IF v = new THEN ds[new] \cup ds[old]
                              ELSE IF v = old THEN {} ELSE ds[v]
  BY DEF ReplaceDependency
<1>2. rd \in [Insns -> SUBSET Blocks]
  BY DEF ReplaceDependency
<1> HIDE DEF rd
<1>3. \A g \in Pairs(rd) : \E h \in Pairs(ds) :
        Substitute(h[1]) = Substitute(g[1]) /\ h[2] = g[2]
  <2> SUFFICES ASSUME NEW v \in Insns, NEW bb \in Blocks, bb \in rd[v]
               PROVE  \E h \in Pairs(ds) : Substitute(h[1]) = Substitute(v) /\ h[2] = bb
    BY DEF Pairs
  <2>1. (v = new /\ bb \in ds[old]) \/ bb \in ds[v]
    BY <1>1
  <2>2. CASE v = new /\ bb \in ds[old]
    <3>1. <<old, bb>> \in Pairs(ds)
      BY <2>2 DEF Pairs
    <3> QED
      BY <2>2, <3>1 DEF Substitute
  <2>3. CASE bb \in ds[v]
    <3>1. <<v, bb>> \in Pairs(ds)
      BY <2>3 DEF Pairs
    <3> QED
      BY <3>1
  <2> QED
    BY <2>1, <2>2, <2>3
<1>4. \A g \in Pairs(ds) : \E h \in Pairs(rd) :
        Substitute(h[1]) = Substitute(g[1]) /\ h[2] = g[2]
  <2> SUFFICES ASSUME NEW v \in Insns, NEW bb \in Blocks, bb \in ds[v]
               PROVE  \E h \in Pairs(rd) : Substitute(h[1]) = Substitute(v) /\ h[2] = bb
    BY DEF Pairs
  <2>1. CASE v = old
    <3>1. <<new, bb>> \in Pairs(rd)
      BY <1>1, <2>1 DEF Pairs
    <3> QED
      BY <2>1, <3>1 DEF Substitute
  <2>2. CASE v # old
    <3>1. <<v, bb>> \in Pairs(rd)
      BY <1>1, <2>2 DEF Pairs
    <3> QED
      BY <3>1
  <2> QED
    BY <2>1, <2>2
<1>5. Substituted(Pairs(rd)) = Substituted(Pairs(ds))
  BY <1>3, <1>4 DEF Substituted
<1> QED
  BY <1>1, <1>2, <1>5 DEF rd

(* ReplaceUser keeps the invariant. *)
LEMMA ReplaceUserInv ==
  ASSUME DefUseInv, ReplaceUser
  PROVE  DefUseInv'
<1> DEFINE u == CurrUser
           J == 1 .. created
<1>1. /\ Replacing /\ old \in Uses(inputs[u])
      /\ inputs' = [inputs EXCEPT ![u] = ReplaceAll(inputs[u], old, new)]
      /\ deps' = IF kind[u] = "phi"
                 THEN [deps EXCEPT ![u] = ReplaceDependency(deps[u])] ELSE deps
      /\ UNCHANGED <<created, placed, kind, old, new, userIt, meant, given>>
  BY DEF ReplaceUser, ReplaceIn, graph, replacement, history
<1>2. /\ ~Idle /\ TypesOK /\ old \in Live /\ new \in Live /\ old \in Insns
      /\ new \in Insns
      /\ Live = placed \cup {new} /\ u \in Live /\ Live \subseteq Insns
      /\ Live \subseteq J /\ created \in Nat
      /\ inputs \in [Insns -> Seq(J)] /\ users \in Lists(Insns, J)
  BY <1>1, ReplacingFacts
<1>3. /\ users' \in Lists(Insns, J)
      /\ \A d \in Insns : \A x : x # u => Count(users'[d], x) = Count(users[d], x)
      /\ \A d \in Insns : \A x :
           x # u => (x \in Uses(users'[d]) <=> x \in Uses(users[d]))
      /\ \A d \in Insns \ {old} :
           Count(users'[d], u) = Count(users[d], u) + (IF d = new THEN 1 ELSE 0)
      /\ \A d \in Insns \ {old, new} : users'[d] = users[d]
      /\ new # old => u \in Uses(users'[new])
      /\ userIt \in 1 .. Len(users'[old]) + 1
      /\ \A i : i # u /\ (\E k \in userIt .. Len(users[old]) : users[old][k] = i) =>
           \E k \in userIt .. Len(users'[old]) : users'[old][k] = i
      /\ old = new => \E k \in userIt .. Len(users'[old]) : users'[old][k] = u
  BY ReplaceUserLists
<1> HIDE DEF u, J
<1>4. /\ inputs[u] \in Seq(J) /\ new \in J /\ u \in Insns /\ u \in J
      /\ \A d \in Insns : users[d] \in Seq(J) /\ inputs[d] \in Seq(J)
  BY <1>2 DEF Lists
<1>5. /\ ReplaceAll(inputs[u], old, new) \in Seq(J)
      /\ \A x : Count(ReplaceAll(inputs[u], old, new), x) =
             IF old = new THEN Count(inputs[u], x)
             ELSE IF x = old THEN 0
             ELSE IF x = new THEN Count(inputs[u], new) + Count(inputs[u], old)
             ELSE Count(inputs[u], x)
  BY <1>4, CountReplaceAll
<1>6. Uses(ReplaceAll(inputs[u], old, new)) = (Uses(inputs[u]) \ {old}) \cup {new}
  BY <1>1, <1>4, UsesReplaceAll
<1>7. /\ inputs' \in [Insns -> Seq(J)]
      /\ inputs'[u] = ReplaceAll(inputs[u], old, new)
      /\ \A i \in Insns : i # u => inputs'[i] = inputs[i]
  BY <1>1, <1>2, <1>4, <1>5
<1>8. deps \in [Insns -> [Insns -> SUBSET Blocks]]
  BY <1>2 DEF TypesOK, DefUseTypeOK
<1>9. /\ ReplaceDependency(deps[u]) \in [Insns -> SUBSET Blocks]
      /\ \A v \in Insns :
           ReplaceDependency(deps[u])[v] = IF v = new THEN deps[u][new] \cup deps[u][old]
                                           ELSE IF v = old THEN {} ELSE deps[u][v]
      /\ Substituted(Pairs(ReplaceDependency(deps[u]))) = Substituted(Pairs(deps[u]))
  BY <1>2, <1>4, <1>8, DependencyReplaced
<1>10. /\ deps' \in [Insns -> [Insns -> SUBSET Blocks]]
       /\ \A i \in Insns : i # u => deps'[i] = deps[i]
       /\ kind[u] = "phi" => deps'[u] = ReplaceDependency(deps[u])
  BY <1>1, <1>4, <1>8, <1>9
<1>11. Live' = Live /\ ~Idle'
  BY <1>1, <1>2 DEF Live, Idle
<1>12. TypesOK'
  <2>1. DefUseTypeOK'
    BY <1>1, <1>2, <1>3, <1>7, <1>10 DEF TypesOK, DefUseTypeOK, Lists, J, Idle
  <2>2. HistoryOK' /\ ReplacementOK'
    BY <1>1, <1>2 DEF TypesOK, HistoryOK, ReplacementOK, Idle
  <2>3. BlankBeyond'
    <3> SUFFICES ASSUME NEW i \in Insns, i > created
                 PROVE  /\ inputs'[i] = <<>> /\ users'[i] = <<>> /\ given'[i] = {}
                        /\ \A v \in Insns : deps'[i][v] = {}
      BY <1>1 DEF BlankBeyond
    <3>1. i \notin J
      BY <1>2 DEF J
    <3>2. i # u /\ i # old /\ i # new
      BY <1>2, <1>4, <3>1
    <3> QED
      BY <1>1, <1>2, <1>3, <1>7, <1>10, <3>2 DEF TypesOK, BlankBeyond
  <2> QED
    BY <2>1, <2>2, <2>3 DEF TypesOK
<1>13. Closed'
  <2> SUFFICES ASSUME NEW i \in Live
               PROVE  /\ Uses(inputs'[i]) \subseteq Live
                      /\ Uses(users'[i]) \subseteq Live
    BY <1>11 DEF Closed
  <2>1. /\ Uses(inputs[i]) \subseteq Live /\ Uses(users[i]) \subseteq Live
        /\ Uses(inputs[u]) \subseteq Live
    BY <1>2 DEF DefUseInv, Closed
  <2>2. Uses(inputs'[i]) \subseteq Live
    BY <1>2, <1>6, <1>7, <2>1
  <2>3. ASSUME NEW x \in Uses(users'[i]) PROVE x \in Live
    BY <1>2, <1>3, <2>1
  <2> QED
    BY <2>2, <2>3
<1>14. Entered'
  <2> SUFFICES ASSUME NEW i \in Live, NEW d \in Live \ {old}
               PROVE  /\ Count(users'[d], i) <= Count(inputs'[i], d)
                      /\ d \in Uses(inputs'[i]) => i \in Uses(users'[d])
    BY <1>1, <1>11 DEF Entered, EnteredIn
  <2>1. /\ Count(users[d], i) <= Count(inputs[i], d)
        /\ d \in Uses(inputs[i]) => i \in Uses(users[d])
    BY DEF DefUseInv, Entered, EnteredIn
  <2>2. CASE i # u
    BY <1>2, <1>3, <1>7, <2>1, <2>2
  <2>3. CASE i = u /\ d # new
    <3>1. users'[d] = users[d]
      BY <1>2, <1>3, <2>3
    <3>2. Count(inputs'[u], d) = Count(inputs[u], d)
      BY <1>5, <1>7, <2>3
    <3>3. d \in Uses(inputs'[u]) => d \in Uses(inputs[u])
      BY <1>6, <1>7, <2>3
    <3> QED
      BY <2>1, <2>3, <3>1, <3>2, <3>3
  <2>4. CASE i = u /\ d = new
    <3>1. old # new /\ u \in Uses(users'[new])
      BY <1>3, <2>4
    <3>2. Count(users'[new], u) = Count(users[new], u) + 1
      BY <1>2, <1>3, <3>1
    <3>3. Count(inputs'[u], new) = Count(inputs[u], new) + Count(inputs[u], old)
      BY <1>5, <1>7, <3>1
    <3>4. /\ Count(inputs[u], new) \in Nat /\ Count(inputs[u], old) \in Nat
          /\ Count(inputs[u], old) # 0
      BY <1>1, <1>4, CountUses
    <3>5. Count(users[new], u) \in Nat
      BY <1>2, <1>4, CountUses
    <3> QED
      BY <2>1, <2>4, <3>1, <3>2, <3>3, <3>4, <3>5
  <2> QED
    BY <2>2, <2>3, <2>4
<1>15. StillAhead'
  <2> SUFFICES ASSUME NEW i \in Live, old \in Uses(inputs'[i])
               PROVE  \E k \in userIt .. Len(users'[old]) : users'[old][k] = i
    BY <1>1, <1>11 DEF StillAhead
  <2>1. CASE i = u
    <3>1. old = new
      BY <1>6, <1>7, <2>1
    <3> QED
      BY <1>3, <2>1, <3>1
  <2>2. CASE i # u
    <3>1. old \in Uses(inputs[i])
      BY <1>2, <1>7, <2>2
    <3>2. \E k \in userIt .. Len(users[old]) : users[old][k] = i
      BY <1>2, <3>1 DEF DefUseInv, StillAhead
    <3> QED
      BY <1>3, <2>2, <3>2
  <2> QED
    BY <2>1, <2>2
<1>16. PhiKeys'
  <2> SUFFICES ASSUME NEW i \in Live, kind[i] = "phi", NEW v \in Insns
               PROVE  v \in Uses(inputs'[i]) <=> deps'[i][v] # {}
    BY <1>1, <1>11 DEF PhiKeys
  <2>1. \A w \in Insns : w \in Uses(inputs[i]) <=> deps[i][w] # {}
    BY DEF DefUseInv, PhiKeys
  <2>2. CASE i = u
    <3>1. deps[u][old] # {}
      BY <1>1, <1>2, <2>1, <2>2
    <3>2. deps'[u][v] = IF v = new THEN deps[u][new] \cup deps[u][old]
                        ELSE IF v = old THEN {} ELSE deps[u][v]
      BY <1>9, <1>10, <2>2
    <3>3. v \in Uses(inputs'[u]) <=> v = new \/ (v # old /\ v \in Uses(inputs[u]))
      BY <1>6, <1>7
    <3> QED
      BY <2>1, <2>2, <3>1, <3>2, <3>3
  <2>3. CASE i # u
    BY <1>2, <1>7, <1>10, <2>1, <2>3
  <2> QED
    BY <2>2, <2>3
<1>17. AsMeant'
  <2> SUFFICES ASSUME NEW i \in Live
               PROVE  /\ ReplaceAll(inputs'[i], old, new) = ReplaceAll(meant[i], old, new)
                      /\ kind[i] = "phi" =>
                           Substituted(Pairs(deps'[i])) = Substituted(given[i])
    BY <1>1, <1>11 DEF AsMeant, ReplaceIn, Substituted, Substitute, Pairs
  <2>1. /\ ReplaceAll(inputs[i], old, new) = ReplaceAll(meant[i], old, new)
        /\ kind[i] = "phi" => Substituted(Pairs(deps[i])) = Substituted(given[i])
    BY DEF DefUseInv, AsMeant, ReplaceIn
  <2>2. CASE i = u
    BY <1>7, <1>9, <1>10, <2>1, <2>2, ReplaceAllTwice
  <2>3. CASE i # u
    BY <1>2, <1>7, <1>10, <2>1, <2>3
  <2> QED
    BY <2>2, <2>3
<1> QED
  BY <1>12, <1>13, <1>14, <1>15, <1>16, <1>17 DEF DefUseInv

(* ReplaceEnd keeps it: with the iterator at the end nothing is ahead, so  *)
(* nobody uses the instruction any longer, and RemoveUsers clears it from  *)
(* the users of its inputs, where it was entered at most as often.         *)
LEMMA ReplaceEndInv ==
  ASSUME DefUseInv, ReplaceEnd
  PROVE  DefUseInv'
<1> DEFINE J == 1 .. created
<1>1. /\ old # None /\ userIt > Len(users[old])
      /\ users' = RemoveUsers(users, inputs[old], old)
      /\ placed' = (placed \cup {new}) \ {old}
      /\ old' = None /\ new' = None /\ userIt' = 0
      /\ meant' = [i \in Insns |-> ReplaceAll(meant[i], old, new)]
      /\ given' = [i \in Insns |-> Substituted(given[i])]
      /\ UNCHANGED <<created, kind, inputs, deps>>
  BY DEF ReplaceEnd, Substituted
<1>2. /\ TypesOK /\ ~Idle /\ Idle' /\ Live = placed \cup {new} /\ old \in Live
      /\ new \in Live
      /\ Live' = Live \ {old} /\ placed' = Live'
  BY <1>1 DEF DefUseInv, Idle, Live, TypesOK, ReplacementOK
<1>3. /\ Live \subseteq Insns /\ Live \subseteq J /\ created \in Nat
      /\ J \subseteq Insns
      /\ inputs \in [Insns -> Seq(J)] /\ users \in Lists(Insns, J)
      /\ meant \in [Insns -> Seq(J)]
      /\ given \in [Insns -> SUBSET (Insns \X Blocks)]
  BY <1>2, LiveTyped, Numbers DEF TypesOK, DefUseTypeOK, HistoryOK, Lists
<1> HIDE DEF J
<1>4. inputs[old] \in Seq(Insns)
  <2>1. inputs[old] \in Seq(J)
    BY <1>2, <1>3
  <2> QED
    BY <1>3, <2>1, ListsGrow
<1>5. users' \in Lists(Insns, J) /\ Leaves(Insns, users, users', inputs[old], old)
  BY <1>1, <1>3, <1>4, RemoveUsersLeaves
<1>6. \A d \in Insns : users[d] \in Seq(J) /\ users'[d] \in Seq(J)
  BY <1>3, <1>5 DEF Lists
<1>7. ASSUME NEW d \in Insns, NEW x, x # old
      PROVE  /\ Count(users'[d], x) = Count(users[d], x)
             /\ x \in Uses(users'[d]) <=> x \in Uses(users[d])
  <2>1. Count(users'[d], x) = Count(users[d], x)
    BY <1>5, <1>7 DEF Leaves
  <2>2. x \in Uses(users'[d]) <=> Count(users'[d], x) # 0
    BY <1>6, CountUses
  <2>3. x \in Uses(users[d]) <=> Count(users[d], x) # 0
    BY <1>6, CountUses
  <2> QED
    BY <2>1, <2>2, <2>3
<1>8. ASSUME NEW d \in Insns, Count(users[d], old) <= Count(inputs[old], d)
      PROVE  old \notin Uses(users'[d])
  <2>1. Count(users'[d], old) = 0
    BY <1>5, <1>8 DEF Leaves
  <2> QED
    BY <1>6, <2>1, CountUses
<1>9. ASSUME NEW i \in Live PROVE old \notin Uses(inputs[i])
  <2> SUFFICES ASSUME old \in Uses(inputs[i]) PROVE FALSE
    OBVIOUS
  <2>1. \E k \in userIt .. Len(users[old]) : users[old][k] = i
    BY <1>2 DEF DefUseInv, StillAhead
  <2>2. userIt \in Nat /\ Len(users[old]) \in Nat
    <3>1. users[old] \in Seq(J) /\ userIt \in 1 .. Len(users[old]) + 1
      BY <1>1, <1>2, <1>3, <1>6 DEF TypesOK, DefUseTypeOK
    <3> QED
      BY <3>1
  <2> QED
    BY <1>1, <2>1, <2>2
<1>10. ASSUME NEW i \in Live PROVE inputs[i] = meant'[i]
  <2>1. ReplaceAll(inputs[i], old, new) = inputs[i]
    BY <1>3, <1>9, UsesReplaceAll
  <2>2. ReplaceAll(inputs[i], old, new) = ReplaceAll(meant[i], old, new)
    BY DEF DefUseInv, AsMeant, ReplaceIn
  <2> QED
    BY <1>1, <1>3, <2>1, <2>2
<1>11. ASSUME NEW i \in Live, kind[i] = "phi" PROVE Pairs(deps[i]) = given'[i]
  <2>1. deps[i][old] = {}
    BY <1>2, <1>3, <1>9, <1>11 DEF DefUseInv, PhiKeys
  <2>2. \A g \in Pairs(deps[i]) : g \in Insns \X Blocks /\ g[1] # old
    BY <2>1 DEF Pairs
  <2>3. \A g \in Pairs(deps[i]) : <<Substitute(g[1]), g[2]>> = g
    BY <2>2 DEF Substitute
  <2>4. Substituted(Pairs(deps[i])) = Pairs(deps[i])
    BY <2>3 DEF Substituted
  <2> QED
    BY <1>1, <1>3, <1>11, <2>4 DEF DefUseInv, AsMeant
<1>12. TypesOK'
  <2>1. meant' \in [Insns -> Seq(J)]
    <3>1. ASSUME NEW i \in Insns PROVE ReplaceAll(meant[i], old, new) \in Seq(J)
      <4>1. meant[i] \in Seq(J) /\ new \in J
        BY <1>2, <1>3
      <4> QED
        BY <4>1, CountReplaceAll
    <3> QED
      BY <1>1, <3>1
  <2>2. given' \in [Insns -> SUBSET (Insns \X Blocks)]
    <3>1. ASSUME NEW i \in Insns
          PROVE  Substituted(given[i]) \subseteq Insns \X Blocks
      <4>1. \A g \in given[i] : g[1] \in Insns /\ g[2] \in Blocks
        BY <1>3
      <4>2. \A g \in given[i] : <<Substitute(g[1]), g[2]>> \in Insns \X Blocks
        BY <1>2, <1>3, <4>1 DEF Substitute
      <4> QED
        BY <4>2 DEF Substituted
    <3> QED
      BY <1>1, <3>1
  <2>3. DefUseTypeOK'
    <3>1. /\ created \in 0 .. MAX_INSNS /\ placed' \subseteq J
          /\ kind \in [Insns -> Kinds] /\ inputs \in [Insns -> Seq(J)]
          /\ deps \in [Insns -> [Insns -> SUBSET Blocks]]
      BY <1>2, <1>3 DEF TypesOK, DefUseTypeOK
    <3>2. users' \in [Insns -> Seq(J)]
      BY <1>5 DEF Lists
    <3>3. /\ old' \in 0 .. created /\ new' \in 0 .. created /\ old' = None
          /\ userIt' = 0
      BY <1>1, <1>3 DEF None
    <3> QED
      BY <1>1, <3>1, <3>2, <3>3 DEF DefUseTypeOK, J
  <2>4. BlankBeyond'
    <3> SUFFICES ASSUME NEW i \in Insns, i > created
                 PROVE  users'[i] = <<>> /\ given'[i] = {}
      BY <1>1, <1>2 DEF TypesOK, BlankBeyond
    <3>1. users[i] = <<>> /\ given[i] = {}
      BY <1>2 DEF TypesOK, BlankBeyond
    <3>2. \A x : x \notin Uses(users[i])
      BY <1>6, <3>1, UsesTyped
    <3>3. Count(users[i], old) = 0 /\ Count(inputs[old], i) \in Nat
      BY <1>4, <1>6, <3>2, CountUses
    <3>4. old \notin Uses(users'[i])
      BY <1>8, <3>3
    <3>5. Uses(users'[i]) = {}
      BY <1>7, <3>2, <3>4
    <3>6. users'[i] = <<>>
      BY <1>6, <3>5, UsesTyped
    <3>7. given'[i] = {}
      BY <1>1, <3>1 DEF Substituted
    <3> QED
      BY <3>6, <3>7
  <2> QED
    BY <1>1, <1>2, <2>1, <2>2, <2>3, <2>4 DEF TypesOK, HistoryOK, ReplacementOK, J
<1>13. Closed'
  <2> SUFFICES ASSUME NEW i \in Live \ {old}
               PROVE  /\ Uses(inputs[i]) \subseteq Live \ {old}
                      /\ Uses(users'[i]) \subseteq Live \ {old}
    BY <1>1, <1>2 DEF Closed
  <2>1. Uses(inputs[i]) \subseteq Live /\ Uses(users[i]) \subseteq Live
    BY DEF DefUseInv, Closed
  <2>2. Count(users[i], old) <= Count(inputs[old], i)
    BY <1>2 DEF DefUseInv, Entered, EnteredIn
  <2>3. old \notin Uses(users'[i])
    BY <1>3, <1>8, <2>2
  <2> QED
    BY <1>3, <1>7, <1>9, <2>1, <2>3
<1>14. PhiKeys'
  BY <1>1, <1>2 DEF DefUseInv, PhiKeys
<1>15. \A i, d \in Live' : EnteredIn(i, d)'
  <2> SUFFICES ASSUME NEW i \in Live \ {old}, NEW d \in Live \ {old}
               PROVE  /\ Count(users'[d], i) <= Count(inputs[i], d)
                      /\ d \in Uses(inputs[i]) => i \in Uses(users'[d])
    BY <1>1, <1>2 DEF EnteredIn
  <2>1. /\ Count(users[d], i) <= Count(inputs[i], d)
        /\ d \in Uses(inputs[i]) => i \in Uses(users[d])
    BY DEF DefUseInv, Entered, EnteredIn
  <2> QED
    BY <1>3, <1>7, <2>1
<1>16. Settled'
  BY <1>1, <1>2, <1>10, <1>11, <1>13, <1>14, <1>15 DEF Settled, Pairs
<1>17. (TypesOK /\ Settled /\ userIt <= 1)' => DefUseInv'
  BY SettledInv, PTL
<1> QED
  BY <1>1, <1>12, <1>16, <1>17

-----------------------------------------------------------------------------
(* The invariant and the theorems. *)

(* It holds before the first instruction. *)
LEMMA DefUseInitInv == DefUseInit => DefUseInv
<1> SUFFICES ASSUME DefUseInit PROVE DefUseInv
  OBVIOUS
<1>1. Idle /\ Live = {} /\ userIt <= 1
  BY DEF DefUseInit, Idle, Live
<1>2. TypesOK
  <2>1. <<>> \in Seq(1 .. 0) /\ 0 \in 0 .. MAX_INSNS
    BY DefUseAssumption
  <2>2. DefUseTypeOK
    BY <2>1 DEF DefUseInit, DefUseTypeOK, Kinds, None
  <2>3. HistoryOK /\ ReplacementOK /\ BlankBeyond
    BY <2>1 DEF DefUseInit, HistoryOK, ReplacementOK, BlankBeyond, Idle
  <2> QED
    BY <2>2, <2>3 DEF TypesOK
<1>3. Settled
  BY <1>1 DEF Settled, Closed, PhiKeys
<1> QED
  BY <1>1, <1>2, <1>3, SettledInv

(* Every step keeps it. *)
LEMMA DefUseStepInv == DefUseInv /\ [DefUseNext]_defUseVars => DefUseInv'
<1> SUFFICES ASSUME DefUseInv, [DefUseNext]_defUseVars PROVE DefUseInv'
  OBVIOUS
<1>1. ASSUME NEW s \in InputLists(0, 2), CreateDefault(s) PROVE DefUseInv'
  BY <1>1, CreateDefaultInv
<1>2. ASSUME NEW s \in InputLists(1, MAX_INPUTS), CreateVector(s) PROVE DefUseInv'
  BY <1>2, CreateVectorInv
<1>3. CASE CreatePhi
  BY <1>3, CreatePhiInv
<1>4. CASE StartOptimizing \/ UNCHANGED defUseVars
  <2>1. UNCHANGED <<created, placed, kind, inputs, users, deps, old, new, userIt,
                    meant, given>>
    BY <1>4 DEF StartOptimizing, replacement, history, defUseVars, graph
  <2>2. Live' = Live
    BY <2>1 DEF Live, Idle
  <2>3. TypesOK'
    BY <2>1
       DEF DefUseInv, TypesOK, DefUseTypeOK, HistoryOK, ReplacementOK, BlankBeyond, Idle
  <2> QED
    BY <2>1, <2>2, <2>3
       DEF DefUseInv, Closed, Entered, EnteredIn, StillAhead, PhiKeys, AsMeant, Pairs,
           Substituted, Substitute, ReplaceIn, Idle
<1>5. ASSUME NEW phi \in placed, NEW v \in placed, NEW bb \in Blocks,
             ResolveDependency(phi, v, bb)
      PROVE  DefUseInv'
  BY <1>5, ResolveDependencyInv
<1>6. ASSUME NEW i \in placed, NEW n \in placed, ReplaceByInput(i, n)
      PROVE  DefUseInv'
  BY <1>6, StartReplacingInv DEF ReplaceByInput
<1>7. ASSUME NEW i \in placed, NEW n \in placed, ReplaceByCheck(i, n)
      PROVE  DefUseInv'
  BY <1>7, StartReplacingInv DEF ReplaceByCheck
<1>8. ASSUME NEW i \in placed, ReplaceByNew(i) PROVE DefUseInv'
  BY <1>8, ReplaceByNewInv
<1>9. CASE ReplaceUser
  BY <1>9, ReplaceUserInv
<1>10. CASE SkipUser
  BY <1>10, SkipUserInv
<1>11. CASE ReplaceEnd
  BY <1>11, ReplaceEndInv
<1> QED
  BY <1>1, <1>2, <1>3, <1>4, <1>5, <1>6, <1>7, <1>8, <1>9, <1>10, <1>11
     DEF DefUseNext

(* DefUseInv holds in every reachable state. *)
THEOREM DefUseInvariance == DefUseSpec => []DefUseInv
BY DefUseInitInv, DefUseStepInv, PTL DEF DefUseSpec

(* The lists hold instructions that exist, and the iterator of             *)
(* ReplaceInputsForUsers never leaves the list of users it goes through,   *)
(* which the body of the loop changes.                                     *)
THEOREM TypesCorrect == DefUseSpec => []DefUseTypeOK
<1>1. DefUseInv => DefUseTypeOK
  BY DEF DefUseInv, TypesOK
<1> QED
  BY <1>1, DefUseInvariance, PTL

(* ReplaceInputsForUsers and Remove together replace an instruction in the *)
(* inputs of every instruction and in the dependencies of every phi, and   *)
(* change nothing else in them.                                            *)
THEOREM InputsCorrect == DefUseSpec => []InputsAsMeant
<1>1. DefUseInv => InputsAsMeant
  BY IdleSettled DEF Settled, InputsAsMeant, Pairs, Live
<1> QED
  BY <1>1, DefUseInvariance, PTL

(* Between two calls no instruction of a block has one as an input that    *)
(* Remove has taken out.                                                   *)
THEOREM NoRemovedInputs == DefUseSpec => []NoRemovedInput
<1>1. DefUseInv => NoRemovedInput
  BY IdleSettled DEF Settled, Closed, NoRemovedInput, Live
<1> QED
  BY <1>1, DefUseInvariance, PTL

(* Between two calls the users of an instruction are those that have it as *)
(* an input: AddUser, RemoveUser and RemoveUsers leave no entry too many,  *)
(* and none too few, although the constructors do not agree on how often   *)
(* an instruction with the same input twice is entered.                    *)
THEOREM UsersCorrect == DefUseSpec => []UsersMatchInputs
<1>1. DefUseInv => UsersMatchInputs
  <2> SUFFICES ASSUME DefUseInv, Idle, NEW d \in placed
               PROVE  Uses(users[d]) = {i \in placed : d \in Uses(inputs[i])}
    BY DEF UsersMatchInputs
  <2>1. Settled /\ Live = placed /\ placed \subseteq Insns /\ TypesOK
    BY IdleSettled, Numbers DEF Live, DefUseInv
  <2>2. Uses(users[d]) \subseteq placed
    BY <2>1 DEF Settled, Closed
  <2>3. ASSUME NEW i \in placed
        PROVE  i \in Uses(users[d]) <=> d \in Uses(inputs[i])
    <3>1. /\ Count(users[d], i) <= Count(inputs[i], d)
          /\ d \in Uses(inputs[i]) => i \in Uses(users[d])
      BY <2>1 DEF Settled, EnteredIn
    <3>2. users[d] \in Seq(1 .. created) /\ inputs[i] \in Seq(1 .. created)
      BY <2>1 DEF TypesOK, DefUseTypeOK
    <3>3. Count(users[d], i) \in Nat /\ (i \in Uses(users[d]) <=> Count(users[d], i) # 0)
      BY <3>2, CountUses
    <3>4. Count(inputs[i], d) \in Nat /\ (d \in Uses(inputs[i]) <=> Count(inputs[i], d) # 0)
      BY <3>2, CountUses
    <3> QED
      BY <3>1, <3>3, <3>4
  <2> QED
    BY <2>2, <2>3
<1> QED
  BY <1>1, DefUseInvariance, PTL

(* ReplaceDependency always finds the value it replaces: UNREACHABLE() is  *)
(* never executed.                                                         *)
THEOREM DependenciesFound == DefUseSpec => []DependencyFound
<1>1. DefUseInv => DependencyFound
  BY ReplacingFacts DEF DefUseInv, PhiKeys, DependencyFound, DependencyMissing
<1> QED
  BY <1>1, DefUseInvariance, PTL
=============================================================================
