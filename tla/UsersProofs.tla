---------------------------- MODULE UsersProofs -----------------------------
(***************************************************************************)
(* Lemmas about the operators of Users.tla: how often an instruction is in *)
(* a list of users, what entering and leaving the lists of its inputs does *)
(* to that, and in which order a list has its entries.  Behind them are    *)
(* lemmas about lists that grow and whose entries are replaced, and about  *)
(* powers of two, quotients and rests.                                     *)
(*                                                                         *)
(* The folds these operators are written with are unrolled step by step,   *)
(* by induction over the positions of a list.                              *)
(***************************************************************************)
EXTENDS Users, FiniteSetTheorems, WellFoundedInduction, SequenceTheorems, TLAPS

(* What holds at the start and is kept by every step up to n holds up to   *)
(* n: the prefixes of 1 .. n that lack it would have a smallest one.       *)
LEMMA UpTo ==
  ASSUME NEW n \in Nat, NEW P, 0 \in P,
         \A k \in 1 .. n : k - 1 \in P => k \in P
  PROVE  \A k \in 0 .. n : k \in P
<1> SUFFICES ASSUME \E k \in 0 .. n : k \notin P PROVE FALSE
  OBVIOUS
<1> DEFINE T == {1 .. k : k \in {m \in 0 .. n : m \notin P}}
<1>1. T # {} /\ T \subseteq FiniteSubsetsOf(Nat)
  <2>1. ASSUME NEW k \in 0 .. n PROVE 1 .. k \in FiniteSubsetsOf(Nat)
    <3>1. IsFiniteSet(1 .. k)
      <4>1. 1 \in Int /\ k \in Int
        OBVIOUS
      <4> QED
        BY <4>1, FS_Interval, Zenon
    <3>2. 1 .. k \in SUBSET Nat
      OBVIOUS
    <3> QED
      BY <3>1, <3>2 DEF FiniteSubsetsOf
  <2> QED
    BY <2>1
<1>2. IsWellFoundedOn(StrictSubsetOrdering(Nat), FiniteSubsetsOf(Nat))
  BY FS_StrictSubsetOrderingWellFounded
<1>3. PICK I \in T : \A J \in T : <<J, I>> \notin StrictSubsetOrdering(Nat)
  <2> HIDE DEF T
  <2> QED
    BY <1>1, <1>2, WFMin
<1>4. PICK k \in 0 .. n : k \notin P /\ I = 1 .. k
  OBVIOUS
<1>5. k \in 1 .. n /\ k - 1 \notin P /\ k - 1 \in 0 .. n
  BY <1>4
<1>6. 1 .. k - 1 \in T
  BY <1>5
<1>7. 1 .. k - 1 \subseteq 1 .. k /\ 1 .. k - 1 # 1 .. k /\ 1 .. k \subseteq Nat
  <2>1. k \in 1 .. k /\ k \notin 1 .. k - 1
    BY <1>5
  <2> QED
    BY <2>1
<1>8. <<1 .. k - 1, 1 .. k>> \in StrictSubsetOrdering(Nat)
  <2>1. 1 .. k - 1 \in SUBSET Nat
    BY <1>7
  <2> HIDE DEF T
  <2> QED
    BY <1>7, <2>1, Zenon DEF StrictSubsetOrdering
<1> QED
  BY <1>3, <1>4, <1>6, <1>8

(* The largest element of a set of positions, on which the folds branch.   *)
LEMMA MaxOfPositions ==
  ASSUME NEW n \in Nat, NEW S \in SUBSET (1 .. n), n \in S
  PROVE  Max(S) = n
<1>1. n \in S /\ \A y \in S : n >= y
  OBVIOUS
<1>2. \A x \in S : (\A y \in S : x >= y) => x = n
  BY <1>1
<1>3. Max(S) \in S /\ \A y \in S : Max(S) >= y
  BY <1>1, Zenon DEF Max
<1> QED
  BY <1>2, <1>3

(* Sets of positions have a largest element. *)
LEMMA MaxIsPosition ==
  ASSUME NEW n \in Nat, NEW S \in SUBSET (1 .. n), S # {}
  PROVE  Max(S) \in S
<1> DEFINE P == {m \in 0 .. n : \A T \in SUBSET (1 .. m) : T # {} => Max(T) \in T}
<1>1. 0 \in P
  <2>1. 0 \in 0 .. n /\ \A T \in SUBSET (1 .. 0) : T = {}
    OBVIOUS
  <2> QED
    BY <2>1, Zenon
<1>2. ASSUME NEW m \in 1 .. n, m - 1 \in P PROVE m \in P
  <2> SUFFICES ASSUME NEW T \in SUBSET (1 .. m), T # {} PROVE Max(T) \in T
    OBVIOUS
  <2>1. CASE m \in T
    BY <2>1, MaxOfPositions
  <2>2. CASE m \notin T
    <3>1. T \in SUBSET (1 .. m - 1)
      BY <2>2
    <3> QED
      BY <1>2, <3>1
  <2> QED
    BY <2>1, <2>2
<1>3. n \in P
  <2> HIDE DEF P
  <2>1. \A k \in 1 .. n : k - 1 \in P => k \in P
    BY <1>2
  <2> QED
    BY <1>1, <2>1, UpTo
<1> QED
  BY <1>3

(* The positions up to one of them are a step further than those before.   *)
LEMMA PrefixOfPositions ==
  ASSUME NEW n \in Nat, NEW k \in 1 .. n
  PROVE  /\ 1 .. k \in SUBSET (1 .. n) /\ 1 .. k # {}
         /\ Max(1 .. k) = k /\ (1 .. k) \ {Max(1 .. k)} = 1 .. k - 1
<1>1. 1 .. k \in SUBSET (1 .. n) /\ k \in 1 .. k
  OBVIOUS
<1>2. Max(1 .. k) = k
  BY <1>1, MaxOfPositions
<1>3. (1 .. k) \ {k} = 1 .. k - 1
  OBVIOUS
<1> QED
  BY <1>1, <1>2, <1>3

(* The fold of a function step over the positions up to n. *)
IsFold(f, n, base, step) ==
  \A S \in SUBSET (1 .. n) :
    f[S] = IF S = {} THEN base ELSE step[<<f[S \ {Max(S)}], Max(S)>>]

(* It exists. *)
LEMMA FoldExists ==
  ASSUME NEW X, NEW base \in X, NEW n \in Nat, NEW step \in [X \X (1 .. n) -> X]
  PROVE  \E f \in [SUBSET (1 .. n) -> X] : IsFold(f, n, base, step)
<1> DEFINE Fold(f, m) == IsFold(f, m, base, step)
           P == {m \in 0 .. n : \E f \in [SUBSET (1 .. m) -> X] : Fold(f, m)}
<1>1. 0 \in P
  <2> DEFINE f == [S \in SUBSET (1 .. 0) |-> base]
  <2>1. SUBSET (1 .. 0) = {{}}
    OBVIOUS
  <2>2. f \in [SUBSET (1 .. 0) -> X] /\ 0 \in 0 .. n
    OBVIOUS
  <2>3. Fold(f, 0)
    BY <2>1 DEF IsFold
  <2> QED
    BY <2>2, <2>3
<1>2. ASSUME NEW m \in 1 .. n, m - 1 \in P PROVE m \in P
  <2>1. PICK f \in [SUBSET (1 .. m - 1) -> X] : Fold(f, m - 1)
    BY <1>2
  <2> DEFINE g == [S \in SUBSET (1 .. m) |->
                     IF m \in S THEN step[<<f[S \ {m}], m>>] ELSE f[S]]
  <2>2. ASSUME NEW S \in SUBSET (1 .. m)
        PROVE  /\ m \in S => S \ {m} \in SUBSET (1 .. m - 1) /\ Max(S) = m
               /\ m \notin S => S \in SUBSET (1 .. m - 1)
    <3>1. \A k \in 1 .. m : k # m => k \in 1 .. m - 1
      OBVIOUS
    <3> QED
      BY <3>1, MaxOfPositions
  <2>3. g \in [SUBSET (1 .. m) -> X]
    BY <2>2
  <2>4. \A S \in SUBSET (1 .. m - 1) : S \in SUBSET (1 .. m) /\ m \notin S /\ g[S] = f[S]
    OBVIOUS
  <2>5. ASSUME NEW S \in SUBSET (1 .. m)
        PROVE  g[S] = IF S = {} THEN base ELSE step[<<g[S \ {Max(S)}], Max(S)>>]
    <3>1. CASE m \in S
      BY <3>1, <2>2, <2>4
    <3>2. CASE m \notin S
      <4>1. S \in SUBSET (1 .. m - 1) /\ S \ {Max(S)} \in SUBSET (1 .. m - 1)
        BY <3>2, <2>2
      <4>2. f[S] = IF S = {} THEN base ELSE step[<<f[S \ {Max(S)}], Max(S)>>]
        BY <2>1, <4>1 DEF IsFold
      <4> HIDE DEF g
      <4> QED
        BY <4>1, <4>2, <2>4
    <3> QED
      BY <3>1, <3>2
  <2> HIDE DEF g
  <2>6. Fold(g, m)
    BY <2>5 DEF IsFold
  <2> HIDE DEF Fold
  <2> QED
    BY <2>3, <2>6
<1>3. n \in P
  <2> HIDE DEF P
  <2>1. \A k \in 1 .. n : k - 1 \in P => k \in P
    BY <1>2
  <2> QED
    BY <1>1, <2>1, UpTo
<1> QED
  BY <1>3

(* g goes through the steps of a fold. *)
Folds(g, X, n, base, step) ==
  /\ g[{}] = base
  /\ \A S \in SUBSET (1 .. n) : S # {} /\ g[S \ {Max(S)}] \in X =>
       g[S] = step[<<g[S \ {Max(S)}], Max(S)>>]

(* Its results for the prefixes of 1 .. n, one by one. *)
IsChain(chain, n, base, step) ==
  /\ chain[0] = base
  /\ \A k \in 1 .. n : chain[k] = step[<<chain[k - 1], k>>]

(* So do the prefixes of the positions. *)
LEMMA FoldSteps ==
  ASSUME NEW X, NEW base \in X, NEW n \in Nat, NEW step \in [X \X (1 .. n) -> X],
         NEW g, Folds(g, X, n, base, step)
  PROVE  \E chain \in [0 .. n -> X] :
           chain[n] = g[1 .. n] /\ IsChain(chain, n, base, step)
<1>1. g[1 .. 0] = base
  <2>1. 1 .. 0 = {}
    OBVIOUS
  <2> QED
    BY <2>1 DEF Folds
<1>2. \A k \in 1 .. n : g[1 .. k - 1] \in X => g[1 .. k] = step[<<g[1 .. k - 1], k>>]
  BY PrefixOfPositions DEF Folds
<1>3. \A k \in 0 .. n : g[1 .. k] \in X
  <2> DEFINE P == {k \in 0 .. n : g[1 .. k] \in X}
  <2>1. 0 \in P
    BY <1>1
  <2>2. ASSUME NEW k \in 1 .. n, k - 1 \in P PROVE k \in P
    <3>1. g[1 .. k - 1] \in X /\ k \in 0 .. n
      BY <2>2
    <3> QED
      BY <1>2, <3>1
  <2> HIDE DEF P
  <2>3. \A k \in 0 .. n : k \in P
    BY <2>1, <2>2, UpTo
  <2> QED
    BY <2>3 DEF P
<1> DEFINE chain == [k \in 0 .. n |-> g[1 .. k]]
<1>4. chain \in [0 .. n -> X] /\ chain[n] = g[1 .. n]
  BY <1>3
<1>5. IsChain(chain, n, base, step)
  <2>1. chain[0] = base
    BY <1>1
  <2>2. \A k \in 1 .. n : chain[k - 1] = g[1 .. k - 1] /\ chain[k] = g[1 .. k]
    OBVIOUS
  <2>3. \A k \in 1 .. n : g[1 .. k - 1] \in X
    BY <1>3
  <2> HIDE DEF chain
  <2> QED
    BY <1>2, <2>1, <2>2, <2>3 DEF IsChain
<1> QED
  BY <1>4, <1>5

(* Sets of positions have a smallest element. *)
LEMMA MinIsPosition ==
  ASSUME NEW n \in Nat, NEW S \in SUBSET (1 .. n), S # {}
  PROVE  Min(S) \in S /\ \A k \in S : Min(S) <= k
<1> DEFINE P == {m \in 0 .. n : \A k \in 1 .. m : k \notin S}
<1>1. SUFFICES ASSUME ~ \E k \in S : \A m \in S : k <= m PROVE FALSE
  BY Zenon DEF Min
<1>2. 0 \in P
  OBVIOUS
<1>3. ASSUME NEW m \in 1 .. n, m - 1 \in P PROVE m \in P
  <2>1. \A k \in 1 .. m - 1 : k \notin S
    BY <1>3
  <2>2. m \notin S
    <3>1. ASSUME m \in S PROVE \A k \in S : m <= k
      <4>1. \A k \in 1 .. n : k \notin 1 .. m - 1 => m <= k
        OBVIOUS
      <4> QED
        BY <2>1, <4>1
    <3> QED
      BY <1>1, <3>1
  <2>3. \A k \in 1 .. m : k \in 1 .. m - 1 \/ k = m
    OBVIOUS
  <2> QED
    BY <2>1, <2>2, <2>3
<1> HIDE DEF P
<1>4. n \in P
  BY <1>2, <1>3, UpTo
<1> QED
  BY <1>4 DEF P

-----------------------------------------------------------------------------
(* How often a list holds an element, up to a position and in all. *)
Positions(s, n, x) == {k \in 1 .. n : s[k] = x}

(* How often x is among the first n entries of s. *)
Upto(s, n, x) == Cardinality(Positions(s, n, x))

(* How often x is in s. *)
Count(s, x) == Upto(s, Len(s), x)

(* Position by position. *)
LEMMA UptoStep ==
  ASSUME NEW s, NEW x, NEW n \in Nat
  PROVE  /\ IsFiniteSet(Positions(s, n, x))
         /\ Upto(s, n, x) \in Nat /\ Upto(s, 0, x) = 0
         /\ n # 0 => Upto(s, n, x) = Upto(s, n - 1, x) + (IF s[n] = x THEN 1 ELSE 0)
<1> DEFINE K(m) == Positions(s, m, x)
<1>1. ASSUME NEW m \in Nat PROVE IsFiniteSet(K(m)) /\ Cardinality(K(m)) \in Nat
  <2>1. 1 \in Int /\ m \in Int
    OBVIOUS
  <2>2. IsFiniteSet(1 .. m)
    BY <2>1, FS_Interval, Zenon
  <2>3. K(m) \in SUBSET (1 .. m)
    BY DEF Positions
  <2> HIDE DEF K
  <2>4. IsFiniteSet(K(m))
    BY <2>2, <2>3, FS_Subset
  <2> QED
    BY <2>4, FS_CardinalityType
<1>2. Cardinality(K(0)) = 0
  <2>1. K(0) = {}
    BY DEF Positions
  <2> QED
    BY <2>1, FS_EmptySet
<1>3. ASSUME n # 0
      PROVE  Cardinality(K(n)) = Cardinality(K(n - 1)) + (IF s[n] = x THEN 1 ELSE 0)
  <2>1. n - 1 \in Nat /\ n \notin K(n - 1)
    BY <1>3 DEF Positions
  <2>2. IsFiniteSet(K(n - 1)) /\ Cardinality(K(n - 1)) \in Nat
    BY <1>1, <2>1
  <2>3. K(n) = IF s[n] = x THEN K(n - 1) \cup {n} ELSE K(n - 1)
    <3>1. \A k : k \in 1 .. n <=> k \in 1 .. n - 1 \/ k = n
      BY <1>3
    <3> QED
      BY <3>1 DEF Positions
  <2> HIDE DEF K
  <2>4. Cardinality(K(n - 1) \cup {n}) = Cardinality(K(n - 1)) + 1
    BY <2>1, <2>2, FS_AddElement
  <2> QED
    BY <2>2, <2>3, <2>4
<1> QED
  BY <1>1, <1>2, <1>3 DEF Upto

(* A list holds its users and nothing else. *)
LEMMA CountUses ==
  ASSUME NEW J, NEW s \in Seq(J), NEW x
  PROVE  Count(s, x) \in Nat /\ (x \in Uses(s) <=> Count(s, x) # 0)
<1> DEFINE K == Positions(s, Len(s), x)
<1>1. Len(s) \in Nat
  OBVIOUS
<1>2. IsFiniteSet(K) /\ Count(s, x) = Cardinality(K) /\ Count(s, x) \in Nat
  BY <1>1, UptoStep DEF Count, Upto
<1>3. x \in Uses(s) <=> K # {}
  BY DEF Uses, Positions
<1> HIDE DEF K
<1> QED
  BY <1>2, <1>3, FS_EmptySet

(* What a list holds is of the type of the list. *)
LEMMA UsesTyped ==
  ASSUME NEW J, NEW s \in Seq(J)
  PROVE  Uses(s) \subseteq J /\ (Uses(s) = {} <=> s = <<>>)
<1>1. Uses(s) \subseteq J
  BY DEF Uses
<1>2. ASSUME Uses(s) = {} PROVE s = <<>>
  <2>1. 1 \notin 1 .. Len(s)
    BY <1>2 DEF Uses
  <2> QED
    BY <2>1
<1>3. Uses(<<>>) = {}
  BY DEF Uses
<1> QED
  BY <1>1, <1>2, <1>3

(* Append adds one entry. *)
LEMMA UsesAppend ==
  ASSUME NEW J, NEW s \in Seq(J), NEW e \in J
  PROVE  Append(s, e) \in Seq(J) /\ Uses(Append(s, e)) = Uses(s) \cup {e}
<1> DEFINE t == Append(s, e)
           n == Len(s)
<1>1. /\ n \in Nat /\ Len(t) = n + 1 /\ t[n + 1] = e /\ t \in Seq(J)
      /\ \A k \in 1 .. n : t[k] = s[k]
      /\ \A k : k \in 1 .. n + 1 <=> k \in 1 .. n \/ k = n + 1
  OBVIOUS
<1> HIDE DEF t
<1>2. Uses(t) = Uses(s) \cup {e}
  BY <1>1 DEF Uses
<1> QED
  BY <1>1, <1>2 DEF t

(* The other counts stay. *)
LEMMA CountAppend ==
  ASSUME NEW J, NEW s \in Seq(J), NEW e \in J, NEW x
  PROVE  Count(Append(s, e), x) = Count(s, x) + (IF e = x THEN 1 ELSE 0)
<1> DEFINE t == Append(s, e)
           n == Len(s)
<1>1. /\ n \in Nat /\ n + 1 \in Nat /\ Len(t) = n + 1 /\ t[n + 1] = e
      /\ \A k \in 1 .. n : t[k] = s[k]
      /\ \A k : k \in 1 .. n + 1 <=> k \in 1 .. n \/ k = n + 1
  OBVIOUS
<1>2. {k \in 1 .. n : t[k] = x} = {k \in 1 .. n : s[k] = x}
  BY <1>1
<1> DEFINE m == n + 1
<1>3. m \in Nat /\ m # 0 /\ m - 1 = n /\ t[m] = e
  BY <1>1
<1> HIDE DEF t, n, m
<1>4. Upto(t, m, x) = Upto(t, n, x) + (IF e = x THEN 1 ELSE 0)
  BY <1>3, UptoStep
<1> QED
  BY <1>1, <1>2, <1>4 DEF Count, Upto, Positions, n, t, m

(* r is s without its first entry for e, which is at p. *)
WithoutFirst(s, r, e, p) ==
  /\ s[p] = e /\ \A k \in 1 .. p - 1 : s[k] # e
  /\ r = [k \in 1 .. Len(s) - 1 |-> IF k < p THEN s[k] ELSE s[k + 1]]

(* RemoveFirst takes the first of the entries out. *)
LEMMA RemoveFirstAt ==
  ASSUME NEW J, NEW s \in Seq(J), NEW e \in Uses(s)
  PROVE  \E p \in 1 .. Len(s) : WithoutFirst(s, RemoveFirst(s, e), e, p)
<1> DEFINE n == Len(s)
           I == {k \in 1 .. n : s[k] = e}
<1>1. n \in Nat /\ I \in SUBSET (1 .. n) /\ I # {}
  BY DEF Uses
<1>2. Min(I) \in I /\ \A k \in I : Min(I) <= k
  <2> HIDE DEF I, n
  <2> QED
    BY <1>1, MinIsPosition
<1>3. PICK p \in 1 .. n : p = Min(I) /\ s[p] = e /\ \A k \in I : p <= k
  BY <1>2
<1>4. \A k \in 1 .. p - 1 : s[k] # e
  <2>1. \A k \in 1 .. p - 1 : k \in 1 .. n /\ ~ p <= k
    BY <1>1
  <2> QED
    BY <1>3, <2>1
<1>5. RemoveFirst(s, e) = RemoveAt(s, p)
  <2>1. \E k \in 1 .. Len(s) : s[k] = e
    BY <1>3
  <2>2. SelectInSeq(s, LAMBDA v : v = e) = p
    BY <1>1, <1>3, Zenon DEF SelectInSeq
  <2> QED
    BY <2>1, <2>2, Zenon DEF RemoveFirst
<1>6. RemoveAt(s, p) = [k \in 1 .. n - 1 |-> IF k < p THEN s[k] ELSE s[k + 1]]
  <2> DEFINE a == SubSeq(s, 1, p - 1)
             b == SubSeq(s, p + 1, n)
  <2>1. a \in Seq(J) /\ Len(a) = p - 1 /\ \A k \in 1 .. p - 1 : a[k] = s[k]
    BY <1>1
  <2>2. b \in Seq(J) /\ Len(b) = n - p /\ \A k \in 1 .. n - p : b[k] = s[p + k]
    BY <1>1
  <2> HIDE DEF a, b
  <2>3. /\ a \o b \in Seq(J) /\ Len(a \o b) = n - 1
        /\ \A k \in 1 .. n - 1 : (a \o b)[k] = IF k < p THEN a[k] ELSE b[k - (p - 1)]
    <3>1. /\ a \o b \in Seq(J) /\ Len(a \o b) = Len(a) + Len(b)
          /\ \A k \in 1 .. Len(a) + Len(b) :
               (a \o b)[k] = IF k <= Len(a) THEN a[k] ELSE b[k - Len(a)]
      <4>1. a \in Seq(J) /\ b \in Seq(J)
        BY <2>1, <2>2
      <4> QED
        BY <4>1, ConcatProperties
    <3>2. Len(a) + Len(b) = n - 1 /\ \A k \in 1 .. n - 1 : k <= p - 1 <=> k < p
      BY <1>1, <2>1, <2>2
    <3> QED
      BY <2>1, <3>1, <3>2
  <2>4. \A k \in 1 .. n - 1 : (a \o b)[k] = IF k < p THEN s[k] ELSE s[k + 1]
    <3> TAKE k \in 1 .. n - 1
    <3>1. k < p => k \in 1 .. p - 1
      BY <1>1
    <3>2. ~ k < p => k - (p - 1) \in 1 .. n - p /\ p + (k - (p - 1)) = k + 1
      BY <1>1
    <3> QED
      BY <2>1, <2>2, <2>3, <3>1, <3>2
  <2>5. RemoveAt(s, p) = a \o b
    BY DEF RemoveAt, a, b
  <2>6. a \o b = [k \in 1 .. n - 1 |-> (a \o b)[k]]
    <3> DEFINE t == a \o b
    <3>1. t \in Seq(J) /\ Len(t) = n - 1
      BY <2>3
    <3> HIDE DEF t
    <3>2. t = [k \in 1 .. n - 1 |-> t[k]]
      BY <3>1
    <3> QED
      BY <3>2 DEF t
  <2> QED
    BY <2>4, <2>5, <2>6
<1> QED
  BY <1>3, <1>4, <1>5, <1>6 DEF WithoutFirst

(* Without the entry there is nothing to take out. *)
LEMMA RemoveFirstAbsent ==
  ASSUME NEW J, NEW s \in Seq(J), NEW e, e \notin Uses(s)
  PROVE  RemoveFirst(s, e) = s
<1>1. ~ \E k \in 1 .. Len(s) : s[k] = e
  BY DEF Uses
<1> QED
  BY <1>1, Zenon DEF RemoveFirst

(* One entry goes, those of the others stay. *)
LEMMA CountRemoveFirst ==
  ASSUME NEW J, NEW s \in Seq(J), NEW e, NEW x
  PROVE  /\ RemoveFirst(s, e) \in Seq(J)
         /\ Count(RemoveFirst(s, e), x) =
              Count(s, x) - (IF x = e /\ e \in Uses(s) THEN 1 ELSE 0)
<1>1. CASE e \notin Uses(s)
  BY <1>1, RemoveFirstAbsent, CountUses
<1>2. CASE e \in Uses(s)
  <2> DEFINE n == Len(s)
             one == IF x = e THEN 1 ELSE 0
             t == RemoveFirst(s, e)
  <2>1. PICK p \in 1 .. n :
          s[p] = e /\ t = [k \in 1 .. n - 1 |-> IF k < p THEN s[k] ELSE s[k + 1]]
    BY <1>2, RemoveFirstAt DEF WithoutFirst
  <2>2. n \in Nat \ {0} /\ t \in Seq(J) /\ Len(t) = n - 1
    BY <2>1
  <2> DEFINE P == {k \in 0 .. n - 1 :
                    Upto(t, k, x) = IF k < p THEN Upto(s, k, x)
                                    ELSE Upto(s, k + 1, x) - one}
  <2> HIDE DEF n, t
  <2>3. 0 \in P
    BY <2>2, UptoStep
  <2>4. ASSUME NEW k \in 1 .. n - 1, k - 1 \in P PROVE k \in P
    <3>1. k \in Nat /\ k # 0 /\ k + 1 \in Nat /\ k + 1 # 0 /\ (k + 1) - 1 = k
      BY <2>2
    <3>2. Upto(t, k, x) = Upto(t, k - 1, x) + (IF t[k] = x THEN 1 ELSE 0)
      BY <3>1, UptoStep
    <3>3. /\ Upto(s, k, x) = Upto(s, k - 1, x) + (IF s[k] = x THEN 1 ELSE 0)
          /\ Upto(s, k, x) \in Nat /\ Upto(s, k - 1, x) \in Nat
      <4>1. k - 1 \in Nat
        BY <3>1
      <4> QED
        BY <3>1, <4>1, UptoStep
    <3>4. Upto(s, k + 1, x) = Upto(s, k, x) + (IF s[k + 1] = x THEN 1 ELSE 0)
      <4> DEFINE m == k + 1
      <4>1. m \in Nat /\ m # 0 /\ m - 1 = k
        BY <3>1
      <4> HIDE DEF m
      <4>2. Upto(s, m, x) = Upto(s, k, x) + (IF s[m] = x THEN 1 ELSE 0)
        BY <4>1, UptoStep
      <4> QED
        BY <4>2 DEF m
    <3>5. Upto(t, k - 1, x) = IF k - 1 < p THEN Upto(s, k - 1, x) ELSE Upto(s, k, x) - one
      BY <2>4, <3>1
    <3>6. t[k] = IF k < p THEN s[k] ELSE s[k + 1]
      BY <2>1
    <3>7. CASE k < p
      BY <2>2, <3>2, <3>3, <3>5, <3>6, <3>7
    <3>8. CASE k = p
      <4>1. s[k] = e /\ Upto(t, k - 1, x) = Upto(s, k - 1, x)
        BY <2>1, <3>1, <3>5, <3>8
      <4>2. Upto(t, k, x) = Upto(s, k - 1, x) + (IF s[k + 1] = x THEN 1 ELSE 0)
        BY <3>2, <3>6, <3>8, <4>1
      <4> QED
        BY <2>2, <3>3, <3>4, <3>8, <4>1, <4>2
    <3>9. CASE k > p
      <4>1. ~ k < p /\ ~ k - 1 < p
        BY <2>2, <3>9
      <4> QED
        BY <2>2, <3>2, <3>3, <3>4, <3>5, <3>6, <4>1
    <3> QED
      BY <2>2, <3>7, <3>8, <3>9
  <2> HIDE DEF P
  <2>5. n - 1 \in P
    <3>1. n - 1 \in Nat /\ n - 1 \in 0 .. n - 1
      BY <2>2
    <3> QED
      BY <2>3, <2>4, <3>1, UpTo
  <2>6. Upto(t, n - 1, x) = Upto(s, n, x) - one
    <3>1. CASE p = n
      <4>1. Upto(s, n, x) = Upto(s, n - 1, x) + one
        BY <2>1, <2>2, <3>1, UptoStep
      <4>2. Upto(t, n - 1, x) = Upto(s, n - 1, x) /\ Upto(s, n - 1, x) \in Nat
        BY <2>2, <2>5, <3>1, UptoStep DEF P
      <4> QED
        BY <4>1, <4>2
    <3>2. CASE p # n
      <4>1. ~ n - 1 < p /\ (n - 1) + 1 = n
        BY <2>2, <3>2
      <4> QED
        BY <2>5, <4>1 DEF P
    <3> QED
      BY <3>1, <3>2
  <2> QED
    BY <1>2, <2>2, <2>6 DEF Count, n, t
<1> QED
  BY <1>1, <1>2

(* Every entry of the old value counts for the new one. *)
LEMMA CountReplaceAll ==
  ASSUME NEW J, NEW s \in Seq(J), NEW o, NEW n \in J, NEW x
  PROVE  /\ ReplaceAll(s, o, n) \in Seq(J)
         /\ Count(ReplaceAll(s, o, n), x) =
              IF o = n THEN Count(s, x)
              ELSE IF x = o THEN 0
              ELSE IF x = n THEN Count(s, n) + Count(s, o) ELSE Count(s, x)
<1> DEFINE t == ReplaceAll(s, o, n)
           m == Len(s)
           Expected(k) == IF o = n THEN Upto(s, k, x)
                          ELSE IF x = o THEN 0
                          ELSE IF x = n THEN Upto(s, k, n) + Upto(s, k, o)
                          ELSE Upto(s, k, x)
           P == {k \in 0 .. m : Upto(t, k, x) = Expected(k)}
<1>1. /\ m \in Nat /\ t \in Seq(J) /\ Len(t) = m
      /\ \A k \in 1 .. m : t[k] = IF s[k] = o THEN n ELSE s[k]
  BY DEF ReplaceAll
<1> HIDE DEF t, m
<1>2. 0 \in P
  BY <1>1, UptoStep
<1>3. ASSUME NEW k \in 1 .. m, k - 1 \in P PROVE k \in P
  <2>1. k \in Nat /\ k # 0 /\ k - 1 \in Nat
    BY <1>1
  <2>2. /\ \A y : Upto(s, k, y) = Upto(s, k - 1, y) + (IF s[k] = y THEN 1 ELSE 0)
        /\ \A y : Upto(s, k - 1, y) \in Nat
        /\ Upto(t, k, x) = Upto(t, k - 1, x) + (IF t[k] = x THEN 1 ELSE 0)
    BY <2>1, UptoStep
  <2>3. Upto(t, k - 1, x) = Expected(k - 1) /\ t[k] = IF s[k] = o THEN n ELSE s[k]
    BY <1>1, <1>3
  <2>4. Upto(t, k, x) = Expected(k)
    BY <2>2, <2>3
  <2> QED
    BY <1>1, <2>4
<1> HIDE DEF P
<1>4. m \in P
  <2>1. m \in 0 .. m
    BY <1>1
  <2> QED
    BY <1>1, <1>2, <1>3, <2>1, UpTo
<1> QED
  BY <1>1, <1>4 DEF P, Count, t, m

(* What ReplaceAll leaves in a list. *)
LEMMA UsesReplaceAll ==
  ASSUME NEW J, NEW s \in Seq(J), NEW o, NEW n
  PROVE  /\ Uses(ReplaceAll(s, o, n)) =
              IF o \in Uses(s) THEN (Uses(s) \ {o}) \cup {n} ELSE Uses(s)
         /\ o \notin Uses(s) => ReplaceAll(s, o, n) = s
<1> DEFINE t == ReplaceAll(s, o, n)
<1>1. /\ DOMAIN t = 1 .. Len(s) /\ Len(t) = Len(s)
      /\ \A k \in 1 .. Len(s) : t[k] = IF s[k] = o THEN n ELSE s[k]
  BY DEF ReplaceAll
<1>2. o \notin Uses(s) => t = s
  <2> SUFFICES ASSUME o \notin Uses(s) PROVE t = s
    OBVIOUS
  <2>1. \A k \in 1 .. Len(s) : s[k] # o
    BY DEF Uses
  <2>2. t = [k \in 1 .. Len(s) |-> s[k]]
    BY <2>1 DEF ReplaceAll
  <2> QED
    BY <2>2
<1> HIDE DEF t
<1>3. Uses(t) = IF o \in Uses(s) THEN (Uses(s) \ {o}) \cup {n} ELSE Uses(s)
  <2>1. CASE o \in Uses(s)
    <3>1. PICK p \in 1 .. Len(s) : s[p] = o
      BY <2>1 DEF Uses
    <3>2. n \in Uses(t)
      BY <1>1, <3>1 DEF Uses
    <3>3. \A v \in Uses(s) : v # o => v \in Uses(t)
      BY <1>1 DEF Uses
    <3>4. \A v \in Uses(t) : v = n \/ v \in Uses(s) \ {o}
      BY <1>1 DEF Uses
    <3> QED
      BY <2>1, <3>2, <3>3, <3>4
  <2>2. CASE o \notin Uses(s)
    BY <1>2, <2>2
  <2> QED
    BY <2>1, <2>2
<1> QED
  BY <1>2, <1>3 DEF t

(* A second time ReplaceAll finds nothing to do. *)
LEMMA ReplaceAllTwice ==
  ASSUME NEW s, NEW o, NEW n
  PROVE  ReplaceAll(ReplaceAll(s, o, n), o, n) = ReplaceAll(s, o, n)
<1> DEFINE t == ReplaceAll(s, o, n)
<1>1. t = [k \in 1 .. Len(s) |-> IF s[k] = o THEN n ELSE s[k]] /\ 1 .. Len(t) = 1 .. Len(s)
  BY DEF ReplaceAll
<1>2. ReplaceAll(t, o, n) = [k \in 1 .. Len(s) |-> IF t[k] = o THEN n ELSE t[k]]
  BY <1>1 DEF ReplaceAll
<1> HIDE DEF t
<1>3. \A k \in 1 .. Len(s) : t[k] = IF s[k] = o THEN n ELSE s[k]
  BY <1>1
<1>4. \A k \in 1 .. Len(s) : (IF t[k] = o THEN n ELSE t[k]) = IF s[k] = o THEN n ELSE s[k]
  BY <1>3
<1> QED
  BY <1>1, <1>2, <1>4 DEF t

-----------------------------------------------------------------------------
(* Lists of users. *)

(* A list of elements of J for each element of I. *)
Lists(I, J) == [I -> Seq(J)]

(* AddToUsers goes input by input, ... *)
EntersInSteps(chain, us, us2, s, i) ==
  /\ chain[0] = us /\ chain[Len(s)] = us2
  /\ \A k \in 1 .. Len(s) : chain[k] = AddUser(chain[k - 1], s[k], i)

(* ... and so does RemoveUsers. *)
LeavesInSteps(chain, us, us2, s, i) ==
  /\ chain[0] = us /\ chain[Len(s)] = us2
  /\ \A k \in 1 .. Len(s) : chain[k] = RemoveUser(chain[k - 1], s[k], i)

(* Entering an instruction i for its inputs s goes input by input. *)
LEMMA AddToUsersSteps ==
  ASSUME NEW I, NEW J, NEW us \in Lists(I, J), NEW s \in Seq(I), NEW i \in J
  PROVE  \E chain \in [0 .. Len(s) -> Lists(I, J)] :
           EntersInSteps(chain, us, AddToUsers(us, s, i), s, i)
<1> DEFINE n == Len(s)
           X == Lists(I, J)
           step == [p \in X \X (1 .. n) |-> AddUser(p[1], s[p[2]], i)]
           Next(g, S) == AddUser(g[S \ {Max(S)}], s[Max(S)], i)
           Fold(g) == g = [S \in SUBSET DOMAIN s |-> IF S = {} THEN us ELSE Next(g, S)]
<1>1. n \in Nat /\ DOMAIN s = 1 .. n /\ us \in X
  OBVIOUS
<1>2. step \in [X \X (1 .. n) -> X]
  BY DEF AddUser, Lists
<1>3. ASSUME NEW g, NEW S \in SUBSET (1 .. n), S # {}, g[S \ {Max(S)}] \in X
      PROVE  Next(g, S) = step[<<g[S \ {Max(S)}], Max(S)>>]
  <2>1. Max(S) \in 1 .. n
    BY <1>1, <1>3, MaxIsPosition
  <2> HIDE DEF X, n
  <2> QED
    BY <1>3, <2>1
<1> HIDE DEF X, n, step
<1>4. PICK f \in [SUBSET (1 .. n) -> X] : IsFold(f, n, us, step)
  BY <1>1, <1>2, FoldExists
<1>5. Fold(f)
  <2> DEFINE h == [S \in SUBSET DOMAIN s |-> IF S = {} THEN us ELSE Next(f, S)]
  <2> HIDE DEF Next
  <2>1. \A S \in SUBSET (1 .. n) : f[S] = h[S]
    BY <1>1, <1>3, <1>4 DEF IsFold
  <2> QED
    BY <1>1, <1>4, <2>1
<1>6. PICK g : Fold(g) /\ AddToUsers(us, s, i) = g[DOMAIN s]
  BY <1>5, Zenon DEF AddToUsers, FoldLeft, MapThenFoldSet
<1>7. PICK chain \in [0 .. n -> X] : chain[n] = g[1 .. n] /\ IsChain(chain, n, us, step)
  <2> HIDE DEF Next
  <2>1. Folds(g, X, n, us, step)
    BY <1>1, <1>3, <1>6 DEF Folds
  <2> HIDE DEF Fold
  <2> QED
    BY <1>1, <1>2, <2>1, FoldSteps
<1>8. \A k \in 1 .. n : chain[k] = AddUser(chain[k - 1], s[k], i)
  BY <1>1, <1>7 DEF step, IsChain
<1> QED
  BY <1>1, <1>6, <1>7, <1>8 DEF X, n, IsChain, EntersInSteps

(* Leaving the users of the inputs s goes input by input. *)
LEMMA RemoveUsersSteps ==
  ASSUME NEW I, NEW J, NEW us \in Lists(I, J), NEW s \in Seq(I), NEW i
  PROVE  \E chain \in [0 .. Len(s) -> Lists(I, J)] :
           LeavesInSteps(chain, us, RemoveUsers(us, s, i), s, i)
<1> DEFINE n == Len(s)
           X == Lists(I, J)
           step == [p \in X \X (1 .. n) |-> RemoveUser(p[1], s[p[2]], i)]
           Next(g, S) == RemoveUser(g[S \ {Max(S)}], s[Max(S)], i)
           Fold(g) == g = [S \in SUBSET DOMAIN s |-> IF S = {} THEN us ELSE Next(g, S)]
<1>1. n \in Nat /\ DOMAIN s = 1 .. n /\ us \in X
  OBVIOUS
<1>2. step \in [X \X (1 .. n) -> X]
  <2>1. ASSUME NEW x \in X, NEW d \in I PROVE RemoveFirst(x[d], i) \in Seq(J)
    <3>1. x[d] \in Seq(J)
      BY <2>1 DEF Lists
    <3> QED
      BY <3>1, CountRemoveFirst
  <2> QED
    BY <2>1 DEF RemoveUser, Lists
<1>3. ASSUME NEW g, NEW S \in SUBSET (1 .. n), S # {}, g[S \ {Max(S)}] \in X
      PROVE  Next(g, S) = step[<<g[S \ {Max(S)}], Max(S)>>]
  <2>1. Max(S) \in 1 .. n
    BY <1>1, <1>3, MaxIsPosition
  <2> HIDE DEF X, n
  <2> QED
    BY <1>3, <2>1
<1> HIDE DEF X, n, step
<1>4. PICK f \in [SUBSET (1 .. n) -> X] : IsFold(f, n, us, step)
  BY <1>1, <1>2, FoldExists
<1>5. Fold(f)
  <2> DEFINE h == [S \in SUBSET DOMAIN s |-> IF S = {} THEN us ELSE Next(f, S)]
  <2> HIDE DEF Next
  <2>1. \A S \in SUBSET (1 .. n) : f[S] = h[S]
    BY <1>1, <1>3, <1>4 DEF IsFold
  <2> QED
    BY <1>1, <1>4, <2>1
<1>6. PICK g : Fold(g) /\ RemoveUsers(us, s, i) = g[DOMAIN s]
  BY <1>5, Zenon DEF RemoveUsers, FoldLeft, MapThenFoldSet
<1>7. PICK chain \in [0 .. n -> X] : chain[n] = g[1 .. n] /\ IsChain(chain, n, us, step)
  <2> HIDE DEF Next
  <2>1. Folds(g, X, n, us, step)
    BY <1>1, <1>3, <1>6 DEF Folds
  <2> HIDE DEF Fold
  <2> QED
    BY <1>1, <1>2, <2>1, FoldSteps
<1>8. \A k \in 1 .. n : chain[k] = RemoveUser(chain[k - 1], s[k], i)
  BY <1>1, <1>7 DEF step, IsChain
<1> QED
  BY <1>1, <1>6, <1>7, <1>8 DEF X, n, IsChain, LeavesInSteps

(* Between us and us2 the instruction i has become a user of the inputs s. *)
Enters(I, us, us2, s, i) ==
  \A d \in I :
    /\ \A x : x # i => Count(us2[d], x) = Count(us[d], x)
    /\ Count(us2[d], i) <= Count(us[d], i) + Count(s, d)
    /\ d \in Uses(s) => Count(us2[d], i) # 0

(* It is the user of no input any more, provided that it was not one more  *)
(* often than it has the input.                                            *)
Leaves(I, us, us2, s, i) ==
  \A d \in I :
    /\ \A x : x # i => Count(us2[d], x) = Count(us[d], x)
    /\ Count(us[d], i) <= Count(s, d) => Count(us2[d], i) = 0

(* Between us and us2 the users of d have got an entry for i, ... *)
AddsEntry(I, us, us2, d, i) ==
  \A e \in I : \A x :
    /\ Count(us[e], x) \in Nat
    /\ Count(us2[e], x) = Count(us[e], x) + (IF e = d /\ x = i THEN 1 ELSE 0)

(* ... or have lost one if there was one. *)
TakesEntry(I, us, us2, d, i) ==
  \A e \in I : \A x :
    /\ Count(us[e], x) \in Nat
    /\ Count(us2[e], x) =
         Count(us[e], x) - (IF e = d /\ x = i /\ Count(us[d], i) # 0 THEN 1 ELSE 0)

(* What AddUser does to the counts. *)
LEMMA AddUserCounts ==
  ASSUME NEW I, NEW J, NEW us \in Lists(I, J), NEW d \in I, NEW i \in J
  PROVE  AddUser(us, d, i) \in Lists(I, J) /\ AddsEntry(I, us, AddUser(us, d, i), d, i)
<1>1. us[d] \in Seq(J) /\ \A e \in I : us[e] \in Seq(J)
  BY DEF Lists
<1>2. AddUser(us, d, i) = [us EXCEPT ![d] = Append(us[d], i)]
  BY DEF AddUser
<1>3. AddUser(us, d, i) \in Lists(I, J)
  BY <1>1, <1>2 DEF Lists
<1>4. ASSUME NEW e \in I, NEW x
      PROVE  /\ Count(us[e], x) \in Nat
             /\ Count(AddUser(us, d, i)[e], x) =
                  Count(us[e], x) + (IF e = d /\ x = i THEN 1 ELSE 0)
  <2>1. AddUser(us, d, i)[e] = IF e = d THEN Append(us[d], i) ELSE us[e]
    BY <1>2 DEF Lists
  <2>2. Count(Append(us[d], i), x) = Count(us[d], x) + (IF i = x THEN 1 ELSE 0)
    BY <1>1, CountAppend
  <2>3. Count(us[e], x) \in Nat
    BY <1>1, CountUses
  <2> QED
    BY <2>1, <2>2, <2>3
<1> QED
  BY <1>3, <1>4 DEF AddsEntry

(* What RemoveUser does to the counts. *)
LEMMA RemoveUserCounts ==
  ASSUME NEW I, NEW J, NEW us \in Lists(I, J), NEW d \in I, NEW i
  PROVE  /\ RemoveUser(us, d, i) \in Lists(I, J)
         /\ TakesEntry(I, us, RemoveUser(us, d, i), d, i)
<1>1. us[d] \in Seq(J) /\ \A e \in I : us[e] \in Seq(J)
  BY DEF Lists
<1>2. RemoveUser(us, d, i) = [us EXCEPT ![d] = RemoveFirst(us[d], i)]
  BY DEF RemoveUser
<1>3. RemoveUser(us, d, i) \in Lists(I, J)
  <2>1. RemoveFirst(us[d], i) \in Seq(J)
    BY <1>1, CountRemoveFirst
  <2> QED
    BY <1>1, <1>2, <2>1 DEF Lists
<1>4. ASSUME NEW e \in I, NEW x
      PROVE  /\ Count(us[e], x) \in Nat
             /\ Count(RemoveUser(us, d, i)[e], x) =
                  Count(us[e], x) -
                    (IF e = d /\ x = i /\ Count(us[d], i) # 0 THEN 1 ELSE 0)
  <2>1. RemoveUser(us, d, i)[e] = IF e = d THEN RemoveFirst(us[d], i) ELSE us[e]
    BY <1>2 DEF Lists
  <2>2. Count(RemoveFirst(us[d], i), x) =
          Count(us[d], x) - (IF x = i /\ i \in Uses(us[d]) THEN 1 ELSE 0)
    BY <1>1, CountRemoveFirst
  <2>3. Count(us[e], x) \in Nat /\ (i \in Uses(us[d]) <=> Count(us[d], i) # 0)
    BY <1>1, CountUses
  <2> QED
    BY <2>1, <2>2, <2>3
<1> QED
  BY <1>3, <1>4 DEF TakesEntry

(* One entry in the list of each input is enough. *)
LEMMA EntersOnce ==
  ASSUME NEW I, NEW J, NEW us \in Lists(I, J), NEW us2, NEW s \in Seq(I), NEW i,
         \A d \in I : \A x :
           Count(us2[d], x) = Count(us[d], x) + (IF d \in Uses(s) /\ x = i THEN 1 ELSE 0)
  PROVE  Enters(I, us, us2, s, i)
<1> SUFFICES ASSUME NEW d \in I
             PROVE  /\ \A x : x # i => Count(us2[d], x) = Count(us[d], x)
                    /\ Count(us2[d], i) <= Count(us[d], i) + Count(s, d)
                    /\ d \in Uses(s) => Count(us2[d], i) # 0
  BY DEF Enters
<1>1. us[d] \in Seq(J)
  BY DEF Lists
<1>2. \A x : Count(us[d], x) \in Nat
  BY <1>1, CountUses
<1>3. Count(s, d) \in Nat /\ (d \in Uses(s) <=> Count(s, d) # 0)
  BY CountUses
<1>4. ASSUME NEW x, x # i PROVE Count(us2[d], x) = Count(us[d], x)
  <2>1. Count(us2[d], x) = Count(us[d], x) + 0
    BY <1>4
  <2> QED
    BY <1>2, <2>1
<1>5. Count(us2[d], i) = Count(us[d], i) + (IF d \in Uses(s) THEN 1 ELSE 0)
  OBVIOUS
<1>6. Count(us[d], i) \in Nat
  BY <1>2
<1> QED
  BY <1>3, <1>4, <1>5, <1>6

(* An instruction becomes a user of all its inputs. *)
LEMMA AddToUsersEnters ==
  ASSUME NEW I, NEW J, NEW us \in Lists(I, J), NEW s \in Seq(I), NEW i \in J
  PROVE  AddToUsers(us, s, i) \in Lists(I, J) /\ Enters(I, us, AddToUsers(us, s, i), s, i)
<1> DEFINE n == Len(s)
           us2 == AddToUsers(us, s, i)
<1>1. PICK chain \in [0 .. n -> Lists(I, J)] : EntersInSteps(chain, us, us2, s, i)
  BY AddToUsersSteps
<1>2. n \in Nat /\ chain[0] = us /\ chain[n] = us2
  BY <1>1 DEF EntersInSteps
<1>3. \A k \in 1 .. n : chain[k] = AddUser(chain[k - 1], s[k], i) /\ s[k] \in I
  BY <1>1 DEF EntersInSteps
<1> HIDE DEF n, us2
<1>4. \A d \in I : \A x : Count(us[d], x) \in Nat
  BY CountUses DEF Lists
<1> DEFINE P == {k \in 0 .. n :
                  \A d \in I :
                    /\ \A x : x # i => Count(chain[k][d], x) = Count(us[d], x)
                    /\ Count(chain[k][d], i) = Count(us[d], i) + Upto(s, k, d)}
<1>5. 0 \in P
  <2>1. \A d : Upto(s, 0, d) = 0
    BY UptoStep
  <2> QED
    BY <1>2, <1>4, <2>1
<1>6. ASSUME NEW k \in 1 .. n, k - 1 \in P PROVE k \in P
  <2>1. k \in Nat /\ k # 0 /\ k - 1 \in 0 .. n /\ k - 1 \in Nat
    BY <1>2
  <2>2. chain[k - 1] \in Lists(I, J)
    BY <2>1
  <2>3. ASSUME NEW d \in I, NEW x
        PROVE  /\ Count(chain[k - 1][d], x) \in Nat
               /\ Count(chain[k][d], x) =
                    Count(chain[k - 1][d], x) + (IF d = s[k] /\ x = i THEN 1 ELSE 0)
    <3> DEFINE c == chain[k - 1]
               e == s[k]
    <3>1. chain[k] = AddUser(c, e, i) /\ e \in I /\ c \in Lists(I, J)
      BY <1>3, <2>2
    <3> HIDE DEF c, e
    <3>2. AddsEntry(I, c, AddUser(c, e, i), e, i)
      BY <3>1, AddUserCounts
    <3> QED
      BY <3>1, <3>2 DEF AddsEntry, c, e
  <2>4. ASSUME NEW d \in I
        PROVE  /\ Upto(s, k, d) = Upto(s, k - 1, d) + (IF s[k] = d THEN 1 ELSE 0)
               /\ Upto(s, k - 1, d) \in Nat
    BY <2>1, UptoStep
  <2>5. ASSUME NEW d \in I
        PROVE  /\ \A x : x # i => Count(chain[k - 1][d], x) = Count(us[d], x)
               /\ Count(chain[k - 1][d], i) = Count(us[d], i) + Upto(s, k - 1, d)
    BY <1>6
  <2>6. ASSUME NEW d \in I, NEW x, x # i PROVE Count(chain[k][d], x) = Count(us[d], x)
    <3>1. Count(us[d], x) \in Nat /\ Count(chain[k - 1][d], x) = Count(us[d], x)
      BY <1>4, <2>5, <2>6
    <3>2. ~ (d = s[k] /\ x = i)
      BY <2>6
    <3>3. Count(chain[k][d], x) = Count(chain[k - 1][d], x) + 0
      BY <2>3, <3>2
    <3> QED
      BY <3>1, <3>3
  <2>7. ASSUME NEW d \in I PROVE Count(chain[k][d], i) = Count(us[d], i) + Upto(s, k, d)
    <3>1. Count(us[d], i) \in Nat
      BY <1>4
    <3>2. Count(chain[k][d], i) =
            Count(chain[k - 1][d], i) + (IF d = s[k] THEN 1 ELSE 0)
      BY <2>3
    <3>3. Count(chain[k - 1][d], i) = Count(us[d], i) + Upto(s, k - 1, d)
      BY <2>5
    <3> QED
      BY <2>4, <3>1, <3>2, <3>3
  <2> QED
    BY <2>1, <2>6, <2>7
<1> HIDE DEF P
<1>7. n \in P
  <2>1. n \in 0 .. n
    BY <1>2
  <2> QED
    BY <1>2, <1>5, <1>6, <2>1, UpTo
<1>8. ASSUME NEW d \in I
      PROVE  /\ \A x : x # i => Count(us2[d], x) = Count(us[d], x)
             /\ Count(us2[d], i) = Count(us[d], i) + Count(s, d)
  BY <1>2, <1>7 DEF P, Count, n
<1>9. ASSUME NEW d \in I PROVE Count(s, d) \in Nat /\ (d \in Uses(s) => Count(s, d) # 0)
  BY CountUses
<1>10. Enters(I, us, us2, s, i)
  <2> SUFFICES ASSUME NEW d \in I
               PROVE  /\ \A x : x # i => Count(us2[d], x) = Count(us[d], x)
                      /\ Count(us2[d], i) <= Count(us[d], i) + Count(s, d)
                      /\ d \in Uses(s) => Count(us2[d], i) # 0
    BY DEF Enters
  <2>1. Count(us[d], i) \in Nat /\ Count(us2[d], i) = Count(us[d], i) + Count(s, d)
    BY <1>4, <1>8
  <2>2. \A x : x # i => Count(us2[d], x) = Count(us[d], x)
    BY <1>8
  <2> QED
    BY <1>9, <2>1, <2>2
<1>11. us2 \in Lists(I, J)
  BY <1>2
<1> QED
  BY <1>10, <1>11 DEF us2

(* An instruction that leaves the users of its inputs is gone from them. *)
LEMMA RemoveUsersLeaves ==
  ASSUME NEW I, NEW J, NEW us \in Lists(I, J), NEW s \in Seq(I), NEW i
  PROVE  RemoveUsers(us, s, i) \in Lists(I, J) /\ Leaves(I, us, RemoveUsers(us, s, i), s, i)
<1> DEFINE n == Len(s)
           us2 == RemoveUsers(us, s, i)
<1>1. PICK chain \in [0 .. n -> Lists(I, J)] : LeavesInSteps(chain, us, us2, s, i)
  BY RemoveUsersSteps
<1>2. n \in Nat /\ chain[0] = us /\ chain[n] = us2
  BY <1>1 DEF LeavesInSteps
<1>3. \A k \in 1 .. n : chain[k] = RemoveUser(chain[k - 1], s[k], i) /\ s[k] \in I
  BY <1>1 DEF LeavesInSteps
<1> HIDE DEF n, us2
<1>4. \A d \in I : \A x : Count(us[d], x) \in Nat
  BY CountUses DEF Lists
<1> DEFINE P == {k \in 0 .. n :
                  \A d \in I :
                    /\ \A x : x # i => Count(chain[k][d], x) = Count(us[d], x)
                    /\ \/ Count(chain[k][d], i) = 0
                       \/ Count(chain[k][d], i) + Upto(s, k, d) <= Count(us[d], i)}
<1>5. 0 \in P
  <2>1. \A d : Upto(s, 0, d) = 0
    BY UptoStep
  <2> QED
    BY <1>2, <1>4, <2>1
<1>6. ASSUME NEW k \in 1 .. n, k - 1 \in P PROVE k \in P
  <2>1. k \in Nat /\ k # 0 /\ k - 1 \in 0 .. n /\ k - 1 \in Nat
    BY <1>2
  <2>2. chain[k - 1] \in Lists(I, J)
    BY <2>1
  <2>3. ASSUME NEW d \in I, NEW x
        PROVE  /\ Count(chain[k - 1][d], x) \in Nat
               /\ Count(chain[k][d], x) =
                    Count(chain[k - 1][d], x) -
                      (IF d = s[k] /\ x = i /\ Count(chain[k - 1][s[k]], i) # 0
                       THEN 1 ELSE 0)
    <3> DEFINE c == chain[k - 1]
               e == s[k]
    <3>1. chain[k] = RemoveUser(c, e, i) /\ e \in I /\ c \in Lists(I, J)
      BY <1>3, <2>2
    <3> HIDE DEF c, e
    <3>2. TakesEntry(I, c, RemoveUser(c, e, i), e, i)
      BY <3>1, RemoveUserCounts
    <3> QED
      BY <3>1, <3>2 DEF TakesEntry, c, e
  <2>4. ASSUME NEW d \in I
        PROVE  /\ Upto(s, k, d) = Upto(s, k - 1, d) + (IF s[k] = d THEN 1 ELSE 0)
               /\ Upto(s, k - 1, d) \in Nat
    BY <2>1, UptoStep
  <2>5. ASSUME NEW d \in I
        PROVE  /\ \A x : x # i => Count(chain[k - 1][d], x) = Count(us[d], x)
               /\ \/ Count(chain[k - 1][d], i) = 0
                  \/ Count(chain[k - 1][d], i) + Upto(s, k - 1, d) <= Count(us[d], i)
    BY <1>6
  <2>6. ASSUME NEW d \in I, NEW x, x # i PROVE Count(chain[k][d], x) = Count(us[d], x)
    <3>1. Count(us[d], x) \in Nat /\ Count(chain[k - 1][d], x) = Count(us[d], x)
      BY <1>4, <2>5, <2>6
    <3>2. ~ (d = s[k] /\ x = i /\ Count(chain[k - 1][s[k]], i) # 0)
      BY <2>6
    <3>3. Count(chain[k][d], x) = Count(chain[k - 1][d], x) - 0
      BY <2>3, <3>2
    <3> QED
      BY <3>1, <3>3
  <2>7. ASSUME NEW d \in I
        PROVE  \/ Count(chain[k][d], i) = 0
               \/ Count(chain[k][d], i) + Upto(s, k, d) <= Count(us[d], i)
    <3>1. Count(us[d], i) \in Nat /\ Count(chain[k - 1][d], i) \in Nat
      BY <1>4, <2>3
    <3>2. Count(chain[k][d], i) =
            Count(chain[k - 1][d], i) -
              (IF d = s[k] /\ Count(chain[k - 1][d], i) # 0 THEN 1 ELSE 0)
      BY <2>3
    <3>3. \/ Count(chain[k - 1][d], i) = 0
          \/ Count(chain[k - 1][d], i) + Upto(s, k - 1, d) <= Count(us[d], i)
      BY <2>5
    <3> QED
      BY <2>4, <3>1, <3>2, <3>3
  <2> QED
    BY <2>1, <2>6, <2>7
<1> HIDE DEF P
<1>7. n \in P
  <2>1. n \in 0 .. n
    BY <1>2
  <2> QED
    BY <1>2, <1>5, <1>6, <2>1, UpTo
<1>8. ASSUME NEW d \in I
      PROVE  /\ \A x : x # i => Count(us2[d], x) = Count(us[d], x)
             /\ Count(us2[d], i) = 0 \/ Count(us2[d], i) + Count(s, d) <= Count(us[d], i)
  BY <1>2, <1>7 DEF P, Count, n
<1>9. us2 \in Lists(I, J) /\ \A d \in I : Count(us2[d], i) \in Nat /\ Count(s, d) \in Nat
  BY <1>2, CountUses DEF Lists
<1>10. Leaves(I, us, us2, s, i)
  <2> SUFFICES ASSUME NEW d \in I
               PROVE  /\ \A x : x # i => Count(us2[d], x) = Count(us[d], x)
                      /\ Count(us[d], i) <= Count(s, d) => Count(us2[d], i) = 0
    BY DEF Leaves
  <2>1. Count(us[d], i) \in Nat /\ Count(us2[d], i) \in Nat /\ Count(s, d) \in Nat
    BY <1>4, <1>9
  <2>2. /\ \A x : x # i => Count(us2[d], x) = Count(us[d], x)
        /\ Count(us2[d], i) = 0 \/ Count(us2[d], i) + Count(s, d) <= Count(us[d], i)
    BY <1>8
  <2> QED
    BY <2>1, <2>2
<1> QED
  BY <1>9, <1>10 DEF us2
-----------------------------------------------------------------------------
(* Distinct and MoveUsers, with which whole lists of users change hands. *)

(* Distinct goes entry by entry. *)
DistinctInSteps(chain, s) ==
  /\ chain[0] = <<>> /\ chain[Len(s)] = Distinct(s)
  /\ \A k \in 1 .. Len(s) :
       chain[k] = IF s[k] \in Uses(chain[k - 1]) THEN chain[k - 1]
                  ELSE Append(chain[k - 1], s[k])

(* So it does, with a list of the same elements at every step. *)
LEMMA DistinctSteps ==
  ASSUME NEW J, NEW s \in Seq(J)
  PROVE  \E chain \in [0 .. Len(s) -> Seq(J)] : DistinctInSteps(chain, s)
<1> DEFINE n == Len(s)
           X == Seq(J)
           Add(acc, e) == IF e \in Uses(acc) THEN acc ELSE Append(acc, e)
           step == [p \in X \X (1 .. n) |-> Add(p[1], s[p[2]])]
           Next(g, S) == Add(g[S \ {Max(S)}], s[Max(S)])
           Fold(g) == g = [S \in SUBSET DOMAIN s |-> IF S = {} THEN <<>> ELSE Next(g, S)]
<1>1. n \in Nat /\ DOMAIN s = 1 .. n /\ <<>> \in X
  OBVIOUS
<1>2. step \in [X \X (1 .. n) -> X]
  <2>1. \A x \in X, k \in 1 .. n : Add(x, s[k]) \in X
    <3>1. \A k \in 1 .. n : s[k] \in J
      OBVIOUS
    <3> QED
      BY <3>1
  <2> QED
    BY <2>1
<1>3. ASSUME NEW g, NEW S \in SUBSET (1 .. n), S # {}, g[S \ {Max(S)}] \in X
      PROVE  Next(g, S) = step[<<g[S \ {Max(S)}], Max(S)>>]
  <2>1. Max(S) \in 1 .. n
    BY <1>1, <1>3, MaxIsPosition
  <2> HIDE DEF X, n, Add
  <2> QED
    BY <1>3, <2>1
<1> HIDE DEF X, n, step
<1>4. PICK f \in [SUBSET (1 .. n) -> X] : IsFold(f, n, <<>>, step)
  BY <1>1, <1>2, FoldExists
<1>5. Fold(f)
  <2> DEFINE h == [S \in SUBSET DOMAIN s |-> IF S = {} THEN <<>> ELSE Next(f, S)]
  <2> HIDE DEF Next
  <2>1. \A S \in SUBSET (1 .. n) : f[S] = h[S]
    BY <1>1, <1>3, <1>4 DEF IsFold
  <2> QED
    BY <1>1, <1>4, <2>1
<1>6. PICK g : Fold(g) /\ Distinct(s) = g[DOMAIN s]
  BY <1>5, Zenon DEF Distinct, FoldLeft, MapThenFoldSet
<1>7. PICK chain \in [0 .. n -> X] : chain[n] = g[1 .. n] /\ IsChain(chain, n, <<>>, step)
  <2> HIDE DEF Next
  <2>1. Folds(g, X, n, <<>>, step)
    BY <1>1, <1>3, <1>6 DEF Folds
  <2> HIDE DEF Fold
  <2> QED
    BY <1>1, <1>2, <2>1, FoldSteps
<1>8. \A k \in 1 .. n : chain[k] = Add(chain[k - 1], s[k])
  BY <1>1, <1>7 DEF step, IsChain
<1>9. chain[0] = <<>> /\ chain[n] = Distinct(s)
  BY <1>1, <1>6, <1>7 DEF IsChain
<1> HIDE DEF Fold, Next
<1>10. DistinctInSteps(chain, s)
  BY <1>8, <1>9 DEF DistinctInSteps, n
<1> QED
  BY <1>10 DEF X, n

(* The entries of Distinct(s) are those of s, each once. *)
LEMMA DistinctOnce ==
  ASSUME NEW J, NEW s \in Seq(J)
  PROVE  /\ Distinct(s) \in Seq(J) /\ Uses(Distinct(s)) = Uses(s)
         /\ \A x : Count(Distinct(s), x) <= 1
<1> DEFINE n == Len(s)
<1>1. PICK chain \in [0 .. n -> Seq(J)] : DistinctInSteps(chain, s)
  BY DistinctSteps
<1>2. /\ chain[0] = <<>> /\ chain[n] = Distinct(s) /\ n \in Nat
      /\ \A k \in 1 .. n :
           chain[k] = IF s[k] \in Uses(chain[k - 1]) THEN chain[k - 1]
                      ELSE Append(chain[k - 1], s[k])
  BY <1>1 DEF DistinctInSteps
<1> DEFINE P == {k \in 0 .. n : /\ Uses(chain[k]) = {s[m] : m \in 1 .. k}
                                /\ \A x : Count(chain[k], x) <= 1}
<1>3. 0 \in P
  <2>1. Uses(<<>>) = {} /\ <<>> \in Seq(J)
    BY DEF Uses
  <2>2. \A x : Count(<<>>, x) = 0
    BY <2>1, CountUses
  <2> QED
    BY <1>2, <2>1, <2>2
<1>4. ASSUME NEW k \in 1 .. n, k - 1 \in P PROVE k \in P
  <2> DEFINE c == chain[k - 1]
             e == s[k]
  <2>1. /\ c \in Seq(J) /\ e \in J /\ Uses(c) = {s[m] : m \in 1 .. k - 1}
        /\ \A x : Count(c, x) <= 1
        /\ chain[k] = IF e \in Uses(c) THEN c ELSE Append(c, e)
        /\ k \in 0 .. n
    <3>1. k - 1 \in 0 .. n /\ k \in 0 .. n
      BY <1>2
    <3>2. c \in Seq(J) /\ e \in J
      BY <3>1
    <3>3. Uses(c) = {s[m] : m \in 1 .. k - 1} /\ \A x : Count(c, x) <= 1
      BY <1>4
    <3>4. chain[k] = IF e \in Uses(c) THEN c ELSE Append(c, e)
      BY <1>2
    <3> QED
      BY <3>1, <3>2, <3>3, <3>4
  <2>2. {s[m] : m \in 1 .. k} = {s[m] : m \in 1 .. k - 1} \cup {e}
    <3>1. \A m : m \in 1 .. k <=> m \in 1 .. k - 1 \/ m = k
      OBVIOUS
    <3> QED
      BY <3>1
  <2>3. CASE e \in Uses(c)
    BY <2>1, <2>2, <2>3
  <2>4. CASE e \notin Uses(c)
    <3> HIDE DEF c, e
    <3>1. Uses(Append(c, e)) = Uses(c) \cup {e}
      BY <2>1, UsesAppend
    <3>2. ASSUME NEW x PROVE Count(Append(c, e), x) <= 1
      <4>1. Count(Append(c, e), x) = Count(c, x) + (IF e = x THEN 1 ELSE 0)
        BY <2>1, CountAppend
      <4>2. Count(c, x) \in Nat /\ Count(c, x) <= 1 /\ (e = x => Count(c, x) = 0)
        BY <2>1, <2>4, CountUses
      <4> QED
        BY <4>1, <4>2
    <3> QED
      BY <2>1, <2>2, <2>4, <3>1, <3>2
  <2> QED
    BY <2>3, <2>4
<1> HIDE DEF P
<1>5. n \in P
  <2>1. n \in 0 .. n
    BY <1>2
  <2> HIDE DEF n
  <2> QED
    BY <1>2, <1>3, <1>4, <2>1, UpTo
<1> QED
  BY <1>2, <1>5 DEF P, Uses

(* MoveUsers goes entry by entry. *)
MovesInSteps(chain, us, us2, s, i, n) ==
  /\ chain[0] = us /\ chain[Len(s)] = us2
  /\ \A k \in 1 .. Len(s) :
       chain[k] = AddUser(RemoveUser(chain[k - 1], i, s[k]), n, s[k])

(* So it does, with lists of instructions at every step. *)
LEMMA MoveUsersSteps ==
  ASSUME NEW I, NEW J, NEW us \in Lists(I, J), NEW s \in Seq(J), NEW i \in I, NEW n \in I
  PROVE  \E chain \in [0 .. Len(s) -> Lists(I, J)] :
           MovesInSteps(chain, us, MoveUsers(us, s, i, n), s, i, n)
<1> DEFINE m == Len(s)
           X == Lists(I, J)
           Move(acc, j) == AddUser(RemoveUser(acc, i, j), n, j)
           step == [p \in X \X (1 .. m) |-> Move(p[1], s[p[2]])]
           Next(g, S) == Move(g[S \ {Max(S)}], s[Max(S)])
           Fold(g) == g = [S \in SUBSET DOMAIN s |-> IF S = {} THEN us ELSE Next(g, S)]
<1>1. m \in Nat /\ DOMAIN s = 1 .. m /\ us \in X
  OBVIOUS
<1>2. step \in [X \X (1 .. m) -> X]
  <2>1. ASSUME NEW x \in X, NEW k \in 1 .. m PROVE Move(x, s[k]) \in X
    <3>1. s[k] \in J
      OBVIOUS
    <3>2. RemoveUser(x, i, s[k]) \in X
      BY RemoveUserCounts
    <3> QED
      BY <3>1, <3>2, AddUserCounts
  <2> HIDE DEF Move
  <2> QED
    BY <2>1
<1>3. ASSUME NEW g, NEW S \in SUBSET (1 .. m), S # {}, g[S \ {Max(S)}] \in X
      PROVE  Next(g, S) = step[<<g[S \ {Max(S)}], Max(S)>>]
  <2>1. Max(S) \in 1 .. m
    BY <1>1, <1>3, MaxIsPosition
  <2> HIDE DEF X, m, Move
  <2> QED
    BY <1>3, <2>1
<1> HIDE DEF X, m, step
<1>4. PICK f \in [SUBSET (1 .. m) -> X] : IsFold(f, m, us, step)
  BY <1>1, <1>2, FoldExists
<1>5. Fold(f)
  <2> DEFINE h == [S \in SUBSET DOMAIN s |-> IF S = {} THEN us ELSE Next(f, S)]
  <2> HIDE DEF Next
  <2>1. \A S \in SUBSET (1 .. m) : f[S] = h[S]
    BY <1>1, <1>3, <1>4 DEF IsFold
  <2> QED
    BY <1>1, <1>4, <2>1
<1>6. PICK g : Fold(g) /\ MoveUsers(us, s, i, n) = g[DOMAIN s]
  BY <1>5, Zenon DEF MoveUsers, FoldLeft, MapThenFoldSet
<1>7. PICK chain \in [0 .. m -> X] : chain[m] = g[1 .. m] /\ IsChain(chain, m, us, step)
  <2> HIDE DEF Next
  <2>1. Folds(g, X, m, us, step)
    BY <1>1, <1>3, <1>6 DEF Folds
  <2> HIDE DEF Fold
  <2> QED
    BY <1>1, <1>2, <2>1, FoldSteps
<1>8. ASSUME NEW k \in 1 .. m PROVE chain[k] = Move(chain[k - 1], s[k])
  <2>1. chain[k] = step[<<chain[k - 1], k>>] /\ chain[k - 1] \in X
    BY <1>1, <1>7 DEF IsChain
  <2> HIDE DEF Move
  <2> QED
    BY <2>1 DEF step
<1> QED
  BY <1>1, <1>6, <1>7, <1>8 DEF X, m, IsChain, MovesInSteps

(* Between us and us2 the users of n have got an entry for each in s; only *)
(* the users of i have changed besides.                                    *)
Moves(I, us, us2, s, i, n) ==
  /\ \A d \in I \ {i} : \A x :
       Count(us2[d], x) = Count(us[d], x) + (IF d = n THEN Count(s, x) ELSE 0)
  /\ \A d \in I \ {i, n} : us2[d] = us[d]

(* That is what these steps do. *)
LEMMA StepsMove ==
  ASSUME NEW I, NEW J, NEW us \in Lists(I, J), NEW s \in Seq(J),
         NEW i \in I, NEW n \in I, i # n, NEW us2,
         NEW chain \in [0 .. Len(s) -> Lists(I, J)], MovesInSteps(chain, us, us2, s, i, n)
  PROVE  us2 \in Lists(I, J) /\ Moves(I, us, us2, s, i, n)
<1> DEFINE m == Len(s)
<1>2. /\ chain[0] = us /\ chain[m] = us2 /\ m \in Nat
      /\ \A k \in 1 .. m :
           chain[k] = AddUser(RemoveUser(chain[k - 1], i, s[k]), n, s[k])
  BY DEF MovesInSteps
<1> DEFINE P == {k \in 0 .. m :
                  /\ \A d \in I \ {i} : \A x :
                       Count(chain[k][d], x) =
                         Count(us[d], x) + (IF d = n THEN Upto(s, k, x) ELSE 0)
                  /\ \A d \in I \ {i, n} : chain[k][d] = us[d]}
<1>3. \A d \in I : \A x : Count(us[d], x) \in Nat
  <2>1. \A d \in I : us[d] \in Seq(J)
    BY DEF Lists
  <2> QED
    BY <2>1, CountUses
<1>4. 0 \in P
  <2>1. \A x : Upto(s, 0, x) = 0
    BY UptoStep
  <2>2. \A d \in I : \A x : Count(us[d], x) = Count(us[d], x) + 0
    BY <1>3
  <2>3. 0 \in 0 .. m
    BY <1>2
  <2> QED
    BY <1>2, <1>3, <2>1, <2>2, <2>3
<1>5. ASSUME NEW k \in 1 .. m, k - 1 \in P PROVE k \in P
  <2> DEFINE c == chain[k - 1]
             j == s[k]
             c1 == RemoveUser(c, i, j)
             c2 == AddUser(c1, n, j)
  <2>1. /\ c \in Lists(I, J) /\ j \in J /\ chain[k] = c2 /\ k \in 0 .. m
    BY <1>2
  <2>2. ASSUME NEW d \in I \ {i}, NEW x
        PROVE  Count(c[d], x) = Count(us[d], x) + (IF d = n THEN Upto(s, k - 1, x) ELSE 0)
    BY <1>5, <2>2
  <2>3. \A d \in I \ {i, n} : c[d] = us[d]
    BY <1>5
  <2>4. ASSUME NEW x
        PROVE  /\ Upto(s, k, x) = Upto(s, k - 1, x) + (IF j = x THEN 1 ELSE 0)
               /\ Upto(s, k - 1, x) \in Nat
    <3>1. k \in Nat /\ k # 0 /\ k - 1 \in Nat
      OBVIOUS
    <3> QED
      BY <3>1, UptoStep
  <2>5. c1 = [c EXCEPT ![i] = RemoveFirst(c[i], j)]
        /\ c2 = [c1 EXCEPT ![n] = Append(c1[n], j)]
    BY DEF RemoveUser, AddUser
  <2> HIDE DEF c, j
  <2>6. c1 \in Lists(I, J) /\ TakesEntry(I, c, c1, i, j)
    BY <2>1, RemoveUserCounts
  <2> HIDE DEF c1
  <2>7. c2 \in Lists(I, J) /\ AddsEntry(I, c1, c2, n, j)
    BY <2>1, <2>6, AddUserCounts
  <2> HIDE DEF c2
  <2>8. ASSUME NEW d \in I \ {i}, NEW x
        PROVE  Count(c2[d], x) = Count(us[d], x) + (IF d = n THEN Upto(s, k, x) ELSE 0)
    <3>1. Count(c1[d], x) = Count(c[d], x) - 0 /\ Count(c[d], x) \in Nat
      BY <2>6 DEF TakesEntry
    <3>2. Count(c2[d], x) = Count(c1[d], x) + (IF d = n /\ x = j THEN 1 ELSE 0)
      BY <2>7 DEF AddsEntry
    <3> QED
      BY <1>3, <2>2, <2>4, <3>1, <3>2
  <2>9. \A d \in I \ {i, n} : c2[d] = us[d]
    BY <2>1, <2>3, <2>5, <2>6, <2>7 DEF Lists
  <2> QED
    BY <2>1, <2>8, <2>9
<1> HIDE DEF P
<1>6. m \in P
  <2>1. m \in 0 .. m
    BY <1>2
  <2> HIDE DEF m
  <2> QED
    BY <1>2, <1>4, <1>5, <2>1, UpTo
<1> QED
  BY <1>2, <1>6 DEF P, Moves, Count

(* So does MoveUsers. *)
LEMMA MoveUsersMoves ==
  ASSUME NEW I, NEW J, NEW us \in Lists(I, J), NEW s \in Seq(J),
         NEW i \in I, NEW n \in I, i # n
  PROVE  /\ MoveUsers(us, s, i, n) \in Lists(I, J)
         /\ Moves(I, us, MoveUsers(us, s, i, n), s, i, n)
<1>1. PICK chain \in [0 .. Len(s) -> Lists(I, J)] :
        MovesInSteps(chain, us, MoveUsers(us, s, i, n), s, i, n)
  BY MoveUsersSteps
<1> QED
  BY <1>1, StepsMove
-----------------------------------------------------------------------------
(* Lists that an element is put into or taken out of.                      *)

(* A list stays one when more elements are allowed. *)
LEMMA ListsGrow ==
  ASSUME NEW S, NEW T, S \subseteq T
  PROVE  Seq(S) \subseteq Seq(T)
OBVIOUS

(* Inserting into a sequence moves the elements behind by one. *)
InsertionOf(e, m, s, t) ==
  /\ Len(t) = Len(s) + 1
  /\ \A j \in 1 .. m : t[j] = s[j]
  /\ t[m + 1] = e
  /\ \A j \in m + 1 .. Len(s) : t[j + 1] = s[j]

(* The elements of a sequence after an insertion, from the definition of   *)
(* InsertAt.                                                               *)
LEMMA InsertAtElements ==
  ASSUME NEW S, NEW s \in Seq(S), NEW m \in 0 .. Len(s), NEW e \in S
  PROVE  /\ InsertAt(s, m + 1, e) \in Seq(S)
         /\ InsertionOf(e, m, s, InsertAt(s, m + 1, e))
<1> DEFINE front == SubSeq(s, 1, m)
           back == SubSeq(s, m + 1, Len(s))
           upTo == front \o <<e>>
<1>1. Len(s) \in Nat /\ \A j \in 1 .. Len(s) : s[j] \in S
  OBVIOUS
<1>2. front \in Seq(S) /\ Len(front) = m /\ \A j \in 1 .. m : front[j] = s[j]
  BY <1>1, SubSeqProperties
<1>3. /\ back \in Seq(S) /\ Len(back) = Len(s) - m
      /\ \A j \in 1 .. Len(s) - m : back[j] = s[m + j]
  BY <1>1, SubSeqProperties
<1>4. <<e>> \in Seq(S) /\ Len(<<e>>) = 1 /\ <<e>>[1] = e
  OBVIOUS
<1>5. InsertAt(s, m + 1, e) = upTo \o back
  <2>1. (m + 1) - 1 = m
    BY <1>1
  <2> QED
    BY <2>1, Zenon DEF InsertAt
<1> HIDE DEF front, back
<1>6. /\ upTo \in Seq(S) /\ Len(upTo) = m + 1
      /\ \A j \in 1 .. m : upTo[j] = s[j]
      /\ upTo[m + 1] = e
  BY <1>1, <1>2, <1>4, ConcatProperties
<1> HIDE DEF upTo
<1> DEFINE t == upTo \o back
<1>7. /\ t \in Seq(S)
      /\ Len(t) = Len(upTo) + Len(back)
      /\ \A j \in 1 .. Len(upTo) + Len(back) :
           t[j] = IF j <= Len(upTo) THEN upTo[j] ELSE back[j - Len(upTo)]
  BY <1>3, <1>6, ConcatProperties
<1> HIDE DEF t
<1>8. ASSUME NEW j \in m + 1 .. Len(s)
      PROVE  t[j + 1] = s[j]
  <2>1. /\ j + 1 \in 1 .. Len(upTo) + Len(back) /\ ~(j + 1 <= Len(upTo))
        /\ (j + 1) - Len(upTo) \in 1 .. Len(s) - m
        /\ m + ((j + 1) - Len(upTo)) = j
    BY <1>1, <1>3, <1>6
  <2> QED
    BY <1>3, <1>7, <2>1
<1>9. Len(t) = Len(s) + 1 /\ (\A j \in 1 .. m : t[j] = s[j]) /\ t[m + 1] = e
  <2>1. ASSUME NEW j \in 1 .. m + 1
        PROVE  t[j] = upTo[j]
    <3>1. j \in 1 .. Len(upTo) + Len(back) /\ j <= Len(upTo)
      BY <1>1, <1>3, <1>6
    <3> QED
      BY <1>7, <3>1
  <2>2. Len(t) = Len(s) + 1
    BY <1>1, <1>3, <1>6, <1>7
  <2> QED
    BY <1>1, <1>6, <2>1, <2>2
<1>10. InsertionOf(e, m, s, t) /\ t \in Seq(S)
  BY <1>7, <1>8, <1>9, Zenon DEF InsertionOf
<1> QED
  BY <1>5, <1>10, Zenon DEF t

(* Removing from a sequence moves the elements behind by one. *)
RemovalOf(m, s, t) ==
  /\ Len(t) = Len(s) - 1
  /\ \A j \in 1 .. m - 1 : t[j] = s[j]
  /\ \A j \in m + 1 .. Len(s) : t[j - 1] = s[j]

(* The elements of a sequence after a removal, from the definition of      *)
(* RemoveAt.                                                               *)
LEMMA RemoveAtElements ==
  ASSUME NEW S, NEW s \in Seq(S), NEW m \in 1 .. Len(s)
  PROVE  /\ RemoveAt(s, m) \in Seq(S)
         /\ RemovalOf(m, s, RemoveAt(s, m))
<1> DEFINE front == SubSeq(s, 1, m - 1)
           back == SubSeq(s, m + 1, Len(s))
<1>1. Len(s) \in Nat /\ \A j \in 1 .. Len(s) : s[j] \in S
  OBVIOUS
<1>2. front \in Seq(S) /\ Len(front) = m - 1 /\ \A j \in 1 .. m - 1 : front[j] = s[j]
  BY <1>1, SubSeqProperties
<1>3. /\ back \in Seq(S) /\ Len(back) = Len(s) - m
      /\ \A j \in 1 .. Len(s) - m : back[j] = s[m + j]
  BY <1>1, SubSeqProperties
<1>4. RemoveAt(s, m) = front \o back
  BY DEF RemoveAt
<1> HIDE DEF front, back
<1> DEFINE t == front \o back
<1>5. /\ t \in Seq(S)
      /\ Len(t) = Len(front) + Len(back)
      /\ \A j \in 1 .. Len(front) + Len(back) :
           t[j] = IF j <= Len(front) THEN front[j] ELSE back[j - Len(front)]
  BY <1>2, <1>3, ConcatProperties
<1> HIDE DEF t
<1>6. Len(t) = Len(s) - 1 /\ \A j \in 1 .. m - 1 : t[j] = s[j]
  <2>1. Len(t) = Len(s) - 1
    BY <1>1, <1>2, <1>3, <1>5
  <2>2. ASSUME NEW j \in 1 .. m - 1
        PROVE  t[j] = s[j]
    <3>1. j \in 1 .. Len(front) + Len(back) /\ j <= Len(front)
      BY <1>1, <1>2, <1>3
    <3>2. front[j] = s[j]
      BY <1>2
    <3> QED
      BY <1>5, <3>1, <3>2
  <2> QED
    BY <2>1, <2>2
<1>7. ASSUME NEW j \in m + 1 .. Len(s)
      PROVE  t[j - 1] = s[j]
  <2>1. /\ j - 1 \in 1 .. Len(front) + Len(back) /\ ~(j - 1 <= Len(front))
        /\ (j - 1) - Len(front) \in 1 .. Len(s) - m
        /\ m + ((j - 1) - Len(front)) = j
    BY <1>1, <1>2, <1>3
  <2> QED
    BY <1>3, <1>5, <2>1
<1>8. RemovalOf(m, s, t) /\ t \in Seq(S)
  BY <1>5, <1>6, <1>7, Zenon DEF RemovalOf
<1> QED
  BY <1>4, <1>8, Zenon DEF t
-----------------------------------------------------------------------------
(* The order of a list. *)

(* No instruction is in a list twice. *)
Injective(s) == \A k, l \in 1 .. Len(s) : s[k] = s[l] => k = l

(* The instruction i stands somewhere in front of j. *)
InFront(s, i, j) == \E k, l \in 1 .. Len(s) : k < l /\ s[k] = i /\ s[l] = j

(* The next one behind i is j. *)
RightBehind(s, i, j) == \E k \in 1 .. Len(s) - 1 : s[k] = i /\ s[k + 1] = j

(* What two lists have in common stands in the same order. *)
SameOrder(s, t) ==
  \A a, b \in Uses(s) \cap Uses(t) : InFront(s, a, b) <=> InFront(t, a, b)

(* Neighbours stay neighbours. *)
SameNeighbours(s, t) ==
  \A a, b \in Uses(s) \cap Uses(t) : RightBehind(s, a, b) => RightBehind(t, a, b)

(* All but i and j do. *)
OtherNeighbours(s, t, i, j) ==
  \A a, b \in Uses(s) \cap Uses(t) :
    RightBehind(s, a, b) /\ ~(a = i /\ b = j) => RightBehind(t, a, b)

(* The order is strict and total. *)
LEMMA OrderIsStrict ==
  ASSUME NEW J, NEW s \in Seq(J), Injective(s)
  PROVE  /\ \A a, b : InFront(s, a, b) => ~InFront(s, b, a) /\ a # b
         /\ \A a, b, c : InFront(s, a, b) /\ InFront(s, b, c) => InFront(s, a, c)
         /\ \A a, b \in Uses(s) : a # b => InFront(s, a, b) \/ InFront(s, b, a)
         /\ \A a, b : RightBehind(s, a, b) => InFront(s, a, b)
         /\ \A a, b, c : RightBehind(s, a, b) /\ InFront(s, a, c) /\ c # b
                           => InFront(s, b, c)
         /\ \A a, b, c : RightBehind(s, a, b) /\ InFront(s, c, b) /\ c # a
                           => InFront(s, c, a)
<1>1. Len(s) \in Nat
  OBVIOUS
<1>2. \A a, b : InFront(s, a, b) => ~InFront(s, b, a) /\ a # b
  BY <1>1 DEF InFront, Injective
<1>3. \A a, b, c : InFront(s, a, b) /\ InFront(s, b, c) => InFront(s, a, c)
  <2> SUFFICES ASSUME NEW a, NEW b, NEW c, InFront(s, a, b), InFront(s, b, c)
               PROVE  InFront(s, a, c)
    OBVIOUS
  <2>1. PICK k, l \in 1 .. Len(s) : k < l /\ s[k] = a /\ s[l] = b
    BY DEF InFront
  <2>2. PICK k2, l2 \in 1 .. Len(s) : k2 < l2 /\ s[k2] = b /\ s[l2] = c
    BY DEF InFront
  <2>3. l = k2
    BY <2>1, <2>2 DEF Injective
  <2>4. k < l2
    BY <1>1, <2>1, <2>2, <2>3
  <2> QED
    BY <2>1, <2>2, <2>4 DEF InFront
<1>4. \A a, b \in Uses(s) : a # b => InFront(s, a, b) \/ InFront(s, b, a)
  <2> SUFFICES ASSUME NEW a \in Uses(s), NEW b \in Uses(s), a # b
               PROVE  InFront(s, a, b) \/ InFront(s, b, a)
    OBVIOUS
  <2>1. PICK k, l \in 1 .. Len(s) : s[k] = a /\ s[l] = b
    BY DEF Uses
  <2>2. k < l \/ l < k
    BY <1>1, <2>1
  <2> QED
    BY <2>1, <2>2 DEF InFront
<1>5. \A a, b : RightBehind(s, a, b) => InFront(s, a, b)
  <2>1. \A k \in 1 .. Len(s) - 1 : k \in 1 .. Len(s) /\ k + 1 \in 1 .. Len(s) /\ k < k + 1
    BY <1>1
  <2> QED
    BY <2>1 DEF RightBehind, InFront
<1>6. ASSUME NEW a, NEW b, NEW c, RightBehind(s, a, b), InFront(s, a, c), c # b
      PROVE  InFront(s, b, c)
  <2>1. PICK k \in 1 .. Len(s) - 1 : s[k] = a /\ s[k + 1] = b
    BY <1>6 DEF RightBehind
  <2>2. PICK k2, l2 \in 1 .. Len(s) : k2 < l2 /\ s[k2] = a /\ s[l2] = c
    BY <1>6 DEF InFront
  <2>3. k2 = k /\ k + 1 \in 1 .. Len(s)
    BY <1>1, <2>1, <2>2 DEF Injective
  <2>4. l2 # k + 1
    BY <1>6, <2>1, <2>2
  <2>5. k + 1 < l2
    BY <1>1, <2>2, <2>3, <2>4
  <2> QED
    BY <2>1, <2>2, <2>3, <2>5 DEF InFront
<1>7. ASSUME NEW a, NEW b, NEW c, RightBehind(s, a, b), InFront(s, c, b), c # a
      PROVE  InFront(s, c, a)
  <2>1. PICK k \in 1 .. Len(s) - 1 : s[k] = a /\ s[k + 1] = b
    BY <1>7 DEF RightBehind
  <2>2. PICK k2, l2 \in 1 .. Len(s) : k2 < l2 /\ s[k2] = c /\ s[l2] = b
    BY <1>7 DEF InFront
  <2>3. k + 1 \in 1 .. Len(s) /\ k \in 1 .. Len(s)
    BY <1>1
  <2>4. l2 = k + 1 /\ k2 # k
    BY <1>7, <2>1, <2>2, <2>3 DEF Injective
  <2>5. k2 < k
    BY <1>1, <2>2, <2>4
  <2> QED
    BY <2>1, <2>2, <2>3, <2>5 DEF InFront
<1> QED
  BY <1>2, <1>3, <1>4, <1>5, <1>6, <1>7

(* An element that takes the place of another. *)
LEMMA ReplacedInOrder ==
  ASSUME NEW J, NEW s \in Seq(J), Injective(s), NEW p \in 1 .. Len(s),
         NEW e \in J, e \notin Uses(s)
  PROVE  /\ ReplaceAt(s, p, e) \in Seq(J) /\ Injective(ReplaceAt(s, p, e))
         /\ Uses(ReplaceAt(s, p, e)) = (Uses(s) \ {s[p]}) \cup {e}
         /\ SameOrder(s, ReplaceAt(s, p, e))
<1> DEFINE t == ReplaceAt(s, p, e)
<1>1. /\ t \in Seq(J) /\ Len(t) = Len(s) /\ Len(s) \in Nat
      /\ \A k \in 1 .. Len(s) : t[k] = IF k = p THEN e ELSE s[k]
  BY DEF ReplaceAt
<1> HIDE DEF t
<1>2. \A k \in 1 .. Len(s) : s[k] # e /\ (s[k] = s[p] => k = p)
  BY DEF Uses, Injective
<1>3. Injective(t)
  BY <1>1, <1>2 DEF Injective
<1>4. Uses(t) = (Uses(s) \ {s[p]}) \cup {e}
  BY <1>1, <1>2 DEF Uses
<1>5. SameOrder(s, t)
  <2>1. \A k \in 1 .. Len(s) : \A a \in Uses(s) \cap Uses(t) : s[k] = a <=> t[k] = a
    BY <1>1, <1>2, <1>4
  <2> QED
    BY <1>1, <2>1 DEF SameOrder, InFront
<1> QED
  BY <1>1, <1>3, <1>4, <1>5 DEF t

(* An element that goes. *)
LEMMA RemovedInOrder ==
  ASSUME NEW J, NEW s \in Seq(J), Injective(s), NEW p \in 1 .. Len(s)
  PROVE  /\ RemoveAt(s, p) \in Seq(J) /\ Injective(RemoveAt(s, p))
         /\ Uses(RemoveAt(s, p)) = Uses(s) \ {s[p]}
         /\ SameOrder(s, RemoveAt(s, p))
         /\ SameNeighbours(s, RemoveAt(s, p))
<1> DEFINE t == RemoveAt(s, p)
           New(k) == IF k < p THEN k ELSE k - 1
           Old(k) == IF k < p THEN k ELSE k + 1
<1>1. t \in Seq(J) /\ RemovalOf(p, s, t)
  BY RemoveAtElements
<1> HIDE DEF t
<1>2. Len(s) \in Nat /\ Len(t) = Len(s) - 1
  BY <1>1 DEF RemovalOf
<1>3. \A k \in 1 .. Len(t) : /\ Old(k) \in 1 .. Len(s) /\ Old(k) # p
                             /\ t[k] = s[Old(k)]
  <2>1. \A k \in 1 .. Len(t) : k < p => k \in 1 .. p - 1 /\ k \in 1 .. Len(s)
    BY <1>2
  <2>2. \A k \in 1 .. Len(t) : ~(k < p) => k + 1 \in p + 1 .. Len(s) /\ (k + 1) - 1 = k
    BY <1>2
  <2>3. \A k \in p + 1 .. Len(s) : k \in 1 .. Len(s) /\ k # p
    BY <1>2
  <2> QED
    BY <1>1, <2>1, <2>2, <2>3 DEF RemovalOf
<1>4. \A k \in 1 .. Len(s) : k # p => New(k) \in 1 .. Len(t) /\ t[New(k)] = s[k]
  <2>1. \A k \in 1 .. Len(s) : k # p /\ ~(k < p) => k \in p + 1 .. Len(s)
    BY <1>2
  <2>2. \A k \in 1 .. Len(s) : k < p => k \in 1 .. p - 1 /\ k \in 1 .. Len(t)
    BY <1>2
  <2>3. \A k \in p + 1 .. Len(s) : k - 1 \in 1 .. Len(t) /\ ~(k < p)
    BY <1>2
  <2> QED
    BY <1>1, <2>1, <2>2, <2>3 DEF RemovalOf
<1>5. \A k \in 1 .. Len(s) : s[k] = s[p] => k = p
  BY DEF Injective
<1>6. Injective(t)
  <2>1. \A k, l \in 1 .. Len(t) : Old(k) = Old(l) => k = l
    BY <1>2
  <2> HIDE DEF Old
  <2> QED
    BY <1>3, <2>1 DEF Injective
<1>7. Uses(t) = Uses(s) \ {s[p]}
  <2> HIDE DEF Old, New
  <2>1. \A k \in 1 .. Len(t) : t[k] \in Uses(s) /\ t[k] # s[p]
    BY <1>3, <1>5 DEF Uses
  <2>2. \A k \in 1 .. Len(s) : s[k] # s[p] => s[k] \in Uses(t)
    BY <1>4 DEF Uses
  <2> QED
    BY <2>1, <2>2 DEF Uses
<1>8. SameOrder(s, t)
  <2>1. \A k, l \in 1 .. Len(t) : k < l => Old(k) < Old(l)
    BY <1>2
  <2>2. \A k, l \in 1 .. Len(s) : k # p /\ l # p /\ k < l => New(k) < New(l)
    BY <1>2
  <2> HIDE DEF Old, New
  <2>3. ASSUME NEW a \in Uses(t), NEW b \in Uses(t), InFront(s, a, b)
        PROVE  InFront(t, a, b)
    BY <1>4, <1>7, <2>2, <2>3 DEF InFront
  <2>4. ASSUME NEW a \in Uses(t), NEW b \in Uses(t), InFront(t, a, b)
        PROVE  InFront(s, a, b)
    BY <1>3, <2>1, <2>4 DEF InFront
  <2> QED
    BY <2>3, <2>4 DEF SameOrder
<1>9. SameNeighbours(s, t)
  <2>1. ASSUME NEW k \in 1 .. Len(s) - 1, s[k] \in Uses(t), s[k + 1] \in Uses(t)
        PROVE  \E l \in 1 .. Len(t) - 1 : t[l] = s[k] /\ t[l + 1] = s[k + 1]
    <3>1. k \in 1 .. Len(s) /\ k + 1 \in 1 .. Len(s) /\ k # p /\ k + 1 # p
      BY <1>2, <1>7, <2>1
    <3>2. New(k + 1) = New(k) + 1
      BY <1>2, <3>1
    <3>3. /\ New(k) \in 1 .. Len(t) /\ t[New(k)] = s[k]
          /\ New(k + 1) \in 1 .. Len(t) /\ t[New(k + 1)] = s[k + 1]
      BY <1>4, <3>1
    <3>4. New(k) \in 1 .. Len(t) - 1
      <4> HIDE DEF New
      <4> QED
        BY <1>2, <3>2, <3>3
    <3> QED
      BY <3>2, <3>3, <3>4
  <2> QED
    BY <2>1 DEF SameNeighbours, RightBehind
<1> QED
  BY <1>1, <1>6, <1>7, <1>8, <1>9 DEF t

(* A new element between two others, at the front or at the end. *)
LEMMA InsertedInOrder ==
  ASSUME NEW J, NEW s \in Seq(J), Injective(s), NEW p \in 0 .. Len(s),
         NEW e \in J, e \notin Uses(s)
  PROVE  /\ InsertAt(s, p + 1, e) \in Seq(J) /\ Injective(InsertAt(s, p + 1, e))
         /\ Uses(InsertAt(s, p + 1, e)) = Uses(s) \cup {e}
         /\ SameOrder(s, InsertAt(s, p + 1, e))
         /\ OtherNeighbours(s, InsertAt(s, p + 1, e), s[p], s[p + 1])
         /\ p # 0 => RightBehind(InsertAt(s, p + 1, e), s[p], e)
         /\ p # Len(s) => RightBehind(InsertAt(s, p + 1, e), e, s[p + 1])
<1> DEFINE t == InsertAt(s, p + 1, e)
           New(k) == IF k <= p THEN k ELSE k + 1
<1>1. Len(s) \in Nat /\ p \in 0 .. Len(s)
  OBVIOUS
<1>2. t \in Seq(J) /\ InsertionOf(e, p, s, t)
  BY <1>1, InsertAtElements
<1> HIDE DEF t
<1>3. Len(t) = Len(s) + 1 /\ t[p + 1] = e /\ p + 1 \in 1 .. Len(t)
  BY <1>1, <1>2 DEF InsertionOf
<1>4. \A k \in 1 .. Len(s) : New(k) \in 1 .. Len(t) /\ t[New(k)] = s[k] /\ New(k) # p + 1
  <2>1. \A k \in 1 .. Len(s) : k <= p => k \in 1 .. p /\ k \in 1 .. Len(t) /\ k # p + 1
    BY <1>3
  <2>2. \A k \in 1 .. Len(s) : ~(k <= p) => /\ k \in p + 1 .. Len(s)
                                            /\ k + 1 \in 1 .. Len(t) /\ k + 1 # p + 1
    BY <1>3
  <2> QED
    BY <1>2, <2>1, <2>2 DEF InsertionOf
<1>5. \A l \in 1 .. Len(t) : l # p + 1 => \E k \in 1 .. Len(s) : l = New(k)
  <2> SUFFICES ASSUME NEW l \in 1 .. Len(t), l # p + 1
               PROVE  \E k \in 1 .. Len(s) : l = New(k)
    OBVIOUS
  <2>1. CASE l <= p
    <3>1. l \in 1 .. Len(s) /\ l = New(l)
      BY <1>1, <2>1
    <3> QED
      BY <3>1
  <2>2. CASE ~(l <= p)
    <3>1. l - 1 \in 1 .. Len(s) /\ l = New(l - 1)
      BY <1>1, <1>3, <2>2
    <3> QED
      BY <3>1
  <2> QED
    BY <2>1, <2>2
<1>6. \A k, l \in 1 .. Len(s) : k < l <=> New(k) < New(l)
  BY <1>1
<1>7. \A k \in 1 .. Len(s) : s[k] # e
  BY DEF Uses
<1>8. \A l \in 1 .. Len(t) :
        l = p + 1 \/ \E k \in 1 .. Len(s) : l = New(k) /\ t[l] = s[k] /\ t[l] # e
  <2> HIDE DEF New
  <2> QED
    BY <1>4, <1>5, <1>7
<1>9. Injective(t) /\ Uses(t) = Uses(s) \cup {e}
  <2> HIDE DEF New
  <2>1. Injective(t)
    <3> SUFFICES ASSUME NEW l \in 1 .. Len(t), NEW m \in 1 .. Len(t), t[l] = t[m]
                 PROVE  l = m
      BY DEF Injective
    <3>1. CASE l = p + 1 \/ m = p + 1
      BY <1>3, <1>8, <3>1
    <3>2. CASE l # p + 1 /\ m # p + 1
      <4>1. PICK k \in 1 .. Len(s) : l = New(k) /\ t[l] = s[k]
        BY <1>8, <3>2
      <4>2. PICK k2 \in 1 .. Len(s) : m = New(k2) /\ t[m] = s[k2]
        BY <1>8, <3>2
      <4> QED
        BY <4>1, <4>2 DEF Injective
    <3> QED
      BY <3>1, <3>2
  <2>2. \A l \in 1 .. Len(t) : t[l] \in Uses(s) \cup {e}
    BY <1>3, <1>8 DEF Uses
  <2>3. \A k \in 1 .. Len(s) : s[k] \in Uses(t)
    BY <1>4 DEF Uses
  <2>4. e \in Uses(t)
    BY <1>3 DEF Uses
  <2> QED
    BY <2>1, <2>2, <2>3, <2>4 DEF Uses
<1>10. SameOrder(s, t)
  <2> HIDE DEF New
  <2>1. ASSUME NEW a \in Uses(s), NEW b \in Uses(s), InFront(s, a, b)
        PROVE  InFront(t, a, b)
    BY <1>4, <1>6, <2>1 DEF InFront
  <2>2. ASSUME NEW a \in Uses(s), NEW b \in Uses(s), InFront(t, a, b)
        PROVE  InFront(s, a, b)
    <3>1. PICK k, l \in 1 .. Len(t) : k < l /\ t[k] = a /\ t[l] = b
      BY <2>2 DEF InFront
    <3>2. a # e /\ b # e
      BY <1>7 DEF Uses
    <3>3. PICK k2, l2 \in 1 .. Len(s) : k = New(k2) /\ l = New(l2)
      BY <1>3, <1>5, <3>1, <3>2
    <3> QED
      BY <1>4, <1>6, <3>1, <3>3 DEF InFront
  <2> QED
    BY <2>1, <2>2 DEF SameOrder
<1>11. OtherNeighbours(s, t, s[p], s[p + 1])
  <2>1. ASSUME NEW k \in 1 .. Len(s) - 1, ~(s[k] = s[p] /\ s[k + 1] = s[p + 1])
        PROVE  \E l \in 1 .. Len(t) - 1 : t[l] = s[k] /\ t[l + 1] = s[k + 1]
    <3>1. k \in 1 .. Len(s) /\ k + 1 \in 1 .. Len(s) /\ k # p
      BY <1>1, <2>1
    <3>2. New(k + 1) = New(k) + 1
      BY <1>1, <3>1
    <3>3. New(k) \in 1 .. Len(t) - 1
      BY <1>1, <1>3
    <3> HIDE DEF New
    <3> QED
      BY <1>4, <3>1, <3>2, <3>3
  <2> QED
    BY <2>1 DEF OtherNeighbours, RightBehind
<1>12. p # 0 => RightBehind(t, s[p], e)
  <2> SUFFICES ASSUME p # 0 PROVE RightBehind(t, s[p], e)
    OBVIOUS
  <2>1. p \in 1 .. Len(t) - 1 /\ t[p] = s[p]
    BY <1>1, <1>2, <1>3 DEF InsertionOf
  <2> QED
    BY <1>3, <2>1 DEF RightBehind
<1>13. p # Len(s) => RightBehind(t, e, s[p + 1])
  <2> SUFFICES ASSUME p # Len(s) PROVE RightBehind(t, e, s[p + 1])
    OBVIOUS
  <2>1. p + 1 \in 1 .. Len(t) - 1 /\ p + 1 \in p + 1 .. Len(s)
    BY <1>1, <1>3
  <2>2. t[(p + 1) + 1] = s[p + 1]
    BY <1>2, <2>1 DEF InsertionOf
  <2> QED
    BY <1>3, <2>1, <2>2 DEF RightBehind
<1> QED
  BY <1>2, <1>9, <1>10, <1>11, <1>12, <1>13 DEF t

(* An element takes the place of another by being put in front of it, and  *)
(* the other being taken out.                                              *)
LEMMA ReplaceByInsertAndRemove ==
  ASSUME NEW J, NEW s \in Seq(J), NEW p \in 1 .. Len(s), NEW e \in J
  PROVE  ReplaceAt(s, p, e) = RemoveAt(InsertAt(s, p, e), p + 1)
<1> DEFINE t == InsertAt(s, p, e)
           r == RemoveAt(t, p + 1)
           q == ReplaceAt(s, p, e)
<1>1. p - 1 \in 0 .. Len(s) /\ (p - 1) + 1 = p /\ Len(s) \in Nat
  OBVIOUS
<1>2. t \in Seq(J) /\ InsertionOf(e, p - 1, s, t)
  BY <1>1, InsertAtElements
<1> HIDE DEF t
<1>3. p + 1 \in 1 .. Len(t) /\ Len(t) = Len(s) + 1
  BY <1>1, <1>2 DEF InsertionOf
<1>4. r \in Seq(J) /\ RemovalOf(p + 1, t, r)
  BY <1>2, <1>3, RemoveAtElements
<1> HIDE DEF r
<1>5. /\ q \in Seq(J) /\ Len(q) = Len(s)
      /\ \A k \in 1 .. Len(s) : q[k] = IF k = p THEN e ELSE s[k]
  BY DEF ReplaceAt
<1> HIDE DEF q
<1>6. Len(r) = Len(s)
  BY <1>1, <1>3, <1>4 DEF RemovalOf
<1>7. ASSUME NEW k \in 1 .. Len(s) PROVE r[k] = q[k]
  <2>1. CASE k < p
    <3>1. k \in 1 .. p - 1 /\ k \in 1 .. (p + 1) - 1 /\ k # p
      BY <1>1, <2>1
    <3> QED
      BY <1>2, <1>4, <1>5, <3>1 DEF InsertionOf, RemovalOf
  <2>2. CASE k = p
    <3>1. k \in 1 .. (p + 1) - 1 /\ k = (p - 1) + 1
      BY <1>1, <2>2
    <3> QED
      BY <1>2, <1>4, <1>5, <2>2, <3>1 DEF InsertionOf, RemovalOf
  <2>3. CASE k > p
    <3>1. /\ k + 1 \in (p + 1) + 1 .. Len(t) /\ k \in (p - 1) + 1 .. Len(s)
          /\ (k + 1) - 1 = k /\ k # p
      BY <1>1, <1>3, <2>3
    <3> QED
      BY <1>2, <1>4, <1>5, <3>1 DEF InsertionOf, RemovalOf
  <2> QED
    BY <1>1, <2>1, <2>2, <2>3
<1>8. r = q
  BY <1>4, <1>5, <1>6, <1>7
<1> QED
  BY <1>8 DEF r, q, t

(* A new element at the end. *)
LEMMA AppendedInOrder ==
  ASSUME NEW J, NEW s \in Seq(J), Injective(s), NEW e \in J, e \notin Uses(s)
  PROVE  /\ Append(s, e) \in Seq(J) /\ Injective(Append(s, e))
         /\ Uses(Append(s, e)) = Uses(s) \cup {e}
         /\ SameOrder(s, Append(s, e))
         /\ SameNeighbours(s, Append(s, e))
         /\ \A a \in Uses(s) : InFront(Append(s, e), a, e)
<1> DEFINE t == Append(s, e)
<1>1. /\ t \in Seq(J) /\ Len(t) = Len(s) + 1 /\ Len(s) \in Nat
      /\ \A k \in 1 .. Len(s) : t[k] = s[k]
      /\ t[Len(s) + 1] = e
  OBVIOUS
<1> HIDE DEF t
<1>2. \A k \in 1 .. Len(t) : k \in 1 .. Len(s) \/ k = Len(s) + 1
  BY <1>1
<1>3. \A k \in 1 .. Len(s) : s[k] # e /\ k \in 1 .. Len(t)
  BY <1>1 DEF Uses
<1>4. Injective(t)
  BY <1>1, <1>2, <1>3 DEF Injective
<1>5. Uses(t) = Uses(s) \cup {e}
  BY <1>1, <1>2, <1>3 DEF Uses
<1>6. SameOrder(s, t)
  BY <1>1, <1>2, <1>3 DEF SameOrder, InFront, Uses
<1>7. SameNeighbours(s, t)
  <2>1. \A k \in 1 .. Len(s) - 1 :
          k \in 1 .. Len(s) /\ k + 1 \in 1 .. Len(s) /\ k \in 1 .. Len(t) - 1
    BY <1>1
  <2> QED
    BY <1>1, <2>1 DEF SameNeighbours, RightBehind
<1>8. \A a \in Uses(s) : InFront(t, a, e)
  <2>1. \A k \in 1 .. Len(s) : k < Len(s) + 1
    BY <1>1
  <2>2. Len(s) + 1 \in 1 .. Len(t)
    BY <1>1
  <2> QED
    BY <1>1, <1>3, <2>1, <2>2 DEF InFront, Uses
<1> QED
  BY <1>1, <1>4, <1>5, <1>6, <1>7, <1>8 DEF t

-----------------------------------------------------------------------------
(* What is in a list. *)
IsList(s) == s \in Seq(Uses(s))

(* A sequence is one. *)
LEMMA SequenceIsList ==
  ASSUME NEW S, NEW s \in Seq(S)
  PROVE  IsList(s) /\ Len(s) \in Nat /\ DOMAIN s = 1 .. Len(s)
<1>1. \A k \in 1 .. Len(s) : s[k] \in Uses(s)
  BY DEF Uses
<1>2. s \in Seq(Uses(s))
  BY <1>1
<1> QED
  BY <1>2 DEF IsList

(* A list with one more element. *)
LEMMA LongerList ==
  ASSUME NEW s, IsList(s), NEW e
  PROVE  /\ IsList(Append(s, e)) /\ Len(s) \in Nat /\ Len(Append(s, e)) = Len(s) + 1
         /\ \A k \in 1 .. Len(s) : Append(s, e)[k] = s[k]
         /\ Append(s, e)[Len(s) + 1] = e
<1> DEFINE S == Uses(s) \cup {e}
<1>1. s \in Seq(Uses(s)) /\ Len(s) \in Nat
  BY DEF IsList
<1>2. s \in Seq(S)
  <2>1. \A k \in 1 .. Len(s) : s[k] \in S
    BY DEF Uses
  <2> HIDE DEF S
  <2> QED
    BY <1>1, <2>1
<1> HIDE DEF S
<1>3. e \in S
  BY DEF S
<1> DEFINE t == Append(s, e)
<1>4. /\ t \in Seq(S) /\ Len(t) = Len(s) + 1
      /\ \A k \in 1 .. Len(s) : t[k] = s[k]
      /\ t[Len(s) + 1] = e
  BY <1>2, <1>3
<1> HIDE DEF t
<1>5. \A k \in 1 .. Len(t) : t[k] \in Uses(t)
  BY DEF Uses
<1>6. t \in Seq(Uses(t))
  BY <1>4, <1>5
<1> QED
  BY <1>1, <1>4, <1>6 DEF t, IsList

(* An element has one place in a list, and places are in the order of what *)
(* is there.                                                               *)
LEMMA PlacesInList ==
  ASSUME NEW J, NEW s \in Seq(J), Injective(s), NEW i \in Uses(s), NEW j \in Uses(s),
         NEW k, k = CHOOSE m \in 1 .. Len(s) : s[m] = i,
         NEW l, l = CHOOSE m \in 1 .. Len(s) : s[m] = j
  PROVE  /\ k \in 1 .. Len(s) /\ s[k] = i
         /\ k < l <=> InFront(s, i, j)
         /\ k <= l => i = j \/ InFront(s, i, j)
<1>1. (\E m \in 1 .. Len(s) : s[m] = i) /\ (\E m \in 1 .. Len(s) : s[m] = j)
  BY DEF Uses
<1>2. k \in 1 .. Len(s) /\ s[k] = i
  BY <1>1, Zenon
<1>3. l \in 1 .. Len(s) /\ s[l] = j
  BY <1>1, Zenon
<1>4. \A m \in 1 .. Len(s) : (s[m] = i => m = k) /\ (s[m] = j => m = l)
  BY <1>2, <1>3 DEF Injective
<1>5. k < l <=> InFront(s, i, j)
  BY <1>2, <1>3, <1>4 DEF InFront
<1>6. k <= l => k = l \/ k < l
  BY <1>2, <1>3
<1> QED
  BY <1>2, <1>3, <1>5, <1>6

(* The elements of a list of two. *)
LEMMA TwoInputs ==
  ASSUME NEW J, NEW s \in Seq(J), Len(s) = 2
  PROVE  /\ s[1] \in J /\ s[2] \in J /\ Uses(s) = {s[1], s[2]} /\ s = <<s[1], s[2]>>
         /\ \A x : Count(s, x) = (IF s[1] = x THEN 1 ELSE 0) + (IF s[2] = x THEN 1 ELSE 0)
<1>1. s[1] \in J /\ s[2] \in J /\ s = <<s[1], s[2]>>
  OBVIOUS
<1>2. Uses(s) = {s[1], s[2]}
  <2>1. 1 .. Len(s) = {1, 2}
    OBVIOUS
  <2> QED
    BY <2>1 DEF Uses
<1>3. ASSUME NEW x
      PROVE  Count(s, x) = (IF s[1] = x THEN 1 ELSE 0) + (IF s[2] = x THEN 1 ELSE 0)
  <2>1. /\ Upto(s, 0, x) = 0 /\ 1 \in Nat /\ 2 \in Nat /\ 1 - 1 = 0 /\ 2 - 1 = 1
        /\ 1 # 0 /\ 2 # 0
    <3>1. 0 \in Nat
      OBVIOUS
    <3> QED
      BY <3>1, UptoStep
  <2>2. Upto(s, 1, x) = Upto(s, 0, x) + (IF s[1] = x THEN 1 ELSE 0)
    BY <2>1, UptoStep
  <2>3. Upto(s, 2, x) = Upto(s, 1, x) + (IF s[2] = x THEN 1 ELSE 0)
    BY <2>1, UptoStep
  <2> QED
    BY <2>1, <2>2, <2>3 DEF Count
<1> QED
  BY <1>1, <1>2, <1>3

(* Replacing elements changes no length. *)
LEMMA ReplaceAllLen ==
  ASSUME NEW J, NEW s \in Seq(J), NEW o, NEW n \in J
  PROVE  ReplaceAll(s, o, n) \in Seq(J) /\ Len(ReplaceAll(s, o, n)) = Len(s)
<1>1. ReplaceAll(s, o, n) = [k \in 1 .. Len(s) |-> IF s[k] = o THEN n ELSE s[k]]
  BY DEF ReplaceAll
<1>2. \A k \in 1 .. Len(s) : (IF s[k] = o THEN n ELSE s[k]) \in J
  OBVIOUS
<1> QED
  BY <1>1, <1>2

(* ReplaceInputsForUsers goes user by user, with lists of users all along. *)
ReplacesInSteps(chain, g, us2, s, i, n) ==
  /\ chain[0] = g.users /\ chain[Len(s)] = us2
  /\ \A k \in 1 .. Len(s) :
       chain[k] = IF i \in Uses(g.inputs[s[k]])
                    THEN AddUser(RemoveUser(chain[k - 1], i, s[k]), n, s[k])
                    ELSE chain[k - 1]

(* An entry that is there once is at one position. *)
LEMMA OnlyPlace ==
  ASSUME NEW J, NEW s \in Seq(J), NEW x, Count(s, x) = 1,
         NEW k \in 1 .. Len(s), NEW l \in 1 .. Len(s), s[k] = x, s[l] = x
  PROVE  k = l
<1> DEFINE K == Positions(s, Len(s), x)
<1>1. IsFiniteSet(K) /\ Cardinality(K) = 1
  <2>1. Len(s) \in Nat
    OBVIOUS
  <2> QED
    BY <2>1, UptoStep DEF Count, Upto
<1>2. {k, l} \subseteq K
  BY DEF Positions
<1>3. SUFFICES ASSUME k # l PROVE FALSE
  OBVIOUS
<1>4. Cardinality({k, l}) = 2
  <2>1. IsFiniteSet({l}) /\ Cardinality({l}) = 1
    BY FS_Singleton
  <2>2. Cardinality({l} \cup {k}) = Cardinality({l}) + 1
    BY <1>3, <2>1, FS_AddElement
  <2>3. {l} \cup {k} = {k, l}
    OBVIOUS
  <2>4. Cardinality({k, l}) = 1 + 1
    BY <2>1, <2>2, <2>3
  <2> QED
    BY <2>4
<1>5. Cardinality({k, l}) <= Cardinality(K)
  BY <1>1, <1>2, FS_Subset
<1> QED
  BY <1>1, <1>4, <1>5

(* The number that comes next. *)
IsNext(A, n) == \E m \in Nat : A = 1 .. m /\ n = m + 1

(* One more list: f, and s for n. *)
OneAdded(A, n, f, s, t) ==
  /\ t \in Lists(A \cup {n}, A \cup {n}) /\ t[n] = s
  /\ \A i \in A : t[i] = f[i]

(* Append adds it. *)
LEMMA OneListMore ==
  ASSUME NEW A, NEW n, IsNext(A, n), NEW f \in Lists(A, A \cup {n}),
         NEW s \in Seq(A \cup {n})
  PROVE  OneAdded(A, n, f, s, Append(f, s))
<1> DEFINE B == A \cup {n}
<1>0. PICK m \in Nat : A = 1 .. m /\ n = m + 1
  BY DEF IsNext
<1>1. IsList(f) /\ Len(f) = m
  <2>1. f \in Seq(Seq(B)) /\ Len(f) = m
    BY <1>0 DEF Lists
  <2> QED
    BY <2>1, SequenceIsList
<1>2. B = 1 .. n
  BY <1>0
<1> DEFINE t == Append(f, s)
<1>3. IsList(t) /\ Len(t) = n /\ t[n] = s /\ \A i \in A : t[i] = f[i]
  BY <1>0, <1>1, LongerList
<1> HIDE DEF t
<1>4. t = [i \in B |-> t[i]]
  BY <1>2, <1>3 DEF IsList
<1>5. \A i \in B : t[i] \in Seq(B)
  BY <1>3 DEF Lists
<1>6. t \in Lists(B, B)
  BY <1>4, <1>5 DEF Lists
<1> QED
  BY <1>3, <1>6 DEF t, OneAdded

(* The new instruction n is a user of s, and that is all. *)
NewUser(A, us, us2, n, s) ==
  \A d \in A : /\ \A i : i # n => Count(us2[d], i) = Count(us[d], i)
               /\ Count(us2[d], n) <= Count(s, d)
               /\ d \in Uses(s) => Count(us2[d], n) # 0

(* It has entered them. *)
LEMMA EntersAsNew ==
  ASSUME NEW A, NEW n, n \notin A, NEW us \in Lists(A, A), NEW us2, NEW s \in Seq(A),
         Enters(A, us, us2, s, n)
  PROVE  NewUser(A, us, us2, n, s)
<1> SUFFICES ASSUME NEW d \in A
             PROVE  /\ \A i : i # n => Count(us2[d], i) = Count(us[d], i)
                    /\ Count(us2[d], n) <= Count(s, d)
                    /\ d \in Uses(s) => Count(us2[d], n) # 0
  BY DEF NewUser
<1>1. us[d] \in Seq(A)
  BY DEF Lists
<1>2. Count(us[d], n) = 0 /\ Count(s, d) \in Nat
  BY <1>1, CountUses, UsesTyped
<1>3. /\ \A x : x # n => Count(us2[d], x) = Count(us[d], x)
      /\ Count(us2[d], n) <= Count(us[d], n) + Count(s, d)
      /\ d \in Uses(s) => Count(us2[d], n) # 0
  BY DEF Enters
<1> QED
  BY <1>2, <1>3

(* What has no inputs enters no users. *)
LEMMA NothingUsed ==
  ASSUME NEW A, NEW n, n \notin A, NEW us \in Lists(A, A)
  PROVE  /\ us \in Lists(A, A \cup {n}) /\ NewUser(A, us, us, n, <<>>)
         /\ \A d \in A : Count(us[d], n) <= 1
<1>1. Uses(<<>>) = {} /\ \A d : Count(<<>>, d) = 0
  BY UptoStep DEF Uses, Count
<1>2. ASSUME NEW d \in A PROVE Count(us[d], n) = 0
  <2>1. us[d] \in Seq(A)
    BY DEF Lists
  <2> QED
    BY <2>1, CountUses, UsesTyped
<1>3. Seq(A) \subseteq Seq(A \cup {n})
  BY ListsGrow
<1> QED
  BY <1>1, <1>2, <1>3 DEF NewUser, Lists

(* A list with something new behind its element p. *)
LEMMA DistanceBehind ==
  ASSUME NEW A, NEW cd \in Seq(A), Injective(cd), NEW p \in 1 .. Len(cd),
         NEW n, n \notin A
  PROVE  /\ Uses(InsertAt(cd, p + 1, n)) = Uses(cd) \cup {n}
         /\ SameOrder(cd, InsertAt(cd, p + 1, n))
         /\ ~InFront(InsertAt(cd, p + 1, n), n, cd[p])
<1> DEFINE B == A \cup {n}
           cd2 == InsertAt(cd, p + 1, n)
<1>1. cd \in Seq(B) /\ n \in B /\ n \notin Uses(cd) /\ p \in 0 .. Len(cd) /\ p # 0
  <2>1. Seq(A) \subseteq Seq(B)
    BY ListsGrow
  <2>2. Uses(cd) \subseteq A
    BY UsesTyped
  <2> QED
    BY <2>1, <2>2
<1>2. /\ cd2 \in Seq(B) /\ Injective(cd2) /\ Uses(cd2) = Uses(cd) \cup {n}
      /\ SameOrder(cd, cd2) /\ RightBehind(cd2, cd[p], n)
  BY <1>1, InsertedInOrder
<1> HIDE DEF cd2
<1>3. ~InFront(cd2, n, cd[p])
  BY <1>2, OrderIsStrict
<1> QED
  BY <1>2, <1>3 DEF cd2

(* Inputs are exchanged for such of the same meaning that weigh no more. *)
Exchanged(A, mn, w, inp, inp2) ==
  \A u \in A :
    /\ Len(inp2[u]) = Len(inp[u])
    /\ \A k \in 1 .. Len(inp[u]) :
         mn[inp2[u][k]] = mn[inp[u][k]] /\ w[inp2[u][k]] <= w[inp[u][k]]

(* Exchanges in sequence are an exchange. *)
LEMMA ExchangedTwice ==
  ASSUME NEW A, NEW mn, NEW w \in [A -> Nat], NEW inp \in Lists(A, A),
         NEW inp2 \in Lists(A, A), NEW inp3 \in Lists(A, A),
         Exchanged(A, mn, w, inp, inp2), Exchanged(A, mn, w, inp2, inp3)
  PROVE  Exchanged(A, mn, w, inp, inp3)
<1> SUFFICES ASSUME NEW u \in A
             PROVE  /\ Len(inp3[u]) = Len(inp[u])
                    /\ \A k \in 1 .. Len(inp[u]) :
                         mn[inp3[u][k]] = mn[inp[u][k]] /\ w[inp3[u][k]] <= w[inp[u][k]]
  BY DEF Exchanged
<1>1. /\ Len(inp2[u]) = Len(inp[u]) /\ Len(inp3[u]) = Len(inp2[u])
      /\ \A k \in 1 .. Len(inp[u]) :
           mn[inp2[u][k]] = mn[inp[u][k]] /\ w[inp2[u][k]] <= w[inp[u][k]]
      /\ \A k \in 1 .. Len(inp2[u]) :
           mn[inp3[u][k]] = mn[inp2[u][k]] /\ w[inp3[u][k]] <= w[inp2[u][k]]
  BY DEF Exchanged
<1>2. ASSUME NEW k \in 1 .. Len(inp[u])
      PROVE  mn[inp3[u][k]] = mn[inp[u][k]] /\ w[inp3[u][k]] <= w[inp[u][k]]
  <2>1. inp[u] \in Seq(A) /\ inp2[u] \in Seq(A) /\ inp3[u] \in Seq(A)
    BY DEF Lists
  <2>2. w[inp[u][k]] \in Nat /\ w[inp2[u][k]] \in Nat /\ w[inp3[u][k]] \in Nat
    BY <1>1, <2>1
  <2> QED
    BY <1>1, <2>2
<1> QED
  BY <1>1, <1>2

(* What is replaced by an instruction of its meaning is exchanged. *)
LEMMA ReplacedExchanged ==
  ASSUME NEW A, NEW mn, NEW w \in [A -> Nat], NEW c \in A, NEW x \in A,
         mn[x] = mn[c], w[x] <= w[c], NEW inp \in Lists(A, A), NEW inp2,
         \A u \in A : inp2[u] = inp[u] \/ inp2[u] = ReplaceAll(inp[u], c, x)
  PROVE  Exchanged(A, mn, w, inp, inp2)
<1> SUFFICES ASSUME NEW u \in A
             PROVE  /\ Len(inp2[u]) = Len(inp[u])
                    /\ \A k \in 1 .. Len(inp[u]) :
                         mn[inp2[u][k]] = mn[inp[u][k]] /\ w[inp2[u][k]] <= w[inp[u][k]]
  BY DEF Exchanged
<1>1. inp[u] \in Seq(A)
  BY DEF Lists
<1>2. CASE inp2[u] = inp[u]
  <2>1. \A k \in 1 .. Len(inp[u]) : w[inp[u][k]] \in Nat
    BY <1>1
  <2> QED
    BY <1>2, <2>1
<1>3. CASE inp2[u] = ReplaceAll(inp[u], c, x)
  <2>1. inp2[u] = [k \in 1 .. Len(inp[u]) |-> IF inp[u][k] = c THEN x ELSE inp[u][k]]
    BY <1>3 DEF ReplaceAll
  <2>2. Len(inp2[u]) = Len(inp[u])
    BY <1>1, <1>3, ReplaceAllLen
  <2>3. ASSUME NEW k \in 1 .. Len(inp[u])
        PROVE  mn[inp2[u][k]] = mn[inp[u][k]] /\ w[inp2[u][k]] <= w[inp[u][k]]
    <3>1. inp2[u][k] = (IF inp[u][k] = c THEN x ELSE inp[u][k]) /\ w[inp[u][k]] \in Nat
      BY <1>1, <2>1
    <3> QED
      BY <3>1
  <2> QED
    BY <2>2, <2>3
<1> QED
  BY <1>2, <1>3

(* One more element of a list. *)
Longer(A, n, S, f, v, g) ==
  g \in [A \cup {n} -> S] /\ g[n] = v /\ \A i \in A : g[i] = f[i]

(* Appending makes it longer. *)
LEMMA OneMoreOf ==
  ASSUME NEW A, NEW n, IsNext(A, n), NEW S, NEW f \in [A -> S], NEW v \in S
  PROVE  Longer(A, n, S, f, v, Append(f, v))
<1>0. PICK m \in Nat : A = 1 .. m /\ n = m + 1
  BY DEF IsNext
<1>1. IsList(f) /\ Len(f) = m
  <2>1. f \in Seq(S) /\ Len(f) = m
    BY <1>0
  <2> QED
    BY <2>1, SequenceIsList
<1> DEFINE g == Append(f, v)
<1>3. IsList(g) /\ Len(g) = n /\ g[n] = v /\ \A i \in A : g[i] = f[i]
  BY <1>0, <1>1, LongerList
<1> HIDE DEF g
<1>4. A \cup {n} = 1 .. n
  BY <1>0
<1>5. g = [i \in A \cup {n} |-> g[i]]
  BY <1>3, <1>4 DEF IsList
<1>6. \A i \in A \cup {n} : g[i] \in S
  BY <1>3
<1> QED
  BY <1>3, <1>5, <1>6 DEF g, Longer

-----------------------------------------------------------------------------
(* Arithmetic.  2^n is how many sets there are of n elements: with one     *)
(* element more, there are twice as many.                                  *)
LEMMA SubsetsDouble ==
  ASSUME NEW S, IsFiniteSet(S), NEW x, x \notin S
  PROVE  /\ IsFiniteSet(SUBSET S) /\ Cardinality(SUBSET S) \in Nat \ {0}
         /\ Cardinality(SUBSET (S \cup {x})) = Cardinality(SUBSET S) + Cardinality(SUBSET S)
<1> DEFINE With == {T \in SUBSET (S \cup {x}) : x \in T}
           f == [T \in SUBSET S |-> T \cup {x}]
<1>1. IsFiniteSet(SUBSET S) /\ Cardinality(SUBSET S) \in Nat
  BY FS_SUBSET, FS_CardinalityType
<1>2. Cardinality(SUBSET S) # 0
  <2>1. {} \in SUBSET S
    OBVIOUS
  <2> QED
    BY <1>1, <2>1, FS_EmptySet
<1>3. f \in Injection(SUBSET S, With)
  <2>1. f \in [SUBSET S -> With]
    OBVIOUS
  <2>2. \A T, U \in SUBSET S : f[T] = f[U] => T = U
    <3> SUFFICES ASSUME NEW T \in SUBSET S, NEW U \in SUBSET S, f[T] = f[U] PROVE T = U
      OBVIOUS
    <3>1. T \cup {x} = U \cup {x}
      OBVIOUS
    <3> QED
      BY <3>1
  <2> QED
    BY <2>1, <2>2 DEF Injection, IsInjective
<1>4. f \in Surjection(SUBSET S, With)
  <2>1. ASSUME NEW T \in With PROVE \E U \in SUBSET S : f[U] = T
    <3>1. T \ {x} \in SUBSET S /\ (T \ {x}) \cup {x} = T
      OBVIOUS
    <3>2. f[T \ {x}] = T
      BY <3>1
    <3> QED
      BY <3>1, <3>2
  <2>2. f \in [SUBSET S -> With]
    OBVIOUS
  <2> QED
    BY <2>1, <2>2 DEF Surjection
<1> HIDE DEF f
<1>5. ExistsBijection(SUBSET S, With)
  BY <1>3, <1>4 DEF ExistsBijection, Bijection
<1>6. IsFiniteSet(With) /\ Cardinality(With) = Cardinality(SUBSET S)
  BY <1>1, <1>5, FS_Bijection
<1>7. SUBSET (S \cup {x}) = (SUBSET S) \cup With /\ (SUBSET S) \cap With = {}
  OBVIOUS
<1> HIDE DEF With
<1>8. Cardinality((SUBSET S) \cap With) = 0
  BY <1>7, FS_EmptySet
<1>9. Cardinality((SUBSET S) \cup With) =
        Cardinality(SUBSET S) + Cardinality(With) - Cardinality((SUBSET S) \cap With)
  BY <1>1, <1>6, FS_Union
<1>10. Cardinality((SUBSET S) \cup With) = Cardinality(SUBSET S) + Cardinality(SUBSET S)
  <2> DEFINE n == Cardinality(SUBSET S)
             m == Cardinality((SUBSET S) \cup With)
  <2>1. m = n + n - 0 /\ n \in Nat
    BY <1>1, <1>6, <1>8, <1>9
  <2> HIDE DEF n, m
  <2>2. m = n + n
    BY <2>1
  <2> QED
    BY <2>2 DEF n, m
<1> QED
  BY <1>1, <1>2, <1>7, <1>10, Zenon

(* So the powers of two double. *)
LEMMA PowersDouble ==
  ASSUME NEW n \in Nat
  PROVE  2^n \in Nat \ {0} /\ 2^(n + 1) = 2 * 2^n /\ 2^0 = 1
<1>1. /\ IsFiniteSet(1 .. n) /\ Cardinality(1 .. n) = n
      /\ IsFiniteSet(1 .. n + 1) /\ Cardinality(1 .. n + 1) = n + 1
  BY FS_Interval
<1>2. 1 .. n + 1 = (1 .. n) \cup {n + 1} /\ n + 1 \notin 1 .. n
  OBVIOUS
<1>3. /\ Cardinality(SUBSET (1 .. n)) \in Nat \ {0}
      /\ Cardinality(SUBSET (1 .. n + 1)) =
           Cardinality(SUBSET (1 .. n)) + Cardinality(SUBSET (1 .. n))
  BY <1>1, <1>2, SubsetsDouble
<1>4. Cardinality(SUBSET (1 .. n)) = 2^n /\ Cardinality(SUBSET (1 .. n + 1)) = 2^(n + 1)
  BY <1>1, FS_SUBSET
<1>5. 2^n \in Nat \ {0} /\ 2^(n + 1) = 2^n + 2^n
  BY <1>3, <1>4
<1>6. 2^0 = 1
  OBVIOUS
<1>7. \A p \in Nat : p + p = 2 * p
  OBVIOUS
<1> QED
  BY <1>5, <1>6, <1>7, Zenon

(* The power of a sum. *)
LEMMA PowersAdd ==
  ASSUME NEW m \in Nat, NEW n \in Nat
  PROVE  m + n \in Nat /\ 2^(m + n) = 2^m * 2^n
<1> DEFINE P == {k \in 0 .. n : 2^(m + k) = 2^m * 2^k}
<1>1. 0 \in P
  <2>1. m + 0 = m /\ 2^m \in Nat /\ 2^0 = 1
    BY PowersDouble
  <2> QED
    BY <2>1
<1>2. ASSUME NEW k \in 1 .. n, k - 1 \in P PROVE k \in P
  <2> DEFINE j == k - 1
  <2>1. j \in Nat /\ j + 1 = k /\ m + j \in Nat /\ (m + j) + 1 = m + k /\ k \in 0 .. n
    OBVIOUS
  <2>2. 2^(m + j) = 2^m * 2^j
    BY <1>2
  <2> HIDE DEF j
  <2>3. 2^((m + j) + 1) = 2 * 2^(m + j) /\ 2^(j + 1) = 2 * 2^j
    BY <2>1, PowersDouble
  <2>4. 2^m \in Nat /\ 2^j \in Nat
    BY <2>1, PowersDouble
  <2>5. \A a, b \in Nat : 2 * (a * b) = a * (2 * b)
    OBVIOUS
  <2>6. 2^(m + k) = 2 * (2^m * 2^j) /\ 2^k = 2 * 2^j
    BY <2>1, <2>2, <2>3
  <2>7. 2^(m + k) = 2^m * 2^k
    BY <2>4, <2>5, <2>6, Zenon
  <2> QED
    BY <2>1, <2>7
<1> HIDE DEF P
<1>3. n \in P
  BY <1>1, <1>2, UpTo
<1> QED
  BY <1>3 DEF P

(* The greater power is a multiple of the smaller one. *)
LEMMA PowersDivide ==
  ASSUME NEW n \in Nat, NEW m \in 0 .. n
  PROVE  /\ 2^m \in Nat \ {0} /\ 2^n \in Nat \ {0} /\ 2^(n - m) \in Nat \ {0}
         /\ 2^n = 2^m * 2^(n - m) /\ 2^m <= 2^n
         /\ m < n => 2 * 2^m <= 2^n
<1>1. n - m \in Nat /\ m + (n - m) = n /\ m \in Nat
  OBVIOUS
<1>2. 2^n = 2^m * 2^(n - m)
  <2>1. 2^(m + (n - m)) = 2^m * 2^(n - m)
    BY <1>1, PowersAdd
  <2> QED
    BY <1>1, <2>1
<1>3. 2^m \in Nat \ {0} /\ 2^n \in Nat \ {0} /\ 2^(n - m) \in Nat \ {0}
  BY <1>1, PowersDouble
<1>4. \A a, b \in Nat \ {0} : a <= a * b
  OBVIOUS
<1>5. ASSUME m < n PROVE 2 * 2^m <= 2^n
  <2> DEFINE j == n - m - 1
  <2>1. j \in Nat /\ j + 1 = n - m
    BY <1>5
  <2> HIDE DEF j
  <2>2. 2^(j + 1) = 2 * 2^j /\ 2^j \in Nat \ {0}
    BY <2>1, PowersDouble
  <2>3. \A a, b \in Nat \ {0} : 2 * a <= a * (2 * b)
    OBVIOUS
  <2>4. 2^n = 2^m * (2 * 2^j)
    BY <1>2, <2>1, <2>2
  <2> QED
    BY <1>3, <2>2, <2>3, <2>4, Zenon
<1>6. 2^m <= 2^n
  BY <1>2, <1>3, <1>4, Zenon
<1> QED
  BY <1>2, <1>3, <1>5, <1>6
(* Quotients and rests, by what makes them so. *)
LEMMA DivisionIs ==
  ASSUME NEW a \in Int, NEW m \in Nat \ {0}
  PROVE  /\ a \div m \in Int /\ a % m \in 0 .. m - 1 /\ a = m * (a \div m) + (a % m)
         /\ a \in 0 .. m - 1 => a \div m = 0 /\ a % m = a
OBVIOUS

(* Nothing else is a quotient and a rest. *)
LEMMA DivisionOnly ==
  ASSUME NEW a \in Int, NEW m \in Nat \ {0}, NEW q \in Int, NEW r \in 0 .. m - 1,
         a = m * q + r
  PROVE  q = a \div m /\ r = a % m
OBVIOUS

(* Division by m and then by n is division by p, and takes its rest apart. *)
DividesTwice(a, m, n, p) ==
  /\ p \in Nat \ {0} /\ (a \div m) \div n = a \div p
  /\ (a % p) % m = a % m /\ (a % p) \div m = (a \div m) % n

(* That is so if p is the product. *)
LEMMA DivisionTwice ==
  ASSUME NEW a \in Int, NEW m \in Nat \ {0}, NEW n \in Nat \ {0}, NEW p, p = m * n
  PROVE  DividesTwice(a, m, n, p)
<1> DEFINE q == a \div m
           r == a % m
           u == q \div n
           s == q % n
           x == m * s + r
<1>1. q \in Int /\ r \in 0 .. m - 1 /\ a = m * q + r
  BY DivisionIs
<1>2. u \in Int /\ s \in 0 .. n - 1 /\ q = n * u + s
  BY <1>1, DivisionIs
<1> HIDE DEF q, r, u, s
<1>3. p \in Nat \ {0} /\ x \in Int
  BY <1>1, <1>2
<1>4. a = p * u + x
  <2>1. m \in Int /\ n \in Int /\ u \in Int /\ s \in Int /\ r \in Int
    BY <1>1, <1>2
  <2>2. a = m * (n * u + s) + r
    BY <1>1, <1>2
  <2>3. m * (n * u + s) = (m * n) * u + m * s
    BY <2>1
  <2> QED
    BY <1>3, <2>1, <2>2, <2>3
<1>5. x \in 0 .. p - 1
  <2>1. m * s \in Nat /\ m * s + m <= m * n
    <3>1. s + 1 <= n /\ s \in Nat
      BY <1>2
    <3>2. \A e, f, g \in Nat : f + 1 <= g => e * f \in Nat /\ e * f + e <= e * g
      OBVIOUS
    <3> QED
      BY <3>1, <3>2
  <2> QED
    BY <1>1, <1>3, <2>1
<1>6. s \in Int /\ x = m * s + r
  BY <1>2
<1> HIDE DEF x
<1>7. u = a \div p /\ x = a % p
  BY <1>2, <1>3, <1>4, <1>5, DivisionOnly
<1>8. s = x \div m /\ r = x % m
  BY <1>1, <1>3, <1>6, DivisionOnly
<1> QED
  BY <1>3, <1>7, <1>8 DEF q, r, u, s, DividesTwice

(* The rest of a product is that of the product of the rests. *)
LEMMA RestOfProduct ==
  ASSUME NEW a \in Int, NEW b \in Int, NEW m \in Nat \ {0}
  PROVE  (a * b) % m = ((a % m) * (b % m)) % m /\ (a % m) % m = a % m
<1> DEFINE x == a \div m
           y == b \div m
           c == a % m
           d == b % m
<1>1. /\ x \in Int /\ c \in 0 .. m - 1 /\ a = m * x + c
      /\ y \in Int /\ d \in 0 .. m - 1 /\ b = m * y + d
  BY DivisionIs
<1> HIDE DEF x, y, c, d
<1> DEFINE e == c * d
           q == e \div m
           r == e % m
           z == x * (m * y + d) + c * y
<1>2. e \in Int /\ z \in Int
  BY <1>1
<1>3. q \in Int /\ r \in 0 .. m - 1 /\ e = m * q + r
  <2> HIDE DEF e
  <2> QED
    BY <1>2, DivisionIs
<1>4. a * b = m * z + e
  BY <1>1
<1> DEFINE ab == a * b
<1>5. ab \in Int /\ ab = m * z + e
  BY <1>4
<1> HIDE DEF e, q, r, z, ab
<1>6. ab = m * (z + q) + r /\ z + q \in Int
  BY <1>2, <1>3, <1>5
<1>7. r = ab % m
  BY <1>3, <1>5, <1>6, DivisionOnly
<1>8. c % m = c
  BY <1>1, DivisionIs
<1> QED
  BY <1>7, <1>8 DEF e, r, ab, c, d
=============================================================================
