------------------------ MODULE DominatorTreeProofs ------------------------
(***************************************************************************)
(* Proofs about DominatorTree.tla, for every graph: Build finds what each  *)
(* block dominates and its immediate dominator, gives its markers back,    *)
(* and fails only on a graph with blocks that cannot be reached or when    *)
(* the marker indexes are used up.                                         *)
(*                                                                         *)
(* Build is composed of the marker manager, RPO and DFS, and so is the     *)
(* proof: the invariants of their modules are instanced here (MP and TP)  *)
(* and hold at the places of Build where each of them is at work.          *)
(***************************************************************************)
EXTENDS DominatorTree, SequenceTheorems, FiniteSetTheorems, WellFoundedInduction, TLAPS

MP == INSTANCE MarkersProofs
TP == INSTANCE TraversalProofs
        WITH INITIAL_MARKS <- Marks, INITIAL_MARKERS <- AllMarkers

-----------------------------------------------------------------------------
(* Dominance as DominatorTree.tla defines it, by the simple paths of a     *)
(* graph: how it relates to what can be reached with a block taken out,    *)
(* which is what Build computes, and that the dominators of a block are    *)
(* ordered.                                                                *)

IsGraph == succs \in [Blocks -> Seq(Blocks)]

Dominates(d, b) == <<d, b>> \in Dominance

(* Every set of naturals has a least element: the intervals up to its      *)
(* members are finite sets, and the subset order of those is well founded. *)
LEMMA LeastElement ==
  ASSUME NEW K \in SUBSET Nat, K # {}
  PROVE  \E k \in K : \A m \in K : k <= m
<1> DEFINE T == {0 .. k : k \in K}
<1>1. \A k \in Nat : IsFiniteSet(0 .. k)
  <2> TAKE k \in Nat
  <2>1. 0 \in Int /\ k \in Int
    OBVIOUS
  <2> QED
    BY <2>1, FS_Interval, Zenon
<1>2. T \subseteq FiniteSubsetsOf(Nat) /\ T # {}
  <2>1. ASSUME NEW k \in K PROVE 0 .. k \in FiniteSubsetsOf(Nat)
    BY <1>1 DEF FiniteSubsetsOf
  <2> QED
    BY <2>1
<1>3. IsWellFoundedOn(StrictSubsetOrdering(Nat), FiniteSubsetsOf(Nat))
  BY FS_StrictSubsetOrderingWellFounded
<1>4. PICK I \in T : \A J \in T : <<J, I>> \notin StrictSubsetOrdering(Nat)
  <2> HIDE DEF T
  <2> QED
    BY <1>2, <1>3, WFMin
<1>5. PICK k \in K : I = 0 .. k
  OBVIOUS
<1>6. ASSUME NEW m \in K, m < k PROVE FALSE
  <2>1. 0 .. m \in T /\ 0 .. m \subseteq 0 .. k /\ k \notin 0 .. m /\ k \in 0 .. k
    BY <1>6
  <2>2. <<0 .. m, 0 .. k>> \in StrictSubsetOrdering(Nat)
    BY <2>1, 0 .. m \subseteq Nat, 0 .. k \subseteq Nat DEF StrictSubsetOrdering
  <2> QED
    BY <2>1, <2>2, <1>4, <1>5
<1> QED
  BY <1>6
-----------------------------------------------------------------------------
(* A path of SimplePaths is a sequence of different blocks along edges     *)
(* from the start block; the bound on its length says nothing more.        *)
LEMMA PathShape ==
  ASSUME NEW p
  PROVE  p \in SimplePaths <=>
           /\ p \in Seq(Blocks) /\ p # <<>>
           /\ p[1] = Start
           /\ \A i \in 1 .. Len(p) - 1 : p[i + 1] \in SuccSet(succs, p[i])
           /\ \A i, j \in 1 .. Len(p) : p[i] = p[j] => i = j
<1>1. Cardinality(Blocks) \in Nat
  BY DominatorTreeAssumption, FS_CardinalityType
<1>2. ASSUME NEW n \in 1 .. Cardinality(Blocks), p \in [1 .. n -> Blocks]
      PROVE  p \in Seq(Blocks) /\ p # <<>>
  <2>1. n \in Nat /\ n # 0
    BY <1>1
  <2>2. p \in Seq(Blocks) /\ Len(p) = n
    BY <2>1, <1>2
  <2> QED
    BY <2>1, <2>2
<1>3. ASSUME p \in Seq(Blocks), p # <<>>,
             \A i, j \in 1 .. Len(p) : p[i] = p[j] => i = j
      PROVE  \E n \in 1 .. Cardinality(Blocks) : p \in [1 .. n -> Blocks]
  <2>1. Len(p) \in Nat \ {0} /\ p \in [1 .. Len(p) -> Blocks]
    BY <1>3
  <2>2. p \in Injection(1 .. Len(p), Blocks)
    BY <1>3, <2>1 DEF Injection, IsInjective
  <2>3. Cardinality(1 .. Len(p)) <= Cardinality(Blocks)
    BY <2>2, DominatorTreeAssumption, FS_Injection
  <2>4. Cardinality(1 .. Len(p)) = Len(p)
    <3>1. 1 \in Int /\ Len(p) \in Int /\ ~ 1 > Len(p)
      BY <2>1
    <3>2. Cardinality(1 .. Len(p)) = IF 1 > Len(p) THEN 0 ELSE Len(p) - 1 + 1
      BY <3>1, FS_Interval, Zenon
    <3> QED
      BY <3>1, <3>2, <2>1
  <2>5. Len(p) \in 1 .. Cardinality(Blocks)
    BY <1>1, <2>1, <2>3, <2>4
  <2> QED
    BY <2>1, <2>5
<1> QED
  BY <1>2, <1>3 DEF SimplePaths
-----------------------------------------------------------------------------
(* The end of a path can be reached from every block on it without         *)
(* entering what the rest of the path avoids.                              *)
LEMMA EndIsReachable ==
  ASSUME IsGraph, NEW p \in Seq(Blocks), NEW i \in 1 .. Len(p), NEW avoid,
         \A k \in 1 .. Len(p) - 1 : p[k + 1] \in SuccSet(succs, p[k]),
         \A k \in 1 .. Len(p) : i < k => p[k] \notin avoid
  PROVE  p[Len(p)] \in ReachableAvoiding(succs, p[i], avoid)
<1>1. Len(p) \in Nat /\ i \in Nat /\ Len(p) \in 1 .. Len(p) /\ p[Len(p)] \in Blocks
  OBVIOUS
<1>2. ASSUME NEW S \in SUBSET Blocks, p[i] \in S, ClosedAvoiding(succs, avoid, S),
             p[Len(p)] \notin S
      PROVE  FALSE
  <2> DEFINE K == {k \in 1 .. Len(p) : i <= k /\ p[k] \notin S}
  <2>1. K \in SUBSET Nat /\ K # {}
    BY <1>1, <1>2
  <2>2. PICK k \in K : \A m \in K : k <= m
    <3> HIDE DEF K
    <3> QED
      BY <2>1, LeastElement
  <2>3. k \in 1 .. Len(p) /\ i < k /\ p[k] \notin S
    BY <1>1, <1>2
  <2>4. k - 1 \in 1 .. Len(p) - 1 /\ k - 1 \notin K /\ (k - 1) + 1 = k
    BY <1>1, <2>2, <2>3
  <2>5. p[k - 1] \in S /\ p[k] \in SuccSet(succs, p[k - 1])
    BY <1>1, <2>3, <2>4
  <2> QED
    BY <1>2, <2>3, <2>5 DEF ClosedAvoiding
<1> QED
  BY <1>1, <1>2 DEF ReachableAvoiding

(* What can be reached from a block that can be reached can be reached. *)
LEMMA ReachableTransitive ==
  ASSUME IsGraph, NEW avoid, NEW a \in Blocks,
         NEW c \in ReachableAvoiding(succs, a, avoid),
         NEW b \in ReachableAvoiding(succs, c, avoid)
  PROVE  b \in ReachableAvoiding(succs, a, avoid)
<1>1. ASSUME NEW S \in SUBSET Blocks, a \in S, ClosedAvoiding(succs, avoid, S)
      PROVE  b \in S
  BY <1>1 DEF ReachableAvoiding
<1> QED
  BY <1>1 DEF ReachableAvoiding

(* The path that is one block long. *)
LEMMA StartPath == <<Start>> \in SimplePaths
<1> DEFINE p == <<Start>>
<1>1. p \in Seq(Blocks) /\ p # <<>> /\ Len(p) = 1 /\ p[1] = Start
  BY StartAssumption
<1> HIDE DEF p
<1>2. \A i \in 1 .. Len(p) - 1 : p[i + 1] \in SuccSet(succs, p[i])
  BY <1>1
<1>3. \A i, j \in 1 .. Len(p) : p[i] = p[j] => i = j
  BY <1>1
<1>4. p \in SimplePaths
  BY <1>1, <1>2, <1>3, PathShape
<1> QED
  BY <1>4 DEF p

(* A path up to a block on it is a path. *)
LEMMA PathPrefix ==
  ASSUME NEW p \in SimplePaths, NEW i \in 1 .. Len(p)
  PROVE  /\ SubSeq(p, 1, i) \in SimplePaths
         /\ Len(SubSeq(p, 1, i)) = i
         /\ \A k \in 1 .. i : SubSeq(p, 1, i)[k] = p[k]
<1> DEFINE q == SubSeq(p, 1, i)
<1>1. /\ p \in Seq(Blocks) /\ p[1] = Start
      /\ \A k \in 1 .. Len(p) - 1 : p[k + 1] \in SuccSet(succs, p[k])
      /\ \A k, m \in 1 .. Len(p) : p[k] = p[m] => k = m
  BY PathShape
<1>2. Len(p) \in Nat /\ i \in Nat \ {0} /\ i <= Len(p)
  BY <1>1
<1>3. q \in Seq(Blocks) /\ Len(q) = i /\ \A k \in 1 .. i : q[k] = p[k]
  BY <1>1, <1>2
<1>4. q # <<>> /\ q[1] = Start
  BY <1>1, <1>2, <1>3
<1>5. \A k \in 1 .. Len(q) - 1 : q[k + 1] \in SuccSet(succs, q[k])
  <2> TAKE k \in 1 .. Len(q) - 1
  <2>1. k \in 1 .. i /\ k + 1 \in 1 .. i /\ k \in 1 .. Len(p) - 1
    BY <1>2, <1>3
  <2> QED
    BY <1>1, <1>3, <2>1
<1>6. \A k, m \in 1 .. Len(q) : q[k] = q[m] => k = m
  BY <1>1, <1>2, <1>3
<1> QED
  BY <1>3, <1>4, <1>5, <1>6, PathShape

(* A path goes on along an edge to a block that is not on it. *)
LEMMA PathExtends ==
  ASSUME IsGraph, NEW p \in SimplePaths, NEW c \in SuccSet(succs, p[Len(p)]),
         \A k \in 1 .. Len(p) : p[k] # c
  PROVE  /\ Append(p, c) \in SimplePaths
         /\ Len(Append(p, c)) = Len(p) + 1
         /\ Append(p, c)[Len(p) + 1] = c
         /\ \A k \in 1 .. Len(p) : Append(p, c)[k] = p[k]
<1> DEFINE q == Append(p, c)
<1>1. /\ p \in Seq(Blocks) /\ p # <<>> /\ p[1] = Start
      /\ \A k \in 1 .. Len(p) - 1 : p[k + 1] \in SuccSet(succs, p[k])
      /\ \A k, m \in 1 .. Len(p) : p[k] = p[m] => k = m
  BY PathShape
<1>2. Len(p) \in Nat \ {0} /\ p[Len(p)] \in Blocks
  BY <1>1
<1>3. c \in Blocks
  BY <1>2 DEF IsGraph, SuccSet
<1>4. /\ q \in Seq(Blocks) /\ Len(q) = Len(p) + 1 /\ q[Len(p) + 1] = c
      /\ \A k \in 1 .. Len(p) : q[k] = p[k]
  BY <1>1, <1>3
<1> HIDE DEF q
<1>5. q # <<>> /\ q[1] = Start
  BY <1>1, <1>2, <1>4
<1>6. \A k \in 1 .. Len(q) - 1 : q[k + 1] \in SuccSet(succs, q[k])
  <2> TAKE k \in 1 .. Len(q) - 1
  <2>1. CASE k = Len(p)
    BY <2>1, <1>2, <1>4
  <2>2. CASE k # Len(p)
    <3>1. k \in 1 .. Len(p) - 1 /\ k \in 1 .. Len(p) /\ k + 1 \in 1 .. Len(p)
      BY <2>2, <1>2, <1>4
    <3> QED
      BY <3>1, <1>1, <1>4
  <2> QED
    BY <2>1, <2>2
<1>7. \A k, m \in 1 .. Len(q) : q[k] = q[m] => k = m
  BY <1>1, <1>2, <1>4
<1>8. q \in SimplePaths
  BY <1>4, <1>5, <1>6, <1>7, PathShape
<1> QED
  BY <1>4, <1>8 DEF q

(* A simple path leads to everything that can be reached, and but for its  *)
(* origin it stays out of what is avoided.                                 *)
LEMMA PathToReachable ==
  ASSUME IsGraph, NEW avoid, NEW b \in ReachableAvoiding(succs, Start, avoid)
  PROVE  \E p \in SimplePaths :
           p[Len(p)] = b /\ \A k \in 2 .. Len(p) : p[k] \notin avoid
<1> DEFINE Leads(p, c) == p[Len(p)] = c /\ \A k \in 2 .. Len(p) : p[k] \notin avoid
           S == {c \in Blocks : \E p \in SimplePaths : Leads(p, c)}
<1>1. Start \in S
  <2>1. Leads(<<Start>>, Start)
    OBVIOUS
  <2> HIDE DEF Leads
  <2> QED
    BY <2>1, StartPath, StartAssumption
<1>2. ClosedAvoiding(succs, avoid, S)
  <2> SUFFICES ASSUME NEW d \in S, NEW c \in SuccSet(succs, d), c \notin avoid
               PROVE  c \in S
    BY DEF ClosedAvoiding
  <2>1. PICK p \in SimplePaths : Leads(p, d)
    OBVIOUS
  <2>2. c \in Blocks
    BY DEF IsGraph, SuccSet
  <2>3. Len(p) \in Nat \ {0}
    BY PathShape
  <2>4. CASE \E i \in 1 .. Len(p) : p[i] = c
    <3>1. PICK i \in 1 .. Len(p) : p[i] = c
      BY <2>4
    <3> DEFINE q == SubSeq(p, 1, i)
    <3>2. q \in SimplePaths /\ Len(q) = i /\ \A k \in 1 .. i : q[k] = p[k]
      BY PathPrefix
    <3> HIDE DEF q
    <3>3. Leads(q, c)
      BY <2>1, <2>3, <3>1, <3>2
    <3> HIDE DEF Leads
    <3> QED
      BY <2>2, <3>2, <3>3
  <2>5. CASE \A i \in 1 .. Len(p) : p[i] # c
    <3> DEFINE q == Append(p, c)
    <3>1. /\ q \in SimplePaths /\ Len(q) = Len(p) + 1 /\ q[Len(p) + 1] = c
          /\ \A k \in 1 .. Len(p) : q[k] = p[k]
      BY <2>1, <2>5, PathExtends
    <3> HIDE DEF q
    <3>2. Leads(q, c)
      BY <2>1, <2>3, <3>1
    <3> HIDE DEF Leads
    <3> QED
      BY <2>2, <3>1, <3>2
  <2> QED
    BY <2>4, <2>5
<1>3. b \in S
  BY <1>1, <1>2 DEF ReachableAvoiding
<1> QED
  BY <1>3
-----------------------------------------------------------------------------
(* Dominance spelled out. *)
LEMMA DominatesOnPaths ==
  ASSUME NEW d \in Blocks, NEW b \in Blocks
  PROVE  Dominates(d, b) <=>
           \A p \in SimplePaths : p[Len(p)] = b => \E i \in 1 .. Len(p) : p[i] = d
<1>1. <<d, b>> \in Blocks \X Blocks /\ <<d, b>>[1] = d /\ <<d, b>>[2] = b
  OBVIOUS
<1> QED
  BY <1>1 DEF Dominates, Dominance

(* A block other than the start block dominates what cannot be reached     *)
(* once it is taken out, itself included.                                  *)
LEMMA DominatesUnreachable ==
  ASSUME IsGraph, NEW d \in Blocks \ {Start}, NEW b \in Blocks
  PROVE  Dominates(d, b) <=> b \notin ReachableAvoiding(succs, Start, {d})
<1>1. ASSUME NEW p \in SimplePaths, p[Len(p)] = b, \A i \in 1 .. Len(p) : p[i] # d
      PROVE  b \in ReachableAvoiding(succs, Start, {d})
  <2>1. /\ p \in Seq(Blocks) /\ p # <<>> /\ p[1] = Start
        /\ \A k \in 1 .. Len(p) - 1 : p[k + 1] \in SuccSet(succs, p[k])
    BY PathShape
  <2>2. 1 \in 1 .. Len(p) /\ \A k \in 1 .. Len(p) : 1 < k => p[k] \notin {d}
    BY <1>1, <2>1
  <2> QED
    BY <1>1, <2>1, <2>2, EndIsReachable
<1>2. ASSUME b \in ReachableAvoiding(succs, Start, {d})
      PROVE  \E p \in SimplePaths : p[Len(p)] = b /\ \A i \in 1 .. Len(p) : p[i] # d
  <2>1. PICK p \in SimplePaths :
               p[Len(p)] = b /\ \A k \in 2 .. Len(p) : p[k] \notin {d}
    BY <1>2, PathToReachable
  <2>2. p[1] = Start /\ Len(p) \in Nat
    BY PathShape
  <2> QED
    BY <2>1, <2>2
<1> QED
  BY <1>1, <1>2, DominatesOnPaths

(* The start block dominates every block, *)
LEMMA StartDominates ==
  ASSUME NEW b \in Blocks
  PROVE  Dominates(Start, b)
<1>1. ASSUME NEW p \in SimplePaths PROVE 1 \in 1 .. Len(p) /\ p[1] = Start
  BY PathShape
<1> QED
  BY <1>1, StartAssumption, DominatesOnPaths

(* and every block dominates itself. *)
LEMMA DominatesItself ==
  ASSUME NEW b \in Blocks
  PROVE  Dominates(b, b)
<1>1. ASSUME NEW p \in SimplePaths PROVE Len(p) \in 1 .. Len(p)
  BY PathShape
<1> QED
  BY <1>1, DominatesOnPaths

(* A dominator of a dominator is a dominator. *)
LEMMA DominatesTransitive ==
  ASSUME NEW d \in Blocks, NEW c \in Blocks, NEW b \in Blocks,
         Dominates(d, c), Dominates(c, b)
  PROVE  Dominates(d, b)
<1> SUFFICES ASSUME NEW p \in SimplePaths, p[Len(p)] = b
             PROVE  \E i \in 1 .. Len(p) : p[i] = d
  BY DominatesOnPaths
<1>1. PICK j \in 1 .. Len(p) : p[j] = c
  BY DominatesOnPaths
<1> DEFINE q == SubSeq(p, 1, j)
<1>2. q \in SimplePaths /\ Len(q) = j /\ \A k \in 1 .. j : q[k] = p[k]
  BY PathPrefix
<1> HIDE DEF q
<1>3. Len(p) \in Nat /\ q[Len(q)] = c
  BY <1>1, <1>2, PathShape
<1>4. PICK i \in 1 .. Len(q) : q[i] = d
  BY <1>2, <1>3, DominatesOnPaths
<1> QED
  BY <1>2, <1>3, <1>4

(* Of two dominators of a block that can be reached, one dominates the     *)
(* other: on a path to the block the one that comes first.                 *)
LEMMA DominatorsComparable ==
  ASSUME IsGraph, NEW c \in Blocks, NEW d \in Blocks, NEW b \in Reachable(succs),
         Dominates(c, b), Dominates(d, b)
  PROVE  Dominates(c, d) \/ Dominates(d, c)
<1>1. b \in Blocks
  BY DEF Reachable, ReachableAvoiding
<1>2. PICK p \in SimplePaths : p[Len(p)] = b
  BY PathToReachable DEF Reachable
<1>3. /\ p \in Seq(Blocks) /\ p # <<>>
      /\ \A k \in 1 .. Len(p) - 1 : p[k + 1] \in SuccSet(succs, p[k])
      /\ \A k, m \in 1 .. Len(p) : p[k] = p[m] => k = m
  BY PathShape
<1>4. ASSUME NEW x \in Blocks, NEW y \in Blocks, Dominates(x, b),
             NEW i \in 1 .. Len(p), NEW j \in 1 .. Len(p), i < j, p[i] = x, p[j] = y
      PROVE  Dominates(x, y)
  <2>1. CASE x = Start
    BY <2>1, StartDominates
  <2>2. CASE x # Start
    <3> SUFFICES ASSUME y \in ReachableAvoiding(succs, Start, {x}) PROVE FALSE
      BY <2>2, DominatesUnreachable
    <3>1. \A k \in 1 .. Len(p) : j < k => p[k] \notin {x}
      BY <1>3, <1>4
    <3>2. b \in ReachableAvoiding(succs, y, {x})
      BY <1>2, <1>3, <1>4, <3>1, EndIsReachable
    <3>3. b \in ReachableAvoiding(succs, Start, {x})
      BY <3>2, StartAssumption, ReachableTransitive
    <3> QED
      BY <3>3, <1>1, <1>4, <2>2, DominatesUnreachable
  <2> QED
    BY <2>1, <2>2
<1>5. PICK i \in 1 .. Len(p) : p[i] = c
  BY <1>1, <1>2, DominatesOnPaths
<1>6. PICK j \in 1 .. Len(p) : p[j] = d
  BY <1>1, <1>2, DominatesOnPaths
<1>7. CASE c = d
  BY <1>7, DominatesItself
<1>8. CASE i < j
  BY <1>8, <1>4, <1>5, <1>6
<1>9. CASE j < i
  BY <1>9, <1>4, <1>5, <1>6
<1> QED
  BY <1>3, <1>5, <1>6, <1>7, <1>8, <1>9
-----------------------------------------------------------------------------
(* The graph and the marks are the same for every module. *)
LEMMA SameMarks ==
  /\ TP!Marks = Marks /\ MP!Marks = Marks
  /\ TP!AllMarkers = AllMarkers /\ MP!AllMarkers = AllMarkers
BY DEF Marks, TP!Marks, MP!Marks, Colors, TP!Colors, MP!Colors,
       COLORS_NUM, TP!COLORS_NUM, MP!COLORS_NUM,
       AllMarkers, TP!AllMarkers, MP!AllMarkers

(* The vector of RPO has a slot for every block. *)
LEMMA SameSlots ==
  /\ R!AliveBlockCount = Cardinality(Blocks) /\ TP!AliveBlockCount = Cardinality(Blocks)
  /\ Slots = 0 .. Cardinality(Blocks) - 1
  /\ R!Slots = Slots /\ TP!Slots = Slots
<1>1. R!AliveBlockCount = Cardinality(Blocks)
  BY DEF R!AliveBlockCount, R!Cardinality, Cardinality
<1>2. TP!AliveBlockCount = Cardinality(Blocks)
  BY DEF TP!AliveBlockCount, TP!Cardinality, Cardinality
<1> QED
  BY <1>1, <1>2 DEF Slots, R!Slots, TP!Slots

(* The assumptions of the modules of the walks are those of this one. *)
LEMMA SameAssumptions ==
  TP!IsFiniteSet(Blocks) /\ TP!MAX_SUCCESSORS = MAX_SUCCESSORS
BY DominatorTreeAssumption
   DEF TP!IsFiniteSet, IsFiniteSet, TP!MAX_SUCCESSORS, MAX_SUCCESSORS

(* So are the operators of Cfg.tla and MarkerBits.tla. *)
LEMMA SameOperators ==
  /\ \A ss, from, avoid :
       TP!ReachableAvoiding(ss, from, avoid) = ReachableAvoiding(ss, from, avoid)
  /\ \A ss, b : TP!SuccSet(ss, b) = SuccSet(ss, b)
  /\ \A ms, b, m : TP!WithMarker(ms, b, m) = WithMarker(ms, b, m)
  /\ \A ms, m : TP!MarkedBy(ms, m) = MarkedBy(ms, m)
<1>1. \A ss, b : TP!SuccSet(ss, b) = SuccSet(ss, b)
  BY DEF TP!SuccSet, SuccSet
<1>2. \A ss, from, avoid :
        TP!ReachableAvoiding(ss, from, avoid) = ReachableAvoiding(ss, from, avoid)
  BY DEF TP!ReachableAvoiding, ReachableAvoiding, TP!ClosedAvoiding, ClosedAvoiding,
         TP!SuccSet, SuccSet
<1>3. \A ms, b, m : TP!WithMarker(ms, b, m) = WithMarker(ms, b, m)
  BY Zenon DEF TP!WithMarker, WithMarker, TP!ColorOf, ColorOf, TP!ValueOf, ValueOf,
               TP!COLORS_NUM, COLORS_NUM
<1>4. \A ms, m : TP!MarkedBy(ms, m) = MarkedBy(ms, m)
  BY DEF TP!MarkedBy, MarkedBy, TP!IsMarked, IsMarked, TP!ColorOf, ColorOf, TP!ValueOf,
         ValueOf, TP!COLORS_NUM, COLORS_NUM
<1> QED
  BY <1>1, <1>2, <1>3, <1>4

(* A step of RPO in Build is a step of RPO. *)
LEMMA SameRpo == R!RpoRun \/ R!RpoStep <=> TP!RpoNext
<1>1. R!RpoRun <=> TP!RpoRun
  BY SameSlots, Zenon
     DEF R!RpoRun, TP!RpoRun, R!RpoIdle, TP!RpoIdle, R!RpoEnter, TP!RpoEnter,
         R!Call, TP!Call, R!WithMarker, TP!WithMarker, R!ColorOf, TP!ColorOf,
         R!ValueOf, TP!ValueOf, R!COLORS_NUM, TP!COLORS_NUM
<1>2. R!RpoVisit <=> TP!RpoVisit
  BY Zenon
     DEF R!RpoVisit, TP!RpoVisit, R!RpoEnter, TP!RpoEnter, R!Call, TP!Call,
         R!WithMarker, TP!WithMarker, R!ColorOf, TP!ColorOf, R!ValueOf, TP!ValueOf,
         R!COLORS_NUM, TP!COLORS_NUM, R!LoopDone, TP!LoopDone, R!SuccBlock,
         TP!SuccBlock, R!LoopOn, TP!LoopOn, R!Top, TP!Top, R!IsMarked, TP!IsMarked
<1>3. R!RpoSkip <=> TP!RpoSkip
  BY Zenon
     DEF R!RpoSkip, TP!RpoSkip, R!ColorOf, TP!ColorOf, R!ValueOf, TP!ValueOf,
         R!COLORS_NUM, TP!COLORS_NUM, R!LoopDone, TP!LoopDone, R!SuccBlock,
         TP!SuccBlock, R!LoopOn, TP!LoopOn, R!Top, TP!Top, R!IsMarked, TP!IsMarked
<1>4. R!RpoFinish <=> TP!RpoFinish
  BY Zenon
     DEF R!RpoFinish, TP!RpoFinish, R!LoopDone, TP!LoopDone, R!Top, TP!Top, R!Pop, TP!Pop
<1> QED
  BY <1>1, <1>2, <1>3, <1>4 DEF R!RpoStep, TP!RpoStep, TP!RpoNext

(* A step of DFS in Build is a step of DFS. *)
LEMMA SameDfs == D!DfsRun \/ D!DfsStep <=> TP!DfsNext
BY DEF D!DfsRun, D!DfsStep, TP!DfsNext, TP!DfsRun, TP!DfsStep, D!DfsVisit, D!DfsSkip,
       D!DfsReturn, TP!DfsVisit, TP!DfsSkip, TP!DfsReturn, D!DfsIdle, TP!DfsIdle,
       D!DfsEnter, TP!DfsEnter, D!LoopDone, TP!LoopDone, D!SuccBlock, TP!SuccBlock,
       D!LoopOn, TP!LoopOn, D!Top, TP!Top, D!Pop, TP!Pop, D!Call, TP!Call,
       D!WithMarker, TP!WithMarker, D!IsMarked, TP!IsMarked, D!MarkedBy, TP!MarkedBy,
       D!ColorOf, TP!ColorOf, D!ValueOf, TP!ValueOf, D!COLORS_NUM, TP!COLORS_NUM

-----------------------------------------------------------------------------
(* RPO and DFS, by what they keep and by what they leave when they end:    *)
(* RPO starts from its initial states.                                     *)
LEMMA RpoBegins == TP!RpoInit => TP!RpoInv /\ TP!CallersInv
BY TP!RpoInvInit, TP!CallersInit, SameMarks, SameAssumptions, IndexValuesAssumption,
   StartAssumption, CfgsAssumption, DominatorTreeAssumption

(* A step of RPO touches no marks but those of its marker. *)
LEMMA RpoGoesOn ==
  ASSUME TP!RpoInv, TP!CallersInv, R!RpoRun \/ R!RpoStep
  PROVE  /\ TP!RpoInv' /\ TP!CallersInv'
         /\ succs' = succs /\ marker' = marker
         /\ marks' = marks \/ \E b : marks' = WithMarker(marks, b, marker)
<1>1. TP!RpoNext
  BY SameRpo
<1>2. TP!RpoInv'
  BY <1>1, TP!RpoInvNext, SameMarks, SameAssumptions, IndexValuesAssumption,
     StartAssumption, CfgsAssumption, DominatorTreeAssumption
<1>3. TP!CallersInv'
  BY <1>1, TP!CallersNext, SameMarks, SameAssumptions, IndexValuesAssumption,
     StartAssumption, CfgsAssumption, DominatorTreeAssumption
<1>4. /\ succs' = succs /\ marker' = marker
      /\ marks' = marks \/ \E b : marks' = TP!WithMarker(marks, b, marker)
  BY <1>1 DEF TP!RpoNext, TP!RpoRun, TP!RpoStep, TP!RpoVisit, TP!RpoSkip, TP!RpoFinish,
              TP!RpoEnter
<1>5. \A b : TP!WithMarker(marks, b, marker) = WithMarker(marks, b, marker)
  BY SameOperators
<1> QED
  BY <1>2, <1>3, <1>4, <1>5

(* The vector of a finished RPO.  A slot is null when not every block can  *)
(* be reached.                                                             *)
VectorDone ==
  /\ rpoVector \in [Slots -> Blocks \cup {Null}]
  /\ \A i, j \in Slots : rpoVector[i] = rpoVector[j] /\ rpoVector[i] # Null => i = j
  /\ ~Connected => rpoVector[0] = Null
  /\ Connected =>
       /\ \A i \in Slots : rpoVector[i] # Null
       /\ {rpoVector[i] : i \in Slots} = Blocks
       /\ rpoVector[0] = Start
       /\ \A i \in Slots \ {0} : \E j \in Slots :
            j < i /\ rpoVector[i] \in SuccSet(succs, rpoVector[j])

(* What the walk of Graph::RunRpo leaves. *)
LEMMA RpoEnds ==
  ASSUME TP!RpoInv, TP!CallersInv, R!RpoDone
  PROVE  VectorDone /\ stack = <<>>
<1>1. TP!RpoDone /\ stack = <<>>
  BY DEF R!RpoDone, TP!RpoDone
<1>2. /\ TP!Finished = TP!Reachable(succs)
      /\ rpoVector \in [Slots -> Blocks \cup {Null}]
      /\ \A i, j \in Slots :
           rpoVector[i] = rpoVector[j] /\ rpoVector[i] # Null => i = j
      /\ TP!Finished # Blocks => rpoVector[0] = Null
      /\ TP!Finished = Blocks =>
           /\ \A i \in Slots : rpoVector[i] # Null
           /\ rpoVector[0] = Start
           /\ \A i \in Slots \ {0} : \E j \in Slots :
                j < i /\ rpoVector[i] \in TP!SuccSet(succs, rpoVector[j])
  BY <1>1, TP!RpoListsBlocks, SameSlots, SameMarks, SameAssumptions,
     IndexValuesAssumption, StartAssumption, CfgsAssumption, DominatorTreeAssumption
<1>3. TP!Reachable(succs) = Reachable(succs)
  BY SameOperators DEF TP!Reachable, Reachable
<1>4. \A b : TP!SuccSet(succs, b) = SuccSet(succs, b)
  BY SameOperators
<1>5. TP!Finished = {rpoVector[i] : i \in Slots} \ {Null}
  BY <1>2 DEF TP!Finished
<1> QED
  BY <1>1, <1>2, <1>3, <1>4, <1>5, DominatorTreeAssumption DEF VectorDone, Connected

(* DFS starts from its initial states. *)
LEMMA DfsBegins == TP!DfsInit => TP!DfsInv
BY TP!DfsInvInit, SameMarks, SameAssumptions, IndexValuesAssumption, StartAssumption,
   CfgsAssumption, DominatorTreeAssumption

(* A step of DFS touches no marks but those of its marker, and the first   *)
(* one takes note of the blocks that carry it already.                     *)
LEMMA DfsGoesOn ==
  ASSUME TP!DfsInv, D!DfsRun \/ D!DfsStep
  PROVE  /\ TP!DfsInv' /\ dfsVector' # <<>>
         /\ succs' = succs /\ marker' = marker
         /\ marks' = marks \/ \E b : marks' = WithMarker(marks, b, marker)
         /\ removed' = IF dfsVector = <<>> THEN MarkedBy(marks, marker) ELSE removed
<1>1. TP!DfsNext
  BY SameDfs
<1>2. TP!DfsInv'
  BY <1>1, TP!DfsInvNext, SameMarks, SameAssumptions, IndexValuesAssumption,
     StartAssumption, CfgsAssumption, DominatorTreeAssumption
<1>3. /\ succs' = succs /\ marker' = marker
      /\ marks' = marks \/ \E b : marks' = TP!WithMarker(marks, b, marker)
  BY <1>1 DEF TP!DfsNext, TP!DfsRun, TP!DfsStep, TP!DfsVisit, TP!DfsSkip, TP!DfsReturn,
              TP!DfsEnter
<1>4. \A b : TP!WithMarker(marks, b, marker) = WithMarker(marks, b, marker)
  BY SameOperators
<1>5. TP!MarkedBy(marks, marker) = MarkedBy(marks, marker)
  BY SameOperators
<1>6. dfsVector \in Seq(Blocks)
  BY DEF TP!DfsInv, TP!DfsTypeOK
<1>7. CASE TP!DfsRun
  BY <1>2, <1>3, <1>4, <1>5, <1>6, <1>7, StartAssumption
     DEF TP!DfsRun, TP!DfsIdle, TP!DfsEnter
<1>8. CASE TP!DfsStep
  <2>1. stack # <<>> /\ removed' = removed
    BY <1>8 DEF TP!DfsStep, TP!DfsVisit, TP!DfsSkip, TP!DfsReturn
  <2>2. stack \in Seq(TP!Frames) /\ Len(stack) \in 1 .. Len(stack)
    BY <2>1 DEF TP!DfsInv, TP!DfsTypeOK
  <2>3. dfsVector # <<>>
    <3>1. stack[Len(stack)].block \in TP!OnStack(stack)
      BY <2>2 DEF TP!OnStack
    <3>2. TP!Found # {}
      BY <3>1 DEF TP!DfsInv, TP!StackIsPath
    <3> QED
      BY <3>2 DEF TP!Found
  <2>4. dfsVector' = dfsVector \/ \E b : dfsVector' = Append(dfsVector, b)
    BY <1>8 DEF TP!DfsStep, TP!DfsVisit, TP!DfsSkip, TP!DfsReturn, TP!DfsEnter
  <2> QED
    BY <2>1, <2>3, <2>4, <1>2, <1>3, <1>4, <1>6
<1> QED
  BY <1>1, <1>7, <1>8 DEF TP!DfsNext

(* What the walk for a block leaves. *)
LEMMA DfsEnds ==
  ASSUME TP!DfsInv, D!DfsDone
  PROVE  D!Found = ReachableAvoiding(succs, Start, removed) /\ stack = <<>>
<1>1. TP!DfsDone /\ stack = <<>>
  BY DEF D!DfsDone, TP!DfsDone
<1>2. TP!DfsCorrect
  BY TP!DfsInvIsCorrect, SameMarks, SameAssumptions, IndexValuesAssumption,
     StartAssumption, CfgsAssumption, DominatorTreeAssumption
<1>3. TP!Found = D!Found
  BY DEF TP!Found, D!Found
<1>4. TP!ReachableAvoiding(succs, Start, removed) = ReachableAvoiding(succs, Start, removed)
  BY SameOperators
<1> QED
  BY <1>1, <1>2, <1>3, <1>4 DEF TP!DfsCorrect

-----------------------------------------------------------------------------
(* The marker manager, for a client that has no other marker: the new one  *)
(* marks no block, and an index is left for it.                            *)
LEMMA MarkerCreated ==
  ASSUME MP!MarkersInv, live = {}, M!CreateNewMarker
  PROVE  /\ MP!MarkersInv' /\ markerIndex' < MAX_MARKER_INDEX
         /\ M!NewMarker \in AllMarkers /\ live' = {M!NewMarker}
         /\ marks' = marks /\ MarkedBy(marks, M!NewMarker) = {}
         /\ outcome' = outcome
<1>1. M!NewMarker = MP!NewMarker /\ M!FreeColors = MP!FreeColors
  BY Zenon DEF M!NewMarker, MP!NewMarker, M!MarkerOf, MP!MarkerOf, M!Min, MP!Min,
               M!FreeColors, MP!FreeColors, M!Colors, MP!Colors,
               M!COLORS_NUM, MP!COLORS_NUM
<1>2. /\ MP!CreateNewMarker
      /\ live' = live \cup {M!NewMarker} /\ marks' = marks /\ outcome' = outcome
  <2>1. M!Min(M!FreeColors) = MP!Min(MP!FreeColors)
    BY <1>1, Zenon DEF M!Min, MP!Min
  <2> QED
    BY <1>1, <2>1 DEF M!CreateNewMarker, MP!CreateNewMarker, M!IndexAvailable,
                      MP!IndexAvailable
<1>3. MP!IndexAvailable /\ MP!FreeColors # {}
  BY <1>2 DEF MP!CreateNewMarker
<1>4. MP!MarkersInv'
  BY <1>2, MP!CreateNewMarkerInv, IndexValuesAssumption, DominatorTreeAssumption
<1>5. MP!NewMarker \in MP!AllMarkers
  BY <1>3, MP!NewMarkerParts, IndexValuesAssumption, DominatorTreeAssumption
     DEF MP!MarkersInv
<1>6. MP!MarkedBy(marks, MP!NewMarker) = {}
  BY <1>3, MP!FreshIsUnseen, IndexValuesAssumption, DominatorTreeAssumption
     DEF MP!FreshMarkerUnseen
<1>7. \A m : MP!MarkedBy(marks, m) = MarkedBy(marks, m)
  BY DEF MP!MarkedBy, MarkedBy, MP!IsMarked, IsMarked, MP!ColorOf, ColorOf, MP!ValueOf,
         ValueOf, MP!COLORS_NUM, COLORS_NUM
<1>8. markerIndex' < MAX_MARKER_INDEX
  BY <1>2 DEF MP!CreateNewMarker, MP!IndexAvailable
<1> QED
  BY <1>1, <1>2, <1>4, <1>5, <1>6, <1>7, <1>8, SameMarks

(* It is refused with an assertion when the indexes are used up, and       *)
(* otherwise when the colors are.                                          *)
LEMMA MarkerRefused ==
  ASSUME MP!MarkersInv, markerIndex < MAX_MARKER_INDEX, M!CreateNewMarkerAborts
  PROVE  /\ markerIndex' \in Nat
         /\ outcome' \in {"assert", "unreachable"}
         /\ outcome' = "assert" => markerIndex' = MAX_MARKER_INDEX
         /\ UNCHANGED <<colors, marks, live>>
BY DominatorTreeAssumption
   DEF M!CreateNewMarkerAborts, M!IndexAvailable, MP!MarkersInv, MP!MarkersTypeOK

(* The only marker in use is given back. *)
LEMMA MarkerFreed ==
  ASSUME MP!MarkersInv, live = {marker}, M!EraseMarker(marker)
  PROVE  /\ MP!MarkersInv' /\ live' = {}
         /\ UNCHANGED <<markerIndex, marks, outcome>>
<1>1. MP!EraseMarker(marker) /\ marker \in live
  BY DEF M!EraseMarker, MP!EraseMarker, M!ColorOf, MP!ColorOf, M!COLORS_NUM,
         MP!COLORS_NUM
<1>2. MP!MarkersInv'
  BY <1>1, MP!EraseMarkerInv, IndexValuesAssumption, DominatorTreeAssumption
<1> QED
  BY <1>2 DEF M!EraseMarker

(* Marking with the marker held keeps what the manager relies on. *)
LEMMA MarkerUsed ==
  ASSUME MP!MarkersInv, marker \in live, marks' \in Marks,
         marks' = marks \/ \E b : marks' = WithMarker(marks, b, marker),
         UNCHANGED <<markerIndex, colors, live, outcome>>
  PROVE  MP!MarkersInv'
<1>1. /\ marks \in Marks /\ markerIndex \in Nat
      /\ ValueOf(marker) <= markerIndex
      /\ \A b \in Blocks, c \in Colors : marks[b][c] <= markerIndex
  BY SameMarks
     DEF MP!MarkersInv, MP!MarkersTypeOK, MP!NoFutureMarks, MP!Colors, Colors,
         MP!COLORS_NUM, COLORS_NUM, MP!ValueOf, ValueOf
<1>2. \A b \in Blocks, c \in Colors : marks'[b][c] <= markerIndex
  BY <1>1 DEF WithMarker, Marks
<1>3. MP!NoFutureMarks'
  BY <1>2 DEF MP!MarkersInv, MP!NoFutureMarks, MP!Colors, Colors, MP!COLORS_NUM,
              COLORS_NUM
<1> QED
  BY <1>3, SameMarks DEF MP!MarkersInv, MP!MarkersTypeOK, MP!LiveColorsDistinct
-----------------------------------------------------------------------------
(* The order of the vector: a block other than the first has a predecessor *)
(* in front of it, and what dominates the block dominates that predecessor *)
(* or is the block itself.  So nothing that dominates a block is behind it.*)
LEMMA NoDominatorBehind ==
  ASSUME IsGraph, VectorDone, Connected, NEW i \in Slots, NEW j \in Slots,
         Dominates(rpoVector[i], rpoVector[j])
  PROVE  i <= j
<1> DEFINE Behind == {n \in Slots : \E m \in Slots :
                        m > n /\ Dominates(rpoVector[m], rpoVector[n])}
<1>1. Slots \subseteq Nat /\ 0 \in Slots
  <2>1. Cardinality(Blocks) \in Nat
    BY DominatorTreeAssumption, FS_CardinalityType
  <2> QED
    BY <2>1, SameSlots
<1>2. ASSUME Behind # {} PROVE FALSE
  <2>1. Behind \subseteq Nat
    BY <1>1
  <2>2. PICK n \in Behind : \A k \in Behind : n <= k
    <3> HIDE DEF Behind
    <3> QED
      BY <1>2, <2>1, LeastElement
  <2>3. PICK m \in Slots : m > n /\ Dominates(rpoVector[m], rpoVector[n])
    OBVIOUS
  <2> DEFINE b == rpoVector[n]
             d == rpoVector[m]
  <2>4. n \in Slots /\ n \in Nat /\ m \in Nat /\ m # 0
    BY <1>1, <2>3
  <2>5. b \in Blocks /\ d \in Blocks \ {Start} /\ b # d
    BY <1>1, <2>3, <2>4 DEF VectorDone
  <2>6. Dominates(d, b)
    BY <2>3
  <2>7. n # 0
    <3> SUFFICES ASSUME n = 0 PROVE FALSE
      OBVIOUS
    <3>1. b = Start
      BY DEF VectorDone
    <3>2. \E i1 \in 1 .. Len(<<Start>>) : <<Start>>[i1] = d
      <4>1. <<Start>> \in SimplePaths /\ <<Start>>[Len(<<Start>>)] = Start
        BY StartPath, StartAssumption
      <4> QED
        BY <2>5, <2>6, <3>1, <4>1, DominatesOnPaths
    <3> QED
      BY <2>5, <3>2
  <2>8. PICK k \in Slots : k < n /\ b \in SuccSet(succs, rpoVector[k])
    BY <2>4, <2>7 DEF VectorDone
  <2> DEFINE u == rpoVector[k]
  <2>9. u \in Blocks
    BY DEF VectorDone
  <2> HIDE DEF b, d, u
  <2>10. u \notin ReachableAvoiding(succs, Start, {d})
    <3>1. b \notin ReachableAvoiding(succs, Start, {d})
      BY <2>5, <2>6, DominatesUnreachable
    <3>2. b \in SuccSet(succs, u) /\ b \notin {d}
      BY <2>5, <2>8 DEF u, b
    <3> QED
      BY <3>1, <3>2, TP!ReachableIsClosed, SameOperators, SameAssumptions, SameMarks,
         IndexValuesAssumption, StartAssumption, CfgsAssumption, DominatorTreeAssumption
         DEF IsGraph
  <2>11. Dominates(d, u)
    BY <2>5, <2>9, <2>10, DominatesUnreachable
  <2>12. k \in Behind
    BY <2>3, <2>4, <2>8, <2>11, <1>1 DEF u, d
  <2> QED
    BY <2>2, <2>4, <2>8, <2>12, <1>1
<1> QED
  BY <1>1, <1>2

(* Blocks that dominate each other are the same. *)
LEMMA DominatesAntisymmetric ==
  ASSUME IsGraph, VectorDone, Connected, NEW c \in Blocks, NEW d \in Blocks,
         Dominates(c, d), Dominates(d, c)
  PROVE  c = d
<1>1. Slots \subseteq Int
  BY SameSlots
<1>2. PICK i \in Slots : rpoVector[i] = c
  BY DEF VectorDone
<1>3. PICK j \in Slots : rpoVector[j] = d
  BY DEF VectorDone
<1>4. i <= j /\ j <= i
  BY <1>2, <1>3, NoDominatorBehind
<1> QED
  BY <1>1, <1>2, <1>3, <1>4

(* d is the immediate dominator of b: the strict dominator that all strict *)
(* dominators dominate.                                                    *)
Immediate(d, b) ==
  /\ d # b /\ Dominates(d, b)
  /\ \A c \in Blocks : Dominates(c, b) /\ c # b => Dominates(c, d)

(* A block has one immediate dominator at most. *)
LEMMA ImmediateIsUnique ==
  ASSUME IsGraph, VectorDone, Connected,
         NEW c \in Blocks, NEW d \in Blocks, NEW b \in Blocks,
         Immediate(c, b), Immediate(d, b)
  PROVE  c = d
BY DominatesAntisymmetric DEF Immediate

(* The strict dominators of a block are ordered, so the last of them in    *)
(* the vector is the immediate one.                                        *)
LEMMA ImmediateExists ==
  ASSUME IsGraph, VectorDone, Connected, NEW b \in Blocks \ {Start}
  PROVE  \E d \in Blocks : Immediate(d, b)
<1> DEFINE Strict(c) == Dominates(c, b) /\ c # b
           N == Cardinality(Blocks)
           K == {k \in Nat : \E i \in Slots : k = N - i /\ Strict(rpoVector[i])}
<1>1. N \in Nat /\ Slots = 0 .. N - 1
  BY DominatorTreeAssumption, FS_CardinalityType, SameSlots
<1>2. K # {}
  <2>1. Strict(Start)
    BY StartDominates
  <2>2. PICK i \in Slots : rpoVector[i] = Start
    BY StartAssumption DEF VectorDone
  <2>3. N - i \in Nat
    BY <1>1
  <2>4. N - i \in K
    BY <2>1, <2>2, <2>3
  <2> QED
    BY <2>4
<1>3. PICK k \in K : \A m \in K : k <= m
  <2>1. K \in SUBSET Nat
    OBVIOUS
  <2> HIDE DEF K
  <2> QED
    BY <1>2, <2>1, LeastElement
<1>4. PICK i \in Slots : k = N - i /\ Strict(rpoVector[i])
  OBVIOUS
<1> DEFINE d == rpoVector[i]
<1>5. d \in Blocks
  BY DEF VectorDone
<1>6. ASSUME NEW c \in Blocks, Strict(c) PROVE Dominates(c, d)
  <2>1. PICK j \in Slots : rpoVector[j] = c
    BY DEF VectorDone
  <2>2. N - j \in K
    <3>1. N - j \in Nat
      BY <1>1
    <3> QED
      BY <3>1, <2>1, <1>6
  <2>3. j <= i
    BY <2>2, <1>1, <1>3, <1>4
  <2>4. Dominates(c, d) \/ Dominates(d, c)
    BY <1>4, <1>5, <1>6, DominatorsComparable DEF Connected
  <2>5. CASE Dominates(d, c)
    <3>1. i <= j
      BY <2>1, <2>5, NoDominatorBehind
    <3>2. i = j
      BY <2>3, <3>1, <1>1
    <3> QED
      BY <3>2, <2>1, <1>5, DominatesItself
  <2> QED
    BY <2>4, <2>5
<1> QED
  BY <1>4, <1>5, <1>6 DEF Immediate
-----------------------------------------------------------------------------
(* The invariant.  What each place in Build has in hand: the marker ...    *)
MarkerHeld == live = IF pc \in {"rpo", "remove", "dfs"} THEN {marker} ELSE {}

(* ... and the walks.                                                      *)
NoWalk == stack = <<>> /\ dfsVector = <<>> /\ removed = {}

RpoWalkInv ==
  /\ dfsVector = <<>> /\ removed = {}
  /\ \/ TP!RpoInit
     \/ TP!RpoInv /\ TP!CallersInv

DfsWalkInv ==
  \/ TP!DfsInit /\ MarkedBy(marks, marker) = {rpoVector[pos]}
  \/ TP!DfsInv /\ dfsVector # <<>> /\ removed = {rpoVector[pos]}

WalkInv ==
  /\ pc = "begin" => NoWalk /\ blockCount = 0 /\ rpoVector = <<>>
  /\ pc = "rpo" => RpoWalkInv
  /\ pc = "dfs" => DfsWalkInv /\ rpoVector[pos] # Null
  /\ pc \in {"take", "remove", "idom", "built", "extended"} => NoWalk
  /\ pc = "remove" => MarkedBy(marks, marker) = {}

PlaceInv ==
  /\ pc \in {"take", "remove", "dfs"} => pos > 0
  /\ pc \in {"remove", "dfs"} => pos \in Slots
  /\ pc = "idom" /\ pos > 0 => Connected
  /\ pc = "built" => Connected /\ pos \notin Slots

(* The blocks whose walks are over, and what the walks and the comparison  *)
(* of the dominators have found.                                           *)
Known == {rpoVector[i] : i \in {j \in Slots : pc \in {"take", "remove", "dfs"} => j < pos}}

StrictlyDominated(d) == {b \in Blocks : Dominates(d, b) /\ (b # d \/ d = Start)}

Results ==
  /\ DOMAIN dominatorsMap = Blocks \ {Start}
  /\ \A b \in Blocks \ {Start} :
       dominatorsMap[b] = {d \in Known : Dominates(d, b) /\ d # b}
  /\ \A d \in Known : dominatedBlocks[d] = StrictlyDominated(d)
  /\ pc \in {"idom", "built"} =>
       \A j \in Slots : j < pos =>
         \A b \in Blocks \ {Start} :
           Immediate(rpoVector[j], b) => immediateDominator[b] = rpoVector[j]

TreeInv ==
  pc \in {"take", "remove", "dfs", "idom", "built"} =>
    VectorDone /\ (Connected => Results)

(* How Build ends when it does not return. *)
EndInv ==
  /\ outcome = "null" => ~Connected
  /\ outcome = "assert" => ~Connected \/ markerIndex = MAX_MARKER_INDEX

RunInv ==
  /\ MP!MarkersInv /\ markerIndex < MAX_MARKER_INDEX
  /\ immediateDominator[Start] = Null
  /\ WalkInv
  /\ PlaceInv
  /\ TreeInv

BuildInv ==
  /\ TypeOK
  /\ pc \in {"begin", "rpo", "take", "remove", "dfs", "idom", "built", "extended"}
  /\ MarkerHeld
  /\ EndInv
  /\ outcome = "running" => RunInv
-----------------------------------------------------------------------------
(* Dominance is a matter of the graph alone. *)
LEMMA SameGraph ==
  ASSUME succs' = succs
  PROVE  /\ Connected' <=> Connected
         /\ Dominance' = Dominance
BY DEF Connected, Dominance, SimplePaths

(* The invariant holds before the first Build. *)
LEMMA BuildInvInit == Init => BuildInv
<1> SUFFICES ASSUME Init PROVE BuildInv
  OBVIOUS
<1>1. MP!MarkersInv
  <2>1. MP!MarkersInit
    BY DEF Init, M!MarkersInit, MP!MarkersInit, M!Colors, MP!Colors, M!COLORS_NUM,
           MP!COLORS_NUM, M!UNMARKER, MP!UNMARKER
  <2> QED
    BY <2>1, MP!MarkersInvInit, IndexValuesAssumption, DominatorTreeAssumption
<1>2. /\ markerIndex = 0 /\ live = {} /\ outcome = "running" /\ pc = "begin" /\ pos = 0
      /\ colors = {} /\ marks \in Marks
  BY <1>1, SameMarks DEF Init, M!MarkersInit, MP!MarkersInv, MP!MarkersTypeOK
<1>3. TypeOK
  <2>1. UNMARKER \in AllMarkers
    BY IndexValuesAssumption DEF UNMARKER, AllMarkers, COLORS_NUM
  <2>2. Cardinality(Blocks) \in Nat
    BY DominatorTreeAssumption, FS_CardinalityType
  <2> QED
    BY <2>1, <2>2, <1>2 DEF Init, TypeOK
<1>4. RunInv
  BY <1>1, <1>2, StartAssumption, DominatorTreeAssumption
     DEF Init, RunInv, WalkInv, NoWalk, PlaceInv, TreeInv
<1> QED
  BY <1>2, <1>3, <1>4 DEF BuildInv, MarkerHeld, EndInv

(* What a state that is running has. *)
LEMMA RunningFacts ==
  ASSUME BuildInv, outcome = "running"
  PROVE  TypeOK /\ RunInv /\ IsGraph /\ marks \in Marks /\ succs \in CFGS
         /\ Cardinality(Blocks) \in Nat
BY CfgsAssumption, DominatorTreeAssumption, FS_CardinalityType
   DEF BuildInv, TypeOK, IsGraph

(* A program that ends keeps what it has. *)
LEMMA HaltInv ==
  ASSUME BuildInv, NEW how \in {"null", "assert", "unreachable"}, Halt(how),
         how \in {"null", "assert"} => ~Connected
  PROVE  BuildInv'
<1>1. Connected' <=> Connected
  BY SameGraph DEF Halt
<1>2. TypeOK'
  BY DEF BuildInv, TypeOK, Halt, rpoState, treeState, dfsState
<1> QED
  BY <1>1, <1>2 DEF BuildInv, MarkerHeld, EndInv, Halt

(* A marker that is refused ends the program: by the assertion, only when  *)
(* the indexes are used up.                                                *)
LEMMA RefusedInv ==
  ASSUME BuildInv, outcome = "running", M!CreateNewMarkerAborts,
         UNCHANGED <<succs, marker, stack, rpoState, dfsState, treeState, pc, pos, builds>>
  PROVE  BuildInv'
<1>1. /\ markerIndex' \in Nat /\ outcome' \in {"assert", "unreachable"}
      /\ outcome' = "assert" => markerIndex' = MAX_MARKER_INDEX
      /\ UNCHANGED <<colors, marks, live>>
  BY MarkerRefused, RunningFacts DEF RunInv
<1>2. TypeOK'
  BY <1>1 DEF BuildInv, TypeOK, rpoState, treeState, dfsState
<1> QED
  BY <1>1, <1>2 DEF BuildInv, MarkerHeld, EndInv

(* RunRpo starts with a marker that marks no block. *)
LEMMA RunRpoInv ==
  ASSUME BuildInv, RunRpo
  PROVE  BuildInv'
<1>1. /\ outcome = "running" /\ pc = "begin"
      /\ UNCHANGED <<succs, stack, rpoState, dfsState, treeState, pos, builds>>
  BY DEF RunRpo, CreateMarker, Running
<1>2. CASE M!CreateNewMarkerAborts /\ UNCHANGED <<marker, pc>>
  BY <1>1, <1>2, RefusedInv
<1>3. CASE M!CreateNewMarker /\ marker' = M!NewMarker /\ pc' = "rpo"
  <2>1. /\ MP!MarkersInv' /\ markerIndex' < MAX_MARKER_INDEX
        /\ marker' \in AllMarkers /\ live' = {marker'}
        /\ marks' = marks /\ MarkedBy(marks, marker') = {} /\ outcome' = outcome
    BY <1>1, <1>3, MarkerCreated, RunningFacts DEF RunInv, BuildInv, MarkerHeld
  <2>2. /\ stack' = <<>> /\ dfsVector' = <<>> /\ removed' = {}
        /\ blockCount' = 0 /\ rpoVector' = <<>>
    BY <1>1, RunningFacts DEF RunInv, WalkInv, NoWalk, rpoState, dfsState
  <2>3. TP!RpoInit'
    <3>1. TP!MarkedBy(marks', marker') = MarkedBy(marks', marker')
      BY DEF TP!MarkedBy, MarkedBy, TP!IsMarked, IsMarked, TP!ColorOf, ColorOf,
             TP!ValueOf, ValueOf, TP!COLORS_NUM, COLORS_NUM
    <3> QED
      BY <3>1, <2>1, <2>2, <1>1, RunningFacts DEF TP!RpoInit
  <2>4. TypeOK'
    BY <2>1, <2>2, <1>1, SameMarks
       DEF BuildInv, TypeOK, treeState, MP!MarkersInv, MP!MarkersTypeOK, MP!Colors, Colors,
           MP!COLORS_NUM, COLORS_NUM
  <2>5. RunInv'
    BY <2>1, <2>2, <2>3, <1>1, <1>3, RunningFacts
       DEF RunInv, WalkInv, RpoWalkInv, PlaceInv, TreeInv, treeState
  <2> QED
    BY <2>1, <2>4, <2>5, <1>1, <1>3 DEF BuildInv, MarkerHeld, EndInv
<1> QED
  BY <1>1, <1>2, <1>3 DEF RunRpo, CreateMarker

(* A step of RPO. *)
LEMMA RpoWalkKeeps ==
  ASSUME BuildInv, RpoWalk
  PROVE  BuildInv'
<1>1. /\ outcome = "running" /\ pc = "rpo"
      /\ R!RpoRun \/ R!RpoStep
      /\ UNCHANGED <<markerIndex, colors, live, outcome, dfsState, treeState, pc, pos,
                     builds>>
  BY DEF RpoWalk, Running
<1>2. TP!RpoInv /\ TP!CallersInv
  BY <1>1, RpoBegins, RunningFacts DEF RunInv, WalkInv, RpoWalkInv
<1>3. /\ TP!RpoInv' /\ TP!CallersInv' /\ succs' = succs /\ marker' = marker
      /\ marks' = marks \/ \E b : marks' = WithMarker(marks, b, marker)
  BY <1>1, <1>2, RpoGoesOn
<1>4. marks' \in Marks /\ stack' \in Seq(Frames)
  <2>1. TP!Frames = Frames
    BY DEF TP!Frames, Frames
  <2> QED
    BY <2>1, <1>3, SameMarks DEF TP!RpoInv, TP!RpoTypeOK
<1>5. MP!MarkersInv'
  BY <1>1, <1>3, <1>4, MarkerUsed, RunningFacts DEF RunInv, BuildInv, MarkerHeld
<1>6. TypeOK'
  BY <1>1, <1>3, <1>4 DEF BuildInv, TypeOK, treeState
<1>7. RunInv'
  BY <1>1, <1>3, <1>5, RunningFacts
     DEF RunInv, WalkInv, RpoWalkInv, PlaceInv, TreeInv, treeState, dfsState
<1> QED
  BY <1>1, <1>3, <1>6, <1>7 DEF BuildInv, MarkerHeld, EndInv

(* The end of RunRpo: the root dominates everything, itself included.      *)
LEMMA StartTreeInv ==
  ASSUME BuildInv, StartTree
  PROVE  BuildInv'
<1>1. /\ outcome = "running" /\ pc = "rpo" /\ R!RpoDone /\ M!EraseMarker(marker)
      /\ dominatedBlocks' =
           [dominatedBlocks EXCEPT ![Start] = {rpoVector[i] : i \in Slots}]
      /\ dominatorsMap' = [b \in {rpoVector[i] : i \in Slots \ {0}} |-> {Start}]
      /\ pc' = "take" /\ pos' = 1
      /\ UNCHANGED <<succs, marker, stack, rpoState, dfsState, immediateDominator>>
  BY DEF StartTree, Running
<1>2. /\ VectorDone /\ stack = <<>> /\ dfsVector = <<>> /\ removed = {}
  BY <1>1, RpoBegins, RpoEnds, RunningFacts DEF RunInv, WalkInv, RpoWalkInv
<1>3. /\ MP!MarkersInv' /\ live' = {} /\ UNCHANGED <<markerIndex, marks, outcome>>
  BY <1>1, MarkerFreed, RunningFacts DEF RunInv, BuildInv, MarkerHeld
<1>4. VectorDone' /\ (Connected' <=> Connected) /\ Dominance' = Dominance
  <2>1. VectorDone'
    BY <1>1, <1>2, SameGraph DEF VectorDone, rpoState
  <2> QED
    BY <2>1, <1>1, SameGraph
<1>5. /\ Cardinality(Blocks) \in Nat \ {0} /\ Slots = 0 .. Cardinality(Blocks) - 1
      /\ 0 \in Slots
  BY RunningFacts, <1>1, SameSlots, StartAssumption, DominatorTreeAssumption,
     FS_CardinalityType, FS_EmptySet
<1>6. /\ {rpoVector[i] : i \in Slots} \subseteq Blocks \cup {Null}
      /\ {rpoVector[i] : i \in Slots \ {0}} \subseteq Blocks \cup {Null}
  BY <1>2 DEF VectorDone
<1>7. TypeOK'
  <2>1. colors' \subseteq Colors
    BY <1>1, <1>3 DEF M!EraseMarker, BuildInv, TypeOK
  <2>2. dominatedBlocks' \in [Blocks -> SUBSET (Blocks \cup {Null})]
    BY <1>1, <1>6 DEF BuildInv, TypeOK
  <2>3. /\ DOMAIN dominatorsMap' \subseteq Blocks \cup {Null}
        /\ \A b \in DOMAIN dominatorsMap' : dominatorsMap'[b] \subseteq Blocks
    BY <1>1, <1>6, StartAssumption
  <2>4. pos' \in 0 .. Cardinality(Blocks)
    BY <1>1, <1>5
  <2> QED
    BY <2>1, <2>2, <2>3, <2>4, <1>1, <1>3, RunningFacts DEF TypeOK
<1>8. ASSUME Connected PROVE Results'
  <2>1. {rpoVector[i] : i \in Slots \ {0}} = Blocks \ {Start}
    BY <1>2, <1>5, <1>8 DEF VectorDone
  <2>2. Known' = {Start}
    <3>1. {j \in Slots : pc' \in {"take", "remove", "dfs"} => j < pos'} = {0}
      BY <1>1, <1>5
    <3>2. Known' = {rpoVector[i] : i \in {0}}
      BY <3>1, <1>1 DEF Known, rpoState
    <3> QED
      BY <3>2, <1>2, <1>8 DEF VectorDone
  <2>3. \A b \in Blocks : Dominates(Start, b)'
    BY <1>4, StartDominates DEF Dominates
  <2>4. dominatedBlocks'[Start] = Blocks
    BY <1>1, <1>2, <1>8, RunningFacts, StartAssumption DEF VectorDone, TypeOK
  <2>5. StrictlyDominated(Start)' = Blocks
    BY <2>3 DEF StrictlyDominated
  <2>6. \A b \in Blocks \ {Start} :
          dominatorsMap'[b] = {d \in Known' : Dominates(d, b)' /\ d # b}
    BY <2>1, <2>2, <2>3, <1>1
  <2> QED
    BY <2>1, <2>2, <2>4, <2>5, <2>6, <1>1 DEF Results, StrictlyDominated
<1>9. RunInv'
  BY <1>1, <1>2, <1>3, <1>4, <1>8, RunningFacts
     DEF RunInv, WalkInv, NoWalk, PlaceInv, TreeInv, dfsState
<1> QED
  BY <1>1, <1>3, <1>7, <1>9 DEF BuildInv, MarkerHeld, EndInv

(* What the blocks and the vector know does not depend on the walk of the  *)
(* block at hand.                                                          *)
LEMMA TreeUnchanged ==
  ASSUME TreeInv, pc \in {"take", "remove", "dfs"}, pc' \in {"take", "remove", "dfs"},
         UNCHANGED <<succs, rpoState, treeState, pos>>
  PROVE  TreeInv'
<1>1. VectorDone /\ VectorDone' /\ (Connected' <=> Connected) /\ Dominance' = Dominance
  <2>1. Connected' <=> Connected
    BY SameGraph
  <2>2. VectorDone'
    BY <2>1 DEF TreeInv, VectorDone, rpoState
  <2> QED
    BY <2>1, <2>2, SameGraph DEF TreeInv
<1>2. Known' = Known
  BY DEF Known, rpoState
<1>3. ASSUME Connected PROVE Results'
  <2>1. \A d, b : Dominates(d, b)' <=> Dominates(d, b)
    BY <1>1 DEF Dominates
  <2>2. Results
    BY <1>3 DEF TreeInv
  <2>3. \A d : StrictlyDominated(d)' = StrictlyDominated(d)
    BY <2>1 DEF StrictlyDominated
  <2> QED
    BY <2>1, <2>2, <2>3, <1>2 DEF Results, treeState
<1> QED
  BY <1>1, <1>3 DEF TreeInv

(* The walk for a block starts with a marker that marks no block. *)
LEMMA TakeMarkerInv ==
  ASSUME BuildInv, TakeMarker
  PROVE  BuildInv'
<1>1. /\ outcome = "running" /\ pc = "take" /\ pos \in Slots
      /\ UNCHANGED <<succs, stack, rpoState, dfsState, treeState, pos, builds>>
  BY DEF TakeMarker, CreateMarker, Running
<1>2. CASE M!CreateNewMarkerAborts /\ UNCHANGED <<marker, pc>>
  BY <1>1, <1>2, RefusedInv
<1>3. CASE M!CreateNewMarker /\ marker' = M!NewMarker /\ pc' = "remove"
  <2>1. /\ MP!MarkersInv' /\ markerIndex' < MAX_MARKER_INDEX
        /\ marker' \in AllMarkers /\ live' = {marker'}
        /\ marks' = marks /\ MarkedBy(marks, marker') = {} /\ outcome' = outcome
    BY <1>1, <1>3, MarkerCreated, RunningFacts DEF RunInv, BuildInv, MarkerHeld
  <2>2. TypeOK'
    BY <2>1, <1>1, SameMarks
       DEF BuildInv, TypeOK, treeState, MP!MarkersInv, MP!MarkersTypeOK, MP!Colors, Colors,
           MP!COLORS_NUM, COLORS_NUM
  <2>3. TreeInv'
    BY <1>1, <1>3, TreeUnchanged, RunningFacts DEF RunInv
  <2>4. WalkInv'
    BY <2>1, <1>1, <1>3, RunningFacts DEF RunInv, WalkInv, NoWalk, dfsState
  <2>5. PlaceInv'
    <3>1. Slots' = Slots
      BY SameSlots DEF Slots, R!Slots, R!AliveBlockCount
    <3> QED
      BY <3>1, <1>1, <1>3, RunningFacts DEF RunInv, PlaceInv
  <2> QED
    BY <2>1, <2>2, <2>3, <2>4, <2>5, <1>1, <1>3, RunningFacts
       DEF BuildInv, RunInv, MarkerHeld, EndInv, treeState
<1> QED
  BY <1>1, <1>2, <1>3 DEF TakeMarker, CreateMarker

(* A null slot is one of a graph with blocks that cannot be reached. *)
LEMMA TakeNullOutInv ==
  ASSUME BuildInv, TakeNullOut
  PROVE  BuildInv'
<1>1. outcome = "running" /\ pc = "remove" /\ rpoVector[pos] = Null /\ Halt("null")
  BY DEF TakeNullOut, Running
<1>2. pos \in Slots /\ VectorDone
  BY <1>1, RunningFacts DEF RunInv, PlaceInv, TreeInv
<1>3. ~Connected
  BY <1>1, <1>2 DEF VectorDone
<1> QED
  BY <1>1, <1>3, HaltInv

(* The block at hand is the only one that carries the marker. *)
LEMMA TakeBlockOutInv ==
  ASSUME BuildInv, TakeBlockOut
  PROVE  BuildInv'
<1>1. /\ outcome = "running" /\ pc = "remove" /\ rpoVector[pos] # Null
      /\ M!SetMarker(rpoVector[pos], marker) /\ pc' = "dfs"
      /\ UNCHANGED <<succs, marker, stack, rpoState, dfsState, treeState, pos, builds>>
  BY DEF TakeBlockOut, Running
<1> DEFINE c == rpoVector[pos]
<1>2. /\ c \in Blocks /\ marker \in AllMarkers /\ marks \in Marks /\ live = {marker}
      /\ MarkedBy(marks, marker) = {} /\ NoWalk /\ pos \in Slots
  BY <1>1, RunningFacts
     DEF RunInv, PlaceInv, WalkInv, TreeInv, VectorDone, BuildInv, TypeOK, MarkerHeld
<1>3. /\ marks' = WithMarker(marks, c, marker)
      /\ UNCHANGED <<markerIndex, colors, live, outcome>>
  <2>1. M!WithMarker(marks, c, marker) = WithMarker(marks, c, marker)
    BY Zenon DEF M!WithMarker, WithMarker, M!ColorOf, ColorOf, M!ValueOf, ValueOf,
                 M!COLORS_NUM, COLORS_NUM
  <2> QED
    BY <2>1, <1>1 DEF M!SetMarker
<1>4. marks' \in Marks /\ MarkedBy(marks', marker) = {c}
  BY <1>2, <1>3, TP!MarkingAdds, SameOperators, SameAssumptions, SameMarks,
     IndexValuesAssumption, StartAssumption, CfgsAssumption, DominatorTreeAssumption
<1> HIDE DEF c
<1>5. MP!MarkersInv'
  BY <1>2, <1>3, <1>4, MarkerUsed, RunningFacts, <1>1 DEF RunInv
<1>6. DfsWalkInv'
  <2>1. TP!DfsInit'
    BY <1>1, <1>2, <1>4, RunningFacts DEF TP!DfsInit, NoWalk, dfsState
  <2> QED
    BY <2>1, <1>1, <1>4 DEF DfsWalkInv, c, rpoState
<1>7. TreeInv'
  BY <1>1, TreeUnchanged, RunningFacts DEF RunInv
<1>8. TypeOK'
  BY <1>1, <1>3, <1>4 DEF BuildInv, TypeOK, treeState
<1>9. RunInv'
  <2>1. Slots' = Slots
    BY SameSlots DEF Slots, R!Slots, R!AliveBlockCount
  <2>2. WalkInv' /\ PlaceInv'
    BY <2>1, <1>1, <1>2, <1>6, RunningFacts DEF RunInv, WalkInv, PlaceInv, rpoState
  <2> QED
    BY <2>2, <1>1, <1>3, <1>5, <1>7, RunningFacts DEF RunInv, treeState
<1> QED
  BY <1>1, <1>3, <1>8, <1>9 DEF BuildInv, MarkerHeld, EndInv

(* A step of DFS. *)
LEMMA DfsWalkKeeps ==
  ASSUME BuildInv, DfsWalk
  PROVE  BuildInv'
<1>1. /\ outcome = "running" /\ pc = "dfs"
      /\ D!DfsRun \/ D!DfsStep
      /\ UNCHANGED <<markerIndex, colors, live, outcome, rpoState, treeState, pc, pos,
                     builds>>
  BY DEF DfsWalk, Running
<1>2. /\ TP!DfsInv /\ rpoVector[pos] # Null
      /\ \/ dfsVector = <<>> /\ MarkedBy(marks, marker) = {rpoVector[pos]}
         \/ dfsVector # <<>> /\ removed = {rpoVector[pos]}
  BY <1>1, DfsBegins, RunningFacts DEF RunInv, WalkInv, DfsWalkInv, TP!DfsInit
<1>3. /\ TP!DfsInv' /\ dfsVector' # <<>> /\ succs' = succs /\ marker' = marker
      /\ marks' = marks \/ \E b : marks' = WithMarker(marks, b, marker)
      /\ removed' = {rpoVector[pos]}
  BY <1>1, <1>2, DfsGoesOn
<1>4. marks' \in Marks /\ stack' \in Seq(Frames)
  <2>1. TP!Frames = Frames
    BY DEF TP!Frames, Frames
  <2> QED
    BY <2>1, <1>3, SameMarks DEF TP!DfsInv, TP!DfsTypeOK
<1>5. MP!MarkersInv'
  BY <1>1, <1>3, <1>4, MarkerUsed, RunningFacts DEF RunInv, BuildInv, MarkerHeld
<1>6. TypeOK'
  BY <1>1, <1>3, <1>4 DEF BuildInv, TypeOK, treeState
<1>7. TreeInv'
  BY <1>1, <1>3, TreeUnchanged, RunningFacts DEF RunInv
<1>8. WalkInv' /\ PlaceInv'
  <2>1. Slots' = Slots
    BY SameSlots DEF Slots, R!Slots, R!AliveBlockCount
  <2> QED
    BY <2>1, <1>1, <1>2, <1>3, RunningFacts
       DEF RunInv, WalkInv, DfsWalkInv, PlaceInv, rpoState
<1> QED
  BY <1>1, <1>3, <1>5, <1>6, <1>7, <1>8, RunningFacts
     DEF BuildInv, RunInv, MarkerHeld, EndInv, treeState

(* The end of a walk: what it did not find is what the block dominates,    *)
(* itself excepted.                                                        *)
LEMMA NotFoundIsDominated ==
  ASSUME BuildInv, outcome = "running", pc = "dfs", D!DfsDone, Connected
  PROVE  /\ rpoVector[pos] \in Blocks \ {Start}
         /\ NotFound = StrictlyDominated(rpoVector[pos])
<1> DEFINE c == rpoVector[pos]
<1>1. /\ TP!DfsInv /\ removed = {c} /\ pos \in Slots \ {0} /\ 0 \in Slots
      /\ VectorDone
  <2>1. dfsVector # <<>>
    BY DEF D!DfsDone
  <2>2. pos > 0 /\ pos \in Slots /\ DfsWalkInv /\ VectorDone
    BY RunningFacts DEF RunInv, WalkInv, PlaceInv, TreeInv
  <2>3. 0 \in Slots
    BY <2>2, SameSlots, RunningFacts
  <2> QED
    BY <2>1, <2>2, <2>3 DEF DfsWalkInv, TP!DfsInit
<1>2. c \in Blocks \ {Start}
  BY <1>1 DEF VectorDone
<1>3. D!Found = ReachableAvoiding(succs, Start, {c})
  BY <1>1, DfsEnds
<1>4. NotFound = Blocks \ (ReachableAvoiding(succs, Start, {c}) \cup {c})
  BY <1>1, <1>3 DEF NotFound, VectorDone
<1> HIDE DEF c
<1>5. ASSUME NEW b \in Blocks
      PROVE  Dominates(c, b) <=> b \notin ReachableAvoiding(succs, Start, {c})
  BY <1>2, DominatesUnreachable, RunningFacts
<1>6. NotFound = StrictlyDominated(c)
  BY <1>2, <1>4, <1>5 DEF StrictlyDominated
<1> QED
  BY <1>2, <1>6 DEF c

(* So the results are known for one block more, and the marker is back. *)
LEMMA CalculateDominatedBlocksInv ==
  ASSUME BuildInv, CalculateDominatedBlocks
  PROVE  BuildInv'
<1> DEFINE c == rpoVector[pos]
<1>1. /\ outcome = "running" /\ pc = "dfs" /\ D!DfsDone /\ M!EraseMarker(marker)
      /\ dominatorsMap' = [b \in DOMAIN dominatorsMap |->
                             IF b \in NotFound THEN dominatorsMap[b] \cup {c}
                                               ELSE dominatorsMap[b]]
      /\ dominatedBlocks' = [dominatedBlocks EXCEPT ![c] = NotFound]
      /\ dfsVector' = <<>> /\ removed' = {} /\ pc' = "take" /\ pos' = pos + 1
      /\ UNCHANGED <<succs, marker, stack, rpoState, immediateDominator, builds>>
  BY DEF CalculateDominatedBlocks, Running
<1>2. /\ MP!MarkersInv' /\ live' = {} /\ UNCHANGED <<markerIndex, marks, outcome>>
  BY <1>1, MarkerFreed, RunningFacts DEF RunInv, BuildInv, MarkerHeld
<1>3. /\ pos \in Slots /\ pos > 0 /\ VectorDone /\ c # Null /\ c \in Blocks
      /\ stack = <<>>
  BY <1>1, RunningFacts
     DEF RunInv, PlaceInv, TreeInv, WalkInv, VectorDone, D!DfsDone
<1>4. VectorDone' /\ (Connected' <=> Connected) /\ Dominance' = Dominance
  <2>1. VectorDone'
    BY <1>1, <1>3, SameGraph DEF VectorDone, rpoState
  <2> QED
    BY <2>1, <1>1, SameGraph
<1>5. /\ Cardinality(Blocks) \in Nat /\ Slots = 0 .. Cardinality(Blocks) - 1
      /\ Slots' = Slots
  BY <1>1, RunningFacts, SameSlots DEF Slots, R!Slots, R!AliveBlockCount
<1>6. TypeOK'
  <2>1. colors' \subseteq Colors
    BY <1>1 DEF M!EraseMarker, BuildInv, TypeOK
  <2>2. NotFound \subseteq Blocks \cup {Null}
    BY <1>3 DEF NotFound, VectorDone
  <2>3. dominatedBlocks' \in [Blocks -> SUBSET (Blocks \cup {Null})]
    BY <2>2, <1>1 DEF BuildInv, TypeOK
  <2>4. /\ DOMAIN dominatorsMap' \subseteq Blocks \cup {Null}
        /\ \A b \in DOMAIN dominatorsMap' : dominatorsMap'[b] \subseteq Blocks
    BY <1>1, <1>3 DEF BuildInv, TypeOK
  <2>5. pos' \in 0 .. Cardinality(Blocks)
    BY <1>1, <1>3, <1>5
  <2> QED
    BY <2>1, <2>3, <2>4, <2>5, <1>1, <1>2, RunningFacts DEF TypeOK
<1>7. ASSUME Connected PROVE Results'
  <2>1. Results /\ c \in Blocks \ {Start} /\ NotFound = StrictlyDominated(c)
    BY <1>1, <1>7, NotFoundIsDominated, RunningFacts DEF RunInv, TreeInv
  <2>2. Known' = Known \cup {c}
    <3>1. {j \in Slots : pc' \in {"take", "remove", "dfs"} => j < pos'} =
            {j \in Slots : pc \in {"take", "remove", "dfs"} => j < pos} \cup {pos}
      BY <1>1, <1>3, <1>5
    <3>2. Known' = {rpoVector[i] : i \in {j \in Slots :
                      pc' \in {"take", "remove", "dfs"} => j < pos'}}
      BY <1>1, <1>5 DEF Known, rpoState
    <3> HIDE DEF c
    <3> QED
      BY <3>1, <3>2 DEF Known, c
  <2> HIDE DEF c
  <2>3. \A d, b : Dominates(d, b)' <=> Dominates(d, b)
    BY <1>4 DEF Dominates
  <2>4. \A d : StrictlyDominated(d)' = StrictlyDominated(d)
    BY <2>3 DEF StrictlyDominated
  <2>5. DOMAIN dominatorsMap' = Blocks \ {Start}
    BY <1>1, <2>1 DEF Results
  <2>6. ASSUME NEW b \in Blocks \ {Start}
        PROVE  dominatorsMap'[b] = {d \in Known' : Dominates(d, b)' /\ d # b}
    <3>1. dominatorsMap[b] = {d \in Known : Dominates(d, b) /\ d # b}
      BY <2>1 DEF Results
    <3>2. b \in NotFound <=> Dominates(c, b) /\ c # b
      BY <2>1 DEF StrictlyDominated
    <3>3. dominatorsMap'[b] = IF b \in NotFound THEN dominatorsMap[b] \cup {c}
                                                ELSE dominatorsMap[b]
      BY <1>1, <2>1 DEF Results
    <3> QED
      BY <3>1, <3>2, <3>3, <2>2, <2>3
  <2>7. ASSUME NEW d \in Known' PROVE dominatedBlocks'[d] = StrictlyDominated(d)
    <3>1. dominatedBlocks \in [Blocks -> SUBSET (Blocks \cup {Null})]
      BY DEF BuildInv, TypeOK
    <3>2. CASE d = c
      BY <3>1, <3>2, <1>1, <2>1
    <3>3. CASE d # c
      BY <3>1, <3>3, <1>1, <2>1, <2>2 DEF Results
    <3> QED
      BY <3>2, <3>3
  <2> QED
    BY <2>4, <2>5, <2>6, <2>7, <1>1 DEF Results
<1>8. RunInv'
  <2>1. WalkInv' /\ PlaceInv'
    BY <1>1, <1>3, <1>5 DEF WalkInv, NoWalk, PlaceInv
  <2> QED
    BY <2>1, <1>1, <1>2, <1>4, <1>7, RunningFacts DEF RunInv, TreeInv
<1> QED
  BY <1>1, <1>2, <1>6, <1>8 DEF BuildInv, MarkerHeld, EndInv

(* After the last block, all of them are known. *)
LEMMA EndOfLoopInv ==
  ASSUME BuildInv, EndOfLoop
  PROVE  BuildInv'
<1>1. /\ outcome = "running" /\ pc = "take" /\ pos \notin Slots /\ pc' = "idom" /\ pos' = 0
      /\ UNCHANGED <<markerState, succs, marker, stack, rpoState, dfsState, treeState>>
  BY DEF EndOfLoop, Running
<1>2. /\ Cardinality(Blocks) \in Nat /\ Slots = 0 .. Cardinality(Blocks) - 1
      /\ Slots' = Slots /\ pos \in 0 .. Cardinality(Blocks)
  BY <1>1, RunningFacts, SameSlots DEF Slots, R!Slots, R!AliveBlockCount, TypeOK
<1>3. VectorDone' /\ (Connected' <=> Connected) /\ Dominance' = Dominance
  <2>1. VectorDone'
    BY <1>1, SameGraph, RunningFacts DEF RunInv, TreeInv, VectorDone, rpoState
  <2> QED
    BY <2>1, <1>1, SameGraph
<1>4. Known' = Known
  <2>1. {j \in Slots : pc \in {"take", "remove", "dfs"} => j < pos} = Slots
    BY <1>1, <1>2
  <2>2. {j \in Slots : pc' \in {"take", "remove", "dfs"} => j < pos'} = Slots
    BY <1>1
  <2> QED
    BY <2>1, <2>2, <1>1, <1>2 DEF Known, rpoState
<1>5. ASSUME Connected PROVE Results'
  <2>1. Results
    BY <1>1, <1>5, RunningFacts DEF RunInv, TreeInv
  <2>2. \A d, b : Dominates(d, b)' <=> Dominates(d, b)
    BY <1>3 DEF Dominates
  <2>3. \A d : StrictlyDominated(d)' = StrictlyDominated(d)
    BY <2>2 DEF StrictlyDominated
  <2>4. \A j \in Slots : ~(j < pos')
    BY <1>1, <1>2
  <2> QED
    BY <2>1, <2>2, <2>3, <2>4, <1>1, <1>2, <1>4 DEF Results, treeState
<1>6. TypeOK'
  BY <1>1, <1>2 DEF BuildInv, TypeOK, markerState, treeState
<1>7. MP!MarkersInv'
  BY <1>1, RunningFacts
     DEF RunInv, MP!MarkersInv, MP!MarkersTypeOK, MP!LiveColorsDistinct, MP!NoFutureMarks,
         markerState
<1>8. RunInv'
  BY <1>1, <1>3, <1>5, <1>7, RunningFacts
     DEF RunInv, WalkInv, NoWalk, PlaceInv, TreeInv, markerState, treeState, dfsState
<1> QED
  BY <1>1, <1>6, <1>8 DEF BuildInv, MarkerHeld, EndInv, markerState

(* CalculateImmediateDominators finds the blocks of which the block at     *)
(* hand is the immediate dominator.                                        *)
LEMMA ImmediatelyDominatedFacts ==
  ASSUME BuildInv, outcome = "running", pc = "idom", Connected,
         NEW c \in Blocks, NEW b \in Blocks \ {Start}
  PROVE  b \in ImmediatelyDominated(c) <=> Immediate(c, b)
<1>1. Results /\ VectorDone /\ IsGraph
  BY RunningFacts DEF RunInv, TreeInv
<1>2. Known = Blocks
  BY <1>1 DEF Known, VectorDone
<1>3. /\ DOMAIN dominatorsMap = Blocks \ {Start}
      /\ dominatorsMap[b] = {d \in Blocks : Dominates(d, b) /\ d # b}
      /\ \A d \in Blocks :
           dominatedBlocks[d] = {x \in Blocks : Dominates(d, x) /\ (x # d \/ d = Start)}
  BY <1>1, <1>2 DEF Results, StrictlyDominated
<1>4. \A d \in Blocks : IsDominatesOver(d, c) <=> Dominates(d, c)
  BY <1>3, DominatesItself DEF IsDominatesOver
<1> QED
  BY <1>3, <1>4 DEF ImmediatelyDominated, Immediate

(* Every block is told its immediate dominator once, and no other. *)
LEMMA CalculateImmediateDominatorsInv ==
  ASSUME BuildInv, CalculateImmediateDominators
  PROVE  BuildInv'
<1> DEFINE c == rpoVector[pos]
<1>1. /\ outcome = "running" /\ pc = "idom" /\ pos \in Slots /\ c # Null
      /\ immediateDominator' =
           [b \in Blocks |-> IF b \in ImmediatelyDominated(c) THEN c
                                                              ELSE immediateDominator[b]]
      /\ pos' = pos + 1
      /\ UNCHANGED <<markerState, succs, marker, stack, rpoState, dfsState, dominatorsMap,
                     dominatedBlocks, pc, builds>>
  BY DEF CalculateImmediateDominators, Running
<1>2. /\ Cardinality(Blocks) \in Nat /\ Slots = 0 .. Cardinality(Blocks) - 1
      /\ Slots' = Slots
  BY <1>1, RunningFacts, SameSlots DEF Slots, R!Slots, R!AliveBlockCount
<1>3. /\ VectorDone /\ Connected /\ Results /\ IsGraph
  <2>1. VectorDone /\ (pos > 0 => Connected) /\ (Connected => Results)
    BY <1>1, RunningFacts DEF RunInv, PlaceInv, TreeInv
  <2>2. pos = 0 => Connected
    BY <2>1, <1>1 DEF VectorDone
  <2> QED
    BY <2>1, <2>2, <1>1, <1>2, RunningFacts
<1>4. VectorDone' /\ Connected' /\ Dominance' = Dominance
  <2>1. VectorDone'
    BY <1>1, <1>3, SameGraph DEF VectorDone, rpoState
  <2> QED
    BY <2>1, <1>1, <1>3, SameGraph
<1>5. c \in Blocks
  BY <1>1, <1>3 DEF VectorDone
<1>6. Known' = Known
  BY <1>1, <1>2 DEF Known, rpoState
<1> HIDE DEF c
<1>7. immediateDominator'[Start] = Null
  <2>1. Start \notin ImmediatelyDominated(c)
    BY <1>3 DEF ImmediatelyDominated, Results
  <2> QED
    BY <2>1, <1>1, RunningFacts, StartAssumption DEF RunInv
<1>8. ASSUME NEW j \in Slots, j < pos', NEW b \in Blocks \ {Start},
             Immediate(rpoVector[j], b)
      PROVE  immediateDominator'[b] = rpoVector[j]
  <2>1. CASE j = pos
    BY <2>1, <1>1, <1>3, <1>5, <1>8, ImmediatelyDominatedFacts DEF c
  <2>2. CASE j < pos
    <3>1. rpoVector[j] \in Blocks /\ rpoVector[j] # c
      BY <2>2, <1>1, <1>2, <1>3 DEF VectorDone, c
    <3>2. ~Immediate(c, b)
      BY <3>1, <1>3, <1>5, <1>8, ImmediateIsUnique
    <3>3. b \notin ImmediatelyDominated(c)
      BY <3>2, <1>1, <1>3, <1>5, ImmediatelyDominatedFacts
    <3>4. immediateDominator[b] = rpoVector[j]
      BY <2>2, <1>1, <1>3, <1>8 DEF Results
    <3> QED
      BY <3>3, <3>4, <1>1
  <2> QED
    BY <2>1, <2>2, <1>1, <1>2, <1>8
<1>9. Results'
  <2>1. \A d, b : Dominates(d, b)' <=> Dominates(d, b)
    BY <1>4 DEF Dominates
  <2>2. \A d : StrictlyDominated(d)' = StrictlyDominated(d)
    BY <2>1 DEF StrictlyDominated
  <2>3. \A d, b : Immediate(d, b)' <=> Immediate(d, b)
    BY <2>1 DEF Immediate
  <2>4. rpoVector' = rpoVector
    BY <1>1 DEF rpoState
  <2> QED
    BY <2>1, <2>2, <2>3, <2>4, <1>1, <1>2, <1>3, <1>6, <1>8 DEF Results
<1>10. TypeOK'
  <2>1. immediateDominator' \in [Blocks -> Blocks \cup {Null}]
    BY <1>1, <1>5 DEF BuildInv, TypeOK
  <2>2. pos' \in 0 .. Cardinality(Blocks)
    BY <1>1, <1>2
  <2> QED
    BY <2>1, <2>2, <1>1 DEF BuildInv, TypeOK, markerState
<1>11. MP!MarkersInv'
  BY <1>1, RunningFacts
     DEF RunInv, MP!MarkersInv, MP!MarkersTypeOK, MP!LiveColorsDistinct, MP!NoFutureMarks,
         markerState
<1>12. RunInv'
  <2>1. WalkInv' /\ PlaceInv'
    BY <1>1, <1>4, RunningFacts DEF RunInv, WalkInv, NoWalk, PlaceInv, dfsState
  <2> QED
    BY <2>1, <1>1, <1>4, <1>7, <1>9, <1>11, RunningFacts DEF RunInv, TreeInv, markerState
<1> QED
  BY <1>1, <1>10, <1>12 DEF BuildInv, MarkerHeld, EndInv, markerState

(* The assertion on a null block fails only when a block cannot be reached.*)
LEMMA ImmediateOfNullInv ==
  ASSUME BuildInv, ImmediateOfNull
  PROVE  BuildInv'
<1>1. /\ outcome = "running" /\ pc = "idom" /\ pos \in Slots /\ rpoVector[pos] = Null
      /\ Halt("assert")
  BY DEF ImmediateOfNull, Running
<1>2. ~Connected
  BY <1>1, RunningFacts DEF RunInv, TreeInv, VectorDone
<1> QED
  BY <1>1, <1>2, HaltInv

(* Where UNREACHABLE() is undefined behaviour, the program may end. *)
LEMMA WithoutEntryInv ==
  ASSUME BuildInv, DominatedWithoutEntry \/ ImmediateWithoutEntry
  PROVE  BuildInv'
<1>1. Halt("unreachable")
  BY DEF DominatedWithoutEntry, ImmediateWithoutEntry
<1> QED
  BY <1>1, HaltInv

(* Nothing changes what the last comparison left. *)
LEMMA EndOfBuildInv ==
  ASSUME BuildInv, EndOfBuild
  PROVE  BuildInv'
<1>1. /\ outcome = "running" /\ pc = "idom" /\ pos \notin Slots /\ pc' = "built"
      /\ UNCHANGED <<markerState, succs, marker, stack, rpoState, dfsState, treeState, pos>>
  BY DEF EndOfBuild, Running
<1>2. /\ Cardinality(Blocks) \in Nat \ {0} /\ Slots = 0 .. Cardinality(Blocks) - 1
      /\ Slots' = Slots /\ pos \in 0 .. Cardinality(Blocks)
  BY <1>1, RunningFacts, SameSlots, StartAssumption, DominatorTreeAssumption, FS_EmptySet
     DEF Slots, R!Slots, R!AliveBlockCount, TypeOK
<1>3. Connected /\ Results /\ VectorDone
  BY <1>1, <1>2, RunningFacts DEF RunInv, PlaceInv, TreeInv
<1>4. VectorDone' /\ Connected' /\ Dominance' = Dominance
  <2>1. VectorDone'
    BY <1>1, <1>3, SameGraph DEF VectorDone, rpoState
  <2> QED
    BY <2>1, <1>1, <1>3, SameGraph
<1>5. Results'
  <2>1. \A d, b : Dominates(d, b)' <=> Dominates(d, b)
    BY <1>4 DEF Dominates
  <2>2. /\ \A d : StrictlyDominated(d)' = StrictlyDominated(d)
        /\ \A d, b : Immediate(d, b)' <=> Immediate(d, b)
    BY <2>1 DEF StrictlyDominated, Immediate
  <2>3. Known' = Known
    BY <1>1, <1>2 DEF Known, rpoState
  <2> QED
    BY <2>1, <2>2, <2>3, <1>1, <1>2, <1>3 DEF Results, treeState, rpoState
<1>6. TypeOK'
  BY <1>1, <1>2 DEF BuildInv, TypeOK, markerState, treeState
<1>7. MP!MarkersInv'
  BY <1>1, RunningFacts
     DEF RunInv, MP!MarkersInv, MP!MarkersTypeOK, MP!LiveColorsDistinct, MP!NoFutureMarks,
         markerState
<1>8. RunInv'
  <2>1. WalkInv' /\ PlaceInv'
    BY <1>1, <1>2, <1>4, RunningFacts DEF RunInv, WalkInv, NoWalk, PlaceInv, dfsState
  <2> QED
    BY <2>1, <1>1, <1>4, <1>5, <1>7, RunningFacts
       DEF RunInv, TreeInv, markerState, treeState
<1> QED
  BY <1>1, <1>6, <1>8 DEF BuildInv, MarkerHeld, EndInv, markerState

(* A new branch leaves the marks and the walks as they are... *)
LEMMA ExtendGraphInv ==
  ASSUME BuildInv, ExtendGraph
  PROVE  BuildInv'
<1>1. /\ outcome = "running" /\ pc = "built" /\ pc' = "extended" /\ succs' \in CFGS
      /\ UNCHANGED <<markerState, marker, stack, rpoState, dfsState, treeState, pos>>
  BY DEF ExtendGraph, Running
<1>2. TypeOK'
  BY <1>1 DEF BuildInv, TypeOK, markerState, treeState
<1>3. MP!MarkersInv'
  BY <1>1, RunningFacts
     DEF RunInv, MP!MarkersInv, MP!MarkersTypeOK, MP!LiveColorsDistinct, MP!NoFutureMarks,
         markerState
<1>4. RunInv'
  BY <1>1, <1>3, RunningFacts
     DEF RunInv, WalkInv, NoWalk, PlaceInv, TreeInv, markerState, treeState, dfsState
<1> QED
  BY <1>1, <1>2, <1>4 DEF BuildInv, MarkerHeld, EndInv, markerState

(* ... and the next Build starts from them. *)
LEMMA BuildAgainInv ==
  ASSUME BuildInv, BuildAgain
  PROVE  BuildInv'
<1>1. /\ outcome = "running" /\ pc \in {"built", "extended"} /\ pc' = "begin"
      /\ dominatorsMap' = [b \in {} |-> {}]
      /\ blockCount' = 0 /\ rpoVector' = <<>> /\ pos' = 0
      /\ UNCHANGED <<markerState, succs, marker, stack, dfsState, dominatedBlocks,
                     immediateDominator>>
  BY DEF BuildAgain, Running
<1>2. TypeOK'
  BY <1>1, RunningFacts DEF BuildInv, TypeOK, markerState
<1>3. MP!MarkersInv'
  BY <1>1, RunningFacts
     DEF RunInv, MP!MarkersInv, MP!MarkersTypeOK, MP!LiveColorsDistinct, MP!NoFutureMarks,
         markerState
<1>4. RunInv'
  BY <1>1, <1>3, RunningFacts
     DEF RunInv, WalkInv, NoWalk, PlaceInv, TreeInv, markerState, dfsState
<1> QED
  BY <1>1, <1>2, <1>4 DEF BuildInv, MarkerHeld, EndInv, markerState

(* A step that changes nothing keeps everything. *)
LEMMA StutterInv ==
  ASSUME BuildInv, UNCHANGED vars
  PROVE  BuildInv'
<1>1. /\ UNCHANGED <<markerState, succs, marker, stack, rpoState, dfsState, treeState,
                     pc, pos>>
  BY DEF vars
<1>2. /\ Connected' <=> Connected
      /\ \A d, b : Dominates(d, b)' <=> Dominates(d, b)
  BY <1>1, SameGraph DEF Dominates
<1>3. Slots' = Slots
  BY SameSlots DEF Slots, R!Slots, R!AliveBlockCount
<1>4. TypeOK' /\ MarkerHeld' /\ EndInv'
  BY <1>1, <1>2
     DEF BuildInv, TypeOK, MarkerHeld, EndInv, markerState, treeState
<1>5. ASSUME outcome = "running" PROVE RunInv'
  <2>1. MP!MarkersInv' /\ markerIndex' < MAX_MARKER_INDEX
    BY <1>1, <1>5
       DEF BuildInv, RunInv, MP!MarkersInv, MP!MarkersTypeOK, MP!LiveColorsDistinct,
           MP!NoFutureMarks, markerState
  <2>2. pc = "rpo" => RpoWalkInv'
    <3> SUFFICES ASSUME pc = "rpo" PROVE RpoWalkInv'
      OBVIOUS
    <3>1. TP!RpoInv /\ TP!CallersInv /\ dfsVector = <<>> /\ removed = {}
      BY <1>5, RpoBegins, RunningFacts DEF RunInv, WalkInv, RpoWalkInv
    <3>2. UNCHANGED <<succs, marks, marker, stack, blockCount, rpoVector>>
      BY <1>1 DEF markerState, rpoState
    <3>3. TP!RpoInv'
      BY <3>1, <3>2, TP!RpoInvNext, SameMarks, SameAssumptions, IndexValuesAssumption,
         StartAssumption, CfgsAssumption, DominatorTreeAssumption DEF TP!rpoVars
    <3>4. TP!CallersInv'
      BY <3>1, <3>2 DEF TP!CallersInv, TP!CallsFollowEdges, TP!CallersAhead,
                        TP!CallerKnown, TP!Walked
    <3> QED
      BY <3>1, <3>3, <3>4, <1>1 DEF RpoWalkInv, dfsState
  <2>3. pc = "dfs" => DfsWalkInv'
    <3> SUFFICES ASSUME pc = "dfs" PROVE DfsWalkInv'
      OBVIOUS
    <3>1. DfsWalkInv
      BY <1>5, RunningFacts DEF RunInv, WalkInv
    <3>2. UNCHANGED <<succs, marks, marker, stack, dfsVector, removed, rpoVector, pos>>
      BY <1>1 DEF markerState, dfsState, rpoState
    <3>3. TP!DfsInv => TP!DfsInv'
      BY <3>2, TP!DfsInvNext, SameMarks, SameAssumptions, IndexValuesAssumption,
         StartAssumption, CfgsAssumption, DominatorTreeAssumption
         DEF TP!dfsVars
    <3> QED
      BY <3>1, <3>2, <3>3 DEF DfsWalkInv, TP!DfsInit
  <2>4. WalkInv' /\ PlaceInv'
    BY <2>2, <2>3, <1>1, <1>2, <1>3, <1>5, RunningFacts
       DEF RunInv, WalkInv, NoWalk, PlaceInv, markerState, rpoState, dfsState
  <2>5. TreeInv'
    <3>1. /\ Known' = Known
          /\ \A d : StrictlyDominated(d)' = StrictlyDominated(d)
          /\ \A d, b : Immediate(d, b)' <=> Immediate(d, b)
      BY <1>1, <1>2, <1>3 DEF Known, StrictlyDominated, Immediate, rpoState
    <3>2. VectorDone' <=> VectorDone
      BY <1>1, <1>2, <1>3 DEF VectorDone, rpoState
    <3>3. Results => Results'
      BY <3>1, <1>1, <1>2, <1>3 DEF Results, rpoState, treeState
    <3> QED
      BY <3>2, <3>3, <1>1, <1>2, <1>5, RunningFacts DEF RunInv, TreeInv
  <2> QED
    BY <2>1, <2>4, <2>5, <1>1, <1>5, RunningFacts DEF RunInv, treeState
<1> QED
  BY <1>1, <1>4, <1>5 DEF BuildInv, markerState

(* Every step of Build, and between builds, keeps the invariant. *)
LEMMA BuildInvNext == BuildInv /\ [Next]_vars => BuildInv'
BY RunRpoInv, RpoWalkKeeps, StartTreeInv, TakeMarkerInv, TakeBlockOutInv, TakeNullOutInv,
   DfsWalkKeeps, CalculateDominatedBlocksInv, WithoutEntryInv, EndOfLoopInv,
   CalculateImmediateDominatorsInv, ImmediateOfNullInv, EndOfBuildInv, ExtendGraphInv,
   BuildAgainInv, StutterInv
   DEF Next, BuildStep

(* The invariant holds in every behaviour. *)
THEOREM BuildInvariant == Spec => []BuildInv
<1>1. Init => BuildInv
  BY BuildInvInit
<1>2. BuildInv /\ [Next]_vars => BuildInv'
  BY BuildInvNext
<1> QED
  BY <1>1, <1>2, PTL DEF Spec

(* The types of the analysis, its results and the structures it shares     *)
(* with the walks.                                                         *)
THEOREM BuildTypes == Spec => []TypeOK
<1>1. BuildInv => TypeOK
  BY DEF BuildInv
<1> QED
  BY <1>1, BuildInvariant, PTL
-----------------------------------------------------------------------------
(* Build gives its markers back: one per walk, and none between two walks, *)
(* so that a pass can build the tree as often as it likes.                 *)
THEOREM BuildGivesMarkersBack == Spec => []MarkersGivenBack
<1>1. BuildInv => MarkersGivenBack
  <2> SUFFICES ASSUME BuildInv PROVE MarkersGivenBack
    OBVIOUS
  <2>1. live = {} \/ live = {marker}
    BY DEF BuildInv, MarkerHeld
  <2>2. Cardinality({}) = 0 /\ Cardinality({marker}) = 1
    BY FS_EmptySet, FS_Singleton
  <2> QED
    BY <2>1, <2>2 DEF BuildInv, MarkerHeld, MarkersGivenBack
<1> QED
  BY <1>1, BuildInvariant, PTL

(* Build returns only on a graph whose blocks can all be reached; a null   *)
(* dereference, or a failed assertion while indexes are left, happens only *)
(* on others.                                                              *)
THEOREM BuildChecksTheGraph == Spec => []BuildNeedsConnectedGraph
<1>1. BuildInv => BuildNeedsConnectedGraph
  BY DEF BuildInv, EndInv, RunInv, PlaceInv, BuildNeedsConnectedGraph, Built
<1> QED
  BY <1>1, BuildInvariant, PTL

(* What a state after Build has. *)
LEMMA BuiltFacts ==
  ASSUME BuildInv, Built
  PROVE  /\ IsGraph /\ VectorDone /\ Connected
         /\ \A d \in Blocks : dominatedBlocks[d] = StrictlyDominated(d)
         /\ immediateDominator[Start] = Null
         /\ \A b \in Blocks \ {Start}, d \in Blocks :
              Immediate(d, b) => immediateDominator[b] = d
<1>1. /\ outcome = "running" /\ pc = "built" /\ RunInv /\ IsGraph /\ TypeOK
      /\ Cardinality(Blocks) \in Nat
  BY RunningFacts DEF Built
<1>2. /\ Connected /\ VectorDone /\ Results /\ pos \notin Slots
      /\ immediateDominator[Start] = Null
  BY <1>1 DEF RunInv, PlaceInv, TreeInv
<1>3. Known = Blocks
  BY <1>1, <1>2 DEF Known, VectorDone
<1>4. \A j \in Slots : j < pos
  BY <1>1, <1>2, SameSlots DEF TypeOK
<1>5. ASSUME NEW b \in Blocks \ {Start}, NEW d \in Blocks, Immediate(d, b)
      PROVE  immediateDominator[b] = d
  <2>1. PICK j \in Slots : rpoVector[j] = d
    BY <1>2 DEF VectorDone
  <2> QED
    BY <2>1, <1>1, <1>2, <1>4, <1>5 DEF Results
<1> QED
  BY <1>1, <1>2, <1>3, <1>5 DEF Results

(* Build finds of every block exactly the blocks it strictly dominates, by *)
(* the definition of dominance on paths.                                   *)
THEOREM BuildFindsDominatedBlocks == Spec => []DominatedBlocksCorrect
<1>1. BuildInv => DominatedBlocksCorrect
  BY BuiltFacts DEF DominatedBlocksCorrect, StrictlyDominated, Dominates
<1> QED
  BY <1>1, BuildInvariant, PTL

(* A block comes after its dominators in the order of RPO. *)
THEOREM BuildOrdersDominators == Spec => []DominatorsComeFirst
<1>1. BuildInv => DominatorsComeFirst
  <2> SUFFICES ASSUME BuildInv, Built, NEW d \in Blocks,
                      NEW b \in dominatedBlocks[d] \ {d}
               PROVE  R!Position(d) < R!Position(b)
    BY DEF DominatorsComeFirst
  <2>1. /\ IsGraph /\ VectorDone /\ Connected /\ b \in Blocks /\ Dominates(d, b)
    BY BuiltFacts DEF StrictlyDominated
  <2>2. \A x \in Blocks : R!Position(x) \in Slots /\ rpoVector[R!Position(x)] = x
    <3> TAKE x \in Blocks
    <3>1. \E i \in Slots : rpoVector[i] = x
      BY <2>1 DEF VectorDone
    <3> QED
      BY <3>1, SameSlots DEF R!Position
  <2>3. R!Position(d) <= R!Position(b)
    BY <2>1, <2>2, NoDominatorBehind
  <2>4. R!Position(d) # R!Position(b)
    BY <2>1, <2>2
  <2> QED
    BY <2>1, <2>2, <2>3, <2>4, SameSlots
<1> QED
  BY <1>1, BuildInvariant, PTL

(* Build finds of every block but the root the immediate dominator: the    *)
(* strict dominator that all the others dominate.                          *)
THEOREM BuildFindsImmediateDominators == Spec => []ImmediateDominatorsCorrect
<1>1. BuildInv => ImmediateDominatorsCorrect
  <2> SUFFICES ASSUME BuildInv, Built
               PROVE  /\ immediateDominator[Start] = Null
                      /\ \A b \in Blocks \ {Start} :
                           /\ immediateDominator[b] # b
                           /\ Dominators(Dominance, b) =
                                {b} \cup Dominators(Dominance, immediateDominator[b])
    BY DEF ImmediateDominatorsCorrect
  <2>1. /\ IsGraph /\ VectorDone /\ Connected /\ immediateDominator[Start] = Null
        /\ \A b \in Blocks \ {Start}, d \in Blocks :
             Immediate(d, b) => immediateDominator[b] = d
    BY BuiltFacts
  <2>2. ASSUME NEW b \in Blocks \ {Start}
        PROVE  /\ immediateDominator[b] # b
               /\ Dominators(Dominance, b) =
                    {b} \cup Dominators(Dominance, immediateDominator[b])
    <3>1. PICK d \in Blocks : Immediate(d, b)
      BY <2>1, ImmediateExists
    <3>2. immediateDominator[b] = d /\ d # b /\ Dominates(d, b)
      BY <2>1, <3>1 DEF Immediate
    <3>3. \A c \in Blocks : Dominates(c, b) <=> c = b \/ Dominates(c, d)
      BY <3>1, <3>2, DominatesItself, DominatesTransitive DEF Immediate
    <3>4. \A x : Dominators(Dominance, x) = {c \in Blocks : Dominates(c, x)}
      BY DEF Dominators, Dominates
    <3> QED
      BY <3>2, <3>3, <3>4
  <2> QED
    BY <2>1, <2>2
<1> QED
  BY <1>1, BuildInvariant, PTL
=============================================================================
