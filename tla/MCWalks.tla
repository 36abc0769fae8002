------------------------------ MODULE MCWalks ------------------------------
(***************************************************************************)
(* DFS on every graph of MCCfgs with up to two blocks taken out, on stale  *)
(* marks, and then RPO with another marker on the marks that DFS has left, *)
(* as when DominatorTree::Build is called again.                           *)
(***************************************************************************)
EXTENDS Dfs, Rpo, MCCfgs

(* The second color and then the first one, indexes 2 and 3, of a manager  *)
(* with four indexes.                                                      *)
DfsMarkers == {2 * 4 + 1}
RpoMarker == 3 * 4

(* The blocks taken out, two at most, carry the marker of DFS; the rest    *)
(* has marks of index 1 from an earlier traversal.                         *)
MarkTables ==
  {[b \in BlockIds |-> [c \in 0 .. 3 |-> IF b \in R /\ c = 1 THEN 2 ELSE 1]] :
     R \in {S \in SUBSET BlockIds : Cardinality(S) <= 2}}

(* blockCount is not set before RPO runs, which sets it.                   *)
WalksInit == DfsInit /\ rpoVector = <<>> /\ blockCount = AliveBlockCount

TakeRpoMarker ==
  /\ DfsDone /\ marker # RpoMarker /\ marker' = RpoMarker
  /\ UNCHANGED <<succs, marks, stack, dfsVector, removed, blockCount, rpoVector>>

WalksNext ==
  \/ marker # RpoMarker /\ DfsNext /\ UNCHANGED <<blockCount, rpoVector>>
  \/ TakeRpoMarker
  \/ marker = RpoMarker /\ RpoNext /\ UNCHANGED <<dfsVector, removed>>

WalksSpec == WalksInit /\ [][WalksNext]_<<dfsVars, blockCount, rpoVector>>
=============================================================================
