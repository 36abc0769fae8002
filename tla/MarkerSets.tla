----------------------------- MODULE MarkerSets -----------------------------
(***************************************************************************)
(* What a marker promises to the traversals that use one: a marker is a    *)
(* set of blocks that is empty when the marker is handed out, that only    *)
(* its own SetMarker and EraseMarker change, and that is forgotten when    *)
(* the marker is given back.  At most Limit of them exist at a time.       *)
(* Markers.tla implements this with one index per color in every block.    *)
(***************************************************************************)
EXTENDS Integers, FiniteSets

CONSTANTS Blocks, MarkerNames, Limit

VARIABLE members    \* members[m], for a marker m in use: the blocks in it

Init == members = [m \in {} |-> {}]

Create ==
  \E m \in MarkerNames \ DOMAIN members :
    /\ Cardinality(DOMAIN members) < Limit
    /\ members' = [x \in DOMAIN members \cup {m} |->
                     IF x = m THEN {} ELSE members[x]]

Free(m) == members' = [x \in DOMAIN members \ {m} |-> members[x]]

Insert(m, b) == members' = [members EXCEPT ![m] = @ \cup {b}]

Delete(m, b) == members' = [members EXCEPT ![m] = @ \ {b}]

DeleteAll(b) == members' = [x \in DOMAIN members |-> members[x] \ {b}]

Next ==
  \/ Create
  \/ \E m \in DOMAIN members :
       \/ Free(m)
       \/ \E b \in Blocks : Insert(m, b) \/ Delete(m, b)
  \/ \E b \in Blocks : DeleteAll(b)

Spec == Init /\ [][Next]_members
=============================================================================
