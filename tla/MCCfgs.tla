------------------------------ MODULE MCCfgs -------------------------------
(***************************************************************************)
(* The graphs of the instances: blocks are 1 .. N and block 1 is the start *)
(* block.                                                                  *)
(*                                                                         *)
(* Nothing in the analyses depends on the identity of a block, so a graph  *)
(* and the same graph with other names behave alike, and what unreachable  *)
(* blocks jump to is never looked at.  CanonicalCfgs keeps one graph of    *)
(* each class: blocks are numbered in the order a depth-first walk finds   *)
(* them, and the unreachable ones, last, have no successors.               *)
(***************************************************************************)
EXTENDS Integers, Sequences, FiniteSets

CONSTANT N     \* how many blocks the graphs have

BlockIds == 1 .. N

SuccLists == UNION {[1 .. n -> BlockIds] : n \in 0 .. 2}

AllCfgs == [BlockIds -> SuccLists]

(* Preorder(g)[k]: the blocks a walk from block 1 finds, in order; the     *)
(* pending successors are kept on a list, the next one first.              *)
RECURSIVE Preorder(_, _, _)
Preorder(g, found, pending) ==
  IF pending = <<>> THEN found
  ELSE LET b == Head(pending)
       IN IF \E i \in 1 .. Len(found) : found[i] = b
          THEN Preorder(g, found, Tail(pending))
          ELSE Preorder(g, Append(found, b), g[b] \o Tail(pending))

IsCanonical(g) ==
  LET found == Preorder(g, <<>>, <<1>>)
  IN  /\ \A k \in 1 .. Len(found) : found[k] = k
      /\ \A b \in Len(found) + 1 .. N : g[b] = <<>>

CanonicalCfgs == {g \in AllCfgs : IsCanonical(g)}

(* Every block can be reached from block 1. *)
ConnectedCfgs == {g \in CanonicalCfgs : Len(Preorder(g, <<>>, <<1>>)) = N}

(* No branch has the same target twice. *)
PlainCfgs ==
  {g \in ConnectedCfgs : \A b \in BlockIds : Len(g[b]) = 2 => g[b][1] # g[b][2]}

EdgeCount(g) == Cardinality({<<b, i>> \in BlockIds \X {1, 2} : i <= Len(g[b])})
=============================================================================
