---- MODULE MCInsnList ----
(* Blocks of at most four instructions. *)
EXTENDS InsnList
====
