---------------------------- MODULE MCTakeStream ----------------------------
(* Short and long jobs; a byte has two values, so a length needs two of them. *)
EXTENDS TakeStream

MCSize == [k \in {"short", "long"} |-> IF k = "short" THEN 1 ELSE 5]
=============================================================================
