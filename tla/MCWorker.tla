------------------------------ MODULE MCWorker ------------------------------
(* TLC instances of Worker: deliveries are interchangeable model values. *)
EXTENDS WorkerProps, TLC

TaskSymmetry == Permutations(Tasks)

=============================================================================
