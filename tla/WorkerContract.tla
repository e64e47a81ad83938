--------------------------- MODULE WorkerContract ---------------------------
(***************************************************************************)
(* What one call of Worker.run() promises its caller and the server,       *)
(* without streams, promises, buffers or shutdown coroutines: jobs start   *)
(* below a limit and only while nothing was asked of the worker, end once, *)
(* are acked in batches, and a run that was stopped but not killed returns *)
(* only when no job is running and no ack is owed.                         *)
(***************************************************************************)
EXTENDS Naturals, FiniteSets

CONSTANTS Jobs, Limit

VARIABLES
  mode,   \* what the run is doing
  job     \* what became of each delivered job

vars == <<mode, job>>

Running == {j \in Jobs : job[j] = "running"}
Owed    == {j \in Jobs : job[j] = "owed"}

Init == mode = "off" /\ job = [j \in Jobs |-> "new"]

Begin == mode = "off" /\ mode' = "on" /\ UNCHANGED job

\* Stop or kill; kill overrides stop, and neither undoes the other.
Ask(m) == /\ \/ mode = "on" /\ m \in {"stopping", "killed"}
             \/ mode = "stopping" /\ m = "killed"
          /\ mode' = m
          /\ UNCHANGED job

Start(j) == /\ mode = "on"
            /\ job[j] = "new"
            /\ Cardinality(Running) < Limit
            /\ job' = [job EXCEPT ![j] = "running"]
            /\ UNCHANGED mode

\* The handler resolved, and an ack is owed, or its failure was reported.
Finish(j) == /\ job[j] = "running"
             /\ \E outcome \in {"owed", "over"} : job' = [job EXCEPT ![j] = outcome]
             /\ UNCHANGED mode

\* One bulk request settles some of the acks that are owed.
Settle == /\ \E S \in (SUBSET Owed) \ {{}} :
               job' = [j \in Jobs |-> IF j \in S THEN "over" ELSE job[j]]
          /\ UNCHANGED mode

\* run() returns: at once when killed, drained when stopped.
Return == /\ \/ mode = "killed"
             \/ mode = "stopping" /\ Running = {} /\ Owed = {}
          /\ mode' = "over"
          /\ UNCHANGED job

\* run() throws, on a refused take request.
Throw == mode = "on" /\ mode' = "threw" /\ UNCHANGED job

Next == \/ Begin \/ Return \/ Throw \/ Settle
        \/ \E m \in {"stopping", "killed"} : Ask(m)
        \/ \E j \in Jobs : Start(j) \/ Finish(j)

Spec == Init /\ [][Next]_vars

=============================================================================
