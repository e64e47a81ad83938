---------------------------- MODULE AtLeastOnce ----------------------------
(***************************************************************************)
(* What a worker and the server promise together about a job, without      *)
(* streams, leases, acks or shutdown: it is handled at least once, by      *)
(* handlers that may overlap, and is closed once, as done only after one   *)
(* of them resolved and as dead only after one of them threw.              *)
(***************************************************************************)
CONSTANTS Jobs

VARIABLES
  state,    \* open, done or dead
  outcomes  \* how its handlers have ended so far

vars == <<state, outcomes>>

Init == state = [j \in Jobs |-> "open"] /\ outcomes = [j \in Jobs |-> {}]

\* A handler of job j ends, whether or not the job is still open.
Handle(j, outcome) ==
  /\ outcomes' = [outcomes EXCEPT ![j] = @ \cup {outcome}]
  /\ UNCHANGED state

\* The server closes jobs, several at once for a bulk ack.
Close(S) ==
  /\ \A j \in S : state[j] = "open"
  /\ \A j \in S : \/ state'[j] = "done" /\ "resolved" \in outcomes[j]
                  \/ state'[j] = "dead" /\ "threw" \in outcomes[j]
  /\ state' \in [Jobs -> {"open", "done", "dead"}]
  /\ \A j \in Jobs \ S : state'[j] = state[j]
  /\ UNCHANGED outcomes

Next ==
  \/ \E j \in Jobs, outcome \in {"resolved", "threw"} : Handle(j, outcome)
  \/ \E S \in SUBSET Jobs : Close(S)

Spec == Init /\ [][Next]_vars

=============================================================================
