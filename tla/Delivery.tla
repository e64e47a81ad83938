------------------------------ MODULE Delivery ------------------------------
(***************************************************************************)
(* One run of the worker (module Worker) with the server it takes jobs     *)
(* from: leases, prefetch, streams that break, requests that are applied   *)
(* although their answer is lost, refused acks, nacks that arrive when the *)
(* job is already in other hands.                                          *)
(*                                                                         *)
(* The server is external: it hands a ready job to the open stream while   *)
(* fewer than Prefetch are unacknowledged there, takes the jobs of a       *)
(* stream back some time after it closed, and accepts acks and nacks by    *)
(* job, whichever delivery they come from.                                 *)
(***************************************************************************)
EXTENDS Worker

CONSTANTS
  Jobs,       \* the jobs of the queue
  Prefetch,   \* WorkerOptions.prefetch
  MaxFaults   \* bound: handlers that throw, broken streams, lost and refused requests

ASSUME PrefetchAssumption == Prefetch \in Nat \ {0}
ASSUME MaxFaultsAssumption == MaxFaults \in Nat

VARIABLES
  status,    \* of each job at the server: ready, leased, done or dead
  sent,      \* jobs written to the stream that the worker has not read
  orphaned,  \* leased jobs of a stream that closed and was not cleaned up yet
  of,        \* the job of each delivery
  faults,    \* how many faults have happened
  excused,   \* history: jobs leased when the stream broke or the worker was killed
  refused    \* history: jobs whose ack the server refused with a 4xx

serverVars == <<status, sent, orphaned, of, faults, excused, refused>>
allVars == <<vars, serverVars>>

NoJob == "no job"
Leased(s) == {j \in Jobs : s[j] = "leased"}

\* The worker's side of the stream is open.
Connected == loop \in {"reading", "racing"} /\ ~streamAborted

DeliveryInit ==
  /\ Init
  /\ status = [j \in Jobs |-> "ready"]
  /\ sent = {} /\ orphaned = {}
  /\ of = [t \in Tasks |-> NoJob]
  /\ faults = 0 /\ excused = {} /\ refused = {}

Fault == faults < MaxFaults /\ faults' = faults + 1

\* The server's state becomes s, in a step that may also close the stream.
Becomes(s) ==
  /\ status' = s
  /\ orphaned' = {j \in Leased(s) : j \in orphaned \/ ~Connected'}
  /\ sent' = IF Connected' THEN sent ELSE {}
  /\ excused' = IF Connected /\ ~Connected' /\ (killing' \/ ~streamAborted')
                THEN excused \cup Leased(status) ELSE excused

Same == Becomes(status)

-----------------------------------------------------------------------------
(* Jobs go out *)

HandOut(j) ==
  /\ Connected
  /\ status[j] = "ready"
  /\ Cardinality(Leased(status) \ orphaned) < Prefetch
  /\ status' = [status EXCEPT ![j] = "leased"]
  /\ sent' = sent \cup {j}
  /\ UNCHANGED <<vars, orphaned, of, faults, excused, refused>>

\* The worker reads a job: a new delivery, or skipped because it is stopping.
Deliver(j) ==
  LET t == CHOOSE u \in Tasks : task[u] = "unseen"
  IN /\ j \in sent /\ \E u \in Tasks : task[u] = "unseen"
     /\ Receive(t)
     /\ of' = [of EXCEPT ![t] = j]
     /\ sent' = sent \ {j}
     /\ UNCHANGED <<status, orphaned, faults, excused, refused>>

Skip(j) ==
  /\ j \in sent /\ Connected /\ loop = "reading" /\ aborted
  /\ sent' = sent \ {j}
  /\ UNCHANGED <<vars, status, orphaned, of, faults, excused, refused>>

\* The server notices that a stream is closed.
Requeue(j) ==
  /\ j \in orphaned
  /\ status' = [status EXCEPT ![j] = "ready"]
  /\ orphaned' = orphaned \ {j}
  /\ UNCHANGED <<vars, sent, of, faults, excused, refused>>

\* The stream breaks, or the server closes it.
Breaks ==
  /\ (~streamAborted /\ Disconnects) \/ StreamEnds
  /\ Fault /\ Same
  /\ UNCHANGED <<of, refused>>

TakeRefused ==
  /\ TakeRejected /\ Fault /\ Same
  /\ UNCHANGED <<of, refused>>

-----------------------------------------------------------------------------
(* Jobs come back *)

JobsOf(S) == {of[t] : t \in S}

\* The server applies an ack: jobs it has not leased to anyone are reported as
\* not in flight (422) and stay as they are.
Done(S) == [j \in Jobs |-> IF j \in S /\ status[j] = "leased" THEN "done" ELSE status[j]]

Acked(f) ==
  /\ AckAnswered(f)
  /\ Becomes(Done(JobsOf(batch[f])))
  /\ UNCHANGED <<of, faults, refused>>

\* The whole request is refused with another 4xx, and withRetry drops it.
AckRefused(f) ==
  /\ AckAnswered(f) /\ Fault
  /\ Same
  /\ refused' = refused \cup JobsOf(batch[f])
  /\ UNCHANGED of

\* The request fails, and the server may have applied it.
AckLost(f) ==
  /\ AckFails(f) /\ Fault
  /\ \E s \in {status, Done(JobsOf(batch[f]))} : Becomes(s)
  /\ UNCHANGED <<of, refused>>

\* A nack makes the job ready again, or dead when it was its last attempt.
Nacked(j) ==
  IF status[j] # "leased" THEN {status}
  ELSE {[status EXCEPT ![j] = next] : next \in {"ready", "dead"}}

NackApplied(t) ==
  /\ NackAnswered(t)
  /\ \E s \in Nacked(of[t]) : Becomes(s)
  /\ UNCHANGED <<of, faults, refused>>

NackLost(t) ==
  /\ NackFails(t) /\ Fault
  /\ \E s \in {status} \cup Nacked(of[t]) : Becomes(s)
  /\ UNCHANGED <<of, refused>>

Throws(t) ==
  /\ HandlerThrows(t) /\ Fault
  /\ Same
  /\ UNCHANGED <<of, refused>>

-----------------------------------------------------------------------------
\* Steps of the worker the server has no part in, but for a stream they close.
WorkerStep ==
  /\ \/ Run \/ TakeOpens \/ (streamAborted /\ Disconnects)
     \/ BackoffElapses \/ RaceWakes \/ RunReturns
     \/ \E t \in Tasks : HandlerResolves(t) \/ NackRetried(t)
                         \/ TaskRemoved(t) \/ ImmediateFires(t)
     \/ \E r \in Runs : DrainWakes(r) \/ ShutdownFlush(r)
     \/ \E f \in Flushers : AckRetried(f)
  /\ Same
  /\ UNCHANGED <<of, faults, refused>>

Asked ==
  /\ Stop \/ Kill
  /\ Same
  /\ UNCHANGED <<of, faults, refused>>

Progress ==
  \/ WorkerStep
  \/ \E j \in Jobs : HandOut(j) \/ Deliver(j) \/ Skip(j) \/ Requeue(j)
  \/ \E f \in Flushers : Acked(f)
  \/ \E t \in Tasks : NackApplied(t)

Trouble ==
  \/ Breaks \/ TakeRefused
  \/ \E f \in Flushers : AckRefused(f) \/ AckLost(f)
  \/ \E t \in Tasks : Throws(t) \/ NackLost(t)

DeliveryNext == Progress \/ Trouble \/ Asked

\* Whatever can go on goes on: event loop, handlers, network and server.  The
\* faults are bounded, so no single step needs a fairness of its own.
DeliverySpec == DeliveryInit /\ [][DeliveryNext]_allVars /\ WF_allVars(Progress)

-----------------------------------------------------------------------------
(* Properties *)

Ended(j) == {t \in Tasks : of[t] = j /\ task[t] \notin {"unseen", "running"}}

LifeState == [j \in Jobs |-> IF status[j] \in {"done", "dead"} THEN status[j] ELSE "open"]

LifeOutcomes ==
  [j \in Jobs |-> {IF t \in succeeded THEN "resolved" ELSE "threw" : t \in Ended(j)}]

LifeCycle == INSTANCE AtLeastOnce WITH state <- LifeState, outcomes <- LifeOutcomes

\* Worker and server implement the life cycle of module AtLeastOnce: a job is
\* done only after a handler of it resolved and dead only after one threw, and
\* is closed once, however acks and nacks of overlapping deliveries are batched,
\* repeated, lost or late (processJob, scheduleAck, flushAcks, withRetry).
ImplementsLifeCycle == LifeCycle!Spec

Reason(j) == j \in excused \cup refused \/ \E u \in Ended(j) : u \notin succeeded

\* A job whose handler resolved is handed out again only for a reason: its stream
\* broke or the worker was killed while it was leased, its ack was refused, or
\* another delivery of it threw.  Stopping is no reason: the stream is held until
\* the server has every ack (startShutdown, flushAcks).
HandledNotRequeued ==
  \A t \in succeeded :
    status[of[t]] # "ready" \/ Reason(of[t])

\* HandledNotRequeued, strengthened: a job in the worker's hands, or on the way
\* there, is leased on the open stream and none of its acks was answered, or it
\* is closed, or there is a reason to hand it out again.
Safe(j)   == status[j] \in {"done", "dead"} \/ Reason(j)
Held(j)   == Connected /\ status[j] = "leased" /\ j \notin orphaned

HeldInv ==
  /\ \A t \in Tasks : task[t] # "unseen" =>
       Safe(of[t]) \/ (Held(of[t]) /\ t \notin answered)
  /\ \A j \in sent : Safe(j) \/ Held(j)

\* Every job ends done or dead, or back in the queue once the worker has
\* returned, also the jobs that are skipped while it drains.  Refused acks are
\* the exception: their jobs stay leased while the stream is open, and with
\* Prefetch of them nothing more is handed out (run, withRetry).
EveryJobSettled ==
  \A j \in Jobs : <>[](\/ status[j] \in {"done", "dead"}
                       \/ loop \in {"stopped", "threw"} /\ status[j] = "ready"
                       \/ j \in refused \/ Cardinality(refused) >= Prefetch)

=============================================================================
