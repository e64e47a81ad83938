---------------------------- MODULE WorkerProps ----------------------------
(***************************************************************************)
(* What the worker must and must not do: safety, the inductive invariants  *)
(* behind it, the contract it implements, fairness and liveness.           *)
(***************************************************************************)
EXTENDS Worker

(* Safety. *)

\* Tasks whose job is not settled: the handler runs, or its nack is under way.
Unsettled == {t \in Tasks : task[t] \in {"running", "nacking", "nackwait"}}

\* Tasks the drain has to wait for, and acks no request was answered for.
Outstanding == {t \in Tasks : task[t] \notin {"unseen", "gone"}}
Unsent == pendingAcks \cup UNION {batch[f] : f \in Flushers}

Sending == {f \in Flushers : flush[f] \in {"sending", "backoff"}}
Active  == {f \in Flushers : flush[f] \in {"scheduled", "sending", "backoff"}}

NeverKilled == killed \cap Runs = {}

\* The in-flight set never exceeds WorkerOptions.concurrency, over any number
\* of runs: the loop must not read on before a raced task has left the set.
ConcurrencyBound == Cardinality(inFlight) <= Concurrency

\* Never more than `concurrency` jobs are being processed, whether or not the
\* worker still tracks them in inFlight.
HandlersBounded == Cardinality(Unsettled) <= Concurrency

\* An ack in the buffer, or a raised ackFlushInFlight flag, has a flusher that
\* is scheduled or running: no ack waits for a flush nobody will start, and
\* scheduleAck() is right to start none while the flag is up.
NoStrandedAck == pendingAcks # {} \/ ackFlushInFlight => Active # {}

\* "Only one bulk ack runs at a time": at most one coroutine is sending a batch
\* or waiting to send it again.
SingleFlush == Cardinality(Sending) <= 1

\* An ack is in one place at most: in the buffer, in the batch of one flusher,
\* or answered.  No id goes out in two batches.
AckAtMostOnce ==
  /\ pendingAcks \cap answered = {}
  /\ \A f \in Flushers :
       /\ batch[f] \cap (pendingAcks \cup answered) = {}
       /\ \A g \in Flushers \ {f} : batch[f] \cap batch[g] = {}

\* Unless the worker is killed, every job whose handler resolved has its ack in
\* the buffer, in a batch or answered.
NoAckLost == NeverKilled => succeeded \subseteq Unsent \cup answered

\* Without kill(), the take stream is aborted only once every task has ended
\* and every ack was answered, so the server never takes a finished job back.
StreamHeldUntilDrained ==
  streamAborted /\ NeverKilled => Outstanding = {} /\ Unsent = {}

\* run() "waits for all in-flight jobs to complete and flushes pending acks
\* before returning" (worker.ts:278), unless it was killed.  True of a run in
\* which no handler calls stop() before its first await; see the README.
StopDrains == loop = "stopped" /\ NeverKilled => Outstanding = {} /\ Unsent = {}

\* After kill() the acks of handlers that were running "will not be flushed"
\* (worker.ts:453): no bulk ack is sent that was not under way.  The code does
\* send them; see the README.
KilledAcksUnsent ==
  [][killed \cap Runs # {} => {f \in Flushers : flush'[f] = "sending"} \subseteq Sending]_vars

-----------------------------------------------------------------------------
(* Inductive invariants. *)

\* ConcurrencyBound, strengthened: below the limit whenever the loop may
\* dispatch, and at the limit only tasks the race was given are tracked.
LimitInv ==
  /\ IsFiniteSet(inFlight)
  /\ \A t \in inFlight : task[t] \notin {"unseen", "gone"}
  /\ loop # "racing" => Cardinality(inFlight) < Concurrency
  /\ loop = "racing" => /\ IsFiniteSet(raced)
                        /\ Cardinality(raced) <= Concurrency
                        /\ inFlight \subseteq raced

\* AckAtMostOnce, strengthened: only handlers that ended have an ack.
AckInv ==
  /\ AckAtMostOnce
  /\ \A t \in Unsent \cup answered : task[t] \in {"settled", "gone"}

\* Before the first run() nothing has happened.
FreshInv ==
  runs = 0 => /\ loop = "idle"
              /\ \A t \in Tasks : task[t] = "unseen"
              /\ inFlight = {} /\ pendingAcks = {} /\ succeeded = {} /\ answered = {}
              /\ \A r \in Runs : sd[r] = "none"
              /\ \A f \in Flushers : flush[f] = "none" /\ batch[f] = {}

\* In a single run the worker tracks every task that has not ended.
TrackedInv == FreshInv /\ inFlight = Outstanding

\* Only jobs whose handler resolved, and so ended, have an ack.
ResolvedInv ==
  /\ Unsent \cup answered \subseteq succeeded
  /\ \A t \in succeeded : task[t] \in {"settled", "gone"}

\* A flusher holds a batch only while it sends it or waits to send it again,
\* and no flusher starts before the handler whose ack starts it has ended.
BatchInv ==
  /\ \A f \in Flushers : batch[f] # {} => f \in Sending
  /\ \A t \in Tasks : flush[t] # "none" => task[t] \in {"settled", "gone"}

\* NoAckLost, strengthened: in a single run kill() loses no ack either.
KeptInv == FreshInv /\ BatchInv /\ succeeded \subseteq Unsent \cup answered

\* What the shutdown coroutine of a single run relies on, if no handler calls
\* stop() before its first await: nothing is dispatched once it began, and the
\* promise it awaits stays the latest one.
ShutdownInv ==
  /\ killed \subseteq 0..runs
  /\ killing \/ streamAborted \/ loop = "draining" => aborted
  /\ \A r \in Runs :
       /\ sd[r] # "none" => aborted
       /\ sd[r] = "done" => streamAborted
       /\ sd[r] = "flushing" => inFlight = {} /\ sdFlush[r] = ackFlushPromise

\* SingleFlush, strengthened: the flusher of a task that has not ended is the
\* one the flag and the promise stand for, and that of the shutdown coroutine
\* runs when there is no other.
FlushInv ==
  /\ \A t \in Active \cap Tasks : ackFlushInFlight /\ ackFlushPromise = t
  /\ \A r \in Active \cap Runs :
       sd[r] = "flushing" /\ flush[r] # "scheduled" /\ Active \cap Tasks = {}

\* run() returns after its shutdown coroutine aborted the stream.
ReturnInv == loop = "stopped" => streamAborted

\* StreamHeldUntilDrained, with all it rests on.
DrainedInv ==
  TrackedInv /\ BatchInv /\ ShutdownInv /\ FlushInv /\ StreamHeldUntilDrained

-----------------------------------------------------------------------------
(* One run of the worker keeps the contract of module WorkerContract. *)

ContractMode ==
  CASE runs = 0 -> "off"
    [] runs > 0 /\ loop = "stopped" -> "over"
    [] runs > 0 /\ loop = "threw" -> "threw"
    [] runs > 0 /\ loop \notin {"stopped", "threw"} ->
         IF killing THEN "killed" ELSE IF aborted THEN "stopping" ELSE "on"

ContractJob ==
  [t \in Tasks |-> IF task[t] = "unseen" THEN "new"
                  ELSE IF t \in Unsettled THEN "running"
                  ELSE IF t \in succeeded \ answered THEN "owed"
                  ELSE "over"]

Contract == INSTANCE WorkerContract
              WITH Jobs <- Tasks, Limit <- Concurrency,
                   mode <- ContractMode, job <- ContractJob

\* Every behaviour of a single run is a behaviour of the contract: the limit,
\* at most one settlement per job, and no return of a stopped run that still
\* has a handler running or an ack unanswered.
ImplementsContract == Contract!Spec

-----------------------------------------------------------------------------
(* Fairness and liveness. *)

\* A stream whose signal is aborted fails.
AbortSeen == streamAborted /\ Disconnects

\* What the event loop runs by itself: timers, immediates, promise reactions.
EventLoopFairness ==
  /\ WF_vars(AbortSeen)
  /\ WF_vars(BackoffElapses)
  /\ WF_vars(RaceWakes)
  /\ WF_vars(RunReturns)
  /\ \A t \in Tasks : /\ WF_vars(NackRetried(t))
                      /\ WF_vars(TaskRemoved(t))
                      /\ WF_vars(ImmediateFires(t))
  /\ \A r \in Runs : WF_vars(DrainWakes(r)) /\ WF_vars(ShutdownFlush(r))
  /\ \A f \in Flushers : WF_vars(AckRetried(f))

\* Handlers end.
HandlerFairness ==
  \A t \in Tasks : WF_vars(HandlerResolves(t) \/ HandlerThrows(t))

\* A request that is sent again and again is answered in the end.
NetworkFairness ==
  /\ \A t \in Tasks : SF_vars(NackAnswered(t))
  /\ \A f \in Flushers : SF_vars(AckAnswered(f))

\* During an outage requests still end, but none is ever answered for certain.
RequestsEnd ==
  /\ \A t \in Tasks : WF_vars(NackAnswered(t) \/ NackFails(t))
  /\ \A f \in Flushers : WF_vars(AckAnswered(f) \/ AckFails(f))

FairSpec   == Spec /\ EventLoopFairness /\ HandlerFairness /\ NetworkFairness
HungSpec   == Spec /\ EventLoopFairness /\ NetworkFairness
OutageSpec == Spec /\ EventLoopFairness /\ HandlerFairness /\ RequestsEnd

\* run() returns once stop() or kill() was called, if handlers end.
StopReturns ==
  HandlerFairness => (aborted /\ loop \notin {"idle", "stopped", "threw"} ~> loop = "stopped")

\* kill() ends run(): "run returns shortly after" (worker.ts:456-458), though no
\* handler may ever end.  The one exception is the concurrency limit: there the
\* loop waits for a handler, kill() does not wake it, and if all of them hang
\* run() never returns.
KillReturns ==
  killed \cap Runs # {} ~> (loop \in {"stopped", "threw"} \/ [](loop = "racing"))

\* A job whose handler resolved has its ack answered.
AcksDelivered == \A t \in Tasks : t \in succeeded ~> t \in answered

\* The loop does not wait at the concurrency limit for ever, if handlers end.
SlotFreed == HandlerFairness => (loop = "racing" ~> loop = "reading")

=============================================================================
