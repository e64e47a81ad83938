------------------------------- MODULE Worker -------------------------------
(***************************************************************************)
(* The job worker of src/worker.ts: the take loop of run(), the job tasks  *)
(* it dispatches, the batched success acks, and the two-phase shutdown of  *)
(* stop() and kill().                                                      *)
(*                                                                         *)
(* JavaScript runs one continuation at a time, so every action below is    *)
(* the code between two suspension points (await, setImmediate, setTimeout *)
(* or a promise reaction).  The server and the network are an environment  *)
(* that may answer, refuse, fail or disconnect whenever a request or a     *)
(* stream is open; the handlers are an environment that may resolve, throw *)
(* or, with StopInHandler, call stop() before their first await.            *)
(*                                                                         *)
(* Promise reactions (microtasks) run before anything the event loop picks *)
(* next: answers, timers and immediates wait until none is ready.          *)
(***************************************************************************)
EXTENDS Naturals, FiniteSets

CONSTANTS
  Tasks,          \* deliveries: the calls of processJob(), one id per job received
  Concurrency,    \* WorkerOptions.concurrency
  MaxRuns,        \* bound: how many times run() is called on the instance
  StopInHandler,  \* may a handler call stop() before its first await?
  Resolved        \* the initial, already resolved, ackFlushPromise

ASSUME ConcurrencyAssumption == Concurrency \in Nat \ {0}
ASSUME MaxRunsAssumption == MaxRuns \in Nat
ASSUME StopInHandlerAssumption == StopInHandler \in BOOLEAN
ASSUME TasksAssumption == Tasks \cap Nat = {} /\ Resolved \notin Tasks

Runs == 1..MaxRuns

\* The coroutines that execute flushAcks(): the one scheduleAck() starts with
\* setImmediate is named by the task whose ack started it, the one
\* startShutdown() awaits by its run.
Flushers == Tasks \cup Runs

VARIABLES
  loop,              \* where run() is suspended
  raced,             \* the tasks passed to Promise.race(this.inFlight)
  runs,              \* how many times run() has been called
  aborted,           \* this.abortController.signal.aborted
  streamAborted,     \* this.streamController.signal.aborted
  killed,            \* the runs whose killDeferred is resolved
  inFlight,          \* this.inFlight
  task,              \* progress of each processJob() call
  sd,                \* progress of the shutdown coroutine of each run
  sdWaits,           \* the tasks its Promise.allSettled waits for
  sdEpoch,           \* the run whose killDeferred it races against
  sdFlush,           \* the ackFlushPromise it awaits
  pendingAcks,       \* this.pendingAcks
  ackFlushInFlight,  \* this.ackFlushInFlight
  ackFlushPromise,   \* this.ackFlushPromise: Resolved, or the flusher that resolves it
  flush,             \* progress of each flusher
  batch,             \* the acks a flusher is sending
  succeeded,         \* history: tasks whose handler resolved
  answered           \* history: acks whose bulk request was answered

loopVars == <<loop, raced>>
signals  == <<aborted, streamAborted, killed>>
taskVars == <<inFlight, task>>
sdVars   == <<sd, sdWaits, sdEpoch, sdFlush>>
ackVars  == <<pendingAcks, ackFlushInFlight, ackFlushPromise, flush, batch>>
history  == <<succeeded, answered>>
vars     == <<loopVars, runs, signals, taskVars, sdVars, ackVars, history>>

LoopStates == {"idle", "taking", "reading", "racing", "backoff", "draining",
               "stopped", "threw"}
TaskStates == {"unseen", "running", "nacking", "nackwait", "settled", "gone"}
SdStates   == {"none", "draining", "flushing", "done"}
FlushStates == {"none", "scheduled", "sending", "backoff", "done"}

\* this.killing is set with, and reset with, the killDeferred of the run.
killing == runs \in killed

FlagsOK == /\ aborted \in BOOLEAN
           /\ streamAborted \in BOOLEAN
           /\ ackFlushInFlight \in BOOLEAN

TypeOK ==
  /\ FlagsOK
  /\ loop \in LoopStates
  /\ raced \in SUBSET Tasks
  /\ runs \in 0..MaxRuns
  /\ killed \in SUBSET (0..MaxRuns)
  /\ inFlight \in SUBSET Tasks
  /\ task \in [Tasks -> TaskStates]
  /\ sd \in [Runs -> SdStates]
  /\ sdWaits \in [Runs -> SUBSET Tasks]
  /\ sdEpoch \in [Runs -> 0..MaxRuns]
  /\ sdFlush \in [Runs -> Tasks \cup {Resolved}]
  /\ pendingAcks \in SUBSET Tasks
  /\ ackFlushPromise \in Tasks \cup {Resolved}
  /\ flush \in [Flushers -> FlushStates]
  /\ batch \in [Flushers -> SUBSET Tasks]
  /\ succeeded \in SUBSET Tasks
  /\ answered \in SUBSET Tasks

-----------------------------------------------------------------------------

Init ==
  /\ loop = "idle" /\ raced = {} /\ runs = 0
  /\ aborted = FALSE /\ streamAborted = FALSE /\ killed = {}
  /\ inFlight = {} /\ task = [t \in Tasks |-> "unseen"]
  /\ sd = [r \in Runs |-> "none"]
  /\ sdWaits = [r \in Runs |-> {}]
  /\ sdEpoch = [r \in Runs |-> 0]
  /\ sdFlush = [r \in Runs |-> Resolved]
  /\ pendingAcks = {} /\ ackFlushInFlight = FALSE /\ ackFlushPromise = Resolved
  /\ flush = [f \in Flushers |-> "none"]
  /\ batch = [f \in Flushers |-> {}]
  /\ succeeded = {} /\ answered = {}

-----------------------------------------------------------------------------
(* Promise reactions. *)

\* Mutant: the race is over the processJob() promises, not their finally().
RaceSettledBeforeDelete == \E t \in raced : task[t] \in {"settled", "gone"}

\* Promise.race(this.inFlight) is settled: a task it was given has ended.
RaceSettled == \E t \in raced : task[t] = "gone"

\* Mutant: the drain loop does not race against killDeferred.
DrainSettledByTasks(r) == \A t \in sdWaits[r] : task[t] = "gone"

\* The race of Promise.allSettled against killDeferred is settled.
DrainSettled(r) == \/ \A t \in sdWaits[r] : task[t] = "gone"
                   \/ sdEpoch[r] \in killed

\* Mutant: the shutdown coroutine does not await ackFlushPromise.
FlushNotAwaited(r) == TRUE

\* Mutant: setImmediate(() => this.flushAcks()) without the then(resolve).
FlushNeverResolved(r) == sdFlush[r] \notin Tasks

\* The ackFlushPromise the shutdown coroutine awaits is resolved.
FlushAwaited(r) == sdFlush[r] \in Tasks => flush[sdFlush[r]] = "done"

\* Some reaction is ready to run.
MicrotaskReady ==
  \/ \E t \in Tasks : task[t] = "settled"
  \/ loop = "racing" /\ RaceSettled
  \/ loop = "draining" /\ sd[runs] = "done"
  \/ \E r \in Runs : \/ sd[r] = "draining" /\ DrainSettled(r)
                     \/ sd[r] = "flushing" /\ flush[r] = "none" /\ FlushAwaited(r)

-----------------------------------------------------------------------------
(* run(): the take loop. *)

\* resetRuntimeState() and the first take request.  What earlier runs left
\* behind (tasks, flushers, a shutdown coroutine) keeps running on the fields
\* this resets.
Run ==
  /\ loop \in {"idle", "stopped", "threw"}
  /\ runs < MaxRuns
  /\ runs' = runs + 1
  /\ loop' = "taking"
  /\ aborted' = FALSE
  /\ streamAborted' = FALSE
  /\ inFlight' = {}
  /\ pendingAcks' = {}
  /\ ackFlushInFlight' = FALSE
  /\ ackFlushPromise' = Resolved
  /\ UNCHANGED <<raced, killed, task, sdVars, flush, batch, history>>

\* The head of the while loop: leave it, or take again on a new stream.
LoopTop ==
  \/ /\ aborted
     /\ loop' = "draining"
     /\ UNCHANGED streamAborted
  \/ /\ ~aborted
     /\ loop' = "taking"
     /\ streamAborted' = FALSE

\* client.take() resolved: the response headers of the stream are there.
TakeOpens ==
  /\ loop = "taking"
  /\ ~MicrotaskReady
  /\ loop' = "reading"
  /\ UNCHANGED <<raced, runs, signals, taskVars, sdVars, ackVars, history>>

\* The take request is answered with a 4xx status.
TakeRejected ==
  /\ loop = "taking"
  /\ ~MicrotaskReady
  /\ ~streamAborted
  /\ loop' = IF aborted THEN "draining" ELSE "threw"
  /\ UNCHANGED <<raced, runs, signals, taskVars, sdVars, ackVars, history>>

\* The request or the stream fails, or is aborted: the catch block.
Disconnects ==
  /\ loop \in {"taking", "reading"}
  /\ loop' = IF aborted THEN "draining" ELSE "backoff"
  /\ UNCHANGED <<raced, runs, signals, taskVars, sdVars, ackVars, history>>

\* The server closes the stream cleanly: the loop takes again at once.
StreamEnds ==
  /\ loop = "reading"
  /\ ~streamAborted
  /\ LoopTop
  /\ UNCHANGED <<raced, runs, aborted, killed, taskVars, sdVars, ackVars, history>>

\* The reconnect delay is over.
BackoffElapses ==
  /\ loop = "backoff"
  /\ ~MicrotaskReady
  /\ LoopTop
  /\ UNCHANGED <<raced, runs, aborted, killed, taskVars, sdVars, ackVars, history>>

\* Mutant: a limit of one too many.
LimitLate ==
  \/ /\ Cardinality(inFlight') > Concurrency
     /\ loop' = "racing"
     /\ raced' = inFlight'
  \/ /\ Cardinality(inFlight') <= Concurrency
     /\ UNCHANGED loopVars

\* The loop waits for a task to end when the concurrency limit is reached.
Limit ==
  \/ /\ Cardinality(inFlight') >= Concurrency
     /\ loop' = "racing"
     /\ raced' = inFlight'
  \/ /\ Cardinality(inFlight') < Concurrency
     /\ UNCHANGED loopVars

\* Mutant: jobs that arrive while the worker drains are run.
DispatchWhileDraining(t) ==
  /\ loop = "reading"
  /\ task[t] = "unseen"
  /\ task' = [task EXCEPT ![t] = "running"]
  /\ inFlight' = inFlight \cup {t}
  /\ Limit

\* processJob(job) starts, and its task joins inFlight.
Dispatch(t) ==
  /\ loop = "reading"
  /\ ~aborted
  /\ task[t] = "unseen"
  /\ task' = [task EXCEPT ![t] = "running"]
  /\ inFlight' = inFlight \cup {t}
  /\ Limit

\* A job arrives.  Jobs that arrive once aborted is set are skipped and change
\* nothing here.
Receive(t) ==
  /\ Dispatch(t)
  /\ UNCHANGED <<runs, signals, sdVars, ackVars, history>>

\* await Promise.race(this.inFlight)
RaceWakes ==
  /\ loop = "racing"
  /\ RaceSettled
  /\ loop' = "reading"
  /\ raced' = {}
  /\ UNCHANGED <<runs, signals, taskVars, sdVars, ackVars, history>>

\* await this.shutdownPromise
RunReturns ==
  /\ loop = "draining"
  /\ sd[runs] = "done"
  /\ loop' = "stopped"
  /\ UNCHANGED <<raced, runs, signals, taskVars, sdVars, ackVars, history>>

-----------------------------------------------------------------------------
(* stop(), kill() and the shutdown coroutine. *)

\* Mutant: the shutdown coroutine keeps the flag instead of the promise.
DrainLoopAwaitsFlag(r) ==
  /\ inFlight = {} /\ ~killing
  /\ sd' = [sd EXCEPT ![r] = "flushing"]
  /\ sdFlush' = [sdFlush EXCEPT ![r] = ackFlushInFlight]
  /\ UNCHANGED <<sdWaits, sdEpoch, streamAborted>>

\* startShutdown() of run r up to its next await.
DrainLoop(r) ==
  \/ /\ inFlight # {} /\ ~killing
     /\ sd' = [sd EXCEPT ![r] = "draining"]
     /\ sdWaits' = [sdWaits EXCEPT ![r] = inFlight]
     /\ sdEpoch' = [sdEpoch EXCEPT ![r] = runs]
     /\ UNCHANGED <<sdFlush, streamAborted>>
  \/ /\ inFlight = {} /\ ~killing
     /\ sd' = [sd EXCEPT ![r] = "flushing"]
     /\ sdFlush' = [sdFlush EXCEPT ![r] = ackFlushPromise]
     /\ UNCHANGED <<sdWaits, sdEpoch, streamAborted>>
  \/ /\ killing
     /\ sd' = [sd EXCEPT ![r] = "done"]
     /\ streamAborted' = TRUE
     /\ UNCHANGED <<sdWaits, sdEpoch, sdFlush>>

\* abort() runs the listener run() registered; before the first run() there is
\* none.
Abort ==
  /\ ~aborted
  /\ aborted' = TRUE
  /\ \/ runs = 0 /\ UNCHANGED <<sdVars, streamAborted>>
     \/ runs > 0 /\ DrainLoop(runs)

Stop ==
  /\ Abort
  /\ UNCHANGED <<loopVars, runs, killed, taskVars, ackVars, history>>

\* The handler calls stop() before its first await: the shutdown coroutine
\* starts while the task is not in inFlight yet.
ReceiveAndStop(t) ==
  /\ StopInHandler
  /\ Dispatch(t)
  /\ Abort
  /\ UNCHANGED <<runs, killed, ackVars, history>>

Kill ==
  /\ ~killing
  /\ killed' = killed \cup {runs}
  /\ streamAborted' = TRUE
  /\ aborted' = TRUE
  /\ \/ /\ ~aborted /\ runs > 0
        /\ sd' = [sd EXCEPT ![runs] = "done"]
     \/ /\ aborted \/ runs = 0
        /\ UNCHANGED sd
  /\ UNCHANGED <<loopVars, runs, taskVars, sdWaits, sdEpoch, sdFlush, ackVars, history>>

\* The drain loop goes round.
DrainWakes(r) ==
  /\ sd[r] = "draining"
  /\ DrainSettled(r)
  /\ DrainLoop(r)
  /\ UNCHANGED <<loopVars, runs, aborted, killed, taskVars, ackVars, history>>

-----------------------------------------------------------------------------
(* processJob(): run the handler, then ack or nack. *)

\* Mutant: the flag is not set when a flush is scheduled.
ScheduleAckUnflagged(t) ==
  /\ pendingAcks' = pendingAcks \cup {t}
  /\ ackFlushPromise' = t
  /\ flush' = [flush EXCEPT ![t] = "scheduled"]
  /\ UNCHANGED ackFlushInFlight

ScheduleAck(t) ==
  /\ pendingAcks' = pendingAcks \cup {t}
  /\ \/ /\ ackFlushInFlight
        /\ UNCHANGED <<ackFlushInFlight, ackFlushPromise, flush>>
     \/ /\ ~ackFlushInFlight
        /\ ackFlushInFlight' = TRUE
        /\ ackFlushPromise' = t
        /\ flush' = [flush EXCEPT ![t] = "scheduled"]

HandlerResolves(t) ==
  /\ task[t] = "running"
  /\ task' = [task EXCEPT ![t] = "settled"]
  /\ succeeded' = succeeded \cup {t}
  /\ ScheduleAck(t)
  /\ UNCHANGED <<loopVars, runs, signals, inFlight, sdVars, batch, answered>>

TaskStep(t, from, to) ==
  /\ task[t] = from
  /\ task' = [task EXCEPT ![t] = to]
  /\ UNCHANGED <<loopVars, runs, signals, inFlight, sdVars, ackVars, history>>

\* Mutant: the ack is in a finally block, so a job whose handler threw is acked.
HandlerThrowsAcked(t) ==
  /\ task[t] = "running"
  /\ task' = [task EXCEPT ![t] = "settled"]
  /\ ScheduleAck(t)
  /\ UNCHANGED <<loopVars, runs, signals, inFlight, sdVars, batch, history>>

\* Mutant: a refused nack is retried like any other failure.
NackNeverSettles(t) == ~MicrotaskReady /\ TaskStep(t, "nacking", "nackwait")

\* The nack of a handler that threw: withRetry(reportFailure) ends on a 2xx or
\* 4xx answer it can parse, and otherwise sends again after a delay.
HandlerThrows(t) == TaskStep(t, "running", "nacking")
NackAnswered(t)  == ~MicrotaskReady /\ TaskStep(t, "nacking", "settled")
NackFails(t)     == ~MicrotaskReady /\ TaskStep(t, "nacking", "nackwait")
NackRetried(t)   == ~MicrotaskReady /\ TaskStep(t, "nackwait", "nacking")

\* The finally() of the task; an earlier run's task is not in inFlight.
TaskRemoved(t) ==
  /\ task[t] = "settled"
  /\ task' = [task EXCEPT ![t] = "gone"]
  /\ inFlight' = inFlight \ {t}
  /\ UNCHANGED <<loopVars, runs, signals, sdVars, ackVars, history>>

-----------------------------------------------------------------------------
(* flushAcks(): batches of acks, one request after the other. *)

\* Mutant: the buffer is not replaced when a batch is taken from it.
FlushLoopKeepsBuffer(f) ==
  /\ batch' = [batch EXCEPT ![f] = pendingAcks]
  /\ flush' = [flush EXCEPT ![f] = "sending"]
  /\ UNCHANGED <<pendingAcks, ackFlushInFlight, sd, streamAborted>>

\* The while loop from its head to the next await or its end, which resolves
\* the promise of the flusher; the shutdown coroutine then aborts the stream.
FlushLoop(f) ==
  \/ /\ pendingAcks # {}
     /\ batch' = [batch EXCEPT ![f] = pendingAcks]
     /\ pendingAcks' = {}
     /\ flush' = [flush EXCEPT ![f] = "sending"]
     /\ UNCHANGED <<ackFlushInFlight, sd, streamAborted>>
  \/ /\ pendingAcks = {}
     /\ batch' = [batch EXCEPT ![f] = {}]
     /\ flush' = [flush EXCEPT ![f] = "done"]
     /\ ackFlushInFlight' = FALSE
     /\ \/ f \in Tasks /\ UNCHANGED <<sd, streamAborted>>
        \/ f \in Runs /\ sd' = [sd EXCEPT ![f] = "done"] /\ streamAborted' = TRUE
     /\ UNCHANGED pendingAcks

ImmediateFires(t) ==
  /\ flush[t] = "scheduled"
  /\ ~MicrotaskReady
  /\ FlushLoop(t)
  /\ UNCHANGED <<loopVars, runs, aborted, killed, taskVars, sdWaits, sdEpoch, sdFlush,
                 ackFlushPromise, history>>

\* await this.flushAcks() of the shutdown coroutine
ShutdownFlush(r) ==
  /\ sd[r] = "flushing"
  /\ flush[r] = "none"
  /\ FlushAwaited(r)
  /\ FlushLoop(r)
  /\ UNCHANGED <<loopVars, runs, aborted, killed, taskVars, sdWaits, sdEpoch, sdFlush,
                 ackFlushPromise, history>>

\* Mutant: flushAcks() sends one batch, an if where the code has a while.
AckAnsweredOnce(f) ==
  /\ flush[f] = "sending"
  /\ ~MicrotaskReady
  /\ answered' = answered \cup batch[f]
  /\ batch' = [batch EXCEPT ![f] = {}]
  /\ flush' = [flush EXCEPT ![f] = "done"]
  /\ ackFlushInFlight' = FALSE
  /\ \/ f \in Tasks /\ UNCHANGED <<sd, streamAborted>>
     \/ f \in Runs /\ sd' = [sd EXCEPT ![f] = "done"] /\ streamAborted' = TRUE
  /\ UNCHANGED <<loopVars, runs, aborted, killed, taskVars, sdWaits, sdEpoch, sdFlush,
                 pendingAcks, ackFlushPromise, succeeded>>

\* Mutant: the buffer is emptied after the request, not before it.
AckAnsweredClears(f) ==
  /\ flush[f] = "sending"
  /\ ~MicrotaskReady
  /\ answered' = answered \cup batch[f]
  /\ batch' = [batch EXCEPT ![f] = {}]
  /\ pendingAcks' = {}
  /\ flush' = [flush EXCEPT ![f] = "done"]
  /\ ackFlushInFlight' = FALSE
  /\ \/ f \in Tasks /\ UNCHANGED <<sd, streamAborted>>
     \/ f \in Runs /\ sd' = [sd EXCEPT ![f] = "done"] /\ streamAborted' = TRUE
  /\ UNCHANGED <<loopVars, runs, aborted, killed, taskVars, sdWaits, sdEpoch, sdFlush,
                 ackFlushPromise, succeeded>>

\* The bulk request ends: accepted (204, 422), or refused with a 4xx status
\* that withRetry logs and drops.
AckAnswered(f) ==
  /\ flush[f] = "sending"
  /\ ~MicrotaskReady
  /\ answered' = answered \cup batch[f]
  /\ FlushLoop(f)
  /\ UNCHANGED <<loopVars, runs, aborted, killed, taskVars, sdWaits, sdEpoch, sdFlush,
                 ackFlushPromise, succeeded>>

FlushStep(f, from, to) ==
  /\ flush[f] = from
  /\ ~MicrotaskReady
  /\ flush' = [flush EXCEPT ![f] = to]
  /\ UNCHANGED <<loopVars, runs, signals, taskVars, sdVars, pendingAcks,
                 ackFlushInFlight, ackFlushPromise, batch, history>>

\* Mutant: a failed batch is forgotten and its flusher ends.
AckFailsDropped(f) ==
  /\ flush[f] = "sending"
  /\ ~MicrotaskReady
  /\ batch' = [batch EXCEPT ![f] = {}]
  /\ flush' = [flush EXCEPT ![f] = "backoff"]
  /\ UNCHANGED <<loopVars, runs, signals, taskVars, sdVars, pendingAcks,
                 ackFlushInFlight, ackFlushPromise, history>>

\* A connection error or a 5xx status; withRetry sends again after a delay.
AckFails(f)   == FlushStep(f, "sending", "backoff")
AckRetried(f) == FlushStep(f, "backoff", "sending")

-----------------------------------------------------------------------------

LoopNext == Run \/ TakeOpens \/ TakeRejected \/ Disconnects \/ StreamEnds
            \/ BackoffElapses \/ RaceWakes \/ RunReturns
TaskNext(t) == \/ Receive(t) \/ ReceiveAndStop(t)
               \/ HandlerResolves(t) \/ HandlerThrows(t)
               \/ NackAnswered(t) \/ NackFails(t) \/ NackRetried(t)
               \/ TaskRemoved(t) \/ ImmediateFires(t)
ShutdownNext(r) == DrainWakes(r) \/ ShutdownFlush(r)
FlushNext(f) == AckAnswered(f) \/ AckFails(f) \/ AckRetried(f)

Next == \/ LoopNext
        \/ Stop
        \/ Kill
        \/ \E t \in Tasks : TaskNext(t)
        \/ \E r \in Runs : ShutdownNext(r)
        \/ \E f \in Flushers : FlushNext(f)

Spec == Init /\ [][Next]_vars

=============================================================================
