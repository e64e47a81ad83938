---------------------------- MODULE WorkerProofs ----------------------------
(***************************************************************************)
(* Theorems about Worker and Delivery.  The first part is about every set  *)
(* of deliveries, every concurrency, any number of runs, and handlers that *)
(* may or may not call stop().  The second is about one call of            *)
(* Worker.run(), for every set of deliveries and every concurrency: what   *)
(* the worker tracks, what it keeps, when it aborts its stream, and that   *)
(* it implements WorkerContract.  A second call starts from the leftovers  *)
(* of the first, where these do not hold.  The third is about Delivery,    *)
(* for every set of jobs, every prefetch and any number of faults: worker  *)
(* and server implement the life cycle of AtLeastOnce over any number of   *)
(* runs, and a single run gives a handled job back only for a reason.      *)
(***************************************************************************)
EXTENDS Delivery, WorkerProps, FiniteSetTheorems, TLAPS

-----------------------------------------------------------------------------

\* The three flags stay Boolean; kept apart from the rest of TypeOK because no
\* single prover handles flags and counters together.
LEMMA FlagsStep == FlagsOK /\ [Next]_vars => FlagsOK'
<1> SUFFICES ASSUME FlagsOK, [Next]_vars PROVE FlagsOK'
  OBVIOUS
<1> USE DEF FlagsOK, loopVars, signals, taskVars, sdVars, ackVars, history
<1>1. CASE LoopNext
  BY <1>1 DEF LoopNext, Run, TakeOpens, TakeRejected, Disconnects, RaceWakes,
       RunReturns, StreamEnds, BackoffElapses, LoopTop
<1>2. CASE Stop \/ Kill
  BY <1>2 DEF Stop, Kill, Abort, DrainLoop, killing
<1>3. ASSUME NEW t \in Tasks, TaskNext(t) PROVE FlagsOK'
  BY <1>3 DEF TaskNext, Receive, ReceiveAndStop, Dispatch, Limit, Abort, DrainLoop,
       HandlerResolves, ScheduleAck, HandlerThrows, NackAnswered, NackFails,
       NackRetried, TaskStep, TaskRemoved, ImmediateFires, FlushLoop
<1>4. ASSUME NEW r \in Runs, ShutdownNext(r) PROVE FlagsOK'
  BY <1>4 DEF ShutdownNext, DrainWakes, DrainLoop, ShutdownFlush, FlushLoop
<1>5. ASSUME NEW f \in Flushers, FlushNext(f) PROVE FlagsOK'
  BY <1>5 DEF FlushNext, AckAnswered, FlushLoop, AckFails, AckRetried, FlushStep
<1>6. CASE UNCHANGED vars
  BY <1>6 DEF vars
<1> QED
  BY <1>1, <1>2, <1>3, <1>4, <1>5, <1>6 DEF Next

\* What startShutdown() does to the record it keeps of each run.
LEMMA DrainLoopTyped ==
  ASSUME TypeOK, NEW r \in Runs, DrainLoop(r)
  PROVE  /\ sd' \in [Runs -> SdStates]
         /\ sdWaits' \in [Runs -> SUBSET Tasks]
         /\ sdEpoch' \in [Runs -> 0..MaxRuns]
         /\ sdFlush' \in [Runs -> Tasks \cup {Resolved}]
<1> USE DEF TypeOK, Runs, SdStates
<1>1. sd' \in [Runs -> SdStates]
  BY DEF DrainLoop
<1>2. sdWaits' \in [Runs -> SUBSET Tasks]
  BY DEF DrainLoop
<1>3. sdEpoch' \in [Runs -> 0..MaxRuns]
  BY MaxRunsAssumption DEF DrainLoop
<1>4. sdFlush' \in [Runs -> Tasks \cup {Resolved}]
  BY DEF DrainLoop
<1> QED
  BY <1>1, <1>2, <1>3, <1>4

LEMMA AbortTyped ==
  ASSUME TypeOK, Abort
  PROVE  /\ sd' \in [Runs -> SdStates]
         /\ sdWaits' \in [Runs -> SUBSET Tasks]
         /\ sdEpoch' \in [Runs -> 0..MaxRuns]
         /\ sdFlush' \in [Runs -> Tasks \cup {Resolved}]
<1>1. CASE UNCHANGED sdVars
  BY <1>1 DEF TypeOK, sdVars
<1>2. CASE runs > 0 /\ DrainLoop(runs)
  <2>1. runs \in Runs
    BY <1>2, MaxRunsAssumption DEF TypeOK, Runs
  <2> QED
    BY <1>2, <2>1, DrainLoopTyped
<1> QED
  BY <1>1, <1>2 DEF Abort

\* Every variable keeps its type: the step case of TypeCorrect.
LEMMA TypeStep == TypeOK /\ [Next]_vars => TypeOK'
<1> SUFFICES ASSUME TypeOK, [Next]_vars PROVE TypeOK'
  OBVIOUS
<1>0. FlagsOK'
  BY FlagsStep DEF TypeOK
<1> USE <1>0, MaxRunsAssumption
    DEF TypeOK, LoopStates, TaskStates, SdStates, FlushStates,
        Runs, Flushers, loopVars, signals, taskVars, sdVars, ackVars, history
<1>1. CASE Run
  BY <1>1 DEF Run
<1>2. CASE TakeOpens \/ TakeRejected \/ Disconnects \/ RaceWakes \/ RunReturns
  BY <1>2 DEF TakeOpens, TakeRejected, Disconnects, RaceWakes, RunReturns
<1>3. CASE StreamEnds \/ BackoffElapses
  BY <1>3 DEF StreamEnds, BackoffElapses, LoopTop
<1>4. CASE Stop
  BY <1>4, AbortTyped DEF Stop
<1>5. CASE Kill
  BY <1>5 DEF Kill
<1>6. ASSUME NEW t \in Tasks, Receive(t) PROVE TypeOK'
  BY <1>6 DEF Receive, Dispatch, Limit
<1>7. ASSUME NEW t \in Tasks, ReceiveAndStop(t) PROVE TypeOK'
  BY <1>7, AbortTyped DEF ReceiveAndStop, Dispatch, Limit
<1>8. ASSUME NEW t \in Tasks, HandlerResolves(t) PROVE TypeOK'
  BY <1>8 DEF HandlerResolves, ScheduleAck
<1>9. ASSUME NEW t \in Tasks,
             HandlerThrows(t) \/ NackAnswered(t) \/ NackFails(t) \/ NackRetried(t)
      PROVE TypeOK'
  BY <1>9 DEF HandlerThrows, NackAnswered, NackFails, NackRetried, TaskStep
<1>10. ASSUME NEW t \in Tasks, TaskRemoved(t) PROVE TypeOK'
  BY <1>10 DEF TaskRemoved
<1>11. ASSUME NEW t \in Tasks, ImmediateFires(t) PROVE TypeOK'
  BY <1>11 DEF ImmediateFires, FlushLoop
<1>12. ASSUME NEW r \in Runs, DrainWakes(r) PROVE TypeOK'
  BY <1>12, DrainLoopTyped DEF DrainWakes
<1>13. ASSUME NEW r \in Runs, ShutdownFlush(r) PROVE TypeOK'
  BY <1>13 DEF ShutdownFlush, FlushLoop
<1>14. ASSUME NEW f \in Flushers, AckAnswered(f) PROVE TypeOK'
  BY <1>14 DEF AckAnswered, FlushLoop
<1>15. ASSUME NEW f \in Flushers, AckFails(f) \/ AckRetried(f) PROVE TypeOK'
  BY <1>15 DEF AckFails, AckRetried, FlushStep
<1>16. CASE UNCHANGED vars
  BY <1>16 DEF vars
<1> QED
  BY <1>1, <1>2, <1>3, <1>4, <1>5, <1>6, <1>7, <1>8, <1>9, <1>10, <1>11, <1>12,
     <1>13, <1>14, <1>15, <1>16
     DEF Next, LoopNext, TaskNext, ShutdownNext, FlushNext

LEMMA TypeInit == Init => TypeOK
<1>1. Init => FlagsOK
  BY DEF Init, FlagsOK
<1> QED
  BY <1>1, MaxRunsAssumption
     DEF Init, TypeOK, LoopStates, TaskStates, SdStates, FlushStates,
         Runs, Flushers

\* The fields of the worker hold what the code means them to hold, whatever
\* the order of events.
THEOREM TypeCorrect == Spec => []TypeOK
  BY TypeInit, TypeStep, PTL DEF Spec

-----------------------------------------------------------------------------
(* No ack waits for a flush nobody will start. *)

\* A step keeps a flusher active as long as an ack is buffered or the flag is
\* up: flushAcks() lowers the flag only after it found the buffer empty, and
\* scheduleAck() starts a flusher whenever the flag is down.
LEMMA NoStrandedAckStep ==
  TypeOK /\ NoStrandedAck /\ [Next]_vars => NoStrandedAck'
<1> SUFFICES ASSUME TypeOK, NoStrandedAck, [Next]_vars PROVE NoStrandedAck'
  OBVIOUS
<1> USE DEF NoStrandedAck, Active, loopVars, signals, taskVars, sdVars, ackVars, history
<1> DEFINE Busy == {"scheduled", "sending", "backoff"}
<1>a. flush \in [Flushers -> FlushStates] /\ Tasks \subseteq Flushers /\ Runs \subseteq Flushers
  BY DEF TypeOK, Flushers
<1>b. ASSUME NEW f \in Flushers, FlushLoop(f) PROVE NoStrandedAck'
  <2>1. CASE pendingAcks # {}
    <3>1. flush'[f] = "sending"
      BY <1>b, <2>1, <1>a DEF FlushLoop
    <3> QED
      BY <3>1
  <2>2. CASE pendingAcks = {}
    BY <1>b, <2>2 DEF FlushLoop
  <2> QED
    BY <2>1, <2>2
<1>1. CASE LoopNext
  <2>1. CASE Run
    BY <2>1 DEF Run
  <2>2. CASE UNCHANGED ackVars
    BY <2>2
  <2> QED
    BY <1>1, <2>1, <2>2
       DEF LoopNext, TakeOpens, TakeRejected, Disconnects, StreamEnds,
           BackoffElapses, RaceWakes, RunReturns
<1>2. CASE Stop \/ Kill
  BY <1>2 DEF Stop, Kill
<1>3. ASSUME NEW t \in Tasks, TaskNext(t) PROVE NoStrandedAck'
  <2>1. CASE HandlerResolves(t)
    <3>1. CASE ackFlushInFlight
      BY <2>1, <3>1 DEF HandlerResolves, ScheduleAck
    <3>2. CASE ~ackFlushInFlight
      <4>1. flush'[t] = "scheduled"
        BY <2>1, <3>2, <1>a DEF HandlerResolves, ScheduleAck
      <4> QED
        BY <4>1, <1>a
    <3> QED
      BY <3>1, <3>2
  <2>2. CASE ImmediateFires(t)
    BY <2>2, <1>a, <1>b DEF ImmediateFires
  <2>3. CASE UNCHANGED ackVars
    BY <2>3
  <2> QED
    BY <1>3, <2>1, <2>2, <2>3
       DEF TaskNext, Receive, ReceiveAndStop, HandlerThrows, NackAnswered,
           NackFails, NackRetried, TaskStep, TaskRemoved
<1>4. ASSUME NEW r \in Runs, ShutdownNext(r) PROVE NoStrandedAck'
  BY <1>4, <1>a, <1>b DEF ShutdownNext, DrainWakes, ShutdownFlush
<1>5. ASSUME NEW f \in Flushers, FlushNext(f) PROVE NoStrandedAck'
  <2>1. CASE AckAnswered(f)
    BY <2>1, <1>b DEF AckAnswered
  <2>2. CASE AckFails(f) \/ AckRetried(f)
    <3>1. flush'[f] \in Busy
      BY <2>2, <1>a DEF AckFails, AckRetried, FlushStep
    <3> QED
      BY <3>1
  <2> QED
    BY <1>5, <2>1, <2>2 DEF FlushNext
<1>6. CASE UNCHANGED vars
  BY <1>6 DEF vars
<1> QED
  BY <1>1, <1>2, <1>3, <1>4, <1>5, <1>6 DEF Next

\* Whatever stop(), kill(), reconnects, retries and later runs do, a buffered
\* ack has a flusher that will take it.
THEOREM AcksAreNeverStranded == Spec => []NoStrandedAck
<1>1. Init => NoStrandedAck
  BY DEF Init, NoStrandedAck
<1> QED
  BY <1>1, TypeCorrect, NoStrandedAckStep, PTL DEF Spec

-----------------------------------------------------------------------------
(* The in-flight set never exceeds the concurrency limit. *)

\* Dispatch adds one element to a set below the limit, and leaves the loop
\* free to read on only if the set is still below it.
LEMMA DispatchLimited ==
  ASSUME TypeOK, LimitInv, NEW t \in Tasks, Dispatch(t)
  PROVE  LimitInv'
<1> USE DEF LimitInv
<1>1. loop = "reading" /\ task[t] = "unseen" /\ t \notin inFlight
  BY DEF Dispatch
<1>2. inFlight' = inFlight \cup {t} /\ task' = [task EXCEPT ![t] = "running"]
  BY DEF Dispatch
<1>3. /\ IsFiniteSet(inFlight')
      /\ Cardinality(inFlight') = Cardinality(inFlight) + 1
      /\ Cardinality(inFlight') \in Nat
      /\ Cardinality(inFlight) \in Nat
  BY <1>1, <1>2, FS_AddElement, FS_CardinalityType
<1>4. \A u \in inFlight' : task'[u] \notin {"unseen", "gone"}
  BY <1>1, <1>2 DEF TypeOK
<1>5. Cardinality(inFlight') <= Concurrency
  BY <1>1, <1>3, ConcurrencyAssumption
<1>6. CASE Cardinality(inFlight') >= Concurrency
  <2>1. loop' = "racing" /\ raced' = inFlight'
    BY <1>3, <1>6, ConcurrencyAssumption DEF Dispatch, Limit, loopVars
  <2> QED
    BY <1>3, <1>4, <1>5, <2>1
<1>7. CASE Cardinality(inFlight') < Concurrency
  <2>1. loop' = "reading"
    BY <1>1, <1>3, <1>7, ConcurrencyAssumption DEF Dispatch, Limit, loopVars
  <2> QED
    BY <1>3, <1>4, <1>7, <2>1
<1> QED
  BY <1>3, <1>6, <1>7, ConcurrencyAssumption

\* The race ends below the limit: the task that woke it is not in flight.
LEMMA RaceLimited ==
  ASSUME TypeOK, LimitInv, RaceWakes
  PROVE  LimitInv'
<1> USE DEF LimitInv
<1>1. /\ loop = "racing" /\ loop' = "reading"
      /\ inFlight' = inFlight /\ task' = task
  BY DEF RaceWakes, taskVars
<1>2. PICK t \in raced : task[t] = "gone"
  BY DEF RaceWakes, RaceSettled
<1>3. inFlight \subseteq raced /\ inFlight # raced
  BY <1>1, <1>2
<1>4. /\ Cardinality(inFlight) <= Cardinality(raced)
      /\ Cardinality(inFlight) # Cardinality(raced)
      /\ Cardinality(inFlight) \in Nat /\ Cardinality(raced) \in Nat
  BY <1>1, <1>3, FS_Subset, FS_CardinalityType
<1>5. Cardinality(inFlight) < Concurrency
  BY <1>1, <1>4, ConcurrencyAssumption
<1> QED
  BY <1>1, <1>5

LEMMA LimitStep == TypeOK /\ LimitInv /\ [Next]_vars => LimitInv'
<1> SUFFICES ASSUME TypeOK, LimitInv, [Next]_vars PROVE LimitInv'
  OBVIOUS
<1> USE DEF loopVars, signals, taskVars, sdVars, ackVars, history
<1>a. ASSUME UNCHANGED taskVars, UNCHANGED raced,
             loop' = "racing" <=> loop = "racing"
      PROVE  LimitInv'
  BY <1>a DEF LimitInv
<1>1. CASE LoopNext
  <2>1. CASE Run
    <3>1. inFlight' = {} /\ loop' = "taking"
      BY <2>1 DEF Run
    <3> QED
      BY <3>1, FS_EmptySet, ConcurrencyAssumption DEF LimitInv
  <2>2. CASE RaceWakes
    BY <2>2, RaceLimited
  <2>3. CASE TakeOpens \/ TakeRejected \/ Disconnects \/ RunReturns
    BY <2>3, <1>a DEF TakeOpens, TakeRejected, Disconnects, RunReturns
  <2>4. CASE StreamEnds \/ BackoffElapses
    BY <2>4, <1>a DEF StreamEnds, BackoffElapses, LoopTop
  <2> QED
    BY <1>1, <2>1, <2>2, <2>3, <2>4 DEF LoopNext
<1>2. CASE Stop \/ Kill
  BY <1>2, <1>a DEF Stop, Kill
<1>3. ASSUME NEW t \in Tasks, TaskNext(t) PROVE LimitInv'
  <2>1. CASE Receive(t) \/ ReceiveAndStop(t)
    BY <2>1, DispatchLimited DEF Receive, ReceiveAndStop
  <2>2. CASE \/ HandlerResolves(t) \/ HandlerThrows(t)
            \/ NackAnswered(t) \/ NackFails(t) \/ NackRetried(t)
    <3>1. /\ task[t] \notin {"unseen", "gone"}
          /\ task'[t] \notin {"unseen", "gone"}
          /\ \A u \in Tasks \ {t} : task'[u] = task[u]
          /\ UNCHANGED <<loop, raced, inFlight>>
      BY <2>2 DEF TypeOK, HandlerResolves, HandlerThrows, NackAnswered, NackFails,
                  NackRetried, TaskStep
    <3> QED
      BY <3>1 DEF LimitInv, TypeOK
  <2>3. CASE TaskRemoved(t)
    <3>1. /\ inFlight' = inFlight \ {t}
          /\ \A u \in Tasks \ {t} : task'[u] = task[u]
          /\ UNCHANGED <<loop, raced>>
      BY <2>3 DEF TypeOK, TaskRemoved
    <3>2. IsFiniteSet(inFlight') /\ Cardinality(inFlight') <= Cardinality(inFlight)
      BY <3>1, FS_Subset DEF LimitInv
    <3>3. Cardinality(inFlight') \in Nat /\ Cardinality(inFlight) \in Nat
      BY <3>2, FS_CardinalityType DEF LimitInv
    <3>4. loop # "racing" => Cardinality(inFlight') < Concurrency
      BY <3>2, <3>3, ConcurrencyAssumption DEF LimitInv
    <3> QED
      BY <3>1, <3>2, <3>4 DEF LimitInv, TypeOK
  <2>4. CASE ImmediateFires(t)
    BY <2>4, <1>a DEF ImmediateFires
  <2> QED
    BY <1>3, <2>1, <2>2, <2>3, <2>4 DEF TaskNext
<1>4. ASSUME NEW r \in Runs, ShutdownNext(r) PROVE LimitInv'
  BY <1>4, <1>a DEF ShutdownNext, DrainWakes, ShutdownFlush
<1>5. ASSUME NEW f \in Flushers, FlushNext(f) PROVE LimitInv'
  BY <1>5, <1>a DEF FlushNext, AckAnswered, AckFails, AckRetried, FlushStep
<1>6. CASE UNCHANGED vars
  BY <1>6, <1>a DEF vars
<1> QED
  BY <1>1, <1>2, <1>3, <1>4, <1>5, <1>6 DEF Next

LEMMA LimitInit == Init => LimitInv
  BY FS_EmptySet, ConcurrencyAssumption DEF Init, LimitInv

\* The inductive invariant implies the bound, also while the loop races.
LEMMA LimitBounds == LimitInv => ConcurrencyBound
<1> SUFFICES ASSUME LimitInv PROVE ConcurrencyBound
  OBVIOUS
<1>1. CASE loop = "racing"
  <2>1. /\ Cardinality(inFlight) <= Cardinality(raced)
        /\ Cardinality(raced) <= Concurrency
    BY <1>1, FS_Subset DEF LimitInv
  <2>2. Cardinality(inFlight) \in Nat /\ Cardinality(raced) \in Nat
    BY <1>1, FS_CardinalityType DEF LimitInv
  <2> QED
    BY <2>1, <2>2, ConcurrencyAssumption DEF ConcurrencyBound
<1>2. CASE loop # "racing"
  BY <1>2, FS_CardinalityType, ConcurrencyAssumption DEF LimitInv, ConcurrencyBound
<1> QED
  BY <1>1, <1>2

\* The in-flight set stays within WorkerOptions.concurrency over any number of
\* runs, reconnects and shutdowns.
THEOREM ConcurrencyIsBounded == Spec => []ConcurrencyBound
  BY LimitInit, LimitBounds, TypeCorrect, LimitStep, PTL DEF Spec

-----------------------------------------------------------------------------
(* No ack is sent twice. *)

\* Taking the buffer as a batch, or ending, keeps every ack in one place,
\* provided the acks of the flusher's last batch are nowhere else.
LEMMA FlushLoopKeepsAcks ==
  ASSUME TypeOK, NEW f \in Flushers, FlushLoop(f), UNCHANGED task,
         answered' \subseteq answered \cup batch[f], AckInv
  PROVE  AckInv'
<1> USE DEF AckInv, AckAtMostOnce, Unsent
<1>1. /\ pendingAcks' \subseteq pendingAcks
      /\ batch'[f] \subseteq pendingAcks
      /\ batch'[f] \cap pendingAcks' = {}
      /\ \A g \in Flushers \ {f} : batch'[g] = batch[g]
  BY DEF FlushLoop, TypeOK
<1>2. /\ pendingAcks' \cap answered' = {}
      /\ batch'[f] \cap (pendingAcks' \cup answered') = {}
  BY <1>1
<1>3. ASSUME NEW g \in Flushers \ {f}
      PROVE  /\ batch'[g] \cap (pendingAcks' \cup answered') = {}
             /\ batch'[g] \cap batch'[f] = {}
  BY <1>1, <1>3
<1>4. AckAtMostOnce'
  BY <1>1, <1>2, <1>3
<1>5. \A t \in (Unsent \cup answered)' : task'[t] \in {"settled", "gone"}
  BY <1>1
<1> QED
  BY <1>4, <1>5

LEMMA AckStep == TypeOK /\ AckInv /\ [Next]_vars => AckInv'
<1> SUFFICES ASSUME TypeOK, AckInv, [Next]_vars PROVE AckInv'
  OBVIOUS
<1> USE DEF loopVars, signals, taskVars, sdVars, ackVars, history
<1>a. ASSUME UNCHANGED <<pendingAcks, batch, answered>>,
             \A t \in Tasks : task[t] \in {"settled", "gone"}
                              => task'[t] \in {"settled", "gone"}
      PROVE  AckInv'
  BY <1>a DEF AckInv, AckAtMostOnce, Unsent, TypeOK
<1>1. CASE LoopNext
  <2>1. CASE Run
    BY <2>1 DEF Run, AckInv, AckAtMostOnce, Unsent
  <2>2. CASE UNCHANGED <<ackVars, history, task>>
    BY <2>2, <1>a
  <2> QED
    BY <1>1, <2>1, <2>2
       DEF LoopNext, TakeOpens, TakeRejected, Disconnects, StreamEnds,
           BackoffElapses, RaceWakes, RunReturns
<1>2. CASE Stop \/ Kill
  BY <1>2, <1>a DEF Stop, Kill
<1>3. ASSUME NEW t \in Tasks, TaskNext(t) PROVE AckInv'
  <2>1. CASE Receive(t) \/ ReceiveAndStop(t)
    BY <2>1, <1>a DEF Receive, ReceiveAndStop, Dispatch, TypeOK
  <2>2. CASE HandlerResolves(t)
    <3>1. /\ t \notin Unsent \cup answered
          /\ pendingAcks' = pendingAcks \cup {t}
          /\ UNCHANGED <<batch, answered>>
      BY <2>2 DEF HandlerResolves, ScheduleAck, AckInv
    <3>2. task' = [task EXCEPT ![t] = "settled"]
      BY <2>2 DEF HandlerResolves
    <3>3. AckAtMostOnce'
      BY <3>1 DEF AckInv, AckAtMostOnce, Unsent
    <3>4. \A u \in (Unsent \cup answered)' : task'[u] \in {"settled", "gone"}
      BY <3>1, <3>2 DEF AckInv, Unsent, TypeOK
    <3> QED
      BY <3>3, <3>4 DEF AckInv
  <2>3. CASE HandlerThrows(t) \/ NackAnswered(t) \/ NackFails(t) \/ NackRetried(t)
    BY <2>3, <1>a DEF HandlerThrows, NackAnswered, NackFails, NackRetried, TaskStep,
                     TypeOK
  <2>4. CASE TaskRemoved(t)
    BY <2>4, <1>a DEF TaskRemoved, TypeOK
  <2>5. CASE ImmediateFires(t)
    <3>1. /\ t \in Flushers /\ FlushLoop(t) /\ UNCHANGED task
          /\ answered' \subseteq answered \cup batch[t]
      BY <2>5 DEF ImmediateFires, Flushers
    <3> QED
      BY <3>1, FlushLoopKeepsAcks
  <2> QED
    BY <1>3, <2>1, <2>2, <2>3, <2>4, <2>5 DEF TaskNext
<1>4. ASSUME NEW r \in Runs, ShutdownNext(r) PROVE AckInv'
  <2>1. CASE DrainWakes(r)
    BY <2>1, <1>a DEF DrainWakes
  <2>2. CASE ShutdownFlush(r)
    <3>1. /\ r \in Flushers /\ FlushLoop(r) /\ UNCHANGED task
          /\ answered' \subseteq answered \cup batch[r]
      BY <2>2 DEF ShutdownFlush, Flushers
    <3> QED
      BY <3>1, FlushLoopKeepsAcks
  <2> QED
    BY <1>4, <2>1, <2>2 DEF ShutdownNext
<1>5. ASSUME NEW f \in Flushers, FlushNext(f) PROVE AckInv'
  <2>1. CASE AckAnswered(f)
    <3>1. /\ FlushLoop(f) /\ UNCHANGED task
          /\ answered' \subseteq answered \cup batch[f]
      BY <2>1 DEF AckAnswered
    <3> QED
      BY <3>1, FlushLoopKeepsAcks
  <2>2. CASE AckFails(f) \/ AckRetried(f)
    BY <2>2, <1>a DEF AckFails, AckRetried, FlushStep
  <2> QED
    BY <1>5, <2>1, <2>2 DEF FlushNext
<1>6. CASE UNCHANGED vars
  BY <1>6, <1>a DEF vars
<1> QED
  BY <1>1, <1>2, <1>3, <1>4, <1>5, <1>6 DEF Next

LEMMA AckInit == Init => AckInv
  BY DEF Init, AckInv, AckAtMostOnce, Unsent

\* An ack is never in two places, so no job id goes out in two batches, however
\* many flushers run() and kill() leave running side by side.
THEOREM AcksAreSentOnce == Spec => []AckAtMostOnce
<1>1. AckInv => AckAtMostOnce
  BY DEF AckInv
<1> QED
  BY <1>1, AckInit, TypeCorrect, AckStep, PTL DEF Spec

-----------------------------------------------------------------------------
(* What a worker that runs once tracks, and what acks it keeps. *)

\* Before the first run() only stop() and kill() can be called, and they do
\* nothing but raise flags.
LEMMA FreshStep == TypeOK /\ FreshInv /\ [Next]_vars => FreshInv'
<1> SUFFICES ASSUME TypeOK, FreshInv, [Next]_vars, runs' = 0 PROVE FreshInv'
  BY DEF FreshInv
<1> USE DEF loopVars, signals, taskVars, sdVars, ackVars, history
<1>a. runs = 0
  <2>1. CASE Run
    BY <2>1, MaxRunsAssumption DEF Run, TypeOK
  <2>2. CASE runs' = runs
    BY <2>2
  <2> QED
    BY <2>1, <2>2 DEF Next, LoopNext, TakeOpens, TakeRejected, Disconnects, StreamEnds,
       BackoffElapses, RaceWakes, RunReturns, Stop, Kill, TaskNext, Receive,
       ReceiveAndStop, HandlerResolves, HandlerThrows, NackAnswered, NackFails,
       NackRetried, TaskStep, TaskRemoved, ImmediateFires, ShutdownNext, DrainWakes,
       ShutdownFlush, FlushNext, AckAnswered, AckFails, AckRetried, FlushStep, vars
<1>b. /\ loop = "idle"
      /\ \A t \in Tasks : task[t] = "unseen" /\ flush[t] = "none"
      /\ \A r \in Runs : sd[r] = "none"
      /\ \A f \in Flushers : flush[f] = "none"
  BY <1>a DEF FreshInv, Flushers
<1>1. ~LoopNext
  <2>1. ~Run
    BY <1>a, MaxRunsAssumption DEF Run
  <2> QED
    BY <1>b, <2>1 DEF LoopNext, TakeOpens, TakeRejected, Disconnects, StreamEnds,
       BackoffElapses, RaceWakes, RunReturns
<1>2. \A t \in Tasks : ~TaskNext(t)
  BY <1>b DEF TaskNext, Receive, ReceiveAndStop, Dispatch, HandlerResolves,
     HandlerThrows, NackAnswered, NackFails, NackRetried, TaskStep, TaskRemoved,
     ImmediateFires
<1>3. \A r \in Runs : ~ShutdownNext(r)
  BY <1>b DEF ShutdownNext, DrainWakes, ShutdownFlush
<1>4. \A f \in Flushers : ~FlushNext(f)
  BY <1>b DEF FlushNext, AckAnswered, AckFails, AckRetried, FlushStep
<1>5. CASE Stop \/ Kill
  BY <1>5, <1>a DEF Stop, Kill, Abort, FreshInv
<1>6. CASE UNCHANGED vars
  BY <1>6 DEF vars, FreshInv
<1> QED
  BY <1>1, <1>2, <1>3, <1>4, <1>5, <1>6 DEF Next

\* A worker that runs once starts that run with nothing left behind.
LEMMA RunIsFirst ==
  ASSUME MaxRuns <= 1, TypeOK, Run
  PROVE  runs = 0 /\ runs' = 1
  BY MaxRunsAssumption DEF Run, TypeOK

\* Every step of a single run adds to inFlight what it dispatches and takes out
\* what ended.
LEMMA TrackedStep ==
  ASSUME MaxRuns <= 1
  PROVE  TypeOK /\ TrackedInv /\ [Next]_vars => TrackedInv'
<1> SUFFICES ASSUME TypeOK, TrackedInv, [Next]_vars PROVE inFlight' = Outstanding'
  BY FreshStep DEF TrackedInv
<1> USE DEF loopVars, signals, taskVars, sdVars, ackVars, history, Outstanding
<1>a. ASSUME UNCHANGED taskVars PROVE inFlight' = Outstanding'
  BY <1>a DEF TrackedInv
<1>1. CASE LoopNext
  <2>1. CASE Run
    <3>1. \A t \in Tasks : task[t] = "unseen"
      BY <2>1, RunIsFirst DEF TrackedInv, FreshInv
    <3> QED
      BY <2>1, <3>1 DEF Run
  <2> QED
    BY <1>1, <2>1, <1>a DEF LoopNext, TakeOpens, TakeRejected, Disconnects, StreamEnds,
       BackoffElapses, RaceWakes, RunReturns
<1>2. CASE Stop \/ Kill
  BY <1>2, <1>a DEF Stop, Kill
<1>3. ASSUME NEW t \in Tasks, TaskNext(t) PROVE inFlight' = Outstanding'
  <2>1. CASE Receive(t) \/ ReceiveAndStop(t)
    BY <2>1 DEF Receive, ReceiveAndStop, Dispatch, TrackedInv, TypeOK
  <2>2. CASE \/ HandlerResolves(t) \/ HandlerThrows(t)
            \/ NackAnswered(t) \/ NackFails(t) \/ NackRetried(t)
    BY <2>2 DEF HandlerResolves, HandlerThrows, NackAnswered, NackFails, NackRetried,
       TaskStep, TrackedInv, TypeOK
  <2>3. CASE TaskRemoved(t)
    BY <2>3 DEF TaskRemoved, TrackedInv, TypeOK
  <2>4. CASE ImmediateFires(t)
    BY <2>4, <1>a DEF ImmediateFires
  <2> QED
    BY <1>3, <2>1, <2>2, <2>3, <2>4 DEF TaskNext
<1>4. ASSUME NEW r \in Runs, ShutdownNext(r) PROVE inFlight' = Outstanding'
  BY <1>4, <1>a DEF ShutdownNext, DrainWakes, ShutdownFlush
<1>5. ASSUME NEW f \in Flushers, FlushNext(f) PROVE inFlight' = Outstanding'
  BY <1>5, <1>a DEF FlushNext, AckAnswered, AckFails, AckRetried, FlushStep
<1>6. CASE UNCHANGED vars
  BY <1>6, <1>a DEF vars
<1> QED
  BY <1>1, <1>2, <1>3, <1>4, <1>5, <1>6 DEF Next

LEMMA FreshInit == Init => FreshInv
  BY DEF Init, FreshInv

LEMMA TrackedInit == Init => TrackedInv
  BY FreshInit DEF Init, TrackedInv, Outstanding

\* What is being processed is tracked, and what is tracked is limited: a single
\* run never has more than `concurrency` handlers and failure reports at work.
THEOREM HandlersAreBounded ==
  ASSUME MaxRuns <= 1
  PROVE  Spec => []HandlersBounded
<1>1. LimitInv /\ TrackedInv => HandlersBounded
  <2> SUFFICES ASSUME LimitInv, TrackedInv PROVE HandlersBounded
    OBVIOUS
  <2>1. Unsettled \subseteq inFlight /\ IsFiniteSet(inFlight)
    BY DEF TrackedInv, Outstanding, Unsettled, LimitInv
  <2>2. Cardinality(inFlight) <= Concurrency
    BY LimitBounds DEF ConcurrencyBound
  <2>3. /\ Cardinality(Unsettled) <= Cardinality(inFlight)
        /\ Cardinality(Unsettled) \in Nat /\ Cardinality(inFlight) \in Nat
    BY <2>1, FS_Subset, FS_CardinalityType
  <2> QED
    BY <2>2, <2>3, ConcurrencyAssumption DEF HandlersBounded
<1> QED
  BY <1>1, LimitInit, TrackedInit, TypeCorrect, LimitStep, TrackedStep, PTL DEF Spec

-----------------------------------------------------------------------------
(* What acks are kept.  The first two invariants hold of any number of runs. *)

\* A task that ended never runs again.
LEMMA EndIsFinal ==
  ASSUME TypeOK, [Next]_vars, NEW t \in Tasks, task[t] \in {"settled", "gone"}
  PROVE  task'[t] \in {"settled", "gone"}
<1> USE DEF loopVars, signals, taskVars, sdVars, ackVars, history
<1>1. CASE LoopNext \/ Stop \/ Kill
  BY <1>1 DEF LoopNext, Run, TakeOpens, TakeRejected, Disconnects, StreamEnds,
     BackoffElapses, RaceWakes, RunReturns, Stop, Kill
<1>2. ASSUME NEW u \in Tasks, TaskNext(u) PROVE task'[t] \in {"settled", "gone"}
  BY <1>2 DEF TypeOK, TaskNext, Receive, ReceiveAndStop, Dispatch, HandlerResolves,
     HandlerThrows, NackAnswered, NackFails, NackRetried, TaskStep, TaskRemoved,
     ImmediateFires
<1>3. ASSUME NEW r \in Runs, ShutdownNext(r) PROVE task' = task
  BY <1>3 DEF ShutdownNext, DrainWakes, ShutdownFlush
<1>4. ASSUME NEW f \in Flushers, FlushNext(f) PROVE task' = task
  BY <1>4 DEF FlushNext, AckAnswered, AckFails, AckRetried, FlushStep
<1>5. CASE UNCHANGED vars
  BY <1>5 DEF vars
<1> QED
  BY <1>1, <1>2, <1>3, <1>4, <1>5 DEF Next

\* A handler that ended does not end again.
LEMMA TaskGoesOn ==
  ASSUME TypeOK, [Next]_vars, NEW t \in Tasks, task[t] \notin {"unseen", "running"}
  PROVE  /\ task'[t] \notin {"unseen", "running"}
         /\ t \in succeeded' => t \in succeeded
<1> DEFINE Goal == /\ task'[t] \notin {"unseen", "running"}
                   /\ t \in succeeded' => t \in succeeded
<1> USE DEF loopVars, signals, taskVars, sdVars, ackVars, history
<1>1. CASE LoopNext \/ Stop \/ Kill
  BY <1>1 DEF LoopNext, Run, TakeOpens, TakeRejected, Disconnects, StreamEnds,
     BackoffElapses, RaceWakes, RunReturns, Stop, Kill
<1>2. ASSUME NEW u \in Tasks, TaskNext(u) PROVE Goal
  BY <1>2 DEF TypeOK, TaskNext, Receive, ReceiveAndStop, Dispatch, HandlerResolves,
     HandlerThrows, NackAnswered, NackFails, NackRetried, TaskStep, TaskRemoved,
     ImmediateFires
<1>3. ASSUME NEW r \in Runs, ShutdownNext(r) PROVE Goal
  BY <1>3 DEF ShutdownNext, DrainWakes, ShutdownFlush
<1>4. ASSUME NEW f \in Flushers, FlushNext(f) PROVE Goal
  BY <1>4 DEF FlushNext, AckAnswered, AckFails, AckRetried, FlushStep
<1>5. CASE UNCHANGED vars
  BY <1>5 DEF vars
<1> QED
  BY <1>1, <1>2, <1>3, <1>4, <1>5 DEF Next

\* A batch belongs to a flusher that is sending it: the end of flushAcks()
\* leaves none behind.
LEMMA BatchStep == TypeOK /\ BatchInv /\ [Next]_vars => BatchInv'
<1> SUFFICES ASSUME TypeOK, BatchInv, [Next]_vars PROVE BatchInv'
  OBVIOUS
<1> USE DEF loopVars, signals, taskVars, sdVars, ackVars, history
<1> DEFINE Sender == \A f \in Flushers : batch'[f] # {} => f \in Sending'
           Late == \A t \in Tasks : flush'[t] # "none" => task'[t] \in {"settled", "gone"}
<1> SUFFICES Sender /\ Late
  BY DEF BatchInv
<1>e. Tasks \subseteq Flushers
  BY DEF Flushers
<1>a. ASSUME UNCHANGED <<flush, batch>> PROVE Sender /\ Late
  BY <1>a, EndIsFinal DEF BatchInv, Sending
<1>b. ASSUME NEW f \in Flushers, flush[f] # "none", UNCHANGED task,
             FlushLoop(f) \/ (/\ UNCHANGED batch
                              /\ \E to \in {"sending", "backoff"} :
                                     flush' = [flush EXCEPT ![f] = to])
      PROVE  Sender /\ Late
  BY <1>b, <1>e DEF FlushLoop, TypeOK, BatchInv, Sending
<1>1. CASE LoopNext
  BY <1>1, <1>a DEF LoopNext, Run, TakeOpens, TakeRejected, Disconnects, StreamEnds,
     BackoffElapses, RaceWakes, RunReturns
<1>2. CASE Stop \/ Kill
  BY <1>2, <1>a DEF Stop, Kill
<1>3. ASSUME NEW t \in Tasks, TaskNext(t) PROVE Sender /\ Late
  <2>1. CASE HandlerResolves(t)
    <3>1. UNCHANGED batch /\ flush[t] = "none" /\ task'[t] = "settled"
      BY <2>1 DEF HandlerResolves, BatchInv, TypeOK
    <3>2. \A f \in Flushers \ {t} : flush'[f] = flush[f]
      BY <2>1 DEF HandlerResolves, ScheduleAck, TypeOK
    <3> QED
      BY <3>1, <3>2, <1>e, EndIsFinal DEF BatchInv, Sending
  <2>2. CASE ImmediateFires(t)
    BY <2>2, <1>b, <1>e DEF ImmediateFires
  <2>3. CASE UNCHANGED ackVars
    BY <2>3, <1>a
  <2> QED
    BY <1>3, <2>1, <2>2, <2>3 DEF TaskNext, Receive, ReceiveAndStop, HandlerThrows,
       NackAnswered, NackFails, NackRetried, TaskStep, TaskRemoved
<1>4. ASSUME NEW r \in Runs, ShutdownNext(r) PROVE Sender /\ Late
  <2>1. CASE ShutdownFlush(r)
    <3>1. r \notin Tasks /\ r \in Flushers /\ FlushLoop(r) /\ UNCHANGED task
      BY <2>1, TasksAssumption DEF Runs, Flushers, ShutdownFlush
    <3> QED
      BY <3>1, <1>e DEF FlushLoop, TypeOK, BatchInv, Sending
  <2> QED
    BY <1>4, <2>1, <1>a DEF ShutdownNext, DrainWakes
<1>5. ASSUME NEW f \in Flushers, FlushNext(f) PROVE Sender /\ Late
  BY <1>5, <1>b DEF FlushNext, AckAnswered, AckFails, AckRetried, FlushStep
<1>6. CASE UNCHANGED vars
  BY <1>6, <1>a DEF vars
<1> QED
  BY <1>1, <1>2, <1>3, <1>4, <1>5, <1>6 DEF Next

\* What a step of a flusher does to the acks: none appears, and unless run()
\* threw the buffer away none disappears.
LEMMA FlushLoopMoves ==
  ASSUME TypeOK, NEW f \in Flushers, FlushLoop(f),
         answered' = answered \cup batch[f]
  PROVE  (Unsent \cup answered)' = Unsent \cup answered
<1> USE DEF TypeOK
<1>1. \A g \in Flushers \ {f} : batch'[g] = batch[g]
  BY DEF FlushLoop
<1>2. /\ pendingAcks' \cup batch'[f] = pendingAcks
      /\ answered' = answered \cup batch[f]
  BY DEF FlushLoop
<1>3. ASSUME NEW g \in Flushers
      PROVE  /\ batch[g] \subseteq (Unsent \cup answered)'
             /\ batch'[g] \subseteq Unsent \cup answered
  BY <1>1, <1>2 DEF Unsent
<1> QED
  BY <1>2, <1>3 DEF Unsent

\* The same of any step that is not run() and not the end of a handler.
LEMMA AcksMove ==
  ASSUME TypeOK, BatchInv, [Next]_vars, ~Run, \A t \in Tasks : ~HandlerResolves(t)
  PROVE  (Unsent \cup answered)' = Unsent \cup answered /\ succeeded' = succeeded
<1> DEFINE Kept == (Unsent \cup answered)' = Unsent \cup answered /\ succeeded' = succeeded
<1> USE DEF loopVars, signals, taskVars, sdVars, ackVars, history
<1>a. ASSUME UNCHANGED <<pendingAcks, batch, history>> PROVE Kept
  BY <1>a DEF Unsent
<1>1. CASE LoopNext
  BY <1>1, <1>a DEF LoopNext, TakeOpens, TakeRejected, Disconnects, StreamEnds,
     BackoffElapses, RaceWakes, RunReturns
<1>2. CASE Stop \/ Kill
  BY <1>2, <1>a DEF Stop, Kill
<1>3. ASSUME NEW t \in Tasks, TaskNext(t) PROVE Kept
  <2>1. CASE ImmediateFires(t)
    <3>1. /\ t \in Flushers /\ FlushLoop(t) /\ t \notin Sending
          /\ UNCHANGED history
      BY <2>1 DEF ImmediateFires, Flushers, Sending
    <3>2. answered' = answered \cup batch[t]
      BY <3>1 DEF BatchInv
    <3> QED
      BY <3>1, <3>2, FlushLoopMoves
  <2>2. CASE UNCHANGED <<ackVars, history>>
    BY <2>2, <1>a
  <2> QED
    BY <1>3, <2>1, <2>2 DEF TaskNext, Receive, ReceiveAndStop, HandlerThrows,
       NackAnswered, NackFails, NackRetried, TaskStep, TaskRemoved
<1>4. ASSUME NEW r \in Runs, ShutdownNext(r) PROVE Kept
  <2>1. CASE ShutdownFlush(r)
    <3>1. /\ r \in Flushers /\ FlushLoop(r) /\ r \notin Sending
          /\ UNCHANGED history
      BY <2>1 DEF ShutdownFlush, Flushers, Sending
    <3>2. answered' = answered \cup batch[r]
      BY <3>1 DEF BatchInv
    <3> QED
      BY <3>1, <3>2, FlushLoopMoves
  <2> QED
    BY <1>4, <2>1, <1>a DEF ShutdownNext, DrainWakes
<1>5. ASSUME NEW f \in Flushers, FlushNext(f) PROVE Kept
  <2>1. CASE AckAnswered(f)
    <3>1. /\ FlushLoop(f) /\ answered' = answered \cup batch[f]
          /\ UNCHANGED succeeded
      BY <2>1 DEF AckAnswered
    <3>2. (Unsent \cup answered)' = Unsent \cup answered
      BY <3>1, FlushLoopMoves
    <3> QED
      BY <3>1, <3>2
  <2>2. CASE AckFails(f) \/ AckRetried(f)
    BY <2>2, <1>a DEF AckFails, AckRetried, FlushStep
  <2> QED
    BY <1>5, <2>1, <2>2 DEF FlushNext
<1>6. CASE UNCHANGED vars
  BY <1>6, <1>a DEF vars
<1> QED
  BY <1>1, <1>2, <1>3, <1>4, <1>5, <1>6 DEF Next

\* The end of a handler puts its ack into the buffer.
LEMMA HandlerAcks ==
  ASSUME TypeOK, NEW t \in Tasks, HandlerResolves(t)
  PROVE  /\ (Unsent \cup answered)' = Unsent \cup answered \cup {t}
         /\ succeeded' = succeeded \cup {t}
  BY DEF HandlerResolves, ScheduleAck, Unsent

LEMMA ResolvedStep ==
  TypeOK /\ BatchInv /\ ResolvedInv /\ [Next]_vars => ResolvedInv'
<1> SUFFICES ASSUME TypeOK, BatchInv, ResolvedInv, [Next]_vars PROVE ResolvedInv'
  OBVIOUS
<1>1. CASE Run
  <2>1. /\ UNCHANGED <<task, history>>
        /\ Unsent' \subseteq Unsent
    BY <1>1 DEF Run, history, Unsent
  <2> QED
    BY <2>1 DEF ResolvedInv, history
<1>2. ASSUME NEW t \in Tasks, HandlerResolves(t) PROVE ResolvedInv'
  <2>1. task' = [task EXCEPT ![t] = "settled"]
    BY <1>2 DEF HandlerResolves
  <2> QED
    BY <1>2, <2>1, HandlerAcks DEF ResolvedInv, TypeOK
<1>3. CASE ~Run /\ \A t \in Tasks : ~HandlerResolves(t)
  BY <1>3, AcksMove, EndIsFinal DEF ResolvedInv, TypeOK
<1> QED
  BY <1>1, <1>2, <1>3

LEMMA KeptStep ==
  ASSUME MaxRuns <= 1
  PROVE  TypeOK /\ KeptInv /\ [Next]_vars => KeptInv'
<1> SUFFICES ASSUME TypeOK, KeptInv, [Next]_vars
             PROVE  succeeded' \subseteq (Unsent \cup answered)'
  BY FreshStep, BatchStep DEF KeptInv
<1>1. CASE Run
  BY <1>1, RunIsFirst DEF Run, history, KeptInv, FreshInv
<1>2. ASSUME NEW t \in Tasks, HandlerResolves(t)
      PROVE  succeeded' \subseteq (Unsent \cup answered)'
  BY <1>2, HandlerAcks DEF KeptInv
<1>3. CASE ~Run /\ \A t \in Tasks : ~HandlerResolves(t)
  BY <1>3, AcksMove DEF KeptInv
<1> QED
  BY <1>1, <1>2, <1>3

LEMMA BatchInit == Init => BatchInv
  BY DEF Init, BatchInv, Flushers

LEMMA ResolvedInit == Init => ResolvedInv
  BY DEF Init, ResolvedInv, Unsent

LEMMA KeptInit == Init => KeptInv
  BY FreshInit, BatchInit DEF Init, KeptInv

\* In a single run the ack of a job that was handled is in the buffer, in a
\* batch or answered, whatever reconnects, retries, stop() and kill() do.
THEOREM AcksAreKept ==
  ASSUME MaxRuns <= 1
  PROVE  Spec => []NoAckLost
<1>1. KeptInv => NoAckLost
  BY DEF KeptInv, NoAckLost
<1> QED
  BY <1>1, KeptInit, TypeCorrect, KeptStep, PTL DEF Spec

-----------------------------------------------------------------------------
(* The shutdown of a single run whose handlers do not call stop() before     *)
(* their first await.                                                        *)

\* A worker that runs once shuts down once.
LEMMA OneRun ==
  ASSUME MaxRuns <= 1, TypeOK, NEW r \in Runs
  PROVE  /\ r = 1 /\ Runs = {1}
         /\ runs > 0 => runs = r
         /\ r \in Flushers /\ r \notin Tasks
<1>1. r = 1 /\ MaxRuns = 1 /\ Runs = {1}
  BY MaxRunsAssumption DEF Runs
<1>2. runs \in {0, 1}
  BY <1>1 DEF TypeOK
<1> QED
  BY <1>1, <1>2, TasksAssumption DEF Flushers

\* startShutdown() up to its next await.
LEMMA DrainLoopShuts ==
  ASSUME MaxRuns <= 1, TypeOK, ShutdownInv, NEW r \in Runs, DrainLoop(r), aborted',
         UNCHANGED <<loop, runs, killed, ackFlushPromise>>,
         inFlight' \subseteq inFlight
  PROVE  ShutdownInv'
<1>1. sd' = [sd EXCEPT ![r] = sd'[r]] /\ streamAborted' \in {streamAborted, TRUE}
  BY DEF DrainLoop, TypeOK
<1>2. sd'[r] = "done" => streamAborted'
  BY DEF DrainLoop, TypeOK, SdStates
<1>3. sd'[r] = "flushing" => inFlight' = {} /\ sdFlush'[r] = ackFlushPromise'
  BY DEF DrainLoop, TypeOK, SdStates
<1>4. \A q \in Runs : q = r
  BY OneRun
<1> QED
  BY <1>2, <1>3, <1>4 DEF ShutdownInv, killing

\* What a flusher does to the shutdown coroutine.
LEMMA FlushLoopShuts ==
  ASSUME MaxRuns <= 1, TypeOK, ShutdownInv, NEW f \in Flushers, FlushLoop(f),
         f \in Runs => aborted,
         UNCHANGED <<loop, runs, killed, aborted, ackFlushPromise, inFlight, sdFlush>>
  PROVE  ShutdownInv'
<1>1. CASE UNCHANGED <<sd, streamAborted>>
  BY <1>1 DEF ShutdownInv, killing
<1>2. CASE f \in Runs /\ sd' = [sd EXCEPT ![f] = "done"] /\ streamAborted'
  <2>1. \A q \in Runs : sd'[q] = "done"
    BY <1>2, OneRun DEF TypeOK
  <2> QED
    BY <1>2, <2>1 DEF ShutdownInv, killing
<1> QED
  BY <1>1, <1>2 DEF FlushLoop

LEMMA ShutdownStep ==
  ASSUME MaxRuns <= 1, ~StopInHandler
  PROVE  TypeOK /\ TrackedInv /\ FlushInv /\ ShutdownInv /\ [Next]_vars => ShutdownInv'
<1> SUFFICES ASSUME TypeOK, TrackedInv, FlushInv, ShutdownInv, [Next]_vars
             PROVE  ShutdownInv'
  OBVIOUS
<1> USE DEF loopVars, signals, taskVars, sdVars, ackVars, history
<1>a. ASSUME UNCHANGED <<runs, signals, sdVars, ackFlushPromise>>,
             inFlight' \subseteq inFlight,
             loop' = "draining" => loop = "draining" \/ aborted
      PROVE  ShutdownInv'
  BY <1>a DEF ShutdownInv, killing
<1>1. CASE LoopNext
  <2>1. CASE Run
    <3>1. runs = 0 /\ runs' = 1
      BY <2>1, RunIsFirst
    <3>2. /\ \A r \in Runs : sd'[r] = "none"
          /\ killed' = killed /\ killed \subseteq 0..0
          /\ ~streamAborted' /\ loop' = "taking"
      BY <2>1, <3>1 DEF Run, TrackedInv, FreshInv, ShutdownInv
    <3> QED
      BY <3>1, <3>2 DEF ShutdownInv, killing
  <2>2. CASE StreamEnds \/ BackoffElapses
    BY <2>2, <1>a DEF StreamEnds, BackoffElapses, LoopTop, ShutdownInv, killing
  <2> QED
    BY <1>1, <2>1, <2>2, <1>a DEF LoopNext, TakeOpens, TakeRejected, Disconnects,
       RaceWakes, RunReturns
<1>2. CASE Stop
  <2>1. CASE runs = 0
    BY <1>2, <2>1, OneRun DEF Stop, Abort, DrainLoop, ShutdownInv, killing
  <2>2. CASE runs > 0
    <3>1. DrainLoop(runs) /\ runs \in Runs /\ aborted'
      BY <1>2, <2>2, MaxRunsAssumption DEF Stop, Abort, TypeOK, Runs
    <3> QED
      BY <1>2, <3>1, DrainLoopShuts DEF Stop
  <2> QED
    BY <2>1, <2>2, MaxRunsAssumption DEF TypeOK
<1>3. CASE Kill
  <2>1. killed' \subseteq 0..runs /\ runs' = runs
    BY <1>3, MaxRunsAssumption DEF Kill, ShutdownInv, TypeOK
  <2>2. \A r \in Runs : sd'[r] = "flushing" => sd[r] = "flushing"
    BY <1>3 DEF Kill, TypeOK
  <2> QED
    BY <1>3, <2>1, <2>2 DEF Kill, ShutdownInv
<1>4. ASSUME NEW t \in Tasks, TaskNext(t) PROVE ShutdownInv'
  <2>1. CASE Receive(t)
    BY <2>1 DEF Receive, Dispatch, Limit, ShutdownInv, killing
  <2>2. CASE HandlerResolves(t)
    <3>1. inFlight # {}
      BY <2>2 DEF HandlerResolves, TrackedInv, Outstanding
    <3> QED
      BY <2>2, <3>1 DEF HandlerResolves, ShutdownInv, killing
  <2>3. CASE ImmediateFires(t)
    <3>1. t \in Flushers /\ t \notin Runs
      BY TasksAssumption DEF Flushers, Runs
    <3> QED
      BY <2>3, <3>1, FlushLoopShuts DEF ImmediateFires
  <2> QED
    BY <1>4, <2>1, <2>2, <2>3, <1>a DEF TaskNext, ReceiveAndStop, HandlerThrows,
       NackAnswered, NackFails, NackRetried, TaskStep, TaskRemoved
<1>5. ASSUME NEW r \in Runs, ShutdownNext(r) PROVE ShutdownInv'
  <2>1. aborted /\ r \in Flushers
    BY <1>5 DEF ShutdownNext, DrainWakes, ShutdownFlush, ShutdownInv, Flushers
  <2>2. CASE DrainWakes(r)
    BY <2>1, <2>2, DrainLoopShuts DEF DrainWakes
  <2>3. CASE ShutdownFlush(r)
    BY <2>1, <2>3, FlushLoopShuts DEF ShutdownFlush
  <2> QED
    BY <1>5, <2>2, <2>3 DEF ShutdownNext
<1>6. ASSUME NEW f \in Flushers, FlushNext(f) PROVE ShutdownInv'
  <2>1. CASE AckAnswered(f)
    <3>1. f \in Runs => aborted
      BY <2>1 DEF AckAnswered, FlushInv, Active, ShutdownInv
    <3> QED
      BY <2>1, <3>1, FlushLoopShuts DEF AckAnswered
  <2>2. CASE AckFails(f) \/ AckRetried(f)
    BY <2>2, <1>a DEF AckFails, AckRetried, FlushStep
  <2> QED
    BY <1>6, <2>1, <2>2 DEF FlushNext
<1>7. CASE UNCHANGED vars
  BY <1>7, <1>a DEF vars
<1> QED
  BY <1>1, <1>2, <1>3, <1>4, <1>5, <1>6, <1>7 DEF Next

\* A flusher that sends on, or ends, is the only one that is active.
LEMMA FlushLoopSingle ==
  ASSUME MaxRuns <= 1, TypeOK, FlushInv, NEW f \in Flushers, FlushLoop(f),
         f \in Tasks => f \in Active,
         f \in Runs => sd[f] = "flushing" /\ Active \cap Tasks = {},
         UNCHANGED ackFlushPromise
  PROVE  FlushInv'
<1>0. \A g \in Flushers \ {f} : g \in Active' <=> g \in Active
  BY DEF FlushLoop, TypeOK, Active
<1>1. f \in Active' => flush'[f] = "sending" /\ UNCHANGED <<sd, ackFlushInFlight>>
  BY DEF FlushLoop, TypeOK, Active
<1>2. CASE f \in Tasks
  <2>1. Active \cap Tasks = {f} /\ Active \cap Runs = {}
    BY <1>2 DEF FlushInv
  <2>2. f \notin Runs
    BY <1>2, TasksAssumption DEF Runs
  <2>3. Active' \cap Tasks \subseteq {f} /\ Active' \cap Runs = {}
    BY <1>0, <2>1, <2>2 DEF Active, Flushers
  <2> QED
    BY <1>1, <2>1, <2>3 DEF FlushInv
<1>3. CASE f \in Runs
  <2>1. \A r \in Runs : r = f
    BY <1>3, OneRun
  <2>2. f \notin Tasks
    BY <1>3, OneRun
  <2>3. Active' \cap Tasks = {}
    BY <1>0, <1>3, <2>2 DEF Active, Flushers
  <2> QED
    BY <1>1, <1>3, <2>1, <2>3 DEF FlushInv
<1> QED
  BY <1>2, <1>3 DEF Flushers

\* startShutdown() before its own flush leaves the flushers alone.
LEMMA DrainLoopSingle ==
  ASSUME TypeOK, FlushInv, NEW r \in Runs, DrainLoop(r), sd[r] # "flushing",
         UNCHANGED <<ackFlushInFlight, ackFlushPromise, flush>>
  PROVE  FlushInv'
<1>1. /\ r \notin Active
      /\ \A q \in Runs \ {r} : sd'[q] = sd[q]
  BY DEF DrainLoop, TypeOK, FlushInv
<1> QED
  BY <1>1 DEF FlushInv, Active

LEMMA FlushInvStep ==
  ASSUME MaxRuns <= 1
  PROVE  TypeOK /\ TrackedInv /\ BatchInv /\ ShutdownInv /\ FlushInv /\ [Next]_vars => FlushInv'
<1> SUFFICES ASSUME TypeOK, TrackedInv, BatchInv, ShutdownInv, FlushInv, [Next]_vars
             PROVE  FlushInv'
  OBVIOUS
<1> USE DEF loopVars, signals, taskVars, sdVars, ackVars, history
<1>a. ASSUME UNCHANGED <<sd, ackFlushInFlight, ackFlushPromise, flush>> PROVE FlushInv'
  BY <1>a DEF FlushInv, Active
<1>1. CASE LoopNext
  <2>1. CASE Run
    <3>1. Active' = {}
      BY <2>1, RunIsFirst DEF Run, TrackedInv, FreshInv, Active
    <3> QED
      BY <3>1 DEF FlushInv
  <2> QED
    BY <1>1, <2>1, <1>a DEF LoopNext, TakeOpens, TakeRejected, Disconnects, StreamEnds,
       BackoffElapses, RaceWakes, RunReturns
<1>2. CASE Stop
  <2>1. CASE runs > 0 /\ DrainLoop(runs)
    <3>1. runs \in Runs /\ sd[runs] = "none"
      BY <1>2, <2>1, MaxRunsAssumption DEF Stop, Abort, TypeOK, Runs, SdStates, ShutdownInv
    <3> QED
      BY <1>2, <2>1, <3>1, DrainLoopSingle DEF Stop
  <2> QED
    BY <1>2, <2>1, <1>a DEF Stop, Abort
<1>3. CASE Kill
  <2>1. CASE ~aborted /\ runs > 0
    <3>1. Active \cap Runs = {}
      BY <2>1 DEF ShutdownInv, FlushInv
    <3>2. UNCHANGED <<ackFlushInFlight, ackFlushPromise, flush>>
      BY <1>3 DEF Kill
    <3> QED
      BY <3>1, <3>2 DEF FlushInv, Active
  <2> QED
    BY <1>3, <2>1, <1>a DEF Kill
<1>4. ASSUME NEW t \in Tasks, TaskNext(t) PROVE FlushInv'
  <2>0. t \in Flushers /\ t \notin Runs
    BY TasksAssumption DEF Flushers, Runs
  <2>1. CASE Receive(t) \/ ReceiveAndStop(t)
    <3>1. CASE UNCHANGED sd
      BY <2>1, <3>1, <1>a DEF Receive, ReceiveAndStop
    <3>2. CASE Abort /\ DrainLoop(runs) /\ runs > 0
      <4>1. runs \in Runs /\ sd[runs] = "none"
        BY <3>2, MaxRunsAssumption DEF Abort, TypeOK, Runs, SdStates, ShutdownInv
      <4> QED
        BY <2>1, <3>2, <4>1, DrainLoopSingle DEF Receive, ReceiveAndStop
    <3> QED
      BY <2>1, <3>1, <3>2 DEF Receive, ReceiveAndStop, Abort
  <2>2. CASE HandlerResolves(t)
    <3>1. inFlight # {} /\ flush[t] = "none"
      BY <2>2 DEF HandlerResolves, TrackedInv, Outstanding, BatchInv
    <3>2. Active \cap Runs = {}
      BY <3>1 DEF FlushInv, ShutdownInv
    <3>3. CASE ackFlushInFlight
      BY <2>2, <3>3, <1>a DEF HandlerResolves, ScheduleAck
    <3>4. CASE ~ackFlushInFlight
      <4>1. Active = {}
        BY <3>2, <3>4 DEF FlushInv, Active, Flushers
      <4>2. /\ ackFlushInFlight' /\ ackFlushPromise' = t
            /\ flush' = [flush EXCEPT ![t] = "scheduled"]
        BY <2>2, <3>4 DEF HandlerResolves, ScheduleAck
      <4>3. Active' = {t}
        BY <2>0, <4>1, <4>2 DEF Active, TypeOK
      <4> QED
        BY <2>0, <4>2, <4>3 DEF FlushInv
    <3> QED
      BY <3>3, <3>4
  <2>3. CASE ImmediateFires(t)
    BY <2>0, <2>3, FlushLoopSingle DEF ImmediateFires, Active
  <2> QED
    BY <1>4, <2>1, <2>2, <2>3, <1>a DEF TaskNext, HandlerThrows,
       NackAnswered, NackFails, NackRetried, TaskStep, TaskRemoved
<1>5. ASSUME NEW r \in Runs, ShutdownNext(r) PROVE FlushInv'
  <2>1. CASE DrainWakes(r)
    BY <2>1, DrainLoopSingle DEF DrainWakes
  <2>2. CASE ShutdownFlush(r)
    <3>1. sd[r] = "flushing" /\ sdFlush[r] = ackFlushPromise /\ FlushAwaited(r)
      BY <2>2 DEF ShutdownFlush, ShutdownInv
    <3>2. Active \cap Tasks = {}
      BY <3>1 DEF FlushAwaited, FlushInv, Active
    <3> QED
      BY <2>2, <3>1, <3>2, OneRun, FlushLoopSingle DEF ShutdownFlush
  <2> QED
    BY <1>5, <2>1, <2>2 DEF ShutdownNext
<1>6. ASSUME NEW f \in Flushers, FlushNext(f) PROVE FlushInv'
  <2>1. CASE AckAnswered(f)
    <3>1. f \in Active
      BY <2>1 DEF AckAnswered, Active
    <3> QED
      BY <2>1, <3>1, FlushLoopSingle DEF AckAnswered, FlushInv
  <2>2. CASE AckFails(f) \/ AckRetried(f)
    <3>1. /\ Active' = Active /\ \A g \in Flushers : flush'[g] = "scheduled" => flush[g] = "scheduled"
          /\ UNCHANGED <<sd, ackFlushInFlight, ackFlushPromise>>
      BY <2>2 DEF AckFails, AckRetried, FlushStep, Active, TypeOK
    <3> QED
      BY <3>1 DEF FlushInv, Flushers
  <2> QED
    BY <1>6, <2>1, <2>2 DEF FlushNext
<1>7. CASE UNCHANGED vars
  BY <1>7, <1>a DEF vars
<1> QED
  BY <1>1, <1>2, <1>3, <1>4, <1>5, <1>6, <1>7 DEF Next

LEMMA ShutdownInit == Init => ShutdownInv /\ FlushInv
  BY DEF Init, ShutdownInv, FlushInv, Active, killing

\* The two invariants of the shutdown and what they rest on.
LEMMA ShutdownCorrect ==
  ASSUME MaxRuns <= 1, ~StopInHandler
  PROVE  Spec => [](TypeOK /\ TrackedInv /\ BatchInv /\ ShutdownInv /\ FlushInv)
  BY TrackedInit, BatchInit, ShutdownInit, TypeCorrect, TrackedStep, BatchStep,
     ShutdownStep, FlushInvStep, PTL DEF Spec

\* One bulk ack at a time: the shutdown coroutine awaits the flush that is
\* scheduled or running before it starts its own, and none starts after that.
THEOREM FlushesAreSingle ==
  ASSUME MaxRuns <= 1, ~StopInHandler
  PROVE  Spec => []SingleFlush
<1>1. TypeOK /\ FlushInv => SingleFlush
  <2> SUFFICES ASSUME TypeOK, FlushInv PROVE SingleFlush
    OBVIOUS
  <2>1. \A f, g \in Sending : f = g
    <3> SUFFICES ASSUME NEW f \in Sending, NEW g \in Sending PROVE f = g
      OBVIOUS
    <3>1. f \in Active /\ g \in Active /\ f \in Tasks \cup Runs /\ g \in Tasks \cup Runs
      BY DEF Sending, Active, Flushers
    <3>2. CASE f \in Tasks /\ g \in Tasks
      BY <3>1, <3>2 DEF FlushInv
    <3>3. CASE f \in Runs /\ g \in Runs
      BY <3>3, OneRun
    <3> QED
      BY <3>1, <3>2, <3>3 DEF FlushInv
  <2>2. CASE Sending = {}
    BY <2>2, FS_EmptySet DEF SingleFlush
  <2>3. CASE Sending # {}
    <3>1. PICK f \in Sending : TRUE
      BY <2>3
    <3>2. Sending = {f}
      BY <2>1, <3>1
    <3> QED
      BY <3>2, FS_Singleton DEF SingleFlush
  <2> QED
    BY <2>2, <2>3
<1> QED
  BY <1>1, ShutdownCorrect, PTL

\* While everything has ended and is answered, no step but a dispatch changes
\* that, and a dispatch needs a worker that was not asked to stop.
LEMMA DrainedStays ==
  ASSUME TypeOK, [Next]_vars, Outstanding = {}, Unsent = {}, aborted, runs' = runs
  PROVE  Outstanding' = {} /\ Unsent' = {}
<1> DEFINE Goal == Outstanding' = {} /\ Unsent' = {}
<1> USE DEF loopVars, signals, taskVars, sdVars, ackVars, history
<1>a. ASSUME UNCHANGED <<task, pendingAcks, batch>> PROVE Goal
  BY <1>a DEF Outstanding, Unsent
<1>b. \A t \in Tasks : task[t] \in {"unseen", "gone"}
  BY DEF Outstanding
<1>c. ASSUME NEW f \in Flushers, FlushLoop(f), UNCHANGED task PROVE Goal
  <2>1. pendingAcks = {}
    BY DEF Unsent
  <2>2. pendingAcks' = {} /\ batch' = [batch EXCEPT ![f] = {}]
    BY <1>c, <2>1 DEF FlushLoop
  <2>3. \A g \in Flushers : batch'[g] \subseteq batch[g]
    BY <2>2 DEF TypeOK
  <2> QED
    BY <1>c, <2>2, <2>3 DEF Unsent, Outstanding
<1>1. CASE LoopNext
  <2>1. ~Run
    BY MaxRunsAssumption DEF Run, TypeOK
  <2> QED
    BY <1>1, <2>1, <1>a DEF LoopNext, TakeOpens, TakeRejected, Disconnects, StreamEnds,
       BackoffElapses, RaceWakes, RunReturns
<1>2. CASE Stop \/ Kill
  BY <1>2, <1>a DEF Stop, Kill
<1>3. ASSUME NEW t \in Tasks, TaskNext(t) PROVE Goal
  <2>1. CASE ImmediateFires(t)
    BY <2>1, <1>c DEF ImmediateFires, Flushers
  <2> QED
    BY <1>3, <2>1, <1>b DEF TaskNext, Receive, ReceiveAndStop, Dispatch, HandlerResolves,
       HandlerThrows, NackAnswered, NackFails, NackRetried, TaskStep, TaskRemoved
<1>4. ASSUME NEW r \in Runs, ShutdownNext(r) PROVE Goal
  BY <1>4, <1>a, <1>c DEF ShutdownNext, DrainWakes, ShutdownFlush, Flushers
<1>5. ASSUME NEW f \in Flushers, FlushNext(f) PROVE Goal
  BY <1>5, <1>a, <1>c DEF FlushNext, AckAnswered, AckFails, AckRetried, FlushStep
<1>6. CASE UNCHANGED vars
  BY <1>6, <1>a DEF vars
<1> QED
  BY <1>1, <1>2, <1>3, <1>4, <1>5, <1>6 DEF Next

\* Only run() counts a run, and nothing takes a kill back.
LEMMA Counters == [Next]_vars => killed \subseteq killed' /\ (Run \/ runs' = runs)
  BY DEF Next, LoopNext, Run, TakeOpens, TakeRejected, Disconnects,
     StreamEnds, BackoffElapses, RaceWakes, RunReturns, Stop, Kill, TaskNext, Receive,
     ReceiveAndStop, HandlerResolves, HandlerThrows, NackAnswered, NackFails,
     NackRetried, TaskStep, TaskRemoved, ImmediateFires, ShutdownNext, DrainWakes,
     ShutdownFlush, FlushNext, AckAnswered, AckFails, AckRetried, FlushStep, vars, signals

\* What raises the abort signal of the stream: kill(), or the shutdown coroutine
\* after its drain loop saw kill() or after its own flush.
LEMMA WhoAborts ==
  ASSUME TypeOK, [Next]_vars, ~streamAborted, streamAborted', killed' \cap Runs = {}
  PROVE  runs = 0 \/ \E r \in Runs : ShutdownFlush(r) \/ AckAnswered(r)
<1> DEFINE Goal == runs = 0 \/ \E r \in Runs : ShutdownFlush(r) \/ AckAnswered(r)
<1> USE DEF loopVars, signals, taskVars, sdVars, ackVars, history
<1>a. ASSUME UNCHANGED streamAborted PROVE FALSE
  BY <1>a
<1>b. ASSUME NEW r \in Runs, DrainLoop(r), UNCHANGED killed PROVE Goal
  <2>1. killing
    BY <1>a, <1>b DEF DrainLoop
  <2> QED
    BY <1>b, <2>1, MaxRunsAssumption DEF killing, Runs, TypeOK
<1>c. ASSUME Abort, UNCHANGED killed PROVE Goal
  <2>1. CASE runs > 0
    <3>1. runs \in Runs
      BY <2>1, MaxRunsAssumption DEF Runs, TypeOK
    <3> QED
      BY <1>a, <1>b, <1>c, <3>1 DEF Abort
  <2> QED
    BY <2>1, MaxRunsAssumption DEF TypeOK
<1>1. CASE LoopNext
  BY <1>1, <1>a DEF LoopNext, Run, TakeOpens, TakeRejected, Disconnects, StreamEnds,
     BackoffElapses, LoopTop, RaceWakes, RunReturns
<1>2. CASE Stop
  BY <1>2, <1>c DEF Stop
<1>3. CASE Kill
  <2>1. runs \in killed'
    BY <1>3 DEF Kill
  <2> QED
    BY <2>1, MaxRunsAssumption DEF Runs, TypeOK
<1>4. ASSUME NEW t \in Tasks, TaskNext(t) PROVE Goal
  <2>1. t \notin Runs
    BY TasksAssumption DEF Runs
  <2>2. CASE ReceiveAndStop(t)
    BY <2>2, <1>c DEF ReceiveAndStop
  <2>3. CASE ImmediateFires(t)
    BY <2>1, <2>3, <1>a DEF ImmediateFires, FlushLoop
  <2> QED
    BY <1>4, <2>2, <2>3, <1>a DEF TaskNext, Receive, HandlerResolves, HandlerThrows,
       NackAnswered, NackFails, NackRetried, TaskStep, TaskRemoved
<1>5. ASSUME NEW r \in Runs, ShutdownNext(r) PROVE Goal
  BY <1>5, <1>b DEF ShutdownNext, DrainWakes
<1>6. ASSUME NEW f \in Flushers, FlushNext(f) PROVE Goal
  <2>1. CASE AckAnswered(f)
    <3>1. f \in Runs
      BY <2>1, <1>a DEF AckAnswered, FlushLoop, Flushers
    <3> QED
      BY <2>1, <3>1
  <2> QED
    BY <1>6, <2>1, <1>a DEF FlushNext, AckFails, AckRetried, FlushStep
<1>7. CASE UNCHANGED vars
  BY <1>7, <1>a DEF vars
<1> QED
  BY <1>1, <1>2, <1>3, <1>4, <1>5, <1>6, <1>7 DEF Next

LEMMA HeldStep ==
  ASSUME MaxRuns <= 1
  PROVE  TypeOK /\ DrainedInv /\ [Next]_vars => StreamHeldUntilDrained'
<1> SUFFICES ASSUME TypeOK, DrainedInv, [Next]_vars, streamAborted', NeverKilled'
             PROVE  Outstanding' = {} /\ Unsent' = {}
  BY DEF StreamHeldUntilDrained
<1> USE DEF DrainedInv
<1>0. FreshInv /\ TypeOK
  BY DEF TrackedInv
<1>1. killed \subseteq killed' /\ NeverKilled
  BY Counters DEF NeverKilled
<1>2. CASE Run
  BY <1>2 DEF Run
<1>3. CASE ~Run /\ runs = 0
  <2>1. /\ Outstanding = {} /\ Unsent = {} /\ loop = "idle"
        /\ \A t \in Tasks : task[t] = "unseen"
        /\ \A r \in Runs : sd[r] = "none"
        /\ \A f \in Flushers : flush[f] = "none"
    BY <1>0, <1>3 DEF FreshInv, Outstanding, Unsent
  <2>2. CASE UNCHANGED <<task, pendingAcks, batch>>
    BY <2>1, <2>2 DEF Outstanding, Unsent
  <2>3. CASE LoopNext
    BY <1>3, <2>1, <2>3 DEF LoopNext, TakeOpens, TakeRejected, Disconnects, StreamEnds,
       BackoffElapses, RaceWakes, RunReturns
  <2>4. CASE Stop \/ Kill
    BY <2>2, <2>4 DEF Stop, Kill, taskVars, ackVars
  <2>5. \A t \in Tasks : ~TaskNext(t)
    BY <2>1 DEF TaskNext, Receive, ReceiveAndStop, Dispatch, HandlerResolves,
       HandlerThrows, NackAnswered, NackFails, NackRetried, TaskStep, TaskRemoved,
       ImmediateFires, Flushers
  <2>6. \A r \in Runs : ~ShutdownNext(r)
    BY <2>1 DEF ShutdownNext, DrainWakes, ShutdownFlush
  <2>7. \A f \in Flushers : ~FlushNext(f)
    BY <2>1 DEF FlushNext, AckAnswered, AckFails, AckRetried, FlushStep
  <2>8. CASE UNCHANGED vars
    BY <2>2, <2>8 DEF vars, taskVars, ackVars
  <2> QED
    BY <2>3, <2>4, <2>5, <2>6, <2>7, <2>8 DEF Next
<1>4. CASE ~Run /\ runs # 0 /\ streamAborted
  <2>1. Outstanding = {} /\ Unsent = {} /\ aborted
    BY <1>1, <1>4 DEF StreamHeldUntilDrained, ShutdownInv
  <2>2. runs' = runs
    BY <1>4, Counters
  <2> QED
    BY <2>1, <2>2, DrainedStays
<1>5. CASE ~Run /\ runs # 0 /\ ~streamAborted
  <2>1. PICK r \in Runs : ShutdownFlush(r) \/ AckAnswered(r)
    BY <1>5, WhoAborts DEF NeverKilled
  <2>2. /\ FlushLoop(r) /\ UNCHANGED <<inFlight, task>>
        /\ sd[r] = "flushing" /\ Active \cap Tasks = {}
    <3>1. CASE ShutdownFlush(r)
      BY <3>1 DEF ShutdownFlush, taskVars, ShutdownInv, FlushAwaited, FlushInv, Active
    <3>2. CASE AckAnswered(r)
      BY <3>2 DEF AckAnswered, taskVars, FlushInv, Active, Flushers
    <3> QED
      BY <2>1, <3>1, <3>2
  <2>3. Outstanding' = {}
    BY <2>2 DEF ShutdownInv, TrackedInv, Outstanding
  <2>4. pendingAcks = {} /\ pendingAcks' = {} /\ batch' = [batch EXCEPT ![r] = {}]
    <3>1. ~UNCHANGED streamAborted
      BY <1>5
    <3> QED
      BY <2>2, <3>1 DEF FlushLoop
  <2>5. ASSUME NEW f \in Flushers PROVE batch'[f] = {}
    <3>1. f = r \/ (f \in Tasks /\ f \notin Active)
      <4>1. f \in Runs => f = 1 /\ r = 1
        BY OneRun
      <4> QED
        BY <2>2, <4>1 DEF Flushers
    <3>2. f \in Tasks /\ f # r => batch[f] = {}
      BY <3>1 DEF BatchInv, Sending, Active
    <3> QED
      BY <2>4, <3>1, <3>2, OneRun DEF TypeOK
  <2> QED
    BY <2>3, <2>4, <2>5 DEF Unsent
<1> QED
  BY <1>2, <1>3, <1>4, <1>5

LEMMA DrainedInit == Init => DrainedInv
  BY TrackedInit, BatchInit, ShutdownInit DEF Init, DrainedInv, StreamHeldUntilDrained

LEMMA DrainedCorrect ==
  ASSUME MaxRuns <= 1, ~StopInHandler
  PROVE  Spec => []DrainedInv
<1>1. TypeOK /\ DrainedInv /\ [Next]_vars => DrainedInv'
  BY TrackedStep, BatchStep, ShutdownStep, FlushInvStep, HeldStep DEF DrainedInv
<1> QED
  BY <1>1, DrainedInit, TypeCorrect, PTL DEF Spec

\* Without kill(), a single run keeps its stream, and with it the server's lease
\* on its jobs, until every task has ended and every ack was answered.
THEOREM StreamIsHeld ==
  ASSUME MaxRuns <= 1, ~StopInHandler
  PROVE  Spec => []StreamHeldUntilDrained
<1>1. DrainedInv => StreamHeldUntilDrained
  BY DEF DrainedInv
<1> QED
  BY <1>1, DrainedCorrect, PTL

\* The loop of a single run is not entered again, and only its head takes the
\* abort of the stream back.
LEMMA ReturnStep ==
  ASSUME MaxRuns <= 1
  PROVE  TypeOK /\ DrainedInv /\ ReturnInv /\ [Next]_vars => ReturnInv'
<1> SUFFICES ASSUME TypeOK, DrainedInv, ReturnInv, [Next]_vars, loop' = "stopped"
             PROVE  streamAborted'
  BY DEF ReturnInv
<1> USE DEF loopVars, signals, taskVars, sdVars, ackVars, history
<1>a. ASSUME loop = "stopped", UNCHANGED streamAborted PROVE streamAborted'
  BY <1>a DEF ReturnInv
<1>1. CASE LoopNext
  <2>1. CASE RunReturns
    <3>1. sd[runs] = "done" /\ loop = "draining" /\ UNCHANGED streamAborted
      BY <2>1 DEF RunReturns
    <3>2. runs \in Runs
      BY <3>1, MaxRunsAssumption
         DEF Runs, TypeOK, DrainedInv, TrackedInv, FreshInv
    <3> QED
      BY <3>1, <3>2 DEF DrainedInv, ShutdownInv
  <2> QED
    BY <1>1, <2>1 DEF LoopNext, Run, TakeOpens, TakeRejected, Disconnects, StreamEnds,
       BackoffElapses, LoopTop, RaceWakes
<1>b. ASSUME NEW r \in Runs, loop = "stopped", DrainLoop(r) PROVE streamAborted'
  BY <1>a, <1>b DEF DrainLoop
<1>c. ASSUME NEW f \in Flushers, loop = "stopped", FlushLoop(f) PROVE streamAborted'
  BY <1>a, <1>c DEF FlushLoop
<1>2. CASE Stop
  <2>1. loop = "stopped" /\ Abort
    BY <1>2 DEF Stop
  <2>2. runs > 0 => runs \in Runs
    BY MaxRunsAssumption DEF Runs, TypeOK
  <2> QED
    BY <1>a, <1>b, <2>1, <2>2 DEF Abort
<1>3. CASE Kill
  BY <1>3 DEF Kill
<1>4. ASSUME NEW t \in Tasks, TaskNext(t) PROVE streamAborted'
  BY <1>4, <1>a, <1>c DEF TaskNext, Receive, ReceiveAndStop, Dispatch, Limit,
     HandlerResolves, HandlerThrows, NackAnswered, NackFails, NackRetried, TaskStep,
     TaskRemoved, ImmediateFires, Flushers
<1>5. ASSUME NEW r \in Runs, ShutdownNext(r) PROVE streamAborted'
  BY <1>5, <1>b, <1>c DEF ShutdownNext, DrainWakes, ShutdownFlush, Flushers
<1>6. ASSUME NEW f \in Flushers, FlushNext(f) PROVE streamAborted'
  BY <1>6, <1>a, <1>c DEF FlushNext, AckAnswered, AckFails, AckRetried, FlushStep
<1>7. CASE UNCHANGED vars
  BY <1>7, <1>a DEF vars
<1> QED
  BY <1>1, <1>2, <1>3, <1>4, <1>5, <1>6, <1>7 DEF Next

\* A run that was stopped, and not killed, returns with no task left and every
\* ack answered.
THEOREM StoppedRunsAreDrained ==
  ASSUME MaxRuns <= 1, ~StopInHandler
  PROVE  Spec => []StopDrains
<1>1. Init => ReturnInv
  BY DEF Init, ReturnInv
<1>2. DrainedInv /\ ReturnInv => StopDrains
  BY DEF DrainedInv, ReturnInv, StreamHeldUntilDrained, StopDrains
<1> QED
  BY <1>1, <1>2, TypeCorrect, DrainedCorrect, ReturnStep, PTL DEF Spec

-----------------------------------------------------------------------------
(* A single run implements the contract of module WorkerContract. *)

\* The contract's mode is a matter of the loop's end, the run and the signals.
LEMMA ModeKept ==
  ASSUME UNCHANGED <<runs, killed, aborted>>,
         loop' = "stopped" <=> loop = "stopped",
         loop' = "threw" <=> loop = "threw"
  PROVE  ContractMode' = ContractMode
  BY DEF ContractMode, killing

LEMMA JobsKept ==
  ASSUME UNCHANGED <<task, history>>
  PROVE  ContractJob' = ContractJob
  BY DEF ContractJob, Unsettled, history

\* A step of one task changes the contract's view of that task only.
LEMMA OneJobMoves ==
  ASSUME TypeOK, NEW t \in Tasks, NEW to, task' = [task EXCEPT ![t] = to],
         answered' = answered, succeeded' \in {succeeded, succeeded \cup {t}}
  PROVE  ContractJob' = [ContractJob EXCEPT ![t] = ContractJob'[t]]
<1> DEFINE View(u, tk, su) ==
             IF tk = "unseen" THEN "new"
             ELSE IF tk \in {"running", "nacking", "nackwait"} THEN "running"
             ELSE IF u \in su \ answered THEN "owed" ELSE "over"
<1>1. /\ ContractJob = [u \in Tasks |-> View(u, task[u], succeeded)]
      /\ ContractJob' = [u \in Tasks |-> View(u, task'[u], succeeded')]
  BY DEF ContractJob, Unsettled
<1>2. ASSUME NEW u \in Tasks \ {t} PROVE ContractJob'[u] = ContractJob[u]
  <2>1. task'[u] = task[u] /\ (u \in succeeded' <=> u \in succeeded)
    BY DEF TypeOK
  <2> QED
    BY <1>1, <2>1
<1> QED
  BY <1>1, <1>2

\* What the contract calls running, and what it calls owed.
LEMMA ContractSets ==
  ASSUME TypeOK, ResolvedInv
  PROVE  /\ Contract!Running = Unsettled
         /\ Contract!Owed = succeeded \ answered
<1>1. \A t \in Tasks : ContractJob[t] = "running" <=> t \in Unsettled
  BY DEF ContractJob, Unsettled
<1>2. \A t \in Tasks : ContractJob[t] = "owed" <=> t \in succeeded \ answered
  BY DEF ContractJob, Unsettled, ResolvedInv
<1> QED
  BY <1>1, <1>2 DEF Contract!Running, Contract!Owed, Unsettled, TypeOK

\* All that is known of a single run without stop() inside a handler.
SoloInv ==
  TypeOK /\ LimitInv /\ AckInv /\ ResolvedInv /\ KeptInv /\ DrainedInv

LEMMA SoloCorrect ==
  ASSUME MaxRuns <= 1, ~StopInHandler
  PROVE  Spec => []SoloInv
<1>1. /\ Init => LimitInv /\ AckInv /\ ResolvedInv /\ KeptInv
      /\ TypeOK /\ BatchInv /\ ResolvedInv /\ [Next]_vars => ResolvedInv'
      /\ KeptInv => BatchInv
  BY LimitInit, AckInit, ResolvedInit, KeptInit, ResolvedStep DEF KeptInv
<1> QED
  BY <1>1, TypeCorrect, LimitStep, AckStep, KeptStep, DrainedCorrect, PTL
     DEF Spec, SoloInv

LEMMA ContractInit == Init => Contract!Init
  BY DEF Init, Contract!Init, ContractMode, ContractJob

\* The take loop starts the run, returns from it or throws.
LEMMA LoopContract ==
  ASSUME MaxRuns <= 1, SoloInv, LoopNext
  PROVE  [Contract!Next]_(Contract!vars)
<1> USE DEF loopVars, signals, taskVars, sdVars, ackVars, history
<1>1. CASE Run
  <2>1. runs = 0 /\ runs' = 1 /\ loop' = "taking" /\ ~aborted' /\ killed' = killed
    BY <1>1, RunIsFirst DEF Run, SoloInv
  <2>2. 1 \notin killed
    BY <2>1 DEF SoloInv, DrainedInv, ShutdownInv
  <2>3. ContractMode = "off" /\ ContractMode' = "on"
    BY <2>1, <2>2 DEF ContractMode, killing
  <2>4. ContractJob' = ContractJob
    BY <1>1, JobsKept DEF Run
  <2> QED
    BY <2>3, <2>4 DEF Contract!Next, Contract!Begin
<1>2. CASE RunReturns
  <2>1. /\ loop = "draining" /\ loop' = "stopped" /\ aborted
        /\ UNCHANGED <<runs, killed, aborted, task, history>>
    BY <1>2 DEF RunReturns, SoloInv, DrainedInv, ShutdownInv
  <2>2. runs = 1
    BY <2>1, MaxRunsAssumption
       DEF SoloInv, TypeOK, DrainedInv, TrackedInv, FreshInv
  <2>3. ContractMode' = "over" /\ ContractJob' = ContractJob
    BY <2>1, <2>2, JobsKept DEF ContractMode
  <2>4. CASE killing
    <3>1. ContractMode = "killed"
      BY <2>1, <2>2, <2>4 DEF ContractMode
    <3> QED
      BY <2>3, <3>1 DEF Contract!Next, Contract!Return
  <2>5. CASE ~killing
    <3>1. ContractMode = "stopping"
      BY <2>1, <2>2, <2>5 DEF ContractMode
    <3>2. NeverKilled
      <4>1. \A r \in Runs : r = 1
        BY OneRun DEF SoloInv
      <4> QED
        BY <2>2, <2>5, <4>1 DEF NeverKilled, killing
    <3>3. streamAborted
      <4>1. 1 \in Runs /\ sd[1] = "done"
        BY <1>2, <2>2, MaxRunsAssumption DEF RunReturns, Runs, SoloInv, TypeOK
      <4> QED
        BY <4>1 DEF SoloInv, DrainedInv, ShutdownInv
    <3>4. Outstanding = {} /\ Unsent = {}
      BY <3>2, <3>3 DEF SoloInv, DrainedInv, StreamHeldUntilDrained
    <3>5. Unsettled = {} /\ succeeded \subseteq answered
      BY <3>4 DEF Unsettled, Outstanding, SoloInv, KeptInv
    <3>6. Contract!Running = {} /\ Contract!Owed = {}
      BY <3>5, ContractSets DEF SoloInv
    <3> QED
      BY <2>3, <3>1, <3>6 DEF Contract!Next, Contract!Return
  <2> QED
    BY <2>4, <2>5
<1>3. CASE TakeRejected /\ ~aborted
  <2>1. /\ loop = "taking" /\ loop' = "threw"
        /\ UNCHANGED <<runs, killed, aborted, task, history>>
    BY <1>3 DEF TakeRejected
  <2>2. runs > 0 /\ ~killing
    BY <1>3, <2>1, MaxRunsAssumption
       DEF SoloInv, TypeOK, DrainedInv, TrackedInv, FreshInv, ShutdownInv
  <2>3. ContractMode = "on" /\ ContractMode' = "threw" /\ ContractJob' = ContractJob
    BY <1>3, <2>1, <2>2, JobsKept DEF ContractMode
  <2> QED
    BY <2>3 DEF Contract!Next, Contract!Throw
<1>4. CASE \/ TakeOpens \/ Disconnects \/ StreamEnds \/ BackoffElapses \/ RaceWakes
           \/ TakeRejected /\ aborted
  <2>1. /\ loop \notin {"stopped", "threw"} /\ loop' \notin {"stopped", "threw"}
        /\ UNCHANGED <<runs, killed, aborted, task, history>>
    BY <1>4 DEF TakeOpens, Disconnects, StreamEnds, BackoffElapses, LoopTop, RaceWakes,
       TakeRejected
  <2> QED
    BY <2>1, ModeKept, JobsKept DEF Contract!vars
<1> QED
  BY <1>1, <1>2, <1>3, <1>4 DEF LoopNext

\* stop() and kill() are what the caller asks; before and after the run they
\* ask nothing.
LEMMA AskContract ==
  ASSUME MaxRuns <= 1, SoloInv, Stop \/ Kill
  PROVE  [Contract!Next]_(Contract!vars)
<1>1. /\ UNCHANGED <<loop, runs, task, history>> /\ aborted'
      /\ \/ Stop /\ ~aborted /\ UNCHANGED killed
         \/ Kill /\ ~killing /\ killed' = killed \cup {runs}
  BY DEF Stop, Kill, Abort, loopVars, taskVars
<1>2. ContractJob' = ContractJob
  BY <1>1, JobsKept
<1>3. CASE runs = 0 \/ loop \in {"stopped", "threw"}
  <2>1. ContractMode' = ContractMode
    BY <1>1, <1>3, MaxRunsAssumption DEF ContractMode, SoloInv, TypeOK
  <2> QED
    BY <1>2, <2>1 DEF Contract!vars
<1>4. CASE runs # 0 /\ loop \notin {"stopped", "threw"}
  <2>0. runs > 0 /\ runs' = runs
    BY <1>1, <1>4, MaxRunsAssumption DEF SoloInv, TypeOK
  <2>1. CASE Stop
    <3>1. ~aborted /\ ~killing /\ ~killing'
      BY <1>1, <2>1 DEF SoloInv, DrainedInv, ShutdownInv, killing, Stop, Abort
    <3>2. ContractMode = "on" /\ ContractMode' = "stopping"
      BY <1>1, <1>4, <2>0, <3>1 DEF ContractMode
    <3> QED
      BY <1>2, <3>2 DEF Contract!Next, Contract!Ask
  <2>2. CASE Kill
    <3>1. ~killing /\ killing'
      BY <2>2 DEF Kill, killing
    <3>2. ContractMode \in {"on", "stopping"} /\ ContractMode' = "killed"
      BY <1>1, <1>4, <2>0, <3>1 DEF ContractMode
    <3> QED
      BY <1>2, <3>2 DEF Contract!Next, Contract!Ask
  <2> QED
    BY <2>1, <2>2
<1> QED
  BY <1>3, <1>4

\* Dispatch starts a job below the limit, while nothing was asked.
LEMMA ReceiveContract ==
  ASSUME MaxRuns <= 1, SoloInv, NEW t \in Tasks, Receive(t)
  PROVE  [Contract!Next]_(Contract!vars)
<1> USE DEF loopVars, signals, history
<1>1. /\ loop = "reading" /\ loop' \in {"reading", "racing"} /\ ~aborted
      /\ task[t] = "unseen" /\ task' = [task EXCEPT ![t] = "running"]
      /\ UNCHANGED <<runs, signals, history>>
  BY DEF Receive, Dispatch, Limit
<1>2. ContractMode' = ContractMode
  BY <1>1, ModeKept
<1>3. runs > 0 /\ ~killing
  BY <1>1, MaxRunsAssumption
     DEF SoloInv, TypeOK, DrainedInv, TrackedInv, FreshInv, ShutdownInv
<1>4. ContractMode = "on"
  BY <1>1, <1>3 DEF ContractMode
<1>5. ContractJob[t] = "new" /\ ContractJob'[t] = "running"
  BY <1>1 DEF ContractJob, Unsettled, SoloInv, TypeOK
<1>6. ContractJob' = [ContractJob EXCEPT ![t] = "running"]
  BY <1>1, <1>5, OneJobMoves DEF SoloInv
<1>7. Cardinality(Contract!Running) < Concurrency
  <2>1. /\ Unsettled \subseteq inFlight /\ IsFiniteSet(inFlight)
        /\ Cardinality(inFlight) < Concurrency
    BY <1>1 DEF SoloInv, LimitInv, DrainedInv, TrackedInv, Outstanding, Unsettled
  <2>2. /\ Cardinality(Unsettled) <= Cardinality(inFlight)
        /\ Cardinality(Unsettled) \in Nat /\ Cardinality(inFlight) \in Nat
    BY <2>1, FS_Subset, FS_CardinalityType
  <2> QED
    BY <2>1, <2>2, ContractSets, ConcurrencyAssumption DEF SoloInv
<1>8. \A S : Contract!Cardinality(S) = Cardinality(S)
  BY DEF Contract!Cardinality, Cardinality
<1>9. Contract!Start(t)
  BY <1>2, <1>4, <1>5, <1>6, <1>7, <1>8 DEF Contract!Start
<1> QED
  BY <1>9 DEF Contract!Next

\* A handler that resolves owes an ack, an answered nack ends its job, and the
\* other steps of a task are its own affair.
LEMMA TaskContract ==
  ASSUME MaxRuns <= 1, SoloInv, NEW t \in Tasks,
         \/ HandlerResolves(t) \/ HandlerThrows(t) \/ NackAnswered(t)
         \/ NackFails(t) \/ NackRetried(t) \/ TaskRemoved(t)
  PROVE  [Contract!Next]_(Contract!vars)
<1> USE DEF loopVars, signals, history, SoloInv
<1>0. ContractMode' = ContractMode
  <2>1. UNCHANGED <<loop, runs, killed, aborted>>
    BY DEF HandlerResolves, HandlerThrows, NackAnswered, NackFails, NackRetried,
       TaskStep, TaskRemoved
  <2> QED
    BY <2>1, ModeKept
<1>1. CASE HandlerResolves(t)
  <2>1. /\ task[t] = "running" /\ task' = [task EXCEPT ![t] = "settled"]
        /\ succeeded' = succeeded \cup {t} /\ answered' = answered
    BY <1>1 DEF HandlerResolves
  <2>2. ContractJob[t] = "running" /\ ContractJob'[t] = "owed"
    BY <2>1 DEF ContractJob, Unsettled, TypeOK, AckInv
  <2>3. ContractJob' = [ContractJob EXCEPT ![t] = "owed"]
    BY <2>1, <2>2, OneJobMoves
  <2> QED
    BY <1>0, <2>2, <2>3 DEF Contract!Next, Contract!Finish
<1>2. CASE NackAnswered(t)
  <2>1. /\ task[t] = "nacking" /\ task' = [task EXCEPT ![t] = "settled"]
        /\ succeeded' = succeeded /\ answered' = answered
    BY <1>2 DEF NackAnswered, TaskStep
  <2>2. t \notin succeeded
    BY <2>1 DEF ResolvedInv
  <2>3. ContractJob[t] = "running" /\ ContractJob'[t] = "over"
    BY <2>1, <2>2 DEF ContractJob, Unsettled, TypeOK
  <2>4. ContractJob' = [ContractJob EXCEPT ![t] = "over"]
    BY <2>1, <2>3, OneJobMoves
  <2> QED
    BY <1>0, <2>3, <2>4 DEF Contract!Next, Contract!Finish
<1>3. ASSUME NEW from, NEW to, task[t] = from, task' = [task EXCEPT ![t] = to],
             UNCHANGED history,
             \/ from \in {"running", "nacking", "nackwait"}
                /\ to \in {"running", "nacking", "nackwait"}
             \/ from = "settled" /\ to = "gone"
      PROVE  ContractJob' = ContractJob
  <2>1. ContractJob'[t] = ContractJob[t]
    BY <1>3 DEF ContractJob, Unsettled, TypeOK
  <2>2. ContractJob' = [ContractJob EXCEPT ![t] = ContractJob'[t]]
    BY <1>3, OneJobMoves
  <2> QED
    BY <2>1, <2>2 DEF ContractJob
<1>4. CASE HandlerThrows(t) \/ NackFails(t) \/ NackRetried(t)
  <2>1. ContractJob' = ContractJob
    BY <1>3, <1>4 DEF HandlerThrows, NackFails, NackRetried, TaskStep
  <2> QED
    BY <1>0, <2>1 DEF Contract!vars
<1>5. CASE TaskRemoved(t)
  <2>1. ContractJob' = ContractJob
    BY <1>3, <1>5 DEF TaskRemoved
  <2> QED
    BY <1>0, <2>1 DEF Contract!vars
<1> QED
  BY <1>1, <1>2, <1>4, <1>5

\* A step of a flusher that is no answer is invisible; an answer settles the
\* acks of its batch, all of which were owed.
LEMMA FlushContract ==
  ASSUME MaxRuns <= 1, SoloInv, NEW f \in Flushers, AckAnswered(f)
  PROVE  [Contract!Next]_(Contract!vars)
<1> USE DEF SoloInv
<1>1. /\ UNCHANGED <<loop, runs, killed, aborted, task, succeeded>>
      /\ answered' = answered \cup batch[f]
  BY DEF AckAnswered, loopVars, taskVars
<1>2. ContractMode' = ContractMode
  BY <1>1, ModeKept
<1>3. batch[f] \subseteq succeeded \ answered
  BY DEF ResolvedInv, Unsent, AckInv, AckAtMostOnce
<1>4. CASE batch[f] = {}
  <2>1. ContractJob' = ContractJob
    BY <1>1, <1>4, JobsKept DEF history
  <2> QED
    BY <1>2, <2>1 DEF Contract!vars
<1>5. CASE batch[f] # {}
  <2>1. batch[f] \in (SUBSET Contract!Owed) \ {{}}
    BY <1>3, <1>5, ContractSets
  <2>2. \A t \in batch[f] : task[t] \in {"settled", "gone"}
    BY <1>3 DEF ResolvedInv
  <2>3. ContractJob' = [t \in Tasks |-> IF t \in batch[f] THEN "over" ELSE ContractJob[t]]
    BY <1>1, <2>2 DEF ContractJob, Unsettled
  <2> QED
    BY <1>2, <2>1, <2>3 DEF Contract!Next, Contract!Settle
<1> QED
  BY <1>4, <1>5

LEMMA ContractStep ==
  ASSUME MaxRuns <= 1, ~StopInHandler
  PROVE  SoloInv /\ [Next]_vars => [Contract!Next]_(Contract!vars)
<1> SUFFICES ASSUME SoloInv, [Next]_vars PROVE [Contract!Next]_(Contract!vars)
  OBVIOUS
<1>a. ASSUME UNCHANGED <<loop, runs, killed, aborted, task, history>>
      PROVE  [Contract!Next]_(Contract!vars)
  BY <1>a, ModeKept, JobsKept DEF Contract!vars
<1> USE DEF loopVars, signals, taskVars, sdVars, ackVars
<1>1. ASSUME NEW t \in Tasks, TaskNext(t) PROVE [Contract!Next]_(Contract!vars)
  <2>1. CASE ImmediateFires(t)
    BY <2>1, <1>a DEF ImmediateFires
  <2> QED
    BY <1>1, <2>1, ReceiveContract, TaskContract DEF TaskNext, ReceiveAndStop
<1>2. ASSUME NEW r \in Runs, ShutdownNext(r) PROVE [Contract!Next]_(Contract!vars)
  BY <1>2, <1>a DEF ShutdownNext, DrainWakes, ShutdownFlush
<1>3. ASSUME NEW f \in Flushers, FlushNext(f) PROVE [Contract!Next]_(Contract!vars)
  <2>1. CASE AckAnswered(f)
    BY <2>1, FlushContract
  <2> QED
    BY <1>3, <2>1, <1>a DEF FlushNext, AckFails, AckRetried, FlushStep
<1>4. CASE UNCHANGED vars
  BY <1>4, <1>a DEF vars
<1> QED
  BY <1>1, <1>2, <1>3, <1>4, LoopContract, AskContract DEF Next

\* Refinement: every behaviour of a single run is one of the contract, with its
\* streams, promises, buffers and shutdown coroutine hidden.
THEOREM RunKeepsContract ==
  ASSUME MaxRuns <= 1, ~StopInHandler
  PROVE  Spec => ImplementsContract
  BY ContractInit, ContractStep, SoloCorrect, PTL DEF Spec, ImplementsContract, Contract!Spec

-----------------------------------------------------------------------------
(* What holds of the worker holds of the worker with its server. *)

LEMMA WorkerSteps == [DeliveryNext]_allVars => [Next]_vars
<1> SUFFICES ASSUME [DeliveryNext]_allVars PROVE [Next]_vars
  OBVIOUS
<1> USE DEF Next, LoopNext, TaskNext, ShutdownNext, FlushNext
<1>1. CASE WorkerStep
  BY <1>1 DEF WorkerStep
<1>2. ASSUME NEW j \in Jobs, HandOut(j) \/ Deliver(j) \/ Skip(j) \/ Requeue(j)
      PROVE  [Next]_vars
  <2>1. CASE Deliver(j)
    <3> DEFINE t == CHOOSE u \in Tasks : task[u] = "unseen"
    <3>1. t \in Tasks /\ Receive(t)
      BY <2>1 DEF Deliver
    <3> QED
      BY <3>1
  <2> QED
    BY <1>2, <2>1 DEF HandOut, Skip, Requeue
<1>3. ASSUME NEW f \in Flushers, Acked(f) \/ AckRefused(f) \/ AckLost(f)
      PROVE  [Next]_vars
  BY <1>3 DEF Acked, AckRefused, AckLost
<1>4. ASSUME NEW t \in Tasks, NackApplied(t) \/ NackLost(t) \/ Throws(t)
      PROVE  [Next]_vars
  BY <1>4 DEF NackApplied, NackLost, Throws
<1>5. CASE Breaks \/ TakeRefused \/ Asked
  BY <1>5 DEF Breaks, TakeRefused, Asked
<1>6. CASE UNCHANGED allVars
  BY <1>6 DEF allVars
<1> QED
  BY <1>1, <1>2, <1>3, <1>4, <1>5, <1>6 DEF DeliveryNext, Progress, Trouble

LEMMA WorkerCorrect == DeliverySpec => [](TypeOK /\ BatchInv /\ ResolvedInv)
<1>1. DeliveryInit => TypeOK /\ BatchInv /\ ResolvedInv
  <2>1. Init => TypeOK
    BY TypeInit
  <2> QED
    BY <2>1, BatchInit, ResolvedInit DEF DeliveryInit
<1> QED
  BY <1>1, WorkerSteps, TypeStep, BatchStep, ResolvedStep, PTL DEF DeliverySpec

-----------------------------------------------------------------------------
(* The server's record of the jobs. *)

Statuses == {"ready", "leased", "done", "dead"}

\* A delivery has a job, and what waits to be taken back is leased.
JobsInv ==
  /\ status \in [Jobs -> Statuses]
  /\ sent \subseteq Jobs
  /\ orphaned \subseteq Leased(status)
  /\ of \in [Tasks -> Jobs \cup {NoJob}]
  /\ \A t \in Tasks : task[t] # "unseen" => of[t] \in Jobs

\* The states a worker's step may leave the server in.
LEMMA BecomesTyped ==
  ASSUME NEW s \in [Jobs -> Statuses], Becomes(s), sent \subseteq Jobs
  PROVE  /\ status' \in [Jobs -> Statuses]
         /\ sent' \subseteq Jobs
         /\ orphaned' \subseteq Leased(status')
  BY DEF Becomes

LEMMA AckTyped ==
  ASSUME JobsInv, NEW S
  PROVE  Done(S) \in [Jobs -> Statuses]
  BY DEF JobsInv, Done, Statuses

LEMMA NackTyped ==
  ASSUME JobsInv, NEW j, NEW s \in Nacked(j)
  PROVE  s \in [Jobs -> Statuses]
  BY DEF JobsInv, Nacked, Statuses

\* Only a delivery starts a task, and it names the job of the task.
LEMMA DeliveryStarts ==
  ASSUME TypeOK, NEW j \in Jobs, Deliver(j)
  PROVE  \E t \in Tasks : /\ task[t] = "unseen" /\ Receive(t)
                          /\ task' = [task EXCEPT ![t] = "running"]
                          /\ of' = [of EXCEPT ![t] = j]
<1> DEFINE t == CHOOSE u \in Tasks : task[u] = "unseen"
<1>1. t \in Tasks /\ task[t] = "unseen" /\ Receive(t) /\ of' = [of EXCEPT ![t] = j]
  BY DEF Deliver
<1>2. task' = [task EXCEPT ![t] = "running"]
  BY <1>1 DEF Receive, Dispatch
<1> QED
  BY <1>1, <1>2

\* A step with an answer from the server in it.
Answer(s) ==
  \/ s = status
  \/ \E f \in Flushers : (AckAnswered(f) \/ AckFails(f)) /\ s = Done(JobsOf(batch[f]))
  \/ \E t \in Tasks : (NackAnswered(t) \/ NackFails(t)) /\ s \in Nacked(of[t])

\* Every step is one of the stream's, or one of the worker with what the server
\* made of it.
LEMMA StepKinds ==
  ASSUME TypeOK, JobsInv, DeliveryNext,
         \A j \in Jobs : ~HandOut(j) /\ ~Deliver(j) /\ ~Skip(j) /\ ~Requeue(j)
  PROVE  /\ of' = of
         /\ \E s \in [Jobs -> Statuses] : Becomes(s) /\ Answer(s)
         /\ \A t \in Tasks : task[t] = "unseen" => task'[t] = "unseen"
<1> DEFINE Unseen == \A t \in Tasks : task[t] = "unseen" => task'[t] = "unseen"
           Server == \E s \in [Jobs -> Statuses] : Becomes(s) /\ Answer(s)
<1> USE DEF taskVars
<1>a. status \in [Jobs -> Statuses]
  BY DEF JobsInv
<1>b. ASSUME Same PROVE Server
  BY <1>a, <1>b DEF Same, Answer
<1>1. CASE WorkerStep
  <2>1. Unseen
    BY <1>1 DEF WorkerStep, Run, TakeOpens, Disconnects, BackoffElapses, RaceWakes,
       RunReturns, HandlerResolves, NackRetried, TaskStep, TaskRemoved, ImmediateFires,
       DrainWakes, ShutdownFlush, AckRetried, FlushStep, TypeOK
  <2> QED
    BY <1>1, <1>b, <2>1 DEF WorkerStep
<1>2. CASE Breaks \/ TakeRefused \/ Asked
  <2>1. Unseen
    BY <1>2 DEF Breaks, TakeRefused, Asked, Disconnects, StreamEnds, TakeRejected,
       Stop, Kill
  <2> QED
    BY <1>2, <1>b, <2>1 DEF Breaks, TakeRefused, Asked
<1>3. ASSUME NEW f \in Flushers, Acked(f) \/ AckRefused(f) \/ AckLost(f)
      PROVE  of' = of /\ Server /\ Unseen
  <2>1. Done(JobsOf(batch[f])) \in [Jobs -> Statuses]
    BY AckTyped
  <2>2. Unseen /\ of' = of
    BY <1>3 DEF Acked, AckRefused, AckLost, AckAnswered, AckFails, FlushStep
  <2>3. CASE Acked(f)
    BY <2>1, <2>2, <2>3 DEF Acked, Answer
  <2>4. CASE AckRefused(f)
    BY <2>2, <2>4, <1>b DEF AckRefused
  <2>5. CASE AckLost(f)
    <3>1. PICK s \in {status, Done(JobsOf(batch[f]))} : AckFails(f) /\ Becomes(s)
      BY <2>5 DEF AckLost
    <3> QED
      BY <3>1, <2>1, <2>2, <1>a DEF Answer
  <2> QED
    BY <1>3, <2>3, <2>4, <2>5
<1>4. ASSUME NEW t \in Tasks, NackApplied(t) \/ NackLost(t)
      PROVE  of' = of /\ Server /\ Unseen
  <2>1. /\ NackAnswered(t) \/ NackFails(t)
        /\ \E s \in {status} \cup Nacked(of[t]) : Becomes(s)
    BY <1>4 DEF NackApplied, NackLost
  <2>2. Unseen /\ of' = of
    BY <1>4, <2>1 DEF NackApplied, NackLost, NackAnswered, NackFails, TaskStep, TypeOK
  <2>3. PICK s \in {status} \cup Nacked(of[t]) : Becomes(s)
    BY <2>1
  <2>4. s \in [Jobs -> Statuses]
    BY <1>a, NackTyped
  <2> QED
    BY <2>1, <2>2, <2>3, <2>4 DEF Answer
<1>5. ASSUME NEW t \in Tasks, Throws(t) PROVE of' = of /\ Server /\ Unseen
  <2>1. Unseen
    BY <1>5 DEF Throws, HandlerThrows, TaskStep, TypeOK
  <2> QED
    BY <1>5, <1>b, <2>1 DEF Throws
<1>6. CASE WorkerStep \/ Breaks \/ TakeRefused \/ Asked
  <2>1. of' = of
    BY <1>6 DEF WorkerStep, Breaks, TakeRefused, Asked
  <2> QED
    BY <1>1, <1>2, <1>6, <2>1
<1> QED
  BY <1>3, <1>4, <1>5, <1>6 DEF DeliveryNext, Progress, Trouble

LEMMA JobsStep == TypeOK /\ JobsInv /\ [DeliveryNext]_allVars => JobsInv'
<1> SUFFICES ASSUME TypeOK, JobsInv, [DeliveryNext]_allVars PROVE JobsInv'
  OBVIOUS
<1> USE DEF JobsInv, Statuses, Leased
<1>0. \A t \in Tasks : UNCHANGED vars => task'[t] = task[t]
  BY DEF vars, taskVars
<1>1. ASSUME NEW j \in Jobs, HandOut(j) PROVE JobsInv'
  BY <1>0, <1>1 DEF HandOut
<1>2. ASSUME NEW j \in Jobs, Deliver(j) PROVE JobsInv'
  <2>1. PICK t \in Tasks : /\ task' = [task EXCEPT ![t] = "running"]
                           /\ of' = [of EXCEPT ![t] = j]
    BY <1>2, DeliveryStarts
  <2> QED
    BY <1>2, <2>1 DEF Deliver, TypeOK
<1>3. ASSUME NEW j \in Jobs, Skip(j) PROVE JobsInv'
  BY <1>0, <1>3 DEF Skip
<1>4. ASSUME NEW j \in Jobs, Requeue(j) PROVE JobsInv'
  BY <1>0, <1>4 DEF Requeue
<1>5. CASE /\ DeliveryNext
           /\ \A j \in Jobs : ~HandOut(j) /\ ~Deliver(j) /\ ~Skip(j) /\ ~Requeue(j)
  BY <1>5, StepKinds, BecomesTyped
<1>6. CASE UNCHANGED allVars
  BY <1>0, <1>6 DEF allVars, serverVars
<1> QED
  BY <1>1, <1>2, <1>3, <1>4, <1>5, <1>6

LEMMA JobsCorrect == DeliverySpec => []JobsInv
<1>1. DeliveryInit => JobsInv
  BY DEF DeliveryInit, Init, JobsInv, Statuses
<1> QED
  BY <1>1, WorkerCorrect, JobsStep, PTL DEF DeliverySpec

-----------------------------------------------------------------------------
(* Worker and server implement the life cycle. *)

\* How the record of a job changes: it is handed out when it is ready, and done
\* or dead only from leased, on an ack of a handler that resolved or on a nack.
LEMMA StatusMoves ==
  ASSUME TypeOK, ResolvedInv, JobsInv, [DeliveryNext]_allVars, NEW j \in Jobs,
         status'[j] # status[j]
  PROVE  \/ status[j] = "ready" /\ status'[j] = "leased"
         \/ /\ status[j] = "leased" /\ status'[j] = "ready"
            /\ j \in orphaned \/ \E t \in Tasks : of[t] = j /\ task[t] = "nacking"
         \/ /\ status[j] = "leased" /\ status'[j] = "done"
            /\ \E t \in succeeded : of[t] = j
         \/ /\ status[j] = "leased" /\ status'[j] = "dead"
            /\ \E t \in Tasks : of[t] = j /\ task[t] = "nacking"
<1> USE DEF JobsInv, Statuses, Leased
<1>1. CASE \E i \in Jobs : HandOut(i) \/ Skip(i) \/ Deliver(i)
  BY <1>1 DEF HandOut, Skip, Deliver
<1>2. CASE \E i \in Jobs : Requeue(i)
  BY <1>2 DEF Requeue
<1>3. CASE /\ DeliveryNext
           /\ \A i \in Jobs : ~HandOut(i) /\ ~Deliver(i) /\ ~Skip(i) /\ ~Requeue(i)
  <2>1. PICK s \in [Jobs -> Statuses] : Becomes(s) /\ Answer(s)
    BY <1>3, StepKinds
  <2>2. status' = s
    BY <2>1 DEF Becomes
  <2>3. ASSUME NEW f \in Flushers, s = Done(JobsOf(batch[f]))
        PROVE  /\ status[j] = "leased" /\ status'[j] = "done"
               /\ \E t \in succeeded : of[t] = j
    <3>1. status[j] = "leased" /\ status'[j] = "done" /\ j \in JobsOf(batch[f])
      BY <2>2, <2>3 DEF Done
    <3>2. batch[f] \subseteq succeeded
      BY DEF ResolvedInv, Unsent
    <3> QED
      BY <3>1, <3>2 DEF JobsOf
  <2>4. ASSUME NEW t \in Tasks, NackAnswered(t) \/ NackFails(t), s \in Nacked(of[t])
        PROVE  /\ status[j] = "leased" /\ status'[j] \in {"ready", "dead"}
               /\ of[t] = j /\ task[t] = "nacking"
    BY <2>2, <2>4 DEF Nacked, NackAnswered, NackFails, TaskStep
  <2> QED
    BY <2>1, <2>2, <2>3, <2>4 DEF Answer
<1>4. CASE UNCHANGED allVars
  BY <1>4 DEF allVars, serverVars
<1> QED
  BY <1>1, <1>2, <1>3, <1>4

\* The closed jobs of a step, as one step of the life cycle.
LEMMA JobsClose ==
  ASSUME TypeOK, ResolvedInv, JobsInv, [DeliveryNext]_allVars,
         LifeOutcomes' = LifeOutcomes
  PROVE  [LifeCycle!Next]_(LifeCycle!vars)
<1> DEFINE S == {j \in Jobs : LifeState'[j] # LifeState[j]}
<1>1. status' \in [Jobs -> Statuses]
  BY JobsStep DEF JobsInv
<1>2. LifeState' \in [Jobs -> {"open", "done", "dead"}]
  BY <1>1 DEF LifeState
<1>3. ASSUME NEW j \in S
      PROVE  /\ LifeState[j] = "open"
             /\ \/ LifeState'[j] = "done" /\ "resolved" \in LifeOutcomes[j]
                \/ LifeState'[j] = "dead" /\ "threw" \in LifeOutcomes[j]
  <2>1. j \in Jobs /\ status'[j] # status[j]
    BY DEF LifeState
  <2>2. status[j] = "leased" /\ status'[j] \in {"done", "dead"}
    BY <2>1, StatusMoves DEF LifeState
  <2>3. LifeState[j] = "open" /\ LifeState'[j] = status'[j]
    BY <2>1, <2>2 DEF LifeState
  <2>4. CASE status'[j] = "done"
    <3>1. PICK t \in succeeded : of[t] = j
      BY <2>1, <2>4, StatusMoves
    <3>2. t \in Ended(j)
      BY <3>1 DEF Ended, ResolvedInv, TypeOK
    <3>3. "resolved" \in LifeOutcomes[j]
      BY <2>1, <3>1, <3>2 DEF LifeOutcomes
    <3> QED
      BY <2>3, <2>4, <3>3
  <2>5. CASE status'[j] = "dead"
    <3>1. PICK t \in Tasks : of[t] = j /\ task[t] = "nacking"
      BY <2>1, <2>5, StatusMoves
    <3>2. t \in Ended(j) /\ t \notin succeeded
      BY <3>1 DEF Ended, ResolvedInv
    <3>3. "threw" \in LifeOutcomes[j]
      BY <2>1, <3>2 DEF LifeOutcomes
    <3> QED
      BY <2>3, <2>5, <3>3
  <2> QED
    BY <2>2, <2>4, <2>5
<1>4. \A j \in Jobs \ S : LifeState'[j] = LifeState[j]
  OBVIOUS
<1>5. LifeCycle!Close(S)
  BY <1>2, <1>3, <1>4 DEF LifeCycle!Close
<1> QED
  BY <1>5 DEF LifeCycle!Next

\* A handler that ends adds its outcome to its job, and nothing else.
LEMMA HandlerEnds ==
  ASSUME TypeOK, ResolvedInv, JobsInv, Same, of' = of, NEW t \in Tasks,
         task[t] = "running",
         NEW to \in {"settled", "nacking"}, task' = [task EXCEPT ![t] = to],
         NEW outcome \in {"resolved", "threw"},
         succeeded' = IF outcome = "resolved" THEN succeeded \cup {t} ELSE succeeded
  PROVE  [LifeCycle!Next]_(LifeCycle!vars)
<1> DEFINE j == of[t]
           Told(u) == IF u \in succeeded THEN "resolved" ELSE "threw"
<1>1. j \in Jobs /\ t \notin succeeded
  BY DEF JobsInv, ResolvedInv
<1>2. LifeState' = LifeState
  BY DEF Same, Becomes, LifeState
<1>3. /\ Ended(j)' = Ended(j) \cup {t}
      /\ \A i \in Jobs \ {j} : Ended(i)' = Ended(i)
      /\ \A i \in Jobs : t \notin Ended(i)
  BY DEF Ended, TypeOK
<1>4. \A u \in Tasks \ {t} : u \in succeeded' <=> u \in succeeded
  OBVIOUS
<1>5. ASSUME NEW i \in Jobs \ {j} PROVE LifeOutcomes'[i] = LifeOutcomes[i]
  <2>1. Ended(i)' = Ended(i) /\ \A u \in Ended(i) : u \in succeeded' <=> u \in succeeded
    BY <1>3, <1>4 DEF Ended
  <2> QED
    BY <2>1 DEF LifeOutcomes
<1>6. LifeOutcomes'[j] = LifeOutcomes[j] \cup {outcome}
  <2>1. \A u \in Ended(j) : u \in succeeded' <=> u \in succeeded
    BY <1>3, <1>4 DEF Ended
  <2>2. t \in succeeded' <=> outcome = "resolved"
    BY <1>1
  <2> QED
    BY <1>1, <1>3, <2>1, <2>2 DEF LifeOutcomes
<1>7. LifeOutcomes' = [LifeOutcomes EXCEPT ![j] = @ \cup {outcome}]
  BY <1>1, <1>5, <1>6 DEF LifeOutcomes
<1>8. LifeCycle!Handle(j, outcome)
  BY <1>2, <1>7 DEF LifeCycle!Handle
<1> QED
  BY <1>1, <1>8 DEF LifeCycle!Next

\* A step in which no handler ends leaves the outcomes alone.
LEMMA OutcomesStay ==
  ASSUME succeeded' = succeeded,
         \A u \in Tasks : task'[u] \in {"unseen", "running"}
                          <=> task[u] \in {"unseen", "running"},
         \A u \in Tasks : task[u] # "unseen" => of'[u] = of[u]
  PROVE  LifeOutcomes' = LifeOutcomes
<1>1. ASSUME NEW j \in Jobs PROVE Ended(j)' = Ended(j)
  BY DEF Ended
<1> QED
  BY <1>1 DEF LifeOutcomes

LEMMA LifeCycleStep ==
  TypeOK /\ ResolvedInv /\ JobsInv /\ [DeliveryNext]_allVars
    => [LifeCycle!Next]_(LifeCycle!vars)
<1> SUFFICES ASSUME TypeOK, ResolvedInv, JobsInv, [DeliveryNext]_allVars
             PROVE  [LifeCycle!Next]_(LifeCycle!vars)
  OBVIOUS
<1> DEFINE Goal == [LifeCycle!Next]_(LifeCycle!vars)
<1>a. ASSUME UNCHANGED <<task, succeeded, of>> PROVE Goal
  <2>1. LifeOutcomes' = LifeOutcomes
    BY <1>a, OutcomesStay
  <2> QED
    BY <2>1, JobsClose
<1>b. ASSUME NEW t \in Tasks, NEW from, NEW to, TaskStep(t, from, to), of' = of,
             {from, to} \subseteq {"nacking", "nackwait", "settled", "gone"}
      PROVE  Goal
  <2>1. LifeOutcomes' = LifeOutcomes
    BY <1>b, OutcomesStay DEF TaskStep, TypeOK, history
  <2> QED
    BY <2>1, JobsClose
<1> USE DEF taskVars, history
<1>1. ASSUME NEW t \in Tasks, HandlerResolves(t), Same, of' = of PROVE Goal
  BY <1>1, HandlerEnds DEF HandlerResolves
<1>2. ASSUME NEW t \in Tasks, Throws(t) PROVE Goal
  BY <1>2, HandlerEnds DEF Throws, HandlerThrows, TaskStep
<1>3. ASSUME NEW t \in Tasks, TaskRemoved(t), of' = of PROVE Goal
  <2>1. LifeOutcomes' = LifeOutcomes
    BY <1>3, OutcomesStay DEF TaskRemoved, TypeOK
  <2> QED
    BY <2>1, JobsClose
<1>4. ASSUME NEW j \in Jobs, Deliver(j) PROVE Goal
  <2>1. PICK t \in Tasks : /\ task[t] = "unseen" /\ Receive(t)
                           /\ task' = [task EXCEPT ![t] = "running"]
                           /\ of' = [of EXCEPT ![t] = j]
    BY <1>4, DeliveryStarts
  <2>2. LifeOutcomes' = LifeOutcomes
    BY <2>1, OutcomesStay DEF Receive, TypeOK, JobsInv
  <2> QED
    BY <2>2, JobsClose
<1>5. CASE WorkerStep
  <2>1. of' = of /\ Same
    BY <1>5 DEF WorkerStep
  <2>2. CASE \/ Run \/ TakeOpens \/ Disconnects
             \/ BackoffElapses \/ RaceWakes \/ RunReturns
    BY <2>1, <2>2, <1>a DEF Run, TakeOpens, Disconnects, BackoffElapses, RaceWakes,
       RunReturns
  <2>3. ASSUME NEW t \in Tasks,
               HandlerResolves(t) \/ NackRetried(t) \/ TaskRemoved(t) \/ ImmediateFires(t)
        PROVE  Goal
    BY <2>1, <2>3, <1>a, <1>b, <1>1, <1>3 DEF NackRetried, ImmediateFires
  <2>4. ASSUME NEW r \in Runs, DrainWakes(r) \/ ShutdownFlush(r) PROVE Goal
    BY <2>1, <2>4, <1>a DEF DrainWakes, ShutdownFlush
  <2>5. ASSUME NEW f \in Flushers, AckRetried(f) PROVE Goal
    BY <2>1, <2>5, <1>a DEF AckRetried, FlushStep
  <2> QED
    BY <1>5, <2>2, <2>3, <2>4, <2>5 DEF WorkerStep
<1>6. ASSUME NEW j \in Jobs, HandOut(j) \/ Skip(j) \/ Requeue(j) PROVE Goal
  BY <1>6, <1>a DEF HandOut, Skip, Requeue, vars
<1>7. ASSUME NEW f \in Flushers, Acked(f) \/ AckRefused(f) \/ AckLost(f) PROVE Goal
  BY <1>7, <1>a DEF Acked, AckRefused, AckLost, AckAnswered, AckFails, FlushStep
<1>8. ASSUME NEW t \in Tasks, NackApplied(t) \/ NackLost(t) PROVE Goal
  BY <1>8, <1>b DEF NackApplied, NackLost, NackAnswered, NackFails
<1>9. CASE Breaks \/ TakeRefused \/ Asked
  BY <1>9, <1>a DEF Breaks, TakeRefused, Asked, Disconnects, StreamEnds, TakeRejected,
     Stop, Kill
<1>10. CASE UNCHANGED allVars
  BY <1>10, <1>a DEF allVars, vars, serverVars
<1> QED
  BY <1>2, <1>4, <1>5, <1>6, <1>7, <1>8, <1>9, <1>10
     DEF DeliveryNext, Progress, Trouble

\* Refinement, over any number of runs: a job is done only after a handler of it
\* resolved, dead only after one threw, and closed once, whatever answers are
\* lost, repeated or late.
THEOREM WorkerAndServerKeepLifeCycle == DeliverySpec => ImplementsLifeCycle
<1>1. DeliveryInit => LifeCycle!Init
  <2> SUFFICES ASSUME DeliveryInit PROVE LifeCycle!Init
    OBVIOUS
  <2>1. \A j \in Jobs : Ended(j) = {}
    BY DEF DeliveryInit, Init, Ended
  <2> QED
    BY <2>1 DEF DeliveryInit, LifeCycle!Init, LifeState, LifeOutcomes
<1> QED
  BY <1>1, WorkerCorrect, JobsCorrect, LifeCycleStep, PTL
     DEF DeliverySpec, ImplementsLifeCycle, LifeCycle!Spec

-----------------------------------------------------------------------------
(* A handled job goes out again only for a reason. *)

\* Worker and server together do what the worker alone may do.
LEMMA DeliveryIsWorker == DeliverySpec => Spec
<1>1. DeliveryInit => Init
  BY DEF DeliveryInit
<1> QED
  BY <1>1, WorkerSteps, PTL DEF DeliverySpec, Spec

\* Nothing takes a reason back.
LEMMA ReasonsGrow ==
  ASSUME TypeOK, JobsInv, [DeliveryNext]_allVars
  PROVE  /\ excused \subseteq excused' /\ refused \subseteq refused'
         /\ \A u \in Tasks : task[u] \notin {"unseen", "running"} =>
              /\ task'[u] \notin {"unseen", "running"} /\ of'[u] = of[u]
              /\ u \in succeeded' => u \in succeeded
<1>1. excused \subseteq excused' /\ refused \subseteq refused'
  BY DEF DeliveryNext, Progress, Trouble, WorkerStep, HandOut, Deliver, Skip, Requeue,
     Acked, AckRefused, AckLost, NackApplied, NackLost, Throws, Breaks, TakeRefused,
     Asked, Same, Becomes, allVars, serverVars
<1>2. ASSUME NEW u \in Tasks, task[u] \notin {"unseen", "running"}
      PROVE  /\ task'[u] \notin {"unseen", "running"}
             /\ u \in succeeded' => u \in succeeded
  BY <1>2, WorkerSteps, TaskGoesOn
<1>3. ASSUME NEW u \in Tasks, task[u] # "unseen" PROVE of'[u] = of[u]
  <2>1. CASE \E j \in Jobs : Deliver(j)
    BY <1>3, <2>1, DeliveryStarts DEF JobsInv
  <2>2. CASE of' = of
    BY <2>2
  <2>3. CASE \E j \in Jobs : HandOut(j) \/ Skip(j) \/ Requeue(j)
    BY <2>3 DEF HandOut, Skip, Requeue
  <2> QED
    BY <2>1, <2>2, <2>3, StepKinds DEF allVars, serverVars
<1> QED
  BY <1>1, <1>2, <1>3

LEMMA SafeStays ==
  ASSUME TypeOK, ResolvedInv, JobsInv, [DeliveryNext]_allVars, NEW j \in Jobs, Safe(j)
  PROVE  Safe(j)'
<1>1. CASE status[j] \in {"done", "dead"}
  BY <1>1, StatusMoves DEF Safe
<1>2. CASE Reason(j)
  BY <1>2, ReasonsGrow DEF Safe, Reason, Ended
<1> QED
  BY <1>1, <1>2 DEF Safe

\* An ack that is answered now either closed its job or was refused.
LEMMA AnsweredIsSafe ==
  ASSUME TypeOK, JobsInv, [DeliveryNext]_allVars, NEW t \in Tasks,
         t \in answered', t \notin answered, status[of[t]] = "leased", of[t] \in Jobs
  PROVE  Safe(of[t])'
<1>1. ASSUME NEW f \in Flushers, Acked(f) PROVE Safe(of[t])'
  <2>1. t \in batch[f] /\ of' = of /\ status' = Done(JobsOf(batch[f]))
    BY <1>1 DEF Acked, AckAnswered, Becomes
  <2>2. status'[of[t]] = "done"
    BY <2>1 DEF Done, JobsOf
  <2> QED
    BY <2>1, <2>2 DEF Safe
<1>2. ASSUME NEW f \in Flushers, AckRefused(f) PROVE Safe(of[t])'
  BY <1>2 DEF AckRefused, AckAnswered, JobsOf, Safe, Reason
<1>3. CASE answered' = answered
  BY <1>3
<1> QED
  BY <1>1, <1>2, <1>3
     DEF DeliveryNext, Progress, Trouble, WorkerStep, HandOut, Deliver, Skip, Requeue,
         AckLost, NackApplied, NackLost, Throws, Breaks, TakeRefused,
         Asked, allVars, vars, history, Run, TakeOpens, TakeRejected, Disconnects,
         StreamEnds, BackoffElapses, RaceWakes, RunReturns, Stop, Kill, Receive,
         HandlerResolves, HandlerThrows, NackAnswered, NackFails, NackRetried, TaskStep,
         TaskRemoved, ImmediateFires, DrainWakes, ShutdownFlush, AckFails, AckRetried,
         FlushStep

\* When the stream of a job that is held closes, the job is excused, or the
\* worker has drained and every delivery of the job was answered for.
LEMMA ClosingIsSafe ==
  ASSUME MaxRuns <= 1, SoloInv, SoloInv', JobsInv, JobsInv', [DeliveryNext]_allVars,
         NEW t \in Tasks, task'[t] # "unseen", t \notin answered, of'[t] = of[t],
         Held(of[t]), ~Connected', NEW s, Becomes(s)
  PROVE  Safe(of[t])'
<1> DEFINE j == of[t]
<1>0. j \in Jobs
  BY DEF JobsInv
<1>1. CASE killing' \/ ~streamAborted'
  BY <1>0, <1>1 DEF Becomes, Held, Leased, Safe, Reason
<1>2. CASE ~killing' /\ streamAborted'
  <2>1. runs # 0 /\ runs' = runs
    <3>1. runs # 0 /\ ~Run
      BY DEF SoloInv, DrainedInv, TrackedInv, FreshInv, Held, Connected, Run
    <3> QED
      BY <3>1, WorkerSteps, Counters
  <2>2. NeverKilled'
    <3>1. \A r \in Runs : r = 1 /\ runs = r
      BY <2>1, OneRun, MaxRunsAssumption DEF SoloInv, TypeOK
    <3> QED
      BY <1>2, <2>1, <3>1 DEF NeverKilled, killing
  <2>3. Outstanding' = {} /\ Unsent' = {}
    BY <1>2, <2>2 DEF SoloInv, DrainedInv, StreamHeldUntilDrained
  <2>4. task'[t] = "gone"
    BY <2>3 DEF Outstanding
  <2>5. CASE t \in succeeded'
    <3>1. t \in answered'
      BY <2>3, <2>5 DEF SoloInv, KeptInv
    <3> QED
      BY <1>0, <3>1, AnsweredIsSafe DEF SoloInv, Held
  <2>6. CASE t \notin succeeded'
    <3>1. t \in Ended(j)'
      BY <2>4 DEF Ended
    <3> QED
      BY <2>6, <3>1 DEF Safe, Reason
  <2> QED
    BY <2>5, <2>6
<1> QED
  BY <1>1, <1>2

\* The part of HeldInv about one job, after a step in which the server answered
\* the worker or the worker went on by itself.
LEMMA HeldGoesOn ==
  ASSUME TypeOK, ResolvedInv, JobsInv, [DeliveryNext]_allVars,
         NEW s, Becomes(s), NEW j \in Jobs, Safe(j) \/ Held(j), Connected'
  PROVE  Safe(j)' \/ Held(j)'
<1>1. CASE Safe(j)
  BY <1>1, SafeStays
<1>2. CASE Held(j) /\ ~Safe(j)
  <2>1. \A t \in Tasks : of[t] = j => task[t] # "nacking"
    BY <1>2 DEF Safe, Reason, Ended, ResolvedInv
  <2>2. status'[j] \in {"leased", "done"}
    BY <1>2, <2>1, StatusMoves DEF Held
  <2>3. CASE status'[j] = "leased"
    BY <1>2, <2>3 DEF Held, Becomes, Leased
  <2> QED
    BY <2>2, <2>3 DEF Safe
<1> QED
  BY <1>1, <1>2

LEMMA HeldJobsStep ==
  ASSUME MaxRuns <= 1, SoloInv, SoloInv', JobsInv, HeldInv, [DeliveryNext]_allVars
  PROVE  HeldInv'
<1>a. TypeOK /\ ResolvedInv /\ JobsInv'
  BY JobsStep DEF SoloInv
<1>b. ASSUME NEW t \in Tasks, task[t] # "unseen" PROVE of[t] \in Jobs
  BY <1>b DEF JobsInv
<1>1. ASSUME NEW i \in Jobs, HandOut(i) PROVE HeldInv'
  <2>1. /\ UNCHANGED <<task, of, answered, orphaned>> /\ Connected /\ Connected'
        /\ status' = [status EXCEPT ![i] = "leased"] /\ status[i] = "ready"
        /\ sent' = sent \cup {i}
    BY <1>1 DEF HandOut, vars, taskVars, history, Connected, signals, loopVars
  <2>2. i \notin orphaned
    BY <2>1 DEF JobsInv, Leased
  <2>3. Held(i)'
    BY <2>1, <2>2 DEF Held, JobsInv
  <2>4. ASSUME NEW j \in Jobs, Held(j) PROVE Held(j)'
    BY <2>1, <2>4 DEF Held, JobsInv
  <2>5. ASSUME NEW t \in Tasks, task'[t] # "unseen"
        PROVE  Safe(of[t])' \/ (Held(of[t])' /\ t \notin answered')
    <3>1. of[t] \in Jobs /\ of'[t] = of[t]
      BY <2>1, <2>5, <1>b
    <3>2. Safe(of[t]) \/ (Held(of[t]) /\ t \notin answered)
      BY <2>1, <2>5 DEF HeldInv
    <3>3. Safe(of[t]) => Safe(of[t])'
      BY <3>1, <1>a, SafeStays
    <3> QED
      BY <2>1, <2>4, <3>1, <3>2, <3>3
  <2>6. ASSUME NEW j \in sent' PROVE Safe(j)' \/ Held(j)'
    BY <1>a, <2>1, <2>3, <2>4, <2>6, SafeStays DEF HeldInv, JobsInv
  <2> QED
    BY <2>5, <2>6 DEF HeldInv
<1>2. ASSUME NEW i \in Jobs, Deliver(i) PROVE HeldInv'
  <2>1. PICK t \in Tasks : /\ task[t] = "unseen" /\ Receive(t)
                           /\ task' = [task EXCEPT ![t] = "running"]
                           /\ of' = [of EXCEPT ![t] = i]
    BY <1>2, <1>a, DeliveryStarts
  <2>2. /\ UNCHANGED <<answered, status, orphaned>> /\ Connected /\ Connected'
        /\ i \in sent /\ sent' = sent \ {i}
    <3>1. loop = "reading" /\ ~aborted /\ loop' \in {"reading", "racing"}
      BY <2>1 DEF Receive, Dispatch, Limit, loopVars
    <3>2. ~streamAborted
      BY <3>1 DEF SoloInv, DrainedInv, ShutdownInv
    <3> QED
      BY <1>2, <2>1, <3>1, <3>2 DEF Deliver, Receive, signals, history, Connected
  <2>3. ASSUME NEW j \in Jobs, Safe(j) \/ Held(j) PROVE Safe(j)' \/ Held(j)'
    BY <1>a, <2>2, <2>3, SafeStays DEF Held
  <2>4. t \notin answered
    BY <2>1, <1>a DEF ResolvedInv
  <2>5. ASSUME NEW u \in Tasks, task'[u] # "unseen"
        PROVE  Safe(of[u])' \/ (Held(of[u])' /\ u \notin answered')
    <3>1. CASE u = t
      <4>1. of'[u] = i
        BY <2>1, <3>1 DEF JobsInv
      <4>2. Safe(i)' \/ Held(i)'
        BY <2>2, <2>3 DEF HeldInv
      <4> QED
        BY <2>2, <2>4, <3>1, <4>1, <4>2
    <3>2. CASE u # t
      <4>1. task[u] # "unseen" /\ of'[u] = of[u]
        BY <1>a, <2>1, <2>5, <3>2 DEF TypeOK, JobsInv
      <4>2. of[u] \in Jobs /\ (Safe(of[u]) \/ (Held(of[u]) /\ u \notin answered))
        BY <1>b, <4>1 DEF HeldInv
      <4>3. CASE Safe(of[u])
        BY <1>a, <4>1, <4>2, <4>3, SafeStays
      <4>4. CASE Held(of[u]) /\ u \notin answered
        BY <2>2, <4>1, <4>4 DEF Held
      <4> QED
        BY <4>2, <4>3, <4>4
    <3> QED
      BY <3>1, <3>2
  <2>6. ASSUME NEW j \in sent' PROVE Safe(j)' \/ Held(j)'
    BY <2>2, <2>3, <2>6 DEF HeldInv, JobsInv
  <2> QED
    BY <2>5, <2>6 DEF HeldInv
<1>c. ASSUME UNCHANGED <<task, of, answered, Connected>>, sent' \subseteq sent,
             \A j \in Jobs : Held(j) => Held(j)'
      PROVE  HeldInv'
  <2>1. ASSUME NEW t \in Tasks, task'[t] # "unseen"
        PROVE  Safe(of[t])' \/ (Held(of[t])' /\ t \notin answered')
    <3>1. of[t] \in Jobs /\ of'[t] = of[t]
      BY <1>c, <2>1, <1>b
    <3>2. Safe(of[t]) \/ (Held(of[t]) /\ t \notin answered)
      BY <1>c, <2>1 DEF HeldInv
    <3>3. Safe(of[t]) => Safe(of[t])'
      BY <3>1, <1>a, SafeStays
    <3> QED
      BY <1>c, <3>1, <3>2, <3>3
  <2>2. ASSUME NEW j \in sent' PROVE Safe(j)' \/ Held(j)'
    BY <1>a, <1>c, <2>2, SafeStays DEF HeldInv, JobsInv
  <2> QED
    BY <2>1, <2>2 DEF HeldInv
<1>3. ASSUME NEW i \in Jobs, Skip(i) PROVE HeldInv'
  <2>1. /\ UNCHANGED <<task, of, answered, Connected, status, orphaned>>
        /\ sent' \subseteq sent
    BY <1>3 DEF Skip, vars, taskVars, history, Connected, signals, loopVars
  <2> QED
    BY <2>1, <1>c DEF Held
<1>4. ASSUME NEW i \in Jobs, Requeue(i) PROVE HeldInv'
  <2>1. /\ UNCHANGED <<task, of, answered, Connected>> /\ sent' = sent
        /\ status' = [status EXCEPT ![i] = "ready"] /\ orphaned' = orphaned \ {i}
        /\ i \in orphaned
    BY <1>4 DEF Requeue, vars, taskVars, history, Connected, signals, loopVars
  <2>2. \A j \in Jobs : Held(j) => Held(j)'
    BY <2>1 DEF Held, JobsInv
  <2> QED
    BY <2>1, <2>2, <1>c
<1>5. CASE /\ DeliveryNext
           /\ \A j \in Jobs : ~HandOut(j) /\ ~Deliver(j) /\ ~Skip(j) /\ ~Requeue(j)
  <2>1. PICK s \in [Jobs -> Statuses] : Becomes(s)
    BY <1>5, <1>a, StepKinds
  <2>2. /\ of' = of
        /\ \A t \in Tasks : task[t] = "unseen" => task'[t] = "unseen"
    BY <1>5, <1>a, StepKinds
  <2>3. ASSUME NEW t \in Tasks, task'[t] # "unseen"
        PROVE  Safe(of[t])' \/ (Held(of[t])' /\ t \notin answered')
    <3>1. of[t] \in Jobs /\ of'[t] = of[t] /\ task[t] # "unseen"
      BY <2>2, <2>3, <1>b
    <3>2. CASE Safe(of[t])
      BY <1>a, <3>1, <3>2, SafeStays
    <3>3. CASE Held(of[t]) /\ t \notin answered
      <4>1. CASE ~Connected'
        BY <1>a, <2>1, <2>3, <3>1, <3>3, <4>1, ClosingIsSafe
      <4>2. CASE t \in answered'
        BY <1>a, <3>1, <3>3, <4>2, AnsweredIsSafe DEF Held
      <4>3. CASE Connected' /\ t \notin answered'
        BY <1>a, <2>1, <3>1, <3>3, <4>3, HeldGoesOn
      <4> QED
        BY <4>1, <4>2, <4>3
    <3> QED
      BY <3>1, <3>2, <3>3 DEF HeldInv
  <2>4. ASSUME NEW j \in sent' PROVE Safe(j)' \/ Held(j)'
    <3>1. Connected' /\ sent' = sent
      BY <2>1, <2>4 DEF Becomes
    <3>2. j \in Jobs /\ (Safe(j) \/ Held(j))
      BY <2>4, <3>1 DEF HeldInv, JobsInv
    <3> QED
      BY <1>a, <2>1, <3>1, <3>2, HeldGoesOn
  <2> QED
    BY <2>3, <2>4 DEF HeldInv
<1>6. CASE UNCHANGED allVars
  BY <1>6, <1>c DEF allVars, vars, serverVars, taskVars, history, loopVars, signals,
     Connected, Held
<1> QED
  BY <1>1, <1>2, <1>3, <1>4, <1>5, <1>6

\* In a single run, a job whose handler resolved goes back to the queue only if
\* its stream broke, the worker was killed, its ack was refused or another of
\* its handlers threw: stop() alone never makes a job run twice.
THEOREM HandledJobsStay ==
  ASSUME MaxRuns <= 1, ~StopInHandler
  PROVE  DeliverySpec => []HandledNotRequeued
<1>1. DeliveryInit => HeldInv
  BY DEF DeliveryInit, Init, HeldInv
<1>2. SoloInv /\ HeldInv => HandledNotRequeued
  <2> SUFFICES ASSUME SoloInv, HeldInv, NEW t \in succeeded
               PROVE  status[of[t]] # "ready" \/ Reason(of[t])
    BY DEF HandledNotRequeued
  <2>1. t \in Tasks /\ task[t] # "unseen"
    BY DEF SoloInv, ResolvedInv, TypeOK
  <2> QED
    BY <2>1 DEF HeldInv, Safe, Held
<1>3. SoloInv /\ SoloInv' /\ JobsInv /\ HeldInv /\ [DeliveryNext]_allVars => HeldInv'
  BY HeldJobsStep
<1> QED
  BY <1>1, <1>2, <1>3, DeliveryIsWorker, SoloCorrect, JobsCorrect, PTL
     DEF DeliverySpec

=============================================================================
