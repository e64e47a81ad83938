----------------------------- MODULE TestClient -----------------------------
(***************************************************************************)
(* TestClient of src/test-client.ts: the in-memory buffer of enqueued jobs *)
(* and dispatch(), which runs them through a handler.  dispatch() suspends *)
(* only while a handler runs; meanwhile the handlers, the program and      *)
(* other dispatch() calls may enqueue, clear the buffer and dispatch.      *)
(*                                                                         *)
(* An entry is its place in the order of submission, which is the order of *)
(* the buffer and of every snapshot.  What a filter reads of a job is its  *)
(* kind.  Ids, payloads and the status a Job shows are left out: neither   *)
(* dispatch() nor the status accessors read them.                          *)
(***************************************************************************)
EXTENDS Naturals, Sequences, FiniteSets, FiniteSetsExt

CONSTANTS
  Calls,         \* the dispatch() calls
  Options,       \* the options they are made with
  Kinds,         \* queues and types, as far as filters tell them apart
  MaxEntries,    \* bound: how many jobs are enqueued
  MaxTime        \* bound: the last instant of the clock

ASSUME BoundsAssumption == MaxEntries \in Nat /\ MaxTime \in Nat
ASSUME OptionsAssumption ==
  Options \subseteq [recursive : BOOLEAN, maxIterations : Nat,
                     only : SUBSET Kinds, except : SUBSET Kinds, keep : SUBSET Kinds]

VARIABLES
  now,      \* Date.now()
  entries,  \* every entry recorded so far
  buffer,   \* this.entries: those since the last clear()
  opts,     \* the options of each dispatch() call
  calls     \* the locals of each dispatch() call

vars == <<now, entries, buffer, opts, calls>>

\* handled counts, as history, how often a handler was called with the entry.
Entries == [kind : Kinds, readyAt : 0..MaxTime, handled : Nat,
            status : {"ready", "scheduled", "in_flight", "completed", "dead"}]

\* todo is what is left of the snapshot, the entry being handled first, taken
\* its length; by and known are history: the entries the call completed, and
\* how many had been recorded when it began.
CallStates(n) ==
  [pc : {"idle", "handling", "returned", "threw", "capped"},
   todo : SUBSET (1..n), taken : Nat, total : Nat, turns : Nat,
   by : SUBSET (1..n), known : 0..n]

TypeOK ==
  /\ now \in 0..MaxTime
  /\ entries \in Seq(Entries) /\ Len(entries) <= MaxEntries
  /\ buffer \subseteq DOMAIN entries
  /\ opts \in [Calls -> Options]
  /\ calls \in [Calls -> CallStates(Len(entries))]

Init ==
  /\ now = 0
  /\ entries = <<>>
  /\ buffer = {}
  /\ opts \in [Calls -> Options]
  /\ calls = [c \in Calls |-> [pc |-> "idle", todo |-> {}, taken |-> 0,
                               total |-> 0, turns |-> 0, by |-> {}, known |-> 0]]

-----------------------------------------------------------------------------
(* The buffer. *)

\* record(), the end of every enqueue method.
Enqueue(k, t) ==
  LET initial == IF t > now THEN "scheduled" ELSE "ready" IN
  /\ Len(entries) < MaxEntries
  /\ entries' = Append(entries, [kind |-> k, readyAt |-> t, handled |-> 0,
                                 status |-> initial])
  /\ buffer' = buffer \cup {Len(entries) + 1}
  /\ UNCHANGED <<now, opts, calls>>

\* Mutant: the entries are dropped under the calls that hold them.
ClearDrops ==
  /\ entries' = <<>>
  /\ buffer' = {}
  /\ UNCHANGED <<now, opts, calls>>

\* clear().  A dispatch() under way keeps its snapshot.
Clear ==
  /\ buffer' = {}
  /\ UNCHANGED <<now, entries, opts, calls>>

Tick ==
  /\ now < MaxTime
  /\ now' = now + 1
  /\ UNCHANGED <<entries, buffer, opts, calls>>

-----------------------------------------------------------------------------
(* dispatch(). *)

\* applyFilters(): an empty "only" list restricts nothing.
Matches(o, entry) ==
  /\ o.only # {} => entry.kind \in o.only
  /\ entry.kind \notin o.except
  /\ entry.kind \in o.keep

Runnable(o, es) ==
  {e \in buffer : /\ Matches(o, es[e])
                  /\ \/ es[e].status = "ready"
                     \/ es[e].status = "scheduled" /\ es[e].readyAt <= now}

HandlerCalled(es, e) == [es EXCEPT ![e].handled = @ + 1]

\* Mutant: what is ready is marked before the filters are applied.
MarkedUnfiltered(es, S) ==
  [e \in DOMAIN es |-> IF e \in S \/ (e \in buffer /\ es[e].status = "ready")
                       THEN [es[e] EXCEPT !.status = "in_flight"] ELSE es[e]]

\* Mutant: an entry is marked only when its handler is called.
MarkedLate(es, S) == [es EXCEPT ![Min(S)].status = "in_flight"]

\* takeRunnableSnapshot(): every entry of the snapshot is marked at once.
Marked(es, S) ==
  [e \in DOMAIN es |-> IF e \in S THEN [es[e] EXCEPT !.status = "in_flight"] ELSE es[e]]

\* The head of the loop, in one continuation with what precedes it: es and call
\* are the entries and the locals of c as that left them.
TakeSnapshot(c, es, call) ==
  LET S == Runnable(opts[c], es) IN
  \/ /\ S = {}
     /\ entries' = es
     /\ calls' = [calls EXCEPT ![c] = [call EXCEPT !.pc = "returned"]]
  \/ /\ S # {}
     /\ entries' = HandlerCalled(Marked(es, S), Min(S))
     /\ calls' = [calls EXCEPT ![c] = [call EXCEPT !.pc = "handling", !.todo = S,
                                                   !.taken = Cardinality(S)]]

DispatchStart(c) ==
  /\ calls[c].pc = "idle"
  /\ TakeSnapshot(c, entries, [calls[c] EXCEPT !.known = Len(entries)])
  /\ UNCHANGED <<now, buffer, opts>>

\* Mutant: the option is not read; every call drains.
EndTurnAlwaysLoops(c, es, call) ==
  TakeSnapshot(c, es, [call EXCEPT !.turns = call.turns + 1])

\* Mutant: at the cap the call returns what it has done.
EndTurnCapReturns(c, es, call) ==
  LET turns == call.turns + 1 IN
  IF opts[c].recursive /\ turns < opts[c].maxIterations
  THEN TakeSnapshot(c, es, [call EXCEPT !.turns = turns])
  ELSE entries' = es /\ calls' = [calls EXCEPT ![c] = [call EXCEPT !.pc = "returned"]]

\* The end of the loop's body.
EndTurn(c, es, call) ==
  LET turns == call.turns + 1 IN
  \/ /\ ~opts[c].recursive
     /\ entries' = es
     /\ calls' = [calls EXCEPT ![c] = [call EXCEPT !.pc = "returned"]]
  \/ /\ opts[c].recursive
     /\ turns >= opts[c].maxIterations
     /\ entries' = es
     /\ calls' = [calls EXCEPT ![c] = [call EXCEPT !.pc = "capped", !.turns = turns]]
  \/ /\ opts[c].recursive
     /\ turns < opts[c].maxIterations
     /\ TakeSnapshot(c, es, [call EXCEPT !.turns = turns])

\* Mutant: only the last snapshot is counted.
AddedTotalLast(call) == call.taken

AddedTotal(call) == call.total + call.taken

HandlerReturns(c) ==
  LET e == Min(calls[c].todo)
      rest == calls[c].todo \ {e}
      done == [entries EXCEPT ![e].status = "completed"]
      call == [calls[c] EXCEPT !.todo = rest, !.by = @ \cup {e}]
  IN
  /\ calls[c].pc = "handling"
  /\ \/ /\ rest # {}
        /\ entries' = HandlerCalled(done, Min(rest))
        /\ calls' = [calls EXCEPT ![c] = call]
     \/ /\ rest = {}
        /\ EndTurn(c, done, [call EXCEPT !.total = AddedTotal(call)])
  /\ UNCHANGED <<now, buffer, opts>>

\* The rest of the snapshot keeps the status it was marked with.
HandlerThrows(c) ==
  /\ calls[c].pc = "handling"
  /\ entries' = [entries EXCEPT ![Min(calls[c].todo)].status = "dead"]
  /\ calls' = [calls EXCEPT ![c].pc = "threw"]
  /\ UNCHANGED <<now, buffer, opts>>

Next ==
  \/ \E k \in Kinds, t \in now..MaxTime : Enqueue(k, t)
  \/ Clear
  \/ Tick
  \/ \E c \in Calls : DispatchStart(c) \/ HandlerReturns(c) \/ HandlerThrows(c)

Spec == Init /\ [][Next]_vars

-----------------------------------------------------------------------------
(* What the buffer and dispatch() promise. *)

\* Whatever overlaps, a handler is called at most once with an entry:
\* takeRunnableSnapshot() marks a snapshot before the first handler runs, so a
\* dispatch() made meanwhile, by a handler or beside it, never takes it again.
HandledOnce == \A e \in DOMAIN entries : entries[e].handled <= 1

\* dispatch() returns the number of entries it completed, over all its turns:
\* total counts a snapshot when the last of its handlers has returned.
CountsHandled ==
  \A c \in Calls : calls[c].pc = "returned" => calls[c].total = Cardinality(calls[c].by)

\* Without the recursive option a call leaves alone what is enqueued after it
\* began: it takes one snapshot.
SnapshotOnly ==
  \A c \in Calls : ~opts[c].recursive => calls[c].by \cup calls[c].todo \subseteq 1..calls[c].known

\* When a recursive call returns, nothing it could have run is left, whatever
\* the handlers enqueued: the loop ends on an empty snapshot only.
RecursiveDrains ==
  [][\A c \in Calls :
       (opts[c].recursive /\ calls[c].pc # "returned" /\ calls'[c].pc = "returned")
         => Runnable(opts[c], entries') = {}]_vars

\* An entry that is in_flight is held by exactly one dispatch() call, under way
\* or ended by a handler that threw: filters, clear() and overlapping calls never
\* leave one marked that nobody will handle.
InFlightOwned ==
  \A e \in DOMAIN entries : entries[e].status = "in_flight" =>
    Cardinality({c \in Calls : calls[c].pc \in {"handling", "threw"} /\ e \in calls[c].todo}) = 1

\* An entry is in_flight only while a dispatch() that holds it is under way, as
\* the documentation of inFlightJobs() says.  Not so once a handler threw; see
\* the README.
InFlightMeansDispatching ==
  \A e \in DOMAIN entries : entries[e].status = "in_flight" =>
    \E c \in Calls : calls[c].pc = "handling" /\ e \in calls[c].todo

\* A call fails with "exceeded maxIterations" only when there is more to do.  It
\* fails a call whose last allowed turn left nothing, too; see the README.
CapMeansMore ==
  [][\A c \in Calls :
       (calls[c].pc # "capped" /\ calls'[c].pc = "capped")
         => Runnable(opts[c], entries') # {}]_vars

-----------------------------------------------------------------------------
(* Inductive invariants. *)

\* Calls that hold a snapshot, and the entry a call is at.
Busy == {c \in Calls : calls[c].pc \in {"handling", "threw"}}
Current(c) == Min(calls[c].todo)

\* The calls in B share the entries es that are in_flight among them, each of
\* them once, and no handler was called with an entry before its turn.
Shared(es, B) ==
  /\ \A c \in B :
       /\ calls[c].todo # {}
       /\ es[Current(c)].handled = 1
       /\ es[Current(c)].status = IF calls[c].pc = "threw" THEN "dead" ELSE "in_flight"
       /\ \A e \in calls[c].todo \ {Current(c)} :
            es[e].status = "in_flight" /\ es[e].handled = 0
  /\ \A c, d \in B : c # d => calls[c].todo \cap calls[d].todo = {}
  /\ \A e \in DOMAIN es :
       /\ es[e].status \in {"ready", "scheduled"} => es[e].handled = 0
       /\ es[e].status \in {"completed", "dead"} => es[e].handled <= 1
       /\ es[e].status = "in_flight" => \E c \in B : e \in calls[c].todo

\* HandledOnce and InFlightOwned, strengthened.
SharedInv == Shared(entries, Busy)

\* CountsHandled and SnapshotOnly, strengthened: what a call has completed, and
\* what is left of its snapshot, make up its total and the snapshot.
Counted(call) ==
  /\ call.pc = "idle" => call.by = {} /\ call.todo = {} /\ call.total = 0
  /\ call.pc = "returned" => call.total = Cardinality(call.by)
  /\ call.pc = "handling" =>
       Cardinality(call.by) + Cardinality(call.todo) = call.total + call.taken

CountInv == \A c \in Calls : /\ Counted(calls[c])
                             /\ \A e \in calls[c].by : entries[e].status = "completed"

=============================================================================
