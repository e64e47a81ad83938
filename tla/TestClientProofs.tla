-------------------------- MODULE TestClientProofs --------------------------
(***************************************************************************)
(* Theorems about TestClient, for every set of calls, options and kinds    *)
(* and every bound on the entries and the clock.                           *)
(***************************************************************************)
EXTENDS TestClient, OrderLemmas

-----------------------------------------------------------------------------
(* Types. *)

\* What a call, a snapshot or the end of a handler makes of the entries.
LEMMA CalledTyped ==
  ASSUME NEW es \in Seq(Entries), NEW e \in DOMAIN es
  PROVE  /\ HandlerCalled(es, e) \in Seq(Entries)
         /\ Len(HandlerCalled(es, e)) = Len(es)
         /\ HandlerCalled(es, e)[e].handled = es[e].handled + 1
         /\ HandlerCalled(es, e)[e].status = es[e].status
         /\ \A i \in DOMAIN es : i # e => HandlerCalled(es, e)[i] = es[i]
<1>0. \A i \in DOMAIN es : es[i] \in Entries
  OBVIOUS
<1> DEFINE called == [es[e] EXCEPT !.handled = @ + 1]
<1>1. called \in Entries /\ called.handled = es[e].handled + 1 /\ called.status = es[e].status
  <2>1. es[e].handled \in Nat /\ es[e].handled + 1 \in Nat
    BY <1>0 DEF Entries
  <2> QED
    BY <1>0, <2>1 DEF Entries
<1>2. HandlerCalled(es, e) = [i \in DOMAIN es |-> IF i = e THEN called ELSE es[i]]
  BY <1>0 DEF HandlerCalled
<1> HIDE DEF called
<1> QED
  BY <1>0, <1>1, <1>2

LEMMA MarkedTyped ==
  ASSUME NEW es \in Seq(Entries), NEW S \in SUBSET DOMAIN es
  PROVE  /\ Marked(es, S) \in Seq(Entries)
         /\ Len(Marked(es, S)) = Len(es)
         /\ \A e \in S : /\ Marked(es, S)[e].status = "in_flight"
                         /\ Marked(es, S)[e].handled = es[e].handled
         /\ \A e \in DOMAIN es \ S : Marked(es, S)[e] = es[e]
<1>0. \A i \in DOMAIN es : es[i] \in Entries
  OBVIOUS
<1>1. \A i \in DOMAIN es : [es[i] EXCEPT !.status = "in_flight"] \in Entries
  BY <1>0 DEF Entries
<1>2. Marked(es, S) \in Seq(Entries) /\ Len(Marked(es, S)) = Len(es)
  BY <1>0, <1>1 DEF Marked
<1> QED
  BY <1>0, <1>2 DEF Marked, Entries

LEMMA StatusTyped ==
  ASSUME NEW es \in Seq(Entries), NEW e \in DOMAIN es, NEW st \in {"completed", "dead"}
  PROVE  /\ [es EXCEPT ![e].status = st] \in Seq(Entries)
         /\ Len([es EXCEPT ![e].status = st]) = Len(es)
         /\ [es EXCEPT ![e].status = st][e].status = st
         /\ [es EXCEPT ![e].status = st][e].handled = es[e].handled
         /\ \A i \in DOMAIN es : i # e => [es EXCEPT ![e].status = st][i] = es[i]
<1>0. \A i \in DOMAIN es : es[i] \in Entries
  OBVIOUS
<1>1. [es EXCEPT ![e].status = st]
        = [i \in DOMAIN es |-> IF i = e THEN [es[i] EXCEPT !.status = st] ELSE es[i]]
  BY <1>0
<1>2. [es[e] EXCEPT !.status = st] \in Entries
  BY <1>0 DEF Entries
<1> QED
  BY <1>0, <1>1, <1>2 DEF Entries

\* A snapshot holds entries that are ready or scheduled, and finitely many.
LEMMA RunnableTyped ==
  ASSUME NEW es \in Seq(Entries), buffer \subseteq DOMAIN es, NEW o
  PROVE  /\ Runnable(o, es) \subseteq DOMAIN es
         /\ IsFiniteSet(Runnable(o, es)) /\ Cardinality(Runnable(o, es)) \in Nat
         /\ \A e \in Runnable(o, es) : es[e].status \in {"ready", "scheduled"}
         /\ Runnable(o, es) # {} => Min(Runnable(o, es)) \in Runnable(o, es)
<1>1. /\ Runnable(o, es) \subseteq DOMAIN es
      /\ \A e \in Runnable(o, es) : es[e].status \in {"ready", "scheduled"}
  BY DEF Runnable
<1>2. DOMAIN es = 1..Len(es) /\ Len(es) \in Nat
  OBVIOUS
<1>3. IsFiniteSet(Runnable(o, es))
  <2>1. IsFiniteSet(1..Len(es))
    BY <1>2, FS_Interval
  <2> QED
    BY <1>1, <1>2, <2>1, FS_Subset
<1>4. Runnable(o, es) \in SUBSET Nat
  BY <1>1, <1>2
<1> QED
  BY <1>1, <1>3, <1>4, FS_CardinalityType, MinIsLeast

\* The head of the loop, whatever entries es and locals call it starts from.
LEMMA TakeTyped ==
  ASSUME TypeOK, NEW c \in Calls, NEW es \in Seq(Entries), Len(es) = Len(entries),
         NEW call \in CallStates(Len(entries)), TakeSnapshot(c, es, call)
  PROVE  /\ entries' \in Seq(Entries) /\ Len(entries') = Len(entries)
         /\ calls' \in [Calls -> CallStates(Len(entries))]
<1> DEFINE S == Runnable(opts[c], es)
<1>1. /\ S \subseteq DOMAIN es /\ Cardinality(S) \in Nat
      /\ S # {} => Min(S) \in S
      /\ DOMAIN es = 1..Len(entries)
  BY RunnableTyped DEF TypeOK
<1>2. CASE S = {}
  <2>1. [call EXCEPT !.pc = "returned"] \in CallStates(Len(entries))
    BY DEF CallStates
  <2> QED
    BY <1>2, <2>1 DEF TakeSnapshot, TypeOK
<1>3. CASE S # {}
  <2>1. [call EXCEPT !.pc = "handling", !.todo = S, !.taken = Cardinality(S)]
          \in CallStates(Len(entries))
    BY <1>1 DEF CallStates
  <2>2. calls' \in [Calls -> CallStates(Len(entries))]
    BY <1>3, <2>1 DEF TakeSnapshot, TypeOK
  <2>3. Marked(es, S) \in Seq(Entries) /\ Len(Marked(es, S)) = Len(es)
    BY <1>1, MarkedTyped
  <2>4. entries' = HandlerCalled(Marked(es, S), Min(S)) /\ Min(S) \in DOMAIN Marked(es, S)
    BY <1>1, <1>3, <2>3 DEF TakeSnapshot
  <2> QED
    BY <2>2, <2>3, <2>4, CalledTyped
<1> QED
  BY <1>2, <1>3

LEMMA EndTurnTyped ==
  ASSUME TypeOK, NEW c \in Calls, NEW es \in Seq(Entries), Len(es) = Len(entries),
         NEW call \in CallStates(Len(entries)), EndTurn(c, es, call)
  PROVE  /\ entries' \in Seq(Entries) /\ Len(entries') = Len(entries)
         /\ calls' \in [Calls -> CallStates(Len(entries))]
<1> DEFINE turns == call.turns + 1
<1>1. /\ [call EXCEPT !.pc = "returned"] \in CallStates(Len(entries))
      /\ [call EXCEPT !.pc = "capped", !.turns = turns] \in CallStates(Len(entries))
      /\ [call EXCEPT !.turns = turns] \in CallStates(Len(entries))
  <2>1. turns \in Nat
    BY DEF CallStates
  <2> HIDE DEF turns
  <2> QED
    BY <2>1 DEF CallStates
<1>2. CASE entries' = es /\ calls' = [calls EXCEPT ![c] = [call EXCEPT !.pc = "returned"]]
  BY <1>1, <1>2 DEF TypeOK
<1>3. CASE entries' = es /\ calls' = [calls EXCEPT ![c] =
                                        [call EXCEPT !.pc = "capped", !.turns = turns]]
  BY <1>1, <1>3 DEF TypeOK
<1>4. CASE TakeSnapshot(c, es, [call EXCEPT !.turns = turns])
  BY <1>1, <1>4, TakeTyped
<1> QED
  BY <1>2, <1>3, <1>4 DEF EndTurn

\* The locals of a call whose handler has returned, and what is left to do.
LEMMA HandlerTyped ==
  ASSUME TypeOK, NEW c \in Calls, calls[c].todo # {}
  PROVE  /\ Min(calls[c].todo) \in calls[c].todo
         /\ calls[c].todo \subseteq DOMAIN entries
         /\ Min(calls[c].todo) \in DOMAIN entries
<1>1. calls[c].todo \subseteq 1..Len(entries) /\ DOMAIN entries = 1..Len(entries)
  BY DEF TypeOK, CallStates
<1>2. calls[c].todo \in SUBSET Nat
  BY <1>1 DEF TypeOK
<1> QED
  BY <1>1, <1>2, MinIsLeast

\* A handler that has returned leaves locals and entries of the right types.
LEMMA ReturnTyped ==
  ASSUME TypeOK, NEW c \in Calls, calls[c].todo # {}
  PROVE  LET e    == Min(calls[c].todo)
             rest == calls[c].todo \ {e}
             done == [entries EXCEPT ![e].status = "completed"]
             call == [calls[c] EXCEPT !.todo = rest, !.by = @ \cup {e}]
         IN  /\ done \in Seq(Entries) /\ Len(done) = Len(entries)
             /\ call \in CallStates(Len(entries))
             /\ [call EXCEPT !.total = AddedTotal(call)] \in CallStates(Len(entries))
             /\ rest # {} => Min(rest) \in rest /\ Min(rest) \in DOMAIN done
<1> DEFINE e    == Min(calls[c].todo)
           rest == calls[c].todo \ {e}
           done == [entries EXCEPT ![e].status = "completed"]
           call == [calls[c] EXCEPT !.todo = rest, !.by = @ \cup {e}]
<1>1. e \in DOMAIN entries /\ DOMAIN entries = 1..Len(entries) /\ entries \in Seq(Entries)
  BY HandlerTyped DEF TypeOK
<1>2. done \in Seq(Entries) /\ Len(done) = Len(entries)
  <2> HIDE DEF e
  <2> QED
    BY <1>1, StatusTyped, "completed" \in {"completed", "dead"}
<1>3. calls[c] \in CallStates(Len(entries))
  BY DEF TypeOK
<1>4. call \in CallStates(Len(entries))
  BY <1>1, <1>3 DEF CallStates
<1>5. [call EXCEPT !.total = AddedTotal(call)] \in CallStates(Len(entries))
  <2> HIDE DEF call
  <2>1. AddedTotal(call) \in Nat
    BY <1>4 DEF AddedTotal, CallStates
  <2> QED
    BY <1>4, <2>1 DEF CallStates
<1>6. rest # {} => Min(rest) \in rest /\ Min(rest) \in DOMAIN done
  <2>1. rest \in SUBSET (1..Len(entries)) /\ DOMAIN done = 1..Len(entries)
    BY <1>1, <1>2, <1>3 DEF CallStates
  <2>2. rest \in SUBSET Nat
    BY <2>1, <1>1
  <2> QED
    BY <2>1, <2>2, MinIsLeast
<1> QED
  BY <1>2, <1>4, <1>5, <1>6

\* TypeOK is kept by every step: a handler that is running has an entry.
LEMMA TypeStep ==
  ASSUME TypeOK, \A c \in Calls : calls[c].pc = "handling" => calls[c].todo # {}, [Next]_vars
  PROVE  TypeOK'
<1>1. ASSUME NEW k \in Kinds, NEW t \in now..MaxTime, Enqueue(k, t)
      PROVE  TypeOK'
  <2> DEFINE new == [kind |-> k, readyAt |-> t, handled |-> 0,
                     status |-> IF t > now THEN "scheduled" ELSE "ready"]
  <2>1. new \in Entries
    BY BoundsAssumption DEF Entries, TypeOK
  <2>2. entries' = Append(entries, new)
    BY <1>1 DEF Enqueue
  <2> HIDE DEF new
  <2>3. /\ entries' \in Seq(Entries) /\ Len(entries') = Len(entries) + 1
        /\ Len(entries') <= MaxEntries /\ Len(entries) \in Nat
        /\ DOMAIN entries = 1..Len(entries) /\ DOMAIN entries' = 1..Len(entries')
    BY <1>1, <2>1, <2>2, BoundsAssumption DEF Enqueue, TypeOK
  <2>4. CallStates(Len(entries)) \subseteq CallStates(Len(entries'))
    <3>1. 1..Len(entries) \subseteq 1..Len(entries') /\ 0..Len(entries) \subseteq 0..Len(entries')
      BY <2>3
    <3> QED
      BY <3>1 DEF CallStates
  <2>5. calls' \in [Calls -> CallStates(Len(entries'))]
    BY <1>1, <2>4 DEF Enqueue, TypeOK
  <2> QED
    BY <1>1, <2>3, <2>5 DEF Enqueue, TypeOK
<1>2. CASE Clear
  BY <1>2 DEF Clear, TypeOK
<1>3. CASE Tick
  BY <1>3, BoundsAssumption DEF Tick, TypeOK
<1>4. ASSUME NEW c \in Calls, DispatchStart(c)
      PROVE  TypeOK'
  <2>1. [calls[c] EXCEPT !.known = Len(entries)] \in CallStates(Len(entries))
    <3>1. Len(entries) \in 0..Len(entries)
      BY DEF TypeOK
    <3>2. calls[c] \in CallStates(Len(entries))
      BY DEF TypeOK
    <3> QED
      BY <3>1, <3>2 DEF CallStates
  <2>2. entries' \in Seq(Entries) /\ Len(entries') = Len(entries)
        /\ calls' \in [Calls -> CallStates(Len(entries))]
    BY <1>4, <2>1, TakeTyped DEF DispatchStart, TypeOK
  <2> QED
    BY <1>4, <2>2 DEF DispatchStart, TypeOK
<1>5. ASSUME NEW c \in Calls, HandlerReturns(c)
      PROVE  TypeOK'
  <2> DEFINE e    == Min(calls[c].todo)
             rest == calls[c].todo \ {e}
             done == [entries EXCEPT ![e].status = "completed"]
             call == [calls[c] EXCEPT !.todo = rest, !.by = @ \cup {e}]
             last == [call EXCEPT !.total = AddedTotal(call)]
  <2>1. /\ done \in Seq(Entries) /\ Len(done) = Len(entries)
        /\ call \in CallStates(Len(entries)) /\ last \in CallStates(Len(entries))
        /\ rest # {} => Min(rest) \in DOMAIN done
    BY <1>5, ReturnTyped DEF HandlerReturns
  <2>2. \/ /\ rest # {}
           /\ entries' = HandlerCalled(done, Min(rest))
           /\ calls' = [calls EXCEPT ![c] = call]
        \/ EndTurn(c, done, last)
    BY <1>5 DEF HandlerReturns
  <2> HIDE DEF e, rest, done, call, last
  <2>3. /\ entries' \in Seq(Entries) /\ Len(entries') = Len(entries)
        /\ calls' \in [Calls -> CallStates(Len(entries))]
    <3>1. CASE EndTurn(c, done, last)
      BY <2>1, <3>1, EndTurnTyped
    <3>2. CASE ~EndTurn(c, done, last)
      <4>1. calls' \in [Calls -> CallStates(Len(entries))]
        BY <2>1, <2>2, <3>2 DEF TypeOK
      <4> QED
        BY <2>1, <2>2, <3>2, <4>1, CalledTyped
    <3> QED
      BY <3>1, <3>2
  <2> QED
    BY <1>5, <2>3 DEF HandlerReturns, TypeOK
<1>6. ASSUME NEW c \in Calls, HandlerThrows(c)
      PROVE  TypeOK'
  <2>1. Min(calls[c].todo) \in DOMAIN entries
    BY <1>6, HandlerTyped DEF HandlerThrows
  <2>2. entries' \in Seq(Entries) /\ Len(entries') = Len(entries)
    <3> DEFINE e == Min(calls[c].todo)
    <3>1. entries' = [entries EXCEPT ![e].status = "dead"] /\ entries \in Seq(Entries)
      BY <1>6 DEF HandlerThrows, TypeOK
    <3>2. e \in DOMAIN entries
      BY <2>1
    <3> HIDE DEF e
    <3> QED
      BY <3>1, <3>2, StatusTyped, "dead" \in {"completed", "dead"}
  <2>3. calls' \in [Calls -> CallStates(Len(entries))]
    BY <1>6 DEF HandlerThrows, TypeOK, CallStates
  <2> QED
    BY <1>6, <2>2, <2>3 DEF HandlerThrows, TypeOK
<1>7. CASE UNCHANGED vars
  BY <1>7 DEF vars, TypeOK
<1> QED
  BY <1>1, <1>2, <1>3, <1>4, <1>5, <1>6, <1>7 DEF Next

-----------------------------------------------------------------------------
(* Overlapping calls. *)

\* An entry that a call holds is not ready, and not scheduled.
LEMMA HeldNotRunnable ==
  ASSUME NEW es, NEW B, Shared(es, B), NEW d \in B, NEW e \in calls[d].todo
  PROVE  es[e].status \in {"in_flight", "dead"}
BY DEF Shared, Current

\* A snapshot is disjoint from what the other calls hold, and leaves it alone.
LEMMA TakeShared ==
  ASSUME TypeOK, NEW c \in Calls, NEW es \in Seq(Entries), Len(es) = Len(entries),
         NEW call \in CallStates(Len(entries)), Shared(es, Busy \ {c}),
         TakeSnapshot(c, es, call)
  PROVE  SharedInv'
<1> DEFINE S == Runnable(opts[c], es)
           B == Busy \ {c}
<1>1. /\ S \subseteq DOMAIN es
      /\ \A e \in S : es[e].status \in {"ready", "scheduled"}
      /\ S # {} => Min(S) \in S
      /\ DOMAIN es = 1..Len(entries)
  BY RunnableTyped DEF TypeOK
<1>2. /\ calls' = [calls EXCEPT ![c] = calls'[c]] /\ calls \in [Calls -> CallStates(Len(entries))]
      /\ calls'[c].pc = IF S = {} THEN "returned" ELSE "handling"
      /\ S # {} => calls'[c].todo = S
  BY DEF TakeSnapshot, TypeOK, CallStates
<1>3. Busy' = IF S = {} THEN B ELSE B \cup {c}
  BY <1>2 DEF Busy
<1>4. \A d \in B : d \in Calls /\ d # c /\ calls'[d] = calls[d]
  BY <1>2 DEF Busy
<1>5. CASE S = {}
  <2>1. entries' = es /\ Busy' = B
    BY <1>5, <1>3 DEF TakeSnapshot
  <2> QED
    BY <2>1, <1>4 DEF SharedInv, Shared, Current
<1>6. CASE S # {}
  <2> DEFINE marked == Marked(es, S)
  <2>1. /\ marked \in Seq(Entries) /\ Len(marked) = Len(es)
        /\ \A e \in S : marked[e].status = "in_flight" /\ marked[e].handled = es[e].handled
        /\ \A e \in DOMAIN es \ S : marked[e] = es[e]
    BY <1>1, MarkedTyped
  <2>2. entries' = HandlerCalled(marked, Min(S)) /\ DOMAIN marked = DOMAIN es
    BY <1>6, <2>1 DEF TakeSnapshot
  <2> HIDE DEF marked
  <2>3. /\ DOMAIN entries' = DOMAIN es
        /\ entries'[Min(S)].handled = marked[Min(S)].handled + 1
        /\ entries'[Min(S)].status = marked[Min(S)].status
        /\ \A e \in DOMAIN es : e # Min(S) => entries'[e] = marked[e]
    <3> DEFINE first == Min(S)
    <3>1. first \in DOMAIN marked /\ entries' = HandlerCalled(marked, first)
      BY <1>1, <1>6, <2>2
    <3> HIDE DEF first
    <3>2. /\ DOMAIN entries' = DOMAIN es
          /\ entries'[first].handled = marked[first].handled + 1
          /\ entries'[first].status = marked[first].status
          /\ \A e \in DOMAIN es : e # first => entries'[e] = marked[e]
      BY <2>1, <2>2, <3>1, CalledTyped
    <3> QED
      BY <3>2 DEF first
  <2>4. \A e \in S : es[e].handled = 0
    BY <1>1 DEF Shared
  <2>5. /\ entries'[Min(S)].handled = 1 /\ entries'[Min(S)].status = "in_flight"
        /\ \A e \in S \ {Min(S)} : entries'[e].handled = 0 /\ entries'[e].status = "in_flight"
        /\ \A e \in DOMAIN es \ S : entries'[e] = es[e]
    BY <1>1, <1>6, <2>1, <2>3, <2>4
  <2>6. \A d \in B : calls[d].todo \cap S = {} /\ calls[d].todo \subseteq DOMAIN es
    <3>1. ASSUME NEW d \in B, NEW e \in calls[d].todo
          PROVE  e \notin S
      BY <1>1, <3>1, HeldNotRunnable
    <3>2. ASSUME NEW d \in B
          PROVE  calls[d].todo \subseteq DOMAIN es
      BY <1>1, <1>2, <3>2 DEF Busy, CallStates
    <3> QED
      BY <3>1, <3>2
  <2>7. \A d \in Busy' :
          /\ calls'[d].todo # {}
          /\ entries'[Min(calls'[d].todo)].handled = 1
          /\ entries'[Min(calls'[d].todo)].status
               = IF calls'[d].pc = "threw" THEN "dead" ELSE "in_flight"
          /\ \A e \in calls'[d].todo \ {Min(calls'[d].todo)} :
               entries'[e].status = "in_flight" /\ entries'[e].handled = 0
    <3>1. ASSUME NEW d \in B
          PROVE  /\ calls[d].todo # {}
                 /\ Min(calls[d].todo) \in calls[d].todo
                 /\ es[Min(calls[d].todo)].handled = 1
                 /\ es[Min(calls[d].todo)].status
                      = IF calls[d].pc = "threw" THEN "dead" ELSE "in_flight"
                 /\ \A e \in calls[d].todo \ {Min(calls[d].todo)} :
                      es[e].status = "in_flight" /\ es[e].handled = 0
      BY <1>4, <3>1, HandlerTyped DEF Shared, Current
    <3>2. ASSUME NEW d \in B, NEW e \in calls[d].todo
          PROVE  entries'[e] = es[e]
      BY <2>5, <2>6, <3>2
    <3>3. ASSUME NEW d \in B
          PROVE  /\ calls'[d].todo # {}
                 /\ entries'[Min(calls'[d].todo)].handled = 1
                 /\ entries'[Min(calls'[d].todo)].status
                      = IF calls'[d].pc = "threw" THEN "dead" ELSE "in_flight"
                 /\ \A e \in calls'[d].todo \ {Min(calls'[d].todo)} :
                      entries'[e].status = "in_flight" /\ entries'[e].handled = 0
      BY <1>4, <3>1, <3>2, <3>3
    <3> QED
      BY <1>2, <1>3, <1>6, <2>5, <3>3
  <2>8. \A d, f \in Busy' : d # f => calls'[d].todo \cap calls'[f].todo = {}
    BY <1>2, <1>3, <1>4, <1>6, <2>6 DEF Shared
  <2>9. ASSUME NEW e \in DOMAIN entries'
        PROVE  /\ entries'[e].status \in {"ready", "scheduled"} => entries'[e].handled = 0
               /\ entries'[e].status \in {"completed", "dead"} => entries'[e].handled <= 1
               /\ entries'[e].status = "in_flight" => \E d \in Busy' : e \in calls'[d].todo
    <3>1. CASE e \in S
      BY <1>2, <1>3, <1>6, <2>5, <3>1
    <3>2. CASE e \notin S
      BY <1>3, <1>4, <1>6, <2>3, <2>5, <3>2 DEF Shared
    <3> QED
      BY <3>1, <3>2
  <2> QED
    BY <2>7, <2>8, <2>9 DEF SharedInv, Shared, Current
<1> QED
  BY <1>5, <1>6

\* At the end of a turn the call holds nothing, and takes a snapshot or ends.
LEMMA EndTurnShared ==
  ASSUME TypeOK, NEW c \in Calls, NEW es \in Seq(Entries), Len(es) = Len(entries),
         NEW call \in CallStates(Len(entries)), Shared(es, Busy \ {c}),
         EndTurn(c, es, call)
  PROVE  SharedInv'
<1> DEFINE turns == call.turns + 1
<1>1. [call EXCEPT !.turns = turns] \in CallStates(Len(entries))
  <2>1. turns \in Nat
    BY DEF CallStates
  <2> HIDE DEF turns
  <2> QED
    BY <2>1 DEF CallStates
<1>2. CASE TakeSnapshot(c, es, [call EXCEPT !.turns = turns])
  BY <1>1, <1>2, TakeShared
<1>3. ASSUME NEW pc \in {"returned", "capped"}, entries' = es,
             calls' = [calls EXCEPT ![c] = calls'[c]], calls'[c].pc = pc
      PROVE  SharedInv'
  <2>1. Busy' = Busy \ {c} /\ \A d \in Busy \ {c} : calls'[d] = calls[d]
    BY <1>3 DEF Busy, TypeOK
  <2> QED
    BY <1>3, <2>1 DEF SharedInv, Shared, Current
<1>4. \/ TakeSnapshot(c, es, [call EXCEPT !.turns = turns])
      \/ \E pc \in {"returned", "capped"} :
           entries' = es /\ calls' = [calls EXCEPT ![c] = calls'[c]] /\ calls'[c].pc = pc
  <2>1. calls \in [Calls -> CallStates(Len(entries))]
    BY DEF TypeOK
  <2>2. CASE calls' = [calls EXCEPT ![c] = [call EXCEPT !.pc = "returned"]] /\ entries' = es
    BY <2>1, <2>2 DEF CallStates
  <2>3. CASE calls' = [calls EXCEPT ![c] = [call EXCEPT !.pc = "capped", !.turns = turns]]
             /\ entries' = es
    BY <2>1, <2>3 DEF CallStates
  <2> QED
    BY <2>2, <2>3 DEF EndTurn
<1> QED
  BY <1>2, <1>3, <1>4

\* The end of a handler: its entry is completed, and nobody else's is touched.
LEMMA ReturnShared ==
  ASSUME TypeOK, SharedInv, NEW c \in Calls, HandlerReturns(c)
  PROVE  SharedInv'
<1> DEFINE e    == Min(calls[c].todo)
           rest == calls[c].todo \ {e}
           done == [entries EXCEPT ![e].status = "completed"]
           call == [calls[c] EXCEPT !.todo = rest, !.by = @ \cup {e}]
           last == [call EXCEPT !.total = AddedTotal(call)]
           B    == Busy \ {c}
<1>1. /\ c \in Busy /\ calls[c].pc = "handling" /\ calls[c].todo # {}
      /\ \/ /\ rest # {}
            /\ entries' = HandlerCalled(done, Min(rest))
            /\ calls' = [calls EXCEPT ![c] = call]
         \/ rest = {} /\ EndTurn(c, done, last)
  BY DEF HandlerReturns, Busy, SharedInv, Shared
<1>2. /\ done \in Seq(Entries) /\ Len(done) = Len(entries)
      /\ call \in CallStates(Len(entries)) /\ last \in CallStates(Len(entries))
      /\ rest # {} => Min(rest) \in rest /\ Min(rest) \in DOMAIN done
      /\ call.pc = "handling" /\ call.todo = rest
  BY <1>1, ReturnTyped DEF TypeOK, CallStates
<1>3. /\ e \in calls[c].todo /\ e \in DOMAIN entries
      /\ DOMAIN done = DOMAIN entries
      /\ done[e].status = "completed" /\ done[e].handled = entries[e].handled
      /\ \A i \in DOMAIN entries : i # e => done[i] = entries[i]
  <2>1. e \in calls[c].todo /\ e \in DOMAIN entries /\ entries \in Seq(Entries)
    BY <1>1, HandlerTyped DEF TypeOK
  <2> HIDE DEF e
  <2> QED
    BY <2>1, StatusTyped, "completed" \in {"completed", "dead"}
<1>4. /\ entries[e].handled = 1
      /\ \A i \in rest : entries[i].status = "in_flight" /\ entries[i].handled = 0
  BY <1>1 DEF SharedInv, Shared, Current
<1>5. /\ \A d \in B : d \in Calls /\ calls[d].todo \cap calls[c].todo = {}
      /\ calls \in [Calls -> CallStates(Len(entries))]
      /\ \A d \in Calls : calls[d].todo \subseteq DOMAIN entries
  BY <1>1 DEF SharedInv, Shared, Busy, TypeOK, CallStates
<1> HIDE DEF e, done, call, last
<1>6. ASSUME NEW d \in B
      PROVE  /\ calls[d].todo # {} /\ Min(calls[d].todo) \in calls[d].todo
             /\ entries[Min(calls[d].todo)].handled = 1
             /\ entries[Min(calls[d].todo)].status
                  = IF calls[d].pc = "threw" THEN "dead" ELSE "in_flight"
             /\ \A i \in calls[d].todo \ {Min(calls[d].todo)} :
                  entries[i].status = "in_flight" /\ entries[i].handled = 0
             /\ \A i \in calls[d].todo : done[i] = entries[i]
  BY <1>3, <1>5, <1>6, HandlerTyped DEF SharedInv, Shared, Current
<1>7. CASE rest = {}
  <2>1. Shared(done, B)
    <3>1. ASSUME NEW i \in DOMAIN done, i # e, done[i].status = "in_flight"
          PROVE  \E d \in B : i \in calls[d].todo
      BY <1>3, <1>7, <3>1 DEF SharedInv, Shared
    <3>2. ASSUME NEW i \in DOMAIN done
          PROVE  /\ done[i].status \in {"ready", "scheduled"} => done[i].handled = 0
                 /\ done[i].status \in {"completed", "dead"} => done[i].handled <= 1
      BY <1>3, <1>4, <3>2 DEF SharedInv, Shared
    <3>3. \A d, f \in B : d # f => calls[d].todo \cap calls[f].todo = {}
      BY DEF SharedInv, Shared
    <3> QED
      BY <1>3, <1>6, <3>1, <3>2, <3>3 DEF Shared, Current
  <2> QED
    BY <1>1, <1>2, <1>7, <2>1, EndTurnShared
<1>8. CASE rest # {}
  <2> DEFINE next == Min(rest)
  <2>1. /\ next \in rest /\ next # e /\ next \in DOMAIN done
        /\ entries' = HandlerCalled(done, next) /\ calls' = [calls EXCEPT ![c] = call]
    BY <1>1, <1>2, <1>8
  <2> HIDE DEF next
  <2>2. /\ DOMAIN entries' = DOMAIN done
        /\ entries'[next].handled = done[next].handled + 1
        /\ entries'[next].status = done[next].status
        /\ \A i \in DOMAIN done : i # next => entries'[i] = done[i]
    BY <1>2, <2>1, CalledTyped
  <2>3. /\ Busy' = Busy /\ calls'[c].todo = rest /\ calls'[c].pc = "handling"
        /\ \A d \in B : calls'[d] = calls[d]
    BY <1>1, <1>2, <1>5, <2>1 DEF Busy
  <2>4. /\ entries'[next].handled = 1 /\ entries'[next].status = "in_flight"
        /\ \A i \in rest \ {next} : entries'[i].status = "in_flight" /\ entries'[i].handled = 0
    BY <1>3, <1>4, <1>5, <2>1, <2>2
  <2>5. \A d \in B : \A i \in calls[d].todo : entries'[i] = entries[i]
    BY <1>3, <1>5, <1>6, <2>1, <2>2
  <2>6. ASSUME NEW d \in Busy'
        PROVE  /\ calls'[d].todo # {}
               /\ entries'[Min(calls'[d].todo)].handled = 1
               /\ entries'[Min(calls'[d].todo)].status
                    = IF calls'[d].pc = "threw" THEN "dead" ELSE "in_flight"
               /\ \A i \in calls'[d].todo \ {Min(calls'[d].todo)} :
                    entries'[i].status = "in_flight" /\ entries'[i].handled = 0
    <3>1. CASE d = c
      BY <1>8, <2>3, <2>4, <3>1 DEF next
    <3>2. CASE d # c
      BY <1>6, <2>3, <2>5, <2>6, <3>2
    <3> QED
      BY <3>1, <3>2
  <2>7. \A d, f \in Busy' : d # f => calls'[d].todo \cap calls'[f].todo = {}
    BY <2>3 DEF SharedInv, Shared
  <2>8. ASSUME NEW i \in DOMAIN entries'
        PROVE  /\ entries'[i].status \in {"ready", "scheduled"} => entries'[i].handled = 0
               /\ entries'[i].status \in {"completed", "dead"} => entries'[i].handled <= 1
               /\ entries'[i].status = "in_flight" => \E d \in Busy' : i \in calls'[d].todo
    <3>1. CASE i = e
      BY <1>3, <1>4, <2>1, <2>2, <3>1
    <3>2. CASE i = next
      BY <1>1, <2>1, <2>3, <2>4, <3>2
    <3>3. CASE i # e /\ i # next
      <4>1. entries'[i] = entries[i] /\ i \in DOMAIN entries
        BY <1>3, <2>2, <3>3
      <4>2. ASSUME entries[i].status = "in_flight"
            PROVE  \E d \in Busy' : i \in calls'[d].todo
        <5>1. PICK d \in Busy : i \in calls[d].todo
          BY <4>1, <4>2 DEF SharedInv, Shared
        <5> QED
          BY <2>3, <3>3, <5>1
      <4> QED
        BY <4>1, <4>2 DEF SharedInv, Shared
    <3> QED
      BY <3>1, <3>2, <3>3
  <2> QED
    BY <2>6, <2>7, <2>8 DEF SharedInv, Shared, Current
<1> QED
  BY <1>7, <1>8

LEMMA SharedStep ==
  ASSUME TypeOK, SharedInv, [Next]_vars
  PROVE  SharedInv'
<1>1. ASSUME NEW k \in Kinds, NEW t \in now..MaxTime, Enqueue(k, t)
      PROVE  SharedInv'
  <2> DEFINE new == [kind |-> k, readyAt |-> t, handled |-> 0,
                     status |-> IF t > now THEN "scheduled" ELSE "ready"]
  <2>1. entries' = Append(entries, new) /\ calls' = calls /\ Busy' = Busy
    BY <1>1 DEF Enqueue, Busy
  <2>2. new.handled = 0 /\ new.status \in {"ready", "scheduled"}
    OBVIOUS
  <2> HIDE DEF new
  <2>3. /\ DOMAIN entries' = DOMAIN entries \cup {Len(entries) + 1}
        /\ Len(entries) + 1 \notin DOMAIN entries
        /\ entries'[Len(entries) + 1] = new
        /\ \A i \in DOMAIN entries : entries'[i] = entries[i]
    BY <2>1 DEF TypeOK
  <2>4. \A d \in Busy : /\ calls[d].todo \subseteq DOMAIN entries
                       /\ Current(d) \in calls[d].todo
    BY HandlerTyped DEF SharedInv, Shared, Busy, Current
  <2>5. \A d \in Busy : Current(d)' = Current(d)
    BY <2>1 DEF Current
  <2> QED
    BY <2>1, <2>2, <2>3, <2>4, <2>5 DEF SharedInv, Shared
<1>2. CASE Clear
  BY <1>2 DEF Clear, SharedInv, Shared, Busy, Current
<1>3. CASE Tick
  BY <1>3 DEF Tick, SharedInv, Shared, Busy, Current
<1>4. ASSUME NEW c \in Calls, DispatchStart(c)
      PROVE  SharedInv'
  <2>1. [calls[c] EXCEPT !.known = Len(entries)] \in CallStates(Len(entries))
    <3>1. Len(entries) \in 0..Len(entries) /\ calls[c] \in CallStates(Len(entries))
      BY DEF TypeOK
    <3> QED
      BY <3>1 DEF CallStates
  <2>2. Busy \ {c} = Busy
    BY <1>4 DEF DispatchStart, Busy
  <2> QED
    BY <1>4, <2>1, <2>2, TakeShared DEF DispatchStart, SharedInv, TypeOK
<1>5. ASSUME NEW c \in Calls, HandlerReturns(c)
      PROVE  SharedInv'
  BY <1>5, ReturnShared
<1>6. ASSUME NEW c \in Calls, HandlerThrows(c)
      PROVE  SharedInv'
  <2> DEFINE e == Min(calls[c].todo)
  <2>1. c \in Busy /\ e \in calls[c].todo /\ e \in DOMAIN entries /\ entries \in Seq(Entries)
        /\ entries' = [entries EXCEPT ![e].status = "dead"]
        /\ calls \in [Calls -> CallStates(Len(entries))]
    BY <1>6, HandlerTyped DEF HandlerThrows, Busy, TypeOK, SharedInv, Shared
  <2>2. /\ Busy' = Busy /\ calls'[c].pc = "threw"
        /\ \A d \in Calls : calls'[d].todo = calls[d].todo
        /\ \A d \in Calls \ {c} : calls'[d] = calls[d]
    BY <1>6, <2>1 DEF HandlerThrows, Busy, CallStates
  <2>3. \A d \in Busy : d \in Calls /\ Current(d)' = Current(d) /\ Current(d) \in calls[d].todo
                       /\ calls[d].todo \subseteq DOMAIN entries
    BY <2>2, HandlerTyped DEF Current, Busy, SharedInv, Shared
  <2>4. Current(c) = e
    BY DEF Current
  <2> HIDE DEF e
  <2>5. /\ DOMAIN entries' = DOMAIN entries
        /\ entries'[e].status = "dead" /\ entries'[e].handled = entries[e].handled
        /\ \A i \in DOMAIN entries : i # e => entries'[i] = entries[i]
    BY <2>1, StatusTyped, "dead" \in {"completed", "dead"}
  <2>6. \A d \in Busy \ {c} : e \notin calls[d].todo
    BY <2>1 DEF SharedInv, Shared
  <2>7. ASSUME NEW d \in Busy
        PROVE  /\ calls'[d].todo # {}
               /\ entries'[Current(d)'].handled = 1
               /\ entries'[Current(d)'].status = IF calls'[d].pc = "threw" THEN "dead" ELSE "in_flight"
               /\ \A i \in calls'[d].todo \ {Current(d)'} :
                    entries'[i].status = "in_flight" /\ entries'[i].handled = 0
    <3>1. CASE d = c
      <4>1. \A i \in calls[c].todo \ {e} : entries'[i] = entries[i]
        BY <2>3, <2>5, <3>1
      <4> QED
        BY <2>1, <2>2, <2>3, <2>4, <2>5, <3>1, <4>1 DEF SharedInv, Shared
    <3>2. CASE d # c
      <4>1. \A i \in calls[d].todo : entries'[i] = entries[i]
        BY <2>3, <2>5, <2>6, <3>2
      <4> QED
        BY <2>2, <2>3, <3>2, <4>1 DEF SharedInv, Shared
    <3> QED
      BY <3>1, <3>2
  <2>8. \A d, f \in Busy : d # f => calls'[d].todo \cap calls'[f].todo = {}
    BY <2>2, <2>3 DEF SharedInv, Shared
  <2>9. ASSUME NEW i \in DOMAIN entries'
        PROVE  /\ entries'[i].status \in {"ready", "scheduled"} => entries'[i].handled = 0
               /\ entries'[i].status \in {"completed", "dead"} => entries'[i].handled <= 1
               /\ entries'[i].status = "in_flight" => \E d \in Busy : i \in calls'[d].todo
    <3>1. CASE i = e
      <4>1. entries[e].handled = 1
        BY <2>1, <2>4 DEF SharedInv, Shared
      <4> QED
        BY <2>5, <3>1, <4>1
    <3>2. CASE i # e
      BY <2>2, <2>3, <2>5, <3>2 DEF SharedInv, Shared
    <3> QED
      BY <3>1, <3>2
  <2> QED
    BY <2>2, <2>7, <2>8, <2>9 DEF SharedInv, Shared
<1>7. CASE UNCHANGED vars
  BY <1>7 DEF vars, SharedInv, Shared, Busy, Current
<1> QED
  BY <1>1, <1>2, <1>3, <1>4, <1>5, <1>6, <1>7 DEF Next

-----------------------------------------------------------------------------
(* What holds in every state. *)

\* The two invariants support each other: a handler that runs has an entry.
LEMMA SharedCorrect ==
  Spec => [](TypeOK /\ SharedInv)
<1>1. Init => TypeOK /\ SharedInv
  <2>1. ASSUME Init
        PROVE  TypeOK
    <3>1. 0 \in 0..MaxTime /\ 0 \in 0..0 /\ Len(<<>>) = 0 /\ 0 <= MaxEntries
      BY BoundsAssumption
    <3>2. entries \in Seq(Entries) /\ Len(entries) = 0
      BY <2>1 DEF Init
    <3>3. calls \in [Calls -> CallStates(0)]
      BY <2>1, <3>1 DEF Init, CallStates
    <3> QED
      BY <2>1, <3>1, <3>2, <3>3 DEF Init, TypeOK
  <2>2. ASSUME Init
        PROVE  SharedInv
    <3>1. Busy = {} /\ DOMAIN entries = {}
      BY <2>2 DEF Init, Busy
    <3> QED
      BY <3>1 DEF SharedInv, Shared
  <2> QED
    BY <2>1, <2>2
<1>2. TypeOK /\ SharedInv /\ [Next]_vars => TypeOK' /\ SharedInv'
  <2>1. SharedInv => \A c \in Calls : calls[c].pc = "handling" => calls[c].todo # {}
    BY DEF SharedInv, Shared, Busy
  <2> QED
    BY <2>1, TypeStep, SharedStep
<1> QED
  BY <1>1, <1>2, PTL DEF Spec

\* The buffer, the options and the locals of every call have the types stated.
THEOREM TypeCorrect == Spec => []TypeOK
BY SharedCorrect, PTL

\* Whatever overlaps, a handler is called at most once with an entry.
THEOREM EntriesAreHandledOnce == Spec => []HandledOnce
<1>1. TypeOK /\ SharedInv => HandledOnce
  <2> SUFFICES ASSUME TypeOK, SharedInv, NEW e \in DOMAIN entries
               PROVE  entries[e].handled <= 1
    BY DEF HandledOnce
  <2>1. entries[e].status \in {"ready", "scheduled", "in_flight", "completed", "dead"}
    <3>1. entries[e] \in Entries
      BY DEF TypeOK
    <3> QED
      BY <3>1 DEF Entries
  <2>2. CASE entries[e].status = "in_flight"
    <3>1. PICK c \in Busy : e \in calls[c].todo
      BY <2>2 DEF SharedInv, Shared
    <3>2. CASE e = Current(c)
      BY <3>1, <3>2 DEF SharedInv, Shared
    <3>3. CASE e # Current(c)
      BY <3>1, <3>3 DEF SharedInv, Shared
    <3> QED
      BY <3>2, <3>3
  <2> QED
    BY <2>1, <2>2 DEF SharedInv, Shared
<1> QED
  BY <1>1, SharedCorrect, PTL

\* An entry that is in_flight is held by exactly one call.
THEOREM InFlightIsOwned == Spec => []InFlightOwned
<1>1. TypeOK /\ SharedInv => InFlightOwned
  <2> SUFFICES ASSUME TypeOK, SharedInv, NEW e \in DOMAIN entries,
                      entries[e].status = "in_flight"
               PROVE  Cardinality({c \in Calls : /\ calls[c].pc \in {"handling", "threw"}
                                                 /\ e \in calls[c].todo}) = 1
    BY DEF InFlightOwned
  <2>1. PICK d \in Busy : e \in calls[d].todo
    BY DEF SharedInv, Shared
  <2>2. {c \in Calls : calls[c].pc \in {"handling", "threw"} /\ e \in calls[c].todo} = {d}
    BY <2>1 DEF SharedInv, Shared, Busy
  <2> QED
    BY <2>2, FS_Singleton
<1> QED
  BY <1>1, SharedCorrect, PTL

-----------------------------------------------------------------------------
(* What a call counts, and which entries it takes. *)

\* A call that holds nothing and has counted what it completed takes a snapshot.
\* What is completed stays so.
LEMMA TakeCounted ==
  ASSUME TypeOK, NEW c \in Calls, NEW es \in Seq(Entries), Len(es) = Len(entries),
         NEW call \in CallStates(Len(entries)), call.total = Cardinality(call.by),
         TakeSnapshot(c, es, call)
  PROVE  /\ calls' = [calls EXCEPT ![c] = calls'[c]] /\ Counted(calls'[c])
         /\ calls'[c].pc \in {"handling", "returned"}
         /\ calls'[c].by = call.by /\ calls'[c].known = call.known
         /\ calls'[c].todo \subseteq call.todo \cup DOMAIN es
         /\ \A e \in DOMAIN es : es[e].status = "completed" => entries'[e].status = "completed"
<1> DEFINE S      == Runnable(opts[c], es)
           marked == Marked(es, S)
<1>1. /\ S \subseteq DOMAIN es
      /\ \A e \in S : es[e].status \in {"ready", "scheduled"}
      /\ S # {} => Min(S) \in S
  BY RunnableTyped DEF TypeOK
<1>2. CASE S = {}
  <2>1. entries' = es /\ calls' = [calls EXCEPT ![c] = [call EXCEPT !.pc = "returned"]]
    BY <1>2 DEF TakeSnapshot
  <2> QED
    BY <2>1 DEF TypeOK, CallStates, Counted
<1>3. CASE S # {}
  <2>1. /\ calls' = [calls EXCEPT ![c] = calls'[c]]
        /\ calls'[c].pc = "handling" /\ calls'[c].todo = S /\ calls'[c].taken = Cardinality(S)
        /\ calls'[c].by = call.by /\ calls'[c].known = call.known /\ calls'[c].total = call.total
    <3> DEFINE card == Cardinality(S)
    <3>1. calls' = [calls EXCEPT ![c] = [call EXCEPT !.pc = "handling", !.todo = S,
                                                      !.taken = card]]
      BY <1>3 DEF TakeSnapshot
    <3> HIDE DEF S, card
    <3>2. /\ calls' = [calls EXCEPT ![c] = calls'[c]]
          /\ calls'[c].pc = "handling" /\ calls'[c].todo = S /\ calls'[c].taken = card
          /\ calls'[c].by = call.by /\ calls'[c].known = call.known
          /\ calls'[c].total = call.total
      BY <3>1 DEF TypeOK, CallStates
    <3> QED
      BY <3>2 DEF card
  <2>2. Counted(calls'[c])
    BY <2>1 DEF Counted
  <2>3. /\ marked \in Seq(Entries) /\ Len(marked) = Len(es)
        /\ \A e \in DOMAIN es : es[e].status = "completed" => marked[e] = es[e]
    BY <1>1, MarkedTyped
  <2>4. entries' = HandlerCalled(marked, Min(S)) /\ Min(S) \in DOMAIN marked
    BY <1>1, <1>3, <2>3 DEF TakeSnapshot
  <2> HIDE DEF marked
  <2>5. \A e \in DOMAIN marked : entries'[e].status = marked[e].status
    <3> DEFINE first == Min(S)
    <3>1. first \in DOMAIN marked /\ entries' = HandlerCalled(marked, first)
      BY <2>4
    <3> HIDE DEF first
    <3> QED
      BY <2>3, <3>1, CalledTyped
  <2> QED
    BY <1>1, <2>1, <2>2, <2>3, <2>5
<1> QED
  BY <1>2, <1>3

LEMMA EndTurnCounted ==
  ASSUME TypeOK, NEW c \in Calls, NEW es \in Seq(Entries), Len(es) = Len(entries),
         NEW call \in CallStates(Len(entries)), call.total = Cardinality(call.by),
         EndTurn(c, es, call)
  PROVE  /\ calls' = [calls EXCEPT ![c] = calls'[c]] /\ Counted(calls'[c])
         /\ calls'[c].pc # "idle"
         /\ calls'[c].by = call.by /\ calls'[c].known = call.known
         /\ calls'[c].todo \subseteq call.todo \cup DOMAIN es
         /\ ~opts[c].recursive => calls'[c].todo = call.todo
         /\ \A e \in DOMAIN es : es[e].status = "completed" => entries'[e].status = "completed"
<1> DEFINE turns == call.turns + 1
           next  == [call EXCEPT !.turns = turns]
<1>1. /\ next \in CallStates(Len(entries)) /\ next.total = Cardinality(next.by)
      /\ next.by = call.by /\ next.known = call.known /\ next.todo = call.todo
  <2>1. turns \in Nat
    BY DEF CallStates
  <2> HIDE DEF turns
  <2> QED
    BY <2>1 DEF CallStates
<1>2. CASE opts[c].recursive /\ TakeSnapshot(c, es, next)
  <2> HIDE DEF next
  <2> QED
    BY <1>1, <1>2, TakeCounted
<1>3. CASE entries' = es /\ calls' = [calls EXCEPT ![c] = [call EXCEPT !.pc = "returned"]]
  BY <1>3 DEF TypeOK, CallStates, Counted
<1>4. CASE entries' = es /\ calls' = [calls EXCEPT ![c] =
                                        [call EXCEPT !.pc = "capped", !.turns = turns]]
  BY <1>4 DEF TypeOK, CallStates, Counted
<1> QED
  BY <1>2, <1>3, <1>4 DEF EndTurn

\* The first entry of a snapshot moves from what is left to what is completed.
LEMMA OneMoves ==
  ASSUME NEW T, NEW U, IsFiniteSet(T), IsFiniteSet(U), NEW e \in T, e \notin U
  PROVE  /\ Cardinality(U \cup {e}) = Cardinality(U) + 1
         /\ Cardinality(T \ {e}) = Cardinality(T) - 1
         /\ Cardinality(T) \in Nat /\ Cardinality(U) \in Nat
BY FS_AddElement, FS_RemoveElement, FS_CardinalityType

\* The end of a handler, for the call it belongs to.
LEMMA ReturnCounted ==
  ASSUME TypeOK, SharedInv, CountInv, NEW c \in Calls, HandlerReturns(c)
  PROVE  /\ calls' = [calls EXCEPT ![c] = calls'[c]] /\ Counted(calls'[c])
         /\ calls'[c].by = calls[c].by \cup {Min(calls[c].todo)}
         /\ calls'[c].pc # "idle" /\ calls'[c].known = calls[c].known
         /\ ~opts[c].recursive => calls'[c].todo \subseteq calls[c].todo
         /\ Min(calls[c].todo) \in calls[c].todo
         /\ entries'[Min(calls[c].todo)].status = "completed"
         /\ \A i \in DOMAIN entries : entries[i].status = "completed" =>
                                      entries'[i].status = "completed"
<1> DEFINE e    == Min(calls[c].todo)
           rest == calls[c].todo \ {e}
           by   == calls[c].by \cup {e}
           done == [entries EXCEPT ![e].status = "completed"]
           call == [calls[c] EXCEPT !.todo = rest, !.by = @ \cup {e}]
           last == [call EXCEPT !.total = AddedTotal(call)]
<1>1. /\ calls[c].pc = "handling" /\ calls[c].todo # {}
      /\ entries[e].status = "in_flight"
      /\ \/ /\ rest # {}
            /\ entries' = HandlerCalled(done, Min(rest))
            /\ calls' = [calls EXCEPT ![c] = call]
         \/ rest = {} /\ EndTurn(c, done, last)
  BY DEF HandlerReturns, Busy, SharedInv, Shared, Current
<1>2. /\ done \in Seq(Entries) /\ Len(done) = Len(entries)
      /\ call \in CallStates(Len(entries)) /\ last \in CallStates(Len(entries))
      /\ rest # {} => Min(rest) \in DOMAIN done
  BY <1>1, ReturnTyped
<1>3. /\ e \in calls[c].todo /\ e \in DOMAIN entries
      /\ DOMAIN done = DOMAIN entries /\ done[e].status = "completed"
      /\ \A i \in DOMAIN entries : entries[i].status = "completed" => done[i].status = "completed"
  <2>1. e \in calls[c].todo /\ e \in DOMAIN entries /\ entries \in Seq(Entries)
    BY <1>1, HandlerTyped DEF TypeOK
  <2> HIDE DEF e
  <2> QED
    BY <2>1, StatusTyped, "completed" \in {"completed", "dead"}
<1>4. /\ calls[c] \in CallStates(Len(entries)) /\ calls \in [Calls -> CallStates(Len(entries))]
      /\ call.pc = "handling" /\ call.by = by /\ call.todo = rest
      /\ call.total = calls[c].total /\ call.taken = calls[c].taken /\ call.known = calls[c].known
      /\ last.by = by /\ last.todo = rest /\ last.known = calls[c].known
      /\ last.total = calls[c].total + calls[c].taken
  <2>1. calls[c] \in CallStates(Len(entries)) /\ calls \in [Calls -> CallStates(Len(entries))]
    BY DEF TypeOK
  <2>2. /\ call.pc = calls[c].pc /\ call.by = by /\ call.todo = rest
        /\ call.total = calls[c].total /\ call.taken = calls[c].taken
        /\ call.known = calls[c].known
    BY <2>1 DEF CallStates
  <2>3. AddedTotal(call) = calls[c].total + calls[c].taken
    BY <2>2 DEF AddedTotal
  <2> HIDE DEF call, by, rest
  <2>4. /\ last.by = call.by /\ last.todo = call.todo /\ last.known = call.known
        /\ last.total = AddedTotal(call)
    BY <1>2 DEF CallStates
  <2> QED
    BY <1>1, <2>1, <2>2, <2>3, <2>4
<1>5. /\ Cardinality(by) + Cardinality(rest) = calls[c].total + calls[c].taken
      /\ Cardinality(by) \in Nat
  <2>1. IsFiniteSet(calls[c].todo) /\ IsFiniteSet(calls[c].by)
    <3>1. Len(entries) \in Int /\ 1 \in Int
      BY DEF TypeOK
    <3>2. IsFiniteSet(1..Len(entries))
      BY <3>1, FS_Interval
    <3>3. calls[c].todo \subseteq 1..Len(entries) /\ calls[c].by \subseteq 1..Len(entries)
      BY <1>4 DEF CallStates
    <3> QED
      BY <3>2, <3>3, FS_Subset
  <2>2. e \notin calls[c].by
    BY <1>1 DEF CountInv
  <2>3. /\ Cardinality(calls[c].by) + Cardinality(calls[c].todo) = calls[c].total + calls[c].taken
    BY <1>1 DEF CountInv, Counted
  <2>4. calls[c].total \in Nat /\ calls[c].taken \in Nat
    BY <1>4 DEF CallStates
  <2> HIDE DEF e
  <2>5. /\ Cardinality(by) = Cardinality(calls[c].by) + 1
        /\ Cardinality(rest) = Cardinality(calls[c].todo) - 1
        /\ Cardinality(calls[c].by) \in Nat /\ Cardinality(calls[c].todo) \in Nat
    BY <1>3, <2>1, <2>2, OneMoves
  <2> QED
    BY <2>3, <2>4, <2>5
<1> HIDE DEF e, rest, by, done, call, last
<1>6. CASE rest # {}
  <2> DEFINE next == Min(rest)
  <2>1. calls' = [calls EXCEPT ![c] = call] /\ entries' = HandlerCalled(done, next)
        /\ next \in DOMAIN done
    BY <1>1, <1>2, <1>6
  <2> HIDE DEF next
  <2>2. \A i \in DOMAIN done : entries'[i].status = done[i].status
    BY <1>2, <2>1, CalledTyped
  <2>3. calls'[c] = call /\ Counted(call)
    BY <1>4, <1>5, <2>1 DEF Counted
  <2> QED
    BY <1>3, <1>4, <2>1, <2>2, <2>3 DEF e, rest, by
<1>7. CASE rest = {}
  <2>1. last.total = Cardinality(last.by)
    <3>1. Cardinality(rest) = 0
      BY <1>7, FS_EmptySet
    <3> QED
      BY <1>4, <1>5, <3>1
  <2>2. EndTurn(c, done, last)
    BY <1>1, <1>7
  <2>3. /\ calls' = [calls EXCEPT ![c] = calls'[c]] /\ Counted(calls'[c])
        /\ calls'[c].pc # "idle"
        /\ calls'[c].by = last.by /\ calls'[c].known = last.known
        /\ ~opts[c].recursive => calls'[c].todo = last.todo
        /\ \A i \in DOMAIN done : done[i].status = "completed" => entries'[i].status = "completed"
    BY <1>2, <2>1, <2>2, EndTurnCounted
  <2> QED
    BY <1>3, <1>4, <2>3 DEF e, rest, by
<1> QED
  BY <1>6, <1>7

LEMMA CountStep ==
  ASSUME TypeOK, SharedInv, CountInv, SnapshotOnly, [Next]_vars
  PROVE  CountInv' /\ SnapshotOnly'
<1>0. /\ calls \in [Calls -> CallStates(Len(entries))] /\ DOMAIN entries = 1..Len(entries)
      /\ \A c \in Calls : calls[c].by \subseteq DOMAIN entries
  BY DEF TypeOK, CallStates
<1>1. ASSUME NEW k \in Kinds, NEW t \in now..MaxTime, Enqueue(k, t)
      PROVE  CountInv' /\ SnapshotOnly'
  <2>1. \A i \in DOMAIN entries : entries'[i] = entries[i]
    BY <1>1 DEF Enqueue, TypeOK
  <2>2. calls' = calls /\ opts' = opts
    BY <1>1 DEF Enqueue
  <2> QED
    BY <1>0, <2>1, <2>2 DEF CountInv, SnapshotOnly
<1>2. CASE Clear
  BY <1>2 DEF Clear, CountInv, SnapshotOnly
<1>3. CASE Tick
  BY <1>3 DEF Tick, CountInv, SnapshotOnly
<1>4. ASSUME NEW c \in Calls, DispatchStart(c)
      PROVE  CountInv' /\ SnapshotOnly'
  <2> DEFINE call == [calls[c] EXCEPT !.known = Len(entries)]
  <2>1. /\ call \in CallStates(Len(entries)) /\ call.known = Len(entries)
        /\ call.by = {} /\ call.todo = {} /\ call.total = 0
    <3>1. Len(entries) \in 0..Len(entries) /\ calls[c] \in CallStates(Len(entries))
      BY DEF TypeOK
    <3>2. calls[c].by = {} /\ calls[c].todo = {} /\ calls[c].total = 0
      BY <1>4 DEF DispatchStart, CountInv, Counted
    <3> QED
      BY <3>1, <3>2 DEF CallStates
  <2>2. call.total = Cardinality(call.by)
    BY <2>1, FS_EmptySet
  <2>3. TakeSnapshot(c, entries, call) /\ opts' = opts /\ entries \in Seq(Entries)
    BY <1>4 DEF DispatchStart, TypeOK
  <2> HIDE DEF call
  <2>4. /\ calls' = [calls EXCEPT ![c] = calls'[c]] /\ Counted(calls'[c])
        /\ calls'[c].by = {} /\ calls'[c].known = Len(entries)
        /\ calls'[c].todo \subseteq DOMAIN entries
        /\ \A e \in DOMAIN entries : entries[e].status = "completed" =>
                                     entries'[e].status = "completed"
    BY <2>1, <2>2, <2>3, TakeCounted
  <2> QED
    BY <1>0, <2>3, <2>4 DEF CountInv, SnapshotOnly
<1>5. ASSUME NEW c \in Calls, HandlerReturns(c)
      PROVE  CountInv' /\ SnapshotOnly'
  <2> DEFINE e == Min(calls[c].todo)
  <2>1. /\ calls' = [calls EXCEPT ![c] = calls'[c]] /\ Counted(calls'[c])
        /\ calls'[c].by = calls[c].by \cup {e} /\ calls'[c].known = calls[c].known
        /\ ~opts[c].recursive => calls'[c].todo \subseteq calls[c].todo
        /\ e \in calls[c].todo /\ entries'[e].status = "completed"
        /\ \A i \in DOMAIN entries : entries[i].status = "completed" =>
                                     entries'[i].status = "completed"
    BY <1>5, ReturnCounted
  <2>2. opts' = opts
    BY <1>5 DEF HandlerReturns
  <2> HIDE DEF e
  <2> QED
    BY <1>0, <2>1, <2>2 DEF CountInv, SnapshotOnly
<1>6. ASSUME NEW c \in Calls, HandlerThrows(c)
      PROVE  CountInv' /\ SnapshotOnly'
  <2> DEFINE e == Min(calls[c].todo)
  <2>1. /\ e \in DOMAIN entries /\ entries \in Seq(Entries)
        /\ entries[e].status = "in_flight"
        /\ entries' = [entries EXCEPT ![e].status = "dead"]
    BY <1>6, HandlerTyped DEF HandlerThrows, TypeOK, SharedInv, Shared, Busy, Current
  <2> HIDE DEF e
  <2>2. \A i \in DOMAIN entries : entries[i].status = "completed" =>
                                 entries'[i].status = "completed"
    BY <2>1, StatusTyped, "dead" \in {"completed", "dead"}
  <2>3. /\ opts' = opts
        /\ calls' = [calls EXCEPT ![c].pc = "threw"]
    BY <1>6 DEF HandlerThrows
  <2>4. \A d \in Calls : /\ calls'[d].by = calls[d].by /\ calls'[d].todo = calls[d].todo
                        /\ calls'[d].known = calls[d].known
    BY <1>0, <2>3 DEF CallStates
  <2>5. \A d \in Calls : Counted(calls'[d])
    BY <1>0, <2>3 DEF CountInv, Counted, CallStates
  <2> QED
    BY <1>0, <2>2, <2>3, <2>4, <2>5 DEF CountInv, SnapshotOnly
<1>7. CASE UNCHANGED vars
  BY <1>7 DEF vars, CountInv, SnapshotOnly
<1> QED
  BY <1>1, <1>2, <1>3, <1>4, <1>5, <1>6, <1>7 DEF Next

LEMMA CountCorrect ==
  Spec => [](CountInv /\ SnapshotOnly)
<1>1. Init => CountInv /\ SnapshotOnly
  <2> SUFFICES ASSUME Init
               PROVE  CountInv /\ SnapshotOnly
    OBVIOUS
  <2>1. \A c \in Calls : /\ calls[c].pc = "idle" /\ calls[c].by = {} /\ calls[c].todo = {}
                        /\ calls[c].total = 0
    BY DEF Init
  <2> QED
    BY <2>1 DEF CountInv, Counted, SnapshotOnly
<1>2. TypeOK /\ SharedInv /\ CountInv /\ SnapshotOnly /\ [Next]_vars => CountInv' /\ SnapshotOnly'
  BY CountStep
<1> QED
  BY <1>1, <1>2, SharedCorrect, PTL DEF Spec

\* A call returns the number of entries it completed, over all its turns.
THEOREM CallsCountWhatTheyHandled == Spec => []CountsHandled
<1>1. CountInv => CountsHandled
  BY DEF CountInv, Counted, CountsHandled
<1> QED
  BY <1>1, CountCorrect, PTL

\* Without the recursive option a call leaves alone what came after it began.
THEOREM SnapshotsAreFixed == Spec => []SnapshotOnly
BY CountCorrect, PTL

\* A recursive call returns only when an empty snapshot told it to.
THEOREM RecursiveCallsDrain == Spec => RecursiveDrains
<1>1. ASSUME TypeOK, SharedInv, [Next]_vars, NEW c \in Calls, opts[c].recursive,
             calls[c].pc # "returned", calls'[c].pc = "returned"
      PROVE  Runnable(opts[c], entries') = {}
  <2>0. calls \in [Calls -> CallStates(Len(entries))]
    BY <1>1 DEF TypeOK
  <2>1. ASSUME NEW es, NEW call \in CallStates(Len(entries)), TakeSnapshot(c, es, call)
        PROVE  Runnable(opts[c], entries') = {}
    <3>1. CASE Runnable(opts[c], es) = {}
      BY <2>1, <3>1 DEF TakeSnapshot
    <3>2. CASE Runnable(opts[c], es) # {}
      <4>1. calls'[c].pc = "handling"
        BY <2>0, <2>1, <3>2 DEF TakeSnapshot, CallStates
      <4> QED
        BY <1>1, <4>1
    <3> QED
      BY <3>1, <3>2
  <2>2. ASSUME NEW es, NEW call \in CallStates(Len(entries)), EndTurn(c, es, call)
        PROVE  Runnable(opts[c], entries') = {}
    <3> DEFINE turns == call.turns + 1
               next  == [call EXCEPT !.turns = turns]
    <3>1. CASE calls' = [calls EXCEPT ![c] = [call EXCEPT !.pc = "capped", !.turns = turns]]
      BY <1>1, <2>0, <3>1 DEF CallStates
    <3>2. CASE TakeSnapshot(c, es, next)
      <4>1. turns \in Nat
        BY <2>2 DEF CallStates
      <4> HIDE DEF turns
      <4>2. next \in CallStates(Len(entries))
        BY <4>1 DEF CallStates
      <4> HIDE DEF next
      <4> QED
        BY <2>1, <3>2, <4>2
    <3> QED
      BY <1>1, <2>2, <3>1, <3>2 DEF EndTurn
  <2>3. ASSUME NEW d \in Calls, DispatchStart(d) \/ HandlerReturns(d) \/ HandlerThrows(d)
        PROVE  d = c
    BY <1>1, <2>0, <2>3
       DEF DispatchStart, HandlerReturns, HandlerThrows, TakeSnapshot, EndTurn
  <2>4. CASE DispatchStart(c)
    <3>1. [calls[c] EXCEPT !.known = Len(entries)] \in CallStates(Len(entries))
      <4>1. Len(entries) \in 0..Len(entries)
        BY <1>1 DEF TypeOK
      <4> QED
        BY <2>0, <4>1 DEF CallStates
    <3> QED
      BY <2>1, <2>4, <3>1 DEF DispatchStart
  <2>5. CASE HandlerReturns(c) /\ calls[c].todo # {}
    <3> DEFINE e    == Min(calls[c].todo)
               rest == calls[c].todo \ {e}
               done == [entries EXCEPT ![e].status = "completed"]
               call == [calls[c] EXCEPT !.todo = rest, !.by = @ \cup {e}]
               last == [call EXCEPT !.total = AddedTotal(call)]
    <3>1. last \in CallStates(Len(entries)) /\ call.pc = "handling"
      BY <1>1, <2>0, <2>5, ReturnTyped DEF HandlerReturns, CallStates
    <3>2. calls' = [calls EXCEPT ![c] = call] \/ EndTurn(c, done, last)
      BY <2>5 DEF HandlerReturns
    <3> HIDE DEF call, last, done, rest
    <3>3. EndTurn(c, done, last)
      BY <1>1, <2>0, <3>1, <3>2
    <3> QED
      BY <2>2, <3>1, <3>3
  <2>6. CASE HandlerThrows(c)
    BY <1>1, <2>0, <2>6 DEF HandlerThrows, CallStates
  <2>7. HandlerReturns(c) => calls[c].todo # {}
    BY <1>1 DEF HandlerReturns, SharedInv, Shared, Busy
  <2> QED
    BY <1>1, <2>3, <2>4, <2>5, <2>6, <2>7 DEF Next, Enqueue, Clear, Tick, vars
<1>2. TypeOK /\ SharedInv /\ [Next]_vars =>
        [\A c \in Calls :
           (opts[c].recursive /\ calls[c].pc # "returned" /\ calls'[c].pc = "returned")
             => Runnable(opts[c], entries') = {}]_vars
  BY <1>1
<1> QED
  BY <1>2, SharedCorrect, PTL DEF Spec, RecursiveDrains

=============================================================================
