-------------------------- MODULE AuditFeedProofs --------------------------
(***************************************************************************)
(* Theorems about AuditFeed, for every set of events and of instants, any  *)
(* size of page and any number of times a job is handed out again.         *)
(***************************************************************************)
EXTENDS AuditFeed, OrderLemmas

-----------------------------------------------------------------------------
(* Instants *)

\* A payload that validates has a form and an instant.
LEMMA ValidPayload ==
  ASSUME NEW p \in Payloads, validate(p)
  PROVE  p.form \in {"iso", "seconds", "millis"} /\ p.at \in Nat
<1>1. p \notin {[form |-> "incomplete"]}
  BY DEF validate
<1>2. p \in [form : {"iso", "seconds", "millis"}, at : Instants]
  BY <1>1 DEF Payloads
<1>3. p.form \in {"iso", "seconds", "millis"} /\ p.at \in Instants
  BY <1>2
<1> QED
  BY <1>3, AuditAssumption

\* A fraction of a second is never at the instant zero.
LEMMA ShortIsLate == ASSUME NEW t \in Short PROVE t \in Nat \ {0}
<1>1. t \in Nat /\ t % Scale # 0 /\ Scale \in Nat \ {0}
  BY AuditAssumption
<1>2. 0 % Scale = 0
  BY <1>1
<1> QED
  BY <1>1, <1>2

\* An instant is a number of milliseconds, in whatever form it is written.
LEMMA ParsedTyped ==
  ASSUME NEW p \in Payloads, validate(p)
  PROVE  parseTime(p) \in Nat
<1>1. p.at \in Nat /\ Scale \in Nat \ {0} /\ Threshold \in Nat
  BY AuditAssumption, ValidPayload
<1>2. Thousandths(p) \in Nat
  <2>1. p.at * Scale \in Nat
    BY <1>1
  <2> QED
    BY <1>1, <2>1 DEF Thousandths
<1>3. Thousandths(p) \div Scale \in Nat
  BY <1>1, <1>2
<1>4. Thousandths(p) - (IF p.form = "seconds" /\ p.at \in Short THEN 1 ELSE 0) \in Nat
  <2>1. CASE p.form = "seconds" /\ p.at \in Short
    BY <1>1, <2>1, ShortIsLate DEF Thousandths
  <2>2. CASE ~(p.form = "seconds" /\ p.at \in Short)
    BY <1>2, <2>2
  <2> QED
    BY <2>1, <2>2
<1>5. CASE p.form = "iso"
  BY <1>1, <1>5 DEF parseTime
<1>6. CASE p.form # "iso" /\ Thousandths(p) < Threshold * Scale
  BY <1>4, <1>6 DEF parseTime
<1>7. CASE p.form # "iso" /\ ~(Thousandths(p) < Threshold * Scale)
  BY <1>3, <1>7 DEF parseTime
<1> QED
  BY <1>5, <1>6, <1>7

\* parseTime returns the instant written, for texts and for the numbers that
\* tell seconds from milliseconds; a fraction of a second may lose one.
LEMMA ParsedAsWritten ==
  ASSUME NEW p \in Payloads, validate(p), p.form = "iso" \/ Telling(p)
  PROVE  /\ parseTime(p) \in {p.at, p.at - 1}
         /\ p.form # "seconds" \/ p.at % Scale = 0 => parseTime(p) = p.at
<1>1. /\ p.at \in Nat /\ p.form \in {"iso", "seconds", "millis"}
      /\ Scale \in Nat \ {0} /\ Threshold \in Nat
  BY AuditAssumption, ValidPayload
<1>2. CASE p.form = "iso"
  BY <1>2 DEF parseTime
<1>3. CASE p.form = "millis"
  <2>1. p.at >= Threshold /\ Thousandths(p) = p.at * Scale
    BY <1>3 DEF Telling, Thousandths
  <2>2. ~(p.at * Scale < Threshold * Scale)
    BY <1>1, <2>1
  <2>3. (p.at * Scale) \div Scale = p.at
    BY <1>1
  <2>4. parseTime(p) = p.at
    BY <1>3, <2>1, <2>2, <2>3 DEF parseTime
  <2> QED
    BY <2>4
<1>4. CASE p.form = "seconds"
  <2>1. p.at < Threshold * Scale /\ Thousandths(p) = p.at
    BY <1>4 DEF Telling, Thousandths
  <2>2. parseTime(p) = p.at - (IF p.at \in Short THEN 1 ELSE 0)
    BY <1>4, <2>1 DEF parseTime
  <2>3. p.at \in Short => p.at % Scale # 0
    BY AuditAssumption
  <2> QED
    BY <1>1, <1>4, <2>2, <2>3
<1> QED
  BY <1>1, <1>2, <1>3, <1>4

-----------------------------------------------------------------------------
(* Types *)

\* The rows are kept, and a new one is added at their end.
LEMMA RowAdded ==
  ASSUME Types, NEW row \in [job : Jobs, at : Nat], events' = Append(events, row)
  PROVE  /\ events' \in Seq([job : Jobs, at : Nat])
         /\ DOMAIN events' = DOMAIN events \cup {Len(events) + 1}
         /\ Len(events) + 1 \notin DOMAIN events
         /\ events'[Len(events) + 1] = row
         /\ \A id \in DOMAIN events : events'[id] = events[id]
<1>1. /\ events \in Seq([job : Jobs, at : Nat])
      /\ Len(events) \in Nat /\ DOMAIN events = 1..Len(events)
  BY DEF Types
<1>2. /\ events' \in Seq([job : Jobs, at : Nat])
      /\ DOMAIN events' = 1..Len(events) + 1
      /\ events'[Len(events) + 1] = row
      /\ \A id \in 1..Len(events) : events'[id] = events[id]
  BY <1>1, AppendProperties
<1> QED
  BY <1>1, <1>2

\* The row a job is saved as.
LEMMA RowTyped ==
  ASSUME Types, NEW j \in Jobs, validate(payload[j])
  PROVE  [job |-> j, at |-> parseTime(payload[j])] \in [job : Jobs, at : Nat]
<1>1. payload[j] \in Payloads
  BY DEF Types
<1> QED
  BY <1>1, ParsedTyped

\* Types is an invariant.
LEMMA TypesInit == Init => Types
BY AuditAssumption DEF Init, Types

\* One step preserves Types.
LEMMA TypesStep == Types /\ [Next]_vars => Types'
<1> SUFFICES ASSUME Types, [Next]_vars
             PROVE  Types'
  OBVIOUS
<1>1. ASSUME NEW j \in Jobs, Save(j)
      PROVE  Types'
  <2>1. events' \in Seq([job : Jobs, at : Nat])
    BY <1>1, RowTyped, RowAdded DEF Save
  <2> QED
    BY <1>1, <2>1 DEF Save, Types
<1>2. ASSUME NEW j \in Jobs, Refuse(j) \/ Ack(j) \/ Requeue(j)
      PROVE  Types'
  BY <1>2 DEF Refuse, Ack, Requeue, Types
<1>3. CASE OpenFeed \/ TurnPage \/ UNCHANGED vars
  BY <1>3 DEF OpenFeed, TurnPage, vars, Types
<1> QED
  BY <1>1, <1>2, <1>3 DEF Next

-----------------------------------------------------------------------------
(* What is stored *)

\* One step preserves StoredInv.
LEMMA StoredStep == Types /\ StoredInv /\ [Next]_vars => StoredInv'
<1> SUFFICES ASSUME Types, StoredInv, [Next]_vars, NEW j \in Jobs
             PROVE  /\ Cardinality(Stored(j))' + (IF job'[j] = "queued" THEN 1 ELSE 0) <= 1 + faults'
                    /\ job'[j] \in {"saved", "acked"} => Stored(j)' # {} /\ validate(payload'[j])
                    /\ ~validate(payload'[j]) => Stored(j)' = {}
                    /\ \A id \in Stored(j)' : events'[id].at = parseTime(payload'[j])
  BY DEF StoredInv
<1> DEFINE n == Cardinality(Stored(j))
<1>0. /\ n + (IF job[j] = "queued" THEN 1 ELSE 0) <= 1 + faults
      /\ job[j] \in {"saved", "acked"} => Stored(j) # {} /\ validate(payload[j])
      /\ ~validate(payload[j]) => Stored(j) = {}
      /\ \A id \in Stored(j) : events[id].at = parseTime(payload[j])
  BY DEF StoredInv
<1>1. IsFiniteSet(Stored(j)) /\ n \in Nat /\ Stored(j) \subseteq DOMAIN events
  <2>1. PICK k \in Nat : DOMAIN events = 1..k
    BY DEF Types
  <2>2. IsFiniteSet(1..k)
    BY FS_Interval
  <2>3. Stored(j) \subseteq DOMAIN events
    BY DEF Stored
  <2> QED
    BY <2>1, <2>2, <2>3, FS_Subset, FS_CardinalityType
<1>2. faults \in Nat /\ job \in [Jobs -> {"queued", "saved", "acked", "dead"}]
  BY DEF Types
<1> HIDE DEF n
\* Steps that store nothing.
<1>3. ASSUME events' = events, payload' = payload
      PROVE  Stored(j)' = Stored(j)
  BY <1>3 DEF Stored
<1>4. ASSUME NEW i \in Jobs, Save(i)
      PROVE  /\ Cardinality(Stored(j))' + (IF job'[j] = "queued" THEN 1 ELSE 0) <= 1 + faults'
             /\ job'[j] \in {"saved", "acked"} => Stored(j)' # {} /\ validate(payload'[j])
             /\ ~validate(payload'[j]) => Stored(j)' = {}
             /\ \A id \in Stored(j)' : events'[id].at = parseTime(payload'[j])
  <2> DEFINE row == [job |-> i, at |-> parseTime(payload[i])]
             new == Len(events) + 1
  <2>1. /\ job[i] = "queued" /\ validate(payload[i]) /\ job' = [job EXCEPT ![i] = "saved"]
        /\ payload' = payload /\ faults' = faults
        /\ row \in [job : Jobs, at : Nat] /\ events' = Append(events, row)
    BY <1>4, RowTyped DEF Save
  <2> HIDE DEF row, new
  <2>2. /\ DOMAIN events' = DOMAIN events \cup {new} /\ new \notin DOMAIN events
        /\ events'[new] = row
        /\ \A id \in DOMAIN events : events'[id] = events[id]
    BY <2>1, RowAdded DEF new
  <2>3. row.job = i /\ row.at = parseTime(payload[i])
    BY DEF row
  <2>4. CASE i = j
    <3>1. Stored(j)' = Stored(j) \cup {new}
      BY <1>1, <2>2, <2>3, <2>4 DEF Stored
    <3>2. Cardinality(Stored(j) \cup {new}) = n + 1
      BY <1>1, <2>2, FS_AddElement DEF n
    <3>3. \A id \in Stored(j)' : events'[id].at = parseTime(payload'[j])
      BY <1>0, <1>1, <2>1, <2>2, <2>3, <2>4, <3>1
    <3>4. Cardinality(Stored(j))' = n + 1
      BY <3>1, <3>2
    <3>5. job'[j] = "saved"
      BY <1>2, <2>1, <2>4
    <3>6. n + 1 + 0 <= 1 + faults'
      BY <1>0, <1>1, <1>2, <2>1, <2>4
    <3>7. Cardinality(Stored(j))' + (IF job'[j] = "queued" THEN 1 ELSE 0) <= 1 + faults'
      BY <3>4, <3>5, <3>6
    <3>8. validate(payload'[j]) /\ Stored(j)' # {}
      BY <2>1, <2>4, <3>1
    <3> QED
      BY <3>3, <3>7, <3>8
  <2>5. CASE i # j
    <3>1. Stored(j)' = Stored(j)
      BY <2>2, <2>3, <2>5 DEF Stored
    <3>2. job'[j] = job[j]
      BY <1>2, <2>1, <2>5
    <3> QED
      BY <1>0, <1>1, <2>1, <2>2, <3>1, <3>2 DEF n
  <2> QED
    BY <2>4, <2>5
<1>5. ASSUME NEW i \in Jobs, Refuse(i) \/ Ack(i) \/ Requeue(i)
      PROVE  /\ Cardinality(Stored(j))' + (IF job'[j] = "queued" THEN 1 ELSE 0) <= 1 + faults'
             /\ job'[j] \in {"saved", "acked"} => Stored(j)' # {} /\ validate(payload'[j])
             /\ ~validate(payload'[j]) => Stored(j)' = {}
             /\ \A id \in Stored(j)' : events'[id].at = parseTime(payload'[j])
  <2>1. /\ events' = events /\ payload' = payload
        /\ \/ job[i] = "queued" /\ job' = [job EXCEPT ![i] = "dead"] /\ faults' = faults
           \/ job[i] = "saved" /\ job' = [job EXCEPT ![i] = "acked"] /\ faults' = faults
           \/ job[i] = "saved" /\ job' = [job EXCEPT ![i] = "queued"] /\ faults' = faults + 1
    BY <1>5 DEF Refuse, Ack, Requeue
  <2>2. Stored(j)' = Stored(j)
    BY <1>3, <2>1
  <2>3. Cardinality(Stored(j))' = n
    BY <2>2 DEF n
  <2>4. job'[j] = IF i = j THEN job'[i] ELSE job[j]
    BY <1>2, <2>1
  <2>5. n + (IF job'[j] = "queued" THEN 1 ELSE 0) <= 1 + faults'
    BY <1>0, <1>1, <1>2, <2>1, <2>4
  <2>6. job'[j] \in {"saved", "acked"} => job[j] \in {"saved", "acked"}
    BY <1>2, <2>1, <2>4
  <2> QED
    BY <1>0, <2>1, <2>2, <2>3, <2>5, <2>6
<1>6. CASE OpenFeed \/ TurnPage \/ UNCHANGED vars
  <2>1. UNCHANGED <<payload, job, events, faults>>
    BY <1>6 DEF OpenFeed, TurnPage, vars
  <2>2. Stored(j)' = Stored(j)
    BY <1>3, <2>1
  <2> QED
    BY <1>0, <2>1, <2>2 DEF n
<1> QED
  BY <1>4, <1>5, <1>6 DEF Next

\* An event that was acknowledged is stored, never in more rows than it was
\* handled times, and every row has the instant its producer wrote, to the
\* millisecond, or within one for a fraction of a second; the exception is a
\* number on the wrong side of the threshold, which Telling leaves out.
THEOREM EventsAreStoredAsSent == Spec => []StoredAsSent
<1>1. Init => StoredInv
  <2> SUFFICES ASSUME Init, NEW j \in Jobs
               PROVE  /\ Cardinality(Stored(j)) + (IF job[j] = "queued" THEN 1 ELSE 0) <= 1 + faults
                      /\ job[j] \in {"saved", "acked"} => Stored(j) # {} /\ validate(payload[j])
                      /\ ~validate(payload[j]) => Stored(j) = {}
                      /\ \A id \in Stored(j) : events[id].at = parseTime(payload[j])
    BY DEF StoredInv
  <2>1. Stored(j) = {} /\ job[j] = "queued" /\ faults = 0
    BY DEF Init, Stored
  <2> QED
    BY <2>1, FS_EmptySet
<1>2. Types /\ StoredInv => StoredAsSent
  <2> SUFFICES ASSUME Types, StoredInv, NEW j \in Jobs
               PROVE  /\ job[j] = "acked" => Stored(j) # {}
                      /\ Cardinality(Stored(j)) <= 1 + faults
                      /\ payload[j].form = "incomplete" => Stored(j) = {}
                      /\ \A id \in Stored(j) : payload[j].form = "iso" \/ Telling(payload[j]) =>
                           /\ events[id].at \in {payload[j].at, payload[j].at - 1}
                           /\ payload[j].form # "seconds" \/ payload[j].at % Scale = 0 =>
                                events[id].at = payload[j].at
    BY DEF StoredAsSent, Stored
  <2>1. /\ Cardinality(Stored(j)) + (IF job[j] = "queued" THEN 1 ELSE 0) <= 1 + faults
        /\ job[j] \in {"saved", "acked"} => Stored(j) # {}
        /\ ~validate(payload[j]) => Stored(j) = {}
        /\ \A id \in Stored(j) : events[id].at = parseTime(payload[j])
    BY DEF StoredInv
  <2>2. Cardinality(Stored(j)) \in Nat /\ faults \in Nat
    <3>1. PICK k \in Nat : DOMAIN events = 1..k
      BY DEF Types
    <3>2. IsFiniteSet(1..k)
      BY FS_Interval
    <3>3. Stored(j) \subseteq DOMAIN events
      BY DEF Stored
    <3> QED
      BY <3>1, <3>2, <3>3, FS_Subset, FS_CardinalityType DEF Types
  <2>3. Cardinality(Stored(j)) <= 1 + faults
    BY <2>1, <2>2
  <2>4. payload[j].form = "incomplete" => Stored(j) = {}
    BY <2>1 DEF validate
  <2>5. ASSUME NEW id \in Stored(j), payload[j].form = "iso" \/ Telling(payload[j])
        PROVE  /\ events[id].at \in {payload[j].at, payload[j].at - 1}
               /\ payload[j].form # "seconds" \/ payload[j].at % Scale = 0 =>
                    events[id].at = payload[j].at
    <3>1. payload[j] \in Payloads
      BY DEF Types
    <3>2. validate(payload[j]) /\ events[id].at = parseTime(payload[j])
      BY <2>1, <2>5
    <3> QED
      BY <2>5, <3>1, <3>2, ParsedAsWritten
  <2> QED
    BY <2>1, <2>3, <2>4, <2>5
<1> QED
  BY TypesInit, TypesStep, StoredStep, <1>1, <1>2, PTL DEF Spec

-----------------------------------------------------------------------------
(* The feed *)

\* A row has an instant, and its number is its id.
LEMMA RowsTyped ==
  ASSUME Types
  PROVE  \A k \in DOMAIN events : events[k].at \in Nat /\ k \in Nat
<1>1. events \in Seq([job : Jobs, at : Nat])
  BY DEF Types
<1>2. DOMAIN events = 1..Len(events) /\ Len(events) \in Nat
  BY <1>1
<1>3. \A k \in DOMAIN events : events[k] \in [job : Jobs, at : Nat]
  BY <1>1, <1>2, ElementOfSeq
<1> QED
  BY <1>2, <1>3

\* The texts of two instants are in order, and equal only for one instant.
LEMMA TextsOrdered ==
  ASSUME NEW s \in Nat, NEW t \in Nat, NEW u \in Nat
  PROVE  /\ ~TextBefore(s, s)
         /\ TextBefore(s, t) /\ TextBefore(t, u) => TextBefore(s, u)
         /\ s # t => TextBefore(s, t) \/ TextBefore(t, s)
BY AuditAssumption DEF TextBefore

\* The texts of instants a cursor can carry are in the order of the instants.
LEMMA NearTexts ==
  ASSUME NEW s \in Nat, NEW t \in Nat, s < Precise, t < Precise
  PROVE  TextBefore(s, t) <=> s < t
BY AuditAssumption DEF TextBefore

\* The order of the feed, as pairs of rows.
Feed(ids) == {p \in ids \X ids : ListedBefore(p[1], p[2])}

\* A cursor is none that ends the feed, and stands for its row: the rows older
\* than it are those its row is listed before, also those of its own instant.
LEMMA CursorStandsForRow ==
  ASSUME Types, NEW id \in DOMAIN events
  PROVE  /\ CursorOf(id) # NoCursor
         /\ Near => Older(CursorOf(id)) = {k \in DOMAIN events : ListedBefore(id, k)}
<1>1. events[id].at \in Nat /\ \A k \in DOMAIN events : events[k].at \in Nat /\ k \in Nat
  BY RowsTyped
<1>2. id \in Nat
  BY <1>1
<1>3. /\ CursorOf(id).micros = events[id].at * 1000 /\ CursorOf(id).id = id
      /\ NoCursor.micros = -1
  BY DEF CursorOf, NoCursor
<1>4. CursorOf(id).micros # -1
  BY <1>1, <1>3
<1>5. ASSUME Near
      PROVE  Older(CursorOf(id)) = {k \in DOMAIN events : ListedBefore(id, k)}
  <2>1. events[id].at \in 0..Precise - 1
    BY <1>1, <1>5, AuditAssumption DEF Near
  <2>2. MillisOf(events[id].at * 1000) = events[id].at
    BY <2>1, AuditAssumption
  <2>3. parseCursor(CursorOf(id)).at = events[id].at /\ parseCursor(CursorOf(id)).id = id
    BY <1>3, <2>2 DEF parseCursor
  <2>4. \A k \in DOMAIN events :
          ListedBefore(id, k) <=> \/ TextBefore(events[k].at, events[id].at)
                                  \/ events[k].at = events[id].at /\ k < id
    BY <1>1, <1>2 DEF ListedBefore
  <2> QED
    BY <2>3, <2>4 DEF Older
<1> QED
  BY <1>3, <1>4, <1>5

\* Rows are listed in one order, across pages too.
LEMMA ListedTransitive ==
  ASSUME Types, NEW a \in DOMAIN events, NEW b \in DOMAIN events, NEW c \in DOMAIN events,
         ListedBefore(a, b), ListedBefore(b, c)
  PROVE  ListedBefore(a, c)
<1>1. /\ events[a].at \in Nat /\ events[b].at \in Nat /\ events[c].at \in Nat
      /\ a \in Nat /\ b \in Nat /\ c \in Nat
  BY RowsTyped
<1>2. TextBefore(events[c].at, events[b].at) /\ TextBefore(events[b].at, events[a].at) =>
        TextBefore(events[c].at, events[a].at)
  BY <1>1, TextsOrdered
<1> QED
  BY <1>1, <1>2 DEF ListedBefore

\* The feed is totally ordered: rows of one instant are told apart by id.
LEMMA FeedTotal ==
  ASSUME Types, NEW ids \in SUBSET DOMAIN events
  PROVE  IsTotalOrder(Feed(ids), ids)
<1>1. \A k \in ids : events[k].at \in Nat /\ k \in Nat
  BY RowsTyped
<1>2. \A x, y \in ids : <<x, y>> \in Feed(ids) <=> ListedBefore(x, y)
  BY DEF Feed
<1>3. ASSUME NEW x \in ids
      PROVE  ~ListedBefore(x, x)
  <2>1. ~TextBefore(events[x].at, events[x].at)
    BY <1>1, TextsOrdered
  <2> QED
    BY <1>1, <2>1 DEF ListedBefore
<1>4. \A x, y, z \in ids : ListedBefore(x, y) /\ ListedBefore(y, z) => ListedBefore(x, z)
  BY ListedTransitive
<1>5. ASSUME NEW x \in ids, NEW y \in ids, x # y
      PROVE  ListedBefore(x, y) \/ ListedBefore(y, x)
  <2>1. events[x].at # events[y].at =>
          TextBefore(events[x].at, events[y].at) \/ TextBefore(events[y].at, events[x].at)
    BY <1>1, TextsOrdered
  <2>2. x > y \/ y > x
    BY <1>1, <1>5
  <2> QED
    BY <2>1, <2>2 DEF ListedBefore
<1> QED
  BY <1>2, <1>3, <1>4, <1>5 DEF IsTotalOrder

\* A page lists the newest of its rows in order, and any it leaves out is older
\* than all it shows; then the page is full, and the cursor is its last row.
LEMMA PageCorrect ==
  ASSUME Types, NEW c, NEW ids \in SUBSET DOMAIN events,
         ids = IF c = NoCursor THEN DOMAIN events ELSE Older(c)
  PROVE  /\ Page(c) \in Seq(ids)
         /\ \A i, k \in DOMAIN Page(c) : i < k => ListedBefore(Page(c)[i], Page(c)[k])
         /\ \A id \in ids \ ToSet(Page(c)) :
              /\ nextCursorFor(Page(c)) # NoCursor
              /\ \A i \in DOMAIN Page(c) : ListedBefore(Page(c)[i], id)
         /\ nextCursorFor(Page(c)) # NoCursor =>
              /\ Page(c) # <<>>
              /\ nextCursorFor(Page(c)) = CursorOf(Page(c)[Len(Page(c))])
<1> DEFINE rows == SortedBy(ids, Feed(ids))
           n == Cardinality(ids)
           page == Page(c)
<1>1. IsFiniteSet(ids)
  <2>1. PICK k \in Nat : DOMAIN events = 1..k
    BY DEF Types
  <2>2. IsFiniteSet(1..k)
    BY FS_Interval
  <2> QED
    BY <2>1, <2>2, FS_Subset
<1>2. n \in Nat
  BY <1>1, FS_CardinalityType
<1>3. /\ rows \in [1..n -> ids]
      /\ \A i, k \in 1..n : i < k => <<rows[i], rows[k]>> \in Feed(ids)
      /\ \A x \in ids : \E i \in 1..n : rows[i] = x
  BY <1>1, FeedTotal, SortedByCorrect
<1>4. page = IF Len(rows) <= PageSize THEN rows ELSE SubSeq(rows, 1, PageSize)
  BY DEF Page, Feed
<1> HIDE DEF rows, n, page
<1>5. rows \in Seq(ids) /\ Len(rows) = n /\ DOMAIN rows = 1..n
  BY <1>2, <1>3
<1>6. \A i, k \in 1..n : i < k => ListedBefore(rows[i], rows[k])
  BY <1>3 DEF Feed
<1>7. PageSize \in Nat \ {0}
  BY AuditAssumption
<1>8. PICK m \in 0..n : /\ page \in Seq(ids) /\ Len(page) = m /\ DOMAIN page = 1..m
                        /\ \A i \in 1..m : page[i] = rows[i]
                        /\ m < n => m = PageSize
  <2>1. CASE n <= PageSize
    <3>1. page = rows /\ n \in 0..n
      BY <1>2, <1>4, <1>5, <2>1
    <3> QED
      BY <1>5, <3>1, <1>2
  <2>2. CASE ~(n <= PageSize)
    <3>1. page = SubSeq(rows, 1, PageSize) /\ PageSize \in 0..n /\ PageSize \in 0..Len(rows)
      BY <1>2, <1>4, <1>5, <1>7, <2>2
    <3>2. /\ SubSeq(rows, 1, PageSize) \in Seq(ids) /\ Len(SubSeq(rows, 1, PageSize)) = PageSize
          /\ DOMAIN SubSeq(rows, 1, PageSize) = 1..PageSize
          /\ \A i \in 1..PageSize : SubSeq(rows, 1, PageSize)[i] = rows[i]
      BY <1>5, <3>1, Prefix
    <3> QED
      BY <3>1, <3>2
  <2> QED
    BY <2>1, <2>2
<1>9. \A i \in 1..m : i \in 1..n /\ i \in Nat
  BY <1>2
<1>10. \A i, k \in DOMAIN page : i < k => ListedBefore(page[i], page[k])
  BY <1>6, <1>8, <1>9
<1>11. nextCursorFor(page) = IF m < PageSize THEN NoCursor ELSE CursorOf(page[m])
  BY <1>8 DEF nextCursorFor, Last
<1>12. m = PageSize => nextCursorFor(page) # NoCursor
  <2> SUFFICES ASSUME m = PageSize
               PROVE  nextCursorFor(page) # NoCursor
    OBVIOUS
  <2>1. m \in 1..m /\ ~(m < PageSize)
    BY <1>7
  <2>2. page[m] \in DOMAIN events
    BY <1>8, <2>1
  <2>3. CursorOf(page[m]) # NoCursor
    BY <2>2, CursorStandsForRow
  <2> QED
    BY <1>11, <2>1, <2>3
<1>13. ASSUME NEW id \in ids \ ToSet(page)
       PROVE  m = PageSize /\ \A i \in DOMAIN page : ListedBefore(page[i], id)
  <2>1. PICK k \in 1..n : rows[k] = id
    BY <1>3
  <2>2. k \notin 1..m
    BY <1>8, <1>13, <2>1 DEF ToSet
  <2>3. m < k /\ m < n
    BY <1>2, <2>2
  <2>4. \A i \in 1..m : i < k
    BY <1>2, <2>3
  <2> QED
    BY <1>6, <1>8, <1>9, <2>1, <2>3, <2>4
<1>14. nextCursorFor(page) # NoCursor => page # <<>> /\ nextCursorFor(page) = CursorOf(page[Len(page)])
  <2>1. m = 0 => m < PageSize
    BY <1>7
  <2> QED
    BY <1>8, <1>11, <2>1
<1> QED
  BY <1>8, <1>10, <1>12, <1>13, <1>14 DEF page

\* Rows keep their place in the feed when others are stored.
LEMMA FeedStep == Types /\ FeedInv /\ [Next]_vars => FeedInv'
<1> SUFFICES ASSUME Types, FeedInv, [Next]_vars
             PROVE  FeedInv'
  OBVIOUS
<1>0. /\ seen \in Seq(DOMAIN events) /\ known \subseteq DOMAIN events
      /\ cursor # NoCursor => seen # <<>> /\ cursor = CursorOf(seen[Len(seen)])
      /\ Near => /\ \A i, k \in DOMAIN seen : i < k => ListedBefore(seen[i], seen[k])
                 /\ \A id \in known \ ToSet(seen) :
                      cursor # NoCursor /\ \A i \in DOMAIN seen : ListedBefore(seen[i], id)
  BY DEF FeedInv
<1>1. DOMAIN seen = 1..Len(seen) /\ Len(seen) \in Nat /\ \A i \in DOMAIN seen : seen[i] \in DOMAIN events
  BY <1>0
<1>2. ASSUME UNCHANGED <<seen, cursor, known>>, DOMAIN events \subseteq DOMAIN events',
             \A id \in DOMAIN events : events'[id] = events[id]
      PROVE  FeedInv'
  <2>1. \A a, b \in DOMAIN events : ListedBefore(a, b)' <=> ListedBefore(a, b)
    BY <1>2 DEF ListedBefore
  <2>2. \A a \in DOMAIN events : CursorOf(a)' = CursorOf(a)
    BY <1>2 DEF CursorOf
  <2>3. seen' \in Seq(DOMAIN events')
    BY <1>0, <1>2, SeqMonotonic
  <2>4. cursor' # NoCursor => seen' # <<>> /\ cursor' = CursorOf(seen[Len(seen)])'
    <3>1. seen # <<>> => Len(seen) \in DOMAIN seen
      BY <1>1, <1>0
    <3> QED
      BY <1>0, <1>1, <1>2, <2>2, <3>1
  <2>5. ASSUME Near'
        PROVE  /\ \A i, k \in DOMAIN seen' : i < k => ListedBefore(seen[i], seen[k])'
               /\ \A id \in known' \ ToSet(seen') :
                    cursor' # NoCursor /\ \A i \in DOMAIN seen' : ListedBefore(seen[i], id)'
    <3>1. Near
      BY <1>2, <2>5 DEF Near
    <3>2. \A i, k \in DOMAIN seen' : i < k => ListedBefore(seen[i], seen[k])'
      BY <1>0, <1>1, <1>2, <2>1, <3>1
    <3>3. \A id \in known' \ ToSet(seen') :
            cursor' # NoCursor /\ \A i \in DOMAIN seen' : ListedBefore(seen[i], id)'
      BY <1>0, <1>1, <1>2, <2>1, <3>1
    <3> QED
      BY <3>2, <3>3
  <2>7. known' \subseteq DOMAIN events'
    BY <1>0, <1>2
  <2> QED
    BY <2>3, <2>4, <2>5, <2>7 DEF FeedInv
<1>3. ASSUME NEW j \in Jobs, Save(j)
      PROVE  FeedInv'
  <2>1. /\ [job |-> j, at |-> parseTime(payload[j])] \in [job : Jobs, at : Nat]
        /\ events' = Append(events, [job |-> j, at |-> parseTime(payload[j])])
        /\ UNCHANGED <<seen, cursor, known>>
    BY <1>3, RowTyped DEF Save, reader
  <2> QED
    BY <1>2, <2>1, RowAdded
<1>4. ASSUME NEW j \in Jobs, Refuse(j) \/ Ack(j) \/ Requeue(j)
      PROVE  FeedInv'
  <2>1. events' = events /\ UNCHANGED <<seen, cursor, known>>
    BY <1>4 DEF Refuse, Ack, Requeue, reader
  <2> QED
    BY <1>2, <2>1
<1>5. CASE UNCHANGED vars
  BY <1>2, <1>5 DEF vars
<1>6. CASE OpenFeed
  <2> DEFINE page == Page(NoCursor)
             ids == DOMAIN events
  <2>1. events' = events /\ seen' = page /\ cursor' = nextCursorFor(page) /\ known' = ids
    BY <1>6 DEF OpenFeed
  <2>2. /\ page \in Seq(ids)
        /\ \A i, k \in DOMAIN page : i < k => ListedBefore(page[i], page[k])
        /\ \A id \in ids \ ToSet(page) :
              /\ nextCursorFor(page) # NoCursor
              /\ \A i \in DOMAIN page : ListedBefore(page[i], id)
        /\ nextCursorFor(page) # NoCursor =>
              page # <<>> /\ nextCursorFor(page) = CursorOf(page[Len(page)])
    BY PageCorrect
  <2> HIDE DEF page, ids
  <2>3. \A a, b : ListedBefore(a, b)' <=> ListedBefore(a, b)
    BY <2>1 DEF ListedBefore
  <2>4. \A a : CursorOf(a)' = CursorOf(a)
    BY <2>1 DEF CursorOf
  <2>5. cursor' # NoCursor => seen' # <<>> /\ cursor' = CursorOf(seen[Len(seen)])'
    BY <2>1, <2>2, <2>4
  <2>6. \A i, k \in DOMAIN seen' : i < k => ListedBefore(seen[i], seen[k])'
    BY <2>1, <2>2, <2>3
  <2>7. \A id \in known' \ ToSet(seen') :
          cursor' # NoCursor /\ \A i \in DOMAIN seen' : ListedBefore(seen[i], id)'
    BY <2>1, <2>2, <2>3
  <2>8. seen' \in Seq(DOMAIN events') /\ known' \subseteq DOMAIN events'
    BY <2>1, <2>2 DEF ids
  <2> QED
    BY <2>5, <2>6, <2>7, <2>8 DEF FeedInv
<1>7. CASE TurnPage
  <2> DEFINE page == Page(cursor)
             ids == Older(cursor)
             m == Len(seen)
             last == seen[m]
             s == seen \o page
  <2>1. /\ events' = events /\ seen' = s /\ cursor' = nextCursorFor(page) /\ known' = known
        /\ cursor # NoCursor
    BY <1>7 DEF TurnPage
  <2>2. m \in DOMAIN seen /\ last \in DOMAIN events /\ cursor = CursorOf(last)
    BY <1>0, <1>1, <2>1
  <2>3. /\ \A k \in ids : k \in DOMAIN events
        /\ Near => ids = {k \in DOMAIN events : ListedBefore(last, k)}
    BY <2>2, CursorStandsForRow DEF Older
  <2>4. /\ page \in Seq(ids)
        /\ \A i, k \in DOMAIN page : i < k => ListedBefore(page[i], page[k])
        /\ \A id \in ids \ ToSet(page) :
              /\ nextCursorFor(page) # NoCursor
              /\ \A i \in DOMAIN page : ListedBefore(page[i], id)
        /\ nextCursorFor(page) # NoCursor =>
              page # <<>> /\ nextCursorFor(page) = CursorOf(page[Len(page)])
    <3>1. ids \in SUBSET DOMAIN events /\ ids = IF cursor = NoCursor THEN DOMAIN events ELSE Older(cursor)
      BY <2>1, <2>3
    <3> HIDE DEF ids
    <3> QED
      BY <3>1, PageCorrect
  <2> HIDE DEF page, ids
  <2>5. \A k \in ids : k \in DOMAIN events /\ (Near => ListedBefore(last, k))
    BY <2>3
  <2>6. /\ DOMAIN page = 1..Len(page) /\ Len(page) \in Nat
        /\ \A i \in DOMAIN page : page[i] \in DOMAIN events
    BY <2>4, <2>5
  <2>7. page \in Seq(DOMAIN events)
    BY <2>4, <2>5, SeqMonotonic
  <2>8. /\ s \in Seq(DOMAIN events) /\ Len(s) = m + Len(page) /\ DOMAIN s = 1..m + Len(page)
        /\ \A i \in 1..m + Len(page) : s[i] = IF i <= m THEN seen[i] ELSE page[i - m]
    BY <1>0, <1>1, <2>6, <2>7
  <2>9. m \in Nat /\ m >= 1 /\ DOMAIN seen = 1..m
    BY <1>1, <2>2
  <2> HIDE DEF m, last, s
  <2>10. \A i \in DOMAIN s : \/ i <= m /\ i \in DOMAIN seen /\ s[i] = seen[i]
                             \/ ~(i <= m) /\ i - m \in DOMAIN page /\ s[i] = page[i - m]
    BY <2>6, <2>8, <2>9
  <2>11. \A a, b, c \in DOMAIN events : ListedBefore(a, b) /\ ListedBefore(b, c) => ListedBefore(a, c)
    BY ListedTransitive
  <2>12. Near => \A i \in DOMAIN seen : seen[i] = last \/ ListedBefore(seen[i], last)
    <3>1. \A i \in DOMAIN seen : i = m \/ i < m
      BY <2>9
    <3> QED
      BY <1>0, <2>2, <3>1 DEF m, last
  <2>13. Near => \A i \in DOMAIN seen, b \in ids : ListedBefore(seen[i], b)
    BY <1>1, <2>2, <2>5, <2>11, <2>12
  <2>14. ASSUME Near, NEW i \in DOMAIN s, NEW k \in DOMAIN s, i < k
         PROVE  ListedBefore(s[i], s[k])
    <3>1. i \in Int /\ k \in Int /\ m \in Int
      BY <2>6, <2>8, <2>9
    <3>2. CASE i <= m /\ k <= m
      BY <1>0, <2>10, <2>14, <3>2
    <3>3. CASE i <= m /\ ~(k <= m)
      BY <2>4, <2>10, <2>13, <2>14, <3>3
    <3>4. CASE ~(i <= m) /\ ~(k <= m)
      <4>1. i - m < k - m
        BY <2>14, <3>1
      <4> QED
        BY <2>4, <2>10, <3>4, <4>1
    <3> QED
      BY <2>14, <3>1, <3>2, <3>3, <3>4
  <2>15. ASSUME Near, NEW id \in known \ ToSet(s)
         PROVE  nextCursorFor(page) # NoCursor /\ \A i \in DOMAIN s : ListedBefore(s[i], id)
    <3>1. \A i \in DOMAIN seen : i \in DOMAIN s /\ s[i] = seen[i]
      BY <2>6, <2>8, <2>9
    <3>2. \A i \in DOMAIN page : i + m \in DOMAIN s /\ s[i + m] = page[i]
      BY <2>6, <2>8, <2>9
    <3>3. id \notin ToSet(seen) /\ id \notin ToSet(page)
      BY <2>15, <3>1, <3>2 DEF ToSet
    <3>4. \A i \in DOMAIN seen : ListedBefore(seen[i], id)
      BY <1>0, <2>15, <3>3
    <3>5. id \in ids
      BY <1>0, <2>2, <2>3, <2>15, <3>4 DEF last
    <3> QED
      BY <2>4, <2>10, <3>3, <3>4, <3>5
  <2>16. \A a, b : ListedBefore(a, b)' <=> ListedBefore(a, b)
    BY <2>1 DEF ListedBefore
  <2>17. \A a : CursorOf(a)' = CursorOf(a)
    BY <2>1 DEF CursorOf
  <2>18. nextCursorFor(page) # NoCursor => s # <<>> /\ nextCursorFor(page) = CursorOf(s[Len(s)])
    <3> SUFFICES ASSUME nextCursorFor(page) # NoCursor
                 PROVE  s # <<>> /\ nextCursorFor(page) = CursorOf(s[Len(s)])
      OBVIOUS
    <3>1. Len(page) \in 1..Len(page) /\ nextCursorFor(page) = CursorOf(page[Len(page)])
      BY <2>4, <2>6
    <3>2. Len(s) \in DOMAIN s /\ ~(Len(s) <= m) /\ Len(s) - m = Len(page)
      BY <2>6, <2>8, <2>9, <3>1
    <3>3. s[Len(s)] = page[Len(page)]
      BY <2>10, <3>2
    <3> QED
      BY <3>1, <3>2, <3>3
  <2>19. cursor' # NoCursor => seen' # <<>> /\ cursor' = CursorOf(seen[Len(seen)])'
    BY <2>1, <2>17, <2>18
  <2>20. Near' => \A i, k \in DOMAIN seen' : i < k => ListedBefore(seen[i], seen[k])'
    BY <2>1, <2>14, <2>16 DEF Near
  <2>21. Near' => \A id \in known' \ ToSet(seen') :
          cursor' # NoCursor /\ \A i \in DOMAIN seen' : ListedBefore(seen[i], id)'
    BY <2>1, <2>15, <2>16 DEF Near
  <2>22. seen' \in Seq(DOMAIN events') /\ known' \subseteq DOMAIN events'
    BY <1>0, <2>1, <2>8
  <2> QED
    BY <2>19, <2>20, <2>21, <2>22 DEF FeedInv
<1> QED
  BY <1>3, <1>4, <1>5, <1>6, <1>7 DEF Next

\* Paging shows a steady feed while rows are stored: newest first over all
\* pages, no row twice, none skipped that was there when the reader began; the
\* exception is a table with a row dated beyond Precise.
THEOREM FeedIsSteady == Spec => []FeedSteady
<1>1. Init => FeedInv
  BY DEF Init, FeedInv, ToSet
<1>2. Types /\ FeedInv => FeedSteady
  <2> SUFFICES ASSUME Types, FeedInv, Near
               PROVE  /\ \A i, k \in DOMAIN seen : i < k => Newer(seen[i], seen[k])
                      /\ \A id \in known \ ToSet(seen) :
                           cursor # NoCursor /\ \A i \in DOMAIN seen : Newer(seen[i], id)
    BY DEF FeedSteady
  <2>1. ASSUME NEW a \in DOMAIN events, NEW b \in DOMAIN events
        PROVE  ListedBefore(a, b) <=> Newer(a, b)
    <3>1. /\ events[a].at \in Nat /\ events[b].at \in Nat
          /\ events[a].at < Precise /\ events[b].at < Precise
      BY RowsTyped DEF Near
    <3>2. TextBefore(events[b].at, events[a].at) <=> events[b].at < events[a].at
      BY <3>1, NearTexts
    <3> QED
      BY <3>1, <3>2 DEF ListedBefore, Newer
  <2>2. /\ known \subseteq DOMAIN events
        /\ \A i \in DOMAIN seen : seen[i] \in DOMAIN events
    BY DEF FeedInv
  <2> QED
    BY <2>1, <2>2 DEF FeedInv
<1> QED
  BY TypesInit, TypesStep, FeedStep, <1>1, <1>2, PTL DEF Spec

=============================================================================
