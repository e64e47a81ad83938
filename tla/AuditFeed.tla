------------------------------ MODULE AuditFeed ------------------------------
(***************************************************************************)
(* The audit log, the example application of examples/audit_log: a worker  *)
(* that stores the events other systems emit as audit.create jobs, and a   *)
(* web feed that pages through them, newest first, with a cursor, while    *)
(* more are stored.  Jobs are handled at least once.                       *)
(*                                                                         *)
(* An instant is a number of milliseconds since 1970; earlier ones are     *)
(* left out.  The real Scale is 1000, the real Threshold 10^12 (see        *)
(* parseTime), Precise is 2^53 / 1000 (the year 2255) and Year10000 the    *)
(* first instant whose ISO text has a signed year.                         *)
(***************************************************************************)
EXTENDS Integers, Sequences, FiniteSets, SequencesExt, Sorted

CONSTANTS
  Jobs,         \* the audit.create jobs
  Instants,     \* when their events may have happened
  Scale,        \* milliseconds in a second
  Threshold,    \* numbers below it are taken for seconds
  Short,        \* instants whose seconds, a double, give a millisecond less
                \* when multiplied and truncated
  Precise,      \* below it a double holds an instant's microseconds exactly
  MillisOf(_),  \* the instant that Date makes of a cursor's microseconds
  Year10000,    \* from it on an instant's ISO text begins with a plus sign
  PageSize,     \* PAGE_SIZE
  MaxFaults     \* bound: how many times a job is handed out again

ASSUME AuditAssumption ==
  /\ Instants \subseteq Nat
  /\ Scale \in Nat \ {0} /\ Threshold \in Nat
  /\ Short \subseteq Instants /\ \A t \in Short : t % Scale # 0
  /\ Precise \in Nat /\ Year10000 \in Nat /\ Precise <= Year10000
  /\ \A t \in 0..Precise - 1 : MillisOf(t * 1000) = t
  /\ PageSize \in Nat \ {0} /\ MaxFaults \in Nat

VARIABLES
  payload,  \* what each job carries
  job,      \* what became of it: queued, saved, acked or dead
  events,   \* the table audit_events; the id of a row is its index
  faults,   \* how many times a job was handed out again
  seen,     \* the ids on the pages the reader has turned, in order
  cursor,   \* the cursor of the next page, or NoCursor
  known     \* history: the rows there were when the reader opened the feed

vars == <<payload, job, events, faults, seen, cursor, known>>
reader == <<seen, cursor, known>>

NoCursor == [micros |-> -1, id |-> 0]

\* The ways a producer writes occurred_at, and payloads that lack it, or a
\* source, or an event type.
Payloads == [form : {"iso", "seconds", "millis"}, at : Instants] \cup {[form |-> "incomplete"]}

Init ==
  /\ payload \in [Jobs -> Payloads]
  /\ job = [j \in Jobs |-> "queued"]
  /\ events = <<>> /\ faults = 0
  /\ seen = <<>> /\ cursor = NoCursor /\ known = {}

-----------------------------------------------------------------------------
(* The worker *)

\* A number in the payload, in thousandths: seconds may have a fraction.
Thousandths(p) == IF p.form = "seconds" THEN p.at ELSE p.at * Scale

\* Mutant: the threshold itself is taken for seconds.
parseTimeUpTo(p) ==
  CASE p.form = "iso" -> p.at
    [] p.form # "iso" /\ Thousandths(p) <= Threshold * Scale -> Thousandths(p)
    [] OTHER -> Thousandths(p) \div Scale

\* A number below the threshold is taken for seconds, any other for
\* milliseconds; Date drops what is less than a millisecond.
parseTime(p) ==
  LET lost == IF p.form = "seconds" /\ p.at \in Short THEN 1 ELSE 0 IN
  CASE p.form = "iso" -> p.at
    [] p.form # "iso" /\ Thousandths(p) < Threshold * Scale -> Thousandths(p) - lost
    [] OTHER -> Thousandths(p) \div Scale

validate(p) == p.form # "incomplete"

\* save(fromPayload(payload)) inserts a row, each time the job is handled.
Save(j) ==
  /\ job[j] = "queued" /\ validate(payload[j])
  /\ events' = Append(events, [job |-> j, at |-> parseTime(payload[j])])
  /\ job' = [job EXCEPT ![j] = "saved"]
  /\ UNCHANGED <<payload, faults, reader>>

\* An event that does not validate makes the handler throw until the server
\* gives the job up.
Refuse(j) ==
  /\ job[j] = "queued" /\ ~validate(payload[j])
  /\ job' = [job EXCEPT ![j] = "dead"]
  /\ UNCHANGED <<payload, events, faults, reader>>

Ack(j) ==
  /\ job[j] = "saved"
  /\ job' = [job EXCEPT ![j] = "acked"]
  /\ UNCHANGED <<payload, events, faults, reader>>

\* The worker dies or loses its stream before the ack: the job is queued again.
Requeue(j) ==
  /\ job[j] = "saved"
  /\ faults < MaxFaults /\ faults' = faults + 1
  /\ job' = [job EXCEPT ![j] = "queued"]
  /\ UNCHANGED <<payload, events, reader>>

-----------------------------------------------------------------------------
(* The feed *)

\* The columns hold ISO texts, and a plus sign sorts before every digit.
TextBefore(s, t) ==
  IF (s < Year10000) = (t < Year10000) THEN s < t ELSE t < Year10000

\* ORDER BY occurred_at DESC, id DESC
ListedBefore(a, b) ==
  \/ TextBefore(events[b].at, events[a].at)
  \/ events[a].at = events[b].at /\ a > b

\* A cursor in microseconds, and the instant and id it is parsed into.
CursorOf(id) == [micros |-> events[id].at * 1000, id |-> id]
parseCursor(c) == [at |-> MillisOf(c.micros), id |-> c.id]

\* Mutant: the ids are not compared, and rows of the same instant are skipped.
OlderByTimeOnly(c) ==
  {id \in DOMAIN events : TextBefore(events[id].at, parseCursor(c).at)}

\* The rows older than a cursor.
Older(c) ==
  LET p == parseCursor(c) IN
  {id \in DOMAIN events : \/ TextBefore(events[id].at, p.at)
                          \/ events[id].at = p.at /\ id < p.id}

\* pageDataset(): the newest rows of the first or of an older page.
Page(c) ==
  LET ids  == IF c = NoCursor THEN DOMAIN events ELSE Older(c)
      rows == SortedBy(ids, {p \in ids \X ids : ListedBefore(p[1], p[2])})
  IN  IF Len(rows) <= PageSize THEN rows ELSE SubSeq(rows, 1, PageSize)

\* A page that is not full is the last one.
nextCursorFor(page) == IF Len(page) < PageSize THEN NoCursor ELSE CursorOf(Last(page))

\* GET /
OpenFeed ==
  /\ seen' = Page(NoCursor)
  /\ cursor' = nextCursorFor(Page(NoCursor))
  /\ known' = DOMAIN events
  /\ UNCHANGED <<payload, job, events, faults>>

\* GET /?cursor=...
TurnPage ==
  /\ cursor # NoCursor
  /\ seen' = seen \o Page(cursor)
  /\ cursor' = nextCursorFor(Page(cursor))
  /\ UNCHANGED <<payload, job, events, faults, known>>

Next ==
  \/ \E j \in Jobs : Save(j) \/ Refuse(j) \/ Ack(j) \/ Requeue(j)
  \/ OpenFeed \/ TurnPage

Spec == Init /\ [][Next]_vars

-----------------------------------------------------------------------------
(* Properties *)

\* The order a reader expects: by instant, and rows of one instant by id.
Newer(a, b) ==
  \/ events[a].at > events[b].at
  \/ events[a].at = events[b].at /\ a > b

\* Every row has an instant a cursor can carry.
Near == \A id \in DOMAIN events : events[id].at < Precise

\* Paging shows a steady feed while rows are stored: newest first over all
\* pages, no row twice, none skipped that was there when the reader began, and
\* nothing missing once there is no older page, for events of one instant and
\* for feeds of exactly full pages too; an exception is a table with a row
\* dated so late that its microseconds are no longer exact, or its text is no
\* longer in order (pageDataset, parseCursor, nextCursorFor).
FeedSteady ==
  Near =>
    /\ \A i, k \in DOMAIN seen : i < k => Newer(seen[i], seen[k])
    /\ \A id \in known \ ToSet(seen) :
         cursor # NoCursor /\ \A i \in DOMAIN seen : Newer(seen[i], id)

\* The numbers that are read in the unit they were written in: milliseconds not
\* so early that they look like seconds, seconds not so late that they look
\* like milliseconds.
Telling(p) ==
  \/ p.form = "millis" /\ p.at >= Threshold
  \/ p.form = "seconds" /\ p.at < Threshold * Scale

\* An event that was acknowledged is stored; a job handled again stores it
\* again, and never more rows than it was handled times.  Every row has the
\* instant the producer wrote, to the millisecond for texts, milliseconds and
\* whole seconds and within one for fractions of a second; an exception is a
\* number on the wrong side of the threshold (see Telling), which is read in
\* the other unit (createAuditRouter, save, parseTime).
StoredAsSent ==
  \A j \in Jobs :
    LET p == payload[j]
        stored == {id \in DOMAIN events : events[id].job = j}
    IN /\ job[j] = "acked" => stored # {}
       /\ Cardinality(stored) <= 1 + faults
       /\ p.form = "incomplete" => stored = {}
       /\ \A id \in stored : p.form = "iso" \/ Telling(p) =>
            /\ events[id].at \in {p.at, p.at - 1}
            /\ p.form # "seconds" \/ p.at % Scale = 0 => events[id].at = p.at

-----------------------------------------------------------------------------
(* Inductive invariants *)

Types ==
  /\ payload \in [Jobs -> Payloads]
  /\ job \in [Jobs -> {"queued", "saved", "acked", "dead"}]
  /\ events \in Seq([job : Jobs, at : Nat])
  /\ faults \in Nat

\* FeedSteady in the order of the texts, strengthened: the cursor is the row the
\* last page ended with.
FeedInv ==
  /\ seen \in Seq(DOMAIN events) /\ known \subseteq DOMAIN events
  /\ cursor # NoCursor => seen # <<>> /\ cursor = CursorOf(seen[Len(seen)])
  /\ Near => /\ \A i, k \in DOMAIN seen : i < k => ListedBefore(seen[i], seen[k])
             /\ \A id \in known \ ToSet(seen) :
                  cursor # NoCursor /\ \A i \in DOMAIN seen : ListedBefore(seen[i], id)

Stored(j) == {id \in DOMAIN events : events[id].job = j}

\* StoredAsSent, strengthened: a job that may be handled again has one row less,
\* and a row holds what parseTime makes of the payload.
StoredInv ==
  \A j \in Jobs :
    /\ Cardinality(Stored(j)) + (IF job[j] = "queued" THEN 1 ELSE 0) <= 1 + faults
    /\ job[j] \in {"saved", "acked"} => Stored(j) # {} /\ validate(payload[j])
    /\ ~validate(payload[j]) => Stored(j) = {}
    /\ \A id \in Stored(j) : events[id].at = parseTime(payload[j])

=============================================================================
