--------------------------- MODULE MonitorProofs ----------------------------
(***************************************************************************)
(* Theorems about Monitor, for every set of addresses and sitemap bodies,  *)
(* every number of worker slots and form submissions, every batch size     *)
(* and any number of checks, jobs and faults.                              *)
(***************************************************************************)
EXTENDS Monitor, OrderLemmas

-----------------------------------------------------------------------------
(* Bags of jobs, and what the operators of the model return. *)

\* Jobs that return to the queue or are enqueued are in it, next to those that
\* were.
LEMMA BagGrows ==
  ASSUME NEW B, B \in [DOMAIN B -> Nat \ {0}], NEW S
  PROVE  /\ DOMAIN (B (+) SetToBag(S)) = DOMAIN B \cup S
         /\ B (+) SetToBag(S) \in [DOMAIN B \cup S -> Nat \ {0}]
  BY DEF (+), SetToBag

\* A job that is taken may be in the queue once more; all others stay.
LEMMA BagShrinks ==
  ASSUME NEW B, B \in [DOMAIN B -> Nat \ {0}], NEW e
  PROVE  /\ DOMAIN (B (-) SetToBag({e})) \subseteq DOMAIN B
         /\ DOMAIN B \ {e} \subseteq DOMAIN (B (-) SetToBag({e}))
         /\ B (-) SetToBag({e}) \in [DOMAIN (B (-) SetToBag({e})) -> Nat \ {0}]
<1> DEFINE C == [d \in DOMAIN B |-> IF d \in DOMAIN SetToBag({e}) THEN B[d] - SetToBag({e})[d] ELSE B[d]]
<1>1. DOMAIN SetToBag({e}) = {e} /\ SetToBag({e})[e] = 1
  BY DEF SetToBag
<1>2. B (-) SetToBag({e}) = [d \in {c \in DOMAIN C : C[c] > 0} |-> C[d]]
  BY DEF (-)
<1>3. DOMAIN C = DOMAIN B /\ \A d \in DOMAIN B : C[d] = IF d = e THEN B[d] - 1 ELSE B[d]
  BY <1>1
<1>4. \A d \in DOMAIN B : B[d] \in Nat \ {0}
  OBVIOUS
<1> DEFINE D == {c \in DOMAIN B : C[c] > 0}
           E == B (-) SetToBag({e})
<1> HIDE DEF C
<1>5. E = [d \in D |-> C[d]]
  BY <1>2, <1>3
<1>6. \A d \in DOMAIN B \ {e} : d \in D
  BY <1>3, <1>4
<1>7. \A d \in D : C[d] \in Nat \ {0}
  BY <1>3, <1>4
<1> HIDE DEF D, E
<1>8. DOMAIN E = D
  BY <1>5
<1>9. E \in [DOMAIN E -> Nat \ {0}]
  BY <1>5, <1>7
<1>10. D \subseteq DOMAIN B
  BY DEF D
<1> QED
  BY <1>6, <1>8, <1>9, <1>10 DEF E

LEMMA NothingAdded ==
  ASSUME NEW B, B \in [DOMAIN B -> Nat \ {0}]
  PROVE  B (+) EmptyBag \in [DOMAIN B -> Nat \ {0}] /\ DOMAIN (B (+) EmptyBag) = DOMAIN B
<1>1. EmptyBag = SetToBag({})
  BY DEF EmptyBag
<1> QED
  BY <1>1, BagGrows

\* The batches are requests that enqueue checks and nothing else.
LEMMA BatchesTyped ==
  ASSUME NEW ids \in SUBSET Nat, IsFiniteSet(ids)
  PROVE  /\ Batches(ids) \in Seq(SUBSET JobSet)
         /\ \A b \in DOMAIN Batches(ids) : \A j \in Batches(ids)[b] : j.type = "check"
<1> DEFINE order == SetToSeq(ids)
           c == Cardinality(ids)
           n == (Len(order) + BatchSize - 1) \div BatchSize
           Batch(b) == {CHECK_URL(order[i]) : i \in {k \in DOMAIN order : (k - 1) \div BatchSize = b - 1}}
<1>1. c \in Nat /\ order \in [1..c -> ids]
  <2>1. c \in Nat /\ ExistsBijection(1..c, ids)
    BY FS_CardinalityType
  <2>2. PICK f : f \in Bijection(1..c, ids)
    BY <2>1 DEF ExistsBijection
  <2>3. f \in [1..c -> ids] /\ IsInjective(f)
    BY <2>2 DEF Bijection, Injection, IsInjective
  <2> QED
    BY <2>1, <2>3 DEF SetToSeq
<1>2. Len(order) = c /\ DOMAIN order = 1..c
  BY <1>1
<1>3. n \in Int
  BY <1>1, <1>2, MonitorAssumption
<1>4. \A b \in 1..n : Batch(b) \in SUBSET JobSet /\ \A j \in Batch(b) : j.type = "check"
  <2>1. \A i \in DOMAIN order : order[i] \in Nat
    BY <1>1
  <2> QED
    BY <2>1 DEF CHECK_URL, Job, JobSet
<1>5. Batches(ids) = [b \in 1..n |-> Batch(b)]
  BY DEF Batches
<1> HIDE DEF n, Batch
<1>6. CASE n \in Nat
  BY <1>4, <1>5, <1>6
<1>7. CASE n \notin Nat
  <2>1. 1..n = 1..0
    BY <1>3, <1>7
  <2>2. Batches(ids) = <<>>
    BY <1>5, <2>1
  <2> QED
    BY <2>2
<1> QED
  BY <1>6, <1>7

-----------------------------------------------------------------------------
(* The tables. *)

\* A recorded check changes the status and the count of its row, and no other.
LEMMA RecordTyped ==
  ASSUME TypeInv, NEW r \in DOMAIN rows, NEW m \in Row, NEW st \in Statuses, recordCheck(r, m, st)
  PROVE  /\ rows' \in Seq(Row) /\ DOMAIN rows' = DOMAIN rows
         /\ checks' \in Seq([row : Nat, status : Statuses])
         /\ Len(checks) \in Nat /\ DOMAIN checks = 1..Len(checks)
         /\ Len(checks') = Len(checks) + 1 /\ DOMAIN checks' = 1..(Len(checks) + 1)
         /\ checks'[Len(checks) + 1].row = r /\ checks'[Len(checks) + 1].status = st
         /\ \A c \in DOMAIN checks : checks'[c] = checks[c]
         /\ rows'[r].lastStatus = st
         /\ rows'[r].fails = IF st = "up" THEN 0 ELSE m.fails + 1
         /\ \A q \in DOMAIN rows : /\ rows'[q].url = rows[q].url /\ rows'[q].parent = rows[q].parent
                                   /\ rows'[q].enabled = rows[q].enabled
                                   /\ q # r => rows'[q] = rows[q]
<1>1. /\ rows \in Seq(Row) /\ checks \in Seq([row : Nat, status : Statuses])
      /\ Len(rows) \in Nat /\ DOMAIN rows = 1..Len(rows) /\ r \in Nat
      /\ Len(checks) \in Nat /\ DOMAIN checks = 1..Len(checks)
  BY DEF TypeInv
<1>2. rows[r] \in Row /\ \A q \in DOMAIN rows : rows[q] \in Row
  BY <1>1
<1> DEFINE fails == IF st = "up" THEN 0 ELSE m.fails + 1
           row == [rows[r] EXCEPT !.lastStatus = st, !.fails = fails]
           check == [row |-> r, status |-> st]
<1>3. /\ row \in Row /\ row.lastStatus = st /\ row.fails = fails
      /\ row.url = rows[r].url /\ row.parent = rows[r].parent /\ row.enabled = rows[r].enabled
  <2>1. fails \in Nat
    BY DEF Row
  <2> HIDE DEF fails
  <2> QED
    BY <1>2, <2>1 DEF Row
<1>4. rows' = [rows EXCEPT ![r] = row]
  BY <1>1, <1>2 DEF recordCheck, Row
<1>5. check \in [row : Nat, status : Statuses] /\ checks' = Append(checks, check)
  BY <1>1 DEF recordCheck
<1> HIDE DEF row
<1>6. rows' = [q \in 1..Len(rows) |-> IF q = r THEN row ELSE rows[q]]
  BY <1>1, <1>4
<1>7. /\ rows' \in Seq(Row) /\ DOMAIN rows' = DOMAIN rows /\ rows'[r] = row
      /\ \A q \in DOMAIN rows : q # r => rows'[q] = rows[q]
  BY <1>1, <1>2, <1>3, <1>6
<1> HIDE DEF check
<1>8. /\ checks' \in Seq([row : Nat, status : Statuses])
      /\ Len(checks') = Len(checks) + 1 /\ checks'[Len(checks) + 1] = check
      /\ \A c \in DOMAIN checks : checks'[c] = checks[c]
  BY <1>1, <1>5
<1>9. DOMAIN checks' = 1..(Len(checks) + 1)
  BY <1>1, <1>8
<1> QED
  BY <1>1, <1>3, <1>7, <1>8, <1>9 DEF check

\* The update of one column of the children of a sitemap.
LEMMA EnableTyped ==
  ASSUME TypeInv, NEW p, NEW U, NEW v \in BOOLEAN, SetEnabled(p, U, v)
  PROVE  /\ rows' \in Seq(Row) /\ DOMAIN rows' = DOMAIN rows
         /\ \A q \in DOMAIN rows :
              /\ rows'[q].url = rows[q].url /\ rows'[q].parent = rows[q].parent
              /\ rows'[q].lastStatus = rows[q].lastStatus /\ rows'[q].fails = rows[q].fails
              /\ rows'[q].enabled = IF rows[q].parent = p /\ rows[q].url \in U THEN v
                                    ELSE rows[q].enabled
<1>1. /\ rows \in Seq(Row) /\ Len(rows) \in Nat /\ DOMAIN rows = 1..Len(rows)
      /\ \A q \in DOMAIN rows : rows[q] \in Row
  BY DEF TypeInv
<1> DEFINE New(q) == IF rows[q].parent = p /\ rows[q].url \in U
                     THEN [rows[q] EXCEPT !.enabled = v] ELSE rows[q]
<1>2. \A q \in DOMAIN rows :
        /\ New(q) \in Row
        /\ New(q).url = rows[q].url /\ New(q).parent = rows[q].parent
        /\ New(q).lastStatus = rows[q].lastStatus /\ New(q).fails = rows[q].fails
        /\ New(q).enabled = IF rows[q].parent = p /\ rows[q].url \in U THEN v ELSE rows[q].enabled
  BY <1>1 DEF Row
<1>3. rows' = [q \in 1..Len(rows) |-> New(q)]
  BY <1>1 DEF SetEnabled
<1> HIDE DEF New
<1>4. rows' \in Seq(Row) /\ DOMAIN rows' = DOMAIN rows /\ \A q \in DOMAIN rows : rows'[q] = New(q)
  BY <1>1, <1>2, <1>3
<1> QED
  BY <1>2, <1>4

\* A new row comes last and leaves the others alone.
LEMMA AddTyped ==
  ASSUME TypeInv, NEW url \in Urls, NEW p \in Urls \cup {Manual},
         rows' = Append(rows, NewRow(url, p))
  PROVE  /\ rows' \in Seq(Row) /\ Len(rows) \in Nat
         /\ DOMAIN rows = 1..Len(rows) /\ DOMAIN rows' = 1..(Len(rows) + 1)
         /\ \A q \in DOMAIN rows : rows'[q] = rows[q]
         /\ rows'[Len(rows) + 1] = NewRow(url, p)
<1>1. rows \in Seq(Row) /\ Len(rows) \in Nat /\ DOMAIN rows = 1..Len(rows)
  BY DEF TypeInv
<1>2. NewRow(url, p) \in Row
  BY DEF NewRow, Row
<1> DEFINE row == NewRow(url, p)
<1> HIDE DEF row
<1>3. rows' \in Seq(Row) /\ Len(rows') = Len(rows) + 1 /\ rows'[Len(rows) + 1] = row
      /\ \A q \in DOMAIN rows : rows'[q] = rows[q]
  BY <1>1, <1>2 DEF row
<1>4. DOMAIN rows' = 1..(Len(rows) + 1)
  BY <1>1, <1>3
<1> QED
  BY <1>1, <1>3, <1>4 DEF row

-----------------------------------------------------------------------------
(* Types. *)

\* The tables keep their types and only grow.
Grown ==
  /\ rows' \in Seq(Row) /\ checks' \in Seq([row : Nat, status : Statuses])
  /\ \A c \in DOMAIN checks' : checks'[c].row \in DOMAIN rows'
  /\ DOMAIN rows \subseteq DOMAIN rows' /\ DOMAIN checks \subseteq DOMAIN checks'
  /\ \A c \in DOMAIN checks : checks'[c] = checks[c]

LEMMA Unchanged == TypeInv /\ UNCHANGED <<rows, checks>> => Grown
  BY DEF TypeInv, Grown

\* The outcome of a probe is up or down.
LEMMA ResultTyped ==
  ASSUME NEW a
  PROVE  buildResult(a).status \in Statuses /\ buildResult(a).isSitemap \in BOOLEAN
  BY DEF buildResult, Statuses

LEMMA ProbeGrows == ASSUME TypeInv, NEW s \in Workers, ProbeEnds(s) PROVE Grown
<1>1. /\ slots[s].at = "probing" /\ slots[s].job.id \in DOMAIN rows /\ slots[s].monitored \in Row
  BY DEF ProbeEnds, TypeInv, SlotOK
<1>2. PICK a : recordCheck(slots[s].job.id, slots[s].monitored, buildResult(a).status)
  BY DEF ProbeEnds
<1>3. PICK r \in DOMAIN rows, m \in Row, st \in Statuses : recordCheck(r, m, st)
  BY <1>1, <1>2, ResultTyped
<1>4. \A c \in DOMAIN checks : checks[c].row \in DOMAIN rows
  BY DEF TypeInv
<1>5. /\ rows' \in Seq(Row) /\ DOMAIN rows' = DOMAIN rows
      /\ checks' \in Seq([row : Nat, status : Statuses])
      /\ Len(checks) \in Nat /\ DOMAIN checks = 1..Len(checks) /\ DOMAIN checks' = 1..(Len(checks) + 1)
      /\ checks'[Len(checks) + 1].row = r
      /\ \A c \in DOMAIN checks : checks'[c] = checks[c]
  BY <1>3, RecordTyped
<1>6. \A c \in DOMAIN checks' : checks'[c].row \in DOMAIN rows'
  <2> SUFFICES ASSUME NEW c \in DOMAIN checks' PROVE checks'[c].row \in DOMAIN rows'
    OBVIOUS
  <2>1. CASE c \in DOMAIN checks
    BY <1>4, <1>5, <2>1
  <2>2. CASE c = Len(checks) + 1
    BY <1>5, <2>2
  <2> QED
    BY <1>5, <2>1, <2>2
<1> QED
  BY <1>5, <1>6 DEF Grown

LEMMA AddGrows ==
  ASSUME TypeInv, NEW url \in Urls, NEW p \in Urls \cup {Manual},
         rows' = Append(rows, NewRow(url, p)), UNCHANGED checks
  PROVE  Grown
  BY AddTyped DEF TypeInv, Grown

LEMMA EnableGrows ==
  ASSUME TypeInv, NEW p, NEW U, NEW v \in BOOLEAN, SetEnabled(p, U, v), UNCHANGED checks
  PROVE  Grown
  BY EnableTyped DEF TypeInv, Grown

LEMMA CreateGrows == ASSUME TypeInv, NEW s \in Workers, Create(s) PROVE Grown
<1>1. /\ slots[s].at = "creating" /\ slots[s].left \in Seq(Urls) /\ slots[s].left # <<>>
      /\ slots[s].monitored \in Row
  BY DEF Create, TypeInv, SlotOK, Scan, ScanSteps
<1>2. Head(slots[s].left) \in Urls /\ slots[s].monitored.url \in Urls
  BY <1>1 DEF Row
<1>3. CASE rows' = rows
  BY <1>3, Unchanged DEF Create
<1>4. CASE rows' = Append(rows, NewRow(Head(slots[s].left), slots[s].monitored.url))
  BY <1>2, <1>4, AddGrows DEF Create
<1> QED
  BY <1>3, <1>4 DEF Create

LEMMA SubmitGrows ==
  ASSUME TypeInv, NEW q \in Requests, NEW url \in FormUrls, Submit(q, url)
  PROVE  Grown
<1>1. url \in Urls
  BY MonitorAssumption
<1>2. CASE rows' = rows
  BY <1>2, Unchanged DEF Submit
<1>3. CASE rows' = Append(rows, NewRow(url, Manual))
  BY <1>1, <1>3, AddGrows DEF Submit
<1> QED
  BY <1>2, <1>3 DEF Submit

LEMMA TablesGrow == TypeInv /\ [Next]_vars => Grown
<1> SUFFICES ASSUME TypeInv, [Next]_vars PROVE Grown
  OBVIOUS
<1>1. ASSUME NEW s \in Workers, Work(s) PROVE Grown
  <2>1. CASE ProbeEnds(s)
    BY <2>1, ProbeGrows
  <2>2. CASE Create(s)
    BY <2>2, CreateGrows
  <2>3. CASE EnableListed(s) \/ DisableUnlisted(s)
    BY <2>3, EnableGrows DEF EnableListed, DisableUnlisted, Completed
  <2>4. CASE UNCHANGED <<rows, checks>>
    BY <2>4, Unchanged
  <2> QED
    BY <1>1, <2>1, <2>2, <2>3, <2>4 DEF Work, BeginCheck, BeginDiscovery, Notify, Schedule, Send,
       PostEnds, PostRefused, NothingFetched, FetchEnds, Find, Report
<1>2. ASSUME NEW s \in Workers, Fault(s) PROVE Grown
  BY <1>2, Unchanged DEF Fault, SendFails, Killed, CreateRefused, ReportFails, PostFails
<1>3. ASSUME NEW q \in Requests, NEW url \in FormUrls, Submit(q, url) PROVE Grown
  BY <1>3, SubmitGrows
<1>4. CASE CronFires \/ \E q \in Requests : Send(q) \/ SendFails(q)
  BY <1>4, Unchanged DEF CronFires, Send, SendFails
<1>5. CASE UNCHANGED vars
  BY <1>5, Unchanged DEF vars
<1> QED
  BY <1>1, <1>2, <1>3, <1>4, <1>5 DEF Next

\* The jobs of the slots, and what is left of them when they end early.
LEMMA JobTyped ==
  ASSUME TypeInv, NEW s \in Workers \cup Requests, slots[s] # Idle
  PROVE  slots[s].job \in JobSet
<1>1. SlotOK(slots[s]) /\ \A c \in DOMAIN checks : c \in Nat
  BY DEF TypeInv
<1> QED
  BY <1>1 DEF SlotOK, Scan, NOTIFY_WEBHOOK, Job, JobSet, ScanSteps

LEMMA ReturnedIs ==
  ASSUME NEW s, NEW back \in Thrown(s)
  PROVE  \E R \in SUBSET {slots[s].job} :
           back = SetToBag(R) /\ (back # EmptyBag => R = {slots[s].job})
<1>1. EmptyBag = SetToBag({})
  BY DEF EmptyBag
<1> QED
  BY <1>1 DEF Returned, Thrown

\* A worker that is killed gives its job back.
LEMMA KilledReturns ==
  ASSUME NEW s \in Workers
  PROVE  Returned(s) \in Thrown(s) /\ Returned(s) # EmptyBag
<1>1. Returned(s) = SetToBag({slots[s].job})
  BY DEF Returned
<1>2. slots[s].job \in DOMAIN SetToBag({slots[s].job}) /\ DOMAIN EmptyBag = {}
  BY DEF SetToBag, EmptyBag
<1> QED
  BY <1>1, <1>2 DEF Thrown

JobsOK == jobs \in [DOMAIN jobs -> Nat \ {0}] /\ DOMAIN jobs \subseteq JobSet

LEMMA JobsGrow ==
  ASSUME TypeInv, NEW S \in SUBSET JobSet, jobs' = jobs (+) SetToBag(S)
  PROVE  JobsOK' /\ DOMAIN jobs' = DOMAIN jobs \cup S
  BY BagGrows DEF TypeInv, JobsOK

\* The jobs that come back when a slot ends early.
LEMMA JobsReturn ==
  ASSUME TypeInv, NEW s \in Workers \cup Requests, slots[s] # Idle,
         NEW back \in Thrown(s), jobs' = jobs (+) back
  PROVE  /\ JobsOK' /\ DOMAIN jobs \subseteq DOMAIN jobs'
         /\ DOMAIN jobs' \subseteq DOMAIN jobs \cup {slots[s].job}
         /\ back # EmptyBag => DOMAIN jobs' = DOMAIN jobs \cup {slots[s].job}
<1>1. PICK R \in SUBSET {slots[s].job} :
        back = SetToBag(R) /\ (back # EmptyBag => R = {slots[s].job})
  BY ReturnedIs
<1>2. R \in SUBSET JobSet
  BY JobTyped
<1> QED
  BY <1>1, <1>2, JobsGrow

LEMMA JobsTaken ==
  ASSUME TypeInv, NEW s, NEW j, Taken(s, j)
  PROVE  /\ JobsOK' /\ s \in Workers /\ slots[s] = Idle /\ j \in DOMAIN jobs
         /\ DOMAIN jobs' \subseteq DOMAIN jobs /\ DOMAIN jobs \ {j} \subseteq DOMAIN jobs'
  BY BagShrinks DEF TypeInv, JobsOK, Taken, BagIn, BagToSet

\* An enqueue that goes through.
LEMMA JobsSent ==
  ASSUME TypeInv, NEW s \in Workers \cup Requests, Send(s)
  PROVE  /\ JobsOK' /\ slots[s].todo \in Seq(SUBSET JobSet) /\ slots[s].todo # <<>>
         /\ Head(slots[s].todo) \in SUBSET JobSet
         /\ DOMAIN jobs' = DOMAIN jobs \cup Head(slots[s].todo)
<1>1. slots[s].todo \in Seq(SUBSET JobSet) /\ slots[s].todo # <<>>
  BY DEF Send, TypeInv, SlotOK
<1>2. Head(slots[s].todo) \in SUBSET JobSet
  BY <1>1
<1>3. jobs' = jobs (+) SetToBag(Head(slots[s].todo))
  BY DEF Send, Enqueued
<1> QED
  BY <1>1, <1>2, <1>3, JobsGrow

\* An enqueue that fails: its jobs may have been taken all the same.
LEMMA JobsLost ==
  ASSUME TypeInv, NEW s \in Workers \cup Requests, SendFails(s)
  PROVE  /\ JobsOK' /\ DOMAIN jobs \subseteq DOMAIN jobs'
         /\ DOMAIN jobs' \subseteq DOMAIN jobs \cup Head(slots[s].todo) \cup {slots[s].job}
<1>1. slots[s].todo \in Seq(SUBSET JobSet) /\ slots[s].todo # <<>> /\ slots[s].job \in JobSet
  BY DEF SendFails, TypeInv, SlotOK
<1>2. Head(slots[s].todo) \in SUBSET JobSet
  BY <1>1
<1>3. PICK taken \in {{}, Head(slots[s].todo)}, back \in Thrown(s) :
        jobs' = (jobs (+) SetToBag(taken)) (+) back
  BY DEF SendFails, Enqueued
<1>4. PICK R \in SUBSET {slots[s].job} : back = SetToBag(R)
  BY ReturnedIs
<1>5. taken \in SUBSET JobSet /\ R \in SUBSET JobSet
  BY <1>1, <1>2
<1> DEFINE B == jobs (+) SetToBag(taken)
<1>6. jobs \in [DOMAIN jobs -> Nat \ {0}] /\ DOMAIN jobs \subseteq JobSet
  BY DEF TypeInv
<1>7. DOMAIN B = DOMAIN jobs \cup taken /\ B \in [DOMAIN B -> Nat \ {0}]
  BY <1>6, BagGrows
<1> HIDE DEF B
<1>8. DOMAIN (B (+) SetToBag(R)) = DOMAIN B \cup R
      /\ B (+) SetToBag(R) \in [DOMAIN B \cup R -> Nat \ {0}]
  BY <1>7, BagGrows
<1>9. jobs' = B (+) SetToBag(R)
  BY <1>3, <1>4 DEF B
<1> QED
  BY <1>5, <1>6, <1>7, <1>8, <1>9 DEF JobsOK

LEMMA JobsStep == TypeInv /\ [Next]_vars => JobsOK'
<1> SUFFICES ASSUME TypeInv, [Next]_vars PROVE JobsOK'
  OBVIOUS
<1>a. JobsOK
  BY DEF TypeInv, JobsOK
<1>b. CASE UNCHANGED jobs
  BY <1>a, <1>b DEF JobsOK
<1>1. ASSUME NEW s \in Workers, Work(s) PROVE JobsOK'
  <2>1. CASE \E j : Taken(s, j)
    BY <2>1, JobsTaken
  <2>2. CASE Send(s)
    BY <2>2, JobsSent
  <2> QED
    BY <1>1, <1>b, <2>1, <2>2 DEF Work, BeginCheck, BeginDiscovery, Notify, Schedule, ProbeEnds,
       PostEnds, PostRefused, NothingFetched, FetchEnds, Find, Create, EnableListed, DisableUnlisted,
       Completed, Report
<1>2. ASSUME NEW s \in Workers, Fault(s) PROVE JobsOK'
  <2>1. CASE SendFails(s)
    BY <2>1, JobsLost
  <2>2. CASE Killed(s) \/ CreateRefused(s) \/ ReportFails(s) \/ PostFails(s)
    <3>1. \E back \in Thrown(s) : jobs' = jobs (+) back
      BY <2>2, KilledReturns DEF Killed, CreateRefused, ReportFails, PostFails
    <3>2. slots[s] # Idle
      BY <2>2 DEF Killed, CreateRefused, ReportFails, PostFails, Idle
    <3> QED
      BY <3>1, <3>2, JobsReturn
  <2> QED
    BY <1>2, <2>1, <2>2 DEF Fault
<1>3. ASSUME NEW q \in Requests, Send(q) \/ SendFails(q) PROVE JobsOK'
  BY <1>3, JobsSent, JobsLost
<1>4. CASE CronFires
  <2>1. {SCHEDULE_CHECKS} \in SUBSET JobSet
    BY DEF SCHEDULE_CHECKS, Job, JobSet
  <2>2. jobs' = jobs (+) SetToBag({SCHEDULE_CHECKS})
    BY <1>4 DEF CronFires, Enqueued
  <2> QED
    BY <2>1, <2>2, JobsGrow
<1> QED
  BY <1>b, <1>1, <1>2, <1>3, <1>4 DEF Next, Submit, vars

SlotsOK ==
  /\ DOMAIN slots = Workers \cup Requests
  /\ \A s \in Workers \cup Requests : SlotOK(slots[s])
  /\ \A q \in Requests : slots[q].at \in {"idle", "sending"}

\* What a slot holds stays right as the tables grow.
LEMMA SlotKept ==
  ASSUME TypeInv, Grown, NEW t, SlotOK(t)
  PROVE  SlotOK(t)'
  BY DEF Grown, SlotOK

\* A step changes one slot.
LEMMA OneSlot ==
  ASSUME TypeInv, Grown, NEW s \in Workers \cup Requests, NEW t, SlotOK(t)',
         slots' = [slots EXCEPT ![s] = t], s \in Requests => t.at \in {"idle", "sending"}
  PROVE  SlotsOK'
<1>1. /\ DOMAIN slots = Workers \cup Requests
      /\ \A u \in Workers \cup Requests : SlotOK(slots[u])
      /\ \A q \in Requests : slots[q].at \in {"idle", "sending"}
  BY DEF TypeInv
<1>2. DOMAIN slots' = Workers \cup Requests /\ slots'[s] = t
      /\ \A u \in Workers \cup Requests : u # s => slots'[u] = slots[u]
  BY <1>1
<1>3. ASSUME NEW u \in Workers \cup Requests PROVE SlotOK(slots[u])'
  <2>1. CASE u = s
    <3>1. slots'[u] = t
      BY <1>2, <2>1
    <3> QED
      BY <3>1 DEF SlotOK
  <2>2. CASE u # s
    <3>1. PICK x : x = slots[u]
      OBVIOUS
    <3>2. SlotOK(x)
      BY <1>1, <3>1
    <3>3. SlotOK(x)'
      BY <3>2, SlotKept
    <3>4. slots'[u] = x
      BY <1>2, <2>2, <3>1
    <3> QED
      BY <3>3, <3>4 DEF SlotOK
  <2> QED
    BY <2>1, <2>2
<1>4. \A q \in Requests : slots'[q].at \in {"idle", "sending"}
  BY <1>1, <1>2
<1> QED
  BY <1>2, <1>3, <1>4 DEF SlotsOK

LEMMA IdleOK == SlotOK(Idle)' /\ Idle.at = "idle"
  BY DEF SlotOK, Idle, ScanSteps

LEMMA ContinueOK ==
  ASSUME NEW job \in JobSet, job.type # "notify", NEW todo \in Seq(SUBSET JobSet)
  PROVE  SlotOK(Continue(job, todo))' /\ Continue(job, todo).at \in {"idle", "sending"}
  BY DEF SlotOK, Continue, Sending, Idle, ScanSteps

\* A slot that is free after the step.
LEMMA SlotFreed ==
  ASSUME TypeInv, Grown, NEW s \in Workers \cup Requests, slots' = [slots EXCEPT ![s] = Idle]
  PROVE  SlotsOK'
  BY IdleOK, OneSlot

\* A slot that has enqueues to send after the step, if any.
LEMMA SlotSends ==
  ASSUME TypeInv, Grown, NEW s \in Workers \cup Requests,
         NEW job \in JobSet, job.type # "notify", NEW todo \in Seq(SUBSET JobSet),
         slots' = [slots EXCEPT ![s] = Continue(job, todo)]
  PROVE  SlotsOK'
<1>1. PICK t : t = Continue(job, todo)
  OBVIOUS
<1>2. SlotOK(t)' /\ t.at \in {"idle", "sending"}
  BY <1>1, ContinueOK
<1> QED
  BY <1>1, <1>2, OneSlot

LEMMA CheckSlots ==
  ASSUME TypeInv, Grown, NEW s \in Workers, NEW r \in DOMAIN rows, BeginCheck(s, r)
  PROVE  SlotsOK'
<1>1. CASE slots' = [slots EXCEPT ![s] = Idle]
  BY <1>1, SlotFreed
<1>2. CASE slots' = [slots EXCEPT ![s] = Reading("probing", CHECK_URL(r), rows[r])]
  <2>1. PICK t : t = Reading("probing", CHECK_URL(r), rows[r])
    OBVIOUS
  <2>2. rows[r] \in Row /\ r \in Nat /\ r \in DOMAIN rows'
    BY DEF TypeInv, Grown
  <2>3. SlotOK(t)'
    BY <2>1, <2>2 DEF Reading, SlotOK, CHECK_URL, Job, JobSet, ScanSteps
  <2> QED
    BY <1>2, <2>1, <2>3, OneSlot, MonitorAssumption
<1> QED
  BY <1>1, <1>2 DEF BeginCheck

LEMMA DiscoverySlots ==
  ASSUME TypeInv, Grown, NEW s \in Workers, NEW r \in DOMAIN rows, BeginDiscovery(s, r)
  PROVE  SlotsOK'
<1>1. PICK t : t = Reading("fetching", DISCOVER_SITEMAP_URLS(r), rows[r])
  OBVIOUS
<1>2. rows[r] \in Row /\ r \in Nat
  BY DEF TypeInv
<1>3. SlotOK(t)'
  BY <1>1, <1>2 DEF Reading, SlotOK, DISCOVER_SITEMAP_URLS, Job, JobSet, ScanSteps
<1>4. slots' = [slots EXCEPT ![s] = t]
  BY <1>1 DEF BeginDiscovery
<1> QED
  BY <1>3, <1>4, OneSlot, MonitorAssumption

LEMMA NotifySlots ==
  ASSUME TypeInv, Grown, NEW s \in Workers, NEW c \in DOMAIN checks, Notify(s, c)
  PROVE  SlotsOK'
<1>1. PICK t : t = [at |-> "posting", job |-> NOTIFY_WEBHOOK(c),
                    body |-> [check |-> c, status |-> checks[c].status]]
  OBVIOUS
<1>2. c \in DOMAIN checks' /\ checks'[c].status = checks[c].status
  BY DEF Grown
<1>3. SlotOK(t)'
  BY <1>1, <1>2 DEF SlotOK, ScanSteps
<1>4. slots' = [slots EXCEPT ![s] = t]
  BY <1>1 DEF Notify
<1> QED
  BY <1>3, <1>4, OneSlot, MonitorAssumption

\* The sets of rows the jobs of a request are about are finite.
LEMMA IdsTyped ==
  ASSUME TypeInv, NEW ids \in SUBSET DOMAIN rows
  PROVE  ids \in SUBSET Nat /\ IsFiniteSet(ids)
<1>1. Len(rows) \in Nat /\ DOMAIN rows = 1..Len(rows)
  BY DEF TypeInv
<1>2. IsFiniteSet(1..Len(rows))
  BY <1>1, FS_Interval
<1>3. IsFiniteSet(ids)
  BY <1>1, <1>2, FS_Subset
<1> QED
  BY <1>1, <1>3

LEMMA ScheduleSlots ==
  ASSUME TypeInv, Grown, NEW s \in Workers, Schedule(s)
  PROVE  SlotsOK'
<1>1. PICK old : slots' = [slots EXCEPT ![s] =
                    Continue(SCHEDULE_CHECKS, Batches(findStaleEnabledIds(old)))]
  BY DEF Schedule
<1>2. findStaleEnabledIds(old) \in SUBSET DOMAIN rows
  BY DEF findStaleEnabledIds
<1>3. Batches(findStaleEnabledIds(old)) \in Seq(SUBSET JobSet)
  BY <1>2, IdsTyped, BatchesTyped
<1>4. SCHEDULE_CHECKS \in JobSet /\ SCHEDULE_CHECKS.type # "notify"
  BY DEF SCHEDULE_CHECKS, Job, JobSet
<1> QED
  BY <1>1, <1>3, <1>4, SlotSends

LEMMA ReportSlots ==
  ASSUME TypeInv, Grown, NEW s \in Workers, Report(s)
  PROVE  SlotsOK'
<1> DEFINE ids == enabledSitemapChildrenIds(slots[s].monitored.url)
<1>1. ids \in SUBSET DOMAIN rows
  BY DEF enabledSitemapChildrenIds
<1> HIDE DEF ids
<1>2. Batches(ids) \in Seq(SUBSET JobSet)
  BY <1>1, IdsTyped, BatchesTyped
<1>3. slots[s].job \in JobSet /\ slots[s].job.type # "notify"
  BY DEF Report, TypeInv, SlotOK, Scan
<1>4. slots' = [slots EXCEPT ![s] = Continue(slots[s].job, Batches(ids))]
  BY DEF Report, TypeInv, ids
<1> QED
  BY <1>2, <1>3, <1>4, SlotSends

LEMMA SendSlots ==
  ASSUME TypeInv, Grown, NEW s \in Workers \cup Requests, Send(s)
  PROVE  SlotsOK'
<1>1. /\ slots[s].job \in JobSet /\ slots[s].job.type # "notify"
      /\ slots[s].todo \in Seq(SUBSET JobSet) /\ slots[s].todo # <<>>
  BY DEF Send, TypeInv, SlotOK
<1>2. Tail(slots[s].todo) \in Seq(SUBSET JobSet)
  BY <1>1
<1>3. slots' = [slots EXCEPT ![s] = Continue(slots[s].job, Tail(slots[s].todo))]
  BY DEF Send, TypeInv
<1> QED
  BY <1>1, <1>2, <1>3, SlotSends

\* What follows from a probe: at most two requests.
News2(s, result) ==
  (IF statusTransitioned(slots[s].monitored.lastStatus, result.status)
   THEN <<emit, {NOTIFY_WEBHOOK(Len(checks) + 1)}>> ELSE <<>>)
  \o (IF result.isSitemap THEN <<{DISCOVER_SITEMAP_URLS(slots[s].job.id)}>> ELSE <<>>)

LEMMA ProbeSlots ==
  ASSUME TypeInv, Grown, NEW s \in Workers, ProbeEnds(s)
  PROVE  SlotsOK'
<1>1. /\ slots[s].at = "probing" /\ slots[s].job \in JobSet /\ slots[s].job.type # "notify"
      /\ slots[s].job.id \in Nat
  BY DEF ProbeEnds, TypeInv, SlotOK, JobSet
<1>2. PICK result : slots' = [slots EXCEPT ![s] = Continue(slots[s].job, News2(s, result))]
  BY DEF ProbeEnds, News2, TypeInv
<1>3. Len(checks) + 1 \in Nat
  BY DEF TypeInv
<1>4. /\ emit \in SUBSET JobSet
      /\ {NOTIFY_WEBHOOK(Len(checks) + 1)} \in SUBSET JobSet
      /\ {DISCOVER_SITEMAP_URLS(slots[s].job.id)} \in SUBSET JobSet
  BY <1>1, <1>3 DEF emit, NOTIFY_WEBHOOK, DISCOVER_SITEMAP_URLS, Job, JobSet
<1>5. News2(s, result) \in Seq(SUBSET JobSet)
  <2> DEFINE a == IF statusTransitioned(slots[s].monitored.lastStatus, result.status)
                  THEN <<emit, {NOTIFY_WEBHOOK(Len(checks) + 1)}>> ELSE <<>>
             b == IF result.isSitemap THEN <<{DISCOVER_SITEMAP_URLS(slots[s].job.id)}>> ELSE <<>>
  <2>1. a \in Seq(SUBSET JobSet)
    <3>1. PICK x, y \in SUBSET JobSet : x = emit /\ y = {NOTIFY_WEBHOOK(Len(checks) + 1)}
      BY <1>4
    <3>2. <<x, y>> \in Seq(SUBSET JobSet) /\ <<>> \in Seq(SUBSET JobSet)
      OBVIOUS
    <3> QED
      BY <3>1, <3>2
  <2>2. b \in Seq(SUBSET JobSet)
    <3>1. PICK x \in SUBSET JobSet : x = {DISCOVER_SITEMAP_URLS(slots[s].job.id)}
      BY <1>4
    <3>2. <<x>> \in Seq(SUBSET JobSet) /\ <<>> \in Seq(SUBSET JobSet)
      OBVIOUS
    <3> QED
      BY <3>1, <3>2
  <2>3. News2(s, result) = a \o b
    BY DEF News2
  <2> HIDE DEF a, b
  <2> QED
    BY <2>1, <2>2, <2>3
<1> QED
  BY <1>1, <1>2, <1>5, SlotSends

LEMMA SubmitSlots ==
  ASSUME TypeInv, Grown, NEW q \in Requests, NEW url \in FormUrls, Submit(q, url)
  PROVE  SlotsOK'
<1> DEFINE found == findByUrlScoped(url, Manual)
           id == IF found = {} THEN Len(rows) + 1 ELSE CHOOSE r \in found : TRUE
           todo == IF found = {} THEN <<{CHECK_URL(id)}, emit>> ELSE <<{CHECK_URL(id)}>>
<1>1. id \in Nat
  BY DEF findByUrlScoped, TypeInv
<1>2. slots' = [slots EXCEPT ![q] = Sending(CHECK_URL(id), todo)]
  BY DEF Submit
<1> HIDE DEF id
<1>3. CHECK_URL(id) \in JobSet /\ CHECK_URL(id).type # "notify" /\ emit \in SUBSET JobSet
  BY <1>1 DEF CHECK_URL, Job, JobSet, emit
<1>4. todo \in Seq(SUBSET JobSet) /\ todo # <<>>
  BY <1>3
<1> HIDE DEF todo
<1>5. slots' = [slots EXCEPT ![q] = Continue(CHECK_URL(id), todo)]
  BY <1>2, <1>4 DEF Continue
<1> QED
  BY <1>3, <1>4, <1>5, SlotSends

\* The steps of a scan, from the fetch to the last update: what its slot holds
\* afterwards.
LEMMA FetchTo ==
  ASSUME TypeInv, NEW s \in Workers, FetchEnds(s)
  PROVE  \E t \in Scan :
           /\ slots' = [slots EXCEPT ![s] = t]
           /\ t.at = "finding" /\ t.job.type = "discover"
           /\ t.monitored = slots[s].monitored /\ t.left = t.discovered
<1>1. PICK d \in Bodies : slots' = [slots EXCEPT ![s] =
        [at |-> "finding", job |-> slots[s].job, monitored |-> slots[s].monitored,
         discovered |-> d, left |-> d]]
  BY DEF FetchEnds, TypeInv
<1>2. PICK t : t = [at |-> "finding", job |-> slots[s].job, monitored |-> slots[s].monitored,
                    discovered |-> d, left |-> d]
  OBVIOUS
<1>3. /\ slots[s].job \in JobSet /\ slots[s].job.type = "discover"
      /\ slots[s].monitored \in Row /\ d \in Seq(Urls)
  BY MonitorAssumption DEF FetchEnds, SlotOK, TypeInv
<1>4. t \in Scan
  BY <1>2, <1>3 DEF Scan, ScanSteps
<1> QED
  BY <1>1, <1>2, <1>3, <1>4

\* A scan at one of its steps.
LEMMA ScanTyped ==
  ASSUME TypeInv, NEW s \in Workers, slots[s].at \in {"reporting"} \cup ScanSteps
  PROVE  /\ slots[s] \in Scan /\ slots[s].job.type = "discover" /\ slots[s].monitored.url \in Urls
         /\ slots[s].at = "creating" => slots[s].left # <<>>
         /\ slots[s].left # <<>> => Tail(slots[s].left) \in Seq(Urls) /\ Head(slots[s].left) \in Urls
<1>1. slots[s] \in Scan /\ slots[s].job.type = "discover" /\ (slots[s].at = "creating" => slots[s].left # <<>>)
  BY DEF TypeInv, SlotOK
<1>2. slots[s].left \in Seq(Urls) /\ slots[s].monitored \in Row
  BY <1>1 DEF Scan
<1>3. slots[s].left # <<>> => Tail(slots[s].left) \in Seq(Urls) /\ Head(slots[s].left) \in Urls
  BY <1>2
<1>4. slots[s].monitored.url \in Urls
  BY <1>2 DEF Row
<1> QED
  BY <1>1, <1>3, <1>4

\* The slot is moved to another step.
LEMMA Moved ==
  ASSUME NEW old \in Scan, NEW x \in {"reporting"} \cup ScanSteps
  PROVE  /\ [old EXCEPT !.at = x] \in Scan /\ [old EXCEPT !.at = x].at = x
         /\ [old EXCEPT !.at = x].job = old.job /\ [old EXCEPT !.at = x].monitored = old.monitored
         /\ [old EXCEPT !.at = x].discovered = old.discovered /\ [old EXCEPT !.at = x].left = old.left
  BY DEF Scan

Sought(t) == findByUrlScoped(Head(t.left), t.monitored.url)

LEMMA FindTo ==
  ASSUME TypeInv, NEW s \in Workers, Find(s)
  PROVE  \E t \in Scan :
           /\ slots' = [slots EXCEPT ![s] = t]
           /\ t.job = slots[s].job /\ t.monitored = slots[s].monitored
           /\ t.discovered = slots[s].discovered
           /\ \/ /\ slots[s].left = <<>> /\ t.left = <<>>
                 /\ t.at = IF t.discovered = <<>> THEN "disabling" ELSE "enabling"
              \/ /\ slots[s].left # <<>> /\ Sought(slots[s]) # {}
                 /\ t.at = "finding" /\ t.left = Tail(slots[s].left)
              \/ /\ slots[s].left # <<>> /\ Sought(slots[s]) = {}
                 /\ t.at = "creating" /\ t.left = slots[s].left
<1> DEFINE old == slots[s]
<1>1. /\ old \in Scan /\ old.at = "finding"
      /\ old.left # <<>> => Tail(old.left) \in Seq(Urls)
  BY ScanTyped DEF Find, ScanSteps
<1>2. CASE old.left = <<>>
  <2> DEFINE x == IF old.discovered = <<>> THEN "disabling" ELSE "enabling"
             t == [old EXCEPT !.at = x]
  <2>1. slots' = [slots EXCEPT ![s] = t]
    BY <1>2 DEF Find
  <2>2. x \in {"reporting"} \cup ScanSteps
    BY DEF ScanSteps
  <2> HIDE DEF x
  <2>3. /\ t \in Scan /\ t.at = x /\ t.job = old.job /\ t.monitored = old.monitored
        /\ t.discovered = old.discovered /\ t.left = old.left
    BY <1>1, <2>2, Moved
  <2> HIDE DEF t
  <2> QED
    BY <1>2, <2>1, <2>3 DEF x
<1>3. CASE old.left # <<>> /\ Sought(old) # {}
  <2> DEFINE t == [old EXCEPT !.left = Tail(old.left)]
  <2>1. /\ t \in Scan /\ t.job = old.job /\ t.monitored = old.monitored /\ t.at = "finding"
        /\ t.discovered = old.discovered /\ t.left = Tail(old.left)
    BY <1>1, <1>3 DEF Scan
  <2>2. slots' = [slots EXCEPT ![s] = t]
    BY <1>3 DEF Find, Sought
  <2> HIDE DEF t
  <2> QED
    BY <1>3, <2>1, <2>2
<1>4. CASE old.left # <<>> /\ Sought(old) = {}
  <2> DEFINE t == [old EXCEPT !.at = "creating"]
  <2>1. slots' = [slots EXCEPT ![s] = t]
    BY <1>4 DEF Find, Sought
  <2>2. /\ t \in Scan /\ t.at = "creating" /\ t.job = old.job /\ t.monitored = old.monitored
        /\ t.discovered = old.discovered /\ t.left = old.left
    BY <1>1, Moved DEF ScanSteps
  <2> HIDE DEF t
  <2> QED
    BY <1>4, <2>1, <2>2
<1> QED
  BY <1>2, <1>3, <1>4

LEMMA CreateTo ==
  ASSUME TypeInv, NEW s \in Workers, Create(s)
  PROVE  \E t \in Scan :
           /\ slots' = [slots EXCEPT ![s] = t]
           /\ t.job = slots[s].job /\ t.monitored = slots[s].monitored
           /\ t.discovered = slots[s].discovered
           /\ t.at = "finding" /\ slots[s].left # <<>> /\ t.left = Tail(slots[s].left)
<1> DEFINE old == slots[s]
           t == [old EXCEPT !.at = "finding", !.left = Tail(old.left)]
<1>1. old \in Scan /\ old.left # <<>> /\ Tail(old.left) \in Seq(Urls)
  BY ScanTyped DEF Create, ScanSteps
<1>2. /\ t \in Scan /\ t.at = "finding" /\ t.job = old.job /\ t.monitored = old.monitored
      /\ t.discovered = old.discovered /\ t.left = Tail(old.left)
  BY <1>1 DEF Scan, ScanSteps
<1>3. slots' = [slots EXCEPT ![s] = t]
  BY DEF Create
<1> HIDE DEF t
<1> QED
  BY <1>1, <1>2, <1>3

LEMMA UpdateTo ==
  ASSUME TypeInv, NEW s \in Workers, EnableListed(s) \/ DisableUnlisted(s)
  PROVE  \E t \in Scan :
           /\ slots' = [slots EXCEPT ![s] = t]
           /\ t.job = slots[s].job /\ t.monitored = slots[s].monitored
           /\ t.discovered = slots[s].discovered /\ t.left = slots[s].left
           /\ EnableListed(s) => t.at = "disabling"
           /\ DisableUnlisted(s) => t.at = "reporting"
<1> DEFINE old == slots[s]
<1>1. old \in Scan
  BY ScanTyped DEF EnableListed, DisableUnlisted, ScanSteps
<1>2. CASE EnableListed(s)
  <2> DEFINE t == [old EXCEPT !.at = "disabling"]
  <2>1. slots' = [slots EXCEPT ![s] = t] /\ ~DisableUnlisted(s)
    BY <1>2 DEF EnableListed, DisableUnlisted
  <2>2. /\ t \in Scan /\ t.at = "disabling" /\ t.job = old.job /\ t.monitored = old.monitored
        /\ t.discovered = old.discovered /\ t.left = old.left
    BY <1>1, Moved DEF ScanSteps
  <2> HIDE DEF t
  <2> QED
    BY <2>1, <2>2
<1>3. CASE DisableUnlisted(s)
  <2> DEFINE t == [old EXCEPT !.at = "reporting"]
  <2>1. slots' = [slots EXCEPT ![s] = t] /\ ~EnableListed(s)
    BY <1>3 DEF EnableListed, DisableUnlisted, Completed
  <2>2. /\ t \in Scan /\ t.at = "reporting" /\ t.job = old.job /\ t.monitored = old.monitored
        /\ t.discovered = old.discovered /\ t.left = old.left
    BY <1>1, Moved
  <2> HIDE DEF t
  <2> QED
    BY <2>1, <2>2
<1> QED
  BY <1>2, <1>3

LEMMA ScanSlots ==
  ASSUME TypeInv, Grown, NEW s \in Workers,
         FetchEnds(s) \/ Find(s) \/ Create(s) \/ EnableListed(s) \/ DisableUnlisted(s)
  PROVE  SlotsOK'
<1>1. PICK t \in Scan : /\ slots' = [slots EXCEPT ![s] = t] /\ t.job.type = "discover"
                        /\ t.at = "creating" => t.left # <<>>
  <2>1. FetchEnds(s) \/ slots[s].job.type = "discover"
    BY ScanTyped DEF Find, Create, EnableListed, DisableUnlisted, ScanSteps
  <2> QED
    BY <2>1, FetchTo, FindTo, CreateTo, UpdateTo
<1>2. SlotOK(t)'
  BY <1>1 DEF SlotOK, Scan, ScanSteps
<1> QED
  BY <1>1, <1>2, OneSlot, MonitorAssumption

LEMMA SlotsStep == TypeInv /\ Grown /\ [Next]_vars => SlotsOK'
<1> SUFFICES ASSUME TypeInv, Grown, [Next]_vars PROVE SlotsOK'
  OBVIOUS
<1>1. ASSUME NEW s \in Workers, Work(s) PROVE SlotsOK'
  <2>1. ASSUME NEW r \in DOMAIN rows, BeginCheck(s, r) \/ BeginDiscovery(s, r) PROVE SlotsOK'
    BY <2>1, CheckSlots, DiscoverySlots
  <2>2. ASSUME NEW c \in DOMAIN checks, Notify(s, c) PROVE SlotsOK'
    BY <2>2, NotifySlots
  <2>3. CASE Schedule(s) \/ ProbeEnds(s) \/ Send(s) \/ Report(s)
    BY <2>3, ScheduleSlots, ProbeSlots, SendSlots, ReportSlots
  <2>4. CASE PostEnds(s) \/ PostRefused(s) \/ NothingFetched(s)
    BY <2>4, SlotFreed DEF PostEnds, PostRefused, NothingFetched
  <2>5. CASE FetchEnds(s) \/ Find(s) \/ Create(s) \/ EnableListed(s) \/ DisableUnlisted(s)
    BY <2>5, ScanSlots
  <2> QED
    BY <1>1, <2>1, <2>2, <2>3, <2>4, <2>5 DEF Work
<1>2. ASSUME NEW s \in Workers, Fault(s) PROVE SlotsOK'
  BY <1>2, SlotFreed DEF Fault, SendFails, Killed, CreateRefused, ReportFails, PostFails
<1>3. ASSUME NEW q \in Requests, Send(q) \/ SendFails(q) PROVE SlotsOK'
  BY <1>3, SendSlots, SlotFreed DEF SendFails
<1>4. ASSUME NEW q \in Requests, NEW url \in FormUrls, Submit(q, url) PROVE SlotsOK'
  BY <1>4, SubmitSlots
<1>5. CASE UNCHANGED slots
  <2>1. /\ DOMAIN slots = Workers \cup Requests
        /\ \A u \in Workers \cup Requests : SlotOK(slots[u])
        /\ \A q \in Requests : slots[q].at \in {"idle", "sending"}
    BY DEF TypeInv
  <2>2. ASSUME NEW u \in Workers \cup Requests PROVE SlotOK(slots[u])'
    <3>1. PICK x : x = slots[u]
      OBVIOUS
    <3>2. SlotOK(x)'
      BY <2>1, <3>1, SlotKept
    <3>3. slots'[u] = x
      BY <1>5, <3>1
    <3> QED
      BY <3>2, <3>3 DEF SlotOK
  <2> QED
    BY <1>5, <2>1, <2>2 DEF SlotsOK
<1> QED
  BY <1>1, <1>2, <1>3, <1>4, <1>5 DEF Next, CronFires, vars

LEMMA TypeInit == Init => TypeInv
  BY MonitorAssumption DEF Init, TypeInv, EmptyBag, SetToBag, SlotOK, Idle, ScanSteps

LEMMA TypeStep == TypeInv /\ [Next]_vars => TypeInv'
  BY TablesGrow, JobsStep, SlotsStep DEF TypeInv, Grown, JobsOK, SlotsOK

-----------------------------------------------------------------------------
(* The count of failures. *)

\* Which checks may be under way after a step: those that were, crossed if they
\* were, and one that begins, which holds the row as it is.
LEMMA ProbesKept ==
  ASSUME TypeInv, [Next]_vars, NEW u \in Workers, slots'[u].at = "probing"
  PROVE  \/ slots'[u] = slots[u] /\ (u \in disturbed => u \in disturbed')
         \/ \E r \in DOMAIN rows : /\ slots'[u] = Reading("probing", CHECK_URL(r), rows[r])
                                   /\ UNCHANGED <<rows, checks>>
<1> DEFINE Kept == slots'[u] = slots[u] /\ (u \in disturbed => u \in disturbed')
<1>a. u \in DOMAIN slots /\ Idle.at # "probing" /\ \A job, todo : Continue(job, todo).at # "probing"
  BY DEF TypeInv, Idle, Continue, Sending
<1>b. ASSUME NEW s, NEW t, slots' = [slots EXCEPT ![s] = t], disturbed \ {s} \subseteq disturbed',
             t.at # "probing" \/ s # u
      PROVE  Kept
  BY <1>a, <1>b
<1>1. ASSUME NEW s \in Workers, Work(s)
      PROVE  \/ Kept
             \/ \E r \in DOMAIN rows : /\ slots'[u] = Reading("probing", CHECK_URL(r), rows[r])
                                       /\ UNCHANGED <<rows, checks>>
  <2>1. ASSUME NEW r \in DOMAIN rows, BeginCheck(s, r)
        PROVE  \/ Kept
               \/ /\ slots'[u] = Reading("probing", CHECK_URL(r), rows[r])
                  /\ UNCHANGED <<rows, checks>>
    BY <2>1, <1>a DEF BeginCheck, TypeInv
  <2>2. ASSUME NEW r \in DOMAIN rows, BeginDiscovery(s, r) PROVE Kept
    BY <2>2, <1>a DEF BeginDiscovery, Reading, TypeInv, histories
  <2>3. ASSUME NEW c \in DOMAIN checks, Notify(s, c) PROVE Kept
    BY <2>3, <1>a DEF Notify, TypeInv, histories
  <2>4. CASE Schedule(s) \/ ProbeEnds(s) \/ Send(s) \/ Report(s)
    <3>1. PICK job, todo : slots' = [slots EXCEPT ![s] = Continue(job, todo)]
      BY <2>4 DEF Schedule, ProbeEnds, Send, Report
    <3>2. disturbed \ {s} \subseteq disturbed'
      BY <2>4 DEF Schedule, ProbeEnds, Send, Report, histories
    <3> QED
      BY <3>1, <3>2, <1>a, <1>b
  <2>5. CASE PostEnds(s) \/ PostRefused(s) \/ NothingFetched(s)
    BY <2>5, <1>a, <1>b DEF PostEnds, PostRefused, NothingFetched, histories
  <2>6. CASE FetchEnds(s) \/ Find(s) \/ Create(s) \/ EnableListed(s) \/ DisableUnlisted(s)
    <3>1. PICK t \in Scan : slots' = [slots EXCEPT ![s] = t]
      BY <2>6, FetchTo, FindTo, CreateTo, UpdateTo
    <3>2. t.at # "probing"
      BY DEF Scan, ScanSteps
    <3>3. disturbed \ {s} \subseteq disturbed'
      BY <2>6 DEF FetchEnds, Find, Create, EnableListed, DisableUnlisted, Completed, histories
    <3> QED
      BY <3>1, <3>2, <3>3, <1>b
  <2> QED
    BY <1>1, <2>1, <2>2, <2>3, <2>4, <2>5, <2>6 DEF Work
<1>2. ASSUME NEW s \in Workers, Fault(s) PROVE Kept
  <2>1. slots' = [slots EXCEPT ![s] = Idle] /\ disturbed \ {s} \subseteq disturbed'
    BY <1>2 DEF Fault, SendFails, Killed, CreateRefused, ReportFails, PostFails, Noted, histories
  <2> QED
    BY <2>1, <1>a, <1>b
<1>3. ASSUME NEW q \in Requests PROVE q # u
  BY MonitorAssumption
<1>4. ASSUME NEW q \in Requests, Send(q) \/ SendFails(q) PROVE Kept
  BY <1>3, <1>4, <1>a DEF Send, SendFails, Noted, histories
<1>5. ASSUME NEW q \in Requests, NEW url \in FormUrls, Submit(q, url) PROVE Kept
  BY <1>3, <1>5, <1>a DEF Submit, histories
<1>6. CASE UNCHANGED <<slots, histories>>
  BY <1>6 DEF histories
<1> QED
  BY <1>1, <1>2, <1>4, <1>5, <1>6 DEF Next, CronFires, vars

\* Whatever a step other than the end of a probe does to the rows, it leaves
\* their status and count alone.
LEMMA CountsKept ==
  ASSUME TypeInv, [Next]_vars, \A s \in Workers : ~ProbeEnds(s)
  PROVE  /\ UNCHANGED <<checks, miscounted>> /\ untold \subseteq untold'
         /\ \A r \in DOMAIN rows : /\ r \in DOMAIN rows'
                                   /\ rows'[r].lastStatus = rows[r].lastStatus
                                   /\ rows'[r].fails = rows[r].fails
         /\ \A r \in DOMAIN rows' \ DOMAIN rows : rows'[r].lastStatus = Never /\ rows'[r].fails = 0
<1> USE DEF histories
<1>a. CASE UNCHANGED rows
  <2>1. UNCHANGED <<checks, miscounted>> /\ untold \subseteq untold'
    BY <1>a DEF Next, Work, Fault, BeginCheck, BeginDiscovery, Notify, Schedule, Send,
       PostEnds, PostRefused, NothingFetched, FetchEnds, Find, Create, EnableListed, DisableUnlisted,
       Completed, Report, SendFails, Killed, CreateRefused, ReportFails, PostFails, CronFires, Submit, vars, Noted
  <2> QED
    BY <1>a, <2>1
<1>b. ASSUME NEW url \in Urls, NEW p \in Urls \cup {Manual}, rows' = Append(rows, NewRow(url, p)),
             UNCHANGED <<checks, miscounted, untold>>
      PROVE  /\ UNCHANGED <<checks, miscounted>> /\ untold \subseteq untold'
             /\ \A r \in DOMAIN rows : /\ r \in DOMAIN rows'
                                       /\ rows'[r].lastStatus = rows[r].lastStatus
                                       /\ rows'[r].fails = rows[r].fails
             /\ \A r \in DOMAIN rows' \ DOMAIN rows : rows'[r].lastStatus = Never /\ rows'[r].fails = 0
  BY <1>b, AddTyped DEF NewRow
<1>c. ASSUME NEW s \in Workers, Create(s), rows' # rows
      PROVE  \E url \in Urls, p \in Urls \cup {Manual} : rows' = Append(rows, NewRow(url, p))
  BY <1>c, ScanTyped DEF Create, ScanSteps
<1>d. ASSUME NEW q \in Requests, NEW url \in FormUrls, Submit(q, url), rows' # rows
      PROVE  \E v \in Urls, p \in Urls \cup {Manual} : rows' = Append(rows, NewRow(v, p))
  BY <1>d, MonitorAssumption DEF Submit
<1>e. ASSUME NEW s \in Workers, EnableListed(s) \/ DisableUnlisted(s)
      PROVE  /\ UNCHANGED <<checks, miscounted>> /\ untold \subseteq untold'
             /\ \A r \in DOMAIN rows : /\ r \in DOMAIN rows'
                                       /\ rows'[r].lastStatus = rows[r].lastStatus
                                       /\ rows'[r].fails = rows[r].fails
             /\ DOMAIN rows' \ DOMAIN rows = {}
  <2>1. PICK v \in BOOLEAN : \E p, U : SetEnabled(p, U, v)
    <3>1. CASE EnableListed(s)
      BY <3>1 DEF EnableListed
    <3>2. CASE DisableUnlisted(s)
      BY <3>2 DEF DisableUnlisted
    <3> QED
      BY <1>e, <3>1, <3>2
  <2>2. UNCHANGED <<checks, miscounted, untold>>
    BY <1>e DEF EnableListed, DisableUnlisted, Completed
  <2> QED
    BY <2>1, <2>2, EnableTyped
<1>f. \A s \in Workers : Create(s) => UNCHANGED <<checks, miscounted, untold>>
  BY DEF Create
<1>g. \A q \in Requests, url \in FormUrls : Submit(q, url) => UNCHANGED <<checks, miscounted, untold>>
  BY DEF Submit
<1>1. \/ UNCHANGED rows
      \/ \E s \in Workers : Create(s) \/ EnableListed(s) \/ DisableUnlisted(s)
      \/ \E q \in Requests, url \in FormUrls : Submit(q, url)
  BY DEF Next, Work, Fault, BeginCheck, BeginDiscovery, Notify, Schedule, Send,
     PostEnds, PostRefused, NothingFetched, FetchEnds, Find, Report,
     SendFails, Killed, CreateRefused, ReportFails, PostFails, CronFires, vars
<1> QED
  BY <1>1, <1>a, <1>b, <1>c, <1>d, <1>e, <1>f, <1>g

\* The end of a probe, with the row and the outcome named.
Transitioned(m, result) == statusTransitioned(m.lastStatus, result.status)

Outcome(s, r, m, result) ==
  /\ r = slots[s].job.id /\ m = slots[s].monitored
  /\ recordCheck(r, m, result.status)
  /\ slots' = [slots EXCEPT ![s] = Continue(slots[s].job, News2(s, result))]
  /\ disturbed' = (disturbed \cup Probing(r)) \ {s}
  /\ miscounted' = IF result.status = "up" THEN miscounted \ {r}
                   ELSE IF s \in disturbed THEN miscounted \cup {r} ELSE miscounted
  /\ untold' = IF Transitioned(m, result) THEN untold \ {r}
               ELSE IF s \in disturbed THEN untold \cup {r} ELSE untold
  /\ UNCHANGED <<jobs, posted, faults, undelivered, scanned, torn>>

LEMMA ProbeOutcome ==
  ASSUME TypeInv, NEW s \in Workers, ProbeEnds(s)
  PROVE  /\ s \in Probing(slots[s].job.id)
         /\ \E r \in DOMAIN rows, m \in Row : \E result :
              result.status \in Statuses /\ Outcome(s, r, m, result)
<1>1. /\ slots[s].at = "probing" /\ slots[s].job.id \in DOMAIN rows /\ slots[s].monitored \in Row
  BY DEF ProbeEnds, TypeInv, SlotOK
<1>2. PICK a : Outcome(s, slots[s].job.id, slots[s].monitored, buildResult(a))
  BY DEF ProbeEnds, News2, Transitioned, Outcome
<1>3. PICK result : result = buildResult(a)
  OBVIOUS
<1>4. Outcome(s, slots[s].job.id, slots[s].monitored, result) /\ result.status \in Statuses
  BY <1>2, <1>3, ResultTyped
<1> QED
  BY <1>1, <1>4 DEF Probing

\* Only the failures of the row that was checked are counted, and from what they
\* were.
LEMMA TrailingGrows ==
  ASSUME TypeInv, NEW r \in DOMAIN rows, NEW m \in Row, NEW st \in Statuses, recordCheck(r, m, st)
  PROVE  /\ \A q \in DOMAIN rows \ {r} : Trailing(q)' = Trailing(q)
         /\ IsFiniteSet(Trailing(r)) /\ Len(checks) + 1 \notin Trailing(r)
         /\ Trailing(r)' = IF st = "up" THEN {} ELSE Trailing(r) \cup {Len(checks) + 1}
<1>1. /\ Len(checks) \in Nat /\ DOMAIN checks = 1..Len(checks)
      /\ Len(checks') = Len(checks) + 1 /\ DOMAIN checks' = 1..(Len(checks) + 1)
      /\ checks'[Len(checks) + 1].row = r /\ checks'[Len(checks) + 1].status = st
      /\ \A c \in DOMAIN checks : checks'[c] = checks[c]
  BY RecordTyped
<1> DEFINE n == Len(checks)
<1>2. \A c \in 1..n : c..(n + 1) = (c..n) \cup {n + 1} /\ c..n \subseteq 1..n
  BY <1>1
<1>3. ASSUME NEW q \in DOMAIN rows \ {r} PROVE Trailing(q)' = Trailing(q)
  <2>1. n + 1 \notin Trailing(q)'
    BY <1>1, <1>3 DEF Trailing
  <2>2. ASSUME NEW c \in 1..n PROVE c \in Trailing(q)' <=> c \in Trailing(q)
    <3>1. /\ c \in Trailing(q)' <=> /\ checks'[c].row = q
                                    /\ \A d \in c..(n + 1) : checks'[d].row = q => checks'[d].status = "down"
          /\ c \in Trailing(q) <=> /\ checks[c].row = q
                                   /\ \A d \in c..n : checks[d].row = q => checks[d].status = "down"
      BY <1>1 DEF Trailing
    <3>2. \A d \in c..n : checks'[d] = checks[d]
      BY <1>1, <1>2
    <3>3. checks'[c] = checks[c]
      BY <1>1
    <3>4. checks'[n + 1].row # q
      BY <1>1, <1>3
    <3> QED
      BY <1>2, <3>1, <3>2, <3>3, <3>4
  <2>3. Trailing(q)' \subseteq 1..(n + 1) /\ Trailing(q) \subseteq 1..n
    BY <1>1 DEF Trailing
  <2>4. n + 1 \notin 1..n /\ 1..(n + 1) = (1..n) \cup {n + 1}
    BY <1>1
  <2> QED
    BY <2>1, <2>2, <2>3, <2>4
<1>4. Trailing(r) \subseteq 1..n /\ IsFiniteSet(Trailing(r))
  <2>1. Trailing(r) \subseteq 1..n
    BY <1>1 DEF Trailing
  <2>2. IsFiniteSet(1..n)
    BY <1>1, FS_Interval
  <2> QED
    BY <2>1, <2>2, FS_Subset
<1>5. Trailing(r)' \subseteq 1..(n + 1)
  BY <1>1 DEF Trailing
<1>6. n + 1 \in Trailing(r)' <=> st = "down"
  <2>1. (n + 1)..(n + 1) = {n + 1}
    BY <1>1
  <2>2. n + 1 \in Trailing(r)' <=> /\ n + 1 \in DOMAIN checks' /\ checks'[n + 1].row = r
                                   /\ \A d \in (n + 1)..(n + 1) :
                                        checks'[d].row = r => checks'[d].status = "down"
    BY <1>1 DEF Trailing
  <2>3. n + 1 \in DOMAIN checks'
    BY <1>1
  <2> QED
    BY <1>1, <2>1, <2>2, <2>3
<1>7. ASSUME NEW c \in 1..n PROVE c \in Trailing(r)' <=> c \in Trailing(r) /\ st = "down"
  <2>1. /\ c \in Trailing(r)' <=> /\ checks'[c].row = r
                                  /\ \A d \in c..(n + 1) : checks'[d].row = r => checks'[d].status = "down"
        /\ c \in Trailing(r) <=> /\ checks[c].row = r
                                 /\ \A d \in c..n : checks[d].row = r => checks[d].status = "down"
    BY <1>1 DEF Trailing
  <2>2. \A d \in c..n : checks'[d] = checks[d]
    BY <1>1, <1>2
  <2>3. checks'[c] = checks[c]
    BY <1>1
  <2>4. checks'[n + 1].row = r /\ checks'[n + 1].status = st
    BY <1>1
  <2> QED
    BY <1>2, <2>1, <2>2, <2>3, <2>4
<1>8. st = "up" \/ st = "down"
  BY DEF Statuses
<1>9. n + 1 \notin 1..n /\ 1..(n + 1) = (1..n) \cup {n + 1}
  BY <1>1
<1> QED
  BY <1>3, <1>4, <1>5, <1>6, <1>7, <1>8, <1>9

FailInv == CheckInv /\ FailureCount

LEMMA ProbeFails ==
  ASSUME TypeInv, FailInv, [Next]_vars, NEW s \in Workers, ProbeEnds(s)
  PROVE  FailInv'
<1>o. PICK r \in DOMAIN rows, m \in Row :
        \E result : result.status \in Statuses /\ Outcome(s, r, m, result)
  BY ProbeOutcome
<1>1. PICK result : result.status \in Statuses /\ Outcome(s, r, m, result)
  BY <1>o
<1>2. PICK st \in Statuses : st = result.status
  BY <1>1
<1>3. recordCheck(r, m, st)
  BY <1>1, <1>2 DEF Outcome
<1>4. /\ DOMAIN rows' = DOMAIN rows
      /\ rows'[r].fails = IF st = "up" THEN 0 ELSE m.fails + 1
      /\ \A q \in DOMAIN rows \ {r} : rows'[q] = rows[q]
  BY <1>3, RecordTyped
<1>5. s \in Probing(r) /\ m = slots[s].monitored /\ s \in DOMAIN slots
      /\ slots[s].job.id = r /\ slots[s].at = "probing"
  BY <1>1, ProbeOutcome DEF Outcome, TypeInv, ProbeEnds
<1>6. /\ disturbed' = (disturbed \cup Probing(r)) \ {s}
      /\ miscounted' = IF st = "up" THEN miscounted \ {r}
                       ELSE IF s \in disturbed THEN miscounted \cup {r} ELSE miscounted
  BY <1>1, <1>2 DEF Outcome
<1>7. FailureCount'
  <2> SUFFICES ASSUME NEW q \in DOMAIN rows \ miscounted'
               PROVE  rows'[q].fails = Cardinality(Trailing(q)')
    BY <1>4 DEF FailureCount
  <2>1. CASE q # r
    <3>1. rows[q].fails = Cardinality(Trailing(q))
      BY <1>6, <2>1 DEF FailInv, FailureCount
    <3>2. Trailing(q)' = Trailing(q) /\ rows'[q] = rows[q]
      BY <1>3, <1>4, <2>1, TrailingGrows
    <3> QED
      BY <3>1, <3>2
  <2>2. /\ IsFiniteSet(Trailing(r)) /\ Len(checks) + 1 \notin Trailing(r)
        /\ Trailing(r)' = IF st = "up" THEN {} ELSE Trailing(r) \cup {Len(checks) + 1}
    BY <1>3, TrailingGrows
  <2>3. CASE q = r /\ st = "up"
    <3>1. Cardinality({}) = 0
      BY FS_EmptySet
    <3> QED
      BY <1>4, <2>2, <2>3, <3>1
  <2>4. CASE q = r /\ st # "up"
    <3>1. s \notin disturbed /\ r \notin miscounted
      BY <1>6, <2>4
    <3>2. rows[r].fails = Cardinality(Trailing(r)) /\ m.fails = rows[r].fails
      BY <1>5, <3>1 DEF FailInv, FailureCount, CheckInv
    <3>3. Cardinality(Trailing(r) \cup {Len(checks) + 1}) = Cardinality(Trailing(r)) + 1
      BY <2>2, FS_AddElement
    <3> QED
      BY <1>4, <2>2, <2>4, <3>2, <3>3
  <2> QED
    BY <2>1, <2>3, <2>4
<1>8. CheckInv'
  <2> SUFFICES ASSUME NEW q \in DOMAIN rows, NEW u \in Probing(q)' \ disturbed'
               PROVE  /\ slots'[u].monitored.lastStatus = rows'[q].lastStatus
                      /\ slots'[u].monitored.fails = rows'[q].fails
    BY <1>4 DEF CheckInv
  <2>1. u \in Workers /\ slots'[u].at = "probing" /\ slots'[u].job.id = q
    BY DEF Probing
  <2>2. u # s
    <3>1. slots'[s] = Continue(slots[s].job, News2(s, result))
      BY <1>1, <1>5 DEF Outcome
    <3>2. slots'[s].at # "probing"
      BY <3>1 DEF Continue, Sending, Idle
    <3> QED
      BY <2>1, <3>2
  <2>3. slots'[u] = slots[u]
    BY <1>1, <2>2, <2>1 DEF Outcome, TypeInv
  <2>4. u \in Probing(q) \ disturbed /\ u \notin Probing(r)
    BY <1>6, <2>1, <2>2, <2>3 DEF Probing
  <2>5. q # r
    BY <2>4
  <2> QED
    BY <1>4, <2>3, <2>4, <2>5 DEF FailInv, CheckInv
<1> QED
  BY <1>7, <1>8 DEF FailInv

LEMMA OtherFails ==
  ASSUME TypeInv, FailInv, [Next]_vars, \A s \in Workers : ~ProbeEnds(s)
  PROVE  FailInv'
<1>1. /\ UNCHANGED <<checks, miscounted>>
      /\ \A r \in DOMAIN rows : /\ r \in DOMAIN rows'
                                /\ rows'[r].lastStatus = rows[r].lastStatus
                                /\ rows'[r].fails = rows[r].fails
      /\ \A r \in DOMAIN rows' \ DOMAIN rows : rows'[r].fails = 0
  BY CountsKept
<1>2. FailureCount'
  <2> SUFFICES ASSUME NEW r \in DOMAIN rows' \ miscounted
               PROVE  rows'[r].fails = Cardinality(Trailing(r))
    BY <1>1 DEF FailureCount, Trailing
  <2>1. CASE r \in DOMAIN rows
    BY <1>1, <2>1 DEF FailInv, FailureCount
  <2>2. CASE r \notin DOMAIN rows
    <3>1. Trailing(r) = {}
      BY <2>2 DEF Trailing, TypeInv
    <3>2. Cardinality({}) = 0
      BY FS_EmptySet
    <3> QED
      BY <1>1, <2>2, <3>1, <3>2
  <2> QED
    BY <2>1, <2>2
<1>3. CheckInv'
  <2> SUFFICES ASSUME NEW q \in DOMAIN rows', NEW u \in Probing(q)' \ disturbed'
               PROVE  /\ slots'[u].monitored.lastStatus = rows'[q].lastStatus
                      /\ slots'[u].monitored.fails = rows'[q].fails
    BY DEF CheckInv
  <2>1. u \in Workers /\ slots'[u].at = "probing" /\ slots'[u].job.id = q
    BY DEF Probing
  <2>2. CASE slots'[u] = slots[u] /\ (u \in disturbed => u \in disturbed')
    <3>1. u \in Probing(q) \ disturbed /\ q \in DOMAIN rows
      BY <2>1, <2>2 DEF Probing, TypeInv, SlotOK
    <3> QED
      BY <1>1, <2>2, <3>1 DEF FailInv, CheckInv
  <2>3. CASE \E r \in DOMAIN rows : slots'[u] = Reading("probing", CHECK_URL(r), rows[r]) /\ UNCHANGED rows
    BY <2>1, <2>3 DEF Reading, CHECK_URL, Job
  <2> QED
    BY <2>1, <2>2, <2>3, ProbesKept
<1> QED
  BY <1>2, <1>3 DEF FailInv

LEMMA FailStep == TypeInv /\ FailInv /\ [Next]_vars => FailInv'
  BY ProbeFails, OtherFails

LEMMA FailInit == Init => FailInv
  BY MonitorAssumption DEF Init, FailInv, CheckInv, FailureCount

\* The count of failures of a row is that of its failed checks since it was last
\* up, whatever is retried or killed, except from a failed check that counted on
\* from an outdated row until the row's next good one (recordCheck).
THEOREM FailuresAreCounted == Spec => []FailureCount
<1>1. FailInv => FailureCount
  BY DEF FailInv
<1> QED
  BY <1>1, TypeInit, TypeStep, FailInit, FailStep, PTL DEF Spec

-----------------------------------------------------------------------------
(* The children of a sitemap. *)

\* ScanInv and ChildrenFollow, for one sitemap.
ScanOf(url) ==
  \A s \in Scanning(url) \ disturbed :
    LET listed == ToSet(slots[s].discovered)
    IN /\ Scanning(url) = {s}
       /\ listed \subseteq ToSet(slots[s].left) \cup ChildUrls(url)
       /\ slots[s].at \in {"enabling", "disabling"} => listed \subseteq ChildUrls(url)
       /\ slots[s].at = "disabling" =>
            \A r \in DOMAIN rows :
              rows[r].parent = url /\ rows[r].url \in listed => rows[r].enabled

FollowOf(url) ==
  url \in DOMAIN scanned \ torn /\ Scanning(url) = {} =>
    {rows[r].url : r \in enabledSitemapChildrenIds(url)} = scanned[url]

FollowInv ==
  /\ DOMAIN scanned \subseteq Urls
  /\ \A url \in Urls : ScanOf(url) /\ FollowOf(url)

LEMMA FollowIs == FollowInv <=> ScanInv /\ ChildrenFollow
  BY DEF FollowInv, ScanOf, FollowOf, ScanInv, ChildrenFollow

\* A sitemap whose scans a step neither begins, moves on nor ends, and whose
\* children it leaves alone.
LEMMA UrlKept ==
  ASSUME NEW url, ScanOf(url), FollowOf(url),
         DOMAIN rows \subseteq DOMAIN rows',
         \A u \in Workers : u \in Scanning(url) \/ u \in Scanning(url)' => slots'[u] = slots[u],
         \A u \in Scanning(url) : u \in disturbed => u \in disturbed',
         url \in torn => url \in torn',
         \A r \in DOMAIN rows : /\ rows'[r].url = rows[r].url /\ rows'[r].parent = rows[r].parent
                                /\ rows[r].parent = url => rows'[r].enabled = rows[r].enabled,
         \A r \in DOMAIN rows' \ DOMAIN rows : rows'[r].parent # url,
         url \in DOMAIN scanned' => url \in DOMAIN scanned /\ scanned'[url] = scanned[url]
  PROVE  ScanOf(url)' /\ FollowOf(url)'
<1>1. Scanning(url)' = Scanning(url)
  BY DEF Scanning
<1>2. ChildUrls(url)' = ChildUrls(url)
  <2>1. {c \in DOMAIN rows' : rows'[c].parent = url} = {c \in DOMAIN rows : rows[c].parent = url}
    OBVIOUS
  <2> QED
    BY <2>1 DEF ChildUrls
<1>3. {rows'[r].url : r \in enabledSitemapChildrenIds(url)'}
        = {rows[r].url : r \in enabledSitemapChildrenIds(url)}
  <2>1. enabledSitemapChildrenIds(url)' = enabledSitemapChildrenIds(url)
    BY DEF enabledSitemapChildrenIds
  <2> QED
    BY <2>1 DEF enabledSitemapChildrenIds
<1>4. FollowOf(url)'
  BY <1>1, <1>3 DEF FollowOf
<1>5. ScanOf(url)'
  <2> SUFFICES ASSUME NEW s \in Scanning(url) \ disturbed
               PROVE  LET listed == ToSet(slots'[s].discovered)
                      IN /\ Scanning(url) = {s}
                         /\ listed \subseteq ToSet(slots'[s].left) \cup ChildUrls(url)
                         /\ slots'[s].at \in {"enabling", "disabling"} => listed \subseteq ChildUrls(url)
                         /\ slots'[s].at = "disabling" =>
                              \A r \in DOMAIN rows' :
                                rows'[r].parent = url /\ rows'[r].url \in listed => rows'[r].enabled
    BY <1>1, <1>2 DEF ScanOf
  <2>1. slots'[s] = slots[s]
    BY DEF Scanning
  <2> QED
    BY <2>1 DEF ScanOf
<1> QED
  BY <1>4, <1>5

\* A scan of a sitemap is cut short: no other one of it was on its own.
LEMMA UrlQuit ==
  ASSUME NEW url, ScanOf(url), url \in torn',
         NEW u \in Scanning(url), slots'[u].at \notin ScanSteps,
         \A v \in Workers : v \in Scanning(url)' =>
           slots'[v] = slots[v] /\ (v \in disturbed => v \in disturbed')
  PROVE  ScanOf(url)' /\ FollowOf(url)'
<1>1. ASSUME NEW v \in Scanning(url)' \ disturbed' PROVE FALSE
  <2>1. v \in Scanning(url) \ disturbed
    BY <1>1 DEF Scanning
  <2>2. Scanning(url) = {v}
    BY <2>1 DEF ScanOf
  <2>3. u # v
    BY <1>1 DEF Scanning
  <2> QED
    BY <2>2, <2>3
<1> QED
  BY <1>1 DEF ScanOf, FollowOf

\* A step of no scan.
LEMMA QuietFollow ==
  ASSUME FollowInv, DOMAIN rows \subseteq DOMAIN rows', torn \subseteq torn', UNCHANGED scanned,
         \A u \in Workers : slots'[u].at \in ScanSteps =>
           slots'[u] = slots[u] /\ (u \in disturbed => u \in disturbed'),
         \A u \in Workers : slots[u].at \in ScanSteps =>
           slots'[u] = slots[u] \/ (slots[u].monitored.url \in torn' /\ slots'[u].at \notin ScanSteps),
         \A r \in DOMAIN rows : /\ rows'[r].url = rows[r].url /\ rows'[r].parent = rows[r].parent
                                /\ rows'[r].enabled = rows[r].enabled,
         \A r \in DOMAIN rows' \ DOMAIN rows : rows'[r].parent \notin Urls
  PROVE  FollowInv'
<1> SUFFICES ASSUME NEW url \in Urls PROVE ScanOf(url)' /\ FollowOf(url)'
  BY DEF FollowInv
<1>1. ScanOf(url) /\ FollowOf(url)
  BY DEF FollowInv
<1>2. \A v \in Workers : v \in Scanning(url)' =>
        slots'[v] = slots[v] /\ (v \in disturbed => v \in disturbed')
  BY DEF Scanning
<1>3. CASE \A u \in Scanning(url) : slots'[u] = slots[u]
  <2>1. \A u \in Workers : u \in Scanning(url) \/ u \in Scanning(url)' => slots'[u] = slots[u]
    BY <1>2, <1>3
  <2>2. \A u \in Scanning(url) : u \in disturbed => u \in disturbed'
    BY <1>3 DEF Scanning
  <2> QED
    BY <1>1, <2>1, <2>2, UrlKept
<1>4. ASSUME NEW u \in Scanning(url), slots'[u] # slots[u] PROVE ScanOf(url)' /\ FollowOf(url)'
  <2>1. url \in torn' /\ slots'[u].at \notin ScanSteps
    BY <1>4 DEF Scanning
  <2> QED
    BY <1>1, <1>2, <2>1, UrlQuit
<1> QED
  BY <1>3, <1>4

\* A step of the scan of one sitemap leaves the others alone.
LEMMA ScanStep ==
  ASSUME TypeInv, FollowInv, NEW s \in Workers, NEW t \in Scan, NEW o \in Urls,
         slots' = [slots EXCEPT ![s] = t], slots[s].monitored.url = o, t.monitored.url = o,
         torn \ {o} \subseteq torn', disturbed \ {s} \subseteq disturbed',
         DOMAIN rows \subseteq DOMAIN rows',
         DOMAIN scanned' \subseteq DOMAIN scanned \cup {o},
         \A url \in DOMAIN scanned \ {o} : scanned'[url] = scanned[url],
         \A r \in DOMAIN rows : /\ rows'[r].url = rows[r].url /\ rows'[r].parent = rows[r].parent
                                /\ rows[r].parent # o => rows'[r].enabled = rows[r].enabled,
         \A r \in DOMAIN rows' \ DOMAIN rows : rows'[r].parent = o,
         ScanOf(o)', FollowOf(o)'
  PROVE  FollowInv'
<1>1. DOMAIN scanned' \subseteq Urls
  BY DEF FollowInv
<1>2. ASSUME NEW url \in Urls, url # o PROVE ScanOf(url)' /\ FollowOf(url)'
  <2>1. ScanOf(url) /\ FollowOf(url)
    BY DEF FollowInv
  <2>2. slots'[s] = t /\ \A u \in Workers : u # s => slots'[u] = slots[u]
    BY DEF TypeInv
  <2>3. \A u \in Workers : u \in Scanning(url) \/ u \in Scanning(url)' => slots'[u] = slots[u] /\ u # s
    BY <1>2, <2>2 DEF Scanning
  <2>4. \A u \in Scanning(url) : u \in disturbed => u \in disturbed'
    BY <2>3 DEF Scanning
  <2>5. /\ url \in torn => url \in torn'
        /\ url \in DOMAIN scanned' => url \in DOMAIN scanned /\ scanned'[url] = scanned[url]
    BY <1>2
  <2>6. /\ \A r \in DOMAIN rows : /\ rows'[r].url = rows[r].url /\ rows'[r].parent = rows[r].parent
                                  /\ rows[r].parent = url => rows'[r].enabled = rows[r].enabled
        /\ \A r \in DOMAIN rows' \ DOMAIN rows : rows'[r].parent # url
    BY <1>2
  <2> QED
    BY <2>1, <2>3, <2>4, <2>5, <2>6, UrlKept
<1> QED
  BY <1>1, <1>2 DEF FollowInv

\* The sitemap of a scan that no other one has crossed: nobody else scans it.
LEMMA OnlyScan ==
  ASSUME TypeInv, FollowInv, NEW s \in Workers \ disturbed, slots[s].at \in ScanSteps,
         NEW o \in Urls, slots[s].monitored.url = o, NEW t, slots' = [slots EXCEPT ![s] = t],
         t.monitored.url = o
  PROVE  /\ Scanning(o) = {s} /\ s \notin disturbed /\ ScanOf(o) /\ slots'[s] = t
         /\ Scanning(o)' = IF t.at \in ScanSteps THEN {s} ELSE {}
<1>1. ScanOf(o) /\ s \in Scanning(o) \ disturbed
  BY DEF FollowInv, Scanning
<1>2. Scanning(o) = {s}
  BY <1>1 DEF ScanOf
<1>3. slots'[s] = t /\ \A u \in Workers : u # s => slots'[u] = slots[u]
  BY DEF TypeInv
<1>4. \A u \in Workers : u \in Scanning(o)' <=> u = s /\ t.at \in ScanSteps
  BY <1>2, <1>3 DEF Scanning
<1> QED
  BY <1>1, <1>2, <1>3, <1>4 DEF Scanning

\* The sitemap of a scan that another one has crossed: none of it is on its own,
\* and when this one completes the sitemap is torn.
LEMMA CrossedScan ==
  ASSUME TypeInv, FollowInv, NEW s \in Workers, s \in disturbed, slots[s].at \in ScanSteps,
         NEW o \in Urls, slots[s].monitored.url = o, NEW t, slots' = [slots EXCEPT ![s] = t],
         t.monitored.url = o, disturbed \ {s} \subseteq disturbed',
         t.at \in ScanSteps => s \in disturbed', t.at \in ScanSteps \/ o \in torn'
  PROVE  ScanOf(o)' /\ FollowOf(o)'
<1>1. slots'[s] = t /\ \A u \in Workers : u # s => slots'[u] = slots[u]
  BY DEF TypeInv
<1>2. s \in Scanning(o)
  BY DEF Scanning
<1>3. ASSUME NEW v \in Scanning(o)' \ disturbed' PROVE FALSE
  <2>1. v # s
    BY <1>1, <1>3 DEF Scanning
  <2>2. v \in Scanning(o) \ disturbed
    BY <1>1, <1>3, <2>1 DEF Scanning
  <2>3. Scanning(o) = {v}
    BY <2>2 DEF FollowInv, ScanOf
  <2> QED
    BY <1>2, <2>1, <2>3
<1>4. t.at \in ScanSteps => s \in Scanning(o)'
  BY <1>1 DEF Scanning
<1>5. FollowOf(o)'
  BY <1>4 DEF FollowOf
<1>6. ScanOf(o)'
  BY <1>3 DEF ScanOf
<1> QED
  BY <1>5, <1>6

LEMMA ToSetTail ==
  ASSUME NEW S, NEW q \in Seq(S), q # <<>>
  PROVE  ToSet(q) \subseteq ToSet(Tail(q)) \cup {Head(q)}
  BY TailRange DEF ToSet, Range

LEMMA FetchFollows ==
  ASSUME TypeInv, FollowInv, NEW s \in Workers, FetchEnds(s)
  PROVE  FollowInv'
<1>1. PICK t \in Scan :
        /\ slots' = [slots EXCEPT ![s] = t] /\ t.at = "finding"
        /\ t.monitored = slots[s].monitored /\ t.left = t.discovered
  BY FetchTo
<1>2. PICK o \in Urls : o = slots[s].monitored.url
  BY DEF FetchEnds, TypeInv, SlotOK, Row
<1>3. /\ UNCHANGED <<rows, scanned, torn>>
      /\ disturbed' = IF Scanning(o) = {} THEN disturbed \ {s} ELSE disturbed \cup Scanning(o) \cup {s}
  BY <1>2 DEF FetchEnds
<1>4. slots'[s] = t /\ \A u \in Workers : u # s => slots'[u] = slots[u]
  BY <1>1 DEF TypeInv
<1>5. Scanning(o)' = Scanning(o) \cup {s}
  BY <1>1, <1>2, <1>4 DEF FetchEnds, Scanning, ScanSteps
<1>6. ScanOf(o)'
  <2>1. CASE Scanning(o) = {}
    <3>1. slots'[s].at = "finding" /\ slots'[s].left = slots'[s].discovered
      BY <1>1, <1>4
    <3> QED
      BY <1>5, <2>1, <3>1 DEF ScanOf
  <2>2. CASE Scanning(o) # {}
    BY <1>3, <1>5, <2>2 DEF ScanOf
  <2> QED
    BY <2>1, <2>2
<1>7. FollowOf(o)'
  BY <1>5 DEF FollowOf
<1>8. t.monitored.url = o /\ disturbed \ {s} \subseteq disturbed'
  BY <1>1, <1>2, <1>3
<1> QED
  BY <1>1, <1>2, <1>3, <1>6, <1>7, <1>8, ScanStep

LEMMA FindFollows ==
  ASSUME TypeInv, FollowInv, NEW s \in Workers, Find(s)
  PROVE  FollowInv'
<1>1. PICK t \in Scan :
           /\ slots' = [slots EXCEPT ![s] = t]
           /\ t.job = slots[s].job /\ t.monitored = slots[s].monitored
           /\ t.discovered = slots[s].discovered
           /\ \/ /\ slots[s].left = <<>> /\ t.left = <<>>
                 /\ t.at = IF t.discovered = <<>> THEN "disabling" ELSE "enabling"
              \/ /\ slots[s].left # <<>> /\ Sought(slots[s]) # {}
                 /\ t.at = "finding" /\ t.left = Tail(slots[s].left)
              \/ /\ slots[s].left # <<>> /\ Sought(slots[s]) = {}
                 /\ t.at = "creating" /\ t.left = slots[s].left
  BY FindTo
<1>2. slots[s] \in Scan /\ slots[s].at \in ScanSteps /\ slots[s].monitored.url \in Urls
  BY ScanTyped DEF Find, ScanSteps
<1>3. PICK o \in Urls : o = slots[s].monitored.url
  BY <1>2
<1>4. UNCHANGED <<rows, scanned, torn, disturbed>>
  BY DEF Find, histories
<1>5. ASSUME s \notin disturbed PROVE ScanOf(o)' /\ FollowOf(o)'
  <2>1. /\ Scanning(o) = {s} /\ s \notin disturbed /\ ScanOf(o) /\ slots'[s] = t
        /\ Scanning(o)' = IF t.at \in ScanSteps THEN {s} ELSE {}
    BY <1>1, <1>2, <1>3, <1>5, OnlyScan
  <2>2. t.at \in ScanSteps /\ t.at # "reporting"
    BY <1>1 DEF ScanSteps
  <2>3. Scanning(o)' = {s}
    BY <2>1, <2>2
  <2> DEFINE listed == ToSet(t.discovered)
             known == ChildUrls(o)
  <2>4. listed \subseteq ToSet(slots[s].left) \cup known
    BY <1>1, <2>1 DEF ScanOf
  <2>5. known = ChildUrls(o)'
    BY <1>4 DEF ChildUrls
  <2>6. ToSet(<<>>) = {}
    BY DEF ToSet
  <2>7. /\ listed \subseteq ToSet(t.left) \cup known
        /\ t.at \in {"enabling", "disabling"} => listed \subseteq known
        /\ t.at = "disabling" => listed = {}
    <3>1. CASE slots[s].left = <<>>
      BY <1>1, <2>4, <2>6, <3>1
    <3>2. CASE slots[s].left # <<>> /\ Sought(slots[s]) # {}
      <4>1. Head(slots[s].left) \in known
        BY <1>3, <3>2 DEF Sought, findByUrlScoped, ChildUrls
      <4>2. ToSet(slots[s].left) \subseteq ToSet(Tail(slots[s].left)) \cup {Head(slots[s].left)}
        BY <1>2, <3>2, ToSetTail DEF Scan
      <4> HIDE DEF listed, known
      <4> QED
        BY <1>1, <2>4, <3>2, <4>1, <4>2
    <3>3. CASE slots[s].left # <<>> /\ Sought(slots[s]) = {}
      BY <1>1, <2>4, <3>3
    <3> QED
      BY <3>1, <3>2, <3>3
  <2>8. ScanOf(o)'
    BY <2>1, <2>3, <2>5, <2>7 DEF ScanOf
  <2>9. FollowOf(o)'
    BY <2>3 DEF FollowOf
  <2> QED
    BY <2>8, <2>9
<1>6. t.monitored.url = o /\ t.at \in ScanSteps
  BY <1>1, <1>3 DEF ScanSteps
<1>7. ScanOf(o)' /\ FollowOf(o)'
  BY <1>1, <1>2, <1>3, <1>4, <1>5, <1>6, CrossedScan
<1> QED
  BY <1>1, <1>3, <1>4, <1>6, <1>7, ScanStep

LEMMA CreateFollows ==
  ASSUME TypeInv, FollowInv, NEW s \in Workers, Create(s)
  PROVE  FollowInv'
<1>1. PICK t \in Scan :
           /\ slots' = [slots EXCEPT ![s] = t]
           /\ t.job = slots[s].job /\ t.monitored = slots[s].monitored
           /\ t.discovered = slots[s].discovered
           /\ t.at = "finding" /\ slots[s].left # <<>> /\ t.left = Tail(slots[s].left)
  BY CreateTo
<1>2. /\ slots[s] \in Scan /\ slots[s].at \in ScanSteps /\ slots[s].monitored.url \in Urls
      /\ slots[s].left \in Seq(Urls) /\ Head(slots[s].left) \in Urls
  BY <1>1, ScanTyped DEF Create, ScanSteps, Scan
<1>3. PICK o \in Urls : o = slots[s].monitored.url
  BY <1>2
<1>4. PICK url \in Urls : url = Head(slots[s].left)
  BY <1>2
<1>5. UNCHANGED <<scanned, torn, disturbed>>
  BY DEF Create, histories
<1>6. rows' = IF findByUrlScoped(url, o) # {} THEN rows ELSE Append(rows, NewRow(url, o))
  BY <1>3, <1>4 DEF Create
<1>7. /\ DOMAIN rows \subseteq DOMAIN rows' /\ \A r \in DOMAIN rows : rows'[r] = rows[r]
      /\ \A r \in DOMAIN rows' \ DOMAIN rows : rows'[r].parent = o
      /\ \E r \in DOMAIN rows' : rows'[r].url = url /\ rows'[r].parent = o
  <2>1. CASE findByUrlScoped(url, o) # {}
    BY <1>6, <2>1 DEF findByUrlScoped
  <2>2. CASE findByUrlScoped(url, o) = {}
    <3>1. rows' = Append(rows, NewRow(url, o))
      BY <1>6, <2>2
    <3>2. /\ Len(rows) \in Nat
          /\ DOMAIN rows = 1..Len(rows) /\ DOMAIN rows' = 1..(Len(rows) + 1)
          /\ \A q \in DOMAIN rows : rows'[q] = rows[q]
          /\ rows'[Len(rows) + 1] = NewRow(url, o)
      BY <3>1, AddTyped
    <3>3. NewRow(url, o).url = url /\ NewRow(url, o).parent = o
      BY DEF NewRow
    <3> QED
      BY <3>2, <3>3
  <2> QED
    BY <2>1, <2>2
<1>8. t.monitored.url = o /\ t.at \in ScanSteps /\ slots' = [slots EXCEPT ![s] = t]
  BY <1>1, <1>3 DEF ScanSteps
<1>9. ASSUME s \notin disturbed PROVE ScanOf(o)' /\ FollowOf(o)'
  <2>1. /\ Scanning(o) = {s} /\ s \notin disturbed /\ ScanOf(o) /\ slots'[s] = t
        /\ Scanning(o)' = IF t.at \in ScanSteps THEN {s} ELSE {}
    BY <1>2, <1>3, <1>8, <1>9, OnlyScan
  <2>2. Scanning(o)' = {s}
    BY <1>1, <2>1 DEF ScanSteps
  <2>3. ToSet(t.discovered) \subseteq ToSet(slots[s].left) \cup ChildUrls(o)
    BY <1>1, <2>1 DEF ScanOf
  <2>4. ChildUrls(o) \subseteq ChildUrls(o)' /\ url \in ChildUrls(o)'
    BY <1>7 DEF ChildUrls
  <2>5. ToSet(slots[s].left) \subseteq ToSet(t.left) \cup {url}
    BY <1>1, <1>2, <1>4, ToSetTail
  <2>6. ToSet(t.discovered) \subseteq ToSet(t.left) \cup ChildUrls(o)'
    BY <2>3, <2>4, <2>5
  <2>7. ScanOf(o)'
    BY <1>1, <2>1, <2>2, <2>6 DEF ScanOf
  <2>8. FollowOf(o)'
    BY <2>2 DEF FollowOf
  <2> QED
    BY <2>7, <2>8
<1>10. ScanOf(o)' /\ FollowOf(o)'
  BY <1>2, <1>3, <1>5, <1>8, <1>9, CrossedScan
<1> QED
  BY <1>3, <1>5, <1>7, <1>8, <1>10, ScanStep

LEMMA EnableFollows ==
  ASSUME TypeInv, FollowInv, NEW s \in Workers, EnableListed(s)
  PROVE  FollowInv'
<1>1. PICK t \in Scan :
           /\ slots' = [slots EXCEPT ![s] = t]
           /\ t.job = slots[s].job /\ t.monitored = slots[s].monitored
           /\ t.discovered = slots[s].discovered /\ t.left = slots[s].left
           /\ t.at = "disabling"
  BY UpdateTo
<1>2. slots[s] \in Scan /\ slots[s].at = "enabling" /\ slots[s].monitored.url \in Urls
  BY ScanTyped DEF EnableListed, ScanSteps
<1>3. PICK o \in Urls : o = slots[s].monitored.url
  BY <1>2
<1>4. t.monitored.url = o /\ t.at \in ScanSteps /\ slots[s].at \in ScanSteps
  BY <1>1, <1>2, <1>3 DEF ScanSteps
<1>5. UNCHANGED <<scanned, torn, disturbed>>
  BY DEF EnableListed, histories
<1> DEFINE listed == ToSet(t.discovered)
<1>6. SetEnabled(o, listed, TRUE)
  BY <1>1, <1>3 DEF EnableListed
<1>7. /\ DOMAIN rows' = DOMAIN rows
      /\ \A q \in DOMAIN rows :
           /\ rows'[q].url = rows[q].url /\ rows'[q].parent = rows[q].parent
           /\ rows[q].parent = o /\ rows[q].url \in listed => rows'[q].enabled
           /\ rows[q].parent # o \/ rows[q].url \notin listed => rows'[q].enabled = rows[q].enabled
  <2> HIDE DEF listed
  <2>1. PICK v \in BOOLEAN : v = TRUE
    OBVIOUS
  <2>2. SetEnabled(o, listed, v)
    BY <1>6, <2>1
  <2>3. /\ DOMAIN rows' = DOMAIN rows
        /\ \A q \in DOMAIN rows :
             /\ rows'[q].url = rows[q].url /\ rows'[q].parent = rows[q].parent
             /\ rows'[q].enabled = IF rows[q].parent = o /\ rows[q].url \in listed THEN v
                                   ELSE rows[q].enabled
    BY <2>2, EnableTyped
  <2> QED
    BY <2>1, <2>3
<1>8. ASSUME s \notin disturbed PROVE ScanOf(o)' /\ FollowOf(o)'
  <2>1. /\ Scanning(o) = {s} /\ s \notin disturbed /\ ScanOf(o) /\ slots'[s] = t
        /\ Scanning(o)' = IF t.at \in ScanSteps THEN {s} ELSE {}
    BY <1>1, <1>3, <1>4, <1>8, OnlyScan
  <2>2. Scanning(o)' = {s}
    BY <1>1, <2>1 DEF ScanSteps
  <2>3. listed \subseteq ChildUrls(o)
    BY <1>1, <1>2, <2>1 DEF ScanOf
  <2>4. ChildUrls(o) \subseteq ChildUrls(o)'
    BY <1>7 DEF ChildUrls
  <2>5. \A r \in DOMAIN rows' : rows'[r].parent = o /\ rows'[r].url \in listed => rows'[r].enabled
    <3> HIDE DEF listed
    <3> SUFFICES ASSUME NEW r \in DOMAIN rows, rows[r].parent = o, rows[r].url \in listed
                 PROVE  rows'[r].enabled
      BY <1>7
    <3> QED
      BY <1>7
  <2>6. ScanOf(o)'
    BY <1>1, <2>1, <2>2, <2>3, <2>4, <2>5 DEF ScanOf
  <2>7. FollowOf(o)'
    BY <2>2 DEF FollowOf
  <2> QED
    BY <2>6, <2>7
<1>9. ScanOf(o)' /\ FollowOf(o)'
  BY <1>1, <1>3, <1>4, <1>5, <1>8, CrossedScan
<1> QED
  BY <1>1, <1>3, <1>4, <1>5, <1>7, <1>9, ScanStep

LEMMA DisableFollows ==
  ASSUME TypeInv, FollowInv, NEW s \in Workers, DisableUnlisted(s)
  PROVE  FollowInv'
<1>1. PICK t \in Scan :
           /\ slots' = [slots EXCEPT ![s] = t]
           /\ t.job = slots[s].job /\ t.monitored = slots[s].monitored
           /\ t.discovered = slots[s].discovered /\ t.left = slots[s].left
           /\ t.at = "reporting"
  BY UpdateTo
<1>2. slots[s] \in Scan /\ slots[s].at = "disabling" /\ slots[s].monitored.url \in Urls
  BY ScanTyped DEF DisableUnlisted, ScanSteps
<1>3. PICK o \in Urls : o = slots[s].monitored.url
  BY <1>2
<1>4. t.monitored.url = o /\ t.at \notin ScanSteps /\ slots[s].at \in ScanSteps
  BY <1>1, <1>2, <1>3 DEF ScanSteps
<1> DEFINE listed == ToSet(t.discovered)
<1>5. /\ torn' = IF s \in disturbed THEN torn \cup {o} ELSE torn \ {o}
      /\ disturbed' = disturbed \ {s}
      /\ scanned' = [u \in DOMAIN scanned \cup {o} |-> IF u = o THEN listed ELSE scanned[u]]
      /\ SetEnabled(o, Urls \ listed, FALSE)
  BY <1>1, <1>3 DEF DisableUnlisted, Completed
<1> HIDE DEF listed
<1>6. /\ DOMAIN rows' = DOMAIN rows
      /\ \A q \in DOMAIN rows :
           /\ rows'[q].url = rows[q].url /\ rows'[q].parent = rows[q].parent
           /\ rows'[q].enabled = IF rows[q].parent = o /\ rows[q].url \in Urls \ listed THEN FALSE
                                 ELSE rows[q].enabled
  BY <1>5, EnableTyped
<1>7. ASSUME s \notin disturbed PROVE ScanOf(o)' /\ FollowOf(o)'
  <2>1. /\ Scanning(o) = {s} /\ s \notin disturbed /\ ScanOf(o) /\ slots'[s] = t
        /\ Scanning(o)' = IF t.at \in ScanSteps THEN {s} ELSE {}
    BY <1>1, <1>3, <1>4, <1>7, OnlyScan
  <2>2. Scanning(o)' = {}
    BY <1>1, <2>1 DEF ScanSteps
  <2>3. /\ listed \subseteq ChildUrls(o)
        /\ \A r \in DOMAIN rows : rows[r].parent = o /\ rows[r].url \in listed => rows[r].enabled
    BY <1>1, <1>2, <2>1 DEF ScanOf, listed
  <2>4. scanned'[o] = listed
    BY <1>5
  <2>5. \A r \in DOMAIN rows : rows[r].url \in Urls
    <3>1. \A r \in DOMAIN rows : rows[r] \in Row
      BY DEF TypeInv
    <3> QED
      BY <3>1 DEF Row
  <2>6. ASSUME NEW u, u \in {rows'[r].url : r \in enabledSitemapChildrenIds(o)'} PROVE u \in listed
    <3>1. PICK r \in DOMAIN rows' : rows'[r].url = u /\ rows'[r].parent = o /\ rows'[r].enabled
      BY <2>6 DEF enabledSitemapChildrenIds
    <3> QED
      BY <1>6, <2>5, <3>1
  <2>7. ASSUME NEW u \in listed PROVE u \in {rows'[r].url : r \in enabledSitemapChildrenIds(o)'}
    <3>1. PICK r \in DOMAIN rows : rows[r].url = u /\ rows[r].parent = o
      BY <2>3 DEF ChildUrls
    <3>2. rows'[r].url = u /\ rows'[r].parent = o /\ rows'[r].enabled
      BY <1>6, <2>3, <3>1
    <3> QED
      BY <1>6, <3>2 DEF enabledSitemapChildrenIds
  <2>8. FollowOf(o)'
    BY <2>4, <2>6, <2>7 DEF FollowOf
  <2>9. ScanOf(o)'
    BY <2>2 DEF ScanOf
  <2> QED
    BY <2>8, <2>9
<1>8. /\ torn \ {o} \subseteq torn' /\ disturbed \ {s} \subseteq disturbed'
      /\ DOMAIN rows \subseteq DOMAIN rows'
      /\ DOMAIN scanned' \subseteq DOMAIN scanned \cup {o}
      /\ \A url \in DOMAIN scanned \ {o} : scanned'[url] = scanned[url]
      /\ \A r \in DOMAIN rows : /\ rows'[r].url = rows[r].url /\ rows'[r].parent = rows[r].parent
                                /\ rows[r].parent # o => rows'[r].enabled = rows[r].enabled
      /\ \A r \in DOMAIN rows' \ DOMAIN rows : rows'[r].parent = o
  BY <1>5, <1>6
<1>9. slots' = [slots EXCEPT ![s] = t] /\ slots[s].monitored.url = o
  BY <1>1, <1>3
<1>10. ScanOf(o)' /\ FollowOf(o)'
  <2>1. CASE s \in disturbed
    <3>1. o \in torn'
      BY <1>5, <2>1
    <3> QED
      BY <1>4, <1>8, <1>9, <2>1, <3>1, CrossedScan
  <2> QED
    BY <1>7, <2>1
<1> QED
  BY <1>4, <1>8, <1>9, <1>10, ScanStep

\* The steps that are no step of a scan.
LEMMA OtherFollows ==
  ASSUME TypeInv, FollowInv, [Next]_vars,
         \A s \in Workers : ~(FetchEnds(s) \/ Find(s) \/ Create(s) \/ EnableListed(s) \/ DisableUnlisted(s))
  PROVE  FollowInv'
<1> USE DEF histories
<1>a. Workers \cup Requests = DOMAIN slots /\ Workers \cap Requests = {}
  BY MonitorAssumption DEF TypeInv
<1>b. ASSUME UNCHANGED slots, UNCHANGED <<rows, scanned, torn, disturbed>> PROVE FollowInv'
  <2>1. \A u \in Workers : slots'[u].at \in ScanSteps =>
          slots'[u] = slots[u] /\ (u \in disturbed => u \in disturbed')
    BY <1>b
  <2>2. \A u \in Workers : slots[u].at \in ScanSteps =>
          slots'[u] = slots[u] \/ (slots[u].monitored.url \in torn' /\ slots'[u].at \notin ScanSteps)
    BY <1>b
  <2>3. /\ DOMAIN rows \subseteq DOMAIN rows' /\ torn \subseteq torn' /\ UNCHANGED scanned
        /\ \A r \in DOMAIN rows : /\ rows'[r].url = rows[r].url /\ rows'[r].parent = rows[r].parent
                                  /\ rows'[r].enabled = rows[r].enabled
        /\ \A r \in DOMAIN rows' \ DOMAIN rows : rows'[r].parent \notin Urls
    BY <1>b
  <2> QED
    BY <2>1, <2>2, <2>3, QuietFollow
<1>c. ASSUME NEW s \in Workers \cup Requests, NEW t, slots' = [slots EXCEPT ![s] = t],
             t.at \notin ScanSteps,
             s \in Workers /\ slots[s].at \in ScanSteps => slots[s].monitored.url \in torn',
             torn \subseteq torn', disturbed \ {s} \subseteq disturbed',
             UNCHANGED scanned, DOMAIN rows \subseteq DOMAIN rows',
             \A r \in DOMAIN rows : /\ rows'[r].url = rows[r].url /\ rows'[r].parent = rows[r].parent
                                    /\ rows'[r].enabled = rows[r].enabled,
             \A r \in DOMAIN rows' \ DOMAIN rows : rows'[r].parent \notin Urls
      PROVE  FollowInv'
  <2>1. \A u \in Workers : slots'[u].at \in ScanSteps =>
          slots'[u] = slots[u] /\ (u \in disturbed => u \in disturbed')
    BY <1>a, <1>c
  <2>2. \A u \in Workers : slots[u].at \in ScanSteps =>
          slots'[u] = slots[u] \/ (slots[u].monitored.url \in torn' /\ slots'[u].at \notin ScanSteps)
    <3>1. \A u \in Workers : u # s => slots'[u] = slots[u]
      BY <1>a, <1>c
    <3>2. s \in Workers => slots'[s] = t
      BY <1>a, <1>c
    <3>3. t.at \notin ScanSteps /\ (s \in Workers /\ slots[s].at \in ScanSteps => slots[s].monitored.url \in torn')
      BY <1>c
    <3> QED
      BY <3>1, <3>2, <3>3
  <2> QED
    BY <1>c, <2>1, <2>2, QuietFollow
<1>d. /\ Idle.at \notin ScanSteps
      /\ \A job, todo : Continue(job, todo).at \notin ScanSteps /\ Sending(job, todo).at \notin ScanSteps
      /\ \A job, row : /\ Reading("probing", job, row).at \notin ScanSteps
                       /\ Reading("fetching", job, row).at \notin ScanSteps
  BY DEF Idle, Continue, Sending, Reading, ScanSteps
<1>1. ASSUME NEW s \in Workers, Work(s) PROVE FollowInv'
  <2>1. ASSUME NEW r \in DOMAIN rows, BeginCheck(s, r) PROVE FollowInv'
    <3>1. PICK t : slots' = [slots EXCEPT ![s] = t] /\ t.at \notin ScanSteps
      <4>1. CASE slots' = [slots EXCEPT ![s] = Idle]
        BY <1>d, <4>1
      <4>2. CASE slots' = [slots EXCEPT ![s] = Reading("probing", CHECK_URL(r), rows[r])]
        BY <1>d, <4>2
      <4> QED
        BY <2>1, <4>1, <4>2 DEF BeginCheck
    <3>2. slots[s] = Idle /\ UNCHANGED <<rows, scanned, torn>> /\ disturbed \ {s} \subseteq disturbed'
      BY <2>1 DEF BeginCheck, Taken
    <3> QED
      BY <1>c, <1>d, <3>1, <3>2
  <2>2. ASSUME NEW r \in DOMAIN rows, BeginDiscovery(s, r) PROVE FollowInv'
    <3>1. PICK t : slots' = [slots EXCEPT ![s] = t] /\ t.at \notin ScanSteps
      BY <2>2, <1>d DEF BeginDiscovery
    <3>2. slots[s] = Idle /\ UNCHANGED <<rows, scanned, torn>> /\ disturbed \ {s} \subseteq disturbed'
      BY <2>2 DEF BeginDiscovery, Taken
    <3> QED
      BY <1>c, <1>d, <3>1, <3>2
  <2>3. ASSUME NEW c \in DOMAIN checks, Notify(s, c) PROVE FollowInv'
    <3>1. PICK t : slots' = [slots EXCEPT ![s] = t] /\ t.at \notin ScanSteps
      <4> DEFINE t == [at |-> "posting", job |-> NOTIFY_WEBHOOK(c),
                       body |-> [check |-> c, status |-> checks[c].status]]
      <4>1. slots' = [slots EXCEPT ![s] = t] /\ t.at \notin ScanSteps
        BY <2>3 DEF Notify, ScanSteps
      <4> HIDE DEF t
      <4> QED
        BY <4>1
    <3>2. slots[s] = Idle /\ UNCHANGED <<rows, scanned, torn>> /\ disturbed \ {s} \subseteq disturbed'
      BY <2>3 DEF Notify, Taken
    <3> QED
      BY <1>c, <1>d, <3>1, <3>2
  <2>4. CASE Schedule(s) \/ Send(s) \/ Report(s)
    <3>1. PICK job, todo : slots' = [slots EXCEPT ![s] = Continue(job, todo)]
      BY <2>4 DEF Schedule, Send, Report
    <3>2. slots[s].at \notin ScanSteps /\ UNCHANGED <<rows, scanned, torn, disturbed>>
      BY <2>4, <1>d DEF Schedule, Send, Report, Taken, ScanSteps
    <3> QED
      BY <1>c, <1>d, <3>1, <3>2
  <2>5. CASE ProbeEnds(s)
    <3>o. PICK r \in DOMAIN rows, m \in Row :
            \E result : result.status \in Statuses /\ Outcome(s, r, m, result)
      BY <2>5, ProbeOutcome
    <3>1. PICK result : result.status \in Statuses /\ Outcome(s, r, m, result)
      BY <3>o
    <3>2. slots[s].at \notin ScanSteps
      BY <2>5 DEF ProbeEnds, ScanSteps
    <3>3. PICK st \in Statuses : st = result.status
      BY <3>1
    <3>4. recordCheck(r, m, st)
      BY <3>1, <3>3 DEF Outcome
    <3>5. /\ DOMAIN rows' = DOMAIN rows
          /\ \A q \in DOMAIN rows : /\ rows'[q].url = rows[q].url /\ rows'[q].parent = rows[q].parent
                                    /\ rows'[q].enabled = rows[q].enabled
      BY <3>4, RecordTyped
    <3>6. /\ slots' = [slots EXCEPT ![s] = Continue(slots[s].job, News2(s, result))]
          /\ UNCHANGED <<scanned, torn>> /\ disturbed \ {s} \subseteq disturbed'
      BY <3>1 DEF Outcome
    <3> QED
      BY <1>c, <1>d, <3>2, <3>5, <3>6
  <2>6. CASE PostEnds(s) \/ PostRefused(s) \/ NothingFetched(s)
    <3>1. /\ slots' = [slots EXCEPT ![s] = Idle] /\ slots[s].at \notin ScanSteps
          /\ UNCHANGED <<rows, scanned, torn, disturbed>>
      BY <2>6 DEF PostEnds, PostRefused, NothingFetched, ScanSteps
    <3> QED
      BY <1>c, <1>d, <3>1
  <2> QED
    BY <1>1, <2>1, <2>2, <2>3, <2>4, <2>5, <2>6 DEF Work
<1>2. ASSUME NEW s \in Workers, Fault(s) PROVE FollowInv'
  <2>1. slots' = [slots EXCEPT ![s] = Idle] /\ UNCHANGED <<rows, scanned>>
    BY <1>2 DEF Fault, SendFails, Killed, CreateRefused, ReportFails, PostFails, Noted
  <2>2. /\ torn \subseteq torn' /\ disturbed \ {s} \subseteq disturbed'
        /\ slots[s].at \in ScanSteps => slots[s].monitored.url \in torn'
    BY <1>2 DEF Fault, SendFails, Killed, CreateRefused, ReportFails, PostFails, Noted, ScanSteps
  <2> QED
    BY <1>c, <1>d, <2>1, <2>2
<1>3. ASSUME NEW q \in Requests, Send(q) \/ SendFails(q) PROVE FollowInv'
  <2>1. PICK t : slots' = [slots EXCEPT ![q] = t] /\ t.at \notin ScanSteps
    BY <1>3, <1>d DEF Send, SendFails
  <2>2. /\ UNCHANGED <<rows, scanned>> /\ torn \subseteq torn' /\ q \notin Workers
        /\ disturbed \ {q} \subseteq disturbed'
    BY <1>3, <1>a DEF Send, SendFails, Noted
  <2> QED
    BY <1>c, <2>1, <2>2
<1>4. ASSUME NEW q \in Requests, NEW url \in FormUrls, Submit(q, url) PROVE FollowInv'
  <2>1. PICK t : slots' = [slots EXCEPT ![q] = t] /\ t.at \notin ScanSteps
    <3>1. \E job, todo : slots' = [slots EXCEPT ![q] = Sending(job, todo)]
      BY <1>4 DEF Submit
    <3> QED
      BY <1>d, <3>1
  <2>2. UNCHANGED <<scanned, torn, disturbed>> /\ q \notin Workers
    BY <1>4, <1>a DEF Submit
  <2>3. /\ DOMAIN rows \subseteq DOMAIN rows' /\ \A r \in DOMAIN rows : rows'[r] = rows[r]
        /\ \A r \in DOMAIN rows' \ DOMAIN rows : rows'[r].parent = Manual
    <3>1. CASE rows' = rows
      BY <3>1
    <3>2. CASE rows' = Append(rows, NewRow(url, Manual))
      <4>1. url \in Urls
        BY MonitorAssumption
      <4> QED
        BY <3>2, <4>1, AddTyped DEF NewRow
    <3> QED
      BY <1>4, <3>1, <3>2 DEF Submit
  <2>4. Manual \notin Urls
    BY MonitorAssumption DEF Manual
  <2> QED
    BY <1>c, <2>1, <2>2, <2>3, <2>4
<1>5. CASE CronFires \/ UNCHANGED vars
  BY <1>5, <1>b DEF CronFires, vars
<1> QED
  BY <1>1, <1>2, <1>3, <1>4, <1>5 DEF Next

LEMMA FollowStep == TypeInv /\ FollowInv /\ [Next]_vars => FollowInv'
  BY FetchFollows, FindFollows, CreateFollows, EnableFollows, DisableFollows, OtherFollows

LEMMA FollowInit == Init => FollowInv
<1> SUFFICES ASSUME Init PROVE FollowInv
  OBVIOUS
<1>1. DOMAIN scanned = {} /\ \A s \in Workers : slots[s].at \notin ScanSteps
  BY DEF Init, Idle, ScanSteps
<1> QED
  BY <1>1 DEF FollowInv, ScanOf, FollowOf, Scanning

\* Between scans the enabled rows below a sitemap are what its last scan listed,
\* new, returning and vanished addresses alike, except from a scan that another
\* one crossed, or a failure in the middle of one, until the next complete scan
\* that no other one crosses.
THEOREM ChildrenAreFollowed == Spec => []ChildrenFollow
<1>1. FollowInv => ChildrenFollow
  BY FollowIs
<1> QED
  BY <1>1, TypeInit, TypeStep, FollowInit, FollowStep, PTL DEF Spec

-----------------------------------------------------------------------------
(* Notifications: where they are, and that none gets lost. *)

\* NoticeInv, for what a slot holds, and what a slot or the queue and the
\* receiver have of the notification of a check.
NotesOK(t) ==
  t.at = "sending" =>
    \A i \in DOMAIN t.todo : \A j \in t.todo[i] : j.type = "notify" =>
      t.job.type = "check" /\ j.id \in DOMAIN checks /\ checks[j.id].row = t.job.id

NoNotes(t) == t.at = "sending" => \A i \in DOMAIN t.todo : \A j \in t.todo[i] : j.type # "notify"

Carries(t, c) ==
  \/ t.at = "posting" /\ t.body.check = c
  \/ t.at = "sending" /\ \E i \in DOMAIN t.todo : NOTIFY_WEBHOOK(c) \in t.todo[i]

Settles(c) == (\E p \in posted : p.check = c) \/ c \in undelivered
Passed(c) == Settles(c) \/ NOTIFY_WEBHOOK(c) \in DOMAIN jobs

PostedOK ==
  /\ \A p \in posted : /\ p = [check |-> p.check, status |-> checks[p.check].status]
                       /\ p.check \in DOMAIN checks
  /\ undelivered \subseteq DOMAIN checks
QueuedOK == \A j \in DOMAIN jobs : j.type = "notify" => j.id \in DOMAIN checks

NoticeParts ==
  /\ PostedOK /\ QueuedOK
  /\ \A s \in Workers : NotesOK(slots[s])
  /\ \A q \in Requests : NoNotes(slots[q])

LEMMA NoticeIs == NoticeInv <=> NoticeParts
<1>1. \A q \in Requests : q \notin Workers
  BY MonitorAssumption
<1>2. ASSUME NoticeInv
      PROVE  \A q \in Requests : NoNotes(slots[q])
  BY <1>1, <1>2 DEF NoticeInv, NoNotes
<1>3. ASSUME NoticeInv
      PROVE  PostedOK /\ QueuedOK /\ \A s \in Workers : NotesOK(slots[s])
  BY <1>3 DEF NoticeInv, NotesOK, PostedOK, QueuedOK
<1>4. ASSUME PostedOK, QueuedOK, \A s \in Workers : NotesOK(slots[s]),
             \A q \in Requests : NoNotes(slots[q])
      PROVE  NoticeInv
  BY <1>4 DEF NoticeInv, NotesOK, NoNotes, PostedOK, QueuedOK
<1> QED
  BY <1>2, <1>3, <1>4 DEF NoticeParts

LEMMA NoticeNext == NoticeParts' => NoticeInv'
  BY NoticeIs, PTL

LEMMA AnnouncedIs ==
  ASSUME NEW c
  PROVE  Announced(c) <=> Passed(c) \/ \E s \in Workers : Carries(slots[s], c)
  BY DEF Announced, Passed, Settles, Carries, BagIn, BagToSet

LEMMA NotifyIs ==
  ASSUME NEW c, NEW d
  PROVE  /\ NOTIFY_WEBHOOK(c).type = "notify" /\ NOTIFY_WEBHOOK(c).id = c
         /\ NOTIFY_WEBHOOK(c) = NOTIFY_WEBHOOK(d) => c = d
<1>1. NOTIFY_WEBHOOK(c).type = "notify" /\ NOTIFY_WEBHOOK(c).id = c /\ NOTIFY_WEBHOOK(d).id = d
  BY DEF NOTIFY_WEBHOOK, Job
<1> QED
  BY <1>1

LEMMA ContinueIs ==
  ASSUME NEW job, NEW todo
  PROVE  /\ \A c : Carries(Continue(job, todo), c) <=>
                     \E i \in DOMAIN todo : NOTIFY_WEBHOOK(c) \in todo[i]
         /\ NotesOK(Continue(job, todo)) <=>
              \A i \in DOMAIN todo : \A j \in todo[i] : j.type = "notify" =>
                job.type = "check" /\ j.id \in DOMAIN checks /\ checks[j.id].row = job.id
         /\ NoNotes(Continue(job, todo)) <=>
              \A i \in DOMAIN todo : \A j \in todo[i] : j.type # "notify"
<1>1. CASE todo = <<>>
  <2>1. DOMAIN todo = {}
    BY <1>1
  <2>2. Continue(job, todo) = Idle
    BY <1>1 DEF Continue
  <2> QED
    BY <2>1, <2>2 DEF Carries, NotesOK, NoNotes, Idle
<1>2. CASE todo # <<>>
  <2>1. PICK t : t = Continue(job, todo)
    OBVIOUS
  <2>2. t.at = "sending" /\ t.job = job /\ t.todo = todo
    BY <1>2, <2>1 DEF Continue, Sending
  <2> QED
    BY <2>1, <2>2 DEF Carries, NotesOK, NoNotes
<1> QED
  BY <1>1, <1>2

\* A step of a worker slot hands each notification on: what it held is then in
\* the slot, in the queue, received or given up, and nothing else is new.  The
\* exceptions are those of a row one of whose checks is cut short.
HandsOn(s, t) ==
  /\ slots' = [slots EXCEPT ![s] = t]
  /\ \A c \in DOMAIN checks : checks[c].row \notin untold' =>
       (Passed(c)' \/ Carries(t, c) <=> Passed(c) \/ Carries(slots[s], c))
  /\ NotesOK(t) /\ PostedOK' /\ QueuedOK'

\* What a step other than the end of a probe leaves of the news.
NewsKept ==
  /\ NoticeInv'
  /\ \A c \in DOMAIN checks : checks[c].row \notin untold' => (Announced(c)' <=> Announced(c))

LEMMA WorkerHandsOn ==
  ASSUME TypeInv, NoticeInv, UNCHANGED checks, NEW s \in Workers, NEW t, HandsOn(s, t)
  PROVE  NewsKept
<1>1. slots'[s] = t /\ \A u \in Workers \cup Requests : u # s => slots'[u] = slots[u]
  BY DEF TypeInv, HandsOn
<1>2. s \notin Requests
  BY MonitorAssumption
<1>3. ASSUME NEW u \in Workers PROVE NotesOK(slots'[u])
  BY <1>1, NoticeIs DEF NoticeParts, HandsOn
<1>4. ASSUME NEW q \in Requests PROVE NoNotes(slots'[q])
  BY <1>1, <1>2, NoticeIs DEF NoticeParts
<1>5. NoticeInv'
  <2>1. \A u \in Workers : NotesOK(slots[u])'
    BY <1>3 DEF NotesOK
  <2>2. \A q \in Requests : NoNotes(slots[q])'
    BY <1>4 DEF NoNotes
  <2> QED
    BY <2>1, <2>2, NoticeNext DEF HandsOn, NoticeParts
<1>6. ASSUME NEW c \in DOMAIN checks, checks[c].row \notin untold'
      PROVE  Announced(c)' <=> Announced(c)
  <2>1. Passed(c)' \/ Carries(t, c) <=> Passed(c) \/ Carries(slots[s], c)
    BY <1>6 DEF HandsOn
  <2>2. Announced(c)' <=> Passed(c)' \/ \E u \in Workers : Carries(slots'[u], c)
    BY DEF Announced, Passed, Settles, Carries, BagIn, BagToSet
  <2> QED
    BY <1>1, <2>1, <2>2, AnnouncedIs
<1> QED
  BY <1>5, <1>6 DEF NewsKept

\* A step of a form submission, or of none, hands nothing on.
LEMMA RequestHandsOn ==
  ASSUME TypeInv, NoticeInv, UNCHANGED <<checks, posted, undelivered>>, JobsOK',
         \A u \in Workers : slots'[u] = slots[u],
         \A q \in Requests : slots'[q] = slots[q] \/ NoNotes(slots'[q]),
         \A j \in JobSet : j.type = "notify" => (j \in DOMAIN jobs' <=> j \in DOMAIN jobs)
  PROVE  NewsKept
<1>1. DOMAIN jobs \subseteq JobSet /\ DOMAIN jobs' \subseteq JobSet
  BY DEF TypeInv, JobsOK
<1>2. PostedOK' /\ QueuedOK'
  BY <1>1, NoticeIs DEF NoticeParts, PostedOK, QueuedOK
<1>3. \A u \in Workers : NotesOK(slots[u])'
  BY NoticeIs DEF NoticeParts, NotesOK
<1>4. \A q \in Requests : NoNotes(slots[q])'
  BY NoticeIs DEF NoticeParts, NoNotes
<1>5. NoticeInv'
  BY <1>2, <1>3, <1>4, NoticeNext DEF NoticeParts
<1>6. ASSUME NEW c \in DOMAIN checks PROVE Announced(c)' <=> Announced(c)
  <2>1. c \in Nat
    BY DEF TypeInv
  <2>2. NOTIFY_WEBHOOK(c) \in JobSet
    BY <2>1 DEF NOTIFY_WEBHOOK, Job, JobSet
  <2>3. Passed(c)' <=> Passed(c)
    BY <2>2, NotifyIs DEF Passed, Settles
  <2>4. Announced(c)' <=> Passed(c)' \/ \E u \in Workers : Carries(slots'[u], c)
    BY DEF Announced, Passed, Settles, Carries, BagIn, BagToSet
  <2> QED
    BY <2>3, <2>4, AnnouncedIs
<1> QED
  BY <1>5, <1>6 DEF NewsKept

LEMMA NoCarry ==
  ASSUME NEW t, t.at \notin {"sending", "posting"}
  PROVE  NotesOK(t) /\ \A c : ~Carries(t, c)
  BY DEF NotesOK, Carries

\* A request of checks alone carries no notification.
LEMMA ChecksCarryNone ==
  ASSUME NEW job, NEW todo, \A i \in DOMAIN todo : \A j \in todo[i] : j.type = "check"
  PROVE  NotesOK(Continue(job, todo)) /\ \A c : ~Carries(Continue(job, todo), c)
  BY ContinueIs, NotifyIs

\* A step that starts or ends no notification.
LEMMA QuietHandsOn ==
  ASSUME TypeInv, NoticeInv, UNCHANGED <<checks, posted, undelivered>>, JobsOK',
         NEW s \in Workers, NEW t, slots' = [slots EXCEPT ![s] = t],
         NotesOK(t), \A c : ~Carries(t, c),
         \A c \in DOMAIN checks : Carries(slots[s], c) => checks[c].row \in untold',
         \A j \in JobSet : j.type = "notify" =>
           \/ j \in DOMAIN jobs' <=> j \in DOMAIN jobs
           \/ j.id \in DOMAIN checks /\ checks[j.id].row \in untold'
  PROVE  NewsKept
<1>1. DOMAIN jobs \subseteq JobSet /\ DOMAIN jobs' \subseteq JobSet
  BY DEF TypeInv, JobsOK
<1>2. PostedOK'
  BY NoticeIs DEF NoticeParts, PostedOK
<1>3. QueuedOK'
  <2> SUFFICES ASSUME NEW j \in DOMAIN jobs', j.type = "notify" PROVE j.id \in DOMAIN checks
    BY DEF QueuedOK
  <2> QED
    BY <1>1, NoticeIs DEF NoticeParts, QueuedOK
<1>4. ASSUME NEW c \in DOMAIN checks, checks[c].row \notin untold'
      PROVE  Passed(c)' \/ Carries(t, c) <=> Passed(c) \/ Carries(slots[s], c)
  <2>1. c \in Nat
    BY DEF TypeInv
  <2>2. NOTIFY_WEBHOOK(c) \in JobSet
    BY <2>1 DEF NOTIFY_WEBHOOK, Job, JobSet
  <2>3. Passed(c)' <=> Passed(c)
    BY <1>4, <2>2, NotifyIs DEF Passed, Settles
  <2> QED
    BY <1>4, <2>3
<1>5. HandsOn(s, t)
  BY <1>2, <1>3, <1>4 DEF HandsOn
<1> QED
  BY <1>5, WorkerHandsOn

\* A job other than a notification is taken.
LEMMA TakenNews ==
  ASSUME TypeInv, NoticeInv, UNCHANGED <<checks, posted, undelivered>>, NEW s \in Workers, NEW j,
         Taken(s, j), j.type # "notify", NEW t, slots' = [slots EXCEPT ![s] = t],
         NotesOK(t), \A c : ~Carries(t, c)
  PROVE  NewsKept
<1>1. /\ JobsOK' /\ slots[s] = Idle
      /\ DOMAIN jobs' \subseteq DOMAIN jobs /\ DOMAIN jobs \ {j} \subseteq DOMAIN jobs'
  BY JobsTaken
<1>2. \A c : ~Carries(slots[s], c)
  BY <1>1, NoCarry DEF Idle
<1>3. \A x \in JobSet : x.type = "notify" => (x \in DOMAIN jobs' <=> x \in DOMAIN jobs)
  BY <1>1
<1> QED
  BY <1>1, <1>2, <1>3, QuietHandsOn

LEMMA BeginNews ==
  ASSUME TypeInv, NoticeInv, NEW s \in Workers,
         \/ \E r \in DOMAIN rows : BeginCheck(s, r) \/ BeginDiscovery(s, r)
         \/ Schedule(s)
  PROVE  NewsKept
<1>a. \A job, row, at : Reading(at, job, row).at = at
  BY DEF Reading
<1>b. /\ NotesOK(Idle) /\ \A c : ~Carries(Idle, c)
      /\ \A job, row : /\ NotesOK(Reading("probing", job, row)) /\ NotesOK(Reading("fetching", job, row))
                       /\ \A c : /\ ~Carries(Reading("probing", job, row), c)
                                 /\ ~Carries(Reading("fetching", job, row), c)
  BY <1>a, NoCarry DEF Idle
<1>1. ASSUME NEW r \in DOMAIN rows, BeginCheck(s, r) PROVE NewsKept
  <2>1. UNCHANGED <<checks, posted, undelivered>> /\ Taken(s, CHECK_URL(r)) /\ CHECK_URL(r).type # "notify"
    BY <1>1 DEF BeginCheck, CHECK_URL, Job, histories
  <2>2. CASE slots' = [slots EXCEPT ![s] = Idle]
    BY <1>b, <2>1, <2>2, TakenNews
  <2>3. CASE slots' = [slots EXCEPT ![s] = Reading("probing", CHECK_URL(r), rows[r])]
    <3>1. PICK t : t = Reading("probing", CHECK_URL(r), rows[r])
      OBVIOUS
    <3> QED
      BY <1>b, <2>1, <2>3, <3>1, TakenNews
  <2> QED
    BY <1>1, <2>2, <2>3 DEF BeginCheck
<1>2. ASSUME NEW r \in DOMAIN rows, BeginDiscovery(s, r) PROVE NewsKept
  <2>1. /\ UNCHANGED <<checks, posted, undelivered>> /\ Taken(s, DISCOVER_SITEMAP_URLS(r))
        /\ DISCOVER_SITEMAP_URLS(r).type # "notify"
    BY <1>2 DEF BeginDiscovery, DISCOVER_SITEMAP_URLS, Job, histories
  <2>2. PICK t : t = Reading("fetching", DISCOVER_SITEMAP_URLS(r), rows[r])
    OBVIOUS
  <2>3. slots' = [slots EXCEPT ![s] = t]
    BY <1>2, <2>2 DEF BeginDiscovery
  <2> QED
    BY <1>b, <2>1, <2>2, <2>3, TakenNews
<1>3. CASE Schedule(s)
  <2>1. UNCHANGED <<checks, posted, undelivered>> /\ Taken(s, SCHEDULE_CHECKS) /\ SCHEDULE_CHECKS.type # "notify"
    BY <1>3 DEF Schedule, SCHEDULE_CHECKS, Job, histories
  <2>2. PICK old : slots' = [slots EXCEPT ![s] =
                    Continue(SCHEDULE_CHECKS, Batches(findStaleEnabledIds(old)))]
    BY <1>3 DEF Schedule
  <2>3. findStaleEnabledIds(old) \in SUBSET DOMAIN rows
    BY DEF findStaleEnabledIds
  <2>4. PICK todo : todo = Batches(findStaleEnabledIds(old))
    OBVIOUS
  <2>5. \A b \in DOMAIN todo : \A j \in todo[b] : j.type = "check"
    BY <2>3, <2>4, IdsTyped, BatchesTyped
  <2>6. PICK t : t = Continue(SCHEDULE_CHECKS, todo)
    OBVIOUS
  <2>7. NotesOK(t) /\ \A c : ~Carries(t, c)
    BY <2>5, <2>6, ChecksCarryNone
  <2> QED
    BY <2>1, <2>2, <2>4, <2>6, <2>7, TakenNews
<1> QED
  BY <1>1, <1>2, <1>3

\* A notification is taken from the queue and posted.
LEMMA NotifyNews ==
  ASSUME TypeInv, NoticeInv, NEW s \in Workers, NEW n \in DOMAIN checks, Notify(s, n)
  PROVE  NewsKept
<1>1. /\ JobsOK' /\ slots[s] = Idle /\ NOTIFY_WEBHOOK(n) \in DOMAIN jobs
      /\ DOMAIN jobs' \subseteq DOMAIN jobs /\ DOMAIN jobs \ {NOTIFY_WEBHOOK(n)} \subseteq DOMAIN jobs'
  BY JobsTaken DEF Notify
<1>2. UNCHANGED <<checks, posted, undelivered>>
  BY DEF Notify, histories
<1>3. PICK t : t = [at |-> "posting", job |-> NOTIFY_WEBHOOK(n),
                    body |-> [check |-> n, status |-> checks[n].status]]
  OBVIOUS
<1>4. slots' = [slots EXCEPT ![s] = t]
  BY <1>3 DEF Notify
<1>5. NotesOK(t) /\ \A c : Carries(t, c) <=> c = n
  BY <1>3 DEF NotesOK, Carries
<1>6. \A c : ~Carries(slots[s], c)
  BY <1>1, NoCarry DEF Idle
<1>7. PostedOK' /\ QueuedOK'
  BY <1>1, <1>2, NoticeIs DEF NoticeParts, PostedOK, QueuedOK
<1>8. ASSUME NEW c \in DOMAIN checks
      PROVE  Passed(c)' \/ Carries(t, c) <=> Passed(c) \/ Carries(slots[s], c)
  <2>1. CASE c = n
    BY <1>1, <1>5, <2>1 DEF Passed, Settles
  <2>2. CASE c # n
    <3>1. NOTIFY_WEBHOOK(c) # NOTIFY_WEBHOOK(n)
      BY <2>2, NotifyIs
    <3> QED
      BY <1>1, <1>2, <1>5, <1>6, <2>2, <3>1 DEF Passed, Settles
  <2> QED
    BY <2>1, <2>2
<1>9. HandsOn(s, t)
  BY <1>4, <1>5, <1>7, <1>8 DEF HandsOn
<1> QED
  BY <1>2, <1>9, WorkerHandsOn

\* A sequence of requests that is not empty is its head and its tail.
LEMMA HeadTail ==
  ASSUME NEW S, NEW q \in Seq(S), q # <<>>
  PROVE  /\ \A i \in DOMAIN q : q[i] = Head(q) \/ \E k \in DOMAIN Tail(q) : q[i] = Tail(q)[k]
         /\ \A k \in DOMAIN Tail(q) : \E i \in DOMAIN q : Tail(q)[k] = q[i]
         /\ 1 \in DOMAIN q /\ q[1] = Head(q)
<1>1. /\ Len(q) \in Nat \ {0} /\ DOMAIN q = 1..Len(q)
      /\ Tail(q) \in Seq(S) /\ Len(Tail(q)) = Len(q) - 1 /\ DOMAIN Tail(q) = 1..(Len(q) - 1)
      /\ \A k \in 1..(Len(q) - 1) : Tail(q)[k] = q[k + 1]
      /\ Head(q) = q[1]
  OBVIOUS
<1>2. \A i \in 1..Len(q) : i = 1 \/ (i - 1 \in 1..(Len(q) - 1) /\ (i - 1) + 1 = i)
  BY <1>1
<1>3. ASSUME NEW i \in DOMAIN q
      PROVE  q[i] = Head(q) \/ \E k \in DOMAIN Tail(q) : q[i] = Tail(q)[k]
  <2>1. CASE i = 1
    BY <1>1, <2>1
  <2>2. CASE i # 1
    <3>1. i - 1 \in DOMAIN Tail(q) /\ Tail(q)[i - 1] = q[i]
      BY <1>1, <1>2, <2>2
    <3> QED
      BY <3>1
  <2> QED
    BY <2>1, <2>2
<1>4. ASSUME NEW k \in DOMAIN Tail(q) PROVE \E i \in DOMAIN q : Tail(q)[k] = q[i]
  <2>1. k + 1 \in DOMAIN q /\ Tail(q)[k] = q[k + 1]
    BY <1>1
  <2> QED
    BY <2>1
<1> QED
  BY <1>1, <1>3, <1>4

\* A request is answered: its notification, if any, is queued.
LEMMA SendNews ==
  ASSUME TypeInv, NoticeInv, NEW s \in Workers, Send(s)
  PROVE  NewsKept
<1> DEFINE todo == slots[s].todo
<1>1. /\ JobsOK' /\ todo \in Seq(SUBSET JobSet) /\ todo # <<>>
      /\ DOMAIN jobs' = DOMAIN jobs \cup Head(todo)
  BY JobsSent
<1>2. UNCHANGED <<checks, posted, undelivered>> /\ slots[s].at = "sending"
  BY DEF Send, histories
<1>3. PICK job, rest, t : /\ job = slots[s].job /\ rest = Tail(todo) /\ t = Continue(job, rest)
                          /\ slots' = [slots EXCEPT ![s] = t]
  BY DEF Send
<1>4. \A i \in DOMAIN todo : \A j \in todo[i] : j.type = "notify" =>
        job.type = "check" /\ j.id \in DOMAIN checks /\ checks[j.id].row = job.id
  BY <1>2, <1>3, NoticeIs DEF NoticeParts, NotesOK
<1>5. /\ \A i \in DOMAIN todo : todo[i] = Head(todo) \/ \E k \in DOMAIN rest : todo[i] = rest[k]
      /\ \A k \in DOMAIN rest : \E i \in DOMAIN todo : rest[k] = todo[i]
      /\ 1 \in DOMAIN todo /\ todo[1] = Head(todo)
  BY <1>1, <1>3, HeadTail
<1>6. \A c : Carries(slots[s], c) <=> \E i \in DOMAIN todo : NOTIFY_WEBHOOK(c) \in todo[i]
  BY <1>2 DEF Carries
<1> HIDE DEF todo
<1>7. /\ \A c : Carries(t, c) <=> \E i \in DOMAIN rest : NOTIFY_WEBHOOK(c) \in rest[i]
      /\ NotesOK(t) <=>
              \A i \in DOMAIN rest : \A j \in rest[i] : j.type = "notify" =>
                job.type = "check" /\ j.id \in DOMAIN checks /\ checks[j.id].row = job.id
  <2>1. \A c : Carries(Continue(job, rest), c) <=> \E i \in DOMAIN rest : NOTIFY_WEBHOOK(c) \in rest[i]
    BY ContinueIs
  <2>2. NotesOK(Continue(job, rest)) <=>
              \A i \in DOMAIN rest : \A j \in rest[i] : j.type = "notify" =>
                job.type = "check" /\ j.id \in DOMAIN checks /\ checks[j.id].row = job.id
    BY ContinueIs
  <2>3. t = Continue(job, rest)
    BY <1>3
  <2> QED
    BY <2>1, <2>2, <2>3
<1>8. NotesOK(t)
  BY <1>4, <1>5, <1>7
<1>9. PostedOK' /\ QueuedOK'
  <2>1. \A j \in Head(todo) : j.type = "notify" => j.id \in DOMAIN checks
    BY <1>4, <1>5
  <2> QED
    BY <1>1, <1>2, <2>1, NoticeIs DEF NoticeParts, PostedOK, QueuedOK
<1>10. ASSUME NEW c \in DOMAIN checks
       PROVE  Passed(c)' \/ Carries(t, c) <=> Passed(c) \/ Carries(slots[s], c)
  <2>1. Passed(c)' <=> Passed(c) \/ NOTIFY_WEBHOOK(c) \in Head(todo)
    BY <1>1, <1>2 DEF Passed, Settles
  <2>2. Carries(slots[s], c) <=> NOTIFY_WEBHOOK(c) \in Head(todo) \/ Carries(t, c)
    BY <1>5, <1>6, <1>7
  <2> QED
    BY <2>1, <2>2
<1>11. HandsOn(s, t)
  BY <1>3, <1>8, <1>9, <1>10 DEF HandsOn
<1> QED
  BY <1>2, <1>11, WorkerHandsOn

\* A notification that is posted is received, given up, or comes back to the
\* queue.
LEMMA PostNews ==
  ASSUME TypeInv, NoticeInv, NEW s \in Workers,
         PostEnds(s) \/ PostRefused(s) \/ PostFails(s) \/ (Killed(s) /\ slots[s].at = "posting")
  PROVE  NewsKept
<1> DEFINE n == slots[s].body.check
<1>1. /\ slots[s].at = "posting" /\ n \in DOMAIN checks /\ slots[s].job = NOTIFY_WEBHOOK(n)
      /\ slots[s].body = [check |-> n, status |-> checks[n].status]
  BY DEF PostEnds, PostRefused, PostFails, TypeInv, SlotOK
<1>2. slots' = [slots EXCEPT ![s] = Idle] /\ UNCHANGED checks
  BY DEF PostEnds, PostRefused, PostFails, Killed
<1>3. \A c : Carries(slots[s], c) <=> c = n
  BY <1>1 DEF Carries
<1>4. NotesOK(Idle) /\ \A c : ~Carries(Idle, c)
  BY NoCarry DEF Idle
<1> HIDE DEF n
<1>5. /\ DOMAIN jobs \subseteq DOMAIN jobs' /\ DOMAIN jobs' \subseteq DOMAIN jobs \cup {NOTIFY_WEBHOOK(n)}
      /\ posted' \in {posted, posted \cup {slots[s].body}}
      /\ undelivered' \in {undelivered, undelivered \cup {n}}
      /\ \/ posted' = posted \cup {slots[s].body} \/ undelivered' = undelivered \cup {n}
         \/ NOTIFY_WEBHOOK(n) \in DOMAIN jobs'
  <2>1. CASE PostEnds(s)
    BY <2>1 DEF PostEnds, histories
  <2>2. CASE PostRefused(s)
    BY <2>2 DEF PostRefused, n
  <2>3. CASE PostFails(s) \/ Killed(s)
    <3>1. PICK back \in Thrown(s) :
            /\ jobs' = jobs (+) back
            /\ back = EmptyBag \/ undelivered' = undelivered
            /\ undelivered' \in {undelivered, undelivered \cup {n}}
            /\ back = EmptyBag => undelivered' = undelivered \cup {n}
      <4>1. CASE PostFails(s)
        BY <4>1 DEF PostFails, n
      <4>2. CASE Killed(s)
        BY <4>2, KilledReturns DEF Killed, Noted
      <4> QED
        BY <2>3, <4>1, <4>2
    <3>2. /\ DOMAIN jobs \subseteq DOMAIN jobs' /\ DOMAIN jobs' \subseteq DOMAIN jobs \cup {NOTIFY_WEBHOOK(n)}
          /\ back # EmptyBag => NOTIFY_WEBHOOK(n) \in DOMAIN jobs'
      <4>1. slots[s] # Idle
        BY <1>1 DEF Idle
      <4>2. /\ DOMAIN jobs \subseteq DOMAIN jobs' /\ DOMAIN jobs' \subseteq DOMAIN jobs \cup {slots[s].job}
            /\ back # EmptyBag => DOMAIN jobs' = DOMAIN jobs \cup {slots[s].job}
        BY <3>1, <4>1, JobsReturn
      <4> QED
        BY <1>1, <4>2
    <3>3. posted' \in {posted, posted \cup {slots[s].body}}
      BY <2>3 DEF PostFails, Killed
    <3> QED
      BY <3>1, <3>2, <3>3
  <2> QED
    BY <2>1, <2>2, <2>3
<1>6. PostedOK'
  <2>1. PostedOK
    BY NoticeIs DEF NoticeParts
  <2>2. /\ posted' \subseteq posted \cup {slots[s].body} /\ undelivered' \subseteq undelivered \cup {n}
    BY <1>5
  <2>3. /\ slots[s].body = [check |-> slots[s].body.check, status |-> checks[slots[s].body.check].status]
        /\ slots[s].body.check \in DOMAIN checks
    BY <1>1 DEF n
  <2> QED
    BY <1>1, <1>2, <2>1, <2>2, <2>3 DEF PostedOK
<1>7. QueuedOK'
  BY <1>1, <1>2, <1>5, NoticeIs, NotifyIs DEF NoticeParts, QueuedOK
<1>8. ASSUME NEW c \in DOMAIN checks
      PROVE  Passed(c)' <=> Passed(c) \/ Carries(slots[s], c)
  <2>1. NOTIFY_WEBHOOK(c) = NOTIFY_WEBHOOK(n) => c = n
    BY NotifyIs
  <2>2. slots[s].body.check = n
    BY DEF n
  <2>3. CASE c = n
    BY <1>3, <1>5, <2>2, <2>3 DEF Passed, Settles
  <2>4. CASE c # n
    BY <1>3, <1>5, <2>1, <2>2, <2>4 DEF Passed, Settles
  <2> QED
    BY <2>3, <2>4
<1>9. HandsOn(s, Idle)
  BY <1>2, <1>4, <1>6, <1>7, <1>8 DEF HandsOn
<1> QED
  BY <1>2, <1>9, WorkerHandsOn

\* The steps of a fetch or a scan carry no notification.
LEMMA ScanNews ==
  ASSUME TypeInv, NoticeInv, NEW s \in Workers,
         \/ NothingFetched(s) \/ FetchEnds(s) \/ Find(s) \/ Create(s)
         \/ EnableListed(s) \/ DisableUnlisted(s) \/ Report(s)
  PROVE  NewsKept
<1>1. /\ UNCHANGED <<checks, posted, undelivered, jobs>>
      /\ slots[s].at \notin {"sending", "posting"}
  BY DEF NothingFetched, FetchEnds, Find, Create, EnableListed, DisableUnlisted, Completed, Report,
     histories
<1>2. \A c : ~Carries(slots[s], c)
  BY <1>1, NoCarry
<1>3. PICK t : slots' = [slots EXCEPT ![s] = t] /\ NotesOK(t) /\ \A c : ~Carries(t, c)
  <2>1. CASE NothingFetched(s)
    BY <2>1, NoCarry DEF NothingFetched, Idle
  <2>2. CASE FetchEnds(s) \/ Find(s) \/ Create(s) \/ EnableListed(s) \/ DisableUnlisted(s)
    <3>1. PICK t \in Scan : slots' = [slots EXCEPT ![s] = t]
      BY <2>2, FetchTo, FindTo, CreateTo, UpdateTo
    <3>2. t.at \notin {"sending", "posting"}
      BY DEF Scan, ScanSteps
    <3> QED
      BY <3>1, <3>2, NoCarry
  <2>3. CASE Report(s)
    <3> DEFINE ids == enabledSitemapChildrenIds(slots[s].monitored.url)
    <3>1. ids \in SUBSET DOMAIN rows
      BY DEF enabledSitemapChildrenIds
    <3>2. slots' = [slots EXCEPT ![s] = Continue(slots[s].job, Batches(ids))]
      BY <2>3 DEF Report
    <3> HIDE DEF ids
    <3>3. \A b \in DOMAIN Batches(ids) : \A j \in Batches(ids)[b] : j.type = "check"
      BY <3>1, IdsTyped, BatchesTyped
    <3> QED
      BY <3>2, <3>3, ChecksCarryNone
  <2> QED
    BY <2>1, <2>2, <2>3
<1>4. JobsOK'
  BY <1>1 DEF TypeInv, JobsOK
<1> QED
  BY <1>1, <1>2, <1>3, <1>4, QuietHandsOn

\* A handler that fails, or is killed, before it has a notification to hand on,
\* or one whose row has now untold news.
LEMMA FaultNews ==
  ASSUME TypeInv, NoticeInv, NEW s \in Workers,
         \/ SendFails(s) \/ CreateRefused(s) \/ ReportFails(s)
         \/ (Killed(s) /\ slots[s].at # "posting")
  PROVE  NewsKept
<1>1. /\ UNCHANGED <<checks, posted, undelivered>> /\ slots' = [slots EXCEPT ![s] = Idle]
      /\ slots[s].at # "posting" /\ slots[s].at # "idle"
  <2>1. SlotOK(slots[s])
    BY DEF TypeInv
  <2> QED
    BY <2>1 DEF SendFails, CreateRefused, ReportFails, Killed, SlotOK, Noted, histories
<1>2. NotesOK(Idle) /\ \A c : ~Carries(Idle, c)
  BY NoCarry DEF Idle
<1>3. slots[s].job \in JobSet /\ slots[s].job.type # "notify"
  BY <1>1 DEF TypeInv, SlotOK, Scan
<1>4. /\ JobsOK' /\ DOMAIN jobs \subseteq DOMAIN jobs'
      /\ \/ DOMAIN jobs' \subseteq DOMAIN jobs \cup {slots[s].job}
         \/ slots[s].at = "sending"
            /\ DOMAIN jobs' \subseteq DOMAIN jobs \cup Head(slots[s].todo) \cup {slots[s].job}
  <2>1. CASE SendFails(s)
    BY <2>1, JobsLost DEF SendFails
  <2>2. CASE CreateRefused(s) \/ ReportFails(s) \/ Killed(s)
    <3>1. \E back \in Thrown(s) : jobs' = jobs (+) back
      BY <2>2, KilledReturns DEF CreateRefused, ReportFails, Killed
    <3>2. slots[s] # Idle
      BY <1>1 DEF Idle
    <3> QED
      BY <3>1, <3>2, JobsReturn
  <2> QED
    BY <2>1, <2>2
<1>5. CASE slots[s].at # "sending"
  <2>1. \A c : ~Carries(slots[s], c)
    BY <1>1, <1>5, NoCarry
  <2>2. \A j \in JobSet : j.type = "notify" => (j \in DOMAIN jobs' <=> j \in DOMAIN jobs)
    BY <1>3, <1>4, <1>5
  <2> QED
    BY <1>1, <1>2, <1>4, <2>1, <2>2, QuietHandsOn
<1>6. CASE slots[s].at = "sending"
  <2> DEFINE todo == slots[s].todo
  <2>1. todo \in Seq(SUBSET JobSet) /\ todo # <<>>
    BY <1>6 DEF TypeInv, SlotOK
  <2>2. 1 \in DOMAIN todo /\ todo[1] = Head(todo)
    BY <2>1, HeadTail
  <2>3. \A i \in DOMAIN todo : \A j \in todo[i] : j.type = "notify" =>
          slots[s].job.type = "check" /\ j.id \in DOMAIN checks /\ checks[j.id].row = slots[s].job.id
    BY <1>6, NoticeIs DEF NoticeParts, NotesOK
  <2>4. slots[s].job.type = "check" => slots[s].job.id \in untold'
    <3>1. Noted(s)
      BY <1>6 DEF SendFails, Killed, CreateRefused, ReportFails
    <3> QED
      BY <1>6, <3>1 DEF Noted
  <2>5. \A c : Carries(slots[s], c) <=> \E i \in DOMAIN todo : NOTIFY_WEBHOOK(c) \in todo[i]
    BY <1>6 DEF Carries
  <2> HIDE DEF todo
  <2>6. ASSUME NEW c, Carries(slots[s], c) PROVE checks[c].row \in untold'
    <3>1. PICK i \in DOMAIN todo : NOTIFY_WEBHOOK(c) \in todo[i]
      BY <2>5, <2>6
    <3>2. PICK j : j = NOTIFY_WEBHOOK(c)
      OBVIOUS
    <3>3. j \in todo[i] /\ j.type = "notify" /\ j.id = c
      BY <3>1, <3>2, NotifyIs
    <3> QED
      BY <2>3, <2>4, <3>3
  <2>7. ASSUME NEW j \in JobSet, j.type = "notify", j \in DOMAIN jobs', j \notin DOMAIN jobs
        PROVE  j.id \in DOMAIN checks /\ checks[j.id].row \in untold'
    <3>1. j \in Head(todo)
      BY <1>3, <1>4, <2>7 DEF todo
    <3> QED
      BY <2>2, <2>3, <2>4, <2>7, <3>1
  <2> QED
    BY <1>1, <1>2, <1>4, <2>6, <2>7, QuietHandsOn
<1> QED
  BY <1>5, <1>6

\* The form and the cron entry enqueue no notification.
LEMMA RequestNews ==
  ASSUME TypeInv, NoticeInv, NEW q \in Requests,
         Send(q) \/ SendFails(q) \/ \E url \in FormUrls : Submit(q, url)
  PROVE  NewsKept
<1>1. UNCHANGED <<checks, posted, undelivered>>
  BY DEF Send, SendFails, Submit, Noted, histories
<1>2. PICK t : slots' = [slots EXCEPT ![q] = t]
  BY DEF Send, SendFails, Submit
<1>3. /\ slots'[q] = t /\ \A u \in Workers \cup Requests : u # q => slots'[u] = slots[u]
      /\ q \notin Workers
  BY <1>2, MonitorAssumption DEF TypeInv
<1>4. NoNotes(slots[q])
  BY NoticeIs DEF NoticeParts
<1>5. ASSUME NoNotes(slots'[q]), JobsOK',
             \A j \in JobSet : j.type = "notify" => (j \in DOMAIN jobs' <=> j \in DOMAIN jobs)
      PROVE  NewsKept
  BY <1>1, <1>3, <1>5, RequestHandsOn
<1>6. NoNotes(Idle)
  BY DEF NoNotes, Idle
<1>7. CASE Send(q) \/ SendFails(q)
  <2> DEFINE todo == slots[q].todo
  <2>1. todo \in Seq(SUBSET JobSet) /\ todo # <<>> /\ slots[q].at = "sending" /\ slots[q].job.type # "notify"
    BY <1>7 DEF Send, SendFails, TypeInv, SlotOK
  <2>2. \A i \in DOMAIN todo : \A j \in todo[i] : j.type # "notify"
    BY <1>4, <2>1 DEF NoNotes
  <2>3. /\ JobsOK' /\ DOMAIN jobs \subseteq DOMAIN jobs'
        /\ DOMAIN jobs' \subseteq DOMAIN jobs \cup Head(todo) \cup {slots[q].job}
    BY <1>7, JobsSent, JobsLost
  <2>4. /\ \A k \in DOMAIN Tail(todo) : \E i \in DOMAIN todo : Tail(todo)[k] = todo[i]
        /\ 1 \in DOMAIN todo /\ todo[1] = Head(todo)
    BY <2>1, HeadTail
  <2>5. CASE SendFails(q)
    <3>1. slots'[q] = Idle
      BY <2>5 DEF SendFails, TypeInv
    <3> HIDE DEF todo
    <3>2. \A j \in Head(todo) : j.type # "notify"
      BY <2>2, <2>4
    <3> QED
      BY <1>5, <1>6, <2>1, <2>3, <3>1, <3>2
  <2>6. CASE Send(q)
    <3>1. PICK job, rest : /\ rest = Tail(todo)
                           /\ slots'[q] = Continue(job, rest)
      BY <2>6 DEF Send, TypeInv
    <3> HIDE DEF todo
    <3>2. \A i \in DOMAIN rest : \A j \in rest[i] : j.type # "notify"
      BY <2>2, <2>4, <3>1
    <3>3. NoNotes(Continue(job, rest))
      BY <3>2, ContinueIs
    <3>4. \A j \in Head(todo) : j.type # "notify"
      BY <2>2, <2>4
    <3> QED
      BY <1>5, <2>1, <2>3, <3>1, <3>3, <3>4
  <2> QED
    BY <1>7, <2>5, <2>6
<1>8. ASSUME NEW url \in FormUrls, Submit(q, url) PROVE NewsKept
  <2>1. PICK id : slots'[q] = Sending(CHECK_URL(id), <<{CHECK_URL(id)}, emit>>)
                  \/ slots'[q] = Sending(CHECK_URL(id), <<{CHECK_URL(id)}>>)
    BY <1>8, <1>3 DEF Submit, TypeInv
  <2>2. \A todo : todo \in {<<{CHECK_URL(id)}, emit>>, <<{CHECK_URL(id)}>>} =>
          \A i \in DOMAIN todo : \A j \in todo[i] : j.type # "notify"
    BY DEF CHECK_URL, Job, emit
  <2>3. \A job, todo : /\ Sending(job, todo).at = "sending" /\ Sending(job, todo).todo = todo
    BY DEF Sending
  <2>4. NoNotes(slots'[q])
    <3>1. PICK todo \in {<<{CHECK_URL(id)}, emit>>, <<{CHECK_URL(id)}>>} :
                slots'[q] = Sending(CHECK_URL(id), todo)
      BY <2>1
    <3>2. slots'[q].todo = todo
      BY <2>3, <3>1
    <3> QED
      BY <2>2, <3>2 DEF NoNotes
  <2>5. UNCHANGED jobs
    BY <1>8 DEF Submit
  <2> QED
    BY <1>5, <2>4, <2>5 DEF TypeInv, JobsOK
<1> QED
  BY <1>7, <1>8

\* Only the end of a probe is news.
LEMMA OtherNews ==
  ASSUME TypeInv, NoticeInv, [Next]_vars, \A s \in Workers : ~ProbeEnds(s)
  PROVE  NewsKept
<1>1. ASSUME NEW s \in Workers, Work(s) PROVE NewsKept
  BY <1>1, BeginNews, NotifyNews, SendNews, PostNews, ScanNews DEF Work
<1>2. ASSUME NEW s \in Workers, Fault(s) PROVE NewsKept
  BY <1>2, PostNews, FaultNews DEF Fault
<1>3. ASSUME NEW q \in Requests, Send(q) \/ SendFails(q) \/ \E url \in FormUrls : Submit(q, url)
      PROVE  NewsKept
  BY <1>3, RequestNews
<1>4. CASE CronFires \/ UNCHANGED vars
  <2>1. UNCHANGED <<checks, posted, undelivered, slots>>
    BY <1>4 DEF CronFires, vars, histories
  <2>2. SCHEDULE_CHECKS \in JobSet /\ SCHEDULE_CHECKS.type # "notify"
    BY DEF SCHEDULE_CHECKS, Job, JobSet
  <2>3. JobsOK' /\ (DOMAIN jobs' = DOMAIN jobs \/ DOMAIN jobs' = DOMAIN jobs \cup {SCHEDULE_CHECKS})
    <3>1. CASE CronFires
      <4>1. jobs' = jobs (+) SetToBag({SCHEDULE_CHECKS}) /\ {SCHEDULE_CHECKS} \in SUBSET JobSet
        BY <3>1, <2>2 DEF CronFires, Enqueued
      <4> QED
        BY <4>1, JobsGrow
    <3>2. CASE UNCHANGED vars
      BY <3>2 DEF vars, TypeInv, JobsOK
    <3> QED
      BY <1>4, <3>1, <3>2
  <2> QED
    BY <2>1, <2>2, <2>3, RequestHandsOn
<1> QED
  BY <1>1, <1>2, <1>3, <1>4 DEF Next

\* What NewsInv says of one row.
NewsOf(r) ==
  /\ rows[r].lastStatus = "down" => News(r) # {}
  /\ rows[r].lastStatus = Never => \A c \in DOMAIN checks : checks[c].row # r
  /\ \A c \in News(r) :
       (\A d \in News(r) : d <= c) => checks[c].status = rows[r].lastStatus

NewsParts == \A r \in DOMAIN rows \ untold : NewsOf(r)

LEMMA NewsIs == NewsInv <=> NewsParts
  BY DEF NewsInv, NewsOf, NewsParts

LEMMA NewsNext == NewsParts' => NewsInv'
  BY NewsIs, PTL

\* A step that ends no probe leaves the status of a row and its news alone; a new
\* row has neither.
LEMMA StatusKept ==
  ASSUME TypeInv, NoticeInv, NewsInv, [Next]_vars, \A s \in Workers : ~ProbeEnds(s)
  PROVE  NoticeInv' /\ NewsInv'
<1>1. NewsKept
  BY OtherNews
<1>2. /\ UNCHANGED checks /\ untold \subseteq untold'
      /\ \A r \in DOMAIN rows : rows'[r].lastStatus = rows[r].lastStatus
      /\ \A r \in DOMAIN rows' \ DOMAIN rows : rows'[r].lastStatus = Never
  BY CountsKept
<1>3. ASSUME NEW r \in DOMAIN rows', r \notin untold' PROVE NewsOf(r)'
  <2>1. CASE r \in DOMAIN rows
    <3>1. NewsOf(r)
      BY <1>2, <1>3, <2>1, NewsIs DEF NewsParts
    <3>2. News(r)' = News(r)
      <4>1. \A c \in DOMAIN checks : checks[c].row = r => (Announced(c)' <=> Announced(c))
        BY <1>1, <1>3 DEF NewsKept
      <4>2. News(r)' = {c \in DOMAIN checks : checks[c].row = r /\ Announced(c)'}
        BY <1>2 DEF News
      <4> QED
        BY <4>1, <4>2 DEF News
    <3> QED
      BY <1>2, <2>1, <3>1, <3>2 DEF NewsOf
  <2>2. CASE r \notin DOMAIN rows
    <3>1. \A c \in DOMAIN checks : checks[c].row # r
      BY <2>2 DEF TypeInv
    <3>2. News(r)' = {}
      BY <1>2, <3>1 DEF News
    <3>3. rows'[r].lastStatus = Never /\ Never # "down"
      BY <1>2, <1>3, <2>2 DEF Never
    <3> QED
      BY <1>2, <3>1, <3>2, <3>3 DEF NewsOf
  <2> QED
    BY <2>1, <2>2
<1>4. NewsInv'
  BY <1>3, NewsNext DEF NewsParts
<1> QED
  BY <1>1, <1>4 DEF NewsKept

\* The requests that follow from a probe notify of the check just recorded, if
\* the status is news, and of nothing else.
LEMMA ProbeRequests ==
  ASSUME NEW s, NEW result, NEW todo, todo = News2(s, result)
  PROVE  /\ \A i \in DOMAIN todo : \A j \in todo[i] :
              j.type = "notify" => j = NOTIFY_WEBHOOK(Len(checks) + 1)
         /\ (\E i \in DOMAIN todo : NOTIFY_WEBHOOK(Len(checks) + 1) \in todo[i]) <=>
              statusTransitioned(slots[s].monitored.lastStatus, result.status)
<1> DEFINE trans == statusTransitioned(slots[s].monitored.lastStatus, result.status)
<1>1. PICK n, d : n = NOTIFY_WEBHOOK(Len(checks) + 1) /\ d = DISCOVER_SITEMAP_URLS(slots[s].job.id)
  OBVIOUS
<1>2. d.type # "notify" /\ n.type = "notify" /\ n # d
  BY <1>1, NotifyIs DEF DISCOVER_SITEMAP_URLS, Job
<1>3. todo = (IF trans THEN <<{}, {n}>> ELSE <<>>) \o (IF result.isSitemap THEN <<{d}>> ELSE <<>>)
  BY <1>1 DEF News2, emit
<1> HIDE DEF trans
<1>4. CASE trans /\ result.isSitemap
  <2>1. PICK x, y, z : x = {} /\ y = {n} /\ z = {d}
    OBVIOUS
  <2>2. todo = <<x, y>> \o <<z>>
    BY <1>3, <1>4, <2>1
  <2>3. PICK S : x \in S /\ y \in S /\ z \in S
    <3>1. x \in {x, y, z} /\ y \in {x, y, z} /\ z \in {x, y, z}
      OBVIOUS
    <3> QED
      BY <3>1
  <2>4. PICK a \in Seq(S) : a = <<x, y>> /\ Len(a) = 2 /\ a[1] = x /\ a[2] = y
    <3>1. <<x, y>> \in Seq(S)
      BY <2>3
    <3>2. Len(<<x, y>>) = 2 /\ <<x, y>>[1] = x /\ <<x, y>>[2] = y
      OBVIOUS
    <3> QED
      BY <3>1, <3>2
  <2>5. todo = Append(a, z)
    BY <2>2, <2>3, <2>4, AppendIsConcat
  <2>6. Len(todo) = 3 /\ DOMAIN todo = 1..3 /\ todo[1] = x /\ todo[2] = y /\ todo[3] = z
    BY <2>3, <2>4, <2>5
  <2> QED
    BY <1>1, <1>2, <1>4, <2>1, <2>6 DEF trans
<1>5. CASE trans /\ ~result.isSitemap
  <2>1. todo = <<{}, {n}>>
    BY <1>3, <1>5
  <2> QED
    BY <1>1, <1>2, <1>5, <2>1 DEF trans
<1>6. CASE ~trans /\ result.isSitemap
  <2>1. todo = <<{d}>>
    BY <1>3, <1>6
  <2> QED
    BY <1>1, <1>2, <1>6, <2>1 DEF trans
<1>7. CASE ~trans /\ ~result.isSitemap
  <2>1. todo = <<>>
    BY <1>3, <1>7
  <2> QED
    BY <1>1, <1>2, <1>7, <2>1 DEF trans
<1> QED
  BY <1>4, <1>5, <1>6, <1>7

LEMMA ContinueHolds ==
  ASSUME NEW job, NEW todo
  PROVE  /\ Continue(job, todo).at \in {"idle", "sending"}
         /\ Continue(job, todo).at = "sending" =>
              Continue(job, todo).job = job /\ Continue(job, todo).todo = todo
  BY DEF Continue, Sending, Idle

\* The end of a probe: one more check, announced exactly if it is news.
ProbeTold(n, m, st) ==
  /\ NoticeInv'
  /\ \A c \in DOMAIN checks : Announced(c)' <=> Announced(c)
  /\ Announced(n)' <=> statusTransitioned(m.lastStatus, st)

LEMMA ProbeAnnounces ==
  ASSUME TypeInv, NoticeInv, NEW s \in Workers, slots[s].at = "probing",
         NEW r \in DOMAIN rows, NEW m \in Row, NEW result, result.status \in Statuses,
         Outcome(s, r, m, result), NEW n, n = Len(checks) + 1
  PROVE  ProbeTold(n, m, result.status)
<1>1. PICK st \in Statuses : st = result.status
  OBVIOUS
<1>2. recordCheck(r, m, st)
  BY <1>1 DEF Outcome
<1>3. /\ DOMAIN checks = 1..Len(checks) /\ Len(checks) \in Nat /\ DOMAIN checks' = 1..n
      /\ checks'[n].row = r /\ \A c \in DOMAIN checks : checks'[c] = checks[c]
  BY <1>2, RecordTyped
<1>4. n \in DOMAIN checks' /\ n \notin DOMAIN checks /\ DOMAIN checks \subseteq DOMAIN checks'
  BY <1>3
<1>5. PICK job, todo, t : /\ job = slots[s].job /\ todo = News2(s, result) /\ t = Continue(job, todo)
                          /\ slots' = [slots EXCEPT ![s] = t]
  BY DEF Outcome
<1>6. UNCHANGED <<jobs, posted, undelivered>> /\ job.id = r /\ m = slots[s].monitored /\ job.type = "check"
  BY <1>5 DEF Outcome, TypeInv, SlotOK
<1>7. /\ \A i \in DOMAIN todo : \A j \in todo[i] : j.type = "notify" => j = NOTIFY_WEBHOOK(n)
      /\ (\E i \in DOMAIN todo : NOTIFY_WEBHOOK(n) \in todo[i]) <=>
           statusTransitioned(m.lastStatus, result.status)
  BY <1>5, <1>6, ProbeRequests
<1>8. /\ t.at # "posting" /\ (t.at = "sending" => t.job = job /\ t.todo = todo)
      /\ \A c : Carries(t, c) <=> \E i \in DOMAIN todo : NOTIFY_WEBHOOK(c) \in todo[i]
  <2>1. t.at \in {"idle", "sending"} /\ (t.at = "sending" => t.job = job /\ t.todo = todo)
    BY <1>5, ContinueHolds
  <2>2. \A c : Carries(Continue(job, todo), c) <=> \E i \in DOMAIN todo : NOTIFY_WEBHOOK(c) \in todo[i]
    BY ContinueIs
  <2>3. t = Continue(job, todo)
    BY <1>5
  <2> QED
    BY <2>1, <2>2, <2>3
<1>9. /\ slots'[s] = t /\ \A u \in Workers \cup Requests : u # s => slots'[u] = slots[u]
      /\ s \notin Requests
  BY <1>5, MonitorAssumption DEF TypeInv
<1>10. NoticeInv'
  <2>1. PostedOK' /\ QueuedOK'
    BY <1>3, <1>4, <1>6, NoticeIs DEF NoticeParts, PostedOK, QueuedOK
  <2>2. \A q \in Requests : NoNotes(slots[q])'
    BY <1>9, NoticeIs DEF NoticeParts, NoNotes
  <2>3. ASSUME NEW u \in Workers PROVE NotesOK(slots[u])'
    <3>1. CASE u = s
      <4>1. \A i \in DOMAIN todo : \A j \in todo[i] : j.type = "notify" => j.id = n
        BY <1>7, NotifyIs
      <4>2. slots'[u] = t
        BY <1>9, <3>1
      <4> QED
        BY <1>3, <1>4, <1>6, <1>8, <4>1, <4>2 DEF NotesOK
    <3>2. CASE u # s
      <4>1. PICK x : x = slots[u] /\ slots'[u] = x
        BY <1>9, <3>2
      <4>2. NotesOK(x)
        BY <4>1, NoticeIs DEF NoticeParts
      <4> QED
        BY <1>3, <1>4, <4>1, <4>2 DEF NotesOK
    <3> QED
      BY <3>1, <3>2
  <2> QED
    BY <2>1, <2>2, <2>3, NoticeNext DEF NoticeParts
<1>11. \A c : Announced(c)' <=> Passed(c) \/ Carries(t, c) \/ \E u \in Workers \ {s} : Carries(slots[u], c)
  <2>1. \A c : Announced(c)' <=> Passed(c)' \/ \E u \in Workers : Carries(slots'[u], c)
    BY DEF Announced, Passed, Settles, Carries, BagIn, BagToSet
  <2>2. \A c : Passed(c)' <=> Passed(c)
    BY <1>6 DEF Passed, Settles
  <2> QED
    BY <1>9, <2>1, <2>2
<1>12. ASSUME NEW c \in DOMAIN checks PROVE Announced(c)' <=> Announced(c)
  <2>1. ~Carries(slots[s], c)
    BY NoCarry
  <2>2. NOTIFY_WEBHOOK(c) # NOTIFY_WEBHOOK(n)
    BY <1>4, NotifyIs
  <2>3. ~Carries(t, c)
    BY <1>7, <1>8, <2>2, NotifyIs
  <2> QED
    BY <1>11, <2>1, <2>3, AnnouncedIs
<1>13. Announced(n)' <=> statusTransitioned(m.lastStatus, result.status)
  <2>1. ~Passed(n)
    BY <1>4, NoticeIs, NotifyIs DEF NoticeParts, PostedOK, QueuedOK, Passed, Settles
  <2>2. ASSUME NEW u \in Workers PROVE ~Carries(slots[u], n)
    <3>1. slots[u].at = "posting" => slots[u].body.check \in DOMAIN checks
      BY DEF TypeInv, SlotOK
    <3>2. NotesOK(slots[u])
      BY NoticeIs DEF NoticeParts
    <3> QED
      BY <1>4, <3>1, <3>2, NotifyIs DEF Carries, NotesOK
  <2> QED
    BY <1>7, <1>8, <1>11, <2>1, <2>2
<1> QED
  BY <1>10, <1>12, <1>13 DEF ProbeTold

\* The end of a probe announces its check if its outcome is not what the row
\* said, and a row whose check does not is as its last news has it.
LEMMA ProbeNews ==
  ASSUME TypeInv, CheckInv, NoticeInv, NewsInv, NEW s \in Workers, ProbeEnds(s)
  PROVE  NoticeInv' /\ NewsInv'
<1>o. PICK r \in DOMAIN rows, m \in Row :
        \E result : result.status \in Statuses /\ Outcome(s, r, m, result)
  BY ProbeOutcome
<1>1. PICK result : result.status \in Statuses /\ Outcome(s, r, m, result)
  BY <1>o
<1>2. PICK st \in Statuses, n \in {Len(checks) + 1} : st = result.status /\ n = Len(checks) + 1
  BY <1>1
<1>3. recordCheck(r, m, st) /\ r = slots[s].job.id /\ m = slots[s].monitored
  BY <1>1, <1>2 DEF Outcome
<1>4. /\ DOMAIN rows' = DOMAIN rows /\ Len(checks) \in Nat
      /\ DOMAIN checks = 1..Len(checks) /\ DOMAIN checks' = 1..n
      /\ checks'[n].row = r /\ checks'[n].status = st
      /\ \A c \in DOMAIN checks : checks'[c] = checks[c]
      /\ rows'[r].lastStatus = st
      /\ \A q \in DOMAIN rows : q # r => rows'[q] = rows[q]
  BY <1>2, <1>3, RecordTyped
<1>5. /\ n \notin DOMAIN checks /\ DOMAIN checks' = DOMAIN checks \cup {n}
      /\ \A c \in DOMAIN checks' : c <= n /\ c \in Nat
  BY <1>2, <1>4
<1>6. /\ NoticeInv' /\ \A c \in DOMAIN checks : Announced(c)' <=> Announced(c)
      /\ Announced(n)' <=> statusTransitioned(m.lastStatus, st)
  <2>1. slots[s].at = "probing"
    BY DEF ProbeEnds
  <2> QED
    BY <1>1, <1>2, <2>1, ProbeAnnounces DEF ProbeTold
<1>7. untold' = IF statusTransitioned(m.lastStatus, st) THEN untold \ {r}
                ELSE IF s \in disturbed THEN untold \cup {r} ELSE untold
  BY <1>1, <1>2 DEF Outcome, Transitioned
<1>8. \A q : News(q)' = News(q) \cup {c \in {n} : q = r /\ statusTransitioned(m.lastStatus, st)}
  <2> TAKE q
  <2>1. News(q)' = {c \in DOMAIN checks' : checks'[c].row = q /\ Announced(c)'}
    BY DEF News
  <2> QED
    BY <1>4, <1>5, <1>6, <2>1 DEF News
<1>9. ASSUME NEW q \in DOMAIN rows, q \notin untold', q # r PROVE NewsOf(q)'
  <2>1. NewsOf(q)
    BY <1>7, <1>9, NewsIs DEF NewsParts
  <2>2. News(q)' = News(q)
    BY <1>8, <1>9
  <2>3. News(q) \subseteq DOMAIN checks /\ rows'[q] = rows[q]
    BY <1>4, <1>9 DEF News
  <2> QED
    BY <1>4, <1>5, <1>9, <2>1, <2>2, <2>3 DEF NewsOf
<1>10. ASSUME r \notin untold' PROVE NewsOf(r)'
  <2>1. st # Never /\ News(r) \subseteq DOMAIN checks
    BY DEF Statuses, Never, News
  <2>2. CASE statusTransitioned(m.lastStatus, st)
    <3>1. News(r)' = News(r) \cup {n}
      BY <1>8, <2>2
    <3>2. ASSUME NEW c \in News(r)', \A d \in News(r)' : d <= c PROVE c = n
      <4>1. n <= c /\ c <= n /\ c \in Nat /\ n \in Nat
        BY <1>5, <2>1, <3>1, <3>2
      <4> QED
        BY <4>1
    <3> QED
      BY <1>4, <2>1, <3>1, <3>2 DEF NewsOf
  <2>3. CASE ~statusTransitioned(m.lastStatus, st)
    <3>1. s \notin disturbed /\ r \notin untold
      BY <1>7, <1>10, <2>3
    <3>2. NewsOf(r)
      BY <3>1, NewsIs DEF NewsParts
    <3>3. s \in Probing(r)
      BY <1>3, ProbeOutcome
    <3>4. m.lastStatus = rows[r].lastStatus
      BY <1>3, <3>1, <3>3 DEF CheckInv
    <3>5. News(r)' = News(r)
      BY <1>8, <2>3
    <3>6. CASE rows[r].lastStatus = st
      BY <1>4, <2>1, <3>2, <3>5, <3>6 DEF NewsOf
    <3>7. CASE rows[r].lastStatus = Never /\ st # "down"
      <4>1. News(r) = {}
        BY <3>2, <3>7 DEF NewsOf, News
      <4> QED
        BY <1>4, <2>1, <3>5, <3>7, <4>1 DEF NewsOf
    <3> QED
      BY <2>3, <3>4, <3>6, <3>7 DEF statusTransitioned
  <2> QED
    BY <2>2, <2>3
<1>11. NewsInv'
  <2>1. \A q \in DOMAIN rows' \ untold' : NewsOf(q)'
    BY <1>4, <1>9, <1>10
  <2> QED
    BY <2>1, NewsNext DEF NewsParts
<1> QED
  BY <1>6, <1>11

\* Of a row that is settled, the checks that are news are those received or
\* given up.
LEMMA SettledNews ==
  ASSUME TypeInv, NoticeInv, NEW r, Settled(r), NEW c \in DOMAIN checks, checks[c].row = r
  PROVE  Announced(c) <=> Settles(c)
<1>1. NOTIFY_WEBHOOK(c) \notin DOMAIN jobs
  BY DEF Settled, BagIn, BagToSet
<1>2. ASSUME NEW s \in Workers PROVE ~Carries(slots[s], c)
  <2>1. CASE slots[s].at = "posting"
    BY <2>1 DEF Settled, Carries
  <2>2. CASE slots[s].at = "sending" /\ \E i \in DOMAIN slots[s].todo : NOTIFY_WEBHOOK(c) \in slots[s].todo[i]
    <3>1. NotesOK(slots[s]) /\ slots[s].job \in JobSet
      BY <2>2, NoticeIs DEF NoticeParts, TypeInv, SlotOK
    <3>2. slots[s].job.type = "check" /\ slots[s].job.id = r
      BY <2>2, <3>1, NotifyIs DEF NotesOK
    <3>3. slots[s].job = CHECK_URL(r)
      BY <3>1, <3>2 DEF JobSet, CHECK_URL, Job
    <3> QED
      BY <2>2, <3>3 DEF Settled
  <2> QED
    BY <2>1, <2>2 DEF Carries
<1> QED
  BY <1>1, <1>2, AnnouncedIs DEF Passed

LEMMA ToldFollows == TypeInv /\ NoticeInv /\ NewsInv => StatusTold
<1> SUFFICES ASSUME TypeInv, NoticeInv, NewsInv,
                    NEW r \in DOMAIN rows \ untold, Settled(r)
             PROVE  LET told == {p \in posted : checks[p.check].row = r}
                        news == {p.check : p \in told} \cup {c \in undelivered : checks[c].row = r}
                    IN IF news = {} THEN rows[r].lastStatus # "down"
                       ELSE \A c \in news : (\A d \in news : d <= c) =>
                              /\ checks[c].status = rows[r].lastStatus
                              /\ \/ c \in undelivered
                                 \/ [check |-> c, status |-> rows[r].lastStatus] \in told
  BY DEF StatusTold
<1> DEFINE told == {p \in posted : checks[p.check].row = r}
           news == {p.check : p \in told} \cup {c \in undelivered : checks[c].row = r}
<1>1. NewsOf(r)
  BY NewsIs DEF NewsParts
<1>2. PostedOK
  BY NoticeIs DEF NoticeParts
<1>3. news = {c \in DOMAIN checks : checks[c].row = r /\ Settles(c)}
  BY <1>2 DEF PostedOK, Settles
<1>4. \A c \in DOMAIN checks : checks[c].row = r => (Announced(c) <=> Settles(c))
  BY SettledNews
<1>5. news = News(r)
  BY <1>3, <1>4 DEF News
<1>6. \A c \in news : c \in undelivered \/ [check |-> c, status |-> checks[c].status] \in told
  BY <1>2 DEF PostedOK
<1> HIDE DEF told, news
<1>7. news = {} => rows[r].lastStatus # "down"
  BY <1>1, <1>5 DEF NewsOf
<1>8. ASSUME NEW c \in news, \A d \in news : d <= c
      PROVE  /\ checks[c].status = rows[r].lastStatus
             /\ c \in undelivered \/ [check |-> c, status |-> rows[r].lastStatus] \in told
  BY <1>1, <1>5, <1>6, <1>8 DEF NewsOf
<1> QED
  BY <1>7, <1>8 DEF told, news

LEMMA ToldStep ==
  TypeInv /\ FailInv /\ NoticeInv /\ NewsInv /\ [Next]_vars => NoticeInv' /\ NewsInv'
  BY StatusKept, ProbeNews DEF FailInv

LEMMA ToldInit == Init => NoticeInv /\ NewsInv
<1> SUFFICES ASSUME Init PROVE NoticeInv /\ NewsInv
  OBVIOUS
<1>1. /\ DOMAIN jobs = {} /\ posted = {} /\ undelivered = {} /\ DOMAIN rows = {}
      /\ \A s \in Workers \cup Requests : slots[s].at # "sending"
  BY DEF Init, EmptyBag, SetToBag, Idle
<1> QED
  BY <1>1 DEF NoticeInv, NewsInv

\* The owner of a site knows how it is: with nothing about a row under way, the
\* latest of its checks that were announced, in whatever order the notifications
\* came, has the status the row has and its notification was received, refused
\* with a 4xx or is dead, and a row that is down was announced.  The exception: a
\* check that kept silent by an outdated status, or failed after it was recorded,
\* until the row's next announced change (checkUrl, notifyWebhook).
THEOREM OwnersAreTold == Spec => []StatusTold
<1> QED
  BY TypeInit, TypeStep, FailInit, FailStep, ToldInit, ToldStep, ToldFollows, PTL DEF Spec

=============================================================================
