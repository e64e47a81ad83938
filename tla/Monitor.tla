------------------------------- MODULE Monitor -------------------------------
(***************************************************************************)
(* The uptime monitor, the example application built on the client         *)
(* (examples/uptime_monitor): a web form, a cron sweep and four job        *)
(* handlers that share one SQLite database.  Workers of several processes  *)
(* run the jobs, so every SQL statement, every transaction and every await *)
(* is a step of its own; inside one process the statements between two     *)
(* awaits run as one, which is a special case.                             *)
(*                                                                         *)
(* Jobs are handled at least once: a handler that throws has its job       *)
(* handed out again until its last attempt, one whose worker is killed     *)
(* always.                                                                 *)
(***************************************************************************)
EXTENDS Integers, Sequences, FiniteSets, SequencesExt, Bags

CONSTANTS
  Urls,        \* the addresses that may be added or listed in a sitemap
  FormUrls,    \* those a user submits
  BadUrls,     \* those create() rejects: no URL, or neither http nor https
  Sitemaps,    \* those that may turn out to be sitemaps
  Bodies,      \* what a sitemap may list: sequences over Urls
  Workers,     \* the job slots of all worker processes
  Requests,    \* the form submissions under way at once
  BatchSize,   \* BATCH_SIZE of the bulk enqueues
  MaxChecks, MaxJobs, MaxFaults   \* bounds

ASSUME MonitorAssumption ==
  /\ BadUrls \subseteq Urls /\ FormUrls \subseteq Urls /\ "manual" \notin Urls
  /\ Bodies \subseteq Seq(Urls)
  /\ BatchSize \in Nat \ {0}
  /\ Workers \cap Requests = {}

VARIABLES
  rows,        \* the table monitored_urls; the id of a row is its index
  checks,      \* the table checks
  jobs,        \* the bag of jobs of the monitor's queue that nobody works on
  slots,       \* what every worker slot and every form submission is doing
  posted,      \* the notifications the webhook has received
  faults,      \* how many faults have happened
  undelivered, \* history: checks whose notification was refused or went dead
  disturbed,   \* history: slots whose check or scan another one has crossed
  miscounted,  \* history: rows with a disturbed failed check since the last good one
  untold,      \* history: rows with a disturbed or cut check since the last news
  scanned,     \* history: what the last complete scan of a sitemap listed
  torn         \* history: sitemaps whose last scan was disturbed or cut short

histories == <<undelivered, disturbed, miscounted, untold, scanned, torn>>
vars == <<rows, checks, jobs, slots, posted, faults, histories>>

Manual == "manual"     \* in place of the sitemap of a row the form created
Never == "never"       \* the last status of a row never checked
Statuses == {"up", "down"}

Job(type, id) == [type |-> type, id |-> id]
CHECK_URL(id) == Job("check", id)
DISCOVER_SITEMAP_URLS(id) == Job("discover", id)
NOTIFY_WEBHOOK(check) == Job("notify", check)
SCHEDULE_CHECKS == Job("schedule", 0)

\* What a slot is doing, with the locals it still needs: the enqueues it has to
\* send, or the row it read before a probe or a fetch.
Idle == [at |-> "idle"]
ScanSteps == {"finding", "creating", "enabling", "disabling"}
Sending(job, todo) == [at |-> "sending", job |-> job, todo |-> todo]
Reading(at, job, row) == [at |-> at, job |-> job, monitored |-> row]

Init ==
  /\ rows = <<>> /\ checks = <<>> /\ jobs = EmptyBag
  /\ slots = [s \in Workers \cup Requests |-> Idle]
  /\ posted = {} /\ faults = 0
  /\ undelivered = {} /\ disturbed = {} /\ miscounted = {} /\ untold = {}
  /\ scanned = <<>> /\ torn = {}

-----------------------------------------------------------------------------
(* The table monitored_urls *)

\* The row create() inserts.
NewRow(url, parent) ==
  [url |-> url, parent |-> parent, enabled |-> TRUE, lastStatus |-> Never, fails |-> 0]

findByUrlScoped(url, parent) ==
  {r \in DOMAIN rows : rows[r].url = url /\ rows[r].parent = parent}

\* Mutant: the count goes on after a success.
recordCheckKeepsCount(r, monitored, status) ==
  /\ checks' = Append(checks, [row |-> r, status |-> status])
  /\ rows' = [rows EXCEPT ![r].lastStatus = status,
                          ![r].fails = IF status = "up" THEN @ ELSE monitored.fails + 1]

\* recordCheck(): the failures are counted from the row the handler read
\* before the probe, not from the row as it is now.
recordCheck(r, monitored, status) ==
  /\ checks' = Append(checks, [row |-> r, status |-> status])
  /\ rows' = [rows EXCEPT ![r].lastStatus = status,
                          ![r].fails = IF status = "up" THEN 0 ELSE monitored.fails + 1]

\* findStaleEnabledIds(): rows never checked, and of the others those whose
\* last check is too old (any, as the model has no clock).
findStaleEnabledIds(old) ==
  {r \in DOMAIN rows : rows[r].enabled /\ (rows[r].lastStatus = Never \/ r \in old)}

enabledSitemapChildrenIds(parent) ==
  {r \in DOMAIN rows : rows[r].parent = parent /\ rows[r].enabled}

\* An UPDATE of the enabled column of the children of a sitemap.
SetEnabled(parent, urls, value) ==
  rows' = [r \in DOMAIN rows |->
             IF rows[r].parent = parent /\ rows[r].url \in urls
             THEN [rows[r] EXCEPT !.enabled = value] ELSE rows[r]]

-----------------------------------------------------------------------------
(* Enqueueing: one request after the other, each a set of jobs *)

\* The requests that enqueue a check of every id, BATCH_SIZE to a request.
Batches(ids) ==
  LET order == SetToSeq(ids)
      n == (Len(order) + BatchSize - 1) \div BatchSize
  IN [b \in 1..n |-> {CHECK_URL(order[i]) :
        i \in {k \in DOMAIN order : (k - 1) \div BatchSize = b - 1}}]

\* The audit log reads a queue of its own: emit() leaves this one alone.
emit == {}

Enqueued(set) == jobs (+) SetToBag(set)
Room(set) == BagCardinality(jobs) + Cardinality(set) <= MaxJobs

\* No check is asked for when no more can be made.
MoreChecks == Len(checks) < MaxChecks

\* The slot after a request: the next one, or nothing left to do, and the
\* job is acknowledged.
Continue(job, todo) == IF todo = <<>> THEN Idle ELSE Sending(job, todo)

\* One enqueue is answered, and the next is sent.
Send(s) ==
  /\ slots[s].at = "sending"
  /\ LET todo == slots[s].todo IN
       /\ Room(Head(todo))
       /\ jobs' = Enqueued(Head(todo))
       /\ slots' = [slots EXCEPT ![s] = Continue(@.job, Tail(todo))]
  /\ UNCHANGED <<rows, checks, posted, faults, histories>>

\* The job of s is handed out again.  A form submission just fails.
Returned(s) ==
  IF s \in Workers THEN SetToBag({slots[s].job}) ELSE EmptyBag

\* The handler throws: its job is retried, or dead after the last attempt.
Thrown(s) == {Returned(s), EmptyBag}

\* What the database is left with when the task of s ends early.
Noted(s) ==
  /\ untold' = IF slots[s].at = "sending" /\ slots[s].job.type = "check" /\ s \in Workers
               THEN untold \cup {slots[s].job.id} ELSE untold
  /\ torn' = IF slots[s].at \in ScanSteps
             THEN torn \cup {slots[s].monitored.url} ELSE torn
  /\ disturbed' = disturbed \ {s}
  /\ UNCHANGED <<undelivered, miscounted, scanned>>

\* An enqueue fails; the server may have taken the jobs all the same.
SendFails(s) ==
  /\ slots[s].at = "sending"
  /\ faults < MaxFaults /\ faults' = faults + 1
  /\ \E taken \in {{}, Head(slots[s].todo)}, back \in Thrown(s) :
       jobs' = Enqueued(taken) (+) back
  /\ slots' = [slots EXCEPT ![s] = Idle]
  /\ Noted(s)
  /\ UNCHANGED <<rows, checks, posted>>

\* A worker is killed, or loses its stream, in the middle of a job.
Killed(s) ==
  /\ s \in Workers /\ slots[s] # Idle
  /\ faults < MaxFaults /\ faults' = faults + 1
  /\ jobs' = jobs (+) Returned(s)
  /\ slots' = [slots EXCEPT ![s] = Idle]
  /\ Noted(s)
  /\ UNCHANGED <<rows, checks, posted>>

\* A worker slot is handed a job.
Taken(s, job) ==
  /\ s \in Workers /\ slots[s] = Idle
  /\ BagIn(job, jobs)
  /\ jobs' = jobs (-) SetToBag({job})

-----------------------------------------------------------------------------
(* checkUrl *)

Probing(r) == {s \in Workers : slots[s].at = "probing" /\ slots[s].job.id = r}

\* The handler reads the row and starts the probe.
BeginCheck(s, r) ==
  /\ Len(checks) + Cardinality({t \in Workers : slots[t].at = "probing"}) < MaxChecks
  /\ Taken(s, CHECK_URL(r))
  /\ slots' = [slots EXCEPT ![s] =
       IF rows[r].enabled
       THEN Reading("probing", CHECK_URL(r), rows[r]) ELSE Idle]
  /\ disturbed' = disturbed \ {s}
  /\ UNCHANGED <<rows, checks, posted, faults, undelivered, miscounted, untold, scanned, torn>>

\* What a probed site may answer: a status, and a body that is an ordinary
\* page, a sitemap, or XML that does not parse.
Answers == [status : {"2xx", "3xx", "5xx", "none"}, body : {"page", "sitemap", "malformed"}]

AnswersOf(url) == IF url \in Sitemaps THEN Answers ELSE {a \in Answers : a.body = "page"}

buildResult(a) ==
  [status |-> IF a.status = "2xx" THEN "up" ELSE "down",
   isSitemap |-> a.status = "2xx" /\ a.body = "sitemap"]

\* Mutant: the first check of a row is never news.
statusTransitionedLate(previous, current) ==
  previous # current /\ previous # Never

statusTransitioned(previous, current) ==
  /\ previous # current
  /\ previous # Never \/ current = "down"

\* The probe ends: the result is recorded and what follows from it enqueued.
\* Other checks of the row that are under way have read an old row from now on.
ProbeEnds(s) ==
  /\ slots[s].at = "probing"
  /\ \E result \in {buildResult(a) : a \in AnswersOf(slots[s].monitored.url)} :
       LET r == slots[s].job.id
           monitored == slots[s].monitored
           changed == statusTransitioned(monitored.lastStatus, result.status)
           news == IF changed THEN <<emit, {NOTIFY_WEBHOOK(Len(checks) + 1)}>> ELSE <<>>
           sitemap == IF result.isSitemap THEN <<{DISCOVER_SITEMAP_URLS(r)}>> ELSE <<>>
       IN /\ recordCheck(r, monitored, result.status)
          /\ slots' = [slots EXCEPT ![s] = Continue(@.job, news \o sitemap)]
          /\ disturbed' = (disturbed \cup Probing(r)) \ {s}
          /\ miscounted' = IF result.status = "up" THEN miscounted \ {r}
                           ELSE IF s \in disturbed THEN miscounted \cup {r} ELSE miscounted
          /\ untold' = IF changed THEN untold \ {r}
                       ELSE IF s \in disturbed THEN untold \cup {r} ELSE untold
  /\ UNCHANGED <<jobs, posted, faults, undelivered, scanned, torn>>

-----------------------------------------------------------------------------
(* discoverSitemapUrls *)

Scanning(url) ==
  {s \in Workers : /\ slots[s].at \in ScanSteps
                   /\ slots[s].monitored.url = url}

BeginDiscovery(s, r) ==
  /\ Taken(s, DISCOVER_SITEMAP_URLS(r))
  /\ slots' = [slots EXCEPT ![s] =
       Reading("fetching", DISCOVER_SITEMAP_URLS(r), rows[r])]
  /\ UNCHANGED <<rows, checks, posted, faults, histories>>

\* The body cannot be fetched or parsed, and the job is done.
NothingFetched(s) ==
  /\ slots[s].at = "fetching"
  /\ slots' = [slots EXCEPT ![s] = Idle]
  /\ UNCHANGED <<rows, checks, jobs, posted, faults, histories>>

\* reconcile() starts with the addresses the body lists.
FetchEnds(s) ==
  /\ slots[s].at = "fetching"
  /\ \E discovered \in Bodies :
       slots' = [slots EXCEPT ![s] =
         [at |-> "finding", job |-> @.job, monitored |-> @.monitored,
          discovered |-> discovered, left |-> discovered]]
  /\ LET others == Scanning(slots[s].monitored.url) IN
       disturbed' = IF others = {} THEN disturbed \ {s} ELSE disturbed \cup others \cup {s}
  /\ UNCHANGED <<rows, checks, jobs, posted, faults, undelivered, miscounted, untold, scanned, torn>>

\* The next address is looked up; after the last one the children are updated.
Find(s) ==
  LET t == slots[s]
      known == findByUrlScoped(Head(t.left), t.monitored.url) # {}
  IN /\ t.at = "finding"
     /\ slots' = [slots EXCEPT ![s] =
          IF t.left = <<>>
          THEN [t EXCEPT !.at = IF t.discovered = <<>> THEN "disabling" ELSE "enabling"]
          ELSE IF known THEN [t EXCEPT !.left = Tail(t.left)] ELSE [t EXCEPT !.at = "creating"]]
     /\ UNCHANGED <<rows, checks, jobs, posted, faults, histories>>

\* An address not found is created, unless another worker was faster.
Create(s) ==
  LET url == Head(slots[s].left)
      parent == slots[s].monitored.url
  IN /\ slots[s].at = "creating" /\ url \notin BadUrls
     /\ rows' = IF findByUrlScoped(url, parent) # {} THEN rows
                ELSE Append(rows, NewRow(url, parent))
     /\ slots' = [slots EXCEPT ![s] =
          [@ EXCEPT !.at = "finding", !.left = Tail(slots[s].left)]]
     /\ UNCHANGED <<checks, jobs, posted, faults, histories>>

\* An address that is not valid makes the handler throw.
CreateRefused(s) ==
  /\ slots[s].at = "creating" /\ Head(slots[s].left) \in BadUrls
  /\ faults < MaxFaults /\ faults' = faults + 1
  /\ \E back \in Thrown(s) : jobs' = jobs (+) back
  /\ slots' = [slots EXCEPT ![s] = Idle]
  /\ Noted(s)
  /\ UNCHANGED <<rows, checks, posted>>

\* The two updates of reconcileSitemapChildren(); with nothing discovered only
\* the second.
EnableListed(s) ==
  /\ slots[s].at = "enabling"
  /\ SetEnabled(slots[s].monitored.url, ToSet(slots[s].discovered), TRUE)
  /\ slots' = [slots EXCEPT ![s] = [@ EXCEPT !.at = "disabling"]]
  /\ UNCHANGED <<checks, jobs, posted, faults, histories>>

\* The scan is complete.
Completed(s, url, listed) ==
  /\ slots' = [slots EXCEPT ![s] = [@ EXCEPT !.at = "reporting"]]
  /\ scanned' = [u \in DOMAIN scanned \cup {url} |->
                  IF u = url THEN listed ELSE scanned[u]]
  /\ torn' = IF s \in disturbed THEN torn \cup {url} ELSE torn \ {url}
  /\ disturbed' = disturbed \ {s}
  /\ UNCHANGED <<checks, jobs, posted, faults, undelivered, miscounted, untold>>

\* Mutant: an empty sitemap disables nothing.
DisableUnlistedUnlessEmpty(s) ==
  LET url == slots[s].monitored.url
      listed == ToSet(slots[s].discovered)
  IN /\ slots[s].at = "disabling"
     /\ SetEnabled(url, IF listed = {} THEN {} ELSE Urls \ listed, FALSE)
     /\ Completed(s, url, listed)

DisableUnlisted(s) ==
  LET url == slots[s].monitored.url
      listed == ToSet(slots[s].discovered)
  IN /\ slots[s].at = "disabling"
     /\ SetEnabled(url, Urls \ listed, FALSE)
     /\ Completed(s, url, listed)

\* The event is emitted; then the children are read and their checks enqueued.
Report(s) ==
  /\ slots[s].at = "reporting"
  /\ slots' = [slots EXCEPT ![s] =
       Continue(@.job, Batches(enabledSitemapChildrenIds(@.monitored.url)))]
  /\ UNCHANGED <<rows, checks, jobs, posted, faults, histories>>

ReportFails(s) ==
  /\ slots[s].at = "reporting"
  /\ faults < MaxFaults /\ faults' = faults + 1
  /\ \E back \in Thrown(s) : jobs' = jobs (+) back
  /\ slots' = [slots EXCEPT ![s] = Idle]
  /\ UNCHANGED <<rows, checks, posted, histories>>

-----------------------------------------------------------------------------
(* notifyWebhook, with a webhook configured *)

\* The body names the check and its status.
Notify(s, c) ==
  /\ Taken(s, NOTIFY_WEBHOOK(c))
  /\ slots' = [slots EXCEPT ![s] = [at |-> "posting", job |-> NOTIFY_WEBHOOK(c),
                                    body |-> [check |-> c, status |-> checks[c].status]]]
  /\ UNCHANGED <<rows, checks, posted, faults, histories>>

\* The receiver takes the notification.
PostEnds(s) ==
  /\ slots[s].at = "posting"
  /\ posted' = posted \cup {slots[s].body}
  /\ slots' = [slots EXCEPT ![s] = Idle]
  /\ UNCHANGED <<rows, checks, jobs, faults, histories>>

\* A 4xx: the receiver does not take it, and the handler gives it up.
PostRefused(s) ==
  /\ slots[s].at = "posting"
  /\ undelivered' = undelivered \cup {slots[s].body.check}
  /\ slots' = [slots EXCEPT ![s] = Idle]
  /\ UNCHANGED <<rows, checks, jobs, posted, faults, disturbed, miscounted, untold, scanned, torn>>

\* A 5xx, or no answer, though the receiver may have taken it: the handler
\* throws, and after the last attempt the notification is dead.
PostFails(s) ==
  /\ slots[s].at = "posting"
  /\ faults < MaxFaults /\ faults' = faults + 1
  /\ \E received \in {{}, {slots[s].body}} : posted' = posted \cup received
  /\ \E back \in Thrown(s) :
       /\ jobs' = jobs (+) back
       /\ undelivered' = IF back = EmptyBag THEN undelivered \cup {slots[s].body.check}
                         ELSE undelivered
  /\ slots' = [slots EXCEPT ![s] = Idle]
  /\ UNCHANGED <<rows, checks, disturbed, miscounted, untold, scanned, torn>>

-----------------------------------------------------------------------------
(* scheduleChecks and the form *)

\* The cron entry of server.ts fires: the server enqueues its job.
CronFires ==
  /\ ~BagIn(SCHEDULE_CHECKS, jobs) /\ Room({SCHEDULE_CHECKS}) /\ MoreChecks
  /\ jobs' = Enqueued({SCHEDULE_CHECKS})
  /\ UNCHANGED <<rows, checks, slots, posted, faults, histories>>

Schedule(s) ==
  /\ Taken(s, SCHEDULE_CHECKS)
  /\ \E old \in SUBSET DOMAIN rows :
       slots' = [slots EXCEPT ![s] =
         Continue(SCHEDULE_CHECKS, Batches(findStaleEnabledIds(old)))]
  /\ UNCHANGED <<rows, checks, posted, faults, histories>>

\* POST /monitored_urls: an address is added, or found, and its check enqueued.
\* A bad one is only reported to the user.
Submit(q, url) ==
  LET found == findByUrlScoped(url, Manual)
      id == IF found = {} THEN Len(rows) + 1 ELSE CHOOSE r \in found : TRUE
  IN /\ slots[q] = Idle /\ url \notin BadUrls /\ MoreChecks
     /\ rows' = IF found = {} THEN Append(rows, NewRow(url, Manual)) ELSE rows
     /\ slots' = [slots EXCEPT ![q] = Sending(CHECK_URL(id),
          IF found = {} THEN <<{CHECK_URL(id)}, emit>> ELSE <<{CHECK_URL(id)}>>)]
     /\ UNCHANGED <<checks, jobs, posted, faults, histories>>

-----------------------------------------------------------------------------
Work(s) ==
  \/ \E r \in DOMAIN rows : BeginCheck(s, r) \/ BeginDiscovery(s, r)
  \/ \E c \in DOMAIN checks : Notify(s, c)
  \/ Schedule(s)
  \/ ProbeEnds(s) \/ Send(s) \/ PostEnds(s) \/ PostRefused(s)
  \/ NothingFetched(s) \/ FetchEnds(s) \/ Find(s) \/ Create(s)
  \/ EnableListed(s) \/ DisableUnlisted(s) \/ Report(s)

Fault(s) ==
  SendFails(s) \/ Killed(s) \/ CreateRefused(s) \/ ReportFails(s) \/ PostFails(s)

Next ==
  \/ CronFires
  \/ \E s \in Workers : Work(s) \/ Fault(s)
  \/ \E q \in Requests : Send(q) \/ SendFails(q)
  \/ \E q \in Requests, url \in FormUrls : Submit(q, url)

Spec == Init /\ [][Next]_vars

-----------------------------------------------------------------------------
(* Properties *)

\* Nothing is left to be told about row r: no notification waits, and no check
\* of it has still something to enqueue.
Settled(r) ==
  /\ \A c \in DOMAIN checks : checks[c].row = r => ~BagIn(NOTIFY_WEBHOOK(c), jobs)
  /\ \A s \in Workers :
       /\ slots[s].at = "sending" => slots[s].job # CHECK_URL(r)
       /\ slots[s].at = "posting" => checks[slots[s].body.check].row # r

\* The owner of a site knows how it is.  Once everything is delivered or given
\* up, the latest check of a row that was announced, in whatever order the
\* notifications came and however often, has the status the row has, and a row
\* that is down has been announced.  The exceptions: the notification of that
\* check was refused with a 4xx or failed until it was dead (undelivered), and
\* then nobody is told; or, until the row's next announced change, a check of it
\* that compared with an outdated status kept silent, or one failed between
\* recording its result and enqueueing the notification, as the second attempt
\* finds nothing changed (checkUrl, recordCheck, notifyWebhook).
StatusTold ==
  \A r \in DOMAIN rows \ untold : Settled(r) =>
    LET told == {p \in posted : checks[p.check].row = r}
        news == {p.check : p \in told} \cup {c \in undelivered : checks[c].row = r}
    IN IF news = {} THEN rows[r].lastStatus # "down"
       ELSE \A c \in news : (\A d \in news : d <= c) =>
              /\ checks[c].status = rows[r].lastStatus
              /\ c \in undelivered \/ [check |-> c, status |-> rows[r].lastStatus] \in told

\* The checks of row r since it was last up.
Trailing(r) ==
  {c \in DOMAIN checks : /\ checks[c].row = r
                         /\ \A d \in c..Len(checks) : checks[d].row = r => checks[d].status = "down"}

\* The row's count of consecutive failures is the number of failed checks at the
\* end of its history, whatever was retried or killed; the exception is a row of
\* which a failed check counted on from a row that another one had changed, and
\* it ends with the next check that succeeds (recordCheck).
FailureCount ==
  \A r \in DOMAIN rows \ miscounted : rows[r].fails = Cardinality(Trailing(r))

\* Between scans of a sitemap the enabled rows below it are what its last scan
\* listed, new, returning and vanished addresses alike, unless another scan of
\* the sitemap crossed that one or a later one was cut short; the next complete
\* scan on its own sets them right again.  Workers of one process cannot make
\* scans cross, those of two can (reconcile, reconcileSitemapChildren).
ChildrenFollow ==
  \A url \in DOMAIN scanned \ torn : Scanning(url) = {} =>
    {rows[r].url : r \in enabledSitemapChildrenIds(url)} = scanned[url]

-----------------------------------------------------------------------------
(* Inductive invariant *)

Row == [url : Urls, parent : Urls \cup {Manual}, enabled : BOOLEAN,
        lastStatus : Statuses \cup {Never}, fails : Nat]
JobSet == [type : {"check", "discover", "notify", "schedule"}, id : Nat]

Scan == [at : {"reporting"} \cup ScanSteps, job : JobSet, monitored : Row,
         discovered : Seq(Urls), left : Seq(Urls)]

\* What a slot holds at each step, and for which job.
SlotOK(t) ==
  /\ t.at \in {"idle", "sending", "probing", "fetching", "reporting", "posting"} \cup ScanSteps
  /\ t.at = "idle" => t = Idle
  /\ t.at = "sending" => /\ t.job \in JobSet /\ t.job.type # "notify"
                         /\ t.todo \in Seq(SUBSET JobSet) /\ t.todo # <<>>
  /\ t.at = "probing" => /\ t.job \in JobSet /\ t.job.type = "check"
                         /\ t.job.id \in DOMAIN rows /\ t.monitored \in Row
  /\ t.at = "fetching" => t.job \in JobSet /\ t.job.type = "discover" /\ t.monitored \in Row
  /\ t.at \in {"reporting"} \cup ScanSteps => t \in Scan /\ t.job.type = "discover"
  /\ t.at = "creating" => t.left # <<>>
  /\ t.at = "posting" => /\ t.body.check \in DOMAIN checks /\ t.job = NOTIFY_WEBHOOK(t.body.check)
                         /\ t.body = [check |-> t.body.check, status |-> checks[t.body.check].status]

TypeInv ==
  /\ rows \in Seq(Row)
  /\ checks \in Seq([row : Nat, status : Statuses])
  /\ \A c \in DOMAIN checks : checks[c].row \in DOMAIN rows
  /\ jobs \in [DOMAIN jobs -> Nat \ {0}]
  /\ DOMAIN jobs \subseteq JobSet
  /\ DOMAIN slots = Workers \cup Requests
  /\ \A s \in Workers \cup Requests : SlotOK(slots[s])
  /\ \A q \in Requests : slots[q].at \in {"idle", "sending"}

\* A check under way still has the row as it is, unless another one of the row
\* ended in between.
CheckInv ==
  \A r \in DOMAIN rows : \A s \in Probing(r) \ disturbed :
    /\ slots[s].monitored.lastStatus = rows[r].lastStatus
    /\ slots[s].monitored.fails = rows[r].fails

ChildUrls(url) == {rows[r].url : r \in {c \in DOMAIN rows : rows[c].parent = url}}

\* How far a scan that no other one crosses has come: the addresses it is done with
\* have a row, and once it has enabled them they stay so.
ScanInv ==
  /\ DOMAIN scanned \subseteq Urls
  /\ \A url \in Urls : \A s \in Scanning(url) \ disturbed :
       LET listed == ToSet(slots[s].discovered)
       IN /\ Scanning(url) = {s}
          /\ listed \subseteq ToSet(slots[s].left) \cup ChildUrls(url)
          /\ slots[s].at \in {"enabling", "disabling"} => listed \subseteq ChildUrls(url)
          /\ slots[s].at = "disabling" =>
               \A r \in DOMAIN rows :
                 rows[r].parent = url /\ rows[r].url \in listed => rows[r].enabled

\* Where the notification of a check may be: received, given up, queued, being
\* posted, or still to be enqueued by the check itself.
Announced(c) ==
  \/ \E p \in posted : p.check = c
  \/ c \in undelivered
  \/ BagIn(NOTIFY_WEBHOOK(c), jobs)
  \/ \E s \in Workers : slots[s].at = "posting" /\ slots[s].body.check = c
  \/ \E s \in Workers : /\ slots[s].at = "sending"
                        /\ \E i \in DOMAIN slots[s].todo : NOTIFY_WEBHOOK(c) \in slots[s].todo[i]

News(r) == {c \in DOMAIN checks : checks[c].row = r /\ Announced(c)}

\* Notifications are of checks that were made, with their status, and only the
\* check itself enqueues them.
NoticeInv ==
  /\ \A p \in posted : /\ p = [check |-> p.check, status |-> checks[p.check].status]
                       /\ p.check \in DOMAIN checks
  /\ undelivered \subseteq DOMAIN checks
  /\ \A j \in DOMAIN jobs : j.type = "notify" => j.id \in DOMAIN checks
  /\ \A s \in Workers \cup Requests : slots[s].at = "sending" =>
       \A i \in DOMAIN slots[s].todo : \A j \in slots[s].todo[i] : j.type = "notify" =>
         /\ s \in Workers /\ slots[s].job.type = "check"
         /\ j.id \in DOMAIN checks /\ checks[j.id].row = slots[s].job.id

\* The last news of a row is its status; one without news is not down.
NewsInv ==
  \A r \in DOMAIN rows \ untold :
    /\ rows[r].lastStatus = "down" => News(r) # {}
    /\ rows[r].lastStatus = Never => \A c \in DOMAIN checks : checks[c].row # r
    /\ \A c \in News(r) :
         (\A d \in News(r) : d <= c) => checks[c].status = rows[r].lastStatus

=============================================================================
