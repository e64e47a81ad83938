------------------------------ MODULE JobQuery ------------------------------
(***************************************************************************)
(* One terminal call on a query of src/query.ts, on the client's list,     *)
(* count, update and delete requests, while other clients of the server    *)
(* add, move and delete jobs between the requests.                         *)
(*                                                                         *)
(* Jobs are numbered in the order the server lists them.  A filter has one *)
(* field of each kind: id and queue stand for the fields that take a value *)
(* or a list, priority for the ranges, jq for the payload filter.          *)
(***************************************************************************)
EXTENDS Integers, Sequences, FiniteSets, FiniteSetsExt, SequencesExt, Sorted

CONSTANTS
  MaxJobs,      \* bound: how many jobs the server ever holds
  MaxChanges,   \* bound: how many changes other clients make during the call
  MaxErrors,    \* bound: how many times the job of an error query fails
  Queues,       \* the names of queues
  MAX_PAGE_SIZE,
  Unset,        \* an option that is undefined
  Calls,        \* the terminal calls of the instance: an operation, a query, its
                \* order, and the queue updateAll() moves jobs to
  Payload       \* for each job, the atoms of jq filters that hold of its payload

ASSUME MaxJobsAssumption == MaxJobs \in Nat /\ MaxChanges \in Nat /\ MaxErrors \in Nat \ {0}
ASSUME PageAssumption == MAX_PAGE_SIZE \in Nat \ {0}

Ids == 1..MaxJobs

ASSUME UnsetAssumption == Unset \notin Int /\ \A S \in SUBSET Ids : S # Unset

\* A query: filters are sets of values, a range is one number or two bounds.
Queries ==
  [id : {Unset} \cup SUBSET Nat, queue : {Unset} \cup SUBSET STRING,
   priority : {Unset} \cup Seq(Int \cup {Unset}), jq : {Unset} \cup Seq(SUBSET STRING),
   means : SUBSET Ids, order : {"asc", "desc"},
   limit : Nat \cup {Unset}, pageSize : Nat \cup {Unset}]

IsCall(c) ==
  /\ c \in [op : STRING, query : Queries, asked : {"asc", "desc"}, to : Queues]
  /\ c.query.priority # Unset => \/ Len(c.query.priority) = 1 /\ c.query.priority[1] \in Int
                                \/ Len(c.query.priority) = 2

ASSUME CallsAssumption == \A c \in Calls : IsCall(c) /\ c.asked = c.query.order

VARIABLES
  jobs,     \* the server's jobs: their queue, or "new" or "gone"
  errors,   \* how many error records the job of an error query has
  changes,  \* how many changes other clients made
  call,     \* the call: its operation and its query
  pc,       \* where the call is suspended
  page,     \* the page in hand: what is left of it to yield
  size,     \* its length
  next,     \* its link to the next page
  from,     \* the link of the page asked for
  left,     \* remaining, in pages()
  rem,      \* remaining, in the terminal method
  total,    \* the number returned
  yielded,  \* what an iteration gave its consumer
  touched,  \* history: the jobs the call changed
  steady    \* history: jobs that matched at the start and nobody else changed

server == <<jobs, errors, changes>>
cursor == <<page, size, next, from, left, rem>>
result == <<total, yielded, touched>>
vars == <<server, call, pc, cursor, result, steady>>

-----------------------------------------------------------------------------
(* Builders.  A jq text is a sequence of "or" terms, each a set of atoms   *)
(* joined by "and"; means is what the caller asked for, for comparison.    *)

Query == [id |-> Unset, queue |-> Unset, priority |-> Unset, jq |-> Unset,
          means |-> Ids, order |-> "asc", limit |-> Unset, pageSize |-> Unset]

concat(old, new) == IF old = Unset THEN new ELSE old \cup new

byId(q, ids)      == [q EXCEPT !.id = ids]
byQueue(q, names) == [q EXCEPT !.queue = names]
addQueue(q, names) == [q EXCEPT !.queue = concat(q.queue, names)]
byPriority(q, r)  == [q EXCEPT !.priority = r]
limit(q, n)       == [q EXCEPT !.limit = n]
inPagesOf(q, n)   == [q EXCEPT !.pageSize = n]
reverseOrder(q)   == [q EXCEPT !.order = IF q.order = "desc" THEN "asc" ELSE "desc"]

Satisfies(j, jq) == \E i \in DOMAIN jq : jq[i] \subseteq Payload[j]

byJqFilter(q, jq) == [q EXCEPT !.jq = jq, !.means = {j \in Ids : Satisfies(j, jq)}]

\* The existing text, " and ", and the added text in parentheses: "and" binds
\* tighter than "or", so the new atom joins the last term.
addJqFilter(q, atom) ==
  [q EXCEPT !.jq = IF q.jq = Unset THEN <<{atom}>>
                   ELSE [q.jq EXCEPT ![Len(q.jq)] = @ \cup {atom}],
            !.means = {j \in q.means : atom \in Payload[j]}]

-----------------------------------------------------------------------------
(* Requests. *)

\* The filters of a query, without its order, limit and page size.
toWhere(q) == [q EXCEPT !.order = "asc", !.limit = Unset, !.pageSize = Unset]

\* Mutant: an empty list of queues is not recognised.
IsEmptyFilterIdOnly(w) == w.id = {}

\* A list filter with no element matches nothing; it must not reach the server
\* as a missing parameter, which matches everything.
IsEmptyFilter(w) == w.id = {} \/ w.queue = {}

\* encodeRange of a range that is given: a number, or the bounds that are given.
EncodeRange(r) ==
  IF Len(r) = 1 THEN [lo |-> r[1], hi |-> r[1]] ELSE [lo |-> r[1], hi |-> r[2]]

Within(n, range) ==
  /\ range.lo = Unset \/ range.lo <= n
  /\ range.hi = Unset \/ n <= range.hi

Priority(j) == j % 2

\* buildJobFilter and the server's reading of it: a parameter that is absent,
\* or empty, selects every job.
Selected(w) ==
  {j \in Ids :
    /\ jobs[j] \in Queues
    /\ w.id \in {Unset, {}} \/ j \in w.id
    /\ w.queue \in {Unset, {}} \/ jobs[j] \in w.queue
    /\ w.jq = Unset \/ Satisfies(j, w.jq)
    /\ w.priority = Unset \/ Within(Priority(j), EncodeRange(w.priority))}

\* What the caller of a query means by its filters.
Matches(w, j) ==
  /\ jobs[j] \in Queues
  /\ w.id = Unset \/ j \in w.id
  /\ w.queue = Unset \/ jobs[j] \in w.queue
  /\ j \in w.means
  /\ w.priority = Unset \/
       IF Len(w.priority) = 1 THEN Priority(j) = w.priority[1]
       ELSE /\ w.priority[1] = Unset \/ Priority(j) >= w.priority[1]
            /\ w.priority[2] = Unset \/ Priority(j) <= w.priority[2]

clampPageSize(s, n) == Min({s, n, MAX_PAGE_SIZE} \ {Unset})

\* An order of the list, as the pairs of numbers in that order.
Ordering(order) == {p \in Nat \X Nat : IF order = "asc" THEN p[1] < p[2] ELSE p[1] > p[2]}

\* The items of S after a link, in the order asked for.
After(S, order, link) ==
  SortedBy({j \in S : link = Unset \/ <<link, j>> \in Ordering(order)}, Ordering(order))

\* The server's answer to a list request; a page size of 0 it takes for none.
Answer(S, q, link) ==
  LET n     == clampPageSize(q.pageSize, q.limit)
      items == After(S, q.order, link)
      shown == IF n = 0 THEN items ELSE SubSeq(items, 1, Min({n, Len(items)}))
  IN  /\ page' = shown
      /\ size' = Len(shown)
      /\ next' = IF Len(shown) < Len(items) THEN Last(shown) ELSE Unset

-----------------------------------------------------------------------------

Init ==
  /\ \E f \in [1..MaxJobs - 1 -> Queues] :
       jobs = [j \in Ids |-> IF j < MaxJobs THEN f[j] ELSE "new"]
  /\ errors = MaxErrors - 1
  /\ changes = 0
  /\ call \in Calls
  /\ pc = "start"
  /\ page = <<>> /\ size = 0 /\ next = Unset /\ from = Unset
  /\ left = Unset /\ rem = Unset
  /\ total = 0 /\ yielded = <<>> /\ touched = {} /\ steady = {}

-----------------------------------------------------------------------------
(* Other clients and workers, between any two steps of the call. *)

Changed(j, value) ==
  /\ changes < MaxChanges
  /\ changes' = changes + 1
  /\ jobs' = [jobs EXCEPT ![j] = value]
  /\ steady' = steady \ {j}
  /\ UNCHANGED <<errors, call, pc, cursor, result>>

OtherEnqueues == \E j \in Ids, q \in Queues : jobs[j] = "new" /\ Changed(j, q)
OtherMoves    == \E j \in Ids, q \in Queues : jobs[j] \in Queues \ {q} /\ Changed(j, q)
OtherDeletes  == \E j \in Ids : jobs[j] \in Queues /\ Changed(j, "gone")

JobFails ==
  /\ errors < MaxErrors
  /\ errors' = errors + 1
  /\ UNCHANGED <<jobs, changes, call, pc, cursor, result, steady>>

-----------------------------------------------------------------------------
(* The call. *)

IsBulk == call.op \in {"updateAll", "deleteAll"}
OfErrors == call.op \in {"errors", "firstError", "errorPages"}

\* first(), last() and isEmpty() iterate a query rebuilt with a limit of one.
Effective(c) ==
  CASE c.op \in {"first", "isEmpty", "firstError"} -> limit(c.query, 1)
    [] c.op = "last"  -> limit(reverseOrder(c.query), 1)
    [] OTHER          -> c.query

\* A remaining count that was given and is used up.
Spent(n) == IF n = Unset THEN FALSE ELSE n <= 0

Less(n, k) == IF n = Unset THEN Unset ELSE n - k

Unbounded(q) == q.limit = Unset /\ q.pageSize = Unset

Start ==
  /\ pc = "start"
  /\ LET q == Effective(call)
     IN  /\ call' = [call EXCEPT !.query = q]
         /\ pc' = IF call.op = "count" \/ (IsBulk /\ Unbounded(q)) THEN "whole" ELSE "list"
         /\ left' = q.limit
         /\ rem' = q.limit
         /\ steady' = IF OfErrors THEN 1..errors ELSE {j \in Ids : Matches(q, j)}
  /\ UNCHANGED <<server, page, size, next, from, result>>

\* The end of the call.
Ended == pc' = "done" /\ UNCHANGED <<page, size, next, from, left>>

\* The first page by the query's options, or a page by its link.
ListJobs ==
  /\ pc = "list"
  /\ ~OfErrors
  /\ pc' = "page"
  /\ \/ /\ IsEmptyFilter(toWhere(call.query))
        /\ page' = <<>> /\ size' = 0 /\ next' = Unset
     \/ /\ ~IsEmptyFilter(toWhere(call.query))
        /\ Answer(Selected(toWhere(call.query)), call.query, from)
  /\ UNCHANGED <<server, call, from, left, rem, result, steady>>

ListErrors ==
  /\ pc = "list"
  /\ OfErrors
  /\ pc' = "page"
  /\ Answer(1..errors, call.query, from)
  /\ UNCHANGED <<server, call, from, left, rem, result, steady>>

\* Mutant: the link to the next page is not followed.
NextPageNever ==
  /\ left' = Less(left, size)
  /\ pc' = "done"
  /\ UNCHANGED <<page, size, next, from>>

\* Mutant: the iteration asks for the first page again.
NextPageRestarts ==
  /\ left' = Less(left, size)
  /\ UNCHANGED <<page, size, next>>
  /\ IF Spent(left') \/ next = Unset
     THEN pc' = "done" /\ UNCHANGED from
     ELSE pc' = "list" /\ from' = Unset

\* pages() goes on: stop at the limit or after the last page.
NextPage ==
  /\ left' = Less(left, size)
  /\ UNCHANGED <<page, size, next>>
  /\ IF Spent(left') \/ next = Unset
     THEN pc' = "done" /\ UNCHANGED from
     ELSE pc' = "list" /\ from' = next

\* The jobs a bulk request selects get a new value; the answer is their number.
Change(S, value) ==
  /\ jobs' = [j \in Ids |-> IF j \in S THEN value ELSE jobs[j]]
  /\ touched' = touched \cup S
  /\ total' = total + Cardinality(S)
  /\ UNCHANGED <<errors, changes, yielded>>

deleteAllJobs(w) == Change(IF IsEmptyFilter(w) THEN {} ELSE Selected(w), "gone")
updateAllJobs(w) == Change(IF IsEmptyFilter(w) THEN {} ELSE Selected(w), call.to)

BulkRequest(w) == \/ call.op = "deleteAll" /\ deleteAllJobs(w)
                  \/ call.op = "updateAll" /\ updateAllJobs(w)

\* updateAll() and deleteAll() without a limit or a page size.
WholeBulk ==
  /\ pc = "whole"
  /\ BulkRequest(toWhere(call.query))
  /\ Ended
  /\ UNCHANGED <<call, rem, steady>>

\* Mutant: an empty filter counts nothing, and returns nothing.
CountUndefined ==
  /\ pc = "whole"
  /\ call.op = "count"
  /\ total' = IF IsEmptyFilter(call.query) THEN Unset ELSE Cardinality(Selected(call.query))
  /\ Ended
  /\ UNCHANGED <<server, call, rem, yielded, touched, steady>>

countJobs(w) == IF IsEmptyFilter(w) THEN 0 ELSE Cardinality(Selected(w))

Count ==
  /\ pc = "whole"
  /\ call.op = "count"
  /\ LET n == countJobs(toWhere(call.query))
     IN  total' = IF call.query.limit = Unset THEN n ELSE Min({n, call.query.limit})
  /\ Ended
  /\ UNCHANGED <<server, call, rem, yielded, touched, steady>>

\* Mutant: the page's ids are not cut at the limit.
PageIdsUncut == page

PageIds == IF rem = Unset THEN page ELSE SubSeq(page, 1, Min({rem, size}))

\* Mutant: a page is updated by its ids alone.
PageScopeById(ids) == byId(Query, Range(ids))

\* The ids of the page replace the query's own; its other filters stay.
PageScope(ids) == byId(call.query, Range(ids))

\* Mutant: continue, without asking for the next page.
SkipPageForever == PageIds = <<>> /\ pc' = pc /\ UNCHANGED <<page, size, next, from, left>>

SkipPage == PageIds = <<>> /\ NextPage

\* One page of a bounded bulk call.
PageBulk ==
  /\ pc = "page"
  /\ \/ /\ Spent(rem)
        /\ Ended
        /\ UNCHANGED <<server, rem, result>>
     \/ /\ ~Spent(rem)
        /\ SkipPage
        /\ UNCHANGED <<server, rem, result>>
     \/ /\ ~Spent(rem)
        /\ PageIds # <<>>
        /\ BulkRequest(PageScope(PageIds))
        /\ rem' = Less(rem, Len(PageIds))
        /\ IF Spent(rem') THEN Ended ELSE NextPage
  /\ UNCHANGED <<call, steady>>

UpdatePage == call.op = "updateAll" /\ PageBulk
DeletePage == call.op = "deleteAll" /\ PageBulk

\* A consumer that stops at the first item, of a query limited to one.
StopsAtFirst == call.op \in {"first", "last", "firstError", "isEmpty"}

\* The consumer asks for an item of the page, and the limit allows it or not.
YieldItem ==
  /\ page # <<>>
  /\ \/ /\ Spent(rem)
        /\ Ended
        /\ UNCHANGED <<rem, yielded>>
     \/ /\ ~Spent(rem)
        /\ yielded' = Append(yielded, Head(page))
        /\ page' = Tail(page)
        /\ rem' = Less(rem, 1)
        /\ pc' = IF StopsAtFirst THEN "done" ELSE pc
        /\ UNCHANGED <<size, next, from, left>>

\* The iterator of JobQuery: at the end of a page, pages() goes on.
IterateJobs ==
  /\ pc = "page"
  /\ call.op \in {"iterate", "first", "last", "isEmpty"}
  /\ \/ YieldItem
     \/ /\ page = <<>>
        /\ IF Spent(rem) THEN Ended ELSE NextPage
        /\ UNCHANGED <<rem, yielded>>
  /\ UNCHANGED <<server, call, total, touched, steady>>

\* The iterator of ErrorQuery follows the links itself.
IterateErrors ==
  /\ pc = "page"
  /\ call.op \in {"errors", "firstError"}
  /\ \/ YieldItem
     \/ /\ page = <<>>
        /\ \/ (next = Unset \/ Spent(rem)) /\ Ended
           \/ /\ next # Unset /\ ~Spent(rem)
              /\ pc' = "list" /\ from' = next
              /\ UNCHANGED <<page, size, next, left>>
        /\ UNCHANGED <<rem, yielded>>
  /\ UNCHANGED <<server, call, total, touched, steady>>

\* A consumer of pages() may update or delete the jobs of a page, by id.
PageConsumed ==
  /\ pc = "page"
  /\ call.op = "pages"
  /\ \/ page # <<>> /\ deleteAllJobs(byId(Query, Range(page)))
     \/ page # <<>> /\ updateAllJobs(byId(Query, Range(page)))
     \/ UNCHANGED <<server, total, touched, yielded>>
  /\ NextPage
  /\ UNCHANGED <<call, rem, steady>>

\* A consumer of the pages of errors.
ErrorPageConsumed ==
  /\ pc = "page"
  /\ call.op = "errorPages"
  /\ yielded' = yielded \o page
  /\ NextPage
  /\ UNCHANGED <<server, call, rem, total, touched, steady>>

\* A request fails, and the call with it: earlier pages stay done, and the
\* server may have handled a bulk request whose answer is lost.
RequestFails ==
  /\ \/ pc = "list"
     \/ pc = "whole"
     \/ pc = "page" /\ IsBulk /\ PageIds # <<>> /\ ~Spent(rem)
  /\ pc' = "failed"
  /\ \/ UNCHANGED <<server, result>>
     \/ pc = "whole" /\ BulkRequest(toWhere(call.query))
     \/ pc = "page" /\ BulkRequest(PageScope(PageIds))
  /\ UNCHANGED <<call, cursor, steady>>

-----------------------------------------------------------------------------

Client == \/ Start \/ ListJobs \/ ListErrors \/ WholeBulk \/ Count
          \/ UpdatePage \/ DeletePage \/ IterateJobs \/ IterateErrors
          \/ PageConsumed \/ ErrorPageConsumed

Next == Client \/ RequestFails \/ OtherEnqueues \/ OtherMoves \/ OtherDeletes \/ JobFails

\* The client's code runs on, and every request is answered or fails.
Spec == Init /\ [][Next]_vars /\ WF_vars(Client)

-----------------------------------------------------------------------------
(* Properties. *)

TypeOK ==
  /\ jobs \in [Ids -> Queues \cup {"new", "gone"}]
  /\ errors \in 0..MaxErrors /\ changes \in 0..MaxChanges
  /\ pc \in {"start", "list", "whole", "page", "done", "failed"}
  /\ page \in Seq(Nat) /\ size \in Nat
  /\ {next, from, left, rem} \subseteq Int \cup {Unset}
  /\ total \in Nat /\ yielded \in Seq(Nat)
  /\ touched \subseteq Ids /\ steady \subseteq Nat

\* updateAll() and deleteAll() change only jobs that match the query when they
\* are changed, "scoped to both the query filters and the IDs on that page"
\* (query.ts:495), whatever happened to them since the page was read.
OnlyMatching ==
  [][IsBulk => \A j \in touched' \ touched : Matches(call.query, j)]_vars

\* A limit holds over all pages, whatever changes in between and whatever the
\* server makes of it: for jobs yielded, changed and counted.
WithinLimit ==
  pc # "start" /\ call.query.limit # Unset /\ call.op \notin {"pages", "errorPages"} =>
    \A n \in {Len(yielded), Cardinality(touched), total} : n <= call.query.limit

\* An iteration yields in order, and nothing twice, though jobs are moved,
\* added and deleted between its pages.
InOrderOnce ==
  \A i \in 1..Len(yielded) - 1 :
    IF call.query.order = "asc" THEN yielded[i] < yielded[i + 1]
                                ELSE yielded[i] > yielded[i + 1]

\* A call that ended has reached every job that matched from its start on and
\* that nobody else changed, unless its limit stopped it, and a bulk call
\* returns the number of jobs it changed.  (A bounded bulk call may stop short
\* of its limit: it counts the ids of a page, changed or not.)  first() and
\* last() skip no job that matched all along, in the order the caller asked for.
NoneMissed ==
  /\ pc = "done" =>
       /\ call.op \in {"iterate", "errors", "errorPages"} =>
            \/ steady \subseteq Range(yielded)
            \/ call.query.limit # Unset /\ Len(yielded) >= call.query.limit
       /\ StopsAtFirst => (steady = {} \/ yielded # <<>>)
       /\ call.op = "count" /\ call.query.limit = Unset => total >= Cardinality(steady)
       /\ IsBulk => /\ total = Cardinality(touched)
                    /\ call.query.limit = Unset => steady \subseteq touched
  /\ yielded # <<>> => \A j \in steady \ {yielded[1]} :
       /\ call.op = "first" => <<yielded[1], j>> \in Ordering(call.asked)
       /\ call.op = "last" => <<j, yielded[1]>> \in Ordering(call.asked)

\* Every call ends, though the jobs it updates may still match its query.
Ends == <>(pc \in {"done", "failed"})

-----------------------------------------------------------------------------
(* Inductive invariants. *)

\* The jq text of a query selects what its caller means.  Not so for a text of
\* alternatives to which addJqFilter() added another term; see the README.
Agrees(q) == \A j \in Ids : j \in q.means <=> (q.jq = Unset \/ Satisfies(j, q.jq))

\* A page holds jobs that the query names, if it names any, and all of it until
\* its consumer takes from it.
PageInv ==
  pc = "page" /\ ~OfErrors =>
    /\ Range(page) \subseteq {j \in Ids : call.query.id = Unset \/ j \in call.query.id}
    /\ IsBulk => size = Len(page)

\* InOrderOnce, strengthened: what was yielded, the page in hand and what is
\* behind the link follow each other.
Upto(S, link) == link # Unset /\ \A a \in S : a = link \/ <<a, link>> \in Ordering(call.query.order)
Follow(s, t) == \A a \in Range(s), b \in Range(t) : <<a, b>> \in Ordering(call.query.order)
Ascends(s) == \A i, k \in DOMAIN s : i < k => <<s[i], s[k]>> \in Ordering(call.query.order)

OrderInv ==
  /\ Ascends(yielded)
  /\ pc = "start" => yielded = <<>>
  /\ pc = "list" => yielded = <<>> \/ Upto(Range(yielded), from)
  /\ pc = "page" => /\ Ascends(page)
                    /\ Follow(yielded, page)
                    /\ next = Unset \/ Upto(Range(yielded) \cup Range(page), next)

\* WithinLimit, strengthened: what is left of the limit.
LimitInv ==
  LET most == call.query.limit IN
  /\ Cardinality(touched) <= total
  /\ pc \in {"start", "whole"} => total = 0 /\ touched = {} /\ yielded = <<>>
  /\ pc = "whole" => IsBulk \/ call.op = "count"
  /\ pc = "whole" /\ IsBulk => most = Unset
  /\ most # Unset /\ call.op \notin {"pages", "errorPages"} =>
       /\ pc \in {"list", "page"} => rem \in Nat /\ Len(yielded) + total + rem <= most
       /\ pc \in {"done", "failed"} => Len(yielded) <= most /\ total <= most

\* NoneMissed, strengthened in four parts.  What is left of the limit: left
\* counts the pages fetched, rem the items taken.
CountInv ==
  LET most == call.query.limit IN
  /\ pc = "start" => call.asked = call.query.order
  /\ pc # "start" /\ StopsAtFirst => most = 1
  /\ pc # "start" =>
       (call.query.order = call.asked) <=> call.op # "last"
  /\ pc \in {"list", "page"} =>
       /\ most = Unset => left = Unset /\ rem = Unset
       /\ most # Unset =>
            /\ left \in Int /\ rem \in Int
            /\ call.op \notin {"pages", "errorPages"} /\ ~IsBulk => rem + Len(yielded) = most
            /\ call.op = "errorPages" => left + Len(yielded) = most
            /\ call.op \in {"iterate", "first", "last", "isEmpty"} =>
                 IF pc = "list" THEN left = rem ELSE left + Len(page) = rem + size
  /\ pc = "page" /\ call.op = "errorPages" => size = Len(page)

\* What a bulk call changed is counted once: its pages follow each other.
BulkInv ==
  /\ ~IsBulk /\ call.op # "pages" => touched = {}
  /\ IsBulk =>
       /\ pc # "failed" => total = Cardinality(touched)
       /\ pc = "list" => touched = {} \/ Upto(touched, from)
       /\ pc = "page" => /\ \A a \in touched, b \in Range(page) :
                              <<a, b>> \in Ordering(call.query.order)
                         /\ next = Unset \/ Upto(touched \cup Range(page), next)

\* A job that matched when the call started, and that no other client changed,
\* matches until the call itself changes it.
KeptInv ==
  /\ pc = "start" => steady = {} /\ from = Unset
  /\ \A j \in steady : IF OfErrors THEN j \in 1..errors
                        ELSE j \in Ids /\ (j \in touched \/ Matches(call.query, j))

\* Where the jobs are that matched all along: reached, in the page in hand, or
\* behind the link.
Reached == IF IsBulk THEN touched ELSE Range(yielded)
Whole   == call.op \notin {"pages", "count"} /\ (IsBulk => call.query.limit = Unset)

SteadyInv ==
  LET R == Ordering(call.query.order) IN
  /\ Whole =>
       /\ pc = "list" => \A j \in steady \ Reached : from = Unset \/ <<from, j>> \in R
       /\ pc = "page" => \A j \in steady \ Reached :
                           j \in Range(page) \/ (next # Unset /\ <<next, j>> \in R)
       /\ pc = "done" => \/ steady \subseteq Reached
                         \/ call.query.limit # Unset /\ Len(yielded) >= call.query.limit
  /\ StopsAtFirst /\ yielded # <<>> => \A j \in steady \ {yielded[1]} : <<yielded[1], j>> \in R
  /\ call.op = "count" /\ pc = "done" /\ call.query.limit = Unset => total >= Cardinality(steady)

=============================================================================
