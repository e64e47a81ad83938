--------------------------- MODULE JobQueryProofs ---------------------------
(***************************************************************************)
(* Theorems about JobQuery, for every set of calls, any number of jobs and *)
(* errors, any page size and any number of changes by other clients.       *)
(***************************************************************************)
EXTENDS JobQuery, OrderLemmas

-----------------------------------------------------------------------------
(* The pages the server answers with. *)

\* Either order of the list is total on the numbers of jobs.
LEMMA OrderingTotal ==
  ASSUME NEW S \in SUBSET Nat, NEW order \in {"asc", "desc"}
  PROVE  IsTotalOrder(Ordering(order), S)
BY DEF IsTotalOrder, Ordering

\* What follows a link, in order and complete.
LEMMA AfterCorrect ==
  ASSUME NEW S \in SUBSET Nat, IsFiniteSet(S), NEW order \in {"asc", "desc"}, NEW link
  PROVE  /\ After(S, order, link) \in Seq(S)
         /\ \A i, k \in DOMAIN After(S, order, link) :
              i < k => <<After(S, order, link)[i], After(S, order, link)[k]>> \in Ordering(order)
         /\ \A i \in DOMAIN After(S, order, link) :
              link # Unset => <<link, After(S, order, link)[i]>> \in Ordering(order)
         /\ \A x \in S : (link = Unset \/ <<link, x>> \in Ordering(order)) =>
              \E i \in DOMAIN After(S, order, link) : After(S, order, link)[i] = x
<1> DEFINE T == {j \in S : link = Unset \/ <<link, j>> \in Ordering(order)}
           s == After(S, order, link)
           n == Cardinality(T)
<1>1. IsFiniteSet(T) /\ IsTotalOrder(Ordering(order), T) /\ s = SortedBy(T, Ordering(order))
  <2>1. T \in SUBSET S /\ T \in SUBSET Nat
    OBVIOUS
  <2> QED
    BY <2>1, FS_Subset, OrderingTotal DEF After
<1> HIDE DEF s
<1>2. n \in Nat
  BY <1>1, FS_CardinalityType
<1>3. /\ s \in [1..n -> T]
      /\ \A i, k \in 1..n : i < k => <<s[i], s[k]>> \in Ordering(order)
      /\ \A x \in T : \E i \in 1..n : s[i] = x
  <2> HIDE DEF T
  <2> QED
    BY <1>1, SortedByCorrect
<1>4. DOMAIN s = 1..n /\ \A i \in 1..n : s[i] \in T
  BY <1>3
<1>5. s \in Seq(S)
  <2>1. s \in [1..n -> S]
    BY <1>3
  <2> HIDE DEF n
  <2> QED
    BY <1>2, <2>1
<1>6. \A i \in DOMAIN s : link # Unset => <<link, s[i]>> \in Ordering(order)
  BY <1>4
<1>7. \A x \in S : (link = Unset \/ <<link, x>> \in Ordering(order)) => x \in T
  OBVIOUS
<1>8. \A x \in T : \E i \in DOMAIN s : s[i] = x
  BY <1>3, <1>4
<1>9. \A i, k \in DOMAIN s : i < k => <<s[i], s[k]>> \in Ordering(order)
  BY <1>3, <1>4
<1> HIDE DEF T, n
<1> QED
  BY <1>5, <1>6, <1>7, <1>8, <1>9 DEF s

\* The size asked for, 0 when the limit is.
LEMMA ClampTyped ==
  ASSUME NEW q \in Queries
  PROVE  clampPageSize(q.pageSize, q.limit) \in Nat
<1> DEFINE sizes == {q.pageSize, q.limit, MAX_PAGE_SIZE} \ {Unset}
<1>1. sizes \in SUBSET Nat /\ sizes # {}
  BY UnsetAssumption, PageAssumption DEF Queries
<1> HIDE DEF sizes
<1>2. Min(sizes) \in sizes
  BY <1>1, MinIsLeast
<1> QED
  BY <1>1, <1>2 DEF clampPageSize, sizes

\* A page is in order and follows the link it was asked for with; its own link
\* is its last item, and what it leaves out comes after that.
LEMMA AnswerCorrect ==
  ASSUME NEW S \in SUBSET Nat, IsFiniteSet(S), NEW q \in Queries, NEW link, Answer(S, q, link)
  PROVE  /\ page' \in Seq(S) /\ size' = Len(page') /\ size' \in Nat
         /\ next' \in S \cup {Unset}
         /\ \A i, k \in DOMAIN page' : i < k => <<page'[i], page'[k]>> \in Ordering(q.order)
         /\ \A i \in DOMAIN page' : link # Unset => <<link, page'[i]>> \in Ordering(q.order)
         /\ next' # Unset => /\ page' # <<>>
                             /\ \A i \in DOMAIN page' :
                                  page'[i] = next' \/ <<page'[i], next'>> \in Ordering(q.order)
         /\ \A x \in S : (link = Unset \/ <<link, x>> \in Ordering(q.order)) =>
              \/ \E i \in DOMAIN page' : page'[i] = x
              \/ next' # Unset /\ <<next', x>> \in Ordering(q.order)
<1> DEFINE items == After(S, q.order, link)
           n     == clampPageSize(q.pageSize, q.limit)
           shown == IF n = 0 THEN items ELSE SubSeq(items, 1, Min({n, Len(items)}))
           k     == Len(shown)
<1>1. q.order \in {"asc", "desc"}
  BY DEF Queries
<1>2. /\ items \in Seq(S)
      /\ \A i, j \in DOMAIN items : i < j => <<items[i], items[j]>> \in Ordering(q.order)
      /\ \A i \in DOMAIN items : link # Unset => <<link, items[i]>> \in Ordering(q.order)
      /\ \A x \in S : (link = Unset \/ <<link, x>> \in Ordering(q.order)) =>
           \E i \in DOMAIN items : items[i] = x
  BY <1>1, AfterCorrect
<1>3. n \in Nat
  BY ClampTyped
<1>4. page' = shown /\ size' = k /\ next' = IF k < Len(items) THEN shown[k] ELSE Unset
  BY DEF Answer, Last
<1> HIDE DEF items, n
<1>5. Len(items) \in Nat /\ DOMAIN items = 1..Len(items)
  BY <1>2
<1>7. /\ k \in Nat /\ k <= Len(items) /\ DOMAIN shown = 1..k /\ shown \in Seq(S)
      /\ \A i \in 1..k : shown[i] = items[i]
      /\ k < Len(items) => k > 0
  <2>1. CASE n = 0
    BY <1>2, <1>5, <2>1
  <2>2. CASE n # 0
    <3>1. shown = SubSeq(items, 1, Min({n, Len(items)}))
      BY <2>2
    <3> HIDE DEF shown
    <3>2. n \in Nat \ {0} /\ items \in Seq(S)
      BY <1>2, <1>3, <2>2
    <3>3. /\ shown \in Seq(S) /\ Len(shown) \in Nat /\ Len(shown) <= Len(items)
          /\ DOMAIN shown = 1..Len(shown)
          /\ \A i \in 1..Len(shown) : shown[i] = items[i]
          /\ Len(shown) < Len(items) => Len(shown) > 0
      BY <3>1, <3>2, FirstOf
    <3> QED
      BY <3>3
  <2> QED
    BY <2>1, <2>2
<1> HIDE DEF shown
<1>8. \A i \in 1..k : i \in 1..Len(items)
  BY <1>5, <1>7
<1>9. /\ page' \in Seq(S) /\ size' = Len(page') /\ size' \in Nat
      /\ \A i, j \in DOMAIN page' : i < j => <<page'[i], page'[j]>> \in Ordering(q.order)
      /\ \A i \in DOMAIN page' : link # Unset => <<link, page'[i]>> \in Ordering(q.order)
  BY <1>2, <1>4, <1>5, <1>7, <1>8
<1>10. CASE k < Len(items)
  <2>1. k \in 1..k /\ next' = items[k] /\ next' \in S /\ page' # <<>>
    BY <1>2, <1>4, <1>5, <1>7, <1>8, <1>10
  <2>2. next' # Unset
    BY <2>1, UnsetAssumption
  <2>3. \A i \in DOMAIN page' : page'[i] = next' \/ <<page'[i], next'>> \in Ordering(q.order)
    BY <1>2, <1>4, <1>5, <1>7, <1>8, <2>1
  <2>4. ASSUME NEW x \in S, link = Unset \/ <<link, x>> \in Ordering(q.order)
        PROVE  \/ \E i \in DOMAIN page' : page'[i] = x
               \/ <<next', x>> \in Ordering(q.order)
    <3>1. PICK i \in 1..Len(items) : items[i] = x
      BY <1>2, <1>5, <2>4
    <3>2. i \in 1..k \/ k < i
      BY <1>5, <1>7
    <3> QED
      BY <1>2, <1>4, <1>5, <1>7, <1>8, <2>1, <3>1, <3>2
  <2> QED
    BY <1>9, <2>1, <2>2, <2>3, <2>4
<1>11. CASE ~(k < Len(items))
  <2>1. k = Len(items) /\ next' = Unset
    BY <1>4, <1>5, <1>7, <1>11
  <2>2. \A x \in S : (link = Unset \/ <<link, x>> \in Ordering(q.order)) =>
          \E i \in DOMAIN page' : page'[i] = x
    BY <1>2, <1>4, <1>5, <1>7, <2>1
  <2> QED
    BY <1>9, <2>1, <2>2
<1> QED
  BY <1>10, <1>11

-----------------------------------------------------------------------------
(* Types, and what a page in hand holds. *)

Shape == TypeOK /\ IsCall(call) /\ PageInv

\* A query with a limit is a query, with the same filters.
LEMMA LimitTyped ==
  ASSUME NEW q \in Queries, NEW n \in Nat
  PROVE  /\ limit(q, n) \in Queries
         /\ limit(q, n).id = q.id /\ limit(q, n).queue = q.queue
         /\ limit(q, n).priority = q.priority /\ limit(q, n).jq = q.jq
         /\ limit(q, n).means = q.means /\ limit(q, n).order = q.order
         /\ limit(q, n).pageSize = q.pageSize /\ limit(q, n).limit = n
BY DEF Queries, limit

\* A query in reverse order is a query, with the same filters.
LEMMA ReverseTyped ==
  ASSUME NEW q \in Queries
  PROVE  /\ reverseOrder(q) \in Queries
         /\ reverseOrder(q).id = q.id /\ reverseOrder(q).queue = q.queue
         /\ reverseOrder(q).priority = q.priority /\ reverseOrder(q).jq = q.jq
         /\ reverseOrder(q).means = q.means
BY DEF Queries, reverseOrder

\* first(), last() and isEmpty() change only the order and the limit.
LEMMA EffectiveTyped ==
  ASSUME IsCall(call)
  PROVE  /\ Effective(call) \in Queries
         /\ Effective(call).id = call.query.id /\ Effective(call).queue = call.query.queue
         /\ Effective(call).priority = call.query.priority
         /\ Effective(call).jq = call.query.jq /\ Effective(call).means = call.query.means
         /\ IsCall([call EXCEPT !.query = Effective(call)])
         /\ call.op \in {"first", "isEmpty", "firstError", "last"} => Effective(call).limit = 1
         /\ (Effective(call).order = call.query.order) <=> call.op # "last"
<1> DEFINE q == call.query
           e == Effective(call)
<1>1. q \in Queries /\ call.op \in STRING /\ call.to \in Queues
  BY DEF IsCall
<1>2. e = q \/ e = limit(q, 1) \/ e = limit(reverseOrder(q), 1)
  BY DEF Effective
<1>3. /\ e \in Queries
      /\ e.id = q.id /\ e.queue = q.queue /\ e.priority = q.priority
      /\ e.jq = q.jq /\ e.means = q.means
  <2>1. 1 \in Nat
    OBVIOUS
  <2>2. CASE e = q
    BY <1>1, <2>2
  <2>3. CASE e = limit(q, 1)
    BY <1>1, <2>1, <2>3, LimitTyped
  <2>4. CASE e = limit(reverseOrder(q), 1)
    <3> DEFINE r == reverseOrder(q)
    <3>1. /\ r \in Queries
          /\ r.id = q.id /\ r.queue = q.queue /\ r.priority = q.priority
          /\ r.jq = q.jq /\ r.means = q.means
      BY <1>1, ReverseTyped
    <3> HIDE DEF r
    <3>2. e = limit(r, 1)
      BY <2>4 DEF r
    <3> QED
      BY <2>1, <3>1, <3>2, LimitTyped
  <2> QED
    BY <1>2, <2>2, <2>3, <2>4
<1>4. call.op \in {"first", "isEmpty", "firstError"} => e = limit(q, 1)
  BY DEF Effective
<1>5. call.op = "last" => e = limit(reverseOrder(q), 1)
  BY DEF Effective
<1>6. call.op \in {"first", "isEmpty", "firstError", "last"} => e.limit = 1
  BY <1>1, <1>4, <1>5 DEF Queries, limit, reverseOrder
<1>7. (e.order = q.order) <=> call.op # "last"
  <2>1. call.op # "last" => e \in {q, limit(q, 1)}
    BY DEF Effective
  <2>2. limit(q, 1).order = q.order /\ limit(reverseOrder(q), 1).order # q.order
    BY <1>1 DEF Queries, limit, reverseOrder
  <2> QED
    BY <1>5, <2>1, <2>2
<1> HIDE DEF e
<1>8. IsCall([call EXCEPT !.query = e])
  BY <1>3 DEF IsCall
<1> QED
  BY <1>3, <1>6, <1>7, <1>8 DEF e

\* A request selects jobs the server has numbers for.
LEMMA SelectedTyped ==
  ASSUME NEW w
  PROVE  Selected(w) \in SUBSET Ids /\ Ids \in SUBSET Nat /\ IsFiniteSet(Selected(w))
<1>1. IsFiniteSet(Ids) /\ Ids \in SUBSET Nat
  BY MaxJobsAssumption, FS_Interval DEF Ids
<1>2. Selected(w) \in SUBSET Ids
  BY DEF Selected
<1> QED
  BY <1>1, <1>2, FS_Subset

\* What a bulk request does.
LEMMA BulkTyped ==
  ASSUME TypeOK, IsCall(call), NEW w, BulkRequest(w)
  PROVE  \E S \in SUBSET Ids :
           /\ S = IF IsEmptyFilter(w) THEN {} ELSE Selected(w)
           /\ IsFiniteSet(S) /\ Cardinality(S) \in Nat
           /\ jobs' \in [Ids -> Queues \cup {"new", "gone"}]
           /\ touched' = touched \cup S
           /\ total' = total + Cardinality(S) /\ total' \in Nat
           /\ \A j \in Ids \ S : jobs'[j] = jobs[j]
           /\ errors' = errors /\ changes' = changes /\ yielded' = yielded
<1> DEFINE S == IF IsEmptyFilter(w) THEN {} ELSE Selected(w)
<1>1. S \in SUBSET Ids /\ IsFiniteSet(S)
  BY SelectedTyped, FS_EmptySet
<1>2. Cardinality(S) \in Nat
  BY <1>1, FS_CardinalityType
<1>3. PICK value \in Queues \cup {"gone"} : Change(S, value)
  BY DEF BulkRequest, deleteAllJobs, updateAllJobs, IsCall
<1> HIDE DEF S
<1>4. jobs' \in [Ids -> Queues \cup {"new", "gone"}]
  BY <1>3 DEF Change, TypeOK
<1>5. /\ touched' = touched \cup S /\ total' = total + Cardinality(S)
      /\ errors' = errors /\ changes' = changes /\ yielded' = yielded
  BY <1>3 DEF Change
<1>6. total' \in Nat
  BY <1>2, <1>5 DEF TypeOK
<1>7. S = IF IsEmptyFilter(w) THEN {} ELSE Selected(w)
  BY DEF S
<1>8. \A j \in Ids \ S : jobs'[j] = jobs[j]
  BY <1>3 DEF Change
<1> QED
  BY <1>1, <1>2, <1>4, <1>5, <1>6, <1>7, <1>8

\* pages() asks for the next page by its link, or ends.
LEMMA NextPageTyped ==
  ASSUME TypeOK, NextPage
  PROVE  /\ pc' \in {"done", "list"}
         /\ page' = page /\ size' = size /\ next' = next
         /\ left' \in Int \cup {Unset}
         /\ from' \in {from, next}
         /\ pc' = "list" => from' = next /\ next # Unset
BY DEF NextPage, TypeOK, Less

\* The ids a bounded bulk call takes from a page.
LEMMA PageIdsTyped ==
  ASSUME Shape, pc = "page", IsBulk, ~Spent(rem)
  PROVE  /\ PageIds \in Seq(Nat) /\ Len(PageIds) \in Nat
         /\ Range(PageIds) \subseteq Range(page)
         /\ Range(PageIds) \subseteq {j \in Ids : call.query.id = Unset \/ j \in call.query.id}
         /\ IsFiniteSet(Range(PageIds)) /\ Cardinality(Range(PageIds)) <= Len(PageIds)
         /\ rem # Unset => Len(PageIds) <= rem
<1>1. /\ page \in Seq(Nat) /\ size = Len(page)
      /\ Range(page) \subseteq {j \in Ids : call.query.id = Unset \/ j \in call.query.id}
      /\ rem # Unset => rem \in Nat \ {0}
  <2>1. ~OfErrors
    BY DEF IsBulk, OfErrors
  <2> QED
    BY <2>1 DEF Shape, TypeOK, PageInv, Spent
<1>2. /\ PageIds \in Seq(Nat) /\ Len(PageIds) \in Nat /\ Len(PageIds) <= Len(page)
      /\ DOMAIN PageIds = 1..Len(PageIds)
      /\ \A i \in 1..Len(PageIds) : PageIds[i] = page[i]
      /\ rem # Unset => Len(PageIds) <= rem
  <2>1. CASE rem = Unset
    BY <1>1, <2>1 DEF PageIds
  <2>2. CASE rem # Unset
    <3>1. PICK N : N = Nat
      OBVIOUS
    <3>2. PICK n \in Nat \ {0}, s \in Seq(N) : n = rem /\ s = page
      BY <1>1, <2>2, <3>1
    <3>3. PICK t : t = SubSeq(s, 1, Min({n, Len(s)}))
      OBVIOUS
    <3>4. PageIds = t
      BY <1>1, <2>2, <3>2, <3>3 DEF PageIds
    <3>5. /\ t \in Seq(N) /\ Len(t) \in Nat /\ Len(t) <= Len(s) /\ Len(t) <= n
          /\ DOMAIN t = 1..Len(t)
          /\ \A i \in 1..Len(t) : t[i] = s[i]
      BY <3>3, FirstOf
    <3> QED
      BY <3>1, <3>2, <3>4, <3>5
  <2> QED
    BY <2>1, <2>2
<1>3. \A i \in 1..Len(PageIds) : i \in DOMAIN page
  BY <1>1, <1>2
<1>4. Range(PageIds) \subseteq Range(page)
  BY <1>2, <1>3 DEF Range
<1>5. IsFiniteSet(Range(PageIds)) /\ Cardinality(Range(PageIds)) <= Len(PageIds)
  BY <1>2, RangeAtMost
<1> QED
  BY <1>1, <1>2, <1>4, <1>5

\* The number count() returns.
LEMMA CountTyped ==
  ASSUME TypeOK, IsCall(call), Count
  PROVE  total' \in Nat /\ (call.query.limit # Unset => total' <= call.query.limit)
<1> DEFINE n == countJobs(toWhere(call.query))
<1>1. n \in Nat
  BY SelectedTyped, FS_CardinalityType DEF countJobs
<1>2. total' = IF call.query.limit = Unset THEN n ELSE Min({n, call.query.limit})
  BY DEF Count
<1> HIDE DEF n
<1>3. CASE call.query.limit = Unset
  BY <1>1, <1>2, <1>3
<1>4. CASE call.query.limit # Unset
  <2> DEFINE T == {n, call.query.limit}
  <2>1. T \in SUBSET Nat /\ T # {} /\ call.query.limit \in T
    BY <1>1, <1>4 DEF IsCall, Queries
  <2>2. total' = Min(T)
    BY <1>2, <1>4
  <2> HIDE DEF T
  <2> QED
    BY <2>1, <2>2, MinIsLeast
<1> QED
  BY <1>3, <1>4

\* A consumer takes an item, or learns that the limit is reached.
LEMMA YieldTyped ==
  ASSUME Shape, pc = "page", YieldItem, ~IsBulk,
         UNCHANGED <<jobs, errors, changes, call, total, touched, steady>>
  PROVE  TypeOK' /\ PageInv'
<1>1. TypeOK /\ PageInv /\ page # <<>>
  BY DEF Shape, YieldItem
<1>2. CASE Spent(rem) /\ Ended /\ UNCHANGED <<rem, yielded>>
  BY <1>1, <1>2 DEF Ended, TypeOK, PageInv
<1>3. CASE /\ yielded' = Append(yielded, Head(page)) /\ page' = Tail(page)
           /\ rem' = Less(rem, 1) /\ pc' \in {"done", pc}
           /\ UNCHANGED <<size, next, from, left>>
  <2>1. page \in Seq(Nat) /\ yielded \in Seq(Nat)
    BY <1>1 DEF TypeOK
  <2>2. page' \in Seq(Nat) /\ yielded' \in Seq(Nat) /\ Range(page') \subseteq Range(page)
    <3>1. /\ Head(page) \in Nat /\ Tail(page) \in Seq(Nat)
      BY <1>1, <2>1, HeadTailProperties
    <3>2. Range(Tail(page)) \subseteq Range(page)
      BY <1>1, <2>1, TailRange
    <3> QED
      BY <1>3, <2>1, <3>1, <3>2
  <2>3. rem' \in Int \cup {Unset}
    BY <1>1, <1>3 DEF TypeOK, Less
  <2>4. TypeOK'
    BY <1>1, <1>3, <2>2, <2>3 DEF TypeOK
  <2>5. PageInv'
    BY <1>1, <2>2 DEF PageInv, OfErrors, IsBulk
  <2> QED
    BY <2>4, <2>5
<1> QED
  BY <1>2, <1>3 DEF YieldItem

\* What the consumer of pages() does to a page.
LEMMA ConsumedTyped ==
  ASSUME TypeOK, IsCall(call), PageConsumed
  PROVE  /\ jobs' \in [Ids -> Queues \cup {"new", "gone"}]
         /\ touched' \in SUBSET Ids /\ total' \in Nat
         /\ \E S \in SUBSET Ids : /\ IsFiniteSet(S) /\ touched' = touched \cup S
                                  /\ total' = total + Cardinality(S)
                                  /\ \A j \in Ids \ S : jobs'[j] = jobs[j]
         /\ UNCHANGED <<errors, changes, yielded>>
<1> DEFINE w == byId(Query, Range(page))
           S == IF IsEmptyFilter(w) THEN {} ELSE Selected(w)
<1>1. S \in SUBSET Ids /\ IsFiniteSet(S) /\ Cardinality(S) \in Nat
  BY SelectedTyped, FS_EmptySet, FS_CardinalityType
<1>2. \/ \E value \in Queues \cup {"gone"} : Change(S, value)
      \/ UNCHANGED <<jobs, errors, changes, total, touched, yielded>>
  BY DEF PageConsumed, deleteAllJobs, updateAllJobs, server, IsCall
<1> HIDE DEF S
<1>3. CASE \E value \in Queues \cup {"gone"} : Change(S, value)
  <2>1. PICK value \in Queues \cup {"gone"} : Change(S, value)
    BY <1>3
  <2>2. jobs' \in [Ids -> Queues \cup {"new", "gone"}]
    BY <2>1 DEF Change, TypeOK
  <2>3. /\ touched' = touched \cup S /\ total' = total + Cardinality(S)
        /\ \A j \in Ids \ S : jobs'[j] = jobs[j]
        /\ UNCHANGED <<errors, changes, yielded>>
    BY <2>1 DEF Change
  <2>4. touched' \in SUBSET Ids /\ total' \in Nat
    BY <1>1, <2>3 DEF TypeOK
  <2> QED
    BY <1>1, <2>2, <2>3, <2>4
<1>4. CASE UNCHANGED <<jobs, errors, changes, total, touched, yielded>>
  <2>1. /\ IsFiniteSet({}) /\ touched' = touched \cup {}
        /\ Cardinality({}) = 0 /\ total' = total + 0
    BY <1>4, FS_EmptySet DEF TypeOK
  <2> QED
    BY <1>4, <2>1 DEF TypeOK
<1> QED
  BY <1>2, <1>3, <1>4

\* The server lists numbers of jobs or of errors.
LEMMA ListTyped ==
  ASSUME Shape
  PROVE  /\ \A w : Selected(w) \in SUBSET Nat /\ IsFiniteSet(Selected(w))
         /\ 1..errors \in SUBSET Nat /\ IsFiniteSet(1..errors)
         /\ call.query \in Queries
<1>1. errors \in Nat
  BY MaxJobsAssumption DEF Shape, TypeOK
<1>2. \A w : Selected(w) \in SUBSET Nat /\ IsFiniteSet(Selected(w))
  BY SelectedTyped
<1>3. 1..errors \in SUBSET Nat /\ IsFiniteSet(1..errors)
  <2>1. PICK n \in Nat : n = errors
    BY <1>1
  <2> QED
    BY <2>1, FS_Interval
<1> QED
  BY <1>2, <1>3 DEF Shape, IsCall

\* Shape is inductive.
LEMMA ShapeInit == Init => Shape
<1> SUFFICES ASSUME Init
             PROVE  Shape
  OBVIOUS
<1>1. IsCall(call)
  BY CallsAssumption DEF Init
<1>2. jobs \in [Ids -> Queues \cup {"new", "gone"}]
  <2>1. PICK f \in [1..MaxJobs - 1 -> Queues] :
          jobs = [j \in Ids |-> IF j < MaxJobs THEN f[j] ELSE "new"]
    BY DEF Init
  <2>2. \A j \in Ids : j < MaxJobs => f[j] \in Queues
    BY <2>1, MaxJobsAssumption DEF Ids
  <2> QED
    BY <2>1, <2>2
<1>3. TypeOK
  BY <1>2, MaxJobsAssumption DEF Init, TypeOK
<1>4. PageInv
  BY DEF Init, PageInv
<1> QED
  BY <1>1, <1>3, <1>4 DEF Shape

\* One step preserves Shape.
LEMMA ShapeStep == Shape /\ [Next]_vars => Shape'
<1> SUFFICES ASSUME Shape, [Next]_vars
             PROVE  Shape'
  OBVIOUS
<1>0. TypeOK /\ IsCall(call) /\ PageInv
  BY DEF Shape
<1>1. CASE Start
  <2>1. /\ call' = [call EXCEPT !.query = Effective(call)]
        /\ pc' \in {"whole", "list"}
        /\ left' = Effective(call).limit /\ rem' = Effective(call).limit
        /\ steady' \subseteq Nat
        /\ UNCHANGED <<jobs, errors, changes, page, size, next, from, total, yielded, touched>>
    BY <1>0, <1>1, SelectedTyped, ListTyped DEF Start, server, result, Ids
  <2>2. IsCall(call')
    BY <1>0, <2>1, EffectiveTyped
  <2>3. Effective(call).limit \in Int \cup {Unset}
    BY <1>0, EffectiveTyped DEF Queries
  <2>4. TypeOK'
    BY <1>0, <2>1, <2>3 DEF TypeOK
  <2>5. PageInv'
    BY <2>1 DEF PageInv
  <2> QED
    BY <2>2, <2>4, <2>5 DEF Shape
<1>2. CASE ListJobs
  <2> DEFINE w == toWhere(call.query)
  <2>1. w.id = call.query.id /\ w.queue = call.query.queue
    BY <1>0 DEF toWhere, IsCall, Queries
  <2>2. /\ pc' = "page" /\ ~OfErrors
        /\ UNCHANGED <<jobs, errors, changes, call, from, left, rem, total, yielded, touched, steady>>
    BY <1>2 DEF ListJobs, server, result
  <2> HIDE DEF w
  <2>3. CASE page' = <<>> /\ size' = 0 /\ next' = Unset
    <3>1. TypeOK'
      BY <1>0, <2>2, <2>3 DEF TypeOK
    <3>2. PageInv'
      BY <2>2, <2>3 DEF PageInv, Range
    <3> QED
      BY <1>0, <2>2, <3>1, <3>2 DEF Shape
  <2>4. CASE ~IsEmptyFilter(w) /\ Answer(Selected(w), call.query, from)
    <3>1. /\ page' \in Seq(Selected(w)) /\ size' = Len(page') /\ size' \in Nat
          /\ next' \in Selected(w) \cup {Unset}
      BY <2>4, ListTyped, AnswerCorrect
    <3>2. Selected(w) \subseteq {j \in Ids : call.query.id = Unset \/ j \in call.query.id}
      BY <2>1, <2>4 DEF IsEmptyFilter, Selected
    <3>3. Range(page') \subseteq Selected(w)
      BY <3>1, RangeOfSeq
    <3>4. page' \in Seq(Nat) /\ next' \in Int \cup {Unset}
      BY <3>1, ListTyped
    <3>5. TypeOK'
      BY <1>0, <2>2, <3>1, <3>4 DEF TypeOK
    <3>6. PageInv'
      BY <2>2, <3>1, <3>2, <3>3 DEF PageInv
    <3> QED
      BY <1>0, <2>2, <3>5, <3>6 DEF Shape
  <2> QED
    BY <1>2, <2>3, <2>4 DEF ListJobs, w
<1>3. CASE ListErrors
  <2>1. /\ pc' = "page" /\ OfErrors /\ Answer(1..errors, call.query, from)
        /\ UNCHANGED <<jobs, errors, changes, call, from, left, rem, total, yielded, touched, steady>>
    BY <1>3 DEF ListErrors, server, result
  <2>2. /\ page' \in Seq(1..errors) /\ size' \in Nat /\ next' \in (1..errors) \cup {Unset}
    BY <2>1, ListTyped, AnswerCorrect
  <2>3. page' \in Seq(Nat) /\ next' \in Int \cup {Unset}
    <3>1. PICK S \in SUBSET Nat : S = 1..errors
      BY ListTyped
    <3>2. page' \in Seq(S) /\ next' \in S \cup {Unset}
      BY <2>2, <3>1
    <3>3. page' \in Seq(Nat)
      BY <3>2, SeqMonotonic
    <3>4. next' \in Int \cup {Unset}
      BY <3>2
    <3> QED
      BY <3>3, <3>4
  <2>4. TypeOK'
    BY <1>0, <2>1, <2>2, <2>3 DEF TypeOK
  <2>5. PageInv'
    BY <2>1 DEF PageInv, OfErrors
  <2> QED
    BY <1>0, <2>1, <2>4, <2>5 DEF Shape
<1>4. CASE WholeBulk
  <2>1. /\ BulkRequest(toWhere(call.query)) /\ pc' = "done"
        /\ UNCHANGED <<page, size, next, from, left, call, rem, steady>>
    BY <1>4 DEF WholeBulk, Ended
  <2>2. /\ jobs' \in [Ids -> Queues \cup {"new", "gone"}]
        /\ touched' \in SUBSET Ids /\ total' \in Nat
        /\ UNCHANGED <<errors, changes, yielded>>
    BY <1>0, <2>1, BulkTyped DEF TypeOK
  <2>3. TypeOK'
    BY <1>0, <2>1, <2>2 DEF TypeOK
  <2>4. PageInv'
    BY <2>1 DEF PageInv
  <2> QED
    BY <1>0, <2>1, <2>3, <2>4 DEF Shape
<1>5. CASE Count
  <2>1. /\ pc' = "done"
        /\ UNCHANGED <<jobs, errors, changes, page, size, next, from, left, call, rem, yielded, touched, steady>>
    BY <1>5 DEF Count, Ended, server
  <2>2. total' \in Nat
    BY <1>0, <1>5, CountTyped
  <2>3. TypeOK'
    BY <1>0, <2>1, <2>2 DEF TypeOK
  <2>4. PageInv'
    BY <2>1 DEF PageInv
  <2> QED
    BY <1>0, <2>1, <2>3, <2>4 DEF Shape
<1>6. CASE PageBulk /\ IsBulk
  <2>1. pc = "page" /\ call' = call /\ steady' = steady
    BY <1>6 DEF PageBulk
  <2>2. CASE Spent(rem) /\ Ended /\ UNCHANGED <<server, rem, result>>
    <3>1. TypeOK'
      BY <1>0, <2>1, <2>2 DEF TypeOK, Ended, server, result
    <3>2. PageInv'
      BY <2>2 DEF PageInv, Ended
    <3> QED
      BY <1>0, <2>1, <3>1, <3>2 DEF Shape
  <2>3. CASE ~Spent(rem) /\ SkipPage /\ UNCHANGED <<server, rem, result>>
    <3>1. NextPage /\ UNCHANGED <<jobs, errors, changes, rem, total, yielded, touched>>
      BY <2>3 DEF SkipPage, server, result
    <3>2. TypeOK' /\ pc' # "page"
      BY <1>0, <2>1, <3>1, NextPageTyped DEF TypeOK
    <3>3. PageInv'
      BY <3>2 DEF PageInv
    <3> QED
      BY <1>0, <2>1, <3>2, <3>3 DEF Shape
  <2>4. CASE /\ ~Spent(rem) /\ PageIds # <<>>
             /\ BulkRequest(PageScope(PageIds))
             /\ rem' = Less(rem, Len(PageIds))
             /\ IF Spent(rem') THEN Ended ELSE NextPage
    <3>1. /\ jobs' \in [Ids -> Queues \cup {"new", "gone"}]
          /\ touched' \in SUBSET Ids /\ total' \in Nat
          /\ UNCHANGED <<errors, changes, yielded>>
      BY <1>0, <2>4, BulkTyped DEF TypeOK
    <3>2. rem' \in Int \cup {Unset}
      <4>1. Len(PageIds) \in Nat
        BY <1>6, <2>1, <2>4, PageIdsTyped
      <4> QED
        BY <1>0, <2>4, <4>1 DEF TypeOK, Less
    <3>3. /\ pc' \in {"done", "list"}
          /\ UNCHANGED <<page, size, next>>
          /\ left' \in Int \cup {Unset} /\ from' \in Int \cup {Unset}
      BY <1>0, <2>4, NextPageTyped DEF TypeOK, Ended
    <3>4. TypeOK'
      BY <1>0, <2>1, <3>1, <3>2, <3>3 DEF TypeOK
    <3>5. PageInv'
      BY <3>3 DEF PageInv
    <3> QED
      BY <1>0, <2>1, <3>4, <3>5 DEF Shape
  <2> QED
    BY <1>6, <2>2, <2>3, <2>4 DEF PageBulk
<1>7. CASE IterateJobs
  <2>1. /\ pc = "page" /\ ~IsBulk /\ ~OfErrors
        /\ UNCHANGED <<jobs, errors, changes, call, total, touched, steady>>
    BY <1>7 DEF IterateJobs, IsBulk, OfErrors, server
  <2>2. CASE YieldItem
    BY <1>0, <2>1, <2>2, YieldTyped DEF Shape
  <2>3. CASE /\ page = <<>>
             /\ IF Spent(rem) THEN Ended ELSE NextPage
             /\ UNCHANGED <<rem, yielded>>
    <3>1. TypeOK' /\ pc' # "page"
      BY <1>0, <2>1, <2>3, NextPageTyped DEF TypeOK, Ended
    <3>2. PageInv'
      BY <3>1 DEF PageInv
    <3> QED
      BY <1>0, <2>1, <3>1, <3>2 DEF Shape
  <2> QED
    BY <1>7, <2>2, <2>3 DEF IterateJobs
<1>8. CASE IterateErrors
  <2>1. /\ pc = "page" /\ ~IsBulk /\ OfErrors
        /\ UNCHANGED <<jobs, errors, changes, call, total, touched, steady>>
    BY <1>8 DEF IterateErrors, IsBulk, OfErrors, server
  <2>2. CASE YieldItem
    BY <1>0, <2>1, <2>2, YieldTyped DEF Shape
  <2>3. CASE /\ \/ (next = Unset \/ Spent(rem)) /\ Ended
                \/ /\ next # Unset /\ ~Spent(rem)
                   /\ pc' = "list" /\ from' = next
                   /\ UNCHANGED <<page, size, next, left>>
             /\ UNCHANGED <<rem, yielded>>
    <3>1. TypeOK' /\ pc' # "page"
      BY <1>0, <2>1, <2>3 DEF TypeOK, Ended
    <3>2. PageInv'
      BY <3>1 DEF PageInv
    <3> QED
      BY <1>0, <2>1, <3>1, <3>2 DEF Shape
  <2> QED
    BY <1>8, <2>2, <2>3 DEF IterateErrors
<1>9. CASE PageConsumed
  <2>1. NextPage /\ UNCHANGED <<call, rem, steady>>
    BY <1>9 DEF PageConsumed
  <2>2. /\ jobs' \in [Ids -> Queues \cup {"new", "gone"}]
        /\ touched' \in SUBSET Ids /\ total' \in Nat
        /\ UNCHANGED <<errors, changes, yielded>>
    BY <1>0, <1>9, ConsumedTyped
  <2>3. TypeOK' /\ pc' # "page"
    BY <1>0, <2>1, <2>2, NextPageTyped DEF TypeOK
  <2>4. PageInv'
    BY <2>3 DEF PageInv
  <2> QED
    BY <1>0, <2>1, <2>3, <2>4 DEF Shape
<1>10. CASE ErrorPageConsumed
  <2>1. /\ NextPage /\ yielded' = yielded \o page
        /\ UNCHANGED <<jobs, errors, changes, call, rem, total, touched, steady>>
    BY <1>10 DEF ErrorPageConsumed, server
  <2>2. yielded' \in Seq(Nat)
    BY <1>0, <2>1 DEF TypeOK
  <2>3. TypeOK' /\ pc' # "page"
    BY <1>0, <2>1, <2>2, NextPageTyped DEF TypeOK
  <2>4. PageInv'
    BY <2>3 DEF PageInv
  <2> QED
    BY <1>0, <2>1, <2>3, <2>4 DEF Shape
<1>11. CASE RequestFails
  <2>1. pc' = "failed" /\ UNCHANGED <<call, page, size, next, from, left, rem, steady>>
    BY <1>11 DEF RequestFails, cursor
  <2>2. /\ jobs' \in [Ids -> Queues \cup {"new", "gone"}]
        /\ touched' \in SUBSET Ids /\ total' \in Nat
        /\ UNCHANGED <<errors, changes, yielded>>
    <3>1. \/ UNCHANGED <<jobs, errors, changes, total, yielded, touched>>
          \/ \E w : BulkRequest(w)
      BY <1>11 DEF RequestFails, server, result
    <3> QED
      BY <1>0, <3>1, BulkTyped DEF TypeOK
  <2>3. TypeOK'
    BY <1>0, <2>1, <2>2 DEF TypeOK
  <2>4. PageInv'
    BY <2>1 DEF PageInv
  <2> QED
    BY <1>0, <2>1, <2>3, <2>4 DEF Shape
<1>12. CASE OtherEnqueues \/ OtherMoves \/ OtherDeletes
  <2>1. PICK j \in Ids, value \in Queues \cup {"gone"} : Changed(j, value)
    BY <1>12 DEF OtherEnqueues, OtherMoves, OtherDeletes
  <2>2. TypeOK'
    <3>1. /\ changes < MaxChanges /\ changes' = changes + 1 /\ steady' = steady \ {j}
          /\ jobs' = [jobs EXCEPT ![j] = value]
          /\ UNCHANGED <<errors, pc, page, size, next, from, left, rem, total, yielded, touched>>
      BY <2>1 DEF Changed, cursor, result
    <3>2. jobs' \in [Ids -> Queues \cup {"new", "gone"}]
      BY <1>0, <3>1 DEF TypeOK
    <3>3. changes' \in 0..MaxChanges
      <4>1. changes \in 0..MaxChanges /\ MaxChanges \in Nat
        BY <1>0, MaxJobsAssumption DEF TypeOK
      <4> QED
        BY <3>1, <4>1
    <3>4. steady' \subseteq Nat
      BY <1>0, <3>1 DEF TypeOK
    <3> QED
      BY <1>0, <3>1, <3>2, <3>3, <3>4 DEF TypeOK
  <2>3. PageInv' /\ call' = call
    BY <1>0, <2>1 DEF Changed, PageInv, cursor, IsBulk, OfErrors
  <2> QED
    BY <1>0, <2>2, <2>3 DEF Shape
<1>13. CASE JobFails
  <2>1. /\ errors' = errors + 1 /\ errors < MaxErrors
        /\ UNCHANGED <<jobs, changes, call, pc, page, size, next, from, left, rem, total, yielded, touched, steady>>
    BY <1>13 DEF JobFails, cursor, result
  <2>2. TypeOK'
    BY <1>0, <2>1, MaxJobsAssumption DEF TypeOK
  <2>3. PageInv'
    BY <1>0, <2>1 DEF PageInv, IsBulk, OfErrors
  <2> QED
    BY <1>0, <2>1, <2>2, <2>3 DEF Shape
<1>14. CASE UNCHANGED vars
  <2>1. UNCHANGED <<jobs, errors, changes, call, pc, page, size, next, from, left, rem, total, yielded, touched, steady>>
    BY <1>14 DEF vars, server, cursor, result
  <2> QED
    BY <1>0, <2>1 DEF Shape, TypeOK, PageInv, IsBulk, OfErrors
<1> QED
  BY <1>1, <1>2, <1>3, <1>4, <1>5, <1>6, <1>7, <1>8, <1>9, <1>10, <1>11, <1>12, <1>13, <1>14
     DEF Next, Client, UpdatePage, DeletePage, IsBulk

\* The types hold in every state a call reaches.
THEOREM CallsAreTyped == Spec => []TypeOK
<1>1. Shape => TypeOK
  BY DEF Shape
<1> QED
  BY ShapeInit, ShapeStep, <1>1, PTL DEF Spec

-----------------------------------------------------------------------------
(* The order of an iteration. *)

\* What comes after what comes after.
LEMMA OrderingTransitive ==
  ASSUME NEW order, NEW a, NEW b, NEW c,
         <<a, b>> \in Ordering(order), <<b, c>> \in Ordering(order)
  PROVE  <<a, c>> \in Ordering(order)
BY DEF Ordering

\* The page that answers a request goes on from what was yielded.
LEMMA PageFollows ==
  ASSUME Shape, OrderInv, pc = "list", pc' = "page", call' = call, yielded' = yielded,
         NEW S \in SUBSET Nat, IsFiniteSet(S), Answer(S, call.query, from)
  PROVE  OrderInv'
<1> DEFINE R == Ordering(call.query.order)
<1>1. /\ page' \in Seq(S)
      /\ \A i, k \in DOMAIN page' : i < k => <<page'[i], page'[k]>> \in R
      /\ \A i \in DOMAIN page' : from # Unset => <<from, page'[i]>> \in R
      /\ next' # Unset => /\ page' # <<>>
                          /\ \A i \in DOMAIN page' :
                               page'[i] = next' \/ <<page'[i], next'>> \in R
  BY ListTyped, AnswerCorrect
<1>2. /\ Ascends(yielded)
      /\ yielded = <<>> \/ Upto(Range(yielded), from)
  BY DEF OrderInv
<1>3. \A a, b, c : <<a, b>> \in R /\ <<b, c>> \in R => <<a, c>> \in R
  BY OrderingTransitive
<1>4. yielded = <<>> => Range(yielded) = {}
  BY DEF Range
<1> HIDE DEF R
<1>5. \A a \in Range(yielded), b \in Range(page') : <<a, b>> \in R
  BY <1>1, <1>2, <1>3, <1>4 DEF Range, Upto, R
<1>6. \A b \in Range(page') : next' # Unset => b = next' \/ <<b, next'>> \in R
  BY <1>1 DEF Range
<1>7. next' # Unset => \A a \in Range(yielded) : <<a, next'>> \in R
  <2> SUFFICES ASSUME next' # Unset, NEW a \in Range(yielded)
               PROVE  <<a, next'>> \in R
    OBVIOUS
  <2>1. PICK b \in Range(page') : TRUE
    BY <1>1, TailRange
  <2> QED
    BY <1>3, <1>5, <1>6, <2>1
<1>8. Ascends(page)' /\ Ascends(yielded)' /\ Follow(yielded, page)'
  BY <1>1, <1>2, <1>5 DEF Ascends, Follow, R
<1>9. next' = Unset \/ Upto(Range(yielded) \cup Range(page), next)'
  BY <1>6, <1>7 DEF Upto, R
<1> QED
  BY <1>8, <1>9 DEF OrderInv

\* An item that is taken goes from the head of the page to the end of the list.
LEMMA YieldFollows ==
  ASSUME Shape, OrderInv, pc = "page", YieldItem, call' = call
  PROVE  OrderInv'
<1>1. page # <<>> /\ page \in Seq(Nat) /\ yielded \in Seq(Nat)
  BY DEF YieldItem, Shape, TypeOK
<1>2. /\ Ascends(yielded) /\ Ascends(page) /\ Follow(yielded, page)
      /\ next = Unset \/ Upto(Range(yielded) \cup Range(page), next)
  BY DEF OrderInv
<1>3. CASE Spent(rem) /\ Ended /\ UNCHANGED <<rem, yielded>>
  BY <1>2, <1>3 DEF Ended, OrderInv, Ascends
<1>4. CASE /\ yielded' = Append(yielded, Head(page)) /\ page' = Tail(page)
           /\ pc' \in {"done", "page"} /\ next' = next
  <2> DEFINE R == Ordering(call.query.order)
             x == Head(page)
             t == Tail(page)
             y == Append(yielded, x)
  <2>1. /\ x = page[1]
        /\ DOMAIN t = 1..Len(page) - 1
        /\ \A i \in 1..Len(page) - 1 : t[i] = page[i + 1]
        /\ DOMAIN page = 1..Len(page) /\ Len(page) \in Nat \ {0}
    BY <1>1
  <2>2. /\ DOMAIN y = 1..Len(yielded) + 1 /\ y[Len(yielded) + 1] = x
        /\ \A i \in 1..Len(yielded) : y[i] = yielded[i]
        /\ DOMAIN yielded = 1..Len(yielded) /\ Len(yielded) \in Nat
    BY <1>1
  <2>3. /\ Range(t) \subseteq Range(page) /\ x \in Range(page)
    BY <1>1, TailRange
  <2> HIDE DEF x, t, y
  <2>4. \A i \in DOMAIN t : i + 1 \in DOMAIN page /\ 1 < i + 1 /\ i \in Int
    BY <2>1
  <2>5. \A i \in DOMAIN t : <<x, t[i]>> \in R
    <3>1. 1 \in DOMAIN page
      BY <2>1
    <3> QED
      BY <1>2, <2>1, <2>4, <3>1 DEF Ascends
  <2>6. \A i, k \in DOMAIN t : i < k => <<t[i], t[k]>> \in R
    <3>1. \A i, k \in DOMAIN t : i < k => i + 1 < k + 1
      BY <2>4
    <3> QED
      BY <1>2, <2>1, <2>4, <3>1 DEF Ascends
  <2>7. \A i \in DOMAIN y : i \in DOMAIN yielded \/ (i = Len(yielded) + 1 /\ \A k \in DOMAIN y : ~(i < k))
    BY <2>2
  <2>8. Range(y) \subseteq Range(yielded) \cup {x}
    BY <2>2, <2>7 DEF Range
  <2>9. \A i, k \in DOMAIN y : i < k => <<y[i], y[k]>> \in R
    <3> SUFFICES ASSUME NEW i \in DOMAIN y, NEW k \in DOMAIN y, i < k
                 PROVE  <<y[i], y[k]>> \in R
      OBVIOUS
    <3>1. i \in DOMAIN yielded /\ y[i] = yielded[i] /\ yielded[i] \in Range(yielded)
      BY <2>2, <2>7 DEF Range
    <3>2. CASE k \in DOMAIN yielded
      BY <1>2, <2>2, <3>1, <3>2 DEF Ascends
    <3>3. CASE k = Len(yielded) + 1
      BY <1>2, <2>2, <2>3, <3>1, <3>3 DEF Follow
    <3> QED
      BY <2>7, <3>2, <3>3
  <2>10. \A a \in Range(y), b \in Range(t) : <<a, b>> \in R
    BY <1>2, <2>3, <2>5, <2>8 DEF Follow, Range
  <2>11. yielded' = y /\ page' = t
    BY <1>4 DEF x, y, t
  <2>12. Ascends(yielded)' /\ Ascends(page)' /\ Follow(yielded, page)'
    BY <2>6, <2>9, <2>10, <2>11 DEF Ascends, Follow
  <2>13. next' = Unset \/ Upto(Range(yielded) \cup Range(page), next)'
    BY <1>2, <1>4, <2>3, <2>8, <2>11 DEF Upto
  <2> QED
    BY <1>4, <2>12, <2>13 DEF OrderInv
<1> QED
  BY <1>3, <1>4 DEF YieldItem

\* A consumer of pages takes a whole page.
LEMMA ConcatFollows ==
  ASSUME Shape, Ascends(yielded), Ascends(page), Follow(yielded, page), call' = call,
         yielded' = yielded \o page
  PROVE  Ascends(yielded)' /\ Range(yielded') = Range(yielded) \cup Range(page)
<1> DEFINE m == Len(yielded)
           n == Len(page)
           y == yielded \o page
<1>1. page \in Seq(Nat) /\ yielded \in Seq(Nat)
  BY DEF Shape, TypeOK
<1>2. /\ m \in Nat /\ n \in Nat /\ DOMAIN y = 1..m + n
      /\ DOMAIN yielded = 1..m /\ DOMAIN page = 1..n
      /\ \A i \in 1..m + n : y[i] = IF i <= m THEN yielded[i] ELSE page[i - m]
  BY <1>1
<1>3. Range(y) = Range(yielded) \cup Range(page)
  BY <1>1, RangeConcatenation
<1> HIDE DEF m, n, y
<1>4. \A i \in DOMAIN y : \/ i <= m /\ i \in DOMAIN yielded /\ y[i] = yielded[i]
                          \/ ~(i <= m) /\ i - m \in DOMAIN page /\ y[i] = page[i - m]
  BY <1>2
<1>5. ASSUME NEW i \in DOMAIN y, NEW k \in DOMAIN y, i < k
      PROVE  <<y[i], y[k]>> \in Ordering(call.query.order)
  <2>1. i \in Int /\ k \in Int /\ m \in Int
    BY <1>2
  <2>2. CASE i <= m /\ k <= m
    BY <1>4, <1>5, <2>2 DEF Ascends
  <2>3. CASE i <= m /\ ~(k <= m)
    BY <1>4, <2>3 DEF Follow, Range
  <2>4. CASE ~(i <= m) /\ ~(k <= m)
    <3>1. i - m < k - m
      BY <1>5, <2>1
    <3> QED
      BY <1>4, <2>4, <3>1 DEF Ascends
  <2>5. i <= m \/ ~(k <= m)
    BY <1>5, <2>1
  <2> QED
    BY <2>2, <2>3, <2>4, <2>5
<1> QED
  BY <1>3, <1>5 DEF Ascends, y

\* One step preserves OrderInv.
LEMMA OrderStep == Shape /\ OrderInv /\ [Next]_vars => OrderInv'
<1> SUFFICES ASSUME Shape, OrderInv, [Next]_vars
             PROVE  OrderInv'
  OBVIOUS
<1>0. /\ TypeOK /\ Ascends(yielded)
      /\ pc = "start" => yielded = <<>>
      /\ pc = "list" => yielded = <<>> \/ Upto(Range(yielded), from)
      /\ pc = "page" => /\ Ascends(page)
                        /\ Follow(yielded, page)
                        /\ next = Unset \/ Upto(Range(yielded) \cup Range(page), next)
  BY DEF Shape, OrderInv
\* Steps that end the call, and steps to the next page.
<1>1. ASSUME pc' \in {"done", "failed"}, call' = call, yielded' = yielded
      PROVE  OrderInv'
  BY <1>0, <1>1 DEF OrderInv, Ascends
<1>2. ASSUME pc = "page", pc' \in {"done", "list"}, pc' = "list" => from' = next /\ next # Unset,
             call' = call, yielded' = yielded
      PROVE  OrderInv'
  BY <1>0, <1>2 DEF OrderInv, Ascends, Upto
<1>3. ASSUME pc = "page", NextPage, call' = call, yielded' = yielded
      PROVE  OrderInv'
  BY <1>0, <1>2, <1>3, NextPageTyped
<1>4. CASE Start
  <2>1. pc' \in {"list", "whole"} /\ yielded' = <<>>
    BY <1>0, <1>4 DEF Start, result
  <2> QED
    BY <2>1 DEF OrderInv, Ascends
<1>5. CASE ListJobs
  <2>1. pc = "list" /\ pc' = "page" /\ call' = call /\ yielded' = yielded
    BY <1>5 DEF ListJobs, result
  <2>2. CASE page' = <<>> /\ size' = 0 /\ next' = Unset
    BY <1>0, <2>1, <2>2 DEF OrderInv, Ascends, Follow, Range
  <2>3. CASE Answer(Selected(toWhere(call.query)), call.query, from)
    BY <2>1, <2>3, ListTyped, PageFollows
  <2> QED
    BY <1>5, <2>2, <2>3 DEF ListJobs
<1>6. CASE ListErrors
  <2>1. /\ pc = "list" /\ pc' = "page" /\ call' = call /\ yielded' = yielded
        /\ Answer(1..errors, call.query, from)
    BY <1>6 DEF ListErrors, result
  <2> QED
    BY <2>1, ListTyped, PageFollows
<1>7. CASE WholeBulk \/ Count \/ RequestFails
  <2>1. pc' \in {"done", "failed"} /\ call' = call
    BY <1>7 DEF WholeBulk, Count, RequestFails, Ended
  <2>2. yielded' = yielded
    BY <1>7 DEF WholeBulk, Count, RequestFails, BulkRequest, deleteAllJobs, updateAllJobs, Change, result
  <2> QED
    BY <1>1, <2>1, <2>2
<1>8. CASE PageBulk
  <2>1. pc = "page" /\ call' = call /\ (Ended \/ NextPage)
    BY <1>8 DEF PageBulk, SkipPage
  <2>2. yielded' = yielded
    BY <1>8 DEF PageBulk, BulkRequest, deleteAllJobs, updateAllJobs, Change, result
  <2> QED
    BY <1>1, <1>3, <2>1, <2>2 DEF Ended
<1>9. CASE IterateJobs
  <2>1. pc = "page" /\ call' = call
    BY <1>9 DEF IterateJobs
  <2>2. CASE YieldItem
    BY <2>1, <2>2, YieldFollows
  <2>3. CASE yielded' = yielded /\ (Ended \/ NextPage)
    BY <1>1, <1>3, <2>1, <2>3 DEF Ended
  <2> QED
    BY <1>9, <2>2, <2>3 DEF IterateJobs
<1>10. CASE IterateErrors
  <2>1. pc = "page" /\ call' = call
    BY <1>10 DEF IterateErrors
  <2>2. CASE YieldItem
    BY <2>1, <2>2, YieldFollows
  <2>3. CASE yielded' = yielded /\ (Ended \/ (next # Unset /\ pc' = "list" /\ from' = next))
    BY <1>1, <1>2, <2>1, <2>3 DEF Ended
  <2> QED
    BY <1>10, <2>2, <2>3 DEF IterateErrors
<1>11. CASE PageConsumed
  <2>1. pc = "page" /\ call' = call /\ NextPage
    BY <1>11 DEF PageConsumed
  <2>2. yielded' = yielded
    BY <1>11 DEF PageConsumed, deleteAllJobs, updateAllJobs, Change
  <2> QED
    BY <1>3, <2>1, <2>2
<1>12. CASE ErrorPageConsumed
  <2>1. pc = "page" /\ call' = call /\ NextPage /\ yielded' = yielded \o page
    BY <1>12 DEF ErrorPageConsumed
  <2>2. Ascends(yielded)' /\ Range(yielded') = Range(yielded) \cup Range(page)
    BY <1>0, <2>1, ConcatFollows
  <2>3. pc' \in {"done", "list"} /\ (pc' = "list" => from' = next /\ next # Unset)
    BY <1>0, <2>1, NextPageTyped
  <2>4. pc' = "list" => Upto(Range(yielded), from)'
    BY <1>0, <2>1, <2>2, <2>3 DEF Upto
  <2> QED
    BY <2>2, <2>3, <2>4 DEF OrderInv
<1>13. CASE OtherEnqueues \/ OtherMoves \/ OtherDeletes \/ JobFails \/ UNCHANGED vars
  <2>1. UNCHANGED <<call, pc, page, next, from, yielded>>
    BY <1>13 DEF OtherEnqueues, OtherMoves, OtherDeletes, Changed, JobFails, vars, cursor, result
  <2> QED
    BY <1>0, <2>1 DEF OrderInv, Ascends, Follow, Upto
<1> QED
  BY <1>4, <1>5, <1>6, <1>7, <1>8, <1>9, <1>10, <1>11, <1>12, <1>13
     DEF Next, Client, UpdatePage, DeletePage

\* An iteration yields in order and nothing twice, whatever other clients do
\* between its pages.
THEOREM IterationsAreInOrder == Spec => []InOrderOnce
<1>1. Init => OrderInv
  BY DEF Init, OrderInv, Ascends
<1>2. Shape /\ OrderInv => InOrderOnce
  <2> SUFFICES ASSUME Shape, OrderInv, NEW i \in 1..Len(yielded) - 1
               PROVE  IF call.query.order = "asc" THEN yielded[i] < yielded[i + 1]
                                                  ELSE yielded[i] > yielded[i + 1]
    BY DEF InOrderOnce
  <2>1. yielded \in Seq(Nat) /\ Ascends(yielded)
    BY DEF Shape, TypeOK, OrderInv
  <2>2. i \in DOMAIN yielded /\ i + 1 \in DOMAIN yielded /\ i < i + 1
    BY <2>1
  <2>3. <<yielded[i], yielded[i + 1]>> \in Ordering(call.query.order)
    BY <2>1, <2>2 DEF Ascends
  <2> QED
    BY <2>3 DEF Ordering
<1> QED
  BY ShapeInit, ShapeStep, OrderStep, <1>1, <1>2, PTL DEF Spec

-----------------------------------------------------------------------------
(* The limit of a query. *)

\* The jobs a bulk request changes, counted.
LEMMA TouchedCounted ==
  ASSUME TypeOK, Cardinality(touched) <= total,
         NEW S \in SUBSET Ids, IsFiniteSet(S), touched' = touched \cup S,
         total' = total + Cardinality(S)
  PROVE  Cardinality(touched') <= total' /\ total' \in Nat /\ Cardinality(S) \in Nat
<1>1. IsFiniteSet(Ids)
  BY MaxJobsAssumption, FS_Interval DEF Ids
<1>2. IsFiniteSet(touched) /\ touched \in SUBSET Ids /\ total \in Nat
  BY <1>1, FS_Subset DEF TypeOK
<1>3. PICK T : T = touched
  OBVIOUS
<1>4. Cardinality(T \cup S) = Cardinality(T) + Cardinality(S) - Cardinality(T \cap S)
  BY <1>2, <1>3, FS_Union
<1>5. IsFiniteSet(T \cap S)
  BY <1>2, <1>3, FS_Subset
<1>6. Cardinality(T) \in Nat /\ Cardinality(S) \in Nat /\ Cardinality(T \cap S) \in Nat
  BY <1>2, <1>3, <1>5, FS_CardinalityType
<1>7. touched' = T \cup S
  BY <1>3
<1>8. Cardinality(touched') = Cardinality(T) + Cardinality(S) - Cardinality(T \cap S)
  BY <1>4, <1>7
<1>9. Cardinality(T) <= total /\ total \in Nat
  BY <1>2, <1>3
<1> QED
  BY <1>6, <1>8, <1>9

\* A bulk request for the ids of a page changes at most as many jobs.
LEMMA PageBounded ==
  ASSUME Shape, pc = "page", IsBulk, ~Spent(rem), BulkRequest(PageScope(PageIds))
  PROVE  \E S \in SUBSET Ids :
           /\ IsFiniteSet(S) /\ Cardinality(S) \in Nat /\ Cardinality(S) <= Len(PageIds)
           /\ S \subseteq Range(page)
           /\ touched' = touched \cup S /\ total' = total + Cardinality(S)
           /\ yielded' = yielded
<1> DEFINE w == PageScope(PageIds)
           D == Range(PageIds)
<1>1. w.id = D
  <2>1. call.query \in Queries
    BY DEF Shape, IsCall
  <2> QED
    BY <2>1 DEF PageScope, byId, Queries
<1>2. TypeOK /\ IsCall(call)
  BY DEF Shape
<1>3. /\ IsFiniteSet(D) /\ Cardinality(D) <= Len(PageIds) /\ D \in SUBSET Ids
      /\ D \subseteq Range(page) /\ Len(PageIds) \in Nat
  BY PageIdsTyped
<1> HIDE DEF w, D
<1>4. PICK S \in SUBSET Ids :
        /\ S = IF IsEmptyFilter(w) THEN {} ELSE Selected(w)
        /\ IsFiniteSet(S) /\ Cardinality(S) \in Nat
        /\ touched' = touched \cup S
        /\ total' = total + Cardinality(S)
        /\ yielded' = yielded
  BY <1>2, BulkTyped DEF w
<1>5. S \subseteq D
  <2>1. IsEmptyFilter(w) \/ D # {}
    BY <1>1 DEF IsEmptyFilter
  <2>2. D # Unset
    BY <1>3, UnsetAssumption
  <2> QED
    BY <1>1, <1>4, <2>1, <2>2 DEF Selected
<1>6. Cardinality(S) <= Cardinality(D) /\ Cardinality(D) \in Nat
  BY <1>3, <1>5, FS_Subset, FS_CardinalityType
<1> QED
  BY <1>3, <1>4, <1>5, <1>6

\* One step preserves LimitInv.
LEMMA LimitStep == Shape /\ LimitInv /\ [Next]_vars => LimitInv'
<1> SUFFICES ASSUME Shape, LimitInv, [Next]_vars
             PROVE  LimitInv'
  OBVIOUS
<1> DEFINE most == call.query.limit
           Bounded == most # Unset /\ call.op \notin {"pages", "errorPages"}
<1>0. /\ TypeOK /\ Cardinality(touched) <= total
      /\ total \in Nat /\ Len(yielded) \in Nat /\ most \in Nat \cup {Unset}
      /\ pc \in {"start", "whole"} => total = 0 /\ touched = {} /\ yielded = <<>>
      /\ pc = "whole" => IsBulk \/ call.op = "count"
      /\ pc = "whole" /\ IsBulk => most = Unset
      /\ Bounded =>
           /\ pc \in {"list", "page"} => rem \in Nat /\ Len(yielded) + total + rem <= most
           /\ pc \in {"done", "failed"} => Len(yielded) <= most /\ total <= most
  BY DEF LimitInv, Shape, TypeOK, IsCall, Queries
<1>1. call' = call => most' = most /\ (Bounded' <=> Bounded) /\ (IsBulk' <=> IsBulk)
  BY DEF IsBulk
<1>2. most # Unset => most \in Nat
  BY <1>0
\* Steps that leave what was returned alone: on with the call, or its end.
<1>3. ASSUME call' = call, touched' = touched, total' = total, yielded' = yielded,
             rem' = rem, pc \in {"list", "page"}, pc' \in {"list", "page"}
      PROVE  LimitInv'
  BY <1>0, <1>1, <1>3 DEF LimitInv
<1>4. ASSUME call' = call, touched' = touched, total' = total, yielded' = yielded,
             pc \in {"list", "page", "whole"}, pc' \in {"done", "failed"}
      PROVE  LimitInv'
  <2>1. Bounded => Len(yielded) <= most /\ total <= most
    <3>1. CASE pc = "whole"
      BY <1>0, <1>2, <3>1
    <3>2. CASE pc \in {"list", "page"}
      BY <1>0, <1>2, <3>2
    <3> QED
      BY <1>4, <3>1, <3>2
  <2> QED
    BY <1>0, <1>1, <1>4, <2>1 DEF LimitInv
<1>5. CASE Start
  <2>1. /\ pc = "start" /\ pc' \in {"list", "whole"}
        /\ pc' = "whole" => call.op = "count" \/ (IsBulk /\ Effective(call).limit = Unset)
        /\ call' = [call EXCEPT !.query = Effective(call)]
        /\ rem' = Effective(call).limit
        /\ total' = total /\ touched' = touched /\ yielded' = yielded
    BY <1>5 DEF Start, result, Unbounded
  <2>2. IsCall(call) /\ IsCall(call')
    BY <2>1, EffectiveTyped DEF Shape
  <2>3. call'.op = call.op /\ call'.query = Effective(call)
    BY <2>1, <2>2 DEF IsCall
  <2>4. most' = Effective(call).limit /\ most' \in Nat \cup {Unset} /\ (IsBulk' <=> IsBulk)
    BY <2>2, <2>3 DEF IsCall, Queries, IsBulk
  <2>5. total' = 0 /\ touched' = {} /\ yielded' = <<>> /\ Len(yielded') = 0 /\ Cardinality(touched') <= total'
    BY <1>0, <2>1
  <2>6. most' # Unset => rem' \in Nat /\ Len(yielded') + total' + rem' <= most'
    BY <2>1, <2>4, <2>5
  <2>7. pc' = "whole" => (IsBulk' => most' = Unset) /\ (IsBulk' \/ call'.op = "count")
    BY <2>1, <2>3, <2>4 DEF IsBulk
  <2> QED
    BY <2>1, <2>5, <2>6, <2>7 DEF LimitInv
<1>6. CASE ListJobs \/ ListErrors
  <2>1. /\ pc = "list" /\ pc' = "page" /\ call' = call /\ touched' = touched
        /\ total' = total /\ yielded' = yielded /\ rem' = rem
    BY <1>6 DEF ListJobs, ListErrors, result
  <2> QED
    BY <1>3, <2>1
<1>7. CASE WholeBulk
  <2>1. pc = "whole" /\ pc' = "done" /\ call' = call /\ BulkRequest(toWhere(call.query))
    BY <1>7 DEF WholeBulk, Ended
  <2>2. IsBulk
    BY <2>1 DEF BulkRequest, IsBulk
  <2>3. PICK S \in SUBSET Ids : /\ IsFiniteSet(S) /\ touched' = touched \cup S
                                /\ total' = total + Cardinality(S)
    BY <1>0, <2>1, BulkTyped DEF Shape
  <2>4. Cardinality(touched') <= total'
    BY <1>0, <2>3, TouchedCounted
  <2> QED
    BY <1>0, <1>1, <2>1, <2>2, <2>4 DEF LimitInv
<1>8. CASE Count
  <2>1. pc = "whole" /\ pc' = "done" /\ call' = call /\ touched' = touched /\ yielded' = yielded
    BY <1>8 DEF Count, Ended
  <2>2. total' \in Nat /\ (most # Unset => total' <= most)
    BY <1>8, CountTyped DEF Shape
  <2>3. Cardinality(touched') <= total'
    <3>1. touched' = {} /\ Cardinality({}) = 0
      BY <1>0, <2>1, FS_EmptySet
    <3> QED
      BY <2>2, <3>1
  <2>4. Len(yielded') = 0
    BY <1>0, <2>1
  <2> QED
    BY <1>1, <1>2, <2>1, <2>2, <2>3, <2>4 DEF LimitInv
<1>9. CASE PageBulk /\ IsBulk
  <2>1. pc = "page" /\ call' = call
    BY <1>9 DEF PageBulk
  <2>2. CASE Spent(rem) /\ Ended /\ UNCHANGED <<server, rem, result>>
    BY <1>4, <2>1, <2>2 DEF Ended, result
  <2>3. CASE ~Spent(rem) /\ SkipPage /\ UNCHANGED <<server, rem, result>>
    <3>1. pc' \in {"done", "list"}
      BY <1>0, <2>3, NextPageTyped DEF SkipPage
    <3> QED
      BY <1>3, <1>4, <2>1, <2>3, <3>1 DEF result
  <2>4. CASE /\ ~Spent(rem) /\ PageIds # <<>>
             /\ BulkRequest(PageScope(PageIds))
             /\ rem' = Less(rem, Len(PageIds))
             /\ IF Spent(rem') THEN Ended ELSE NextPage
    <3>1. pc' \in {"done", "list"}
      BY <1>0, <2>4, NextPageTyped DEF Ended
    <3>2. PICK S \in SUBSET Ids :
            /\ IsFiniteSet(S) /\ Cardinality(S) \in Nat /\ Cardinality(S) <= Len(PageIds)
            /\ touched' = touched \cup S /\ total' = total + Cardinality(S)
            /\ yielded' = yielded
      BY <1>9, <2>1, <2>4, PageBounded
    <3>3. Cardinality(touched') <= total'
      BY <1>0, <3>2, TouchedCounted
    <3>4. Bounded => /\ rem' \in Nat /\ Len(yielded') + total' + rem' <= most
      <4>1. Len(PageIds) \in Nat /\ (rem # Unset => Len(PageIds) <= rem)
        BY <1>9, <2>1, <2>4, PageIdsTyped
      <4>2. Bounded => rem \in Nat /\ rem # Unset /\ Len(yielded) + total + rem <= most
        BY <1>0, <2>1, UnsetAssumption
      <4>3. Bounded => rem' = rem - Len(PageIds)
        BY <2>4, <4>2 DEF Less
      <4> QED
        BY <1>0, <1>2, <3>2, <4>1, <4>2, <4>3
    <3>5. Bounded => Len(yielded') <= most /\ total' <= most
      BY <1>0, <1>2, <3>2, <3>4
    <3> QED
      BY <1>1, <2>1, <3>1, <3>3, <3>4, <3>5 DEF LimitInv
  <2> QED
    BY <1>9, <2>2, <2>3, <2>4 DEF PageBulk
<1>10. ASSUME pc = "page", call' = call, touched' = touched, total' = total, YieldItem
       PROVE  LimitInv'
  <2>1. CASE Spent(rem) /\ Ended /\ UNCHANGED <<rem, yielded>>
    BY <1>4, <1>10, <2>1 DEF Ended
  <2>2. CASE /\ ~Spent(rem) /\ yielded' = Append(yielded, Head(page))
             /\ rem' = Less(rem, 1) /\ pc' \in {"done", "page"}
    <3>1. Len(yielded') = Len(yielded) + 1
      BY <1>0, <2>2 DEF TypeOK
    <3>2. Bounded => /\ rem' \in Nat /\ Len(yielded') + total' + rem' <= most
      <4>1. Bounded => rem \in Nat /\ rem # Unset /\ Len(yielded) + total + rem <= most
        BY <1>0, <1>10, UnsetAssumption
      <4>2. Bounded => rem' = rem - 1 /\ rem > 0
        BY <2>2, <4>1 DEF Less, Spent
      <4> QED
        BY <1>0, <1>2, <1>10, <3>1, <4>1, <4>2
    <3>3. Bounded => Len(yielded') <= most /\ total' <= most
      BY <1>0, <1>2, <1>10, <3>1, <3>2
    <3> QED
      BY <1>0, <1>1, <1>10, <2>2, <3>2, <3>3 DEF LimitInv
  <2> QED
    BY <1>10, <2>1, <2>2 DEF YieldItem
<1>11. CASE IterateJobs
  <2>1. pc = "page" /\ call' = call /\ touched' = touched /\ total' = total
    BY <1>11 DEF IterateJobs
  <2>2. CASE yielded' = yielded /\ rem' = rem /\ (Ended \/ NextPage)
    <3>1. pc' \in {"done", "list"}
      BY <1>0, <2>2, NextPageTyped DEF Ended
    <3> QED
      BY <1>3, <1>4, <2>1, <2>2, <3>1
  <2> QED
    BY <1>10, <1>11, <2>1, <2>2 DEF IterateJobs
<1>12. CASE IterateErrors
  <2>1. pc = "page" /\ call' = call /\ touched' = touched /\ total' = total
    BY <1>12 DEF IterateErrors
  <2>2. CASE yielded' = yielded /\ rem' = rem /\ pc' \in {"done", "list"}
    BY <1>3, <1>4, <2>1, <2>2
  <2> QED
    BY <1>10, <1>12, <2>1, <2>2 DEF IterateErrors, Ended
<1>13. CASE PageConsumed
  <2>1. call' = call /\ call.op = "pages" /\ NextPage
    BY <1>13 DEF PageConsumed
  <2>2. PICK S \in SUBSET Ids : /\ IsFiniteSet(S) /\ touched' = touched \cup S
                                /\ total' = total + Cardinality(S)
    BY <1>13, ConsumedTyped DEF Shape
  <2>3. Cardinality(touched') <= total'
    BY <1>0, <2>2, TouchedCounted
  <2>4. pc' \in {"done", "list"}
    BY <1>0, <2>1, NextPageTyped
  <2> QED
    BY <1>1, <2>1, <2>3, <2>4 DEF LimitInv
<1>14. CASE ErrorPageConsumed
  <2>1. call' = call /\ call.op = "errorPages" /\ touched' = touched /\ total' = total /\ NextPage
    BY <1>14 DEF ErrorPageConsumed
  <2>2. pc' \in {"done", "list"}
    BY <1>0, <2>1, NextPageTyped
  <2> QED
    BY <1>0, <1>1, <2>1, <2>2 DEF LimitInv
<1>15. CASE RequestFails
  <2>1. /\ pc' = "failed" /\ call' = call
        /\ pc \in {"list", "whole"} \/ (pc = "page" /\ IsBulk /\ ~Spent(rem))
    BY <1>15 DEF RequestFails
  <2>2. CASE UNCHANGED <<server, result>>
    BY <1>4, <2>1, <2>2 DEF result
  <2>3. CASE pc = "whole" /\ BulkRequest(toWhere(call.query))
    <3>1. PICK S \in SUBSET Ids : /\ IsFiniteSet(S) /\ touched' = touched \cup S
                                  /\ total' = total + Cardinality(S)
      BY <1>0, <2>3, BulkTyped DEF Shape
    <3>2. Cardinality(touched') <= total'
      BY <1>0, <3>1, TouchedCounted
    <3>3. IsBulk
      BY <2>3 DEF BulkRequest, IsBulk
    <3> QED
      BY <1>0, <1>1, <2>1, <2>3, <3>2, <3>3 DEF LimitInv
  <2>4. CASE pc = "page" /\ BulkRequest(PageScope(PageIds))
    <3>1. IsBulk /\ ~Spent(rem)
      BY <2>1, <2>4
    <3>2. PICK S \in SUBSET Ids :
            /\ IsFiniteSet(S) /\ Cardinality(S) \in Nat /\ Cardinality(S) <= Len(PageIds)
            /\ touched' = touched \cup S /\ total' = total + Cardinality(S)
            /\ yielded' = yielded
      BY <2>4, <3>1, PageBounded
    <3>3. Cardinality(touched') <= total'
      BY <1>0, <3>2, TouchedCounted
    <3>4. Bounded => Len(yielded') <= most /\ total' <= most
      <4>1. Len(PageIds) \in Nat /\ (rem # Unset => Len(PageIds) <= rem)
        BY <2>4, <3>1, PageIdsTyped
      <4>2. Bounded => rem \in Nat /\ rem # Unset /\ Len(yielded) + total + rem <= most
        BY <1>0, <2>4, UnsetAssumption
      <4> QED
        BY <1>0, <1>2, <3>2, <4>1, <4>2
    <3> QED
      BY <1>1, <2>1, <3>3, <3>4 DEF LimitInv
  <2> QED
    BY <1>15, <2>2, <2>3, <2>4 DEF RequestFails
<1>16. CASE OtherEnqueues \/ OtherMoves \/ OtherDeletes \/ JobFails \/ UNCHANGED vars
  <2>1. UNCHANGED <<call, pc, rem, total, yielded, touched>>
    BY <1>16 DEF OtherEnqueues, OtherMoves, OtherDeletes, Changed, JobFails, vars, cursor, result
  <2> QED
    BY <1>0, <1>1, <2>1 DEF LimitInv
<1> QED
  BY <1>5, <1>6, <1>7, <1>8, <1>9, <1>11, <1>12, <1>13, <1>14, <1>15, <1>16
     DEF Next, Client, UpdatePage, DeletePage, IsBulk

\* A limit holds over all pages, for jobs yielded, changed and counted, whatever
\* changes in between and whether requests fail or not.
THEOREM LimitsHold == Spec => []WithinLimit
<1>1. Init => LimitInv
  <2> SUFFICES ASSUME Init
               PROVE  LimitInv
    OBVIOUS
  <2>1. pc = "start" /\ total = 0 /\ yielded = <<>> /\ touched = {} /\ Cardinality({}) = 0
    BY FS_EmptySet DEF Init
  <2> QED
    BY <2>1 DEF LimitInv
<1>2. Shape /\ LimitInv => WithinLimit
  <2> SUFFICES ASSUME Shape, LimitInv, pc # "start", call.query.limit # Unset,
                      call.op \notin {"pages", "errorPages"}
               PROVE  \A n \in {Len(yielded), Cardinality(touched), total} : n <= call.query.limit
    BY DEF WithinLimit
  <2>1. /\ total \in Nat /\ Len(yielded) \in Nat /\ call.query.limit \in Nat
        /\ pc \in {"list", "whole", "page", "done", "failed"}
    BY DEF Shape, TypeOK, IsCall, Queries
  <2>2. Cardinality(touched) \in Nat
    <3>1. IsFiniteSet(Ids)
      BY MaxJobsAssumption, FS_Interval DEF Ids
    <3>2. touched \in SUBSET Ids
      BY DEF Shape, TypeOK
    <3> QED
      BY <3>1, <3>2, FS_Subset, FS_CardinalityType
  <2>3. Cardinality(touched) <= total
    BY DEF LimitInv
  <2>4. total <= call.query.limit /\ Len(yielded) <= call.query.limit
    <3>1. CASE pc = "whole"
      <4>1. total = 0 /\ Len(yielded) = 0
        BY <3>1 DEF LimitInv
      <4> QED
        BY <2>1, <4>1
    <3>2. CASE pc \in {"list", "page"}
      <4>1. rem \in Nat /\ Len(yielded) + total + rem <= call.query.limit
        BY <3>2 DEF LimitInv
      <4> QED
        BY <2>1, <4>1
    <3>3. CASE pc \in {"done", "failed"}
      BY <3>3 DEF LimitInv
    <3> QED
      BY <2>1, <3>1, <3>2, <3>3
  <2>5. Cardinality(touched) <= call.query.limit
    BY <2>1, <2>2, <2>3, <2>4
  <2> QED
    BY <2>4, <2>5
<1> QED
  BY ShapeInit, ShapeStep, LimitStep, <1>1, <1>2, PTL DEF Spec

-----------------------------------------------------------------------------
(* What a bulk call changes. *)

\* The jobs a request selects are those its caller means, when its filters are
\* the query's, or the query's and the ids of a page.
LEMMA SelectedMatches ==
  ASSUME IsCall(call), Agrees(call.query), NEW w, ~IsEmptyFilter(w),
         w.queue = call.query.queue, w.priority = call.query.priority, w.jq = call.query.jq,
         NEW j \in Selected(w), call.query.id = Unset \/ j \in call.query.id
  PROVE  Matches(call.query, j)
<1> DEFINE q == call.query
           p == q.priority
<1>1. /\ j \in Ids /\ jobs[j] \in Queues
      /\ q.queue = Unset \/ jobs[j] \in q.queue
      /\ q.jq = Unset \/ Satisfies(j, q.jq)
      /\ p = Unset \/ Within(Priority(j), EncodeRange(p))
  BY DEF Selected, IsEmptyFilter
<1>2. j \in q.means
  BY <1>1 DEF Agrees
<1>3. Priority(j) \in Int
  BY <1>1, MaxJobsAssumption DEF Priority, Ids
<1>4. p # Unset => (Len(p) = 1 /\ p[1] \in Int) \/ Len(p) = 2
  BY DEF IsCall
<1>5. p = Unset \/
        IF Len(p) = 1 THEN Priority(j) = p[1]
        ELSE /\ p[1] = Unset \/ Priority(j) >= p[1]
             /\ p[2] = Unset \/ Priority(j) <= p[2]
  <2> SUFFICES ASSUME p # Unset
               PROVE  IF Len(p) = 1 THEN Priority(j) = p[1]
                      ELSE /\ p[1] = Unset \/ Priority(j) >= p[1]
                           /\ p[2] = Unset \/ Priority(j) <= p[2]
    OBVIOUS
  <2>1. Within(Priority(j), EncodeRange(p))
    BY <1>1
  <2> HIDE DEF p
  <2>2. CASE Len(p) = 1
    <3>1. p[1] \in Int /\ p[1] # Unset
      BY <1>4, <2>2, UnsetAssumption
    <3>2. p[1] <= Priority(j) /\ Priority(j) <= p[1]
      BY <2>1, <2>2, <3>1 DEF Within, EncodeRange
    <3> QED
      BY <1>3, <2>2, <3>1, <3>2
  <2>3. CASE Len(p) # 1
    <3>1. /\ p[1] = Unset \/ p[1] <= Priority(j)
          /\ p[2] = Unset \/ Priority(j) <= p[2]
      BY <2>1, <2>3 DEF Within, EncodeRange
    <3> QED
      BY <2>3, <3>1
  <2> QED
    BY <2>2, <2>3
<1> QED
  BY <1>1, <1>2, <1>5 DEF Matches

\* A call with no limit sends the filters themselves.
LEMMA WholeMatches ==
  ASSUME TypeOK, IsCall(call), Agrees(call.query), BulkRequest(toWhere(call.query)),
         NEW j \in touched' \ touched
  PROVE  Matches(call.query, j)
<1> DEFINE w == toWhere(call.query)
<1>1. w.id = call.query.id /\ w.queue = call.query.queue
      /\ w.priority = call.query.priority /\ w.jq = call.query.jq
  BY DEF toWhere, IsCall, Queries
<1> HIDE DEF w
<1>2. j \in (IF IsEmptyFilter(w) THEN {} ELSE Selected(w))
  BY BulkTyped DEF w
<1>3. ~IsEmptyFilter(w) /\ j \in Selected(w)
  BY <1>2
<1>4. call.query.id = Unset \/ j \in call.query.id
  BY <1>1, <1>3 DEF Selected, IsEmptyFilter
<1> QED
  BY <1>1, <1>3, <1>4, SelectedMatches

\* A call with a limit or a page size sends the ids of a page, all of which the
\* query names, with its other filters.
LEMMA PageMatches ==
  ASSUME Shape, pc = "page", IsBulk, ~Spent(rem), Agrees(call.query),
         BulkRequest(PageScope(PageIds)), NEW j \in touched' \ touched
  PROVE  Matches(call.query, j)
<1> DEFINE w == PageScope(PageIds)
           D == Range(PageIds)
<1>1. w.id = D /\ w.queue = call.query.queue
      /\ w.priority = call.query.priority /\ w.jq = call.query.jq
  BY DEF PageScope, byId, Queries, Shape, IsCall
<1>2. TypeOK /\ IsCall(call)
  BY DEF Shape
<1>3. /\ D \subseteq {i \in Ids : call.query.id = Unset \/ i \in call.query.id}
      /\ D # Unset
  BY PageIdsTyped, UnsetAssumption
<1> HIDE DEF w, D
<1>4. j \in (IF IsEmptyFilter(w) THEN {} ELSE Selected(w))
  BY <1>2, BulkTyped DEF w
<1>5. ~IsEmptyFilter(w) /\ j \in Selected(w)
  BY <1>4
<1>6. j \in D
  BY <1>1, <1>3, <1>5 DEF Selected, IsEmptyFilter
<1> QED
  BY <1>1, <1>2, <1>3, <1>5, <1>6, SelectedMatches

\* A call's jq text goes on saying what its caller means.
LEMMA MeantStep == Shape /\ Agrees(call.query) /\ [Next]_vars => Agrees(call.query)'
<1> SUFFICES ASSUME Shape, Agrees(call.query), [Next]_vars
             PROVE  Agrees(call.query)'
  OBVIOUS
<1>1. CASE call' = call
  BY <1>1 DEF Agrees
<1>2. CASE Start
  <2>1. IsCall(call)
    BY DEF Shape
  <2>2. call'.query = Effective(call)
    BY <1>2, <2>1 DEF Start, IsCall
  <2>3. Effective(call).jq = call.query.jq /\ Effective(call).means = call.query.means
    BY <2>1, EffectiveTyped
  <2> QED
    BY <2>2, <2>3 DEF Agrees
<1>3. Start \/ call' = call
  BY DEF Next, Client, ListJobs, ListErrors, WholeBulk, Count, UpdatePage, DeletePage,
         PageBulk, IterateJobs, IterateErrors, PageConsumed, ErrorPageConsumed, RequestFails,
         OtherEnqueues, OtherMoves, OtherDeletes, Changed, JobFails, vars
<1> QED
  BY <1>1, <1>2, <1>3

\* updateAll() and deleteAll() change only jobs that match the query when they
\* are changed, for all calls whose jq text says what its caller means.
THEOREM BulkCallsChangeOnlyMatching ==
  ASSUME \A c \in Calls : Agrees(c.query)
  PROVE  Spec => OnlyMatching
<1> DEFINE Meant == Agrees(call.query)
           Only  == IsBulk => \A j \in touched' \ touched : Matches(call.query, j)
<1>1. Init => Meant
  BY DEF Init
<1>2. Shape /\ Meant /\ [Next]_vars => Meant'
  BY MeantStep
<1>3. Shape /\ Meant /\ [Next]_vars => Only
  <2> SUFFICES ASSUME Shape, Meant, [Next]_vars, IsBulk, NEW j \in touched' \ touched
               PROVE  Matches(call.query, j)
    OBVIOUS
  <2>1. TypeOK /\ IsCall(call)
    BY DEF Shape
  <2>2. CASE WholeBulk
    BY <2>1, <2>2, WholeMatches DEF WholeBulk
  <2>3. CASE PageBulk
    <3>1. pc = "page" /\ ~Spent(rem) /\ BulkRequest(PageScope(PageIds))
      BY <2>3 DEF PageBulk, result
    <3> QED
      BY <3>1, PageMatches
  <2>4. CASE RequestFails
    <3>1. \/ BulkRequest(toWhere(call.query))
          \/ pc = "page" /\ ~Spent(rem) /\ BulkRequest(PageScope(PageIds))
      BY <2>4 DEF RequestFails, result
    <3> QED
      BY <2>1, <3>1, WholeMatches, PageMatches
  <2>5. ~PageConsumed
    BY DEF PageConsumed, IsBulk
  <2>6. touched' = touched \/ WholeBulk \/ PageBulk \/ RequestFails
    BY <2>5 DEF Next, Client, Start, ListJobs, ListErrors, Count, UpdatePage, DeletePage,
           IterateJobs, IterateErrors, ErrorPageConsumed,
           OtherEnqueues, OtherMoves, OtherDeletes, Changed, JobFails, vars, result
  <2> QED
    BY <2>2, <2>3, <2>4, <2>6
<1>4. Shape /\ Meant /\ [Next]_vars => [Only]_vars
  BY <1>3
<1>5. Init => Shape /\ Meant
  BY <1>1, ShapeInit
<1>6. Shape /\ Meant /\ [Next]_vars => (Shape /\ Meant)'
  BY <1>2, ShapeStep
<1> HIDE DEF Meant
<1>7. Spec => [](Shape /\ Meant)
  BY <1>5, <1>6, PTL DEF Spec
<1>8. Spec => [][Only]_vars
  BY <1>4, <1>7, PTL DEF Spec
<1> QED
  BY <1>8 DEF OnlyMatching

-----------------------------------------------------------------------------
(* What a call reaches. *)

\* The limit of a query, and what is left of it, are the pages' and the items'.
LEMMA CountStep == Shape /\ LimitInv /\ OrderInv /\ CountInv /\ [Next]_vars => CountInv'
<1> SUFFICES ASSUME Shape, LimitInv, OrderInv, CountInv, [Next]_vars
             PROVE  CountInv'
  OBVIOUS
<1> DEFINE most == call.query.limit
           Takes == call.op \in {"iterate", "first", "last", "isEmpty"}
           Items == call.op \notin {"pages", "errorPages"} /\ ~IsBulk
<1>0. /\ TypeOK /\ IsCall(call)
      /\ Len(yielded) \in Nat /\ Len(page) \in Nat /\ size \in Nat
      /\ most \in Nat \cup {Unset} /\ Unset \notin Int
      /\ pc = "start" => call.asked = call.query.order /\ yielded = <<>>
      /\ pc # "start" /\ StopsAtFirst => most = 1
      /\ pc # "start" => ((call.query.order = call.asked) <=> call.op # "last")
  BY UnsetAssumption DEF Shape, TypeOK, IsCall, Queries, CountInv, OrderInv
<1>1. pc \in {"list", "page"} =>
        /\ most = Unset => left = Unset /\ rem = Unset
        /\ most # Unset =>
             /\ left \in Int /\ rem \in Int
             /\ Items => rem + Len(yielded) = most
             /\ call.op = "errorPages" => left + Len(yielded) = most
             /\ Takes => IF pc = "list" THEN left = rem ELSE left + Len(page) = rem + size
  BY DEF CountInv
<1>2. pc = "page" /\ call.op = "errorPages" => size = Len(page)
  BY DEF CountInv
<1>3. call' = call => /\ most' = most /\ (Takes' <=> Takes) /\ (Items' <=> Items)
                      /\ (IsBulk' <=> IsBulk) /\ (StopsAtFirst' <=> StopsAtFirst)
  BY DEF IsBulk, StopsAtFirst
\* Steps that end the call.
<1>4. ASSUME pc # "start", pc' \in {"whole", "done", "failed"}, call' = call
      PROVE  CountInv'
  BY <1>0, <1>3, <1>4 DEF CountInv
\* Steps to the next page of jobs: it counts the page that is done.
<1>5. ASSUME pc = "page", NextPage, call' = call, call.op # "errorPages", yielded' = yielded,
             most # Unset => rem' \in Int, most = Unset => rem' = Unset,
             ~IsBulk => rem' = rem, Takes => page = <<>>
      PROVE  CountInv'
  <2>1. /\ pc' \in {"done", "list"} /\ left' = Less(left, size)
    BY <1>0, <1>5, NextPageTyped DEF NextPage
  <2>2. most = Unset => left' = Unset
    BY <1>1, <1>5, <2>1 DEF Less
  <2>3. most # Unset => left' = left - size /\ left' \in Int
    BY <1>0, <1>1, <1>5, <2>1 DEF Less
  <2>4. most # Unset /\ Takes => left' = rem'
    <3>1. Takes => ~IsBulk /\ Len(page) = 0
      BY <1>5 DEF IsBulk
    <3> QED
      BY <1>0, <1>1, <1>5, <2>3, <3>1
  <2>5. CASE pc' = "done"
    BY <1>0, <1>4, <1>5, <2>5
  <2>6. CASE pc' = "list"
    <3>1. most' # Unset => /\ left' \in Int /\ rem' \in Int
                           /\ Items' => rem' + Len(yielded') = most'
                           /\ Takes' => left' = rem'
      BY <1>1, <1>3, <1>5, <2>3, <2>4
    <3>2. most' = Unset => left' = Unset /\ rem' = Unset
      BY <1>3, <1>5, <2>2
    <3> QED
      BY <1>0, <1>3, <1>5, <2>6, <3>1, <3>2 DEF CountInv
  <2> QED
    BY <2>1, <2>5, <2>6
<1>6. CASE Start
  <2>1. /\ pc = "start" /\ pc' \in {"list", "whole"}
        /\ call' = [call EXCEPT !.query = Effective(call)]
        /\ left' = Effective(call).limit /\ rem' = Effective(call).limit
        /\ yielded' = yielded
    BY <1>6 DEF Start, result
  <2>2. /\ call'.op = call.op /\ call'.asked = call.asked /\ call'.query = Effective(call)
        /\ Effective(call) \in Queries
        /\ call.op \in {"first", "isEmpty", "firstError", "last"} => Effective(call).limit = 1
        /\ (Effective(call).order = call.query.order) <=> call.op # "last"
    BY <1>0, <2>1, EffectiveTyped DEF IsCall
  <2>3. most' \in Nat \cup {Unset} /\ left' = most' /\ rem' = most'
    BY <2>1, <2>2 DEF Queries
  <2>4. Len(yielded') = 0
    BY <1>0, <2>1
  <2>5. most' # Unset => /\ left' \in Int /\ rem' \in Int /\ left' = rem'
                         /\ rem' + Len(yielded') = most' /\ left' + Len(yielded') = most'
    BY <2>3, <2>4
  <2> QED
    BY <1>0, <2>1, <2>2, <2>3, <2>5 DEF CountInv, StopsAtFirst
<1>7. CASE ListJobs \/ ListErrors
  <2>1. /\ pc = "list" /\ pc' = "page"
        /\ UNCHANGED <<call, left, rem, yielded>>
    BY <1>7 DEF ListJobs, ListErrors, result
  <2>2. size' = Len(page') /\ size' \in Nat
    <3>1. CASE page' = <<>> /\ size' = 0
      BY <3>1
    <3>2. CASE Answer(Selected(toWhere(call.query)), call.query, from)
      BY <3>2, ListTyped, AnswerCorrect
    <3>3. CASE Answer(1..errors, call.query, from)
      BY <3>3, ListTyped, AnswerCorrect
    <3> QED
      BY <1>7, <3>1, <3>2, <3>3 DEF ListJobs, ListErrors
  <2>3. most' # Unset => left' \in Int /\ rem' \in Int /\ (Takes => left' + Len(page') = rem' + size')
    BY <1>1, <2>1, <2>2
  <2> QED
    BY <1>0, <1>1, <1>3, <2>1, <2>2, <2>3 DEF CountInv
<1>8. CASE WholeBulk \/ Count \/ RequestFails
  BY <1>4, <1>8 DEF WholeBulk, Count, RequestFails, Ended
<1>9. CASE PageBulk /\ IsBulk
  <2>1. pc = "page" /\ call' = call /\ call.op # "errorPages" /\ ~Takes
    BY <1>9 DEF PageBulk, IsBulk
  <2>2. CASE Ended
    BY <1>4, <2>1, <2>2 DEF Ended
  <2>3. CASE NextPage
    <3>1. \/ rem' = rem
          \/ ~Spent(rem) /\ rem' = Less(rem, Len(PageIds))
      BY <1>9 DEF PageBulk
    <3>2. ~Spent(rem) => Len(PageIds) \in Nat
      BY <1>9, <2>1, PageIdsTyped
    <3>3. (most # Unset => rem' \in Int) /\ (most = Unset => rem' = Unset)
      BY <1>0, <1>1, <2>1, <3>1, <3>2 DEF Less
    <3>4. yielded' = yielded
      BY <1>9 DEF PageBulk, BulkRequest, deleteAllJobs, updateAllJobs, Change, result
    <3> QED
      BY <1>5, <1>9, <2>1, <2>3, <3>3, <3>4
  <2> QED
    BY <1>9, <2>2, <2>3 DEF PageBulk, SkipPage
<1>10. ASSUME pc = "page", call' = call, Items, YieldItem
       PROVE  CountInv'
  <2>1. CASE Ended
    BY <1>4, <1>10, <2>1 DEF Ended
  <2>2. CASE /\ yielded' = Append(yielded, Head(page)) /\ page' = Tail(page)
             /\ rem' = Less(rem, 1) /\ pc' \in {"done", "page"}
             /\ size' = size /\ left' = left
    <3>1. Len(yielded') = Len(yielded) + 1 /\ Len(page') = Len(page) - 1
      <4>1. page \in Seq(Nat) /\ yielded \in Seq(Nat) /\ page # <<>>
        BY <1>0, <1>10 DEF TypeOK, YieldItem
      <4> QED
        BY <2>2, <4>1
    <3>2. most' # Unset => /\ left' \in Int /\ rem' \in Int
                           /\ rem' + Len(yielded') = most'
                           /\ Takes => left' + Len(page') = rem' + size'
      BY <1>0, <1>1, <1>3, <1>10, <2>2, <3>1 DEF Less
    <3>3. most' = Unset => left' = Unset /\ rem' = Unset
      BY <1>1, <1>3, <1>10, <2>2 DEF Less
    <3> QED
      BY <1>0, <1>3, <1>10, <2>2, <3>2, <3>3 DEF CountInv
  <2> QED
    BY <1>10, <2>1, <2>2 DEF YieldItem
<1>11. CASE IterateJobs
  <2>1. pc = "page" /\ call' = call /\ Items /\ ~IsBulk /\ call.op # "errorPages"
    BY <1>11 DEF IterateJobs, IsBulk
  <2>2. CASE page = <<>> /\ NextPage /\ rem' = rem /\ yielded' = yielded
    BY <1>1, <1>5, <2>1, <2>2
  <2> QED
    BY <1>4, <1>10, <1>11, <2>1, <2>2 DEF IterateJobs, Ended
<1>12. CASE IterateErrors
  <2>1. pc = "page" /\ call' = call /\ Items /\ call.op # "errorPages" /\ ~Takes
    BY <1>12 DEF IterateErrors, IsBulk
  <2>2. CASE pc' = "list" /\ UNCHANGED <<page, size, next, left, rem, yielded>>
    BY <1>0, <1>1, <1>3, <2>1, <2>2 DEF CountInv
  <2> QED
    BY <1>4, <1>10, <1>12, <2>1, <2>2 DEF IterateErrors, Ended
<1>13. CASE PageConsumed
  <2>1. pc = "page" /\ call' = call /\ call.op = "pages" /\ NextPage /\ rem' = rem /\ ~Takes
    BY <1>13 DEF PageConsumed
  <2>2. yielded' = yielded
    BY <1>13 DEF PageConsumed, deleteAllJobs, updateAllJobs, Change
  <2> QED
    BY <1>1, <1>5, <2>1, <2>2
<1>14. CASE ErrorPageConsumed
  <2>1. /\ pc = "page" /\ call' = call /\ call.op = "errorPages" /\ NextPage /\ rem' = rem
        /\ yielded' = yielded \o page
    BY <1>14 DEF ErrorPageConsumed
  <2>2. Len(yielded') = Len(yielded) + size
    <3>1. page \in Seq(Nat) /\ yielded \in Seq(Nat)
      BY <1>0 DEF TypeOK
    <3>2. Len(yielded \o page) = Len(yielded) + Len(page)
      BY <3>1
    <3> QED
      BY <1>2, <2>1, <3>2
  <2>3. pc' \in {"done", "list"} /\ left' = Less(left, size)
    BY <1>0, <2>1, NextPageTyped DEF NextPage
  <2>4. most # Unset => left' \in Int /\ rem' \in Int /\ left' + Len(yielded') = most
    BY <1>0, <1>1, <2>1, <2>2, <2>3 DEF Less
  <2>5. most = Unset => left' = Unset /\ rem' = Unset
    BY <1>1, <2>1, <2>3 DEF Less
  <2>6. CASE pc' = "list"
    BY <1>0, <1>3, <2>1, <2>4, <2>5, <2>6 DEF CountInv
  <2> QED
    BY <1>4, <2>1, <2>3, <2>6
<1>15. CASE OtherEnqueues \/ OtherMoves \/ OtherDeletes \/ JobFails \/ UNCHANGED vars
  <2>1. UNCHANGED <<call, pc, page, size, left, rem, yielded>>
    BY <1>15 DEF OtherEnqueues, OtherMoves, OtherDeletes, Changed, JobFails, vars, cursor, result
  <2> QED
    BY <1>0, <1>1, <1>2, <1>3, <2>1 DEF CountInv
<1> QED
  BY <1>6, <1>7, <1>8, <1>9, <1>11, <1>12, <1>13, <1>14, <1>15
     DEF Next, Client, UpdatePage, DeletePage, IsBulk

\* The jobs a request changes, that no earlier request changed, are counted once.
LEMMA CountedOnce ==
  ASSUME TypeOK, total = Cardinality(touched), NEW S \in SUBSET Ids,
         \A j \in touched : j \notin S,
         touched' = touched \cup S, total' = total + Cardinality(S)
  PROVE  total' = Cardinality(touched')
<1>1. IsFiniteSet(Ids)
  BY MaxJobsAssumption, FS_Interval DEF Ids
<1>2. PICK T \in SUBSET Ids : T = touched
  BY DEF TypeOK
<1>3. IsFiniteSet(T) /\ IsFiniteSet(S) /\ T \cap S = {}
  BY <1>1, <1>2, FS_Subset
<1>4. Cardinality(T \cup S) = Cardinality(T) + Cardinality(S) - Cardinality(T \cap S)
  BY <1>3, FS_Union
<1>5. Cardinality(T \cap S) = 0 /\ Cardinality(T) \in Nat /\ Cardinality(S) \in Nat
  BY <1>3, FS_EmptySet, FS_CardinalityType
<1>6. Cardinality(T \cup S) = Cardinality(T) + Cardinality(S)
  BY <1>4, <1>5
<1>7. touched' = T \cup S /\ total' = Cardinality(T) + Cardinality(S)
  BY <1>2
<1> QED
  BY <1>6, <1>7

\* A bulk call's pages follow each other, so that what it changed is counted once.
LEMMA BulkStep == Shape /\ LimitInv /\ OrderInv /\ BulkInv /\ [Next]_vars => BulkInv'
<1> SUFFICES ASSUME Shape, LimitInv, OrderInv, BulkInv, [Next]_vars
             PROVE  BulkInv'
  OBVIOUS
<1> DEFINE R == Ordering(call.query.order)
<1>0. /\ TypeOK /\ IsCall(call)
      /\ pc \in {"start", "whole"} => total = 0 /\ touched = {}
      /\ ~IsBulk /\ call.op # "pages" => touched = {}
  BY DEF Shape, LimitInv, BulkInv
<1>1. IsBulk =>
        /\ pc # "failed" => total = Cardinality(touched)
        /\ pc = "list" => touched = {} \/ Upto(touched, from)
        /\ pc = "page" => /\ \A a \in touched, b \in Range(page) : <<a, b>> \in R
                          /\ next = Unset \/ Upto(touched \cup Range(page), next)
  BY DEF BulkInv
<1>2. call' = call => (IsBulk' <=> IsBulk)
  BY DEF IsBulk
\* Calls that change nothing.
<1>3. ASSUME ~IsBulk, call' = call, call.op = "pages" \/ touched' = touched
      PROVE  BulkInv'
  BY <1>0, <1>2, <1>3 DEF BulkInv
\* Steps of a bulk call that end it.
<1>4. ASSUME IsBulk, call' = call, pc' = "done", total' = Cardinality(touched')
      PROVE  BulkInv'
  BY <1>2, <1>4 DEF BulkInv
<1>5. ASSUME call' = call, pc' = "failed", IsBulk \/ touched' = touched
      PROVE  BulkInv'
  BY <1>0, <1>2, <1>5 DEF BulkInv
\* Steps of a bulk call to the next page.
<1>6. ASSUME IsBulk, pc = "page", NextPage, call' = call, total' = Cardinality(touched'),
             touched' \subseteq touched \cup Range(page)
      PROVE  BulkInv'
  <2>1. pc' \in {"done", "list"} /\ (pc' = "list" => from' = next /\ next # Unset)
    BY <1>0, <1>6, NextPageTyped
  <2>2. CASE pc' = "list"
    <3>1. Upto(touched \cup Range(page), next) /\ from' = next
      BY <1>1, <1>6, <2>1, <2>2
    <3>2. Upto(touched, from)'
      BY <1>6, <3>1 DEF Upto
    <3> QED
      BY <1>2, <1>6, <2>2, <3>2 DEF BulkInv
  <2> QED
    BY <1>4, <1>6, <2>1, <2>2
<1>7. CASE Start
  <2>1. pc = "start" /\ pc' \in {"list", "whole"} /\ touched' = touched /\ total' = total
    BY <1>7 DEF Start, result
  <2>2. touched' = {} /\ total' = 0 /\ Cardinality({}) = 0
    BY <1>0, <2>1, FS_EmptySet
  <2> QED
    BY <2>1, <2>2 DEF BulkInv
<1>8. CASE ListJobs \/ ListErrors
  <2>1. /\ pc = "list" /\ pc' = "page" /\ call' = call /\ touched' = touched /\ total' = total
    BY <1>8 DEF ListJobs, ListErrors, result
  <2>2. CASE IsBulk
    <3>1. CASE page' = <<>> /\ next' = Unset
      <4>1. Range(page') = {}
        BY <3>1 DEF Range
      <4> QED
        BY <1>1, <1>2, <2>1, <2>2, <3>1, <4>1 DEF BulkInv
    <3>2. CASE Answer(Selected(toWhere(call.query)), call.query, from)
      <4>1. PICK S \in SUBSET Nat : S = Selected(toWhere(call.query)) /\ IsFiniteSet(S)
        BY ListTyped
      <4>2. /\ page' \in Seq(S)
            /\ \A i \in DOMAIN page' : from # Unset => <<from, page'[i]>> \in R
            /\ next' # Unset => /\ page' # <<>>
                                /\ \A i \in DOMAIN page' :
                                     page'[i] = next' \/ <<page'[i], next'>> \in R
        BY <3>2, <4>1, ListTyped, AnswerCorrect
      <4>3. \A a, b, c : <<a, b>> \in R /\ <<b, c>> \in R => <<a, c>> \in R
        BY OrderingTransitive
      <4> HIDE DEF R
      <4>4. \A b \in Range(page') : /\ from # Unset => <<from, b>> \in R
                                    /\ next' # Unset => b = next' \/ <<b, next'>> \in R
        BY <4>2 DEF Range
      <4>5. touched = {} \/ (from # Unset /\ \A a \in touched : a = from \/ <<a, from>> \in R)
        BY <1>1, <2>1, <2>2 DEF Upto, R
      <4>6. \A a \in touched, b \in Range(page') : <<a, b>> \in R
        BY <4>3, <4>4, <4>5
      <4>7. next' # Unset => \A a \in touched : <<a, next'>> \in R
        <5> SUFFICES ASSUME next' # Unset, NEW a \in touched
                     PROVE  <<a, next'>> \in R
          OBVIOUS
        <5>1. PICK b \in Range(page') : TRUE
          BY <4>2, TailRange
        <5> QED
          BY <4>3, <4>4, <4>6, <5>1
      <4>8. next' = Unset \/ Upto(touched \cup Range(page), next)'
        BY <2>1, <4>4, <4>7 DEF Upto, R
      <4> QED
        BY <1>1, <1>2, <2>1, <2>2, <4>6, <4>8 DEF BulkInv, R
    <3> QED
      BY <1>8, <2>2, <3>1, <3>2 DEF ListJobs, ListErrors, IsBulk, OfErrors
  <2> QED
    BY <1>3, <2>1, <2>2
<1>9. CASE WholeBulk
  <2>1. pc = "whole" /\ pc' = "done" /\ call' = call /\ BulkRequest(toWhere(call.query))
    BY <1>9 DEF WholeBulk, Ended
  <2>2. IsBulk
    BY <2>1 DEF BulkRequest, IsBulk
  <2>3. PICK S \in SUBSET Ids : /\ touched' = touched \cup S
                                /\ total' = total + Cardinality(S)
    BY <1>0, <2>1, BulkTyped
  <2>4. total' = Cardinality(touched')
    BY <1>0, <1>1, <2>1, <2>2, <2>3, CountedOnce
  <2> QED
    BY <1>4, <2>1, <2>2, <2>4
<1>10. CASE Count \/ IterateJobs \/ IterateErrors \/ ErrorPageConsumed
  <2>1. ~IsBulk /\ call' = call /\ touched' = touched
    BY <1>10 DEF Count, IterateJobs, IterateErrors, ErrorPageConsumed, IsBulk
  <2> QED
    BY <1>3, <2>1
<1>11. CASE PageBulk /\ IsBulk
  <2>1. pc = "page" /\ call' = call
    BY <1>11 DEF PageBulk
  <2>2. CASE UNCHANGED result /\ (Ended \/ NextPage)
    <3>1. total' = Cardinality(touched') /\ touched' = touched
      BY <1>1, <1>11, <2>1, <2>2 DEF result
    <3> QED
      BY <1>4, <1>6, <1>11, <2>1, <2>2, <3>1 DEF Ended
  <2>3. CASE ~Spent(rem) /\ BulkRequest(PageScope(PageIds)) /\ (Ended \/ NextPage)
    <3>1. PICK S \in SUBSET Ids : /\ S \subseteq Range(page) /\ touched' = touched \cup S
                                  /\ total' = total + Cardinality(S)
      BY <1>11, <2>1, <2>3, PageBounded
    <3>2. \A j \in touched : j \notin S
      <4> SUFFICES ASSUME NEW j \in touched, j \in S
                   PROVE  FALSE
        OBVIOUS
      <4>1. <<j, j>> \in Ordering(call.query.order)
        BY <1>1, <1>11, <2>1, <3>1
      <4> QED
        BY <4>1 DEF Ordering
    <3>3. total' = Cardinality(touched')
      BY <1>0, <1>1, <1>11, <2>1, <3>1, <3>2, CountedOnce
    <3> QED
      BY <1>4, <1>6, <1>11, <2>1, <2>3, <3>1, <3>3 DEF Ended
  <2> QED
    BY <1>11, <2>2, <2>3 DEF PageBulk, SkipPage
<1>12. CASE PageConsumed
  BY <1>3, <1>12 DEF PageConsumed, IsBulk
<1>13. CASE RequestFails
  <2>1. pc' = "failed" /\ call' = call /\ (IsBulk \/ touched' = touched)
    BY <1>13 DEF RequestFails, BulkRequest, IsBulk, result
  <2> QED
    BY <1>5, <2>1
<1>14. CASE OtherEnqueues \/ OtherMoves \/ OtherDeletes \/ JobFails \/ UNCHANGED vars
  <2>1. UNCHANGED <<call, pc, page, next, from, total, touched>>
    BY <1>14 DEF OtherEnqueues, OtherMoves, OtherDeletes, Changed, JobFails, vars, cursor, result
  <2> QED
    BY <1>0, <1>1, <1>2, <2>1 DEF BulkInv, Upto
<1> QED
  BY <1>7, <1>8, <1>9, <1>10, <1>11, <1>12, <1>13, <1>14
     DEF Next, Client, UpdatePage, DeletePage, IsBulk

\* A step that changes the call's own jobs only, or jobs that are not kept.
LEMMA KeptBy ==
  ASSUME Shape, KeptInv, call' = call, steady' \subseteq steady, errors \in Int, errors' \in Int,
         errors <= errors', pc' # "start" \/ (pc = "start" /\ from' = from),
         NEW S, touched' = touched \cup S,
         \A j \in Ids \ S : j \in steady' => jobs'[j] = jobs[j]
  PROVE  KeptInv'
<1>1. pc' = "start" => steady' = {} /\ from' = Unset
  BY DEF KeptInv
<1>2. ASSUME NEW j \in steady'
      PROVE  IF OfErrors' THEN j \in 1..errors'
             ELSE j \in Ids /\ (j \in touched' \/ Matches(call.query, j)')
  <2>1. IF OfErrors THEN j \in 1..errors
        ELSE j \in Ids /\ (j \in touched \/ Matches(call.query, j))
    BY DEF KeptInv
  <2>2. OfErrors' <=> OfErrors
    BY DEF OfErrors
  <2>3. CASE OfErrors
    BY <2>1, <2>2, <2>3
  <2>4. CASE ~OfErrors
    <3>1. j \in Ids /\ (j \in touched' \/ (jobs'[j] = jobs[j] /\ Matches(call.query, j)))
      BY <2>1, <2>4
    <3>2. jobs'[j] = jobs[j] /\ Matches(call.query, j) => Matches(call.query, j)'
      BY DEF Matches
    <3> QED
      BY <2>2, <2>4, <3>1, <3>2
  <2> QED
    BY <2>3, <2>4
<1> QED
  BY <1>1, <1>2 DEF KeptInv

\* A job that matched when the call started, and that no other client changed,
\* matches until the call itself changes it.
LEMMA KeptStep == Shape /\ KeptInv /\ [Next]_vars => KeptInv'
<1> SUFFICES ASSUME Shape, KeptInv, [Next]_vars
             PROVE  KeptInv'
  OBVIOUS
<1>0. TypeOK /\ IsCall(call) /\ errors \in Int
  BY MaxJobsAssumption DEF Shape, TypeOK
\* Steps that change no job.
<1>1. ASSUME UNCHANGED <<call, jobs, errors, touched, steady>>, pc' # "start"
      PROVE  KeptInv'
  <2>1. touched' = touched \cup {}
    BY <1>1
  <2> QED
    BY <1>0, <1>1, <2>1, KeptBy
\* Bulk requests.
<1>2. ASSUME UNCHANGED <<call, steady>>, pc' # "start", NEW w, BulkRequest(w)
      PROVE  KeptInv'
  <2>1. PICK S \in SUBSET Ids : /\ touched' = touched \cup S /\ errors' = errors
                                /\ \A j \in Ids \ S : jobs'[j] = jobs[j]
    BY <1>0, <1>2, BulkTyped
  <2> QED
    BY <1>0, <1>2, <2>1, KeptBy
<1>3. CASE Start
  <2>1. /\ pc' \in {"list", "whole"} /\ call' = [call EXCEPT !.query = Effective(call)]
        /\ steady' = IF OfErrors THEN 1..errors ELSE {j \in Ids : Matches(Effective(call), j)}
        /\ jobs' = jobs /\ errors' = errors
    BY <1>3 DEF Start, server
  <2>2. call'.op = call.op /\ call'.query = Effective(call)
    BY <1>0, <2>1 DEF IsCall
  <2>3. OfErrors' <=> OfErrors
    BY <2>2 DEF OfErrors
  <2>4. \A j : Matches(Effective(call), j) => Matches(call.query, j)'
    BY <2>1, <2>2 DEF Matches
  <2> QED
    BY <2>1, <2>3, <2>4 DEF KeptInv
<1>4. CASE ListJobs \/ ListErrors \/ Count \/ IterateErrors \/ IterateJobs \/ ErrorPageConsumed
  <2>1. UNCHANGED <<call, jobs, errors, touched, steady>>
    BY <1>4 DEF ListJobs, ListErrors, Count, IterateErrors, IterateJobs, ErrorPageConsumed, server, result
  <2>2. pc' # "start"
    BY <1>4, <1>0, NextPageTyped DEF ListJobs, ListErrors, Count, IterateErrors, IterateJobs, ErrorPageConsumed,
       YieldItem, Ended
  <2> QED
    BY <1>1, <2>1, <2>2
<1>5. CASE WholeBulk
  BY <1>2, <1>5 DEF WholeBulk, Ended
<1>6. CASE PageBulk
  <2>1. UNCHANGED <<call, steady>> /\ (Ended \/ NextPage)
    BY <1>6 DEF PageBulk, SkipPage
  <2>2. pc' # "start"
    BY <1>0, <2>1, NextPageTyped DEF Ended
  <2>3. UNCHANGED <<jobs, errors, touched>> \/ BulkRequest(PageScope(PageIds))
    BY <1>6 DEF PageBulk, server, result
  <2> QED
    BY <1>1, <1>2, <2>1, <2>2, <2>3
<1>7. CASE PageConsumed
  <2>1. UNCHANGED <<call, steady>> /\ pc' # "start"
    BY <1>0, <1>7, NextPageTyped DEF PageConsumed
  <2>2. PICK S \in SUBSET Ids : /\ touched' = touched \cup S /\ errors' = errors
                                /\ \A j \in Ids \ S : jobs'[j] = jobs[j]
    BY <1>0, <1>7, ConsumedTyped
  <2> QED
    BY <1>0, <2>1, <2>2, KeptBy
<1>8. CASE RequestFails
  <2>1. UNCHANGED <<call, steady>> /\ pc' = "failed"
    BY <1>8 DEF RequestFails
  <2>2. UNCHANGED <<jobs, errors, touched>> \/ \E w : BulkRequest(w)
    BY <1>8 DEF RequestFails, server, result
  <2> QED
    BY <1>1, <1>2, <2>1, <2>2
<1>9. CASE OtherEnqueues \/ OtherMoves \/ OtherDeletes
  <2>1. PICK j \in Ids, value \in Queues \cup {"gone"} : Changed(j, value)
    BY <1>9 DEF OtherEnqueues, OtherMoves, OtherDeletes
  <2>2. /\ steady' = steady \ {j} /\ jobs' = [jobs EXCEPT ![j] = value]
        /\ UNCHANGED <<call, pc, from, errors, touched>>
    BY <2>1 DEF Changed, cursor, result
  <2>3. jobs \in [Ids -> Queues \cup {"new", "gone"}]
    BY <1>0 DEF TypeOK
  <2>4. touched' = touched \cup {} /\ \A i \in Ids \ {} : i \in steady' => jobs'[i] = jobs[i]
    BY <2>2, <2>3
  <2> QED
    BY <1>0, <2>2, <2>4, KeptBy
<1>10. CASE JobFails
  <2>1. errors' = errors + 1 /\ UNCHANGED <<call, pc, from, jobs, touched, steady>>
    BY <1>10 DEF JobFails, cursor, result
  <2>2. touched' = touched \cup {} /\ errors <= errors' /\ errors' \in Int
    BY <1>0, <2>1
  <2> QED
    BY <1>0, <2>1, <2>2, KeptBy
<1>11. CASE UNCHANGED vars
  <2>1. UNCHANGED <<call, pc, from, jobs, errors, touched, steady>> /\ touched' = touched \cup {}
    BY <1>11 DEF vars, server, cursor, result
  <2> QED
    BY <1>0, <2>1, KeptBy
<1> QED
  BY <1>3, <1>4, <1>5, <1>6, <1>7, <1>8, <1>9, <1>10, <1>11
     DEF Next, Client, UpdatePage, DeletePage

\* A job its caller means is selected by a request with the query's filters and
\* with no ids, the query's own or some that hold the job's.
LEMMA MatchesSelected ==
  ASSUME IsCall(call), Agrees(call.query), NEW w,
         w.queue = call.query.queue, w.priority = call.query.priority, w.jq = call.query.jq,
         NEW j \in Ids, Matches(call.query, j), w.id = Unset \/ j \in w.id
  PROVE  ~IsEmptyFilter(w) /\ j \in Selected(w)
<1> DEFINE q == call.query
           p == q.priority
<1>1. /\ jobs[j] \in Queues
      /\ q.queue = Unset \/ jobs[j] \in q.queue
      /\ j \in q.means
      /\ p = Unset \/
           IF Len(p) = 1 THEN Priority(j) = p[1]
           ELSE /\ p[1] = Unset \/ Priority(j) >= p[1]
                /\ p[2] = Unset \/ Priority(j) <= p[2]
  BY DEF Matches
<1>2. q.jq = Unset \/ Satisfies(j, q.jq)
  BY <1>1 DEF Agrees
<1>3. {} # Unset
  <2>1. {} \in SUBSET Ids
    OBVIOUS
  <2> QED
    BY <2>1, UnsetAssumption
<1>4. ~IsEmptyFilter(w)
  BY <1>1, <1>3 DEF IsEmptyFilter
<1>5. /\ Priority(j) \in Int
      /\ p # Unset => Len(p) = 2 \/ Len(p) = 1
      /\ p # Unset => /\ p[1] \in Int \cup {Unset} \/ Len(p) # 2
                      /\ p[2] \in Int \cup {Unset} \/ Len(p) # 2
  <2>1. p # Unset => p \in Seq(Int \cup {Unset})
    BY DEF IsCall, Queries
  <2> QED
    BY <2>1, MaxJobsAssumption DEF Priority, Ids, IsCall
<1>6. p = Unset \/ Within(Priority(j), EncodeRange(p))
  <2> SUFFICES ASSUME p # Unset
               PROVE  Within(Priority(j), EncodeRange(p))
    OBVIOUS
  <2> HIDE DEF p
  <2>1. CASE Len(p) = 1
    BY <1>1, <1>5, <2>1 DEF Within, EncodeRange
  <2>2. CASE Len(p) = 2
    BY <1>1, <1>5, <2>2 DEF Within, EncodeRange
  <2> QED
    BY <1>5, <2>1, <2>2
<1> QED
  BY <1>1, <1>2, <1>4, <1>6 DEF Selected

\* The page that answers a request holds what matched all along, or its link is
\* before it.
LEMMA PageReaches ==
  ASSUME Shape, NEW S \in SUBSET Nat, IsFiniteSet(S), Answer(S, call.query, from),
         NEW j \in S, from = Unset \/ <<from, j>> \in Ordering(call.query.order)
  PROVE  j \in Range(page') \/ (next' # Unset /\ <<next', j>> \in Ordering(call.query.order))
<1>1. \/ \E i \in DOMAIN page' : page'[i] = j
      \/ next' # Unset /\ <<next', j>> \in Ordering(call.query.order)
  BY ListTyped, AnswerCorrect
<1> QED
  BY <1>1 DEF Range

\* One step preserves SteadyInv.
LEMMA SteadyStep ==
  Agrees(call.query) /\ Shape /\ LimitInv /\ OrderInv /\ CountInv /\ BulkInv /\ KeptInv
    /\ SteadyInv /\ [Next]_vars => SteadyInv'
<1> SUFFICES ASSUME Agrees(call.query), Shape, LimitInv, OrderInv, CountInv, BulkInv, KeptInv,
                    SteadyInv, [Next]_vars
             PROVE  SteadyInv'
  OBVIOUS
<1> DEFINE R == Ordering(call.query.order)
           most == call.query.limit
           Over(y) == most # Unset /\ Len(y) >= most
<1>0. /\ TypeOK /\ IsCall(call) /\ Unset \notin Int /\ most \in Nat \cup {Unset}
      /\ page \in Seq(Nat) /\ yielded \in Seq(Nat) /\ steady \subseteq Nat
  BY UnsetAssumption DEF Shape, TypeOK, IsCall, Queries
<1>1. /\ Whole =>
           /\ pc = "list" => \A j \in steady \ Reached : from = Unset \/ <<from, j>> \in R
           /\ pc = "page" => \A j \in steady \ Reached :
                               j \in Range(page) \/ (next # Unset /\ <<next, j>> \in R)
           /\ pc = "done" => steady \subseteq Reached \/ Over(yielded)
      /\ StopsAtFirst /\ yielded # <<>> => \A j \in steady \ {yielded[1]} : <<yielded[1], j>> \in R
      /\ call.op = "count" /\ pc = "done" /\ most = Unset => total >= Cardinality(steady)
  BY DEF SteadyInv
<1>2. call' = call => /\ (Whole' <=> Whole) /\ (IsBulk' <=> IsBulk) /\ (StopsAtFirst' <=> StopsAtFirst)
                      /\ Reached' = IF IsBulk THEN touched' ELSE Range(yielded')
                      /\ (OfErrors' <=> OfErrors) /\ R' = R /\ most' = most
  BY DEF IsBulk, StopsAtFirst, Whole, Reached, OfErrors
<1>3. \A j \in steady : IF OfErrors THEN j \in 1..errors
                         ELSE j \in Ids /\ (j \in touched \/ Matches(call.query, j))
  BY DEF KeptInv
<1>4. ~IsBulk /\ call.op # "pages" => touched = {}
  BY DEF BulkInv
<1>5. \A a, b, c : <<a, b>> \in R /\ <<b, c>> \in R => <<a, c>> \in R
  BY OrderingTransitive
<1>6. pc \in {"list", "page"} => /\ most = Unset => left = Unset /\ rem = Unset
                                 /\ most # Unset => left \in Int /\ rem \in Int
  BY DEF CountInv
<1> HIDE DEF R, most
\* Steps that end the call.
<1>7. ASSUME call' = call, steady' \subseteq steady, StopsAtFirst => yielded' = yielded,
             \/ pc' = "failed"
             \/ /\ pc' = "done" /\ call.op # "count"
                /\ Whole => steady' \subseteq Reached' \/ Over(yielded')
      PROVE  SteadyInv'
  BY <1>1, <1>2, <1>7 DEF SteadyInv, R, most
\* Steps to the next page.
<1>8. ASSUME call' = call, steady' = steady, StopsAtFirst => yielded' = yielded, pc = "page",
             call.op # "count", NextPage, Reached \subseteq Reached',
             Whole => \A j \in Range(page) \cap steady : j \in Reached',
             Whole /\ Spent(left') => Over(yielded')
      PROVE  SteadyInv'
  <2>1. /\ pc' \in {"done", "list"}
        /\ pc' = "list" => from' = next /\ next # Unset
        /\ pc' = "done" => next = Unset \/ Spent(left')
    BY <1>0, <1>8, NextPageTyped DEF NextPage
  <2>2. Whole => \A j \in steady' \ Reached' : next # Unset /\ <<next, j>> \in R
    BY <1>1, <1>8
  <2>3. CASE pc' = "done"
    BY <1>7, <1>8, <2>1, <2>2, <2>3
  <2>4. CASE pc' = "list"
    BY <1>1, <1>2, <1>8, <2>1, <2>2, <2>4 DEF SteadyInv, R, most
  <2> QED
    BY <2>1, <2>3, <2>4
<1>9. CASE Start
  <2>1. /\ pc = "start" /\ pc' \in {"list", "whole"} /\ yielded' = yielded /\ from' = from
    BY <1>9 DEF Start, result
  <2>2. yielded' = <<>> /\ from' = Unset
    BY <2>1 DEF OrderInv, KeptInv
  <2> QED
    BY <2>1, <2>2 DEF SteadyInv
<1>10. CASE ListJobs \/ ListErrors
  <2>1. /\ pc = "list" /\ pc' = "page"
        /\ UNCHANGED <<call, steady, yielded, touched>>
    BY <1>10 DEF ListJobs, ListErrors, result
  <2>2. Reached' = Reached
    BY <1>2, <2>1 DEF Reached
  <2>3. ASSUME Whole, NEW j \in steady \ Reached
        PROVE  j \in Range(page') \/ (next' # Unset /\ <<next', j>> \in R)
    <3>1. from = Unset \/ <<from, j>> \in R
      BY <1>1, <2>1, <2>3
    <3>2. CASE ListErrors
      <4>1. OfErrors /\ Answer(1..errors, call.query, from)
        BY <3>2 DEF ListErrors
      <4>2. PICK S \in SUBSET Nat : S = 1..errors /\ IsFiniteSet(S)
        BY ListTyped
      <4>3. j \in S
        BY <1>3, <2>3, <4>1, <4>2
      <4> QED
        BY <3>1, <4>1, <4>2, <4>3, PageReaches DEF R
    <3>3. CASE ListJobs
      <4> DEFINE w == toWhere(call.query)
      <4>1. /\ w.id = call.query.id /\ w.queue = call.query.queue
            /\ w.priority = call.query.priority /\ w.jq = call.query.jq
        BY <1>0 DEF toWhere, IsCall, Queries
      <4>2. ~OfErrors /\ (IsEmptyFilter(w) \/ Answer(Selected(w), call.query, from))
        BY <3>3 DEF ListJobs
      <4> HIDE DEF w
      <4>3. j \in Ids /\ Matches(call.query, j)
        BY <1>3, <1>4, <2>3, <4>2 DEF Reached, Whole
      <4>4. w.id = Unset \/ j \in w.id
        BY <4>1, <4>3 DEF Matches
      <4>5. ~IsEmptyFilter(w) /\ j \in Selected(w)
        BY <1>0, <4>1, <4>3, <4>4, MatchesSelected
      <4>6. PICK S \in SUBSET Nat : S = Selected(w) /\ IsFiniteSet(S)
        BY ListTyped
      <4> QED
        BY <3>1, <4>2, <4>5, <4>6, PageReaches DEF R
    <3> QED
      BY <1>10, <3>2, <3>3
  <2> QED
    BY <1>1, <1>2, <2>1, <2>2, <2>3 DEF SteadyInv, R
<1>11. CASE WholeBulk
  <2> DEFINE w == toWhere(call.query)
  <2>1. pc = "whole" /\ pc' = "done" /\ UNCHANGED <<call, steady>> /\ BulkRequest(w)
    BY <1>11 DEF WholeBulk, Ended
  <2>2. /\ w.id = call.query.id /\ w.queue = call.query.queue
        /\ w.priority = call.query.priority /\ w.jq = call.query.jq
    BY <1>0 DEF toWhere, IsCall, Queries
  <2> HIDE DEF w
  <2>3. IsBulk /\ ~OfErrors /\ call.op # "count" /\ touched = {} /\ ~StopsAtFirst
    BY <2>1 DEF BulkRequest, IsBulk, OfErrors, StopsAtFirst, LimitInv
  <2>4. PICK S : S = (IF IsEmptyFilter(w) THEN {} ELSE Selected(w)) /\ touched' = touched \cup S
    BY <1>0, <2>1, BulkTyped
  <2>5. ASSUME NEW j \in steady
        PROVE  j \in touched'
    <3>1. j \in Ids /\ Matches(call.query, j)
      BY <1>3, <2>3
    <3>2. w.id = Unset \/ j \in w.id
      BY <2>2, <3>1 DEF Matches
    <3>3. ~IsEmptyFilter(w) /\ j \in Selected(w)
      BY <1>0, <2>2, <3>1, <3>2, MatchesSelected
    <3> QED
      BY <2>4, <3>3
  <2> QED
    BY <1>2, <1>7, <2>1, <2>3, <2>5
<1>12. CASE Count
  <2> DEFINE w == toWhere(call.query)
  <2>1. /\ pc' = "done" /\ UNCHANGED <<call, steady, yielded>> /\ call.op = "count"
        /\ most = Unset => total' = countJobs(w)
    BY <1>12 DEF Count, Ended, most
  <2>2. /\ w.id = call.query.id /\ w.queue = call.query.queue
        /\ w.priority = call.query.priority /\ w.jq = call.query.jq
    BY <1>0 DEF toWhere, IsCall, Queries
  <2> HIDE DEF w
  <2>3. ~IsBulk /\ ~OfErrors /\ ~Whole /\ touched = {}
    BY <1>4, <2>1 DEF IsBulk, OfErrors, Whole
  <2>4. most = Unset => total' >= Cardinality(steady)
    <3>1. ASSUME NEW j \in steady
          PROVE  ~IsEmptyFilter(w) /\ j \in Selected(w)
      <4>1. j \in Ids /\ Matches(call.query, j)
        BY <1>3, <2>3
      <4>2. w.id = Unset \/ j \in w.id
        BY <2>2, <4>1 DEF Matches
      <4> QED
        BY <1>0, <2>2, <4>1, <4>2, MatchesSelected
    <3>2. CASE steady = {}
      <4>1. countJobs(w) \in Nat
        BY SelectedTyped, FS_CardinalityType DEF countJobs
      <4>2. Cardinality(steady) = 0
        BY <3>2, FS_EmptySet
      <4> QED
        BY <2>1, <4>1, <4>2
    <3>3. CASE steady # {}
      <4>1. countJobs(w) = Cardinality(Selected(w)) /\ steady \in SUBSET Selected(w)
        BY <3>1, <3>3 DEF countJobs
      <4>2. IsFiniteSet(Selected(w))
        BY SelectedTyped
      <4>3. Cardinality(steady) <= Cardinality(Selected(w)) /\ Cardinality(Selected(w)) \in Nat
            /\ Cardinality(steady) \in Nat
        BY <4>1, <4>2, FS_Subset, FS_CardinalityType
      <4> QED
        BY <2>1, <4>1, <4>3
    <3> QED
      BY <3>2, <3>3
  <2>5. ~StopsAtFirst
    BY <2>1 DEF StopsAtFirst
  <2> QED
    BY <1>2, <2>1, <2>3, <2>4, <2>5 DEF SteadyInv, most
<1>13. CASE PageBulk /\ IsBulk
  <2>1. /\ pc = "page" /\ UNCHANGED <<call, steady>> /\ call.op # "count" /\ ~StopsAtFirst /\ ~OfErrors
    BY <1>13 DEF PageBulk, IsBulk, StopsAtFirst, OfErrors
  <2>2. Whole => most = Unset /\ left = Unset /\ rem = Unset /\ ~Spent(rem) /\ PageIds = page
    <3>1. Whole => most = Unset
      BY <1>13 DEF Whole, most
    <3> QED
      BY <1>6, <2>1, <3>1 DEF Spent, PageIds
  <2>3. Reached = touched /\ Reached' = touched'
    BY <1>2, <1>13, <2>1 DEF Reached
  <2>4. CASE Spent(rem) /\ Ended
    BY <1>7, <2>1, <2>2, <2>4 DEF Ended
  <2>5. CASE ~Spent(rem) /\ SkipPage /\ UNCHANGED result
    <3>1. PageIds = <<>> /\ NextPage /\ touched' = touched
      BY <2>5 DEF SkipPage, result
    <3>2. Whole => Range(page) = {}
      BY <2>2, <3>1 DEF Range
    <3>3. Whole => ~Spent(left')
      BY <2>2, <3>1 DEF NextPage, Less, Spent
    <3> QED
      BY <1>8, <2>1, <2>3, <3>1, <3>2, <3>3
  <2>6. CASE /\ ~Spent(rem) /\ BulkRequest(PageScope(PageIds))
             /\ rem' = Less(rem, Len(PageIds))
             /\ IF Spent(rem') THEN Ended ELSE NextPage
    <3> DEFINE w == PageScope(PageIds)
    <3>1. PICK S : S = (IF IsEmptyFilter(w) THEN {} ELSE Selected(w)) /\ touched' = touched \cup S
      BY <1>0, <2>6, BulkTyped
    <3>2. ASSUME Whole, NEW j \in Range(page) \cap steady
          PROVE  j \in touched'
      <4>1. CASE j \in touched
        BY <3>1, <4>1
      <4>2. CASE j \notin touched
        <5>1. j \in Ids /\ Matches(call.query, j)
          BY <1>3, <2>1, <3>2, <4>2
        <5>2. /\ w.id = Range(page) /\ w.queue = call.query.queue
              /\ w.priority = call.query.priority /\ w.jq = call.query.jq
          BY <1>0, <2>2, <3>2 DEF PageScope, byId, IsCall, Queries
        <5> HIDE DEF w
        <5>3. ~IsEmptyFilter(w) /\ j \in Selected(w)
          BY <1>0, <3>2, <5>1, <5>2, MatchesSelected
        <5> QED
          BY <3>1, <5>3
      <4> QED
        BY <4>1, <4>2
    <3>3. CASE Spent(rem') /\ Ended
      <4>1. ~Whole
        BY <2>2, <2>6, <3>3 DEF Less, Spent
      <4> QED
        BY <1>7, <2>1, <3>3, <4>1 DEF Ended
    <3>4. CASE NextPage
      <4>1. Whole => ~Spent(left')
        BY <2>2, <3>4 DEF NextPage, Less, Spent
      <4> QED
        BY <1>8, <2>1, <2>3, <3>1, <3>2, <3>4, <4>1
    <3> QED
      BY <2>6, <3>3, <3>4
  <2> QED
    BY <1>13, <2>4, <2>5, <2>6 DEF PageBulk
\* What CountInv says of an iteration: it is stopped at its limit only.
<1>14. call.op \notin {"pages", "errorPages", "count"} /\ ~IsBulk /\ pc = "page" /\ Spent(rem) => Over(yielded)
  <2>1. call.op \notin {"pages", "errorPages"} /\ ~IsBulk /\ pc = "page" /\ most # Unset => rem + Len(yielded) = most
    BY DEF CountInv, most
  <2> QED
    BY <1>0, <1>6, <2>1 DEF Spent
<1>15. ASSUME pc = "page", UNCHANGED <<call, touched, steady>>, YieldItem, ~IsBulk,
              call.op \notin {"pages", "errorPages", "count"}
       PROVE  SteadyInv'
  <2>1. CASE Spent(rem) /\ Ended /\ UNCHANGED <<rem, yielded>>
    BY <1>7, <1>14, <1>15, <2>1 DEF Ended
  <2>2. CASE /\ ~Spent(rem) /\ yielded' = Append(yielded, Head(page)) /\ page' = Tail(page)
             /\ pc' = IF StopsAtFirst THEN "done" ELSE pc
             /\ next' = next
    <3>1. page # <<>>
      BY <1>15 DEF YieldItem
    <3>2. Range(page) \subseteq Range(page') \cup {Head(page)} /\ Head(page) \in Range(page)
      BY <1>0, <2>2, <3>1, TailRange
    <3>3. Range(yielded') = Range(yielded) \cup {Head(page)} /\ Len(yielded') = Len(yielded) + 1
          /\ (yielded = <<>> => yielded'[1] = Head(page))
      <4>1. Head(page) \in Nat
        BY <1>0, <3>1
      <4>2. PICK x \in Nat, y \in Seq(Nat) : x = Head(page) /\ y = yielded
        BY <1>0, <4>1
      <4>3. /\ Len(Append(y, x)) = Len(y) + 1 /\ Append(y, x)[Len(y) + 1] = x
            /\ \A i \in 1..Len(y) : Append(y, x)[i] = y[i]
            /\ DOMAIN Append(y, x) = 1..Len(y) + 1 /\ DOMAIN y = 1..Len(y) /\ Len(y) \in Nat
        OBVIOUS
      <4>4. \A i \in 1..Len(y) + 1 : i \in 1..Len(y) \/ i = Len(y) + 1
        BY <4>3
      <4>5. Len(y) + 1 \in 1..Len(y) + 1 /\ \A i \in 1..Len(y) : i \in 1..Len(y) + 1
        BY <4>3
      <4>6. Range(Append(y, x)) = Range(y) \cup {x}
        BY <4>3, <4>4, <4>5 DEF Range
      <4>7. y = <<>> => Append(y, x)[1] = x
        BY <4>3
      <4> QED
        BY <2>2, <4>2, <4>3, <4>6, <4>7
    <3>4. Reached = Range(yielded) /\ Reached' = Range(yielded')
      BY <1>2, <1>15 DEF Reached
    <3>5. Whole
      BY <1>15 DEF Whole
    <3>6. \A j \in steady \ Reached : j \in Range(page) \/ (next # Unset /\ <<next, j>> \in R)
      BY <1>1, <1>15, <3>5
    <3>7. CASE ~StopsAtFirst
      <4>1. \A j \in steady \ Reached' : j \in Range(page') \/ (next # Unset /\ <<next, j>> \in R)
        BY <3>2, <3>3, <3>4, <3>6
      <4> QED
        BY <1>2, <1>15, <2>2, <3>7, <4>1 DEF SteadyInv, R
    <3>8. CASE StopsAtFirst
      <4>1. most = 1 /\ rem \in Int /\ rem + Len(yielded) = 1 /\ ~(rem <= 0)
        <5>1. most = 1 /\ most # Unset
          BY <1>0, <1>15, <3>8 DEF CountInv, most
        <5>2. rem \in Int /\ rem + Len(yielded) = most
          BY <1>15, <5>1 DEF CountInv, most
        <5> QED
          BY <1>0, <2>2, <5>1, <5>2 DEF Spent
      <4>2. yielded = <<>> /\ Len(yielded') = 1
        BY <1>0, <3>3, <4>1
      <4>3. yielded'[1] = Head(page) /\ Range(yielded) = {}
        BY <3>3, <4>2 DEF Range
      <4>4. ASSUME NEW j \in steady \ {Head(page)}
            PROVE  <<Head(page), j>> \in R
        <5>1. CASE j \in Range(page)
          <6>1. PICK i \in DOMAIN page : page[i] = j
            BY <5>1 DEF Range
          <6>2. 1 \in DOMAIN page /\ i \in 1..Len(page) /\ Head(page) = page[1] /\ Len(page) \in Nat
            BY <1>0, <3>1, <6>1
          <6>3. 1 < i
            BY <4>4, <6>1, <6>2
          <6> QED
            BY <1>15, <6>1, <6>2, <6>3 DEF OrderInv, Ascends, R
        <5>2. CASE next # Unset /\ <<next, j>> \in R
          <6>1. Head(page) = next \/ <<Head(page), next>> \in R
            BY <1>15, <3>2, <5>2 DEF OrderInv, Upto, R
          <6> QED
            BY <1>5, <5>2, <6>1
        <5> QED
          BY <3>4, <3>6, <4>3, <5>1, <5>2
      <4>5. Over(yielded')
        BY <1>0, <4>1, <4>2
      <4> QED
        BY <1>2, <1>15, <2>2, <3>8, <4>3, <4>4, <4>5 DEF SteadyInv, R, most
    <3> QED
      BY <3>7, <3>8
  <2> QED
    BY <1>15, <2>1, <2>2 DEF YieldItem
<1>16. CASE IterateJobs
  <2>1. /\ pc = "page" /\ UNCHANGED <<call, touched, steady>> /\ ~IsBulk
        /\ call.op \in {"iterate", "first", "last", "isEmpty"}
    BY <1>16 DEF IterateJobs, IsBulk
  <2>2. CASE page = <<>> /\ Spent(rem) /\ Ended /\ yielded' = yielded
    BY <1>7, <1>14, <2>1, <2>2 DEF Ended
  <2>3. CASE page = <<>> /\ ~Spent(rem) /\ NextPage /\ rem' = rem /\ yielded' = yielded
    <3>1. Range(page) = {} /\ Reached' = Reached
      BY <1>2, <2>1, <2>3 DEF Range, Reached
    <3>2. ~Spent(left')
      <4>1. left' = Less(left, size)
        BY <2>3 DEF NextPage
      <4>2. most # Unset => left + Len(page) = rem + size
        BY <2>1 DEF CountInv, most
      <4>3. Len(page) = 0 /\ size \in Nat
        BY <1>0, <2>3 DEF TypeOK
      <4> QED
        BY <1>0, <1>6, <2>1, <2>3, <4>1, <4>2, <4>3 DEF Spent, Less
    <3> QED
      BY <1>8, <2>1, <2>3, <3>1, <3>2
  <2> QED
    BY <1>15, <1>16, <2>1, <2>2, <2>3 DEF IterateJobs
<1>17. CASE IterateErrors
  <2>1. /\ pc = "page" /\ UNCHANGED <<call, touched, steady>> /\ ~IsBulk
        /\ call.op \in {"errors", "firstError"}
    BY <1>17 DEF IterateErrors, IsBulk
  <2>2. CASE page = <<>> /\ (next = Unset \/ Spent(rem)) /\ Ended /\ yielded' = yielded
    <3>1. Reached' = Reached /\ Range(page) = {} /\ Whole
      BY <1>2, <2>1, <2>2 DEF Range, Reached, Whole
    <3>2. next = Unset => steady \subseteq Reached
      BY <1>1, <2>1, <3>1
    <3> QED
      BY <1>7, <1>14, <2>1, <2>2, <3>1, <3>2 DEF Ended
  <2>3. CASE page = <<>> /\ next # Unset /\ pc' = "list" /\ from' = next /\ yielded' = yielded
    <3>1. Reached' = Reached /\ Range(page) = {} /\ Whole
      BY <1>2, <2>1, <2>3 DEF Range, Reached, Whole
    <3>2. \A j \in steady' \ Reached' : <<from', j>> \in R
      BY <1>1, <2>1, <2>3, <3>1
    <3> QED
      BY <1>1, <1>2, <2>1, <2>3, <3>2 DEF SteadyInv, R
  <2> QED
    BY <1>15, <1>17, <2>1, <2>2, <2>3 DEF IterateErrors
<1>18. CASE PageConsumed
  <2>1. /\ pc = "page" /\ UNCHANGED <<call, steady>> /\ call.op = "pages" /\ NextPage
        /\ ~Whole /\ ~StopsAtFirst /\ ~IsBulk
    BY <1>18 DEF PageConsumed, Whole, StopsAtFirst, IsBulk
  <2>2. pc' \in {"done", "list"}
    BY <1>0, <2>1, NextPageTyped
  <2> QED
    BY <1>2, <2>1, <2>2 DEF SteadyInv
<1>19. CASE ErrorPageConsumed
  <2>1. /\ pc = "page" /\ UNCHANGED <<call, steady>> /\ call.op = "errorPages" /\ NextPage
        /\ yielded' = yielded \o page /\ ~StopsAtFirst /\ ~IsBulk
    BY <1>19 DEF ErrorPageConsumed, StopsAtFirst, IsBulk
  <2>2. Range(yielded') = Range(yielded) \cup Range(page) /\ Len(yielded') = Len(yielded) + Len(page)
    <3>1. Range(yielded \o page) = Range(yielded) \cup Range(page)
      BY <1>0, RangeConcatenation
    <3>2. Len(yielded \o page) = Len(yielded) + Len(page)
      BY <1>0
    <3> QED
      BY <2>1, <3>1, <3>2
  <2>3. Reached = Range(yielded) /\ Reached' = Range(yielded')
    BY <1>2, <2>1 DEF Reached
  <2>4. Spent(left') => Over(yielded')
    <3>1. left' = Less(left, size) /\ size = Len(page) /\ Len(page) \in Nat /\ Len(yielded) \in Nat
      BY <1>0, <2>1 DEF NextPage, CountInv
    <3>2. most # Unset => left + Len(yielded) = most
      BY <2>1 DEF CountInv, most
    <3> QED
      BY <1>0, <1>6, <2>1, <2>2, <3>1, <3>2 DEF Less, Spent
  <2> QED
    BY <1>8, <2>1, <2>2, <2>3, <2>4
<1>20. CASE RequestFails
  <2>1. pc' = "failed" /\ UNCHANGED <<call, steady>>
    BY <1>20 DEF RequestFails
  <2>2. yielded' = yielded
    BY <1>20 DEF RequestFails, BulkRequest, deleteAllJobs, updateAllJobs, Change, result
  <2> QED
    BY <1>7, <2>1, <2>2
<1>21. CASE OtherEnqueues \/ OtherMoves \/ OtherDeletes \/ JobFails \/ UNCHANGED vars
  <2>1. /\ UNCHANGED <<call, pc, page, next, from, total, yielded, touched>>
        /\ steady' \subseteq steady
    BY <1>21 DEF OtherEnqueues, OtherMoves, OtherDeletes, Changed, JobFails, vars, cursor, result
  <2>2. Reached' = Reached
    BY <1>2, <2>1 DEF Reached
  <2>3. call.op = "count" => Cardinality(steady') <= Cardinality(steady) /\ Cardinality(steady) \in Nat
                             /\ Cardinality(steady') \in Nat
    <3> SUFFICES ASSUME call.op = "count"
                 PROVE  Cardinality(steady') <= Cardinality(steady) /\ Cardinality(steady) \in Nat
                        /\ Cardinality(steady') \in Nat
      OBVIOUS
    <3>1. steady \in SUBSET Ids
      BY <1>3 DEF OfErrors
    <3>2. IsFiniteSet(steady)
      <4>1. IsFiniteSet(Ids)
        BY MaxJobsAssumption, FS_Interval DEF Ids
      <4> QED
        BY <3>1, <4>1, FS_Subset
    <3>3. PICK A \in SUBSET steady : A = steady'
      BY <2>1
    <3> QED
      BY <3>2, <3>3, FS_Subset, FS_CardinalityType
  <2>4. call.op = "count" /\ pc = "done" /\ most = Unset => total >= Cardinality(steady')
    BY <1>0, <1>1, <2>3 DEF TypeOK
  <2> QED
    BY <1>1, <1>2, <2>1, <2>2, <2>4 DEF SteadyInv, R, most
<1> QED
  BY <1>9, <1>10, <1>11, <1>12, <1>13, <1>16, <1>17, <1>18, <1>19, <1>20, <1>21
     DEF Next, Client, UpdatePage, DeletePage, IsBulk

\* A call that ended has reached every job that matched all along, in the order
\* its caller asked for, and returns how many it changed: for all calls whose jq
\* text says what its caller means.
THEOREM NothingIsMissed ==
  ASSUME \A c \in Calls : Agrees(c.query)
  PROVE  Spec => []NoneMissed
<1> DEFINE IInv == /\ Agrees(call.query) /\ Shape /\ LimitInv /\ OrderInv
                   /\ CountInv /\ BulkInv /\ KeptInv /\ SteadyInv
<1>1. Init => IInv
  <2> SUFFICES ASSUME Init
               PROVE  IInv
    OBVIOUS
  <2>1. /\ pc = "start" /\ total = 0 /\ yielded = <<>> /\ touched = {} /\ steady = {}
        /\ from = Unset /\ call \in Calls /\ Cardinality({}) = 0
    BY FS_EmptySet DEF Init
  <2>2. Agrees(call.query) /\ call.asked = call.query.order
    BY <2>1, CallsAssumption
  <2>3. LimitInv /\ OrderInv /\ KeptInv
    BY <2>1 DEF LimitInv, OrderInv, Ascends, KeptInv
  <2>4. CountInv /\ BulkInv /\ SteadyInv
    BY <2>1, <2>2 DEF CountInv, BulkInv, SteadyInv
  <2> QED
    BY <2>2, <2>3, <2>4, ShapeInit
<1>2. IInv /\ [Next]_vars => IInv'
  BY MeantStep, ShapeStep, LimitStep, OrderStep, CountStep, BulkStep, KeptStep, SteadyStep
<1>3. IInv => NoneMissed
  <2> SUFFICES ASSUME IInv
               PROVE  NoneMissed
    OBVIOUS
  <2> DEFINE most == call.query.limit
             R == Ordering(call.query.order)
  <2>1. /\ IsCall(call) /\ yielded \in Seq(Nat) /\ steady \subseteq Nat
        /\ call.query.order \in {"asc", "desc"} /\ call.asked \in {"asc", "desc"}
    BY DEF Shape, TypeOK, IsCall, Queries
  <2>2. /\ Whole /\ pc = "done" => \/ steady \subseteq Reached
                                   \/ most # Unset /\ Len(yielded) >= most
        /\ StopsAtFirst /\ yielded # <<>> => \A j \in steady \ {yielded[1]} : <<yielded[1], j>> \in R
        /\ call.op = "count" /\ pc = "done" /\ most = Unset => total >= Cardinality(steady)
    BY DEF SteadyInv
  <2>3. /\ pc # "start" /\ StopsAtFirst => most = 1
        /\ pc # "start" => ((call.query.order = call.asked) <=> call.op # "last")
        /\ yielded # <<>> => pc # "start"
    BY DEF CountInv, OrderInv
  <2>4. StopsAtFirst => Whole /\ ~IsBulk /\ Reached = Range(yielded)
    BY DEF StopsAtFirst, Whole, IsBulk, Reached
  <2>5. pc = "done" /\ call.op \in {"iterate", "errors", "errorPages"} =>
          steady \subseteq Range(yielded) \/ (most # Unset /\ Len(yielded) >= most)
    BY <2>2 DEF Whole, IsBulk, Reached
  <2>6. pc = "done" /\ StopsAtFirst => steady = {} \/ yielded # <<>>
    <3> SUFFICES ASSUME pc = "done", StopsAtFirst, yielded = <<>>
                 PROVE  steady = {}
      OBVIOUS
    <3>1. Len(yielded) = 0 /\ Range(yielded) = {} /\ most = 1
      BY <2>3 DEF Range
    <3> QED
      BY <2>2, <2>4, <3>1
  <2>7. pc = "done" /\ IsBulk => /\ total = Cardinality(touched)
                                 /\ most = Unset => steady \subseteq touched
    <3> SUFFICES ASSUME pc = "done", IsBulk
                 PROVE  /\ total = Cardinality(touched)
                        /\ most = Unset => steady \subseteq touched
      OBVIOUS
    <3>1. total = Cardinality(touched)
      BY DEF BulkInv
    <3>2. most = Unset => Whole /\ Reached = touched
      BY DEF Whole, IsBulk, Reached
    <3> QED
      BY <2>2, <3>1, <3>2
  <2>8. ASSUME yielded # <<>>, NEW j \in steady \ {yielded[1]}
        PROVE  /\ call.op = "first" => <<yielded[1], j>> \in Ordering(call.asked)
               /\ call.op = "last" => <<j, yielded[1]>> \in Ordering(call.asked)
    <3>1. call.op \in {"first", "last"} => <<yielded[1], j>> \in R
      BY <2>2, <2>8 DEF StopsAtFirst
    <3>2. call.op = "first" => call.asked = call.query.order
      BY <2>3, <2>8
    <3>3. call.op = "last" => \/ call.asked = "asc" /\ call.query.order = "desc"
                              \/ call.asked = "desc" /\ call.query.order = "asc"
      BY <2>1, <2>3, <2>8
    <3> QED
      BY <3>1, <3>2, <3>3 DEF Ordering
  <2> QED
    BY <2>2, <2>5, <2>6, <2>7, <2>8 DEF NoneMissed
<1> HIDE DEF IInv
<1> QED
  BY <1>1, <1>2, <1>3, PTL DEF Spec

-----------------------------------------------------------------------------
(* Which queries say what their caller means. *)

\* byJqFilter() sets the text, and what the caller asked for before is dropped.
LEMMA SetFiltersAgree ==
  ASSUME NEW q \in Queries, NEW jq, jq # Unset
  PROVE  Agrees(byJqFilter(q, jq))
<1>1. byJqFilter(q, jq).means = {j \in Ids : Satisfies(j, jq)} /\ byJqFilter(q, jq).jq = jq
  BY DEF byJqFilter, Queries
<1> QED
  BY <1>1 DEF Agrees

\* addJqFilter() keeps the agreement as long as the text has no alternatives:
\* every atom is then joined by "and".
LEMMA AddedFiltersAgree ==
  ASSUME NEW q \in Queries, Agrees(q), NEW atom,
         q.jq = Unset \/ (q.jq # Unset /\ Len(q.jq) = 1),
         addJqFilter(q, atom).jq # Unset
  PROVE  Agrees(addJqFilter(q, atom))
<1> DEFINE a == addJqFilter(q, atom)
<1>1. a.means = {j \in q.means : atom \in Payload[j]} /\ q.means \in SUBSET Ids
  BY DEF addJqFilter, Queries
<1>2. a.jq = IF q.jq = Unset THEN <<{atom}>> ELSE [q.jq EXCEPT ![Len(q.jq)] = @ \cup {atom}]
  BY DEF addJqFilter, Queries
<1>3. CASE q.jq = Unset
  <2>1. \A j \in Ids : Satisfies(j, a.jq) <=> atom \in Payload[j]
    BY <1>2, <1>3 DEF Satisfies
  <2> QED
    BY <1>1, <1>3, <2>1 DEF Agrees
<1>4. CASE q.jq # Unset
  <2>1. q.jq \in Seq(SUBSET STRING) /\ Len(q.jq) = 1 /\ DOMAIN q.jq = {1}
    BY <1>4 DEF Queries
  <2>2. DOMAIN a.jq = {1} /\ a.jq[1] = q.jq[1] \cup {atom}
    BY <1>2, <1>4, <2>1
  <2>3. \A j \in Ids : Satisfies(j, a.jq) <=> Satisfies(j, q.jq) /\ atom \in Payload[j]
    BY <2>1, <2>2 DEF Satisfies
  <2> QED
    BY <1>1, <1>4, <2>3 DEF Agrees
<1> QED
  BY <1>3, <1>4

=============================================================================
