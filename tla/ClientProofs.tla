---------------------------- MODULE ClientProofs ----------------------------
(***************************************************************************)
(* Theorems about the client.  Endpoints: for any number of programs, any  *)
(* arguments and whatever the server holds, a method tells what became of  *)
(* its request, and a request that is applied does what its caller means.  *)
(* TakeStream: for streams of any length, payloads of any size, and bodies *)
(* cut and ended anywhere, jobs come in order and none is held back.       *)
(***************************************************************************)
EXTENDS Endpoints, TakeStream, OrderLemmas, TLAPS

-----------------------------------------------------------------------------
(* What a method makes of an answer. *)

Refusals == {"ClientError", "NotFoundError", "ConflictError"}

\* An error that is not to be retried comes of a status of 400 to 499.
LEMMA RefusalsHaveAStatus ==
  ASSUME NEW status
  PROVE  /\ buildResponseError(status) # "ok"
         /\ buildResponseError(status) \in Refusals => status \in 400..499
<1>1. CASE status = 404 \/ status = 409
  BY <1>1 DEF buildResponseError, Refusals
<1>2. CASE status \notin {404, 409}
  BY <1>2 DEF buildResponseError, Refusals
<1> QED
  BY <1>1, <1>2

\* Whether a method reads the answer or expects a 204 only, it succeeds with a
\* status below 300 only, and what it refuses has one of 400 or more.
LEMMA ResultsTell ==
  ASSUME NEW status, NEW readable, NEW result,
         result \in {throwOnError(status), handleResponse(status, readable)}
  PROVE  /\ result = "ok" => status < 300
         /\ result \in Refusals => ~(status < 300)
<1>1. CASE result = throwOnError(status)
  <2>1. CASE status = 204
    BY <1>1, <2>1 DEF throwOnError, Refusals
  <2>2. CASE status # 204
    BY <1>1, <2>2, RefusalsHaveAStatus DEF throwOnError
  <2> QED
    BY <2>1, <2>2
<1>2. CASE result = handleResponse(status, readable)
  <2>1. CASE status = 204
    BY <1>2, <2>1 DEF handleResponse, Refusals
  <2>2. CASE status # 204 /\ ~readable
    BY <1>2, <2>2 DEF handleResponse, Refusals
  <2>3. CASE status # 204 /\ readable /\ status \notin 200..299
    BY <1>2, <2>3, RefusalsHaveAStatus DEF handleResponse
  <2>4. CASE status # 204 /\ readable /\ status \in 200..299
    BY <1>2, <2>4 DEF handleResponse, Refusals
  <2> QED
    BY <2>1, <2>2, <2>3, <2>4
<1> QED
  BY <1>1, <1>2

-----------------------------------------------------------------------------
(* What is known of a call. *)

\* Whichever method a program calls, it sends one request, which is not applied
\* before the server has it.
LEMMA CallsSend ==
  ASSUME NEW c \in Clients,
         BudgetCall(c) \/ JobBudgetCall(c) \/ BulkBudgetCall(c) \/ JobCall(c) \/ CronCall(c)
  PROVE  \E op, req, means : Send(c, op, req, means)
<1>1. CASE BudgetCall(c)
  BY <1>1 DEF BudgetCall, defineBudget, updateBudget, deleteBudget
<1>2. CASE JobBudgetCall(c)
  BY <1>2 DEF JobBudgetCall, jobBudgetRequest, bindJobBudget, rebindJobBudget, setJobBudgetCost,
     unbindJobBudget, unbindAllJobBudgets, replaceJobBudgets
<1>3. CASE BulkBudgetCall(c)
  BY <1>3 DEF BulkBudgetCall, bulkBudgetRequest, bindAllJobsBudget, rebindAllJobsBudget,
     setAllJobsBudgetCost, unbindAllJobsBudget, clearAllJobsBudgets
<1>4. CASE JobCall(c)
  BY <1>4 DEF JobCall, enqueueRaw, updateJob, deleteJob, reportSuccess, reset
<1>5. CASE CronCall(c)
  BY <1>5 DEF CronCall, CronGroupCall, CronEntryCall, replaceCronGroup, updateCronGroup, deleteCronGroup,
     deleteAllCrons, addCronEntry, replaceCronEntry, updateCronEntry, deleteCronEntry
<1> QED
  BY <1>1, <1>2, <1>3, <1>4, <1>5

\* A step of one program's call leaves the others' alone.
LEMMA OneCall ==
  ASSUME CallsKnown, NEW c \in Clients, NEW r, Known(r), call' = [call EXCEPT ![c] = r]
  PROVE  CallsKnown'
<1>1. DOMAIN call' = Clients
  BY DEF CallsKnown
<1>2. ASSUME NEW d \in Clients
      PROVE  Known(call'[d])
  BY DEF CallsKnown
<1> QED
  BY <1>1, <1>2 DEF CallsKnown, Known

\* A call returns what its answer tells, or that it has none.
LEMMA ReturnsKnown ==
  ASSUME CallsKnown, NEW c \in Clients, NEW result, Return(c, result),
         \/ result \in {"ConnectionError", "Error"}
         \/ /\ call[c].step = "answered"
            /\ \E readable : result \in {throwOnError(call[c].status),
                                         handleResponse(call[c].status, readable)}
  PROVE  CallsKnown'
<1> DEFINE r == [step |-> "returned", op |-> call[c].op, applied |-> call[c].applied,
                 result |-> result]
<1>1. Known(call[c])
  BY DEF CallsKnown
<1>2. result = "ok" => call[c].applied
  BY <1>1, ResultsTell DEF Known
<1>3. result \in Refusals => ~call[c].applied
  BY <1>1, ResultsTell DEF Known, Refusals
<1>4. Known(r)
  BY <1>2, <1>3 DEF Known, Refusals
<1>5. call' = [call EXCEPT ![c] = r]
  BY DEF Return
<1> HIDE DEF r
<1> QED
  BY <1>4, <1>5, OneCall

\* One step preserves what is known of the calls.
LEMMA KnownStep == CallsKnown /\ [Next]_vars => CallsKnown'
<1> SUFFICES ASSUME CallsKnown, [Next]_vars
             PROVE  CallsKnown'
  OBVIOUS
<1>1. CASE UNCHANGED vars
  BY <1>1 DEF vars, CallsKnown, Known
<1>2. ASSUME NEW c \in Clients,
             BudgetCall(c) \/ JobBudgetCall(c) \/ BulkBudgetCall(c) \/ JobCall(c) \/ CronCall(c)
      PROVE  CallsKnown'
  <2>1. PICK op, req, means : Send(c, op, req, means)
    BY <1>2, CallsSend
  <2> DEFINE r == [step |-> "sent", op |-> op, req |-> req, means |-> means, applied |-> FALSE]
  <2>2. call' = [call EXCEPT ![c] = r]
    BY <2>1 DEF Send
  <2>3. Known(r)
    BY DEF Known
  <2> HIDE DEF r
  <2> QED
    BY <2>2, <2>3, OneCall
<1>3. ASSUME NEW c \in Clients, NEW status, NEW readable, NEW applied, applied = (status < 300),
             Answering(c, status, readable, applied)
      PROVE  CallsKnown'
  <2> DEFINE r == [step |-> "answered", op |-> call[c].op, req |-> call[c].req,
                   means |-> call[c].means, applied |-> applied, status |-> status,
                   readable |-> readable]
  <2>1. call' = [call EXCEPT ![c] = r]
    BY <1>3 DEF Answering
  <2>2. Known(r)
    BY <1>3 DEF Known
  <2> HIDE DEF r
  <2> QED
    BY <2>1, <2>2, OneCall
<1>4. ASSUME NEW c \in Clients, Served(c)
      PROVE  CallsKnown'
  BY <1>3, <1>4 DEF Served
<1>5. ASSUME NEW c \in Clients, Intercepted(c)
      PROVE  CallsKnown'
  <2>1. PICK status \in {413, 502} : Answering(c, status, FALSE, FALSE)
    BY <1>5 DEF Intercepted
  <2>2. FALSE = (status < 300)
    BY <2>1
  <2> QED
    BY <1>3, <2>1, <2>2
<1>6. ASSUME NEW c \in Clients, Answered(c)
      PROVE  CallsKnown'
  <2>1. PICK result : /\ call[c].step = "answered"
                      /\ result \in {throwOnError(call[c].status),
                                     handleResponse(call[c].status, call[c].readable)}
                      /\ Return(c, result)
    BY <1>6 DEF Answered
  <2> QED
    BY <2>1, ReturnsKnown
<1>7. ASSUME NEW c \in Clients, ConnectionFails(c)
      PROVE  CallsKnown'
  BY <1>7, ReturnsKnown DEF ConnectionFails
<1>8. ASSUME NEW c \in Clients, BodyCut(c)
      PROVE  CallsKnown'
  <2>1. PICK result : /\ call[c].step = "answered"
                      /\ result = "Error" \/ result = throwOnError(call[c].status)
                      /\ Return(c, result)
    BY <1>8 DEF BodyCut
  <2> QED
    BY <2>1, ReturnsKnown
<1>9. ASSUME NEW c \in Clients, Continue(c)
      PROVE  CallsKnown'
  <2>1. call' = [call EXCEPT ![c] = Idle]
    BY <1>9 DEF Continue
  <2>2. Known(Idle)
    BY DEF Known, Idle
  <2> QED
    BY <2>1, <2>2, OneCall
<1> QED
  BY <1>1, <1>2, <1>4, <1>5, <1>6, <1>7, <1>8, <1>9 DEF Next

\* A program may trust what a method does, whatever became of the connection,
\* whoever sent the answer and whatever other programs asked of the server: a
\* call that returns was applied, and one that is refused was not.
THEOREM OutcomesAreTold == Spec => []OutcomeTold
<1>1. Init => CallsKnown
  BY DEF Init, CallsKnown, Known, Idle
<1>2. CallsKnown => OutcomeTold
  BY DEF CallsKnown, Known, OutcomeTold
<1> QED
  BY KnownStep, <1>1, <1>2, PTL DEF Spec

-----------------------------------------------------------------------------
(* Paths. *)

\* What is left of a path behind its beginning.
Rest(s, p) == SubSeq(p, Len(s) + 1, Len(p))

\* A prefix, step by step.
LEMMA PathPrefix ==
  ASSUME NEW s \in Path, NEW p \in Path
  PROVE  IsPrefix(s, p) <=> Len(s) <= Len(p) /\ \A i \in 1..Len(s) : s[i] = p[i]
<1>1. CASE Len(s) <= Len(p)
  <2>1. /\ Len(s) \in Nat /\ Len(p) \in Nat /\ \A i \in 1..Len(s) : i \in 1..Len(p)
        /\ \A i \in 1..Len(p) : p[i] \in Name
        /\ \A i \in 1..Len(s) : s[i] \in Name
    BY <1>1, ElementOfSeq, LenProperties DEF Path
  <2>2. /\ SubSeq(p, 1, Len(s)) \in Path /\ Len(SubSeq(p, 1, Len(s))) = Len(s)
        /\ \A i \in 1..Len(s) : SubSeq(p, 1, Len(s))[i] = p[i]
    BY <1>1, Prefix DEF Path
  <2>3. SubSeq(s, 1, Len(s)) = s
    BY SubSeqFull DEF Path
  <2>4. (\A i \in 1..Len(s) : s[i] = p[i]) => SubSeq(p, 1, Len(s)) = s
    BY <2>2, SeqEqual DEF Path
  <2> QED
    BY <1>1, <2>2, <2>3, <2>4 DEF IsPrefix
<1> QED
  BY <1>1 DEF IsPrefix

\* A path that another starts with, and the rest.
LEMMA PathRest ==
  ASSUME NEW s \in Path, NEW p \in Path, IsPrefix(s, p)
  PROVE  Rest(s, p) \in Path /\ s \o Rest(s, p) = p
<1>1. Len(s) \in Nat /\ Len(p) \in Nat /\ Len(s) <= Len(p) /\ SubSeq(p, 1, Len(s)) = s
  BY LenProperties, SubSeqFull DEF Path, IsPrefix
<1>2. Rest(s, p) \in Path
  BY <1>1, SubSeqProperties, ElementOfSeq DEF Path, Rest
<1>3. SubSeq(p, 1, Len(s)) \o Rest(s, p) = SubSeq(p, 1, Len(p))
  <2>1. p \in Seq(Name) /\ 1 \in 1..Len(p) + 1 /\ Len(s) \in 1 - 1..Len(p) /\ Len(p) \in Len(s)..Len(p)
    BY <1>1 DEF Path
  <2> QED
    BY <2>1, ConcatAdjacentSubSeq DEF Rest
<1> QED
  BY <1>1, <1>2, <1>3, SubSeqFull DEF Path

\* A path and what is put behind it.
LEMMA PathPlus ==
  ASSUME NEW s \in Path, NEW q \in Path
  PROVE  /\ s \o q \in Path /\ Len(s \o q) = Len(s) + Len(q) /\ Len(s) \in Nat /\ Len(q) \in Nat
         /\ \A i \in 1..Len(s) : (s \o q)[i] = s[i]
         /\ \A i \in 1..Len(q) : (s \o q)[Len(s) + i] = q[i]
         /\ IsPrefix(s, s \o q) /\ Rest(s, s \o q) = q
<1>1. /\ s \o q \in Path /\ Len(s \o q) = Len(s) + Len(q) /\ Len(s) \in Nat /\ Len(q) \in Nat
      /\ \A i \in 1..Len(s) + Len(q) : (s \o q)[i] = IF i <= Len(s) THEN s[i] ELSE q[i - Len(s)]
  BY ConcatProperties, LenProperties DEF Path
<1>2. \A i \in 1..Len(s) : (s \o q)[i] = s[i]
  BY <1>1
<1>3. \A i \in 1..Len(q) : (s \o q)[Len(s) + i] = q[i]
  BY <1>1
<1>4. IsPrefix(s, s \o q)
  <2>1. Len(s) <= Len(s \o q) /\ \A i \in 1..Len(s) : s[i] = (s \o q)[i]
    BY <1>1
  <2> QED
    BY <1>1, <2>1, PathPrefix
<1>5. Rest(s, s \o q) \in Path /\ s \o Rest(s, s \o q) = s \o q
  BY <1>1, <1>4, PathRest
<1> QED
  BY <1>1, <1>2, <1>3, <1>4, <1>5, ConcatSimplifications DEF Path

\* What is under a path.
LEMMA UnderIs ==
  ASSUME NEW t, DOMAIN t \subseteq Path, NEW s \in Path
  PROVE  Under(t, s) = {p \in DOMAIN t : IsPrefix(s, p)}
  BY DEF Under

\* Prefixes of one to four steps.
LEMMA PrefixOne ==
  ASSUME NEW p \in Path, NEW a \in Name
  PROVE  /\ <<a>> \in Path
         /\ IsPrefix(<<a>>, p) <=> Len(p) >= 1 /\ p[1] = a
<1> DEFINE s == <<a>>
<1>1. Len(p) \in Nat
  BY LenProperties DEF Path
<1>2. s \in Path /\ Len(s) = 1 /\ s[1] = a
  BY DEF Path
<1> HIDE DEF s
<1>3. IsPrefix(s, p) <=> Len(s) <= Len(p) /\ \A i \in 1..Len(s) : s[i] = p[i]
  BY <1>2, PathPrefix
<1>4. IsPrefix(s, p) <=> Len(p) >= 1 /\ p[1] = a
  BY <1>1, <1>2, <1>3
<1> QED
  BY <1>2, <1>4 DEF s

LEMMA PrefixTwo ==
  ASSUME NEW p \in Path, NEW a \in Name, NEW b \in Name
  PROVE  /\ <<a, b>> \in Path
         /\ IsPrefix(<<a, b>>, p) <=> Len(p) >= 2 /\ p[1] = a /\ p[2] = b
<1> DEFINE s == <<a, b>>
<1>1. Len(p) \in Nat
  BY LenProperties DEF Path
<1>2. s \in Path /\ Len(s) = 2 /\ s[1] = a /\ s[2] = b
  BY DEF Path
<1> HIDE DEF s
<1>3. IsPrefix(s, p) <=> Len(s) <= Len(p) /\ \A i \in 1..Len(s) : s[i] = p[i]
  BY <1>2, PathPrefix
<1>4. IsPrefix(s, p) <=> Len(p) >= 2 /\ p[1] = a /\ p[2] = b
  BY <1>1, <1>2, <1>3
<1> QED
  BY <1>2, <1>4 DEF s

LEMMA PrefixThree ==
  ASSUME NEW p \in Path, NEW a \in Name, NEW b \in Name, NEW c \in Name
  PROVE  /\ <<a, b, c>> \in Path
         /\ IsPrefix(<<a, b, c>>, p) <=> Len(p) >= 3 /\ p[1] = a /\ p[2] = b /\ p[3] = c
<1> DEFINE s == <<a, b, c>>
<1>1. Len(p) \in Nat
  BY LenProperties DEF Path
<1>2. s \in Path /\ Len(s) = 3 /\ s[1] = a /\ s[2] = b /\ s[3] = c
  BY DEF Path
<1> HIDE DEF s
<1>3. IsPrefix(s, p) <=> Len(s) <= Len(p) /\ \A i \in 1..Len(s) : s[i] = p[i]
  BY <1>2, PathPrefix
<1>4. IsPrefix(s, p) <=> Len(p) >= 3 /\ p[1] = a /\ p[2] = b /\ p[3] = c
  BY <1>1, <1>2, <1>3
<1> QED
  BY <1>2, <1>4 DEF s

LEMMA PrefixFour ==
  ASSUME NEW p \in Path, NEW a \in Name, NEW b \in Name, NEW c \in Name, NEW d \in Name
  PROVE  /\ <<a, b, c, d>> \in Path
         /\ IsPrefix(<<a, b, c, d>>, p) <=> Len(p) >= 4 /\ p[1] = a /\ p[2] = b /\ p[3] = c /\ p[4] = d
<1> DEFINE s == <<a, b, c, d>>
<1>1. Len(p) \in Nat
  BY LenProperties DEF Path
<1>2. s \in Path /\ Len(s) = 4 /\ s[1] = a /\ s[2] = b /\ s[3] = c /\ s[4] = d
  BY DEF Path
<1> HIDE DEF s
<1>3. IsPrefix(s, p) <=> Len(s) <= Len(p) /\ \A i \in 1..Len(s) : s[i] = p[i]
  BY <1>2, PathPrefix
<1>4. IsPrefix(s, p) <=> Len(p) >= 4 /\ p[1] = a /\ p[2] = b /\ p[3] = c /\ p[4] = d
  BY <1>1, <1>2, <1>3
<1> QED
  BY <1>2, <1>4 DEF s

\* A path of one to five steps is known by them.
LEMMA ShortPaths ==
  ASSUME NEW p \in Path
  PROVE  /\ Len(p) \in Nat
         /\ Len(p) = 0 => p = <<>>
         /\ Len(p) = 1 => p = <<p[1]>>
         /\ Len(p) = 2 => p = <<p[1], p[2]>>
         /\ Len(p) = 3 => p = <<p[1], p[2], p[3]>>
         /\ Len(p) = 4 => p = <<p[1], p[2], p[3], p[4]>>
         /\ Len(p) = 5 => p = <<p[1], p[2], p[3], p[4], p[5]>>
         /\ \A i \in 1..Len(p) : p[i] \in Name
<1>1. p \in Seq(Name) /\ Len(p) \in Nat /\ \A i \in 1..Len(p) : p[i] \in Name
  BY LenProperties, ElementOfSeq DEF Path
<1>2. Len(p) = 0 => p = <<>>
  BY <1>1
<1>3. Len(p) = 1 => p = <<p[1]>>
  BY <1>1
<1>4. Len(p) = 3 => p = <<p[1], p[2], p[3]>>
  BY <1>1
<1>5. Len(p) = 4 => p = <<p[1], p[2], p[3], p[4]>>
  BY <1>1
<1>6. Len(p) = 5 => p = <<p[1], p[2], p[3], p[4], p[5]>>
  BY <1>1
<1>7. Len(p) = 2 => p = <<p[1], p[2]>>
  BY <1>1
<1> QED
  BY <1>1, <1>2, <1>3, <1>4, <1>5, <1>6, <1>7

-----------------------------------------------------------------------------
(* Trees. *)

\* The names the paths of the server are made of.
LEMMA Words ==
  /\ "budgets" \in Name
  /\ "jobs" \in Name
  /\ "crons" \in Name
  /\ "entries" \in Name
  /\ "paused" \in Name
  /\ "status" \in Name
  /\ "queue" \in Name
  /\ "create_with" \in Name
  /\ "cost" \in Name
  /\ "key" \in Name
  /\ "timezone" \in Name
  BY FieldsAssumption

\* A tree with what is at a path replaced.
LEMMA PlacedIs ==
  ASSUME NEW t, DOMAIN t \subseteq Path, NEW s \in Path, NEW w, DOMAIN w \subseteq Path
  PROVE  /\ DOMAIN Placed(t, s, w) \subseteq Path
         /\ \A p \in Path : p \in DOMAIN Placed(t, s, w) <=>
              IF IsPrefix(s, p) THEN Rest(s, p) \in DOMAIN w ELSE p \in DOMAIN t
         /\ \A p \in DOMAIN Placed(t, s, w) :
              Placed(t, s, w)[p] = IF IsPrefix(s, p) THEN w[Rest(s, p)] ELSE t[p]
<1> DEFINE new == {s \o q : q \in DOMAIN w}
           kept == DOMAIN t \ Under(t, s)
           u == Placed(t, s, w)
<1>1. ASSUME NEW p \in Path PROVE p \in new <=> IsPrefix(s, p) /\ Rest(s, p) \in DOMAIN w
  <2>1. ASSUME p \in new PROVE IsPrefix(s, p) /\ Rest(s, p) \in DOMAIN w
    BY <2>1, PathPlus
  <2>2. ASSUME IsPrefix(s, p), Rest(s, p) \in DOMAIN w PROVE p \in new
    BY <2>2, PathRest
  <2> QED
    BY <2>1, <2>2
<1>2. new \subseteq Path
  BY PathPlus
<1>3. \A p : p \in kept <=> p \in DOMAIN t /\ ~IsPrefix(s, p)
  BY DEF Under
<1>4. /\ DOMAIN u = kept \cup new
      /\ \A p \in kept \cup new : u[p] = IF p \in new THEN w[Rest(s, p)] ELSE t[p]
  BY DEF Placed, Rest
<1> HIDE DEF new, kept, u
<1>5. DOMAIN u \subseteq Path
  BY <1>2, <1>3, <1>4
<1>6. \A p \in Path : p \in DOMAIN u <=> IF IsPrefix(s, p) THEN Rest(s, p) \in DOMAIN w ELSE p \in DOMAIN t
  BY <1>1, <1>3, <1>4
<1>7. \A p \in DOMAIN u : u[p] = IF IsPrefix(s, p) THEN w[Rest(s, p)] ELSE t[p]
  BY <1>1, <1>3, <1>4, <1>5
<1> QED
  BY <1>5, <1>6, <1>7 DEF u

\* A tree put under a path.
LEMMA PrefixedIs ==
  ASSUME NEW s \in Path, NEW w, DOMAIN w \subseteq Path
  PROVE  /\ DOMAIN Prefixed(s, w) \subseteq Path
         /\ \A p \in Path : p \in DOMAIN Prefixed(s, w) <=> IsPrefix(s, p) /\ Rest(s, p) \in DOMAIN w
         /\ \A p \in DOMAIN Prefixed(s, w) : Prefixed(s, w)[p] = w[Rest(s, p)]
<1>1. DOMAIN Empty = {}
  BY DEF Empty
<1> QED
  BY <1>1, PlacedIs DEF Prefixed

\* What is below a path.
LEMMA BelowIs ==
  ASSUME NEW v, DOMAIN v \subseteq Path, NEW s \in Path
  PROVE  /\ DOMAIN Below(v, s) \subseteq Path
         /\ \A q \in Path : q \in DOMAIN Below(v, s) <=> s \o q \in DOMAIN v
         /\ \A q \in DOMAIN Below(v, s) : Below(v, s)[q] = v[s \o q]
<1>1. DOMAIN Below(v, s) = {Rest(s, p) : p \in Under(v, s)}
  BY DEF Below, Rest
<1>2. ASSUME NEW q \in DOMAIN Below(v, s) PROVE q \in Path /\ s \o q \in DOMAIN v
  BY <1>1, <1>2, PathRest DEF Under
<1>3. ASSUME NEW q \in Path, s \o q \in DOMAIN v PROVE q \in DOMAIN Below(v, s)
  BY <1>1, <1>3, PathPlus DEF Under
<1>4. \A q \in DOMAIN Below(v, s) : Below(v, s)[q] = v[s \o q]
  BY DEF Below
<1> QED
  BY <1>2, <1>3, <1>4

\* Two functions joined: the second one goes first.
LEMMA JoinedIs ==
  ASSUME NEW f, NEW g
  PROVE  /\ DOMAIN Joined(f, g) = DOMAIN f \cup DOMAIN g
         /\ \A p \in DOMAIN f \cup DOMAIN g : Joined(f, g)[p] = IF p \in DOMAIN g THEN g[p] ELSE f[p]
  BY DEF Joined

\* The paths of a tree that the server may hold.
LEMMA TypedTree ==
  ASSUME NEW t, TreeOk(t)
  PROVE  DOMAIN t \subseteq Path /\ \A p \in DOMAIN t : Len(p) \in Nat /\ Len(p) > 1
  BY LenProperties DEF TreeOk, Path

\* Whether crons say that they are paused depends on the crons alone.
LEMMA CronsKept ==
  ASSUME NEW t, NEW u, TreeOk(t),
         \A p \in DOMAIN u : p \in Path /\ Len(p) > 1,
         \A p \in DOMAIN u : p[1] = "crons" => p \in DOMAIN t,
         \A p \in DOMAIN t : p[1] = "crons" /\ t[p] # "null" => Says(u, p)
  PROVE  TreeOk(u)
<1> SUFFICES ASSUME NEW p \in DOMAIN u, p[1] = "crons"
             PROVE  /\ Says(u, <<"crons", p[2], "paused">>)
                    /\ Len(p) > 4 => Says(u, <<"crons", p[2], p[3], p[4], "paused">>)
  BY DEF TreeOk
<1> DEFINE g == <<"crons", p[2], "paused">>
           e == <<"crons", p[2], p[3], p[4], "paused">>
<1>1. g[1] = "crons" /\ e[1] = "crons"
  OBVIOUS
<1>2. Says(t, g) /\ (Len(p) > 4 => Says(t, e))
  BY DEF TreeOk
<1> HIDE DEF g, e
<1>3. Says(u, g) /\ (Len(p) > 4 => Says(u, e))
  BY <1>1, <1>2 DEF Says
<1> QED
  BY <1>3 DEF g, e

-----------------------------------------------------------------------------
(* What becomes of a document. *)

\* The paths of the fields that say whether a cron is paused.
Flag(p) == Len(p) \in {3, 5} /\ p[Len(p)] = "paused"
GroupFlag(p) == <<"crons", p[2], "paused">>
EntryFlag(p) == <<"crons", p[2], p[3], p[4], "paused">>

\* The fields are paths of their own, within the cron they tell of.
LEMMA FlagsAre ==
  ASSUME NEW p \in Path, Len(p) > 1
  PROVE  /\ GroupFlag(p) \in Path /\ Len(GroupFlag(p)) = 3
         /\ GroupFlag(p)[1] = "crons" /\ GroupFlag(p)[2] = p[2] /\ GroupFlag(p)[3] = "paused"
         /\ Flag(GroupFlag(p)) /\ GroupFlag(GroupFlag(p)) = GroupFlag(p)
         /\ Len(p) > 4 =>
              /\ EntryFlag(p) \in Path /\ Len(EntryFlag(p)) = 5
              /\ EntryFlag(p)[1] = "crons" /\ EntryFlag(p)[2] = p[2] /\ EntryFlag(p)[3] = p[3]
              /\ EntryFlag(p)[4] = p[4] /\ EntryFlag(p)[5] = "paused"
              /\ Flag(EntryFlag(p)) /\ EntryFlag(EntryFlag(p)) = EntryFlag(p)
              /\ GroupFlag(EntryFlag(p)) = GroupFlag(p)
<1>1. Len(p) \in Nat /\ \A i \in 1..Len(p) : p[i] \in Name
  BY ShortPaths
<1>2. 2 \in 1..Len(p) /\ p[2] \in Name
  BY <1>1
<1>3. /\ GroupFlag(p) \in Path /\ Len(GroupFlag(p)) = 3
      /\ GroupFlag(p)[1] = "crons" /\ GroupFlag(p)[2] = p[2] /\ GroupFlag(p)[3] = "paused"
  BY <1>2, Words DEF GroupFlag, Path
<1>4. Flag(GroupFlag(p)) /\ GroupFlag(GroupFlag(p)) = GroupFlag(p)
  <2>1. Flag(GroupFlag(p))
    BY <1>3 DEF Flag
  <2> QED
    BY <2>1 DEF GroupFlag
<1>5. ASSUME Len(p) > 4
      PROVE  /\ EntryFlag(p) \in Path /\ Len(EntryFlag(p)) = 5
             /\ EntryFlag(p)[1] = "crons" /\ EntryFlag(p)[2] = p[2] /\ EntryFlag(p)[3] = p[3]
             /\ EntryFlag(p)[4] = p[4] /\ EntryFlag(p)[5] = "paused"
  <2>1. p[3] \in Name /\ p[4] \in Name
    BY <1>1, <1>5
  <2> QED
    BY <1>2, <2>1, Words DEF EntryFlag, Path
<1>6. ASSUME Len(p) > 4
      PROVE  /\ Flag(EntryFlag(p)) /\ EntryFlag(EntryFlag(p)) = EntryFlag(p)
             /\ GroupFlag(EntryFlag(p)) = GroupFlag(p)
  <2>1. Flag(EntryFlag(p))
    BY <1>5, <1>6 DEF Flag
  <2>2. EntryFlag(EntryFlag(p)) = EntryFlag(p) /\ GroupFlag(EntryFlag(p)) = GroupFlag(p)
    BY DEF EntryFlag, GroupFlag
  <2> QED
    BY <2>1, <2>2
<1> QED
  BY <1>3, <1>4, <1>5, <1>6

\* A tree the server may hold: every cron says whether it is paused.
LEMMA TreeOkIs ==
  ASSUME NEW t
  PROVE  TreeOk(t) <=>
           /\ \A p \in DOMAIN t : p \in Path /\ Len(p) > 1
           /\ \A p \in DOMAIN t : p[1] = "crons" => Says(t, GroupFlag(p))
                /\ (Len(p) > 4 => Says(t, EntryFlag(p)))
  BY DEF TreeOk, GroupFlag, EntryFlag

\* Prefixes of a path and of a flag that goes with it.
LEMMA FlagPrefix ==
  ASSUME NEW s \in Path, NEW p \in Path, Len(p) > 1, p[1] = "crons"
  PROVE  /\ Len(s) = 4 => ~IsPrefix(s, GroupFlag(p))
         /\ Len(s) \in {1, 2} => (IsPrefix(s, GroupFlag(p)) <=> IsPrefix(s, p))
         /\ Len(p) > 4 /\ Len(s) \in {1, 2, 4} => (IsPrefix(s, EntryFlag(p)) <=> IsPrefix(s, p))
<1>1. Len(p) \in Nat /\ Len(s) \in Nat
  BY ShortPaths
<1>2. \A x \in Path : IsPrefix(s, x) <=> Len(s) <= Len(x) /\ \A i \in 1..Len(s) : s[i] = x[i]
  BY PathPrefix
<1>3. Len(s) = 4 => ~IsPrefix(s, GroupFlag(p))
  BY <1>2, FlagsAre
<1>4. ASSUME Len(s) \in {1, 2} PROVE IsPrefix(s, GroupFlag(p)) <=> IsPrefix(s, p)
  <2>1. \A i \in 1..Len(s) : GroupFlag(p)[i] = p[i]
    BY <1>4, FlagsAre
  <2> QED
    BY <1>1, <1>2, <1>4, <2>1, FlagsAre
<1>5. ASSUME Len(p) > 4, Len(s) \in {1, 2, 4} PROVE IsPrefix(s, EntryFlag(p)) <=> IsPrefix(s, p)
  <2>1. \A i \in 1..Len(s) : EntryFlag(p)[i] = p[i]
    <3>1. \A i \in 1..4 : EntryFlag(p)[i] = p[i]
      BY <1>5, FlagsAre
    <3>2. CASE Len(s) = 1
      BY <3>1, <3>2
    <3>3. CASE Len(s) = 2
      BY <3>1, <3>3
    <3>4. CASE Len(s) = 4
      BY <3>1, <3>4
    <3> QED
      BY <1>5, <3>2, <3>3, <3>4
  <2> QED
    BY <1>1, <1>2, <1>5, <2>1, FlagsAre
<1> QED
  BY <1>3, <1>4, <1>5

\* A document is deleted.
LEMMA Deleted ==
  ASSUME NEW t, TreeOk(t), NEW s \in Path, s[1] = "crons" => Len(s) \in {1, 2, 4}, Len(s) > 0
  PROVE  TreeOk(Without(t, Under(t, s)))
<1> DEFINE u == Without(t, Under(t, s))
<1>1. DOMAIN u = {p \in DOMAIN t : ~IsPrefix(s, p)} /\ \A p \in DOMAIN u : u[p] = t[p]
  BY DEF Without, Under
<1> HIDE DEF u
<1>2. \A p \in DOMAIN u : p \in Path /\ Len(p) > 1
  BY <1>1 DEF TreeOk
<1>3. ASSUME NEW p \in DOMAIN u, p[1] = "crons"
      PROVE  Says(u, GroupFlag(p)) /\ (Len(p) > 4 => Says(u, EntryFlag(p)))
  <2>1. p \in Path /\ Len(p) > 1 /\ p \in DOMAIN t /\ ~IsPrefix(s, p)
    BY <1>1, <1>2
  <2>2. Says(t, GroupFlag(p)) /\ (Len(p) > 4 => Says(t, EntryFlag(p)))
    BY <1>3, <2>1, TreeOkIs
  <2>3. CASE s[1] = "crons"
    BY <1>1, <1>3, <2>1, <2>2, <2>3, FlagPrefix DEF Says
  <2>4. CASE s[1] # "crons"
    <3>1. \A x \in Path : IsPrefix(s, x) => s[1] = x[1]
      BY PathPrefix, ShortPaths
    <3> QED
      BY <1>1, <2>1, <2>2, <2>4, <3>1, FlagsAre DEF Says
  <2> QED
    BY <2>3, <2>4
<1> QED
  BY <1>2, <1>3, TreeOkIs DEF u

\* Crons are completed: what is added are flags that say "false".
LEMMA CompletedIs ==
  ASSUME NEW t, \A p \in DOMAIN t : p \in Path /\ Len(p) > 1
  PROVE  /\ DOMAIN t \subseteq DOMAIN Completed(t)
         /\ \A p \in DOMAIN t : Completed(t)[p] = t[p]
         /\ \A p \in DOMAIN t : p[1] = "crons" =>
              GroupFlag(p) \in DOMAIN Completed(t) /\ (Len(p) > 4 => EntryFlag(p) \in DOMAIN Completed(t))
         /\ \A p \in DOMAIN Completed(t) \ DOMAIN t :
              /\ Completed(t)[p] = "false"
              /\ \E q \in DOMAIN t : q[1] = "crons"
                   /\ (p = GroupFlag(q) \/ (Len(q) > 4 /\ p = EntryFlag(q)))
<1> DEFINE inCrons == Under(t, <<"crons">>)
           groups == {GroupFlag(p) : p \in inCrons}
           entries == {EntryFlag(p) : p \in {q \in inCrons : Len(q) > 4}}
           f == [p \in groups \cup entries |-> "false"]
<1>1. inCrons = {p \in DOMAIN t : p[1] = "crons"}
  <2>1. \A p \in DOMAIN t : IsPrefix(<<"crons">>, p) <=> p[1] = "crons"
    BY Words, PrefixOne, ShortPaths
  <2> QED
    BY <2>1 DEF Under
<1>2. Completed(t) = Joined(f, t)
  <2>1. /\ {<<"crons", p[2], "paused">> : p \in inCrons} = groups
        /\ {<<"crons", p[2], p[3], p[4], "paused">> : p \in {q \in inCrons : Len(q) > 4}} = entries
    BY DEF GroupFlag, EntryFlag
  <2> QED
    BY <2>1 DEF Completed
<1>3. /\ DOMAIN Completed(t) = (groups \cup entries) \cup DOMAIN t
      /\ \A p \in DOMAIN t : Completed(t)[p] = t[p]
      /\ \A p \in (groups \cup entries) \ DOMAIN t : Completed(t)[p] = "false"
  <2>1. DOMAIN f = groups \cup entries /\ \A p \in groups \cup entries : f[p] = "false"
    OBVIOUS
  <2> HIDE DEF f, groups, entries
  <2>2. /\ DOMAIN Joined(f, t) = DOMAIN f \cup DOMAIN t
        /\ \A p \in DOMAIN f \cup DOMAIN t : Joined(f, t)[p] = IF p \in DOMAIN t THEN t[p] ELSE f[p]
    BY JoinedIs
  <2> QED
    BY <1>2, <2>1, <2>2
<1> QED
  BY <1>1, <1>3

\* A document is replaced, or created.
LEMMA Replaced ==
  ASSUME NEW t, TreeOk(t), NEW s \in Path, Len(s) > 1, s[1] = "crons" => Len(s) \in {2, 4},
         NEW w, DOMAIN w \subseteq Path,
         s[1] = "crons" => \A q \in DOMAIN w : w[q] = "null" => ~Flag(s \o q)
  PROVE  LET u == Completed(Placed(t, s, w))
         IN  /\ TreeOk(u)
             /\ \A p \in Path : IsPrefix(s, p) =>
                  IF Rest(s, p) \in DOMAIN w THEN p \in DOMAIN u /\ u[p] = w[Rest(s, p)]
                  ELSE p \in DOMAIN u => p[Len(p)] = "paused" /\ u[p] = "false"
             /\ \A p \in Path : ~IsPrefix(s, p) =>
                  \/ (p \in DOMAIN u <=> p \in DOMAIN t) /\ (p \in DOMAIN t => u[p] = t[p])
                  \/ p[1] = "crons" /\ Len(p) = 3 /\ p[3] = "paused" /\ ~Exists(t, Group(p[2]))
<1> DEFINE v == Placed(t, s, w)
           u == Completed(v)
<1>1. DOMAIN t \subseteq Path /\ \A p \in DOMAIN t : Len(p) > 1
  BY TypedTree
<1>2. /\ DOMAIN v \subseteq Path
      /\ \A p \in Path : p \in DOMAIN v <=> IF IsPrefix(s, p) THEN Rest(s, p) \in DOMAIN w ELSE p \in DOMAIN t
      /\ \A p \in DOMAIN v : v[p] = IF IsPrefix(s, p) THEN w[Rest(s, p)] ELSE t[p]
  BY <1>1, PlacedIs
<1> HIDE DEF v
<1>3. \A p \in Path : IsPrefix(s, p) => Len(p) > 1 /\ p[1] = s[1]
  BY PathPrefix, ShortPaths
<1>4. \A p \in DOMAIN v : p \in Path /\ Len(p) > 1
  BY <1>1, <1>2, <1>3
<1>5. /\ DOMAIN v \subseteq DOMAIN u /\ \A p \in DOMAIN v : u[p] = v[p]
      /\ \A p \in DOMAIN v : p[1] = "crons" =>
           GroupFlag(p) \in DOMAIN u /\ (Len(p) > 4 => EntryFlag(p) \in DOMAIN u)
      /\ \A p \in DOMAIN u \ DOMAIN v :
           /\ u[p] = "false"
           /\ \E q \in DOMAIN v : q[1] = "crons" /\ (p = GroupFlag(q) \/ (Len(q) > 4 /\ p = EntryFlag(q)))
  BY <1>4, CompletedIs
<1> HIDE DEF u
\* A flag of what is there is not null.
<1>6. ASSUME NEW p \in DOMAIN v, p[1] = "crons", Flag(p),
             p = GroupFlag(p) \/ (Len(p) > 4 /\ p = EntryFlag(p))
      PROVE  v[p] # "null"
  <2>1. CASE IsPrefix(s, p)
    <3>1. s \o Rest(s, p) = p /\ s[1] = "crons"
      BY <1>3, <1>4, <1>6, <2>1, PathRest
    <3> QED
      BY <1>2, <1>6, <2>1, <3>1
  <2>2. CASE ~IsPrefix(s, p)
    <3>1. p \in DOMAIN t /\ v[p] = t[p]
      BY <1>2, <1>4, <2>2
    <3>2. Says(t, p)
      BY <1>6, <3>1, TreeOkIs
    <3> QED
      BY <3>1, <3>2 DEF Says
  <2> QED
    BY <2>1, <2>2
<1>7. ASSUME NEW q \in DOMAIN v, q[1] = "crons"
      PROVE  /\ Says(u, GroupFlag(q))
             /\ Len(q) > 4 => Says(u, EntryFlag(q))
  <2>1. GroupFlag(q) \in DOMAIN u /\ (Len(q) > 4 => EntryFlag(q) \in DOMAIN u)
    BY <1>5, <1>7
  <2>2. u[GroupFlag(q)] # "null"
    <3>1. CASE GroupFlag(q) \in DOMAIN v
      BY <1>4, <1>5, <1>6, <3>1, FlagsAre
    <3>2. CASE GroupFlag(q) \notin DOMAIN v
      BY <1>5, <2>1, <3>2
    <3> QED
      BY <3>1, <3>2
  <2>3. ASSUME Len(q) > 4 PROVE u[EntryFlag(q)] # "null"
    <3>1. CASE EntryFlag(q) \in DOMAIN v
      BY <1>4, <1>5, <1>6, <2>3, <3>1, FlagsAre
    <3>2. CASE EntryFlag(q) \notin DOMAIN v
      BY <1>5, <2>1, <2>3, <3>2
    <3> QED
      BY <3>1, <3>2
  <2> QED
    BY <2>1, <2>2, <2>3 DEF Says
<1>8. TreeOk(u)
  <2>1. \A p \in DOMAIN u : p \in Path /\ Len(p) > 1
    BY <1>4, <1>5, FlagsAre
  <2>2. ASSUME NEW p \in DOMAIN u, p[1] = "crons"
        PROVE  Says(u, GroupFlag(p)) /\ (Len(p) > 4 => Says(u, EntryFlag(p)))
    <3>1. CASE p \in DOMAIN v
      BY <1>7, <2>2, <3>1
    <3>2. CASE p \notin DOMAIN v
      <4>1. PICK q \in DOMAIN v : q[1] = "crons" /\ (p = GroupFlag(q) \/ (Len(q) > 4 /\ p = EntryFlag(q)))
        BY <1>5, <3>2
      <4>2. Says(u, GroupFlag(q)) /\ (Len(q) > 4 => Says(u, EntryFlag(q)))
        BY <1>7, <4>1
      <4>3. q \in Path /\ Len(q) > 1
        BY <1>4
      <4>4. CASE p = GroupFlag(q)
        BY <4>2, <4>3, <4>4, FlagsAre
      <4>5. CASE Len(q) > 4 /\ p = EntryFlag(q)
        BY <4>2, <4>3, <4>5, FlagsAre
      <4> QED
        BY <4>1, <4>4, <4>5
    <3> QED
      BY <3>1, <3>2
  <2> QED
    BY <2>1, <2>2, TreeOkIs
<1>9. ASSUME NEW p \in Path, IsPrefix(s, p)
      PROVE  IF Rest(s, p) \in DOMAIN w THEN p \in DOMAIN u /\ u[p] = w[Rest(s, p)]
             ELSE p \in DOMAIN u => p[Len(p)] = "paused" /\ u[p] = "false"
  <2>1. CASE Rest(s, p) \in DOMAIN w
    BY <1>2, <1>5, <1>9, <2>1
  <2>2. CASE Rest(s, p) \notin DOMAIN w
    <3>1. p \notin DOMAIN v
      BY <1>2, <1>9, <2>2
    <3> QED
      BY <1>4, <1>5, <2>2, <3>1, FlagsAre DEF Flag
  <2> QED
    BY <2>1, <2>2
<1>10. ASSUME NEW p \in Path, ~IsPrefix(s, p)
       PROVE  \/ (p \in DOMAIN u <=> p \in DOMAIN t) /\ (p \in DOMAIN t => u[p] = t[p])
              \/ p[1] = "crons" /\ Len(p) = 3 /\ p[3] = "paused" /\ ~Exists(t, Group(p[2]))
  <2>1. (p \in DOMAIN v <=> p \in DOMAIN t) /\ (p \in DOMAIN v => v[p] = t[p])
    BY <1>2, <1>10
  <2>2. CASE p \in DOMAIN v \/ p \notin DOMAIN u
    BY <1>5, <2>1, <2>2
  <2>3. CASE p \notin DOMAIN v /\ p \in DOMAIN u
    <3>1. PICK q \in DOMAIN v : q[1] = "crons" /\ (p = GroupFlag(q) \/ (Len(q) > 4 /\ p = EntryFlag(q)))
      BY <1>5, <2>3
    <3>2. q \in Path /\ Len(q) > 1
      BY <1>4
    <3>3. CASE p = GroupFlag(q)
      <4>1. p[1] = "crons" /\ Len(p) = 3 /\ p[2] = q[2] /\ p[3] = "paused"
        BY <3>2, <3>3, FlagsAre
      <4>2. ASSUME Exists(t, Group(p[2])) PROVE FALSE
        <5>1. PICK y \in DOMAIN t : IsPrefix(<<"crons", q[2]>>, y)
          BY <4>1, <4>2 DEF Exists, Under, Group
        <5>2. y \in Path /\ q[2] \in Name /\ Len(y) > 1
          BY <1>1, <3>2, <5>1, ShortPaths
        <5>3. y[1] = "crons" /\ y[2] = q[2]
          BY <5>1, <5>2, Words, PrefixTwo
        <5>4. GroupFlag(y) = p
          BY <3>3, <5>3 DEF GroupFlag
        <5>5. Says(t, p)
          BY <5>3, <5>4, TreeOkIs
        <5> QED
          BY <2>1, <2>3, <5>5 DEF Says
      <4> QED
        BY <4>1, <4>2
    <3>4. CASE Len(q) > 4 /\ p = EntryFlag(q)
      <4>1. CASE IsPrefix(s, q)
        <5>1. s[1] = "crons" /\ Len(s) \in {2, 4}
          BY <1>3, <3>1, <3>2, <4>1
        <5>2. IsPrefix(s, p)
          BY <3>1, <3>2, <3>4, <4>1, <5>1, FlagPrefix
        <5> QED
          BY <1>10, <5>2
      <4>2. CASE ~IsPrefix(s, q)
        <5>1. q \in DOMAIN t
          BY <1>2, <3>2, <4>2
        <5>2. Says(t, p)
          BY <3>1, <3>4, <5>1, TreeOkIs
        <5> QED
          BY <2>1, <2>3, <5>2 DEF Says
      <4> QED
        BY <4>1, <4>2
    <3> QED
      BY <3>1, <3>3, <3>4
  <2> QED
    BY <2>2, <2>3
<1> QED
  BY <1>8, <1>9, <1>10 DEF u, v

\* A document is amended.
Amended(t, s, w) ==
  LET merged == Joined(t, Prefixed(s, w))
  IN  [p \in {q \in DOMAIN merged : merged[q] # "null"} |-> merged[p]]

\* A document amended: the given fields are set, or deleted by a null, the others stay.
LEMMA AmendedIs ==
  ASSUME NEW t, TreeOk(t), NEW s \in Path, Len(s) > 1, NEW w, DOMAIN w \subseteq Path,
         s[1] = "crons" => /\ Len(s) \in {2, 4} /\ Exists(t, s)
                           /\ \A q \in DOMAIN w : q = <<"paused">> /\ w[q] # "null"
  PROVE  /\ TreeOk(Amended(t, s, w))
         /\ \A p \in Path : ValueAt(Amended(t, s, w), p) =
              IF IsPrefix(s, p) /\ Rest(s, p) \in DOMAIN w THEN w[Rest(s, p)] ELSE ValueAt(t, p)
<1> DEFINE f == Prefixed(s, w)
           u == Amended(t, s, w)
<1>1. DOMAIN t \subseteq Path /\ \A p \in DOMAIN t : Len(p) > 1
  BY TypedTree
<1>2. /\ DOMAIN f \subseteq Path
      /\ \A p \in Path : p \in DOMAIN f <=> IsPrefix(s, p) /\ Rest(s, p) \in DOMAIN w
      /\ \A p \in DOMAIN f : f[p] = w[Rest(s, p)]
  BY PrefixedIs
<1>a. u = LET merged == Joined(t, f) IN [p \in {q \in DOMAIN merged : merged[q] # "null"} |-> merged[p]]
  BY DEF Amended
<1> HIDE DEF f, u
<1>3. /\ \A p : p \in DOMAIN u <=>
           /\ p \in DOMAIN t \/ p \in DOMAIN f
           /\ (IF p \in DOMAIN f THEN f[p] ELSE t[p]) # "null"
      /\ \A p \in DOMAIN u : u[p] = IF p \in DOMAIN f THEN f[p] ELSE t[p]
  <2> DEFINE m == Joined(t, f)
  <2>1. /\ DOMAIN m = DOMAIN t \cup DOMAIN f
        /\ \A p \in DOMAIN t \cup DOMAIN f : m[p] = IF p \in DOMAIN f THEN f[p] ELSE t[p]
    BY JoinedIs
  <2>2. u = [p \in {q \in DOMAIN m : m[q] # "null"} |-> m[p]]
    BY <1>a
  <2> HIDE DEF m
  <2> QED
    BY <2>1, <2>2
<1>4. \A p \in Path : IsPrefix(s, p) => Len(p) > 1 /\ p[1] = s[1]
  BY PathPrefix, ShortPaths
<1>5. \A p \in DOMAIN u : p \in Path /\ Len(p) > 1
  BY <1>1, <1>2, <1>3, <1>4
<1>6. \A p \in Path : ValueAt(u, p) =
        IF IsPrefix(s, p) /\ Rest(s, p) \in DOMAIN w THEN w[Rest(s, p)] ELSE ValueAt(t, p)
  BY <1>2, <1>3 DEF ValueAt
<1>7. \A p \in DOMAIN t : p[1] = "crons" /\ t[p] # "null" => Says(u, p)
  <2> SUFFICES ASSUME NEW p \in DOMAIN t, p[1] = "crons", t[p] # "null" PROVE Says(u, p)
    OBVIOUS
  <2>1. CASE p \in DOMAIN f
    <3>1. s[1] = "crons" /\ f[p] # "null"
      BY <1>1, <1>2, <1>4, <2>1
    <3> QED
      BY <1>3, <2>1, <3>1 DEF Says
  <2>2. CASE p \notin DOMAIN f
    BY <1>3, <2>2 DEF Says
  <2> QED
    BY <2>1, <2>2
<1>8. ASSUME NEW p \in DOMAIN u, p[1] = "crons"
      PROVE  Says(u, GroupFlag(p)) /\ (Len(p) > 4 => Says(u, EntryFlag(p)))
  <2>1. p \in Path /\ Len(p) > 1
    BY <1>5
  <2>2. CASE p \in DOMAIN t
    <3>1. Says(t, GroupFlag(p)) /\ (Len(p) > 4 => Says(t, EntryFlag(p)))
      BY <1>8, <2>2, TreeOkIs
    <3> QED
      BY <1>7, <2>1, <3>1, FlagsAre DEF Says
  <2>3. CASE p \notin DOMAIN t
    <3>1. IsPrefix(s, p) /\ Rest(s, p) \in DOMAIN w
      BY <1>2, <1>3, <2>1, <2>3
    <3>2. s[1] = "crons" /\ Len(s) \in {2, 4} /\ Exists(t, s) /\ Rest(s, p) = <<"paused">>
      BY <1>4, <1>8, <2>1, <3>1
    <3>3. p = s \o <<"paused">> /\ <<"paused">> \in Path
      BY <2>1, <3>1, <3>2, PathRest
    <3>4. /\ Len(p) = Len(s) + 1 /\ p[Len(p)] = "paused"
          /\ \A i \in 1..Len(s) : p[i] = s[i]
      BY <3>3, PathPlus
    <3>5. PICK x \in DOMAIN t : IsPrefix(s, x)
      BY <3>2 DEF Exists, Under
    <3>6. x \in Path /\ Len(x) > 1 /\ \A i \in 1..Len(s) : s[i] = x[i]
      BY <1>1, <3>5, PathPrefix
    <3>7. x[1] = "crons" /\ x[2] = p[2]
      BY <3>2, <3>4, <3>6
    <3>8. GroupFlag(x) = GroupFlag(p)
      BY <3>7 DEF GroupFlag
    <3>9. Says(u, GroupFlag(p))
      <4>1. Says(t, GroupFlag(x))
        BY <3>7, TreeOkIs
      <4> QED
        BY <1>7, <2>1, <3>8, <4>1, FlagsAre DEF Says
    <3>10. ASSUME Len(p) > 4 PROVE Says(u, EntryFlag(p))
      <4>1. Len(p) = 5
        BY <3>2, <3>4, <3>10
      <4>2. p[5] = "paused"
        BY <3>4, <4>1
      <4>3. EntryFlag(p) = p
        BY <1>8, <2>1, <4>1, <4>2, ShortPaths DEF EntryFlag
      <4> QED
        BY <1>3, <4>3 DEF Says
    <3> QED
      BY <3>9, <3>10
  <2> QED
    BY <2>2, <2>3
<1>9. TreeOk(u)
  BY <1>5, <1>8, TreeOkIs
<1> QED
  BY <1>6, <1>9 DEF u

-----------------------------------------------------------------------------
(* What a caller means, and what became of it. *)

\* The places a caller means to change, and what it means to be there.
RootsOf(t, u, op, means) ==
  IF op = "enqueueRaw" THEN {Job(i) : i \in JobsIn(u) \ JobsIn(t)} ELSE Roots(t, means)
GivenAt(means, q) == IF q \in DOMAIN means.given THEN means.given[q] ELSE Unset
RightAt(u, means, r, p) ==
  LET value == GivenAt(means, Rest(r, p))
  IN  \/ value # Unset /\ ValueAt(u, p) = value
      \/ value = Unset /\ Len(p) = 4 /\ p[3] = "budgets" /\ ValueAt(u, p) = "1"
      \/ value = Unset /\ means.whole
           /\ (ValueAt(u, p) = "null" \/ (Last(p) = "paused" /\ ValueAt(u, p) = "false"))

LEMMA ChangesOnlyIs ==
  ASSUME NEW t, NEW u, NEW op, NEW means,
         \A p \in DOMAIN t \cup DOMAIN u : ValueAt(t, p) # ValueAt(u, p) =>
           \/ \E r \in RootsOf(t, u, op, means) : IsPrefix(r, p) /\ RightAt(u, means, r, p)
           \/ p[1] = "budgets" /\ (means.where # Unset \/ op = "enqueueRaw") /\ ~Exists(t, Budget(p[2]))
           \/ p[1] = "crons" /\ Len(p) = 3 /\ p[3] = "paused" /\ ~Exists(t, Group(p[2]))
  PROVE  ChangesOnly(t, u, op, means)
  BY Zenon DEF ChangesOnly, RootsOf, RightAt, GivenAt, Rest

\* A request for a document says what its caller means.
DocumentAsked(op, req, means) ==
  /\ req.kind = "document" /\ op # "enqueueRaw"
  /\ means.where = Unset /\ means.path = req.path
  /\ req.path \in Path /\ Len(req.path) > 0 /\ DOMAIN means.given \subseteq Path
  /\ req.path[1] = "crons" => Len(req.path) \in {1, 2, 4}
  /\ \/ /\ req.method \in {"POST", "PUT"} /\ means.whole /\ Len(req.path) > 1
        /\ req.body = stripUndefined(means.given)
        /\ req.path[1] = "crons" =>
             \A q \in DOMAIN means.given : means.given[q] = "null" => ~Flag(req.path \o q)
     \/ /\ req.method = "PATCH" /\ ~means.whole /\ Len(req.path) > 1
        /\ req.body = stripUndefined(means.given)
        /\ req.path[1] = "crons" =>
             \A q \in DOMAIN means.given : q = <<"paused">> /\ means.given[q] # "null"
     \/ /\ req.method = "DELETE" /\ means.whole /\ means.given = Empty

\* A body without the fields that are not set.
LEMMA StrippedIs ==
  ASSUME NEW f
  PROVE  /\ DOMAIN stripUndefined(f) = {q \in DOMAIN f : f[q] # Unset}
         /\ \A q \in DOMAIN f : f[q] # Unset => stripUndefined(f)[q] = f[q]
  BY DEF stripUndefined

\* What a request that is applied may make of the tree.
Right(t, u, op, req, means) ==
  /\ TreeOk(u)
  /\ ChangesOnly(t, u, op, means)
  /\ Singular(req) => LeavesInPlace(t, u, means)

\* The path of a document is neither empty nor that of all the crons.
LEMMA LongPath ==
  ASSUME NEW s \in Path, Len(s) > 1
  PROVE  s # <<"crons">> /\ (Len(s) \in {1, 2, 4} => Len(s) \in {2, 4})
<1>1. Len(s) \in Nat
  BY ShortPaths
<1> DEFINE c == <<"crons">>
<1>2. Len(c) = 1
  OBVIOUS
<1> HIDE DEF c
<1>4. Len(s) = 1 => FALSE
  BY <1>1
<1>3. ASSUME s = c PROVE FALSE
  <2>1. Len(s) = 1
    BY <1>2, <1>3
  <2> QED
    BY <1>4, <2>1
<1>5. Len(s) \in {1, 2, 4} => Len(s) \in {2, 4}
  BY <1>4
<1> QED
  BY <1>3, <1>5 DEF c

\* A document replaced, amended or deleted, as asked.
LEMMA DocumentRight ==
  ASSUME NEW t, TreeOk(t), NEW op, NEW req, NEW means, DocumentAsked(op, req, means),
         Document(t, req).status < 300
  PROVE  Right(t, Document(t, req).tree, op, req, means)
<1> DEFINE s == req.path
           w == req.body
           there == Exists(t, s) \/ s = <<"crons">>
           bound == s[1] = "budgets" /\ \E i \in JobsIn(t) : Bound(i, s[2]) \in DOMAIN t
           a == Document(t, req)
           u == a.tree
<1>1. /\ s \in Path /\ Len(s) \in Nat /\ Len(s) > 0 /\ means.path = s
      /\ DOMAIN means.given \subseteq Path
      /\ s[1] = "crons" => Len(s) \in {1, 2, 4}
  BY ShortPaths DEF DocumentAsked
<1>2. \A v : RootsOf(t, v, op, means) = {s} /\ Roots(t, means) = {s}
  BY DEF DocumentAsked, RootsOf, Roots
<1>3. DOMAIN t \subseteq Path /\ \A p \in DOMAIN t : Len(p) > 1
  BY TypedTree
<1>4. \A st, v : Answer(st, v).status = st /\ Answer(st, v).tree = v
  BY DEF Answer
<1>5. CASE req.method \in {"POST", "PUT"}
  <2>1. /\ means.whole /\ Len(s) > 1 /\ w = stripUndefined(means.given)
        /\ s[1] = "crons" => \A q \in DOMAIN means.given : means.given[q] = "null" => ~Flag(s \o q)
    BY <1>5 DEF DocumentAsked
  <2>2. /\ DOMAIN w = {q \in DOMAIN means.given : means.given[q] # Unset}
        /\ \A q \in DOMAIN means.given : means.given[q] # Unset => w[q] = means.given[q]
    BY <2>1, StrippedIs
  <2>3. u = Completed(Placed(t, s, w))
    <3>1. CASE req.method = "POST" /\ there
      <4>1. a = Answer(409, t)
        BY <3>1 DEF Document
      <4> QED
        BY <1>4, <4>1
    <3>2. CASE ~(req.method = "POST" /\ there)
      <4>1. a = Answer(200, Completed(Placed(t, s, w)))
        BY <1>5, <3>2 DEF Document
      <4> QED
        BY <1>4, <4>1
    <3> QED
      BY <3>1, <3>2
  <2>4. DOMAIN w \subseteq Path /\ (s[1] = "crons" => \A q \in DOMAIN w : w[q] = "null" => ~Flag(s \o q))
    BY <1>1, <2>1, <2>2
  <2>5. s[1] = "crons" => Len(s) \in {2, 4}
    <3>1. Len(s) > 1
      BY <2>1
    <3>2. s[1] = "crons" => Len(s) \in {1, 2, 4}
      BY <1>1
    <3> QED
      BY <1>1, <3>1, <3>2, LongPath
  <2> HIDE DEF u, s, w
  <2>6. /\ TreeOk(u)
        /\ \A p \in Path : IsPrefix(s, p) =>
             IF Rest(s, p) \in DOMAIN w THEN p \in DOMAIN u /\ u[p] = w[Rest(s, p)]
             ELSE p \in DOMAIN u => p[Len(p)] = "paused" /\ u[p] = "false"
        /\ \A p \in Path : ~IsPrefix(s, p) =>
             \/ (p \in DOMAIN u <=> p \in DOMAIN t) /\ (p \in DOMAIN t => u[p] = t[p])
             \/ p[1] = "crons" /\ Len(p) = 3 /\ p[3] = "paused" /\ ~Exists(t, Group(p[2]))
    BY <1>1, <2>1, <2>3, <2>4, <2>5, Replaced
  <2>7. DOMAIN u \subseteq Path
    BY <2>6, TypedTree
  <2>8. ASSUME NEW p \in DOMAIN t \cup DOMAIN u, ValueAt(t, p) # ValueAt(u, p)
        PROVE  \/ IsPrefix(s, p) /\ RightAt(u, means, s, p)
               \/ p[1] = "crons" /\ Len(p) = 3 /\ p[3] = "paused" /\ ~Exists(t, Group(p[2]))
    <3>1. p \in Path
      BY <1>3, <2>7
    <3>2. CASE IsPrefix(s, p)
      <4> DEFINE q == Rest(s, p)
      <4>1. CASE q \in DOMAIN w
        <5>1. GivenAt(means, q) = w[q] /\ GivenAt(means, q) # Unset
          BY <2>2, <4>1 DEF GivenAt
        <5>2. ValueAt(u, p) = w[q]
          BY <2>6, <3>1, <3>2, <4>1 DEF ValueAt
        <5> QED
          BY <3>2, <5>1, <5>2 DEF RightAt
      <4>2. CASE q \notin DOMAIN w
        <5>1. GivenAt(means, q) = Unset
          BY <2>2, <4>2 DEF GivenAt
        <5>2. ValueAt(u, p) = "null" \/ (Last(p) = "paused" /\ ValueAt(u, p) = "false")
          BY <2>6, <3>1, <3>2, <4>2 DEF ValueAt, Last
        <5> QED
          BY <2>1, <3>2, <5>1, <5>2 DEF RightAt
      <4> QED
        BY <4>1, <4>2
    <3>3. CASE ~IsPrefix(s, p)
      BY <2>6, <2>8, <3>1, <3>3 DEF ValueAt
    <3> QED
      BY <3>2, <3>3
  <2>9. ChangesOnly(t, u, op, means)
    BY <1>2, <2>8, ChangesOnlyIs
  <2>10. ASSUME NEW q \in DOMAIN means.given, means.given[q] # Unset
         PROVE  ValueAt(u, s \o q) = means.given[q]
    <3>1. s \o q \in Path /\ IsPrefix(s, s \o q) /\ Rest(s, s \o q) = q
      BY <1>1, PathPlus
    <3>2. q \in DOMAIN w /\ w[q] = means.given[q]
      BY <2>2, <2>10
    <3> QED
      BY <2>6, <3>1, <3>2 DEF ValueAt
  <2>11. ASSUME NEW p \in Under(u, s)
         PROVE  SubSeq(p, Len(s) + 1, Len(p)) \in DOMAIN means.given \/ Last(p) = "paused"
    <3>1. p \in Path /\ p \in DOMAIN u /\ IsPrefix(s, p)
      BY <2>7 DEF Under
    <3> QED
      BY <2>2, <2>6, <3>1 DEF Rest, Last
  <2>12. LeavesInPlace(t, u, means)
    BY <1>2, <2>10, <2>11 DEF LeavesInPlace
  <2> QED
    BY <2>6, <2>9, <2>12 DEF Right, u
<1>6. CASE req.method = "PATCH"
  <2>1. /\ ~means.whole /\ Len(s) > 1 /\ w = stripUndefined(means.given)
        /\ s[1] = "crons" => \A q \in DOMAIN means.given : q = <<"paused">> /\ means.given[q] # "null"
    BY <1>6 DEF DocumentAsked
  <2>2. /\ DOMAIN w = {q \in DOMAIN means.given : means.given[q] # Unset}
        /\ \A q \in DOMAIN means.given : means.given[q] # Unset => w[q] = means.given[q]
    BY <2>1, StrippedIs
  <2>3. Exists(t, s) /\ u = Amended(t, s, w)
    <3>1. s # <<"crons">>
      <4>1. Len(s) > 1
        BY <2>1
      <4> QED
        BY <1>1, <4>1, LongPath
    <3>2. CASE ~Exists(t, s)
      <4>1. a = Answer(404, t)
        BY <1>6, <3>1, <3>2 DEF Document
      <4> QED
        BY <1>4, <4>1
    <3>3. CASE Exists(t, s)
      <4>1. a = Answer(200, Amended(t, s, w))
        BY <1>6, <3>3 DEF Document, Amended
      <4> QED
        BY <1>4, <3>3, <4>1
    <3> QED
      BY <3>2, <3>3
  <2>4. DOMAIN w \subseteq Path /\ (s[1] = "crons" => \A q \in DOMAIN w : q = <<"paused">> /\ w[q] # "null")
    BY <1>1, <2>1, <2>2
  <2>5. s[1] = "crons" => Len(s) \in {2, 4}
    <3>1. Len(s) > 1
      BY <2>1
    <3>2. s[1] = "crons" => Len(s) \in {1, 2, 4}
      BY <1>1
    <3> QED
      BY <1>1, <3>1, <3>2, LongPath
  <2> HIDE DEF u, s, w
  <2>6. /\ TreeOk(u)
        /\ \A p \in Path : ValueAt(u, p) =
             IF IsPrefix(s, p) /\ Rest(s, p) \in DOMAIN w THEN w[Rest(s, p)] ELSE ValueAt(t, p)
    BY <1>1, <2>1, <2>3, <2>4, <2>5, AmendedIs
  <2>7. DOMAIN u \subseteq Path
    BY <2>6, TypedTree
  <2>8. ASSUME NEW p \in DOMAIN t \cup DOMAIN u, ValueAt(t, p) # ValueAt(u, p)
        PROVE  IsPrefix(s, p) /\ RightAt(u, means, s, p)
    <3>1. p \in Path
      BY <1>3, <2>7
    <3>2. IsPrefix(s, p) /\ Rest(s, p) \in DOMAIN w /\ ValueAt(u, p) = w[Rest(s, p)]
      BY <2>6, <2>8, <3>1
    <3>3. GivenAt(means, Rest(s, p)) = w[Rest(s, p)] /\ GivenAt(means, Rest(s, p)) # Unset
      BY <2>2, <3>2 DEF GivenAt
    <3> QED
      BY <3>2, <3>3 DEF RightAt
  <2>9. ChangesOnly(t, u, op, means)
    BY <1>2, <2>8, ChangesOnlyIs
  <2>10. ASSUME NEW q \in DOMAIN means.given, means.given[q] # Unset
         PROVE  ValueAt(u, s \o q) = means.given[q]
    <3>1. s \o q \in Path /\ IsPrefix(s, s \o q) /\ Rest(s, s \o q) = q
      BY <1>1, PathPlus
    <3> QED
      BY <2>2, <2>6, <2>10, <3>1
  <2>11. LeavesInPlace(t, u, means)
    BY <1>2, <2>1, <2>10 DEF LeavesInPlace
  <2> QED
    BY <2>6, <2>9, <2>11 DEF Right, u
<1>7. CASE req.method = "DELETE"
  <2>1. means.whole /\ means.given = Empty /\ DOMAIN means.given = {}
    BY <1>7 DEF DocumentAsked, Empty
  <2>2. u = Without(t, Under(t, s))
    <3>1. CASE ~there
      <4>1. a = Answer(404, t)
        BY <1>7, <3>1 DEF Document
      <4> QED
        BY <1>4, <4>1
    <3>2. CASE there
      <4>1. a = IF bound THEN Answer(409, t) ELSE Answer(204, Without(t, Under(t, s)))
        BY <1>7, <3>2 DEF Document
      <4> QED
        BY <1>4, <4>1
    <3> QED
      BY <3>1, <3>2
  <2> HIDE DEF u, s
  <2>3. TreeOk(u)
    BY <1>1, <2>2, Deleted
  <2>4. DOMAIN u = {p \in DOMAIN t : ~IsPrefix(s, p)} /\ \A p \in DOMAIN u : u[p] = t[p]
    BY <2>2 DEF Without, Under
  <2>5. ASSUME NEW p \in DOMAIN t \cup DOMAIN u, ValueAt(t, p) # ValueAt(u, p)
        PROVE  IsPrefix(s, p) /\ RightAt(u, means, s, p)
    <3>1. IsPrefix(s, p) /\ ValueAt(u, p) = "null"
      BY <2>4, <2>5 DEF ValueAt
    <3>2. GivenAt(means, Rest(s, p)) = Unset
      BY <2>1 DEF GivenAt
    <3> QED
      BY <2>1, <3>1, <3>2 DEF RightAt
  <2>6. ChangesOnly(t, u, op, means)
    BY <1>2, <2>5, ChangesOnlyIs
  <2>7. Under(u, s) = {}
    BY <2>4 DEF Under
  <2>8. LeavesInPlace(t, u, means)
    BY <1>2, <2>1, <2>7 DEF LeavesInPlace
  <2> QED
    BY <2>3, <2>6, <2>8 DEF Right, u
<1> QED
  BY <1>5, <1>6, <1>7 DEF DocumentAsked

-----------------------------------------------------------------------------
(* What becomes of bindings. *)

\* The jobs of a tree, by name.
LEMMA JobNames ==
  ASSUME NEW t, TreeOk(t)
  PROVE  /\ JobsIn(t) \subseteq Name
         /\ \A p \in DOMAIN t : p[1] = "jobs" => p[2] \in JobsIn(t)
         /\ \A i \in JobsIn(t) : \E p \in DOMAIN t : p[1] = "jobs" /\ p[2] = i
<1>1. \A p \in DOMAIN t : p \in Path /\ Len(p) > 1 /\ p[2] \in Name
  BY ShortPaths DEF TreeOk
<1>2. \A p \in DOMAIN t : IsPrefix(<<"jobs">>, p) <=> p[1] = "jobs"
  BY <1>1, Words, PrefixOne, ShortPaths
<1> QED
  BY <1>1, <1>2 DEF JobsIn, Under

LEMMA BoundIs ==
  ASSUME NEW i \in Name, NEW k \in Name
  PROVE  /\ Bound(i, k) \in Path /\ Len(Bound(i, k)) = 4
         /\ Bound(i, k)[1] = "jobs" /\ Bound(i, k)[2] = i /\ Bound(i, k)[3] = "budgets"
              /\ Bound(i, k)[4] = k
  BY Words DEF Bound, Path

LEMMA BoundBegins ==
  ASSUME NEW i \in Name, NEW k \in Name
  PROVE  /\ IsPrefix(Bound(i, k), Bound(i, k)) /\ Rest(Bound(i, k), Bound(i, k)) = <<>>
         /\ Job(i) \o <<"budgets", k>> = Bound(i, k)
<1>1. Bound(i, k) \in Path
  BY BoundIs
<1>2. <<>> \in Path /\ Bound(i, k) \o <<>> = Bound(i, k)
  BY <1>1 DEF Path
<1>3. IsPrefix(Bound(i, k), Bound(i, k)) /\ Rest(Bound(i, k), Bound(i, k)) = <<>>
  <2> DEFINE e == <<>>
             d == Bound(i, k)
  <2>1. d \in Path /\ e \in Path /\ d \o e = d
    BY <1>1, <1>2
  <2> HIDE DEF d, e
  <2>2. IsPrefix(d, d \o e) /\ Rest(d, d \o e) = e
    BY <2>1, PathPlus
  <2> QED
    BY <2>1, <2>2 DEF d, e
<1> DEFINE a == Job(i)
           b == <<"budgets", k>>
<1>4. /\ a \in Path /\ Len(a) = 2 /\ a[1] = "jobs" /\ a[2] = i
      /\ b \in Path /\ Len(b) = 2 /\ b[1] = "budgets" /\ b[2] = k
  BY Words DEF Job, Path
<1> HIDE DEF a, b
<1>5. /\ a \o b \in Path /\ Len(a \o b) = Len(a) + Len(b)
      /\ \A n \in 1..Len(a) : (a \o b)[n] = a[n]
      /\ \A n \in 1..Len(b) : (a \o b)[Len(a) + n] = b[n]
  BY <1>4, PathPlus
<1>6. /\ (a \o b)[1] = "jobs" /\ (a \o b)[2] = i /\ (a \o b)[3] = "budgets" /\ (a \o b)[4] = k
      /\ Len(a \o b) = 4
  <2>1. 1 \in 1..Len(a) /\ 2 \in 1..Len(a) /\ 1 \in 1..Len(b) /\ 2 \in 1..Len(b)
    BY <1>4
  <2>2. (a \o b)[Len(a) + 1] = b[1] /\ (a \o b)[Len(a) + 2] = b[2] /\ (a \o b)[1] = a[1]
          /\ (a \o b)[2] = a[2]
    BY <1>5, <2>1
  <2> QED
    BY <1>4, <1>5, <2>2
<1>7. a \o b = Bound(i, k)
  BY <1>5, <1>6, ShortPaths DEF Bound
<1> QED
  BY <1>3, <1>7 DEF a, b

\* The budget a binding makes is one that was not there.
LEMMA MadeIs ==
  ASSUME NEW t, DOMAIN t \subseteq Path, NEW key \in Name, NEW body, DOMAIN body \subseteq Path
  PROVE  /\ DOMAIN Made(t, key, body) \subseteq Path
         /\ \A p \in DOMAIN Made(t, key, body) :
              Len(p) > 1 /\ p[1] = "budgets" /\ p[2] = key /\ ~Exists(t, Budget(key))
<1> DEFINE s == Budget(key)
           w == Below(body, <<"create_with">>)
<1>1. CASE Exists(t, s)
  BY <1>1 DEF Made, Empty
<1>2. CASE ~Exists(t, s)
  <2>1. s \in Path /\ <<"create_with">> \in Path
    BY Words DEF Budget, Path
  <2>2. DOMAIN w \subseteq Path
    BY <2>1, BelowIs
  <2> HIDE DEF w
  <2>3. /\ DOMAIN Prefixed(s, w) \subseteq Path
        /\ \A p \in DOMAIN Prefixed(s, w) : IsPrefix(s, p)
    BY <2>1, <2>2, PrefixedIs
  <2>4. \A p \in Path : IsPrefix(s, p) => Len(p) > 1 /\ p[1] = "budgets" /\ p[2] = key
    BY Words, PrefixTwo, ShortPaths DEF Budget
  <2>5. Made(t, key, body) = Prefixed(s, w)
    BY <1>2 DEF Made, w
  <2> QED
    BY <1>2, <2>3, <2>4, <2>5
<1> QED
  BY <1>1, <1>2

\* Jobs and budgets change, crons do not.
LEMMA CronsSame ==
  ASSUME NEW t, NEW u, TreeOk(t),
         \A p \in DOMAIN u : p \in Path /\ Len(p) > 1,
         \A p \in Path : p[1] = "crons" =>
           (p \in DOMAIN u <=> p \in DOMAIN t) /\ (p \in DOMAIN t => u[p] = t[p])
  PROVE  TreeOk(u)
<1>1. \A p \in DOMAIN t : p \in Path
  BY DEF TreeOk
<1>2. \A p \in DOMAIN u : p[1] = "crons" => p \in DOMAIN t
  OBVIOUS
<1>3. \A p \in DOMAIN t : p[1] = "crons" /\ t[p] # "null" => Says(u, p)
  BY <1>1 DEF Says
<1> QED
  BY <1>2, <1>3, CronsKept

\* Jobs are bound to a budget, or released from it.
LEMMA ReboundIs ==
  ASSUME NEW t, TreeOk(t), NEW ids \in SUBSET Name, NEW key \in Name,
         NEW body, DOMAIN body \subseteq Path, NEW method
  PROVE  LET u == Rebound(t, method, body, ids, key)
             bindings == {Bound(i, key) : i \in ids}
         IN  /\ TreeOk(u)
             /\ \A p \in Path : p \in bindings =>
                  ValueAt(u, p) = IF method = "DELETE" THEN "null" ELSE Cost(body)
             /\ \A p \in Path : p \notin bindings =>
                  \/ ValueAt(u, p) = ValueAt(t, p)
                  \/ p[1] = "budgets" /\ ~Exists(t, Budget(p[2]))
<1> DEFINE u == Rebound(t, method, body, ids, key)
           bindings == {Bound(i, key) : i \in ids}
           made == IF ids = {} THEN Empty ELSE Made(t, key, body)
           costs == [p \in bindings |-> Cost(body)]
<1>1. DOMAIN t \subseteq Path /\ \A p \in DOMAIN t : Len(p) > 1
  BY TypedTree
<1>2. bindings \subseteq Path /\ \A p \in bindings : Len(p) > 1 /\ p[1] = "jobs"
  <2> SUFFICES ASSUME NEW i \in ids
               PROVE  Bound(i, key) \in Path /\ Len(Bound(i, key)) > 1 /\ Bound(i, key)[1] = "jobs"
    OBVIOUS
  <2>1. i \in Name
    OBVIOUS
  <2> HIDE DEF bindings, costs, made, u
  <2>2. Bound(i, key) \in Path /\ Len(Bound(i, key)) = 4 /\ Bound(i, key)[1] = "jobs"
    BY <2>1, BoundIs
  <2> QED
    BY <2>2
<1>3. /\ DOMAIN made \subseteq Path
      /\ \A p \in DOMAIN made : Len(p) > 1 /\ p[1] = "budgets" /\ ~Exists(t, Budget(p[2]))
  <2>1. CASE ids = {}
    BY <2>1 DEF Empty
  <2>2. CASE ids # {}
    BY <1>1, <2>2, MadeIs
  <2> QED
    BY <2>1, <2>2
<1>4. DOMAIN costs = bindings /\ \A p \in bindings : costs[p] = Cost(body)
  OBVIOUS
<1>5. CASE method = "DELETE"
  <2>1. u = Without(t, bindings)
    BY <1>5 DEF Rebound
  <2> HIDE DEF u, bindings
  <2>2. DOMAIN u = DOMAIN t \ bindings /\ \A p \in DOMAIN u : u[p] = t[p]
    BY <2>1 DEF Without
  <2>3. TreeOk(u)
    BY <1>1, <1>2, <2>2, CronsSame
  <2> QED
    BY <1>5, <2>2, <2>3 DEF u, bindings, ValueAt
<1>6. CASE method # "DELETE"
  <2>1. u = Joined(Joined(t, made), costs)
    BY <1>6 DEF Rebound
  <2> HIDE DEF u, bindings, made, costs
  <2> DEFINE v == Joined(t, made)
  <2>2. /\ DOMAIN v = DOMAIN t \cup DOMAIN made
        /\ \A p \in DOMAIN t \cup DOMAIN made : v[p] = IF p \in DOMAIN made THEN made[p] ELSE t[p]
    BY JoinedIs
  <2> HIDE DEF v
  <2>3. /\ DOMAIN Joined(v, costs) = DOMAIN v \cup DOMAIN costs
        /\ \A p \in DOMAIN v \cup DOMAIN costs :
             Joined(v, costs)[p] = IF p \in DOMAIN costs THEN costs[p] ELSE v[p]
    BY JoinedIs
  <2>4. u = Joined(v, costs)
    BY <2>1 DEF v
  <2>5. /\ DOMAIN u = DOMAIN t \cup DOMAIN made \cup bindings
        /\ \A p \in DOMAIN u : u[p] = IF p \in bindings THEN Cost(body)
                                      ELSE IF p \in DOMAIN made THEN made[p] ELSE t[p]
    BY <1>4, <2>2, <2>3, <2>4
  <2>6. TreeOk(u)
    <3>1. \A p \in DOMAIN u : p \in Path /\ Len(p) > 1
      BY <1>1, <1>2, <1>3, <2>5
    <3>2. \A p \in Path : p[1] = "crons" =>
            (p \in DOMAIN u <=> p \in DOMAIN t) /\ (p \in DOMAIN t => u[p] = t[p])
      BY <1>2, <1>3, <2>5
    <3> QED
      BY <3>1, <3>2, CronsSame
  <2>7. \A p \in Path : p \in bindings => ValueAt(u, p) = Cost(body)
    BY <2>5 DEF ValueAt
  <2>8. \A p \in Path : p \notin bindings =>
          ValueAt(u, p) = ValueAt(t, p) \/ (p[1] = "budgets" /\ ~Exists(t, Budget(p[2])))
    BY <1>3, <2>5 DEF ValueAt
  <2> QED
    BY <1>6, <2>6, <2>7, <2>8 DEF u, bindings
<1> QED
  BY <1>5, <1>6

\* The cost a binding gets is the one its caller means.
CostMeant(method, body, value) ==
  \/ method = "DELETE" /\ value = "null" /\ value # Unset
  \/ method # "DELETE" /\ Cost(body) = (IF value = Unset THEN "1" ELSE value)

\* Requests to bind one job or those that a filter selects.
BindingAsked(op, req, means) ==
  /\ \/ req.kind = "binding" /\ means.where = OneJob(req.id)
     \/ req.kind = "bulk" /\ means.where = req.where /\ ~isEmptyFilter(req.where)
  /\ op # "enqueueRaw" /\ req.key \in Name /\ DOMAIN req.body \subseteq Path
  /\ means.where # Unset /\ means.path = <<"budgets", req.key>> /\ ~means.whole
  /\ DOMAIN means.given = {<<>>} /\ CostMeant(req.method, req.body, means.given[<<>>])

\* A binding of any jobs, as asked.
LEMMA ReboundRight ==
  ASSUME NEW t, TreeOk(t), NEW op, NEW req, NEW means, BindingAsked(op, req, means),
         NEW ids \in SUBSET JobsIn(t), \A i \in ids : Job(i) \o means.path \in Roots(t, means)
  PROVE  LET u == Rebound(t, req.method, req.body, ids, req.key)
         IN  /\ TreeOk(u) /\ ChangesOnly(t, u, op, means)
             /\ \A i \in ids : \A q \in DOMAIN means.given :
                  means.given[q] # Unset => ValueAt(u, (Job(i) \o means.path) \o q) = means.given[q]
<1> DEFINE key == req.key
           u == Rebound(t, req.method, req.body, ids, key)
           bindings == {Bound(i, key) : i \in ids}
<1>1. /\ key \in Name /\ ids \in SUBSET Name /\ op # "enqueueRaw"
      /\ DOMAIN req.body \subseteq Path /\ means.path = <<"budgets", key>> /\ ~means.whole
  BY JobNames DEF BindingAsked
<1> DEFINE value == means.given[<<>>]
<1>2. CostMeant(req.method, req.body, value)
  BY DEF BindingAsked
<1>3. DOMAIN means.given = {<<>>} /\ means.given[<<>>] = value
  BY DEF BindingAsked
<1> HIDE DEF value
<1>4. DOMAIN t \subseteq Path
  BY TypedTree
<1>5. /\ TreeOk(u)
      /\ \A p \in Path : p \in bindings =>
           ValueAt(u, p) = IF req.method = "DELETE" THEN "null" ELSE Cost(req.body)
      /\ \A p \in Path : p \notin bindings =>
           \/ ValueAt(u, p) = ValueAt(t, p)
           \/ p[1] = "budgets" /\ ~Exists(t, Budget(p[2]))
  <2> DEFINE body == req.body
             method == req.method
  <2>1. ids \in SUBSET Name /\ key \in Name /\ DOMAIN body \subseteq Path
    BY <1>1
  <2> DEFINE v == Rebound(t, method, body, ids, key)
  <2> HIDE DEF key, body, method, u
  <2>2. TreeOk(v)
    BY <2>1, ReboundIs
  <2>3. \A p \in Path : p \in bindings =>
          ValueAt(v, p) = IF method = "DELETE" THEN "null" ELSE Cost(body)
    BY <2>1, ReboundIs
  <2>4. \A p \in Path : p \notin bindings =>
          \/ ValueAt(v, p) = ValueAt(t, p)
          \/ p[1] = "budgets" /\ ~Exists(t, Budget(p[2]))
    BY <2>1, ReboundIs
  <2>5. u = v
    BY DEF u, body, method
  <2> HIDE DEF v, bindings
  <2> QED
    BY <2>2, <2>3, <2>4, <2>5 DEF body, method
<1>6. DOMAIN u \subseteq Path
  BY <1>5, TypedTree
<1> HIDE DEF u
<1>7. \A p \in Path : p \in bindings => ValueAt(u, p) = (IF value = Unset THEN "1" ELSE value)
  BY <1>2, <1>5 DEF CostMeant
<1>8. \A i \in ids : Job(i) \o means.path = Bound(i, key) /\ Bound(i, key) \in Path
        /\ Bound(i, key) \in bindings
  <2> SUFFICES ASSUME NEW i \in ids
               PROVE  Job(i) \o <<"budgets", key>> = Bound(i, key) /\ Bound(i, key) \in Path
    BY <1>1
  <2>1. i \in Name
    BY <1>1
  <2>2. Job(i) \o <<"budgets", key>> = Bound(i, key)
    BY <1>1, <2>1, BoundBegins
  <2>3. Bound(i, key) \in Path
    BY <1>1, <2>1, BoundIs
  <2> QED
    BY <2>2, <2>3
<1>9. ASSUME NEW p \in DOMAIN t \cup DOMAIN u, ValueAt(t, p) # ValueAt(u, p)
      PROVE  \/ \E r \in RootsOf(t, u, op, means) : IsPrefix(r, p) /\ RightAt(u, means, r, p)
             \/ p[1] = "budgets" /\ (means.where # Unset \/ op = "enqueueRaw")
               /\ ~Exists(t, Budget(p[2]))
  <2>1. p \in Path
    BY <1>4, <1>6
  <2>2. CASE p \notin bindings
    BY <1>5, <1>9, <2>1, <2>2 DEF BindingAsked
  <2>3. CASE p \in bindings
    <3>1. PICK i \in ids : p = Bound(i, key)
      BY <2>3
    <3>2. i \in Name
      BY <1>1
    <3>3. IsPrefix(p, p) /\ Rest(p, p) = <<>>
      BY <1>1, <3>1, <3>2, BoundBegins
    <3>4. Len(p) = 4 /\ p[3] = "budgets"
      BY <1>1, <3>1, <3>2, BoundIs
    <3>5. p \in RootsOf(t, u, op, means)
      BY <1>1, <1>8, <3>1 DEF RootsOf
    <3>6. GivenAt(means, <<>>) = value
      BY <1>3 DEF GivenAt
    <3>7. ValueAt(u, p) = IF value = Unset THEN "1" ELSE value
      BY <1>7, <2>1, <2>3
    <3>8. RightAt(u, means, p, p)
      BY <3>3, <3>4, <3>6, <3>7 DEF RightAt
    <3> QED
      BY <3>3, <3>5, <3>8
  <2> QED
    BY <2>2, <2>3
<1>10. ChangesOnly(t, u, op, means)
  BY <1>9, ChangesOnlyIs
<1>11. ASSUME NEW i \in ids, NEW q \in DOMAIN means.given, means.given[q] # Unset
       PROVE  ValueAt(u, (Job(i) \o means.path) \o q) = means.given[q]
  <2>1. q = <<>> /\ value # Unset
    BY <1>3, <1>11
  <2>2. Bound(i, key) \o <<>> = Bound(i, key)
    BY <1>8 DEF Path
  <2> QED
    BY <1>3, <1>7, <1>8, <2>1, <2>2
<1> QED
  BY <1>5, <1>10, <1>11 DEF u

LEMMA OneJobIs ==
  ASSUME NEW t, NEW id
  PROVE  ~isEmptyFilter(OneJob(id)) /\ Selected(t, OneJob(id)) = {i \in JobsIn(t) : i = id}
<1>1. DOMAIN OneJob(id) = {"id"} /\ OneJob(id)["id"] = {id}
  BY DEF OneJob
<1>2. ~isEmptyFilter(OneJob(id))
  BY <1>1 DEF isEmptyFilter
<1>3. {f \in DOMAIN OneJob(id) : OneJob(id)[f] # {}} = {"id"}
  BY <1>1
<1>4. ASSUME NEW i \in JobsIn(t)
      PROVE  i \in Selected(t, OneJob(id)) <=> i = id
  BY <1>1, <1>3 DEF Selected
<1> QED
  BY <1>2, <1>4 DEF Selected

\* One job, or those that a filter selects.
LEMMA BindingRight ==
  ASSUME NEW t, TreeOk(t), NEW op, NEW req, NEW means, BindingAsked(op, req, means),
         req.kind = "binding", Binding(t, req, req.id).status < 300
  PROVE  Right(t, Binding(t, req, req.id).tree, op, req, means)
<1> DEFINE u == Rebound(t, req.method, req.body, {req.id}, req.key)
<1>1. \A st, v : Answer(st, v).status = st /\ Answer(st, v).tree = v
  BY DEF Answer
<1>2. Outcome(t, req, req.id) \in {404, 422, 409, 200}
  BY DEF Outcome
<1>3. Outcome(t, req, req.id) = 200
  BY <1>1, <1>2 DEF Binding
<1>4. Binding(t, req, req.id).tree = u
  BY <1>1, <1>3 DEF Binding
<1>5. req.id \in JobsIn(t)
  BY <1>3 DEF Outcome
<1>6. means.where = OneJob(req.id) /\ means.where # Unset
  BY DEF BindingAsked
<1>7. Roots(t, means) = {Job(req.id) \o means.path}
  <2>1. Selected(t, means.where) = {req.id} /\ ~isEmptyFilter(means.where)
    BY <1>5, <1>6, OneJobIs
  <2> QED
    BY <1>6, <2>1 DEF Roots
<1> HIDE DEF u
<1>8. /\ TreeOk(u) /\ ChangesOnly(t, u, op, means)
      /\ \A q \in DOMAIN means.given :
           means.given[q] # Unset => ValueAt(u, (Job(req.id) \o means.path) \o q) = means.given[q]
  <2> DEFINE ids == {req.id}
  <2>1. ids \in SUBSET JobsIn(t) /\ \A i \in ids : Job(i) \o means.path \in Roots(t, means)
    BY <1>5, <1>7
  <2>2. req.id \in ids
    OBVIOUS
  <2>3. u = Rebound(t, req.method, req.body, ids, req.key)
    BY DEF u
  <2> HIDE DEF ids
  <2>4. /\ TreeOk(u) /\ ChangesOnly(t, u, op, means)
        /\ \A i \in ids : \A q \in DOMAIN means.given :
             means.given[q] # Unset => ValueAt(u, (Job(i) \o means.path) \o q) = means.given[q]
    BY <2>1, <2>3, ReboundRight
  <2> QED
    BY <2>2, <2>4
<1>9. LeavesInPlace(t, u, means)
  BY <1>7, <1>8 DEF LeavesInPlace, BindingAsked
<1> QED
  BY <1>4, <1>8, <1>9 DEF Right

\* A binding of the jobs a filter selects, as asked.
LEMMA BulkRight ==
  ASSUME NEW t, TreeOk(t), NEW op, NEW req, NEW means, BindingAsked(op, req, means), req.kind = "bulk"
  PROVE  Right(t, AllBound(t, req).tree, op, req, means)
<1> DEFINE ids == {i \in Selected(t, req.where) : Outcome(t, req, i) = 200}
           u == Rebound(t, req.method, req.body, ids, req.key)
<1>1. AllBound(t, req).tree = u
  BY DEF AllBound, Answer
<1>2. means.where = req.where /\ means.where # Unset /\ ~isEmptyFilter(req.where)
  BY DEF BindingAsked
<1>3. ids \in SUBSET JobsIn(t)
  BY DEF Selected
<1>4. \A i \in ids : Job(i) \o means.path \in Roots(t, means)
  BY <1>2 DEF Roots
<1> HIDE DEF ids
<1>5. TreeOk(u) /\ ChangesOnly(t, u, op, means)
  BY <1>3, <1>4, ReboundRight
<1> QED
  BY <1>1, <1>5 DEF Right, Singular

-----------------------------------------------------------------------------
(* The whole set of bindings of a job. *)

\* The bindings of a job, their keys in a body, and what each of them costs.
BudgetsOf(id) == Append(Job(id), "budgets")
KeysIn(body) == {p[1] : p \in DOMAIN Below(body, <<"budgets">>) \ {<<>>}}
CostIn(body, k) == Cost(Below(Below(body, <<"budgets">>), <<k>>))

\* The path of the bindings of a job.
LEMMA BudgetsOfIs ==
  ASSUME NEW id \in Name
  PROVE  /\ BudgetsOf(id) \in Path /\ Len(BudgetsOf(id)) = 3
         /\ \A p \in Path : IsPrefix(BudgetsOf(id), p) <=>
              Len(p) >= 3 /\ p[1] = "jobs" /\ p[2] = id /\ p[3] = "budgets"
<1>1. BudgetsOf(id) = <<"jobs", id, "budgets">>
  <2> DEFINE a == Job(id)
             x == "budgets"
             b == <<x>>
  <2>1. /\ a \in Path /\ Len(a) = 2 /\ a[1] = "jobs" /\ a[2] = id
        /\ x \in Name /\ b \in Path /\ Len(b) = 1 /\ b[1] = x
    BY Words DEF Job, Path
  <2> HIDE DEF a, x
  <2>2. Append(a, x) = a \o b
    BY <2>1, AppendIsConcat, Zenon DEF Path
  <2> HIDE DEF b
  <2>3. /\ a \o b \in Path /\ Len(a \o b) = Len(a) + Len(b)
        /\ \A n \in 1..Len(a) : (a \o b)[n] = a[n]
        /\ \A n \in 1..Len(b) : (a \o b)[Len(a) + n] = b[n]
    BY <2>1, PathPlus
  <2>4. (a \o b)[1] = a[1] /\ (a \o b)[2] = a[2] /\ (a \o b)[3] = x /\ Len(a \o b) = 3
    <3>1. 1 \in 1..Len(a) /\ 2 \in 1..Len(a) /\ 1 \in 1..Len(b)
      BY <2>1
    <3>2. (a \o b)[Len(a) + 1] = b[1]
      BY <2>3, <3>1
    <3> QED
      BY <2>1, <2>3, <3>1, <3>2
  <2>5. a \o b = <<"jobs", id, x>>
    BY <2>1, <2>3, <2>4, ShortPaths
  <2> QED
    BY <2>2, <2>5 DEF BudgetsOf, a, x
<1> DEFINE s == <<"jobs", id, "budgets">>
<1>2. s \in Path /\ Len(s) = 3
  BY Words DEF Path
<1>3. \A p \in Path : IsPrefix(s, p) <=> Len(p) >= 3 /\ p[1] = "jobs" /\ p[2] = id /\ p[3] = "budgets"
  BY Words, PrefixThree
<1> QED
  BY <1>1, <1>2, <1>3

\* All bindings of a job replaced: the bindings of the body are there, no other one,
\* and nothing else changes but that a budget may be made.
LEMMA BindingsIs ==
  ASSUME NEW t, TreeOk(t), NEW id \in JobsIn(t), NEW method, NEW body, DOMAIN body \subseteq Path,
         KeysIn(body) \subseteq Name, Bindings(t, method, body, id).status < 300
  PROVE  LET u == Bindings(t, method, body, id).tree
         IN  /\ TreeOk(u)
             /\ \A k \in KeysIn(body) : ValueAt(u, Bound(id, k)) = CostIn(body, k)
             /\ \A p \in Path : IsPrefix(BudgetsOf(id), p)
                  /\ p \notin {Bound(id, k) : k \in KeysIn(body)}
                  => p \notin DOMAIN u
             /\ \A p \in Path : ~IsPrefix(BudgetsOf(id), p) =>
                  \/ (p \in DOMAIN u <=> p \in DOMAIN t) /\ (p \in DOMAIN t => u[p] = t[p])
                  \/ p[1] = "budgets" /\ ~Exists(t, Budget(p[2]))
<1> DEFINE s == BudgetsOf(id)
           keys == KeysIn(body)
           given == Below(body, <<"budgets">>)
           made(k) == Made(t, k, Below(given, <<k>>))
           budgets == [p \in UNION {DOMAIN made(k) : k \in keys} |-> made(p[2])[p]]
           bound == {Bound(id, k) : k \in keys}
           costs == [p \in bound |-> Cost(Below(given, <<p[4]>>))]
           rest == Without(t, Under(t, s))
           u == Bindings(t, method, body, id).tree
<1>1. \A st, v : Answer(st, v).status = st /\ Answer(st, v).tree = v
  BY DEF Answer
<1>2. u = Joined(Joined(rest, budgets), costs)
  <2>1. CASE ~Ready(t, id) \/ (method = "PUT" /\ <<"budgets">> \notin DOMAIN body)
    <3>1. Bindings(t, method, body, id) = Answer(422, t)
      BY <2>1 DEF Bindings
    <3> QED
      BY <1>1, <3>1
  <2>2. CASE ~(~Ready(t, id) \/ (method = "PUT" /\ <<"budgets">> \notin DOMAIN body))
    <3>1. Bindings(t, method, body, id) = Answer(200, Joined(Joined(rest, budgets), costs))
      BY <2>2, Zenon DEF Bindings, KeysIn, BudgetsOf
    <3> QED
      BY <1>1, <3>1
  <2> QED
    BY <2>1, <2>2
<1>3. id \in Name /\ keys \subseteq Name /\ DOMAIN t \subseteq Path /\ \A p \in DOMAIN t : Len(p) > 1
  BY JobNames, TypedTree
<1>4. s \in Path /\ \A p \in Path : IsPrefix(s, p) <=>
        Len(p) >= 3 /\ p[1] = "jobs" /\ p[2] = id /\ p[3] = "budgets"
  BY <1>3, BudgetsOfIs
<1>5. /\ DOMAIN rest = {p \in DOMAIN t : ~IsPrefix(s, p)}
      /\ \A p \in DOMAIN rest : rest[p] = t[p]
  BY DEF Without, Under
<1>6. \A p \in DOMAIN budgets : p \in Path /\ Len(p) > 1 /\ p[1] = "budgets" /\ ~Exists(t, Budget(p[2]))
  <2> SUFFICES ASSUME NEW k \in keys, NEW p \in DOMAIN made(k)
               PROVE  p \in Path /\ Len(p) > 1 /\ p[1] = "budgets" /\ ~Exists(t, Budget(p[2]))
    OBVIOUS
  <2> DEFINE w == Below(given, <<k>>)
  <2>1. k \in Name
    BY <1>3
  <2>2. <<"budgets">> \in Path /\ <<k>> \in Path
    BY <2>1, Words DEF Path
  <2>3. DOMAIN given \subseteq Path
    BY <2>2, BelowIs
  <2> HIDE DEF given
  <2>4. DOMAIN w \subseteq Path
    BY <2>2, <2>3, BelowIs
  <2> HIDE DEF w, keys, budgets
  <2>5. /\ DOMAIN Made(t, k, w) \subseteq Path
        /\ \A q \in DOMAIN Made(t, k, w) :
             Len(q) > 1 /\ q[1] = "budgets" /\ q[2] = k /\ ~Exists(t, Budget(k))
    BY <1>3, <2>1, <2>4, MadeIs
  <2>6. p \in DOMAIN Made(t, k, w)
    BY DEF w
  <2> QED
    BY <2>5, <2>6
<1>7. DOMAIN costs = bound /\ \A p \in bound : costs[p] = Cost(Below(given, <<p[4]>>))
  OBVIOUS
<1>8. \A k \in keys : /\ Bound(id, k) \in Path /\ Len(Bound(id, k)) = 4 /\ Bound(id, k)[1] = "jobs"
                      /\ Bound(id, k)[2] = id /\ Bound(id, k)[3] = "budgets" /\ Bound(id, k)[4] = k
  BY <1>3, BoundIs
<1>9. \A p \in bound : p \in Path /\ Len(p) = 4 /\ p[1] = "jobs" /\ p[2] = id /\ p[3] = "budgets"
  BY <1>8
<1>10. \A k \in keys : Bound(id, k) \in bound /\ costs[Bound(id, k)] = CostIn(body, k)
  BY <1>7, <1>8 DEF CostIn
<1> HIDE DEF s, keys, given, made, budgets, bound, costs, rest, u
<1>11. /\ DOMAIN u = DOMAIN rest \cup DOMAIN budgets \cup bound
       /\ \A p \in DOMAIN u : u[p] = IF p \in bound THEN costs[p]
                                     ELSE IF p \in DOMAIN budgets THEN budgets[p] ELSE rest[p]
  <2> DEFINE v == Joined(rest, budgets)
  <2>1. /\ DOMAIN v = DOMAIN rest \cup DOMAIN budgets
        /\ \A p \in DOMAIN rest \cup DOMAIN budgets :
             v[p] = IF p \in DOMAIN budgets THEN budgets[p] ELSE rest[p]
    BY JoinedIs
  <2> HIDE DEF v
  <2>2. /\ DOMAIN Joined(v, costs) = DOMAIN v \cup DOMAIN costs
        /\ \A p \in DOMAIN v \cup DOMAIN costs :
             Joined(v, costs)[p] = IF p \in DOMAIN costs THEN costs[p] ELSE v[p]
    BY JoinedIs
  <2>3. u = Joined(v, costs)
    BY <1>2 DEF v
  <2> QED
    BY <1>7, <2>1, <2>2, <2>3
<1>12. TreeOk(u)
  <2>1. \A p \in DOMAIN u : p \in Path /\ Len(p) > 1
    BY <1>3, <1>5, <1>6, <1>9, <1>11
  <2>2. \A p \in Path : p[1] = "crons" =>
          (p \in DOMAIN u <=> p \in DOMAIN t) /\ (p \in DOMAIN t => u[p] = t[p])
    BY <1>4, <1>5, <1>6, <1>9, <1>11
  <2> QED
    BY <2>1, <2>2, CronsSame
<1>13. \A k \in keys : ValueAt(u, Bound(id, k)) = CostIn(body, k)
  BY <1>10, <1>11 DEF ValueAt
<1>14. \A p \in Path : IsPrefix(s, p) /\ p \notin bound => p \notin DOMAIN u
  BY <1>4, <1>5, <1>6, <1>11
<1>15. \A p \in Path : ~IsPrefix(s, p) =>
         \/ (p \in DOMAIN u <=> p \in DOMAIN t) /\ (p \in DOMAIN t => u[p] = t[p])
         \/ p[1] = "budgets" /\ ~Exists(t, Budget(p[2]))
  BY <1>4, <1>5, <1>6, <1>9, <1>11
<1> QED
  BY <1>12, <1>13, <1>14, <1>15 DEF u, s, keys, bound

\* The bindings a body asks for are those its caller means.
BodyGives(body, given) ==
  /\ DOMAIN body \subseteq Path /\ KeysIn(body) \subseteq Name
  /\ DOMAIN given = {<<k>> : k \in KeysIn(body)}
  /\ \A k \in KeysIn(body) : CostIn(body, k) = (IF given[<<k>>] = Unset THEN "1" ELSE given[<<k>>])

\* Requests for all bindings of a job.
WholeAsked(op, req, means) ==
  /\ op # "enqueueRaw" /\ req.kind = "bindings"
  /\ means.where = OneJob(req.id) /\ means.where # Unset
  /\ means.path = <<"budgets">> /\ means.whole /\ BodyGives(req.body, means.given)

\* Where the bindings of a job are.
LEMMA BudgetsOfBegins ==
  ASSUME NEW id \in Name
  PROVE  /\ Job(id) \o <<"budgets">> = BudgetsOf(id)
         /\ \A k \in Name : /\ BudgetsOf(id) \o <<k>> = Bound(id, k) /\ Bound(id, k) \in Path
                            /\ IsPrefix(BudgetsOf(id), Bound(id, k))
                            /\ Rest(BudgetsOf(id), Bound(id, k)) = <<k>>
<1>1. Job(id) \o <<"budgets">> = BudgetsOf(id)
  <2> DEFINE a == Job(id)
             x == "budgets"
  <2>1. a \in Seq(Name) /\ x \in Name
    BY Words DEF Job
  <2> HIDE DEF a, x
  <2>2. Append(a, x) = a \o <<x>>
    BY <2>1, AppendIsConcat, Zenon
  <2> QED
    BY <2>2 DEF a, x, BudgetsOf
<1>2. ASSUME NEW k \in Name
      PROVE  /\ BudgetsOf(id) \o <<k>> = Bound(id, k) /\ Bound(id, k) \in Path
             /\ IsPrefix(BudgetsOf(id), Bound(id, k)) /\ Rest(BudgetsOf(id), Bound(id, k)) = <<k>>
  <2> DEFINE a == BudgetsOf(id)
             b == <<k>>
             d == Bound(id, k)
  <2>1. /\ a \in Path /\ Len(a) = 3 /\ d \in Path /\ Len(d) = 4
        /\ d[1] = "jobs" /\ d[2] = id /\ d[3] = "budgets" /\ d[4] = k
    BY BudgetsOfIs, BoundIs
  <2>2. IsPrefix(a, d)
    BY <2>1, BudgetsOfIs
  <2>3. b \in Path /\ Len(b) = 1 /\ b[1] = k
    BY DEF Path
  <2> HIDE DEF a, b, d
  <2>4. Rest(a, d) \in Path /\ a \o Rest(a, d) = d
    BY <2>1, <2>2, PathRest
  <2>5. Len(a \o Rest(a, d)) = Len(a) + Len(Rest(a, d)) /\ Len(Rest(a, d)) \in Nat
    BY <2>1, <2>4, PathPlus
  <2>6. Len(Rest(a, d)) = 1
    <3> DEFINE e == Rest(a, d)
    <3> HIDE DEF e
    <3>1. a \o e = d /\ Len(a \o e) = Len(a) + Len(e) /\ Len(e) \in Nat
      BY <2>4, <2>5 DEF e
    <3>2. Len(d) = Len(a) + Len(e)
      BY <3>1
    <3>3. Len(e) \in Nat /\ Len(a) = 3 /\ Len(d) = 4
      BY <2>1, <3>1
    <3>4. \A n \in Nat : 4 = 3 + n => n = 1
      OBVIOUS
    <3>5. 4 = 3 + Len(e)
      BY <3>2, <3>3, Zenon
    <3>6. Len(e) = 1
      BY <3>3, <3>4, <3>5, Zenon
    <3> QED
      BY <3>6 DEF e
  <2>7. Rest(a, d)[1] = d[4]
    <3>1. \A i \in 1..Len(Rest(a, d)) : (a \o Rest(a, d))[Len(a) + i] = Rest(a, d)[i]
      BY <2>1, <2>4, PathPlus
    <3>2. (a \o Rest(a, d))[Len(a) + 1] = Rest(a, d)[1]
      BY <2>6, <3>1
    <3> QED
      BY <2>1, <2>4, <3>2
  <2>8. Rest(a, d) = <<k>>
    BY <2>1, <2>4, <2>6, <2>7, ShortPaths
  <2> QED
    BY <2>1, <2>2, <2>4, <2>8 DEF a, b, d
<1> QED
  BY <1>1, <1>2

\* The whole set of bindings of a job, as asked.
LEMMA WholeRight ==
  ASSUME NEW t, TreeOk(t), NEW op, NEW req, NEW means, WholeAsked(op, req, means),
         Bindings(t, req.method, req.body, req.id).status < 300
  PROVE  Right(t, Bindings(t, req.method, req.body, req.id).tree, op, req, means)
<1> DEFINE id == req.id
           body == req.body
           given == means.given
           s == BudgetsOf(id)
           keys == KeysIn(body)
           bound == {Bound(id, k) : k \in keys}
           u == Bindings(t, req.method, body, id).tree
<1>1. /\ DOMAIN body \subseteq Path /\ keys \subseteq Name /\ op # "enqueueRaw"
      /\ DOMAIN given = {<<k>> : k \in keys} /\ means.whole /\ means.path = <<"budgets">>
      /\ \A k \in keys : CostIn(body, k) = (IF given[<<k>>] = Unset THEN "1" ELSE given[<<k>>])
      /\ means.where = OneJob(id) /\ means.where # Unset
  BY DEF WholeAsked, BodyGives
<1>2. id \in JobsIn(t)
  <2>1. CASE id \notin JobsIn(t)
    <3>1. Bindings(t, req.method, body, id) = Answer(404, t)
      BY <2>1 DEF Bindings
    <3> QED
      BY <3>1 DEF Answer
  <2> QED
    BY <2>1
<1>3. id \in Name /\ DOMAIN t \subseteq Path
  BY <1>2, JobNames, TypedTree
<1>4. /\ TreeOk(u)
      /\ \A k \in keys : ValueAt(u, Bound(id, k)) = CostIn(body, k)
      /\ \A p \in Path : IsPrefix(s, p) /\ p \notin bound => p \notin DOMAIN u
      /\ \A p \in Path : ~IsPrefix(s, p) =>
           \/ (p \in DOMAIN u <=> p \in DOMAIN t) /\ (p \in DOMAIN t => u[p] = t[p])
           \/ p[1] = "budgets" /\ ~Exists(t, Budget(p[2]))
  <2> DEFINE method == req.method
             v == Bindings(t, method, body, id).tree
  <2>1. id \in JobsIn(t) /\ KeysIn(body) \subseteq Name /\ DOMAIN body \subseteq Path
    BY <1>1, <1>2
  <2>2. Bindings(t, method, body, id).status < 300
    OBVIOUS
  <2> HIDE DEF id, body, method
  <2>3. TreeOk(v)
    BY <2>1, <2>2, BindingsIs
  <2>4. \A k \in KeysIn(body) : ValueAt(v, Bound(id, k)) = CostIn(body, k)
    BY <2>1, <2>2, BindingsIs
  <2>5. \A p \in Path : IsPrefix(s, p) /\ p \notin bound => p \notin DOMAIN v
    BY <2>1, <2>2, BindingsIs
  <2>6. \A p \in Path : ~IsPrefix(s, p) =>
          \/ (p \in DOMAIN v <=> p \in DOMAIN t) /\ (p \in DOMAIN t => v[p] = t[p])
          \/ p[1] = "budgets" /\ ~Exists(t, Budget(p[2]))
    BY <2>1, <2>2, BindingsIs
  <2>7. u = v
    BY DEF method
  <2> QED
    BY <2>3, <2>4, <2>5, <2>6, <2>7
<1>5. Job(id) \o means.path = s /\ s \in Path
  BY <1>1, <1>3, BudgetsOfBegins, BudgetsOfIs
<1>6. \A k \in keys : /\ s \o <<k>> = Bound(id, k) /\ Bound(id, k) \in Path
                      /\ IsPrefix(s, Bound(id, k)) /\ Rest(s, Bound(id, k)) = <<k>>
                      /\ Len(Bound(id, k)) = 4 /\ Bound(id, k)[3] = "budgets"
  <2> SUFFICES ASSUME NEW k \in keys
               PROVE  /\ s \o <<k>> = Bound(id, k) /\ Bound(id, k) \in Path
                      /\ IsPrefix(s, Bound(id, k)) /\ Rest(s, Bound(id, k)) = <<k>>
                      /\ Len(Bound(id, k)) = 4 /\ Bound(id, k)[3] = "budgets"
    OBVIOUS
  <2>1. k \in Name
    BY <1>1
  <2> HIDE DEF keys, id
  <2>2. /\ s \o <<k>> = Bound(id, k) /\ Bound(id, k) \in Path
        /\ IsPrefix(s, Bound(id, k)) /\ Rest(s, Bound(id, k)) = <<k>>
    BY <1>3, <2>1, BudgetsOfBegins
  <2>3. Len(Bound(id, k)) = 4 /\ Bound(id, k)[3] = "budgets"
    BY <1>3, <2>1, BoundIs
  <2> QED
    BY <2>2, <2>3
<1>7. Roots(t, means) = {s}
  <2>1. Selected(t, means.where) = {id} /\ ~isEmptyFilter(means.where)
    BY <1>1, <1>2, OneJobIs
  <2> QED
    BY <1>1, <1>5, <2>1 DEF Roots
<1>8. DOMAIN u \subseteq Path
  BY <1>4, TypedTree
<1> HIDE DEF u, id, body, given, s, keys
<1>9. \A k \in keys : ValueAt(u, Bound(id, k)) = (IF given[<<k>>] = Unset THEN "1" ELSE given[<<k>>])
  BY <1>1, <1>4
<1>10. \A k \in keys : GivenAt(means, <<k>>) = given[<<k>>]
  BY <1>1 DEF GivenAt, given
<1>11. \A p \in Path : IsPrefix(s, p) /\ p \notin bound => GivenAt(means, Rest(s, p)) = Unset
  <2> SUFFICES ASSUME NEW p \in Path, IsPrefix(s, p), p \notin bound, Rest(s, p) \in DOMAIN given
               PROVE  FALSE
    BY DEF GivenAt, given
  <2>1. PICK k \in keys : Rest(s, p) = <<k>>
    BY <1>1
  <2>2. s \o Rest(s, p) = p
    BY <1>5, PathRest
  <2>3. p = Bound(id, k)
    BY <1>6, <2>1, <2>2
  <2> QED
    BY <2>3
<1>12. ASSUME NEW p \in DOMAIN t \cup DOMAIN u, ValueAt(t, p) # ValueAt(u, p)
       PROVE  \/ IsPrefix(s, p) /\ RightAt(u, means, s, p)
              \/ p[1] = "budgets" /\ ~Exists(t, Budget(p[2]))
  <2>1. p \in Path
    BY <1>3, <1>8
  <2>2. CASE ~IsPrefix(s, p)
    BY <1>4, <1>12, <2>1, <2>2 DEF ValueAt
  <2>3. CASE IsPrefix(s, p) /\ p \notin bound
    <3>1. ValueAt(u, p) = "null"
      BY <1>4, <2>1, <2>3 DEF ValueAt
    <3>2. GivenAt(means, Rest(s, p)) = Unset
      BY <1>11, <2>1, <2>3
    <3> QED
      BY <1>1, <2>3, <3>1, <3>2 DEF RightAt
  <2>4. CASE p \in bound
    <3>1. PICK k \in keys : p = Bound(id, k)
      BY <2>4
    <3>2. IsPrefix(s, p) /\ Len(p) = 4 /\ p[3] = "budgets" /\ GivenAt(means, Rest(s, p)) = given[<<k>>]
      BY <1>6, <1>10, <3>1
    <3>3. ValueAt(u, p) = (IF given[<<k>>] = Unset THEN "1" ELSE given[<<k>>])
      BY <1>9, <3>1
    <3> QED
      BY <3>2, <3>3 DEF RightAt
  <2> QED
    BY <2>2, <2>3, <2>4
<1>13. RootsOf(t, u, op, means) = {s}
  BY <1>1, <1>7 DEF RootsOf
<1>14. ChangesOnly(t, u, op, means)
  BY <1>1, <1>12, <1>13, ChangesOnlyIs
<1>15. \A q \in DOMAIN given : given[q] # Unset => ValueAt(u, s \o q) = given[q]
  <2> SUFFICES ASSUME NEW q \in DOMAIN given, given[q] # Unset
               PROVE  ValueAt(u, s \o q) = given[q]
    OBVIOUS
  <2>1. PICK k \in keys : q = <<k>>
    BY <1>1
  <2>2. s \o q = Bound(id, k)
    BY <1>6, <2>1
  <2>3. ValueAt(u, Bound(id, k)) = given[q]
    BY <1>9, <2>1
  <2> QED
    BY <2>2, <2>3
<1>16. \A p \in Under(u, s) : SubSeq(p, Len(s) + 1, Len(p)) \in DOMAIN given
  <2> SUFFICES ASSUME NEW p \in DOMAIN u, IsPrefix(s, p)
               PROVE  Rest(s, p) \in DOMAIN given
    BY DEF Under, Rest
  <2>1. p \in bound
    BY <1>4, <1>8
  <2>2. PICK k \in keys : p = Bound(id, k)
    BY <2>1
  <2>3. Rest(s, p) = <<k>>
    BY <1>6, <2>2
  <2> QED
    BY <1>1, <2>3
<1>17. LeavesInPlace(t, u, means)
  BY <1>7, <1>15, <1>16 DEF LeavesInPlace, given
<1> QED
  BY <1>4, <1>14, <1>17 DEF Right, u, id, body

\* A job that ends is gone.
SuccessAsked(op, req, means) ==
  req.kind = "success" /\ op # "enqueueRaw" /\ means = Replaces(Job(req.id), Empty)

\* A job reported done, as asked.
LEMMA SuccessRight ==
  ASSUME NEW t, TreeOk(t), NEW op, NEW req, NEW means, SuccessAsked(op, req, means), NEW ids,
         Serve(t, req, ids).status < 300
  PROVE  Right(t, Serve(t, req, ids).tree, op, req, means)
<1> DEFINE s == Job(req.id)
           ends == req.id \in JobsIn(t) /\ ~Ready(t, req.id)
           u == Serve(t, req, ids).tree
<1>1. \A st, v : Answer(st, v).status = st /\ Answer(st, v).tree = v
  BY DEF Answer
<1>2. Serve(t, req, ids) = IF ends THEN Answer(204, Without(t, Under(t, s))) ELSE Answer(404, t)
  BY DEF Serve, SuccessAsked
<1>3. req.id \in JobsIn(t) /\ u = Without(t, Under(t, s))
  BY <1>1, <1>2
<1>4. s \in Path /\ Len(s) = 2 /\ s[1] = "jobs"
  BY <1>3, JobNames, Words DEF Job, Path
<1>5. means.where = Unset /\ means.path = s /\ means.whole /\ DOMAIN means.given = {}
        /\ op # "enqueueRaw"
  BY DEF SuccessAsked, Replaces, Empty
<1> HIDE DEF s, u
<1>6. TreeOk(u)
  BY <1>3, <1>4, Deleted
<1>7. DOMAIN u = {p \in DOMAIN t : ~IsPrefix(s, p)} /\ \A p \in DOMAIN u : u[p] = t[p]
  BY <1>3 DEF Without, Under
<1>8. Roots(t, means) = {s} /\ RootsOf(t, u, op, means) = {s}
  BY <1>5 DEF Roots, RootsOf
<1>9. ASSUME NEW p \in DOMAIN t \cup DOMAIN u, ValueAt(t, p) # ValueAt(u, p)
      PROVE  IsPrefix(s, p) /\ RightAt(u, means, s, p)
  <2>1. IsPrefix(s, p) /\ ValueAt(u, p) = "null"
    BY <1>7, <1>9 DEF ValueAt
  <2>2. GivenAt(means, Rest(s, p)) = Unset
    BY <1>5 DEF GivenAt
  <2> QED
    BY <1>5, <2>1, <2>2 DEF RightAt
<1>10. ChangesOnly(t, u, op, means)
  BY <1>8, <1>9, ChangesOnlyIs
<1>11. LeavesInPlace(t, u, means)
  BY <1>5, <1>7, <1>8 DEF LeavesInPlace, Under
<1> QED
  BY <1>6, <1>10, <1>11 DEF Right, u

\* Everything is gone.
ResetAsked(op, req, means) ==
  req.kind = "reset" /\ op # "enqueueRaw" /\ means = Replaces(<<>>, Empty)

\* Everything deleted, as asked.
LEMMA ResetRight ==
  ASSUME NEW t, TreeOk(t), NEW op, NEW req, NEW means, ResetAsked(op, req, means), NEW ids
  PROVE  Right(t, Serve(t, req, ids).tree, op, req, means)
<1> DEFINE s == <<>>
<1>1. Serve(t, req, ids).tree = Empty /\ DOMAIN Empty = {}
  BY DEF Serve, ResetAsked, Answer, Empty
<1>2. s \in Path /\ Len(s) = 0
  BY DEF Path
<1>3. means.where = Unset /\ means.path = s /\ means.whole /\ DOMAIN means.given = {}
        /\ op # "enqueueRaw"
  BY DEF ResetAsked, Replaces, Empty
<1> HIDE DEF s
<1>4. TreeOk(Empty)
  BY <1>1 DEF TreeOk
<1>5. \A p \in Path : IsPrefix(s, p)
  BY <1>2, PathPrefix, ShortPaths
<1>6. Roots(t, means) = {s} /\ RootsOf(t, Empty, op, means) = {s}
  BY <1>3 DEF Roots, RootsOf
<1>7. ASSUME NEW p \in DOMAIN t \cup DOMAIN Empty, ValueAt(t, p) # ValueAt(Empty, p)
      PROVE  IsPrefix(s, p) /\ RightAt(Empty, means, s, p)
  <2>1. IsPrefix(s, p) /\ ValueAt(Empty, p) = "null"
    BY <1>1, <1>5, TypedTree DEF ValueAt
  <2>2. GivenAt(means, Rest(s, p)) = Unset
    BY <1>3 DEF GivenAt
  <2> QED
    BY <1>3, <2>1, <2>2 DEF RightAt
<1>8. ChangesOnly(t, Empty, op, means)
  BY <1>6, <1>7, ChangesOnlyIs
<1>9. LeavesInPlace(t, Empty, means)
  BY <1>1, <1>3, <1>6 DEF LeavesInPlace, Under
<1> QED
  BY <1>1, <1>4, <1>8, <1>9 DEF Right

\* The jobs of a filter are released from all budgets.
ClearAsked(op, req, means) ==
  /\ req.kind = "clear" /\ op # "enqueueRaw" /\ ~isEmptyFilter(req.where) /\ req.where # Unset
  /\ means = In(req.where, Replaces(<<"budgets">>, Empty))

\* The bindings of the jobs a filter selects deleted, as asked.
LEMMA ClearRight ==
  ASSUME NEW t, TreeOk(t), NEW op, NEW req, NEW means, ClearAsked(op, req, means)
  PROVE  Right(t, AllCleared(t, req.where).tree, op, req, means)
<1> DEFINE ids == {i \in Selected(t, req.where) : Ready(t, i)}
           gone == UNION {Under(t, Append(Job(i), "budgets")) : i \in ids}
           u == AllCleared(t, req.where).tree
<1>1. u = Without(t, gone)
  BY DEF AllCleared, Answer
<1>2. /\ means.where = req.where /\ means.where # Unset /\ op # "enqueueRaw"
      /\ means.path = <<"budgets">> /\ means.whole /\ DOMAIN means.given = {}
      /\ ~isEmptyFilter(means.where)
  BY DEF ClearAsked, In, Replaces, Empty
<1>3. ids \subseteq JobsIn(t) /\ ids \subseteq Selected(t, means.where)
  BY <1>2 DEF Selected
<1>4. JobsIn(t) \subseteq Name /\ DOMAIN t \subseteq Path /\ \A p \in DOMAIN t : Len(p) > 1
  BY JobNames, TypedTree
<1>5. \A p : p \in gone <=> p \in DOMAIN t /\ \E i \in ids : IsPrefix(BudgetsOf(i), p)
  BY DEF Under, BudgetsOf
<1>6. DOMAIN u = DOMAIN t \ gone /\ \A p \in DOMAIN u : u[p] = t[p]
  BY <1>1 DEF Without
<1> HIDE DEF u, gone, ids
<1>7. TreeOk(u)
  <2>1. \A p \in gone : p[1] = "jobs"
    BY <1>3, <1>4, <1>5, BudgetsOfIs
  <2> QED
    BY <1>4, <1>6, <2>1, CronsSame
<1>8. \A i \in ids : Job(i) \o means.path = BudgetsOf(i)
  BY <1>2, <1>3, <1>4, BudgetsOfBegins
<1>9. \A i \in ids : BudgetsOf(i) \in RootsOf(t, u, op, means)
  <2> SUFFICES ASSUME NEW i \in ids PROVE BudgetsOf(i) \in Roots(t, means)
    BY <1>2 DEF RootsOf
  <2>1. Job(i) \o means.path \in Roots(t, means)
    BY <1>2, <1>3 DEF Roots
  <2> QED
    BY <1>8, <2>1
<1>10. ASSUME NEW p \in DOMAIN t \cup DOMAIN u, ValueAt(t, p) # ValueAt(u, p)
       PROVE  \E r \in RootsOf(t, u, op, means) : IsPrefix(r, p) /\ RightAt(u, means, r, p)
  <2>1. p \in gone /\ ValueAt(u, p) = "null"
    BY <1>6, <1>10 DEF ValueAt
  <2>2. PICK i \in ids : IsPrefix(BudgetsOf(i), p)
    BY <1>5, <2>1
  <2>3. GivenAt(means, Rest(BudgetsOf(i), p)) = Unset
    BY <1>2 DEF GivenAt
  <2>4. RightAt(u, means, BudgetsOf(i), p)
    BY <1>2, <2>1, <2>3 DEF RightAt
  <2> QED
    BY <1>9, <2>2, <2>4
<1>11. ChangesOnly(t, u, op, means)
  BY <1>10, ChangesOnlyIs
<1> QED
  BY <1>7, <1>11 DEF Right, Singular, ClearAsked, u

\* A new job is asked for with its fields and its bindings.
CreateAsked(op, req, means) ==
  /\ req.kind = "create" /\ op = "enqueueRaw"
  /\ <<"status">> \in DOMAIN req.body
  /\ \A q \in DOMAIN req.body : ~IsPrefix(<<"budgets">>, q) => GivenAt(means, q) = req.body[q]
       /\ req.body[q] # Unset
  /\ BodyGives(req.body, [p \in {<<k>> : k \in KeysIn(req.body)} |-> GivenAt(means, <<"budgets", p[1]>>)])

\* A tree with a new job that has no bindings yet.
LEMMA JobAdded ==
  ASSUME NEW t, TreeOk(t), NEW id \in Name, id \notin JobsIn(t), NEW body, DOMAIN body \subseteq Path
  PROVE  LET v == Joined(t, Prefixed(Job(id), Without(body, Under(body, <<"budgets">>))))
         IN  /\ TreeOk(v)
             /\ \A p \in Path : p \in DOMAIN v <=>
                  \/ p \in DOMAIN t
                  \/ /\ IsPrefix(Job(id), p) /\ Rest(Job(id), p) \in DOMAIN body
                     /\ ~IsPrefix(<<"budgets">>, Rest(Job(id), p))
             /\ \A p \in DOMAIN t : ~IsPrefix(Job(id), p) /\ v[p] = t[p]
             /\ \A p \in DOMAIN v : p \notin DOMAIN t => v[p] = body[Rest(Job(id), p)]
<1> DEFINE s == Job(id)
           w == Without(body, Under(body, <<"budgets">>))
           f == Prefixed(s, w)
           v == Joined(t, f)
<1>1. s \in Path /\ Len(s) = 2 /\ s[1] = "jobs" /\ s[2] = id
  BY Words DEF Job, Path
<1>2. /\ DOMAIN w = {q \in DOMAIN body : ~IsPrefix(<<"budgets">>, q)}
      /\ \A q \in DOMAIN w : w[q] = body[q]
  BY DEF Without, Under
<1>3. DOMAIN t \subseteq Path /\ \A p \in DOMAIN t : Len(p) > 1
  BY TypedTree
<1>4. \A p \in Path : IsPrefix(s, p) <=> Len(p) >= 2 /\ p[1] = "jobs" /\ p[2] = id
  BY Words, PrefixTwo DEF Job
<1> HIDE DEF s, w
<1>5. DOMAIN w \subseteq Path
  BY <1>2
<1>6. /\ DOMAIN f \subseteq Path
      /\ \A p \in Path : p \in DOMAIN f <=> IsPrefix(s, p) /\ Rest(s, p) \in DOMAIN w
      /\ \A p \in DOMAIN f : f[p] = w[Rest(s, p)]
  BY <1>1, <1>5, PrefixedIs
<1> HIDE DEF f
<1>7. /\ DOMAIN v = DOMAIN t \cup DOMAIN f
      /\ \A p \in DOMAIN t \cup DOMAIN f : v[p] = IF p \in DOMAIN f THEN f[p] ELSE t[p]
  BY JoinedIs
<1> HIDE DEF v
<1>8. \A p \in DOMAIN t : ~IsPrefix(s, p)
  BY <1>3, <1>4, JobNames
<1>9. \A p \in DOMAIN t : p \notin DOMAIN f
  BY <1>3, <1>6, <1>8
<1>10. TreeOk(v)
  <2>1. \A p \in DOMAIN f : p \in Path /\ Len(p) > 1 /\ p[1] = "jobs"
    BY <1>4, <1>6, ShortPaths
  <2>2. \A p \in DOMAIN v : p \in Path /\ Len(p) > 1
    BY <1>3, <1>7, <2>1
  <2>3. \A p \in Path : p[1] = "crons" =>
          (p \in DOMAIN v <=> p \in DOMAIN t) /\ (p \in DOMAIN t => v[p] = t[p])
    BY <1>7, <2>1
  <2> QED
    BY <2>2, <2>3, CronsSame
<1>11. \A p \in Path : p \in DOMAIN v <=>
         \/ p \in DOMAIN t
         \/ IsPrefix(s, p) /\ Rest(s, p) \in DOMAIN body /\ ~IsPrefix(<<"budgets">>, Rest(s, p))
  BY <1>2, <1>6, <1>7
<1>12. \A p \in DOMAIN t : v[p] = t[p]
  BY <1>7, <1>9
<1>13. \A p \in DOMAIN v : p \notin DOMAIN t => v[p] = body[Rest(s, p)]
  BY <1>2, <1>6, <1>7
<1> QED
  BY <1>8, <1>10, <1>11, <1>12, <1>13 DEF v, f, w, s

\* What is under a job behind its bindings.
LEMMA JobRests ==
  ASSUME NEW id \in Name
  PROVE  /\ Job(id) \in Path /\ Len(Job(id)) = 2
         /\ \A p \in Path : IsPrefix(Job(id), p) <=> Len(p) >= 2 /\ p[1] = "jobs" /\ p[2] = id
         /\ \A k \in Name : IsPrefix(Job(id), Bound(id, k))
              /\ Rest(Job(id), Bound(id, k)) = <<"budgets", k>>
<1> DEFINE s == Job(id)
<1>1. s \in Path /\ Len(s) = 2
  BY Words DEF Job, Path
<1>2. \A p \in Path : IsPrefix(s, p) <=> Len(p) >= 2 /\ p[1] = "jobs" /\ p[2] = id
  BY Words, PrefixTwo DEF Job
<1> HIDE DEF s
<1>3. ASSUME NEW k \in Name
      PROVE  IsPrefix(s, Bound(id, k)) /\ Rest(s, Bound(id, k)) = <<"budgets", k>>
  <2> DEFINE b == <<"budgets", k>>
  <2>1. s \o b = Bound(id, k)
    BY BoundBegins DEF s
  <2>2. b \in Path
    BY Words DEF Path
  <2> HIDE DEF b
  <2>3. IsPrefix(s, s \o b) /\ Rest(s, s \o b) = b
    BY <1>1, <2>2, PathPlus
  <2> QED
    BY <2>1, <2>3 DEF b
<1> QED
  BY <1>1, <1>2, <1>3 DEF s

\* A job enqueued, as asked.
LEMMA CreateRight ==
  ASSUME NEW t, TreeOk(t), NEW op, NEW req, NEW means, CreateAsked(op, req, means),
         NEW ids \in SUBSET Name
  PROVE  /\ TreeOk(Created(t, req.body, ids).tree)
         /\ Created(t, req.body, ids).status < 300 => Right(t, Created(t, req.body, ids).tree, op, req, means)
<1> DEFINE a == Created(t, req.body, ids)
           body == req.body
           id == CHOOSE i \in ids \ JobsIn(t) : TRUE
           v == Joined(t, Prefixed(Job(id), Without(body, Under(body, <<"budgets">>))))
           b == Bindings(v, "POST", body, id)
           u == b.tree
<1>1. \A st, w : Answer(st, w).status = st /\ Answer(st, w).tree = w
  BY DEF Answer
<1>2. CASE ids \subseteq JobsIn(t)
  <2>1. a = Answer(503, t)
    BY <1>2 DEF Created
  <2> QED
    BY <1>1, <2>1
<1>3. CASE ~(ids \subseteq JobsIn(t))
  <2>1. a = b
    BY <1>3, Zenon DEF Created
  <2>2. id \in ids \ JobsIn(t)
    BY <1>3
  <2> HIDE DEF a, b, id, v
  <2>3. id \in Name /\ id \notin JobsIn(t)
    BY <2>2
  <2> DEFINE costs == [p \in {<<k>> : k \in KeysIn(body)} |-> GivenAt(means, <<"budgets", p[1]>>)]
  <2>4. BodyGives(body, costs) /\ \A k \in KeysIn(body) : GivenAt(means, <<"budgets", k>>) = costs[<<k>>]
    BY DEF CreateAsked
  <2> HIDE DEF costs
  <2>5. /\ DOMAIN body \subseteq Path /\ KeysIn(body) \subseteq Name
        /\ \A k \in KeysIn(body) : CostIn(body, k) = (IF costs[<<k>>] = Unset THEN "1" ELSE costs[<<k>>])
    BY <2>4 DEF BodyGives
  <2>6. /\ TreeOk(v)
        /\ \A p \in Path : p \in DOMAIN v <=>
             \/ p \in DOMAIN t
             \/ /\ IsPrefix(Job(id), p) /\ Rest(Job(id), p) \in DOMAIN body
                /\ ~IsPrefix(<<"budgets">>, Rest(Job(id), p))
        /\ \A p \in DOMAIN t : ~IsPrefix(Job(id), p) /\ v[p] = t[p]
        /\ \A p \in DOMAIN v : p \notin DOMAIN t => v[p] = body[Rest(Job(id), p)]
    <3> HIDE DEF body
    <3> QED
      BY <2>3, <2>5, JobAdded, Zenon DEF v
  <2>7. CASE ~(b.status < 300)
    <3>1. b \in {Answer(404, v), Answer(422, v)}
      <4>1. CASE id \notin JobsIn(v)
        BY <4>1 DEF Bindings, b
      <4>2. CASE id \in JobsIn(v) /\ ~Ready(v, id)
        BY <4>2 DEF Bindings, b
      <4>3. CASE id \in JobsIn(v) /\ Ready(v, id)
        <5>1. b.status = 200
          BY <1>1, <4>3 DEF Bindings, b
        <5> QED
          BY <2>7, <5>1
      <4> QED
        BY <4>1, <4>2, <4>3
    <3> QED
      BY <1>1, <2>1, <2>6, <2>7, <3>1 DEF a
  <2>8. CASE b.status < 300
    <3>1. id \in JobsIn(v)
      <4>1. CASE id \notin JobsIn(v)
        <5>1. b = Answer(404, v)
          BY <4>1 DEF Bindings, b
        <5> QED
          BY <1>1, <2>8, <5>1
      <4> QED
        BY <4>1
    <3>2. /\ TreeOk(u)
          /\ \A k \in KeysIn(body) : ValueAt(u, Bound(id, k)) = CostIn(body, k)
          /\ \A p \in Path : IsPrefix(BudgetsOf(id), p) /\ p \notin {Bound(id, k) : k \in KeysIn(body)}
               => p \notin DOMAIN u
          /\ \A p \in Path : ~IsPrefix(BudgetsOf(id), p) =>
               \/ (p \in DOMAIN u <=> p \in DOMAIN v) /\ (p \in DOMAIN v => u[p] = v[p])
               \/ p[1] = "budgets" /\ ~Exists(v, Budget(p[2]))
      <4> DEFINE method == "POST"
                 x == Bindings(v, method, body, id).tree
      <4>1. u = x
        BY DEF b
      <4>2. Bindings(v, method, body, id).status < 300
        BY <2>8 DEF b
      <4> HIDE DEF body, method
      <4>3. TreeOk(x)
        BY <2>5, <2>6, <3>1, <4>2, BindingsIs
      <4>4. \A k \in KeysIn(body) : ValueAt(x, Bound(id, k)) = CostIn(body, k)
        BY <2>5, <2>6, <3>1, <4>2, BindingsIs
      <4>5. \A p \in Path : IsPrefix(BudgetsOf(id), p) /\ p \notin {Bound(id, k) : k \in KeysIn(body)}
              => p \notin DOMAIN x
        BY <2>5, <2>6, <3>1, <4>2, BindingsIs
      <4>6. \A p \in Path : ~IsPrefix(BudgetsOf(id), p) =>
              \/ (p \in DOMAIN x <=> p \in DOMAIN v) /\ (p \in DOMAIN v => x[p] = v[p])
              \/ p[1] = "budgets" /\ ~Exists(v, Budget(p[2]))
        BY <2>5, <2>6, <3>1, <4>2, BindingsIs
      <4> HIDE DEF x
      <4> QED
        BY <4>1, <4>3, <4>4, <4>5, <4>6
    <3> HIDE DEF u, body
    <3>3. DOMAIN t \subseteq Path /\ DOMAIN u \subseteq Path /\ DOMAIN v \subseteq Path
            /\ DOMAIN t \subseteq DOMAIN v
      <4>1. DOMAIN t \subseteq Path /\ DOMAIN u \subseteq Path /\ DOMAIN v \subseteq Path
        BY <2>6, <3>2, TypedTree
      <4> QED
        BY <2>6, <4>1
    <3>4. \A p : p[1] = "budgets" /\ ~Exists(v, Budget(p[2])) => ~Exists(t, Budget(p[2]))
      BY <3>3 DEF Exists, Under
    <3>5. /\ \A p \in Path : IsPrefix(BudgetsOf(id), p) <=>
               Len(p) >= 3 /\ p[1] = "jobs" /\ p[2] = id /\ p[3] = "budgets"
          /\ \A p \in Path : IsPrefix(Job(id), p) <=> Len(p) >= 2 /\ p[1] = "jobs" /\ p[2] = id
          /\ Job(id) \in Path /\ Len(Job(id)) = 2
      BY <2>3, BudgetsOfIs, JobRests
    <3>6. \A k \in KeysIn(body) :
            /\ Bound(id, k) \in Path /\ Len(Bound(id, k)) = 4 /\ Bound(id, k)[3] = "budgets"
            /\ IsPrefix(Job(id), Bound(id, k)) /\ Rest(Job(id), Bound(id, k)) = <<"budgets", k>>
      <4> SUFFICES ASSUME NEW k \in KeysIn(body)
                   PROVE  /\ Bound(id, k) \in Path /\ Len(Bound(id, k)) = 4
                               /\ Bound(id, k)[3] = "budgets"
                          /\ IsPrefix(Job(id), Bound(id, k))
                               /\ Rest(Job(id), Bound(id, k)) = <<"budgets", k>>
        OBVIOUS
      <4>1. k \in Name
        BY <2>5
      <4>2. Bound(id, k) \in Path /\ Len(Bound(id, k)) = 4 /\ Bound(id, k)[3] = "budgets"
        BY <2>3, <4>1, BoundIs
      <4>3. IsPrefix(Job(id), Bound(id, k)) /\ Rest(Job(id), Bound(id, k)) = <<"budgets", k>>
        BY <2>3, <4>1, JobRests
      <4> QED
        BY <4>2, <4>3
    <3>7. RootsOf(t, u, op, means) = {Job(id)}
      <4>1. JobsIn(u) \subseteq JobsIn(t) \cup {id}
        <5> SUFFICES ASSUME NEW i \in JobsIn(u), i # id PROVE i \in JobsIn(t)
          OBVIOUS
        <5>1. PICK p \in DOMAIN u : p[1] = "jobs" /\ p[2] = i
          BY <3>2, JobNames
        <5>2. p \in Path /\ ~IsPrefix(BudgetsOf(id), p) /\ ~IsPrefix(Job(id), p)
          BY <3>3, <3>5, <5>1
        <5>3. p \in DOMAIN v
          BY <3>2, <5>1, <5>2
        <5>4. p \in DOMAIN t
          BY <2>6, <5>2, <5>3
        <5> QED
          BY <5>1, <5>4, JobNames
      <4>2. id \in JobsIn(u)
        <5> DEFINE q == <<"status">>
                   p == Job(id) \o q
        <5>1. q \in Path /\ Len(q) = 1 /\ q[1] = "status" /\ q \in DOMAIN body
          BY Words DEF Path, CreateAsked, body
        <5>2. ~IsPrefix(<<"budgets">>, q)
          BY <5>1, Words, PrefixOne
        <5> HIDE DEF q
        <5>3. /\ p \in Path /\ Len(p) = 3 /\ p[3] = "status"
              /\ IsPrefix(Job(id), p) /\ Rest(Job(id), p) = q
          <6>1. /\ p \in Path /\ Len(p) = Len(Job(id)) + Len(q)
                /\ \A i \in 1..Len(q) : p[Len(Job(id)) + i] = q[i]
                /\ IsPrefix(Job(id), p) /\ Rest(Job(id), p) = q
            BY <3>5, <5>1, PathPlus
          <6>2. p[Len(Job(id)) + 1] = q[1]
            BY <5>1, <6>1
          <6> QED
            BY <3>5, <5>1, <6>1, <6>2
        <5> HIDE DEF p
        <5>4. p \in DOMAIN v
          BY <2>6, <5>1, <5>2, <5>3
        <5>5. p \in DOMAIN u /\ p[1] = "jobs" /\ p[2] = id
          BY <3>2, <3>5, <5>3, <5>4
        <5> QED
          BY <3>2, <5>5, JobNames
      <4> QED
        BY <2>3, <4>1, <4>2 DEF RootsOf, CreateAsked
    <3>8. ASSUME NEW p \in DOMAIN t \cup DOMAIN u, ValueAt(t, p) # ValueAt(u, p)
          PROVE  \/ IsPrefix(Job(id), p) /\ RightAt(u, means, Job(id), p)
                 \/ p[1] = "budgets" /\ ~Exists(t, Budget(p[2]))
      <4>1. p \in Path
        BY <3>3
      <4>2. CASE p \in {Bound(id, k) : k \in KeysIn(body)}
        <5>1. PICK k \in KeysIn(body) : p = Bound(id, k)
          BY <4>2
        <5>2. GivenAt(means, Rest(Job(id), p)) = costs[<<k>>]
          BY <2>4, <3>6, <5>1
        <5>3. ValueAt(u, p) = (IF costs[<<k>>] = Unset THEN "1" ELSE costs[<<k>>])
          BY <2>5, <3>2, <5>1
        <5> QED
          BY <3>6, <5>1, <5>2, <5>3 DEF RightAt
      <4>3. CASE IsPrefix(BudgetsOf(id), p) /\ p \notin {Bound(id, k) : k \in KeysIn(body)}
        <5>1. p \notin DOMAIN u
          BY <3>2, <4>1, <4>3
        <5>2. p \notin DOMAIN t
          BY <2>6, <3>5, <4>1, <4>3
        <5> QED
          BY <3>8, <5>1, <5>2
      <4>4. CASE ~IsPrefix(BudgetsOf(id), p) /\ p[1] = "budgets" /\ ~Exists(v, Budget(p[2]))
        BY <3>4, <4>4
      <4>5. CASE ~IsPrefix(BudgetsOf(id), p) /\ (p \in DOMAIN u <=> p \in DOMAIN v)
                   /\ (p \in DOMAIN v => u[p] = v[p])
        <5>1. p \in DOMAIN u /\ p \in DOMAIN v /\ p \notin DOMAIN t
          BY <2>6, <3>3, <3>8, <4>5 DEF ValueAt
        <5>2. /\ IsPrefix(Job(id), p) /\ Rest(Job(id), p) \in DOMAIN body
              /\ ~IsPrefix(<<"budgets">>, Rest(Job(id), p)) /\ u[p] = body[Rest(Job(id), p)]
          BY <2>6, <4>1, <4>5, <5>1
        <5>3. /\ GivenAt(means, Rest(Job(id), p)) = body[Rest(Job(id), p)]
              /\ body[Rest(Job(id), p)] # Unset
          BY <5>2 DEF CreateAsked, body
        <5> QED
          BY <5>1, <5>2, <5>3 DEF RightAt, ValueAt
      <4> QED
        BY <3>2, <4>1, <4>2, <4>3, <4>4, <4>5
    <3>9. ChangesOnly(t, u, op, means)
      <4>1. op = "enqueueRaw"
        BY DEF CreateAsked
      <4> QED
        BY <3>7, <3>8, <4>1, ChangesOnlyIs
    <3>10. ~Singular(req)
      BY DEF CreateAsked, Singular
    <3>11. a.tree = u
      BY <2>1 DEF u
    <3>12. Right(t, a.tree, op, req, means) /\ TreeOk(a.tree)
      BY <3>2, <3>9, <3>10, <3>11 DEF Right
    <3> QED
      BY <3>12 DEF a
  <2> QED
    BY <2>7, <2>8
<1> QED
  BY <1>2, <1>3

\* A request asks the server for what its caller means.
Asked(op, req, means) ==
  \/ DocumentAsked(op, req, means)
  \/ BindingAsked(op, req, means)
  \/ WholeAsked(op, req, means)
  \/ ClearAsked(op, req, means)
  \/ CreateAsked(op, req, means)
  \/ SuccessAsked(op, req, means)
  \/ ResetAsked(op, req, means)

\* The server that refuses changes nothing.
LEMMA Refused ==
  ASSUME NEW t, NEW req
  PROVE  /\ req.method \in {"POST", "PUT", "PATCH", "DELETE"} =>
              Document(t, req).status < 300 \/ Document(t, req).tree = t
         /\ Binding(t, req, req.id).status < 300 \/ Binding(t, req, req.id).tree = t
         /\ \A method, body, id : \/ Bindings(t, method, body, id).status < 300
                                  \/ Bindings(t, method, body, id).tree = t
<1>1. \A st, v : Answer(st, v).status = st /\ Answer(st, v).tree = v
  BY DEF Answer
<1>2. ASSUME req.method \in {"POST", "PUT", "PATCH", "DELETE"}
      PROVE  Document(t, req).status < 300 \/ Document(t, req).tree = t
  <2> DEFINE there == Exists(t, req.path) \/ req.path = <<"crons">>
             bound == req.path[1] = "budgets" /\ \E i \in JobsIn(t) : Bound(i, req.path[2]) \in DOMAIN t
             merged == Joined(t, Prefixed(req.path, req.body))
  <2>1. CASE req.method = "POST" /\ there
    <3>1. Document(t, req) = Answer(409, t)
      BY <2>1 DEF Document
    <3> QED
      BY <1>1, <3>1
  <2>2. CASE req.method = "PUT" \/ (req.method = "POST" /\ ~there)
    <3>1. Document(t, req) = Answer(200, Completed(Placed(t, req.path, req.body)))
      BY <2>2 DEF Document
    <3> QED
      BY <1>1, <3>1
  <2>3. CASE req.method \in {"PATCH", "DELETE"} /\ ~there
    <3>1. Document(t, req) = Answer(404, t)
      BY <2>3 DEF Document
    <3> QED
      BY <1>1, <3>1
  <2>4. CASE req.method = "PATCH" /\ there
    <3>1. Document(t, req) = Answer(200, [p \in {q \in DOMAIN merged : merged[q] # "null"} |-> merged[p]])
      BY <2>4 DEF Document
    <3> QED
      BY <1>1, <3>1
  <2>5. CASE req.method = "DELETE" /\ there
    <3>1. Document(t, req) = IF bound THEN Answer(409, t) ELSE Answer(204, Without(t, Under(t, req.path)))
      BY <2>5 DEF Document
    <3> QED
      BY <1>1, <3>1
  <2> QED
    BY <1>2, <2>1, <2>2, <2>3, <2>4, <2>5
<1>3. Binding(t, req, req.id).status < 300 \/ Binding(t, req, req.id).tree = t
  BY <1>1 DEF Binding
<1>4. ASSUME NEW method, NEW body, NEW id
      PROVE  \/ Bindings(t, method, body, id).status < 300
             \/ Bindings(t, method, body, id).tree = t
  <2>1. CASE id \notin JobsIn(t)
    BY <1>1, <2>1 DEF Bindings
  <2>2. CASE id \in JobsIn(t) /\ (~Ready(t, id) \/ (method = "PUT" /\ <<"budgets">> \notin DOMAIN body))
    <3>1. Bindings(t, method, body, id) = Answer(422, t)
      BY <2>2 DEF Bindings
    <3> QED
      BY <1>1, <3>1
  <2>3. CASE id \in JobsIn(t) /\ ~(~Ready(t, id) \/ (method = "PUT" /\ <<"budgets">> \notin DOMAIN body))
    <3>1. Bindings(t, method, body, id).status = 200
      BY <1>1, <2>3 DEF Bindings
    <3> QED
      BY <3>1
  <2> QED
    BY <2>1, <2>2, <2>3
<1> QED
  BY <1>2, <1>3, <1>4

\* What the server does with a request is what its caller means.
LEMMA ServeRight ==
  ASSUME NEW t, TreeOk(t), NEW op, NEW req, NEW means, Asked(op, req, means), NEW ids \in SUBSET Name
  PROVE  /\ TreeOk(Serve(t, req, ids).tree)
         /\ Serve(t, req, ids).status < 300 => Right(t, Serve(t, req, ids).tree, op, req, means)
<1> DEFINE a == Serve(t, req, ids)
<1>0. SUFFICES TreeOk(a.tree) /\ (a.status < 300 => Right(t, a.tree, op, req, means))
  OBVIOUS
<1>r. \A v : Right(t, v, op, req, means) => TreeOk(v)
  BY DEF Right
<1>1. CASE DocumentAsked(op, req, means)
  <2>1. a = Document(t, req)
    BY <1>1 DEF Serve, DocumentAsked
  <2>2. req.method \in {"POST", "PUT", "PATCH", "DELETE"}
    BY <1>1 DEF DocumentAsked
  <2>3. Document(t, req).status < 300 \/ Document(t, req).tree = t
    BY <2>2, Refused
  <2>4. Document(t, req).status < 300 => Right(t, Document(t, req).tree, op, req, means)
    BY <1>1, DocumentRight
  <2> QED
    BY <1>r, <2>1, <2>3, <2>4
<1>2. CASE BindingAsked(op, req, means) /\ req.kind = "binding"
  <2>1. a = Binding(t, req, req.id)
    BY <1>2 DEF Serve
  <2>2. Binding(t, req, req.id).status < 300 \/ Binding(t, req, req.id).tree = t
    BY Refused
  <2>3. Binding(t, req, req.id).status < 300 => Right(t, Binding(t, req, req.id).tree, op, req, means)
    BY <1>2, BindingRight
  <2> QED
    BY <1>r, <2>1, <2>2, <2>3
<1>3. CASE BindingAsked(op, req, means) /\ req.kind = "bulk"
  <2>1. a = AllBound(t, req)
    BY <1>3 DEF Serve
  <2>2. Right(t, AllBound(t, req).tree, op, req, means)
    BY <1>3, BulkRight
  <2> QED
    BY <1>r, <2>1, <2>2
<1>4. CASE WholeAsked(op, req, means)
  <2> DEFINE b == Bindings(t, req.method, req.body, req.id)
  <2>1. a = b
    BY <1>4 DEF Serve, WholeAsked
  <2>2. b.status < 300 \/ b.tree = t
    BY Refused
  <2>3. b.status < 300 => Right(t, b.tree, op, req, means)
    BY <1>4, WholeRight
  <2> HIDE DEF b
  <2> QED
    BY <1>r, <2>1, <2>2, <2>3
<1>5. CASE ClearAsked(op, req, means)
  <2>1. a = AllCleared(t, req.where)
    BY <1>5 DEF Serve, ClearAsked
  <2>2. Right(t, AllCleared(t, req.where).tree, op, req, means)
    BY <1>5, ClearRight
  <2> QED
    BY <1>r, <2>1, <2>2
<1>6. CASE CreateAsked(op, req, means)
  <2>1. a = Created(t, req.body, ids)
    BY <1>6 DEF Serve, CreateAsked
  <2> QED
    BY <1>6, <2>1, CreateRight
<1>7. CASE SuccessAsked(op, req, means)
  <2>1. a.status < 300 \/ a.tree = t
    BY <1>7 DEF Serve, SuccessAsked, Answer
  <2>2. a.status < 300 => Right(t, a.tree, op, req, means)
    BY <1>7, SuccessRight
  <2> HIDE DEF a
  <2> QED
    BY <1>r, <2>1, <2>2
<1>8. CASE ResetAsked(op, req, means)
  <2>1. Right(t, a.tree, op, req, means)
    BY <1>8, ResetRight
  <2> QED
    BY <1>r, <2>1
<1> QED
  BY <1>1, <1>2, <1>3, <1>4, <1>5, <1>6, <1>7, <1>8 DEF Asked, BindingAsked

-----------------------------------------------------------------------------
(* What the methods ask for: bodies. *)

\* Whatever is given as an argument is told apart from the words of the model.
LEMMA Arguments ==
  /\ Unset # "null" /\ Unset # "true" /\ Unset # "false" /\ Unset # "1" /\ Unset # "3"
  /\ Unset # "ready" /\ Unset # "a" /\ Unset \notin Filters
  /\ \A id \in Ids : OneJob(id) # Unset
  /\ "g" \in Name /\ "e" \in Name /\ "f" \in Name
  /\ Keys \subseteq Name /\ Ids \subseteq Name
  BY ArgumentsAssumption DEF OneJob

\* Paths of one step.
LEMMA OneStep ==
  ASSUME NEW a \in Name
  PROVE  <<a>> \in Path /\ Len(<<a>>) = 1 /\ <<a>>[1] = a
  BY DEF Path

LEMMA StepsDiffer ==
  ASSUME NEW a, NEW b, a # b
  PROVE  <<a>> # <<b>>
<1>1. <<a>>[1] = a /\ <<b>>[1] = b
  OBVIOUS
<1> QED
  BY <1>1

\* The body that binds a job.
LEMMA BindingBodyIs ==
  ASSUME NEW b, DOMAIN b.createWith \subseteq Path
  PROVE  /\ DOMAIN bindingBodyToApi(b) \subseteq Path
         /\ <<"cost">> \in DOMAIN bindingBodyToApi(b) <=> b.cost # Unset
         /\ b.cost # Unset => bindingBodyToApi(b)[<<"cost">>] = b.cost
<1> DEFINE f == stripUndefined([p \in {<<"cost">>} |-> b.cost])
           s == <<"create_with">>
           g == Prefixed(s, b.createWith)
           k == <<"cost">>
<1>1. DOMAIN f = {p \in {k} : b.cost # Unset} /\ \A p \in DOMAIN f : f[p] = b.cost
  BY DEF stripUndefined
<1>2. k \in Path /\ Len(k) = 1 /\ k[1] = "cost" /\ s \in Path
  BY Words, OneStep
<1>3. ~IsPrefix(s, k)
  BY <1>2, Words, PrefixOne
<1> HIDE DEF f, k, s
<1>4. /\ DOMAIN g \subseteq Path
      /\ \A p \in Path : p \in DOMAIN g <=> IsPrefix(s, p) /\ Rest(s, p) \in DOMAIN b.createWith
  BY <1>2, PrefixedIs
<1>5. k \notin DOMAIN g
  BY <1>2, <1>3, <1>4
<1>6. bindingBodyToApi(b) = Joined(f, g)
  BY DEF bindingBodyToApi, f, s
<1> HIDE DEF g
<1>7. /\ DOMAIN Joined(f, g) = DOMAIN f \cup DOMAIN g
      /\ \A p \in DOMAIN f \cup DOMAIN g : Joined(f, g)[p] = IF p \in DOMAIN g THEN g[p] ELSE f[p]
  BY JoinedIs
<1>8. DOMAIN bindingBodyToApi(b) \subseteq Path
  BY <1>1, <1>2, <1>4, <1>6, <1>7
<1>9. k \in DOMAIN bindingBodyToApi(b) <=> b.cost # Unset
  BY <1>1, <1>5, <1>6, <1>7
<1>10. b.cost # Unset => bindingBodyToApi(b)[k] = b.cost
  BY <1>1, <1>5, <1>6, <1>7
<1> QED
  BY <1>8, <1>9, <1>10 DEF k

\* An element of an array of bindings.
LEMMA BindingToApiIs ==
  ASSUME NEW b, DOMAIN b.createWith \subseteq Path
  PROVE  /\ DOMAIN bindingToApi(b) \subseteq Path /\ <<"key">> \in DOMAIN bindingToApi(b)
         /\ <<"cost">> \in DOMAIN bindingToApi(b) <=> b.cost # Unset
         /\ b.cost # Unset => bindingToApi(b)[<<"cost">>] = b.cost
<1> DEFINE f == [p \in {<<"key">>} |-> b.key]
           g == bindingBodyToApi(b)
           k == <<"cost">>
<1>1. k # <<"key">>
  BY StepsDiffer
<1>2. /\ DOMAIN g \subseteq Path
      /\ k \in DOMAIN g <=> b.cost # Unset
      /\ b.cost # Unset => g[k] = b.cost
  BY BindingBodyIs
<1>3. DOMAIN f = {<<"key">>} /\ <<"key">> \in Path
  BY Words, OneStep
<1>4. bindingToApi(b) = Joined(f, g)
  BY DEF bindingToApi
<1> HIDE DEF f, g, k
<1>5. /\ DOMAIN Joined(f, g) = DOMAIN f \cup DOMAIN g
      /\ \A p \in DOMAIN f \cup DOMAIN g : Joined(f, g)[p] = IF p \in DOMAIN g THEN g[p] ELSE f[p]
  BY JoinedIs
<1>6. DOMAIN bindingToApi(b) \subseteq Path /\ <<"key">> \in DOMAIN bindingToApi(b)
  BY <1>2, <1>3, <1>4, <1>5
<1>7. k \in DOMAIN bindingToApi(b) <=> b.cost # Unset
  BY <1>1, <1>2, <1>3, <1>4, <1>5
<1>8. b.cost # Unset => bindingToApi(b)[k] = b.cost
  BY <1>1, <1>2, <1>3, <1>4, <1>5
<1> QED
  BY <1>6, <1>7, <1>8 DEF k

\* A binding costs 1 unless it says otherwise.
LEMMA CostIs ==
  ASSUME NEW b, DOMAIN b.createWith \subseteq Path
  PROVE  Cost(bindingBodyToApi(b)) = (IF b.cost = Unset THEN "1" ELSE b.cost)
  BY BindingBodyIs DEF Cost

\* The bindings of an array.
LEMMA BindingOf ==
  ASSUME NEW bs \in BindingSets, NEW k \in KeysOf(bs)
  PROVE  /\ BindingTo(bs, k) \in Range(bs) /\ BindingTo(bs, k).key = k
         /\ k \in Name /\ DOMAIN BindingTo(bs, k).createWith \subseteq Path
<1>1. \E b \in Range(bs) : b.key = k
  BY DEF KeysOf
<1>2. BindingTo(bs, k) \in Range(bs) /\ BindingTo(bs, k).key = k
  BY <1>1 DEF BindingTo
<1> QED
  BY <1>2, ArgumentsAssumption

\* The bindings as they are sent: by their keys, each with its cost if it has one.
LEMMA BudgetsAre ==
  ASSUME NEW bs \in BindingSets
  PROVE  /\ DOMAIN budgetBindingsToApi(bs) \subseteq Path
         /\ {p[1] : p \in DOMAIN budgetBindingsToApi(bs) \ {<<>>}} = KeysOf(bs)
         /\ \A k \in KeysOf(bs) :
              LET p == <<k>> \o <<"cost">>
                  cost == BindingTo(bs, k).cost
              IN  /\ p \in DOMAIN budgetBindingsToApi(bs) <=> cost # Unset
                  /\ cost # Unset => budgetBindingsToApi(bs)[p] = cost
<1> DEFINE A == budgetBindingsToApi(bs)
           element(k) == Prefixed(<<k>>, bindingToApi(BindingTo(bs, k)))
           keys == KeysOf(bs)
<1>1. CASE bs = <<>>
  <2>1. keys = {}
    BY <1>1 DEF KeysOf, Range
  <2>2. A = Empty /\ DOMAIN A = {}
    BY <1>1 DEF budgetBindingsToApi, Empty
  <2> QED
    BY <2>1, <2>2
<1>2. CASE bs # <<>>
  <2>1. /\ DOMAIN A = {<<>>} \cup UNION {DOMAIN element(k) : k \in keys}
        /\ \A p \in DOMAIN A : p # <<>> => A[p] = element(p[1])[p]
    BY <1>2 DEF budgetBindingsToApi
  <2>2. ASSUME NEW k \in keys
        PROVE  /\ k \in Name /\ <<k>> \in Path
               /\ DOMAIN element(k) \subseteq Path
               /\ \A p \in DOMAIN element(k) : Len(p) >= 1 /\ p[1] = k
               /\ \A q \in Path : <<k>> \o q \in DOMAIN element(k) <=> q \in DOMAIN bindingToApi(BindingTo(bs, k))
               /\ \A q \in Path : <<k>> \o q \in DOMAIN element(k) =>
                    element(k)[<<k>> \o q] = bindingToApi(BindingTo(bs, k))[q]
    <3> DEFINE s == <<k>>
               w == bindingToApi(BindingTo(bs, k))
    <3>1. k \in Name /\ s \in Path /\ Len(s) = 1 /\ s[1] = k /\ DOMAIN w \subseteq Path
      BY BindingOf, BindingToApiIs, OneStep
    <3>2. \A p \in Path : IsPrefix(s, p) <=> Len(p) >= 1 /\ p[1] = k
      BY <3>1, PrefixOne
    <3> HIDE DEF s, w
    <3>3. /\ DOMAIN Prefixed(s, w) \subseteq Path
          /\ \A p \in Path : p \in DOMAIN Prefixed(s, w) <=> IsPrefix(s, p) /\ Rest(s, p) \in DOMAIN w
          /\ \A p \in DOMAIN Prefixed(s, w) : Prefixed(s, w)[p] = w[Rest(s, p)]
      BY <3>1, PrefixedIs
    <3>4. element(k) = Prefixed(s, w)
      BY DEF s, w
    <3>5. \A q \in Path : s \o q \in Path /\ IsPrefix(s, s \o q) /\ Rest(s, s \o q) = q
      BY <3>1, PathPlus
    <3> HIDE DEF element
    <3>6. \A q \in Path : s \o q \in DOMAIN element(k) <=> q \in DOMAIN w
      BY <3>3, <3>4, <3>5
    <3>7. \A q \in Path : s \o q \in DOMAIN element(k) => element(k)[s \o q] = w[q]
      BY <3>3, <3>4, <3>5
    <3>8. DOMAIN element(k) \subseteq Path /\ \A p \in DOMAIN element(k) : Len(p) >= 1 /\ p[1] = k
      BY <3>2, <3>3, <3>4
    <3> QED
      BY <3>1, <3>6, <3>7, <3>8 DEF s, w
  <2> HIDE DEF A, element, keys
  <2>3. DOMAIN A \subseteq Path
    <3>1. <<>> \in Path
      BY DEF Path
    <3> QED
      BY <2>1, <2>2, <3>1
  <2>4. \A k \in keys : <<>> \notin DOMAIN element(k)
    <3> DEFINE e == <<>>
    <3>1. Len(e) = 0
      OBVIOUS
    <3> HIDE DEF e
    <3>2. \A k \in keys : \A p \in DOMAIN element(k) : Len(p) >= 1
      BY <2>2
    <3>3. \A k \in keys : e \notin DOMAIN element(k)
      BY <3>1, <3>2
    <3> QED
      BY <3>3 DEF e
  <2>5. \A k \in keys : \E p \in DOMAIN element(k) : p \in DOMAIN A \ {<<>>} /\ p[1] = k
    <3> SUFFICES ASSUME NEW k \in keys
                 PROVE  \E p \in DOMAIN element(k) : p \in DOMAIN A \ {<<>>} /\ p[1] = k
      OBVIOUS
    <3> DEFINE q == <<"key">>
    <3>1. q \in Path /\ q \in DOMAIN bindingToApi(BindingTo(bs, k))
      BY BindingOf, BindingToApiIs, Words, OneStep DEF keys
    <3> HIDE DEF q
    <3>2. <<k>> \o q \in DOMAIN element(k)
      BY <2>2, <3>1
    <3> DEFINE p == <<k>> \o q
    <3>3. p \in DOMAIN element(k)
      BY <3>2
    <3> HIDE DEF p
    <3>4. p \in DOMAIN A /\ p # <<>> /\ p[1] = k
      BY <2>1, <2>2, <2>4, <3>3
    <3> QED
      BY <3>3, <3>4
  <2>6. \A p \in DOMAIN A \ {<<>>} : p[1] \in keys /\ p \in DOMAIN element(p[1])
    BY <2>1, <2>2
  <2>7. {p[1] : p \in DOMAIN A \ {<<>>}} = keys
    <3>1. \A k \in keys : \E p \in DOMAIN A \ {<<>>} : p[1] = k
      BY <2>5
    <3> QED
      BY <2>6, <3>1
  <2>8. ASSUME NEW k \in keys
        PROVE  /\ <<k>> \o <<"cost">> \in DOMAIN A <=> BindingTo(bs, k).cost # Unset
               /\ BindingTo(bs, k).cost # Unset => A[<<k>> \o <<"cost">>] = BindingTo(bs, k).cost
    <3> DEFINE q == <<"cost">>
               w == bindingToApi(BindingTo(bs, k))
               p == <<k>> \o q
    <3>1. /\ q \in Path
          /\ q \in DOMAIN w <=> BindingTo(bs, k).cost # Unset
          /\ BindingTo(bs, k).cost # Unset => w[q] = BindingTo(bs, k).cost
      BY BindingOf, BindingToApiIs, Words, OneStep DEF keys
    <3> HIDE DEF q
    <3>2. p \in DOMAIN element(k) <=> q \in DOMAIN w
      BY <2>2, <3>1
    <3>3. p \in DOMAIN element(k) => element(k)[p] = w[q]
      BY <2>2, <3>1
    <3>4. p # <<>> /\ p[1] = k
      <4>1. k \in Name
        BY <2>2
      <4> DEFINE s == <<k>>
      <4>2. s \in Path /\ Len(s) = 1 /\ s[1] = k
        BY <4>1, OneStep
      <4> HIDE DEF s
      <4>3. /\ Len(s \o q) = Len(s) + Len(q) /\ Len(q) \in Nat
            /\ \A i \in 1..Len(s) : (s \o q)[i] = s[i]
        BY <3>1, <4>2, PathPlus
      <4>4. Len(s \o q) > 0 /\ (s \o q)[1] = k
        BY <4>2, <4>3
      <4>5. p = s \o q
        BY DEF s
      <4> HIDE DEF p
      <4>6. Len(p) > 0 /\ p[1] = k
        BY <4>4, <4>5
      <4> QED
        BY <4>6
    <3> HIDE DEF p, w
    <3>5. p \in DOMAIN A <=> p \in DOMAIN element(k)
      BY <2>1, <2>6, <3>4
    <3>6. p \in DOMAIN A => A[p] = element(k)[p]
      BY <2>1, <3>4
    <3> QED
      BY <3>1, <3>2, <3>3, <3>5, <3>6 DEF p, q
  <2> QED
    BY <2>3, <2>7, <2>8 DEF A, keys
<1> QED
  BY <1>1, <1>2

\* What the caller means the bindings to cost.
LEMMA CostsAre ==
  ASSUME NEW bs
  PROVE  /\ DOMAIN Costs(bs) = {<<k>> : k \in KeysOf(bs)}
         /\ \A k \in KeysOf(bs) : Costs(bs)[<<k>>] = BindingTo(bs, k).cost
<1>1. DOMAIN Costs(bs) = {<<k>> : k \in KeysOf(bs)}
  BY DEF Costs
<1>2. ASSUME NEW k \in KeysOf(bs) PROVE Costs(bs)[<<k>>] = BindingTo(bs, k).cost
  <2> DEFINE p == <<k>>
  <2>1. p \in {<<key>> : key \in KeysOf(bs)} /\ p[1] = k
    OBVIOUS
  <2> HIDE DEF p
  <2>2. Costs(bs)[p] = BindingTo(bs, p[1]).cost
    BY <2>1 DEF Costs
  <2> QED
    BY <2>1, <2>2 DEF p
<1> QED
  BY <1>1, <1>2

\* A body with the bindings of an array gives their costs.
LEMMA GivesBudgets ==
  ASSUME NEW bs \in BindingSets, NEW body, DOMAIN body \subseteq Path,
         \A q \in Path : q # <<>> =>
           /\ q \in DOMAIN Below(body, <<"budgets">>) <=> q \in DOMAIN budgetBindingsToApi(bs)
           /\ q \in DOMAIN budgetBindingsToApi(bs) =>
                Below(body, <<"budgets">>)[q] = budgetBindingsToApi(bs)[q]
  PROVE  /\ KeysIn(body) = KeysOf(bs) /\ KeysOf(bs) \subseteq Name
         /\ \A k \in KeysOf(bs) :
              CostIn(body, k) = (IF BindingTo(bs, k).cost = Unset THEN "1" ELSE BindingTo(bs, k).cost)
<1> DEFINE G == Below(body, <<"budgets">>)
           A == budgetBindingsToApi(bs)
<1>1. DOMAIN G \subseteq Path /\ DOMAIN A \subseteq Path
  BY BelowIs, BudgetsAre, Words, OneStep
<1>2. KeysOf(bs) \subseteq Name /\ {p[1] : p \in DOMAIN A \ {<<>>}} = KeysOf(bs)
  BY BindingOf, BudgetsAre
<1>3. DOMAIN G \ {<<>>} = DOMAIN A \ {<<>>}
  BY <1>1
<1>4. KeysIn(body) = KeysOf(bs)
  BY <1>2, <1>3 DEF KeysIn
<1>5. ASSUME NEW k \in KeysOf(bs)
      PROVE  CostIn(body, k) = (IF BindingTo(bs, k).cost = Unset THEN "1" ELSE BindingTo(bs, k).cost)
  <2> DEFINE s == <<k>>
             q == <<"cost">>
             e == <<>>
             p == s \o q
  <2>1. /\ p \in DOMAIN A <=> BindingTo(bs, k).cost # Unset
        /\ BindingTo(bs, k).cost # Unset => A[p] = BindingTo(bs, k).cost
    BY BudgetsAre
  <2>2. s \in Path /\ Len(s) = 1 /\ q \in Path /\ Len(q) = 1 /\ Len(e) = 0
    BY <1>2, OneStep, Words
  <2>3. \A x \in Path : x # e => (x \in DOMAIN G <=> x \in DOMAIN A) /\ (x \in DOMAIN A => G[x] = A[x])
    OBVIOUS
  <2> HIDE DEF s, q, e, G, A
  <2>4. p \in Path /\ Len(p) = Len(s) + Len(q)
    BY <2>2, PathPlus
  <2> HIDE DEF p
  <2>5. p # e
    BY <2>2, <2>4
  <2>6. (p \in DOMAIN G <=> p \in DOMAIN A) /\ (p \in DOMAIN A => G[p] = A[p])
    BY <2>3, <2>4, <2>5
  <2>7. /\ q \in DOMAIN Below(G, s) <=> p \in DOMAIN G
        /\ q \in DOMAIN Below(G, s) => Below(G, s)[q] = G[p]
    BY <1>1, <2>2, BelowIs DEF p
  <2>8. Cost(Below(G, s)) = IF q \in DOMAIN Below(G, s) THEN Below(G, s)[q] ELSE "1"
    BY DEF Cost, q
  <2>9. CostIn(body, k) = Cost(Below(G, s))
    BY DEF CostIn, G, s
  <2> QED
    BY <2>1, <2>6, <2>7, <2>8, <2>9
<1> QED
  BY <1>2, <1>4, <1>5

\* A field of a document and what is put under it.
LEMMA BelowPrefixed ==
  ASSUME NEW w, DOMAIN w \subseteq Path
  PROVE  LET f == Prefixed(<<"budgets">>, w)
         IN  /\ DOMAIN f \subseteq Path
             /\ \A p \in DOMAIN f : IsPrefix(<<"budgets">>, p)
             /\ \A q \in Path : <<"budgets">> \o q \in DOMAIN f <=> q \in DOMAIN w
             /\ \A q \in DOMAIN w : f[<<"budgets">> \o q] = w[q]
<1> DEFINE s == <<"budgets">>
           f == Prefixed(s, w)
<1>1. s \in Path
  BY Words, OneStep
<1> HIDE DEF s
<1>2. /\ DOMAIN f \subseteq Path
      /\ \A p \in Path : p \in DOMAIN f <=> IsPrefix(s, p) /\ Rest(s, p) \in DOMAIN w
      /\ \A p \in DOMAIN f : f[p] = w[Rest(s, p)]
  BY <1>1, PrefixedIs
<1>3. \A q \in Path : s \o q \in Path /\ IsPrefix(s, s \o q) /\ Rest(s, s \o q) = q
  BY <1>1, PathPlus
<1> HIDE DEF f
<1>4. \A p \in DOMAIN f : IsPrefix(s, p)
  BY <1>2
<1>5. \A q \in Path : s \o q \in DOMAIN f <=> q \in DOMAIN w
  BY <1>2, <1>3
<1>6. \A q \in DOMAIN w : f[s \o q] = w[q]
  BY <1>2, <1>3, <1>5
<1> QED
  BY <1>2, <1>4, <1>5, <1>6 DEF f, s

\* The body of replaceJobBudgets() gives the bindings of the array.
LEMMA BudgetsBodyGives ==
  ASSUME NEW bs \in BindingSets
  PROVE  BodyGives(BudgetsBody(bs), Costs(bs))
<1> DEFINE w == IF bs = <<>> THEN Leaf("[]") ELSE budgetBindingsToApi(bs)
           body == Prefixed(<<"budgets">>, w)
           A == budgetBindingsToApi(bs)
           s == <<"budgets">>
<1>1. DOMAIN A \subseteq Path /\ s \in Path
  BY BudgetsAre, Words, OneStep
<1>2. \A q : q # <<>> => (q \in DOMAIN w <=> q \in DOMAIN A) /\ (q \in DOMAIN A => w[q] = A[q])
  <2>1. CASE bs = <<>>
    BY <2>1 DEF Leaf, budgetBindingsToApi, Empty
  <2>2. CASE bs # <<>>
    BY <2>2
  <2> QED
    BY <2>1, <2>2
<1>3. DOMAIN w \subseteq Path
  <2>1. CASE bs = <<>>
    <3>1. DOMAIN w = {<<>>}
      BY <2>1 DEF Leaf
    <3>2. <<>> \in Path
      BY DEF Path
    <3> QED
      BY <3>1, <3>2
  <2>2. CASE bs # <<>>
    BY <1>1, <2>2
  <2> QED
    BY <2>1, <2>2
<1>4. body = BudgetsBody(bs)
  BY DEF BudgetsBody
<1> HIDE DEF w, A
<1>5. /\ DOMAIN body \subseteq Path
      /\ \A q \in Path : s \o q \in DOMAIN body <=> q \in DOMAIN w
      /\ \A q \in DOMAIN w : body[s \o q] = w[q]
  BY <1>3, BelowPrefixed
<1> HIDE DEF body, s
<1>6. /\ \A q \in Path : q \in DOMAIN Below(body, s) <=> s \o q \in DOMAIN body
      /\ \A q \in DOMAIN Below(body, s) : Below(body, s)[q] = body[s \o q]
  BY <1>1, <1>5, BelowIs
<1>7. \A q \in Path : q # <<>> =>
        /\ q \in DOMAIN Below(body, s) <=> q \in DOMAIN A
        /\ q \in DOMAIN A => Below(body, s)[q] = A[q]
  BY <1>2, <1>5, <1>6
<1>8. /\ KeysIn(body) = KeysOf(bs) /\ KeysOf(bs) \subseteq Name
      /\ \A k \in KeysOf(bs) :
           CostIn(body, k) = (IF BindingTo(bs, k).cost = Unset THEN "1" ELSE BindingTo(bs, k).cost)
  BY <1>5, <1>7, GivesBudgets DEF s, A
<1> QED
  BY <1>4, <1>5, <1>8, CostsAre DEF BodyGives

\* The fields of a job that a program enqueues.
NewJob == [p \in {<<"status">>, <<"queue">>} |-> IF p = <<"status">> THEN "ready" ELSE "a"]

\* What a program enqueues, apart from the budgets.
LEMMA NewJobIs ==
  /\ DOMAIN NewJob = {<<"status">>, <<"queue">>} /\ DOMAIN NewJob \subseteq Path
  /\ \A p \in DOMAIN NewJob : NewJob[p] # Unset
  /\ \A p \in DOMAIN NewJob : Len(p) = 1 /\ p[1] # "budgets" /\ ~IsPrefix(<<"budgets">>, p)
  /\ DOMAIN stripUndefined(NewJob) = DOMAIN NewJob
  /\ \A p \in DOMAIN NewJob : stripUndefined(NewJob)[p] = NewJob[p]
<1>1. DOMAIN NewJob = {<<"status">>, <<"queue">>}
  BY DEF NewJob
<1>2. \A p \in DOMAIN NewJob : NewJob[p] # Unset
  BY Arguments DEF NewJob
<1>3. /\ <<"status">> \in Path /\ Len(<<"status">>) = 1 /\ <<"status">>[1] = "status"
      /\ <<"queue">> \in Path /\ Len(<<"queue">>) = 1 /\ <<"queue">>[1] = "queue"
  BY Words, OneStep
<1>4. \A p \in DOMAIN NewJob : p \in Path /\ Len(p) = 1 /\ p[1] # "budgets"
  BY <1>1, <1>3
<1>5. \A p \in DOMAIN NewJob : ~IsPrefix(<<"budgets">>, p)
  BY <1>4, Words, PrefixOne
<1>6. /\ DOMAIN stripUndefined(NewJob) = DOMAIN NewJob
      /\ \A p \in DOMAIN NewJob : stripUndefined(NewJob)[p] = NewJob[p]
  BY <1>2 DEF stripUndefined
<1> QED
  BY <1>1, <1>2, <1>4, <1>5, <1>6

\* The request of enqueueRaw() asks for the job its caller means.
LEMMA EnqueueAsks ==
  ASSUME NEW bs \in BindingSets, NEW req, NEW means,
         req.kind = "create", req.body = enqueueToApi(NewJob, bs),
         means.given = Joined(NewJob, Prefixed(<<"budgets">>, Costs(bs)))
  PROVE  CreateAsked("enqueueRaw", req, means)
<1> DEFINE s == <<"budgets">>
           A == budgetBindingsToApi(bs)
           f == Prefixed(s, A)
           g == Prefixed(s, Costs(bs))
           job == stripUndefined(NewJob)
           body == Joined(job, f)
           given == Joined(NewJob, g)
<1>1. /\ DOMAIN job = DOMAIN NewJob /\ DOMAIN NewJob \subseteq Path
      /\ \A p \in DOMAIN NewJob : job[p] = NewJob[p] /\ NewJob[p] # Unset /\ ~IsPrefix(s, p)
      /\ <<"status">> \in DOMAIN NewJob
  BY NewJobIs
<1>2. s \in Path /\ DOMAIN A \subseteq Path /\ KeysOf(bs) \subseteq Name
  BY BudgetsAre, BindingOf, Words, OneStep
<1>3. DOMAIN Costs(bs) \subseteq Path
  <2>1. \A k \in KeysOf(bs) : <<k>> \in Path
    BY <1>2, OneStep
  <2> DEFINE keys == KeysOf(bs)
             w == Costs(bs)
  <2>2. DOMAIN w = {<<k>> : k \in keys}
    BY CostsAre
  <2> HIDE DEF keys, w
  <2>3. \A k \in keys : <<k>> \in Path
    BY <2>1 DEF keys
  <2>4. DOMAIN w \subseteq Path
    BY <2>2, <2>3
  <2> QED
    BY <2>4 DEF w
<1>4. /\ DOMAIN f \subseteq Path /\ \A p \in DOMAIN f : IsPrefix(s, p)
      /\ \A q \in Path : s \o q \in DOMAIN f <=> q \in DOMAIN A
      /\ \A q \in DOMAIN A : f[s \o q] = A[q]
  BY <1>2, BelowPrefixed
<1>5. /\ DOMAIN g \subseteq Path /\ \A p \in DOMAIN g : IsPrefix(s, p)
      /\ \A q \in DOMAIN Costs(bs) : s \o q \in DOMAIN g /\ g[s \o q] = Costs(bs)[q]
  <2> DEFINE w == Costs(bs)
  <2> HIDE DEF w
  <2>1. /\ DOMAIN Prefixed(<<"budgets">>, w) \subseteq Path
        /\ \A p \in DOMAIN Prefixed(<<"budgets">>, w) : IsPrefix(<<"budgets">>, p)
        /\ \A q \in Path : <<"budgets">> \o q \in DOMAIN Prefixed(<<"budgets">>, w) <=> q \in DOMAIN w
        /\ \A q \in DOMAIN w : Prefixed(<<"budgets">>, w)[<<"budgets">> \o q] = w[q]
    BY <1>3, BelowPrefixed DEF w
  <2> QED
    BY <1>3, <2>1 DEF w
<1>6. \A k \in KeysOf(bs) : s \o <<k>> = <<"budgets", k>>
  <2> SUFFICES ASSUME NEW k \in KeysOf(bs) PROVE s \o <<k>> = <<"budgets", k>>
    OBVIOUS
  <2> DEFINE e == <<k>>
             c == s \o e
  <2>1. s \in Path /\ Len(s) = 1 /\ s[1] = "budgets" /\ e \in Path /\ Len(e) = 1 /\ e[1] = k
    BY <1>2, Words, OneStep
  <2> HIDE DEF s, e
  <2>2. /\ c \in Path /\ Len(c) = Len(s) + Len(e)
        /\ \A i \in 1..Len(s) : c[i] = s[i]
        /\ \A i \in 1..Len(e) : c[Len(s) + i] = e[i]
    BY <2>1, PathPlus
  <2> HIDE DEF c
  <2>3. c[1] = "budgets" /\ c[Len(s) + 1] = k /\ Len(c) = 2
    BY <2>1, <2>2
  <2>4. c = <<"budgets", k>>
    BY <2>1, <2>2, <2>3, ShortPaths
  <2> QED
    BY <2>4 DEF c, e
<1>7. req.body = body /\ means.given = given
  BY DEF enqueueToApi
<1> HIDE DEF s, f, g, A, job
<1>8. /\ DOMAIN body = DOMAIN job \cup DOMAIN f
      /\ \A p \in DOMAIN job \cup DOMAIN f : body[p] = IF p \in DOMAIN f THEN f[p] ELSE job[p]
  BY JoinedIs
<1>9. /\ DOMAIN given = DOMAIN NewJob \cup DOMAIN g
      /\ \A p \in DOMAIN NewJob \cup DOMAIN g : given[p] = IF p \in DOMAIN g THEN g[p] ELSE NewJob[p]
  BY JoinedIs
<1> HIDE DEF body, given
<1>10. DOMAIN body \subseteq Path /\ <<"status">> \in DOMAIN body
  BY <1>1, <1>4, <1>8
<1>11. ASSUME NEW q \in DOMAIN body, ~IsPrefix(s, q)
       PROVE  GivenAt(means, q) = body[q] /\ body[q] # Unset
  <2>1. q \in DOMAIN NewJob /\ q \notin DOMAIN f /\ q \notin DOMAIN g
    BY <1>1, <1>4, <1>5, <1>8, <1>11
  <2>2. body[q] = NewJob[q] /\ given[q] = NewJob[q] /\ q \in DOMAIN given
    BY <1>1, <1>8, <1>9, <2>1
  <2> QED
    BY <1>1, <1>7, <2>1, <2>2 DEF GivenAt
<1>12. \A k \in KeysOf(bs) : GivenAt(means, <<"budgets", k>>) = BindingTo(bs, k).cost
  <2> SUFFICES ASSUME NEW k \in KeysOf(bs) PROVE GivenAt(means, <<"budgets", k>>) = BindingTo(bs, k).cost
    OBVIOUS
  <2> DEFINE q == <<k>>
             p == <<"budgets", k>>
  <2>1. q \in DOMAIN Costs(bs) /\ Costs(bs)[q] = BindingTo(bs, k).cost
    BY CostsAre
  <2>2. s \o q = p
    BY <1>6
  <2> HIDE DEF p, q
  <2>3. p \in DOMAIN g /\ g[p] = Costs(bs)[q]
    BY <1>5, <2>1, <2>2
  <2>4. p \in DOMAIN given /\ given[p] = Costs(bs)[q]
    BY <1>9, <2>3
  <2> QED
    BY <1>7, <2>1, <2>4 DEF GivenAt, p
<1>13. /\ \A q \in Path : q \in DOMAIN Below(body, s) <=> s \o q \in DOMAIN body
       /\ \A q \in DOMAIN Below(body, s) : Below(body, s)[q] = body[s \o q]
  BY <1>2, <1>10, BelowIs
<1>14. \A q \in Path : s \o q \in DOMAIN body <=> q \in DOMAIN A
  <2>1. \A q \in Path : IsPrefix(s, s \o q)
    BY <1>2, PathPlus
  <2>2. \A q \in Path : s \o q \notin DOMAIN job
    BY <1>1, <2>1
  <2> QED
    BY <1>4, <1>8, <2>2
<1>15. \A q \in DOMAIN A : s \o q \in DOMAIN body /\ body[s \o q] = A[q]
  BY <1>2, <1>4, <1>8, <1>14
<1>16. \A q \in Path : q # <<>> =>
         /\ q \in DOMAIN Below(body, s) <=> q \in DOMAIN A
         /\ q \in DOMAIN A => Below(body, s)[q] = A[q]
  BY <1>13, <1>14, <1>15
<1>17. /\ KeysIn(body) = KeysOf(bs) /\ KeysOf(bs) \subseteq Name
       /\ \A k \in KeysOf(bs) :
            CostIn(body, k) = (IF BindingTo(bs, k).cost = Unset THEN "1" ELSE BindingTo(bs, k).cost)
  BY <1>10, <1>16, GivesBudgets DEF s, A
<1> DEFINE costs == [p \in {<<k>> : k \in KeysIn(body)} |-> GivenAt(means, <<"budgets", p[1]>>)]
<1>18. BodyGives(body, costs)
  <2>1. \A k \in KeysIn(body) : costs[<<k>>] = BindingTo(bs, k).cost
    <3> SUFFICES ASSUME NEW k \in KeysIn(body) PROVE costs[<<k>>] = BindingTo(bs, k).cost
      OBVIOUS
    <3> DEFINE q == <<k>>
    <3>1. q \in {<<x>> : x \in KeysIn(body)} /\ q[1] = k
      OBVIOUS
    <3> HIDE DEF q
    <3>2. costs[q] = GivenAt(means, <<"budgets", k>>)
      BY <3>1
    <3> QED
      BY <1>12, <1>17, <3>2 DEF q
  <2>2. DOMAIN costs = {<<k>> : k \in KeysIn(body)}
    OBVIOUS
  <2> HIDE DEF costs
  <2> QED
    BY <1>10, <1>17, <2>1, <2>2 DEF BodyGives
<1> QED
  BY <1>7, <1>10, <1>11, <1>18 DEF CreateAsked, s

-----------------------------------------------------------------------------
(* What the methods ask for. *)

\* A method sends one request, which asks for what its caller means.
Asks(c) == \E op, req, means : Send(c, op, req, means) /\ Asked(op, req, means)

\* A request that replaces a document asks for that document.
LEMMA DocReplaces ==
  ASSUME NEW op, op # "enqueueRaw", NEW method \in {"POST", "PUT"}, NEW path \in Path, Len(path) > 1,
         NEW given, DOMAIN given \subseteq Path,
         path[1] = "crons" =>
           Len(path) \in {2, 4} /\ \A q \in DOMAIN given : given[q] = "null" => ~Flag(path \o q)
  PROVE  Asked(op, Doc(method, path, stripUndefined(given)), Replaces(path, given))
<1> DEFINE req == Doc(method, path, stripUndefined(given))
           means == Replaces(path, given)
<1>1. /\ req.kind = "document" /\ req.method = method /\ req.path = path
           /\ req.body = stripUndefined(given)
      /\ means.where = Unset /\ means.path = path /\ means.whole /\ means.given = given
  BY DEF Doc, Replaces
<1> HIDE DEF req, means
<1>2. Len(path) > 0
  BY ShortPaths
<1>3. path[1] = "crons" => Len(path) \in {1, 2, 4}
  OBVIOUS
<1>4. DocumentAsked(op, req, means)
  BY <1>1, <1>2, <1>3 DEF DocumentAsked
<1> QED
  BY <1>4 DEF Asked, req, means

\* A request that amends a document asks for the fields that are set.
LEMMA DocSets ==
  ASSUME NEW op, op # "enqueueRaw", NEW path \in Path, Len(path) > 1,
         NEW given, DOMAIN given \subseteq Path,
         path[1] = "crons" =>
           Len(path) \in {2, 4} /\ \A q \in DOMAIN given : q = <<"paused">> /\ given[q] # "null"
  PROVE  Asked(op, Doc("PATCH", path, stripUndefined(given)), Sets(path, given))
<1> DEFINE req == Doc("PATCH", path, stripUndefined(given))
           means == Sets(path, given)
<1>1. /\ req.kind = "document" /\ req.method = "PATCH" /\ req.path = path
           /\ req.body = stripUndefined(given)
      /\ means.where = Unset /\ means.path = path /\ ~means.whole /\ means.given = given
  BY DEF Doc, Sets
<1> HIDE DEF req, means
<1>2. Len(path) > 0
  BY ShortPaths
<1>3. path[1] = "crons" => Len(path) \in {1, 2, 4}
  OBVIOUS
<1>4. DocumentAsked(op, req, means)
  BY <1>1, <1>2, <1>3 DEF DocumentAsked
<1> QED
  BY <1>4 DEF Asked, req, means

\* A request that deletes a document asks for nothing to be there.
LEMMA DocDeletes ==
  ASSUME NEW op, op # "enqueueRaw", NEW path \in Path, Len(path) > 0,
         path[1] = "crons" => Len(path) \in {1, 2, 4}
  PROVE  /\ Asked(op, Doc("DELETE", path, Empty), Replaces(path, Empty))
         /\ Asked(op, Bare(Doc("DELETE", path, Empty)), Replaces(path, Empty))
<1> DEFINE req == Doc("DELETE", path, Empty)
           means == Replaces(path, Empty)
<1>1. /\ req.kind = "document" /\ req.method = "DELETE" /\ req.path = path
      /\ Bare(req).kind = "document" /\ Bare(req).method = "DELETE" /\ Bare(req).path = path
      /\ means.where = Unset /\ means.path = path /\ means.whole /\ means.given = Empty
  BY DEF Doc, Bare, Replaces
<1>2. DOMAIN Empty = {}
  BY DEF Empty
<1> HIDE DEF req, means
<1>3. DocumentAsked(op, req, means)
  BY <1>1, <1>2 DEF DocumentAsked
<1>4. DocumentAsked(op, Bare(req), means)
  BY <1>1, <1>2 DEF DocumentAsked
<1> QED
  BY <1>3, <1>4 DEF Asked, req, means

\* The paths of the documents.
LEMMA DocPaths ==
  /\ \A key \in Name : Budget(key) \in Path /\ Len(Budget(key)) = 2 /\ Budget(key)[1] = "budgets"
  /\ \A id \in Name : Job(id) \in Path /\ Len(Job(id)) = 2 /\ Job(id)[1] = "jobs"
  /\ Group("g") \in Path /\ Len(Group("g")) = 2
  /\ \A e \in {"e", "f"} : Entry("g", e) \in Path /\ Len(Entry("g", e)) = 4
  /\ <<"crons">> \in Path /\ Len(<<"crons">>) = 1
<1>1. \A key \in Name : Budget(key) \in Path /\ Len(Budget(key)) = 2 /\ Budget(key)[1] = "budgets"
  BY Words DEF Budget, Path
<1>2. \A id \in Name : Job(id) \in Path /\ Len(Job(id)) = 2 /\ Job(id)[1] = "jobs"
  BY Words DEF Job, Path
<1>3. Group("g") \in Path /\ Len(Group("g")) = 2
  BY Words, Arguments DEF Group, Path
<1>4. \A e \in {"e", "f"} : Entry("g", e) \in Path /\ Len(Entry("g", e)) = 4
  BY Words, Arguments DEF Entry, Path
<1>5. <<"crons">> \in Path /\ Len(<<"crons">>) = 1
  BY Words, OneStep
<1> QED
  BY <1>1, <1>2, <1>3, <1>4, <1>5

\* defineBudget(), updateBudget(), deleteBudget().
LEMMA BudgetCallAsks ==
  ASSUME NEW c, BudgetCall(c)
  PROVE  Asks(c)
<1>1. CASE defineBudget(c)
  <2>1. PICK key \in Keys, policy \in Policies, replace \in BOOLEAN :
          Send(c, "defineBudget",
               Doc(IF replace THEN "PUT" ELSE "POST", Budget(key), stripUndefined(policy)),
               Replaces(Budget(key), policy))
    BY <1>1 DEF defineBudget, budgetPolicyToApi
  <2> DEFINE method == IF replace THEN "PUT" ELSE "POST"
             path == Budget(key)
  <2>2. method \in {"POST", "PUT"} /\ path \in Path /\ Len(path) > 1 /\ path[1] # "crons"
    BY Arguments, DocPaths
  <2>3. DOMAIN policy \subseteq Path
    BY ArgumentsAssumption
  <2> HIDE DEF method, path
  <2>4. Asked("defineBudget", Doc(method, path, stripUndefined(policy)), Replaces(path, policy))
    BY <2>2, <2>3, DocReplaces
  <2> QED
    BY <2>1, <2>4 DEF Asks, method, path
<1>2. CASE updateBudget(c)
  <2>1. PICK key \in Keys, opts \in Patches :
          Send(c, "updateBudget", Doc("PATCH", Budget(key), stripUndefined(opts)),
            Sets(Budget(key), opts))
    BY <1>2 DEF updateBudget, updateBudgetToApi
  <2> DEFINE path == Budget(key)
  <2>2. path \in Path /\ Len(path) > 1 /\ path[1] # "crons"
    <3>1. key \in Name
      BY Arguments
    <3>2. path \in Path /\ Len(path) = 2 /\ path[1] = "budgets"
      BY <3>1, DocPaths
    <3> QED
      BY <3>2
  <2>3. DOMAIN opts \subseteq Path
    BY ArgumentsAssumption
  <2> HIDE DEF path
  <2>4. Asked("updateBudget", Doc("PATCH", path, stripUndefined(opts)), Sets(path, opts))
    BY <2>2, <2>3, DocSets
  <2> QED
    BY <2>1, <2>4 DEF Asks, path
<1>3. CASE deleteBudget(c)
  <2>1. PICK key \in Keys :
          Send(c, "deleteBudget", Doc("DELETE", Budget(key), Empty), Replaces(Budget(key), Empty))
    BY <1>3 DEF deleteBudget
  <2> DEFINE path == Budget(key)
  <2>2. path \in Path /\ Len(path) > 0 /\ path[1] # "crons"
    BY Arguments, DocPaths
  <2> HIDE DEF path
  <2>3. Asked("deleteBudget", Doc("DELETE", path, Empty), Replaces(path, Empty))
    BY <2>2, DocDeletes
  <2> QED
    BY <2>1, <2>3 DEF Asks, path
<1> QED
  BY <1>1, <1>2, <1>3 DEF BudgetCall

\* A request about one binding of one job asks for its cost.
LEMMA OneBindingAsks ==
  ASSUME NEW c, NEW op, op # "enqueueRaw", NEW method, NEW id \in Ids, NEW key \in Name,
         NEW body, DOMAIN body \subseteq Path, NEW value, CostMeant(method, body, value),
         jobBudgetRequest(c, op, method, id, key, body, value)
  PROVE  Asks(c)
<1> DEFINE req == [kind |-> "binding", method |-> method, id |-> id, key |-> key, body |-> body,
             bare |-> FALSE]
           means == OfJob(id, Sets(<<"budgets", key>>, Leaf(value)))
<1>1. Send(c, op, req, means)
  BY DEF jobBudgetRequest
<1>2. req.kind = "binding" /\ req.method = method /\ req.id = id /\ req.key = key /\ req.body = body
  OBVIOUS
<1>3. /\ means.where = OneJob(id) /\ means.path = <<"budgets", key>> /\ means.whole = FALSE
      /\ means.given = Leaf(value)
  BY DEF OfJob, In, Sets
<1>4. OneJob(id) # Unset
  BY Arguments
<1>5. DOMAIN Leaf(value) = {<<>>} /\ Leaf(value)[<<>>] = value
  BY DEF Leaf
<1> HIDE DEF req, means
<1>6. BindingAsked(op, req, means)
  BY <1>2, <1>3, <1>4, <1>5 DEF BindingAsked
<1> QED
  BY <1>1, <1>6 DEF Asks, Asked

\* A request about one binding of many jobs asks for its cost.
LEMMA BulkBindingAsks ==
  ASSUME NEW c, NEW op, op # "enqueueRaw", NEW method, NEW where \in Filters, NEW key \in Name,
         NEW body, DOMAIN body \subseteq Path, NEW value, CostMeant(method, body, value),
         bulkBudgetRequest(c, op, method, key, where, body, value)
  PROVE  Asks(c)
<1> DEFINE req == [kind |-> "bulk", method |-> method, where |-> where, key |-> key,
             body |-> body, bare |-> FALSE]
           means == In(where, Sets(<<"budgets", key>>, Leaf(value)))
<1>1. Send(c, op, req, means) /\ ~isEmptyFilter(where)
  BY DEF bulkBudgetRequest
<1>2. req.kind = "bulk" /\ req.method = method /\ req.where = where /\ req.key = key /\ req.body = body
  OBVIOUS
<1>3. /\ means.where = where /\ means.path = <<"budgets", key>> /\ means.whole = FALSE
      /\ means.given = Leaf(value)
  BY DEF In, Sets
<1>4. where # Unset
  BY Arguments
<1>5. DOMAIN Leaf(value) = {<<>>} /\ Leaf(value)[<<>>] = value
  BY DEF Leaf
<1> HIDE DEF req, means
<1>6. BindingAsked(op, req, means)
  BY <1>1, <1>2, <1>3, <1>4, <1>5 DEF BindingAsked
<1> QED
  BY <1>1, <1>6 DEF Asks, Asked

\* The bodies of those requests, and the costs that are meant by them.
LEMMA BindingArguments ==
  /\ \A bs \in BindingSets : Len(bs) = 1 =>
       LET b == bs[1]
       IN  /\ b.key \in Name /\ DOMAIN bindingBodyToApi(b) \subseteq Path
           /\ \A method \in {"POST", "PUT"} : CostMeant(method, bindingBodyToApi(b), b.cost)
  /\ DOMAIN CostBody("3") \subseteq Path /\ CostMeant("PATCH", CostBody("3"), "3")
  /\ DOMAIN Empty = {} /\ CostMeant("DELETE", Empty, "null")
<1>1. ASSUME NEW bs \in BindingSets, Len(bs) = 1
      PROVE  /\ bs[1].key \in Name /\ DOMAIN bindingBodyToApi(bs[1]) \subseteq Path
             /\ \A method \in {"POST", "PUT"} : CostMeant(method, bindingBodyToApi(bs[1]), bs[1].cost)
  <2>1. bs \in Seq(Range(bs)) /\ \A b \in Range(bs) : b.key \in Name
          /\ DOMAIN b.createWith \subseteq Path
    BY ArgumentsAssumption
  <2>2. bs[1] \in Range(bs)
    BY <1>1, <2>1, ElementOfSeq
  <2>3. bs[1].key \in Name /\ DOMAIN bs[1].createWith \subseteq Path
    BY <2>1, <2>2
  <2> DEFINE b == bs[1]
  <2> HIDE DEF b
  <2>4. /\ DOMAIN bindingBodyToApi(b) \subseteq Path
        /\ Cost(bindingBodyToApi(b)) = (IF b.cost = Unset THEN "1" ELSE b.cost)
    BY <2>3, BindingBodyIs, CostIs DEF b
  <2> QED
    BY <2>3, <2>4 DEF CostMeant, b
<1>2. DOMAIN CostBody("3") \subseteq Path /\ CostMeant("PATCH", CostBody("3"), "3")
  <2>1. <<"cost">> \in Path
    BY Words, OneStep
  <2>2. Cost(CostBody("3")) = "3" /\ DOMAIN CostBody("3") = {<<"cost">>}
    BY DEF Cost, CostBody
  <2> QED
    BY <2>1, <2>2, Arguments DEF CostMeant
<1>3. DOMAIN Empty = {} /\ CostMeant("DELETE", Empty, "null")
  BY Arguments DEF Empty, CostMeant
<1> QED
  BY <1>1, <1>2, <1>3

\* A request about all bindings of a job asks for those of its body.
LEMMA WholeAsks ==
  ASSUME NEW c, NEW op, op # "enqueueRaw", NEW method, NEW id \in Ids, NEW body, NEW given,
         BodyGives(body, given),
         Send(c, op, Whole(method, id, body), OfJob(id, Replaces(<<"budgets">>, given)))
  PROVE  Asks(c)
<1> DEFINE req == Whole(method, id, body)
           means == OfJob(id, Replaces(<<"budgets">>, given))
<1>1. req.kind = "bindings" /\ req.id = id /\ req.body = body
  BY DEF Whole
<1>2. means.where = OneJob(id) /\ means.path = <<"budgets">> /\ means.whole /\ means.given = given
  BY DEF OfJob, In, Replaces
<1>3. OneJob(id) # Unset
  BY Arguments
<1> HIDE DEF req, means
<1>4. WholeAsked(op, req, means)
  BY <1>1, <1>2, <1>3 DEF WholeAsked
<1> QED
  BY <1>4 DEF Asks, Asked, req, means

\* No body, no bindings.
LEMMA EmptyGives == BodyGives(Empty, Empty)
<1>1. DOMAIN Empty = {}
  BY DEF Empty
<1>2. DOMAIN Below(Empty, <<"budgets">>) = {}
  BY <1>1 DEF Below, Under
<1>3. KeysIn(Empty) = {}
  BY <1>2 DEF KeysIn
<1> QED
  BY <1>1, <1>3 DEF BodyGives

\* The methods about the bindings of one job.
LEMMA JobBudgetCallAsks ==
  ASSUME NEW c, JobBudgetCall(c)
  PROVE  Asks(c)
<1>1. CASE bindJobBudget(c)
  <2>1. PICK id \in Ids, bs \in BindingSets : Len(bs) = 1 /\
          jobBudgetRequest(c, "bindJobBudget", "POST", id, bs[1].key, bindingBodyToApi(bs[1]),
            bs[1].cost)
    BY <1>1 DEF bindJobBudget
  <2> DEFINE b == bs[1]
  <2>2. b.key \in Name /\ DOMAIN bindingBodyToApi(b) \subseteq Path
          /\ CostMeant("POST", bindingBodyToApi(b), b.cost)
    BY <2>1, BindingArguments
  <2> HIDE DEF b
  <2> QED
    BY <2>1, <2>2, OneBindingAsks DEF b
<1>2. CASE rebindJobBudget(c)
  <2>1. PICK id \in Ids, bs \in BindingSets : Len(bs) = 1 /\
          jobBudgetRequest(c, "rebindJobBudget", "PUT", id, bs[1].key, bindingBodyToApi(bs[1]),
            bs[1].cost)
    BY <1>2 DEF rebindJobBudget
  <2> DEFINE b == bs[1]
  <2>2. b.key \in Name /\ DOMAIN bindingBodyToApi(b) \subseteq Path
          /\ CostMeant("PUT", bindingBodyToApi(b), b.cost)
    BY <2>1, BindingArguments
  <2> HIDE DEF b
  <2> QED
    BY <2>1, <2>2, OneBindingAsks DEF b
<1>3. CASE setJobBudgetCost(c)
  <2>1. PICK id \in Ids, key \in Keys :
          jobBudgetRequest(c, "setJobBudgetCost", "PATCH", id, key, CostBody("3"), "3")
    BY <1>3 DEF setJobBudgetCost
  <2>2. key \in Name
    BY Arguments
  <2> QED
    BY <2>1, <2>2, BindingArguments, OneBindingAsks
<1>4. CASE unbindJobBudget(c)
  <2>1. PICK id \in Ids, key \in Keys :
          jobBudgetRequest(c, "unbindJobBudget", "DELETE", id, key, Empty, "null")
    BY <1>4 DEF unbindJobBudget
  <2>2. key \in Name
    BY Arguments
  <2> QED
    BY <2>1, <2>2, BindingArguments, OneBindingAsks
<1>5. CASE unbindAllJobBudgets(c)
  <2>1. PICK id \in Ids : Send(c, "unbindAllJobBudgets", Whole("DELETE", id, Empty),
                               OfJob(id, Replaces(<<"budgets">>, Empty)))
    BY <1>5 DEF unbindAllJobBudgets
  <2> QED
    BY <2>1, EmptyGives, WholeAsks
<1>6. CASE replaceJobBudgets(c)
  <2>1. PICK id \in Ids, bs \in BindingSets :
          Send(c, "replaceJobBudgets", Whole("PUT", id, BudgetsBody(bs)),
               OfJob(id, Replaces(<<"budgets">>, Costs(bs))))
    BY <1>6 DEF replaceJobBudgets
  <2> QED
    BY <2>1, BudgetsBodyGives, WholeAsks
<1> QED
  BY <1>1, <1>2, <1>3, <1>4, <1>5, <1>6 DEF JobBudgetCall

\* The methods about the bindings of many jobs.
LEMMA BulkBudgetCallAsks ==
  ASSUME NEW c, BulkBudgetCall(c)
  PROVE  Asks(c)
<1>1. CASE bindAllJobsBudget(c)
  <2>1. PICK bs \in BindingSets, where \in Filters : Len(bs) = 1 /\
          bulkBudgetRequest(c, "bindAllJobsBudget", "POST", bs[1].key, where,
            bindingBodyToApi(bs[1]), bs[1].cost)
    BY <1>1 DEF bindAllJobsBudget
  <2> DEFINE b == bs[1]
  <2>2. b.key \in Name /\ DOMAIN bindingBodyToApi(b) \subseteq Path
          /\ CostMeant("POST", bindingBodyToApi(b), b.cost)
    BY <2>1, BindingArguments
  <2> HIDE DEF b
  <2> QED
    BY <2>1, <2>2, BulkBindingAsks DEF b
<1>2. CASE rebindAllJobsBudget(c)
  <2>1. PICK bs \in BindingSets, where \in Filters : Len(bs) = 1 /\
          bulkBudgetRequest(c, "rebindAllJobsBudget", "PUT", bs[1].key, where,
            bindingBodyToApi(bs[1]), bs[1].cost)
    BY <1>2 DEF rebindAllJobsBudget
  <2> DEFINE b == bs[1]
  <2>2. b.key \in Name /\ DOMAIN bindingBodyToApi(b) \subseteq Path
          /\ CostMeant("PUT", bindingBodyToApi(b), b.cost)
    BY <2>1, BindingArguments
  <2> HIDE DEF b
  <2> QED
    BY <2>1, <2>2, BulkBindingAsks DEF b
<1>3. CASE setAllJobsBudgetCost(c)
  <2>1. PICK key \in Keys, where \in Filters :
          bulkBudgetRequest(c, "setAllJobsBudgetCost", "PATCH", key, where, CostBody("3"), "3")
    BY <1>3 DEF setAllJobsBudgetCost
  <2>2. key \in Name
    BY Arguments
  <2> QED
    BY <2>1, <2>2, BindingArguments, BulkBindingAsks
<1>4. CASE unbindAllJobsBudget(c)
  <2>1. PICK key \in Keys, where \in Filters :
          bulkBudgetRequest(c, "unbindAllJobsBudget", "DELETE", key, where, Empty, "null")
    BY <1>4 DEF unbindAllJobsBudget
  <2>2. key \in Name
    BY Arguments
  <2> QED
    BY <2>1, <2>2, BindingArguments, BulkBindingAsks
<1>5. CASE clearAllJobsBudgets(c)
  <2>1. PICK where \in Filters :
          /\ ~isEmptyFilter(where)
          /\ Send(c, "clearAllJobsBudgets", [kind |-> "clear", where |-> where, bare |-> FALSE],
                  In(where, Replaces(<<"budgets">>, Empty)))
    BY <1>5 DEF clearAllJobsBudgets
  <2> DEFINE req == [kind |-> "clear", where |-> where, bare |-> FALSE]
  <2>2. req.kind = "clear" /\ req.where = where /\ where # Unset
    BY Arguments
  <2> HIDE DEF req
  <2>3. ClearAsked("clearAllJobsBudgets", req, In(where, Replaces(<<"budgets">>, Empty)))
    BY <2>1, <2>2 DEF ClearAsked
  <2> QED
    BY <2>1, <2>3 DEF Asks, Asked, req
<1> QED
  BY <1>1, <1>2, <1>3, <1>4, <1>5 DEF BulkBudgetCall

\* enqueueRaw(), updateJob(), deleteJob(), reportSuccess(), reset().
LEMMA JobCallAsks ==
  ASSUME NEW c, JobCall(c)
  PROVE  Asks(c)
<1>1. CASE enqueueRaw(c)
  <2>1. PICK bs \in BindingSets :
          Send(c, "enqueueRaw", [kind |-> "create", bare |-> FALSE, body |-> enqueueToApi(NewJob, bs)],
               Replaces(<<"new">>, Joined(NewJob, Prefixed(<<"budgets">>, Costs(bs)))))
    BY <1>1, Zenon DEF enqueueRaw, NewJob
  <2> DEFINE req == [kind |-> "create", bare |-> FALSE, body |-> enqueueToApi(NewJob, bs)]
             means == Replaces(<<"new">>, Joined(NewJob, Prefixed(<<"budgets">>, Costs(bs))))
  <2>2. /\ req.kind = "create" /\ req.body = enqueueToApi(NewJob, bs)
        /\ means.given = Joined(NewJob, Prefixed(<<"budgets">>, Costs(bs)))
    BY DEF Replaces
  <2> HIDE DEF req, means
  <2>3. CreateAsked("enqueueRaw", req, means)
    BY <2>2, EnqueueAsks
  <2> QED
    BY <2>1, <2>3 DEF Asks, Asked, req, means
<1>2. CASE updateJob(c)
  <2>1. PICK id \in Ids, opts \in JobPatches :
          Send(c, "updateJob", Doc("PATCH", Job(id), stripUndefined(opts)), Sets(Job(id), opts))
    BY <1>2 DEF updateJob, updateToApi
  <2> DEFINE path == Job(id)
  <2>2. path \in Path /\ Len(path) > 1 /\ path[1] # "crons"
    <3>1. id \in Name
      BY Arguments
    <3>2. path \in Path /\ Len(path) = 2 /\ path[1] = "jobs"
      BY <3>1, DocPaths
    <3> QED
      BY <3>2
  <2>3. DOMAIN opts \subseteq Path
    BY ArgumentsAssumption
  <2> HIDE DEF path
  <2>4. Asked("updateJob", Doc("PATCH", path, stripUndefined(opts)), Sets(path, opts))
    BY <2>2, <2>3, DocSets
  <2> QED
    BY <2>1, <2>4 DEF Asks, path
<1>3. CASE deleteJob(c)
  <2>1. PICK id \in Ids :
          Send(c, "deleteJob", Bare(Doc("DELETE", Job(id), Empty)), Replaces(Job(id), Empty))
    BY <1>3 DEF deleteJob
  <2> DEFINE path == Job(id)
  <2>2. path \in Path /\ Len(path) > 0 /\ path[1] # "crons"
    <3>1. id \in Name
      BY Arguments
    <3>2. path \in Path /\ Len(path) = 2 /\ path[1] = "jobs"
      BY <3>1, DocPaths
    <3> QED
      BY <3>2
  <2> HIDE DEF path
  <2>3. Asked("deleteJob", Bare(Doc("DELETE", path, Empty)), Replaces(path, Empty))
    BY <2>2, DocDeletes
  <2> QED
    BY <2>1, <2>3 DEF Asks, path
<1>4. CASE reportSuccess(c)
  <2>1. PICK id \in Ids :
          Send(c, "reportSuccess", [kind |-> "success", id |-> id, bare |-> TRUE],
            Replaces(Job(id), Empty))
    BY <1>4 DEF reportSuccess
  <2> DEFINE req == [kind |-> "success", id |-> id, bare |-> TRUE]
  <2>2. req.kind = "success" /\ req.id = id
    OBVIOUS
  <2> HIDE DEF req
  <2>3. SuccessAsked("reportSuccess", req, Replaces(Job(id), Empty))
    BY <2>2 DEF SuccessAsked
  <2> QED
    BY <2>1, <2>3 DEF Asks, Asked, req
<1>5. CASE reset(c)
  <2> DEFINE req == [kind |-> "reset", bare |-> TRUE]
  <2>1. Send(c, "reset", req, Replaces(<<>>, Empty))
    BY <1>5 DEF reset
  <2>2. ResetAsked("reset", req, Replaces(<<>>, Empty))
    BY DEF ResetAsked
  <2> QED
    BY <2>1, <2>2 DEF Asks, Asked
<1> QED
  BY <1>1, <1>2, <1>3, <1>4, <1>5 DEF JobCall

\* The fields of an entry that may be null do not say whether it is paused.
LEMMA EntryNulls ==
  ASSUME NEW def \in Definitions, NEW path \in Path, Len(path) = 4, NEW q \in DOMAIN def,
           def[q] = "null"
  PROVE  ~Flag(path \o q)
<1>1. /\ DOMAIN def \subseteq Path
      /\ <<"paused">> \in DOMAIN def => def[<<"paused">>] # "null"
  BY ArgumentsAssumption
<1>2. q \in Path /\ q # <<"paused">>
  BY <1>1
<1> DEFINE x == path \o q
           l == Len(q)
<1>3. Len(x) = Len(path) + l /\ l \in Nat /\ \A i \in 1..l : x[Len(path) + i] = q[i]
  BY <1>2, PathPlus
<1> HIDE DEF x, l
<1>4. Len(x) = 4 + l /\ \A i \in 1..l : x[4 + i] = q[i]
  BY <1>3
<1>5. ASSUME Flag(x) PROVE FALSE
  <2>1. Len(x) \in {3, 5} /\ x[Len(x)] = "paused"
    BY <1>5 DEF Flag
  <2>2. l = 1
    BY <1>3, <1>4, <2>1
  <2>3. x[4 + 1] = q[1] /\ Len(x) = 4 + 1
    BY <1>4, <2>2
  <2>4. q[1] = "paused" /\ Len(q) = 1
    BY <2>1, <2>2, <2>3 DEF l
  <2> QED
    BY <1>2, <2>4, ShortPaths
<1> QED
  BY <1>5 DEF x

\* The same for a group as a whole.
LEMMA ScheduleIs ==
  ASSUME NEW s \in Schedules
  PROVE  /\ DOMAIN ScheduleBody(s) \subseteq Path
         /\ \A q \in DOMAIN ScheduleBody(s) : ScheduleBody(s)[q] = "null" => ~Flag(Group("g") \o q)
<1> DEFINE spot(n, q) == <<"entries", n>> \o q
           all == [p \in UNION {{spot(n, q) : q \in DOMAIN s.entries[n]} : n \in DOMAIN s.entries} |->
                     s.entries[p[2]][SubSeq(p, 3, Len(p))]]
           own == [p \in {<<"timezone">>, <<"paused">>} |-> s[p[1]]]
           body == ScheduleBody(s)
<1>1. body = Joined(own, all)
  BY DEF ScheduleBody
<1>2. DOMAIN s.entries \subseteq Name /\ s.paused # "null"
  BY ArgumentsAssumption
<1>3. ASSUME NEW n \in DOMAIN s.entries
      PROVE  s.entries[n] \in Definitions /\ DOMAIN s.entries[n] \subseteq Path
  <2>1. s.entries[n] \in Definitions
    BY DEF Definitions, Range
  <2> QED
    BY <2>1, ArgumentsAssumption
<1>4. /\ <<"timezone">> \in Path /\ Len(<<"timezone">>) = 1 /\ <<"timezone">>[1] = "timezone"
      /\ <<"paused">> \in Path /\ Len(<<"paused">>) = 1 /\ <<"paused">>[1] = "paused"
      /\ DOMAIN own = {<<"timezone">>, <<"paused">>}
  BY Words, OneStep
<1>5. own[<<"paused">>] = s.paused
  <2> DEFINE q == <<"paused">>
  <2>1. q \in DOMAIN own /\ q[1] = "paused"
    OBVIOUS
  <2> HIDE DEF q
  <2>2. own[q] = s["paused"]
    BY <2>1
  <2> QED
    BY <2>2 DEF q
<1>6. ASSUME NEW n \in DOMAIN s.entries, NEW q \in DOMAIN s.entries[n]
      PROVE  /\ spot(n, q) \in Path /\ Len(spot(n, q)) = 2 + Len(q) /\ Len(q) \in Nat
             /\ spot(n, q)[2] = n /\ SubSeq(spot(n, q), 3, Len(spot(n, q))) = q
             /\ \A i \in 1..Len(q) : spot(n, q)[2 + i] = q[i]
  <2> DEFINE a == <<"entries", n>>
             x == a \o q
  <2>1. n \in Name /\ q \in Path
    BY <1>2, <1>3
  <2>2. a \in Path /\ Len(a) = 2 /\ a[2] = n
    BY <2>1, Words DEF Path
  <2> HIDE DEF a
  <2>3. /\ x \in Path /\ Len(x) = Len(a) + Len(q) /\ Len(q) \in Nat
        /\ \A i \in 1..Len(a) : x[i] = a[i]
        /\ \A i \in 1..Len(q) : x[Len(a) + i] = q[i]
        /\ Rest(a, x) = q
    BY <2>1, <2>2, PathPlus
  <2>4. x[2] = n /\ \A i \in 1..Len(q) : x[2 + i] = q[i]
    BY <2>2, <2>3
  <2>5. SubSeq(x, 3, Len(x)) = q
    BY <2>2, <2>3 DEF Rest
  <2>6. spot(n, q) = x
    BY DEF a
  <2> HIDE DEF spot, x
  <2> QED
    BY <2>2, <2>3, <2>4, <2>5, <2>6
<1>7. \A p \in DOMAIN all : \E n \in DOMAIN s.entries : \E q \in DOMAIN s.entries[n] :
        p = spot(n, q) /\ all[p] = s.entries[n][q]
  <2>1. ASSUME NEW n \in DOMAIN s.entries, NEW q \in DOMAIN s.entries[n]
        PROVE  all[spot(n, q)] = s.entries[n][q]
    <3> DEFINE x == spot(n, q)
    <3>1. x[2] = n /\ SubSeq(x, 3, Len(x)) = q
      BY <1>6
    <3>2. x \in DOMAIN all
      OBVIOUS
    <3> HIDE DEF x, spot
    <3>3. all[x] = s.entries[x[2]][SubSeq(x, 3, Len(x))]
      BY <3>2
    <3> QED
      BY <3>1, <3>3 DEF x
  <2>2. \A p \in DOMAIN all : \E n \in DOMAIN s.entries : \E q \in DOMAIN s.entries[n] : p = spot(n, q)
    OBVIOUS
  <2> HIDE DEF all, spot
  <2> QED
    BY <2>1, <2>2
<1> HIDE DEF own, all, spot, body
<1>8. /\ DOMAIN body = DOMAIN own \cup DOMAIN all
      /\ \A p \in DOMAIN own \cup DOMAIN all : body[p] = IF p \in DOMAIN all THEN all[p] ELSE own[p]
  BY <1>1, JoinedIs
<1>9. DOMAIN body \subseteq Path
  <2>1. DOMAIN all \subseteq Path
    BY <1>6, <1>7
  <2> QED
    BY <1>4, <1>8, <2>1
<1> DEFINE g == Group("g")
<1>10. g \in Path /\ Len(g) = 2
  BY DocPaths
<1> HIDE DEF g
<1>11. ASSUME NEW p \in DOMAIN body, body[p] = "null", Flag(g \o p) PROVE FALSE
  <2> DEFINE x == g \o p
             l == Len(p)
  <2>0. Len(x) = Len(g) + l /\ l \in Nat /\ \A i \in 1..l : x[Len(g) + i] = p[i]
    BY <1>9, <1>10, PathPlus
  <2>2. Len(x) \in {3, 5} /\ x[Len(x)] = "paused"
    BY <1>11 DEF Flag
  <2> HIDE DEF x, l
  <2>1. Len(x) = 2 + l /\ \A i \in 1..l : x[2 + i] = p[i]
    BY <1>10, <2>0
  <2>3. Len(p) \in {1, 3} /\ p[Len(p)] = "paused"
    <3>1. l \in {1, 3}
      BY <2>0, <2>1, <2>2
    <3>2. x[2 + l] = p[l]
      BY <2>1, <3>1
    <3>3. p[l] = "paused"
      BY <2>1, <2>2, <3>2
    <3> QED
      BY <3>1, <3>3 DEF l
  <2>4. CASE p \in DOMAIN all
    <3>0. PICK n \in DOMAIN s.entries : \E q \in DOMAIN s.entries[n] : p = spot(n, q)
                 /\ all[p] = s.entries[n][q]
      BY <1>7, <2>4
    <3>1. PICK q \in DOMAIN s.entries[n] : p = spot(n, q) /\ all[p] = s.entries[n][q]
      BY <3>0
    <3>2. Len(p) = 2 + Len(q) /\ Len(q) \in Nat /\ \A i \in 1..Len(q) : p[2 + i] = q[i]
      BY <1>6, <3>1
    <3> DEFINE m == Len(q)
               l1 == Len(p)
    <3>3. m \in Nat /\ l1 = 2 + m /\ l1 \in {1, 3} /\ \A i \in 1..m : p[2 + i] = q[i]
      BY <2>3, <3>2
    <3> HIDE DEF m, l1
    <3>4. m = 1 /\ l1 = 3
      BY <3>3
    <3>5. q[1] = "paused" /\ Len(q) = 1
      <4>1. p[2 + 1] = q[1]
        BY <3>3, <3>4
      <4> QED
        BY <2>3, <3>4, <4>1 DEF m, l1
    <3>6. q = <<"paused">> /\ s.entries[n] \in Definitions
      BY <1>3, <3>5, ShortPaths
    <3>7. s.entries[n][q] = "null"
      BY <1>8, <1>11, <2>4, <3>1
    <3> QED
      BY <3>6, <3>7, ArgumentsAssumption
  <2>5. CASE p \notin DOMAIN all
    <3>1. p \in DOMAIN own /\ own[p] = "null"
      BY <1>8, <1>11, <2>5
    <3>2. p = <<"paused">>
      BY <1>4, <2>3, <3>1
    <3> QED
      BY <1>2, <1>5, <3>1, <3>2
  <2> QED
    BY <2>4, <2>5
<1> QED
  BY <1>9, <1>11 DEF body, g

\* The field that says whether a cron is paused.
LEMMA PausedIs ==
  ASSUME NEW value \in {"true", "false"}
  PROVE  /\ stripUndefined(Paused(value)) = Paused(value)
         /\ DOMAIN Paused(value) \subseteq Path
         /\ \A q \in DOMAIN Paused(value) : q = <<"paused">> /\ Paused(value)[q] # "null"
<1>1. value # Unset /\ value # "null"
  BY Arguments
<1>2. DOMAIN Paused(value) = {<<"paused">>} /\ \A q \in DOMAIN Paused(value) : Paused(value)[q] = value
  BY DEF Paused
<1>3. {q \in DOMAIN Paused(value) : Paused(value)[q] # Unset} = {<<"paused">>}
  BY <1>1, <1>2
<1>4. stripUndefined(Paused(value)) = [p \in {<<"paused">>} |-> Paused(value)[p]]
  BY <1>3 DEF stripUndefined
<1>5. stripUndefined(Paused(value)) = Paused(value)
  BY <1>4 DEF Paused
<1>6. <<"paused">> \in Path
  BY Words, OneStep
<1> QED
  BY <1>1, <1>2, <1>5, <1>6

\* An entry added or replaced.
LEMMA EntryAsks ==
  ASSUME NEW op, op # "enqueueRaw", NEW method \in {"POST", "PUT"}, NEW e \in {"e", "f"},
           NEW def \in Entries
  PROVE  Asked(op, Doc(method, Entry("g", e), cronEntryToApi(def)), Replaces(Entry("g", e), def))
<1> DEFINE path == Entry("g", e)
<1>1. path \in Path /\ Len(path) = 4
  BY DocPaths
<1>2. def \in Definitions /\ DOMAIN def \subseteq Path
  BY ArgumentsAssumption DEF Definitions
<1> HIDE DEF path
<1>3. \A q \in DOMAIN def : def[q] = "null" => ~Flag(path \o q)
  BY <1>1, <1>2, EntryNulls
<1>4. Len(path) > 1 /\ Len(path) \in {2, 4}
  BY <1>1
<1>5. Asked(op, Doc(method, path, stripUndefined(def)), Replaces(path, def))
  BY <1>1, <1>2, <1>3, <1>4, DocReplaces
<1> QED
  BY <1>5 DEF cronEntryToApi, path

\* The methods about crons.
LEMMA CronCallAsks ==
  ASSUME NEW c, CronCall(c)
  PROVE  Asks(c)
<1>1. /\ Group("g") \in Path /\ Len(Group("g")) = 2
      /\ \A e \in {"e", "f"} : Entry("g", e) \in Path /\ Len(Entry("g", e)) = 4
      /\ <<"crons">> \in Path /\ Len(<<"crons">>) = 1
  BY DocPaths
<1>2. CASE replaceCronGroup(c)
  <2>1. PICK s \in Schedules :
          Send(c, "replaceCronGroup", Doc("PUT", Group("g"), stripUndefined(ScheduleBody(s))),
               Replaces(Group("g"), ScheduleBody(s)))
    BY <1>2 DEF replaceCronGroup
  <2> DEFINE path == Group("g")
             given == ScheduleBody(s)
  <2>2. /\ DOMAIN given \subseteq Path
        /\ \A q \in DOMAIN given : given[q] = "null" => ~Flag(path \o q)
    BY ScheduleIs
  <2>3. path \in Path /\ Len(path) > 1 /\ Len(path) \in {2, 4}
    <3>1. path \in Path /\ Len(path) = 2
      BY <1>1
    <3> QED
      BY <3>1
  <2> HIDE DEF path, given
  <2>4. Asked("replaceCronGroup", Doc("PUT", path, stripUndefined(given)), Replaces(path, given))
    BY <2>2, <2>3, DocReplaces
  <2> QED
    BY <2>1, <2>4 DEF Asks, path, given
<1>3. CASE updateCronGroup(c)
  <2>1. PICK paused \in {"true", "false"} :
          Send(c, "updateCronGroup", Doc("PATCH", Group("g"), Paused(paused)),
            Sets(Group("g"), Paused(paused)))
    BY <1>3 DEF updateCronGroup, PauseRequest
  <2> DEFINE path == Group("g")
             given == Paused(paused)
  <2>2. /\ stripUndefined(given) = given /\ DOMAIN given \subseteq Path
        /\ \A q \in DOMAIN given : q = <<"paused">> /\ given[q] # "null"
    BY PausedIs
  <2>3. path \in Path /\ Len(path) > 1 /\ Len(path) \in {2, 4}
    <3>1. path \in Path /\ Len(path) = 2
      BY <1>1
    <3> QED
      BY <3>1
  <2> HIDE DEF path, given
  <2>4. Asked("updateCronGroup", Doc("PATCH", path, stripUndefined(given)), Sets(path, given))
    BY <2>2, <2>3, DocSets
  <2>5. Asked("updateCronGroup", Doc("PATCH", path, given), Sets(path, given))
    BY <2>2, <2>4
  <2> QED
    BY <2>1, <2>5 DEF Asks, path, given
<1>4. CASE updateCronEntry(c)
  <2>1. PICK e \in {"e", "f"}, paused \in {"true", "false"} :
          Send(c, "updateCronEntry", Doc("PATCH", Entry("g", e), Paused(paused)),
               Sets(Entry("g", e), Paused(paused)))
    BY <1>4 DEF updateCronEntry, PauseRequest
  <2> DEFINE path == Entry("g", e)
             given == Paused(paused)
  <2>2. /\ stripUndefined(given) = given /\ DOMAIN given \subseteq Path
        /\ \A q \in DOMAIN given : q = <<"paused">> /\ given[q] # "null"
    BY PausedIs
  <2>3. path \in Path /\ Len(path) > 1 /\ Len(path) \in {2, 4}
    <3>1. path \in Path /\ Len(path) = 4
      BY <1>1
    <3> QED
      BY <3>1
  <2> HIDE DEF path, given
  <2>4. Asked("updateCronEntry", Doc("PATCH", path, stripUndefined(given)), Sets(path, given))
    BY <2>2, <2>3, DocSets
  <2>5. Asked("updateCronEntry", Doc("PATCH", path, given), Sets(path, given))
    BY <2>2, <2>4
  <2> QED
    BY <2>1, <2>5 DEF Asks, path, given
<1>5. CASE deleteCronGroup(c)
  <2> DEFINE path == Group("g")
  <2>1. Send(c, "deleteCronGroup", Bare(Doc("DELETE", path, Empty)), Replaces(path, Empty))
    BY <1>5 DEF deleteCronGroup
  <2>2. path \in Path /\ Len(path) > 0 /\ Len(path) \in {1, 2, 4}
    BY <1>1
  <2> HIDE DEF path
  <2>3. Asked("deleteCronGroup", Bare(Doc("DELETE", path, Empty)), Replaces(path, Empty))
    BY <2>2, DocDeletes
  <2> QED
    BY <2>1, <2>3 DEF Asks
<1>6. CASE deleteAllCrons(c)
  <2> DEFINE path == <<"crons">>
  <2>1. Send(c, "deleteAllCrons", Doc("DELETE", path, Empty), Replaces(path, Empty))
    BY <1>6 DEF deleteAllCrons
  <2>2. path \in Path /\ Len(path) > 0 /\ Len(path) \in {1, 2, 4}
    BY <1>1
  <2> HIDE DEF path
  <2>3. Asked("deleteAllCrons", Doc("DELETE", path, Empty), Replaces(path, Empty))
    BY <2>2, DocDeletes
  <2> QED
    BY <2>1, <2>3 DEF Asks
<1>7. CASE addCronEntry(c)
  <2>1. PICK e \in {"e", "f"}, def \in Entries :
          Send(c, "addCronEntry", Doc("POST", Entry("g", e), cronEntryToApi(def)),
            Replaces(Entry("g", e), def))
    BY <1>7 DEF addCronEntry
  <2>2. Asked("addCronEntry", Doc("POST", Entry("g", e), cronEntryToApi(def)),
          Replaces(Entry("g", e), def))
    BY EntryAsks
  <2> QED
    BY <2>1, <2>2 DEF Asks
<1>8. CASE replaceCronEntry(c)
  <2>1. PICK e \in {"e", "f"}, def \in Entries :
          Send(c, "replaceCronEntry", Doc("PUT", Entry("g", e), cronEntryToApi(def)),
            Replaces(Entry("g", e), def))
    BY <1>8 DEF replaceCronEntry
  <2>2. Asked("replaceCronEntry", Doc("PUT", Entry("g", e), cronEntryToApi(def)),
          Replaces(Entry("g", e), def))
    BY EntryAsks
  <2> QED
    BY <2>1, <2>2 DEF Asks
<1>9. CASE deleteCronEntry(c)
  <2>1. PICK e \in {"e", "f"} :
          Send(c, "deleteCronEntry", Bare(Doc("DELETE", Entry("g", e), Empty)),
            Replaces(Entry("g", e), Empty))
    BY <1>9 DEF deleteCronEntry
  <2> DEFINE path == Entry("g", e)
  <2>2. path \in Path /\ Len(path) > 0 /\ Len(path) \in {1, 2, 4}
    BY <1>1
  <2> HIDE DEF path
  <2>3. Asked("deleteCronEntry", Bare(Doc("DELETE", path, Empty)), Replaces(path, Empty))
    BY <2>2, DocDeletes
  <2> QED
    BY <2>1, <2>3 DEF Asks, path
<1> QED
  BY <1>2, <1>3, <1>4, <1>5, <1>6, <1>7, <1>8, <1>9 DEF CronCall, CronGroupCall, CronEntryCall

\* Every method asks the server for what its caller means.
LEMMA MethodsAsk ==
  ASSUME NEW c, BudgetCall(c) \/ JobBudgetCall(c) \/ BulkBudgetCall(c) \/ JobCall(c) \/ CronCall(c)
  PROVE  Asks(c)
  BY BudgetCallAsks, JobBudgetCallAsks, BulkBudgetCallAsks, JobCallAsks, CronCallAsks

-----------------------------------------------------------------------------
(* Inductive invariant: what the server holds is a tree it may hold, and     *)
(* every request on its way asks for what its caller means.                  *)
Intended ==
  /\ TreeOk(tree)
  /\ DOMAIN call = Clients
  /\ \A c \in Clients : call[c].step = "sent" => Asked(call[c].op, call[c].req, call[c].means)

\* A step of one call keeps the invariant, if what it sends is meant.
LEMMA OneIntended ==
  ASSUME Intended, NEW c \in Clients, NEW r, TreeOk(tree'),
         r.step = "sent" => Asked(r.op, r.req, r.means), call' = [call EXCEPT ![c] = r]
  PROVE  Intended'
<1>1. DOMAIN call' = Clients /\ \A d \in Clients : call'[d] = IF d = c THEN r ELSE call[d]
  BY DEF Intended
<1> QED
  BY <1>1 DEF Intended

\* What a request does to the tree is right.
LEMMA ServedRight ==
  ASSUME Intended, NEW c \in Clients, Served(c)
  PROVE  /\ TreeOk(tree')
         /\ Serve(tree, call[c].req, Ids).status < 300 =>
              Right(tree, tree', call[c].op, call[c].req, call[c].means)
<1>1. TreeOk(tree) /\ Asked(call[c].op, call[c].req, call[c].means)
  BY DEF Intended, Served
<1>2. Ids \in SUBSET Name
  BY Arguments
<1>3. tree' = Serve(tree, call[c].req, Ids).tree
  BY DEF Served
<1> DEFINE op == call[c].op
           req == call[c].req
           means == call[c].means
<1> HIDE DEF op, req, means
<1>4. /\ TreeOk(Serve(tree, req, Ids).tree)
      /\ Serve(tree, req, Ids).status < 300 => Right(tree, Serve(tree, req, Ids).tree, op, req, means)
  BY <1>1, <1>2, ServeRight DEF op, req, means
<1> QED
  BY <1>3, <1>4 DEF op, req, means

\* One step preserves the inductive invariant.
LEMMA IntendedStep == Intended /\ [Next]_vars => Intended'
<1> SUFFICES ASSUME Intended, [Next]_vars
             PROVE  Intended'
  OBVIOUS
<1>1. CASE UNCHANGED vars
  BY <1>1 DEF vars, Intended
<1>2. ASSUME NEW c \in Clients,
             BudgetCall(c) \/ JobBudgetCall(c) \/ BulkBudgetCall(c) \/ JobCall(c) \/ CronCall(c)
      PROVE  Intended'
  <2>1. Asks(c)
    BY <1>2, MethodsAsk
  <2>2. PICK op, req, means : Send(c, op, req, means) /\ Asked(op, req, means)
    BY <2>1 DEF Asks
  <2> DEFINE r == [step |-> "sent", op |-> op, req |-> req, means |-> means, applied |-> FALSE]
  <2>3. call' = [call EXCEPT ![c] = r] /\ tree' = tree
    BY <2>2 DEF Send
  <2>4. Asked(r.op, r.req, r.means)
    BY <2>2
  <2>5. TreeOk(tree')
    BY <2>3 DEF Intended
  <2> HIDE DEF r
  <2> QED
    BY <2>3, <2>4, <2>5, OneIntended
<1>3. ASSUME NEW c \in Clients, NEW status, NEW readable, NEW applied, TreeOk(tree'),
             Answering(c, status, readable, applied)
      PROVE  Intended'
  <2> DEFINE r == [step |-> "answered", op |-> call[c].op, req |-> call[c].req,
                   means |-> call[c].means, applied |-> applied, status |-> status,
                   readable |-> readable]
  <2>1. call' = [call EXCEPT ![c] = r]
    BY <1>3 DEF Answering
  <2>2. r.step # "sent"
    OBVIOUS
  <2> HIDE DEF r
  <2> QED
    BY <1>3, <2>1, <2>2, OneIntended
<1>4. ASSUME NEW c \in Clients, Served(c)
      PROVE  Intended'
  <2>1. TreeOk(tree')
    BY <1>4, ServedRight
  <2>2. PICK status, readable, applied : Answering(c, status, readable, applied)
    BY <1>4 DEF Served
  <2> QED
    BY <1>3, <2>1, <2>2
<1>5. ASSUME NEW c \in Clients, Intercepted(c)
      PROVE  Intended'
  <2>1. PICK status \in {413, 502} : Answering(c, status, FALSE, FALSE)
    BY <1>5 DEF Intercepted
  <2>2. TreeOk(tree')
    BY <1>5 DEF Intercepted, Intended
  <2> QED
    BY <1>3, <2>1, <2>2
<1>6. ASSUME NEW c \in Clients, Answered(c) \/ ConnectionFails(c) \/ BodyCut(c)
      PROVE  Intended'
  <2>1. PICK result : Return(c, result)
    BY <1>6 DEF Answered, ConnectionFails, BodyCut
  <2> DEFINE r == [step |-> "returned", op |-> call[c].op, applied |-> call[c].applied, result |-> result]
  <2>2. call' = [call EXCEPT ![c] = r] /\ tree' = tree
    BY <2>1 DEF Return
  <2>3. r.step # "sent"
    OBVIOUS
  <2>4. TreeOk(tree')
    BY <2>2 DEF Intended
  <2> HIDE DEF r
  <2> QED
    BY <2>2, <2>3, <2>4, OneIntended
<1>7. ASSUME NEW c \in Clients, Continue(c)
      PROVE  Intended'
  <2>1. call' = [call EXCEPT ![c] = Idle] /\ tree' = tree
    BY <1>7 DEF Continue
  <2>2. Idle.step # "sent"
    BY DEF Idle
  <2>3. TreeOk(tree')
    BY <2>1 DEF Intended
  <2> QED
    BY <2>1, <2>2, <2>3, OneIntended
<1> QED
  BY <1>1, <1>2, <1>4, <1>5, <1>6, <1>7 DEF Next

\* The step with which a request is applied.
LEMMA AppliedRight ==
  ASSUME Intended, [Next]_vars, NEW c \in Clients,
         call[c].step = "sent", call'[c].step = "answered", call'[c].applied
  PROVE  /\ ChangesOnly(tree, tree', call[c].op, call[c].means)
         /\ Singular(call[c].req) => LeavesInPlace(tree, tree', call[c].means)
<1>1. ASSUME NEW d \in Clients, NEW r, call' = [call EXCEPT ![d] = r]
      PROVE  d = c /\ r = call'[c]
  <2>1. call'[c] = IF d = c THEN r ELSE call[c]
    BY <1>1 DEF Intended
  <2> QED
    BY <2>1
<1>2. CASE UNCHANGED vars
  BY <1>2 DEF vars
<1>3. ASSUME NEW d \in Clients,
             BudgetCall(d) \/ JobBudgetCall(d) \/ BulkBudgetCall(d) \/ JobCall(d) \/ CronCall(d)
      PROVE  FALSE
  <2>1. Asks(d)
    BY <1>3, MethodsAsk
  <2>2. PICK op, req, means : Send(d, op, req, means)
    BY <2>1 DEF Asks
  <2> DEFINE r == [step |-> "sent", op |-> op, req |-> req, means |-> means, applied |-> FALSE]
  <2>3. call' = [call EXCEPT ![d] = r] /\ r.step = "sent"
    BY <2>2 DEF Send
  <2> HIDE DEF r
  <2> QED
    BY <1>1, <2>3
<1>4. ASSUME NEW d \in Clients, Intercepted(d)
      PROVE  FALSE
  <2>1. PICK status \in {413, 502} : Answering(d, status, FALSE, FALSE)
    BY <1>4 DEF Intercepted
  <2> DEFINE r == [step |-> "answered", op |-> call[d].op, req |-> call[d].req,
                   means |-> call[d].means, applied |-> FALSE, status |-> status,
                   readable |-> FALSE]
  <2>2. call' = [call EXCEPT ![d] = r] /\ r.applied = FALSE
    BY <2>1 DEF Answering
  <2> HIDE DEF r
  <2> QED
    BY <1>1, <2>2
<1>5. ASSUME NEW d \in Clients, Answered(d) \/ ConnectionFails(d) \/ BodyCut(d)
      PROVE  FALSE
  <2>1. PICK result : Return(d, result)
    BY <1>5 DEF Answered, ConnectionFails, BodyCut
  <2> DEFINE r == [step |-> "returned", op |-> call[d].op, applied |-> call[d].applied, result |-> result]
  <2>2. call' = [call EXCEPT ![d] = r] /\ r.step = "returned"
    BY <2>1 DEF Return
  <2> HIDE DEF r
  <2> QED
    BY <1>1, <2>2
<1>6. ASSUME NEW d \in Clients, Continue(d)
      PROVE  FALSE
  <2>1. call' = [call EXCEPT ![d] = Idle] /\ Idle.step = "idle"
    BY <1>6 DEF Continue, Idle
  <2> QED
    BY <1>1, <2>1
<1>7. ASSUME NEW d \in Clients, Served(d)
      PROVE  Right(tree, tree', call[c].op, call[c].req, call[c].means)
  <2> DEFINE status == Serve(tree, call[d].req, Ids).status
             r == [step |-> "answered", op |-> call[d].op, req |-> call[d].req,
                   means |-> call[d].means, applied |-> status < 300, status |-> status,
                   readable |-> TRUE]
  <2>1. call' = [call EXCEPT ![d] = r]
    BY <1>7 DEF Served, Answering
  <2>2. r.applied = (status < 300)
    OBVIOUS
  <2> HIDE DEF r, status
  <2>3. d = c /\ r = call'[c]
    BY <1>1, <2>1
  <2>4. status < 300
    BY <2>2, <2>3
  <2>5. status = Serve(tree, call[c].req, Ids).status
    BY <2>3 DEF status
  <2> QED
    BY <1>7, <2>3, <2>4, <2>5, ServedRight
<1> QED
  BY <1>2, <1>3, <1>4, <1>5, <1>6, <1>7 DEF Next, Right

\* Whatever other programs did since a call was sent, what it changes when it is
\* applied is what its caller means, no more and, for one object, no less.
THEOREM CallsDoWhatTheyMean == Spec => AsMeant
<1>1. Init => Intended
  BY TreeAssumption DEF Init, Intended, Idle
<1>2. Intended /\ [Next]_vars =>
        [\A c \in Clients : call[c].step = "sent" /\ call'[c].step = "answered" /\ call'[c].applied
           => /\ ChangesOnly(tree, tree', call[c].op, call[c].means)
              /\ Singular(call[c].req) => LeavesInPlace(tree, tree', call[c].means)]_vars
  BY AppliedRight
<1> QED
  BY IntendedStep, <1>1, <1>2, PTL DEF Spec, AsMeant

-----------------------------------------------------------------------------
(* The three recursive functions of TakeStream exist, for streams and bytes *)
(* of any length.                                                           *)

\* The bytes of the last k items, item by item.
LEMMA TailsDef ==
  ASSUME Len(items) \in Nat
  PROVE  /\ Tails[0] = <<>>
         /\ \A k \in 1..Len(items) : Tails[k] = Item(Len(items) + 1 - k) \o Tails[k - 1]
<1> DEFINE N == Len(items)
           turn(f, k) == IF k = 0 THEN <<>> ELSE Item(N + 1 - k) \o f[k - 1]
           Runs(m) == \E f : f = [k \in 0..m |-> turn(f, k)]
           Bad == {m \in Nat : ~Runs(m)}
<1>1. ASSUME NEW m \in Nat, m # 0, Runs(m - 1) PROVE Runs(m)
  <2>1. PICK f : f = [k \in 0..m - 1 |-> turn(f, k)]
    BY <1>1
  <2> DEFINE g == [k \in 0..m |-> IF k = m THEN turn(f, m) ELSE f[k]]
  <2>2. \A k \in 0..m - 1 : g[k] = f[k]
    BY <1>1
  <2>3. ASSUME NEW k \in 0..m PROVE g[k] = turn(g, k)
    <3>1. k # 0 => k - 1 \in 0..m - 1
      BY <1>1
    <3>2. turn(g, k) = turn(f, k)
      BY <2>2, <3>1
    <3>3. CASE k = m
      BY <3>2, <3>3
    <3>4. CASE k # m
      <4>1. k \in 0..m - 1
        BY <3>4, <1>1
      <4> QED
        BY <2>1, <2>2, <3>2, <4>1
    <3> QED
      BY <3>3, <3>4
  <2>4. g = [k \in 0..m |-> turn(g, k)]
    BY <2>3
  <2> QED
    BY <2>4
<1>2. Runs(0)
  <2> DEFINE g == [k \in 0..0 |-> <<>>]
  <2>1. g = [k \in 0..0 |-> turn(g, k)]
    OBVIOUS
  <2> QED
    BY <2>1
<1>3. Bad = {}
  <2> HIDE DEF Runs
  <2> SUFFICES ASSUME Bad # {} PROVE FALSE
    OBVIOUS
  <2>1. PICK m \in Bad : \A k \in Bad : m <= k
    BY LeastExists
  <2>2. m # 0 /\ m - 1 \in Nat /\ m - 1 \notin Bad
    BY <1>2, <2>1
  <2> QED
    BY <1>1, <2>1, <2>2
<1>4. \E f : f = [k \in 0..N |-> turn(f, k)]
  BY <1>3
<1>5. Tails = [k \in 0..N |-> turn(Tails, k)]
  BY <1>4 DEF Tails
<1>6. \A k \in 0..N : Tails[k] = turn(Tails, k)
  BY <1>5
<1>7. 0 \in 0..N /\ \A k \in 1..N : k \in 0..N /\ k # 0
  OBVIOUS
<1> QED
  BY <1>6, <1>7

\* The jobs among the first n items, item by item.
LEMMA JobsAmongDef ==
  ASSUME Len(items) \in Nat
  PROVE  /\ JobsAmong[0] = <<>>
         /\ \A n \in 1..Len(items) :
              JobsAmong[n] = IF items[n] = Heartbeat THEN JobsAmong[n - 1]
                             ELSE Append(JobsAmong[n - 1], n)
<1> DEFINE N == Len(items)
           turn(f, n) == IF n = 0 THEN <<>>
                         ELSE IF items[n] = Heartbeat THEN f[n - 1] ELSE Append(f[n - 1], n)
           Runs(m) == \E f : f = [n \in 0..m |-> turn(f, n)]
           Bad == {m \in Nat : ~Runs(m)}
<1>1. ASSUME NEW m \in Nat, m # 0, Runs(m - 1) PROVE Runs(m)
  <2>1. PICK f : f = [n \in 0..m - 1 |-> turn(f, n)]
    BY <1>1
  <2> DEFINE g == [n \in 0..m |-> IF n = m THEN turn(f, m) ELSE f[n]]
  <2>2. \A n \in 0..m - 1 : g[n] = f[n]
    BY <1>1
  <2>3. ASSUME NEW n \in 0..m PROVE g[n] = turn(g, n)
    <3>1. n # 0 => n - 1 \in 0..m - 1
      BY <1>1
    <3>2. turn(g, n) = turn(f, n)
      BY <2>2, <3>1
    <3>3. CASE n = m
      BY <3>2, <3>3
    <3>4. CASE n # m
      <4>1. n \in 0..m - 1
        BY <3>4, <1>1
      <4> QED
        BY <2>1, <2>2, <3>2, <4>1
    <3> QED
      BY <3>3, <3>4
  <2>4. g = [n \in 0..m |-> turn(g, n)]
    BY <2>3
  <2> QED
    BY <2>4
<1>2. Runs(0)
  <2> DEFINE g == [n \in 0..0 |-> <<>>]
  <2>1. g = [n \in 0..0 |-> turn(g, n)]
    OBVIOUS
  <2> QED
    BY <2>1
<1>3. Bad = {}
  <2> HIDE DEF Runs
  <2> SUFFICES ASSUME Bad # {} PROVE FALSE
    OBVIOUS
  <2>1. PICK m \in Bad : \A k \in Bad : m <= k
    BY LeastExists
  <2>2. m # 0 /\ m - 1 \in Nat /\ m - 1 \notin Bad
    BY <1>2, <2>1
  <2> QED
    BY <1>1, <2>1, <2>2
<1>4. \E f : f = [n \in 0..N |-> turn(f, n)]
  BY <1>3
<1>5. JobsAmong = [n \in 0..N |-> turn(JobsAmong, n)]
  BY <1>4 DEF JobsAmong
<1>6. \A n \in 0..N : JobsAmong[n] = turn(JobsAmong, n)
  BY <1>5
<1>7. 0 \in 0..N /\ \A n \in 1..N : n \in 0..N /\ n # 0
  OBVIOUS
<1> QED
  BY <1>6, <1>7

\* The whole characters among the first n bytes, byte by byte.
LEMMA DecodedDef ==
  ASSUME NEW bytes, Len(bytes) \in Nat
  PROVE  /\ Decoded(bytes)[0] = <<>>
         /\ \A n \in 1..Len(bytes) :
              Decoded(bytes)[n] = IF IsHalf(bytes[n]) THEN Decoded(bytes)[n - 1]
                                ELSE Append(Decoded(bytes)[n - 1], CharAt(bytes, n))
<1> DEFINE N == Len(bytes)
           turn(f, n) == IF n = 0 THEN <<>>
                         ELSE IF IsHalf(bytes[n]) THEN f[n - 1]
                         ELSE Append(f[n - 1], CharAt(bytes, n))
           Runs(m) == \E f : f = [n \in 0..m |-> turn(f, n)]
           Bad == {m \in Nat : ~Runs(m)}
<1>1. ASSUME NEW m \in Nat, m # 0, Runs(m - 1) PROVE Runs(m)
  <2>1. PICK f : f = [n \in 0..m - 1 |-> turn(f, n)]
    BY <1>1
  <2> DEFINE g == [n \in 0..m |-> IF n = m THEN turn(f, m) ELSE f[n]]
  <2>2. \A n \in 0..m - 1 : g[n] = f[n]
    BY <1>1
  <2>3. ASSUME NEW n \in 0..m PROVE g[n] = turn(g, n)
    <3>1. n # 0 => n - 1 \in 0..m - 1
      BY <1>1
    <3>2. turn(g, n) = turn(f, n)
      BY <2>2, <3>1
    <3>3. CASE n = m
      BY <3>2, <3>3
    <3>4. CASE n # m
      <4>1. n \in 0..m - 1
        BY <3>4, <1>1
      <4> QED
        BY <2>1, <2>2, <3>2, <4>1
    <3> QED
      BY <3>3, <3>4
  <2>4. g = [n \in 0..m |-> turn(g, n)]
    BY <2>3
  <2> QED
    BY <2>4
<1>2. Runs(0)
  <2> DEFINE g == [n \in 0..0 |-> <<>>]
  <2>1. g = [n \in 0..0 |-> turn(g, n)]
    OBVIOUS
  <2> QED
    BY <2>1
<1>3. Bad = {}
  <2> HIDE DEF Runs
  <2> SUFFICES ASSUME Bad # {} PROVE FALSE
    OBVIOUS
  <2>1. PICK m \in Bad : \A k \in Bad : m <= k
    BY LeastExists
  <2>2. m # 0 /\ m - 1 \in Nat /\ m - 1 \notin Bad
    BY <1>2, <2>1
  <2> QED
    BY <1>1, <2>1, <2>2
<1>4. \E f : f = [n \in 0..N |-> turn(f, n)]
  BY <1>3
<1>5. Decoded(bytes) = [n \in 0..N |-> turn(Decoded(bytes), n)]
  BY <1>4 DEF Decoded
<1>6. \A n \in 0..N : Decoded(bytes)[n] = turn(Decoded(bytes), n)
  BY <1>5
<1>7. 0 \in 0..N /\ \A n \in 1..N : n \in 0..N /\ n # 0
  OBVIOUS
<1> QED
  BY <1>6, <1>7

-----------------------------------------------------------------------------
(* Pieces of a sequence. *)

\* A piece of a sequence is known by its length and its elements.
LEMMA Piece ==
  ASSUME NEW S, NEW s \in Seq(S), NEW m \in 1..Len(s) + 1, NEW n \in m - 1..Len(s),
         NEW t \in Seq(S), Len(t) = n - m + 1, \A i \in 1..Len(t) : t[i] = s[m + i - 1]
  PROVE  SubSeq(s, m, n) = t
<1>1. Len(s) \in Nat /\ m \in Int /\ n \in Int
  BY LenProperties
<1>2. \A i \in m..n : i \in 1..Len(s) /\ s[i] \in S
  BY <1>1, ElementOfSeq
<1>3. /\ SubSeq(s, m, n) \in Seq(S)
      /\ Len(SubSeq(s, m, n)) = IF m <= n THEN n - m + 1 ELSE 0
      /\ \A i \in 1..n - m + 1 : SubSeq(s, m, n)[i] = s[m + i - 1]
  BY <1>1, <1>2, SubSeqProperties
<1>4. Len(SubSeq(s, m, n)) = Len(t)
  BY <1>1, <1>3
<1> QED
  BY <1>3, <1>4, SeqEqual

\* A sequence cut anywhere.
LEMMA Cutting ==
  ASSUME NEW S, NEW s \in Seq(S), NEW n \in 0..Len(s)
  PROVE  /\ SubSeq(s, 1, n) \in Seq(S) /\ SubSeq(s, n + 1, Len(s)) \in Seq(S)
         /\ SubSeq(s, 1, n) \o SubSeq(s, n + 1, Len(s)) = s
<1> DEFINE a == SubSeq(s, 1, n)
           b == SubSeq(s, n + 1, Len(s))
<1>1. Len(s) \in Nat /\ n \in Nat /\ n <= Len(s)
  BY LenProperties
<1>2. a \in Seq(S) /\ Len(a) = n /\ \A i \in 1..n : a[i] = s[i]
  BY Prefix
<1>3. b \in Seq(S) /\ Len(b) = Len(s) - n /\ \A i \in 1..Len(s) - n : b[i] = s[n + i]
  <2>1. \A i \in n + 1..Len(s) : s[i] \in S
    BY <1>1, ElementOfSeq
  <2>2. n + 1 \in Int /\ Len(s) \in Int
    BY <1>1
  <2>3. /\ b \in Seq(S)
        /\ Len(b) = IF n + 1 <= Len(s) THEN Len(s) - (n + 1) + 1 ELSE 0
        /\ \A i \in 1..Len(s) - (n + 1) + 1 : b[i] = s[n + 1 + i - 1]
    BY <2>1, <2>2, SubSeqProperties
  <2> HIDE DEF b
  <2>4. \A i \in 1..Len(s) - n : i \in 1..Len(s) - (n + 1) + 1 /\ n + 1 + i - 1 = n + i
    BY <1>1
  <2>5. Len(b) = Len(s) - n
    BY <1>1, <2>3
  <2> QED
    BY <2>3, <2>4, <2>5
<1> HIDE DEF a, b
<1>4. /\ a \o b \in Seq(S) /\ Len(a \o b) = Len(a) + Len(b)
      /\ \A i \in 1..Len(a) + Len(b) : (a \o b)[i] = IF i <= Len(a) THEN a[i] ELSE b[i - Len(a)]
  BY <1>2, <1>3, ConcatProperties
<1>5. Len(a \o b) = Len(s)
  BY <1>1, <1>2, <1>3, <1>4
<1>6. ASSUME NEW i \in 1..Len(s) PROVE (a \o b)[i] = s[i]
  <2>1. CASE i <= n
    BY <1>1, <1>2, <1>3, <1>4, <2>1
  <2>2. CASE ~(i <= n)
    <3>1. i - n \in 1..Len(s) - n /\ n + (i - n) = i /\ i \in 1..Len(a) + Len(b)
      BY <1>1, <1>2, <1>3, <2>2
    <3> QED
      BY <1>2, <1>3, <1>4, <2>2, <3>1
  <2> QED
    BY <2>1, <2>2
<1>7. a \o b = s
  BY <1>4, <1>5, <1>6, SeqEqual
<1> QED
  BY <1>2, <1>3, <1>7 DEF a, b

\* What is behind a beginning.
LEMMA Behind ==
  ASSUME NEW S, NEW a \in Seq(S), NEW z \in Seq(S)
  PROVE  SubSeq(a \o z, Len(a) + 1, Len(a \o z)) = z
<1>1. /\ a \o z \in Seq(S) /\ Len(a \o z) = Len(a) + Len(z)
      /\ \A i \in 1..Len(a) + Len(z) : (a \o z)[i] = IF i <= Len(a) THEN a[i] ELSE z[i - Len(a)]
  BY ConcatProperties
<1>2. Len(a) \in Nat /\ Len(z) \in Nat
  BY LenProperties
<1> DEFINE s == a \o z
           m == Len(a) + 1
           n == Len(s)
<1>3. m \in 1..Len(s) + 1 /\ n \in m - 1..Len(s) /\ Len(z) = n - m + 1
  BY <1>1, <1>2
<1>4. \A i \in 1..Len(z) : z[i] = s[m + i - 1]
  BY <1>1, <1>2
<1>5. s \in Seq(S)
  BY <1>1
<1> HIDE DEF s, m, n
<1>6. SubSeq(s, m, n) = z
  BY <1>3, <1>4, <1>5, Piece
<1> QED
  BY <1>6 DEF s, m, n

\* Of two ways to cut a sequence, the first piece of the one begins with that of
\* the other.
LEMMA Split ==
  ASSUME NEW S, NEW y \in Seq(S), NEW w \in Seq(S), NEW a \in Seq(S), NEW b \in Seq(S),
         y \o w = a \o b, Len(a) <= Len(y)
  PROVE  /\ SubSeq(y, Len(a) + 1, Len(y)) \in Seq(S)
         /\ y = a \o SubSeq(y, Len(a) + 1, Len(y))
         /\ Len(y) = Len(a) + Len(SubSeq(y, Len(a) + 1, Len(y)))
<1> DEFINE z == SubSeq(y, Len(a) + 1, Len(y))
<1>1. Len(y) \in Nat /\ Len(w) \in Nat /\ Len(a) \in Nat /\ Len(b) \in Nat /\ Len(a) \in 0..Len(y)
  BY LenProperties
<1>2. z \in Seq(S) /\ SubSeq(y, 1, Len(a)) \o z = y
  BY <1>1, Cutting
<1> HIDE DEF z
<1>3. ASSUME NEW i \in 1..Len(a) PROVE a[i] = y[i]
  <2>1. i <= Len(a) /\ i <= Len(y) /\ i \in 1..Len(a) + Len(b) /\ i \in 1..Len(y) + Len(w)
    BY <1>1
  <2>2. (y \o w)[i] = y[i] /\ (a \o b)[i] = a[i]
    BY <2>1, ConcatProperties
  <2> QED
    BY <2>2
<1>4. SubSeq(y, 1, Len(a)) = a
  <2>1. 1 \in 1..Len(y) + 1 /\ Len(a) \in 1 - 1..Len(y) /\ Len(a) = Len(a) - 1 + 1
    BY <1>1
  <2>2. \A i \in 1..Len(a) : a[i] = y[1 + i - 1]
    BY <1>3
  <2> QED
    BY <2>1, <2>2, Piece
<1>5. Len(a \o z) = Len(a) + Len(z)
  BY <1>2, ConcatProperties
<1> QED
  BY <1>2, <1>4, <1>5 DEF z

\* What is left of that piece and the second make up the other's second.
LEMMA SplitRest ==
  ASSUME NEW S, NEW y \in Seq(S), NEW w \in Seq(S), NEW a \in Seq(S), NEW b \in Seq(S),
         y \o w = a \o b, Len(a) <= Len(y)
  PROVE  SubSeq(y, Len(a) + 1, Len(y)) \o w = b
<1> DEFINE z == SubSeq(y, Len(a) + 1, Len(y))
<1>1. z \in Seq(S) /\ y = a \o z
  BY Split
<1> HIDE DEF z
<1>2. z \o w \in Seq(S) /\ (a \o z) \o w = a \o (z \o w)
  BY <1>1, ConcatProperties, ConcatAssociative
<1>3. a \o (z \o w) = a \o b
  BY <1>1, <1>2
<1>4. z \o w = b
  BY <1>2, <1>3, ConcatSimplifications
<1> QED
  BY <1>4 DEF z

-----------------------------------------------------------------------------
(* What the server sends. *)

Bytes == [job : Nat, char : Nat, half : Nat]
Symbols == Nat \cup [job : Nat, char : Nat] \cup Bytes

StreamTyped ==
  /\ items \in Seq(Kinds \cup {Heartbeat})
  /\ contentType \in {"msgpack", "ndjson"}

\* Only a heartbeat is without a payload, and a payload's length fits in four bytes.
LEMMA Sizes ==
  ASSUME StreamTyped, NEW i \in 1..Len(items)
  PROVE  /\ SizeOf(i) \in Nat /\ (SizeOf(i) = 0 <=> items[i] = Heartbeat)
         /\ SizeOf(i) < Base * Base * Base * Base
<1>1. items[i] \in Kinds \cup {Heartbeat}
  BY DEF StreamTyped
<1>2. Base \in Nat /\ Base > 1
  BY TakeStreamAssumption
<1>3. Base * Base * Base * Base > 0
  <2>1. Base * Base \in Nat /\ Base * Base > 0
    BY <1>2
  <2>2. (Base * Base) * Base \in Nat /\ (Base * Base) * Base > 0
    BY <1>2, <2>1
  <2>3. ((Base * Base) * Base) * Base > 0
    BY <1>2, <2>2
  <2> QED
    BY <2>3
<1>4. CASE items[i] = Heartbeat
  BY <1>3, <1>4 DEF SizeOf
<1>5. CASE items[i] # Heartbeat
  <2>1. items[i] \in Kinds /\ SizeOf(i) = Size[items[i]]
    BY <1>1, <1>5 DEF SizeOf
  <2>2. Size[items[i]] \in Nat \ {0} /\ Size[items[i]] < Base * Base * Base * Base
    BY <2>1, TakeStreamAssumption
  <2> QED
    BY <1>5, <2>1, <2>2
<1> QED
  BY <1>4, <1>5

\* The payload of an item has its characters in order.
LEMMA JobShape ==
  ASSUME StreamTyped, NEW i \in 1..Len(items)
  PROVE  /\ PayloadOf(i) \in Seq(Symbols) /\ Len(PayloadOf(i)) = SizeOf(i)
         /\ \A k \in 1..SizeOf(i) : PayloadOf(i)[k] = Char(i, k)
<1>1. SizeOf(i) \in Nat
  BY Sizes
<1>2. \A k \in 1..SizeOf(i) : Char(i, k) \in Symbols
  BY <1>1 DEF Char, Symbols, StreamTyped
<1>3. PayloadOf(i) \in Seq(Symbols)
  BY <1>1, <1>2, IsASeq DEF PayloadOf
<1> QED
  BY <1>1, <1>3 DEF PayloadOf

\* The length that is read back is the one that was written.
LEMMA LengthsRead ==
  ASSUME NEW n \in Nat, n < Base * Base * Base * Base
  PROVE  LET p == LengthPrefix(n)
         IN  /\ p \in Seq(Nat) /\ Len(p) = 4
             /\ ((p[1] * Base + p[2]) * Base + p[3]) * Base + p[4] = n
<1> DEFINE n1 == n \div Base
           n2 == n1 \div Base
           n3 == n2 \div Base
           B2 == Base * Base
           B3 == B2 * Base
<1>1. Base \in Nat /\ Base > 1
  BY TakeStreamAssumption
<1>2. \A m \in Nat : /\ m \div Base \in Nat /\ m % Base \in Nat
                     /\ m = (m \div Base) * Base + (m % Base)
  <2> TAKE m \in Nat
  <2>1. m \div Base \in Int /\ m % Base \in 0..Base - 1 /\ m = Base * (m \div Base) + (m % Base)
    BY <1>1
  <2> QED
    BY <1>1, <2>1
<1>3. n1 \in Nat /\ n2 \in Nat /\ n3 \in Nat
  BY <1>2
<1>4. B2 \in Nat /\ B3 \in Nat
  BY <1>1
<1>5. \A m \in Nat, b \in Nat : m < b * Base => m \div Base < b
  <2> SUFFICES ASSUME NEW m \in Nat, NEW b \in Nat, m < b * Base, m \div Base >= b PROVE FALSE
    BY <1>2
  <2>1. PICK q \in Nat, r \in Nat : q >= b /\ m = q * Base + r
    BY <1>2
  <2>2. PICK d \in Nat : q = b + d
    <3>1. q - b \in Nat /\ q = b + (q - b)
      BY <2>1
    <3> QED
      BY <3>1
  <2>3. q * Base = b * Base + d * Base /\ d * Base >= 0
    BY <1>1, <2>2
  <2> QED
    BY <1>1, <2>1, <2>3
<1>6. n1 < B3
  BY <1>4, <1>5
<1>7. n2 < B2
  BY <1>3, <1>4, <1>5, <1>6
<1>8. n3 < Base
  BY <1>1, <1>3, <1>5, <1>7
<1>9. n3 % Base = n3
  BY <1>1, <1>3, <1>8
<1>10. n2 = n3 * Base + (n2 % Base) /\ n1 = n2 * Base + (n1 % Base) /\ n = n1 * Base + (n % Base)
  BY <1>2, <1>3
<1>11. LengthPrefix(n) = <<n3 % Base, n2 % Base, n1 % Base, n % Base>>
  BY DEF LengthPrefix
<1>12. n3 % Base \in Nat /\ n2 % Base \in Nat /\ n1 % Base \in Nat /\ n % Base \in Nat
  BY <1>2, <1>3
<1> HIDE DEF n1, n2, n3
<1> QED
  BY <1>9, <1>10, <1>11, <1>12

\* A frame is a length prefix and the payload.
LEMMA FrameShape ==
  ASSUME StreamTyped, NEW i \in 1..Len(items)
  PROVE  /\ Frame(i) \in Seq(Symbols) /\ Len(Frame(i)) = 4 + SizeOf(i)
         /\ \A k \in 1..4 : Frame(i)[k] = LengthPrefix(SizeOf(i))[k]
         /\ \A k \in 1..SizeOf(i) : Frame(i)[4 + k] = Char(i, k)
<1> DEFINE p == LengthPrefix(SizeOf(i))
<1>1. SizeOf(i) \in Nat /\ SizeOf(i) < Base * Base * Base * Base
  BY Sizes
<1>2. p \in Seq(Nat) /\ Len(p) = 4
  BY <1>1, LengthsRead
<1> HIDE DEF p
<1>3. p \in Seq(Symbols)
  <2>1. Nat \subseteq Symbols
    BY DEF Symbols
  <2> QED
    BY <1>2, <2>1, SeqMonotonic
<1>4. /\ PayloadOf(i) \in Seq(Symbols) /\ Len(PayloadOf(i)) = SizeOf(i)
      /\ \A k \in 1..SizeOf(i) : PayloadOf(i)[k] = Char(i, k)
  BY JobShape
<1>5. /\ p \o PayloadOf(i) \in Seq(Symbols) /\ Len(p \o PayloadOf(i)) = Len(p) + Len(PayloadOf(i))
      /\ \A k \in 1..Len(p) + Len(PayloadOf(i)) :
           (p \o PayloadOf(i))[k] = IF k <= Len(p) THEN p[k] ELSE PayloadOf(i)[k - Len(p)]
  BY <1>3, <1>4, ConcatProperties
<1>6. \A k \in 1..4 : k \in 1..4 + SizeOf(i) /\ k <= 4
  BY <1>1
<1>7. \A k \in 1..SizeOf(i) : 4 + k \in 1..4 + SizeOf(i) /\ ~(4 + k <= 4) /\ (4 + k) - 4 = k
  BY <1>1
<1>8. Frame(i) = p \o PayloadOf(i)
  BY DEF Frame, p
<1> QED
  BY <1>2, <1>4, <1>5, <1>6, <1>7, <1>8 DEF p

\* A second half of a character is never without its first.
Paired(s) ==
  /\ s \in Seq(Bytes)
  /\ \A n \in 1..Len(s) :
       s[n].half = 2 => n > 1 /\ s[n - 1] = Byte(s[n].job, s[n].char, 1)

\* A line has two bytes for each character, and a newline of one at its end.
LEMMA LineShape ==
  ASSUME StreamTyped, NEW i \in 1..Len(items)
  PROVE  /\ Paired(Line(i)) /\ Len(Line(i)) = 2 * SizeOf(i) + 1
         /\ \A k \in 1..SizeOf(i) : /\ Line(i)[2 * k - 1] = Byte(i, k, 1)
                                    /\ Line(i)[2 * k] = Byte(i, k, 2)
         /\ Line(i)[2 * SizeOf(i) + 1] = Byte(0, 0, 0)
<1> DEFINE n == 2 * SizeOf(i)
           e(b) == Byte(i, (b + 1) \div 2, 2 - (b % 2))
           s == [b \in 1..n |-> e(b)]
           t == <<Byte(0, 0, 0)>>
<1>1. SizeOf(i) \in Nat /\ n \in Nat /\ i \in Nat
  BY Sizes DEF StreamTyped
<1>2. \A b \in 1..n : e(b) \in Bytes
  BY <1>1 DEF Byte, Bytes
<1>3. s \in Seq(Bytes)
  <2> HIDE DEF e
  <2> QED
    BY <1>1, <1>2, IsASeq
<1>4. t \in Seq(Bytes) /\ Len(t) = 1 /\ t[1] = Byte(0, 0, 0)
  BY DEF Byte, Bytes
<1>5. Len(s) = n /\ \A b \in 1..n : s[b] = e(b)
  BY <1>1
<1>6. Line(i) = s \o t
  BY DEF Line
<1> HIDE DEF s, t
<1>7. /\ s \o t \in Seq(Bytes) /\ Len(s \o t) = Len(s) + Len(t)
      /\ \A b \in 1..Len(s) + Len(t) : (s \o t)[b] = IF b <= Len(s) THEN s[b] ELSE t[b - Len(s)]
  BY <1>3, <1>4, ConcatProperties
<1>8. /\ Line(i) \in Seq(Bytes) /\ Len(Line(i)) = n + 1
      /\ \A b \in 1..n : Line(i)[b] = e(b)
      /\ Line(i)[n + 1] = Byte(0, 0, 0)
  <2>1. \A b \in 1..n : b \in 1..n + 1 /\ b <= n
    BY <1>1
  <2>2. n + 1 \in 1..n + 1 /\ ~(n + 1 <= n) /\ (n + 1) - n = 1
    BY <1>1
  <2> HIDE DEF e, n
  <2> QED
    BY <1>4, <1>5, <1>6, <1>7, <2>1, <2>2
<1>9. ASSUME NEW k \in 1..SizeOf(i)
      PROVE  Line(i)[2 * k - 1] = Byte(i, k, 1) /\ Line(i)[2 * k] = Byte(i, k, 2)
  <2>1. 2 * k - 1 \in 1..n /\ 2 * k \in 1..n
    BY <1>1
  <2>2. ((2 * k - 1) + 1) \div 2 = k /\ 2 - ((2 * k - 1) % 2) = 1
    BY <1>1
  <2>3. (2 * k + 1) \div 2 = k /\ 2 - ((2 * k) % 2) = 2
    BY <1>1
  <2> QED
    BY <1>8, <2>1, <2>2, <2>3
<1>10. ASSUME NEW b \in 1..Len(Line(i)), Line(i)[b].half = 2
       PROVE  b > 1 /\ Line(i)[b - 1] = Byte(Line(i)[b].job, Line(i)[b].char, 1)
  <2>1. CASE b \in 1..n
    <3>1. Line(i)[b] = e(b)
      BY <1>8, <2>1
    <3>2. 2 - (b % 2) = 2
      BY <1>10, <3>1 DEF Byte
    <3>3. PICK k \in 1..SizeOf(i) : b = 2 * k
      <4>1. b = 2 * (b \div 2) /\ b \div 2 \in 1..SizeOf(i)
        BY <1>1, <2>1, <3>2
      <4> QED
        BY <4>1
    <3>4. Line(i)[b] = Byte(i, k, 2) /\ Line(i)[b - 1] = Byte(i, k, 1) /\ b > 1
      BY <1>1, <1>9, <3>3
    <3> QED
      BY <3>4 DEF Byte
  <2>2. CASE b = n + 1
    BY <1>8, <1>10, <2>2 DEF Byte
  <2> QED
    BY <1>1, <1>8, <2>1, <2>2
<1>11. Paired(Line(i))
  BY <1>8, <1>10 DEF Paired
<1> QED
  BY <1>8, <1>9, <1>11

\* Streams that begin and end between characters may follow each other.
LEMMA PairedGlued ==
  ASSUME NEW a, NEW b, Paired(a), Paired(b)
  PROVE  Paired(a \o b)
<1>1. a \in Seq(Bytes) /\ b \in Seq(Bytes)
  BY DEF Paired
<1>2. /\ a \o b \in Seq(Bytes) /\ Len(a \o b) = Len(a) + Len(b)
      /\ \A n \in 1..Len(a) + Len(b) : (a \o b)[n] = IF n <= Len(a) THEN a[n] ELSE b[n - Len(a)]
  BY <1>1, ConcatProperties
<1>3. Len(a) \in Nat /\ Len(b) \in Nat
  BY <1>1, LenProperties
<1> DEFINE s == a \o b
<1>4. ASSUME NEW n \in 1..Len(s), s[n].half = 2
      PROVE  n > 1 /\ s[n - 1] = Byte(s[n].job, s[n].char, 1)
  <2>1. CASE n <= Len(a)
    <3>1. n \in 1..Len(a) /\ s[n] = a[n]
      BY <1>2, <1>3, <2>1
    <3>2. n > 1 /\ a[n - 1] = Byte(a[n].job, a[n].char, 1)
      BY <1>4, <3>1 DEF Paired
    <3>3. n - 1 \in 1..Len(a) + Len(b) /\ n - 1 <= Len(a)
      BY <1>3, <2>1, <3>2
    <3>4. s[n - 1] = a[n - 1]
      BY <1>2, <3>3
    <3> HIDE DEF s
    <3> QED
      BY <3>1, <3>2, <3>4
  <2>2. CASE ~(n <= Len(a))
    <3> DEFINE m == n - Len(a)
    <3>1. m \in 1..Len(b) /\ s[n] = b[m] /\ n \in Nat
      BY <1>2, <1>3, <2>2
    <3>2. m > 1 /\ b[m - 1] = Byte(b[m].job, b[m].char, 1)
      BY <1>4, <3>1 DEF Paired
    <3>3. n - 1 \in 1..Len(a) + Len(b) /\ ~(n - 1 <= Len(a)) /\ (n - 1) - Len(a) = m - 1 /\ n > 1
      BY <1>3, <3>1, <3>2
    <3>4. s[n - 1] = b[m - 1]
      BY <1>2, <3>3
    <3> HIDE DEF s, m
    <3> QED
      BY <3>1, <3>2, <3>3, <3>4
  <2> QED
    BY <2>1, <2>2
<1> QED
  BY <1>2, <1>4 DEF Paired

\* A beginning is paired too, and what is behind one that ends with no first half
\* begins with no second.
LEMMA PairedParts ==
  ASSUME NEW a \in Seq(Symbols), NEW b \in Seq(Symbols), Paired(a \o b)
  PROVE  /\ Paired(a) /\ b \in Seq(Bytes)
         /\ ~Cut(a) /\ b # <<>> => b[1].half # 2
<1>1. /\ Len(a \o b) = Len(a) + Len(b)
      /\ \A n \in 1..Len(a) + Len(b) : (a \o b)[n] = IF n <= Len(a) THEN a[n] ELSE b[n - Len(a)]
  BY ConcatProperties
<1>2. Len(a) \in Nat /\ Len(b) \in Nat
  BY LenProperties
<1> DEFINE s == a \o b
<1>3. s \in Seq(Bytes) /\ \A n \in 1..Len(a) + Len(b) : s[n] \in Bytes
  <2>1. s \in Seq(Bytes)
    BY DEF Paired
  <2> QED
    BY <1>1, <2>1, ElementOfSeq
<1>4. \A n \in 1..Len(a) : n \in 1..Len(a) + Len(b) /\ s[n] = a[n]
  BY <1>1, <1>2
<1>5. \A n \in 1..Len(b) : /\ Len(a) + n \in 1..Len(a) + Len(b)
                           /\ s[Len(a) + n] = b[n]
  <2> TAKE n \in 1..Len(b)
  <2>1. Len(a) + n \in 1..Len(a) + Len(b) /\ ~(Len(a) + n <= Len(a)) /\ (Len(a) + n) - Len(a) = n
    BY <1>2
  <2> QED
    BY <1>1, <2>1
<1>6. \A n \in 1..Len(s) : s[n].half = 2 => n > 1 /\ s[n - 1] = Byte(s[n].job, s[n].char, 1)
  BY DEF Paired
<1> HIDE DEF s
<1>7. a \in Seq(Bytes)
  <2>1. \A n \in 1..Len(a) : a[n] \in Bytes
    BY <1>3, <1>4
  <2>2. a = [n \in 1..Len(a) |-> a[n]]
    BY LenProperties
  <2>3. [n \in 1..Len(a) |-> a[n]] \in Seq(Bytes)
    BY <1>2, <2>1, IsASeq
  <2> QED
    BY <2>2, <2>3
<1>8. b \in Seq(Bytes)
  <2>1. \A n \in 1..Len(b) : b[n] \in Bytes
    BY <1>3, <1>5
  <2>2. b = [n \in 1..Len(b) |-> b[n]]
    BY LenProperties
  <2>3. [n \in 1..Len(b) |-> b[n]] \in Seq(Bytes)
    BY <1>2, <2>1, IsASeq
  <2> QED
    BY <2>2, <2>3
<1>9. ASSUME NEW n \in 1..Len(a), a[n].half = 2
      PROVE  n > 1 /\ a[n - 1] = Byte(a[n].job, a[n].char, 1)
  <2>1. n \in 1..Len(s) /\ s[n] = a[n]
    BY <1>1, <1>4 DEF s
  <2>2. n > 1 /\ s[n - 1] = Byte(a[n].job, a[n].char, 1)
    BY <1>6, <1>9, <2>1
  <2>3. n - 1 \in 1..Len(a)
    BY <1>2, <2>2
  <2> QED
    BY <1>4, <2>2, <2>3
<1>10. ASSUME ~Cut(a), b # <<>>, b[1].half = 2 PROVE FALSE
  <2>1. 1 \in 1..Len(b)
    BY <1>2, <1>8, <1>10, EmptySeq
  <2>2. Len(a) + 1 \in 1..Len(s) /\ s[Len(a) + 1] = b[1]
    BY <1>1, <1>5, <2>1 DEF s
  <2>3. Len(a) + 1 > 1 /\ s[Len(a) + 1 - 1] = Byte(b[1].job, b[1].char, 1)
    BY <1>6, <1>10, <2>2
  <2>4. Len(a) \in 1..Len(a) /\ Len(a) + 1 - 1 = Len(a)
    BY <1>2, <2>3
  <2>5. a[Len(a)] = Byte(b[1].job, b[1].char, 1)
    BY <1>4, <2>3, <2>4
  <2>6. a # <<>> /\ Last(a).half = 1
    BY <2>4, <2>5, EmptySeq DEF Last, Byte
  <2> QED
    BY <1>10, <2>6 DEF Cut, IsHalf
<1> QED
  BY <1>7, <1>8, <1>9, <1>10 DEF Paired

\* An item is a sequence of bytes, in NDJSON one of whole characters.
LEMMA ItemTyped ==
  ASSUME StreamTyped, NEW i \in 1..Len(items)
  PROVE  Item(i) \in Seq(Symbols) /\ (contentType # "msgpack" => Paired(Item(i)))
<1>1. CASE contentType = "msgpack"
  BY <1>1, FrameShape DEF Item
<1>2. CASE contentType # "msgpack"
  <2>1. Paired(Item(i))
    BY <1>2, LineShape DEF Item
  <2>2. Item(i) \in Seq(Bytes) /\ Bytes \subseteq Symbols
    BY <2>1 DEF Paired, Symbols
  <2> QED
    BY <2>1, <2>2, SeqMonotonic
<1> QED
  BY <1>1, <1>2

\* So is what follows from any item on.
LEMMA TailsTyped ==
  ASSUME StreamTyped, NEW k \in 0..Len(items)
  PROVE  Tails[k] \in Seq(Symbols) /\ (contentType # "msgpack" => Paired(Tails[k]))
<1> DEFINE Good(m) == Tails[m] \in Seq(Symbols) /\ (contentType # "msgpack" => Paired(Tails[m]))
           Bad == {m \in 0..Len(items) : ~Good(m)}
<1>1. Len(items) \in Nat
  BY DEF StreamTyped
<1>2. Good(0)
  <2>1. Tails[0] = <<>> /\ <<>> \in Seq(Symbols)
    BY <1>1, TailsDef
  <2>2. Paired(<<>>)
    BY EmptySeq DEF Paired
  <2> QED
    BY <2>1, <2>2
<1>3. ASSUME NEW m \in 1..Len(items), Good(m - 1) PROVE Good(m)
  <2> DEFINE i == Len(items) + 1 - m
  <2>1. Tails[m] = Item(i) \o Tails[m - 1]
    BY <1>1, TailsDef
  <2>2. i \in 1..Len(items)
    BY <1>1
  <2> HIDE DEF i
  <2>3. Item(i) \in Seq(Symbols) /\ (contentType # "msgpack" => Paired(Item(i)))
    BY <2>2, ItemTyped
  <2> QED
    BY <1>3, <2>1, <2>3, ConcatProperties, PairedGlued
<1>4. Bad = {}
  <2> HIDE DEF Good
  <2> SUFFICES ASSUME Bad # {} PROVE FALSE
    OBVIOUS
  <2>1. PICK m \in Bad : \A n \in Bad : m <= n
    <3>1. Bad \in SUBSET Nat
      OBVIOUS
    <3> HIDE DEF Bad
    <3> QED
      BY <3>1, LeastExists
  <2>2. m # 0 /\ m - 1 \in 0..Len(items) /\ m \in 1..Len(items) /\ m - 1 \notin Bad
    BY <1>1, <1>2, <2>1
  <2> QED
    BY <1>3, <2>1, <2>2
<1> QED
  BY <1>4

-----------------------------------------------------------------------------
(* What the decoder makes of the bytes. *)

\* What is decoded is a sequence of characters.
LEMMA DecodedTyped ==
  ASSUME NEW s \in Seq(Bytes), NEW n \in 0..Len(s)
  PROVE  Decoded(s)[n] \in Seq(Symbols)
<1> DEFINE Bad == {m \in 0..Len(s) : Decoded(s)[m] \notin Seq(Symbols)}
<1>1. Len(s) \in Nat
  BY LenProperties
<1>2. /\ Decoded(s)[0] = <<>>
      /\ \A m \in 1..Len(s) : Decoded(s)[m] = IF IsHalf(s[m]) THEN Decoded(s)[m - 1]
                                            ELSE Append(Decoded(s)[m - 1], CharAt(s, m))
  BY <1>1, DecodedDef
<1>3. \A m \in 1..Len(s) : CharAt(s, m) \in Symbols
  <2> TAKE m \in 1..Len(s)
  <2>1. s[m] \in Bytes
    BY ElementOfSeq
  <2> QED
    BY <2>1 DEF CharAt, Char, Garbled, Symbols, Bytes
<1>4. Bad = {}
  <2> SUFFICES ASSUME Bad # {} PROVE FALSE
    OBVIOUS
  <2>1. PICK m \in Bad : \A k \in Bad : m <= k
    <3>1. Bad \in SUBSET Nat
      OBVIOUS
    <3> HIDE DEF Bad
    <3> QED
      BY <3>1, LeastExists
  <2>2. Decoded(s)[0] \in Seq(Symbols)
    BY <1>2
  <2>3. m # 0 /\ m - 1 \in 0..Len(s) /\ m \in 1..Len(s) /\ m - 1 \notin Bad
    BY <1>1, <2>1, <2>2
  <2>4. Decoded(s)[m - 1] \in Seq(Symbols)
    BY <2>3
  <2>5. Append(Decoded(s)[m - 1], CharAt(s, m)) \in Seq(Symbols)
    BY <1>3, <2>3, <2>4, AppendProperties
  <2> QED
    BY <1>2, <2>1, <2>3, <2>4, <2>5
<1> QED
  BY <1>4

\* What comes behind changes nothing in the characters before.
LEMMA DecodedBefore ==
  ASSUME NEW p \in Seq(Bytes), NEW q \in Seq(Bytes), NEW n \in 0..Len(p)
  PROVE  Decoded(p \o q)[n] = Decoded(p)[n]
<1> DEFINE s == p \o q
           Bad == {m \in 0..Len(p) : Decoded(s)[m] # Decoded(p)[m]}
<1>1. /\ s \in Seq(Bytes) /\ Len(s) = Len(p) + Len(q)
      /\ \A m \in 1..Len(p) + Len(q) : s[m] = IF m <= Len(p) THEN p[m] ELSE q[m - Len(p)]
  BY ConcatProperties
<1>2. Len(p) \in Nat /\ Len(q) \in Nat /\ Len(s) \in Nat
  BY <1>1, LenProperties
<1>3. \A m \in 1..Len(p) : m \in 1..Len(s) /\ s[m] = p[m]
  BY <1>1, <1>2
<1> HIDE DEF s
<1>4. /\ Decoded(s)[0] = <<>>
      /\ \A m \in 1..Len(s) : Decoded(s)[m] = IF IsHalf(s[m]) THEN Decoded(s)[m - 1]
                                            ELSE Append(Decoded(s)[m - 1], CharAt(s, m))
  BY <1>2, DecodedDef
<1>5. /\ Decoded(p)[0] = <<>>
      /\ \A m \in 1..Len(p) : Decoded(p)[m] = IF IsHalf(p[m]) THEN Decoded(p)[m - 1]
                                            ELSE Append(Decoded(p)[m - 1], CharAt(p, m))
  BY <1>2, DecodedDef
<1>6. \A m \in 1..Len(p) : CharAt(s, m) = CharAt(p, m)
  <2> TAKE m \in 1..Len(p)
  <2>1. s[m] = p[m]
    BY <1>3
  <2>2. m # 1 => s[m - 1] = p[m - 1]
    BY <1>2, <1>3
  <2> QED
    BY <2>1, <2>2 DEF CharAt
<1>7. Bad = {}
  <2> SUFFICES ASSUME Bad # {} PROVE FALSE
    OBVIOUS
  <2>1. PICK m \in Bad : \A k \in Bad : m <= k
    <3>1. Bad \in SUBSET Nat
      OBVIOUS
    <3> HIDE DEF Bad
    <3> QED
      BY <3>1, LeastExists
  <2>2. m # 0 /\ m - 1 \in 0..Len(p) /\ m \in 1..Len(p) /\ m - 1 \notin Bad
    BY <1>2, <1>4, <1>5, <2>1
  <2> QED
    BY <1>3, <1>4, <1>5, <1>6, <2>1, <2>2
<1> QED
  BY <1>7 DEF s

\* Bytes that do not begin inside a character say what they say alone.
LEMMA DecodedBehind ==
  ASSUME NEW p \in Seq(Bytes), NEW q \in Seq(Bytes), q # <<>> => q[1].half # 2,
         NEW n \in 0..Len(q)
  PROVE  Decoded(p \o q)[Len(p) + n] = Decoded(p)[Len(p)] \o Decoded(q)[n]
<1> DEFINE s == p \o q
           w == Decoded(p)[Len(p)]
           Good(m) == Decoded(s)[Len(p) + m] = w \o Decoded(q)[m]
           Bad == {m \in 0..Len(q) : ~Good(m)}
<1>1. /\ s \in Seq(Bytes) /\ Len(s) = Len(p) + Len(q)
      /\ \A m \in 1..Len(p) + Len(q) : s[m] = IF m <= Len(p) THEN p[m] ELSE q[m - Len(p)]
  BY ConcatProperties
<1>2. Len(p) \in Nat /\ Len(q) \in Nat /\ Len(s) \in Nat
  BY <1>1, LenProperties
<1>3. \A m \in 1..Len(q) : Len(p) + m \in 1..Len(s) /\ s[Len(p) + m] = q[m]
  <2> TAKE m \in 1..Len(q)
  <2>1. Len(p) + m \in 1..Len(p) + Len(q) /\ ~(Len(p) + m <= Len(p)) /\ (Len(p) + m) - Len(p) = m
    BY <1>2
  <2> QED
    BY <1>1, <2>1
<1>4. Decoded(s)[Len(p)] = w /\ w \in Seq(Symbols)
  <2>1. Len(p) \in 0..Len(p)
    BY <1>2
  <2> QED
    BY <2>1, DecodedBefore, DecodedTyped
<1> HIDE DEF s, w
<1>5. \A m \in 1..Len(s) : Decoded(s)[m] = IF IsHalf(s[m]) THEN Decoded(s)[m - 1]
                                         ELSE Append(Decoded(s)[m - 1], CharAt(s, m))
  BY <1>2, DecodedDef
<1>6. /\ Decoded(q)[0] = <<>>
      /\ \A m \in 1..Len(q) : Decoded(q)[m] = IF IsHalf(q[m]) THEN Decoded(q)[m - 1]
                                            ELSE Append(Decoded(q)[m - 1], CharAt(q, m))
  BY <1>2, DecodedDef
<1>7. \A m \in 1..Len(q) : CharAt(s, Len(p) + m) = CharAt(q, m)
  <2> TAKE m \in 1..Len(q)
  <2>1. s[Len(p) + m] = q[m]
    BY <1>3
  <2>2. CASE m = 1
    <3>1. q[1].half # 2
      BY <2>2, EmptySeq
    <3> QED
      BY <2>1, <2>2, <3>1 DEF CharAt
  <2>3. CASE m # 1
    <3>1. m - 1 \in 1..Len(q) /\ Len(p) + m - 1 = Len(p) + (m - 1) /\ Len(p) + m # 1
      BY <1>2, <2>3
    <3>2. s[Len(p) + m - 1] = q[m - 1]
      BY <1>3, <3>1
    <3> QED
      BY <2>1, <2>3, <3>1, <3>2 DEF CharAt
  <2> QED
    BY <2>2, <2>3
<1>8. Good(0)
  BY <1>2, <1>4, <1>6, ConcatEmptySeq
<1>9. ASSUME NEW m \in 1..Len(q), Good(m - 1) PROVE Good(m)
  <2>1. PICK j : j = Len(p) + m
    OBVIOUS
  <2>2. j \in 1..Len(s) /\ s[j] = q[m] /\ j - 1 = Len(p) + (m - 1) /\ m - 1 \in 0..Len(q)
    BY <1>2, <1>3, <2>1
  <2>3. Decoded(s)[j - 1] = w \o Decoded(q)[m - 1]
    BY <1>9, <2>2
  <2>4. Decoded(q)[m - 1] \in Seq(Symbols) /\ CharAt(q, m) \in Symbols
    <3>1. q[m] \in Bytes
      BY ElementOfSeq
    <3> QED
      BY <2>2, <3>1, DecodedTyped DEF CharAt, Char, Garbled, Symbols, Bytes
  <2>5. CASE IsHalf(q[m])
    <3>1. Decoded(s)[j] = Decoded(s)[j - 1] /\ Decoded(q)[m] = Decoded(q)[m - 1]
      BY <1>5, <1>6, <2>2, <2>5
    <3> QED
      BY <2>1, <2>3, <3>1
  <2>6. CASE ~IsHalf(q[m])
    <3>1. Decoded(s)[j] = Append(Decoded(s)[j - 1], CharAt(s, j))
      BY <1>5, <2>2, <2>6
    <3>2. Decoded(q)[m] = Append(Decoded(q)[m - 1], CharAt(q, m))
      BY <1>6, <2>6
    <3>3. CharAt(s, j) = CharAt(q, m)
      BY <1>7, <2>1
    <3>4. Append(w \o Decoded(q)[m - 1], CharAt(q, m))
            = w \o Append(Decoded(q)[m - 1], CharAt(q, m))
      <4>1. PICK u \in Seq(Symbols), c \in Symbols : u = Decoded(q)[m - 1] /\ c = CharAt(q, m)
        BY <2>4
      <4>2. Append(w \o u, c) = w \o Append(u, c)
        <5>1. <<c>> \in Seq(Symbols) /\ w \in Seq(Symbols) /\ w \o u \in Seq(Symbols)
          BY <1>4, ConcatProperties
        <5>2. Append(w \o u, c) = (w \o u) \o <<c>> /\ Append(u, c) = u \o <<c>>
          BY <5>1, AppendIsConcat
        <5> QED
          BY <5>1, <5>2, ConcatAssociative
      <4> QED
        BY <4>1, <4>2
    <3> QED
      BY <2>1, <2>3, <3>1, <3>2, <3>3, <3>4
  <2> QED
    BY <2>5, <2>6
<1>10. Bad = {}
  <2> HIDE DEF Good
  <2> SUFFICES ASSUME Bad # {} PROVE FALSE
    OBVIOUS
  <2>1. PICK m \in Bad : \A k \in Bad : m <= k
    <3>1. Bad \in SUBSET Nat
      OBVIOUS
    <3> HIDE DEF Bad
    <3> QED
      BY <3>1, LeastExists
  <2>2. m # 0 /\ m - 1 \in 0..Len(q) /\ m \in 1..Len(q) /\ m - 1 \notin Bad
    BY <1>2, <1>8, <2>1
  <2> QED
    BY <1>9, <2>1, <2>2
<1> QED
  BY <1>10 DEF s, w

\* A line, read up to anywhere in it, and as a whole.
LEMMA LineChars ==
  ASSUME StreamTyped, NEW i \in 1..Len(items)
  PROVE  /\ \A n \in 0..2 * SizeOf(i) :
              \E m \in 0..SizeOf(i) : Decoded(Line(i))[n] = [k \in 1..m |-> Char(i, k)]
         /\ Decoded(Line(i))[2 * SizeOf(i) + 1] = Append(PayloadOf(i), Newline)
<1> DEFINE s == Line(i)
           chars(m) == [k \in 1..m |-> Char(i, k)]
           Good(m) == Decoded(s)[2 * m] = chars(m)
           Bad == {m \in 0..SizeOf(i) : ~Good(m)}
<1>1. SizeOf(i) \in Nat /\ i \in Nat
  BY Sizes DEF StreamTyped
<1>2. /\ Len(s) = 2 * SizeOf(i) + 1
      /\ \A k \in 1..SizeOf(i) : s[2 * k - 1] = Byte(i, k, 1) /\ s[2 * k] = Byte(i, k, 2)
      /\ s[2 * SizeOf(i) + 1] = Byte(0, 0, 0)
  BY LineShape
<1> HIDE DEF s
<1>3. Len(s) \in Nat
  BY <1>1, <1>2
<1>4. /\ Decoded(s)[0] = <<>>
      /\ \A n \in 1..Len(s) : Decoded(s)[n] = IF IsHalf(s[n]) THEN Decoded(s)[n - 1]
                                            ELSE Append(Decoded(s)[n - 1], CharAt(s, n))
  BY <1>3, DecodedDef
<1>5. Good(0)
  <2>1. chars(0) = <<>> /\ 2 * 0 = 0
    OBVIOUS
  <2> QED
    BY <1>4, <2>1
<1>6. ASSUME NEW k \in 1..SizeOf(i) PROVE Decoded(s)[2 * k - 1] = Decoded(s)[2 * (k - 1)]
  <2>1. 2 * k - 1 \in 1..Len(s) /\ (2 * k - 1) - 1 = 2 * (k - 1)
    BY <1>1, <1>2
  <2>2. IsHalf(s[2 * k - 1])
    <3>1. s[2 * k - 1] = Byte(i, k, 1)
      BY <1>2
    <3>2. IsHalf(Byte(i, k, 1))
      BY DEF IsHalf, Byte
    <3> QED
      BY <3>1, <3>2
  <2> QED
    BY <1>4, <2>1, <2>2
<1>7. ASSUME NEW m \in 1..SizeOf(i), Good(m - 1) PROVE Good(m)
  <2>1. PICK n \in 1..Len(s) : n = 2 * m
    BY <1>1, <1>2
  <2>2. n - 1 = 2 * m - 1 /\ n # 1
    BY <2>1
  <2>3. s[n] = Byte(i, m, 2) /\ s[n - 1] = Byte(i, m, 1)
    BY <1>2, <2>1, <2>2
  <2>4. ~IsHalf(s[n]) /\ CharAt(s, n) = Char(i, m)
    BY <2>2, <2>3 DEF IsHalf, CharAt, Byte
  <2>5. Decoded(s)[n - 1] = chars(m - 1)
    BY <1>6, <1>7, <2>2
  <2>6. Decoded(s)[n] = Append(chars(m - 1), Char(i, m))
    BY <1>4, <2>4, <2>5
  <2>7. Append(chars(m - 1), Char(i, m)) = chars(m)
    <3>1. m - 1 \in Nat /\ (m - 1) + 1 = m
      OBVIOUS
    <3> QED
      BY <3>1
  <2> HIDE DEF chars
  <2> QED
    BY <2>1, <2>6, <2>7
<1>8. Bad = {}
  <2> HIDE DEF Good
  <2> SUFFICES ASSUME Bad # {} PROVE FALSE
    OBVIOUS
  <2>1. PICK m \in Bad : \A k \in Bad : m <= k
    <3>1. Bad \in SUBSET Nat
      OBVIOUS
    <3> HIDE DEF Bad
    <3> QED
      BY <3>1, LeastExists
  <2>2. m # 0 /\ m - 1 \in 0..SizeOf(i) /\ m \in 1..SizeOf(i) /\ m - 1 \notin Bad
    BY <1>1, <1>5, <2>1
  <2> QED
    BY <1>7, <2>1, <2>2
<1>9. \A m \in 0..SizeOf(i) : Decoded(s)[2 * m] = chars(m)
  BY <1>8
<1>10. ASSUME NEW n \in 0..2 * SizeOf(i)
       PROVE  \E m \in 0..SizeOf(i) : Decoded(s)[n] = chars(m)
  <2> DEFINE m == n \div 2
  <2>1. m \in 0..SizeOf(i) /\ (n = 2 * m \/ n = 2 * m + 1)
    BY <1>1
  <2>2. CASE n = 2 * m
    BY <1>9, <2>1, <2>2
  <2>3. CASE n = 2 * m + 1
    <3>1. m + 1 \in 1..SizeOf(i) /\ 2 * (m + 1) - 1 = n /\ (m + 1) - 1 = m
      BY <1>1, <2>1, <2>3
    <3>2. Decoded(s)[n] = Decoded(s)[2 * m]
      BY <1>6, <3>1
    <3> QED
      BY <1>9, <2>1, <3>2
  <2> QED
    BY <2>1, <2>2, <2>3
<1>11. Decoded(s)[2 * SizeOf(i) + 1] = Append(PayloadOf(i), Newline)
  <2>1. PICK n \in 1..Len(s) : n = 2 * SizeOf(i) + 1
    BY <1>1, <1>2
  <2>2. s[n] = Byte(0, 0, 0) /\ n - 1 = 2 * SizeOf(i)
    BY <1>1, <1>2, <2>1
  <2>3. ~IsHalf(s[n]) /\ CharAt(s, n) = Newline
    BY <2>2 DEF IsHalf, CharAt, Byte, Newline
  <2>4. Decoded(s)[n - 1] = PayloadOf(i)
    <3>1. SizeOf(i) \in 0..SizeOf(i)
      BY <1>1
    <3> QED
      BY <1>9, <2>2, <3>1 DEF PayloadOf
  <2> QED
    BY <1>4, <2>1, <2>3, <2>4
<1> QED
  BY <1>10, <1>11 DEF s

-----------------------------------------------------------------------------
(* What a parser finds at the head of its buffer. *)

\* Characters of one job only are no line yet.
LEMMA LineIncomplete ==
  ASSUME NEW i \in Nat \ {0}, NEW m \in Nat, buffer = [k \in 1..m |-> Char(i, k)]
  PROVE  ReadLine = Nothing
<1>1. \A k \in 1..Len(buffer) : buffer[k] # Newline
  BY DEF Char, Newline
<1>2. {k \in 1..Len(buffer) : buffer[k] = Newline} = {}
  BY <1>1
<1> QED
  BY <1>2 DEF ReadLine

\* A line that has come is read up to its newline, and no further.
LEMMA LineComplete ==
  ASSUME StreamTyped, NEW i \in 1..Len(items), NEW rest \in Seq(Symbols),
         buffer = Append(PayloadOf(i), Newline) \o rest
  PROVE  ReadLine = IF SizeOf(i) = 0 THEN Skip(rest) ELSE Payload(PayloadOf(i), rest)
<1> DEFINE n == SizeOf(i)
           a == Append(PayloadOf(i), Newline)
           ends == {k \in 1..Len(buffer) : buffer[k] = Newline}
<1>1. n \in Nat /\ i \in Nat \ {0}
  BY Sizes DEF StreamTyped
<1>2. /\ PayloadOf(i) \in Seq(Symbols) /\ Len(PayloadOf(i)) = n
      /\ \A k \in 1..n : PayloadOf(i)[k] = Char(i, k)
  BY JobShape
<1>3. Newline \in Symbols
  BY DEF Newline, Char, Symbols
<1>4. /\ a \in Seq(Symbols) /\ Len(a) = n + 1
      /\ \A k \in 1..n : a[k] = PayloadOf(i)[k]
      /\ a[n + 1] = Newline
  BY <1>2, <1>3, AppendProperties
<1> HIDE DEF a
<1>5. /\ a \o rest \in Seq(Symbols) /\ Len(a \o rest) = Len(a) + Len(rest)
      /\ \A k \in 1..Len(a) + Len(rest) :
           (a \o rest)[k] = IF k <= Len(a) THEN a[k] ELSE rest[k - Len(a)]
  BY <1>4, ConcatProperties
<1>6. buffer = a \o rest /\ Len(rest) \in Nat
  BY LenProperties DEF a
<1>7. /\ buffer \in Seq(Symbols) /\ Len(buffer) = n + 1 + Len(rest)
      /\ \A k \in 1..n : k \in 1..Len(buffer) /\ buffer[k] = Char(i, k)
      /\ n + 1 \in 1..Len(buffer) /\ buffer[n + 1] = Newline
  <2>1. \A k \in 1..n + 1 : k \in 1..Len(a) + Len(rest) /\ k <= Len(a)
    BY <1>1, <1>4, <1>6
  <2>2. \A k \in 1..n : k \in 1..n + 1
    BY <1>1
  <2>3. n + 1 \in 1..n + 1
    BY <1>1
  <2> HIDE DEF n
  <2> QED
    BY <1>2, <1>4, <1>5, <1>6, <2>1, <2>2, <2>3
<1>8. ASSUME NEW k \in 1..n PROVE buffer[k] # Newline
  <2>1. buffer[k] = Char(i, k)
    BY <1>7
  <2>2. Char(i, k) # Newline
    BY <1>1 DEF Char, Newline
  <2> QED
    BY <2>1, <2>2
<1>9. ends \in SUBSET Nat /\ n + 1 \in ends
  BY <1>7
<1>10. \A k \in ends : n + 1 <= k
  BY <1>1, <1>8
<1> HIDE DEF ends
<1>11. Min(ends) = n + 1
  <2>1. Min(ends) \in ends /\ Min(ends) <= n + 1
    BY <1>9, MinIsLeast
  <2>2. Min(ends) \in Nat /\ n + 1 <= Min(ends)
    BY <1>9, <1>10, <2>1
  <2> QED
    BY <1>1, <2>1, <2>2
<1>12. SubSeq(buffer, 1, (n + 1) - 1) = PayloadOf(i)
  <2>1. /\ 1 \in 1..Len(buffer) + 1 /\ (n + 1) - 1 = n /\ n \in 1 - 1..Len(buffer)
        /\ Len(PayloadOf(i)) = n - 1 + 1
    BY <1>1, <1>2, <1>6, <1>7
  <2>2. \A k \in 1..Len(PayloadOf(i)) : PayloadOf(i)[k] = buffer[1 + k - 1]
    BY <1>1, <1>2, <1>7
  <2>3. SubSeq(buffer, 1, n) = PayloadOf(i)
    BY <1>2, <1>7, <2>1, <2>2, Piece
  <2> QED
    BY <2>1, <2>3
<1>13. SubSeq(buffer, (n + 1) + 1, Len(buffer)) = rest
  <2>1. SubSeq(a \o rest, Len(a) + 1, Len(a \o rest)) = rest
    BY <1>4, Behind
  <2> QED
    BY <1>4, <1>6, <2>1
<1>14. PayloadOf(i) = <<>> <=> n = 0
  BY <1>1, <1>2, EmptySeq
<1>15. ReadLine = IF PayloadOf(i) = <<>> THEN Skip(rest) ELSE Payload(PayloadOf(i), rest)
  <2>1. ends # {}
    BY <1>9
  <2> HIDE DEF n
  <2> QED
    BY <1>11, <1>12, <1>13, <2>1 DEF ReadLine, ends
<1> QED
  BY <1>14, <1>15

\* A frame that has not come in full is not read, whichever byte is the last.
LEMMA FrameIncomplete ==
  ASSUME StreamTyped, NEW i \in 1..Len(items), NEW w \in Seq(Symbols), NEW b \in Seq(Symbols),
         buffer \in Seq(Symbols), buffer \o w = Frame(i) \o b, Len(buffer) < Len(Frame(i))
  PROVE  ReadFrame = Nothing
<1> DEFINE p == LengthPrefix(SizeOf(i))
<1>1. SizeOf(i) \in Nat /\ SizeOf(i) < Base * Base * Base * Base
  BY Sizes
<1>2. ((p[1] * Base + p[2]) * Base + p[3]) * Base + p[4] = SizeOf(i)
  BY <1>1, LengthsRead
<1>3. /\ Frame(i) \in Seq(Symbols) /\ Len(Frame(i)) = 4 + SizeOf(i)
      /\ \A k \in 1..4 : Frame(i)[k] = p[k]
  BY FrameShape
<1> HIDE DEF p
<1>4. CASE Len(buffer) < 4
  BY <1>4 DEF ReadFrame
<1>5. CASE ~(Len(buffer) < 4)
  <2>1. Len(buffer) \in Nat /\ Len(w) \in Nat /\ Len(b) \in Nat
    BY LenProperties
  <2>2. \A k \in 1..Len(buffer) + Len(w) :
          (buffer \o w)[k] = IF k <= Len(buffer) THEN buffer[k] ELSE w[k - Len(buffer)]
    BY ConcatProperties
  <2>3. \A k \in 1..Len(Frame(i)) + Len(b) :
          (Frame(i) \o b)[k] = IF k <= Len(Frame(i)) THEN Frame(i)[k] ELSE b[k - Len(Frame(i))]
    BY <1>3, ConcatProperties
  <2>4. ASSUME NEW k \in 1..4 PROVE buffer[k] = p[k]
    <3>1. /\ k \in 1..Len(buffer) + Len(w) /\ k <= Len(buffer)
          /\ k \in 1..Len(Frame(i)) + Len(b) /\ k <= Len(Frame(i))
      BY <1>1, <1>3, <1>5, <2>1
    <3> QED
      BY <1>3, <2>2, <2>3, <3>1
  <2>5. FrameLen = SizeOf(i)
    BY <1>2, <2>4 DEF FrameLen
  <2>6. FrameLen # 0 /\ Len(buffer) < 4 + FrameLen
    BY <1>1, <1>3, <1>5, <2>1, <2>5
  <2> QED
    BY <1>5, <2>6 DEF ReadFrame
<1> QED
  BY <1>4, <1>5

\* A frame that has come is read up to its length, and no further.
LEMMA FrameComplete ==
  ASSUME StreamTyped, NEW i \in 1..Len(items), NEW rest \in Seq(Symbols),
         buffer = Frame(i) \o rest
  PROVE  ReadFrame = IF SizeOf(i) = 0 THEN Skip(rest) ELSE Payload(PayloadOf(i), rest)
<1> DEFINE p == LengthPrefix(SizeOf(i))
           n == SizeOf(i)
           a == Frame(i)
<1>1. n \in Nat /\ n < Base * Base * Base * Base
  BY Sizes
<1>2. ((p[1] * Base + p[2]) * Base + p[3]) * Base + p[4] = n
  BY <1>1, LengthsRead
<1>3. /\ a \in Seq(Symbols) /\ Len(a) = 4 + n
      /\ \A k \in 1..4 : a[k] = p[k]
      /\ \A k \in 1..n : a[4 + k] = Char(i, k)
  BY FrameShape
<1>4. /\ a \o rest \in Seq(Symbols) /\ Len(a \o rest) = Len(a) + Len(rest)
      /\ \A k \in 1..Len(a) + Len(rest) :
           (a \o rest)[k] = IF k <= Len(a) THEN a[k] ELSE rest[k - Len(a)]
  BY <1>3, ConcatProperties
<1>5. SubSeq(a \o rest, Len(a) + 1, Len(a \o rest)) = rest
  BY <1>3, Behind
<1>6. /\ PayloadOf(i) \in Seq(Symbols) /\ Len(PayloadOf(i)) = n
      /\ \A k \in 1..n : PayloadOf(i)[k] = Char(i, k)
  BY JobShape
<1>7. Len(rest) \in Nat /\ buffer = a \o rest
  BY LenProperties
<1> HIDE DEF p, n, a
<1>8. \A k \in 1..4 + n : k \in 1..Len(a) + Len(rest) /\ k <= Len(a)
  BY <1>1, <1>3, <1>7
<1>9. /\ buffer \in Seq(Symbols) /\ Len(buffer) = 4 + n + Len(rest)
      /\ \A k \in 1..4 + n : buffer[k] = a[k]
  BY <1>3, <1>4, <1>7, <1>8
<1>10. FrameLen = n
  <2>1. \A k \in 1..4 : k \in 1..4 + n
    BY <1>1
  <2>2. \A k \in 1..4 : buffer[k] = p[k]
    BY <1>3, <1>9, <2>1
  <2> QED
    <3>1. buffer[1] = p[1] /\ buffer[2] = p[2] /\ buffer[3] = p[3] /\ buffer[4] = p[4]
      <4>1. 1 \in 1..4 /\ 2 \in 1..4 /\ 3 \in 1..4 /\ 4 \in 1..4
        OBVIOUS
      <4> QED
        BY <2>2, <4>1
    <3> QED
      BY <1>2, <3>1 DEF FrameLen
<1>11. SubSeq(buffer, 5 + n, Len(buffer)) = rest
  <2>1. Len(a) + 1 = 5 + n
    BY <1>1, <1>3
  <2> QED
    BY <1>5, <1>7, <2>1
<1>12. SubSeq(buffer, 5, 4 + n) = PayloadOf(i)
  <2>1. /\ 5 \in 1..Len(buffer) + 1 /\ 4 + n \in 5 - 1..Len(buffer)
        /\ Len(PayloadOf(i)) = (4 + n) - 5 + 1
    BY <1>1, <1>6, <1>7, <1>9
  <2>2. ASSUME NEW k \in 1..Len(PayloadOf(i)) PROVE PayloadOf(i)[k] = buffer[5 + k - 1]
    <3>1. k \in 1..n /\ 5 + k - 1 = 4 + k /\ 4 + k \in 1..4 + n
      BY <1>1, <1>6
    <3> QED
      BY <1>3, <1>6, <1>9, <3>1
  <2> QED
    BY <1>6, <1>9, <2>1, <2>2, Piece
<1>13. ~(Len(buffer) < 4) /\ ~(Len(buffer) < 4 + n) /\ 5 + 0 = 5
  BY <1>1, <1>7, <1>9
<1>14. CASE n = 0
  <2>1. SubSeq(buffer, 5, Len(buffer)) = rest
    BY <1>11, <1>14
  <2>2. ReadFrame = Skip(rest)
    BY <1>10, <1>13, <1>14, <2>1 DEF ReadFrame
  <2> QED
    BY <1>14, <2>2 DEF n
<1>15. CASE n # 0
  <2>1. ReadFrame = Payload(PayloadOf(i), rest)
    BY <1>10, <1>11, <1>12, <1>13, <1>15 DEF ReadFrame
  <2> QED
    BY <1>15, <2>1 DEF n
<1> QED
  BY <1>14, <1>15

\* What is parsed of the bytes y: the whole characters among them, or the bytes.
Parsed(y) == IF contentType = "msgpack" THEN y ELSE Decoded(y)[Len(y)]

\* Wherever the bytes end, the parser finds nothing before the last byte of the
\* next item has come, and then that item, with what is behind it left.
LEMMA ReadsTheNext ==
  ASSUME StreamTyped, NEW i \in 1..Len(items),
         NEW y \in Seq(Symbols), NEW w \in Seq(Symbols), NEW b \in Seq(Symbols),
         y \o w = Item(i) \o b, contentType # "msgpack" => Paired(y \o w),
         buffer = Parsed(y)
  PROVE  LET rest == Parsed(SubSeq(y, Len(Item(i)) + 1, Len(y)))
         IN  Read = IF Len(y) < Len(Item(i)) THEN Nothing
                    ELSE IF SizeOf(i) = 0 THEN Skip(rest) ELSE Payload(PayloadOf(i), rest)
<1> DEFINE z == SubSeq(y, Len(Item(i)) + 1, Len(y))
<1>1. CASE contentType = "msgpack"
  <2>1. Item(i) = Frame(i) /\ Read = ReadFrame /\ buffer = y
    BY <1>1 DEF Item, Read, Parsed
  <2>2. Frame(i) \in Seq(Symbols) /\ Len(Frame(i)) \in Nat /\ Len(y) \in Nat
    BY FrameShape, LenProperties
  <2>3. ASSUME Len(y) < Len(Item(i)) PROVE Read = Nothing
    BY <2>1, <2>3, FrameIncomplete
  <2>4. ASSUME ~(Len(y) < Len(Item(i)))
        PROVE  Read = IF SizeOf(i) = 0 THEN Skip(Parsed(z)) ELSE Payload(PayloadOf(i), Parsed(z))
    <3>1. z \in Seq(Symbols) /\ y = Frame(i) \o z
      <4>1. Len(Frame(i)) <= Len(y) /\ y \o w = Frame(i) \o b
        BY <2>1, <2>2, <2>4
      <4>2. /\ SubSeq(y, Len(Frame(i)) + 1, Len(y)) \in Seq(Symbols)
            /\ y = Frame(i) \o SubSeq(y, Len(Frame(i)) + 1, Len(y))
            /\ Len(y) = Len(Frame(i)) + Len(SubSeq(y, Len(Frame(i)) + 1, Len(y)))
        BY <2>2, <4>1, Split
      <4> QED
        BY <2>1, <4>2
    <3> HIDE DEF z
    <3>2. ReadFrame = IF SizeOf(i) = 0 THEN Skip(z) ELSE Payload(PayloadOf(i), z)
      BY <2>1, <3>1, FrameComplete
    <3> QED
      BY <1>1, <2>1, <3>1, <3>2 DEF Parsed
  <2> QED
    BY <2>3, <2>4
<1>2. CASE contentType # "msgpack"
  <2>1. Item(i) = Line(i) /\ Read = ReadLine /\ buffer = Decoded(y)[Len(y)]
    BY <1>2 DEF Item, Read, Parsed
  <2>2. /\ Paired(Line(i)) /\ Line(i) \in Seq(Bytes) /\ Line(i) \in Seq(Symbols)
        /\ Len(Line(i)) = 2 * SizeOf(i) + 1 /\ SizeOf(i) \in Nat /\ Len(y) \in Nat
    <3>1. Paired(Line(i)) /\ Len(Line(i)) = 2 * SizeOf(i) + 1 /\ SizeOf(i) \in Nat /\ Len(y) \in Nat
      BY LineShape, Sizes, LenProperties
    <3>2. Line(i) \in Seq(Bytes) /\ Bytes \subseteq Symbols
      BY <3>1 DEF Paired, Symbols
    <3> QED
      BY <3>1, <3>2, SeqMonotonic
  <2>3. Paired(y) /\ y \in Seq(Bytes)
    <3>1. Paired(y)
      BY <1>2, PairedParts
    <3> QED
      BY <3>1 DEF Paired
  <2>4. ASSUME Len(y) < Len(Item(i)) PROVE Read = Nothing
    <3> DEFINE v == SubSeq(Line(i), Len(y) + 1, Len(Line(i)))
    <3>1. v \in Seq(Symbols) /\ Line(i) = y \o v
      <4>1. Len(y) <= Len(Line(i)) /\ Line(i) \o b = y \o w /\ Line(i) \in Seq(Symbols)
        BY <2>1, <2>2, <2>4
      <4>2. /\ SubSeq(Line(i), Len(y) + 1, Len(Line(i))) \in Seq(Symbols)
            /\ Line(i) = y \o SubSeq(Line(i), Len(y) + 1, Len(Line(i)))
            /\ Len(Line(i)) = Len(y) + Len(SubSeq(Line(i), Len(y) + 1, Len(Line(i))))
        BY <4>1, Split
      <4> QED
        BY <4>2
    <3> HIDE DEF v
    <3>2. v \in Seq(Bytes)
      BY <2>2, <3>1, PairedParts
    <3>3. Len(y) \in 0..Len(y)
      BY <2>2
    <3>4. Decoded(Line(i))[Len(y)] = Decoded(y)[Len(y)]
      BY <2>3, <3>1, <3>2, <3>3, DecodedBefore
    <3>5. Len(y) \in 0..2 * SizeOf(i)
      BY <2>1, <2>2, <2>4
    <3>6. PICK m \in 0..SizeOf(i) : Decoded(Line(i))[Len(y)] = [k \in 1..m |-> Char(i, k)]
      BY <3>5, LineChars
    <3>7. i \in Nat \ {0} /\ m \in Nat /\ buffer = [k \in 1..m |-> Char(i, k)]
      BY <2>1, <2>2, <3>4, <3>6 DEF StreamTyped
    <3> QED
      BY <2>1, <3>7, LineIncomplete
  <2>5. ASSUME ~(Len(y) < Len(Item(i)))
        PROVE  Read = IF SizeOf(i) = 0 THEN Skip(Parsed(z)) ELSE Payload(PayloadOf(i), Parsed(z))
    <3>1. z \in Seq(Symbols) /\ y = Line(i) \o z /\ Len(y) = Len(Line(i)) + Len(z)
      <4>1. Len(Line(i)) <= Len(y) /\ y \o w = Line(i) \o b /\ Line(i) \in Seq(Symbols)
        BY <2>1, <2>2, <2>5
      <4>2. /\ SubSeq(y, Len(Line(i)) + 1, Len(y)) \in Seq(Symbols)
            /\ y = Line(i) \o SubSeq(y, Len(Line(i)) + 1, Len(y))
            /\ Len(y) = Len(Line(i)) + Len(SubSeq(y, Len(Line(i)) + 1, Len(y)))
        BY <4>1, Split
      <4> QED
        BY <2>1, <4>2
    <3> HIDE DEF z
    <3>2. ~Cut(Line(i))
      <4>1. Line(i)[Len(Line(i))] = Byte(0, 0, 0)
        BY <2>2, LineShape
      <4> QED
        BY <4>1 DEF Cut, IsHalf, Last, Byte
    <3>3. z \in Seq(Bytes) /\ (z # <<>> => z[1].half # 2)
      BY <2>2, <2>3, <3>1, <3>2, PairedParts
    <3>4. Len(z) \in Nat /\ Len(z) \in 0..Len(z)
      BY LenProperties
    <3>5. Decoded(y)[Len(Line(i)) + Len(z)] = Decoded(Line(i))[Len(Line(i))] \o Decoded(z)[Len(z)]
      BY <2>2, <3>1, <3>3, <3>4, DecodedBehind
    <3>6. Decoded(Line(i))[Len(Line(i))] = Append(PayloadOf(i), Newline)
      BY <2>2, LineChars
    <3>7. Decoded(z)[Len(z)] \in Seq(Symbols) /\ Decoded(z)[Len(z)] = Parsed(z)
      BY <1>2, <3>3, <3>4, DecodedTyped DEF Parsed
    <3>8. buffer = Append(PayloadOf(i), Newline) \o Parsed(z) /\ Parsed(z) \in Seq(Symbols)
      BY <2>1, <3>1, <3>5, <3>6, <3>7
    <3>9. ReadLine = IF SizeOf(i) = 0 THEN Skip(Parsed(z)) ELSE Payload(PayloadOf(i), Parsed(z))
      BY <3>8, LineComplete
    <3> QED
      BY <2>1, <3>1, <3>9
  <2> QED
    BY <2>4, <2>5
<1> QED
  BY <1>1, <1>2

\* The half of a character the decoder keeps of the bytes y.
HeldOf(y) == IF Cut(y) THEN <<Last(y)>> ELSE <<>>

\* Only the last bytes tell what the decoder keeps.
LEMMA HeldBehind ==
  ASSUME NEW a \in Seq(Symbols), NEW b \in Seq(Symbols), b # <<>> \/ ~Cut(a)
  PROVE  HeldOf(a \o b) = HeldOf(b)
<1>1. /\ Len(a \o b) = Len(a) + Len(b)
      /\ \A n \in 1..Len(a) + Len(b) : (a \o b)[n] = IF n <= Len(a) THEN a[n] ELSE b[n - Len(a)]
  BY ConcatProperties
<1>2. Len(a) \in Nat /\ Len(b) \in Nat
  BY LenProperties
<1>3. CASE b = <<>>
  <2>1. a \o b = a
    BY <1>3, ConcatEmptySeq
  <2>2. ~Cut(a) /\ ~Cut(b)
    BY <1>3 DEF Cut
  <2> QED
    BY <2>1, <2>2 DEF HeldOf
<1>4. CASE b # <<>>
  <2>1. Len(b) # 0
    BY <1>4, EmptySeq
  <2>2. /\ Len(a) + Len(b) \in 1..Len(a) + Len(b) /\ ~(Len(a) + Len(b) <= Len(a))
        /\ (Len(a) + Len(b)) - Len(a) = Len(b) /\ Len(a) + Len(b) # 0
    BY <1>2, <2>1
  <2>3. Last(a \o b) = Last(b)
    BY <1>1, <2>2 DEF Last
  <2>4. a \o b # <<>>
    BY <1>1, <2>2, EmptySeq
  <2> HIDE DEF Last
  <2> QED
    BY <1>4, <2>3, <2>4 DEF HeldOf, Cut
<1> QED
  BY <1>3, <1>4

\* Decoded chunk by chunk, with the half that is kept, the bytes say what they say
\* at once.
LEMMA DecodesAll ==
  ASSUME NEW y \in Seq(Symbols), NEW c \in Seq(Symbols), c # <<>>, Paired(y \o c)
  PROVE  /\ Decoded(y)[Len(y)] \o Decode(HeldOf(y) \o c).chars = Decoded(y \o c)[Len(y \o c)]
         /\ Decode(HeldOf(y) \o c).held = HeldOf(y \o c)
<1>1. /\ Paired(y) /\ y \in Seq(Bytes) /\ c \in Seq(Bytes)
      /\ ~Cut(y) => c[1].half # 2
  <2>1. Paired(y) /\ c \in Seq(Bytes) /\ (~Cut(y) => c[1].half # 2)
    BY PairedParts
  <2> QED
    BY <2>1 DEF Paired
<1>2. Len(y) \in Nat /\ Len(c) \in Nat /\ Len(y \o c) = Len(y) + Len(c)
  BY LenProperties, ConcatProperties
<1>3. \A s : Decode(s).chars = Decoded(s)[Len(s)] /\ Decode(s).held = HeldOf(s)
  BY DEF Decode, HeldOf
<1>4. HeldOf(y \o c) = HeldOf(c)
  BY HeldBehind
<1>5. CASE ~Cut(y)
  <2>1. HeldOf(y) \o c = c
    <3>1. HeldOf(y) = <<>>
      BY <1>5 DEF HeldOf
    <3> QED
      BY <3>1, ConcatEmptySeq
  <2>2. Decoded(y \o c)[Len(y) + Len(c)] = Decoded(y)[Len(y)] \o Decoded(c)[Len(c)]
    <3>1. Len(c) \in 0..Len(c)
      BY <1>2
    <3> QED
      BY <1>1, <1>5, <3>1, DecodedBehind
  <2> QED
    BY <1>2, <1>3, <1>4, <2>1, <2>2
<1>6. CASE Cut(y)
  <2> DEFINE n == Len(y) - 1
             y0 == SubSeq(y, 1, n)
             h == <<Last(y)>>
             q == h \o c
  <2>1. Len(y) \in 1..Len(y) /\ Last(y) = y[Len(y)] /\ y[Len(y)] \in Bytes /\ IsHalf(y[Len(y)])
    <3>1. y # <<>>
      BY <1>6 DEF Cut
    <3>2. Len(y) # 0
      BY <3>1, EmptySeq
    <3> QED
      BY <1>1, <1>2, <1>6, <3>2 DEF Cut, Last
  <2>2. h \in Seq(Bytes) /\ Len(h) = 1 /\ h[1] = y[Len(y)] /\ HeldOf(y) = h
    BY <1>6, <2>1 DEF HeldOf
  <2>3. n \in 0..Len(y) /\ n \in Nat
    BY <1>2, <2>1
  <2>4. y0 \in Seq(Bytes) /\ Len(y0) = n
    BY <1>1, <2>3, Prefix
  <2>5. y = y0 \o h
    <3>1. Len(y) = n + 1
      BY <1>2
    <3>2. SubSeq(y, n + 1, Len(y)) = h
      <4>1. /\ n + 1 \in 1..Len(y) + 1 /\ Len(y) \in (n + 1) - 1..Len(y)
            /\ Len(h) = Len(y) - (n + 1) + 1
        BY <1>2, <2>2, <2>3
      <4>2. \A i \in 1..Len(h) : h[i] = y[(n + 1) + i - 1]
        BY <1>2, <2>2
      <4> QED
        BY <1>1, <2>2, <4>1, <4>2, Piece
    <3> QED
      BY <1>1, <2>3, <3>2, Cutting DEF y0
  <2>6. Decoded(y)[Len(y)] = Decoded(y)[n]
    BY <1>2, <2>1, DecodedDef
  <2> HIDE DEF y0, h
  <2>7. Decoded(y)[n] = Decoded(y0)[n]
    <3>1. n \in 0..Len(y0)
      BY <2>3, <2>4
    <3>2. Decoded(y0 \o h)[n] = Decoded(y0)[n]
      BY <2>2, <2>4, <3>1, DecodedBefore
    <3> QED
      BY <2>5, <3>2
  <2>8. /\ q \in Seq(Bytes) /\ Len(q) = 1 + Len(c) /\ q[1] = y[Len(y)] /\ q[1].half # 2
    <3>1. /\ q \in Seq(Bytes) /\ Len(q) = Len(h) + Len(c)
          /\ \A i \in 1..Len(h) + Len(c) : q[i] = IF i <= Len(h) THEN h[i] ELSE c[i - Len(h)]
      BY <1>1, <2>2, ConcatProperties
    <3>2. 1 \in 1..Len(h) + Len(c) /\ 1 <= Len(h)
      BY <1>2, <2>2
    <3>3. q[1] = h[1]
      BY <3>1, <3>2
    <3> HIDE DEF q
    <3> QED
      BY <2>1, <2>2, <3>1, <3>3 DEF IsHalf
  <2>9. y \o c = y0 \o q
    BY <1>1, <2>2, <2>4, <2>5, ConcatAssociative
  <2> HIDE DEF q
  <2>10. Decoded(y0 \o q)[Len(y0) + Len(q)] = Decoded(y0)[Len(y0)] \o Decoded(q)[Len(q)]
    <3>1. Len(q) \in 0..Len(q)
      BY <1>2, <2>8
    <3> QED
      BY <2>4, <2>8, <3>1, DecodedBehind
  <2>11. Len(y0) + Len(q) = Len(y) + Len(c)
    BY <1>2, <2>3, <2>4, <2>8
  <2>12. HeldOf(q) = HeldOf(c)
    <3>1. h \in Seq(Symbols)
      <4>1. Bytes \subseteq Symbols
        BY DEF Symbols
      <4> QED
        BY <2>2, <4>1, SeqMonotonic
    <3> QED
      BY <3>1, HeldBehind DEF q
  <2>13. HeldOf(y) \o c = q
    BY <2>2 DEF q
  <2>14. Decoded(y)[Len(y)] = Decoded(y0)[Len(y0)]
    BY <2>4, <2>6, <2>7
  <2>15. Decoded(y \o c)[Len(y \o c)] = Decoded(y)[Len(y)] \o Decoded(q)[Len(q)]
    BY <1>2, <2>9, <2>10, <2>11, <2>14
  <2> QED
    BY <1>3, <1>4, <2>12, <2>13, <2>15
<1> QED
  BY <1>5, <1>6

-----------------------------------------------------------------------------
(* The jobs among the first items. *)

\* There are as many jobs as there are items that are not heartbeats.
LEMMA JobsTyped ==
  ASSUME StreamTyped, NEW n \in 0..Len(items)
  PROVE  /\ JobsAmong[n] \in Seq(Nat)
         /\ IsFiniteSet({i \in 1..n : items[i] # Heartbeat})
         /\ Len(JobsAmong[n]) = Cardinality({i \in 1..n : items[i] # Heartbeat})
<1> DEFINE J(m) == {i \in 1..m : items[i] # Heartbeat}
           Good(m) == /\ JobsAmong[m] \in Seq(Nat) /\ IsFiniteSet(J(m))
                      /\ Len(JobsAmong[m]) = Cardinality(J(m))
           Bad == {m \in 0..Len(items) : ~Good(m)}
<1>1. Len(items) \in Nat
  BY DEF StreamTyped
<1>2. Good(0)
  <2>1. JobsAmong[0] = <<>> /\ J(0) = {}
    BY <1>1, JobsAmongDef
  <2> QED
    BY <2>1, FS_EmptySet
<1>3. ASSUME NEW m \in 1..Len(items), Good(m - 1) PROVE Good(m)
  <2>1. JobsAmong[m] =
          IF items[m] = Heartbeat THEN JobsAmong[m - 1] ELSE Append(JobsAmong[m - 1], m)
    BY <1>1, JobsAmongDef
  <2>2. m \in Nat /\ 1..m = (1..m - 1) \cup {m} /\ m \notin 1..m - 1
    BY <1>1
  <2>3. CASE items[m] = Heartbeat
    <3>1. J(m) = J(m - 1)
      BY <2>2, <2>3
    <3> QED
      BY <1>3, <2>1, <2>3, <3>1
  <2>4. CASE items[m] # Heartbeat
    <3>1. J(m) = J(m - 1) \cup {m} /\ m \notin J(m - 1)
      BY <2>2, <2>4
    <3> HIDE DEF J
    <3>2. IsFiniteSet(J(m)) /\ Cardinality(J(m)) = Cardinality(J(m - 1)) + 1
      BY <1>3, <3>1, FS_AddElement
    <3>3. JobsAmong[m] \in Seq(Nat) /\ Len(JobsAmong[m]) = Len(JobsAmong[m - 1]) + 1
      BY <1>3, <2>1, <2>2, <2>4, AppendProperties
    <3> QED
      BY <1>3, <3>2, <3>3
  <2> QED
    BY <2>3, <2>4
<1>4. Bad = {}
  <2> HIDE DEF Good
  <2> SUFFICES ASSUME Bad # {} PROVE FALSE
    OBVIOUS
  <2>1. PICK m \in Bad : \A k \in Bad : m <= k
    <3>1. Bad \in SUBSET Nat
      OBVIOUS
    <3> HIDE DEF Bad
    <3> QED
      BY <3>1, LeastExists
  <2>2. m # 0 /\ m - 1 \in 0..Len(items) /\ m \in 1..Len(items) /\ m - 1 \notin Bad
    BY <1>1, <1>2, <2>1
  <2> QED
    BY <1>3, <2>1, <2>2
<1> QED
  BY <1>4

\* The jobs among fewer items come first among the jobs of more.
LEMMA JobsBegin ==
  ASSUME StreamTyped, NEW m \in 0..Len(items), NEW n \in 0..m
  PROVE  IsPrefix(JobsAmong[n], JobsAmong[m])
<1> DEFINE Begins(s, t) == Len(s) <= Len(t) /\ \A i \in 1..Len(s) : s[i] = t[i]
           Good(l) == \A k \in 0..l : Begins(JobsAmong[k], JobsAmong[l])
           Bad == {l \in 0..Len(items) : ~Good(l)}
<1>1. Len(items) \in Nat
  BY DEF StreamTyped
<1>2. \A k \in 0..Len(items) : JobsAmong[k] \in Seq(Nat) /\ Len(JobsAmong[k]) \in Nat
  BY JobsTyped, LenProperties
<1>3. Good(0)
  <2>1. \A k \in 0..0 : k = 0 /\ k \in 0..Len(items)
    BY <1>1
  <2> QED
    BY <1>2, <2>1
<1>4. ASSUME NEW l \in 1..Len(items), Good(l - 1) PROVE Good(l)
  <2> SUFFICES ASSUME NEW k \in 0..l PROVE Begins(JobsAmong[k], JobsAmong[l])
    OBVIOUS
  <2>1. l - 1 \in 0..Len(items) /\ l \in 0..Len(items) /\ k \in 0..Len(items)
    BY <1>1
  <2>2. JobsAmong[l] =
          IF items[l] = Heartbeat THEN JobsAmong[l - 1] ELSE Append(JobsAmong[l - 1], l)
    BY <1>1, JobsAmongDef
  <2>3. Begins(JobsAmong[l - 1], JobsAmong[l])
    <3>1. CASE items[l] = Heartbeat
      BY <1>2, <2>1, <2>2, <3>1
    <3>2. CASE items[l] # Heartbeat
      <4>1. l \in Nat /\ JobsAmong[l] = Append(JobsAmong[l - 1], l)
        BY <1>1, <2>2, <3>2
      <4>2. /\ Len(JobsAmong[l]) = Len(JobsAmong[l - 1]) + 1
            /\ \A i \in 1..Len(JobsAmong[l - 1]) : JobsAmong[l][i] = JobsAmong[l - 1][i]
        BY <1>2, <2>1, <4>1, AppendProperties
      <4> QED
        BY <1>2, <2>1, <4>2
    <3> QED
      BY <3>1, <3>2
  <2>4. CASE k = l
    BY <1>2, <2>1, <2>4
  <2>5. CASE k # l
    <3>1. k \in 0..l - 1
      BY <1>1, <2>5
    <3>2. Begins(JobsAmong[k], JobsAmong[l - 1])
      BY <1>4, <3>1
    <3> QED
      BY <1>2, <2>1, <2>3, <3>2
  <2> QED
    BY <2>4, <2>5
<1>5. Bad = {}
  <2> HIDE DEF Good
  <2> SUFFICES ASSUME Bad # {} PROVE FALSE
    OBVIOUS
  <2>1. PICK l \in Bad : \A k \in Bad : l <= k
    <3>1. Bad \in SUBSET Nat
      OBVIOUS
    <3> HIDE DEF Bad
    <3> QED
      BY <3>1, LeastExists
  <2>2. l # 0 /\ l - 1 \in 0..Len(items) /\ l \in 1..Len(items) /\ l - 1 \notin Bad
    BY <1>1, <1>3, <2>1
  <2> QED
    BY <1>4, <2>1, <2>2
<1>6. n \in 0..Len(items) /\ Begins(JobsAmong[n], JobsAmong[m])
  BY <1>1, <1>5
<1> DEFINE s == JobsAmong[n]
           t == JobsAmong[m]
<1>7. s \in Seq(Nat) /\ t \in Seq(Nat) /\ Len(s) \in Nat /\ Len(t) \in Nat
  BY <1>2, <1>6
<1>8. Len(s) <= Len(t) /\ \A i \in 1..Len(s) : s[i] = t[i]
  BY <1>6
<1> HIDE DEF s, t
<1>9. SubSeq(t, 1, Len(s)) = s
  <2>1. 1 \in 1..Len(t) + 1 /\ Len(s) \in 1 - 1..Len(t) /\ Len(s) = Len(s) - 1 + 1
    BY <1>7, <1>8
  <2>2. \A i \in 1..Len(s) : s[i] = t[1 + i - 1]
    BY <1>8
  <2> QED
    BY <1>7, <2>1, <2>2, Piece
<1>10. SubSeq(s, 1, Len(s)) = s
  BY <1>7, SubSeqFull
<1> QED
  BY <1>8, <1>9, <1>10 DEF IsPrefix, s, t

\* The bytes of fewer of the last items are no more.
LEMMA TailsGrow ==
  ASSUME StreamTyped, NEW m \in 0..Len(items), NEW n \in 0..m
  PROVE  Len(Tails[n]) <= Len(Tails[m]) /\ Len(Tails[m]) \in Nat
<1> DEFINE Good(l) == \A k \in 0..l : Len(Tails[k]) <= Len(Tails[l])
           Bad == {l \in 0..Len(items) : ~Good(l)}
<1>1. Len(items) \in Nat
  BY DEF StreamTyped
<1>2. \A k \in 0..Len(items) : Tails[k] \in Seq(Symbols) /\ Len(Tails[k]) \in Nat
  BY TailsTyped, LenProperties
<1>3. Good(0)
  <2>1. \A k \in 0..0 : k = 0 /\ k \in 0..Len(items)
    BY <1>1
  <2> QED
    BY <1>2, <2>1
<1>4. ASSUME NEW l \in 1..Len(items), Good(l - 1) PROVE Good(l)
  <2> SUFFICES ASSUME NEW k \in 0..l PROVE Len(Tails[k]) <= Len(Tails[l])
    OBVIOUS
  <2>1. l - 1 \in 0..Len(items) /\ l \in 0..Len(items) /\ k \in 0..Len(items)
    BY <1>1
  <2>2. Len(Tails[l - 1]) <= Len(Tails[l])
    <3> DEFINE i == Len(items) + 1 - l
    <3>1. Tails[l] = Item(i) \o Tails[l - 1] /\ i \in 1..Len(items)
      <4>1. Tails[l] = Item(i) \o Tails[l - 1]
        BY <1>1, TailsDef
      <4>2. i \in 1..Len(items)
        BY <1>1
      <4> QED
        BY <4>1, <4>2
    <3> HIDE DEF i
    <3>2. Item(i) \in Seq(Symbols)
      BY <3>1, ItemTyped
    <3>3. Len(Tails[l]) = Len(Item(i)) + Len(Tails[l - 1]) /\ Len(Item(i)) \in Nat
      BY <1>2, <2>1, <3>1, <3>2, ConcatProperties, LenProperties
    <3> QED
      BY <1>2, <2>1, <3>3
  <2>3. CASE k = l
    BY <1>2, <2>1, <2>3
  <2>4. CASE k # l
    <3>1. k \in 0..l - 1
      BY <1>1, <2>4
    <3>2. Len(Tails[k]) <= Len(Tails[l - 1])
      BY <1>4, <3>1
    <3> QED
      BY <1>2, <2>1, <2>2, <3>2
  <2> QED
    BY <2>3, <2>4
<1>5. Bad = {}
  <2> HIDE DEF Good
  <2> SUFFICES ASSUME Bad # {} PROVE FALSE
    OBVIOUS
  <2>1. PICK l \in Bad : \A k \in Bad : l <= k
    <3>1. Bad \in SUBSET Nat
      OBVIOUS
    <3> HIDE DEF Bad
    <3> QED
      BY <3>1, LeastExists
  <2>2. l # 0 /\ l - 1 \in 0..Len(items) /\ l \in 1..Len(items) /\ l - 1 \notin Bad
    BY <1>1, <1>3, <2>1
  <2> QED
    BY <1>4, <2>1, <2>2
<1> QED
  BY <1>2, <1>5

-----------------------------------------------------------------------------
(* The invariant: what has arrived and is not parsed is the beginning y of   *)
(* the last k items, and the jobs before them have been yielded.             *)

ReadUpTo(k, y) ==
  /\ Tails[k] = y \o wire
  /\ buffer = Parsed(y)
  /\ contentType # "msgpack" => held = HeldOf(y)
  /\ got = JobsAmong[Len(items) - k]
  /\ at = "waiting" /\ k > 0 => Len(y) < Len(Item(Len(items) + 1 - k))

StreamInv ==
  /\ StreamTyped
  /\ wire \in Seq(Symbols)
  /\ at \in {"waiting", "parsing", "yielded", "closed"}
  /\ \E k \in 0..Len(items) : \E y \in Seq(Symbols) : ReadUpTo(k, y)

\* Without bytes there is nothing to parse and nothing kept.
LEMMA ParsedNothing == Parsed(<<>>) = <<>> /\ HeldOf(<<>>) = <<>>
<1>1. Len(<<>>) = 0
  OBVIOUS
<1>2. Decoded(<<>>)[0] = <<>>
  BY <1>1, DecodedDef
<1> QED
  BY <1>1, <1>2 DEF Parsed, HeldOf, Cut

\* At first all items are still to come.
LEMMA StreamStarts == StreamInit => StreamInv
<1> SUFFICES ASSUME StreamInit PROVE StreamInv
  OBVIOUS
<1>1. StreamTyped
  <2>1. \E n \in Nat : items \in [1..n -> Kinds \cup {Heartbeat}]
    BY TakeStreamAssumption DEF StreamInit, BoundedSeq, SeqOf
  <2> QED
    BY <2>1 DEF StreamTyped, StreamInit
<1>2. Len(items) \in Nat /\ Len(items) \in 0..Len(items)
  BY <1>1 DEF StreamTyped
<1>3. Tails[Len(items)] \in Seq(Symbols) /\ wire = Tails[Len(items)]
  BY <1>1, <1>2, TailsTyped DEF StreamInit, Wire
<1>4. ReadUpTo(Len(items), <<>>)
  <2>1. Tails[Len(items)] = <<>> \o wire
    BY <1>3, ConcatEmptySeq
  <2>2. buffer = Parsed(<<>>) /\ held = HeldOf(<<>>)
    BY ParsedNothing DEF StreamInit
  <2>3. got = JobsAmong[Len(items) - Len(items)]
    BY <1>2, JobsAmongDef DEF StreamInit
  <2>4. ASSUME Len(items) > 0 PROVE Len(<<>>) < Len(Item(Len(items) + 1 - Len(items)))
    <3>1. 1 \in 1..Len(items) /\ Len(items) + 1 - Len(items) = 1
      BY <1>2, <2>4
    <3>2. SizeOf(1) \in Nat
      BY <1>1, <3>1, Sizes
    <3>3. Len(Frame(1)) > 0 /\ Len(Line(1)) > 0
      <4>1. Len(Frame(1)) = 4 + SizeOf(1) /\ Len(Line(1)) = 2 * SizeOf(1) + 1
        BY <1>1, <3>1, FrameShape, LineShape
      <4> QED
        BY <3>2, <4>1
    <3> QED
      BY <3>1, <3>3 DEF Item
  <2> QED
    BY <2>1, <2>2, <2>3, <2>4 DEF ReadUpTo
<1>5. <<>> \in Seq(Symbols)
  BY EmptySeq
<1> QED
  BY <1>1, <1>2, <1>3, <1>4, <1>5 DEF StreamInv, StreamInit

\* What the server sent is what it sent.
LEMMA SentStays ==
  ASSUME UNCHANGED <<items, contentType>>
  PROVE  /\ Tails' = Tails /\ JobsAmong' = JobsAmong /\ (StreamTyped => StreamTyped')
         /\ \A i : Item(i)' = Item(i)
         /\ \A y : Parsed(y)' = Parsed(y)
<1>1. Tails' = Tails
  BY DEF Tails, Item, Frame, Line, SizeOf, PayloadOf, LengthPrefix
<1>2. JobsAmong' = JobsAmong
  BY DEF JobsAmong
<1>3. \A i : Item(i)' = Item(i)
  BY DEF Item, Frame, Line, SizeOf, PayloadOf, LengthPrefix
<1>4. \A y : Parsed(y)' = Parsed(y)
  BY DEF Parsed
<1>5. StreamTyped => StreamTyped'
  BY DEF StreamTyped
<1> QED
  BY <1>1, <1>2, <1>3, <1>4, <1>5

\* A chunk that arrives is what comes next, and is decoded where the last ended.
LEMMA ChunkStep ==
  ASSUME StreamInv, NEW n \in 1..Len(wire), Chunk(n)
  PROVE  StreamInv'
<1>1. PICK k \in 0..Len(items), y \in Seq(Symbols) : ReadUpTo(k, y)
  BY DEF StreamInv
<1>2. StreamTyped /\ wire \in Seq(Symbols) /\ Len(wire) \in Nat
  BY LenProperties DEF StreamInv
<1>3. PICK c, w : c = SubSeq(wire, 1, n) /\ w = SubSeq(wire, n + 1, Len(wire))
  OBVIOUS
<1>4. c \in Seq(Symbols) /\ w \in Seq(Symbols) /\ c \o w = wire /\ c # <<>>
  <2>1. n \in 0..Len(wire) /\ n # 0
    BY <1>2
  <2>2. c \in Seq(Symbols) /\ w \in Seq(Symbols) /\ c \o w = wire
    BY <1>2, <1>3, <2>1, Cutting
  <2>3. Len(c) = n
    BY <1>2, <1>3, <2>1, Prefix
  <2> QED
    BY <2>1, <2>2, <2>3, EmptySeq
<1>5. /\ wire' = w /\ at' = "parsing" /\ UNCHANGED <<items, contentType, got>>
      /\ IF contentType = "msgpack" THEN buffer' = buffer \o c /\ UNCHANGED held
         ELSE buffer' = buffer \o Decode(held \o c).chars /\ held' = Decode(held \o c).held
  BY <1>3 DEF Chunk
<1>6. y \o c \in Seq(Symbols) /\ (y \o c) \o w = Tails[k]
  <2>1. y \o c \in Seq(Symbols)
    BY <1>4, ConcatProperties
  <2>2. (y \o c) \o w = y \o (c \o w)
    <3>1. y \in Seq(Symbols) /\ c \in Seq(Symbols) /\ w \in Seq(Symbols)
      BY <1>4
    <3> QED
      BY <3>1, ConcatAssociative
  <2> QED
    BY <1>1, <1>4, <2>1, <2>2 DEF ReadUpTo
<1>7. buffer' = Parsed(y \o c) /\ (contentType # "msgpack" => held' = HeldOf(y \o c))
  <2>1. CASE contentType = "msgpack"
    BY <1>1, <1>5, <2>1 DEF ReadUpTo, Parsed
  <2>2. CASE contentType # "msgpack"
    <3>1. Paired(y \o c)
      <4>1. Paired((y \o c) \o w)
        BY <1>2, <1>6, <2>2, TailsTyped
      <4> QED
        BY <1>4, <1>6, <4>1, PairedParts
    <3>2. /\ Decoded(y)[Len(y)] \o Decode(HeldOf(y) \o c).chars = Decoded(y \o c)[Len(y \o c)]
          /\ Decode(HeldOf(y) \o c).held = HeldOf(y \o c)
      BY <1>4, <3>1, DecodesAll
    <3>3. buffer = Decoded(y)[Len(y)] /\ held = HeldOf(y)
      BY <1>1, <2>2 DEF ReadUpTo, Parsed
    <3>4. buffer' = buffer \o Decode(held \o c).chars /\ held' = Decode(held \o c).held
      BY <1>5, <2>2
    <3> QED
      BY <2>2, <3>2, <3>3, <3>4 DEF Parsed
  <2> QED
    BY <2>1, <2>2
<1>8. Tails' = Tails /\ JobsAmong' = JobsAmong /\ StreamTyped' /\ Parsed(y \o c)' = Parsed(y \o c)
  BY <1>2, <1>5, SentStays
<1>9. ReadUpTo(k, y \o c)'
  <2>1. Tails'[k] = (y \o c) \o wire'
    BY <1>5, <1>6, <1>8
  <2>2. got' = JobsAmong'[Len(items') - k]
    BY <1>1, <1>5, <1>8 DEF ReadUpTo
  <2> QED
    BY <1>5, <1>7, <1>8, <2>1, <2>2 DEF ReadUpTo
<1>10. k \in 0..Len(items') /\ wire' \in Seq(Symbols)
  BY <1>4, <1>5
<1> QED
  BY <1>5, <1>6, <1>8, <1>9, <1>10 DEF StreamInv

\* A turn of the inner loop takes the next item, when it is there in full.
LEMMA ParseStep ==
  ASSUME StreamInv, Parse
  PROVE  StreamInv'
<1>1. PICK k \in 0..Len(items), y \in Seq(Symbols) : ReadUpTo(k, y)
  BY DEF StreamInv
<1>2. StreamTyped /\ wire \in Seq(Symbols) /\ Len(items) \in Nat
  BY DEF StreamInv, StreamTyped
<1>3. UNCHANGED <<items, contentType, wire, held>> /\ at = "parsing"
  BY DEF Parse
<1>4. /\ Tails' = Tails /\ JobsAmong' = JobsAmong /\ StreamTyped'
      /\ \A i : Item(i)' = Item(i)
      /\ \A z : Parsed(z)' = Parsed(z)
  BY <1>2, <1>3, SentStays
<1>5. /\ Read.found = "nothing" => at' = "waiting" /\ UNCHANGED <<buffer, got>>
      /\ Read.found = "heartbeat" => buffer' = Read.rest /\ UNCHANGED <<at, got>>
      /\ Read.found = "payload" =>
           /\ buffer' = Read.rest
           /\ Parses(Read.payload) => at' = "yielded" /\ got' = Append(got, Head(Read.payload).job)
      /\ Read.found \in {"nothing", "heartbeat", "payload"}
  BY DEF Parse
<1>6. /\ Tails[k] = y \o wire /\ buffer = Parsed(y)
      /\ (contentType # "msgpack" => held = HeldOf(y))
      /\ got = JobsAmong[Len(items) - k]
  BY <1>1 DEF ReadUpTo
<1>7. /\ Nothing.found = "nothing"
      /\ \A r : Skip(r).found = "heartbeat" /\ Skip(r).rest = r
      /\ \A p, r : /\ Payload(p, r).found = "payload"
                   /\ Payload(p, r).payload = p /\ Payload(p, r).rest = r
  BY DEF Nothing, Skip, Payload
\* The loop ends.
<1>8. ASSUME Read = Nothing, k > 0 => Len(y) < Len(Item(Len(items) + 1 - k))
      PROVE  StreamInv'
  <2>1. at' = "waiting" /\ UNCHANGED <<buffer, got>>
    BY <1>5, <1>7, <1>8
  <2>2. ReadUpTo(k, y)'
    <3>1. Tails'[k] = y \o wire' /\ buffer' = Parsed(y)'
      BY <1>3, <1>4, <1>6, <2>1
    <3>2. contentType' # "msgpack" => held' = HeldOf(y)
      BY <1>3, <1>6
    <3>3. got' = JobsAmong'[Len(items') - k]
      BY <1>3, <1>4, <1>6, <2>1
    <3>4. k > 0 => Len(y) < Len(Item(Len(items) + 1 - k)')
      <4> PICK j : j = Len(items) + 1 - k
        OBVIOUS
      <4>1. Item(j)' = Item(j) /\ Len(items') = Len(items)
        BY <1>3, <1>4
      <4> QED
        BY <1>8, <4>1
    <3> QED
      BY <1>3, <3>1, <3>2, <3>3, <3>4 DEF ReadUpTo
  <2>3. k \in 0..Len(items') /\ wire' \in Seq(Symbols)
    BY <1>2, <1>3
  <2> QED
    BY <1>4, <2>1, <2>2, <2>3 DEF StreamInv
\* The next item is there.
<1>9. ASSUME NEW i \in 1..Len(items), k > 0, i = Len(items) + 1 - k,
             NEW z \in Seq(Symbols), y = Item(i) \o z, Tails[k - 1] = z \o wire,
             Read = IF SizeOf(i) = 0 THEN Skip(Parsed(z)) ELSE Payload(PayloadOf(i), Parsed(z))
      PROVE  StreamInv'
  <2>1. k - 1 \in 0..Len(items) /\ Len(items) - (k - 1) = i /\ Len(items) - k = i - 1
    BY <1>2, <1>9
  <2>2. SizeOf(i) \in Nat /\ (SizeOf(i) = 0 <=> items[i] = Heartbeat)
    BY <1>2, Sizes
  <2>3. JobsAmong[i] =
          IF items[i] = Heartbeat THEN JobsAmong[i - 1] ELSE Append(JobsAmong[i - 1], i)
    BY <1>2, JobsAmongDef
  <2>4. buffer' = Parsed(z) /\ got' = JobsAmong[i] /\ at' \in {"parsing", "yielded"}
    <3>1. CASE SizeOf(i) = 0
      <4>1. Read.found = "heartbeat" /\ Read.rest = Parsed(z)
        BY <1>7, <1>9, <3>1
      <4> QED
        BY <1>3, <1>5, <1>6, <2>1, <2>2, <2>3, <3>1, <4>1
    <3>2. CASE SizeOf(i) # 0
      <4>1. Read.found = "payload" /\ Read.payload = PayloadOf(i) /\ Read.rest = Parsed(z)
        BY <1>7, <1>9, <3>2
      <4>2. Parses(PayloadOf(i))
        <5>1. i \in DOMAIN items
          BY <1>2 DEF StreamTyped
        <5> QED
          BY <2>2, <3>2, <5>1 DEF Parses
      <4>3. Head(PayloadOf(i)).job = i
        <5>1. /\ PayloadOf(i) \in Seq(Symbols) /\ Len(PayloadOf(i)) = SizeOf(i)
              /\ \A l \in 1..SizeOf(i) : PayloadOf(i)[l] = Char(i, l)
          BY <1>2, JobShape
        <5>2. 1 \in 1..SizeOf(i)
          BY <2>2, <3>2
        <5>3. Head(PayloadOf(i)) = Char(i, 1)
          BY <5>1, <5>2
        <5> QED
          BY <5>3 DEF Char
      <4>4. buffer' = Parsed(z) /\ at' = "yielded" /\ got' = Append(got, i)
        BY <1>5, <4>1, <4>2, <4>3
      <4> QED
        BY <1>6, <2>1, <2>2, <2>3, <3>2, <4>4
    <3> QED
      BY <3>1, <3>2
  <2>5. contentType # "msgpack" => HeldOf(y) = HeldOf(z)
    <3> SUFFICES ASSUME contentType # "msgpack" PROVE HeldOf(y) = HeldOf(z)
      OBVIOUS
    <3>1. Item(i) \in Seq(Symbols)
      BY <1>2, ItemTyped
    <3>2. ~Cut(Item(i))
      <4>1. Item(i)[Len(Item(i))] = Byte(0, 0, 0)
        BY <1>2, LineShape DEF Item
      <4> QED
        BY <4>1 DEF Cut, IsHalf, Last, Byte
    <3> QED
      BY <1>9, <3>1, <3>2, HeldBehind
  <2>6. ReadUpTo(k - 1, z)'
    <3>1. Tails'[k - 1] = z \o wire' /\ buffer' = Parsed(z)'
      BY <1>3, <1>4, <1>9, <2>4
    <3>2. contentType' # "msgpack" => held' = HeldOf(z)
      BY <1>3, <1>6, <2>5
    <3>3. got' = JobsAmong'[Len(items') - (k - 1)]
      BY <1>3, <1>4, <2>1, <2>4
    <3> QED
      BY <2>4, <3>1, <3>2, <3>3 DEF ReadUpTo
  <2>7. k - 1 \in 0..Len(items') /\ wire' \in Seq(Symbols)
    BY <1>2, <1>3, <2>1
  <2> QED
    BY <1>4, <2>4, <2>6, <2>7 DEF StreamInv
<1>10. CASE k = 0
  <2>1. y \o wire = <<>>
    BY <1>2, <1>6, <1>10, TailsDef
  <2>2. y = <<>>
    BY <1>2, <2>1, ConcatEqualIffEmpty
  <2>3. buffer = <<>>
    BY <1>6, <2>2, ParsedNothing
  <2>4. Read = Nothing
    BY <2>3 DEF Read, ReadFrame, ReadLine
  <2> QED
    BY <1>8, <1>10, <2>4
<1>11. CASE k # 0
  <2>1. PICK i : i = Len(items) + 1 - k
    OBVIOUS
  <2>2. i \in 1..Len(items) /\ k > 0 /\ k - 1 \in 0..Len(items)
    BY <1>2, <1>11, <2>1
  <2>3. Tails[k] = Item(i) \o Tails[k - 1]
    <3>1. k \in 1..Len(items)
      BY <1>2, <1>11
    <3> QED
      BY <1>2, <2>1, <3>1, TailsDef
  <2>4. Tails[k - 1] \in Seq(Symbols) /\ (contentType # "msgpack" => Paired(Tails[k]))
    BY <1>2, <2>2, TailsTyped
  <2>5. PICK b : b = Tails[k - 1]
    OBVIOUS
  <2>6. PICK a : a = Item(i)
    OBVIOUS
  <2>7. /\ a \in Seq(Symbols) /\ b \in Seq(Symbols) /\ wire \in Seq(Symbols) /\ y \o wire = a \o b
        /\ Len(a) \in Nat /\ Len(y) \in Nat
    <3>1. a \in Seq(Symbols)
      BY <1>2, <2>2, <2>6, ItemTyped
    <3> QED
      BY <1>2, <1>6, <2>3, <2>4, <2>5, <2>6, <3>1, LenProperties
  <2>8. PICK z : z = SubSeq(y, Len(a) + 1, Len(y))
    OBVIOUS
  <2>9. Read = IF Len(y) < Len(a) THEN Nothing
               ELSE IF SizeOf(i) = 0 THEN Skip(Parsed(z)) ELSE Payload(PayloadOf(i), Parsed(z))
    <3>1. y \o wire = Item(i) \o b /\ (contentType # "msgpack" => Paired(y \o wire))
      BY <1>6, <2>4, <2>7, <2>6
    <3>2. LET rest == Parsed(SubSeq(y, Len(Item(i)) + 1, Len(y)))
          IN  Read = IF Len(y) < Len(Item(i)) THEN Nothing
                     ELSE IF SizeOf(i) = 0 THEN Skip(rest) ELSE Payload(PayloadOf(i), rest)
      BY <1>2, <1>6, <2>2, <2>7, <3>1, ReadsTheNext
    <3> QED
      BY <2>6, <2>8, <3>2
  <2>10. CASE Len(y) < Len(a)
    BY <1>8, <2>9, <2>10, <2>1, <2>6
  <2>11. CASE ~(Len(y) < Len(a))
    <3>1. Len(a) <= Len(y)
      BY <2>7, <2>11
    <3>2. /\ SubSeq(y, Len(a) + 1, Len(y)) \in Seq(Symbols)
          /\ y = a \o SubSeq(y, Len(a) + 1, Len(y))
          /\ Len(y) = Len(a) + Len(SubSeq(y, Len(a) + 1, Len(y)))
      BY <2>7, <3>1, Split
    <3>3. SubSeq(y, Len(a) + 1, Len(y)) \o wire = b
      BY <2>7, <3>1, SplitRest
    <3>4. z \in Seq(Symbols) /\ y = Item(i) \o z /\ Tails[k - 1] = z \o wire
      BY <2>5, <2>6, <2>8, <3>2, <3>3
    <3> QED
      BY <1>9, <2>2, <2>9, <2>11, <2>1, <3>4
  <2> QED
    BY <2>10, <2>11
<1> QED
  BY <1>10, <1>11

\* Every step of the generator and of the body keeps the invariant.
LEMMA StreamStep == StreamInv /\ [StreamNext]_streamVars => StreamInv'
<1> SUFFICES ASSUME StreamInv, [StreamNext]_streamVars PROVE StreamInv'
  OBVIOUS
<1>1. ASSUME NEW n \in 1..Len(wire), Chunk(n) PROVE StreamInv'
  BY <1>1, ChunkStep
<1>2. CASE Parse
  BY <1>2, ParseStep
\* Nothing is read.
<1>3. ASSUME UNCHANGED <<items, contentType, wire, held, buffer, got>>,
             at' = at \/ at' \in {"parsing", "closed"}
      PROVE  StreamInv'
  <2>1. PICK k \in 0..Len(items), y \in Seq(Symbols) : ReadUpTo(k, y)
    BY DEF StreamInv
  <2>2. /\ Tails' = Tails /\ JobsAmong' = JobsAmong /\ StreamTyped'
        /\ \A i : Item(i)' = Item(i)
        /\ Parsed(y)' = Parsed(y)
    BY <1>3, SentStays DEF StreamInv
  <2>3. ReadUpTo(k, y)'
    <3>1. Tails'[k] = y \o wire' /\ buffer' = Parsed(y)' /\ got' = JobsAmong'[Len(items') - k]
      BY <1>3, <2>1, <2>2 DEF ReadUpTo
    <3>2. contentType' # "msgpack" => held' = HeldOf(y)
      BY <1>3, <2>1 DEF ReadUpTo
    <3>3. at' = "waiting" /\ k > 0 => Len(y) < Len(Item(Len(items) + 1 - k)')
      <4>1. PICK j : j = Len(items) + 1 - k
        OBVIOUS
      <4>2. Item(j)' = Item(j) /\ Len(items') = Len(items)
        BY <1>3, <2>2
      <4>3. at' = "waiting" => at = "waiting"
        BY <1>3
      <4> QED
        BY <2>1, <4>1, <4>2, <4>3 DEF ReadUpTo
    <3> QED
      BY <3>1, <3>2, <3>3 DEF ReadUpTo
  <2>4. /\ k \in 0..Len(items') /\ wire' \in Seq(Symbols)
        /\ at' \in {"waiting", "parsing", "yielded", "closed"}
    BY <1>3 DEF StreamInv
  <2> QED
    BY <2>2, <2>3, <2>4 DEF StreamInv
<1>4. CASE Resume
  BY <1>3, <1>4 DEF Resume
<1>5. CASE Leave
  BY <1>3, <1>5 DEF Leave
<1>6. CASE BodyEnds
  BY <1>3, <1>6 DEF BodyEnds
<1>7. CASE UNCHANGED streamVars
  BY <1>3, <1>7 DEF streamVars
<1> QED
  BY <1>1, <1>2, <1>4, <1>5, <1>6, <1>7 DEF StreamNext

\* The parsers are always at the beginning of an item, with what has arrived of it
\* (iterateNdjson, iterateMsgpackStream).
THEOREM StreamsAreRead == StreamSpec => []StreamInv
<1>1. StreamInit => StreamInv
  BY StreamStarts
<1>2. StreamInv /\ [StreamNext]_streamVars => StreamInv'
  BY StreamStep
<1> QED
  BY <1>1, <1>2, PTL DEF StreamSpec

\* Wherever the body is cut, and however many and however long the jobs, they come
\* out once each and in order (iterateNdjson, iterateMsgpackStream).
THEOREM JobsComeInOrder == StreamSpec => []InOrder
<1>1. StreamInv => InOrder
  <2> SUFFICES ASSUME StreamInv PROVE InOrder
    OBVIOUS
  <2>1. PICK k \in 0..Len(items), y \in Seq(Symbols) : ReadUpTo(k, y)
    BY DEF StreamInv
  <2>2. StreamTyped /\ Len(items) \in Nat /\ at # "threw"
    BY DEF StreamInv, StreamTyped
  <2>3. Len(items) \in 0..Len(items) /\ Len(items) - k \in 0..Len(items)
    BY <2>2
  <2>4. IsPrefix(JobsAmong[Len(items) - k], JobsAmong[Len(items)])
    BY <2>2, <2>3, JobsBegin
  <2> QED
    BY <2>1, <2>2, <2>4 DEF ReadUpTo, InOrder
<1> QED
  BY <1>1, StreamsAreRead, PTL

\* A generator that waits has yielded every job that is there in full
\* (iterateNdjson, iterateMsgpackStream).
THEOREM NoJobIsHeldBack == StreamSpec => []NothingHeldBack
<1>1. StreamInv => NothingHeldBack
  <2> SUFFICES ASSUME StreamInv, at = "waiting"
               PROVE  Len(got) = Cardinality({i \in Arrived : items[i] # Heartbeat})
    BY DEF NothingHeldBack
  <2>1. PICK k \in 0..Len(items), y \in Seq(Symbols) : ReadUpTo(k, y)
    BY DEF StreamInv
  <2>2. StreamTyped /\ Len(items) \in Nat /\ DOMAIN items = 1..Len(items) /\ wire \in Seq(Symbols)
    BY DEF StreamInv, StreamTyped
  <2>3. Len(wire) \in Nat /\ Len(y) \in Nat /\ Tails[k] = y \o wire
    BY <2>1, <2>2, LenProperties DEF ReadUpTo
  <2>4. Len(Tails[k]) = Len(y) + Len(wire)
    BY <2>2, <2>3, ConcatProperties
  <2>5. ASSUME NEW n \in 1..Len(items)
        PROVE  Len(wire) <= Len(Tails[Len(items) - n]) <=> n <= Len(items) - k
    <3> DEFINE m == Len(items) - n
    <3>1. m \in 0..Len(items) /\ k \in Nat
      BY <2>2
    <3>2. CASE n <= Len(items) - k
      <4>1. k \in 0..m
        BY <2>2, <3>2
      <4>2. Len(Tails[k]) <= Len(Tails[m]) /\ Len(Tails[m]) \in Nat
        BY <2>2, <3>1, <4>1, TailsGrow
      <4> HIDE DEF m
      <4>3. Len(wire) <= Len(Tails[m])
        BY <2>3, <2>4, <4>2
      <4> QED
        BY <3>2, <4>3 DEF m
    <3>3. CASE ~(n <= Len(items) - k)
      <4>1. k \in 1..Len(items) /\ k - 1 \in 0..Len(items) /\ m \in 0..k - 1 /\ k > 0
        BY <2>2, <3>1, <3>3
      <4>2. Len(Tails[m]) <= Len(Tails[k - 1]) /\ Len(Tails[k - 1]) \in Nat
        BY <2>2, <4>1, TailsGrow
      <4>3. PICK i : i = Len(items) + 1 - k
        OBVIOUS
      <4>4. i \in 1..Len(items) /\ Tails[k] = Item(i) \o Tails[k - 1] /\ Len(y) < Len(Item(i))
        <5>1. i \in 1..Len(items)
          BY <2>2, <4>1, <4>3
        <5>2. Tails[k] = Item(i) \o Tails[k - 1]
          BY <2>2, <4>1, <4>3, TailsDef
        <5>3. Len(y) < Len(Item(i))
          BY <2>1, <4>1, <4>3 DEF ReadUpTo
        <5> QED
          BY <5>1, <5>2, <5>3
      <4>5. Item(i) \in Seq(Symbols) /\ Tails[k - 1] \in Seq(Symbols)
        BY <2>2, <4>1, <4>4, ItemTyped, TailsTyped
      <4>6. Len(Tails[k]) = Len(Item(i)) + Len(Tails[k - 1]) /\ Len(Item(i)) \in Nat
        BY <4>4, <4>5, ConcatProperties, LenProperties
      <4>7. Len(Tails[m]) \in Nat
        BY <2>2, <3>1, TailsTyped, LenProperties
      <4> HIDE DEF m
      <4>8. ~(Len(wire) <= Len(Tails[m]))
        BY <2>3, <2>4, <4>2, <4>4, <4>6, <4>7
      <4> QED
        BY <3>3, <4>8 DEF m
    <3> QED
      BY <3>2, <3>3
  <2>6. Arrived = 1..Len(items) - k
    <3>1. \A n \in 1..Len(items) : n \in Arrived <=> n <= Len(items) - k
      BY <2>2, <2>5 DEF Arrived
    <3>2. Arrived \subseteq 1..Len(items)
      BY <2>2 DEF Arrived
    <3>3. \A n \in 1..Len(items) - k : n \in 1..Len(items)
      BY <2>2
    <3>4. \A n \in 1..Len(items) : n <= Len(items) - k <=> n \in 1..Len(items) - k
      BY <2>2
    <3> QED
      BY <3>1, <3>2, <3>3, <3>4
  <2>7. Len(items) - k \in 0..Len(items)
    BY <2>2
  <2>8. Len(JobsAmong[Len(items) - k])
          = Cardinality({i \in 1..Len(items) - k : items[i] # Heartbeat})
    BY <2>2, <2>7, JobsTyped
  <2> QED
    BY <2>1, <2>6, <2>8 DEF ReadUpTo
<1> QED
  BY <1>1, StreamsAreRead, PTL

=============================================================================
