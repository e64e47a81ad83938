----------------------------- MODULE Endpoints -----------------------------
(***************************************************************************)
(* The client's request and response endpoints for single jobs, budgets,   *)
(* budget bindings and crons (client.ts, cron.ts, resources.ts), called by *)
(* several programs at once: what each method asks of the server, what it  *)
(* makes of the answer, and what programs may conclude from it.            *)
(*                                                                         *)
(* An argument is a tree too: a field that is undefined is Unset until     *)
(* stripUndefined drops it, and "null" clears a field.                     *)
(***************************************************************************)
EXTENDS ServerTree

CONSTANTS
  Clients,     \* the programs
  Programs,    \* which methods the programs of a behaviour use
  Ids,         \* ids of jobs
  Filters,     \* filters of bulk calls: fields to sets of values
  Keys,        \* keys of budgets
  Policies,    \* budget policies
  Patches,     \* amendments of budgets
  JobPatches,  \* amendments of jobs
  BindingSets, \* sequences of budget bindings: key, cost, createWith
  Entries,     \* definitions of cron entries
  Schedules,   \* definitions of cron groups: timezone, paused, entries by name
  InitialTree, \* what the server holds
  MaxCalls,    \* bound: how many requests are sent
  Unset        \* undefined

ASSUME MaxCallsAssumption == MaxCalls \in Nat

\* The definitions of entries, also those of a group.
Definitions == Entries \cup UNION {Range(s.entries) : s \in Schedules}

\* Arguments are trees, and no field of them that says whether a cron is paused
\* is null: it is a Boolean or undefined.
ASSUME ArgumentsAssumption ==
  /\ Unset \notin {"null", "true", "false", "1", "3", "ready", "a"} /\ Unset \notin Filters
  /\ \A id \in Ids : Unset # [field \in {"id"} |-> {id}]
  /\ Keys \subseteq Name /\ Ids \subseteq Name /\ {"g", "e", "f"} \subseteq Name
  /\ \A f \in Policies \cup Patches \cup JobPatches \cup Definitions : DOMAIN f \subseteq Path
  /\ \A bs \in BindingSets :
       bs \in Seq(Range(bs)) /\ \A b \in Range(bs) : b.key \in Name /\ DOMAIN b.createWith \subseteq Path
  /\ \A def \in Definitions : <<"paused">> \in DOMAIN def => def[<<"paused">>] # "null"
  /\ \A s \in Schedules : s.paused # "null" /\ DOMAIN s.entries \subseteq Name

\* What the server holds at first says of each cron whether it is paused.
ASSUME TreeAssumption == TreeOk(InitialTree)

VARIABLES
  tree,  \* what the server holds
  uses,  \* the methods the programs use
  call,  \* for each client: its request, what the caller means by it, its progress
  calls  \* how many requests were sent

vars == <<tree, uses, call, calls>>

-----------------------------------------------------------------------------
(* Translation of arguments. *)

stripUndefined(f) == [p \in {q \in DOMAIN f : f[q] # Unset} |-> f[p]]

budgetPolicyToApi(policy) == stripUndefined(policy)

\* cronJobToApi is part of it: the job is under "job".
cronEntryToApi(entry) == stripUndefined(entry)

\* Mutant: an amendment drops what is null with what is undefined.
updateBudgetToApiDropsNull(opts) ==
  [p \in {q \in DOMAIN opts : opts[q] \notin {Unset, "null"}} |-> opts[p]]

\* In amendments a null survives.
updateBudgetToApi(opts) == stripUndefined(opts)
updateToApi(opts) == stripUndefined(opts)

bindingBodyToApi(b) ==
  Joined(stripUndefined([p \in {<<"cost">>} |-> b.cost]), Prefixed(<<"create_with">>, b.createWith))

\* The binding of an array that is to a budget; an array names a budget once.
BindingTo(bindings, key) == CHOOSE b \in Range(bindings) : b.key = key
KeysOf(bindings) == {b.key : b \in Range(bindings)}

\* An element of the array says its key too.
bindingToApi(b) == Joined([p \in {<<"key">>} |-> b.key], bindingBodyToApi(b))

\* No bindings are undefined rather than an empty array.
budgetBindingsToApi(bindings) ==
  LET element(key) == Prefixed(<<key>>, bindingToApi(BindingTo(bindings, key)))
  IN  IF bindings = <<>> THEN Empty
      ELSE [p \in {<<>>} \cup UNION {DOMAIN element(key) : key \in KeysOf(bindings)} |->
              IF p = <<>> THEN "[]" ELSE element(p[1])[p]]

enqueueToApi(job, bindings) ==
  Joined(stripUndefined(job), Prefixed(<<"budgets">>, budgetBindingsToApi(bindings)))

\* isEmptyFilter: an array of values that is empty.
isEmptyFilter(where) == \E field \in DOMAIN where : where[field] = {}

-----------------------------------------------------------------------------
(* Calls. *)

Idle == [step |-> "idle"]

Init ==
  /\ tree = InitialTree
  /\ uses \in Programs
  /\ call = [c \in Clients |-> Idle]
  /\ calls = 0

\* What a caller means: the fields given under a path get their values, and the
\* rest of what is there stays, or goes if the whole is replaced.  With a filter,
\* the path is one in each of its jobs.
Sets(path, given) == [where |-> Unset, path |-> path, whole |-> FALSE, given |-> given]
Replaces(path, given) == [where |-> Unset, path |-> path, whole |-> TRUE, given |-> given]
In(where, means) == [means EXCEPT !.where = where]
OneJob(id) == [field \in {"id"} |-> {id}]
OfJob(id, means) == In(OneJob(id), means)
Leaf(value) == [p \in {<<>>} |-> value]

Send(c, op, req, means) ==
  /\ op \in uses /\ call[c].step = "idle" /\ calls < MaxCalls
  /\ call' = [call EXCEPT ![c] = [step |-> "sent", op |-> op, req |-> req, means |-> means, applied |-> FALSE]]
  /\ calls' = calls + 1
  /\ UNCHANGED <<tree, uses>>

\* A request whose answer handleResponse() reads, or of which only a 204 is expected.
Doc(method, path, body) ==
  [kind |-> "document", method |-> method, path |-> path, body |-> body, bare |-> FALSE]
Bare(req) == [req EXCEPT !.bare = TRUE]

defineBudget(c) ==
  \E key \in Keys, policy \in Policies, replace \in BOOLEAN :
    Send(c, "defineBudget", Doc(IF replace THEN "PUT" ELSE "POST", Budget(key), budgetPolicyToApi(policy)),
         Replaces(Budget(key), policy))

updateBudget(c) ==
  \E key \in Keys, opts \in Patches :
    Send(c, "updateBudget", Doc("PATCH", Budget(key), updateBudgetToApi(opts)), Sets(Budget(key), opts))

deleteBudget(c) ==
  \E key \in Keys : Send(c, "deleteBudget", Doc("DELETE", Budget(key), Empty), Replaces(Budget(key), Empty))

jobBudgetRequest(c, op, method, id, key, body, value) ==
  Send(c, op, [kind |-> "binding", method |-> method, id |-> id, key |-> key, body |-> body, bare |-> FALSE],
       OfJob(id, Sets(<<"budgets", key>>, Leaf(value))))

CostBody(cost) == [p \in {<<"cost">>} |-> cost]

bindJobBudget(c) ==
  \E id \in Ids, bs \in BindingSets : Len(bs) = 1 /\
    jobBudgetRequest(c, "bindJobBudget", "POST", id, bs[1].key, bindingBodyToApi(bs[1]), bs[1].cost)

rebindJobBudget(c) ==
  \E id \in Ids, bs \in BindingSets : Len(bs) = 1 /\
    jobBudgetRequest(c, "rebindJobBudget", "PUT", id, bs[1].key, bindingBodyToApi(bs[1]), bs[1].cost)

setJobBudgetCost(c) ==
  \E id \in Ids, key \in Keys :
    jobBudgetRequest(c, "setJobBudgetCost", "PATCH", id, key, CostBody("3"), "3")

unbindJobBudget(c) ==
  \E id \in Ids, key \in Keys : jobBudgetRequest(c, "unbindJobBudget", "DELETE", id, key, Empty, "null")

Whole(method, id, body) == [kind |-> "bindings", method |-> method, id |-> id, body |-> body, bare |-> FALSE]

unbindAllJobBudgets(c) ==
  \E id \in Ids : Send(c, "unbindAllJobBudgets", Whole("DELETE", id, Empty),
                       OfJob(id, Replaces(<<"budgets">>, Empty)))

\* budgetBindingsToApi(bindings) ?? []: no bindings are an empty array here.
BudgetsBody(bindings) ==
  Prefixed(<<"budgets">>, IF bindings = <<>> THEN Leaf("[]") ELSE budgetBindingsToApi(bindings))

Costs(bindings) == [p \in {<<key>> : key \in KeysOf(bindings)} |-> BindingTo(bindings, p[1]).cost]

replaceJobBudgets(c) ==
  \E id \in Ids, bs \in BindingSets :
    Send(c, "replaceJobBudgets", Whole("PUT", id, BudgetsBody(bs)), OfJob(id, Replaces(<<"budgets">>, Costs(bs))))

\* bulkBudgetRequest: a filter that matches nothing sends nothing.
bulkBudgetRequest(c, op, method, key, where, body, value) ==
  /\ ~isEmptyFilter(where)
  /\ Send(c, op, [kind |-> "bulk", method |-> method, where |-> where, key |-> key, body |-> body, bare |-> FALSE],
          In(where, Sets(<<"budgets", key>>, Leaf(value))))

bindAllJobsBudget(c) ==
  \E bs \in BindingSets, where \in Filters : Len(bs) = 1 /\
    bulkBudgetRequest(c, "bindAllJobsBudget", "POST", bs[1].key, where, bindingBodyToApi(bs[1]), bs[1].cost)

rebindAllJobsBudget(c) ==
  \E bs \in BindingSets, where \in Filters : Len(bs) = 1 /\
    bulkBudgetRequest(c, "rebindAllJobsBudget", "PUT", bs[1].key, where, bindingBodyToApi(bs[1]), bs[1].cost)

setAllJobsBudgetCost(c) ==
  \E key \in Keys, where \in Filters :
    bulkBudgetRequest(c, "setAllJobsBudgetCost", "PATCH", key, where, CostBody("3"), "3")

unbindAllJobsBudget(c) ==
  \E key \in Keys, where \in Filters :
    bulkBudgetRequest(c, "unbindAllJobsBudget", "DELETE", key, where, Empty, "null")

clearAllJobsBudgets(c) ==
  \E where \in Filters :
    /\ ~isEmptyFilter(where)
    /\ Send(c, "clearAllJobsBudgets", [kind |-> "clear", where |-> where, bare |-> FALSE],
            In(where, Replaces(<<"budgets">>, Empty)))

enqueueRaw(c) ==
  \E bs \in BindingSets :
    LET job == [p \in {<<"status">>, <<"queue">>} |-> IF p = <<"status">> THEN "ready" ELSE "a"]
    IN  Send(c, "enqueueRaw",
             [kind |-> "create", bare |-> FALSE, body |-> enqueueToApi(job, bs)],
             Replaces(<<"new">>, Joined(job, Prefixed(<<"budgets">>, Costs(bs)))))

updateJob(c) ==
  \E id \in Ids, opts \in JobPatches :
    Send(c, "updateJob", Doc("PATCH", Job(id), updateToApi(opts)), Sets(Job(id), opts))

deleteJob(c) ==
  \E id \in Ids : Send(c, "deleteJob", Bare(Doc("DELETE", Job(id), Empty)), Replaces(Job(id), Empty))

reportSuccess(c) ==
  \E id \in Ids : Send(c, "reportSuccess", [kind |-> "success", id |-> id, bare |-> TRUE], Replaces(Job(id), Empty))

reset(c) == Send(c, "reset", [kind |-> "reset", bare |-> TRUE], Replaces(<<>>, Empty))

-----------------------------------------------------------------------------
(* Crons: the methods of Client, to which the handles and resources delegate. *)

\* replaceCronGroup: the group's own fields, and its entries in full.
ScheduleBody(s) ==
  LET all == [p \in UNION {{<<"entries", n>> \o q : q \in DOMAIN s.entries[n]} : n \in DOMAIN s.entries} |->
                s.entries[p[2]][SubSeq(p, 3, Len(p))]]
  IN  Joined([p \in {<<"timezone">>, <<"paused">>} |-> s[p[1]]], all)

replaceCronGroup(c) ==
  \E s \in Schedules :
    Send(c, "replaceCronGroup", Doc("PUT", Group("g"), stripUndefined(ScheduleBody(s))),
         Replaces(Group("g"), ScheduleBody(s)))

addCronEntry(c) ==
  \E e \in {"e", "f"}, def \in Entries :
    Send(c, "addCronEntry", Doc("POST", Entry("g", e), cronEntryToApi(def)), Replaces(Entry("g", e), def))

\* replaceCronEntry, and CronEntryHandle.register.
replaceCronEntry(c) ==
  \E e \in {"e", "f"}, def \in Entries :
    Send(c, "replaceCronEntry", Doc("PUT", Entry("g", e), cronEntryToApi(def)), Replaces(Entry("g", e), def))

Paused(value) == [p \in {<<"paused">>} |-> value]

\* Mutant: pause() and resume() send the group as a whole.
PauseRequestPuts(path, value) == Doc("PUT", path, Paused(value))

\* pause() and resume() amend one field.
PauseRequest(path, value) == Doc("PATCH", path, Paused(value))

updateCronGroup(c) ==
  \E paused \in {"true", "false"} :
    Send(c, "updateCronGroup", PauseRequest(Group("g"), paused), Sets(Group("g"), Paused(paused)))

updateCronEntry(c) ==
  \E e \in {"e", "f"}, paused \in {"true", "false"} :
    Send(c, "updateCronEntry", PauseRequest(Entry("g", e), paused), Sets(Entry("g", e), Paused(paused)))

deleteCronGroup(c) ==
  Send(c, "deleteCronGroup", Bare(Doc("DELETE", Group("g"), Empty)), Replaces(Group("g"), Empty))

deleteCronEntry(c) ==
  \E e \in {"e", "f"} :
    Send(c, "deleteCronEntry", Bare(Doc("DELETE", Entry("g", e), Empty)), Replaces(Entry("g", e), Empty))

deleteAllCrons(c) == Send(c, "deleteAllCrons", Doc("DELETE", <<"crons">>, Empty), Replaces(<<"crons">>, Empty))

-----------------------------------------------------------------------------
(* Transport. *)

buildResponseError(status) ==
  CASE status = 404 -> "NotFoundError"
    [] status = 409 -> "ConflictError"
    [] status \in 400..499 \ {404, 409} -> "ClientError"
    [] status >= 500 -> "ServerError"
    [] OTHER -> "ResponseError"

\* Mutant: handleResponse() takes a body that it can read for a success.
handleResponseTrusting(status, readable) ==
  IF status = 204 THEN "ok" ELSE IF ~readable THEN buildResponseError(status) ELSE "ok"

\* handleResponse(): the body is read before the status is looked at.
handleResponse(status, readable) ==
  IF status = 204 THEN "ok"
  ELSE IF ~readable THEN "SyntaxError"
  ELSE IF status \notin 200..299 THEN buildResponseError(status)
  ELSE "ok"

\* throwOnError(), for the methods that expect a 204: the body does not matter.
throwOnError(status) == IF status = 204 THEN "ok" ELSE buildResponseError(status)

\* An answer is on its way: from the server, or in its place.
Answering(c, status, readable, applied) ==
  call' = [call EXCEPT ![c] = [step |-> "answered", op |-> @.op, req |-> @.req, means |-> @.means,
                               applied |-> applied, status |-> status, readable |-> readable]]

\* The server takes the request.
Served(c) ==
  LET answer == Serve(tree, call[c].req, Ids)
  IN  /\ call[c].step = "sent"
      /\ tree' = answer.tree
      /\ Answering(c, answer.status, TRUE, answer.status < 300)
      /\ UNCHANGED <<uses, calls>>

\* Something before the server answers, with a body that is no JSON.
Intercepted(c) ==
  /\ call[c].step = "sent"
  /\ \E status \in {413, 502} : Answering(c, status, FALSE, FALSE)
  /\ UNCHANGED <<tree, uses, calls>>

Return(c, result) ==
  /\ call' = [call EXCEPT ![c] = [step |-> "returned", op |-> @.op, applied |-> @.applied, result |-> result]]
  /\ UNCHANGED <<tree, uses, calls>>

Answered(c) ==
  /\ call[c].step = "answered"
  /\ Return(c, IF call[c].req.bare THEN throwOnError(call[c].status)
               ELSE handleResponse(call[c].status, call[c].readable))

\* request() and requestWithBody() reject, before or after the server acted.
ConnectionFails(c) ==
  /\ call[c].step \in {"sent", "answered"}
  /\ Return(c, "ConnectionError")

\* The body ends early: readBody() throws what undici threw, which
\* throwOnError() ignores.
BodyCut(c) ==
  /\ call[c].step = "answered"
  /\ Return(c, IF call[c].req.bare THEN throwOnError(call[c].status) ELSE "Error")

\* The program goes on.
Continue(c) ==
  /\ call[c].step = "returned"
  /\ call' = [call EXCEPT ![c] = Idle]
  /\ UNCHANGED <<tree, uses, calls>>

BudgetCall(c) == defineBudget(c) \/ updateBudget(c) \/ deleteBudget(c)

JobBudgetCall(c) ==
  \/ bindJobBudget(c) \/ rebindJobBudget(c) \/ setJobBudgetCost(c) \/ unbindJobBudget(c)
  \/ unbindAllJobBudgets(c) \/ replaceJobBudgets(c)

BulkBudgetCall(c) ==
  \/ bindAllJobsBudget(c) \/ rebindAllJobsBudget(c) \/ setAllJobsBudgetCost(c)
  \/ unbindAllJobsBudget(c) \/ clearAllJobsBudgets(c)

JobCall(c) == enqueueRaw(c) \/ updateJob(c) \/ deleteJob(c) \/ reportSuccess(c) \/ reset(c)

CronGroupCall(c) ==
  replaceCronGroup(c) \/ updateCronGroup(c) \/ deleteCronGroup(c) \/ deleteAllCrons(c)

CronEntryCall(c) ==
  addCronEntry(c) \/ replaceCronEntry(c) \/ updateCronEntry(c) \/ deleteCronEntry(c)

CronCall(c) == CronGroupCall(c) \/ CronEntryCall(c)

Next == \E c \in Clients :
  \/ BudgetCall(c) \/ JobBudgetCall(c) \/ BulkBudgetCall(c) \/ JobCall(c) \/ CronCall(c)
  \/ Served(c) \/ Intercepted(c) \/ Answered(c) \/ ConnectionFails(c) \/ BodyCut(c) \/ Continue(c)

Spec == Init /\ [][Next]_vars

-----------------------------------------------------------------------------
(* Properties. *)

\* Where a call means to act: an empty array in a filter selects no job.
Roots(t, means) ==
  IF means.where = Unset THEN {means.path}
  ELSE {Job(i) \o means.path : i \in IF isEmptyFilter(means.where) THEN {} ELSE Selected(t, means.where)}

ValueAt(t, p) == IF p \in DOMAIN t THEN t[p] ELSE "null"

\* What a call changes is what its caller means, whatever other programs did
\* since it was sent: only in the objects it names, there only the fields it
\* gives unless it replaces the whole, and each field it changes gets the value
\* given, or goes.  A binding may also make its budget where there is none.
ChangesOnly(t, u, op, means) ==
  LET roots == IF op = "enqueueRaw" THEN {Job(i) : i \in JobsIn(u) \ JobsIn(t)} ELSE Roots(t, means)
      changed == {p \in DOMAIN t \cup DOMAIN u : ValueAt(t, p) # ValueAt(u, p)}
      Value(q) == IF q \in DOMAIN means.given THEN means.given[q] ELSE Unset
      IsCost(p) == Len(p) = 4 /\ p[3] = "budgets"
      Right(r, p) ==
        LET value == Value(SubSeq(p, Len(r) + 1, Len(p)))
            now   == ValueAt(u, p)
        IN  \/ value # Unset /\ now = value
            \/ value = Unset /\ IsCost(p) /\ now = "1"
            \/ value = Unset /\ means.whole /\ (now = "null" \/ (Last(p) = "paused" /\ now = "false"))
  IN  \A p \in changed :
        \/ \E r \in roots : IsPrefix(r, p) /\ Right(r, p)
        \/ p[1] = "budgets" /\ (means.where # Unset \/ op = "enqueueRaw") /\ ~Exists(t, Budget(p[2]))
        \/ p[1] = "crons" /\ Len(p) = 3 /\ p[3] = "paused" /\ ~Exists(t, Group(p[2]))

\* A call that is applied to one object leaves what it gives in place: every
\* field that is given has its value, and if the whole is replaced nothing else
\* is left.
LeavesInPlace(t, u, means) ==
  \A r \in Roots(t, means) :
    /\ \A q \in DOMAIN means.given : means.given[q] # Unset => ValueAt(u, r \o q) = means.given[q]
    /\ means.whole => \A p \in Under(u, r) :
         SubSeq(p, Len(r) + 1, Len(p)) \in DOMAIN means.given \/ Last(p) = "paused"

\* A bulk call passes over the jobs in flight, and a job's id is known only when
\* it is there.
Singular(req) == req.kind \notin {"bulk", "clear", "create"}

AsMeant ==
  [][\A c \in Clients : call[c].step = "sent" /\ call'[c].step = "answered" /\ call'[c].applied
       => /\ ChangesOnly(tree, tree', call[c].op, call[c].means)
          /\ Singular(call[c].req) => LeavesInPlace(tree, tree', call[c].means)]_vars

\* A program may trust what a method does: when it returns, the request was
\* applied, and when it throws a ClientError, which is not to be retried, it was
\* not, whatever became of the connection and whoever sent the answer.
OutcomeTold ==
  \A c \in Clients : call[c].step = "returned" =>
    /\ call[c].result = "ok" => call[c].applied
    /\ call[c].result \in {"ClientError", "NotFoundError", "ConflictError"} => ~call[c].applied

-----------------------------------------------------------------------------
(* Inductive invariant. *)

\* OutcomeTold, strengthened: what is true of a call while it is under way.
Known(r) ==
  /\ r.step \in {"idle", "sent", "answered", "returned"}
  /\ r.step = "sent" => ~r.applied
  /\ r.step = "answered" => r.applied = (r.status < 300)
  /\ r.step = "returned" =>
       /\ r.result = "ok" => r.applied
       /\ r.result \in {"ClientError", "NotFoundError", "ConflictError"} => ~r.applied

CallsKnown == DOMAIN call = Clients /\ \A c \in Clients : Known(call[c])

=============================================================================
