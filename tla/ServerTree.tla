----------------------------- MODULE ServerTree -----------------------------
(***************************************************************************)
(* The server's side of the budget, binding, job and cron endpoints, as    *)
(* the client's documentation describes it.  What the server holds is one  *)
(* JSON tree: budgets, jobs with the cost of each binding, and crons.      *)
(***************************************************************************)
EXTENDS JsonTree

\* The names of fields, and ids and keys, are strings.
Name == STRING
Path == Seq(Name)

\* The fields of its documents that the server itself looks at.
ASSUME FieldsAssumption ==
  {"budgets", "jobs", "crons", "entries", "paused", "timezone", "status", "queue", "create_with",
   "cost", "key"} \subseteq Name

Empty == [p \in {} |-> ""]
Prefixed(s, f) == Placed(Empty, s, f)
Joined(f, g) == [p \in DOMAIN f \cup DOMAIN g |-> IF p \in DOMAIN g THEN g[p] ELSE f[p]]

Exists(t, path) == Under(t, path) # {}
Budget(key) == <<"budgets", key>>
Group(g) == <<"crons", g>>
Entry(g, e) == <<"crons", g, "entries", e>>
Job(id) == <<"jobs", id>>
Bound(id, key) == <<"jobs", id, "budgets", key>>
JobsIn(t) == {p[2] : p \in Under(t, <<"jobs">>)}
Ready(t, id) == t[Append(Job(id), "status")] = "ready"

\* The jobs a filter selects.  A parameter that is empty is as good as absent.
Selected(t, where) ==
  {i \in JobsIn(t) : \A field \in {f \in DOMAIN where : where[f] # {}} :
     CASE field = "id"          -> i \in where[field]
       [] field = "queue"       -> t[Append(Job(i), "queue")] \in where[field]
       [] field = "budgets.key" -> \E k \in where[field] : Bound(i, k) \in DOMAIN t}

Answer(status, t) == [status |-> status, tree |-> t]

\* Groups and entries are not paused unless they say so.
Completed(t) ==
  LET inCrons == Under(t, <<"crons">>)
      groups  == {<<"crons", p[2], "paused">> : p \in inCrons}
      entries == {<<"crons", p[2], p[3], p[4], "paused">> : p \in {q \in inCrons : Len(q) > 4}}
  IN  Joined([p \in groups \cup entries |-> "false"], t)

\* A tree the server may hold: whatever it has is a budget, a job or a cron, and
\* a group and an entry that is there says whether it is paused.
Says(t, p) == p \in DOMAIN t /\ t[p] # "null"
TreeOk(t) ==
  /\ \A p \in DOMAIN t : p \in Path /\ Len(p) > 1
  /\ \A p \in DOMAIN t : p[1] = "crons" =>
       /\ Says(t, <<"crons", p[2], "paused">>)
       /\ Len(p) > 4 => Says(t, <<"crons", p[2], p[3], p[4], "paused">>)

\* A document is created, replaced, amended or deleted.
Document(t, req) ==
  LET path   == req.path
      there  == Exists(t, path) \/ path = <<"crons">>
      merged == Joined(t, Prefixed(path, req.body))
      bound  == path[1] = "budgets" /\ \E i \in JobsIn(t) : Bound(i, path[2]) \in DOMAIN t
      method == req.method
  IN  CASE method = "POST" /\ there -> Answer(409, t)
        [] method = "PUT" \/ (method = "POST" /\ ~there) -> Answer(200, Completed(Placed(t, path, req.body)))
        [] method \in {"PATCH", "DELETE"} /\ ~there -> Answer(404, t)
        [] method = "PATCH" /\ there ->
             Answer(200, [p \in {q \in DOMAIN merged : merged[q] # "null"} |-> merged[p]])
        [] method = "DELETE" /\ there -> IF bound THEN Answer(409, t) ELSE Answer(204, Without(t, Under(t, path)))

\* A budget that is not there is made from what a binding brings along.
Made(t, key, body) ==
  IF Exists(t, Budget(key)) THEN Empty ELSE Prefixed(Budget(key), Below(body, <<"create_with">>))

\* The cost of a binding is 1 unless it is given.
Cost(body) == IF <<"cost">> \in DOMAIN body THEN body[<<"cost">>] ELSE "1"

\* Some jobs are bound to a budget, anew, or released from it.
Rebound(t, method, body, ids, key) ==
  LET bindings == {Bound(i, key) : i \in ids}
      made     == IF ids = {} THEN Empty ELSE Made(t, key, body)
  IN  IF method = "DELETE" THEN Without(t, bindings)
      ELSE Joined(Joined(t, made), [p \in bindings |-> Cost(body)])

\* What becomes of a binding of one job.
Outcome(t, req, id) ==
  LET bound == Bound(id, req.key) \in DOMAIN t
      needs == req.method \in {"POST", "PUT"} /\ ~Exists(t, Budget(req.key))
  IN  IF id \notin JobsIn(t) THEN 404
      ELSE IF ~Ready(t, id) THEN 422
      ELSE IF req.method = "POST" /\ bound THEN 409
      ELSE IF req.method \in {"PATCH", "DELETE"} /\ ~bound THEN 404
      ELSE IF needs /\ Below(req.body, <<"create_with">>) = Empty THEN 404
      ELSE 200

Binding(t, req, id) ==
  IF Outcome(t, req, id) = 200 THEN Answer(200, Rebound(t, req.method, req.body, {id}, req.key))
  ELSE Answer(Outcome(t, req, id), t)

\* The jobs of a selection that can be are bound, whatever becomes of the others.
AllBound(t, req) ==
  LET ids == {i \in Selected(t, req.where) : Outcome(t, req, i) = 200}
  IN  Answer(200, Rebound(t, req.method, req.body, ids, req.key))

\* The whole set of bindings of a job, from a body that must have it.
Bindings(t, method, body, id) ==
  IF id \notin JobsIn(t) THEN Answer(404, t)
  ELSE IF ~Ready(t, id) \/ (method = "PUT" /\ <<"budgets">> \notin DOMAIN body) THEN Answer(422, t)
  ELSE LET given == Below(body, <<"budgets">>)
           keys  == {p[1] : p \in DOMAIN given \ {<<>>}}
           made(k) == Made(t, k, Below(given, <<k>>))
           budgets == [p \in UNION {DOMAIN made(k) : k \in keys} |-> made(p[2])[p]]
           costs   == [p \in {Bound(id, k) : k \in keys} |-> Cost(Below(given, <<p[4]>>))]
       IN  Answer(200, Joined(Joined(Without(t, Under(t, Append(Job(id), "budgets"))), budgets), costs))

\* A selection is released from all budgets, as far as its jobs are not in flight.
AllCleared(t, where) ==
  LET ids == {i \in Selected(t, where) : Ready(t, i)}
  IN  Answer(200, Without(t, UNION {Under(t, Append(Job(i), "budgets")) : i \in ids}))

\* A new job, with its bindings.
Created(t, body, ids) ==
  LET id == CHOOSE i \in ids \ JobsIn(t) : TRUE
  IN  IF ids \subseteq JobsIn(t) THEN Answer(503, t)
      ELSE Bindings(Joined(t, Prefixed(Job(id), Without(body, Under(body, <<"budgets">>)))), "POST", body, id)

Serve(t, req, ids) ==
  CASE req.kind = "document" -> Document(t, req)
    [] req.kind = "create"   -> Created(t, req.body, ids)
    [] req.kind = "binding"  -> Binding(t, req, req.id)
    [] req.kind = "bindings" -> Bindings(t, req.method, req.body, req.id)
    [] req.kind = "bulk"     -> AllBound(t, req)
    [] req.kind = "clear"    -> AllCleared(t, req.where)
    [] req.kind = "reset"    -> Answer(204, Empty)
    [] req.kind = "success"  ->
         IF req.id \in JobsIn(t) /\ ~Ready(t, req.id)
         THEN Answer(204, Without(t, Under(t, Job(req.id)))) ELSE Answer(404, t)

=============================================================================
