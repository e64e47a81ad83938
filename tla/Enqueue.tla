------------------------------ MODULE Enqueue ------------------------------
(***************************************************************************)
(* From an enqueue call to the handler: how inputs are resolved and their  *)
(* unique and batch keys derived (enqueue.ts, payload-hasher.ts,           *)
(* unique-key.ts, batch-config.ts), what the server makes of the keys, and *)
(* which handler a job reaches (router.ts, handler.ts).                    *)
(*                                                                         *)
(* A JSON value is a function from the paths in it to what is there: an    *)
(* atom, "{}" for an object, "[]" for an array.  A path is a sequence of   *)
(* steps, array indices being the members of Index.  Key order is not part *)
(* of the value, as it is not of a hash.                                   *)
(***************************************************************************)
EXTENDS JsonTree

CONSTANTS
  Index,      \* the sequence of the array indices, as steps
  Programs,   \* what a program enqueues (inputs: a function with its zizqOptions or a
              \* type, queue, payload, unique policy, batch) and gives its worker
              \* (functions, whether by buildHandler, whether with a fallback)
  MaxJobs,    \* bound: how many inputs are accepted
  Unset,      \* an option that is undefined
  Transform(_, _)  \* the options the hook of an input's function makes of the resolved
                   \* ones; what else it reads (a clock, a counter) is part of the input

Path == Seq(STRING)

ASSUME MaxJobsAssumption == MaxJobs \in Nat
ASSUME IndexAssumption == Index \in Path /\ IsInjective(Index)

VARIABLES
  jobs,      \* the server's jobs, in order of creation
  accepted,  \* history: for each input accepted, the place of its job and how it got there
  inputs,    \* what the program enqueues
  routes,    \* the routes of the worker's router: the function of each type
  fallback   \* the fallback build() captured

vars == <<jobs, accepted, inputs, routes, fallback>>

-----------------------------------------------------------------------------
(* The payload hasher. *)

IsIndex(step) == step \in Range(Index)
PlaceOf(step) == CHOOSE i \in DOMAIN Index : Index[i] = step

\* A JSON value: what is at a path is in something, and of the siblings of an
\* array element all are elements.
Json(v) ==
  /\ DOMAIN v \subseteq Path /\ <<>> \in DOMAIN v
  /\ v = [p \in DOMAIN v |-> v[p]]
  /\ \A p \in DOMAIN v : \A n \in 0..Len(p) : SubSeq(p, 1, n) \in DOMAIN v
  /\ \A p, q \in DOMAIN v \ {<<>>} : Front(p) = Front(q) => (IsIndex(Last(p)) <=> IsIndex(Last(q)))

Policies == [mode : {"only", "except", "all"}, paths : Seq(Path), prefix : BOOLEAN, object : BOOLEAN]

\* walk: the value at a path, empty where the path is missing.
walk(v, s) == Below(v, s)

\* The containers setPath creates on the way: each is an array or an object as
\* the step that follows it is an index or a key.
Container(step) == IF IsIndex(step) THEN "[]" ELSE "{}"

setPath(target, s, v) ==
  LET placed == Placed(target, s, v)
      above  == {SubSeq(s, 1, n) : n \in 0..Len(s) - 1} \ DOMAIN target
  IN  [p \in DOMAIN placed \cup above |-> IF p \in above THEN Container(s[Len(p) + 1]) ELSE placed[p]]

\* The loop of pickPaths: the target after n of the paths.
Picking(v, paths) ==
  LET target[n \in 0..Len(paths)] ==
        IF n = 0 THEN Without(v, DOMAIN v)
        ELSE IF Under(v, paths[n]) = {} THEN target[n - 1]
        ELSE setPath(target[n - 1], paths[n], walk(v, paths[n]))
  IN  target

\* pickPaths: the values at the paths, where they were; the root stands for all.
pickPaths(v, paths) ==
  LET picked == Picking(v, paths)[Len(paths)]
  IN  IF <<>> \in Range(paths) THEN v
      ELSE IF DOMAIN picked = {} THEN [p \in {<<>>} |-> "{}"] ELSE picked

\* deletePath: a key is deleted; an array element is spliced out, and those
\* after it move up.
deletePath(v, s) ==
  IF s = <<>> THEN [p \in {<<>>} |-> "null"]
  ELSE LET parent == Front(s)
           left   == Without(v, Under(v, s))
           Later(p) == /\ Len(p) >= Len(s) /\ IsPrefix(parent, p)
                       /\ PlaceOf(p[Len(s)]) > PlaceOf(Last(s))
           up(p)   == [p EXCEPT ![Len(s)] = Index[PlaceOf(@) - 1]]
           down(p) == [p EXCEPT ![Len(s)] = Index[PlaceOf(@) + 1]]
       IN  IF ~IsIndex(Last(s)) \/ Under(v, s) = {} THEN left
           ELSE LET moved == {p \in DOMAIN left : Later(p)}
                    ends  == {up(p) : p \in moved}
                IN  [p \in (DOMAIN left \ moved) \cup ends |->
                       IF p \in ends THEN left[down(p)] ELSE left[p]]

\* The loop over the paths to leave out: what n of them leave.
Deleting(v, paths) ==
  LET out[n \in 0..Len(paths)] == IF n = 0 THEN v ELSE deletePath(out[n - 1], paths[n])
  IN  out

\* Mutant: each path is left out of the original, so that the last one wins.
DeriveLastPath(v, policy) ==
  CASE policy.mode = "only"   -> pickPaths(v, policy.paths)
    [] policy.mode = "except" -> deletePath(v, Last(policy.paths))
    [] policy.mode = "all"    -> v

\* deriveHashable: the part of a payload that is hashed.
deriveHashable(v, policy) ==
  CASE policy.mode = "only"   -> pickPaths(v, policy.paths)
    [] policy.mode = "except" -> Deleting(v, policy.paths)[Len(policy.paths)]
    [] policy.mode = "all"    -> v

\* hashInto cannot hash an array with a hole, which setPath leaves when it sets
\* an element and not the ones before it.
Hashable(v) ==
  \A p \in DOMAIN v : p # <<>> /\ IsIndex(Last(p)) =>
    \A i \in 1..PlaceOf(Last(p)) : Append(Front(p), Index[i]) \in DOMAIN v

\* payloadHasher: the type and a digest of the part, for which the part stands;
\* SHA-256 of the canonical text does not collide.
Hash(type, v, policy) ==
  <<IF policy.prefix THEN type ELSE "", deriveHashable(v, policy)>>

-----------------------------------------------------------------------------
(* Resolution. *)

typeName(fn) == IF fn.type = Unset THEN fn.name ELSE fn.type

Or(a, b) == IF a = Unset THEN b ELSE a

TypeOf(input) == IF input.fn = Unset THEN input.type ELSE typeName(input.fn)
QueueOf(input) == IF input.fn = Unset THEN input.queue ELSE Or(input.queue, input.fn.queue)
UniqueOf(input) == IF input.fn = Unset THEN input.unique ELSE Or(input.unique, input.fn.unique)

\* The policy of the unique key and that of the batch key, each as a set that
\* is empty where there is none, and the key made by such a policy, likewise.
Unique(input) == {UniqueOf(input)} \ {Unset}
Batched(input) == IF input.batch = Unset THEN {} ELSE {input.batch.policy}
KeyOf(input, policies) == {Hash(TypeOf(input), input.payload, policy) : policy \in policies}

\* The options before the transform: an explicit one, else the function's, and
\* the keys of what was given.
Merged(input) ==
  [type     |-> TypeOf(input),
   queue    |-> QueueOf(input),
   payload  |-> input.payload,
   key      |-> KeyOf(input, Unique(input)),
   batchKey |-> KeyOf(input, Batched(input)),
   batch    |-> input.batch]

\* resolveInput: the transform comes last and may change or replace all of them;
\* the keys are not derived again.
resolveInput(input) ==
  IF input.fn = Unset \/ input.fn.transform = Unset THEN Merged(input)
  ELSE Transform(input, Merged(input))

\* The transform leaves some options as they were.
Keeps(input, options) == \A o \in options : resolveInput(input)[o] = Merged(input)[o]

\* resolveInput throws: no queue, a key that cannot be hashed, or fields to
\* pick from a payload that is no object.
Throws(input) ==
  \/ QueueOf(input) = Unset
  \/ \E policy \in Unique(input) \cup Batched(input) :
       \/ ~Hashable(deriveHashable(input.payload, policy))
       \/ policy.object /\ input.payload[<<>>] # "{}"

\* batchConfig: the key hashes all but the target; elements at the target are
\* folded while their number, old and new, is within the limit.
batchConfig(n, path, mode) ==
  [limit |-> n, path |-> path, mode |-> mode,
   policy |-> [mode |-> "except", paths |-> <<path>>, prefix |-> TRUE, object |-> FALSE]]

\* uniqueKey(...fields): the fields as paths, or the whole payload.
uniqueKey(fields) ==
  [mode |-> IF fields = <<>> THEN "all" ELSE "only", paths |-> fields, prefix |-> TRUE,
   object |-> fields # <<>>]

\* A payload as a program may write it, without holes, and a batch as batchConfig
\* makes it, with a list of atoms, or nothing yet, where the payload is folded.
Sendable(payload, batch) ==
  /\ Json(payload) /\ Hashable(payload)
  /\ batch # Unset =>
       LET s == batch.path
       IN  /\ batch.limit \in 0..Len(Index) /\ s \in Path /\ batch.mode \in {"append", "dedup"}
           /\ batch = batchConfig(batch.limit, s, batch.mode)
           /\ s # <<>> => Front(s) \in DOMAIN payload
           /\ s \in DOMAIN payload => payload[s] = "[]"
           /\ Under(payload, s) \subseteq {s} \cup {Append(s, Index[i]) : i \in DOMAIN Index}

\* An input as a program may write it: its policies are what payloadHasher
\* makes, and its transform gives options of the declared type, in which a
\* batch has its key.
Written(input) ==
  /\ Sendable(input.payload, input.batch)
  /\ Unique(input) \subseteq Policies
  /\ ~Throws(input) =>
       LET opts == resolveInput(input)
       IN  Sendable(opts.payload, opts.batch) /\ (opts.batch = Unset <=> opts.batchKey = {})

ASSUME ProgramsAssumption ==
  \A p \in Programs : /\ p.fns \in Seq(Range(p.fns))
                      /\ \A input \in p.inputs : Written(input)

-----------------------------------------------------------------------------
(* The server: unique keys while a job is queued, and batches. *)

\* The array at a path, as a sequence.
Array(v, s) == LET n == Cardinality({i \in DOMAIN Index : Append(s, Index[i]) \in DOMAIN v})
               IN  [i \in 1..n |-> v[Append(s, Index[i])]]

\* Mutant: when compares the existing length alone with the limit.
FitsBeforehand(old, new, batch) == Len(Array(old, batch.path)) <= batch.limit

\* when: the old and the new elements together are within the limit.
Fits(old, new, batch) ==
  Len(Array(old, batch.path)) + Len(Array(new, batch.path)) <= batch.limit

\* fold: the elements of the new payload follow those of the old; dedup keeps
\* one of each, in the order of the values.
Fold(old, new, batch) ==
  LET s    == batch.path
      both == Array(old, s) \o Array(new, s)
      all  == IF batch.mode = "dedup" THEN SetToSeq(Range(both)) ELSE both
      at   == {Append(s, Index[i]) : i \in DOMAIN all}
  IN  [p \in (DOMAIN old \ Under(old, s)) \cup {s} \cup at |->
         IF p = s THEN "[]" ELSE IF p \in at THEN all[PlaceOf(Last(p))] ELSE old[p]]

Queued(js) == {i \in DOMAIN js : js[i].state = "queued"}

\* The server refuses a request with an input that has both keys, or that has no
\* type or no queue, which a transform may take away.
Refused(input) ==
  LET opts == resolveInput(input)
  IN  (opts.key # {} /\ opts.batchKey # {}) \/ Unset \in {opts.type, opts.queue}

\* What the server makes of an input: a duplicate of a queued job, an input
\* folded into the open batch of its key, or a new job, which seals the batch.
Accept(now, input) ==
  LET opts  == resolveInput(input)
      js    == now.jobs
      dups  == {i \in Queued(js) : opts.key # {} /\ js[i].key = opts.key}
      open  == {i \in Queued(js) : opts.batchKey # {} /\ js[i].batchKey = opts.batchKey /\ ~js[i].sealed}
      folds == {i \in open : Fits(js[i].payload, opts.payload, js[i].batch)}
      job   == [type |-> opts.type, queue |-> opts.queue, payload |-> opts.payload,
                key |-> opts.key, batchKey |-> opts.batchKey, batch |-> opts.batch,
                sealed |-> FALSE, state |-> "queued", by |-> Unset]
      Noted(i, how) == Append(now.accepted, [input |-> input, job |-> i, how |-> how])
  IN  IF dups # {} THEN [now EXCEPT !.accepted = Noted(CHOOSE i \in dups : TRUE, "duplicate")]
      ELSE IF folds # {} THEN
        LET i == CHOOSE k \in folds : TRUE
        IN  [jobs |-> [js EXCEPT ![i].payload = Fold(@, opts.payload, js[i].batch)],
             accepted |-> Noted(i, "folded")]
      ELSE [jobs |-> Append([i \in DOMAIN js |-> [js[i] EXCEPT !.sealed = @ \/ i \in open]], job),
            accepted |-> Noted(Len(js) + 1, "created")]

-----------------------------------------------------------------------------

\* route: a type registered again has the new function.
LatestOf(fns, type) == CHOOSE i \in DOMAIN fns :
                      /\ typeName(fns[i]) = type
                      /\ \A j \in DOMAIN fns : typeName(fns[j]) = type => j <= i

Routes(fns) == [type \in {typeName(f) : f \in Range(fns)} |-> fns[LatestOf(fns, type)]]

\* buildHandler throws when two functions have one type.
CanBuild(fns) == \A i, j \in DOMAIN fns : i # j => typeName(fns[i]) # typeName(fns[j])

Init ==
  /\ jobs = <<>> /\ accepted = <<>>
  /\ \E p \in Programs : /\ p.built => CanBuild(p.fns)
                         /\ inputs = p.inputs
                         /\ routes = Routes(p.fns)
                         /\ fallback = p.fallback

Now == [jobs |-> jobs, accepted |-> accepted]

\* enqueueRaw and enqueueBulkRaw: one request, taken as a whole.
Send(next) ==
  /\ Len(next.accepted) <= MaxJobs
  /\ jobs' = next.jobs
  /\ accepted' = next.accepted
  /\ UNCHANGED <<inputs, routes, fallback>>

\* The inputs that are sent and that the server takes.
Sent == {input \in inputs : ~Throws(input) /\ ~Refused(input)}

\* enqueue(): the input is resolved, and sent unless that throws.
enqueue == \E input \in Sent : Send(Accept(Now, input))

\* enqueueBulk(): all are resolved before any is sent.
enqueueBulk == \E first, second \in Sent : Send(Accept(Accept(Now, first), second))

\* Mutant: the route is looked up by the function's own name.
RoutedByName(type) == {f \in Range(routes) : f.name = type}

\* The route of a type.
Routed(type) == {routes[t] : t \in {type} \cap DOMAIN routes}

Handled(job, name) == [job EXCEPT !.state = "done", !.by = name]

\* The handler build() returned is called with a job: its route, else the
\* fallback; without either it throws, and the job stays queued.
Dispatch ==
  /\ \E i \in Queued(jobs) :
       \/ \E f \in Routed(jobs[i].type) :
            jobs' = [jobs EXCEPT ![i] = Handled(jobs[i], f.name)]
       \/ /\ Routed(jobs[i].type) = {} /\ fallback
          /\ jobs' = [jobs EXCEPT ![i] = Handled(jobs[i], "fallback")]
  /\ UNCHANGED <<accepted, inputs, routes, fallback>>

Next == enqueue \/ enqueueBulk \/ Dispatch

Spec == Init /\ [][Next]_vars

-----------------------------------------------------------------------------
(* Properties. *)

\* Two payloads agree in what a policy selects: each selected path is missing
\* in both or holds the same in both; or all but the paths left out is the same.
Agree(v, w, policy) ==
  LET Outside(u) == {p \in DOMAIN u : \A s \in Range(policy.paths) : ~IsPrefix(s, p)}
  IN  CASE policy.mode = "only" -> \A s \in Range(policy.paths) : walk(v, s) = walk(w, s)
        [] policy.mode = "except" -> /\ Outside(v) = Outside(w)
                                     /\ \A p \in Outside(v) : v[p] = w[p]
        [] policy.mode = "all" -> v = w

\* Of the inputs whose transforms leave the unique key alone, one is taken for a
\* duplicate only of a job of its type whose payload agrees with its own in what
\* the unique key selects, and two that agree and have one policy never have two
\* jobs queued at once.  The types and payloads are those enqueued, of which the
\* keys are made: a transform may send others.
DuplicatesAgree ==
  \A i, j \in DOMAIN accepted :
    LET a == accepted[i]
        b == accepted[j]
        p == UniqueOf(a.input)
    IN  /\ i < j /\ p # Unset /\ p = UniqueOf(b.input)
        /\ Keeps(a.input, {"key"}) /\ Keeps(b.input, {"key"})
        =>
          /\ b.how = "duplicate" /\ a.job = b.job =>
               (p.prefix => TypeOf(a.input) = TypeOf(b.input)) /\ Agree(a.input.payload, b.input.payload, p)
          /\ /\ TypeOf(a.input) = TypeOf(b.input)
             /\ Agree(a.input.payload, b.input.payload, p)
             /\ {a.job, b.job} \subseteq Queued(jobs)
             => a.job = b.job

\* The inputs that made up a job.
Mine(now, i) ==
  {k \in DOMAIN now.accepted : now.accepted[k].job = i /\ now.accepted[k].how # "duplicate"}

\* No transform changed the payload, the batch key or the batch of an input a job
\* is made of.
KeepsBatch(now, i) ==
  \A k \in Mine(now, i) : Keeps(now.accepted[k].input, {"payload", "batchKey", "batch"})

\* A batch holds every element of the payloads sent to be folded into it, as often
\* as they came unless it keeps one of each; it is within its limit unless its
\* first payload alone was above it; the rest of its payload is that of all its
\* inputs, unless a transform changed a payload or a batch, whose key is of what
\* was there before; and two batches of one key are never open at once.
BatchesKeepAll ==
  \A i \in DOMAIN jobs :
    LET mine  == Mine(Now, i)
        batch == jobs[i].batch
        held  == Array(jobs[i].payload, batch.path)
        Came(k) == Array(resolveInput(accepted[k].input).payload, batch.path)
    IN  batch # Unset =>
          /\ \A k \in mine : Range(Came(k)) \subseteq Range(held)
          /\ KeepsBatch(Now, i) =>
               \A k \in mine : Agree(accepted[k].input.payload, jobs[i].payload, batch.policy)
          /\ batch.mode = "append" =>
               Len(held) = Cardinality(UNION {{<<k, e>> : e \in DOMAIN Came(k)} : k \in mine})
          /\ Cardinality(mine) > 1 => Len(held) <= batch.limit
          /\ \A j \in Queued(jobs) :
               /\ i \in Queued(jobs) /\ i # j /\ jobs[j].batch # Unset
               /\ jobs[j].batchKey = jobs[i].batchKey
               => jobs[i].sealed \/ jobs[j].sealed

\* No transform changed the type, or the batch key, of an input a job is made of.
KeepsType(now, i) ==
  \A k \in Mine(now, i) : Keeps(now.accepted[k].input, {"type", "batchKey"})

\* A job enqueued with a function that the worker has is run by that function,
\* whatever the function is called and whether or not there is a fallback; but a
\* transform may send any input of the job with another type, or with the batch
\* key of another.
ReachesItsFunction ==
  \A k \in DOMAIN accepted :
    LET fn == accepted[k].input.fn
        j  == jobs[accepted[k].job]
    IN  /\ fn # Unset /\ fn \in Range(routes) /\ accepted[k].how # "duplicate" /\ j.state = "done"
        /\ KeepsType(Now, accepted[k].job)
        => j.by = fn.name

-----------------------------------------------------------------------------
(* Inductive invariants, of the server's jobs and what was accepted. *)

IsJob(j) ==
  /\ j = [type |-> j.type, queue |-> j.queue, payload |-> j.payload, key |-> j.key,
          batchKey |-> j.batchKey, batch |-> j.batch, sealed |-> j.sealed, state |-> j.state, by |-> j.by]
  /\ j.sealed \in BOOLEAN /\ j.state \in {"queued", "done"}

Typed(now) ==
  /\ now.jobs \in Seq(Range(now.jobs)) /\ \A i \in DOMAIN now.jobs : IsJob(now.jobs[i])
  /\ now.accepted \in Seq(Range(now.accepted))
  /\ \A k \in DOMAIN now.accepted : /\ now.accepted[k].input \in Sent
                                   /\ now.accepted[k].job \in DOMAIN now.jobs
                                   /\ now.accepted[k].how \in {"created", "folded", "duplicate"}

\* A job has the keys sent with every input that was accepted for it, and the type
\* of those it is made of; no two that are queued have one unique key.
Keyed(now) ==
  /\ \A i \in DOMAIN now.jobs :
       /\ Mine(now, i) # {}
       /\ \A k \in Mine(now, i) : now.jobs[i].batchKey = resolveInput(now.accepted[k].input).batchKey
       /\ KeepsType(now, i) => \A k \in Mine(now, i) : now.jobs[i].type = TypeOf(now.accepted[k].input)
       /\ now.jobs[i].batchKey # {} => now.jobs[i].key = {}
  /\ \A k \in DOMAIN now.accepted :
       LET a == now.accepted[k] IN now.jobs[a.job].key = resolveInput(a.input).key
  /\ \A i, j \in Queued(now.jobs) :
       i # j /\ now.jobs[i].key # {} => now.jobs[i].key # now.jobs[j].key

\* A value has n elements at a path, and no holes.
Holds(v, s, n) ==
  /\ n \in 0..Len(Index)
  /\ \A i \in DOMAIN Index : Append(s, Index[i]) \in DOMAIN v <=> i <= n

\* What is at the target of a batch is a list without holes, and the batch is
\* that of one of its inputs.
Listed(now) ==
  \A i \in DOMAIN now.jobs :
    LET job == now.jobs[i]
    IN  /\ job.batch = Unset <=> job.batchKey = {}
        /\ job.batch # Unset =>
             /\ \E k \in Mine(now, i) : resolveInput(now.accepted[k].input).batch = job.batch
             /\ \E n \in 0..Len(Index) : Holds(job.payload, job.batch.path, n)

TypeInv == Typed(Now) /\ \A input \in inputs : Written(input)
KeysInv == Keyed(Now)
ListInv == Listed(Now)

\* A job that was handled was handled by the route of its type, if there is one.
RouteInv ==
  /\ \A type \in DOMAIN routes : typeName(routes[type]) = type
  /\ \A i \in DOMAIN jobs : jobs[i].state = "done" /\ jobs[i].type \in DOMAIN routes
                          => jobs[i].by = routes[jobs[i].type].name

=============================================================================
