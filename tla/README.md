# Zizq Node client: TLA+ models and proofs

This directory models the Zizq client library for Node.js (`src/`) and the two
applications shipped with it (`examples/`): what the worker, the queries, the
endpoints and the helpers do, checked with TLC on small instances; the safety
properties, and both refinements, are also proved with TLAPS for every instance. Paths below are relative to
the repository; `worker.ts` stands for `src/worker.ts`, and so on.

## The system

The library talks to a Zizq job queue server over HTTP. Its parts:

| Part | State it keeps | Operations | Correct when |
|---|---|---|---|
| `Worker` (`worker.ts`) | abort and stream controllers, in-flight set, ack buffer, flush flag and promise, shutdown promise, kill flag | `run`, `stop`, `kill`; internally `processJob`, `scheduleAck`, `flushAcks`, `withRetry`, `startShutdown` | never above the concurrency limit; every finished job acked once; a stop drains before the stream is dropped and before `run()` returns; a kill returns at once |
| worker and server together | leases, open stream, unanswered requests | hand out, ack, nack, requeue | a job is handled at least once, closed once, and none is stuck |
| `Client`, take stream (`client.ts` 1519-1611) | the byte buffer of one stream | `take`, NDJSON and MessagePack iteration | each job of the stream is yielded once, in order, and at once, whatever the chunking |
| `Client`, endpoints and errors (`client.ts`) | none | enqueue, update, delete, bindings, budgets, crons; status to error class | a request changes what its caller means and nothing else; what is returned or thrown tells whether it was applied |
| `JobQuery`, `ErrorQuery`, `JobPage` (`query.ts`, `resources.ts`) | an immutable filter; an iteration's page | filters, paging, `updateAll`, `deleteAll`, `count` | limits are exact; filters combine by conjunction; changes between pages are survived |
| enqueue resolution, unique keys, batches (`enqueue.ts`, `payload-hasher.ts`, `unique-key.ts`, `batch-config.ts`) | none | defaults, overrides, path selection, keys | equal selected payloads, and only those, share a key; batches lose nothing |
| `Router`, `buildHandler` (`router.ts`, `handler.ts`) | registered routes | `route`, `fallback`, `build` | a job reaches the function it was enqueued with |
| cron handles (`cron.ts`) | none | define, pause, resume, replace a group | a group is what was declared |
| `TestClient` (`test-client.ts`) | the buffered entries and their status | enqueue, accessors, `dispatch`, `clear` | a job runs at most once; statuses tell what happened to it |
| uptime monitor (`examples/uptime_monitor`) | tables `monitored_urls` and `checks` | form, cron sweep, check, sitemap discovery, webhook | owners are told the status; failures are counted right; a sitemap's children are what it lists |
| audit log (`examples/audit_log`) | table `audit_events` | store, page through the feed | an acknowledged event is stored as sent; paging skips and repeats nothing |

How they meet: the worker opens one take stream through the client and reads
jobs from it; the handler, often built by `Router`, runs each job; successes are
collected and acked in bulk, failures are reported one by one; the server
requeues what a stream had leased when that stream closes. `TestClient` replaces
the client in tests and runs handlers from its own buffer. Queries and handles
are thin layers over the client's endpoints. The monitor's handlers enqueue further
jobs, and its events are jobs of the audit log.

What is hard: everything in the worker runs as interleaved continuations of one
JavaScript thread, so a field read before an `await` may have changed after it.
`stop()` and `kill()` may come at any point of the take loop, of a drain or of a
flush. Requests fail, are retried for ever, or are refused; one whose answer is
lost may have been applied. The same worker can be run again while tasks, flushers
and shutdown coroutines of an earlier run are still alive. Other clients change the
server between two pages of a query. The handlers of the examples run at least
once, side by side, in several processes on one database.

## Modules

| Module | Contents |
|---|---|
| `Worker` | `worker.ts`: variables, one action per continuation, `Spec` |
| `WorkerProps` | its safety properties, inductive invariants, refinement mapping, fairness and liveness |
| `WorkerContract` | the abstract specification of one `run()` |
| `Delivery` | `Worker` composed with the external server |
| `AtLeastOnce` | the abstract life cycle of a job that the two implement |
| `TakeStream` | the parsers of the take stream |
| `Sorted` | a finite set listed in an order, as a database answers a query; used by the next and `AuditFeed` |
| `JobQuery` | the terminal calls of `query.ts` over `listJobs`, `countJobs`, `updateAllJobs`, `deleteAllJobs` |
| `JsonTree` | JSON values as functions from paths; used by `Enqueue`, `ServerTree`, `Endpoints` |
| `Enqueue` | `enqueue.ts`, `payload-hasher.ts`, `unique-key.ts`, `batch-config.ts`, `router.ts`, `handler.ts` and what the server makes of keys |
| `ServerTree`, `Endpoints` | the server as one JSON tree; the methods of `client.ts`, `cron.ts` and `resources.ts` that change it |
| `TestClient` | `test-client.ts`: the buffer and overlapping `dispatch()` calls |
| `Monitor`, `AuditFeed` | the two examples |
| `MC...` | TLC instances: constants and symmetry |
| `WorkerProofs` | the theorems about `Worker` and `Delivery` |
| `ClientProofs` | the theorems about `Endpoints` and `TakeStream` |
| `EnqueueProofs`, `TestClientProofs`, `JobQueryProofs`, `MonitorProofs`, `AuditFeedProofs` | the theorems about the module each is named after |
| `OrderLemmas` | lemmas about least elements, total orders, `SortedBy` and sequences that these share |

### Worker

JavaScript executes one continuation at a time, so an action is the code between
two suspension points. `MicrotaskReady` models the rule that promise reactions
run before the event loop picks anything else: server answers, timers and
immediates wait for it, while jobs already buffered, aborts, and calls the
program makes (`run`, `stop`, `kill`, a handler that ends) may come at any time.

| Variable | Code |
|---|---|
| `loop`, `raced` | where `run()` is suspended; the tasks given to `Promise.race` |
| `runs`, `killed` | number of `run()` calls; the runs whose `killDeferred` is resolved (`killing` is the current one's) |
| `aborted`, `streamAborted` | the signals of `abortController` and `streamController` |
| `inFlight`, `task` | `this.inFlight`; progress of each `processJob()` call |
| `sd`, `sdWaits`, `sdEpoch`, `sdFlush` | each run's shutdown coroutine: where it is, the tasks and the `killDeferred` it races, the `ackFlushPromise` it awaits |
| `pendingAcks`, `ackFlushInFlight`, `ackFlushPromise` | the fields of those names; a promise is named by the flusher that resolves it |
| `flush`, `batch` | progress and batch of each `flushAcks()` call |
| `succeeded`, `answered` | history: handlers that resolved, acks that were answered |

`Run` resets the fields and leaves tasks, flushers and coroutines of earlier runs
alive, as `resetRuntimeState()` does. `Receive` is one turn of the `for await`
body; `ReceiveAndStop` is the same when the handler calls `stop()` before its
first `await`, at which point its task is not in `inFlight` yet. (A handler that
calls `kill()` there is `Receive` followed by `Kill`.) `FlushLoop` is the part of
`flushAcks()` from the loop head to the next `await`; three actions end in it.
`AckAnswered` covers 204, 422 and a refusal, which `withRetry` logs and drops.

A task is a delivery: the same job delivered again is another element of
`Tasks`. Two `run()` calls on one instance at the same time are a misuse and are
left out; a second call after `run()` returned or threw is modelled, since
`resetRuntimeState()` exists for it. Retry delays, counters and log text are
abstracted. The server's leases are in `Delivery`.

### Delivery

`Delivery` extends `Worker`: every step of the worker is paired with what the
server does. `status` is the server's view of each job, `sent` the jobs written to
the stream that the worker has not read, `orphaned` the leases of a closed stream
that the server has not taken back yet, `of` the job of each delivery. `Becomes`
derives the rest: when a step closes the stream, its leases are orphaned and `sent`
is emptied. `HandOut`, `Deliver` (the turn of `for await` that dispatches) and
`Skip` (the one that does not, once `stop()` was called) read the stream. A request
is applied and answered (`Acked`, `NackApplied`), applied or not with its answer
lost (`AckLost`, `NackLost`), or refused (`AckRefused`). The server accepts acks and
nacks by job, whichever delivery they come from, so those of overlapping deliveries
cross. `excused` and `refused` are history.

`AtLeastOnce` knows neither streams nor leases: handlers of a job end, and the job
is closed once, done only after one of them resolved, dead only after one threw.

### TakeStream

`iterateNdjson()` and `iterateMsgpackStream()` as actions between two `yield`s:
`Chunk` appends what arrives, `Parse` takes out the first whole item, `Resume` goes on
when the consumer asks, `Leave` and `BodyEnds` finish. `wire` is what has not
arrived, `held` the half character inside the `TextDecoder`, `buffer` the code's,
`got` the jobs yielded. Characters of a line have two bytes, so that a chunk may end
inside one; a decoder that lost its state would garble them. A length prefix is four
bytes to base `Base` (256 in reality), and a payload is as long as four bytes can tell.
A chunk may be of any size. `Tails` (what is still to be sent), `Decoded` and `JobsAmong`
are recursive functions, so that they can be proved about.

### JobQuery

A query is a record of the fields of `JobQuery`; the builders (`byQueue`,
`addQueue`, `addJqFilter`, `limit` ...) are operators on it. A terminal call is a
small program over `pc`: `ListJobs` and `ListErrors` fetch the page of a link,
`NextPage` follows one, `IterateJobs` and `IterateErrors` yield, `UpdatePage` and
`DeletePage` send the bulk request of a page, `WholeBulk` the unbounded one, `Count` the
count. `left` is `remaining` in `pages()`, `rem` the one in the terminal method.
Between any two requests other clients enqueue, move and delete jobs. A jq text is
a sequence of `or` terms of `and`ed atoms, which is what the composition of filters
turns on; `means` keeps what the caller asked for. `asked` is the order a call started
with, which `last()` reverses. The server's pages are the first members of
`SortedBy(S, Ordering(order))` behind the link. Results a consumer maps or
filters further (`Lazy`) are the iteration itself.

### Enqueue

A JSON value is a function from its paths to atoms, so `pickPaths`, `setPath` and
`deletePath` are written on paths; deleting an array element moves the ones after
it, and picking one leaves a hole, as in the code. The key of a payload is what is
left of it and its prefix: the canonical text has one value for one text and
SHA-256 is taken to be injective. Resolution gives the request of `enqueue()` and
`enqueueBulk()`, in which one bad input makes the whole call throw. `jobs` is the
server, which keeps one queued job per unique key, folds batch inputs, and refuses a
request with an input that has both keys (`docs/src/batched-jobs.md` 384); `accepted`
records what became of each input; `routes` and `fallback` are those captured by
`build()`.

`Merged` are the options before the hook of the function, `Transform` (a constant) the hook:
it may change or replace all of them, type, queue, payload, keys and batch, and the keys
are not derived again, so they are those of what was given. `Keeps` says which options a
transform left alone; the exceptions in the properties are stated with it.

`ProgramsAssumption` says what a program can write: JSON payloads (`Json`, and no holes
in their arrays), policies as `payloadHasher()` makes them, and batches as `batchConfig()`
makes them, whose target holds a list of atoms or nothing yet. Of a transform it says only what
the types of `EnqueueOptions` say: the payload and the batch it gives are such ones too, and
a batch has a key. Arrays have at most `Len(Index)` elements, and so has a batch.

### Endpoints

`tree` is all the server holds: budgets, jobs with their bindings, crons. Every
method is one request (`PUT`, `PATCH`, `POST`, `DELETE` on a path, or a bulk one with a
filter); next to it the call records what its caller means (`means`: where, what is
given, whether the whole object is replaced), and the properties compare the two.
Requests are sent and answered in separate steps, interleaved with those of another
program. They may be lost, be applied with the connection cut before or within the
answer, or be answered by an intermediary; `handleResponse`, `throwOnError` and
`buildResponseError` decide what the caller sees. The reference for "means" is the
API documentation of the methods.

`AsMeant` has two halves. `ChangesOnly`: a request that is applied changes only what its
caller names, to the value given, or to nothing where the whole is replaced; a binding may
also make its budget, and a new cron group is not paused. `LeavesInPlace`: for requests
about one object (`Singular`; a bulk call passes over jobs in flight), all that is given is
there afterwards, and if the whole is replaced nothing else is.

The server's side is written without recursion: an array of bindings is read key by key
(`BindingTo`), and a bulk call binds all jobs of a selection that can be bound at once,
which is what it comes to when they are taken one after the other. Assumed of the
arguments (`ArgumentsAssumption`): they are trees, and no `paused` is null, which is a
Boolean in `types.ts`. Assumed of the server (`TreeAssumption`): it starts with budgets, jobs
and crons only, and each cron there says whether it is paused.

### TestClient

`dispatch()` suspends only at a handler, so it has two actions besides its start:
`HandlerReturns`, which calls the next handler or ends the turn and takes the next
snapshot in one continuation, and `HandlerThrows`. In between, handlers and the
program may `Enqueue`, `Clear`, let time pass (`Tick`) and call `dispatch()` again.

| Variable | Code |
|---|---|
| `entries`, `buffer` | every `Entry` made, in order; `this.entries` as places in it, since `clear()` does not stop a `dispatch()` that holds entries |
| `opts` | the options of each call: recursion, cap, and the filters as sets of kinds (`only`, `except`, and the predicate as the set it keeps) |
| `calls` | its locals: what is left of the snapshot, the snapshot's length, `total`, `iterations` |
| `now` | `Date.now()` |

`handled`, `by` and `known` are history.

### Monitor

Each job handler is cut at its `await`s, and `reconcile()` also at its statements,
since several worker processes share the database. `rows` and `checks` are the
tables, `jobs` the bag of jobs in the queue, `slots` what each worker slot or form
submission is doing, with the locals it holds across an `await` (the row read before
the probe, the URLs discovered, the enqueues still to send). A job whose handler
throws returns to the bag or, after its last attempt, is dead (`Thrown`; how many
attempts there are is the server's); one whose worker is killed always returns. The webhook
takes a notification (`PostEnds`), refuses it with a 4xx, which the handler gives up
(`PostRefused`), or fails, having taken it or not, which makes the handler throw
(`PostFails`). A `WEBHOOK_URL` is set. `emit()` enqueues into another
queue: it is an enqueue of nothing here, which can fail like the others. The cron
sweep (`CronFires`, `Schedule`) selects rows never checked and any of the others, as
there is no clock. Checks are asked for while more can be made (`MoreChecks`).

`undelivered`, `disturbed`, `miscounted`, `untold`, `scanned` and `torn` are history; they name the
exceptions in the properties, and each ends where the code sets things right again:
`untold` has a row from a check that compared with an outdated status or was cut off
after it was recorded to the row's next announced change, `miscounted` from a disturbed
failed check to the next successful one, `torn` a sitemap from a crossed or cut scan to the
next complete one on its own. `disturbed` has the slots whose check or scan was crossed,
`undelivered` the checks whose notification was refused or went dead.

### AuditFeed

`events` is the table, `job` where each `audit.create` job is, `payload` what its
producer wrote: an ISO text, seconds, milliseconds, or an event that lacks a field.
Instants are milliseconds, so a number of seconds may have a fraction; those before 1970 are
left out. `parseTime` guesses the unit of a number from its size: `Thousandths` is the number,
`Threshold` 10^12. Seconds with a fraction are a double, whose product with 1000 may fall
just short of the millisecond, and `Date` drops the rest: `Short` are the instants this
happens to. The table is sorted by the ISO texts (`TextBefore`), in which the years after
9999 come first; and from 2255 on a cursor's microseconds are beyond what a double holds
exactly, so that they may name another millisecond (`MillisOf`, `Precise`). The reader's pages
(`Page`, `Older`, `nextCursorFor`, `parseCursor`) are SQL queries with a cursor; rows
are stored in between. `seen` and `known` are history.

## Runs

Bounds are stated with the reason why the interesting cases fit in them. No run
checks deadlock except `testclient_dispatch`: the worker stops for good once it has
returned, a call once it has ended, and the others once their bounds are used up.

### Worker

All runs of `Worker` let the environment do everything the module allows; the
bounds are the number of deliveries, the limit and the number of runs. Three
deliveries against a limit of two reach the states with a full in-flight set, a
free slot, and one more job waiting; two runs are the least that lets an earlier
run's leftovers meet a later one; a flusher sending, an ack in the buffer and a
handler still running need three deliveries.

| Run | Instance | Shows |
|---|---|---|
| `worker_single` | 3 deliveries, limit 2, 1 run | types, `HandlersBounded`, `SingleFlush`, `NoAckLost`, `StreamHeldUntilDrained`; the run implements `WorkerContract` (`ImplementsContract`) |
| `worker_rerun` | 3 deliveries, limit 1, 2 runs, `stop()` in handlers | `ConcurrencyBound`, `NoStrandedAck`, `AckAtMostOnce` |
| `worker_live` | 2 deliveries, limit 2, 1 run, `HungSpec` | `stop()` ends `run()` if handlers end; `kill()` ends it though none ever does, except at the limit; acks are delivered; the limit frees up |

Fairness. `EventLoopFairness` is weak fairness of every continuation that is
ready and of timers, which Node guarantees. `NetworkFairness` is strong fairness of
an answer to a request that is sent again and again: the server is reachable in the
end. `HandlerFairness` says handlers end; it is an assumption about the program, so
it is not part of `HungSpec` but the antecedent of the two properties that need it.
`OutageSpec` replaces `NetworkFairness` by `RequestsEnd`: each request gets an answer or
an error, and it may always be the error. Nothing is assumed of the take stream but
that it fails once aborted. With limit 2 and two deliveries both a hung handler
below the limit and two that fill it occur.

### Worker and server

| Run | Instance | Shows |
|---|---|---|
| `delivery` | 2 jobs, 4 deliveries, limit 2, prefetch 1, 2 faults | `ImplementsLifeCycle`: the refinement of `AtLeastOnce`; `HandledNotRequeued`: a handled job runs again only after a broken stream, a kill, a refused ack or a failed delivery; `EveryJobSettled`: jobs end done or dead, or in the queue of a worker that returned |
| `take_stream` | up to 4 jobs and heartbeats, jobs of 1 and 5 characters, base 2 | `InOrder`, `NothingHeldBack`, for every stream, format, chunking and length cut off |

`delivery`: a fault is a handler that throws, a broken stream, a lost answer or a
refused request, and each returns at most one job as at most one is leased; so four
deliveries are all that can occur and no behaviour is cut short by their number. Two
faults let a job be requeued while the handler of its first delivery still runs and
the ack of either be lost, repeated or refused. Two jobs and prefetch 1 make a
refused ack starve the other. Weak fairness of `Progress` says that something that
can go on does: as faults are bounded, every behaviour ends where nothing can. The
exception `refused` in `EveryJobSettled` is what the code does: such a job stays leased
while the stream is open.

`take_stream`: base 2 with lengths 1 and 5 has prefixes with one and two set bytes,
in places where a wrong byte order or a prefix read too early shows; base 256 would
need payloads of 256 bytes for the same. Four items give two chunks with an item
across their border and whole items on either side.

### Queries, enqueueing, endpoints

| Run | Instance | Shows |
|---|---|---|
| `job_query` | 4 jobs, 2 queues, pages of at most 2, 2 changes by others, 3 errors; 25 calls | types, `WithinLimit`, `InOrderOnce`, `NoneMissed`, `OnlyMatching`, `Ends` |
| `query_jq` | the same, one call | violated: `OnlyMatching` (finding 1) |
| `enqueue_keys` | 4 accepted inputs, arrays up to 4 elements | `DuplicatesAgree`, `BatchesKeepAll`, `ReachesItsFunction` |
| `endpoints` | 2 programs, 2 calls, 3 jobs (4 ids), 2 budgets, 1 cron | `AsMeant`, `OutcomeTold` |

`job_query`: three jobs at the start and one more give two pages and a job that
appears behind or before the cursor; two changes are a job leaving and another
entering between pages. The calls are those of `MCJobQuery`: each terminal method with
each kind of filter, with a limit below, at and across a page, `limit(0)`, an empty
list and both orders. `Ends` needs only weak fairness of the call itself; the others
are bounded by `MaxChanges`.

`enqueue_keys`: four inputs are two of one key, one that differs and one that
overfills a batch, in every order; each policy selects a key, an element, an
object, or leaves out one of them; one program gives the inputs of a batch different
limits and modes, of which the first enqueued counts. The functions each bear the name of
the other's type. Five programs have a transform each that changes the type, the payload,
the unique key, the batch with its key, or takes the queue away, next to inputs it leaves
alone.

`endpoints`: two calls are the least that interleave; every pair of methods of one
group meets, on the same and on different objects. Policies, patches and entries
have a field of each kind: given, undefined, null.

### TestClient

Two calls, three entries of two kinds, two instants. Three entries let a call hold
one being handled and one waiting while another call takes a third or a handler
adds it, and let a capped call (two turns) either stop or leave work behind. Each
call is a plain one, a recursive one of one kind with a cap of two, or a recursive
one with an exclusion or a predicate and no cap within reach.

| Run | Instance | Shows |
|---|---|---|
| `testclient_dispatch` | 3 entries | types, `HandledOnce`, `CountsHandled`, `SnapshotOnly`, `InFlightOwned`, `RecursiveDrains` |

### Examples

| Run | Instance | Shows |
|---|---|---|
| `monitor` | 2 worker slots, a form, a site and a page it may list, an invalid address, 3 checks, 2 queued jobs, 1 fault, batches of 1 | `StatusTold`, `FailureCount`, `ChildrenFollow` |
| `audit_feed` | 3 jobs, instants 19, 20, 25, 199, pages of 2, one job handed out again | `FeedSteady`, `StoredAsSent` |

`monitor`: three checks are up, down, up again, so a notification of each kind, two
of them out of order; or a disturbed check and the one that sets the row right. Two slots
are two processes. One fault is an enqueue that fails (applied or not), a kill between any
two steps, a refused address, a webhook that fails; a job that failed may be retried or
dead. A 4xx of the webhook is no fault and may come each time. What the properties except
and for how long is said at `untold`, `miscounted` and `torn` above; for good are only the
notifications that were refused or went dead, and even then the next change is told.

`audit_feed`: four rows of four instants give full pages, a last page exactly full
and rows of one instant on both sides of a page border. Scale 10 and threshold 20
stand for 1000 and 10^12. As milliseconds, 19 lies below the threshold and is misread, 20
is on it; as seconds 199 is 19.9, just below it; 25 is 2.5 seconds and falls short. 199 is
also the first instant a cursor does not carry, which `FeedSteady` excepts.

## Findings

1. `addJqFilter()` after `byJqFilter("a or b")` yields `a or b and (c)`, which jq reads as
   `a or (b and c)`: a `deleteAll()` deletes jobs that do not satisfy `c`, although the doc
   says the filters are combined via `and` (`query.ts` 347; run `query_jq`).

### Disagreements without a run of their own

The first seven break a sentence of the documentation; each can be seen by giving
TLC the property and instance named.

| What happens | Where | How to see it |
|---|---|---|
| `kill()` cannot end `run()` while handlers that never end fill the limit: `Promise.race(this.inFlight)` is not raced against it; the doc says "`run` returns shortly after" | `worker.ts` 341, 456-458 | `MCWorker`, `HungSpec`, limit 1, `KillReturns` without its exception |
| `kill()` cannot end a `stop()` that is flushing acks to an unreachable server | `worker.ts` 418, 456-458 | `OutageSpec`, 1 delivery, limit 2, `KillReturns` |
| acks of handlers that end after `kill()` are sent; the doc says they "will not be flushed" | `worker.ts` 487, 453-454 | `Spec`, 1 run, `KilledAcksUnsent` |
| a handler that calls `stop()` before its first `await` is not drained | `worker.ts` 337, 278-279 | `StopInHandler = TRUE`, limit 1, `StopDrains` |
| after `run()` threw on a 4xx answer, a second `run()` loses the acks that wait in the buffer; two bulk acks may be sent side by side, against the comment at 248-249, and more handlers than the limit run | `worker.ts` 385 | `MaxRuns = 2`: `NoAckLost`, `SingleFlush`, `HandlersBounded` |
| a throwing handler leaves the rest of the snapshot `in_flight` after `dispatch()` ended, out of reach of any later call | `test-client.ts` 266, `docs/src/testing.md` 62 | `testclient_dispatch` with `InFlightMeansDispatching` |
| `maxIterations: N` fails a drain that takes exactly N turns | `test-client.ts` 273 | `testclient_dispatch` with `CapMeansMore` |

Other observations, from reading and from counterexamples met on the way:

- The batch key hashes a payload without its target, but not the target itself: two
  inputs of one type that fold at `.a` and at `.b` and agree in the rest share a key. The
  second goes into the batch of the first, whose fold knows only `.a`, and its elements
  are lost. `BatchesKeepAll` fails with such a program (`batch-config.ts` 83-86).
- `except: ['.[0]', '.[1]']` deletes elements 0 and 2, so payloads that differ in
  element 2 get one key and those that differ in element 1 two; `DuplicatesAgree`
  fails with such a policy. `only: ['.[1]']` leaves a hole, and the enqueue throws
  for payloads that have the element.
- `resolveInput()` ignores `ZizqOptions.retention`. `cronEntryFromApi()` drops the batch and
  the budgets of a template, so an entry read, changed and written back loses them.
- `handleResponse()` parses the body before it looks at the status: an error page that
  is not JSON becomes a `SyntaxError`, which the worker retries for ever.
- A `ConnectionError` is documented as "always safe to retry", but the request may have
  been applied: a repeated `enqueue()` makes a second job.
- The bulk budget endpoints do not reject unknown filter keys as the others do.
- A bulk ack that is refused leaves its jobs leased; with as many as `prefetch` the
  worker receives nothing until its stream breaks.
- Monitor: overlapping checks of a row lose or repeat a notification and miscount
  failures; an enqueue that fails after `recordCheck()` loses the notification, as the
  retry finds nothing changed; two processes that reconcile one sitemap at once can
  enable the children of neither list; a sitemap that lists itself makes check and
  discovery follow each other without a pause; an invalid address in a sitemap makes
  its job fail until it is dead; the webhook body joins the status of a check with the
  present failure count; a form whose enqueue fails leaves a row without its event.
- A notification the webhook refuses with a 4xx is given up and its job acknowledged; one
  that fails until its last attempt is dead. Nobody is told of that change
  (`notify-webhook.ts` 77-83).
- Audit log: milliseconds below 10^12 (before September 2001) are read as seconds, which
  dates them far ahead, those from 1978 on beyond the year 9999, where their texts sort
  before all others; seconds with a fraction may be stored a millisecond early; from 2255
  on a cursor may skip or repeat rows; a job handled twice is stored twice.
- A transform runs after the keys were derived and may change what they were derived from:
  with another type the job goes to another function, while its keys still hold the old
  type; with another payload or batch, inputs that differ share a batch, whose first input
  decides how they fold, or are taken for duplicates (`enqueue.ts` 145-148).

## Proofs

Every theorem is about all values of the constants: any sets of deliveries, jobs,
clients, workers and addresses, any limit, page size and bound. The assumptions are
the named ones of the modules. Each proof rests on an inductive invariant that is
defined in the component's module, in `WorkerProps`, or beside its proof; each was checked
with TLC on the run's instance before it was proved. "Step" lemmas have one step per
action.

### Worker (`WorkerProofs`)

For any number of runs, with or without `stop()` in handlers:

- `TypeCorrect`: `TypeOK`. Flags and the rest are proved apart.
- `AcksAreNeverStranded`: `NoStrandedAck` is inductive as it stands. The flag goes
  down only where the buffer was found empty, and a buffered ack starts a flusher
  whenever the flag is down; `Run` empties both.
- `ConcurrencyIsBounded`: `LimitInv` adds to `ConcurrencyBound` that the in-flight set is
  below the limit whenever the loop is not in the race, and that in the race it is a
  subset of the raced tasks, which are at most the limit. A task that ends the race is
  gone, so the loop reads on below the limit.
- `AcksAreSentOnce`: `AckInv` adds to `AckAtMostOnce` that only tasks whose handler
  ended have an ack, so a new ack is nowhere yet.

For single runs (`MaxRuns <= 1`), as these properties fail when `run()` is called again
on an instance that threw (see the findings):

- `HandlersAreBounded` (`HandlersBounded`): `TrackedInv` says that what is being processed
  is exactly what is tracked; the bound on the tracked set does the rest.
- `AcksAreKept` (`NoAckLost`): `KeptInv` says that the ack of a handler that resolved is in
  the buffer, in a batch or answered; `BatchInv` that a flusher holds a batch only while
  it sends it or waits to, so none that ends or starts again drops one.
- With the hypothesis `~StopInHandler`: `FlushesAreSingle` (`SingleFlush`), `StreamIsHeld`
  (`StreamHeldUntilDrained`), `StoppedRunsAreDrained` (`StopDrains`, which no run checks by
  itself) and `RunKeepsContract`: `Spec => ImplementsContract`. `ShutdownInv` and `FlushInv`
  say what the shutdown coroutine relies on: nothing is dispatched once it began and
  the promise it awaits stays the latest one, so its own flush starts when no other
  can. The refinement maps each step to one of `WorkerContract` or a stutter. A handler
  that calls `stop()` before its first `await` breaks `StopDrains`, also in the code.

### Worker and server (`WorkerProofs`)

- `WorkerAndServerKeepLifeCycle`: `DeliverySpec => ImplementsLifeCycle`, over any number of
  runs. Acks and nacks under way come from handlers that ended (`ResolvedInv`), whichever
  delivery they belong to; the server closes a job once whoever asks.
- `HandledJobsStay` (`HandledNotRequeued`), for single runs without `stop()` in handlers, as
  a second run takes over neither leases nor acks. `HeldInv`: a job whose delivery
  began is closed, excused, or leased on the open stream with its ack still to come,
  and the stream is held until that ack is answered.

### TestClient (`TestClientProofs`)

`TypeCorrect`; `EntriesAreHandledOnce` (`HandledOnce`) and `InFlightIsOwned`
(`InFlightOwned`) from `SharedInv`: calls under way hold disjoint sets of entries, those
of a set are in flight and none was handled before its turn. `CallsCountWhatTheyHandled`
(`CountsHandled`) and `SnapshotsAreFixed` (`SnapshotOnly`) from `CountInv`: what a call
completed and what is left of its snapshot make up its total. `RecursiveCallsDrain`
proves the action property `RecursiveDrains`.

### JobQuery (`JobQueryProofs`)

`CallsAreTyped`; `IterationsAreInOrder` (`InOrderOnce`) from `OrderInv`: what was yielded, the
page in hand and what is behind the link follow each other; `LimitsHold` (`WithinLimit`)
from `LimitInv`. `BulkCallsChangeOnlyMatching` proves the action property `OnlyMatching`, and
`NothingIsMissed` the invariant `NoneMissed`, from `CountInv` (the two counters of a limit
agree), `BulkInv` (pages of a bulk call do not overlap), `KeptInv` (what matched and was not
changed by others matches until the call changes it) and `SteadyInv` (such a job is
reached, in the page in hand, or behind the link).

The last two have the hypothesis that the jq text of every call says what its caller
means (`Agrees`), since otherwise they are false (finding 1). Two lemmas tell when it is
met: after `byJqFilter()` always (`SetFiltersAgree`), after `addJqFilter()` if the text it
adds to has no `or` (`AddedFiltersAgree`). The orders are proved total and the pages
of `SortedBy` ascending in `OrderLemmas`, by induction on the naturals through least
counterexamples.

### Enqueue (`EnqueueProofs`)

For any payloads, paths, functions and programs, and any number of inputs:

- `JobsAreTyped`: `TypeInv`.
- `JobsReachTheirFunction` (`ReachesItsFunction`), from `KeysInv` and `RouteInv`: a job has the type
  of every input it is made of, also when inputs are folded, since the batch key holds
  the type; the last function registered for a type is the route of it. The property
  excepts jobs with an input whose transform changed the type or the batch key
  (`KeepsType`), which in the code too may reach another function.
- `DuplicatesAreRight` (`DuplicatesAgree`), from `KeysInv` (a job has the unique key of every
  input accepted for it; no two queued jobs have one) and `HashAgree`: two payloads have
  one hashable part exactly when they agree in what the policy selects. For `only` this
  follows the loop of `pickPaths()`: what is picked after n paths is what is at or above
  one of them (`PickLoop`). For `except` it follows the deletions: a splice is one-to-one on
  what is left (`SpliceAgree`). The hypothesis is `Steady`: among the paths left out just
  the last may end in an array index, since a splice moves what the next path names
  (see the findings). The property excepts inputs whose transform changed the unique key.
- `BatchesAreKept` (`BatchesKeepAll`), from `ListInv` (what is at the target is a list without
  holes, within `Index`) and `BatchInv`: a job's list has every element of its inputs, and
  as many as they have together unless it keeps one of each; its payload agrees with
  each in the rest; of one batch key one queued job is open. `FoldIs` says what a fold
  makes of two lists. That the rest of the payload is that of the inputs is said of jobs none
  of whose inputs had its payload or its batch changed by a transform (`KeepsBatch`). The hypothesis is `OnePath`: inputs sent with one batch key
  are folded at one place, as the key does not tell (see the findings).

Both hypotheses hold of the programs of `enqueue_keys`. The loops are recursive functions;
what they compute is proved by a least counterexample over the naturals (`LeastExists`).

### Endpoints (`ClientProofs`)

`OutcomesAreTold` (`OutcomeTold`), for any tree, programs, methods and values, from
`CallsKnown`: a request not yet taken was not applied, an answer below 300 means it was.

`CallsDoWhatTheyMean` (`AsMeant`), for the same, from `Intended`, which is defined with the
proof: the tree is one the server may hold (`TreeOk`), and every request on its way asks
for what its caller means (`Asked`), with no word about the tree it was sent at, as other
programs change it until it is applied. The argument has two halves that meet in `Asked`:

- `MethodsAsk`: each of the 27 methods translates its arguments into a request that asks
  for what is meant: an undefined field is left out and a null one kept (`DocSets`), an
  array of bindings becomes one element for each key with its cost (`BudgetsAre`), no
  bindings become `[]` where the whole set is replaced and nothing at all where a job is
  enqueued (`BudgetsBodyGives`, `EnqueueAsks`), the entries of a schedule come under their names
  (`ScheduleIs`), and `pause()` names one field (`PausedIs`).
- `ServeRight`: whatever tree a request finds, what it makes of it when it succeeds is
  `Right`, one lemma for each kind of request (`DocumentRight`, `BindingRight`, `BulkRight`,
  `WholeRight`, `ClearRight`, `CreateRight`, `SuccessRight`, `ResetRight`).

`TreeOk` is what keeps it inductive: an amendment may not leave a cron that does not say
whether it is paused, since the next request that makes or replaces any cron would set it
(`Completed`), in a cron its caller did not name.

### TakeStream (`ClientProofs`)

For streams of any length, payloads of any size that a length prefix can tell (the
assumption of the module), bodies cut into any chunks and ended anywhere, in either
format: `JobsComeInOrder` (`InOrder`) and `NoJobIsHeldBack` (`NothingHeldBack`), from
`StreamInv`, which is defined with the proof. It says that what has arrived and was not
parsed is the beginning `y` of the last k items; that the jobs before those, and no
others, were yielded; that the buffer has the bytes or the whole characters of `y`, and
the decoder the half character at its end; and that while the generator waits the next item
is not complete in `y`.

- `DecodesAll`: to decode what arrives chunk by chunk gives what decoding it at once
  would, wherever a chunk cuts a character. It holds since a half is kept and put before
  the next chunk.
- `LengthsRead`: the four bytes of a length, read most significant first, give it back.
- `ReadsTheNext`: a step of either parser finds nothing as long as the next item is
  incomplete, and takes exactly that item once it is; of a line, because no character of a
  payload is the newline. What it takes of a job is one payload (`ParseStep`), so the parse
  never throws.

That the recursive functions exist and what they compute is proved, as in `Enqueue`,
through the least number for which it would fail.

### Monitor (`MonitorProofs`)

For any addresses, sitemap bodies, numbers of workers and forms, batch size and bounds;
the assumption is that worker slots and forms are not the same things and that no
address is the word that marks a form's rows. `TypeInv` says what a slot holds at each
step.

- `FailuresAreCounted` (`FailureCount`), from `CheckInv`: a check under way still has the
  row as it is, unless another of the row ended meanwhile, which puts it into `disturbed`.
  A good check resets the count and ends the exception.
- `ChildrenAreFollowed` (`ChildrenFollow`), from `ScanInv`: a scan that none has crossed is the
  only one of its sitemap, has a row for each address it is done with, and once it has
  enabled them they stay so. That it is the only one is what makes the invariant inductive:
  a scan that begins beside another puts both into `disturbed`, so no undisturbed scan has
  another's updates to fear (`CrossedScan`), and one that ends early leaves its sitemap
  `torn` (`UrlQuit`).
- `OwnersAreTold` (`StatusTold`), from `NoticeInv`: notifications are of checks that were
  made, with their status, and only the check itself enqueues its own; and `NewsInv`:
  the last check of a row that was announced (its notification received, refused or dead,
  queued, being posted, or still to be enqueued) has the row's status, and a row that is
  down has one. Each step but the end of a probe hands every notification on, a refusal and
  a death to `undelivered`, and only an early end of the check itself may drop one, which
  makes its row `untold` (`OtherNews`); a probe that announces a change makes the new check
  the last one, whatever was wrong before (`ProbeNews`).

### AuditFeed (`AuditFeedProofs`)

`EventsAreStoredAsSent` (`StoredAsSent`) from `StoredInv`: a job that may be handled again has
one row less, and a row holds what `parseTime` makes of the payload, which is the producer's
instant under the conditions of the property (`ParsedAsWritten`). `FeedIsSteady`
(`FeedSteady`) from `FeedInv`: the cursor is the row the last page ended with, and what was
stored when the reader began and is not shown lies behind it, in the order of the texts;
for rows dated before 2255 that is the order of the instants (`NearTexts`) and the cursor
comes back as it was (`CursorStandsForRow`). Of `Date` it is assumed just that below `Precise` it
gives back the instant a cursor was made of.

### Only model-checked

- Liveness (`StopReturns`, `KillReturns`, `AcksDelivered`, `SlotFreed`, `EveryJobSettled`, `Ends`): the
  prover does not handle fairness.

Every invariant, action property and refinement of the passing runs is stated by a theorem.

## Not modelled

- Types and exports have no behaviour.
- Tests, the benchmark, the integration script and CI use the library and keep no state.
- Of the examples: migrations, the start and stop of the processes, views.
- Methods that only read one resource (`getJob`, `listBudgets`, `getCronGroup`, `queues`,
  `health`), the parser of path texts, and options that are only copied.
- Connection pools, TLS, HTTP/2 and timeouts, which belong to undici.
- Time: delays, rates and backoff curves. A stream the server closes at once is taken
  again at once; that this may be too often is beyond these models.
- The server is external: it is modelled only from how the client uses it and what
  the client's documentation says of it.
