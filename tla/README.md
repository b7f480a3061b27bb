# A TLA+ verification of the workflow engine

This directory holds TLA+ modules that model the distributed core of the
workflow engine, TLC configurations that model-check them on small instances,
and TLAPS proofs of the most important properties for every instance.
Paths below are relative to the repository (`src/src/...` here is the
repository's own `src/` directory, `src/docs/...` its `docs/`).

## 1. The system

A user submits a workflow, a DAG of tasks. Starting it creates a *run* (a
`WorkflowExecution` and one `Task` document per task) in MongoDB. MongoDB is the
truth; a Redis queue only tells worker processes which task id to look at next.
Workers claim a task under a lease, run its handler and report. Every change of
state is written together with an event to an outbox collection, which a relay
publishes to Kafka and a consumer turns into statistics. A cron scheduler starts
runs by itself. LLM handlers call a chain of providers guarded by circuit
breakers, and search documents that users have uploaded. Every request to the
API passes a rate limiter and carries a token.

| Component | State | Operations | Interacts with | What is hard | Correct when |
|---|---|---|---|---|---|
| Engine (`workflow/engine.js`, `repositories/task.repository.js`, `workflow/states.js`) | run status and `pendingTasks`; per task status, `remainingDeps`, `attempt`/`leaseToken`, lease; attempt records; approval requests; outbox | start, dispatch, claim, renew, complete, fail, retry, suspend, decide, pause, resume, cancel, reconcile | MongoDB transactions; the queue | snapshot isolation, late and duplicate reports, takeovers, fail-fast against retries, pause against completion | counters exact, dependencies respected, outcome and history truthful, never stuck |
| Task queue (`queues/taskQueue.js`) | `ready` list, `leases` and `delayed` sorted sets, `members` set | seven Lua scripts | Redis clock and persistence | an id moved by several callers; deduplication against retries | every id in exactly one place |
| Worker loop (`workers/*.js`), reconciler, API process | what each process holds in memory between two calls | pop, start, run, renew, report, schedule retry, ack; sweeps; control requests | engine and queue, written by separate calls | a crash between any two calls, Redis down or emptied, stalls past a lease | no waiting task forgotten, every run ends |
| Attempt of a task (`workers/runTask.js`, `handlers/*.js`, `ai/structured.js`, `ai/agent/*.js`, `ai/classifier.js`) | the handler's local variables: repairs, iterations, usage, the last tool call; the task's AbortSignal | run, repair, call a tool, answer, time out | providers, tools, the worker's lease | a handler goes on after its attempt was reported; which error may be retried | fails for good only when it should, accounts for all it used, stops when told |
| Worker process and registry (`worker.js`, `workers/registry.js`, `queueWorker.js` start and stop) | a `Worker` document, a Redis key with a TTL | register, beat, deregister, list, shut down | MongoDB and Redis, each of which may be away | death at any step; a restarted container has its predecessor's id | the list comes to tell the truth |
| Leader lock (`queues/lock.js`) | key with expiry, fence counter | acquire (two commands), extend, release | used by relay and scheduler | expiry while the holder works; stop during a tick | one leader while nothing fails; a second one does no harm |
| Outbox relay (`events/relay.js`, `events/kafka.js`), analytics consumer (`consumers/analytics.js`, `events/analyticsProcessor.js`) | outbox rows, topic, offsets, processed markers, counts | read batch, publish, mark; deliver, process, commit | MongoDB, Kafka, the lock | crash between publish and mark, two relays, redelivery, rebalance, a start without Kafka | nothing lost, everything counted, and once while its marker lives |
| Scheduler (`scheduler/*.js`, schedules in `services/workflow.service.js`) | `schedule` of each workflow, unique idempotency keys | set, clear, find due, start, advance | the engine's start, the lock | crash between start and advance; user edits meanwhile, stored late; two leaders; clocks that differ | one run per slot, no slot silently skipped |
| Provider fallback (`ai/providers/fallback.js`, `circuitBreaker.js`) | one breaker per provider, in memory | chat, embed | concurrent handlers of one process | answers to old requests while the circuit changes; callers that give up | a recovered provider gets its traffic back |
| Rate limiter (`middleware/rateLimit.js`) | per bucket a Redis sorted set of times, its expiry | the Lua script; fail open or closed | every route of the API | bursts across window borders, expiry of the key, Redis down | never more than `limit` in any window, exact Retry-After |
| Accounts (`services/auth.service.js`, `auth/*.js`, `middleware/authenticate.js`) | users with role and `tokenVersion`; tokens are stateless | register, login, refresh, logout, change role | MongoDB | revocation between the read of a user and the signing of tokens; roles changed by stale tokens | what was revoked stays revoked; an admin remains (it does not: finding) |
| Definitions (`services/workflow.service.js`, `services/execution.service.js`) | the workflow and its `version`; runs with idempotency keys | get, update, run | the engine's start | edits of two tabs; a request repeated because its answer was lost | no lost update, one run per key |
| Knowledge base (`ai/rag/pipeline.js`) | documents, chunks in MongoDB, vectors in Qdrant | ingest, delete, each a sequence of calls | MongoDB, embeddings, Qdrant | a call fails or the process dies in the middle; deletion during an ingest | the status of a document is true, a deletion complete |
| DAG validation (`workflow/dag.js`) | none (an algorithm) | validateDag | the workflow API | duplicate edges, cycles behind tails | accepts exactly DAGs, names real cycles |

`PROJECT.json` lists every component, the ones that are not modelled too, the
hazards with the lines where they bite, and the map from definitions to lines.

## 2. Modules

| Module | Models | Notes |
|---|---|---|
| `WorkflowStates` | `workflow/states.js` | the two transition tables |
| `Engine` | `workflow/engine.js` on MongoDB, one run | one action per transaction or single update |
| `DagRun` | what a run promises its user | abstract; `Engine` refines it |
| `TaskQueue` | `queues/taskQueue.js` | one action per Lua script |
| `WorkflowSystem` | worker loops, API process, reconciler | EXTENDS `Engine`, instantiates `TaskQueue`; refines both |
| `LeaderLock` | `queues/lock.js`, and the election half of `tick()`/`stop()` | extended by the next two |
| `EventPipeline` | relay, Kafka, analytics consumer | |
| `Scheduler` | `scheduler.js`, `setSchedule`, `clearSchedule` | |
| `ProviderFallback` | `fallback.js` with `circuitBreaker.js` | |
| `AiTask` | `runTask.js`, the handlers, `structured.js`, `agent.js`, `classifier.js`, `rag.answer` | one attempt; one action per await |
| `WorkerProcess` | `worker.js`, `registry.js` | processes that share a workerId, one after another |
| `Dag` | `dag.js` | one action per wave of Kahn's algorithm and per edge the search looks at |
| `RateLimiter` | `rateLimit.js` | the Lua script is one action |
| `Accounts` | `auth.service.js`, `tokens.js`, `authenticate.js` | |
| `Definitions` | `get`, `update` and `run` of the two services | one workflow |
| `Knowledge` | `ingest` and `deleteDocument` of `pipeline.js` | one action per call |
| `EngineProofs`, `TaskQueueProofs`, `WorkflowSystemProofs`, `EventPipelineProofs`, `SchedulerProofs` | theorems about the module of that name | |
| `AiProofs` | theorems about `ProviderFallback` and `AiTask` | |
| `ServicesProofs` | theorems about `Accounts`, `Definitions`, `Knowledge`, `RateLimiter` and `Dag` | |
| `Facts` | lemmas about numbers and sequences that the proofs share | |
| `MC*` | graphs, process sets and other constants for TLC | |

Definitions whose comment begins with *Mutant* are plausible bugs. They are not
part of any specification: each one, put in place of the definition after it,
makes TLC report the property it is paired with in `PROJECT.json`.

### Engine

The state is that of the documents: `execStatus`, `pendingTasks` of the run;
`status`, `remainingDeps`, `attempt`, `lease` of each task; `attemptRow` for
`TaskExecution`, `approval` for `ApprovalRequest`, `runEvents` and `taskEvents`
for the outbox. `attempt` and `leaseToken` change in the same update only
(`claimTask`) and are one counter. A time stamp is kept as whether it has
passed. A caller is what MongoDB knows of it: a worker is the claim it won, so
that one that was declared dead can still report (`stage`).

`connection.transaction` is MongoDB's snapshot isolation with a retry after a
write conflict. A transaction that writes the run's document, or reads only
what it writes, is serialisable, and is one action. That covers completion,
terminal failure, approval decisions, pause, resume and cancel, which all write
the run's document, and the approval request, which reads only its task. The
exception is the RETRY path of `failTask`: it reads the run's status and writes
only the task. It is two actions, `FailTaskDecideRetry` and
`FailTaskCommitRetry`; any write to the task in between aborts it, a write to
the run does not. `startTask` is not a transaction: its claim and the three
writes after it are four actions.

`DagRun` forgets queues, leases, retries, approvals and pauses: a task is
`done`, `lost` or neither, and a run is `open` or has its outcome. The
refinement mapping (`Run` in `Engine`) makes COMPLETED tasks `done`, FAILED and
CANCELLED ones `lost`, and a run that is not terminal `open`. A step of `DagRun`
lets a task succeed only after its dependencies, fail a run only by a task that
could run, and never takes an outcome back. A task that was already running when
the run failed may still end well, which changes the task and not the run.

### WorkflowSystem

Each worker loop has a program counter between any two calls to MongoDB or
Redis. `duty` says that a committed step is followed by `dispatchReady`,
`outgoing` which ids a process is about to push. A *fault* is a crash or
exception of a process between two calls, a Redis call that fails, a Redis that
restarts empty, or a stall long enough for a lease to run out while its holder
is alive; `MaxFaults` bounds them. Handlers are a choice of outcome: success,
retryable or permanent error, timeout, or a request for approval. The
reconciler finds one overdue task at a time; being overdue is only a matter of
time, so that it may act at any moment, stale or not.

### LeaderLock, EventPipeline, Scheduler

A lock token is the number of the SET that wrote it. The key may expire at any
time, which is a fault only while its holder is alive. `acquire` is two
commands, `stop()` does not wait for a tick that is under way. In
`EventPipeline` the events are those of one run, hence of one partition, named
by the rank of their `_id`; they may commit in another order. Kafka's side
(offset commits, rebalances) is external and modelled from what the consumer
relies on; a message that cannot be parsed is skipped by the code and left out.
A worker has a relay only if it reaches Kafka as it starts (`Boot`); otherwise it
is `relayless` until it ends. The broker may be away at first, and fail and come
back later. A processed marker may expire at any time (`MarkerExpires`, at most
`MaxExpiries` times per event; the TTL index of `analytics.model.js:12`), and
`expiries` counts it. The rows of the outbox that expire seven days after they were
published are left out: nobody reads them.
In `Scheduler` a cron expression is its set of slots, and `startExecution` the
insert it begins with, decided by the unique index on the idempotency key. Each
scheduler, and the API, reads a clock of its own: `now` is the slowest and `skew`
how far the others are ahead. `setSchedule` is two steps: the API reads its clock
and computes the first slot (`SetSchedule`), and the schedule it made up, `asked`,
is stored some time later (`StoreSchedule`). `late` is history: the workflows whose
schedule was due by some process' clock when it was stored.

### ProviderFallback

JavaScript runs to the next `await`: from `allow()` to the request that is sent
is one action, and so is the handling of an answer together with the move to the
next provider. `failures` saturates at the threshold, with which alone it is
compared. A caller may give up a request (`Abort`): the client rejects with an
error like that of a provider that is down, and the breaker counts it.

### AiTask

One attempt, from the look-up of its handler to what `runTask` reports to the
engine, in one action per await. A reply of the model is what validation makes of
it (invalid, an answer, or a tool call), and a provider's error whether it may be
retried. Tools just end: the agent hears of a failure as of a result. `calls` is
what `observe()` logs of the calls to providers, in order, and is the history the
properties speak of. After a timeout the attempt is reported and the handler is
still there, with its signal fired; it takes steps until it settles, and its
outcome is dropped. The agent's own deadline is a second signal.

### WorkerProcess

Time passes in thirds of the TTL, the interval of the heartbeat. An update of
the document is under way until it lands, updates of one process or of two
processes with one id land in any order, and those of a dead process may land or
not. The key's TTL runs on whatever happens. `Listed` is what `GET /workers`
makes of the document and the key.

### RateLimiter, Accounts, Definitions, Knowledge

These share no state with each other or with `Dag` and `AiTask`; `MCServices` puts
them into one run, in which `used` says which of them a behaviour is about.
`MCProcess` does the same, with `about`, for `ProviderFallback`, `WorkerProcess`,
`TaskQueue` and `EventPipeline`. There the others rest in a state in which their
fairness asks nothing of them (no process has been started, no relay runs), except
that there is always traffic for the providers: their fairness is assumed where a
behaviour is about them.

`RateLimiter` keeps time in ticks of Redis' clock. A route is the sequence of
buckets its requests pass, and other requests run between two of them. The sorted
set of a bucket is a set of members, each with its score (`Member`; its number
stands for the process id and counter that make it unique); `passed`, all the
members a bucket ever had, is the history the properties speak of, with `unseen`,
the buckets that let a request pass while Redis was away. In `Accounts` a
pair stands for the two tokens signed together and is never forgotten; a login or
refresh reads the user in one step and signs in another. `login` is history: the
version at the login a pair descends from. `Definitions` keeps of a
definition its version and the version it was edited from, which is what tells a
lost update; a client may repeat any request, in particular one whose answer was
lost. In `Knowledge` each call may fail, and the error says nothing about the store:
a failed call was carried out, was not, or, where it is about many chunks, in part.
That holds of the save of READY, of the catch block, whose errors are swallowed, and
of deletions too. `mishaps` counts what went wrong with one ingest: its failed calls
and the death of its process. A `create` that failed although it stored the document
is the ingest that dies at once.

### Dag

A definition is submitted and checked: the structural errors in one action, then
one action per wave of Kahn's algorithm, then, if tasks are left, one per edge
that `findCycle` looks at, `path` and `black` being its grey and black keys. In
the code the order inside a wave and the order of the search follow the input;
the model leaves them open, since nothing that `validateDag` promises depends on
them. The reference `IsDag` says nothing about either algorithm: every non-empty
set of tasks has one that waits for none of the others. It is the assumption
`Engine` makes of its graph, and `AcceptedFitsEngine` shows that what is accepted
meets it.

## 3. Runs

| Run | Instance | Shows |
|---|---|---|
| `engine` | diamond graph, C an approval, 2 claims per task, D with one attempt, 1 pause, 1 dispatching process | counters, dependencies, outcome, no run stuck and no task out of the reconciler's reach, attempt history, approvals, outbox, legal moves; refinement of `DagRun` |
| `engine_failfast_race` | two independent tasks | *violated*: a FAILED run may be left with a RETRYING task (finding) |
| `system` | 1 task with one retry, 2 workers, 1 fault | refinement of `Engine` and `TaskQueue`; until the fault no waiting task is forgotten and none has two workers; with and without it the run ends and Redis is empty |
| `system_drain` | 2 independent tasks, one an approval, 1 worker, 1 pause | also a run that failed or was cancelled drains |
| `system_ack_race` | 1 task, 2 workers, no fault | *violated*: an ack may remove another worker's lease (finding) |
| `pipeline_boot_outage` | 2 relays, 2 consumers, 2 events, no further fault | *violated*: Kafka comes back and the events stay (finding) |
| `scheduler` | 2 processes, 2 workflows, batches of 1, clock 0 to 2, 2 edits, each stored at any time after the API read its clock, 1 fault; one scheduler's clock is ahead of the other's and of the API's by 1 | one run per slot, edits respected unless stored late, no slot skipped, every due slot handled |
| `process`, providers | 2 providers, 2 chat callers and 1 embed caller, threshold 2, each provider changes twice, 2 callers give up | trials end, the primary comes back |
| `process`, registry | 3 processes with one id, 2 outages | the list comes to tell the truth |
| `process`, queue | 4 ids, batches of 2 | the ids stay a partition |
| `process`, events | 2 relays, 2 consumers, 2 events, batches of 1, 2 rounds, 1 fault, 1 expired marker per event | one leader until the fault; no event lost, everything below the offset counted, once per life of its marker; counted in the end unless every worker was started without Kafka |
| `fallback_bad_request` | the providers, with bad trials and nobody giving up | *violated*: the circuit sticks in HALF_OPEN (finding) |
| `services`, graphs | all graphs of 4 tasks; all definitions of 2 tasks with up to 2 dependencies, unknown and repeated ones too | verdict, levels and cycle right |
| `services`, limiter | 2 requests, limit 2, windows of 2 and 3 ticks, 2 ticks per second, clock 0 to 4, 1 outage | the limit holds in every window, nobody passes a closed limiter uncounted, Retry-After exact |
| `services`, accounts | 1 admin, 1 user, 2 sessions, 3 token pairs, clock 0 to 2, versions up to 2 | a revocation is final |
| `services`, definitions | 2 tabs of one user, 1 key and requests without, 2 inputs, 2 updates, 2 runs | no lost update, one run per key |
| `services`, documents | 2 documents, 2 contents, 2 failures | status true after at most one mishap, deletion complete |
| `services`, attempt | all handlers, 2 repairs, 3 iterations, 2 tool calls and one with bad arguments | failures of the right kind, usage complete, quiet once told to stop |
| `documents_delete_race` | 1 document, no failure | *violated*: a document deleted while it is ingested may stay searchable (finding) |
| `accounts_last_admin` | 2 admins, 2 sessions, no time passes | *violated*: they demote each other, and no admin is left (finding) |

Bounds. The diamond has a fan-out, a fan-in and two tasks that run at once;
two claims per task give a takeover and a late report, a task with one attempt
a poison pill, one with two a retry. One fault anywhere in `system` is enough
for each recovery path (every fault kind is chosen at every point), and two
workers for each race between a slow holder and its successor; what a second
task adds to liveness is in `system_drain`. That `WorkNeverLost` and
`OneWorkerPerTask` hold with more retries and workers, where a late ack can meet
a retry of another worker, is what their theorems add. `MaxClaims` in the system
is at least attempts plus faults, so that the bound is never what stops a claim
(`SystemAssumption`). Two events suffice for an order, two rounds for the loop
of a tick, two relays for a stale leader, and one expiry per event for a second
count. The clock of the scheduler passes slots of both crons, and a batch of one
makes the second due workflow wait. An edit that is stored late, and a leader that
is ahead of the API, each reach the exception that `NextRunIsASlot` makes.
In `services` a window of 3 ticks with a limit of 2 leaves room for a burst at
each end of it, and a second of 2 ticks makes the seconds of a Retry-After a
matter of rounding; one of the limiters fails open, the other closed. Three
pairs are a login and two refreshes. Two tabs give a stale save and a clash on a
key. Two failures are one in the ingest and one in its catch block, or one in
each of two deletions. Two repairs and three iterations let the repairs of one
iteration precede those of the next, and an agent alternate between tools, repeat
a call and run out of iterations. Three processes with one id give a late update
of each of two predecessors, and two outages one of MongoDB and one of Redis. Two
callers that give up reach the threshold. The symmetric sets (requests,
sessions, tabs) occur in no order, and there is no liveness property in that run.
The `CHECK_DEADLOCK FALSE` of the engine and system runs is there because a run
that is over is at rest; in `process`, that the
queue may be empty and workers without a relay do nothing; in `services` the verdict of `Dag` or the report of an attempt is
final, and a bound that is used up ends a behaviour.

Fairness. Loops of workers and processes go on unless a fault strikes;
`withTimeout` ends every handler; `setInterval` fires maintenance, reconcile,
relay and scheduler ticks again and again; deadlines pass; expired approvals
are found by the reconciler. A ready sweep or an overdue task that keeps
turning up is found in the end, though the reconciler may be busy each time it
is looked at (strong fairness). A retry's transaction is not aborted by every
lease renewal to come: one fires every `leaseMs / 3`, and the handler has
returned. Containers are restarted (`docker/docker-compose.yml`, `restart:
unless-stopped`). No fairness is assumed of people: nobody need answer an
approval, resume a paused run or cancel one. `RunSettles` therefore speaks of
RUNNING runs only. For `PrimaryComesBack` there must be traffic. Kafka, MongoDB
and Redis come back. For `RegistryConverges` the heartbeat's timer fires, at most
a whole interval late (`IntervalPasses`), time passes, and an update ends, with
or without effect; nothing obliges a process to start, stop or die.

## 4. Proofs

All theorems hold for every value of the constants that satisfies the named
`ASSUME`s: any finite DAG, any attempts, any number of processes, and any value
of the bounds, which only restrict behaviours.

* `EngineProofs`. The inductive invariant `CoreInv` joins the counters
  (`CountersExact`), `DepsRespected`,
  `RunOutcomeSound` and `NothingOutstanding` (in a RUNNING run a PENDING task
  has a dependency outstanding). None is inductive alone: that a child reaches 0
  exactly when its last parent completes needs the exact count, and that a
  resumed run is not stuck needs what the children of a paused run look like.
  The proof first reduces every action to what it does to the four core
  variables (`CoreStep`). `NoStuckRun` then follows from acyclicity: among the
  unfinished tasks one waits for none of them. `TypeCorrect` and
  `TransitionsLegal` complete it. `EngineImplementsDagRun` takes `CoreInv` too:
  that a task may finish, or fail the run, needs `DepsRespected`, and that the
  run completes only with all of its tasks the exact count of them.
  `HistInv` says, per task and attempt, how far the claim is (`stage`), what its
  record may then be, and how the approval and the status fit;
  `HistoryMatchesTask` and `ApprovalMatchesTask` follow. `OutboxMatchesState`
  counts attempt records, and becomes inductive with `HistInv` and `OpenClaim`:
  the current attempt of a RUNNING task has no outcome yet, so that a report that
  is applied adds an outcome instead of writing over one.
  `ReconcileReaches` is the safety half of the liveness properties: an unfinished
  task matches one of the filters of `reconcile`, or waits for an unfinished task
  or a resume, and in a RUNNING run some task matches. It joins `CoreInv` (for
  PENDING tasks), `HistInv` (for requests) and `LeaseInv`, that a task has a lease
  exactly while it is RUNNING. The last also shows that what MongoDB's `$lt` would
  make of a missing `leaseExpiresAt` (`task.repository.js:75`) never matters.
* `TaskQueueProofs`. `QueuePartition` with the types is inductive; the work is
  in the list without repetitions.
* `WorkflowSystemProofs`. Every step of the system is a step of `Engine` and a
  step of `TaskQueue`, or leaves them alone. That needs `LoopInv`: a worker that
  is busy has an id, and one that is past its claim a token. By refinement the
  engine's theorems hold of the whole system (`SystemSafe`), what `DagRun` promises
  and the tables of `states.js` included (`SystemKeepsPromise`: two refinements,
  one after the other), and so does the queue's (`SystemQueuePartition`, by an
  instance of `TaskQueueProofs`). Two properties are of the composition alone.
  `WorkNeverLost` is not inductive, and "a waiting task is in Redis" is false: a
  late ack takes the id of a task that another worker runs, and when that one's
  handler fails only the worker knows of the retry. `WorkInv` adds that a waiting
  task whose id is leased is in the hands of a worker about to claim it or to
  schedule its retry (so that no ack takes an id that is needed), and that nobody
  knows the id of a task before it is dispatched (so that a task just dispatched
  is not leased). `OneWorkerPerTask` becomes inductive with the token, status and
  lease of whoever is between claim and report: the token is the current one, the
  task does not wait, its lease has not run out, hence no claim matches.
* `EventPipelineProofs`. `PipeInv` joins `NothingLost`, that a batch about to be
  marked is in the log, that the count of an event is the number of its markers, the
  expired ones and the living one, and that everything before the owner's position
  is counted. The lock is not used: nothing is lost, and nothing is counted again
  while its marker lives, with any number of relays at once and any expiries.
  `NoEventPassedOver` follows, the safety half of `EveryEventCounted`: a committed
  event that is not counted is unpublished, or in the log at or after the committed
  offset. For the lock itself, `LockInv` says that no two processes remember the
  same token, and that until a fault whoever remembers one is ticking and the key
  is that token; `OneLeader` follows, for any number of relays. The scheduler uses
  the same actions of `LeaderLock`; the theorem is stated of the pipeline.
* `SchedulerProofs`. `SchedInv`: a run was started for a slot iff the slot's key
  is in the unique index (hence once); what a tick has in hand was due by the clock
  of its process; a slot about to be advanced was started or has failed (hence none
  is skipped); and, of a workflow that is not `late`, a schedule that a tick has read
  is either as it was or has a later `nextRunAt`. The last is why a user's change
  survives: what a tick has in hand was due by the clock of its process, and a
  schedule stored before it is due by any clock begins after all of that, so the
  compare of the slot fails. The clocks may differ by anything, and the store may be
  delayed by anything, up to that point. The lock is not used. That a next slot exists is the
  least-number principle, proved in `Facts` from the library's well-foundedness of
  finite subsets.
* `AiProofs`. `TrialHasACall` is inductive with the types: `Outcomes` shows that
  whatever ends at a provider leaves its breaker waiting for no trial. Its one
  hypothesis, `~BadTrials`, says that no trial is answered by an error that is not
  retryable; without it the statement is false (`fallback_bad_request`).
  For `AiTask`, `AttemptInv` counts what was logged of an attempt against its local
  variables: answers against `usage` and `spent`, invalid ones against `tries`, tool
  calls against `iteration`, the last of them against `lastCall`; and it says that a
  handler whose signal has fired logs one more call at most, a failed one and its
  last step. The three properties follow for any bounds.
* `ServicesProofs`. `RevocationIsFinal` needs to know that no token and no user
  document in memory is from the future: `AccountsInv` adds `Fresh`, that what
  was read or signed has a version of at most the current one, and if it is the
  current one the current role.
  `NoLostUpdate` needs that nothing a client has seen or a run has read is from the
  future; `OneRunPerKey` that an answer is the number of a run with the request's user, key
  and input, and that runs are only appended.
  For a document `KnowledgeInv` says, for each point of an ingest and of a deletion,
  what MongoDB and Qdrant hold; `StatusIsTrue` and `DeleteIsComplete` are what is
  left of it at the end of each. What the catch block has removed is known as long as
  the document had one mishap, the one that led there; that an answered ingest is
  READY and stored, and that a deletion is complete, needs no such proviso.
  `LimiterInv` says that the sorted set of a bucket holds all members of `passed`
  that are in the window ending now, and that its key outlives them: neither the
  trimming nor the expiry loses one that counts. That a limiter which fails closed is
  never among `unseen` is part of it. With it, that every earlier window
  was within the limit, and that a refusal was issued with the window full and the
  time its oldest member leaves; Retry-After is then arithmetic.
  For `Dag`, a set of tasks is acyclic (`AcyclicOn`) if each non-empty part of it has
  a task that depends on none of that part, and such a set stays acyclic when tasks
  join that depend on members only (`AcyclicGrows`). Kahn's algorithm grows the set
  of the emitted tasks in this way, the search that of the black ones. So no
  induction over the graph is needed: if all is emitted the definition is a DAG; if
  not, each task left depends on another one left, hence the black ones never
  exhaust them, and the fallback of `findCycle` is never reached; and `path`
  follows dependencies, so that a grey one closes a cycle. `AcceptedFitsEngine`
  adds that in an accepted definition lists are as long as the sets they stand for,
  with which `startExecution` begins its counters (`engine.js:382`, `engine.js:400`).

Only model-checked: all liveness (`RunSettles`, `EverythingDrains`,
`EveryEventCounted`, `DueSlotHandled`, `PrimaryComesBack`, `RegistryConverges`),
since fairness is beyond the prover. Every other property of a passing run is a
theorem. `WorkerProcess`, whose one property is a liveness property, has none.

## 5. Findings

Six properties that comments or docs state are violated; each has a run and an
entry in `PROJECT.json`: fail-fast against a concurrent retry, ack of an id that
another worker has popped, a bad request as the trial of a circuit, the deletion
of a document that is being ingested, a Kafka that is away while all workers
start, and two admins who demote each other, the second with an access token from
before its own demotion (`auth.service.js:101` only compares the actor with the
target, and `authorize.js:19` believes the role in the token). The first two do not endanger the
properties above: the engine's fence and the reconciler make up for them. The
deletion does not contradict `DeleteIsComplete`, which is about documents that
were READY when their deletion began.

Further observations, made while modelling and not kept as runs:

* `dispatchReady` reads the run's status once; a pause that commits afterwards
  does not stop the tasks already found (`engine.js:75`).
* A worker that stalls between its claim and the insert of its attempt record
  inserts it after its successor has closed the older ones; the record stays
  RUNNING (`engine.js:447`).
* After `stop()` or an expiry in the middle of a tick two relays publish at once
  (`relay.js:73`, `relay.js:89`), and events of one run emitted by two processes
  are published in the order of their ids, not of their commits (`relay.js:20`).
  `CountedOnce` and `NothingLost` hold all the same.
* The fence is drawn after the SET by a second command (`lock.js:53`), so that a
  stale holder may get the larger one; it is only logged.
* A call from before the circuit opened may fail during the trial and admit a
  second trial (`circuitBreaker.js:45`).
* Waves after the first are in the order of the parents that released them, not
  in input order (`dag.js:152`).
* The API reads its clock (`workflow.service.js:83`) before it stores a schedule
  (`:84`). If the store is delayed until the new schedule's first slot is due, or a
  leader's clock is ahead of the API's, that slot may be the one a leader has in hand.
  The leader's compare (`scheduler.js:68`) then passes, and the new schedule's
  `nextRunAt` is computed from the old cron (`scheduler.js:71`). `NextRunIsASlot`
  speaks of the schedules that were stored in time.
* Processed markers live 30 days: an event that is redelivered later is counted again,
  as `docs/kafka.md:58-59` says. `CountedOnce` allows one count per marker.
* A request that its caller aborts counts as a failure of the provider
  (`openaiCompatible.js:36-42`, `fallback.js:48`): timeouts of tasks, and lost
  leases, may open the circuit of a provider that is healthy.
* An agent hears of a tool's outage as of a result. If it asks again it is
  stopped for repeating itself, and in the last iteration for having no more
  (`agent.js:61`): a failure that will pass ends as a permanent one. The same
  holds of its deadline in the last iteration.
* A classification that falls back to the heuristic reports no usage, although
  calls may have been billed, and `ai.route` never reports any. A tool that
  timed out goes on, with the embedding it may have asked for.
* A heartbeat under way as a worker stops may land after STOPPED: the worker is
  then listed UNRESPONSIVE. Completions since the last beat are not written when
  a worker stops, and are lost when a beat fails.
* `POST /workflows/:id/run` passes the per-user limiter twice: the router of
  `/workflows` authenticates, and so does the route (`workflow.routes.js:20`,
  `execution.routes.js:26`). It counts two of the user's requests.
* The members of the limiter's sorted set are made unique by the process id and a
  counter (`rateLimit.js:54`). Two API containers, in each of which node is
  process 1, may draw the same member in the same millisecond, which then counts
  once; the model has one API process.
* `pipeline.js:61-63` and `docs/rag.md:11` ("never half-searchable") hold after one
  failed call (`StatusIsTrue`), not after more, or a crash. A process that dies after
  the upsert leaves a PROCESSING document that a search finds. The catch block swallows
  its own failures (`pipeline.js:109-110`): a second one leaves a FAILED document with
  vectors. A save of READY that was stored though its answer was lost, followed by a
  save of FAILED that fails too (`pipeline.js:105`, `:113`), leaves a READY document
  without any. Where `vectorDims` is still null, deleting the document does not remove
  the vectors.

## 6. Not modelled, and the plan

Not modelled: HTTP routing, validation and formatting, cryptography, the bodies
of HTTP requests to providers, routing rules and prices, the calculator and other
tools' results, chunking, cleaning and the scores of a search, configuration and
logging, scripts, and the services that only read (analytics, health). They keep
no state, and what they compute is data to the rest. Within the modelled parts:
wall-clock times (only their order matters), ownership scopes, several runs at
once (runs share no document; in Redis they share the queue, which `TaskQueue`
covers), partial results of a bulk update outside a transaction, the counters of
a worker's document, and a limiter script that Redis ran although its answer was
lost. Three shortcuts change nothing that the properties tell apart. A worker's two
renewals, in Redis and in MongoDB (`queueWorker.js:83`, `:89`), are one step. The
reconciler passes over tasks whose id is in Redis' delayed set, where the code
filters by MongoDB's `retryAt`; both say that the retry's time has not come. And the
embeddings that a tool asks for (`tools.js:30`) are the tool's, not among the `calls`
of the attempt.

Plan, most important first; all of it is done:

1. `WorkflowStates`, `Engine`, its run and `EngineProofs`; `DagRun` and that
   `Engine` refines it.
2. `TaskQueue` and `TaskQueueProofs`.
3. `WorkflowSystem`, its refinement of both, liveness, `WorkflowSystemProofs`.
4. `LeaderLock`, `EventPipeline` with starts and broker outages,
   `EventPipelineProofs`.
5. `Scheduler`, with a clock per process, and `SchedulerProofs`.
6. `ProviderFallback` with aborts, `Dag`.
7. `RateLimiter`, `Accounts`, `Definitions`, `Knowledge` and `ServicesProofs`.
8. `AiTask`, `AiProofs` and `WorkerProcess`.
9. What the liveness properties rest on, as theorems (`ReconcileReaches`,
   `NoEventPassedOver`); the lock's own promise; `Dag` without recursion and its
   theorems; the promises of engine and queue, carried over to the whole system.

What would come next is outside the prover's reach (liveness) or needs a larger
model: several runs that share a queue and a reconciler with a limit per sweep.
