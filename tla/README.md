# A verification of async-task-orchestrator

TLA+ models of the task orchestrator, checked with TLC and proved about with TLAPS. The models
follow the Go code under `src/`; `PROJECT.json` maps each definition to the lines it stands for and
lists the runs, the mutants, the findings, the hazards and the theorems.

    tlasany WorkerPool.tla                                   # parse
    tlc -workers 2 -config PoolFaults.cfg MCWorkerPool.tla   # model-check one instance
    tlapm OrchestratorProofs.tla                             # check proofs

## 1. The system

A client creates a task over HTTP, a worker carries it out later, and the client polls for the
status.

| component | code | state | operations |
|---|---|---|---|
| Task table | `internal/task/repository.go`, `model.go`, `internal/utils/tx.go` | rows: status, result_file, error_message | `Create`, `GetByID`, `GetByUserID`, `MarkProcessing`, `MarkSuccess`, `MarkFailed`, each write inside `WithTransaction` |
| Task creation API | `internal/task/controller.go`, `service.go` | none of its own; one request in progress per client | `CreateTask`: insert and commit, open a channel, publish, answer |
| API process | `cmd/api/main.go` | one AMQP connection, opened once | start, SIGTERM, crash |
| Message broker | RabbitMQ through `internal/queue/rabbitmq.go` | durable queue `task_queue`, transient messages, unacknowledged deliveries | declare, publish, deliver (prefetch 1), ack, nack |
| Worker pool | `internal/worker/worker.go`, `proc.go` | per goroutine: a channel and the delivery in hand | `StartWorker`'s loop, `handleTask`, `republishWithRetry` |
| Worker process | `cmd/worker/main.go` | one AMQP connection for all its goroutines | start, wait in `select {}`, die |
| Task reads and cache | `service.go`, `controller.go`, `internal/cache/task_cache.go` | Redis entries with a TTL of one hour | `GetTask`, `GetTasks` |
| Rate limiter | `internal/middleware/rate_limiter.go`, `.lua`, presets | Redis token buckets, the script's SHA per process | `Allow`, fail open |
| Tokens and authentication | `internal/auth`, `internal/middleware/jwt.go` | none: tokens are stateless | generate, validate, refresh |
| User accounts | `internal/user` | the users table | register, login |
| Routes | `internal/handler/handler.go` | none | the order of the middlewares |
| Start-up | `cmd/*/main.go`, `internal/db`, `internal/cache/redis.go`, `internal/queue`, `docker-compose.yaml` | how far each `main` is; the loop's `err` | connect with bounded attempts, end, be restarted |
| Configuration, schema | `internal/config`, `migrations` | none over time | |

**How they interact.** The API writes PostgreSQL and then RabbitMQ; nothing makes the two atomic.
The workers write PostgreSQL and then settle with RabbitMQ; nothing makes those two atomic either.
The API reads through Redis, which neither the API nor the workers invalidate. So the components
share the rows, the queue and the cache, and each of them can fail between any two writes.

**What is hard.**

* *Failure between two writes*: the row is committed and the message is not sent; the outcome is
  committed and the delivery is not acknowledged; a retry is published and the old copy is not
  acknowledged; a commit takes effect and reports an error.
* *Redelivery*: a crash or a lost connection gives a delivery back. After a lost connection the
  goroutine that had it works on, so two goroutines may write one row; the UPDATEs look at no
  status.
* *Retries*: the count travels in a header; the branch that gives up can itself fail.
* *Loss*: messages are transient and published without confirms, not mandatory, and the API does not
  declare the queue.
* *Staleness*: a slow request writes an old row into the cache over a newer one, and Redis may do
  so for a request that has given up long before.
* *Start-up*: nothing reconnects; only a restart of the process brings a connection back. The
  services come and go between the calls of `main`.
* *Late time stamps*: a request reads the clock before it calls the rate limiter's script, and
  requests overtake each other in between; the bucket expires, the script is lost with Redis, an
  older bucket comes back from a snapshot, and the sums of the script are rounded.
* *Check, then insert*: registrations of one name race between lookup, INSERT and commit, each of
  which may fail, while transactions wait for each other's rows on a bounded pool of connections.

**What makes each component correct.** Table: a final row was earned. Pool: no task lost, one
writer, bounded attempts, the status flow, as far as the faults allow. Creation: an error means that
nothing runs, an acceptance is kept. Reads: bounded staleness, only the caller's rows. Rate limiter:
no more requests than burst and refill, and no denial of a token that is due, up to the rounding
errors of its sums. Accounts: one owner per name and true answers, under every race. Tokens:
sessions end, and belong to the owner of the account. Start-up: who serves has reached all it needs;
once the services stay, everyone does.

## 2. The modules

| module | stands for | built on |
|---|---|---|
| `TaskRepository` | the statements on a row, and `WithTransaction` with its three outcomes, as operators | |
| `TaskFlow` | abstract: the flow ABSENT, PENDING, PROCESSING, then SUCCESS or FAILED, and what is left of it under redelivery | |
| `TaskService` | abstract: the contract of POST /tasks | `TaskFlow` |
| `Registry` | abstract: registration, each request served in one step | |
| `WorkerPool` | broker, worker processes and goroutines | `TaskRepository`; implements `TaskFlow` |
| `Orchestrator` | the API composed with the pool | `WorkerPool`; implements `TaskFlow` and `TaskService` |
| `TaskReads` | the reads and the cache, against commits and the clock | |
| `RateLimiter` | the token bucket of one user, its script, the middleware around it | |
| `Accounts` | registration, the users table and the connection pool | implements `Registry` |
| `Sessions` | login, refresh, the check of access tokens, over time | `Accounts` |
| `Routes` | the order of the middlewares | |
| `Startup` | both `main` functions up to serving, against services that come and go | |
| `WorkerPoolProofs`, `OrchestratorProofs`, `TaskReadsProofs`, `RateLimiterProofs`, `SessionsProofs` (with those of `Accounts`), `StartupProofs` | the theorems | |
| `MCWorkerPool`, `MCOrchestrator`, `MCTaskReads`, `MCRateLimiter`, `MCSessions` | values of the constants, fault sets, and the documented claims that fail | |

Operators whose comment begins with "Mutant:" are plausible mistakes in the definition that follows
them. No specification uses them; each property of a passing run is violated when one of them
replaces its original.

### TaskRepository

`tasks` is a function from task to row; an operator takes a table and returns the next. `Update`
does nothing on a missing row, as `UPDATE ... WHERE id` does. `WithTransaction(outcome, old, new)`
has the outcomes "committed", "rolled_back" and "unknown"; the last is an error of `tx.Commit`
behind which the transaction took effect (`tx.go:29` returns that error like any other).

### TaskFlow, TaskService and Registry

These three say what the service promises, and not how. `FlowSpec` is the flow the project's README
draws; it holds as long as no message is delivered twice. `RedeliverySpec` is what holds of it
under every fault: a started task may start again (`Restart`), or have one outcome replaced by
another (`Overwrite`), and nothing else; no task waits again or disappears, and none has an outcome
it was not started for.

`TaskService` adds the answers. `status` and `reply` are what a client can see: a row appears only
while the request is open, the request is answered at most once, a 201 means a row, and a task
answered with an error is never worked on, although its row may be there (`Refuse`). `Orchestrator`
implements it with `status` the column of the row and `reply` the final answers (`Replied`).

`Registry` serves each registration in one step: `Created` gives a free name away for good,
`Conflict` is true when it is told, after `Failed` the name may be the client's or not, and
`Silence` is a crash. `Accounts` implements it with its committed rows and its answers: the commit
is the step in which a request is served.

### WorkerPool

`pc[w]` is the place of goroutine `w` in `StartWorker` and `msg[w]` the delivery it holds:

| pc | worker.go | next action |
|---|---|---|
| starting | 41-63 | `StartWorker`, or `StartWorkerFatal` (logrus.Fatalf ends the process) |
| idle | 67 | `Deliver` |
| received | 68-97 | `RejectPayload` (payload is not JSON), or `BeginTask` (transaction 1) |
| requeue | 98-102 | `Requeue` (Nack with requeue) |
| handling | 104 | `HandleTask` |
| handled | 106-117 | `CompleteTask` (transaction 2 and where its error leads) |
| giving_up | 118-127 | `GiveUp` (transaction 3) |
| retrying | 129-137 | `Republish`, `RepublishError` |
| dropping, acking | 123-147 | `Settle` (Nack without requeue, Ack) |
| exited | after 148 | nothing: the range over `msgs` has ended |
| down | | `StartProcess` |

A message is its task, its retry count and a sequence number that tells copies apart. `ready` is a
set: RabbitMQ keeps the order of a queue, but a requeued or redelivered message changes it, and no
property depends on the order; delivering in any order includes the real one.

`Disconnect(p)` takes the connection of a process. Its unacknowledged deliveries are ready again at
once, its waiting goroutines end, and its working goroutines go on as ghosts: they still write rows,
and what they settle or publish reaches nobody. `ProcessCrash(p)` ends the process. `AllAsleep(p)`
is the Go runtime that ends a process whose goroutines have all returned while main waits in `select
{}`; that may happen and need not.

The payload is written with `%q` (`service.go:72`), a Go literal. For a few task types (a control
character) it is not JSON, and the worker rejects it. `UnquotableTypes` names them.

`runs[t]` is the only history variable: it counts the calls of `handleTask`.

### Orchestrator

`req[t]` is the request that creates `t`: none, inserted, published, created (201), error (500),
aborted (the server went away). `InsertTask`, `PublishTask`, `PublishLost`, `PublishRefused` and
`Respond` are its steps; `ApiStart`, `ApiCrash` and `ApiDisconnect` the process. `PublishTask` drops
the message when the queue is not declared: the publication is not mandatory. SIGTERM behaves as a
crash: `main` returns and does not wait for open requests.

### TaskReads

A request moves through "get" (cache lookup), "query" (SELECT) and "set" (write-back), and other
requests, commits and the clock come between. Instead of a clock every copy of a row carries its
age, the ticks since the database stopped agreeing with it; the state space is finite without a
bound on time. The cache calls share the request's context (`Deadline`), the query does not. A Redis
error is a miss or a failed write, both only logged.

The context bounds how long the client waits, not when Redis acts. `CacheSetSent` is the SET on its
way: from then on `LateCacheSet` may execute it at any time within `Linger` ticks, more than once
(go-redis repeats a command that failed), whether the client has its reply (`CacheSet`), waits, or
has given up (`CacheSetError`). `Linger` belongs to Redis and the network; the code sets no such
limit. What the code does ensure is that nothing is sent after the deadline, and that is the step
the mutant of `StalenessBounded` leaves out.

### RateLimiter

A tick refills one unit of tokens, so a rate is the ratio of `Sec` (ticks in a second) and `Cost`
(units in a token), and fractions of tokens stay integers: `CustomRateLimiter(2, 2/3)` is `Sec` 8,
`Cost` 12, `Full` 24. The clock advances by one of `Steps` ticks at a time. The script sees only
whole seconds (`time.Now().Unix()`): `bucket.lag` and `call[h]` are how many of them have begun since
`last_refill` and since the time stamp of request `h`.

The script's numbers are floats. At a rate of 2/3 an empty bucket goes to 0.667 and 1.333, a request
leaves 0.33333333333333326, and the next second 0.9999999999999999, which line 30 refuses although a
whole token is due; the strict preset's 0.1 does the same after ten seconds. So `Refilled` takes the
rounding error of the refill as a parameter, any of `-Ulp .. Ulp` (`Errors`), and `drift` is the sum
of the errors so far. To subtract a token and to cap at the capacity is exact, and so is Redis's
decimal form of a number (17 digits). The quotient in EXPIRE is rounded as well (`Short`).

| action | code |
|---|---|
| `ReadClock` | `rate_limiter.go:54` |
| `Allow`, `Deny` | EVALSHA answered 1 or 0; `Script` is the whole Lua script, EXPIRE included |
| `EvalRetried` | the script ran, its answer was lost, go-redis sends the call again |
| `NoScript`, `EvalError` | an error: the request passes; the script may have run all the same |
| `Tick` | time; a key whose TTL is over is gone |
| `Save` | Redis writes a snapshot to its volume |
| `RedisRestart` | the script is lost; the bucket is as it was, or as in the last snapshot, or gone with it |
| `ApiRestart` | requests die, though a call that was sent may still be executed; `ScriptLoad` |

`credit` and `due` are history variables and guard nothing. They are the two ideal buckets between
which the real one must stay: `credit` is the most a user may still spend, `due` the least. A pass
that the script did not pay for (a Redis error, or a missing script after Redis restarted) is not
charged to `credit`; a missing script without a restart is, because that is a fault of the API. A
bucket from a snapshot has forgotten what was spent since, so `credit` starts again at a burst; `due`
goes on, and the restored bucket has to cover it.

### Accounts and Sessions

`stage[r]` is the call a registration makes next: `Lookup` (`service.go:33`), `Begin` (50), `Insert`
(62), `Commit` (68). Each takes a connection of the pool, and the transaction keeps it
(`conns`). `Insert` waits for an open transaction with the same name, as a unique index of
PostgreSQL makes it. `Lookup` treats an error like "no such user", as `service.go:34` does. `Commit`
may report an error and have taken effect. `ApiCrash` ends all requests; a COMMIT under way may
still happen.

`tokens` are all tokens that were issued, each with the seconds it has left; nothing else is stored
of them, as in the code. `LoginUser(n, r)` shows the password that request `r` registered with,
whether `r` succeeded or not. `AuthMiddleware(t)` and `Refreshable(t)` are the two checks.
`used`, `shown` and `idle` are history.

### Routes

`chain` holds the handlers still to run, in the order of `setupRoutes`. `userID` says whether the
context holds a user id.

### Startup

`at[p]` is the call of `main` that process `p` makes next, `attempt` and `failed` are `i` and
`err # nil` of the loop in `db.Init` or `SetupRabbitMQ`.

| at | api/main.go, worker/main.go | action |
|---|---|---|
| postgres | 23, 20 | `Attempt`, `AfterLoop` |
| redis | 31, - | `SetupRedis` (one Ping) |
| rabbitmq | 38, 27 | `Attempt`, `AfterLoop` |
| handler | 45, - | `SetupHandler` (loads the script) |
| queue, close | -, 36-47 | `DeclareQueue`, `CloseChannel` |
| up | from 52, from 49 | |

`live` holds the processes whose AMQP connection still stands: the pools of database/sql and
go-redis connect again by themselves, amqp091-go does not. `Startup` details what `StartProcess`
and `ApiStart` do in one step; no refinement between them is stated.

## 3. What TLC checks

| run | module, cfg | properties | instance |
|---|---|---|---|
| pool_faults | MCWorkerPool, PoolFaults | TypeOK, OutcomeEarned, CopiesApart, FollowsRedeliveryFlow | 3 tasks (handled, unknown, unparsable type), 2 containers with 2 + 1 goroutines, MaxRetries 1, up to 3 faults of every kind; 4.0 million states |
| orch_no_loss | MCOrchestrator, OrchNoLoss | OrchestratorTypeOK, MessagesHaveRows, ErrorMeansNotRun, AcceptedNotLost, NoTaskLost, KeepsContract, AcceptedEventuallyFinal, QueueDrains | FairSpec, 2 tasks, 2 goroutines, MaxRetries 2, up to 3 safe faults; 0.1 million |
| orch_flow | MCOrchestrator, OrchFlow | OneWriter, AttemptsBounded, FollowsStatusFlow | 2 tasks, 2 goroutines, MaxRetries 3 as in the code, up to 5 faults without redelivery, no queue at first; 0.6 million |
| task_reads | MCTaskReads, TaskReads | ReadTypeOK, StalenessBounded, OwnRowsOnly, CacheCatchesUp | ReadFairSpec, 1 task, 2 users, 1 request at a time and 2 SETs of earlier ones on their way, TTL 2, deadline 2, linger 1, 2 writes; 0.4 million |
| rate_limiter | MCRateLimiter, RateLimiter | LimiterTypeOK, LimitKept, DenialDeserved | 2 handlers (symmetric), 2 tokens of 12 units, 2 clock steps of 4 ticks to the second, EXPIRE of 3 seconds, time stamps up to a second late, rounding errors of 1 unit up to a sum of 2, all Redis faults; 0.9 million |
| sessions | MCSessions, Sessions | AccountsTypeOK, SessionsTypeOK, CreatedMeansOwned, ConflictMeansTaken, SessionsEnd, SessionsOfOwner, RegistersAtomically, NoCircle, RegistrationsEnd | SessionsFairSpec, 3 registrations of one name with 2 passwords, 2 connections, access tokens of 2 and refresh tokens of 4 ticks, all database faults; 0.2 million |
| startup | Startup, Startup | StartupTypeOK, UpMeansReady, EventuallyUp | StartupFairSpec, 5 attempts as in the code, 3 services that stop and start without limit, 2 crashes; 13 thousand |
| orch_status_flow, orch_task_types, task_reads_polling, routes, rotation | | one documented claim each | violated, see section 5 |

**Fault sets.** Every property says under which faults it holds.

* All faults (`AllFaults`): what is final was earned, the statuses follow the flow under redelivery,
  and the broker has one place for each publication (`CopiesApart`): in the queue, or with the one
  consumer that still owes its settlement. So a second copy of a task at work is always one that its
  goroutine can no longer give back. The contract of POST /tasks (`KeepsContract`) names no fault
  either; its run has the safe ones, its theorem all.
* `LossyFaults` (broker restart, lost worker connection, failed republication, a failed transaction
  3) can take a task out of the system: `worker.go:118-137` drops the message in the last two cases,
  transient messages are lost in the first, and after a lost connection no goroutine is left.
  Without them nothing is lost, through crashes of workers and API at every step, and through all
  other transaction failures (`SafeFaults`).
* `RedeliveryFaults` (worker crash, lost worker connection) deliver a message twice. Without them a
  task has one writer and at most `MaxRetries + 1` attempts.
* `FlowBreakingFaults` adds a transaction 2 that committed behind an error. Without these the system
  implements `TaskFlow`.

**Bounds, and why they are enough.** Two goroutines of one process are the least with which two
copies of a task are worked on at a time; the third, in a container of its own, competes with the
ghosts of the first container's lost connection. `MaxRetries` 1 has both sides of the comparison at
`worker.go:117` with one fault each; orch_flow uses the code's own 3. Three faults suffice for a
redelivery, a failing retry and a third failure in one behaviour. `MaxFaults` is the only counter
that cuts behaviours off; retries and publications are bounded by it. For the reads, TTL and
deadline of at least two ticks let a write-back come late and an entry expire between lookup and
write-back, and two writes make three versions of a row (none, old, new). One request at a time is
enough: what a request changes for others is the SET it sends, and with two SETs of earlier requests
on their way three requests compete for the cache, in any order.

For the limiter, a token costs one and a half seconds of refill, so fractions of tokens and of
seconds both occur, a delay of a second puts a time stamp behind one that was taken later, and an
untouched bucket expires just when it would be full. A rounding error of a twelfth of a token is far
above the real 1e-16, but below everything a request or a clock step moves, so it decides the same
comparisons: a token just due is missed, or granted, by it. `MaxDrift` cuts off further errors; two
of them add up, or cancel out while `drift` still grows. The state is finite without a bound on time.
For the accounts, two connections and three requests make one wait for a connection while another
waits for its row; the third request repeats the password of the first, so that a session can belong
to a password without belonging to its request. The start-up run has the five attempts of the code,
and services that fail at every point, any number of times. The theorems of section 4 remove the
bounds for safety.

**Deadlock** is checked in rate_limiter, sessions and startup, where time or the services always go
on. It is not checked in the runs of the orchestrator and the reads, nor in routes: a system whose
requests are answered and whose queue is empty rests.

**Fairness** (`Fairness` in Orchestrator, `ReadFairSpec` in TaskReads), and why the code justifies
it:

* `StartProcess`, `ApiStart`: docker-compose restarts both (`docker-compose.yaml`, `restart:
  always`);
* `WorkerStep`: a goroutine that can run does, and the broker delivers to an idle consumer. Weak
  fairness is enough: a goroutine in an iteration stays enabled until it moves or its process dies,
  and MaxFaults bounds how often that happens. Where an outcome is open (a transaction), fairness
  says that the step happens, not how it ends;
* `RequestStep`: a request in progress is carried on;
* `Tick` of the reads: time passes;
* `CreateUser(r)` (`RegistrationsFair`): database/sql hands connections to the requests that wait in
  the order they came, and a PostgreSQL transaction waits for a row only as long as its holder is
  open. Weak fairness is asked of each request on its own, and suffices because the other requests
  are finitely many: their connections come free for good;
* `Main(p)` (`StartupFairSpec`): a starting process goes on, and `restart: always` starts an ended
  one. There is no fairness on the services; `EventuallyUp` is about those behaviours in which they
  stay up.

There is no fairness on faults, on `AllAsleep`, on `InsertTask` or on `Ask`: no client has to send
anything, and nothing has to fail. Liveness under a lost connection is therefore not claimed: a
worker process whose goroutines ended may hang in `select {}` for ever.

## 4. What TLAPS proves

The theorems hold for every set of tasks, goroutines and processes, every `MaxRetries` and every
bound on faults, every TTL, deadline and lingering time, every capacity, rate, rounding error and
delay of the limiter, all sets of registrations, names and passwords, every pool size and every
number of attempts, from the assumptions the modules name (`PoolAssumption`, `NoMsgAssumption`,
`FreshBrokerAssumption`, `ReadsAssumption`, `LimiterAssumption`, `AccountsAssumption`,
`SessionsAssumption`, `StartupAssumption`). `LimiterAssumption` says among others that EXPIRE covers
the time to refill an empty bucket but for a rounding error, which `math.ceil(capacity /
refill_rate)` does, that the capacity is at least a token, and that a rounding error is no more than
what a second refills. `ReadsAssumption` takes `Linger` to be some number: without any limit on how
late Redis may execute a SET there is no bound on the age of what it writes.

| theorem | statement |
|---|---|
| `TypeCorrect`, `OrchestratorTypeCorrect`, `ReadsTypeCorrect` | type invariants |
| `OutcomesAreEarned` (pool), `AllOutcomesAreEarned` (system) | `[]OutcomeEarned`, under all faults |
| `AllMessagesHaveRows` | `[]MessagesHaveRows` |
| `ErrorsDoNotRun` | `[]ErrorMeansNotRun` |
| `NoPublishedTaskLost`, `AcceptedTasksAreKept` | `[]NoTaskLost`, `[]AcceptedNotLost` |
| `AllWritersAreAlone`, `AllAttemptsAreBounded` | `[]OneWriter`, `[]AttemptsBounded` |
| `SystemFollowsStatusFlow` | the system implements `TaskFlow` without `FlowBreakingFaults` |
| `SystemFollowsRedeliveryFlow` | the system implements the flow under redelivery, under all faults |
| `SystemKeepsContract` | the system implements `TaskService`, under all faults |
| `AllCopiesStayApart` | `[]CopiesApart`, under all faults |
| `StalenessIsBounded`, `OnlyOwnRows` | `[]StalenessBounded`, `[]OwnRowsOnly` |
| `LimiterTypeCorrect`, `AccountsTypeCorrect`, `SessionsTypeCorrect`, `StartupTypeCorrect` | type invariants |
| `LimitIsKept`, `DenialsAreDeserved` | `[]LimitKept`, `DenialDeserved` |
| `CreatedIsOwned`, `ConflictIsTaken` | `[]CreatedMeansOwned`, `[]ConflictMeansTaken` |
| `RegistrationIsAtomic` | `Accounts`, with `Sessions` beside it, implements `Registry` |
| `NobodyWaitsInACircle` | `[]NoCircle` |
| `SessionsDoEnd`, `SessionsAreOfOwners` | `[]SessionsEnd`, `[]SessionsOfOwner` |
| `ServingIsReady` | `[]UpMeansReady` |

WorkerPoolProofs has the same seven results of the pool alone (`RowsBeforeMessages`,
`TasksAreNotLost`, `WritersAreAlone`, `AttemptsAreBounded`, `PoolFollowsStatusFlow`,
`PoolFollowsRedeliveryFlow`, `CopiesStayApart`).

**The argument.** None of the invariants is inductive by itself.

* `RunsTracked`: a message with retry count r stands for r runs of its task, and a goroutine gives
  up only with an exhausted count. It turns the header's count into a fact about runs, and
  `OutcomeEarned` follows. It is an inequality, because redelivery runs a task again without
  counting.
* `MessagesHaveRows` is inductive with `RowsStay`: no statement removes a row.
* `NoGhosts`: while no connection is lost, whoever runs is connected. With it, `TasksCovered`: a
  step takes from a task no cover but its own (`OthersCover`), and the goroutine that gives its
  cover up leaves a final row or a new message.
* `SingleCopy`: at most one live copy, waiting or at work. A republished message is added in the
  step in which its goroutine leaves the live places.
* `RunsExact` (with `SingleCopy`): the count of the only copy is exactly the number of runs.
* `RowFollows` (with `SingleCopy`): from transaction 1 on the row of the copy at work is PROCESSING.
  Then each write of a row is a step of `TaskFlow`.
* `RowsStarted`, the same under all faults and without `SingleCopy`: behind transaction 1 the row of
  the task in hand is PROCESSING or final, whoever else has written it since. A final status thus
  never replaces PENDING, and each write is a step of the flow under redelivery.
* `CopiesNumbered`: every copy in the queue, or owed by a consumer, has a number below the count of
  its task's publications. So a republication, which takes the next number, meets no copy of its
  own; delivery, requeue and the loss of a connection only move a copy from one place to another.
* In the composition, `Requested`: a task whose request has not published is at most a PENDING row,
  with no message, no run and no publication. `StepKinds` shows that each step of the system is a
  step of the pool, leaves the pool alone but for its fault counter, inserts a row, or publishes a
  first message; the pool's lemmas are reused for the first kind. `AcceptedPublished`: with a
  declared queue and no lost publication, whoever is past the publication has made one.
* The contract follows from `Requested` and `RowsStarted`: an open request that was inserted has its
  row (for `Confirm` and `Abort`), and a refused one is named by no message, so that `StepQuiet`,
  the pool leaves alone what no message names, rules out that it is worked on (for `Process`).
* Reads: `AgesPaidFor`: the age of an entry and its remaining TTL together stay within what TTL,
  deadline and lingering time allow, the age of a SET on its way and the time it has left within the
  last two, and the age of data in hand within the time the request has waited.
  `RowsBelong`: the rows of an entry belong to the user, or are the task, that its key names.
* Limiter: what the real bucket can still grant lies between the two ideal ones, up to `drift`.
  `CreditCovers`: `Spendable` (the tokens, and what refills up to the present may add, at most a full
  bucket as of the oldest possible time stamp) and the part of the current second never exceed
  `credit` and `drift`. `Sound` is the other side, for the current bucket and for the saved one
  alike: while it exists, tokens, lag, the part of the current second and `drift` cover what is due.
  A saved bucket that is aged stays sound, which is why a restored one costs nobody what is due.
  `SecondsApart` makes a lag of whole seconds comparable with a time stamp's, and keeps a refill
  above its error. The lag and the TTL of a bucket make up EXPIRE (also in `Sound`), so one that
  expires would have been full by then, and only a late time stamp gains by it, at most its delay.
  `NothingUnpaid`: the script is missing only after Redis restarted.
* Accounts: `CommitsAlone`: a request with an uncommitted row is the only one of its name, and the
  name is free; so the commit writes over nobody. `RowsDone`: a committed row is from a request that
  is through, which is why a 409 never meets the request's own row.
  With both, each step of a request is a step of `Registry` or changes nothing that it shows: the
  commit claims the name, also when it reports an error, and everything before it is invisible.
  `NoCircle` is the safety half of `RegistrationsEnd`, for every size of the pool: whoever waits for
  a row waits for a request at its COMMIT, which waits for nothing, and whoever waits for a
  connection waits for one of the requests that hold one (`conns` is exactly the open transactions).
* Sessions: `TokensAge`: the seconds a valid token has left and the seconds since the user's last
  renewal together stay within the token's lifetime. Rows never change, so the password shown at a
  login stays the row's.
* Start-up: `OpenedAt`: at each stage of `main` exactly the connections of the stages before it are
  open; a loop that is over with a failed last round cannot be left but by `Fatal`, because `failed`
  holds exactly when `attempt` is positive (part of `StartupTypeOK`).

**Only model-checked**: liveness (`AcceptedEventuallyFinal`, `QueueDrains`, `CacheCatchesUp`,
`RegistrationsEnd`, `EventuallyUp`), which rests on fairness that the installed provers cannot
reason about, and the five violations. Every safety property of the runs is a theorem.

## 5. Findings

* **A finished task goes back to PROCESSING** (orch_status_flow). A crash between the commit of
  transaction 2 and the Ack redelivers the message, and `MarkProcessing` (`worker.go:93`) looks at
  no status. README.md:336-338 draws no arrow out of COMPLETED. The run has one crash and nothing
  else. Under fairness the task becomes final again (`AcceptedEventuallyFinal`), after another run
  of its handler.
* **The advertised task types have no handler** (orch_task_types). README.md:280-284 lists four
  types; `proc.go:11-24` handles four others and fails the rest.
* **Polling does not show the change** (task_reads_polling). README.md:528-529 watches a status
  change with one GET per second; the first GET caches PENDING for an hour (`service.go:85`).
* **Nobody gets past the rate limiter** (routes). In both groups the limiter runs first and answers
  401 when the context holds no user id (`handler.go:43`, `:53`, `rate_limiter.go:44-51`). On
  `/auth` nothing sets one at all, and on `/api/v1` the authentication that sets it runs behind the
  limiter. `tests/integration/auth_test.go:46` expects a 201 of a registration through
  `SetupHandler`, as does README.md:218. The other models therefore start at the controllers, as
  `controller_test.go` does, and the limiter's starts behind the point where the user id is known.
* **A used refresh token stays valid** (rotation). `jwt.go:136` says "Old refresh token becomes
  invalid"; nothing records that, and it renews the session until its seven days are over. Two
  refreshes within one second even return the same token: its claims are the user, the type and
  whole seconds.

Met while modelling, without a run of its own because no document says otherwise:

* After a Redis restart the limiter lets everything through until the API is restarted as well: the
  script is loaded once (`rate_limiter.go:37`), and EVALSHA then fails for good (`NoScript`).
* A registration whose commit is in doubt answers 500, and the client's next try a 409 for its own
  account (`service.go:68-71`).
* Two migrations go up with the number 003 (`003_change_id_type`, `003_create_users`), and
  golang-migrate refuses duplicate numbers.

## 6. Not modelled

* Configuration and the schema: nothing over time. The presets of the limiter are values of its
  constants; the file of examples is a comment.
* Two groups with different capacities share one bucket key (`rate_limiter.go:88`), so that a call
  with a smaller capacity would cut the other's tokens. As wired no call of either group gets that
  far, so the limiter has one capacity.
* A clock that runs ahead, or is set back. Clocks of several API instances are modelled as far as
  one that is behind looks to the script like a time stamp that arrives late, within `Delay`.
  `Delay` itself stands for the timeouts and retries of go-redis; the code sets none of its own.
* How small rounding errors are: the model takes any size up to a second's refill. With doubles a
  refill is off by about 1e-16 of its tokens, so `drift` stays far below a second's refill, and a
  token that is refused for it is granted a second later.
* How long Redis may linger: nothing in the code or in go-redis bounds it.
* Lost tasks. The faults of `LossyFaults`, a queue that no worker has declared yet and a payload that
  does not parse leave a row PENDING or PROCESSING for ever. The modules model these steps, and the
  properties about accepted tasks name the faults they exclude; no document promises more.
* The limiter without its script: what passes after a restart of Redis is not limited by anything,
  and `LimitKept` does not count it.
* `UpdatePassword` and `GetByID` of users: no request reaches them.
* The migrate container. Both processes may start before it has run; a statement on a missing table
  is a failing statement.
* Idle connections and connection lifetimes: database/sql replaces a connection by itself.
* bcrypt and signatures: cryptography. A password that bcrypt refuses (over 72 bytes) is a 500 like
  a failing `Begin`.
* PostgreSQL's isolation: every transaction here is a single statement on one row, so it is atomic;
  the one wait of a transaction for another, on the unique name, is in `Accounts.Insert`.
* The database connection of the API in the task models: a failure shows as a failed transaction or
  query there.
* Validation, JSON, logging, Swagger: reject before any state changes, or change none.

## 7. Plan

Done: all modules of section 2 with their theorems. What would add most from here:

1. `TaskReads` composed with `Orchestrator`, so that the commits the cache sees are those of the
   status flow, and `StalenessBounded` becomes a statement about what a poller sees of it.
2. `Startup` as a refinement of `StartProcess` and `ApiStart`, with the connections of the pool.
3. A limiter with two capacities on one key, for the day the middlewares are put in order.
