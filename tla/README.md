# asyncjob: TLA+ models, TLC runs and TLAPS proofs

asyncjob is an asynchronous job service in Go.  Clients deliver one-shot jobs
(optionally delayed) and periodic jobs (cron) over HTTP; any number of identical
processes ("nodes") share one Redis, which holds all job state and is written
only by Lua scripts, and one SQL database, which holds the id generator.

## 1. Inventory

### 1.1 Components, their state and operations

| component | source | state | operations |
|---|---|---|---|
| job store | `app/pkg/event/tools/luascript.go`, key names in `app/pkg/utils/constant.go` | per bucket (5 of them): zsets `pending`, `running`, `period`; list `ready`; hashes `retry`, `ttl`, `period:retry`, `info`, `status`, `result`, `terminate`; and `id -> bucket` | eight Lua scripts, atomic in Redis |
| queue operations | `dispatch/asyncqueue.go` | none of its own | one or several Redis round trips each: Send, Stop, Recover, Delete, Get, pending2Ready, ready2Running, running2Ready, running2Pending, running2Finish |
| transfer timers | `dispatch/transworker.go` | a ticker per node, bucket and kind | every 500 ms send a transfer |
| workers | `dispatch/handleworker.go` | per node and bucket: a semaphore channel of `MaxWorker` slots, the Start loop, one `exec` goroutine per execution with its handler and its terminate monitor | probe, pop, acquire, load, execute, finish |
| dispatch | `dispatch/dispatch.go`, `app/app.go` | a cancellable context, a WaitGroup per timer and worker | RunTask, StopTask, and RunServer around them |
| job API | `api/v0/asyncjob.go`, `api/router.go` | none; go-redis resends a command whose connection failed | deliver (delayed, periodic), query, terminate, recover, delete |
| id generator | `app/pkg/base/dbgenerate.go`, `app/pkg/repo/uid.go`, `bootstrap/plugins/database.go` | `max_id` rows in SQL; per process a producer goroutine and a channel | reserve a segment, produce, NextId |
| helpers | `event/tools/{cron,bucket,task}.go` | round-robin counter | next cron instant, bucket name, status text |
| handlers and registry | `event/event.go`, `event/handlers/` | type -> handler | register, look up, run |
| HTTP middleware, web responses, config, log, plugins, mail, HTTP client, docs | the rest | connections | no job state |

### 1.2 How they interact

* A delivery takes an id from the generator and sends `Send2PendingScript`.
* `pending2Ready` moves due ids to the ready list; `ready2Running` pops one and
  gives it a deadline (`now + ttl`); the worker loads ttl, bucket and info in
  three more round trips and starts `exec`.
* `exec` ends by the handler's result, by the stop signal (both send
  `Running2FinishScript`) or by its timer (sends nothing).
* `running2Ready` takes every id whose deadline has passed out of `running` and
  retries it or gives it up; `running2Pending` puts periodic jobs back.
* Every node runs all timers and a worker for every bucket: they meet only in
  Redis, with no lock beyond the atomicity of a script.

### 1.3 What is hard here

Operations of several round trips interleave with everything else; a run may
outlive its deadline and be retried elsewhere while it still executes; a late
result refers to a run that is no longer the current one; a node may die with
jobs popped; several nodes sweep the same cron entry; a semaphore slot must be
given back on every path; a read and a write of `max_id` must be one step; the
goroutines of one execution share channels that carry a single token; a shutdown
waits for some goroutines, which may be blocked, and not for others; a query puts its
answer together from seven reads; a delivery may run twice because its reply was lost;
clock readings are cut to seconds.
`PROJECT.json` lists each hazard at its line.

### 1.4 What makes each component correct

* job store: a one-shot job is in one place at a time; a queue never holds a job
  whose info is gone; a script never aborts half way; a readable result belongs
  to a run that is over; the status shown names the queue that holds the job.
* timers: a retry happens at most `Retries` times and only after the deadline; a
  cron entry only moves forward and is never lost; nothing is forgotten.
* workers: a popped job has a slot; every slot comes back; nothing is sent on a
  closed channel; a stop reaches the handler that watches for it.
* dispatch: the shutdown gets through its waits, no job is popped or moved by a timer
  after them, and the jobs it cuts short run again elsewhere.
* API: a refused stop means that the job is over, a delete is final unless the job is
  recovered or delivered again; an error answer to a query is due to a race with that
  query or to a stop; a delivery that is answered is stored, and not early.
* id generator: no id is handed out twice (false, see 3.3), and ids keep coming.

## 2. Modules

| module | models |
|---|---|
| `JobStore` | the Redis keys as variables and the eight scripts as actions (no `Next` of its own) |
| `AsyncQueue` | extends `JobStore`: API requests, timers, workers and executions that send the scripts, and nodes that are killed or shut down; the properties of the job life cycle |
| `JobToken` | abstract: a one-shot job is one token that waits, is queued, leased and over, with a budget of retries |
| `AsyncToken` | extends `AsyncQueue`: the refinement mapping to `JobToken` |
| `CronTimer` | abstract: a periodic job is a timer that is armed for an instant, fires, and is armed again for a later one, planned by somebody who had found it on |
| `AsyncTimer` | extends `AsyncQueue`: the refinement mapping to `CronTimer` |
| `JobQuery` | extends `AsyncQueue`: the round trips of a query among everything else |
| `Delivery` | extends `JobStore`: the two delivery handlers and `SendScheduleMsg`, with the clock in half seconds and go-redis's resends |
| `ExecSignals` | one execution: `exec`, handler and terminate monitor on their channels, and the refinement mapping to `Execution` |
| `Execution` | abstract: an execution ends once, for one of four reasons, as `AsyncQueue` has it in its slots |
| `Shutdown` | one process from start to exit: main goroutine, timers, workers, requests |
| `UidSegment` | the id generator |
| `BatchPush` | the loop of `Pending2ReadyScript` that pushes in batches, iteration by iteration |
| `MCAsyncQueue`, `MCAsyncToken`, `MCAsyncTimer`, `MCJobQuery`, `MCDelivery` | values for the constants in the runs |
| `MCProcess` | `ExecSignals`, `Shutdown`, `UidSegment` and `BatchPush`, which share no state, in one run |
| `JobStore_proofs` | each script preserves `StoreInv`, puts no job where it was not (`NoneNew`) and keeps cron entries (`CronStep`); lemmas on `Orderings` and `Without` |
| `AsyncQueue_proofs` | the inductive invariant `IInv` of `AsyncQueue` and its consequences; the worker's slot (`SlotInv`), the home bucket of a job (`HomeInv`), the cron entries (`CronInv`) |
| `OneShot_proofs` | one place and a bounded number of starts for one-shot jobs (`OneShotInv`), what may be stopped (`FitInv`), the status that is shown (`ShownInv`), the leases of a job (`LeaseInv`) |
| `Token_proofs` | the system implements `JobToken`: every step is a move of the token or leaves it alone |
| `Cron_proofs` | a cron entry only moves forward (`SweepAhead`) and is never lost; a sweep works on jobs of its bucket (`SweepHome`); the system implements `CronTimer` |
| `Query_proofs` | what a query has read stays true enough until it answers (`QueryInv`, `RaceInv`) |
| `Delivery_proofs` | the invariant `DInv` of `Delivery`: what each request has done so far, at each point of its handler |
| `Process_proofs` | `SignalInv`: which goroutine may still touch which channel; `StopInv`: slots, handlers and late pops of a process; `UidInv`: the ids each producer may still hand out, as long as none raced; `BatchInv`: what the batches have pushed |

### 2.1 State and actions against the code

*Store.*  A sorted set is a function `id -> score` with `Absent` for a
non-member.  Hashes whose value never changes for an id (`ttl`, `info`,
`period:retry`) are the set of ids that have the field; the value is the
constant `Ttl[i]`, `Retries[i]` the job was delivered with.  The list is a
sequence with the RPOP end first, so LPUSH appends.  `Orderings` are the orders
in which ZRANGEBYSCORE may return a set (ties either way), `Without` is LREM.
A definition named `Bug...` stands just before the definition it would replace:
it is a plausible slip, substituted by the mutation runs and used nowhere else.

*Requests.*  `Deliver` is the whole delivery (the id is fresh, one script).
`StopJob`, `RecoverJob`, `DeleteJob` are the first round trip (id -> bucket);
`StopCheck`/`StopEval`, `RecoverLoad`/`RecoverSend`, `DeleteEval` are the
following ones, and `call` keeps what was read.  `RecoverLoad` does not have the
periodic branch: the code's HGET on a zset always answers WRONGTYPE, so
`asyncqueue.go:357` is never true.

*Timers.*  `Pending2ReadyTimer` and `Running2ReadyTimer` send one script and are
one action.  The sweep reads the first due cron entry (`SweepSelect`), then the stop
flag (`SweepFlag`), then the info (`SweepInfo`), reads the clock again to compute the
next instant (`SweepPlan`), and sends the script with that instant and the clock it
read at the start (`SweepEval`).

*Workers.*  `worker` is the program counter of `Start`: `Probe` (fill and drain
one slot of the channel), `Pop`/`PopNothing`, `Acquire`, `Load` or `LoadFails`
then `Fail`.  `slot` is the channel and what occupies each slot: held by the
worker, by an `exec` goroutine, or lost (the worker left the iteration with
`continue`).  `ExecResult`, `ExecTerminate`, `ExecTimeout` and `ExecCancelled` are the
branches of the select in `exec`, `Monitor` is `terminateMonitor` finding the stop flag.
The first two and `Fail` send `Running2FinishScript` by `Finishes`, where the script may
also not run: the code drops the error of `running2Finish` and does not try again; the
job comes back by its deadline.

*Shutdown and crash.*  `Cancel` is `taskCancel`: a worker that waits in its select leaves
(`gone`), one that is past it goes on to the end of its round (`NextRound`), with a load
that fails since `getTTL` gets the cancelled context; `exec` may leave by `ctx.Done`.
`Crash` is a kill or the end of a shutdown: the node loses its goroutines and starts
again; Redis keeps everything.

*One execution.*  `ExecSignals` opens what `AsyncQueue` has as outcomes.  A channel
is its tokens and whether it is closed; `Select` is the select of `exec` with its
four branches, `AfterStop` and `AfterResult` what follows them, one action per send
and close.  `HandlerHears` is external: a handler written as the README of the
repository asks, which selects on the same timeout and stop channels, so a token
taken by one is missing for the other.  `heeds` says whether the handler does.

*Abstract execution.*  `busy` says that the execution is not over, `told` that the monitor
saw the stop flag, `written` is the status it wrote.  `Result`, `Terminate`, `Timeout` and
`Shutdown` end it; all else is the `World`, which never takes back a result, the end of
the timer or the cancellation.  `ExecSignals` ends it where the status is written or the
select is left; `exec` gives the slot back then or later, and the sends and closes between
the two change nothing that anyone else sees.

*Process.*  `Shutdown` has the program counters of the main goroutine (`boot`, `serve`,
`sleep`, the two waits of `StopTask`, the shutdown of the server), of each timer and
of each worker; executions, lost slots and handlers are counters by bucket.  `Exit` ends
the process orderly when no request is left, else by the panic at `app.go:92`.

*Query.*  `Ask`, `ReadStatus`, `ReadResult`, `ReadType`, `ReadPosition`, `ReadLength`,
`ReadStart` are the seven round trips, in the code's order and with its early
returns; `Queueing` is any step of `AsyncQueue` in between.

*Delivery.*  A request is refused or gets `want`, the start it asked for; `CheckCron`
reads the clock again, `GetId` waits for the id, `ReadClock` adds the delay to a
third reading and cuts to seconds, `TakeBucket` is the round robin, `EvalRuns` and
`EvalLost` the script with a reply that may be lost.  `MoveOn` lets the job go on
meanwhile, since a resend may come late.

*Batches.*  `Collect` is one iteration of the loop, `PushRest` the push after it;
`args` is what `args2` holds behind its two first entries.  Of the due ids only their
number matters and which are duplicates (`dup`).

*Abstract token.*  `place` is where the job is (`new`, `waiting` = pending, `queued` =
ready with its ttl, `leased` = running, else `over`), `at` its score there, `left`
the field of `retry` while it is in one of those places, `runs` the history of its
starts.  A queued job without its ttl is over: a late result or a give-up removed
the ttl, and the pop drops the job.

*Abstract timer.*  `at` is the score in `period`, `armed` says that the job is in
`pending`, and `state` goes from new to on, stopped and over (deleted).  `vouched` says
that a sweep has found it on and not planned yet (it is at the info or at the clock),
`plans` are the instants that sweeps have computed and not yet sent.  `Vouch` needs the
state on, `Plan` only somebody who has vouched: a stop between the two is not noticed.
`Renew` is the only action that arms it again: it must have fired or been stopped, its
instant must have passed, and the next one must be in `plans`.

*Id generator.*  `GetDataRead` is the SELECT (through `lgDB`, outside the
transaction), `GetDataWrite` the UPDATE.  Each boot inserts one more row for
business "1" and starts one producer per row; the map keeps the last.  `raced` is a
history: two producers of any processes were between their read and their write.

### 2.2 Abstractions and assumptions

* Redis runs a script atomically and keeps its data.
* The clocks of the nodes and of Redis agree.  Every reading of them is cut to seconds,
  as `TIME[1]` in the scripts and `Unix()` in the code cut it: `now` is what a reading
  shows, `part` which of the `Parts` instants of that second it is.  No script and no
  timer sees `part`; it is there so that a lease can be measured.  Two clocks that
  differ make it shorter by that much again.
* The clock reading a timer passes to `Pending2ReadyScript` or `Running2ReadyScript` is
  taken in the step that sends it; the sweep's, which spans several round trips, is kept.
* The three reads of `Load` (ttl, bucket, info) are one step.  They only decide whether to
  go on, and each finds what the others found unless a script took it away in between:
  the outcomes of the separate reads are those of `Load` or `LoadFails` at one of them.
* The bucket of a delivery is any bucket: the round robin is shared by all
  requests of a node, and nodes have their own.
* `CronNext` is any function from an instant to a later one.
* Every node registers the handler of every delivered type (delivery checks it,
  `asyncjob.go:37` and `:102`).  A handler may return nil, an error, panic (an
  error), or never return.
* A request cut short by a crash of its node just stays in `call`: nothing
  obliges a request to go on.
* The list push in batches of 4000 ids is one append: `BatchesAsOne` says that this
  is what the batches amount to, `AbortNeedsDuplicate` names the only inputs for
  which it is not (more than 7998 ids due at once, a duplicate at a batch's end).
* `AsyncQueue` delivers in one step, by a script that runs once; `Delivery` has the steps
  before the script, and the copies of it that go-redis sends.
* `Shutdown` keeps of a ttl, a pop and a load only that they may end either way.

## 3. Runs

| run | instance | shows |
|---|---|---|
| `one_shot` | 2 one-shot jobs with 1 and 0 retries, 2 nodes, 1 slot, ttl 1, clock 0..3, 1 stop or delete, 1 kill or shutdown | the system implements `JobToken`; a job is in one place, starts at most 1 + retries times, runs that overlap were popped more than ttl - 1 seconds apart, the pop has a slot, the status names the queue, a refused stop means that the job is over, a deleted job is in no queue |
| `periodic` | 1 cron job that is due every second, 2 nodes, clock 0..2, 1 stop, 1 kill, fair | the system implements `CronTimer`, whatever happens between the reads of a sweep; the cron entry is never lost and never goes back under two concurrent sweeps, and the job is scheduled again after each firing |
| `one_shot_live` | 1 one-shot job with 2 retries, 2 nodes, clock 0..5, 1 stop, 1 kill or shutdown, fair | the job is never forgotten |
| `recover` | 1 cron job, 2 buckets, 1 node, clock 0..1, 3 requests among stop, recover, delete | no ghost jobs, no aborted script, final results, bucket by bucket |
| `process` | 1 execution with 2 stops; a process of 2 buckets with 2 slots each, 1 timer, 3 jobs, 1 request; the id generators of 2 processes over 2 boots, step 2, channel of 1, 2 segments; up to 10 due ids in batches of 3, 5 at most; fair | an execution implements `Execution`, without a send on a closed channel; slots and monitors end, a stop reaches the handler; the shutdown gets through its waits, after them no job is popped or moved by a timer, and a worker pops one job late at most; ids are unique until two producers race, and keep coming; batches amount to one push |
| `job_query` | 1 one-shot job, 1 node with 2 slots, ttl 2, clock 0..4 in half seconds, 1 stop or delete, 1 query | a final answer is whole, an error answer is a race with that query, the lease is longer than ttl - 1 seconds |
| `delivery` | 1 one-shot and 1 cron job, 2 clients, 2 buckets, 1 resend, half seconds to 3, instants 2, 5, 6, ttl 2 | not early, one home, an ok means stored, buckets evenly dealt |
| `slots_lost` (violation) | 2 jobs, 1 node, 1 slot, 1 delete, fair | see 3.3 |
| `cron_starves` (violation) | 2 cron jobs, 1 stop, fair | see 3.3 |
| `stopped_restarts` (violation) | 1 job, 1 stop | see 3.3 |
| `overrun` (violation) | 1 cron job, no request at all | see 3.3 |
| `uid_two` (violation) | 2 processes | see 3.3 |

The liveness runs leave out what 3.3 shows to break them: `one_shot_live` has no
delete (a slot is lost), `periodic` a single cron job in its bucket (no other entry
can hide it).  `one_shot` has one bucket, so of `HomeBucket` it checks that a deleted
job is in no queue; that a job is only in its recorded bucket among several is the
theorem `HomeIsUnique`.

`process` is four specifications in one run.  Its initial states are those of one
part, with the other parts over: all their goroutines are gone and no action of
theirs is enabled.  The behaviours are thus those of the parts, each under its own
fairness.

### 3.1 Bounds

`MaxTime` bounds the clock, `MaxCalls` the requests other than deliveries,
`MaxReady` the length of a ready list, `MaxStarts` saturates the history counter
of starts (0 keeps neither that nor the instants of pops), `MaxCrash` bounds the kills
and shutdowns, `MaxDown` the nodes that are shut down at one time (0: kills only),
`MaxBoots` and `MaxSeg` the boots and segments of the generators.

With ttl 1 and one retry, a clock of 3 lets a run be popped, expire, be retried on the
other node while the first still executes, expire again and be given up, with a late
result or a crash at any point; two nodes and one slot are the least that let executions
overlap and semaphores fill; two retries and a clock of 5 let the liveness run go through
the whole budget.  A cron job that is due every second, with ttl 1, has no room for a
retry before its next instant and is given up until then, while two sweeps of different
seconds race for each firing.  In `recover` the instants are 1 and 3 and a recovery starts
the job at once: a retry fits before instant 3, and the third request leaves room to stop,
recover and delete one job.  Two boots give each generator a process of its own, or one
process two producers after a restart.

`Parts` is 1 where only the order of events counts, since no script sees it; with `Parts` 2
and ttl 2, `job_query` has runs of a job that overlap although one was popped one and a
half seconds after the other, less than the ttl.  `MaxReady` never blocks a one-shot job,
which is queued at most once (`OnePlace`); for a cron job it bounds the duplicate pushes
that `overrun` shows.  Slots, nodes and buckets are symmetric in the safety runs; the
liveness runs use no symmetry.

`MaxStops` bounds how often the stop flag of an execution is set again after a new
delivery cleared it: two settings let a monitor send, end, and a later flag find
nobody.  `MaxJobs` bounds the jobs popped in a process and `MaxRequests` the requests
in flight; with two slots a bucket, two workers and three jobs, one worker blocks on
its slots, loses them or pops late while the other is waited for.  `MaxQueries` bounds
the queries, `MaxRetries` the resends, `Horizon` the clock of `Delivery` (the cron
instants go on to `MaxTime`, so that the second interval exists).  `Flush` and `Limit`
are 4000 and 8000 in the code; 5 and 7 keep the order of a full batch, one that is
one too long and the limit, and `MaxDue` lets three batches follow each other.

`CHECK_DEADLOCK FALSE`: the system really may stop. At the end of the bounded
clock every job may be over; with every slot lost and no request left, nothing
moves; a generator whose producer died hands out what its channel holds and then
nothing.

### 3.2 Fairness

In `AsyncQueue`: weak fairness on the transfers (each ticker fires again after
500 ms for as long as one node is up), on the sweep's and the worker's loops of a node
that is up (goroutines that are runnable run; a killed node starts again at once, one
that is shut down may stay down), and on
`ExecTimeout`: `exec` has left its select as soon as its timer is ready, unless
another branch was taken.  None on clients, handlers, results, `Cancel`, `Crash` or the clock;
a clock that stops satisfies the properties only while what it would decide is ahead.

In `ExecSignals`: the timer fires, `exec` and the monitor run, and a handler that
heeds its signals hears one that stays ready and then returns.  A handler that does
not heed them may run for ever, a client need not stop the job, and nothing obliges
the process to shut down.

In `Shutdown`: the main goroutine, the workers and the executions whose context is
done go on; a timer finishes its send, and strong fairness lets its select take
`ctx.Done` in the end although a tick may be ready each time too (Go chooses among
ready branches at random).  None on handlers, on ttls or on requests.

In `UidSegment`: a producer that is neither blocked on its channel nor gone goes on.

### 3.3 Where the code departs from what it says

* `slots_lost`: `handleworker.go` leaves by `continue` (lines 128, 133, 139) with
  the slot taken at line 124. With the last slot gone the worker blocks for ever
  and queued jobs never run.
* `cron_starves`: `running2Pending` reads one due cron entry and gives up when it
  belongs to a stopped job; the entry stays first and hides the others.
* `stopped_restarts`: `TerminateScript` leaves the running set alone, and the
  retry does not look at the stop flag: a job stopped while it runs starts again.
* `overrun`: `Pending2ReadyScript` pushes an id before it tests for duplicates.
* `uid_two`: `getData` reads `max_id` outside the transaction that writes it.

Other departures met while modelling follow from definitions of the modules.  No run
is kept for them; each is a short behaviour of the module named:

* A handler that waits for the timeout may never hear of it (`ExecSignals.Select`):
  `exec` takes the single value of `time.After` at `handleworker.go:95` and only logs,
  although the repository's README.md:220 asks handlers to catch that signal.
* A shutdown never ends when a worker has lost its slots (`Shutdown.Loads`, then
  `Probes`): it blocks at `handleworker.go:120`, where `ctx.Done` is not looked at.
  `StopEnds` has this case as its exception.
* The process exits under executions and handlers that still run (`Shutdown.Exit`): they
  are in no WaitGroup (`dispatch.go:57`).  Until the exit they may report their results;
  after it their jobs come back by their deadline only.
* The process may exit with requests in flight (`Shutdown.Exit`): when five seconds are
  over `Shutdown` returns an error and `app.go:92` panics.
* A job popped after the cancellation is finished as Error without having run
  (`AsyncQueue.LoadFails`): `getTTL` gets the cancelled context (`handleworker.go:125`), so
  the job is not left to its deadline.  `OneLatePop` bounds such jobs.
* The lease of a run may be up to a second shorter than its ttl (`JobStore.Deadline`): the
  deadline is counted from the second of the pop (`luascript.go:56`) and passes when that
  second begins.  With ttl 1 a run may be retried at once; `OverlapOnlyAfterTtl` says
  ttl - 1 for this reason.
* A result may be lost (`AsyncQueue.Finishes`): the error of `running2Finish` is ignored
  (`handleworker.go:100-105`), and the job runs again after its deadline.
* Every query of a job stopped while it was queued ends in an internal error
  (`JobQuery.PositionMissing`): `TerminateScript` leaves its status Ready or TimeOut.
  `ErrorIsARace` has this case as its exception.
* The position and the length of a queue are two reads (`asyncjob.go:227`, `:233`), and
  their difference may be zero or negative (`JobQuery.ReadLength`).
* A recovered periodic job starts at once (`AsyncQueue.RecoverLoad`): the HGET at
  `asyncqueue.go:356` always answers WRONGTYPE.
* A periodic job between two firings cannot be stopped (`AsyncQueue.StopCheck`): its
  status is that of its last run.  `RefusedIsOver` therefore speaks of one-shot jobs.
* A job stopped while a sweep that has read its flag goes on is scheduled once more
  (`AsyncQueue.SweepEval`): `Running2PendingScript` does not look at the stop flag.
  `CronTimer.Plan` and `Renew` therefore allow a stopped timer to be armed by somebody who
  vouched for it before the stop.
* A job recovered while it runs is started in a second bucket
  (`AsyncQueue.RecoverSend`); the theorems without recovery (section 4) exclude this.
* A job recovered while it is queued or runs may be lost (`JobStore.Running2Finish`, then
  `Ready2Running`): a late result of the earlier run takes its ttl, and the pop then drops
  the job, whose status goes on saying Ready.  `StatusMatchesPlace` fails there, so the
  run that checks it has no recovery.
* A job recovered into the bucket where it is queued or runs is started any number of times
  (`JobStore.Pending2Ready`): the script finds it queued or running, leaves it in pending,
  and pushes it all the same, at every tick until that run ends.  `StartsBounded` and the
  theorems marked (r) or (s) in section 4 are therefore about systems without recovery.
* A failed `getData` ends the producer for good (`UidSegment.GetDataFails`).
  `IdsKeepComing` has this case as its exception.
* A resent delivery whose first copy has left pending delivers the job again
  (`Delivery.EvalRuns`): the script looks for it in pending only.  `AsyncQueue.Deliver` has
  no copies, so `StartsBounded` counts the starts of one copy.
* A cron spec with uneven intervals is accepted although a later interval is shorter
  than the ttl, and a valid one is refused when the clock passes its instant between
  two readings (`Delivery.CheckCron`).
* An aborted push loses ids that were taken out of pending (`BatchPush.PushBatch`).

## 4. Proofs

TLAPS proves, for every value of the constants that satisfies their assumptions
(finite `Ids`, natural ttls and retries, a cron function to later instants).  The
bounds of section 3.1 are constants too, so the theorems hold whatever their value,
except where a statement has a condition on one.  "(r)" stands for
`"recover" \notin Ops`, "(s)" for that and `MaxStarts # 0`, "(t)" for (s) and
`Retries[i] < MaxStarts` for every one-shot job `i`:

| theorem | statement | of |
|---|---|---|
| `TypeCorrect` | `Spec => []TypeOK` | `AsyncQueue` |
| `NoGhosts` | `Spec => []NoGhostJobs` | |
| `ScriptsNeverAbort` | `Spec => []ScriptsTotal` | |
| `ResultsAreFinal` | `Spec => []ResultMeansDone` | |
| `PoppedFindsSlot` | `Spec => []PoppedJobHasSlot` | |
| `NeverLost` | `Spec => []PeriodicNeverLost` | |
| `HomeIsUnique` | (r) `Spec => []HomeBucket` | |
| `ScheduledOnce` | (r) `Spec => []OnePlace` | |
| `BoundedStarts` | (r) `Spec => []StartsBounded` | |
| `CronMovesForward` | (r) `Spec => PeriodAdvances` | |
| `RefusedStopIsOver` | (s) `Spec => RefusedIsOver` | |
| `StatusIsTrue` | (s) `Spec => []StatusMatchesPlace` | |
| `LeaseRespected` | (s) `Spec => []OverlapOnlyAfterTtl` | |
| `TokenRefined` | (r) and `MaxStarts > Retries[job]`: `Spec => ImplementsToken` | `AsyncToken` |
| `TimerRefined` | (r) `Spec => ImplementsTimer` | `AsyncTimer` |
| `AnswerIsWhole` | (s) `QuerySpec => []FinalAnswerWhole` | `JobQuery` |
| `ErrorsAreRaces` | (t) `QuerySpec => ErrorIsARace` | |
| `DeliveryTyped` | `DeliverySpec => []TypeOK` | `Delivery` |
| `HomeOfDelivery` | `DeliverySpec => []OneHome` | |
| `NeverEarly` | `DeliverySpec => []NotEarly` | |
| `StoredBeforeOk` | `DeliverySpec => []AnswerMeansStored` | |
| `EvenSpread` | `DeliverySpec => []Balanced` | |
| `SignalsTyped` | `Spec => []TypeOK` | `ExecSignals` |
| `NeverPanics` | `Spec => []NoPanic` | |
| `ExecutionRefined` | `Spec => ImplementsExecution` | |
| `ShutdownTyped` | `ProcSpec => []ProcTypeOK` | `Shutdown` |
| `QuietStop` | `ProcSpec => QuietAfterStop` | |
| `OneJobLate` | `ProcSpec => []OneLatePop` | |
| `UidTyped` | `UidSpec => []UidTypeOK` | `UidSegment` |
| `SerialIdsUnique` | `UidSpec => UniqueUnlessRaced` | |
| `BatchesAddUp` | `BatchSpec => []BatchesAsOne` | `BatchPush` |
| `AbortExplained` | `BatchSpec => []AbortNeedsDuplicate` | |

The assumption that there is no recovery is needed: a recovery delivers a job anew to a
bucket of its own choice, with its full retry budget and, for a cron job, with the
current time as the next firing, so it may put a job in a second bucket, start it again
and move its cron entry back.
The conditions on `MaxStarts` are about the histories, which no action reads: starts are
counted and pops dated at all, or the counter is not saturated when the last start of
the job begins, which `BoundedStarts` lets start `Retries + 1` times.

`TypeCorrect` to `ResultsAreFinal` rest on one inductive invariant, `IInv == StoreInv /\ EnvTypeOK`.
`StoreInv` adds to the three properties of the store the conjunct
`RunningHidesResult`: a run in progress has no readable result.  Without it
`ResultMeansDone` is not inductive, since `Running2ReadyScript` sets the status
of an expired run back to TimeOut and must not find a result there.
`JobStore_proofs` shows that each script preserves `StoreInv` whoever sends it;
`AsyncQueue_proofs` shows that every process sends it ids, buckets and times of
the right kind, whatever it read before and however stale that is.

The other theorems of `AsyncQueue`, `AsyncToken`, `AsyncTimer` and `JobQuery` add to `IInv` what their
property lacks to be inductive:

* `SlotInv`: the worker also has a free slot while it is about to pop.  Only the
  worker takes slots of its bucket, everyone else gives them back.
* `HomeInv`: an id that was not issued has no bucket, and a request under way
  holds the bucket of its job, or the job was deleted since.  One lemma per script
  says that it puts no job where it was not (`NoneNew`).
* `OneShotInv`: a one-shot job that may still be popped (pending or queued, with
  its ttl) has a start left, `starts + retries left <= Retries`, and a running
  one has spent its start (`Budgeted`).  The ttl matters: a late result of an
  earlier run removes it while the retry is queued, and the pop then drops the
  retry.  That one push queues an id once rests on the lemma `OnceOrderings`: a
  surjection between finite sets of one size is injective.  Steps that only take
  jobs out of places preserve the invariant by one lemma (`ShrinksInv`); the four
  that put a job somewhere have one each.
* `FitInv`: a one-shot job keeps its ttl until its first run and during every run; only a
  job that was started is held by a worker or an execution (`Begun`); a job
  that waits, is queued with its ttl or runs has a status that `StopJob` accepts.  The
  conjuncts need each other: a late result removes the ttl of the queued retry, and
  only because it comes from a holder does it leave a job alone that never ran.
* `ShownInv`: in the bucket of a job that nobody stopped, each status comes with the
  place it names, and the four statuses that may be stopped with the ttl.  Two scripts
  could break it: a result that arrives late and removes the ttl of a queued retry also
  sets a final status, and a pop that finds no ttl, hence a final status, leaves it.
* `LeaseInv`: any two runs of a one-shot job that a worker or an execution holds were
  popped more than ttl - 1 seconds apart (`Apart`).  To know this of the next pop, the
  invariant says that the leases of all runs that are held are over (`Over`) when the job
  may be popped again, and by the deadline of the current run.  The lease of a pop in the
  second n is over at n + ttl, less than a second short of the ttl since the pop may have
  come at the end of n; `OverAtPop` and `TimesGrows` carry this cut through the parts of a
  second.  The running set keeps only the last deadline, so the earlier runs are in the
  invariant although no key of Redis remembers them.
* `CronInv`: a bucket that has a periodic job anywhere has its cron entry, and a job that
  waits there waits for the instant of the entry.  The script that takes a job out of
  pending finds it due, and the one that gives a new instant to the entry puts the job
  back.  `NeverLost` follows one job through every script by `CronKept`: its entry stays
  and the job is in pending or due for a sweep.
* `SweepAhead`: the clock reading of a sweep is not in the future, and the instant it is
  going to send lies after it.
* `WholeInv` and `QueryInv`: a final status has its result, and nothing makes a final
  one-shot job start again.  What a query read may be old, but a final status that it
  read is still the status when it reads the result.
* `RaceInv`: since the query read Ready or TimeOut, the job is still in the list, or it has
  raced (`Raced`): it was started, is over, or has the stop flag.  At the read `ShownInv`
  gives the list; a job leaves it by a pop that starts it, by one that finds no ttl, hence
  a final status, or by a stop or a deletion, and all of these are there to stay.
* The refinement (`Token_proofs`) rests on `IInv`, `HomeInv`, `OneShotInv` and `FitInv`, and
  on `View`: in the bucket that holds the job, `place`, `at` and `left` are read off the
  places case by case.  `OnePlace` and `HomeBucket` make the cases exclusive.  For each
  script a lemma says that the token stays, is over (`Finish`), or makes one of its other
  moves, and `BoundedStarts` that a retry and a pop find the budget the token has.

* The refinement of `CronTimer` rests on `IInv`, `HomeInv`, `CronInv`, `SweepAhead` and
  `SweepHome`: a sweep works on a job of its bucket, or one that has the stop flag there, as
  a deletion leaves it; so a sweep that finds no flag vouches for a job that is on.
  `CronInv` gives that a job fires at the instant of its entry, `SweepAhead` that it is put
  back for a later one.  A sweep that goes on after a stop only uses what was vouched for or
  planned (`SweepPlans`, `SweepVouches`).  The run has no deletion, which would add half as
  many states again; the theorem has.

The modules that do not contain `AsyncQueue` have invariants of their own:

* `DInv` (`Delivery`): what each request has read and done at each point of its handler
  (`Asked`).  The start that the client asked for is never before the instant left to
  wait for, whichever reading of the clock that was computed from; until the script ran,
  the id is in no bucket but the one that the request drew.  Ids that nobody asked for
  are nobody's (`Fresh`), and the round robin is in the middle of a round (`DealtInv`).
* `SignalInv` (`ExecSignals`): whoever has closed a channel or sent on it is
  past the point where it could again, and no channel is closed while another
  goroutine may still send on it.  `NoPanic` alone says nothing about the next step.
* `OngoingInv` (`ExecSignals`), on top of `SignalInv`, carries the refinement of
  `Execution`: until an execution is over nobody has touched `finishChan`, so its monitor
  leaves only after it has sent; a result is there until it is written, and no second one
  replaces it.
* `StopInv` (`Shutdown`): after each wait the goroutines waited for are gone, and stay so;
  a worker has at least as many handlers as executions; it has at most one late pop,
  and none before the cancellation nor between its select and its pop.  After a late
  pop it comes back to its select, where `ctx.Done` is ready.
* `UnracedInv` and `UidInv` (`UidSegment`): `MayGive` is what a producer may still hand out,
  in its channel or left of its segment.  No two producers may give the same id, none may
  give one that was handed out, and a producer that is about to write `max_id` has read
  its current value.  The last part is what the code does not ensure: it holds as long as
  no two producers are between the read and the write (`Serial`).  `UnracedInv` says that
  `UidInv` holds until that has happened (`raced`), whatever is restarted, fails or is left
  unused; `uid_two` shows an id handed out twice after it has.
* `BatchInv` (`BatchPush`): the ids pushed and then those collected number the due ids
  that the loop is through with, and a batch that has outgrown `Flush` has a duplicate
  where it was full.  Being a loop invariant it holds for any number of due ids.

Only model-checked is liveness (fairness and ENABLED are out of the prover's reach):
`CronRenewed`, `OneShotSettles`, `SlotFreed`, `StopReachesHandler`, `MonitorEnds`,
`StopEnds` and `IdsKeepComing`.

## 5. Not modelled

* Redis or SQL errors other than a failed `getData`, a lost reply to a delivery and a
  failed `running2Finish`: a transfer that fails is sent again by the next tick, a pop
  that fails by the worker's next round; a request that fails is one that stays in
  `call`.  A read of the worker that fails is not modelled beyond the cancelled context,
  and of the copies that go-redis sends only those of a delivery are (`Delivery`).
* The SQL log of deliveries, the decoding of requests and the texts of answers: one
  refusal (`Refused`) stands for every body that does not bind.
* The registry of handlers is a map filled before the first request; what handlers do
  beyond their signals and results touches no state of the queue.
* Bootstrap, configuration, logging, connection pools, HTTP middleware, mail, HTTP
  client, generated documentation: no state shared with the queue.

## 6. Plan

Done: the store, its processes and the life cycle of jobs, with their first proofs;
the abstract token, timer and execution, the refinements to them and their proofs;
the channels of one execution; the shutdown; the query; the delivery; the batches; the
id generator; proofs of the types and of every safety property.

Left out on purpose: a bound on the starts of a job that is recovered, since there is none
(3.3), and the prover's limits named at the end of section 4.
