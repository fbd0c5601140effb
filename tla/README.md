# CentralGauge: a verification project

CentralGauge benchmarks language models on AL, the language of Microsoft
Dynamics 365 Business Central. For each pair of a task and a model it asks the
model for code, compiles that code in a Business Central container and runs the
task's tests there. A run lasts hours, over a fleet of Windows containers that
fail often and in groups, and against providers that limit their rates; its
results are then uploaded to a scoreboard, one model after another, by cycles
that several processes may run. What is hard to get right is what lies between
"the model answered" and "the answer is on the scoreboard": work must be neither
lost nor run twice, and a broken container must never be counted as a broken
answer. This project models that part, checks it with TLC and proves much of
its safety with TLAPS.

Paths below are those of the repository (`src/parallel/...`).

## 1. Inventory

### The benchmark's core

| component | state | operations | hard behaviour |
|---|---|---|---|
| `CompileQueue` (`src/parallel/compile-queue.ts`, `semaphore.ts`), one per container | list of pending entries, `activeEntries`, compile semaphore, test mutex, `tainted`, a timer per pending entry | `enqueue`, the dispatcher `processQueue`, `runPipeline`, `drainPending`, `admitRebalancedEntry`, `markActiveForQuarantine`, `clearTaint` | the dispatcher waits for a permit while the list changes; a permit has three ways out; a timed-out test goes on in the container; timers race the dispatcher |
| `CompileQueuePool` (`compile-queue-pool.ts`) | the queues, parked entries with their timers, drained alerts, rotors | `enqueue`, `rebalanceFromContainer` (called by the monitor), `flushParkedTo`, `canReadmit`, `onContainerRecovered`, `cancelParked` | an entry keeps its promise while it moves; every container may be down; recovery awaits between its check and its effect |
| `withInfraRetry` (`infra-retry.ts`) | attempt, exclusions, waived alerts, retry trail | one loop around "compile and test" | budget against waiver, exclusions against moves by the pool, a trail that must be complete on each exit |
| `ContainerHealthMonitor` (`src/health/monitor.ts`), fed by `outcome-recorder.ts` or the dashboard's `bridge.ts` | rolling window per container, active alerts, dedupe keys | `record`, `clearAlert`, listeners | episodes that replace each other, keys that outlive them, outages over several containers |
| `RecoveryProber` (`src/health/recovery-prober.ts`) | recovery state per container, lifetime recoveries, the tick under way | `tick`, `processContainer`, `stop` | works from a snapshot across three kinds of await |
| LLM side (`llm-work-pool.ts`, `rate-limiter.ts`) | active requests, leases, request and token windows, waiters, back-off | `submit`, `acquire`, `release`, `updateFromError`, `drain`, `reset` | a waiter is served by a release only; a request is retried inside its slot; drain against submissions under way |
| Sessions (`src/container/session-slot.ts`, `pwsh-session.ts`) | one PowerShell process per slot, slot lock, dispose flags | `runScript`, `maybeRecycle`, `dispose` | a crash is retried, a timeout is not; the fallback runs outside the lock; dispose behind a queue of calls |
| Folder lock (`src/container/folder-lock.ts`) | a lock file shared by processes | `acquireLock`, `release`, `withFolderLock` | stale files are broken by whoever waits; the wait gives up; holders die |
| Orchestrator (`orchestrator.ts`, `result-aggregator.ts`, `terminal-record.ts`) with the retry rounds of `cli/commands/bench/parallel-executor.ts` | task permits, attempts, results, failures, the critical error | `runParallel`, `processTask`, `processVariant`, merge and save | tasks that wait for a permit when another one fails critically; results that survive rounds |

How they interact. The orchestrator asks the LLM pool for code and then calls
`withInfraRetry`, whose operation is `CompileQueuePool.enqueue`. The pool routes
the entry to the least loaded container the monitor has no alert on; its queue
runs the pipeline through the provider, which runs scripts in the container's
session slot and fills compiler folders under the folder lock. The outcome is
emitted as an event (`result`, `error`, `infra_retry_started`), which the recorder
gives to the monitor. When the monitor raises an alert it calls its listeners in
the same turn of the event loop; one is the pool, which drains that container's
queue and tags what runs there. The prober probes alerted containers, and once one
is healthy and quiet disposes its session, clears the alert and tells the pool.
All of it runs in one JavaScript thread: a step is atomic between two suspension
points (`await`, timer, callback), and it is the order of those steps that the
models leave open.

### From results to the scoreboard

| component | state | operations | hard behaviour |
|---|---|---|---|
| Lifecycle (`src/lifecycle/orchestrator.ts`, `event-log.ts`, the site's events endpoint) | an append-only event log on the server | `runCycle`, `detectActive`, `decideStep`, `forceUnlock` | the log is the lock, decided by reading it back; crashes between a step's events; times to live |
| Ingest (`src/ingest/*.ts`) and the scoreboard's handlers (`site/src/routes/api/v1/runs`, `blobs`, `admin/catalog/task-sets`) | status of each run, the blobs it refers to, the task sets | precheck, upload, insert, finalize; deletion of a task set | lost answers and replays; a handler that goes on after its connection broke; blobs deleted beside an ingestion |

Here the actors are processes and request handlers. They share nothing but the
server, and a step is one request's read or write.

### The rest of the program

The authoring dashboard (`src/dashboard`: a serial verify queue with a gate that
reads the bench marker of `src/utils/bench-lock.ts`), LLM adapters with
continuation and empty-retry (`src/llm`), container providers
(`src/container/bc-container-provider.ts`), task execution (`src/tasks`), the agent
benchmark (`src/agents`, `src/sandbox`, `mcp`), statistics (`src/stats`),
verification of shortcomings (`src/verify`), the reading side of the scoreboard
(`site`, a SvelteKit application on Cloudflare), and the command line (`cli`).
`PROJECT.json` lists each with the reason it is not modelled, or not yet.

### What makes each modelled component correct

- Queue: permits are neither leaked nor invented; work is never stranded by the
  `dispatching` flag; one test at a time per container, and none beside an
  operation the host gave up on, until a recovery re-admits the container; each
  `enqueue()` answered once.
- Pool: an entry is in one place at any time; it is never queued on an alerted or
  excluded container; what ran on an alerted one is not scored as the model's
  failure; order is kept; a caller cannot tell that its entry moved.
- Retry: never back to a container that failed the call; a complete and
  consistent trail; one free retry per alert; the call ends.
- Monitor: a failing container is never muted by the past; an outage takes all
  affected containers out; each alert is an episode of its own.
- Prober: only the episode that was proven is cleared, on a quiet container, at
  most so many times; a repaired container comes back; nothing begins after
  `stop()`.
- LLM side: no limit is passed; no lease, waiter or slot leaks; a release serves
  the waiters it can, in their order.
- Sessions: no process leaks; a script is not cut short by another call; what
  timed out is not run again; every call returns.
- Folder lock: a mutex, over crashes and stale files that are broken, until a waiter
  is overtaken while it breaks one; a dead holder is outlived;
  nobody waits for ever.
- Orchestrator: nothing begins after a critical error, whose round is not saved;
  every pair of a round is merged with what it ended with; every round ends.
- Lifecycle: of racing cycles one at most runs; what failed is done again, what is
  completed is not, and what a dead process began is not passed over for good.
- Ingest: what is reported is completed, what is completed has its blobs and
  stays so; a replay always gets there.

## 2. Modules

| module | models | lines of code |
|---|---|---|
| `CompileQueue` | the queues of all containers, with semaphore and mutex | `compile-queue.ts`, `semaphore.ts` |
| `CompileQueuePool` | EXTENDS `CompileQueue`: alerts, drain, parking, recovery | `compile-queue-pool.ts` |
| `WorkContract` | abstract: what the caller of `enqueue()` is promised | the interface of the two |
| `InfraRetry` | one call of `withInfraRetry()` over an abstract pool | `infra-retry.ts` |
| `HealthMonitor` | the reducer, the events that feed it, `clearAlert()` | `monitor.ts`, `outcome-recorder.ts` |
| `RecoveryProber` | EXTENDS `HealthMonitor`: ticks, awaits, stop | `recovery-prober.ts` |
| `RateLimiter` | leases, windows, waiters and back-off of one provider | `rate-limiter.ts` |
| `LLMWorkPool` | EXTENDS `RateLimiter`: submit, slots, retries, drain | `llm-work-pool.ts` |
| `SessionSlot` | one slot, its lock and the processes behind it | `session-slot.ts`, `pwsh-session.ts` |
| `FolderLock` | several processes over one lock file | `folder-lock.ts` |
| `Mutex` | abstract: what the callers of a lock are promised | |
| `Bench` | the rounds of a bench over answers of pool and queue | `orchestrator.ts`, `parallel-executor.ts` |
| `Lifecycle` | the cycles of one model over one event log | `lifecycle/orchestrator.ts`, the events endpoint |
| `Ingest` | clients, request handlers, store and deletion | `ingest/*.ts`, the site's handlers |
| `...Proofs` | theorems about the modules they extend | |
| `MC...` | values of constants, symmetry sets and views for TLC | |

A definition that models code keeps the name the code has for it, or says the
name in its comment; `PROJECT.json` "map" gives the lines. A definition whose
comment starts with "Mutant:" is a plausible bug in the definition that follows
it. It belongs to no specification and shows that a property can fail.

**CompileQueue.** An entry is one call of `enqueue()` and the promise it returns
(`promise`). `pending[c]` is the list `queue`, with its order in the relation
`before`; a relation and not a sequence, so that drains can be stated as set
operations and entries be symmetric. `dispatcher[c]` is where `processQueue()` is:
not running, waiting for a permit, or resumed with one. `stage[e]` is where
`runPipeline()` is; each stage ends at an `await`. `permits`, `testLocked` and
`tainted` are the fields of these names. `orphaned` is a fact about the world: a
test that timed out on the host still runs in the container. The clock is the one
question the code asks of it, whether an entry's queue-wait budget (counted from
its first `enqueue`) is used up (`spent`). Statistics and `drain()`, which
polls the two sizes, are left out.

**CompileQueuePool.** An alert is raised on a set of containers and drained by the
monitor's listener in one step, as in the code, where the listener runs inside
`record()`. A plan gives each moved entry its destination; the rotors choose among
equally good targets, so a target is any of them. Drain, flush and the flush of
a recovery differ in what they take and where it may go, and share the plan:
`Behind` keeps the order of what moves together, `Joining` puts it after what
is already there. A recovery is three steps, as the prober's awaits cut it:
`canReadmit()` holds, the session is disposed, the alert is cleared if it is still
the same one and the parked entries are flushed. Recovery clears the taint, and neither
pool nor prober knows whether the operation behind the taint is over; `overlooked`
remembers the containers re-admitted while it was not, until it ends or a timeout
taints the queue again.

**InfraRetry.** The pool is abstract here: it routes to an open container, moves
queued work when an alert hits and tags running work, which is what
`CompileQueuePool` is checked to do. Alerts change at any moment. `trail` is
`retries`; `routed` is what `onRouted` told the helper, `at` where the item
really is.

**HealthMonitor.** Fingerprints are classes of failures. An outcome is a clean
result, an error with its signature, or the start of an inline retry, which
carries the fingerprint alone. Alert ids count raises.

**RecoveryProber.** `pc` is what `processContainer()` awaits, `todo` the rest of
the tick's snapshot. The monitor goes on recording between the steps. Back-off
is a flag that time takes away.

**RateLimiter, LLMWorkPool.** A lease is named by the request that holds it. The
two sliding windows are one sequence of entries that leave it, oldest first, when
time passes. `pc` follows `submit()`: polling for a global slot, in
`executeWork()` with a lease or among the waiters, between two retries. A lease
that a release hands to a waiter carries no estimate, as in the code
(`estimated`). `drain()` sets `shuttingDown` and returns when no request is active.

**SessionSlot.** A caller takes the slot's lock, in order, and leaves it by
returning; `state`, `callCount`, `disposing` and `disposed` are the fields of these
names. `live` counts PowerShell processes, a fact about the world, and so do
`started`, `crashes` and `orphaned` for the script of a call. What is done under
the lock and seen by no one else, such as killing a session, belongs to the step
that leads there; the spawn fallback is a place outside the lock.

**FolderLock, Mutex.** Every step is one operation on the file system: exclusive
creation, write, stat, removal. Time goes in ticks. A behaviour is `prompt` or
it is not: in a prompt one a waiting process polls in each tick and a holder
is done before its file is old. Crashes and failed operations are faults.
`overtaken` is a history: some waiter has removed a file that was not old, because
others removed and created one between its look and its removal. Until then the
file is a lock, crashes, failures and broken files included; afterwards it need not
be (`BreaksOnlyStale`, section 3).
`Holders` is the refinement mapping to `Mutex`: who created the file and has not
finished its release.

**Bench.** A result is a record of the round it comes from, so that the two results
a pair may have are told apart. A pair ends in one of the ways of `Ended`; that
the pool and the queue answer is checked in their own runs, here they give any of
their answers. `phase` is the loop around the rounds: running, the prompt, saved or
thrown. The tasks of a round ask for permits in one turn, in the order of their
numbers, so a waiter's place in line is its place among them (`Place`). Names that
`FolderLock` has too carry the prefix `Bench`, as one module proves about both.

**Lifecycle.** The log is a sequence of events. The position of a cycle's started
event stands for its lock token, which is how the tie-break compares them. The
queries return what the code asks for, the oldest 50 or 100 events. A worker
reads, appends and reads back in steps of their own; `won` and `mine` are the
positions it knows, `aged` a history: how much of the log was an hour old when the
cycle took its lock. Two hours are enough to tell the two times to live apart.

**Ingest.** A handler is a process of the server with a client, or without one once
its connection broke; it may then write beside the handler of the retry. What a
handler reads in one go is one step and a batch of statements is one. The
deletion of a task set looks for orphaned blobs, deletes rows, then deletes blobs.
With an admin key a process registers its task set first (`EnsureTaskSet`), so a set
that was deleted can come back, and with it the runs that are replayed. Two histories
are there for the properties: `reported` are the runs a success was reported of,
until a deletion takes them; `vanished` are the blobs of a run that were deleted after
a finalize had looked for them, until they are uploaded again. What a deletion takes
between that look and the update of the row, the code does report as a success; it is
not counted there.

## 3. What is checked

| run | instance | properties | states |
|---|---|---|---|
| `queue` | 1 container, 3 entries, 2 permits, room for 2, maintenance on | `PermitAccounting`, `NoStall`, `AllWorkEnds` | 49 thousand |
| `pool` | 2 containers, 3 entries, 1 permit, room for 2, local and global alerts, exclusions | `NothingLostOrDoubled`, `TestsAloneUnlessReadmitted`, `RoutedWell`, `KeepsContract`, `OrderKept` | 189 thousand |
| `pool_live` | 2 containers, 1 entry | `EverySubmissionSettles` | 9 thousand |
| `llm_pool` | 4 requests, 1 lease, 3 requests and 3 tokens a minute, 3 slots, 1 retry | `LimitsHeld`, `NothingLeaks`, `ServedInTurn` | 149 thousand |
| `sessions` | 3 callers, 4 calls, recycling after 2 | `RerunOnlyAfterCrash`, `NoProcessLeaks`, `RunsToItsEnd`, `EveryCallReturns` | 162 thousand |
| `folder_lock` | 2 processes, old after 2 ticks, margin 1, 2 faults | `RefinesMutex`, `GivesUpOnYoungOnly`, `EveryAcquireReturns` | 167 thousand |
| `bench` | 2 tasks, 2 variants, 1 or 2 permits, 2 attempts, 2 rounds, 3 troubles | `RoundIsMerged`, `NothingBeginsAfterAbort`, `ResultsAreKept`, `RoundEnds` | 219 thousand |
| `retry` | 4 containers, 2 alerts, budgets 0 and 1 | `NeverBackToFailed`, `TrailChains`, `DeliveredRight`, `WaiverOnce`, `EveryCallEnds` | 425 thousand |
| `prober` | 2 containers, 2 fingerprints, one catastrophic, 2 raises, 1 recovery and 1 restart allowed | `KeysMatchAlerts`, `NeverMuted`, `OutageCoversAffected`, `ClearedIsProven`, `NothingBegunAfterStop`, `MendedComesBack` | 294 thousand |
| `lifecycle` | 2 workers, 2 steps, 2 kinds of request, 2 cycles, 1 fault, 1 hour, queries of 12 events and of 6 started events, an empty log or one of failed and dead cycles | `RaceHasOneWinner`, `CompletedIsEarned`, `CompletedIsNotRepeated` | 2.0 million |
| `ingest` | 2 processes, 2 runs of 2 task sets, 2 blobs, one shared, 2 tries, 1 fault, 1 deletion | `SuccessIsWhole`, `CompletedStays`, `EveryRunLands` | 463 thousand |
| `bench_merge` | as `bench` | `OneResultForEachPair`, violated | - |

All properties hold but the last. The type invariant of a module is a conjunct of
one of the properties its run checks; the queue's is part of the pool's and the
monitor's of the prober's. That of `FolderLock` is proved, and checked by no run.

Why the bounds are enough:

- `queue`: two permits and three entries let one entry test or wait for the
  mutex, one compile and one wait in the list, and let the dispatcher wait for a
  permit; room for two makes the queue-full answer happen. Queues do not touch each
  other's state, so one container is enough; the pool's runs have two.
- `pool`: with two containers one can be alerted while the other takes its work, or
  both, which is when entries park. Three entries are the fewest for an order to
  be got wrong by a drain while another entry runs. The view forgets what
  no action reads any more: the fields of an entry that is settled and over, and
  the budget and the exclusions of one that was dispatched.
- `pool_live` follows one entry through alerts, drains, parking and recoveries of two
  containers. Liveness admits neither view nor symmetry here, and two entries are
  more than a million states; `queue` shows that entries that wait for each
  other settle, on one container.
- `llm_pool`: one lease with four requests gives a list of waiters of which an
  order can be wrong; more slots than leases let requests wait in the limiter
  as well as for a slot. Actual tokens of 0 and 2 are below and above the estimate.
- `sessions`: three callers are one in the session, one in the queue and one that
  disposes. Four calls let a call come after the disposal.
- `folder_lock`: two waiters are enough for the race over a stale file; two faults
  are a dead holder or a failed write, and another while its file is broken. Waits are not counted past the deadline.
- `bench`: two tasks with one permit make one wait for it, two tasks with two race
  for the critical error; two rounds are the fewest for a merge of rounds. A trouble
  is an answer other than code that passes; three let a pair use its attempts up and
  another meet a critical error.
- `retry`: a call can run out of loop only after a free retry and a second
  quarantined result by the same alert, with a container left to plan for: with a
  budget of one that takes four containers. Two alerts tell "once per alert" from
  "once".
- `prober`: two raises are an alert and one that replaces it or follows a clear;
  one recovery allowed makes the flap cap bite. An outage takes both containers,
  a window of one entry makes the other kinds of alert happen at once.
  `NeverMuted` and `OutageCoversAffected` are proved for all sizes.
- `lifecycle`: two cycles are the fewest that race; the past that is given has a
  failed step after a completed one and a dead cycle, which a single hour makes
  older than a step's limit. That past has nine events and a query shows twelve, so
  logs outgrow a query while the cycles run. Two of the four steps are enough for an order of steps,
  and `publish` is one of them because the code decides on it differently.
- `ingest`: the shared blob and a deletable task set are what the deletion races
  with; two tries are one that fails and one that replays; one fault at a time. One
  deletion is enough for a run to be completed, deleted, registered anew and replayed;
  the proofs hold for any number. A registration and the upload of a blob have tries
  of their own and are one step each, as a repeated or late try does nothing that another
  process may not do beside it.

Every bound has its name among the constants (`Max...`) and is a conjunct of a
guard. Deadlock checking is off where the system really stops: all entries, calls
and runs answered, the bound of the calls reached, a round saved or thrown, a
stopped prober.

### Fairness

- Queue: a continuation that can run does run, as the event loop promises (weak
  fairness of each pipeline step and of the dispatcher). The provider is assumed
  to answer: each call it gets has a time limit. The queue-wait timer is
  not assumed to fire, so `queue` shows that work is done and not only timed
  out.
- Pool: besides, time passes; budgets run out and their timers fire. No alert and
  no recovery is promised: a parked entry is answered by its timer alone.
- Retry: the loop runs on and the pool answers, which is `EverySubmissionSettles`.
- Prober: its own steps, the interval timer and the end of a back-off; work in
  flight on a container ends; a repaired container answers healthy. Nothing is
  assumed of the repair itself or of `stop()`.
- Sessions: each process goes on, which says that a session answers, ends or runs
  into its timeout, and that a spawned process ends.
- Folder lock: time passes and a process that has not crashed goes on. A slow holder
  is not assumed to finish, nor any process to ask for the lock.
- Bench: the pool and the queue answer each call, and continuations run. That the
  user accepts or declines a further round is not assumed.
- Ingest: processes and handlers go on, and an
  operator replays what the scoreboard does not show as completed (strong
  fairness, since the replay is disabled while another process works on the run).
- The LLM pool and the lifecycle are checked for safety only. `Fairness` of
  `LLMWorkPool` is there for the statement below that does not hold.

### What does not hold

`bench_merge` is a run. `runParallel()` does not clear the aggregator it shares
with the earlier rounds, so a second round returns the results of the first too;
the merge of the retry loop drops the old results of the pairs just run
(`cli/commands/bench/parallel-executor.ts:600`), and then adds them again with the
new ones. A pair that was repaired by a retry has two results in the file, and its
failure is offered for retry again.

The modules also state what the repository says and the code does not do. No run
checks these; to see a counterexample put the name in the `.cfg` of the run given.

| statement | run | what happens |
|---|---|---|
| `TestsAlone` | `pool` | a test times out and taints its queue; the container is alerted, passes its probes and is re-admitted while the operation it abandoned still runs, and the next test starts beside it. `onContainerRecovered()` clears the taint on any recovery (`compile-queue-pool.ts:614`), and for a persistent alert probes alone are enough (`recovery-prober.ts:338`), against the comment "so the orphaned in-container op is gone" (`compile-queue-pool.ts:613`): killing the host's session does not end it (`src/errors.ts:381`). A recovery that restarts the container does |
| `TestsAlone` | `queue` (maintenance is on there) | `maybeMaintainNst()` runs after the test mutex is released; its session timeout is logged and the queue is not tainted (`compile-queue.ts:741`), so the next test starts beside what goes on, which `src/errors.ts:381` forbids. Off by default |
| `WaiverIsFree` | `retry` | the budget check of an infrastructure error (`infra-retry.ts:436`) compares the attempt with `maxRetries` alone, so a waived retry uses the budget up, against the comment at line 181 |
| `CatastrophicAtOnce` | `prober`, with `Threshold` and `WindowSize` 2 | `infra_retry_started` carries no signature id (`outcome-recorder.ts:81`), and with inline retries, the default, it is how a first failure is reported: a catastrophic one raises nothing, against `src/health/types.ts:47` |
| `NothingClearedAfterStop` | `prober` | `stop()` waits for a bounded time. A disposal that takes longer ends after it and the alert is cleared all the same (`recovery-prober.ts:356`), against line 24 |
| `EveryWaiterGranted` | `llm_pool` with `Items = {i1, i2}`, `Rpm = 1`, `MaxGlobal = 2`, `FairSpec`, no symmetry | `processWaiters()` stops at a full window or a back-off (`rate-limiter.ts:272`) and runs again at a release only: with no lease left the waiter waits for ever, against line 157 |
| `BreaksOnlyStale` | `folder_lock` | two waiters find one file old; the first removes it and creates its own, which the second removes (`folder-lock.ts:88`), against line 69. Prompt processes do this as well as slow ones |
| `OneCycleAtATime` | `lifecycle` | the tie-break lets the newest started event win (`lifecycle/orchestrator.ts:255`) also against a cycle that is in its steps, against `docs/site/lifecycle.md:86` |
| `CompletedMeansAllDone` | `lifecycle` | a step that was started within its time to live is passed over (`orchestrator.ts:150`) also when its process is dead, and the cycle completes without it, against `docs/site/operations.md:1128` |
| `EveryFailureIsHeeded` | `lifecycle` with `StepLimit = 6`, `CycleLimit = 9`, `MaxFaults = 0` | queries return the oldest events (`orchestrator.ts:671`): once a log outgrows the query for all events, an old completed event is seen and the failure after it is not, so the step is passed over and the cycle completes, against `orchestrator.ts:99` |
| `OnlyOrphansGo` | `ingest` | the orphans are listed before the deletion of the task set and used after it: a run inserted in between loses blobs (`task-sets/[hash]/+server.ts:91`) |
| `AnnouncedOnce` | `ingest` | two finalize handlers both read "running" and both announce the run (`finalize/+server.ts:101`) |

More that was seen while modelling, and that no definition states:

- The containers alerted when a retry was planned stay excluded for the rest of the
  call, also when they recover (`infra-retry.ts:486`), so a call can end with no
  eligible container beside healthy ones.
- An infrastructure error that names no container is booked on the container the item
  was routed to (`infra-retry.ts:426`), also when the pool had moved it to another one:
  the retry then avoids the wrong container. `NeverBackToFailed` is about the record
  the code keeps, not about where the attempt really ran.
- The back-off of a provider does not grow from one failure to the next: the lease of
  the failed request is released right after (`llm-work-pool.ts:284`), and every
  release resets the multiplier (`rate-limiter.ts:257`).
- A session in which no temporary file could be made stays "running"
  (`pwsh-session.ts:347`), and is disposed by the next call.
- When two cycles race both may lose. The queries of the lifecycle return the
  oldest events, not the newest. An answer lost after an append makes the retry fail
  with a conflict although the event is there.
- A critical error reaches the other tasks only after the sibling variants of its
  task have ended; in a retry round it loses the results of earlier rounds that are
  not saved yet. A retry runs all variants of all failed tasks, where
  `docs/cli/bench.md` says that transient failures alone are repeated.

## 4. What is proved

TLAPS proves the following for every value of the constants that meets the
modules' ASSUMEs (finite sets of containers, entries and processes, limits that are
natural numbers, markers that are not members of the sets they mark). A property
that a run checks is set in **bold**.

**CompileQueuePoolProofs, the queues.** `TypeOK`, **`PermitAccounting`**, **`NoStall`**,
`TestMutexOK`, `TestsAlone` and `ExactlyOnePlace`. The properties are not
inductive alone. `QueueInv(away)` adds to types: an entry not called for is in no
list and in no pipeline (`Fresh`), an entry has a site exactly when a pipeline took
it (`Sited`), and each entry is in one place (`WellPlaced`); these are `Base`. The
counter part needs `Base` for a step to change the set of compiling pipelines by
exactly one entry. `NoStall` then needs both: a dispatcher that sleeps has all
permits out, and each release hands over. The mutex part (`TestInv`) is inductive on
top of `Base`: lock and owner agree, and tests run on untainted containers only. An
operation is given up only together with the taint of its queue (`GivenUpTaints`);
that is what maintenance breaks, so `TestsAlone` assumes `~NstMaintenance`. `away` is
a set of unsettled entries that are in no queue: empty for the queue alone, `parked`
for the pool, which is how the pool's proofs use the queue's step by step.

**CompileQueuePoolProofs, the pool.** **`NothingLostOrDoubled`**, **`RoutedWell`**,
**`TestsAloneUnlessReadmitted`** (with maintenance off),
**`KeepsContract`** and **`OrderKept`**. What a queue has given up has tainted it or
was overlooked by a recovery (`PoolTestInv`): only `Recovered` moves a container from
the one to the other, so the weakness of the recovery is all there is. `PoolInv` is `QueueInv(parked)` with the
pool's types and the parts of `RoutedWell`. Drain, flush and recovery each choose a
plan; lemmas about any plan (`IsPlan`, `Fits`) say where its entries go, that
nobody else moves, and that no list grows over its room. In `enqueue()` the flush
that comes first never moves anything, since a parked entry has no target
(`IdleFlush`, from `ParkedHasNoTarget`). The refinement needs one fact more, that
only dispatched work is tagged (`TagInv`); each step maps to legal moves of some
entries or to stuttering. `OrderKept` needs that `before` relates entries of one
list only and one way (`Lined`), which a plan keeps because what it moves together
stays together.

**InfraRetryProofs.** `TypeOK`, **`NeverBackToFailed`**, **`TrailChains`**,
**`DeliveredRight`** and **`WaiverOnce`**. `RetryInv` counts the records (one per
retry planned), puts the item in flight on a container outside the exclusions, and
every blamed container inside them. Each answer either ends the call, which changes
no more than the last record's container and outcome (`Finalize`, twice when the
helper catches its own error), or appends a record whose origin is the container
just excluded. `AccountInv` adds what the two last properties rest on: while a call
goes on it has no verdict and each record its placeholder outcome (`Undecided`), a
call without a budget keeps no records (`DisabledBare`), and waived records are paired one to one with the
alerts that moved the item (`WaiversPaired`). The proof first says what a step may
do to the records (`Shape`: nothing, end the call bare, end it with its record
decided, plan a retry), and then argues about the four shapes.

**RecoveryProberProofs.** The monitor first, driven by anything (`MonitorSpec`):
`MonitorTypeOK`, **`KeysMatchAlerts`**, **`NeverMuted`**, **`OutageCoversAffected`**
and `FreshEpisodes`. The invariant is types, ids no larger than the counter, and
`KeysMatchAlerts`; the action properties follow from it and one step. `NeverMuted` is
the one that needs the keys: a raise is suppressed only by a key, and a key means an
alert that is up. `DrivesMonitor` then shows that the prober implements `MonitorSpec`:
each step of `Spec` is a step of the monitor or leaves its variables alone, so that
all of this holds beside a prober under way, whatever happens between its awaits.
Its own **`ClearedIsProven`** and **`NothingBegunAfterStop`** rest on `ProberInv`.
An alert the prober holds in hand was raised before its tick, with the id it has in
the snapshot (`SnapshotFits`); and while it works on a container it is on its case
(`OnTheCase`): the state it keeps is that of this episode, the container is not given
up and has recoveries left, a suspect was restarted before it is probed or cleared,
and before the clear the probes in a row are enough and, unless the episode has
changed, no work is left.

**LLMWorkPoolProofs.** **`LimitsHeld`**, **`NothingLeaks`** and **`ServedInTurn`**.
`LimiterInv` says of the limiter that leases and waiters are disjoint, no request
waits twice, and both limits hold; `PoolInv` adds that only a request in
`executeWork()` is known to the limiter and that the slots taken are those of
requests that execute or wait to be retried. The work is in the release, which serves
a prefix of the waiters and stops at the first limit: what it serves fits both
limits, the next does not, and no waiter is passed over. Nothing depends on what the
tokens of a window sum up to, which is a recursion over data; so the token limit,
which the code itself passes when estimates are wrong, is no part of `LimitsHeld`.

**SessionSlotProofs.** **`NoProcessLeaks`**, **`RerunOnlyAfterCrash`** and
**`RunsToItsEnd`**. `SlotInv` says who may be inside (`LockOK`), which session state
fits the place of the one inside (`SessionOK`), how often its script was started
and crashed by then (`Counted`), and that those outside have nothing (`RestOK`).
The lock part is what makes a step of one caller leave the others' facts alone.

**BenchProofs, the bench.** **`RoundIsMerged`**, **`NothingBeginsAfterAbort`** and
**`ResultsAreKept`**. `BenchInv` has the semaphore (`Semaphore`: permits within the
limit, waiters in line once each, no waiter beside a free permit) and the rounds
(`RoundInv`). The semaphore is right at the start because `Place` numbers the tasks
of a round without gaps (`PlacesNumber`), and stays right because who leaves hands
over (`LeavingHandsOver`). A round is merged rightly because pairs are at work in
running tasks only (`AtWork`), a completed task has put what its pairs came to into
the aggregator (`Delivered`), and a task is passed over only when another has failed
(`Aborted`), in which case the round is thrown. That each pair has one result after
the first round needs that the aggregator holds results of completed tasks of this
round only (`FirstResults`), which is what a second round breaks.

**BenchProofs, the folder lock.** `TypeOK`, `MutualExclusion`, **`RefinesMutex`** and
**`GivesUpOnYoungOnly`**. `LockInv` is types and, while the behaviour is prompt and
no waiter was overtaken, that whoever is inside has its own file in place, younger
than the age at which it may be broken; so the file a waiter breaks is nobody's. Both
conditions are needed: a holder that outlives the age of its file is robbed of it, as
the code's own comment says (`folder-lock.ts:27`), and so is one whose file an
overtaken waiter removes. A bounded wait needs that a waiter at its deadline has a
poll of this tick to come (`Punctual`), and `GivesUpOnYoungOnly` what that poll found.

**LifecycleProofs.** **`RaceHasOneWinner`**, **`CompletedIsEarned`** and
**`CompletedIsNotRepeated`**. For the race, the queries show a running worker its own
started event (`Shown`), and of the later ones that it could see when it won none is
of an active cycle (`Newer`). The lemmas are that the log grows, that what a query
shows it goes on showing, that an ended cycle stays ended, and that the newest of a
finite set of positions exists. The proof covers crashes, lost answers, expiry and
forced unlocks, and any number of workers and length of the log. The other two are
about what the loop makes of the log, of any length too. The queries return the oldest
events, so from the 101st on (`orchestrator.ts:671`) a cycle no longer sees what is
appended; the two properties speak of what a query shows, and the proof rests on the
fact that this is a prefix of the log that only grows, so that verdicts on the past
are final (`VerdictStands`). What the code misses beyond it is `EveryFailureIsHeeded`.
`LoopInv` adds that each step a cycle has passed came out well, again when it had
failed, or was begun lately (`Progress`), and that a step it is about to begin is not
known to be done, or was done by another cycle meanwhile (`Needed`).

**IngestProofs.** **`SuccessIsWhole`** and **`CompletedStays`**. `IngestInv` adds what
a finalize past its check may rely on (`Vouching`: the blobs it looked for are there
or vanished), that the current
task set is never under deletion (`KeepsCurrent`), and that the tries of a request are
counted from its first (`TriesLeft`).

Every safety invariant and every action property that a run checks is proved. Model-checked
only is liveness (`AllWorkEnds`, `EverySubmissionSettles`, `EveryCallEnds`,
`MendedComesBack`, `EveryAcquireReturns`, `EveryCallReturns`, `RoundEnds`,
`EveryRunLands`): fairness needs ENABLED, which is out of the prover's reach.

## 5. What is left out of the models

Text (fingerprint normalisation, signature patterns, messages), logging,
statistics and snapshots for display; compile and publish work itself; time other
than the questions the code asks of it. A crash of the bench process is left out of
the queue, the pool and the bench, as nothing of their state is persisted; it is
in the folder lock, the lifecycle and the ingest, whose state outlives a process.

Hazards that were read and that no module covers:

- `llm-work-pool.ts:651`: `drain()` waits for active requests only; a `submit()` that
  polls for its slot passed the shutdown check already. The model lets it go on, as
  the code does, and no property is about it.
- `session-slot.ts:225`: `dispose()` returns while a spawn fallback, outside the lock,
  is still at work.
- `pwsh-session.ts:317`: killing a session awaits the end of its error stream without
  a bound.
- `infra-retry.ts:486`: see above.
- `bench-lock.ts:161`: the marker is one file for all benches, and the first to end
  removes it.
- `verify-queue.ts:201`: the dashboard's queue and its gate.

Ingest leaves out the registration of models and pricing, signatures and
clock skew, rate limits, a changed payload under an old id, and runs of
verification. The lifecycle leaves out what the steps do and the queue of pending
reviews. Whole components are in the list of `PROJECT.json`: the container
providers and the command line are input and output around the modelled parts, the
agent benchmark drives an external program, statistics and the reading side of the
scoreboard are queries, the LLM adapters are clients whose failures reach the pool.

## 6. Plan

In this order:

1. **Proofs**: that a step of a queue within its bounds is one of the bench's answers,
   so that `Bench` and `CompileQueuePool` are tied by more than their interfaces.
2. **Bench marker and verify queue**: two benches, the marker they share, a serial
   queue with the gate that reads it.
3. **Shutdown** of the orchestrator in `Bench`: unsubscribe, cancel what is parked,
   drain; and `CompileSessionPool` over several slots.
4. **LLM continuation and empty retry**, and the scoreboard's broadcaster.
