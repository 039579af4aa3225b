# AnvilMQ: TLA+ verification project

AnvilMQ is a job broker: a Rust gRPC server that keeps its queue in SQLite, and
a TypeScript client. Paths below are relative to the repository root.

## The system

| Part | Source | State | Operations |
| --- | --- | --- | --- |
| Enqueue | `src/enqueue.rs` | `jobs`, `enqueue_receipts`, `chain_counters`, `enqueue_rejections` | AddJob, AddJobBulk |
| Flows | `src/flow.rs` | flow columns of `jobs` (`pending_children`, `fail_parent_on_failure`, `tree_id`) | AddFlow, AddFlowBulk, AddFlowMerge |
| Dispatch | `src/main.rs` `get_next_job` | claim columns of `jobs`, `facet_dispatch` | GetNextJob |
| Acknowledgement | `src/main.rs` `finish_job` | `jobs` to `job_history` | CompleteJob, FailJob |
| Leases | `src/leases.rs` | `lease_expires_at_ms` | Heartbeat, recovery loop |
| Limits | `src/rate_limit.rs`, `src/ingress_limit.rs` | rules and counters | upsert, delete, consume, admit |
| Retry arithmetic | `src/scheduling.rs` | none | `retry_delay`, `apply_jitter` |
| Retention | `src/retention.rs` | deletes from most tables | sweep loop |
| Repeatable jobs | `src/scheduler.rs`, `src/schedulers.rs` | `job_schedulers` | upsert, delete, firing loop |
| Metrics | `src/telemetry.rs` | gauges in memory | updates after each commit |
| Backup | `src/backup.rs` | snapshot files | copy, rename, prune |
| Search | `src/fts.rs` | FTS5 table and two triggers | setup, backfill |
| Read-only queries | `src/reader.rs` | a semaphore, connections | query |
| Process | `src/main.rs` `main`, `src/db.rs` | servers, tasks, a broadcast channel, the WAL | start, serve, drain, checkpoint |
| Client | `client/src/index.ts` | worker loop, outbox | run, heartbeat, retry, drain |

Every change to the queue's tables is made under one mutex, in one IMMEDIATE
SQLite transaction. That is why each handler, each recovery tick and each sweep
is one atomic action here; a scheduler tick is several transactions and several
actions, and a snapshot, the set-up of the search index and a shutdown are many.
What remains hard is everything between transactions: late, duplicated and
reordered requests, leases that run out while a worker still works, a wall clock
that is set back, several paths to a terminal state that must agree, counters
that shadow the rows they count, sweeps that forget what a late request still
needs, and a process that may die between any two steps.

## Modules

| Module | Models |
| --- | --- |
| `Store` | The tables, their initial state, the clock, and the row changes several handlers share |
| `Scheduling` | `retry_delay` on `WordBits`-bit integers, `apply_jitter` |
| `Enqueue` | An open transaction as a record; `enqueue_one` on it; AddJob and AddJobBulk commit it or roll it back |
| `IngressLimit`, `RateLimit` | The two kinds of limit and their rule handlers |
| `Flow` | Flow trees, flattened as `prepare_node` does, and the three flow RPCs |
| `Leases` | Claim fencing, Heartbeat, `recover_expired` |
| `Broker` | GetNextJob, CompleteJob, FailJob; `Next`; the properties of the queue |
| `AbstractQueue` | What a job queue promises, without tables, leases, flows or time |
| `Refinement` | The view of `Broker`'s tables as an abstract queue |
| `Retention` | `Broker` with the sweeper beside it |
| `Telemetry` | `Retention` with the gauges every handler updates, and restarts |
| `Schedulers` | `job_schedulers`: upsert, delete, and a tick as a scan followed by one action per fire |
| `Snapshots` | A backup cycle: copy, rename, prune |
| `SearchIndex` | The schema objects and rows of the search index |
| `Reader` | Permits, timeouts and stray closures of read-only queries |
| `Process` | `main`: start-up, shutdown, loops and crashes, composed with the three above |
| `MCBroker`, `MCRetention`, `MCTelemetry`, `MCScheduling`, `MCSchedulers`, `MCProcess` | Constants for model checking |
| `EnqueueProofs` | Theorems on retry delays and jitter, and lemmas on what an enqueue inserts |
| `BrokerInvariant` | The inductive invariant of `Broker`, and lemmas per action: what it does to the rows, and that it keeps the invariant |
| `BrokerSteps` | The same for the limits, the refinement, running claims and the gates of flow parents |
| `SlotSteps` | The same for idempotency slots and failure cascades |
| `RetentionSteps` | The same beside the sweeper: slots, lineages, chain counters, what pruning leaves |
| `BrokerProofs` | The theorems about `Broker` and `Retention` |
| `SchedulersProofs`, `ProcessProofs` | The invariants and theorems of `Schedulers` and `Process` |

`Broker` extends the modules above it; `Retention` extends `Broker`, and
`Telemetry` extends `Retention`, each by conjoining to every action what it does
to the new variables, so that no handler can be forgotten. `Schedulers` extends
`Enqueue` only: the jobs it fires go through the same `enqueue_one`, and what
happens to them later is `Broker`'s. `Process` sees the database as a version
number, the rowids of `job_history` and whether the WAL has frames.

`claims` and `acks` (`Store`), `origin` and `ended` (`Retention`), `missed`
(`Telemetry`), `fires` and `born` (`Schedulers`), `published` and `stuck`
(`Snapshots`), `torn` (`SearchIndex`) and `seal` (`Process`) are history variables: they never
decide what a step does (`published` only bounds the number of cycles). Operators named `X_Something` before `X` are faulty variants of `X`;
each makes some property fail, which shows that the property depends on that code.

### Abstractions

- The network is not a variable. A request may carry any job, worker and attempt
  at any time, which covers delay, duplication, reordering and lost replies.
- A crash rolls back the open transaction and keeps committed ones (the
  durability SQLite gives), so on the tables it is a stuttering step. Where a
  crash does show it is an action: `Restart` (gauges are counted again), `Crash`
  in the middle of a scheduler tick, and `Die`.
- Job ids are issue numbers. The random id that breaks the last tie in the
  dispatch order is left open, so any of the tied jobs may be chosen. So are ties
  in the order of a pruning statement.
- `get_next_job` reads the clock twice in a transaction; the model reads it once.
- The ingress estimate is scaled by the window and exact; the code divides in
  `f64`, so a rounding error exactly at the limit is not represented.
- `apply_jitter` draws a float; the model draws from `JitterDen` steps.
- A batch of AddJobBulk has two requests.
- A cron pattern is a period. Everything checked depends only on
  `next_cron_after` being strictly after its argument.
- `run_once` of the scheduler holds the writer's lock from the scan to the last
  fire. `batch` is what is left of the tick, and handlers that need the lock wait
  until it is empty; the clock, a storage error and a crash do not wait.
- `rejections` is a set of records and a record may stand for several rows.
- Metrics are updated after the commit but before the writer's lock is released,
  so a handler and its gauges are one step.
- A snapshot's content is the version of the database its copy began with.
- The servers are tonic's and hyper's: their graceful shutdown is taken to stop
  accepting, wait for what was accepted, and return.
- Requests that are refused without a record change nothing and are not actions.

## Runs

Run them in this directory, for example `tlc -config MCClaims.cfg MCBroker`.

| Run | Module, config | Checks |
| --- | --- | --- |
| `claims` | `MCBroker`, `MCClaims` | `TypeOK`; `NoJobLost`; `ClaimsExclusive`; `AttemptBudget`; `AcksAgree`; `ClaimProtected`; `OutcomeFinal`; `ImplementsQueue` |
| `jobs` | `MCTelemetry`, `MCJobs` | `SlotsSound` and `NoDuplicateWork` (idempotency); `GateHolds` and `FailureFollowsFlags` (flows); `GaugesExact` |
| `progress` | `MCTelemetry`, `MCProgress` | `ExpiredClaimsEnd`, `Reclaimed` (liveness); `GaugesExact` |
| `retention` | `MCRetention`, `MCRetention` | `DedupWindow`, `ChainWindow`, `LineageDerived`, `AgeKeepsReplay`, `NewestKept`, `SweepKeepsOrder` |
| `limits` | `MCBroker`, `MCLimits` | `DispatchWithinRule`, `AdmissionWithinRule`, `RejectionLeavesNothing` |
| `backoff` | `MCScheduling`, `MCScheduling` | `RetryDelayExact`, `BackoffGrows` |
| `schedules` | `MCSchedulers`, `MCSchedules` | `SchedulersTypeOK`, `NoBackfill`, `BookkeepingAgrees`, `FiresAreCurrent`; `DueIsServed` (liveness) |
| `process` | `MCProcess`, `MCProcess` | `ProcessTypeOK`, `RecoveryPoint`, `SearchExact`, `CheckpointIsLast`, `TempsAccounted`; `ShutdownCompletes`, `QueriesEnd` (liveness) |
| `lost_cascade`, `early_release` | `MCBroker` | Findings 1 and 2 below; each ends in a counterexample |
| `early_prune` | `MCRetention`, `MCEarlyPrune` | Finding 3; a counterexample |
| `receipts_gauge` | `MCTelemetry`, `MCReceiptsGauge` | Finding 4; a counterexample |

A comment above each property states it and names the code it is about.

**Bounds.** `MaxJobs` bounds the jobs ever accepted, `MaxTime` the clock; both
are guards, so behaviours stop there and are not cut in the middle of a handler.

- `claims`: two workers and two jobs of up to two attempts, a lease of two ticks
  in four ticks of time, a clock that may step back, and an `attempt` field that
  is absent (0), current or stale. This is what a late acknowledgement, a claim
  taken over after expiry, a second attempt of the same worker and an expiry of
  the last attempt need.
- `jobs`: four jobs, so that a flow of three levels, a flow whose children race
  and a merge into a live job fit beside single and batched enqueues that compete
  for the same key.
- `progress`: two jobs with a recovery batch and a sweep batch of one, so a tick
  leaves work behind, and a lease of two ticks, so a heartbeat really prolongs it.
  Leases are granted and renewed only while their end lies within `MaxTime`
  (`LeaseFits`). That ends every renewal in the model, so `ExpiredClaimsEnd` speaks
  only of leases that have run out; a worker that renews in time may keep its claim
  for ever.
- `retention`: three jobs over two queues and two facets, a depth limit of one
  and a chain limit of two; sweeps by age, by idleness and by count are three
  configurations chosen at the start. A state constraint stops at two kinds of
  rejection.
- `limits`: windows of one and two ticks and rules that are tightened and loosened, so a
  window opens, fills, slides and changes rule in its middle.
- `backoff`: every base, cap and attempt of a narrow word, the sign bit and
  shifts past the width included.
- `schedules`: three schedulers and a batch of two, so a scan can leave a due one
  out; one crash or storage error.
- `process`: three deployments, each with one of the features that interact with
  the life of the process: snapshots over two starts with one kept, search
  switched on and off over three starts, and two queries competing for one permit.
  At most one closure of a cancelled call is under way at a time (`orphans`), and a
  scan of the schedulers commits up to twice (`FireBatch`).
  The features share no state but the version of the database.

`schedules` also checks that no state is stuck. The other runs do not: at
`MaxJobs` and `MaxTime` a queue whose jobs are all finished has nothing left to
do, and a process that has stopped stays stopped.

**Fairness.** Nothing is assumed of workers, clients, operators, signals,
failures or restarts.

- `progress`: the clock advances, and the recovery and sweep loops tick, as the
  `tokio::time::interval` loops of `main()` do.
- `schedules`: the scheduler loop keeps scanning, and a scan it has begun goes on.
  `DueIsServed` is about a scheduler that stays due; it presumes that the
  schedulers a rule rejects on every tick do not fill the whole batch (`Crowded`).
- `process`: `main`, the relay of a signal and the servers take the steps they
  are ready for; an accepted request, a closure of a query and a snapshot come
  to an end; a query that waits times out. These are the runtime polling ready
  tasks, the timeout in `Reader::query` and the progress handler.

## Findings

Behaviours of the code that differ from what the repository says of it.

1. `lost_cascade`: `recover_expired` (`src/leases.rs:79`) ends an exhausted job
   without looking at `fail_parent_on_failure`. `proto/queue.proto:99`: "This
   node's terminal failure fails its parent". The parent then waits for ever.
2. `early_release`: `finish_job` (`src/main.rs:520`) decrements
   `pending_children` of whatever row `parent_id` names, also for a job that was
   enqueued under a flow parent with AddJob and never counted. `README.md:196`:
   "a parent in `WaitingChildren` is not claimable until every child reaches a
   terminal state".
3. `early_prune`: only the age limits have a floor; `prune_count`
   (`src/retention.rs:206`) may delete a job right after its completion.
   `README.md:417`: "so a terminal job cannot be pruned while a duplicate
   lifecycle RPC is still replaying against history".
4. `receipts_gauge`: the failure cascade (`src/main.rs:589`) deletes receipts it
   does not report. `src/telemetry.rs:424`: "decrement the retained-receipts gauge
   so `anvilmq_enqueue_receipts` stays accurate". The count is right again after a
   restart.

## Proofs

TLAPS proves, for every value of the constants that satisfies the named
assumptions (any number of jobs, workers, keys, queues, schedulers, queries and
snapshots, any word width, any flows), these theorems about `Spec` of `Broker`,
`RetentionSpec`, `SchedulersSpec` and `ProcessSpec`:

| Theorem | States |
| --- | --- |
| `InductiveInvariant` | `[]IInv` |
| `TypeCorrect`, `JobsConserved`, `ClaimsAreExclusive`, `AttemptsWithinBudget`, `AcknowledgementsAgree` | the invariants `TypeOK`, `NoJobLost`, `ClaimsExclusive`, `AttemptBudget`, `AcksAgree` |
| `OutcomesAreFinal` | `OutcomeFinal` |
| `BrokerImplementsQueue` | `ImplementsQueue`: the broker implements `AbstractQueue` |
| `DispatchLimited`, `AdmissionLimited` | `DispatchWithinRule`, `AdmissionWithinRule` |
| `RejectionsLeaveNothing` | `RejectionLeavesNothing` |
| `SlotInvariant`, `SlotsAlwaysSound`, `NoWorkDuplicated` | `[]SlotsInv`; the invariants `SlotsSound`, `NoDuplicateWork` |
| `FailuresFollowFlags` | `FailureFollowsFlags` |
| `GatesHold`, `ParentsWait` | `GateHolds`, `NotClaimableBeforeChildren`, when AddJob names no parent |
| `ClaimsOutliveOthers`, `ClaimsProtected` | `ClaimProtected`, as long as no parent is Active while a live child would fail it; and when AddJob names no parent |
| `RetentionInvariant` | `[]RInv` of `Retention` |
| `DedupWindowHolds`, `LineagesDerived`, `NewestAreKept`, `SweepsKeepOrder` | `DedupWindow`, `LineageDerived`, `NewestKept`, `SweepKeepsOrder` |
| `AgeKeepsReplays`, `ChainWindowHolds` | `AgeKeepsReplay`, `ChainWindow`, for a clock that is not set back |
| `BackoffExact`, `BackoffMonotone`, `JitterInRange` | What `RetryDelayExact` and `BackoffGrows` say, for every word, base, cap and attempt |
| `SchedulersInvariant`, `SchedulersTypeCorrect`, `BooksAgree` | `[]SchedulersInv`; `SchedulersTypeOK`, `BookkeepingAgrees` |
| `OccurrencesFireOnce`, `FiresFollowTable` | `NoBackfill`, `FiresAreCurrent`, for a clock that is not set back |
| `ProcessInvariant`, `ProcessTypeCorrect` | `[]ProcessInv`; `ProcessTypeOK` |
| `SnapshotsRecover`, `SearchIsExact`, `CheckpointLast`, `TempsBounded` | `RecoveryPoint`, `SearchExact`, `CheckpointIsLast`, `TempsAccounted` |

**The inductive invariant** of `Broker`, `IInv` (`BrokerInvariant`), is the conjunction of the five
invariants above and `CompletionsClaimed`: a Completed row of `job_history` names
a claim that was granted. None of the parts is inductive alone. Exclusiveness needs
that attempt numbers never fall below a granted one. `AcksAgree` needs
exclusiveness (the claim that answers is the only one of its attempt) and that
jobs are conserved. `CompletionsClaimed` is there for `ReplayCompletion`, which
answers Ok from `job_history` alone. The budget needs that every row rests in the
queue with an attempt left, because GetNextJob does not look at `max_attempts`.

**The argument.** `BrokerInvariant` names the few things a handler can do to a
row: insert it fresh, keep it apart from its gate, take its claim back, end it, or
leave it (`Fresh`, `Kept`, `Requeued`, `Ended`). It shows once that a step made
of these keeps the invariant, and that enqueues, rule changes and
the clock are such steps. A claim has a section of its own: GetNextJob grants it, a
heartbeat prolongs it, recovery takes it back. CompleteJob and
FailJob have another, where answers are given. `EnqueueProofs` has what they need about
`enqueue_one`, flows and retry delays. `StepKeepsInvariant` has one step per action, and `BrokerProofs`
concludes. The facts about finite sets come in only there (`AllCounted`), which
keeps the context of the other modules small.

**The refinement.** `View` maps a row to a job's status, owner, attempts used and
budget; `acks` are the answers. The lemmas per action also say what each action
does as seen through `View` (`Undisturbed`, `TakenBack`, `Completes`, `Retries`,
`FailsWith`), and `BrokerSteps` turns each into a step of `AbstractQueue` or
a stutter. The interesting cases are the cascade (one answer fails several jobs
at once), the recovery batch (which must fail a job exactly when its budget is
used up), and a merge (fresh jobs are submitted while a live one is re-gated,
which must not show).

**The limits** are inductive with `TypeOK`: a counter is started or raised only
under the rule that is read in the same transaction, and replacing a rule drops
the counter, which is why an operator may tighten it in the middle of a window.

**Slots.** `SlotsInv` (`SlotSteps`) speaks of the jobs issued so far, wherever
their row is: a receipt names a job of its own queue and key that has not given the
slot back, with the options the receipt stored; every keyed job that has not given
its slot back is named by it; and of two jobs of one slot the earlier one gave it
back. The last part is `NoDuplicateWork`, and it does not follow from the other
two: a later job that was itself released leaves no trace in the receipts. It is
preserved because `enqueue_one` and the flow RPCs insert under a key only when its
slot is empty, and an ending frees a slot exactly for the jobs that asked for it.
The invariant is stated for any tables (`Slotted`) because a batch and a flow pass
through states that are never committed.

**Cascades.** `FailedWith` is the least set that holds the failing job and is closed
under flagged live parents. If a member other than the first had no flagged failing
child, the set without it would be closed too and smaller. So the theorem needs no
bound on the depth and no well-formed tree.

**Gates.** `GateInv` (`BrokerSteps`) is `IInv`, that a parent is issued before its
children, and for each job ever issued that `pending_children` is the number of its
children not yet Completed. A step is one of three things to it. It is `Calm` if no
open child appears or disappears. It is a completion, which takes one child from
one parent, and releases that parent at zero. Or it is `Planted`: new jobs come with
parents among the new jobs, or below the one job that a merge gates again, which is
raised by exactly its new children; `flatten` numbers children after their parents,
so the count of a node is its fan-out. A job that fails or expires stays an open
child, which is why its parent waits on. `NoNamedParents` (AddJob and AddJobBulk name no
`parent_job_id`) is the hypothesis: `complete_child` subtracts such a child although
nothing ever added it. That is finding 2, and `ParentsWait` shows that there is no
other way to it.

**Running claims.** While a lease runs, only an acknowledgement that carries its
worker and attempt, a cascade and a merge could touch the row. A merge does not, since
an Active job is not gated again; recovery does not, since the lease has not run out.
A cascade does if the row is the parent of a flagged failing job, and that parent is
Active only after an early release. Hence the hypothesis of `ClaimsOutliveOthers`,
which `GateInv` discharges in `ClaimsProtected`.

**Retention.** `IInv` is not an invariant of `RetentionSpec`: a sweep deletes rows of
`job_history`, so jobs are not conserved. `RInv` (`RetentionSteps`) keeps what
survives: types, and for each job the options and the link it was accepted with
(`origin`), its row at the end (`ended`), and that a job which has ended is never
live again. On top of it there is one inductive strengthening per property.
`SlotWindow` is the slot invariant again, with the options of a finished job read
from `ended` and an exception for jobs the sweeper took, whose receipts become
orphans. `Replaced` says that enough rows stand in for every job that is gone; a
sweep by count keeps it because it takes the oldest, so a stand-in goes only when
enough others stay. `Aged` says that a job is gone only once it is past the floor.
`ChainsCover` adds to `ChainWindow` that no job of a lineage is younger than the last
change of its counter, which is all a sweep looks at. `SweepKeepsOrder` rests on the
sweep forgetting only facets without a live job.

**Backoff.** With the power of the shift a natural number and doubling from one
shift to the next (`PowerAssumption`), no induction is needed: inside the word the
product is exact or above `i64::MAX`, which is above every cap, and from the sign bit on
the multiplier is `i64::MAX` and any positive base reaches the cap.

**Schedulers.** `SchedulersInv` adds to the properties that every row of the
running batch is still the row in the table, no scheduler is in it twice, ids are
left for all of it, and, for a clock that is not set back, everything a scheduler
fired lies before its next run. That the scan is a sequence without repetition
rests on `RanksCount`: positions by number of predecessors number a finite set
without gaps. `NextIsLater` is all that is used of cron.

**The process.** `ProcessInv` has a part for each thing `main` looks after.
`ShutdownInv` ties the position of `main` to the state of the servers, so that no
request is left when the checkpoint is reached. `SealInv` compares what the
checkpoint found (`seal`) with what came later: the commits made since and those the
blocking pool can still make (`Pool`) are never more than it could make then. A
closure that runs moves from one side to the other, and nothing joins: the loops are
gone, and a call can only be cancelled while a handler waits. `ReaderInv` accounts for every
permit: those in the semaphore and those of running queries are `MaxConcurrency`
together. `IndexInv` says in which order the schema objects exist, which makes
entries and rows comparable after a crash in the middle. `SnapshotInv` has the
stamps in order of publication, from which prune's oldest file is never one of the
newest `Retain`. `TempsInv` counts leftovers, other than those
in `stuck`, against processes that ended: a cycle that fails removes its file or puts
it there.

**Assumptions**: `MaxJobs` and `MaxTime` are naturals, leases, batches and default
attempts positive, words at least two bits wide, requests well formed, `Nil` is
none of the values it stands beside, scheduler specifications well formed with a
positive period, `Retain` positive, and powers of two are positive and double
(`PowerAssumption`, which the provers cannot derive). TLC evaluates all of them in
the runs.

**Only model-checked:**

- Liveness, in `progress`, `schedules` and `process`.
- `GaugesExact`: a count of every table before and after every handler and sweep.
  It has the hypothesis of the gates too (see below).
- `RetryDelayExact` compares with powers beyond the word, for which there is no
  induction here; `BackoffExact` says the cap there, which is the same.

## Limits of the results

- `NoBackfill`, `FiresAreCurrent`, `RecoveryPoint`, `AgeKeepsReplay` and
  `ChainWindow` are about a clock that is not set back. With one that is, an
  occurrence may fire twice, what a sweep has forgotten may count as recent again,
  and `prune` may take the snapshot just written for the oldest.
- `GateHolds` and `GaugesExact` are checked with parents that have flow children
  only, and `ClaimProtected` without flows. With finding 2 the count of children is
  wrong, a parent released early may lose its running claim to the cascade of a
  flagged child, and that cascade takes it off the wrong gauge.
- `GaugesExact` has one exception, finding 4, which it accounts for exactly.
- `SearchExact` has one exception: a row deleted after a crash has left the insert
  trigger without the delete trigger stays in the index.
- `CheckpointIsLast` bounds what is written after the checkpoint and does not exclude
  it. Closures outlive an aborted loop and a call whose client went away; they may
  commit after both servers have drained, although the comment at `src/main.rs` 1133
  says "so nothing else writes", and the frames stay in the WAL for the next start.
  They also stay when the checkpoint fails, which `main` only logs.
- `TempsAccounted` does not count files whose removal failed: `run_blocking` ignores
  the error, and only a later cycle with the same stamp would try again.
- `ShutdownCompletes` is about a signal that finds a receiver; one that comes
  before the servers have subscribed is lost.
- After timeouts more read connections may be open than there are permits.

## Not modelled

- Schema migrations and the durability switch (`src/db.rs`), and parsing of
  environment variables: sequential code run before the first request, whose
  result is the initial state.
- The calendar of cron patterns (`src/scheduler.rs`): library code.
- The backlog sampler, histograms, per-name series and the active-schedulers gauge
  (`src/telemetry.rs`): written, and read only by a scrape.
- The SQL of read-only queries, paging and the rewriting of search terms
  (`src/reader.rs`, `src/fts.rs`): text to text, with no state.
- The sampler as a task of `Process`: it only reads.
- `Process` and the queue's tables are not composed: a crash between two
  transactions is a stutter there.
- The TypeScript client. Every request it can send is covered; its own outbox,
  heartbeat and drain logic is another program.
- The console, Helm chart, load harness and demos hold no queue state.
