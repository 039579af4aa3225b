----------------------------- MODULE Schedulers -----------------------------
(***************************************************************************)
(* Declarative cron schedulers: the management calls of src/schedulers.rs  *)
(* and the background loop of src/scheduler.rs.                            *)
(*                                                                         *)
(* run_once takes the writer's lock, scans the due rows and fires them one *)
(* transaction at a time before it lets go of the lock.  So no other       *)
(* handler comes between the scan and the fires; the clock and a crash do. *)
(* `batch` is what the tick has still to fire, and the lock is free when   *)
(* it is empty.                                                            *)
(***************************************************************************)
EXTENDS Enqueue

CONSTANTS
    SchedulerId,        \* scheduler ids, numbers so that they have an order
    SchedulerBatch,     \* batch_size
    MaxFaults,          \* bound: crashes and storage errors in a behaviour
    SchedulerSpecs,     \* [opts, cron] pairs an upsert may carry
    IngressRuleChoices  \* rules an operator may set

ASSUME SchedulerAssumption ==
    /\ SchedulerId \subseteq Nat
    /\ SchedulerBatch \in Nat \ {0}
    /\ MaxFaults \in Nat

VARIABLES
    schedulers,  \* job_schedulers
    batch,       \* rows the running tick has still to fire
    faults,      \* crashes and storage errors so far
    fires,       \* auxiliary: what each scheduler id has fired, in order
    born         \* auxiliary: Len(fires[s]) when the row of s was inserted

loop == <<schedulers, batch, faults, fires, born>>
allVars == <<vars, loop>>

\* A cron pattern is a period; 0 is an occurrence of every pattern.
Row == [opts: RawOpts, cron: Nat \ {0}, next: Nat, produced: Nat, last: JobId \cup {Nil}]
Fired == [due: Nat, at: Nat, job: JobId]

ASSUME SpecAssumption ==
    /\ SchedulerSpecs \subseteq [opts: RawOpts, cron: Nat \ {0}]
    /\ IngressRuleChoices \subseteq RateRule
    /\ Nil \notin Row

\* Every table and the running batch are well formed, and a batch is bounded.
SchedulersTypeOK ==
    /\ TypeOK
    /\ schedulers \in [SchedulerId -> Row \cup {Nil}]
    /\ batch \in Seq([id: SchedulerId, row: Row]) /\ Len(batch) <= SchedulerBatch
    /\ faults \in 0..MaxFaults
    /\ fires \in [SchedulerId -> Seq(Fired)]
    /\ born \in [SchedulerId -> Nat]

SchedulersInit ==
    /\ Init
    /\ schedulers = [s \in SchedulerId |-> Nil]
    /\ batch = <<>>
    /\ faults = 0
    /\ fires = [s \in SchedulerId |-> <<>>]
    /\ born = [s \in SchedulerId |-> 0]
-----------------------------------------------------------------------------
LockFree == batch = <<>>

\* next_cron_after: the first occurrence strictly after t.
NextCronAfter(t, cron) == (t \div cron + 1) * cron

\* An upsert that replaces the whole row.
UpsertedRow_Replaces(old, spec) ==
    [opts |-> spec.opts, cron |-> spec.cron, next |-> NextCronAfter(now, spec.cron),
     produced |-> 0, last |-> Nil]

\* upsert_scheduler: a new row starts its count, an existing one keeps its count
\* and its last job; either is next due after now.
UpsertedRow(old, spec) ==
    [opts |-> spec.opts, cron |-> spec.cron, next |-> NextCronAfter(now, spec.cron),
     produced |-> IF old = Nil THEN 0 ELSE old.produced,
     last |-> IF old = Nil THEN Nil ELSE old.last]

\* UpsertJobScheduler
UpsertScheduler(s, spec) ==
    /\ LockFree
    /\ ValidOpts(spec.opts)
    /\ schedulers' = [schedulers EXCEPT ![s] = UpsertedRow(@, spec)]
    /\ born' = IF schedulers[s] = Nil THEN [born EXCEPT ![s] = Len(fires[s])] ELSE born
    /\ UNCHANGED <<vars, batch, faults, fires>>

\* A delete that does not wait for the running tick.
DeleteScheduler_Unlocked(s) ==
    /\ schedulers[s] # Nil
    /\ schedulers' = [schedulers EXCEPT ![s] = Nil]
    /\ UNCHANGED <<vars, batch, faults, fires, born>>

\* DeleteJobScheduler; deleting an absent row changes nothing.
DeleteScheduler(s) ==
    /\ LockFree
    /\ schedulers[s] # Nil
    /\ schedulers' = [schedulers EXCEPT ![s] = Nil]
    /\ UNCHANGED <<vars, batch, faults, fires, born>>
-----------------------------------------------------------------------------
Due(s) == schedulers[s] # Nil /\ schedulers[s].next <= now

\* ORDER BY next_run_at, id
Before(s, u) ==
    \/ schedulers[s].next < schedulers[u].next
    \/ schedulers[s].next = schedulers[u].next /\ s < u

\* A scan without its LIMIT.
ScannedFirst_Unlimited(s) == TRUE

ScannedFirst(s) ==
    Cardinality({u \in SchedulerId : Due(u) /\ Before(u, s)}) < SchedulerBatch

\* run_once up to its loop: select_due_schedulers.
ScanDue ==
    LET chosen == {s \in SchedulerId : Due(s) /\ ScannedFirst(s)}
        Rank(s) == Cardinality({u \in chosen : Before(u, s)}) + 1
    IN  /\ LockFree
        /\ chosen # {}
        /\ issued + Cardinality(chosen) <= MaxJobs
        /\ batch' = [k \in 1..Cardinality(chosen) |->
               LET s == CHOOSE u \in chosen : Rank(u) = k
               IN  [id |-> s, row |-> schedulers[s]]]
        /\ UNCHANGED <<vars, schedulers, faults, fires, born>>

\* build_request: a root job, not delayed and never deduplicated.
BuildRequest(row) ==
    [opts |-> [row.opts EXCEPT !.delay = 0, !.key = Nil, !.release = FALSE],
     parent |-> Nil, trace |-> Nil, depth |-> 0]

ScheduledRequest == Prepared(BuildRequest(Head(batch).row))

Advanced(s, next, job) ==
    [schedulers EXCEPT ![s].next = next, ![s].produced = @ + 1, ![s].last = job]

\* A next run computed from the one just fired.
NextRun_Backfill(row) == NextCronAfter(row.next, row.cron)

\* Strictly after the clock fire_one reads, however old the run just fired.
NextRun(row) == NextCronAfter(now, row.cron)

\* fire_one commits the job together with advance_scheduler, whose UPDATE finds
\* no row when the scheduler is gone.
FireSucceeds ==
    LET s == Head(batch).id
        row == Head(batch).row
    IN  /\ batch # <<>>
        /\ Verdict(Tx, ScheduledRequest) = "inserted"
        /\ Commit(Inserted(Tx, ScheduledRequest))
        /\ schedulers' = IF schedulers[s] = Nil THEN schedulers
                         ELSE Advanced(s, NextRun(row), issued + 1)
        /\ fires' = [fires EXCEPT ![s] =
               Append(@, [due |-> row.next, at |-> now, job |-> issued + 1])]
        /\ batch' = Tail(batch)
        /\ UNCHANGED <<faults, born>>

\* A rejected fire that ends the tick.
FireRejected_EndsTick ==
    /\ batch # <<>>
    /\ Verdict(Tx, ScheduledRequest) # "inserted"
    /\ batch' = <<>>
    /\ UNCHANGED <<vars, schedulers, faults, fires, born>>

\* fire_one rolls back when the enqueue core rejects the job; run_once goes on.
\* enqueue_scheduled records no rejection.
FireRejected ==
    /\ batch # <<>>
    /\ Verdict(Tx, ScheduledRequest) # "inserted"
    /\ batch' = Tail(batch)
    /\ UNCHANGED <<vars, schedulers, faults, fires, born>>

\* A statement or the commit of fire_one fails: rolled back, and skipped.
StorageError ==
    /\ batch # <<>>
    /\ faults < MaxFaults
    /\ faults' = faults + 1
    /\ batch' = Tail(batch)
    /\ UNCHANGED <<vars, schedulers, fires, born>>

\* The process dies in the middle of a tick and is started again.
Crash ==
    /\ batch # <<>>
    /\ faults < MaxFaults
    /\ faults' = faults + 1
    /\ batch' = <<>>
    /\ UNCHANGED <<vars, schedulers, fires, born>>
-----------------------------------------------------------------------------
\* What operators and the clock do meanwhile.
OperatorStep ==
    /\ LockFree
    /\ \/ \E f \in Facet, rule \in IngressRuleChoices : UpsertIngressLimitRule(f, rule)
       \/ \E f \in Facet : ingressRules[f] # Nil /\ DeleteIngressLimitRule(f)
    /\ UNCHANGED loop

ClockStep == (Tick \/ ClockStepsBack) /\ UNCHANGED loop

SchedulersNext ==
    \/ \E s \in SchedulerId, spec \in SchedulerSpecs : UpsertScheduler(s, spec)
    \/ \E s \in SchedulerId : DeleteScheduler(s)
    \/ ScanDue
    \/ FireSucceeds
    \/ FireRejected
    \/ StorageError
    \/ Crash
    \/ OperatorStep
    \/ ClockStep

SchedulersSpec == SchedulersInit /\ [][SchedulersNext]_allVars

\* tokio's interval ticks for ever, and run_once's loop runs to its end.
FairSchedulersSpec ==
    /\ SchedulersSpec
    /\ WF_allVars(ScanDue)
    /\ WF_allVars(FireSucceeds \/ FireRejected)
-----------------------------------------------------------------------------
\* Every occurrence is fired at most once, and missed ones are not made up for:
\* a run a scheduler fires fell due after its previous fire, whatever crashes,
\* rejections, upserts, deletes and re-creations came between (fire_one's
\* advance to a time strictly after now, next_cron_after in upsert).  The clock
\* must not be set back: fire_one's own reading of it may then precede the run.
NoBackfill ==
    \A s \in SchedulerId : \A i, j \in 1..Len(fires[s]) :
        i < j => fires[s][i].at < fires[s][j].due

\* A row's produced_count and last_job_id are those of the jobs fired since the
\* row was inserted: no job without its advance, no advance without its job, and
\* no upsert that forgets them (fire_one, upsert_scheduler).
BookkeepingAgrees ==
    \A s \in SchedulerId : schedulers[s] # Nil =>
        LET row == schedulers[s]
            n == Len(fires[s])
        IN  /\ row.produced = n - born[s]
            /\ row.last = IF n = born[s] THEN Nil ELSE fires[s][n].job

\* A job is fired only for a scheduler that exists at that moment, is due, and has
\* the template the job carries, although the row was read when the tick began
\* (run_once keeps the lock from the scan to the last fire).
FiresAreCurrent ==
    [][\A s \in SchedulerId : fires'[s] # fires[s] =>
           /\ Due(s)
           /\ jobs'[issued'].opts = Prepared(BuildRequest(schedulers[s])).opts]_allVars

\* The faceted schedulers, which a rule may reject on every tick and which then
\* keep the head of every scan, fill the whole batch.
Crowded ==
    Cardinality({s \in SchedulerId : schedulers[s] # Nil /\ schedulers[s].opts.facet # Nil})
        >= SchedulerBatch

\* A due scheduler no ingress rule can stop is fired, deleted or upserted in the
\* end, even if others are rejected on every tick (run_once skips a failing
\* fire), as long as those are fewer than the batch has places.  It needs ids
\* left within the bound for a whole batch.
DueIsServed ==
    \A s \in SchedulerId :
        LET waits == Due(s) /\ schedulers[s].opts.facet = Nil
        IN  waits ~> (~waits \/ Crowded \/ issued + SchedulerBatch > MaxJobs)
=============================================================================
