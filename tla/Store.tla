------------------------------- MODULE Store -------------------------------
(***************************************************************************)
(* The broker's durable state: the SQLite tables of src/db.rs, as every    *)
(* handler sees them inside its one IMMEDIATE transaction.  All writers    *)
(* share one mutex-guarded connection, so a handler is one atomic action.  *)
(*                                                                         *)
(* A table is a function from its primary key to a row or Nil.  Job ids    *)
(* are random UUIDs in the code; here an id is its issue number, so that   *)
(* the model never branches on which unused id was drawn.  Nothing in the  *)
(* specification may depend on the order of ids except "issued before".    *)
(***************************************************************************)
EXTENDS Scheduling, FiniteSets, Sequences

CONSTANTS
    Nil,             \* SQL NULL, an absent row, or an unset request field
    MaxJobs,         \* bound: job ids the run may issue
    MaxTime,         \* bound: last value of the wall clock
    Worker,          \* worker_id values
    Queue,           \* job names; a queue is a name
    Key,             \* idempotency keys
    Facet,           \* rate-limit facets
    Trace,           \* trace ids a client may supply
    Result,          \* results a worker may report
    LeaseDuration,   \* lease_duration_ms
    ClockMayStepBack \* whether the wall clock may be set back

JobId == 1..MaxJobs

ASSUME BoundAssumption == MaxJobs \in Nat /\ MaxTime \in Nat
ASSUME LeaseAssumption == LeaseDuration \in Nat \ {0}
ASSUME ClockAssumption == ClockMayStepBack \in BOOLEAN

\* A request's scheduling options after validation and default filling.
Opts == [name: Queue, priority: Int, max: Nat \ {0}, delay: Nat, base: Nat,
         cap: Nat, jitter: 0..JitterDen, facet: Facet \cup {Nil},
         key: Key \cup {Nil}, release: BOOLEAN]

\* A job's lineage (parent, trace, depth) and its place in a flow tree.
Link == [parent: JobId \cup {Nil}, trace: JobId \cup Trace, depth: Nat,
         failParent: BOOLEAN, tree: JobId \cup {Nil}, treeDepth: Nat]

LiveState == {"Waiting", "Delayed", "Active", "WaitingChildren"}
TerminalState == {"Completed", "Failed"}

\* A row of jobs, and a row of job_history.  The key and release options of a
\* finished job are not columns of job_history; they are kept here so that
\* properties can refer to them, and no action reads them there.
Job == [opts: Opts, link: Link, state: LiveState, worker: Worker \cup {Nil},
        attempts: Nat, lease: Nat \cup {Nil}, available: Nat, created: Nat,
        pending: Int]
Archived == [opts: Opts, link: Link, state: TerminalState,
             worker: Worker \cup {Nil}, attempts: Nat, finished: Nat,
             result: Result \cup {Nil}]

\* The normalized request bytes a receipt stores, and the receipt.
Request == [opts: Opts, parent: JobId \cup {Nil}, trace: JobId \cup Trace \cup {Nil},
            depth: Nat]
Receipt == [request: Request, job: JobId]
Slot == Queue \X Key

RateRule == [max: Nat, window: Nat \ {0}]
RateCounter == [count: Nat, expires: Nat]
Bucket == [start: Nat, current: Nat, previous: Nat]

ASSUME NilAssumption ==
    /\ Nil \notin Job /\ Nil \notin Archived /\ Nil \notin Receipt
    /\ Nil \notin RateRule /\ Nil \notin RateCounter /\ Nil \notin Bucket
    /\ Nil \notin Nat /\ Nil \notin Worker /\ Nil \notin Facet
    /\ Nil \notin Key /\ Nil \notin Trace /\ Nil \notin Result

RejectionKind == {"ingress_velocity", "parent_not_found", "inconsistent_depth",
                  "circuit_breaker", "chain_quarantine"}

VARIABLES
    now,             \* the wall clock, read once per transaction
    issued,          \* how many job ids have been issued
    jobs,            \* jobs
    history,         \* job_history
    receipts,        \* enqueue_receipts
    rateRules,       \* rate_limit_rules
    rateCounters,    \* rate_limit_counters
    dispatch,        \* facet_dispatch: last_served_seq, 0 for no row
    ingressRules,    \* ingress_limit_rules
    ingressBuckets,  \* ingress_limit_counters
    chains,          \* chain_counters: job_count, 0 for no row
    rejections,      \* enqueue_rejections, without multiplicity
    claims,          \* auxiliary: every claim a GetNextJob reply granted
    acks             \* auxiliary: every CompleteJob/FailJob reply that was Ok

limits == <<rateRules, rateCounters, ingressRules, ingressBuckets>>
vars == <<now, issued, jobs, history, receipts, rateRules, rateCounters, dispatch,
          ingressRules, ingressBuckets, chains, rejections, claims, acks>>

Claim == [id: JobId, worker: Worker, attempt: Nat]
Ack == [id: JobId, worker: Worker, attempt: Nat,
        outcome: {"Completed", "Failed", "Retried"}]

\* Every table holds well-formed rows and the clock is within its bound.
TypeOK ==
    /\ now \in 0..MaxTime
    /\ issued \in 0..MaxJobs
    /\ jobs \in [JobId -> Job \cup {Nil}]
    /\ history \in [JobId -> Archived \cup {Nil}]
    /\ receipts \in [Slot -> Receipt \cup {Nil}]
    /\ rateRules \in [Facet -> RateRule \cup {Nil}]
    /\ rateCounters \in [Facet -> RateCounter \cup {Nil}]
    /\ dispatch \in [Facet \cup {Nil} -> Nat]
    /\ ingressRules \in [Facet -> RateRule \cup {Nil}]
    /\ ingressBuckets \in [Facet -> Bucket \cup {Nil}]
    /\ chains \in [JobId \cup Trace -> Nat]
    /\ rejections \subseteq [at: 0..MaxTime, kind: RejectionKind]
    /\ claims \subseteq Claim
    /\ acks \subseteq Ack

\* run_migrations on a new database: every table is empty.
Init ==
    /\ now = 0
    /\ issued = 0
    /\ jobs = [i \in JobId |-> Nil]
    /\ history = [i \in JobId |-> Nil]
    /\ receipts = [s \in Slot |-> Nil]
    /\ rateRules = [f \in Facet |-> Nil]
    /\ rateCounters = [f \in Facet |-> Nil]
    /\ dispatch = [f \in Facet \cup {Nil} |-> 0]
    /\ ingressRules = [f \in Facet |-> Nil]
    /\ ingressBuckets = [f \in Facet |-> Nil]
    /\ chains = [t \in JobId \cup Trace |-> 0]
    /\ rejections = {}
    /\ claims = {}
    /\ acks = {}
-----------------------------------------------------------------------------
Live(i) == jobs[i] # Nil
Finished(i) == history[i] # Nil
Active(i) == Live(i) /\ jobs[i].state = "Active"

\* The resting state of a job that may run at time `at`.
RestingState(at) == IF at > now THEN "Delayed" ELSE "Waiting"

\* The history row the full INSERT ... SELECT of finish_job writes.
ArchivedAs(job, state, result) ==
    [opts |-> job.opts, link |-> job.link, state |-> state, worker |-> job.worker,
     attempts |-> job.attempts, finished |-> now, result |-> result]

\* A failed attempt that stays in jobs under a terminal state name.
RetryRow_MarkedFailed(job, delay) ==
    [job EXCEPT !.state = "Failed", !.available = now + delay, !.worker = Nil,
                !.lease = Nil]

\* A failed attempt that keeps its owner and lease columns.
RetryRow_KeepsOwner(job, delay) ==
    [job EXCEPT !.state = RestingState(now + delay), !.available = now + delay]

\* The row a failed attempt leaves behind when the job may still be retried.
RetryRow(job, delay) ==
    [job EXCEPT !.state = RestingState(now + delay), !.available = now + delay,
                !.worker = Nil, !.lease = Nil]

\* No release at all.
ReceiptsAfter_None(done) == receipts

\* Receipts once the jobs in `done` are terminal: release-on-finish slots of
\* those jobs are deleted, retained ones stay.
ReceiptsAfter(done) ==
    [s \in Slot |->
        IF receipts[s] # Nil /\ receipts[s].job \in done
           /\ receipts[s].request.opts.release
        THEN Nil ELSE receipts[s]]

\* now_ms reads the wall clock, which advances and which the operating system
\* may also set back.
Tick ==
    /\ now < MaxTime
    /\ now' = now + 1
    /\ UNCHANGED <<issued, jobs, history, receipts, limits, dispatch, chains,
                   rejections, claims, acks>>

ClockStepsBack ==
    /\ ClockMayStepBack
    /\ now > 0
    /\ now' = now - 1
    /\ UNCHANGED <<issued, jobs, history, receipts, limits, dispatch, chains,
                   rejections, claims, acks>>
=============================================================================
