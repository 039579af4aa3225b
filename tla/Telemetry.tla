----------------------------- MODULE Telemetry -----------------------------
(***************************************************************************)
(* The level gauges of src/telemetry.rs.  They are never read from the     *)
(* tables again after start-up: every handler adds what it believes it     *)
(* changed, after its commit and before it lets go of the writer's lock,   *)
(* so a handler and its gauge update are one step.  A gauge is right only  *)
(* if every path that writes a row also counts it.                         *)
(***************************************************************************)
EXTENDS Retention

VARIABLES
    gauges,   \* Metrics: states, enqueue_receipts, flow_waiting_children
    missed    \* auxiliary: slots released by failure cascades since the start

meteredVars == <<allVars, gauges, missed>>

\* STATES: WaitingChildren has a gauge of its own.
STATES == {"Waiting", "Delayed", "Active", "Completed", "Failed"}

Count(S, state) == Cardinality({i \in S : jobs[i].state = state})

\* Metrics::initialize: the gauges as the tables have them.
Counted ==
    [states |-> [st \in STATES |->
                   Cardinality({i \in JobId : Live(i) /\ jobs[i].state = st})
                   + Cardinality({i \in JobId : Finished(i) /\ history[i].state = st})],
     receipts |-> Cardinality({s \in Slot : receipts[s] # Nil}),
     waiting |-> Cardinality({i \in JobId : Live(i) /\ jobs[i].state = "WaitingChildren"})]

\* transition(from, to) for `n` jobs; a state without a gauge counts nowhere.
Shift(g, from, to, n) ==
    [g EXCEPT !.states = [st \in STATES |->
        g.states[st] + (IF st = to THEN n ELSE 0) - (IF st = from THEN n ELSE 0)]]

\* enqueue_receipt_created, dedup_released and retention_deleted("receipt").
Receipts(g, n) == [g EXCEPT !.receipts = @ + n]

\* flow_waiting_children_inc and _dec.
Waiting(g, n) == [g EXCEPT !.waiting = @ + n]

\* Receipts the jobs S release when they become terminal.
ReleasedBy(S) ==
    Cardinality({s \in Slot : receipts[s] # Nil /\ receipts[s].job \in S
                              /\ receipts[s].request.opts.release})
-----------------------------------------------------------------------------
\* SuccessMetric::flush for each inserted job, flush_tree_metrics for each node.
EnqueueGauges ==
    LET new == (issued + 1)..issued'
        entered(st) == Cardinality({i \in new : jobs'[i].state = st})
    IN  [states |-> [st \in STATES |-> gauges.states[st] + entered(st)],
         receipts |-> gauges.receipts
                      + Cardinality({i \in new : jobs'[i].opts.key # Nil}),
         waiting |-> gauges.waiting + entered("WaitingChildren")]

\* A merge that counts its nodes but not the target it gates again.
MergeGauges_NoRegate(target) == EnqueueGauges

\* A merge also takes a runnable target out of its state.
MergeGauges(target) ==
    IF jobs[target].state \in {"Waiting", "Delayed"}
    THEN Waiting(Shift(EnqueueGauges, jobs[target].state, "WaitingChildren", 1), 1)
    ELSE EnqueueGauges

ClaimGauges(i) == Shift(gauges, jobs[i].state, "Active", 1)

\* The completed job, its slot, and the parent that leaves the gate.
CompleteGauges(i) ==
    LET done == Receipts(Shift(gauges, "Active", "Completed", 1), -ReleasedBy({i}))
        p == jobs[i].link.parent
    IN  IF p # Nil /\ Live(p) /\ jobs[p].state = "WaitingChildren"
           /\ jobs'[p].state # "WaitingChildren"
        THEN Waiting(Shift(done, Nil, jobs'[p].state, 1), -1)
        ELSE done

RetryGauges(i) == Shift(gauges, "Active", jobs'[i].state, 1)

\* The failed job and its slot; every parent that fails with it enters Failed, and
\* leaves the gauge of waiting parents if it was there.  Slots those parents
\* release are not counted.
FailGauges(i) ==
    LET parents == FailedWith(i) \ {i}
        own == Receipts(Shift(gauges, "Active", "Failed", 1), -ReleasedBy({i}))
    IN  Waiting(Shift(own, Nil, "Failed", Cardinality(parents)),
                -Count(parents, "WaitingChildren"))

\* Recovery that counts every expired lease as a retry.
RecoverGauges_AllRetried(S) ==
    [gauges EXCEPT !.states["Active"] = @ - Cardinality(S),
                   !.states["Waiting"] = @ + Cardinality(S)]

RecoverGauges(S) ==
    LET exhausted == {i \in S : ~MayRetry(jobs[i])}
        back(st) == Cardinality({i \in S \ exhausted : jobs'[i].state = st})
    IN  Receipts(Shift(Shift(Shift(gauges, "Active", "Failed", Cardinality(exhausted)),
                             "Active", "Waiting", back("Waiting")),
                       "Active", "Delayed", back("Delayed")),
                 -ReleasedBy(exhausted))

\* retention_deleted for each statement of a sweep.
SweepGauges(out) ==
    Receipts(Shift(Shift(gauges, "Completed", Nil, Cardinality(out.completed)),
                   "Failed", Nil, Cardinality(out.failed)),
             -Cardinality(out.receipts))
-----------------------------------------------------------------------------
MeteredRequests ==
    \E i \in JobId, w \in Worker :
        \/ \E names \in Polls : GetNextJob(w, names, i) /\ gauges' = ClaimGauges(i)
        \/ \E a \in RequestAttempts :
              \/ (RenewLease(i, w, a) \/ ReplayCompletion(i, w, a)) /\ UNCHANGED gauges
              \/ \E r \in Result \cup {Nil} :
                    CompleteJob(i, w, a, r) /\ gauges' = CompleteGauges(i)
              \/ RetryJob(i, w, a) /\ gauges' = RetryGauges(i)

MeteredFailures ==
    \E i \in JobId, w \in Worker, a \in RequestAttempts, final \in BOOLEAN :
        /\ FailForGood(i, w, a, final)
        /\ gauges' = FailGauges(i)
        /\ missed' = missed + ReleasedBy(FailedWith(i) \ {i})

MeteredEnqueues ==
    \/ /\ \/ \E r \in JobRequests : AddJob(r)
          \/ \E b \in BulkRequests : AddJobBulk(b[1], b[2])
          \/ \E f \in Forests : AddFlow(f)
       /\ gauges' = EnqueueGauges
    \/ \E s \in Slot, f \in MergeForests :
          AddFlowMerge(s, f) /\ gauges' = MergeGauges(receipts[s].job)

MeteredRecovery ==
    \E S \in RecoveryBatches : RecoverExpired(S) /\ gauges' = RecoverGauges(S)

MeteredSweeps ==
    \E out \in SweepOutcomes :
        Sweep(out) /\ gauges' = SweepGauges(out) /\ UNCHANGED missed

\* A crash or a shutdown, and the next start: the tables stay, and the gauges are
\* counted again.
Restart == gauges' = Counted /\ missed' = 0 /\ UNCHANGED allVars

Unmetered == (Operator \/ Tick \/ ClockStepsBack) /\ UNCHANGED gauges

TelemetryNext ==
    \/ /\ MeteredRequests \/ MeteredEnqueues \/ MeteredRecovery \/ Unmetered
       /\ Stamps
       /\ UNCHANGED missed
    \/ MeteredFailures /\ Stamps
    \/ MeteredSweeps
    \/ Restart

TelemetrySpec ==
    /\ RetentionInit
    /\ gauges = Counted
    /\ missed = 0
    /\ [][TelemetryNext]_meteredVars

\* The recovery and sweep loops of main() keep ticking and the clock runs.
TelemetryFairSpec ==
    /\ TelemetrySpec
    /\ WF_meteredVars(Tick /\ Stamps /\ UNCHANGED <<gauges, missed>>)
    /\ WF_meteredVars(MeteredRecovery /\ Stamps /\ UNCHANGED missed)
    /\ WF_meteredVars(MeteredSweeps)
-----------------------------------------------------------------------------
\* The gauges are what a new count of the tables would give, after every path by
\* which a job, a receipt or a waiting parent comes and goes: enqueue, merge,
\* claim, completion and the parent it releases, retry, failure and its cascade,
\* recovery, sweeps and restarts.  The one exception is the slots that a failure
\* cascade releases, which stay counted until the next start.
GaugesExact == gauges = Receipts(Counted, missed)

\* "Decrement the retained-receipts gauge so anvilmq_enqueue_receipts stays
\* accurate": the gauge is the number of receipts.
ReceiptsGaugeAccurate ==
    gauges.receipts = Cardinality({s \in Slot : receipts[s] # Nil})
=============================================================================
