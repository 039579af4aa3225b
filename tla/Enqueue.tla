------------------------------ MODULE Enqueue ------------------------------
(***************************************************************************)
(* AddJob and AddJobBulk, src/enqueue.rs.  enqueue_one works on an open    *)
(* transaction that the caller commits or rolls back; here a transaction   *)
(* is a record of the tables it may write, and enqueue_one maps one such   *)
(* record to the next.                                                     *)
(***************************************************************************)
EXTENDS IngressLimit

CONSTANTS
    DefaultMaxAttempts, \* max_attempts when the request leaves it 0
    DefaultBackoffCap,  \* retry_backoff_max_ms when the request leaves it 0
    MaxExecutionDepth,  \* max_execution_depth, the circuit breaker
    MaxChainSize        \* max_chain_size, 0 to disable the quarantine

ASSUME EnqueueAssumption ==
    /\ DefaultMaxAttempts \in Nat \ {0}
    /\ DefaultBackoffCap \in Nat
    /\ MaxExecutionDepth \in Nat
    /\ MaxChainSize \in Nat

\* A request as a client sends it, with 0 for "use the default".
RawOpts == [name: Queue, priority: Int, max: Nat, delay: Nat, base: Nat, cap: Nat,
            jitter: 0..JitterDen, facet: Facet \cup {Nil}, key: Key \cup {Nil},
            release: BOOLEAN]
RawRequest == [opts: RawOpts, parent: JobId \cup {Nil}, trace: Trace \cup {Nil},
               depth: Nat]

\* validate_and_prepare: fill defaults, then check.  Receipts compare the
\* filled-in request, so an explicit default equals an omitted one.
PreparedOpts(o) ==
    [o EXCEPT !.max = IF @ = 0 THEN DefaultMaxAttempts ELSE @,
              !.cap = IF @ = 0 THEN Greatest(DefaultBackoffCap, o.base) ELSE @]

ValidOpts(o) == (o.release => o.key # Nil) /\ PreparedOpts(o).cap >= o.base

Valid(r) == ValidOpts(r.opts) /\ r.depth <= MaxExecutionDepth

Prepared(r) == [r EXCEPT !.opts = PreparedOpts(@)]

\* The tables an enqueue transaction writes, as it opens.
Tx == [issued |-> issued, jobs |-> jobs, receipts |-> receipts,
       buckets |-> ingressBuckets, chains |-> chains]

SlotOf(o) == <<o.name, o.key>>

\* The parent's row: jobs first, then job_history.
ParentKnown(t, p) == t.jobs[p] # Nil \/ history[p] # Nil
ParentLink(t, p) == IF t.jobs[p] # Nil THEN t.jobs[p].link ELSE history[p].link

\* A child's depth and trace are derived from its parent.  A parentless job
\* keeps the ones supplied; a generated trace id is the job's own id, which is
\* as unique as the UUID the code draws.
EffectiveDepth(t, r) ==
    IF r.parent = Nil THEN r.depth ELSE ParentLink(t, r.parent).depth + 1
EffectiveTrace_Supplied(t, r) == IF r.trace # Nil THEN r.trace ELSE t.issued + 1
EffectiveTrace(t, r) ==
    IF r.parent # Nil THEN ParentLink(t, r.parent).trace
    ELSE IF r.trace # Nil THEN r.trace
    ELSE t.issued + 1

Quarantined(t, trace) == MaxChainSize > 0 /\ t.chains[trace] >= MaxChainSize

\* enqueue_one's early returns, in the code's order.
Verdict(t, r) ==
    IF r.opts.key # Nil /\ t.receipts[SlotOf(r.opts)] # Nil
    THEN IF t.receipts[SlotOf(r.opts)].request = r THEN "replayed" ELSE "conflict"
    ELSE IF ~Admits(t.buckets, r.opts.facet) THEN "ingress_velocity"
    ELSE IF r.parent # Nil /\ ~ParentKnown(t, r.parent) THEN "parent_not_found"
    ELSE IF r.parent # Nil /\ r.depth \notin {0, EffectiveDepth(t, r)}
    THEN "inconsistent_depth"
    ELSE IF EffectiveDepth(t, r) > MaxExecutionDepth THEN "circuit_breaker"
    ELSE IF Quarantined(t, EffectiveTrace(t, r)) THEN "chain_quarantine"
    ELSE "inserted"

Accepts(verdict) == verdict \in {"inserted", "replayed"}

NewJob(t, r) ==
    [opts |-> r.opts,
     link |-> [parent |-> r.parent, trace |-> EffectiveTrace(t, r),
               depth |-> EffectiveDepth(t, r), failParent |-> FALSE,
               tree |-> Nil, treeDepth |-> 0],
     state |-> RestingState(now + r.opts.delay), worker |-> Nil, attempts |-> 0,
     lease |-> Nil, available |-> now + r.opts.delay, created |-> now, pending |-> 0]

\* The transaction after enqueue_one inserted the job and its receipt.
Inserted(t, r) ==
    [issued |-> t.issued + 1,
     jobs |-> [t.jobs EXCEPT ![t.issued + 1] = NewJob(t, r)],
     receipts |-> IF r.opts.key = Nil THEN t.receipts
                  ELSE [t.receipts EXCEPT ![SlotOf(r.opts)] =
                           [request |-> r, job |-> t.issued + 1]],
     buckets |-> Admitted(t.buckets, r.opts.facet),
     chains |-> IF MaxChainSize = 0 THEN t.chains
                ELSE [t.chains EXCEPT ![EffectiveTrace(t, r)] = @ + 1]]

EnqueueOne(t, r) == IF Verdict(t, r) = "inserted" THEN Inserted(t, r) ELSE t

Commit(t) ==
    /\ issued' = t.issued
    /\ jobs' = t.jobs
    /\ receipts' = t.receipts
    /\ ingressBuckets' = t.buckets
    /\ chains' = t.chains
    /\ UNCHANGED <<now, history, rateRules, rateCounters, dispatch, ingressRules,
                   rejections, claims, acks>>

\* record_rejection, after the enqueue transaction rolled back.
RecordRejection(kind) ==
    /\ rejections' = rejections \cup {[at |-> now, kind |-> kind]}
    /\ UNCHANGED <<now, issued, jobs, history, receipts, limits, dispatch, chains,
                   claims, acks>>

\* AddJob.  A replay or a conflict writes nothing.
AddJob(raw) ==
    LET r == Prepared(raw)
        verdict == Verdict(Tx, r)
    IN  /\ Valid(raw)
        /\ issued < MaxJobs
        /\ \/ verdict = "inserted" /\ Commit(Inserted(Tx, r))
           \/ verdict \in RejectionKind /\ RecordRejection(verdict)

\* A batch that keeps what preceded the rejected request.
AddJobBulk_Partial(raw1, raw2) ==
    LET first == EnqueueOne(Tx, Prepared(raw1))
        verdict2 == Verdict(first, Prepared(raw2))
    IN  /\ Valid(raw1) /\ Valid(raw2)
        /\ issued + 2 <= MaxJobs
        /\ Accepts(Verdict(Tx, Prepared(raw1)))
        /\ verdict2 \in RejectionKind
        /\ issued' = first.issued
        /\ jobs' = first.jobs
        /\ receipts' = first.receipts
        /\ ingressBuckets' = first.buckets
        /\ chains' = first.chains
        /\ rejections' = rejections \cup {[at |-> now, kind |-> verdict2]}
        /\ UNCHANGED <<now, history, rateRules, rateCounters, dispatch, ingressRules,
                       claims, acks>>

\* AddJobBulk with a batch of two: all or nothing, one recorded rejection.
AddJobBulk(raw1, raw2) ==
    LET first == EnqueueOne(Tx, Prepared(raw1))
        both == EnqueueOne(first, Prepared(raw2))
        verdict1 == Verdict(Tx, Prepared(raw1))
        verdict2 == Verdict(first, Prepared(raw2))
    IN  /\ Valid(raw1) /\ Valid(raw2)
        /\ issued + 2 <= MaxJobs
        /\ \/ Accepts(verdict1) /\ Accepts(verdict2) /\ Commit(both)
           \/ verdict1 \in RejectionKind /\ RecordRejection(verdict1)
           \/ Accepts(verdict1) /\ verdict2 \in RejectionKind /\ RecordRejection(verdict2)
=============================================================================
