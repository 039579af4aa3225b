---------------------------- MODULE BrokerSteps -----------------------------
(***************************************************************************)
(* Steps of Broker: its limits, running claims, the gates of flow parents, *)
(* and every step as a step of AbstractQueue                               *)
(***************************************************************************)
EXTENDS BrokerInvariant, Refinement
-----------------------------------------------------------------------------
(***************************************************************************)
(* Dispatch limits                                                         *)
(***************************************************************************)

\* rate_limit::consume after a claim the `blocked` predicate let through.
LEMMA ConsumeWithinRule ==
    ASSUME TypeOK, DispatchWithinRule, NEW f \in Facet \cup {Nil}, ~Blocked(f),
           rateRules' = rateRules, rateCounters' = Consume(f)
    PROVE  DispatchWithinRule'
<1>1. CASE f = Nil \/ rateRules[f] = Nil
  BY <1>1 DEF Consume, DispatchWithinRule
<1>2. CASE ~(f = Nil \/ rateRules[f] = Nil)
  <2> DEFINE c == rateCounters[f]
             next == IF c = Nil \/ c.expires <= now
                     THEN [count |-> 1, expires |-> now + rateRules[f].window]
                     ELSE [c EXCEPT !.count = @ + 1]
  <2>1. /\ f \in Facet /\ f # Nil /\ rateRules[f] # Nil /\ now \in Nat
        /\ c \in RateCounter \cup {Nil} /\ rateRules[f].max \in Nat
    BY <1>2 DEF TypeOK, RateRule
  <2>2. rateRules[f].max # 0
        /\ (c = Nil \/ c.expires <= now \/ c.count < rateRules[f].max)
    BY <2>1 DEF Blocked, RateCounter
  <2>3. next.count <= rateRules[f].max
    BY <2>1, <2>2 DEF RateCounter
  <2>4. rateCounters' = [rateCounters EXCEPT ![f] = next]
    BY <1>2 DEF Consume
  <2> HIDE DEF next
  <2>5. rateCounters \in [Facet -> RateCounter \cup {Nil}]
    BY DEF TypeOK
  <2> QED
    BY <2>1, <2>3, <2>4, <2>5 DEF DispatchWithinRule
<1> QED
  BY <1>1, <1>2

\* No step overdraws a dispatch window.
LEMMA StepWithinDispatchRule ==
    ASSUME TypeOK, DispatchWithinRule, [Next]_vars
    PROVE  DispatchWithinRule'
<1>1. ASSUME rateRules' = rateRules, rateCounters' = rateCounters
      PROVE  DispatchWithinRule'
  BY <1>1 DEF DispatchWithinRule
<1>2. CASE Enqueues
  <2>1. rateRules' = rateRules /\ rateCounters' = rateCounters
    BY ZenonT(60), <1>2
    DEF Enqueues, AddJob, AddJobBulk, AddFlow, AddFlowMerge, Commit, RecordRejection,
        limits
  <2> QED
    BY <1>1, <2>1
<1>3. CASE Requests
  <2>1. ASSUME NEW i \in JobId, NEW w \in Worker, NEW names \in Polls,
               GetNextJob(w, names, i)
        PROVE  DispatchWithinRule'
    <3>1. /\ Live(i) /\ ~Blocked(jobs[i].opts.facet)
          /\ rateRules' = rateRules /\ rateCounters' = Consume(jobs[i].opts.facet)
      BY Zenon, <2>1 DEF GetNextJob, Candidate
    <3>2. jobs[i].opts.facet \in Facet \cup {Nil}
      BY <3>1 DEF TypeOK, Live, Job, Opts
    <3> QED
      BY <3>1, <3>2, ConsumeWithinRule
  <2>2. ASSUME NEW i \in JobId, NEW w \in Worker, NEW a \in RequestAttempts,
               \/ RenewLease(i, w, a)
               \/ \E r \in Result \cup {Nil} : CompleteJob(i, w, a, r)
               \/ ReplayCompletion(i, w, a)
               \/ \E final \in BOOLEAN : FailJob(i, w, a, final)
        PROVE  DispatchWithinRule'
    <3>1. rateRules' = rateRules /\ rateCounters' = rateCounters
      BY ZenonT(60), <2>2 DEF RenewLease, CompleteJob, ReplayCompletion, FailJob, RetryJob,
                              FailForGood, limits
    <3> QED
      BY <1>1, <3>1
  <2> QED
    BY <1>3, <2>1, <2>2 DEF Requests
<1>4. CASE Operator
  <2>1. PICK f \in Facet :
          \/ \E rule \in RateRuleChoices : UpsertRateLimitRule(f, rule)
          \/ DeleteRateLimitRule(f)
          \/ \E rule \in IngressRuleChoices : UpsertIngressLimitRule(f, rule)
          \/ DeleteIngressLimitRule(f)
    BY <1>4 DEF Operator
  <2>2. /\ rateRules \in [Facet -> RateRule \cup {Nil}]
        /\ rateCounters \in [Facet -> RateCounter \cup {Nil}]
    BY DEF TypeOK
  <2>3. ASSUME NEW rule, rateRules' = [rateRules EXCEPT ![f] = rule],
               rateCounters' = [rateCounters EXCEPT ![f] = Nil]
        PROVE  DispatchWithinRule'
    BY <2>2, <2>3 DEF DispatchWithinRule
  <2> QED
    BY <1>1, <2>1, <2>3 DEF UpsertRateLimitRule, DeleteRateLimitRule,
                            UpsertIngressLimitRule, DeleteIngressLimitRule
<1>5. CASE Recovery
  <2>1. rateRules' = rateRules /\ rateCounters' = rateCounters
    BY Zenon, <1>5 DEF Recovery, RecoverExpired, limits
  <2> QED
    BY <1>1, <2>1
<1>6. CASE Tick \/ ClockStepsBack \/ UNCHANGED vars
  BY <1>1, <1>6 DEF Tick, ClockStepsBack, vars, limits
<1> QED
  BY <1>2, <1>3, <1>4, <1>5, <1>6 DEF Next

-----------------------------------------------------------------------------
(***************************************************************************)
(* Admission limits                                                        *)
(***************************************************************************)

\* Buckets that respect the rules in force.
Within(buckets) ==
    \A f \in Facet :
        buckets[f] # Nil =>
            /\ ingressRules[f] # Nil
            /\ buckets[f].current <= ingressRules[f].max
            /\ buckets[f].previous <= ingressRules[f].max

\* Comparing products with a common positive factor.
LEMMA CancelFactor ==
    ASSUME NEW a \in Nat, NEW m \in Nat, NEW w \in Nat \ {0}, a * w < m * w
    PROVE  a + 1 <= m
<1>1. ASSUME m <= a
      PROVE  FALSE
  <2>1. PICK d \in Nat : a = m + d
    BY <1>1
  <2>2. a * w = m * w + d * w
    BY <2>1
  <2>3. d * w \in Nat
    OBVIOUS
  <2>4. m * w \in Nat /\ a * w \in Nat
    OBVIOUS
  <2> QED
    BY <2>2, <2>3, <2>4
<1> QED
  BY <1>1

\* roll keeps both windows of a facet within the limit.
LEMMA RollWithin ==
    ASSUME NEW b \in Bucket, NEW w \in Nat \ {0}, NEW max \in Nat, now \in Nat,
           b.current <= max, b.previous <= max
    PROVE  Roll(b, w).current <= max /\ Roll(b, w).previous <= max
BY DEF Roll, Bucket

\* admit: a job is let in only below the limit, so counting it stays within.
LEMMA AdmittedWithin ==
    ASSUME NEW buckets \in [Facet -> Bucket \cup {Nil}], Within(buckets),
           NEW f \in Facet \cup {Nil}, Admits(buckets, f), now \in Nat,
           ingressRules \in [Facet -> RateRule \cup {Nil}]
    PROVE  Within(Admitted(buckets, f))
<1>1. CASE f = Nil \/ ingressRules[f] = Nil
  BY <1>1 DEF Admitted
<1>2. CASE ~(f = Nil \/ ingressRules[f] = Nil)
  <2> DEFINE max == ingressRules[f].max
             w == ingressRules[f].window
             old == IF buckets[f] = Nil THEN [start |-> now, current |-> 0, previous |-> 0]
                    ELSE buckets[f]
             b == Roll(old, w)
             weight == Greatest(0, Least(w - (now - b.start), w))
  <2>1. f \in Facet /\ max \in Nat /\ w \in Nat \ {0}
    BY <1>2 DEF RateRule
  <2>2. old \in Bucket /\ old.current <= max /\ old.previous <= max
    BY <1>2, <2>1 DEF Within, Bucket
  <2> HIDE DEF old, max, w
  <2>3. b \in Bucket /\ b.current <= max /\ b.previous <= max
    BY <2>1, <2>2, RollType, RollWithin
  <2>4. CurrentBucket(buckets, f) = b
    BY DEF CurrentBucket, old, w
  <2> HIDE DEF b
  <2>5. b.previous * weight + b.current * w < max * w
    BY <1>2, <2>4 DEF Admits, ScaledEstimate, max, w
  <2>6. b.current \in Nat /\ b.previous \in Nat /\ b.start \in Nat
    BY <2>3 DEF Bucket
  <2>7. weight \in Nat
    BY <2>1, <2>6 DEF Greatest, Least
  <2> HIDE DEF weight
  <2>8. b.current * w < max * w
    <3>1. b.previous * weight \in Nat /\ b.current * w \in Nat /\ max * w \in Nat
      BY <2>1, <2>6, <2>7
    <3> QED
      BY <2>5, <3>1
  <2>9. b.current + 1 <= max
    BY <2>1, <2>6, <2>8, CancelFactor
  <2>10. Admitted(buckets, f) = [buckets EXCEPT ![f] = [b EXCEPT !.current = @ + 1]]
    BY <1>2, <2>4 DEF Admitted
  <2>11. /\ [b EXCEPT !.current = @ + 1].current <= max
         /\ [b EXCEPT !.current = @ + 1].previous <= max
    BY <2>3, <2>9 DEF Bucket
  <2> DEFINE counted == [b EXCEPT !.current = @ + 1]
  <2> HIDE DEF counted
  <2> QED
    BY <1>2, <2>1, <2>10, <2>11 DEF Within, max, counted
<1> QED
  BY <1>1, <1>2

\* enqueue_one admits before it inserts, on the buckets of its transaction.
LEMMA EnqueueOneWithin ==
    ASSUME NEW t \in TxOK, NEW r \in Request, Within(t.buckets), now \in Nat,
           ingressRules \in [Facet -> RateRule \cup {Nil}]
    PROVE  /\ Verdict(t, r) = "inserted" => Within(Inserted(t, r).buckets)
           /\ Within(EnqueueOne(t, r).buckets)
<1>1. ASSUME Verdict(t, r) = "inserted"
      PROVE  Within(Inserted(t, r).buckets)
  <2>1. Admits(t.buckets, r.opts.facet)
    BY <1>1 DEF Verdict
  <2>2. t.buckets \in [Facet -> Bucket \cup {Nil}] /\ r.opts.facet \in Facet \cup {Nil}
    BY DEF TxOK, Request, Opts
  <2>3. Within(Admitted(t.buckets, r.opts.facet))
    BY <2>1, <2>2, AdmittedWithin
  <2>4. Inserted(t, r).buckets = Admitted(t.buckets, r.opts.facet)
    BY Zenon DEF Inserted
  <2> QED
    BY Zenon, <2>3, <2>4
<1> QED
  BY Zenon, <1>1 DEF EnqueueOne

\* What AddJob and AddJobBulk commit is within the limits, or nothing is.
LEMMA EnqueueWithin ==
    ASSUME TypeOK, AdmissionWithinRule,
           \/ \E raw \in RawRequest : AddJob(raw)
           \/ \E raw1 \in RawRequest, raw2 \in RawRequest : AddJobBulk(raw1, raw2)
    PROVE  AdmissionWithinRule'
<1>1. /\ Tx \in TxOK /\ Within(Tx.buckets) /\ now \in Nat
      /\ ingressRules \in [Facet -> RateRule \cup {Nil}]
      /\ history \in [JobId -> Archived \cup {Nil}]
  <2>1. Tx.buckets = ingressBuckets
    BY DEF Tx
  <2>2. Within(Tx.buckets)
    BY Zenon, <2>1 DEF Within, AdmissionWithinRule
  <2> QED
    BY Zenon, <2>2, TxBegins DEF TypeOK
<1>2. ASSUME NEW t, Within(t.buckets), Commit(t)
      PROVE  AdmissionWithinRule'
  BY Zenon, <1>2 DEF Within, AdmissionWithinRule, Commit
<1>3. ASSUME NEW kind, RecordRejection(kind)
      PROVE  AdmissionWithinRule'
  BY Zenon, <1>3 DEF RecordRejection, AdmissionWithinRule, limits
<1>4. ASSUME NEW raw \in RawRequest, AddJob(raw)
      PROVE  AdmissionWithinRule'
  <2>1. Prepared(raw) \in Request
    BY PreparedType
  <2>2. Verdict(Tx, Prepared(raw)) = "inserted" => Within(Inserted(Tx, Prepared(raw)).buckets)
    BY <1>1, <2>1, EnqueueOneWithin
  <2> QED
    BY Zenon, <1>2, <1>3, <1>4, <2>2 DEF AddJob
<1>5. ASSUME NEW raw1 \in RawRequest, NEW raw2 \in RawRequest, AddJobBulk(raw1, raw2)
      PROVE  AdmissionWithinRule'
  <2> DEFINE first == EnqueueOne(Tx, Prepared(raw1))
             both == EnqueueOne(first, Prepared(raw2))
  <2>1. Prepared(raw1) \in Request /\ Prepared(raw2) \in Request
    BY PreparedType
  <2>2. Tx.issued < MaxJobs
    <3>1. /\ issued \in 0..MaxJobs /\ issued + 2 <= MaxJobs /\ MaxJobs \in Nat
          /\ Tx.issued = issued
      BY Zenon, <1>5, BoundAssumption DEF AddJobBulk, Tx, TypeOK
    <3> QED
      BY <3>1
  <2>3. first \in TxOK
    BY Zenon, <1>1, <2>1, <2>2, EnqueueOneContinues DEF Continues
  <2>4. Within(first.buckets)
    BY Zenon, <1>1, <2>1, EnqueueOneWithin
  <2> HIDE DEF first
  <2>5. Within(both.buckets)
    BY Zenon, <1>1, <2>1, <2>3, <2>4, EnqueueOneWithin
  <2> HIDE DEF both
  <2> QED
    BY Zenon, <1>2, <1>3, <1>5, <2>5 DEF AddJobBulk, first, both
<1> QED
  BY <1>4, <1>5

\* The worker's RPCs neither admit nor reject.
LEMMA RequestsAdmitNothing ==
    ASSUME Requests
    PROVE  UNCHANGED <<ingressRules, ingressBuckets, rejections>>
<1>1. PICK i \in JobId, w \in Worker :
        \/ \E names \in Polls : GetNextJob(w, names, i)
        \/ \E a \in RequestAttempts :
              \/ RenewLease(i, w, a)
              \/ \E r \in Result \cup {Nil} : CompleteJob(i, w, a, r)
              \/ ReplayCompletion(i, w, a)
              \/ \E final \in BOOLEAN : FailJob(i, w, a, final)
  BY DEF Requests
<1>2. CASE \E names \in Polls : GetNextJob(w, names, i)
  BY <1>2 DEF GetNextJob
<1>3. ASSUME NEW a \in RequestAttempts,
             \/ RenewLease(i, w, a)
             \/ \E r \in Result \cup {Nil} : CompleteJob(i, w, a, r)
             \/ ReplayCompletion(i, w, a)
             \/ \E final \in BOOLEAN : FailJob(i, w, a, final)
      PROVE  UNCHANGED <<ingressRules, ingressBuckets, rejections>>
  <2>1. UNCHANGED <<limits, rejections>>
    BY ZenonT(60), <1>3 DEF RenewLease, CompleteJob, ReplayCompletion, FailJob, RetryJob,
                            FailForGood
  <2> QED
    BY <2>1 DEF limits
<1> QED
  BY <1>1, <1>2, <1>3

\* No step overfills an ingress window.
LEMMA StepWithinIngressRule ==
    ASSUME TypeOK, AdmissionWithinRule, [Next]_vars
    PROVE  AdmissionWithinRule'
<1>1. ASSUME ingressRules' = ingressRules, ingressBuckets' = ingressBuckets
      PROVE  AdmissionWithinRule'
  BY Zenon, <1>1 DEF AdmissionWithinRule
<1>2. CASE Enqueues
  <2>1. CASE \E r \in JobRequests : AddJob(r)
    BY <2>1, RequestAssumption, EnqueueWithin
  <2>2. ASSUME NEW b \in BulkRequests, AddJobBulk(b[1], b[2])
        PROVE  AdmissionWithinRule'
    <3>1. b[1] \in RawRequest /\ b[2] \in RawRequest
      BY RequestAssumption
    <3> QED
      BY Zenon, <2>2, <3>1, EnqueueWithin
  <2>3. CASE \/ \E f \in Forests : AddFlow(f)
             \/ \E s \in Slot, f \in MergeForests : AddFlowMerge(s, f)
    <3>1. ingressRules' = ingressRules /\ ingressBuckets' = ingressBuckets
      BY ZenonT(60), <2>3 DEF AddFlow, AddFlowMerge, limits
    <3> QED
      BY <1>1, <3>1
  <2> QED
    BY <1>2, <2>1, <2>2, <2>3 DEF Enqueues
<1>3. CASE Requests
  BY <1>1, <1>3, RequestsAdmitNothing
<1>4. CASE Operator
  <2>1. PICK f \in Facet :
          \/ \E rule \in RateRuleChoices : UpsertRateLimitRule(f, rule)
          \/ DeleteRateLimitRule(f)
          \/ \E rule \in IngressRuleChoices : UpsertIngressLimitRule(f, rule)
          \/ DeleteIngressLimitRule(f)
    BY <1>4 DEF Operator
  <2>2. /\ ingressRules \in [Facet -> RateRule \cup {Nil}]
        /\ ingressBuckets \in [Facet -> Bucket \cup {Nil}]
    BY Zenon DEF TypeOK
  <2>3. ASSUME NEW rule, ingressRules' = [ingressRules EXCEPT ![f] = rule],
               ingressBuckets' = [ingressBuckets EXCEPT ![f] = Nil]
        PROVE  AdmissionWithinRule'
    BY <2>2, <2>3 DEF AdmissionWithinRule
  <2> QED
    BY Zenon, <1>1, <2>1, <2>3 DEF UpsertRateLimitRule, DeleteRateLimitRule,
                            UpsertIngressLimitRule, DeleteIngressLimitRule
<1>5. CASE Recovery
  <2>1. ingressRules' = ingressRules /\ ingressBuckets' = ingressBuckets
    BY Zenon, <1>5 DEF Recovery, RecoverExpired, limits
  <2> QED
    BY <1>1, <2>1
<1>6. CASE Tick \/ ClockStepsBack \/ UNCHANGED vars
  BY Zenon, <1>1, <1>6 DEF Tick, ClockStepsBack, vars, limits
<1> QED
  BY <1>2, <1>3, <1>4, <1>5, <1>6 DEF Next

\* A rejected AddJob or AddJobBulk leaves its record and nothing else.
LEMMA StepRejects ==
    ASSUME [Next]_vars, rejections' # rejections
    PROVE  UNCHANGED <<issued, jobs, receipts, ingressBuckets, chains>>
<1>1. \/ \E r \in JobRequests : AddJob(r)
      \/ \E b \in BulkRequests : AddJobBulk(b[1], b[2])
  <2>1. ~Recovery
    BY Zenon DEF Recovery, RecoverExpired
  <2>2. ~Operator
    BY Zenon DEF Operator, UpsertRateLimitRule, DeleteRateLimitRule,
                       UpsertIngressLimitRule, DeleteIngressLimitRule
  <2>3. ~Requests
    BY RequestsAdmitNothing
  <2>4. ~Tick /\ ~ClockStepsBack /\ ~UNCHANGED vars
    BY DEF Tick, ClockStepsBack, vars
  <2>5. ~(\E f \in Forests : AddFlow(f))
        /\ ~(\E s \in Slot, f \in MergeForests : AddFlowMerge(s, f))
    BY ZenonT(60) DEF AddFlow, AddFlowMerge
  <2> QED
    BY <2>1, <2>2, <2>3, <2>4, <2>5 DEF Next, Enqueues
<1>2. \E kind : RecordRejection(kind)
  <2>1. \A t : ~Commit(t)
    BY Zenon DEF Commit
  <2> QED
    BY ZenonT(60), <1>1, <2>1 DEF AddJob, AddJobBulk
<1> QED
  BY <1>2 DEF RecordRejection, limits
-----------------------------------------------------------------------------
(***************************************************************************)
(* Broker implements AbstractQueue                                         *)
(***************************************************************************)

\* How the abstract job follows the changes a row may undergo.
LEMMA ViewFollowsRow ==
    ASSUME NEW i \in JobId
    PROVE  /\ Same(i) \/ Kept(i) => View(i)' = View(i)
           /\ Requeued(i) =>
                 /\ View(i)' = Abstract!Pending(View(i).attempt, View(i).budget)
                 /\ View(i).status = "running"
                 /\ View(i).attempt < View(i).budget
           /\ Ended(i) =>
                 /\ View(i)' = [View(i) EXCEPT !.status = history'[i].state]
                 /\ View(i).status = IF Active(i) THEN "running" ELSE "pending"
<1>1. Same(i) => View(i)' = View(i)
  BY Zenon DEF Same, View, Entry, Live, Finished
<1>2. Kept(i) => View(i)' = View(i)
  BY Zenon DEF Kept, View, Entry
<1>3. ASSUME Requeued(i)
      PROVE  /\ View(i)' = Abstract!Pending(View(i).attempt, View(i).budget)
             /\ View(i).status = "running"
             /\ View(i).attempt < View(i).budget
  <2>1. View(i) = [status |-> "running", owner |-> jobs[i].worker,
                   attempt |-> jobs[i].attempts, budget |-> jobs[i].opts.max]
    BY Zenon, <1>3 DEF Requeued, View, Entry, Active
  <2>2. View(i)' = [status |-> "pending", owner |-> Nil,
                    attempt |-> jobs[i].attempts, budget |-> jobs[i].opts.max]
    BY Zenon, <1>3 DEF Requeued, View, Entry
  <2>3. jobs[i].attempts < jobs[i].opts.max
    BY Zenon, <1>3 DEF Requeued, MayRetry
  <2> QED
    BY <2>1, <2>2, <2>3 DEF Abstract!Pending
<1>4. ASSUME Ended(i)
      PROVE  /\ View(i)' = [View(i) EXCEPT !.status = history'[i].state]
             /\ View(i).status = IF Active(i) THEN "running" ELSE "pending"
  <2>1. View(i) = [status |-> IF Active(i) THEN "running" ELSE "pending",
                   owner |-> jobs[i].worker, attempt |-> jobs[i].attempts,
                   budget |-> jobs[i].opts.max]
    BY Zenon, <1>4 DEF Ended, View, Entry, Active
  <2>2. View(i)' = [status |-> history'[i].state, owner |-> jobs[i].worker,
                    attempt |-> jobs[i].attempts, budget |-> jobs[i].opts.max]
    BY Zenon, <1>4 DEF Ended, View, Entry
  <2> QED
    BY <2>1, <2>2
<1> QED
  BY <1>1, <1>2, <1>3, <1>4

\* Enqueues submit the jobs they insert; the other undisturbing steps submit none.
LEMMA UndisturbedSubmits ==
    ASSUME IInv, Quiet, Undisturbed
    PROVE  Abstract!Next
<1> DEFINE S == {i \in JobId : issued < i /\ i <= issued'}
<1>1. ASSUME NEW i \in JobId, i \notin S
      PROVE  View(i)' = View(i)
  BY <1>1, ViewFollowsRow DEF Undisturbed, Same
<1>2. ASSUME NEW i \in S
      PROVE  /\ View(i) = Abstract!Absent
             /\ View(i)'.budget \in Nat \ {0}
             /\ View(i)' = Abstract!Pending(0, View(i)'.budget)
  <2>1. ~Live(i) /\ ~Finished(i)
    <3>1. issued \in Nat /\ i \in Nat
      BY DEF IInv, TypeOK, JobId
    <3> QED
      BY <3>1 DEF IInv, NoJobLost
  <2>2. Fresh(jobs'[i])
    BY DEF Quiet, Rows
  <2>3. Live(i)' /\ jobs'[i].opts.max \in Nat \ {0}
    BY Zenon, <2>2, RowsNotNil DEF Fresh, Live, Job, Opts
  <2>4. View(i)' = Abstract!Pending(0, jobs'[i].opts.max)
    BY Zenon, <2>2, <2>3 DEF Fresh, View, Entry, Abstract!Pending
  <2>5. View(i) = Abstract!Absent
    BY Zenon, <2>1 DEF View, Abstract!Absent
  <2> QED
    BY <2>3, <2>4, <2>5 DEF Abstract!Pending
<1>3. S \in SUBSET JobId /\ acks' = acks
  BY DEF Quiet
<1> HIDE DEF S
<1>4. Abstract!Submit(S)
  BY <1>1, <1>2, <1>3 DEF Abstract!Submit
<1> QED
  BY <1>3, <1>4 DEF Abstract!Next

\* The recovery loop takes back the attempts it found expired.
LEMMA RecoveryTakesBack ==
    ASSUME NEW S, S \subseteq JobId, TakenBack(S), acks' = acks
    PROVE  Abstract!Next
<1>1. ASSUME NEW i \in JobId
      PROVE  View(i)' = IF i \notin S THEN View(i)
                        ELSE IF View(i).attempt < View(i).budget
                        THEN Abstract!Pending(View(i).attempt, View(i).budget)
                        ELSE [View(i) EXCEPT !.status = "Failed"]
  <2>1. CASE i \notin S
    BY <2>1, ViewFollowsRow DEF TakenBack, Same
  <2>2. CASE i \in S /\ MayRetry(jobs[i])
    <3>1. Requeued(i)
      BY Zenon, <2>2 DEF TakenBack
    <3> QED
      BY <2>2, <3>1, ViewFollowsRow
  <2>3. CASE i \in S /\ ~MayRetry(jobs[i])
    <3>1. Active(i) /\ Ended(i) /\ history'[i].state = "Failed"
      BY Zenon, <2>3 DEF TakenBack
    <3>2. View(i)' = [View(i) EXCEPT !.status = "Failed"]
      BY <3>1, ViewFollowsRow
    <3>3. View(i).attempt = jobs[i].attempts /\ View(i).budget = jobs[i].opts.max
      BY Zenon, <3>1 DEF Active, View, Entry
    <3> QED
      BY <2>3, <3>2, <3>3 DEF MayRetry
  <2> QED
    BY <2>1, <2>2, <2>3
<1>2. ASSUME NEW i \in S
      PROVE  View(i).status = "running"
  <2>1. i \in JobId /\ (Requeued(i) \/ (Active(i) /\ Ended(i)))
    BY Zenon DEF TakenBack
  <2> QED
    BY <2>1, ViewFollowsRow
<1>3. Abstract!TakeBack(S)
  BY <1>1, <1>2 DEF Abstract!TakeBack, Abstract!Has, Abstract!AttemptLeft,
                    Abstract!Requeued
<1> QED
  BY <1>3 DEF Abstract!Next

\* GetNextJob grants.
LEMMA ClaimGrants ==
    ASSUME IInv, NEW i \in JobId, NEW w \in Worker, ClaimStep(i, w)
    PROVE  Abstract!Next
<1>1. /\ Live(i) /\ jobs[i].state # "Active" /\ acks' = acks /\ history' = history
      /\ Active(i)' /\ jobs'[i].worker = w
      /\ jobs'[i].attempts = jobs[i].attempts + 1 /\ jobs'[i].opts = jobs[i].opts
      /\ \A j \in JobId : j # i => jobs'[j] = jobs[j]
  BY Zenon DEF ClaimStep
<1>2. jobs[i].attempts < jobs[i].opts.max
  BY Zenon, <1>1 DEF IInv, AttemptBudget
<1>3. View(i) = Abstract!Pending(jobs[i].attempts, jobs[i].opts.max)
  BY Zenon, <1>1 DEF View, Entry, Abstract!Pending, IInv, ClaimsExclusive
<1>4. View(i)' = Abstract!Running(w, jobs[i].attempts + 1, jobs[i].opts.max)
  BY Zenon, <1>1 DEF View, Entry, Abstract!Running, Active
<1>5. \A j \in JobId : j # i => View(j)' = View(j)
  BY <1>1, ViewFollowsRow DEF Same
<1>6. /\ View(i).status = "pending" /\ View(i).attempt = jobs[i].attempts
      /\ View(i).budget = jobs[i].opts.max
  BY <1>3 DEF Abstract!Pending
<1>7. Abstract!Grant(i, w)
  BY Zenon, <1>1, <1>2, <1>4, <1>5, <1>6
  DEF Abstract!Grant, Abstract!Has, Abstract!AttemptLeft
<1> QED
  BY <1>7 DEF Abstract!Next

\* An answer names the owner and the attempt of the abstract job.
LEMMA ToldIsTell ==
    ASSUME NEW i \in JobId, NEW outcome, Active(i), Told(i, outcome)
    PROVE  Abstract!Tell(i, outcome)
<1>1. View(i).owner = jobs[i].worker /\ View(i).attempt = jobs[i].attempts
  BY Zenon DEF Active, View, Entry
<1> QED
  BY Zenon, <1>1 DEF Told, Abstract!Tell

\* CompleteJob completes its own job; a parent that counts the child is not seen
\* to change.
LEMMA CompleteCompletes ==
    ASSUME NEW i \in JobId, Completes(i)
    PROVE  Abstract!Next
<1>1. /\ Active(i) /\ Ended(i) /\ history'[i].state = "Completed"
      /\ Told(i, "Completed")
      /\ \A j \in JobId : j # i => Same(j) \/ Kept(j)
  BY Zenon DEF Completes
<1>2. View(i)' = [View(i) EXCEPT !.status = "Completed"] /\ View(i).status = "running"
  BY <1>1, ViewFollowsRow
<1>3. \A j \in JobId : j # i => View(j)' = View(j)
  BY Zenon, <1>1, ViewFollowsRow
<1>4. Abstract!Tell(i, "Completed")
  BY Zenon, <1>1, ToldIsTell
<1>5. Abstract!Complete(i)
  BY Zenon, <1>2, <1>3, <1>4 DEF Abstract!Complete, Abstract!Has
<1> QED
  BY <1>5 DEF Abstract!Next

\* A repeated CompleteJob repeats the answer.
LEMMA ReplayRepeats ==
    ASSUME NEW i \in JobId, NEW w, NEW a, ReplayCompletion(i, w, a)
    PROVE  Abstract!Next
<1>1. /\ ~Live(i) /\ Finished(i) /\ history[i].state = "Completed"
      /\ history[i].worker = w /\ history[i].attempts = Acknowledged(a)
      /\ jobs' = jobs /\ history' = history
      /\ acks' = acks \cup {[id |-> i, worker |-> w, attempt |-> Acknowledged(a),
                             outcome |-> "Completed"]}
  BY Zenon DEF ReplayCompletion, Acked
<1>2. /\ View(i).status = "Completed" /\ View(i).owner = w
      /\ View(i).attempt = Acknowledged(a)
  BY Zenon, <1>1 DEF View, Entry
<1>3. \A j \in JobId : View(j)' = View(j)
  BY <1>1, ViewFollowsRow DEF Same
<1>4. Abstract!Repeat(i)
  BY Zenon, <1>1, <1>2, <1>3 DEF Abstract!Repeat, Abstract!Has, Abstract!Tell
<1> QED
  BY <1>4 DEF Abstract!Next

\* FailJob with an attempt left requeues its own job.
LEMMA RetryRetries ==
    ASSUME NEW i \in JobId, Retries(i)
    PROVE  Abstract!Next
<1>1. /\ Requeued(i) /\ Active(i) /\ Told(i, "Retried")
      /\ \A j \in JobId : j # i => Same(j)
  BY Zenon DEF Retries, Requeued
<1>2. /\ View(i)' = Abstract!Pending(View(i).attempt, View(i).budget)
      /\ View(i).status = "running" /\ View(i).attempt < View(i).budget
  BY <1>1, ViewFollowsRow
<1>3. \A j \in JobId : j # i => View(j)' = View(j)
  BY Zenon, <1>1, ViewFollowsRow
<1>4. Abstract!Tell(i, "Retried")
  BY <1>1, ToldIsTell
<1>5. Abstract!Retry(i)
  BY Zenon, <1>2, <1>3, <1>4
  DEF Abstract!Retry, Abstract!Has, Abstract!AttemptLeft, Abstract!Requeued
<1> QED
  BY <1>5 DEF Abstract!Next

\* FailJob for good fails its own job and the ancestors its flags reach.
LEMMA FailFails ==
    ASSUME NEW i \in JobId, NEW S, FailsWith(i, S)
    PROVE  Abstract!Next
<1>1. /\ Active(i) /\ i \in S /\ S \subseteq JobId /\ Told(i, "Failed")
      /\ \A j \in JobId : IF j \in S THEN Ended(j) /\ history'[j].state = "Failed"
                         ELSE Same(j)
  BY Zenon DEF FailsWith
<1>2. ASSUME NEW j \in S
      PROVE  /\ View(j)' = [View(j) EXCEPT !.status = "Failed"]
             /\ View(j).status \in {"pending", "running"}
             /\ j = i => View(j).status = "running"
  <2>1. j \in JobId /\ Ended(j) /\ history'[j].state = "Failed"
    BY Zenon, <1>1
  <2> QED
    BY <1>1, <2>1, ViewFollowsRow
<1>3. \A j \in JobId : j \notin S => View(j)' = View(j)
  BY Zenon, <1>1, ViewFollowsRow
<1>4. Abstract!Tell(i, "Failed")
  BY Zenon, <1>1, ToldIsTell
<1>5. Abstract!Fail(i, S)
  BY <1>1, <1>2, <1>3, <1>4 DEF Abstract!Fail, Abstract!Has, Abstract!Unfinished
<1> QED
  BY Zenon, <1>1, <1>5 DEF Abstract!Next

\* A step that leaves both job tables and the answers alone is invisible.
LEMMA TablesUnchanged ==
    ASSUME jobs' = jobs, history' = history, acks' = acks
    PROVE  UNCHANGED <<[i \in JobId |-> View(i)], acks>>
<1>1. \A i \in JobId : View(i)' = View(i)
  BY ViewFollowsRow DEF Same
<1> QED
  BY <1>1

\* Every step of the broker is one of the abstract queue, or invisible there.
LEMMA StepImplements ==
    ASSUME ForestsCounted, IInv, [Next]_vars
    PROVE  [Abstract!Next]_<<[i \in JobId |-> View(i)], acks>>
<1>0. Tables /\ TypeOK
  BY Zenon, InvariantTables DEF IInv
<1>1. CASE Enqueues
  BY <1>0, <1>1, EnqueuesQuiet, UndisturbedSubmits
<1>2. CASE Requests
  <2>1. PICK i \in JobId, w \in Worker :
          \/ \E names \in Polls : GetNextJob(w, names, i)
          \/ \E a \in RequestAttempts :
                \/ RenewLease(i, w, a)
                \/ \E r \in Result \cup {Nil} : CompleteJob(i, w, a, r)
                \/ ReplayCompletion(i, w, a)
                \/ \E final \in BOOLEAN : FailJob(i, w, a, final)
    BY <1>2 DEF Requests
  <2>2. ASSUME NEW names \in Polls, GetNextJob(w, names, i)
        PROVE  Abstract!Next
    BY <1>0, <2>2, GetNextJobClaims, ClaimGrants
  <2>3. ASSUME NEW a \in RequestAttempts,
               \/ RenewLease(i, w, a)
               \/ \E r \in Result \cup {Nil} : CompleteJob(i, w, a, r)
               \/ ReplayCompletion(i, w, a)
               \/ \E final \in BOOLEAN : FailJob(i, w, a, final)
        PROVE  Abstract!Next
    <3>1. a \in Nat
      BY RequestAssumption
    <3>2. CASE RenewLease(i, w, a)
      BY <1>0, <3>1, <3>2, RenewLeaseQuiet, UndisturbedSubmits
    <3>3. ASSUME NEW r \in Result \cup {Nil}, CompleteJob(i, w, a, r)
          PROVE  Abstract!Next
      BY Zenon, <1>0, <3>1, <3>3, CompleteJobRows, CompleteCompletes
    <3>4. CASE ReplayCompletion(i, w, a)
      BY <3>4, ReplayRepeats
    <3>5. ASSUME NEW final \in BOOLEAN, FailJob(i, w, a, final)
          PROVE  Abstract!Next
      <4>1. CASE RetryJob(i, w, a)
        BY <1>0, <3>1, <4>1, RetryJobRows, RetryRetries
      <4>2. CASE FailForGood(i, w, a, final)
        BY <1>0, <3>1, <4>2, FailForGoodRows, FailFails
      <4> QED
        BY <3>5, <4>1, <4>2 DEF FailJob
    <3> QED
      BY <2>3, <3>2, <3>3, <3>4, <3>5
  <2> QED
    BY Zenon, <2>1, <2>2, <2>3
<1>3. CASE Operator
  BY Zenon, <1>3, TablesUnchanged DEF Operator, UpsertRateLimitRule, DeleteRateLimitRule,
                               UpsertIngressLimitRule, DeleteIngressLimitRule
<1>4. CASE Recovery
  BY <1>0, <1>4, RecoverExpiredQuiet, RecoveryTakesBack DEF Recovery, Quiet
<1>5. CASE Tick \/ ClockStepsBack \/ UNCHANGED vars
  BY Zenon, <1>5, TablesUnchanged DEF Tick, ClockStepsBack, vars
<1> QED
  BY Zenon, <1>1, <1>2, <1>3, <1>4, <1>5 DEF Next
-----------------------------------------------------------------------------
(***************************************************************************)
(* A running claim is safe from everyone else                              *)
(***************************************************************************)

\* No job is Active while a live child of it carries the failParent flag.
FlaggedParentsRest ==
    \A c \in JobId : Live(c) /\ Flagged(c) => ~Active(jobs[c].link.parent)

\* What ClaimProtected says of job i.
Protected(i) ==
    Active(i) /\ jobs[i].lease > now =>
       \/ /\ Active(i)'
          /\ jobs'[i].worker = jobs[i].worker
          /\ jobs'[i].attempts = jobs[i].attempts
          /\ jobs'[i].lease >= jobs[i].lease
       \/ \E a \in acks' \ acks :
             /\ a.id = i
             /\ a.worker = jobs[i].worker
             /\ a.attempt = jobs[i].attempts

\* A job whose row stays, or changes without its claim, is protected.
LEMMA KeptIsProtected ==
    ASSUME IInv, NEW i \in JobId, jobs'[i] = jobs[i] \/ Kept(i)
    PROVE  Protected(i)
<1> SUFFICES ASSUME Active(i)
             PROVE  /\ Active(i)'
                    /\ jobs'[i].worker = jobs[i].worker
                    /\ jobs'[i].attempts = jobs[i].attempts
                    /\ jobs'[i].lease >= jobs[i].lease
  BY Zenon DEF Protected
<1>1. jobs[i] \in Job /\ jobs[i].lease # Nil
  <2>1. jobs[i] # Nil /\ jobs[i].state = "Active"
    BY Zenon DEF Active, Live
  <2> QED
    BY Zenon, <2>1 DEF IInv, TypeOK, ClaimsExclusive, Live
<1>2. jobs[i].lease \in Nat
  BY Zenon, <1>1 DEF Job
<1>3. jobs[i].lease >= jobs[i].lease
  BY <1>2
<1>4. CASE jobs'[i] = jobs[i]
  BY Zenon, <1>3, <1>4 DEF Active, Live
<1>5. CASE Kept(i)
  BY Zenon, <1>3, <1>5 DEF Kept, Active, Live
<1> QED
  BY Zenon, <1>4, <1>5

\* The acknowledgement of a running claim is a new one: an earlier one would have
\* ended the job or the attempt.
LEMMA AnswerIsNew ==
    ASSUME IInv, NEW i \in JobId, Active(i),
           NEW outcome \in {"Completed", "Failed", "Retried"}, Told(i, outcome)
    PROVE  Protected(i)
<1> DEFINE a == [id |-> i, worker |-> jobs[i].worker, attempt |-> jobs[i].attempts,
                 outcome |-> outcome]
<1>1. a.id = i /\ a.worker = jobs[i].worker /\ a.attempt = jobs[i].attempts
      /\ a.outcome = outcome
  BY Zenon
<1>2. acks' = acks \cup {a}
  BY Zenon DEF Told
<1> HIDE DEF a
<1>3. jobs[i].attempts \in Nat /\ ~Finished(i)
  <2>1. jobs[i] \in Job
    BY Zenon DEF IInv, TypeOK, Active, Live
  <2>2. i <= issued => Live(i) # Finished(i)
    BY Zenon DEF IInv, NoJobLost
  <2>3. ~(i <= issued) => ~Live(i)
    BY Zenon DEF IInv, NoJobLost
  <2> QED
    BY Zenon, <2>1, <2>2, <2>3 DEF Job, Active
<1>4. a \notin acks
  <2> SUFFICES ASSUME a \in acks
               PROVE  FALSE
    OBVIOUS
  <2>1. AckHolds(a)
    BY Zenon DEF IInv, AcksAgree, AckHolds
  <2>2. a.outcome = "Retried" /\ jobs[a.id].attempts > a.attempt
    BY Zenon, <1>1, <1>3, <2>1 DEF AckHolds
  <2> QED
    BY <1>1, <1>3, <2>2
<1> QED
  BY Zenon, <1>1, <1>2, <1>4 DEF Protected

\* The failure walk passes no Active job but the one it starts from.
LEMMA WalkSparesActive ==
    ASSUME jobs \in [JobId -> Job \cup {Nil}], FlaggedParentsRest,
           NEW i \in JobId, Live(i), NEW j \in FailedWith(i), j # i
    PROVE  ~Active(j)
<1> DEFINE S == {i} \cup {c \in JobId : Live(c) /\ ~Active(c)}
<1>1. S \in SUBSET JobId /\ i \in S /\ \A c \in S : c \in JobId /\ Live(c)
  BY Zenon
<1>2. FailureClosed(S)
  <2> SUFFICES ASSUME NEW c \in S, jobs[c].link.failParent, jobs[c].link.parent # Nil,
                      Live(jobs[c].link.parent)
               PROVE  jobs[c].link.parent \in S
    BY Zenon DEF FailureClosed
  <2>1. jobs[c].link.parent \in JobId
    BY Zenon, <1>1 DEF Live, Job, Link
  <2>2. ~Active(jobs[c].link.parent)
    BY Zenon, <1>1 DEF FlaggedParentsRest, Flagged
  <2> QED
    BY Zenon, <2>1, <2>2
<1>3. j \in S
  <2> HIDE DEF S
  <2> QED
    BY Zenon, <1>1, <1>2 DEF FailedWith
<1> QED
  BY Zenon, <1>3

\* While flagged children keep their parents resting, every step leaves each
\* running claim alone or answers it.
LEMMA StepProtects ==
    ASSUME ForestsCounted, IInv, FlaggedParentsRest, [Next]_vars, NEW j \in JobId
    PROVE  Protected(j)
<1>0. Tables /\ TypeOK /\ jobs \in [JobId -> Job \cup {Nil}]
  BY Zenon, InvariantTables DEF IInv, TypeOK
<1>1. CASE jobs' = jobs
  BY Zenon, <1>1, KeptIsProtected
<1>2. CASE Enqueues
  <2>1. Undisturbed
    BY Zenon, <1>0, <1>2, EnqueuesQuiet
  <2>2. ~Live(j) \/ ~(issued < j /\ j <= issued')
    <3>1. Live(j) => j <= issued
      BY Zenon, <1>0 DEF Tables
    <3>2. issued \in Nat /\ j \in Nat
      BY <1>0 DEF TypeOK, JobId
    <3> QED
      BY <3>1, <3>2
  <2>3. CASE ~Live(j)
    BY Zenon, <2>3 DEF Protected, Active
  <2>4. CASE ~(issued < j /\ j <= issued')
    BY Zenon, <2>1, <2>4, KeptIsProtected DEF Undisturbed
  <2> QED
    BY Zenon, <2>2, <2>3, <2>4
<1>3. CASE Recovery
  <2>1. PICK S \in RecoveryBatches : RecoverExpired(S)
    BY Zenon, <1>3 DEF Recovery
  <2>2. TakenBack(S)
    BY Zenon, <1>0, <2>1, RecoverExpiredQuiet
  <2>3. CASE j \in S
    <3>1. jobs[j].lease # Nil /\ jobs[j].lease <= now /\ Live(j)
      BY Zenon, <2>1, <2>3 DEF RecoveryBatches, Expired, Active
    <3>2. jobs[j].lease \in Nat /\ now \in Nat
      <4>1. jobs[j] \in Job
        BY Zenon, <1>0, <3>1 DEF Live
      <4>2. jobs[j].lease \in Nat
        BY Zenon, <3>1, <4>1 DEF Job
      <4>3. now \in Nat
        BY <1>0 DEF TypeOK
      <4> QED
        BY Zenon, <4>2, <4>3
    <3>3. ~(jobs[j].lease > now)
      BY <3>1, <3>2
    <3> QED
      BY Zenon, <3>3 DEF Protected
  <2>4. CASE j \notin S
    BY Zenon, <2>2, <2>4, KeptIsProtected DEF TakenBack
  <2> QED
    BY Zenon, <2>3, <2>4
<1>4. CASE Requests
  <2>1. PICK i \in JobId, w \in Worker :
          \/ \E names \in Polls : GetNextJob(w, names, i)
          \/ \E a \in RequestAttempts :
                \/ RenewLease(i, w, a)
                \/ \E r \in Result \cup {Nil} : CompleteJob(i, w, a, r)
                \/ ReplayCompletion(i, w, a)
                \/ \E final \in BOOLEAN : FailJob(i, w, a, final)
    BY Zenon, <1>4 DEF Requests
  <2>2. \A a \in RequestAttempts : a \in Nat
    BY Zenon, RequestAssumption
  <2>3. ASSUME NEW names \in Polls, GetNextJob(w, names, i)
        PROVE  Protected(j)
    <3>1. ClaimStep(i, w)
      BY Zenon, <1>0, <2>3, GetNextJobClaims
    <3>2. CASE j = i
      BY Zenon, <3>1, <3>2 DEF ClaimStep, Protected, Active
    <3>3. CASE j # i
      BY Zenon, <3>1, <3>3, KeptIsProtected DEF ClaimStep
    <3> QED
      BY Zenon, <3>2, <3>3
  <2>4. ASSUME NEW a \in RequestAttempts, RenewLease(i, w, a)
        PROVE  Protected(j)
    <3>1. Undisturbed /\ issued' = issued
      BY Zenon, <1>0, <2>2, <2>4, RenewLeaseQuiet DEF RenewLease
    <3>2. ~(issued < j /\ j <= issued')
      BY <1>0, <3>1 DEF TypeOK, JobId
    <3> QED
      BY Zenon, <3>1, <3>2, KeptIsProtected DEF Undisturbed
  <2>5. ASSUME NEW a \in RequestAttempts, NEW r \in Result \cup {Nil}, CompleteJob(i, w, a, r)
        PROVE  Protected(j)
    <3>1. Completes(i)
      BY Zenon, <1>0, <2>2, <2>5, CompleteJobRows
    <3>2. CASE j = i
      BY Zenon, <3>1, <3>2, AnswerIsNew DEF Completes
    <3>3. CASE j # i
      BY Zenon, <3>1, <3>3, KeptIsProtected DEF Completes, Same
    <3> QED
      BY Zenon, <3>2, <3>3
  <2>6. ASSUME NEW a \in RequestAttempts, ReplayCompletion(i, w, a)
        PROVE  jobs' = jobs
    BY Zenon, <2>6 DEF ReplayCompletion
  <2>7. ASSUME NEW a \in RequestAttempts, RetryJob(i, w, a)
        PROVE  Protected(j)
    <3>1. Retries(i)
      BY Zenon, <1>0, <2>2, <2>7, RetryJobRows
    <3>2. CASE j = i
      BY Zenon, <3>1, <3>2, AnswerIsNew DEF Retries, Requeued
    <3>3. CASE j # i
      BY Zenon, <3>1, <3>3, KeptIsProtected DEF Retries, Same
    <3> QED
      BY Zenon, <3>2, <3>3
  <2>8. ASSUME NEW a \in RequestAttempts, NEW final \in BOOLEAN, FailForGood(i, w, a, final)
        PROVE  Protected(j)
    <3>1. FailsWith(i, FailedWith(i))
      BY Zenon, <1>0, <2>2, <2>8, FailForGoodRows
    <3>2. CASE j = i
      BY Zenon, <3>1, <3>2, AnswerIsNew DEF FailsWith
    <3>3. CASE j # i /\ j \in FailedWith(i)
      BY Zenon, <1>0, <3>1, <3>3, WalkSparesActive DEF FailsWith, Active, Protected
    <3>4. CASE j # i /\ j \notin FailedWith(i)
      BY Zenon, <3>1, <3>4, KeptIsProtected DEF FailsWith, Same
    <3> QED
      BY Zenon, <3>2, <3>3, <3>4
  <2> QED
    BY Zenon, <1>1, <2>1, <2>3, <2>4, <2>5, <2>6, <2>7, <2>8 DEF FailJob
<1>5. ASSUME Operator \/ Tick \/ ClockStepsBack \/ UNCHANGED vars
      PROVE  jobs' = jobs
  BY Zenon, <1>5
  DEF Operator, UpsertRateLimitRule, DeleteRateLimitRule, UpsertIngressLimitRule,
      DeleteIngressLimitRule, Tick, ClockStepsBack, vars
<1> QED
  BY Zenon, <1>1, <1>2, <1>3, <1>4, <1>5 DEF Next
-----------------------------------------------------------------------------
(***************************************************************************)
(* The gate of a flow parent                                               *)
(***************************************************************************)

\* Only flows make jobs children: no AddJob or AddJobBulk request names a parent.
\* A child added by AddJob is not in pending_children but is subtracted from it.
NoNamedParents ==
    /\ \A r \in JobRequests : r.parent = Nil
    /\ \A b \in BulkRequests : b[1].parent = Nil /\ b[2].parent = Nil

\* Sets of jobs are counted by natural numbers, one at a time and in parts, and
\* numbering the nodes of a forest from a new id keeps the count.
GateCounting ==
    /\ \A S \in SUBSET JobId :
          /\ Cardinality(S) \in Nat
          /\ Cardinality(S) = 0 <=> S = {}
          /\ \A i \in S : Cardinality(S \ {i}) = Cardinality(S) - 1
          /\ \A T \in SUBSET JobId :
                S \cap T = {} => Cardinality(S \cup T) = Cardinality(S) + Cardinality(T)
    /\ \A n \in Nat, K \in SUBSET JobId : Cardinality({n + k : k \in K}) = Cardinality(K)

OpenChildren(i) == {c \in 1..issued : Row(c).link.parent = i /\ ~Completed(c)}

\* What GateHolds says of job i.
GateOf(i) ==
    /\ Live(i) => jobs[i].pending = Cardinality(OpenChildren(i))
    /\ Live(i) => (jobs[i].state = "WaitingChildren" <=> OpenChildren(i) # {})
    /\ Completed(i) => OpenChildren(i) = {}

\* A parent is older than its children.
ParentsFirst ==
    \A i \in 1..issued : Row(i).link.parent # Nil => Row(i).link.parent < i

GateInv == IInv /\ ParentsFirst /\ \A i \in 1..issued : GateOf(i)

\* The gate invariant is the property of the code.
LEMMA GateInvHolds == GateInv => GateHolds
<1> SUFFICES ASSUME GateInv, NEW i \in 1..issued
             PROVE  LET open == {c \in Children(i) : ~Completed(c)}
                    IN  /\ Live(i) => jobs[i].pending = Cardinality(open)
                        /\ Live(i) => (jobs[i].state = "WaitingChildren" <=> open # {})
                        /\ Completed(i) => open = {}
  BY Zenon DEF GateHolds
<1>1. {c \in Children(i) : ~Completed(c)} = OpenChildren(i)
  BY Zenon DEF Children, OpenChildren
<1>2. GateOf(i)
  BY Zenon DEF GateInv
<1> QED
  BY Zenon, <1>1, <1>2 DEF GateOf

\* Ids, rows and parents of the jobs there are.
LEMMA IssuedRows ==
    ASSUME IInv
    PROVE  /\ issued \in Nat /\ issued <= MaxJobs /\ MaxJobs \in Nat
           /\ \A i \in JobId : i \in Nat
           /\ \A i \in 1..issued : i \in JobId /\ i <= issued /\ Live(i) # Finished(i)
                                   /\ Row(i).link.parent \in JobId \cup {Nil}
           /\ \A i \in JobId : i <= issued => i \in 1..issued
           /\ \A i \in JobId : Live(i) => i \in 1..issued
           /\ \A i \in JobId : Completed(i) => i \in 1..issued
           /\ Nil \notin JobId
<1>1. issued \in 0..MaxJobs /\ MaxJobs \in Nat
  BY Zenon, BoundAssumption DEF IInv, TypeOK
<1>2. /\ issued \in Nat /\ issued <= MaxJobs
      /\ \A i \in JobId : i \in Nat
      /\ \A i \in 1..issued : i \in JobId /\ i <= issued
      /\ \A i \in JobId : i <= issued => i \in 1..issued
  BY <1>1 DEF JobId
<1>3. \A i \in 1..issued : Live(i) # Finished(i)
  BY Zenon, <1>2 DEF IInv, NoJobLost
<1>4. \A i \in JobId : Live(i) \/ Completed(i) => i \in 1..issued
  BY Zenon, <1>2 DEF IInv, NoJobLost, Completed
<1>5. ASSUME NEW i \in 1..issued
      PROVE  Row(i).link.parent \in JobId \cup {Nil}
  <2>1. CASE Live(i)
    <3>1. jobs[i] \in Job /\ Row(i) = jobs[i]
      BY Zenon, <1>2, <2>1 DEF IInv, TypeOK, Live, Row
    <3> QED
      BY Zenon, <3>1 DEF Job, Link
  <2>2. CASE ~Live(i)
    <3>1. i \in JobId /\ Finished(i)
      BY Zenon, <1>2, <1>3, <2>2 DEF Live, Finished
    <3>2. history[i] \in Archived /\ Row(i) = history[i]
      BY Zenon, <2>2, <3>1 DEF IInv, TypeOK, Finished, Row
    <3> QED
      BY Zenon, <3>2 DEF Archived, Link
  <2> QED
    BY Zenon, <2>1, <2>2
<1>6. Nil \notin JobId
  BY Zenon, <1>2, NilAssumption
<1> QED
  BY Zenon, <1>1, <1>2, <1>3, <1>4, <1>5, <1>6

\* A job keeps its parent from one table to the other.
LEMMA StepKeepsParents ==
    ASSUME IInv, Rows \/ \E i \in JobId, w \in Worker : ClaimStep(i, w),
           NEW c \in 1..issued
    PROVE  Row(c)'.link.parent = Row(c).link.parent
<1>1. c \in JobId /\ ~(issued < c)
  <2>1. c \in JobId /\ issued \in Nat
    BY Zenon, IssuedRows
  <2> QED
    BY <2>1
<1>2. CASE Rows
  <2>1. Settles(c)
    BY Zenon, <1>1, <1>2 DEF Rows
  <2>2. CASE jobs'[c] = jobs[c] /\ history'[c] = history[c]
    BY Zenon, <2>2 DEF Row, Live
  <2>3. CASE Kept(c)
    BY Zenon, <2>3 DEF Kept, Row, SameLineage
  <2>4. CASE Requeued(c)
    BY Zenon, <2>4 DEF Requeued, Row, Active
  <2>5. CASE Ended(c)
    BY Zenon, <2>5 DEF Ended, Row, SameLineage
  <2> QED
    BY Zenon, <2>1, <2>2, <2>3, <2>4, <2>5 DEF Settles
<1>3. ASSUME NEW i \in JobId, NEW w \in Worker, ClaimStep(i, w)
      PROVE  Row(c)'.link.parent = Row(c).link.parent
  BY Zenon, <1>1, <1>3 DEF ClaimStep, Row, Live, Active
<1> QED
  BY Zenon, <1>2, <1>3

\* A step that opens and closes no gate: no job is added or completed, and a row
\* that stays keeps its count and its side of the gate.
Calm ==
    /\ issued' = issued
    /\ \A i \in JobId :
          /\ history'[i] = history[i] \/ (Live(i) /\ history'[i].state = "Failed")
          /\ Live(i)' => /\ Live(i)
                         /\ jobs'[i].pending = jobs[i].pending
                         /\ jobs'[i].state = "WaitingChildren"
                              <=> jobs[i].state = "WaitingChildren"

\* Such a step keeps every gate.
LEMMA CalmKeepsGates ==
    ASSUME GateInv, IInv', Calm,
           \A c \in 1..issued : Row(c)'.link.parent = Row(c).link.parent
    PROVE  GateInv'
<1>1. /\ IInv /\ issued' = issued
      /\ \A i \in 1..issued : i \in JobId /\ Live(i) # Finished(i)
  BY Zenon, IssuedRows DEF GateInv, Calm
<1>2. ASSUME NEW i \in 1..issued
      PROVE  Completed(i)' <=> Completed(i)
  <2>1. CASE history'[i] = history[i]
    BY Zenon, <2>1 DEF Completed, Finished
  <2>2. CASE Live(i) /\ history'[i].state = "Failed"
    <3>1. ~Completed(i)
      BY Zenon, <1>1, <2>2 DEF Completed
    <3>2. history'[i].state # "Completed"
      BY Zenon, <2>2
    <3> QED
      BY Zenon, <3>1, <3>2 DEF Completed
  <2> QED
    BY Zenon, <1>1, <2>1, <2>2 DEF Calm
<1>3. ASSUME NEW i
      PROVE  OpenChildren(i)' = OpenChildren(i)
  BY Zenon, <1>1, <1>2 DEF OpenChildren
<1>4. ASSUME NEW i \in 1..issued
      PROVE  GateOf(i)'
  BY Zenon, <1>1, <1>2, <1>3 DEF GateInv, GateOf, Calm
<1>5. ParentsFirst'
  BY Zenon, <1>1 DEF GateInv, ParentsFirst
<1> QED
  BY Zenon, <1>1, <1>4, <1>5 DEF GateInv

\* What the row of a failed attempt keeps of the gate.
LEMMA RetryRowGate ==
    ASSUME NEW job \in Job, NEW delay
    PROVE  /\ RetryRow(job, delay).pending = job.pending
           /\ RetryRow(job, delay).state # "WaitingChildren"
<1>1. RestingState(now + delay) # "WaitingChildren"
  BY DEF RestingState
<1>2. /\ RetryRow(job, delay).pending = job.pending
      /\ RetryRow(job, delay).state = RestingState(now + delay)
  BY Zenon DEF RetryRow, Job
<1> QED
  BY Zenon, <1>1, <1>2

\* A job that is not at the gate moves on without passing it.
LEMMA OneRowCalm ==
    ASSUME IInv, NEW i \in JobId, Live(i), jobs[i].state # "WaitingChildren", NEW row,
           row.pending = jobs[i].pending, row.state # "WaitingChildren",
           jobs' = [jobs EXCEPT ![i] = row], history' = history, issued' = issued
    PROVE  Calm
<1>1. jobs \in [JobId -> Job \cup {Nil}]
  BY Zenon DEF IInv, TypeOK
<1>2. jobs'[i] = row /\ \A j \in JobId : j # i => jobs'[j] = jobs[j]
  BY Zenon, <1>1
<1> QED
  BY Zenon, <1>2 DEF Calm, Live

\* Every step but an enqueue and a completion is calm.
LEMMA StepIsCalm ==
    ASSUME IInv,
           Requests \/ Operator \/ Recovery \/ Tick \/ ClockStepsBack \/ UNCHANGED vars
    PROVE  \/ Calm
           \/ \E i \in JobId, w \in Worker, a \in RequestAttempts, r \in Result \cup {Nil} :
                 CompleteJob(i, w, a, r)
<1>0. Tables /\ TypeOK /\ jobs \in [JobId -> Job \cup {Nil}]
  BY Zenon, InvariantTables DEF IInv, TypeOK
<1>1. CASE UNCHANGED <<issued, jobs, history>>
  BY Zenon, <1>1 DEF Calm, Live
<1>2. CASE Recovery
  <2>1. PICK S \in RecoveryBatches : RecoverExpired(S)
    BY Zenon, <1>2 DEF Recovery
  <2>2. S \subseteq JobId /\ TakenBack(S) /\ issued' = issued
    BY Zenon, <1>0, <2>1, RecoverExpiredQuiet DEF RecoverExpired
  <2>3. ASSUME NEW i \in JobId, i \in S, MayRetry(jobs[i])
        PROVE  /\ Live(i) /\ jobs[i].state = "Active" /\ history'[i] = history[i]
               /\ jobs'[i].pending = jobs[i].pending /\ jobs'[i].state # "WaitingChildren"
    <3>1. Requeued(i)
      BY Zenon, <2>2, <2>3 DEF TakenBack
    <3>2. jobs[i] \in Job /\ Live(i) /\ jobs[i].state = "Active" /\ history'[i] = history[i]
      BY Zenon, <1>0, <3>1 DEF Requeued, Active, Live
    <3>3. jobs'[i] = RetryRow(jobs[i], RetryDelay(jobs[i].opts.base, jobs[i].opts.cap,
                                                   jobs[i].attempts))
      BY Zenon, <2>1, <2>3 DEF RecoverExpired
    <3> QED
      BY Zenon, <3>2, <3>3, RetryRowGate
  <2>4. ASSUME NEW i \in JobId, i \in S, ~MayRetry(jobs[i])
        PROVE  Live(i) /\ ~Live(i)' /\ history'[i].state = "Failed"
    BY Zenon, <2>2, <2>4 DEF TakenBack, Ended
  <2>5. ASSUME NEW i \in JobId, i \notin S
        PROVE  jobs'[i] = jobs[i] /\ history'[i] = history[i]
    BY Zenon, <2>2, <2>5 DEF TakenBack
  <2>6. "Active" # "WaitingChildren"
    OBVIOUS
  <2> QED
    BY Zenon, <2>2, <2>3, <2>4, <2>5, <2>6 DEF Calm, Live
<1>3. CASE Requests
  <2>1. PICK i \in JobId, w \in Worker :
          \/ \E names \in Polls : GetNextJob(w, names, i)
          \/ \E a \in RequestAttempts :
                \/ RenewLease(i, w, a)
                \/ \E r \in Result \cup {Nil} : CompleteJob(i, w, a, r)
                \/ ReplayCompletion(i, w, a)
                \/ \E final \in BOOLEAN : FailJob(i, w, a, final)
    BY Zenon, <1>3 DEF Requests
  <2>2. \A a \in RequestAttempts : a \in Nat
    BY Zenon, RequestAssumption
  <2>3. "Active" # "WaitingChildren" /\ "Waiting" # "WaitingChildren"
        /\ "Delayed" # "WaitingChildren"
    OBVIOUS
  <2>4. ASSUME NEW names \in Polls, GetNextJob(w, names, i)
        PROVE  Calm
    <3> DEFINE row == [jobs[i] EXCEPT !.state = "Active", !.worker = w,
                                      !.attempts = jobs[i].attempts + 1,
                                      !.lease = now + LeaseDuration]
    <3>1. Live(i) /\ jobs[i].state # "WaitingChildren" /\ jobs[i] \in Job
      BY Zenon, <1>0, <2>3, <2>4 DEF GetNextJob, Candidate, Live
    <3>2. jobs' = [jobs EXCEPT ![i] = row] /\ history' = history /\ issued' = issued
      BY Zenon, <2>4 DEF GetNextJob
    <3>3. row.pending = jobs[i].pending /\ row.state = "Active"
      BY Zenon, <3>1 DEF Job
    <3> HIDE DEF row
    <3> QED
      BY Zenon, <2>3, <3>1, <3>2, <3>3, OneRowCalm
  <2>5. ASSUME NEW a \in RequestAttempts, RenewLease(i, w, a)
        PROVE  Calm
    <3> DEFINE row == [jobs[i] EXCEPT !.lease = Greatest(jobs[i].lease, now + LeaseDuration)]
    <3>1. Live(i) /\ jobs[i].state = "Active" /\ jobs[i] \in Job
      BY Zenon, <1>0, <2>5 DEF RenewLease, HoldsClaim, Active, Live
    <3>2. jobs' = [jobs EXCEPT ![i] = row] /\ history' = history /\ issued' = issued
      BY <2>5 DEF RenewLease
    <3>3. row.pending = jobs[i].pending /\ row.state = "Active"
      BY Zenon, <3>1 DEF Job
    <3> HIDE DEF row
    <3> QED
      BY Zenon, <2>3, <3>1, <3>2, <3>3, OneRowCalm
  <2>6. ASSUME NEW a \in RequestAttempts, ReplayCompletion(i, w, a)
        PROVE  Calm
    BY Zenon, <2>6 DEF ReplayCompletion, Calm, Live
  <2>7. ASSUME NEW a \in RequestAttempts, RetryJob(i, w, a)
        PROVE  Calm
    <3>1. Live(i) /\ jobs[i].state = "Active" /\ jobs[i] \in Job
      BY Zenon, <1>0, <2>7 DEF RetryJob, HoldsClaim, Active, Live
    <3>2. PICK delay : jobs' = [jobs EXCEPT ![i] = RetryRow(jobs[i], delay)]
      BY Zenon, <2>7 DEF RetryJob
    <3>3. history' = history /\ issued' = issued
      BY Zenon, <2>7 DEF RetryJob
    <3>4. PICK row : row = RetryRow(jobs[i], delay)
      BY Zenon
    <3>5. row.pending = jobs[i].pending /\ row.state # "WaitingChildren"
      BY Zenon, <3>1, <3>4, RetryRowGate
    <3> QED
      BY Zenon, <2>3, <3>1, <3>2, <3>3, <3>4, <3>5, OneRowCalm
  <2>8. ASSUME NEW a \in RequestAttempts, NEW final \in BOOLEAN, FailForGood(i, w, a, final)
        PROVE  Calm
    <3>1. FailsWith(i, FailedWith(i)) /\ issued' = issued
      BY Zenon, <1>0, <2>2, <2>8, FailForGoodRows DEF FailForGood
    <3> QED
      BY Zenon, <3>1 DEF FailsWith, Same, Ended, Calm, Live
  <2> QED
    BY Zenon, <2>1, <2>4, <2>5, <2>6, <2>7, <2>8 DEF FailJob
<1>4. ASSUME Operator \/ Tick \/ ClockStepsBack \/ UNCHANGED vars
      PROVE  UNCHANGED <<issued, jobs, history>>
  BY Zenon, <1>4
  DEF Operator, UpsertRateLimitRule, DeleteRateLimitRule, UpsertIngressLimitRule,
      DeleteIngressLimitRule, Tick, ClockStepsBack, vars
<1> QED
  BY Zenon, <1>1, <1>2, <1>3, <1>4

\* CompleteJob takes the job out of its parent's count, and opens the gate with the
\* last child.
LEMMA CompletionKeepsGates ==
    ASSUME GateCounting, GateInv, IInv', NEW i \in JobId, NEW w \in Worker,
           NEW a \in RequestAttempts, NEW r \in Result \cup {Nil}, CompleteJob(i, w, a, r),
           \A c \in 1..issued : Row(c)'.link.parent = Row(c).link.parent
    PROVE  GateInv'
<1>1. /\ IInv /\ TypeOK /\ a \in Nat
      /\ i \in 1..issued
      /\ jobs[i] # Nil /\ jobs[i].state = "Active" /\ jobs[i] \in Job
  <2>1. IInv /\ TypeOK /\ a \in Nat
    BY Zenon, RequestAssumption DEF GateInv, IInv
  <2>2. jobs[i] # Nil /\ jobs[i].state = "Active"
    BY Zenon DEF CompleteJob, HoldsClaim, Active, Live
  <2> QED
    BY Zenon, <2>1, <2>2, IssuedRows DEF TypeOK, Live
<1>2. /\ issued \in Nat /\ issued <= MaxJobs /\ MaxJobs \in Nat /\ Nil \notin JobId
      /\ \A j \in JobId : j \in Nat
      /\ \A j \in 1..issued : j \in JobId /\ Live(j) # Finished(j)
                              /\ Row(j).link.parent \in JobId \cup {Nil}
  BY Zenon, <1>1, IssuedRows
<1>3. PICK p : p = jobs[i].link.parent
  BY Zenon
<1>4. /\ issued' = issued
      /\ \A j \in JobId : jobs'[j] = IF j = i THEN Nil
                                     ELSE IF j = p /\ Live(j) THEN AfterChildCompleted(jobs[j])
                                     ELSE jobs[j]
  BY Zenon, <1>3 DEF CompleteJob
<1>5. Completes(i)
  BY Zenon, <1>1, CompleteJobRows
<1>6. Completed(i)' /\ \A j \in JobId : j # i => (Completed(j)' <=> Completed(j))
  BY Zenon, <1>5 DEF Completes, Ended, Same, Kept, Completed, Finished
<1>7. Row(i).link.parent = p /\ ~Completed(i)
  BY Zenon, <1>1, <1>2, <1>3 DEF Row, Live, Completed, Finished
<1>8. p # i
  <2>1. p # Nil => p < i
    BY Zenon, <1>1, <1>7 DEF GateInv, ParentsFirst
  <2>2. i \in Nat /\ (p = i => p # Nil)
    BY Zenon, <1>2
  <2> QED
    BY <2>1, <2>2
<1>9. ASSUME NEW j
      PROVE  OpenChildren(j)' = OpenChildren(j) \ {i} /\ (j # p => i \notin OpenChildren(j))
  BY Zenon, <1>2, <1>4, <1>6, <1>7 DEF OpenChildren
<1>10. i \in OpenChildren(p)
  BY Zenon, <1>1, <1>7 DEF OpenChildren
<1>11. ASSUME NEW j \in 1..issued
       PROVE  GateOf(j)'
  <2>0. GateOf(j) /\ j \in JobId
    BY Zenon, <1>2 DEF GateInv
  <2>1. CASE j = i
    <3>1. OpenChildren(i) = {}
      <4>1. jobs[i].state # "WaitingChildren"
        BY Zenon, <1>1
      <4> QED
        BY Zenon, <1>1, <2>0, <2>1, <4>1 DEF GateOf, Live
    <3>2. OpenChildren(i)' = {}
      BY Zenon, <1>9, <3>1
    <3>3. ~Live(i)'
      BY Zenon, <1>4 DEF Live
    <3> QED
      BY Zenon, <2>1, <3>2, <3>3 DEF GateOf
  <2>2. CASE j # i /\ j # p
    <3>1. OpenChildren(j)' = OpenChildren(j)
      BY Zenon, <1>9, <2>2
    <3>2. jobs'[j] = jobs[j] /\ (Completed(j)' <=> Completed(j))
      BY Zenon, <1>4, <1>6, <2>0, <2>2
    <3> QED
      BY Zenon, <2>0, <3>1, <3>2 DEF GateOf, Live
  <2>3. CASE j = p
    <3>1. j # i /\ (Completed(j)' <=> Completed(j)) /\ i \in OpenChildren(j)
          /\ OpenChildren(j)' = OpenChildren(j) \ {i}
      BY Zenon, <1>6, <1>8, <1>9, <1>10, <2>0, <2>3
    <3>2. ~Completed(j)'
      BY Zenon, <2>0, <3>1 DEF GateOf
    <3> SUFFICES ASSUME Live(j)'
                 PROVE  /\ jobs'[j].pending = Cardinality(OpenChildren(j)')
                        /\ jobs'[j].state = "WaitingChildren" <=> OpenChildren(j)' # {}
      BY Zenon, <3>2 DEF GateOf
    <3>3. Live(j) /\ jobs[j] \in Job /\ jobs'[j] = AfterChildCompleted(jobs[j])
      BY Zenon, <1>1, <1>4, <2>0, <2>3, <3>1 DEF TypeOK, Live
    <3>4. jobs[j].pending = Cardinality(OpenChildren(j)) /\ jobs[j].state = "WaitingChildren"
      BY Zenon, <2>0, <3>1, <3>3 DEF GateOf
    <3>5. /\ Cardinality(OpenChildren(j)') = jobs[j].pending - 1
          /\ Cardinality(OpenChildren(j)') \in Nat
          /\ Cardinality(OpenChildren(j)') = 0 <=> OpenChildren(j)' = {}
      <4>1. PICK S : S = OpenChildren(j)
        BY Zenon
      <4>2. S \in SUBSET JobId /\ S \ {i} \in SUBSET JobId /\ i \in S
        BY Zenon, <1>2, <3>1, <4>1 DEF OpenChildren
      <4>3. /\ Cardinality(S \ {i}) = Cardinality(S) - 1
            /\ Cardinality(S \ {i}) \in Nat
            /\ Cardinality(S \ {i}) = 0 <=> S \ {i} = {}
        BY Zenon, <4>2 DEF GateCounting
      <4> QED
        BY Zenon, <3>1, <3>4, <4>1, <4>3
    <3>6. PICK n : n = jobs[j].pending - 1
      BY Zenon
    <3>7. /\ jobs'[j].pending = n
          /\ jobs'[j].state = IF n <= 0 THEN RestingState(jobs[j].available)
                              ELSE "WaitingChildren"
      <4>1. AfterChildCompleted(jobs[j]) =
              IF jobs[j].state = "WaitingChildren" /\ n <= 0
              THEN [jobs[j] EXCEPT !.pending = n, !.state = RestingState(jobs[j].available)]
              ELSE [jobs[j] EXCEPT !.pending = n]
        BY Zenon, <3>6 DEF AfterChildCompleted
      <4> QED
        BY Zenon, <3>3, <3>4, <4>1 DEF Job
    <3>8. RestingState(jobs[j].available) # "WaitingChildren"
      BY Zenon DEF RestingState
    <3>9. n <= 0 <=> n = 0
      <4>1. n \in Nat
        BY Zenon, <3>5, <3>6
      <4> QED
        BY <4>1
    <3> QED
      BY Zenon, <3>5, <3>6, <3>7, <3>8, <3>9
  <2> QED
    BY Zenon, <2>1, <2>2, <2>3
<1>12. ParentsFirst'
  BY Zenon, <1>4 DEF GateInv, ParentsFirst
<1> QED
  BY Zenon, <1>4, <1>11, <1>12 DEF GateInv

\* The jobs that a step adds under job i.
NewUnder(i) == {c \in JobId : issued < c /\ c <= issued' /\ jobs'[c].link.parent = i}

\* An enqueue that hangs new jobs under `target` (Nil for none) and under each
\* other, and counts them there.
Planted(target) ==
    /\ history' = history /\ issued' >= issued
    /\ \A i \in 1..issued :
          IF i = target
          THEN /\ Live(i) /\ Live(i)'
               /\ jobs'[i].pending = jobs[i].pending + Cardinality(NewUnder(i))
               /\ jobs'[i].state = "WaitingChildren" /\ NewUnder(i) # {}
          ELSE jobs'[i] = jobs[i] /\ NewUnder(i) = {}
    /\ \A i \in JobId :
          issued < i /\ i <= issued' =>
             /\ Live(i)'
             /\ jobs'[i].link.parent # Nil => jobs'[i].link.parent < i
             /\ jobs'[i].pending = Cardinality(NewUnder(i))
             /\ jobs'[i].state = "WaitingChildren" <=> NewUnder(i) # {}

\* Such an enqueue keeps every gate, and sets up the new ones.
LEMMA PlantingKeepsGates ==
    ASSUME GateCounting, GateInv, IInv', NEW target, Planted(target),
           \A c \in 1..issued : Row(c)'.link.parent = Row(c).link.parent
    PROVE  GateInv'
<1>1. /\ IInv /\ issued \in Nat /\ issued <= MaxJobs /\ MaxJobs \in Nat
      /\ \A i \in JobId : i \in Nat
      /\ \A i \in 1..issued : i \in JobId /\ i <= issued /\ Live(i) # Finished(i)
                              /\ Row(i).link.parent \in JobId \cup {Nil}
  BY Zenon, IssuedRows DEF GateInv
<1>2. /\ issued' \in Nat /\ issued' <= MaxJobs /\ issued' >= issued
      /\ \A i \in 1..issued' : i \in JobId /\ Live(i)' # Finished(i)'
      /\ \A i \in JobId : i <= issued' => i \in 1..issued'
  <2>1. issued' \in 0..MaxJobs /\ issued' >= issued
    BY Zenon DEF IInv, TypeOK, Planted
  <2>2. /\ issued' \in Nat /\ issued' <= MaxJobs
        /\ \A i \in 1..issued' : i \in JobId /\ i <= issued'
        /\ \A i \in JobId : i <= issued' => i \in 1..issued'
    BY <1>1, <2>1 DEF JobId
  <2>3. \A i \in 1..issued' : Live(i)' # Finished(i)'
    BY Zenon, <2>2 DEF IInv, NoJobLost
  <2> QED
    BY Zenon, <2>1, <2>2, <2>3
<1>3. ASSUME NEW i \in 1..issued', i \notin 1..issued
      PROVE  issued < i /\ i <= issued' /\ i \in JobId /\ i \in Nat
  <2>1. i \in JobId
    BY Zenon, <1>2
  <2>2. i \in Nat
    BY Zenon, <1>1, <2>1
  <2> QED
    BY <1>1, <1>2, <1>3, <2>1, <2>2
<1>4. ASSUME NEW i \in JobId, issued < i, i <= issued'
      PROVE  i \in 1..issued' /\ i \notin 1..issued
  <2>1. i \in Nat
    BY Zenon, <1>1
  <2> QED
    BY <1>1, <1>2, <1>4, <2>1 DEF JobId
<1>5. 1..issued \subseteq 1..issued'
  BY <1>1, <1>2
<1>6. \A i \in JobId : Completed(i)' <=> Completed(i)
  BY Zenon DEF Planted, Completed, Finished
<1>7. ASSUME NEW c \in JobId, issued < c, c <= issued'
      PROVE  Row(c)' = jobs'[c] /\ ~Completed(c)'
  <2>1. Live(c)' /\ c \in 1..issued'
    BY Zenon, <1>4, <1>7 DEF Planted
  <2>2. ~Finished(c)'
    BY Zenon, <1>2, <2>1 DEF Live, Finished
  <2> QED
    BY Zenon, <2>1, <2>2 DEF Row, Completed
<1>8. ASSUME NEW i
      PROVE  OpenChildren(i)' = OpenChildren(i) \cup NewUnder(i)
  <2>1. ASSUME NEW c \in OpenChildren(i)'
        PROVE  c \in OpenChildren(i) \cup NewUnder(i)
    <3>1. c \in 1..issued' /\ Row(c)'.link.parent = i /\ ~Completed(c)'
      BY Zenon, <2>1 DEF OpenChildren
    <3>2. CASE c \in 1..issued
      BY Zenon, <1>1, <1>6, <3>1, <3>2 DEF OpenChildren
    <3>3. CASE c \notin 1..issued
      BY Zenon, <1>3, <1>7, <3>1, <3>3 DEF NewUnder
    <3> QED
      BY Zenon, <3>2, <3>3
  <2>2. ASSUME NEW c \in OpenChildren(i)
        PROVE  c \in OpenChildren(i)'
    <3>1. c \in 1..issued /\ Row(c).link.parent = i /\ ~Completed(c)
      BY Zenon, <2>2 DEF OpenChildren
    <3> QED
      BY Zenon, <1>1, <1>5, <1>6, <3>1 DEF OpenChildren
  <2>3. ASSUME NEW c \in NewUnder(i)
        PROVE  c \in OpenChildren(i)'
    <3>1. c \in JobId /\ issued < c /\ c <= issued' /\ jobs'[c].link.parent = i
      BY Zenon, <2>3 DEF NewUnder
    <3> QED
      BY Zenon, <1>4, <1>7, <3>1 DEF OpenChildren
  <2> QED
    BY Zenon, <2>1, <2>2, <2>3
<1>9. ASSUME NEW i
      PROVE  /\ OpenChildren(i) \in SUBSET JobId /\ NewUnder(i) \in SUBSET JobId
             /\ OpenChildren(i) \cap NewUnder(i) = {}
  <2>1. \A c \in NewUnder(i) : c \in JobId /\ c \notin 1..issued
    BY Zenon, <1>4 DEF NewUnder
  <2> QED
    BY Zenon, <1>1, <2>1 DEF OpenChildren
<1>10. ASSUME NEW i \in 1..issued
       PROVE  GateOf(i)'
  <2>1. CASE i = target
    <3>1. /\ Live(i) /\ Live(i)' /\ jobs'[i].state = "WaitingChildren" /\ NewUnder(i) # {}
          /\ jobs'[i].pending = jobs[i].pending + Cardinality(NewUnder(i))
      BY Zenon, <2>1 DEF Planted
    <3>2. jobs[i].pending = Cardinality(OpenChildren(i)) /\ ~Completed(i)'
      <4>1. ~Completed(i)
        BY Zenon, <1>1, <3>1 DEF Completed, Live, Finished
      <4> QED
        BY Zenon, <1>1, <1>6, <3>1, <4>1 DEF GateInv, GateOf
    <3>3. Cardinality(OpenChildren(i)') = Cardinality(OpenChildren(i)) + Cardinality(NewUnder(i))
      <4>1. PICK S, T : S = OpenChildren(i) /\ T = NewUnder(i)
        BY Zenon
      <4>2. S \in SUBSET JobId /\ T \in SUBSET JobId /\ S \cap T = {}
        BY Zenon, <1>9, <4>1
      <4>3. Cardinality(S \cup T) = Cardinality(S) + Cardinality(T)
        BY Zenon, <4>2 DEF GateCounting
      <4> QED
        BY Zenon, <1>8, <4>1, <4>3
    <3>4. OpenChildren(i)' # {}
      BY Zenon, <1>8, <3>1
    <3> QED
      BY Zenon, <3>1, <3>2, <3>3, <3>4 DEF GateOf
  <2>2. CASE i # target
    <3>1. jobs'[i] = jobs[i] /\ OpenChildren(i)' = OpenChildren(i)
      <4>1. jobs'[i] = jobs[i] /\ NewUnder(i) = {}
        BY Zenon, <2>2 DEF Planted
      <4> QED
        BY Zenon, <1>8, <4>1
    <3> QED
      BY Zenon, <1>1, <1>6, <3>1 DEF GateInv, GateOf, Live
  <2> QED
    BY Zenon, <2>1, <2>2
<1>11. ASSUME NEW i \in 1..issued', i \notin 1..issued
       PROVE  GateOf(i)'
  <2>1. OpenChildren(i) = {}
    <3> SUFFICES ASSUME NEW c \in 1..issued, Row(c).link.parent = i
                 PROVE  FALSE
      BY Zenon DEF OpenChildren
    <3>1. i \in JobId /\ i # Nil /\ issued < i /\ i \in Nat
      BY Zenon, <1>3, <1>11, NilAssumption
    <3>2. i < c /\ c <= issued /\ c \in Nat
      BY Zenon, <1>1, <3>1 DEF GateInv, ParentsFirst
    <3> QED
      BY <1>1, <3>1, <3>2
  <2>2. OpenChildren(i)' = NewUnder(i) /\ ~Completed(i)'
    BY Zenon, <1>3, <1>7, <1>8, <1>11, <2>1
  <2>3. issued < i /\ i <= issued' /\ i \in JobId
    BY Zenon, <1>3, <1>11
  <2> QED
    BY Zenon, <2>2, <2>3 DEF Planted, GateOf
<1>12. ParentsFirst'
  <2> SUFFICES ASSUME NEW i \in 1..issued'
               PROVE  Row(i)'.link.parent # Nil => Row(i)'.link.parent < i
    BY Zenon DEF ParentsFirst
  <2>1. CASE i \in 1..issued
    BY Zenon, <2>1 DEF GateInv, ParentsFirst
  <2>2. CASE i \notin 1..issued
    BY Zenon, <1>3, <1>7, <2>2 DEF Planted
  <2> QED
    BY Zenon, <2>1, <2>2
<1> QED
  BY Zenon, <1>10, <1>11, <1>12 DEF GateInv

\* Transaction u continues t with jobs that have neither parents nor children.
Orphans(t, u) ==
    /\ t.issued <= u.issued
    /\ \A i \in JobId :
          IF t.issued < i /\ i <= u.issued
          THEN /\ u.jobs[i] # Nil /\ u.jobs[i].link.parent = Nil /\ u.jobs[i].pending = 0
               /\ u.jobs[i].state # "WaitingChildren"
          ELSE u.jobs[i] = t.jobs[i]

\* enqueue_one of a request without a parent adds such a job or none.
LEMMA EnqueueOneOrphans ==
    ASSUME NEW t \in TxOK, NEW r \in Request, r.parent = Nil, t.issued < MaxJobs,
           now \in Nat, history \in [JobId -> Archived \cup {Nil}],
           ingressRules \in [Facet -> RateRule \cup {Nil}]
    PROVE  /\ Verdict(t, r) = "inserted" => Orphans(t, Inserted(t, r))
           /\ Orphans(t, EnqueueOne(t, r))
<1>1. t.issued \in Nat /\ t.jobs \in [JobId -> Job \cup {Nil}] /\ \A i \in JobId : i \in Nat
  BY DEF TxOK, JobId
<1>2. Orphans(t, t)
  BY <1>1 DEF Orphans
<1>3. ASSUME Verdict(t, r) = "inserted"
      PROVE  Orphans(t, Inserted(t, r))
  <2>1. PICK u, row : u = Inserted(t, r) /\ row = NewJob(t, r)
    BY Zenon
  <2>2. u.issued = t.issued + 1 /\ u.jobs = [t.jobs EXCEPT ![t.issued + 1] = row]
    BY Zenon, <2>1 DEF Inserted
  <2>3. row.link.parent = Nil /\ row.pending = 0 /\ row.state # "WaitingChildren"
    <3>1. /\ row.link.parent = r.parent /\ row.pending = 0
          /\ row.state = RestingState(now + r.opts.delay)
      BY Zenon, <2>1 DEF NewJob
    <3>2. RestingState(now + r.opts.delay) # "WaitingChildren"
      BY Zenon DEF RestingState
    <3> QED
      BY Zenon, <3>1, <3>2
  <2>4. ASSUME NEW i \in JobId
        PROVE  /\ i = t.issued + 1 => u.jobs[i] = row
               /\ i # t.issued + 1 => u.jobs[i] = t.jobs[i]
               /\ (t.issued < i /\ i <= u.issued) <=> i = t.issued + 1
    <3>1. /\ i = t.issued + 1 => u.jobs[i] = row
          /\ i # t.issued + 1 => u.jobs[i] = t.jobs[i]
      BY Zenon, <1>1, <2>2
    <3>2. (t.issued < i /\ i <= u.issued) <=> i = t.issued + 1
      BY <1>1, <2>2
    <3> QED
      BY Zenon, <3>1, <3>2
  <2>5. Continues(t, u)
    BY Zenon, <1>3, <2>1, EnqueueOneContinues
  <2>6. ASSUME NEW i \in JobId, i = t.issued + 1
        PROVE  u.jobs[i] # Nil
    BY Zenon, <2>4, <2>5, <2>6, RowsNotNil DEF Continues, Fresh
  <2>7. t.issued <= u.issued
    BY <1>1, <2>2
  <2> QED
    BY Zenon, <2>1, <2>3, <2>4, <2>6, <2>7 DEF Orphans
<1> QED
  BY Zenon, <1>2, <1>3 DEF EnqueueOne

\* Committing such a transaction plants nothing under anything.
LEMMA OrphansPlanted ==
    ASSUME GateCounting, IInv, NEW u, Orphans(Tx, u), Commit(u)
    PROVE  Planted(Nil)
<1>1. /\ issued \in Nat /\ Nil \notin JobId /\ \A i \in JobId : i \in Nat
      /\ \A i \in 1..issued : i \in JobId /\ i <= issued
  BY Zenon, IssuedRows
<1>2. /\ issued' = u.issued /\ jobs' = u.jobs /\ history' = history
      /\ Tx.issued = issued /\ Tx.jobs = jobs
  BY Zenon DEF Commit, Tx
<1>3. issued <= issued' /\ \A i \in JobId :
          IF issued < i /\ i <= issued'
          THEN /\ jobs'[i] # Nil /\ jobs'[i].link.parent = Nil /\ jobs'[i].pending = 0
               /\ jobs'[i].state # "WaitingChildren"
          ELSE jobs'[i] = jobs[i]
  BY Zenon, <1>2 DEF Orphans
<1>4. ASSUME NEW i \in JobId
      PROVE  NewUnder(i) = {}
  BY Zenon, <1>1, <1>3 DEF NewUnder
<1>5. Cardinality({}) = 0
  BY Zenon DEF GateCounting
<1>6. ASSUME NEW i \in 1..issued
      PROVE  i \in JobId /\ i # Nil /\ jobs'[i] = jobs[i]
  <2>1. i \in JobId /\ ~(issued < i)
    BY <1>1
  <2> QED
    BY Zenon, <1>1, <1>3, <2>1
<1>7. issued' >= issued
  <2>1. issued <= issued'
    BY Zenon, <1>3
  <2> QED
    BY <2>1
<1> QED
  BY Zenon, <1>2, <1>3, <1>4, <1>5, <1>6, <1>7 DEF Planted, Live

\* AddJob plants nothing when its request names no parent.
LEMMA AddJobPlanted ==
    ASSUME GateCounting, IInv, NEW raw \in RawRequest, raw.parent = Nil, AddJob(raw)
    PROVE  Planted(Nil) \/ Calm
<1>1. PICK r : r = Prepared(raw)
  BY Zenon
<1>2. r \in Request /\ r.parent = Nil
  BY <1>1, PreparedType DEF Prepared, RawRequest
<1>3. Tx \in TxOK /\ Tx.issued < MaxJobs /\ now \in Nat
  BY Zenon, TxBegins DEF IInv, AddJob
<1>4. /\ history \in [JobId -> Archived \cup {Nil}]
      /\ ingressRules \in [Facet -> RateRule \cup {Nil}]
  BY Zenon DEF IInv, TypeOK
<1>5. CASE Verdict(Tx, r) = "inserted" /\ Commit(Inserted(Tx, r))
  <2>1. PICK u : u = Inserted(Tx, r)
    BY Zenon
  <2>2. Orphans(Tx, u)
    BY Zenon, <1>2, <1>3, <1>4, <1>5, <2>1, EnqueueOneOrphans
  <2> QED
    BY Zenon, <1>5, <2>1, <2>2, OrphansPlanted
<1>6. CASE RecordRejection(Verdict(Tx, r))
  BY Zenon, <1>6 DEF RecordRejection, Calm, Live
<1> QED
  BY Zenon, <1>1, <1>5, <1>6 DEF AddJob

\* Neither does AddJobBulk.
LEMMA AddJobBulkPlanted ==
    ASSUME GateCounting, IInv, NEW raw1 \in RawRequest, NEW raw2 \in RawRequest,
           raw1.parent = Nil, raw2.parent = Nil, AddJobBulk(raw1, raw2)
    PROVE  Planted(Nil) \/ Calm
<1>1. PICK r1, r2 : r1 = Prepared(raw1) /\ r2 = Prepared(raw2)
  BY Zenon
<1>2. r1 \in Request /\ r2 \in Request /\ r1.parent = Nil /\ r2.parent = Nil
  <2>1. r1 \in Request /\ r2 \in Request
    BY Zenon, <1>1, PreparedType
  <2> QED
    BY <1>1, <2>1 DEF Prepared, RawRequest
<1>3. PICK u, v : u = EnqueueOne(Tx, r1) /\ v = EnqueueOne(u, r2)
  BY Zenon
<1>4. /\ history \in [JobId -> Archived \cup {Nil}]
      /\ ingressRules \in [Facet -> RateRule \cup {Nil}]
  BY Zenon DEF IInv, TypeOK
<1>5. /\ Tx \in TxOK /\ Tx.issued < MaxJobs /\ Tx.issued + 2 <= MaxJobs /\ now \in Nat
      /\ Tx.issued \in Nat /\ MaxJobs \in Nat
  <2>1. Tx \in TxOK /\ Tx.issued + 2 <= MaxJobs /\ now \in Nat
        /\ Tx.issued \in Nat /\ MaxJobs \in Nat
    BY Zenon, TxBegins DEF IInv, AddJobBulk
  <2> QED
    BY <2>1
<1>6. Orphans(Tx, u) /\ Continues(Tx, u) /\ u.issued <= Tx.issued + 1
  BY Zenon, <1>2, <1>3, <1>4, <1>5, EnqueueOneOrphans, EnqueueOneContinues
<1>7. u \in TxOK /\ u.issued < MaxJobs /\ u.issued \in Nat
  <2>1. u \in TxOK
    BY Zenon, <1>6 DEF Continues
  <2>2. u.issued \in 0..MaxJobs
    BY Zenon, <2>1 DEF TxOK
  <2> QED
    BY <1>5, <1>6, <2>1, <2>2
<1>8. Orphans(u, v)
  BY Zenon, <1>2, <1>3, <1>4, <1>5, <1>7, EnqueueOneOrphans
<1>9. v.issued \in Nat
  <2>1. v \in TxOK
    BY Zenon, <1>2, <1>3, <1>4, <1>5, <1>7, EnqueueOneContinues DEF Continues
  <2>2. v.issued \in 0..MaxJobs
    BY Zenon, <2>1 DEF TxOK
  <2> QED
    BY <1>5, <2>2
<1>10. Orphans(Tx, v)
  <2>1. Tx.issued <= u.issued /\ u.issued <= v.issued
    BY Zenon, <1>6, <1>8 DEF Orphans
  <2>2. Tx.issued <= v.issued
    BY <1>5, <1>7, <1>9, <2>1
  <2>3. ASSUME NEW i \in JobId
        PROVE  /\ (Tx.issued < i /\ i <= u.issued) => ~(u.issued < i)
               /\ (Tx.issued < i /\ i <= v.issued)
                    <=> (Tx.issued < i /\ i <= u.issued) \/ (u.issued < i /\ i <= v.issued)
    <3>1. i \in Nat
      BY DEF JobId
    <3> QED
      BY <1>5, <1>7, <1>9, <2>1, <3>1
  <2> QED
    BY Zenon, <1>6, <1>8, <2>2, <2>3 DEF Orphans
<1>11. CASE Commit(v)
  BY Zenon, <1>10, <1>11, OrphansPlanted
<1>12. ASSUME NEW kind, RecordRejection(kind)
       PROVE  Calm
  BY Zenon, <1>12 DEF RecordRejection, Calm, Live
<1> QED
  BY Zenon, <1>1, <1>3, <1>11, <1>12 DEF AddJobBulk

\* The rows insert_prepared_tree writes for forest f under `target`.
InsertsForest(f, target, tree, base) ==
    /\ issued + Len(f) <= MaxJobs /\ issued' = issued + Len(f)
    /\ target \in JobId \cup {Nil} /\ (target # Nil => target <= issued)
    /\ tree \in [DOMAIN f -> JobId] /\ base \in Nat
    /\ \A k \in DOMAIN f : jobs'[issued + k] = FlowJob(f, k, target, tree[k], base)

\* Every node of f counts its children, and the roots are the target's.
ForestCounted(f, target) ==
    /\ \A i \in 1..issued :
          NewUnder(i) = IF i = target THEN {issued + k : k \in Roots(f)} ELSE {}
    /\ \A i \in JobId :
          issued < i /\ i <= issued' =>
             /\ Live(i)'
             /\ jobs'[i].link.parent # Nil => jobs'[i].link.parent < i
             /\ jobs'[i].pending = Cardinality(NewUnder(i))
             /\ jobs'[i].state = "WaitingChildren" <=> NewUnder(i) # {}
    /\ Cardinality({issued + k : k \in Roots(f)}) = Cardinality(Roots(f))
    /\ {issued + k : k \in Roots(f)} # {}

\* An inserted forest is counted at its gates.
LEMMA ForestPlanted ==
    ASSUME GateCounting, IInv, NEW f \in Seq(Node), WellFormed(f), Counted(f),
           NEW target, NEW tree, NEW base, InsertsForest(f, target, tree, base)
    PROVE  ForestCounted(f, target)
<1>0. /\ issued + Len(f) <= MaxJobs /\ issued' = issued + Len(f)
      /\ target \in JobId \cup {Nil} /\ (target # Nil => target <= issued)
      /\ tree \in [DOMAIN f -> JobId] /\ base \in Nat
      /\ \A k \in DOMAIN f : jobs'[issued + k] = FlowJob(f, k, target, tree[k], base)
  BY Zenon DEF InsertsForest
<1>1. /\ issued \in Nat /\ MaxJobs \in Nat /\ Len(f) \in Nat /\ DOMAIN f = 1..Len(f)
      /\ Nil \notin JobId /\ \A i \in JobId : i \in Nat
      /\ TypeOK /\ f # << >>
  <2>1. Len(f) \in Nat /\ DOMAIN f = 1..Len(f)
    OBVIOUS
  <2> QED
    BY Zenon, <2>1, IssuedRows DEF IInv, WellFormed
<1>2. ASSUME NEW k \in DOMAIN f
      PROVE  /\ k \in Nat /\ k >= 1 /\ k \in JobId /\ issued + k \in JobId
             /\ issued < issued + k /\ issued + k <= issued'
             /\ f[k].parent \in Nat /\ (f[k].parent # 0 => f[k].parent < k)
  <2>1. k \in 1..Len(f)
    BY Zenon, <1>1
  <2>2. f[k].parent \in Nat /\ (f[k].parent # 0 => f[k].parent < k)
    BY Zenon DEF WellFormed, Node
  <2> QED
    BY <1>0, <1>1, <2>1, <2>2 DEF JobId
<1>3. ASSUME NEW i \in JobId, issued < i, i <= issued'
      PROVE  i - issued \in DOMAIN f /\ i = issued + (i - issued)
  BY <1>0, <1>1, <1>3
<1>4. ASSUME NEW k \in DOMAIN f
      PROVE  /\ jobs'[issued + k].link.parent = IF f[k].parent = 0 THEN target
                                                ELSE issued + f[k].parent
             /\ jobs'[issued + k].pending = ChildCount(f, k)
             /\ jobs'[issued + k].state = IF ChildCount(f, k) > 0 THEN "WaitingChildren"
                                          ELSE RestingState(now + PreparedOpts(f[k].opts).delay)
             /\ jobs'[issued + k] # Nil
  <2>1. PICK t \in JobId : t = tree[k]
    BY Zenon, <1>0
  <2>2. jobs'[issued + k] = FlowJob(f, k, target, t, base)
    BY Zenon, <1>0, <2>1
  <2>3. Fresh(FlowJob(f, k, target, t, base))
    BY Zenon, <1>0, <1>1, FlowJobFresh
  <2>4. FlowJob(f, k, target, t, base) # Nil
    BY Zenon, <2>3, RowsNotNil DEF Fresh
  <2>5. /\ FlowJob(f, k, target, t, base).link.parent
             = IF f[k].parent = 0 THEN target ELSE issued + f[k].parent
        /\ FlowJob(f, k, target, t, base).pending = ChildCount(f, k)
        /\ FlowJob(f, k, target, t, base).state
             = IF ChildCount(f, k) > 0 THEN "WaitingChildren"
               ELSE RestingState(now + PreparedOpts(f[k].opts).delay)
    BY Zenon DEF FlowJob
  <2> QED
    BY Zenon, <2>2, <2>4, <2>5
<1>5. ASSUME NEW i \in 1..issued
      PROVE  NewUnder(i) = IF i = target THEN {issued + k : k \in Roots(f)} ELSE {}
  <2>0. i \in Nat /\ i <= issued /\ i # Nil
    BY <1>1, NilAssumption
  <2>1. ASSUME NEW k \in DOMAIN f
        PROVE  jobs'[issued + k].link.parent = i <=> f[k].parent = 0 /\ i = target
    <3>1. f[k].parent # 0 => issued + f[k].parent # i
      BY <1>1, <1>2, <2>0
    <3> QED
      BY Zenon, <1>4, <3>1
  <2>2. ASSUME NEW c \in NewUnder(i)
        PROVE  i = target /\ c \in {issued + k : k \in Roots(f)}
    <3>1. c \in JobId /\ issued < c /\ c <= issued' /\ jobs'[c].link.parent = i
      BY Zenon, <2>2 DEF NewUnder
    <3>2. PICK k \in DOMAIN f : c = issued + k
      BY Zenon, <1>3, <3>1
    <3> QED
      BY Zenon, <2>1, <3>1, <3>2 DEF Roots
  <2>3. ASSUME i = target, NEW k \in Roots(f)
        PROVE  issued + k \in NewUnder(i)
    <3>1. k \in DOMAIN f /\ f[k].parent = 0
      BY Zenon DEF Roots
    <3> QED
      BY Zenon, <1>2, <2>1, <2>3, <3>1 DEF NewUnder
  <2> QED
    BY Zenon, <2>2, <2>3
<1>6. ASSUME NEW k \in DOMAIN f
      PROVE  /\ NewUnder(issued + k) = {issued + c : c \in {c \in DOMAIN f : f[c].parent = k}}
             /\ Cardinality(NewUnder(issued + k)) = ChildCount(f, k)
             /\ ChildCount(f, k) \in Nat
             /\ ChildCount(f, k) = 0 <=> NewUnder(issued + k) = {}
  <2> DEFINE K == {c \in DOMAIN f : f[c].parent = k}
  <2>1. ASSUME NEW c \in DOMAIN f
        PROVE  jobs'[issued + c].link.parent = issued + k <=> f[c].parent = k
    <3>1. target # issued + k /\ k # 0 /\ (issued + f[c].parent = issued + k <=> f[c].parent = k)
      <4>1. target # Nil => target \in Nat /\ target <= issued
        BY Zenon, <1>0, <1>1
      <4>2. issued + k # Nil
        BY Zenon, <1>1, <1>2
      <4>3. target # Nil => target # issued + k
        BY <1>1, <1>2, <4>1
      <4>4. k # 0 /\ (issued + f[c].parent = issued + k <=> f[c].parent = k)
        BY <1>1, <1>2
      <4> QED
        BY Zenon, <4>2, <4>3, <4>4
    <3> QED
      BY Zenon, <1>4, <3>1
  <2>2. NewUnder(issued + k) = {issued + c : c \in K}
    <3>1. ASSUME NEW c \in NewUnder(issued + k)
          PROVE  c \in {issued + d : d \in K}
      <4>1. c \in JobId /\ issued < c /\ c <= issued' /\ jobs'[c].link.parent = issued + k
        BY Zenon, <3>1 DEF NewUnder
      <4>2. PICK d \in DOMAIN f : c = issued + d
        BY Zenon, <1>3, <4>1
      <4> QED
        BY Zenon, <2>1, <4>1, <4>2
    <3>2. ASSUME NEW c \in K
          PROVE  issued + c \in NewUnder(issued + k)
      BY Zenon, <1>2, <2>1 DEF NewUnder
    <3> QED
      BY Zenon, <3>1, <3>2
  <2>3. K \in SUBSET JobId /\ ChildCount(f, k) = Cardinality(K)
    BY Zenon, <1>2 DEF ChildCount
  <2>4. NewUnder(issued + k) = {} <=> K = {}
    BY Zenon, <2>2
  <2>5. NewUnder(issued + k) = {issued + c : c \in {c \in DOMAIN f : f[c].parent = k}}
    BY Zenon, <2>2
  <2> HIDE DEF K
  <2>6. Cardinality({issued + c : c \in K}) = Cardinality(K)
    BY Zenon, <1>1, <2>3 DEF GateCounting
  <2> QED
    BY Zenon, <2>2, <2>3, <2>4, <2>5, <2>6 DEF GateCounting
<1>7. ASSUME NEW i \in JobId, issued < i, i <= issued'
      PROVE  /\ jobs'[i] # Nil
             /\ jobs'[i].link.parent # Nil => jobs'[i].link.parent < i
             /\ jobs'[i].pending = Cardinality(NewUnder(i))
             /\ jobs'[i].state = "WaitingChildren" <=> NewUnder(i) # {}
  <2>1. PICK k \in DOMAIN f : i = issued + k
    BY Zenon, <1>3, <1>7
  <2>2. jobs'[i].link.parent # Nil => jobs'[i].link.parent < i
    <3>1. CASE f[k].parent = 0
      <4>1. jobs'[i].link.parent = target
        BY Zenon, <1>4, <2>1, <3>1
      <4>2. target # Nil => target \in Nat /\ target <= issued /\ i \in Nat
        BY Zenon, <1>0, <1>1
      <4> QED
        BY <1>1, <1>7, <4>1, <4>2
    <3>2. CASE f[k].parent # 0
      <4>1. jobs'[i].link.parent = issued + f[k].parent
        BY Zenon, <1>4, <2>1, <3>2
      <4> QED
        BY <1>1, <1>2, <2>1, <3>2, <4>1
    <3> QED
      BY Zenon, <3>1, <3>2
  <2>3. RestingState(now + PreparedOpts(f[k].opts).delay) # "WaitingChildren"
    BY DEF RestingState
  <2>4. ChildCount(f, k) > 0 <=> ChildCount(f, k) # 0
    <3>1. ChildCount(f, k) \in Nat
      BY Zenon, <1>6
    <3> QED
      BY <3>1
  <2> QED
    BY Zenon, <1>4, <1>6, <2>1, <2>2, <2>3, <2>4
<1>8. Cardinality({issued + k : k \in Roots(f)}) = Cardinality(Roots(f))
  <2>1. Roots(f) \in SUBSET JobId
    BY Zenon, <1>2 DEF Roots
  <2> QED
    BY Zenon, <1>1, <2>1 DEF GateCounting
<1>9. {issued + k : k \in Roots(f)} # {}
  <2>1. 1 \in DOMAIN f
    BY <1>1
  <2>2. f[1].parent = 0
    BY <1>2, <2>1
  <2> QED
    BY Zenon, <2>1, <2>2 DEF Roots
<1> QED
  BY Zenon, <1>5, <1>7, <1>8, <1>9 DEF ForestCounted, Live

\* AddFlow and AddFlowBulk.
LEMMA AddFlowPlanted ==
    ASSUME GateCounting, IInv, NEW f \in Seq(Node), WellFormed(f), Counted(f), AddFlow(f)
    PROVE  Planted(Nil)
<1>1. /\ issued \in Nat /\ MaxJobs \in Nat /\ Len(f) \in Nat /\ DOMAIN f = 1..Len(f)
      /\ Nil \notin JobId /\ \A i \in JobId : i \in Nat
      /\ \A i \in 1..issued : i \in JobId /\ i <= issued
  <2>1. Len(f) \in Nat /\ DOMAIN f = 1..Len(f)
    OBVIOUS
  <2> QED
    BY Zenon, <2>1, IssuedRows
<1>2. PICK tree : tree = [k \in DOMAIN f |-> issued + f[k].root]
  BY Zenon
<1>3. /\ issued + Len(f) <= MaxJobs /\ issued' = issued + Len(f) /\ history' = history
      /\ \A i \in JobId : jobs'[i] = IF i - issued \in DOMAIN f
                                     THEN FlowJob(f, i - issued, Nil, tree[i - issued], 0)
                                     ELSE jobs[i]
  BY Zenon, <1>2 DEF AddFlow
<1>4. tree \in [DOMAIN f -> JobId]
  <2>1. ASSUME NEW k \in DOMAIN f
        PROVE  issued + f[k].root \in JobId
    <3>1. f[k].root \in DOMAIN f
      BY Zenon DEF WellFormed, Roots
    <3> QED
      BY <1>1, <1>3, <3>1 DEF JobId
  <2> QED
    BY Zenon, <1>2, <2>1
<1>5. ASSUME NEW k \in DOMAIN f
      PROVE  jobs'[issued + k] = FlowJob(f, k, Nil, tree[k], 0)
  <2>1. issued + k \in JobId /\ (issued + k) - issued = k
    BY <1>1, <1>3 DEF JobId
  <2> QED
    BY Zenon, <1>3, <2>1
<1>6. ASSUME NEW i \in 1..issued
      PROVE  jobs'[i] = jobs[i] /\ i # Nil
  <2>1. i \in JobId /\ i - issued \notin DOMAIN f
    BY <1>1
  <2> QED
    BY Zenon, <1>1, <1>3, <2>1
<1>7. issued' >= issued /\ 0 \in Nat
  BY <1>1, <1>3
<1>8. InsertsForest(f, Nil, tree, 0)
  BY Zenon, <1>3, <1>4, <1>5, <1>7 DEF InsertsForest
<1>9. ForestCounted(f, Nil)
  BY Zenon, <1>8, ForestPlanted
<1> QED
  BY Zenon, <1>3, <1>6, <1>7, <1>9 DEF Planted, ForestCounted

\* AddFlowMerge.
LEMMA AddFlowMergePlanted ==
    ASSUME GateCounting, IInv, NEW s \in Slot, NEW f \in Seq(Node), WellFormed(f),
           Counted(f), AddFlowMerge(s, f)
    PROVE  Planted(receipts[s].job)
<1>1. /\ issued \in Nat /\ MaxJobs \in Nat /\ Len(f) \in Nat /\ DOMAIN f = 1..Len(f)
      /\ Nil \notin JobId /\ \A i \in JobId : i \in Nat
      /\ \A i \in 1..issued : i \in JobId /\ i <= issued
      /\ TypeOK
  <2>1. Len(f) \in Nat /\ DOMAIN f = 1..Len(f)
    OBVIOUS
  <2> QED
    BY Zenon, <2>1, IssuedRows DEF IInv
<1>2. PICK target, old, t, base, n :
        /\ target = receipts[s].job /\ old = jobs[target]
        /\ t = IF old.link.tree = Nil THEN target ELSE old.link.tree
        /\ base = old.link.treeDepth + 1
        /\ n = old.pending + Cardinality(Roots(f))
  BY Zenon
<1>3. /\ receipts[s] # Nil /\ old # Nil
      /\ issued + Len(f) <= MaxJobs /\ issued' = issued + Len(f) /\ history' = history
      /\ \A i \in JobId :
            jobs'[i] = IF i = target
                       THEN [old EXCEPT !.link.tree = t,
                                        !.pending = old.pending + Cardinality(Roots(f)),
                                        !.state = "WaitingChildren"]
                       ELSE IF i - issued \in DOMAIN f
                       THEN FlowJob(f, i - issued, target, t, base)
                       ELSE jobs[i]
  BY Zenon, <1>2 DEF AddFlowMerge, Live
<1>4. target \in JobId /\ old \in Job /\ target \in 1..issued
  <2>1. receipts[s] \in Receipt
    BY Zenon, <1>1, <1>3 DEF TypeOK
  <2>2. target \in JobId
    BY Zenon, <1>2, <2>1 DEF Receipt
  <2>3. old \in Job
    <3>1. jobs \in [JobId -> Job \cup {Nil}] /\ old = jobs[target] /\ old # Nil
      BY Zenon, <1>1, <1>2, <1>3 DEF TypeOK
    <3> QED
      BY Zenon, <2>2, <3>1
  <2>4. \A i \in JobId : Live(i) => i \in 1..issued
    BY Zenon, IssuedRows
  <2>5. Live(target)
    <3>1. old = jobs[target] /\ old # Nil
      BY Zenon, <1>2, <1>3
    <3> QED
      BY Zenon, <3>1 DEF Live
  <2> QED
    BY Zenon, <2>2, <2>3, <2>4, <2>5
<1>5. t \in JobId /\ base \in Nat
  <2>1. old.link.tree \in JobId \cup {Nil} /\ old.link.treeDepth \in Nat
    BY Zenon, <1>4 DEF Job, Link
  <2>2. base \in Nat
    BY <1>2, <2>1
  <2> QED
    BY Zenon, <1>2, <1>4, <2>1, <2>2
<1>6. PICK tree : tree = [k \in DOMAIN f |-> t]
  BY Zenon
<1>7. tree \in [DOMAIN f -> JobId] /\ \A k \in DOMAIN f : tree[k] = t
  BY Zenon, <1>5, <1>6
<1>8. ASSUME NEW k \in DOMAIN f
      PROVE  jobs'[issued + k] = FlowJob(f, k, target, tree[k], base)
  <2>1. issued + k \in JobId /\ (issued + k) - issued = k /\ issued + k # target
    BY <1>1, <1>3, <1>4 DEF JobId
  <2> QED
    BY Zenon, <1>3, <1>7, <2>1
<1>9. ASSUME NEW i \in 1..issued, i # target
      PROVE  jobs'[i] = jobs[i]
  <2>1. i \in JobId /\ i - issued \notin DOMAIN f
    BY <1>1
  <2> QED
    BY Zenon, <1>3, <1>9, <2>1
<1>10. /\ jobs'[target].pending = old.pending + Cardinality(Roots(f))
       /\ jobs'[target].state = "WaitingChildren"
       /\ jobs'[target] # Nil
  <2>1. PICK link : link = [old.link EXCEPT !.tree = t]
    BY Zenon
  <2>2. jobs'[target] = [old EXCEPT !.link = link, !.pending = n,
                                    !.state = "WaitingChildren"]
    <3>1. jobs'[target] = [old EXCEPT !.link.tree = t,
                                      !.pending = old.pending + Cardinality(Roots(f)),
                                      !.state = "WaitingChildren"]
      BY Zenon, <1>3, <1>4
    <3> QED
      BY Zenon, <1>2, <1>4, <2>1, <3>1 DEF Job
  <2>3. jobs'[target].pending = n /\ jobs'[target].state = "WaitingChildren"
    BY Zenon, <1>4, <2>2 DEF Job
  <2>4. link \in Link /\ n \in Int
    <3>1. old.link \in Link /\ old.pending \in Int
      BY Zenon, <1>4 DEF Job
    <3>2. link \in Link
      BY Zenon, <1>5, <2>1, <3>1 DEF Link
    <3>3. Cardinality(Roots(f)) \in Nat
      BY Zenon DEF Roots, Counted
    <3>4. n \in Int
      BY <1>2, <3>1, <3>3
    <3> QED
      BY Zenon, <3>2, <3>4
  <2>5. jobs'[target] \in Job
    BY Zenon, <1>4, <2>2, <2>4 DEF Job, LiveState
  <2> QED
    BY Zenon, <1>2, <2>3, <2>5, RowsNotNil
<1>11. issued' >= issued /\ target <= issued
  BY <1>1, <1>3, <1>4
<1>12. InsertsForest(f, target, tree, base)
  BY Zenon, <1>3, <1>4, <1>5, <1>7, <1>8, <1>11 DEF InsertsForest
<1>13. ForestCounted(f, target)
  BY Zenon, <1>12, ForestPlanted
<1>14. Planted(target)
  <2>1. ASSUME NEW i \in 1..issued
        PROVE  IF i = target
               THEN /\ Live(i) /\ Live(i)'
                    /\ jobs'[i].pending = jobs[i].pending + Cardinality(NewUnder(i))
                    /\ jobs'[i].state = "WaitingChildren" /\ NewUnder(i) # {}
               ELSE jobs'[i] = jobs[i] /\ NewUnder(i) = {}
    BY Zenon, <1>2, <1>3, <1>9, <1>10, <1>13 DEF Live, ForestCounted
  <2> QED
    BY Zenon, <1>3, <1>11, <1>13, <2>1 DEF Planted, ForestCounted
<1> QED
  BY Zenon, <1>2, <1>14

\* As long as only flows make jobs children, every step keeps every gate.
LEMMA StepKeepsGates ==
    ASSUME ForestsCounted, GateCounting, NoNamedParents, GateInv, [Next]_vars
    PROVE  GateInv'
<1>1. IInv /\ IInv'
      /\ \A c \in 1..issued : Row(c)'.link.parent = Row(c).link.parent
  <2>1. IInv
    BY Zenon DEF GateInv
  <2> QED
    BY Zenon, <2>1, StepKeepsInvariant, StepKeepsParents
<1>2. CASE Enqueues
  <2>1. ASSUME NEW r \in JobRequests, AddJob(r)
        PROVE  Planted(Nil) \/ Calm
    BY Zenon, <1>1, <2>1, RequestAssumption, AddJobPlanted DEF NoNamedParents
  <2>2. ASSUME NEW b \in BulkRequests, AddJobBulk(b[1], b[2])
        PROVE  Planted(Nil) \/ Calm
    <3>1. b[1] \in RawRequest /\ b[2] \in RawRequest
      BY RequestAssumption
    <3> QED
      BY Zenon, <1>1, <2>2, <3>1, AddJobBulkPlanted DEF NoNamedParents
  <2>3. ASSUME NEW f \in Forests, AddFlow(f)
        PROVE  Planted(Nil)
    BY Zenon, <1>1, <2>3, RequestAssumption, AddFlowPlanted DEF ForestsCounted
  <2>4. ASSUME NEW s \in Slot, NEW f \in MergeForests, AddFlowMerge(s, f)
        PROVE  Planted(receipts[s].job)
    BY Zenon, <1>1, <2>4, RequestAssumption, AddFlowMergePlanted DEF ForestsCounted
  <2>5. Calm \/ \E target : Planted(target)
    BY Zenon, <1>2, <2>1, <2>2, <2>3, <2>4 DEF Enqueues
  <2> QED
    BY Zenon, <1>1, <2>5, CalmKeepsGates, PlantingKeepsGates
<1>3. CASE Requests \/ Operator \/ Recovery \/ Tick \/ ClockStepsBack \/ UNCHANGED vars
  <2>1. \/ Calm
        \/ \E i \in JobId, w \in Worker, a \in RequestAttempts, r \in Result \cup {Nil} :
              CompleteJob(i, w, a, r)
    BY Zenon, <1>1, <1>3, StepIsCalm
  <2> QED
    BY Zenon, <1>1, <2>1, CalmKeepsGates, CompletionKeepsGates
<1> QED
  BY Zenon, <1>2, <1>3 DEF Next

\* Behind sound gates, no job leaves WaitingChildren over a live child.
LEMMA GatesHoldBack ==
    GateInv => NotClaimableBeforeChildren /\ FlaggedParentsRest
<1> SUFFICES ASSUME GateInv, NEW c \in JobId, Live(c), jobs[c].link.parent # Nil,
                    Live(jobs[c].link.parent)
             PROVE  jobs[jobs[c].link.parent].state = "WaitingChildren"
  <2>1. "WaitingChildren" # "Active"
    BY Zenon
  <2> QED
    BY Zenon, <2>1 DEF NotClaimableBeforeChildren, FlaggedParentsRest, Flagged, Active
<1>1. c \in 1..issued /\ Row(c) = jobs[c] /\ ~Finished(c)
      /\ jobs[c].link.parent \in JobId
  <2>1. c \in 1..issued /\ Live(c) # Finished(c) /\ Row(c).link.parent \in JobId \cup {Nil}
    BY Zenon, IssuedRows DEF GateInv
  <2> QED
    BY Zenon, <2>1 DEF Row, Live, Finished
<1>2. jobs[c].link.parent \in 1..issued
  BY Zenon, <1>1, IssuedRows DEF GateInv
<1>3. c \in OpenChildren(jobs[c].link.parent)
  BY Zenon, <1>1 DEF OpenChildren, Completed
<1> QED
  BY Zenon, <1>2, <1>3 DEF GateInv, GateOf
=============================================================================
