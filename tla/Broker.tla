------------------------------- MODULE Broker -------------------------------
(***************************************************************************)
(* The broker, src/main.rs: the RPC handlers GetNextJob, CompleteJob and   *)
(* FailJob, composed with enqueueing, flows, leases and limits.  Every RPC *)
(* and every tick of the recovery loop is one atomic action.               *)
(*                                                                         *)
(* The network is not a variable.  A request may carry any worker, job id  *)
(* and attempt number at any time, so a delayed, duplicated or reordered   *)
(* request, and one resent after its reply was lost, are all behaviours.   *)
(* A broker crash rolls back the open transaction and loses no committed   *)
(* one, so in terms of the tables it is a stuttering step.                 *)
(***************************************************************************)
EXTENDS Flow, Leases, RateLimit

CONSTANTS
    FairnessEnabled,  \* rotate among facets of equal priority
    JobRequests,      \* AddJob requests clients send
    BulkRequests,     \* pairs of them sent as AddJobBulk
    Forests,          \* AddFlow and AddFlowBulk requests
    MergeForests,     \* AddFlowMerge subtrees
    Polls,            \* queue_names filters of GetNextJob ({} for every queue)
    RequestAttempts,  \* attempt numbers a request may carry
    RateRuleChoices,  \* dispatch rules an operator may install
    IngressRuleChoices

ASSUME RequestAssumption ==
    /\ FairnessEnabled \in BOOLEAN
    /\ JobRequests \subseteq RawRequest
    /\ BulkRequests \subseteq RawRequest \X RawRequest
    /\ \A f \in Forests \cup MergeForests : f \in Seq(Node) /\ WellFormed(f)
    /\ \A names \in Polls : names \subseteq Queue
    /\ RequestAttempts \subseteq Nat
    /\ RateRuleChoices \subseteq RateRule
    /\ IngressRuleChoices \subseteq RateRule
-----------------------------------------------------------------------------
(***************************************************************************)
(* GetNextJob                                                              *)
(***************************************************************************)

Candidate(i, names) ==
    /\ Live(i)
    /\ jobs[i].state \in {"Waiting", "Delayed"}
    /\ jobs[i].available <= now
    /\ names # {} => jobs[i].opts.name \in names
    /\ ~Blocked(jobs[i].opts.facet)

\* ORDER BY priority [, last_served_seq], created_at.  The final tie-break, the
\* random id, is left open.
Before(i, j) ==
    LET p(k) == jobs[k].opts.priority
        served(k) == IF FairnessEnabled THEN dispatch[jobs[k].opts.facet] ELSE 0
        created(k) == jobs[k].created
    IN  \/ p(i) < p(j)
        \/ p(i) = p(j) /\ served(i) < served(j)
        \/ p(i) = p(j) /\ served(i) = served(j) /\ created(i) < created(j)

\* The facet just served moves to the back of the rotation.
DispatchAfter(facet) ==
    IF FairnessEnabled
    THEN \E top \in {dispatch[f] : f \in Facet \cup {Nil}} :
            /\ \A f \in Facet \cup {Nil} : dispatch[f] <= top
            /\ dispatch' = [dispatch EXCEPT ![facet] = top + 1]
    ELSE UNCHANGED dispatch

GetNextJob(w, names, i) ==
    /\ Candidate(i, names)
    /\ \A j \in JobId : Candidate(j, names) => ~Before(j, i)
    /\ LeaseFits
    /\ jobs' = [jobs EXCEPT ![i].state = "Active", ![i].worker = w,
                            ![i].attempts = @ + 1, ![i].lease = now + LeaseDuration]
    /\ rateCounters' = Consume(jobs[i].opts.facet)
    /\ DispatchAfter(jobs[i].opts.facet)
    /\ claims' = claims \cup {[id |-> i, worker |-> w, attempt |-> jobs[i].attempts + 1]}
    /\ UNCHANGED <<now, issued, history, receipts, rateRules, ingressRules,
                   ingressBuckets, chains, rejections, acks>>
-----------------------------------------------------------------------------
(***************************************************************************)
(* CompleteJob and FailJob                                                 *)
(***************************************************************************)

\* Clients that predate attempt numbers send 0, which stands for attempt one.
Acknowledged(attempt) == IF attempt = 0 THEN 1 ELSE attempt

Acked(i, w, attempt, outcome) ==
    acks' = acks \cup {[id |-> i, worker |-> w, attempt |-> Acknowledged(attempt),
                        outcome |-> outcome]}

\* A gate that opens while one child is still out.
AfterChildCompleted_OneEarly(job) ==
    LET pending == job.pending - 1
    IN  IF job.state = "WaitingChildren" /\ pending <= 1
        THEN [job EXCEPT !.pending = pending, !.state = RestingState(job.available)]
        ELSE [job EXCEPT !.pending = pending]

\* A parent after one of its children completed.
AfterChildCompleted(job) ==
    LET pending == job.pending - 1
    IN  IF job.state = "WaitingChildren" /\ pending <= 0
        THEN [job EXCEPT !.pending = pending, !.state = RestingState(job.available)]
        ELSE [job EXCEPT !.pending = pending]

CompleteJob(i, w, attempt, result) ==
    /\ HoldsClaim(i, w, Acknowledged(attempt))
    /\ history' = [history EXCEPT ![i] = ArchivedAs(jobs[i], "Completed", result)]
    /\ jobs' = [j \in JobId |->
                  IF j = i THEN Nil
                  ELSE IF j = jobs[i].link.parent /\ Live(j)
                  THEN AfterChildCompleted(jobs[j])
                  ELSE jobs[j]]
    /\ receipts' = ReceiptsAfter({i})
    /\ Acked(i, w, attempt, "Completed")
    /\ UNCHANGED <<now, issued, limits, dispatch, chains, rejections, claims>>

\* A replay that writes the history row again.
ReplayCompletion_Rewrites(i, w, attempt) ==
    /\ ~Live(i)
    /\ Finished(i)
    /\ history[i].state = "Completed"
    /\ history[i].worker = w
    /\ history[i].attempts = Acknowledged(attempt)
    /\ history' = [history EXCEPT ![i].finished = now]
    /\ Acked(i, w, attempt, "Completed")
    /\ UNCHANGED <<now, issued, jobs, receipts, limits, dispatch, chains, rejections,
                   claims>>

\* The history row is the receipt of the completion: the same claim may repeat
\* its request and gets Ok again.
ReplayCompletion(i, w, attempt) ==
    /\ ~Live(i)
    /\ Finished(i)
    /\ history[i].state = "Completed"
    /\ history[i].worker = w
    /\ history[i].attempts = Acknowledged(attempt)
    /\ Acked(i, w, attempt, "Completed")
    /\ UNCHANGED <<now, issued, jobs, history, receipts, limits, dispatch, chains,
                   rejections, claims>>

\* FailJob when an attempt is left: back to the queue after a jittered delay.
RetryJob(i, w, attempt) ==
    /\ HoldsClaim(i, w, Acknowledged(attempt))
    /\ MayRetry(jobs[i])
    /\ \E delay \in Jittered(RetryDelay(jobs[i].opts.base, jobs[i].opts.cap,
                                        jobs[i].attempts),
                             jobs[i].opts.jitter) :
          jobs' = [jobs EXCEPT ![i] = RetryRow(jobs[i], delay)]
    /\ Acked(i, w, attempt, "Retried")
    /\ UNCHANGED <<now, issued, history, receipts, limits, dispatch, chains,
                   rejections, claims>>

\* The failParentOnFailure walk: from a failing job up through live parents as
\* long as the job just failed carries the flag.  FailedWith(i) is the least
\* set that holds i and is closed under that step.
FailureClosed(S) ==
    \A c \in S :
        LET p == jobs[c].link.parent
        IN  (Live(c) /\ jobs[c].link.failParent /\ p # Nil /\ Live(p)) => p \in S

\* A walk that stops after one generation.
FailedWith_ParentOnly(i) ==
    {i} \cup {p \in JobId : jobs[i].link.failParent /\ p = jobs[i].link.parent /\ Live(p)}

FailedWith(i) ==
    {a \in JobId : \A S \in SUBSET JobId : i \in S /\ FailureClosed(S) => a \in S}

\* FailJob when no attempt is left, or the worker declared the error final.
FailForGood(i, w, attempt, nonRetryable) ==
    LET failed == FailedWith(i)
    IN  /\ HoldsClaim(i, w, Acknowledged(attempt))
        /\ ~MayRetry(jobs[i]) \/ nonRetryable
        /\ history' = [j \in JobId |->
                         IF j \in failed THEN ArchivedAs(jobs[j], "Failed", Nil)
                         ELSE history[j]]
        /\ jobs' = [j \in JobId |-> IF j \in failed THEN Nil ELSE jobs[j]]
        /\ receipts' = ReceiptsAfter(failed)
        /\ Acked(i, w, attempt, "Failed")
        /\ UNCHANGED <<now, issued, limits, dispatch, chains, rejections, claims>>

FailJob(i, w, attempt, nonRetryable) ==
    \/ ~nonRetryable /\ RetryJob(i, w, attempt)
    \/ FailForGood(i, w, attempt, nonRetryable)
-----------------------------------------------------------------------------
(***************************************************************************)
(* The specification                                                       *)
(***************************************************************************)

Enqueues ==
    \/ \E r \in JobRequests : AddJob(r)
    \/ \E b \in BulkRequests : AddJobBulk(b[1], b[2])
    \/ \E f \in Forests : AddFlow(f)
    \/ \E s \in Slot, f \in MergeForests : AddFlowMerge(s, f)

Requests ==
    \E i \in JobId, w \in Worker :
        \/ \E names \in Polls : GetNextJob(w, names, i)
        \/ \E a \in RequestAttempts :
              \/ RenewLease(i, w, a)
              \/ \E r \in Result \cup {Nil} : CompleteJob(i, w, a, r)
              \/ ReplayCompletion(i, w, a)
              \/ \E final \in BOOLEAN : FailJob(i, w, a, final)

Operator ==
    \E f \in Facet :
        \/ \E rule \in RateRuleChoices : UpsertRateLimitRule(f, rule)
        \/ DeleteRateLimitRule(f)
        \/ \E rule \in IngressRuleChoices : UpsertIngressLimitRule(f, rule)
        \/ DeleteIngressLimitRule(f)

Recovery == \E S \in RecoveryBatches : RecoverExpired(S)

Next == Enqueues \/ Requests \/ Operator \/ Recovery \/ Tick \/ ClockStepsBack

Spec == Init /\ [][Next]_vars
-----------------------------------------------------------------------------
(***************************************************************************)
(* Properties                                                              *)
(***************************************************************************)

Row(i) == IF Live(i) THEN jobs[i] ELSE history[i]
Completed(i) == Finished(i) /\ history[i].state = "Completed"

\* Every job ever accepted is in exactly one of jobs and job_history: each
\* terminal path (finish_job, its cascade, recover_expired) inserts and deletes
\* together, and no path drops a row or leaves it in both tables.
NoJobLost ==
    \A i \in JobId :
        IF i <= issued THEN Live(i) # Finished(i) ELSE ~Live(i) /\ ~Finished(i)

\* A claim is exclusive: one attempt of one job is granted to one worker only,
\* the row of an Active job names a claim that was granted, no later attempt
\* exists, and a job that is not Active carries no owner and no lease.
ClaimsExclusive ==
    /\ \A c, d \in claims : c.id = d.id /\ c.attempt = d.attempt => c = d
    /\ \A c \in claims : c.id <= issued /\ c.attempt <= Row(c.id).attempts
    /\ \A i \in JobId :
          Live(i) =>
            IF jobs[i].state = "Active"
            THEN /\ [id |-> i, worker |-> jobs[i].worker,
                     attempt |-> jobs[i].attempts] \in claims
                 /\ jobs[i].lease # Nil
            ELSE jobs[i].worker = Nil /\ jobs[i].lease = Nil

\* The attempt budget is never overdrawn: GetNextJob does not look at
\* max_attempts, so a job that rests in the queue must have an attempt left.
AttemptBudget ==
    \A i \in JobId :
        /\ Live(i) /\ jobs[i].state # "Active" => jobs[i].attempts < jobs[i].opts.max
        /\ Live(i) \/ Finished(i) => Row(i).attempts <= Row(i).opts.max

\* What the broker answered Ok stays true.  A terminal acknowledgement is the
\* outcome history records, for the claim that sent it, so two workers are
\* never both told that they finished a job and a replay never changes the
\* verdict; an attempt acknowledged as failed-and-retried never completes.
AcksAgree ==
    \A a \in acks :
        /\ [id |-> a.id, worker |-> a.worker, attempt |-> a.attempt] \in claims
        /\ a.outcome # "Retried" =>
              /\ Finished(a.id)
              /\ history[a.id].state = a.outcome
              /\ history[a.id].worker = a.worker
              /\ history[a.id].attempts = a.attempt
        /\ a.outcome = "Retried" =>
              /\ Active(a.id) => jobs[a.id].attempts > a.attempt
              /\ Completed(a.id) => history[a.id].attempts > a.attempt

\* A running claim is safe from everyone else: while a lease runs, a step either
\* leaves the claim in place with a lease no shorter than before, or ends it by
\* an acknowledgement of that very claim.
ClaimProtected ==
    [][\A i \in JobId :
          Active(i) /\ jobs[i].lease > now =>
             \/ /\ Active(i)'
                /\ jobs'[i].worker = jobs[i].worker
                /\ jobs'[i].attempts = jobs[i].attempts
                /\ jobs'[i].lease >= jobs[i].lease
             \/ \E a \in acks' \ acks :
                   /\ a.id = i
                   /\ a.worker = jobs[i].worker
                   /\ a.attempt = jobs[i].attempts]_vars

\* A finished job is final: no late acknowledgement, lease expiry, child or
\* merge rewrites its history row, and its result is the first one reported.
OutcomeFinal ==
    [][\A i \in JobId : Finished(i) => history'[i] = history[i]]_vars

\* An idempotency slot always leads to the job it was used for, and a live job
\* always holds its slot, so a key has at most one live job.  A slot taken with
\* release_on_finish is free once its job is terminal, whichever of the four
\* terminal paths took it there.
SlotsSound ==
    /\ \A s \in Slot :
          receipts[s] # Nil =>
             LET i == receipts[s].job
             IN  /\ i <= issued
                 /\ SlotOf(Row(i).opts) = s
                 /\ Row(i).opts = receipts[s].request.opts
                 /\ Row(i).opts.release => Live(i)
    /\ \A i \in JobId :
          Live(i) /\ jobs[i].opts.key # Nil =>
             /\ receipts[SlotOf(jobs[i].opts)] # Nil
             /\ receipts[SlotOf(jobs[i].opts)].job = i

\* A key runs again only by consent: a second job is accepted for a slot only if
\* the earlier one asked for release and is terminal.  Holds across AddJob,
\* AddJobBulk (also within one batch) and flow nodes.
NoDuplicateWork ==
    \A i, j \in JobId :
        i < j /\ j <= issued /\ Row(i).opts.key # Nil
              /\ SlotOf(Row(i).opts) = SlotOf(Row(j).opts)
        => Row(i).opts.release /\ Finished(i)

\* A rejected enqueue leaves its forensic record and nothing else: no job, no
\* receipt, no consumed ingress quota and no chain count, also when the rejected
\* request is the second of a batch whose first was fine.
RejectionLeavesNothing ==
    [][rejections' # rejections =>
          UNCHANGED <<issued, jobs, receipts, ingressBuckets, chains>>]_vars

\* Dispatch respects the rule in force: no window holds more claims of a facet
\* than its rule allows, although an operator may replace the rule at any time,
\* and a facet without a rule has no window.
DispatchWithinRule ==
    \A f \in Facet :
        rateCounters[f] # Nil =>
            /\ rateRules[f] # Nil
            /\ rateCounters[f].count <= rateRules[f].max

\* Admission respects the rule in force: neither of the two windows of a facet
\* has admitted more jobs than its rule allows, also when a batch reaches the
\* limit half way, and a facet without a rule has no windows.
AdmissionWithinRule ==
    \A f \in Facet :
        ingressBuckets[f] # Nil =>
            /\ ingressRules[f] # Nil
            /\ ingressBuckets[f].current <= ingressRules[f].max
            /\ ingressBuckets[f].previous <= ingressRules[f].max

Children(i) == {c \in 1..issued : Row(c).link.parent = i}

\* The gate of a flow parent: it is past WaitingChildren, or Completed, only when
\* every child is Completed, it waits only while some child is not, and
\* pending_children counts exactly the children not yet Completed.  Child
\* completions, failures, lease expiries and merges may come in any order.
GateHolds ==
    \A i \in 1..issued :
        LET open == {c \in Children(i) : ~Completed(c)}
        IN  /\ Live(i) => jobs[i].pending = Cardinality(open)
            /\ Live(i) => (jobs[i].state = "WaitingChildren" <=> open # {})
            /\ Completed(i) => open = {}

\* Job i moves from jobs to job_history as Failed in this step.
Fails(i) == Live(i) /\ jobs'[i] = Nil /\ history'[i].state = "Failed"

Flagged(i) ==
    jobs[i].link.failParent /\ jobs[i].link.parent # Nil /\ Live(jobs[i].link.parent)

\* A FailJob that ends a job fails exactly the ancestors its flags reach: the
\* live parent of a flagged failing job fails in the same step, and a job that is
\* not itself being acknowledged fails only because a flagged child does.
FailureFollowsFlags ==
    [][acks' # acks =>
          \A i \in JobId :
             Fails(i) =>
                /\ Flagged(i) => Fails(jobs[i].link.parent)
                /\ ~Active(i) => \E c \in JobId :
                      Fails(c) /\ Flagged(c) /\ jobs[c].link.parent = i]_vars

\* "This node's terminal failure fails its parent", however the failure came
\* about: an exhausted lease is a terminal failure too.
TerminalFailureFailsParent ==
    [][\A i \in JobId : Fails(i) /\ Flagged(i) => Fails(jobs[i].link.parent)]_vars

\* "A parent in WaitingChildren is not claimable until every child reaches a
\* terminal state": no flow child is live under a parent that left the gate.
NotClaimableBeforeChildren ==
    \A c \in JobId :
        Live(c) /\ jobs[c].link.tree # Nil /\ jobs[c].link.parent # Nil
        => LET p == jobs[c].link.parent
           IN  Live(p) => jobs[p].state = "WaitingChildren"

\* A claim whose lease has run out ends, although nothing makes its worker answer:
\* recover_expired takes the attempt back, also when more leases expire at once
\* than one of its transactions takes.  A worker that renews its lease in time, as
\* often as it likes, keeps the claim.
ExpiredClaimsEnd ==
    \A i \in JobId : (Active(i) /\ jobs[i].lease <= now) ~> ~Active(i)
=============================================================================
