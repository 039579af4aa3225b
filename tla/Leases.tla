------------------------------- MODULE Leases -------------------------------
(***************************************************************************)
(* Claim leases, src/leases.rs: Heartbeat renews one, and the recovery     *)
(* loop takes back the jobs whose lease ran out.                           *)
(***************************************************************************)
EXTENDS Store

CONSTANT RecoveryBatch   \* rows one recovery transaction may take

ASSUME RecoveryAssumption == RecoveryBatch \in Nat \ {0}

\* Claims fenced by owner only: an earlier attempt passes for the current one.
HoldsClaim_AnyAttempt(i, w, attempt) ==
    /\ Active(i)
    /\ jobs[i].worker = w
    /\ attempt <= jobs[i].attempts
    /\ jobs[i].lease # Nil
    /\ jobs[i].lease > now

\* A request's claim is the one the row records and its lease still runs.
HoldsClaim(i, w, attempt) ==
    /\ Active(i)
    /\ jobs[i].worker = w
    /\ jobs[i].attempts = attempt
    /\ jobs[i].lease # Nil
    /\ jobs[i].lease > now

\* The time bound: a lease granted later than this would outlive the clock.
LeaseFits == now + LeaseDuration <= MaxTime

\* Heartbeat that trusts the clock to be monotonic.
RenewLease_Shortens(i, w, attempt) ==
    /\ attempt > 0
    /\ HoldsClaim(i, w, attempt)
    /\ LeaseFits
    /\ jobs' = [jobs EXCEPT ![i].lease = now + LeaseDuration]
    /\ UNCHANGED <<now, issued, history, receipts, limits, dispatch, chains,
                   rejections, claims, acks>>

\* Heartbeat.  A clock set back never shortens the lease.
RenewLease(i, w, attempt) ==
    /\ attempt > 0
    /\ HoldsClaim(i, w, attempt)
    /\ LeaseFits
    /\ jobs' = [jobs EXCEPT ![i].lease = Greatest(@, now + LeaseDuration)]
    /\ UNCHANGED <<now, issued, history, receipts, limits, dispatch, chains,
                   rejections, claims, acks>>

\* A retry budget read as the number of retries, not of attempts.
MayRetry_OffByOne(job) == job.attempts <= job.opts.max

\* A retry budget that withholds the last attempt.
MayRetry_LosesLast(job) == job.attempts + 1 < job.opts.max

MayRetry(job) == job.attempts < job.opts.max

\* Recovery that looks only for jobs it can retry.
Expired_OnlyRetryable(i) ==
    Active(i) /\ jobs[i].lease # Nil /\ jobs[i].lease <= now /\ MayRetry(jobs[i])

Expired(i) == Active(i) /\ jobs[i].lease # Nil /\ jobs[i].lease <= now

\* The batches ORDER BY lease_expires_at_ms, id LIMIT RecoveryBatch can select.
RecoveryBatches ==
    LET expired == {i \in JobId : Expired(i)}
    IN  {S \in SUBSET expired :
            /\ Cardinality(S) = Least(RecoveryBatch, Cardinality(expired))
            /\ \A i \in S, j \in expired \ S : jobs[i].lease <= jobs[j].lease}

\* The narrower history row recovery writes: the flow columns take their
\* defaults and there is no result.
ArchivedByRecovery(job) ==
    [ArchivedAs(job, "Failed", Nil) EXCEPT
        !.link = [@ EXCEPT !.failParent = FALSE, !.tree = Nil, !.treeDepth = 0]]

\* Recovery that deletes an exhausted job without archiving it.
RecoverExpired_Drops(S) ==
    LET exhausted == {i \in S : ~MayRetry(jobs[i])}
        delay(job) == RetryDelay(job.opts.base, job.opts.cap, job.attempts)
    IN  /\ S # {}
        /\ jobs' = [i \in JobId |->
                      IF i \in exhausted THEN Nil
                      ELSE IF i \in S THEN RetryRow(jobs[i], delay(jobs[i]))
                      ELSE jobs[i]]
        /\ receipts' = ReceiptsAfter(exhausted)
        /\ UNCHANGED <<now, issued, history, limits, dispatch, chains, rejections,
                       claims, acks>>

\* recover_expired: retry with unjittered backoff, or fail for good.  A failed
\* child does not touch its parent here.
RecoverExpired(S) ==
    LET exhausted == {i \in S : ~MayRetry(jobs[i])}
        delay(job) == RetryDelay(job.opts.base, job.opts.cap, job.attempts)
    IN  /\ S # {}
        /\ jobs' = [i \in JobId |->
                      IF i \in exhausted THEN Nil
                      ELSE IF i \in S THEN RetryRow(jobs[i], delay(jobs[i]))
                      ELSE jobs[i]]
        /\ history' = [i \in JobId |->
                         IF i \in exhausted THEN ArchivedByRecovery(jobs[i])
                         ELSE history[i]]
        /\ receipts' = ReceiptsAfter(exhausted)
        /\ UNCHANGED <<now, issued, limits, dispatch, chains, rejections, claims,
                       acks>>
=============================================================================
