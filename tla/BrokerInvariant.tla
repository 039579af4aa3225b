-------------------------- MODULE BrokerInvariant ---------------------------
(***************************************************************************)
(* The inductive invariant of Broker, the ways a step may treat a row,     *)
(* what the invariant survives, the life of a claim, and that every        *)
(* handler keeps the invariant.                                            *)
(***************************************************************************)
EXTENDS Broker, EnqueueProofs, TLAPS
-----------------------------------------------------------------------------
(***************************************************************************)
(* Types of the rows the handlers write                                    *)
(***************************************************************************)

\* A requeued row is a job row.
LEMMA RetryRowType ==
    ASSUME NEW job \in Job, NEW delay \in Nat, now \in Nat
    PROVE  RetryRow(job, delay) \in Job
<1>1. RestingState(now + delay) \in LiveState
  BY DEF RestingState, LiveState
<1>2. now + delay \in Nat
  OBVIOUS
<1> QED
  BY Zenon, <1>1, <1>2 DEF RetryRow, Job

\* Parent, trace and depth are what enqueue_one derives a child's lineage from.
SameLineage(l, m) == l.parent = m.parent /\ l.trace = m.trace /\ l.depth = m.depth

\* Both forms of archiving write a history row that keeps the job's options,
\* lineage, owner and attempt count.
LEMMA ArchivedType ==
    ASSUME NEW job \in Job, NEW state \in TerminalState,
           NEW result \in Result \cup {Nil}, now \in Nat
    PROVE  /\ ArchivedAs(job, state, result) \in Archived
           /\ ArchivedByRecovery(job) \in Archived
           /\ ArchivedByRecovery(job).opts = job.opts
           /\ ArchivedByRecovery(job).worker = job.worker
           /\ ArchivedByRecovery(job).attempts = job.attempts
           /\ ArchivedByRecovery(job).state = "Failed"
           /\ SameLineage(ArchivedByRecovery(job).link, job.link)
<1>1. ArchivedAs(job, state, result) \in Archived
  BY DEF ArchivedAs, Archived, Job
<1>2. ArchivedAs(job, "Failed", Nil) \in Archived
  BY DEF ArchivedAs, Archived, Job, TerminalState
<1> DEFINE link == [job.link EXCEPT !.failParent = FALSE, !.tree = Nil, !.treeDepth = 0]
<1>3. link \in Link /\ SameLineage(link, job.link)
  BY Zenon DEF Job, Link, SameLineage
<1>4. ArchivedByRecovery(job) = [ArchivedAs(job, "Failed", Nil) EXCEPT !.link = link]
  BY DEF ArchivedByRecovery, ArchivedAs
<1> HIDE DEF link
<1>5. ArchivedByRecovery(job) \in Archived
  BY <1>2, <1>3, <1>4 DEF Archived
<1>6. SameLineage(ArchivedByRecovery(job).link, job.link)
  <2>1. ArchivedByRecovery(job).link = link
    BY Zenon, <1>2, <1>4 DEF Archived
  <2> QED
    BY Zenon, <1>3, <2>1
<1> QED
  BY <1>1, <1>4, <1>5, <1>6 DEF ArchivedAs

\* Releasing slots keeps the receipts well-formed.
LEMMA ReceiptsAfterType ==
    ASSUME NEW done, receipts \in [Slot -> Receipt \cup {Nil}]
    PROVE  ReceiptsAfter(done) \in [Slot -> Receipt \cup {Nil}]
BY DEF ReceiptsAfter

\* A job row is never NULL, and neither is a history row.
LEMMA RowsNotNil ==
    /\ \A r \in Job : r # Nil
    /\ \A r \in Archived : r # Nil
BY NilAssumption

-----------------------------------------------------------------------------
(***************************************************************************)
(* The inductive invariant and the shape of a step                         *)
(***************************************************************************)

ClaimOf(i, row) == [id |-> i, worker |-> row.worker, attempt |-> row.attempts]

\* What AcksAgree leaves implicit: a Completed history row names the claim that
\* completed it.  A replayed CompleteJob is answered from that row alone.
CompletionsClaimed ==
    \A i \in JobId : Completed(i) => ClaimOf(i, history[i]) \in claims

AckHolds(a) ==
    /\ [id |-> a.id, worker |-> a.worker, attempt |-> a.attempt] \in claims
    /\ a.outcome # "Retried" =>
          /\ Finished(a.id)
          /\ history[a.id].state = a.outcome
          /\ history[a.id].worker = a.worker
          /\ history[a.id].attempts = a.attempt
    /\ a.outcome = "Retried" =>
          /\ Active(a.id) => jobs[a.id].attempts > a.attempt
          /\ Completed(a.id) => history[a.id].attempts > a.attempt

\* The inductive invariant of the claim protocol.
IInv ==
    /\ TypeOK
    /\ NoJobLost
    /\ ClaimsExclusive
    /\ AttemptBudget
    /\ AcksAgree
    /\ CompletionsClaimed

\* The part of it that the handlers need for what they do to the rows.  It also
\* survives the retention sweeper, which deletes history rows.
Tables == TypeOK /\ \A i \in JobId : Live(i) => i <= issued

\* The invariant includes what the handlers need.
LEMMA InvariantTables == IInv => Tables
BY Zenon DEF IInv, Tables, NoJobLost

\* A live row changes, but not its claim.
Kept(i) ==
    /\ Live(i) /\ Live(i)' /\ history'[i] = history[i]
    /\ jobs'[i].opts = jobs[i].opts
    /\ jobs'[i].worker = jobs[i].worker
    /\ jobs'[i].attempts = jobs[i].attempts
    /\ SameLineage(jobs'[i].link, jobs[i].link)
    /\ jobs'[i].link.failParent = jobs[i].link.failParent
    /\ jobs'[i].state = "Active" <=> jobs[i].state = "Active"
    /\ \/ jobs'[i].lease = jobs[i].lease
       \/ jobs[i].lease # Nil /\ jobs'[i].lease # Nil /\ jobs'[i].lease >= jobs[i].lease

\* A running attempt ends and another is left.
Requeued(i) ==
    /\ Active(i) /\ MayRetry(jobs[i])
    /\ Live(i)' /\ history'[i] = history[i]
    /\ jobs'[i].opts = jobs[i].opts
    /\ jobs'[i].link = jobs[i].link
    /\ jobs'[i].attempts = jobs[i].attempts
    /\ jobs'[i].state # "Active"
    /\ jobs'[i].worker = Nil
    /\ jobs'[i].lease = Nil

\* A live row becomes a history row; only a running one becomes Completed.
Ended(i) ==
    /\ Live(i) /\ ~Live(i)' /\ Finished(i)'
    /\ history'[i].opts = jobs[i].opts
    /\ SameLineage(history'[i].link, jobs[i].link)
    /\ history'[i].worker = jobs[i].worker
    /\ history'[i].attempts = jobs[i].attempts
    /\ history'[i].state = "Completed" => Active(i)

Settles(i) ==
    \/ jobs'[i] = jobs[i] /\ history'[i] = history[i]
    \/ Kept(i)
    \/ Requeued(i)
    \/ Ended(i)

\* A step of any handler but GetNextJob, as far as claims are concerned.
Rows ==
    /\ issued' >= issued
    /\ claims' = claims
    /\ \A i \in JobId :
          IF issued < i /\ i <= issued'
          THEN Fresh(jobs'[i]) /\ history'[i] = history[i]
          ELSE Settles(i)

\* Such a step preserves every part of the invariant; for AcksAgree, it keeps
\* what was already acknowledged true.
LEMMA RowsKeepInvariant ==
    ASSUME IInv, TypeOK', Rows
    PROVE  /\ NoJobLost' /\ ClaimsExclusive' /\ AttemptBudget' /\ CompletionsClaimed'
           /\ \A a \in acks : AckHolds(a)'
<1> DEFINE new(i) == issued < i /\ i <= issued'
<1>1. /\ issued \in Nat /\ issued' \in Nat /\ issued' >= issued
      /\ \A i \in JobId : i \in Nat
      /\ \A i \in JobId : jobs[i] \in Job \cup {Nil} /\ jobs'[i] \in Job \cup {Nil}
      /\ \A i \in JobId : history[i] \in Archived \cup {Nil}
                          /\ history'[i] \in Archived \cup {Nil}
      /\ claims \subseteq Claim /\ claims' = claims /\ acks \subseteq Ack
  <2>1. \A i \in JobId : i \in Nat
    BY DEF JobId
  <2>2. issued' >= issued /\ claims' = claims
    BY DEF Rows
  <2> QED
    BY <2>1, <2>2 DEF IInv, TypeOK
<1>2. \A i \in JobId : new(i) => ~Live(i) /\ ~Finished(i) /\ Fresh(jobs'[i])
                                 /\ history'[i] = history[i]
  BY <1>1 DEF Rows, IInv, NoJobLost
<1>3. \A i \in JobId : ~new(i) => Settles(i)
  BY DEF Rows
<1>4. \A i \in JobId : Fresh(jobs'[i]) => Live(i)'
  BY RowsNotNil DEF Fresh, Live
<1>5. NoJobLost'
  <2> SUFFICES ASSUME NEW i \in JobId
               PROVE  IF i <= issued' THEN Live(i)' # Finished(i)'
                      ELSE ~Live(i)' /\ ~Finished(i)'
    BY DEF NoJobLost
  <2>1. CASE new(i)
    BY Zenon, <2>1, <1>2, <1>4 DEF Finished
  <2>2. CASE ~new(i)
    <3>1. IF i <= issued' THEN Live(i) # Finished(i) ELSE ~Live(i) /\ ~Finished(i)
      BY <1>1, <2>2 DEF IInv, NoJobLost
    <3>2. Settles(i)
      BY <1>3, <2>2
    <3> QED
      BY Zenon, <3>1, <3>2 DEF Settles, Kept, Requeued, Ended, Live, Finished, Active
  <2> QED
    BY <2>1, <2>2
<1> USE DEF ClaimOf
<1>6. ASSUME NEW i \in JobId, Live(i)'
      PROVE  IF jobs'[i].state = "Active"
             THEN ClaimOf(i, jobs'[i]) \in claims /\ jobs'[i].lease # Nil
             ELSE jobs'[i].worker = Nil /\ jobs'[i].lease = Nil
  <2>1. CASE new(i)
    BY Zenon, <2>1, <1>2 DEF Fresh
  <2>2. CASE ~new(i)
    <3>1. Settles(i)
      BY <1>3, <2>2
    <3> QED
      BY Zenon, <1>6, <3>1 DEF Settles, Kept, Requeued, Ended, Live, Active, IInv,
                        ClaimsExclusive
  <2> QED
    BY <2>1, <2>2
<1>7. ASSUME NEW i \in JobId, i <= issued
      PROVE  Row(i)'.attempts = Row(i).attempts /\ Row(i)'.opts = Row(i).opts
  <2>1. Settles(i) /\ Live(i) # Finished(i)
    BY <1>1, <1>3, <1>7 DEF IInv, NoJobLost
  <2> QED
    BY Zenon, <2>1 DEF Settles, Kept, Requeued, Ended, Live, Finished, Active, Row
<1>8. ClaimsExclusive'
  <2>1. \A c, d \in claims : c.id = d.id /\ c.attempt = d.attempt => c = d
    BY DEF IInv, ClaimsExclusive
  <2>2. ASSUME NEW c \in claims
        PROVE  c.id <= issued' /\ c.attempt <= Row(c.id)'.attempts
    <3>1. c.id \in JobId /\ c.id <= issued /\ c.attempt <= Row(c.id).attempts
      BY <1>1 DEF IInv, ClaimsExclusive, Claim
    <3> QED
      BY <1>1, <1>7, <3>1
  <2> QED
    BY Zenon, <1>1, <1>6, <2>1, <2>2 DEF ClaimsExclusive
<1>9. AttemptBudget'
  <2> SUFFICES ASSUME NEW i \in JobId
               PROVE  /\ Live(i)' /\ jobs'[i].state # "Active"
                            => jobs'[i].attempts < jobs'[i].opts.max
                      /\ Live(i)' \/ Finished(i)' => Row(i)'.attempts <= Row(i)'.opts.max
    BY DEF AttemptBudget
  <2>1. CASE new(i)
    <3>1. jobs'[i] \in Job /\ jobs'[i].attempts = 0 /\ Live(i)'
      BY <2>1, <1>2, <1>4 DEF Fresh
    <3>2. jobs'[i].opts.max \in Nat \ {0}
      BY <3>1 DEF Job, Opts
    <3> QED
      BY <3>1, <3>2 DEF Row
  <2>2. CASE ~new(i)
    <3>1. Settles(i)
      BY <1>3, <2>2
    <3>2. /\ Live(i) /\ jobs[i].state # "Active" => jobs[i].attempts < jobs[i].opts.max
          /\ Live(i) \/ Finished(i) => Row(i).attempts <= Row(i).opts.max
      BY DEF IInv, AttemptBudget
    <3>3. Live(i) => jobs[i].attempts \in Nat /\ jobs[i].opts.max \in Nat
      BY Zenon, <1>1 DEF Live, Job, Opts
    <3> QED
      BY Zenon, <3>1, <3>2, <3>3
      DEF Settles, Kept, Requeued, Ended, Live, Finished, Active, Row, MayRetry
  <2> QED
    BY <2>1, <2>2
<1>10. ASSUME NEW i \in JobId, Completed(i)'
       PROVE  \/ Completed(i) /\ history'[i] = history[i]
              \/ Ended(i) /\ Active(i)
  <2>1. CASE new(i)
    BY <1>10, <2>1, <1>2 DEF Completed, Finished
  <2>2. CASE ~new(i)
    <3>1. Settles(i)
      BY <1>3, <2>2
    <3> QED
      BY Zenon, <1>10, <3>1 DEF Settles, Kept, Requeued, Ended, Completed, Finished
  <2> QED
    BY <2>1, <2>2
<1>11. CompletionsClaimed'
  <2> SUFFICES ASSUME NEW i \in JobId, Completed(i)'
               PROVE  ClaimOf(i, history'[i]) \in claims
    BY Zenon, <1>1 DEF CompletionsClaimed
  <2> QED
    BY Zenon, <1>10 DEF IInv, CompletionsClaimed, ClaimsExclusive, Ended, Active
<1>12. ASSUME NEW a \in acks
       PROVE  AckHolds(a)'
  <2>1. a.id \in JobId /\ a.attempt \in Nat /\ AckHolds(a)
    BY Zenon, <1>1 DEF Ack, IInv, AcksAgree, AckHolds
  <2>2. a.id <= issued
    BY Zenon, <2>1, <1>1 DEF AckHolds, IInv, ClaimsExclusive
  <2>3. Settles(a.id) /\ Live(a.id) # Finished(a.id)
    BY <1>1, <1>3, <2>1, <2>2 DEF IInv, NoJobLost
  <2>4. [id |-> a.id, worker |-> a.worker, attempt |-> a.attempt] \in claims'
    BY Zenon, <1>1, <2>1 DEF AckHolds
  <2>5. CASE a.outcome # "Retried"
    <3>1. Finished(a.id) /\ ~Live(a.id)
      BY Zenon, <2>1, <2>3, <2>5 DEF AckHolds, Live, Finished
    <3>2. history'[a.id] = history[a.id]
      BY Zenon, <2>3, <3>1 DEF Settles, Kept, Requeued, Ended, Active
    <3> QED
      BY Zenon, <2>1, <2>4, <2>5, <3>1, <3>2 DEF AckHolds, Finished
  <2>6. CASE a.outcome = "Retried"
    BY Zenon, <1>10, <2>1, <2>3, <2>4, <2>6
    DEF AckHolds, Settles, Kept, Requeued, Ended, Finished, Live, Active
  <2> QED
    BY SMTT(60), <2>5, <2>6
<1> QED
  BY <1>5, <1>8, <1>9, <1>11, <1>12
-----------------------------------------------------------------------------
(***************************************************************************)
(* Every action but GetNextJob has that shape                              *)
(***************************************************************************)

\* Nothing acknowledged, tables well-formed, every row accounted for.
Quiet == TypeOK' /\ Rows /\ acks' = acks

\* Every job that was there before keeps its claim, or its want of one.
Undisturbed ==
    /\ history' = history
    /\ \A i \in JobId :
          ~(issued < i /\ i <= issued') => jobs'[i] = jobs[i] \/ Kept(i)

\* A step that issues no job and settles each one is a step of Rows.
LEMMA SettledRows ==
    ASSUME issued \in Nat, issued' = issued, claims' = claims,
           \A i \in JobId : Settles(i)
    PROVE  Rows
<1>1. \A i \in JobId : ~(issued < i /\ i <= issued')
  <2>1. \A i \in JobId : i \in Nat
    BY DEF JobId
  <2> QED
    BY <2>1
<1>2. issued' >= issued
  OBVIOUS
<1> QED
  BY Zenon, <1>1, <1>2 DEF Rows

\* A step that leaves the job tables alone keeps every row.
LEMMA UntouchedRows ==
    ASSUME TypeOK, UNCHANGED <<issued, jobs, history, claims>>
    PROVE  Rows
<1>1. issued \in Nat /\ \A i \in JobId : i \in Nat
  BY DEF TypeOK, JobId
<1> QED
  BY <1>1 DEF Rows, Settles

\* What a retried row keeps, and that it no longer carries a claim.
LEMMA RetryRowShape ==
    ASSUME NEW job \in Job, NEW delay
    PROVE  /\ RetryRow(job, delay).opts = job.opts
           /\ RetryRow(job, delay).link = job.link
           /\ RetryRow(job, delay).attempts = job.attempts
           /\ RetryRow(job, delay).state # "Active"
           /\ RetryRow(job, delay).worker = Nil
           /\ RetryRow(job, delay).lease = Nil
BY DEF RetryRow, RestingState, Job

\* The tables the job handlers leave alone need no new argument for their types.
LEMMA OtherTablesTyped ==
    ASSUME TypeOK,
           issued' \in 0..MaxJobs,
           jobs' \in [JobId -> Job \cup {Nil}],
           history' \in [JobId -> Archived \cup {Nil}],
           receipts' \in [Slot -> Receipt \cup {Nil}],
           acks' \subseteq Ack,
           UNCHANGED <<now, limits, dispatch, chains, rejections, claims>>
    PROVE  TypeOK'
BY DEF TypeOK, limits

\* A quiet step, and one whose new acknowledgement is true, keep the invariant.
LEMMA QuietKeepsInvariant ==
    ASSUME IInv, Quiet
    PROVE  IInv'
<1>1. TypeOK' /\ Rows /\ acks' = acks
  BY DEF Quiet
<1>2. /\ NoJobLost' /\ ClaimsExclusive' /\ AttemptBudget' /\ CompletionsClaimed'
      /\ \A a \in acks : AckHolds(a)'
  BY <1>1, RowsKeepInvariant
<1>3. AcksAgree'
  BY Zenon, <1>1, <1>2 DEF AcksAgree, AckHolds
<1> QED
  BY <1>1, <1>2, <1>3 DEF IInv
-----------------------------------------------------------------------------
(***************************************************************************)
(* The life of a claim: GetNextJob grants it, a heartbeat prolongs it and  *)
(* recovery takes it back                                                  *)
(***************************************************************************)

\* GetNextJob is the only action that grants a claim: a resting job becomes
\* Active under a new attempt number, and no other row changes.
ClaimStep(i, w) ==
    /\ TypeOK'
    /\ Live(i) /\ jobs[i].state # "Active" /\ i <= issued
    /\ UNCHANGED <<issued, history, acks>>
    /\ claims' = claims \cup {[id |-> i, worker |-> w, attempt |-> jobs[i].attempts + 1]}
    /\ Active(i)' /\ jobs'[i].worker = w /\ jobs'[i].lease # Nil
    /\ jobs'[i].attempts = jobs[i].attempts + 1 /\ jobs'[i].opts = jobs[i].opts
    /\ jobs'[i].link = jobs[i].link
    /\ \A j \in JobId : j # i => jobs'[j] = jobs[j]

\* rate_limit::consume keeps the dispatch counters well-formed.
LEMMA ConsumeType ==
    ASSUME TypeOK, NEW f \in Facet \cup {Nil}
    PROVE  Consume(f) \in [Facet -> RateCounter \cup {Nil}]
<1>1. CASE f = Nil \/ rateRules[f] = Nil
  BY <1>1 DEF Consume, TypeOK
<1>2. CASE ~(f = Nil \/ rateRules[f] = Nil)
  <2> DEFINE c == rateCounters[f]
             next == IF c = Nil \/ c.expires <= now
                     THEN [count |-> 1, expires |-> now + rateRules[f].window]
                     ELSE [c EXCEPT !.count = @ + 1]
  <2>1. /\ f \in Facet /\ rateRules[f].window \in Nat /\ c \in RateCounter \cup {Nil}
        /\ now \in Nat
    BY <1>2 DEF TypeOK, RateRule
  <2>2. next \in RateCounter
    BY <2>1 DEF RateCounter
  <2>3. Consume(f) = [rateCounters EXCEPT ![f] = next]
    BY <1>2 DEF Consume
  <2> HIDE DEF next
  <2> QED
    BY Zenon, <2>2, <2>3 DEF TypeOK
<1> QED
  BY <1>1, <1>2

\* The row GetNextJob writes for a claimed job is well-formed.
LEMMA ClaimedRowType ==
    ASSUME NEW job \in Job, NEW w \in Worker, NEW attempt \in Nat, NEW lease \in Nat
    PROVE  [job EXCEPT !.state = "Active", !.worker = w, !.attempts = attempt,
                       !.lease = lease] \in Job
BY Zenon DEF Job, LiveState

\* GetNextJob grants the next attempt of one resting job and changes no other.
LEMMA GetNextJobClaims ==
    ASSUME Tables, NEW w \in Worker, NEW names, NEW i \in JobId, GetNextJob(w, names, i)
    PROVE  ClaimStep(i, w)
<1> DEFINE claim == [id |-> i, worker |-> w, attempt |-> jobs[i].attempts + 1]
           row == [jobs[i] EXCEPT !.state = "Active", !.worker = w,
                                  !.attempts = jobs[i].attempts + 1,
                                  !.lease = now + LeaseDuration]
<1>1. TypeOK /\ Live(i) /\ jobs[i].state # "Active"
  BY DEF Tables, GetNextJob, Candidate
<1>2. /\ jobs[i] \in Job /\ jobs[i].attempts \in Nat /\ now + LeaseDuration \in Nat
      /\ jobs[i].opts.facet \in Facet \cup {Nil} /\ i <= issued
  BY <1>1, LeaseAssumption DEF TypeOK, Live, Job, Opts, Tables
<1>3. /\ jobs' = [jobs EXCEPT ![i] = row]
      /\ rateCounters' = Consume(jobs[i].opts.facet)
      /\ DispatchAfter(jobs[i].opts.facet)
      /\ claims' = claims \cup {claim}
      /\ UNCHANGED <<now, issued, history, receipts, rateRules, ingressRules,
                     ingressBuckets, chains, rejections, acks>>
  <2>1. /\ rateCounters' = Consume(jobs[i].opts.facet)
        /\ DispatchAfter(jobs[i].opts.facet)
        /\ claims' = claims \cup {claim}
        /\ UNCHANGED <<now, issued, history, receipts, rateRules, ingressRules,
                       ingressBuckets, chains, rejections, acks>>
    BY DEF GetNextJob
  <2>2. jobs' = [jobs EXCEPT ![i] = row]
    BY Zenon, <1>1, <1>2 DEF GetNextJob, TypeOK, Job
  <2> QED
    BY <2>1, <2>2
<1>4. /\ row \in Job /\ row # Nil /\ row.state = "Active" /\ row.worker = w
      /\ row.attempts = jobs[i].attempts + 1 /\ row.lease # Nil
      /\ row.opts = jobs[i].opts /\ row.link = jobs[i].link
  <2>1. row \in Job
    <3>1. jobs[i].attempts + 1 \in Nat
      <4>1. jobs[i].attempts \in Nat
        BY Zenon, <1>2
      <4> QED
        BY <4>1
    <3> HIDE DEF claim
    <3> QED
      BY <1>2, <3>1, ClaimedRowType, Zenon
  <2> QED
    BY Zenon, <1>2, <2>1, RowsNotNil, NilAssumption DEF Job
<1>5. claim \in Claim
  BY <1>2 DEF Claim
<1> HIDE DEF row
<1>6. dispatch' \in [Facet \cup {Nil} -> Nat]
  <2>1. CASE FairnessEnabled
    <3>1. PICK top \in {dispatch[f] : f \in Facet \cup {Nil}} :
            dispatch' = [dispatch EXCEPT ![jobs[i].opts.facet] = top + 1]
      BY Zenon, <1>3, <2>1 DEF DispatchAfter
    <3>2. top \in Nat
      BY <1>1, <3>1 DEF TypeOK
    <3>3. dispatch \in [Facet \cup {Nil} -> Nat] /\ top + 1 \in Nat
      BY <1>1, <3>2 DEF TypeOK
    <3> QED
      BY Zenon, <3>1, <3>3
  <2>2. CASE ~FairnessEnabled
    BY Zenon, <1>1, <1>3, <2>2 DEF DispatchAfter, TypeOK
  <2> QED
    BY <2>1, <2>2
<1>7. rateCounters' \in [Facet -> RateCounter \cup {Nil}]
  BY Zenon, <1>1, <1>2, <1>3, ConsumeType
<1>8. TypeOK'
  <2>1. /\ now' = now /\ issued' = issued /\ history' = history /\ receipts' = receipts
        /\ rateRules' = rateRules /\ ingressRules' = ingressRules
        /\ ingressBuckets' = ingressBuckets /\ chains' = chains
        /\ rejections' = rejections /\ acks' = acks
    BY Zenon, <1>3
  <2>2. jobs' \in [JobId -> Job \cup {Nil}]
    <3>1. jobs \in [JobId -> Job \cup {Nil}]
      BY Zenon, <1>1 DEF TypeOK
    <3>2. jobs' = [jobs EXCEPT ![i] = row] /\ row \in Job
      BY Zenon, <1>3, <1>4
    <3> QED
      BY <3>1, <3>2
  <2>3. claims' \subseteq Claim
    BY Zenon, <1>1, <1>3, <1>5 DEF TypeOK
  <2> QED
    BY Zenon, <1>1, <1>6, <1>7, <2>1, <2>2, <2>3 DEF TypeOK
<1>9. jobs'[i] = row /\ \A j \in JobId : j # i => jobs'[j] = jobs[j]
  BY Zenon, <1>1, <1>3 DEF TypeOK
<1> QED
  BY Zenon, <1>1, <1>2, <1>3, <1>4, <1>8, <1>9 DEF ClaimStep, Active, Live

\* Granting a claim keeps the invariant: the job rested, so it had an attempt
\* left, and every earlier claim of it has a smaller attempt number.
LEMMA ClaimKeepsInvariant ==
    ASSUME IInv, NEW i \in JobId, NEW w \in Worker, ClaimStep(i, w)
    PROVE  IInv'
<1> DEFINE n == jobs[i].attempts + 1
           claim == [id |-> i, worker |-> w, attempt |-> n]
<1>1. /\ TypeOK' /\ Live(i) /\ jobs[i].state # "Active" /\ i <= issued
      /\ UNCHANGED <<issued, history, acks>>
      /\ claims' = claims \cup {claim}
      /\ Active(i)' /\ jobs'[i].worker = w /\ jobs'[i].lease # Nil
      /\ jobs'[i].attempts = n /\ jobs'[i].opts = jobs[i].opts
      /\ \A j \in JobId : j # i => jobs'[j] = jobs[j]
  BY Zenon DEF ClaimStep
<1>2. /\ TypeOK /\ jobs[i] \in Job /\ jobs[i].attempts \in Nat /\ n \in Nat
      /\ jobs[i].opts.max \in Nat /\ n > jobs[i].attempts
      /\ claims \subseteq Claim /\ acks \subseteq Ack
  <2>1. TypeOK /\ jobs[i] \in Job
    BY Zenon, <1>1 DEF IInv, TypeOK, Live
  <2>2. jobs[i].attempts \in Nat /\ jobs[i].opts \in Opts
    BY Zenon, <2>1 DEF Job
  <2>3. jobs[i].opts.max \in Nat
    BY Zenon, <2>2 DEF Opts
  <2>4. claims \subseteq Claim /\ acks \subseteq Ack
    BY Zenon, <2>1 DEF TypeOK
  <2>5. n \in Nat /\ n > jobs[i].attempts
    BY <2>2
  <2> QED
    BY Zenon, <2>1, <2>2, <2>3, <2>4, <2>5
<1>3. ~Finished(i) /\ Live(i)'
  BY ZenonT(60), <1>1 DEF IInv, NoJobLost, Active
<1>4. n <= jobs[i].opts.max
  <2>1. jobs[i].attempts < jobs[i].opts.max
    BY Zenon, <1>1 DEF IInv, AttemptBudget
  <2> QED
    BY <1>2, <2>1
<1>5. claim.id = i /\ claim.worker = w /\ claim.attempt = n
  BY Zenon
<1> HIDE DEF n
<1>5a. issued' = issued /\ history' = history /\ acks' = acks
  BY Zenon, <1>1
<1>5b. /\ Row(i)'.attempts = n
       /\ \A j \in JobId : j # i => Row(j)' = Row(j)
  BY Zenon, <1>1, <1>3, <1>5a DEF Row, Live
<1>6. NoJobLost'
  BY Zenon, <1>1, <1>3 DEF IInv, NoJobLost, Live, Finished
<1>7. ASSUME NEW c \in claims
      PROVE  /\ c.id \in JobId /\ c.id <= issued /\ c.attempt <= Row(c.id).attempts
             /\ c.id = i => c.attempt <= jobs[i].attempts /\ c.attempt < n
             /\ c.attempt \in Nat
  <2>1. c.id \in JobId /\ c.id <= issued /\ c.attempt <= Row(c.id).attempts
        /\ c.attempt \in Nat
    BY Zenon, <1>2 DEF IInv, ClaimsExclusive, Claim
  <2>2. c.id = i => c.attempt <= jobs[i].attempts
    BY Zenon, <1>1, <2>1 DEF Row
  <2>3. jobs[i].attempts \in Nat /\ n \in Nat /\ n > jobs[i].attempts
    BY Zenon, <1>2
  <2> QED
    BY <2>1, <2>2, <2>3
<1>8. ClaimsExclusive'
  <2>1. \A c, d \in claims' : c.id = d.id /\ c.attempt = d.attempt => c = d
    <3>1. \A c, d \in claims : c.id = d.id /\ c.attempt = d.attempt => c = d
      BY Zenon DEF IInv, ClaimsExclusive
    <3>2. \A c \in claims : ~(c.id = claim.id /\ c.attempt = claim.attempt)
      <4> SUFFICES ASSUME NEW c \in claims, c.id = i
                   PROVE  c.attempt # n
        BY Zenon, <1>5
      <4>1. c.attempt \in Nat /\ c.attempt < n /\ n \in Nat
        BY Zenon, <1>2, <1>7
      <4> QED
        BY <4>1
    <3>3. claims' = claims \cup {claim}
      BY Zenon, <1>1
    <3> HIDE DEF claim
    <3> QED
      BY Zenon, <3>1, <3>2, <3>3
  <2>2. ASSUME NEW c \in claims'
        PROVE  c.id <= issued' /\ c.attempt <= Row(c.id)'.attempts
    <3>1. CASE c \in claims
      <4>1. /\ c.id \in JobId /\ c.id <= issued' /\ c.attempt <= Row(c.id).attempts
            /\ c.id = i => c.attempt < n
            /\ c.attempt \in Nat
        BY Zenon, <1>5a, <1>7, <3>1
      <4>2. CASE c.id = i
        <5>1. Row(c.id)'.attempts = n /\ c.attempt < n /\ n \in Nat /\ c.attempt \in Nat
          BY Zenon, <1>2, <1>5b, <4>1, <4>2
        <5>2. c.attempt <= Row(c.id)'.attempts
          BY <5>1
        <5> QED
          BY Zenon, <4>1, <5>2
      <4>3. CASE c.id # i
        BY Zenon, <1>5b, <4>1, <4>3
      <4> QED
        BY Zenon, <4>2, <4>3
    <3>2. CASE c = claim
      <4>1. c.id = i /\ c.attempt = n /\ c.id <= issued'
        BY Zenon, <1>1, <1>5, <1>5a, <3>2
      <4>2. Row(c.id)'.attempts = n
        BY Zenon, <1>5b, <4>1
      <4> QED
        BY <1>2, <4>1, <4>2
    <3> QED
      BY Zenon, <1>1, <3>1, <3>2
  <2>3. ASSUME NEW j \in JobId, Live(j)'
        PROVE  IF jobs'[j].state = "Active"
               THEN /\ [id |-> j, worker |-> jobs'[j].worker,
                        attempt |-> jobs'[j].attempts] \in claims'
                    /\ jobs'[j].lease # Nil
               ELSE jobs'[j].worker = Nil /\ jobs'[j].lease = Nil
    <3>1. CASE j = i
      <4>1. jobs'[j].state = "Active" /\ jobs'[j].lease # Nil
        BY Zenon, <1>1, <3>1 DEF Active
      <4>2. [id |-> j, worker |-> jobs'[j].worker, attempt |-> jobs'[j].attempts] = claim
        BY Zenon, <1>1, <3>1
      <4> QED
        BY Zenon, <1>1, <4>1, <4>2
    <3>2. CASE j # i
      BY Zenon, <1>1, <2>3, <3>2 DEF IInv, ClaimsExclusive, Live
    <3> QED
      BY Zenon, <3>1, <3>2
  <2> QED
    BY Zenon, <2>1, <2>2, <2>3 DEF ClaimsExclusive
<1>9. AttemptBudget'
  <2> SUFFICES ASSUME NEW j \in JobId
               PROVE  /\ Live(j)' /\ jobs'[j].state # "Active"
                            => jobs'[j].attempts < jobs'[j].opts.max
                      /\ Live(j)' \/ Finished(j)' => Row(j)'.attempts <= Row(j)'.opts.max
    BY Zenon DEF AttemptBudget
  <2>1. CASE j = i
    <3>1. /\ jobs'[j].state = "Active" /\ Row(j)'.attempts = n
          /\ Row(j)'.opts.max = jobs[i].opts.max
      BY Zenon, <1>1, <1>3, <2>1 DEF Row, Active
    <3> QED
      BY Zenon, <1>4, <3>1
  <2>2. CASE j # i
    BY Zenon, <1>1, <2>2 DEF IInv, AttemptBudget, Row, Live, Finished
  <2> QED
    BY Zenon, <2>1, <2>2
<1>10. CompletionsClaimed'
  BY Zenon, <1>1, <1>5a DEF IInv, CompletionsClaimed, Completed, Finished, ClaimOf
<1>11. AcksAgree'
  <2> SUFFICES ASSUME NEW a \in acks
               PROVE  AckHolds(a)'
    BY Zenon, <1>1 DEF AcksAgree, AckHolds
  <2>1. AckHolds(a) /\ a.id \in JobId /\ a.attempt \in Nat
    <3>1. AckHolds(a)
      BY Zenon DEF IInv, AcksAgree, AckHolds
    <3>2. a \in Ack
      BY Zenon, <1>2
    <3> QED
      BY Zenon, <3>1, <3>2 DEF Ack
  <2>2. [id |-> a.id, worker |-> a.worker, attempt |-> a.attempt] \in claims
    BY Zenon, <2>1 DEF AckHolds
  <2>3. a.id = i => a.attempt < n
    BY Zenon, <1>7, <2>2
  <2>4. a.outcome = "Retried" => (Active(a.id)' => jobs'[a.id].attempts > a.attempt)
    <3>1. CASE a.id = i
      <4>1. jobs'[a.id].attempts = n /\ n \in Nat /\ a.attempt \in Nat
        BY Zenon, <1>1, <1>2, <2>1, <3>1
      <4> QED
        BY <2>3, <3>1, <4>1
    <3>2. CASE a.id # i
      BY Zenon, <1>1, <2>1, <3>2 DEF AckHolds, Active, Live
    <3> QED
      BY Zenon, <3>1, <3>2
  <2> QED
    BY Zenon, <1>1, <2>1, <2>2, <2>4 DEF AckHolds, Finished, Completed
<1> QED
  BY Zenon, <1>1, <1>6, <1>8, <1>9, <1>10, <1>11 DEF IInv
-----------------------------------------------------------------------------
\* Exactly the attempts in S end, for good where no attempt is left.
TakenBack(S) ==
    \A i \in JobId :
        IF i \notin S THEN jobs'[i] = jobs[i] /\ history'[i] = history[i]
        ELSE IF MayRetry(jobs[i]) THEN Requeued(i)
        ELSE Active(i) /\ Ended(i) /\ history'[i].state = "Failed"

\* A heartbeat moves the lease of a running claim and nothing else.
LEMMA RenewLeaseQuiet ==
    ASSUME TypeOK, NEW i \in JobId, NEW w \in Worker, NEW a \in Nat, RenewLease(i, w, a)
    PROVE  Quiet /\ Undisturbed
<1> DEFINE lease == Greatest(jobs[i].lease, now + LeaseDuration)
<1>1. /\ TypeOK /\ jobs[i] \in Job /\ now \in Nat /\ issued \in Nat
      /\ jobs[i].lease \in Nat /\ \A j \in JobId : j \in Nat
  <2>1. /\ now \in 0..MaxTime /\ issued \in 0..MaxJobs
        /\ jobs \in [JobId -> Job \cup {Nil}] /\ jobs[i] # Nil /\ jobs[i].lease # Nil
    BY Zenon DEF TypeOK, RenewLease, HoldsClaim, Active, Live
  <2>2. jobs[i] \in Job /\ now \in Nat /\ issued \in Nat /\ \A j \in JobId : j \in Nat
    BY <2>1, BoundAssumption DEF JobId
  <2>3. jobs[i].lease \in Nat
    BY Zenon, <2>1, <2>2 DEF Job
  <2> QED
    BY Zenon, <2>1, <2>2, <2>3
<1>2. lease \in Nat /\ lease >= jobs[i].lease /\ lease # Nil /\ jobs[i].lease # Nil
  <2>1. jobs[i].lease \in Nat /\ now \in Nat
    BY Zenon, <1>1
  <2>2. lease \in Nat /\ lease >= jobs[i].lease
    BY <2>1, LeaseAssumption DEF Greatest
  <2> QED
    BY Zenon, <2>1, <2>2, NilAssumption
<1>3. /\ jobs' = [jobs EXCEPT ![i] = [jobs[i] EXCEPT !.lease = lease]]
      /\ UNCHANGED <<now, issued, history, receipts, limits, dispatch, chains,
                     rejections, claims, acks>>
  BY DEF RenewLease
<1> HIDE DEF lease
<1>4. [jobs[i] EXCEPT !.lease = lease] \in Job
  BY <1>1, <1>2 DEF Job
<1>5. TypeOK'
  BY <1>1, <1>3, <1>4 DEF TypeOK, limits
<1>6. ASSUME NEW j \in JobId
      PROVE  jobs'[j] = jobs[j] \/ Kept(j)
  <2>1. CASE j = i
    <3>1. jobs'[j] = [jobs[i] EXCEPT !.lease = lease] /\ jobs'[j] # Nil
      BY Zenon, <1>1, <1>3, <1>4, <2>1, RowsNotNil DEF TypeOK
    <3>2. /\ jobs'[j].opts = jobs[j].opts /\ jobs'[j].link = jobs[j].link
          /\ jobs'[j].worker = jobs[j].worker /\ jobs'[j].attempts = jobs[j].attempts
          /\ jobs'[j].state = jobs[j].state /\ jobs'[j].lease = lease
      BY Zenon, <1>1, <2>1, <3>1 DEF Job
    <3>3. history'[j] = history[j] /\ jobs[j] # Nil
      BY Zenon, <1>1, <1>3, <2>1, RowsNotNil
    <3> QED
      BY Zenon, <1>2, <2>1, <3>1, <3>2, <3>3 DEF Kept, Live, SameLineage
  <2>2. CASE j # i
    BY <1>1, <1>3, <2>2 DEF TypeOK
  <2> QED
    BY Zenon, <2>1, <2>2
<1>7. Rows
  BY <1>1, <1>3, <1>6 DEF Rows, Settles
<1>8. Undisturbed
  BY Zenon, <1>3, <1>6 DEF Undisturbed
<1> QED
  BY <1>3, <1>5, <1>7, <1>8 DEF Quiet

\* The recovery loop ends expired attempts, and only those.
LEMMA RecoverExpiredQuiet ==
    ASSUME TypeOK, NEW S \in RecoveryBatches, RecoverExpired(S)
    PROVE  Quiet /\ S \subseteq JobId /\ TakenBack(S)
<1> DEFINE exhausted == {i \in S : ~MayRetry(jobs[i])}
           delay(job) == RetryDelay(job.opts.base, job.opts.cap, job.attempts)
<1>1. /\ TypeOK /\ now \in Nat /\ issued \in Nat /\ \A i \in JobId : i \in Nat
      /\ \A i \in S : i \in JobId /\ Active(i) /\ jobs[i] \in Job
  <2>1. TypeOK /\ now \in Nat /\ issued \in Nat /\ \A i \in JobId : i \in Nat
    BY BoundAssumption DEF TypeOK, JobId
  <2>2. \A i \in S : i \in JobId /\ Expired(i)
    BY Zenon DEF RecoveryBatches
  <2>3. \A i \in S : Active(i)
    BY Zenon, <2>2 DEF Expired
  <2> QED
    BY Zenon, <2>1, <2>2, <2>3 DEF TypeOK, Active, Live
<1>2. /\ jobs' = [i \in JobId |->
                    IF i \in exhausted THEN Nil
                    ELSE IF i \in S THEN RetryRow(jobs[i], delay(jobs[i]))
                    ELSE jobs[i]]
      /\ history' = [i \in JobId |->
                       IF i \in exhausted THEN ArchivedByRecovery(jobs[i])
                       ELSE history[i]]
      /\ receipts' = ReceiptsAfter(exhausted)
      /\ UNCHANGED <<now, issued, limits, dispatch, chains, rejections, claims, acks>>
  BY Zenon DEF RecoverExpired
<1>3. ASSUME NEW i \in S
      PROVE  /\ RetryRow(jobs[i], delay(jobs[i])) \in Job
             /\ ArchivedByRecovery(jobs[i]) \in Archived
  <2>1. /\ jobs[i].opts.base \in Nat /\ jobs[i].opts.cap \in Nat
        /\ jobs[i].attempts \in Nat
    BY <1>1 DEF Job, Opts
  <2>2. delay(jobs[i]) \in Nat
    BY Zenon, <2>1, RetryDelayType
  <2> QED
    BY Zenon, <1>1, <2>2, RetryRowType, ArchivedType DEF TerminalState
<1> HIDE DEF delay
<1>4. TypeOK'
  <2>1. jobs' \in [JobId -> Job \cup {Nil}]
    BY Zenon, <1>1, <1>2, <1>3 DEF TypeOK
  <2>2. history' \in [JobId -> Archived \cup {Nil}]
    BY Zenon, <1>1, <1>2, <1>3 DEF TypeOK
  <2>3. receipts' \in [Slot -> Receipt \cup {Nil}]
    BY Zenon, <1>1, <1>2, ReceiptsAfterType DEF TypeOK
  <2> QED
    BY Zenon, <1>1, <1>2, <2>1, <2>2, <2>3 DEF TypeOK, limits
<1>5. ASSUME NEW i \in JobId
      PROVE  IF i \notin S THEN jobs'[i] = jobs[i] /\ history'[i] = history[i]
             ELSE IF MayRetry(jobs[i]) THEN Requeued(i)
             ELSE Active(i) /\ Ended(i) /\ history'[i].state = "Failed"
  <2>1. CASE i \in exhausted
    <3>1. jobs'[i] = Nil /\ history'[i] = ArchivedByRecovery(jobs[i])
          /\ i \in S /\ Active(i) /\ jobs[i] \in Job
      BY Zenon, <1>1, <1>2, <2>1
    <3>2. ArchivedByRecovery(jobs[i]) # Nil
      BY Zenon, <1>3, <3>1, RowsNotNil
    <3>3. /\ history'[i].opts = jobs[i].opts /\ history'[i].worker = jobs[i].worker
          /\ history'[i].attempts = jobs[i].attempts /\ history'[i].state = "Failed"
          /\ SameLineage(history'[i].link, jobs[i].link)
      <4>1. "Failed" \in TerminalState /\ Nil \in Result \cup {Nil}
        BY DEF TerminalState
      <4> QED
        BY Zenon, <1>1, <3>1, <4>1, ArchivedType
    <3>4. Ended(i) /\ history'[i].state = "Failed"
      BY Zenon, <3>1, <3>2, <3>3 DEF Ended, Live, Finished, Active
    <3> QED
      BY Zenon, <2>1, <3>1, <3>4
  <2>2. CASE i \in S \ exhausted
    <3>1. jobs'[i] = RetryRow(jobs[i], delay(jobs[i])) /\ history'[i] = history[i]
          /\ i \in S /\ Active(i) /\ jobs[i] \in Job /\ MayRetry(jobs[i])
      BY Zenon, <1>1, <1>2, <2>2
    <3>2. Requeued(i)
      <4> DEFINE row == RetryRow(jobs[i], delay(jobs[i]))
      <4>1. /\ row.opts = jobs[i].opts /\ row.attempts = jobs[i].attempts
            /\ row.link = jobs[i].link
            /\ row.state # "Active" /\ row.worker = Nil /\ row.lease = Nil
        BY Zenon, <3>1, RetryRowShape
      <4>2. row # Nil
        BY Zenon, <1>3, <3>1, RowsNotNil
      <4> HIDE DEF row
      <4>3. jobs'[i] = row
        BY Zenon, <3>1 DEF row
      <4> QED
        BY Zenon, <3>1, <4>1, <4>2, <4>3 DEF Requeued, Live
    <3> QED
      BY Zenon, <3>1, <3>2
  <2>3. CASE i \notin S
    BY Zenon, <1>2, <2>3
  <2> QED
    BY Zenon, <2>1, <2>2, <2>3
<1>6. TakenBack(S) /\ \A i \in JobId : Settles(i)
  BY Zenon, <1>5 DEF TakenBack, Settles
<1>7. S \subseteq JobId
  BY <1>1
<1> QED
  BY SMTT(60), <1>1, <1>2, <1>4, <1>6, <1>7 DEF Quiet, Rows
-----------------------------------------------------------------------------
(***************************************************************************)
(* Steps that answer a claim: CompleteJob, its replay, and FailJob         *)
(***************************************************************************)

AckOf(i, w, attempt, outcome) ==
    [id |-> i, worker |-> w, attempt |-> Acknowledged(attempt), outcome |-> outcome]

\* The answer goes to the claim the row names.
Told(i, outcome) ==
    acks' = acks \cup {[id |-> i, worker |-> jobs[i].worker, attempt |-> jobs[i].attempts,
                        outcome |-> outcome]}

Same(j) == jobs'[j] = jobs[j] /\ history'[j] = history[j]

\* What each answered step does to every row.
Completes(i) ==
    /\ Active(i) /\ Ended(i) /\ history'[i].state = "Completed"
    /\ Told(i, "Completed")
    /\ \A j \in JobId : j # i => Same(j) \/ Kept(j)
Retries(i) ==
    /\ Requeued(i)
    /\ Told(i, "Retried")
    /\ \A j \in JobId : j # i => Same(j)
FailsWith(i, S) ==
    /\ Active(i) /\ i \in S /\ S \subseteq JobId
    /\ Told(i, "Failed")
    /\ \A j \in JobId : IF j \in S THEN Ended(j) /\ history'[j].state = "Failed"
                       ELSE Same(j)

Answers(i) == Completes(i) \/ Retries(i) \/ \E S \in SUBSET JobId : FailsWith(i, S)

\* A step that ends one claim and records the answer for that very claim keeps
\* the invariant (finish_job).
LEMMA TrueAckKeepsInvariant ==
    ASSUME IInv, TypeOK', Rows, NEW a, acks' = acks \cup {a}, AckHolds(a)'
    PROVE  IInv'
<1>1. /\ NoJobLost' /\ ClaimsExclusive' /\ AttemptBudget' /\ CompletionsClaimed'
      /\ \A b \in acks : AckHolds(b)'
  BY RowsKeepInvariant
<1>2. AcksAgree'
  BY Zenon, <1>1 DEF AcksAgree, AckHolds
<1> QED
  BY <1>1, <1>2 DEF IInv

\* What HoldsClaim establishes about the acknowledgement it precedes.
LEMMA Fenced ==
    ASSUME TypeOK, NEW i \in JobId, NEW w \in Worker, NEW attempt \in Nat,
           HoldsClaim(i, w, Acknowledged(attempt)),
           NEW outcome \in {"Completed", "Failed", "Retried"}
    PROVE  /\ now \in Nat /\ issued \in Nat
           /\ jobs[i] \in Job /\ Active(i) /\ Live(i)
           /\ jobs[i].worker = w /\ jobs[i].attempts = Acknowledged(attempt)
           /\ AckOf(i, w, attempt, outcome) \in Ack
<1>1. /\ jobs[i] # Nil /\ jobs[i].state = "Active" /\ jobs[i].worker = w
      /\ jobs[i].attempts = Acknowledged(attempt)
  BY Zenon DEF HoldsClaim, Active, Live
<1>2. jobs[i] \in Job /\ now \in 0..MaxTime /\ issued \in 0..MaxJobs
  BY Zenon, <1>1 DEF TypeOK
<1>3. now \in Nat /\ issued \in Nat
  BY <1>2, BoundAssumption
<1>4. Acknowledged(attempt) \in Nat
  BY DEF Acknowledged
<1>5. AckOf(i, w, attempt, outcome) \in Ack
  BY <1>4 DEF AckOf, Ack
<1> QED
  BY Zenon, <1>1, <1>2, <1>3, <1>5 DEF Active, Live

\* The acknowledged claim is one that GetNextJob granted.
LEMMA FencedClaim ==
    ASSUME IInv, NEW i \in JobId, Active(i)
    PROVE  ClaimOf(i, jobs[i]) \in claims
BY Zenon DEF IInv, ClaimsExclusive, Active, ClaimOf

\* The parent of a completed child keeps its claim.
LEMMA AfterChildCompletedShape ==
    ASSUME NEW job \in Job, now \in Nat
    PROVE  /\ AfterChildCompleted(job) \in Job
           /\ AfterChildCompleted(job).opts = job.opts
           /\ AfterChildCompleted(job).link = job.link
           /\ AfterChildCompleted(job).worker = job.worker
           /\ AfterChildCompleted(job).attempts = job.attempts
           /\ AfterChildCompleted(job).lease = job.lease
           /\ AfterChildCompleted(job).state = "Active" <=> job.state = "Active"
<1> DEFINE pending == job.pending - 1
<1>1. pending \in Int
  BY DEF Job
<1>2. RestingState(job.available) \in {"Waiting", "Delayed"}
  BY DEF RestingState
<1>3. AfterChildCompleted(job) =
        IF job.state = "WaitingChildren" /\ pending <= 0
        THEN [job EXCEPT !.pending = pending, !.state = RestingState(job.available)]
        ELSE [job EXCEPT !.pending = pending]
  BY DEF AfterChildCompleted
<1> HIDE DEF pending
<1> QED
  BY ZenonT(60), <1>1, <1>2, <1>3 DEF Job, LiveState

\* CompleteJob.
LEMMA CompleteJobRows ==
    ASSUME TypeOK, NEW i \in JobId, NEW w \in Worker, NEW attempt \in Nat,
           NEW result \in Result \cup {Nil}, CompleteJob(i, w, attempt, result)
    PROVE  TypeOK' /\ Rows /\ Completes(i)
<1> DEFINE a == AckOf(i, w, attempt, "Completed")
           done == ArchivedAs(jobs[i], "Completed", result)
<1>1. /\ now \in Nat /\ issued \in Nat /\ jobs[i] \in Job /\ Active(i) /\ Live(i)
      /\ jobs[i].worker = w /\ jobs[i].attempts = Acknowledged(attempt)
      /\ a \in Ack
  BY Zenon, Fenced DEF CompleteJob
<1>2. /\ history' = [history EXCEPT ![i] = done]
      /\ jobs' = [j \in JobId |->
                    IF j = i THEN Nil
                    ELSE IF j = jobs[i].link.parent /\ Live(j)
                    THEN AfterChildCompleted(jobs[j])
                    ELSE jobs[j]]
      /\ receipts' = ReceiptsAfter({i})
      /\ acks' = acks \cup {a}
      /\ UNCHANGED <<now, issued, limits, dispatch, chains, rejections, claims>>
  BY Zenon DEF CompleteJob, Acked, AckOf
<1>3. done \in Archived /\ done # Nil
  BY Zenon, <1>1, ArchivedType, RowsNotNil DEF TerminalState
<1>4. /\ done.opts = jobs[i].opts /\ done.worker = jobs[i].worker
      /\ done.attempts = jobs[i].attempts /\ done.state = "Completed"
      /\ SameLineage(done.link, jobs[i].link)
  BY Zenon DEF ArchivedAs, SameLineage
<1> HIDE DEF a, done
<1>6. \A j \in JobId : Live(j) => jobs[j] \in Job
  BY Zenon, <1>1 DEF TypeOK, Live
<1>7. TypeOK'
  <2>1. jobs' \in [JobId -> Job \cup {Nil}]
    BY Zenon, <1>1, <1>2, <1>6, AfterChildCompletedShape DEF TypeOK
  <2>2. history' \in [JobId -> Archived \cup {Nil}]
    BY Zenon, <1>1, <1>2, <1>3 DEF TypeOK
  <2>3. receipts' \in [Slot -> Receipt \cup {Nil}]
    BY Zenon, <1>1, <1>2, ReceiptsAfterType DEF TypeOK
  <2> QED
    BY ZenonT(60), <1>1, <1>2, <2>1, <2>2, <2>3 DEF TypeOK, limits
<1>8. jobs'[i] = Nil /\ history'[i] = done
  BY Zenon, <1>1, <1>2 DEF TypeOK
<1>9. Ended(i)
  BY Zenon, <1>1, <1>3, <1>4, <1>8 DEF Ended, Live, Finished
<1>10. ASSUME NEW j \in JobId, j # i
       PROVE  Same(j) \/ Kept(j)
  <2>1. history'[j] = history[j]
    <3>1. history \in [JobId -> Archived \cup {Nil}]
      BY Zenon, <1>1 DEF TypeOK
    <3> QED
      BY Zenon, <1>2, <1>10, <3>1
  <2>2. CASE j = jobs[i].link.parent /\ Live(j)
    <3>1. jobs'[j] = AfterChildCompleted(jobs[j]) /\ jobs[j] \in Job
      BY Zenon, <1>2, <1>6, <1>10, <2>2
    <3>2. Kept(j)
      BY ZenonT(60), <1>1, <2>1, <2>2, <3>1, AfterChildCompletedShape, RowsNotNil
      DEF Kept, Live, SameLineage
    <3> QED
      BY <3>2
  <2>3. CASE ~(j = jobs[i].link.parent /\ Live(j))
    BY Zenon, <1>2, <1>10, <2>1, <2>3 DEF Same
  <2> QED
    BY Zenon, <2>2, <2>3
<1>11. Rows
  <2>1. \A j \in JobId : Settles(j)
    BY Zenon, <1>9, <1>10 DEF Settles, Same
  <2> QED
    BY Zenon, <1>1, <1>2, <2>1, SettledRows
<1>12. Completes(i)
  <2>1. Told(i, "Completed")
    BY Zenon, <1>1, <1>2 DEF Told, a, AckOf
  <2> QED
    BY Zenon, <1>1, <1>4, <1>8, <1>9, <1>10, <2>1 DEF Completes
<1> QED
  BY Zenon, <1>7, <1>11, <1>12

\* A repeated CompleteJob is answered from history and changes nothing.
LEMMA ReplayRows ==
    ASSUME TypeOK, NEW i \in JobId, NEW w \in Worker, NEW attempt \in Nat,
           ReplayCompletion(i, w, attempt)
    PROVE  /\ TypeOK' /\ Rows /\ UNCHANGED <<jobs, history, claims>>
           /\ Completed(i) /\ history[i].worker = w
           /\ history[i].attempts = Acknowledged(attempt)
           /\ acks' = acks \cup {AckOf(i, w, attempt, "Completed")}
<1> DEFINE a == AckOf(i, w, attempt, "Completed")
<1>1. /\ UNCHANGED <<now, issued, jobs, history, receipts, limits, dispatch, chains,
                     rejections, claims>>
      /\ acks' = acks \cup {a}
      /\ Finished(i) /\ history[i].state = "Completed" /\ history[i].worker = w
      /\ history[i].attempts = Acknowledged(attempt)
  BY Zenon DEF ReplayCompletion, Acked, AckOf
<1>2. a \in Ack
  <2>1. Acknowledged(attempt) \in Nat
    BY DEF Acknowledged
  <2> QED
    BY Zenon, <2>1 DEF AckOf, Ack
<1> HIDE DEF a
<1>3. TypeOK'
  BY Zenon, <1>1, <1>2 DEF TypeOK, limits
<1>4. Rows
  BY Zenon, <1>1, UntouchedRows
<1> QED
  BY Zenon, <1>1, <1>3, <1>4 DEF a, Completed

\* FailJob with an attempt left.
LEMMA RetryJobRows ==
    ASSUME TypeOK, NEW i \in JobId, NEW w \in Worker, NEW attempt \in Nat,
           RetryJob(i, w, attempt)
    PROVE  TypeOK' /\ Rows /\ Retries(i)
<1> DEFINE a == AckOf(i, w, attempt, "Retried")
           plain == RetryDelay(jobs[i].opts.base, jobs[i].opts.cap, jobs[i].attempts)
<1>1. /\ now \in Nat /\ issued \in Nat /\ jobs[i] \in Job /\ Active(i) /\ Live(i)
      /\ jobs[i].worker = w /\ jobs[i].attempts = Acknowledged(attempt)
      /\ a \in Ack
  BY Zenon, Fenced DEF RetryJob
<1>2. PICK delay \in Jittered(plain, jobs[i].opts.jitter) :
        jobs' = [jobs EXCEPT ![i] = RetryRow(jobs[i], delay)]
  BY ZenonT(60) DEF RetryJob
<1>3. /\ MayRetry(jobs[i]) /\ acks' = acks \cup {a}
      /\ UNCHANGED <<now, issued, history, receipts, limits, dispatch, chains,
                     rejections, claims>>
  BY Zenon DEF RetryJob, Acked, AckOf
<1>4. delay \in Nat
  <2>1. /\ jobs[i].opts.base \in Nat /\ jobs[i].opts.cap \in Nat
        /\ jobs[i].attempts \in Nat /\ jobs[i].opts.jitter \in 0..JitterDen
    BY <1>1 DEF Job, Opts
  <2>2. plain \in Nat
    BY ZenonT(60), <2>1, RetryDelayType
  <2> HIDE DEF plain
  <2> QED
    BY <1>2, <2>1, <2>2, JitteredType
<1> HIDE DEF a, plain
<1>6. RetryRow(jobs[i], delay) \in Job
  BY Zenon, <1>1, <1>4, RetryRowType
<1>7. TypeOK'
  BY Zenon, <1>1, <1>2, <1>3, <1>6 DEF TypeOK, limits
<1>8. jobs'[i] = RetryRow(jobs[i], delay)
      /\ \A j \in JobId : j # i => jobs'[j] = jobs[j]
  BY Zenon, <1>1, <1>2 DEF TypeOK
<1>9. Requeued(i)
  <2>1. Live(i)'
    BY Zenon, <1>6, <1>8, RowsNotNil DEF Live
  <2>2. /\ jobs'[i].opts = jobs[i].opts
        /\ jobs'[i].link = jobs[i].link
        /\ jobs'[i].attempts = jobs[i].attempts
        /\ jobs'[i].state # "Active"
        /\ jobs'[i].worker = Nil
        /\ jobs'[i].lease = Nil
    <3>1. jobs[i] \in Job /\ jobs'[i] = RetryRow(jobs[i], delay)
      BY Zenon, <1>1, <1>8
    <3> DEFINE r == RetryRow(jobs[i], delay)
    <3>2. /\ r.opts = jobs[i].opts /\ r.link = jobs[i].link /\ r.attempts = jobs[i].attempts
          /\ r.state # "Active" /\ r.worker = Nil /\ r.lease = Nil
      BY Zenon, <3>1, RetryRowShape
    <3>3. jobs'[i] = r
      BY Zenon, <3>1
    <3> HIDE DEF r
    <3> QED
      BY Zenon, <3>2, <3>3
  <2> QED
    BY Zenon, <1>1, <1>3, <2>1, <2>2 DEF Requeued
<1>10. Rows
  <2>1. \A j \in JobId : Settles(j)
    BY Zenon, <1>3, <1>8, <1>9 DEF Settles
  <2> QED
    BY Zenon, <1>1, <1>3, <2>1, SettledRows
<1>11. Retries(i)
  <2>1. Told(i, "Retried")
    BY Zenon, <1>1, <1>3 DEF Told, a, AckOf
  <2> QED
    BY Zenon, <1>3, <1>8, <1>9, <2>1 DEF Retries, Same
<1> QED
  BY Zenon, <1>7, <1>10, <1>11

\* The failParentOnFailure walk reaches live jobs only.
LEMMA FailedWithLive ==
    ASSUME NEW i \in JobId, Live(i), jobs \in [JobId -> Job \cup {Nil}]
    PROVE  i \in FailedWith(i) /\ \A j \in FailedWith(i) : j \in JobId /\ Live(j)
<1> DEFINE L == {j \in JobId : Live(j)}
<1>1. L \in SUBSET JobId /\ i \in L
  OBVIOUS
<1>2. FailureClosed(L)
  <2> SUFFICES ASSUME NEW c \in L, jobs[c].link.parent # Nil, Live(jobs[c].link.parent)
               PROVE  jobs[c].link.parent \in L
    BY Zenon DEF FailureClosed
  <2>1. jobs[c] \in Job
    BY DEF Live
  <2> QED
    BY Zenon, <2>1 DEF Job, Link
<1> HIDE DEF L
<1>3. \A j \in FailedWith(i) : j \in L
  BY <1>1, <1>2 DEF FailedWith
<1> QED
  BY <1>3 DEF FailedWith, L

\* FailJob with no attempt left: the job and the ancestors its flags reach end.
LEMMA FailForGoodRows ==
    ASSUME TypeOK, NEW i \in JobId, NEW w \in Worker, NEW attempt \in Nat,
           NEW final \in BOOLEAN, FailForGood(i, w, attempt, final)
    PROVE  TypeOK' /\ Rows /\ FailsWith(i, FailedWith(i))
<1> DEFINE a == AckOf(i, w, attempt, "Failed")
           failed == FailedWith(i)
<1>1. /\ now \in Nat /\ issued \in Nat /\ jobs[i] \in Job /\ Active(i) /\ Live(i)
      /\ jobs[i].worker = w /\ jobs[i].attempts = Acknowledged(attempt)
      /\ a \in Ack
  <2>1. HoldsClaim(i, w, Acknowledged(attempt))
    BY Zenon DEF FailForGood
  <2> QED
    BY Zenon, <2>1, Fenced
<1>2. /\ history' = [j \in JobId |->
                       IF j \in failed THEN ArchivedAs(jobs[j], "Failed", Nil)
                       ELSE history[j]]
      /\ jobs' = [j \in JobId |-> IF j \in failed THEN Nil ELSE jobs[j]]
      /\ receipts' = ReceiptsAfter(failed)
      /\ acks' = acks \cup {a}
      /\ UNCHANGED <<now, issued, limits, dispatch, chains, rejections, claims>>
  BY Zenon DEF FailForGood, Acked, AckOf
<1>3. i \in failed /\ \A j \in failed : j \in JobId /\ Live(j) /\ jobs[j] \in Job
  BY Zenon, <1>1, FailedWithLive DEF TypeOK, Live
<1> HIDE DEF a, failed
<1>5. ASSUME NEW j \in failed
      PROVE  /\ ArchivedAs(jobs[j], "Failed", Nil) \in Archived
             /\ ArchivedAs(jobs[j], "Failed", Nil).opts = jobs[j].opts
             /\ SameLineage(ArchivedAs(jobs[j], "Failed", Nil).link, jobs[j].link)
             /\ ArchivedAs(jobs[j], "Failed", Nil).worker = jobs[j].worker
             /\ ArchivedAs(jobs[j], "Failed", Nil).attempts = jobs[j].attempts
             /\ ArchivedAs(jobs[j], "Failed", Nil).state = "Failed"
  <2>1. ArchivedAs(jobs[j], "Failed", Nil) \in Archived
    BY ZenonT(60), <1>1, <1>3, ArchivedType DEF TerminalState
  <2> QED
    BY Zenon, <2>1 DEF ArchivedAs, SameLineage
<1>6. TypeOK'
  <2> DEFINE archived(j) == ArchivedAs(jobs[j], "Failed", Nil)
  <2>0. /\ jobs \in [JobId -> Job \cup {Nil}]
        /\ history \in [JobId -> Archived \cup {Nil}]
        /\ receipts \in [Slot -> Receipt \cup {Nil}]
    BY Zenon, <1>1 DEF TypeOK
  <2>1. jobs' \in [JobId -> Job \cup {Nil}]
    BY ZenonT(60), <1>2, <2>0
  <2>2. history' \in [JobId -> Archived \cup {Nil}]
    <3>1. \A j \in failed : archived(j) \in Archived
      BY Zenon, <1>5
    <3>2. history' = [j \in JobId |-> IF j \in failed THEN archived(j) ELSE history[j]]
      BY Zenon, <1>2
    <3> HIDE DEF archived
    <3> QED
      BY ZenonT(60), <2>0, <3>1, <3>2
  <2>3. receipts' \in [Slot -> Receipt \cup {Nil}]
    BY Zenon, <1>2, <2>0, ReceiptsAfterType
  <2>4. issued \in 0..MaxJobs /\ acks \subseteq Ack
    BY Zenon, <1>1 DEF TypeOK
  <2>5. issued' \in 0..MaxJobs /\ acks' \subseteq Ack
    BY Zenon, <1>1, <1>2, <2>4
  <2> QED
    BY Zenon, <1>1, <1>2, <2>1, <2>2, <2>3, <2>5, OtherTablesTyped
<1>7. ASSUME NEW j \in failed
      PROVE  Ended(j) /\ history'[j].state = "Failed"
  <2>1. jobs'[j] = Nil /\ history'[j] = ArchivedAs(jobs[j], "Failed", Nil)
    BY ZenonT(60), <1>2, <1>3
  <2>2. history'[j] # Nil /\ Live(j) /\ history'[j].state # "Completed"
    <3>1. history'[j] \in Archived /\ history'[j].state = "Failed" /\ Live(j)
      BY Zenon, <1>3, <1>5, <2>1
    <3> QED
      BY Zenon, <3>1, RowsNotNil
  <2> QED
    BY Zenon, <1>5, <2>1, <2>2 DEF Ended, Live, Finished
<1>8. \A j \in JobId : Settles(j)
  BY Zenon, <1>2, <1>7 DEF Settles
<1>9. Rows
  BY Zenon, <1>1, <1>2, <1>8, SettledRows
<1>10. FailsWith(i, failed)
  <2>1. Told(i, "Failed")
    BY Zenon, <1>1, <1>2 DEF Told, a, AckOf
  <2>2. \A j \in JobId : j \notin failed => Same(j)
    BY Zenon, <1>2 DEF Same
  <2> QED
    BY Zenon, <1>1, <1>3, <1>7, <2>1, <2>2 DEF FailsWith
<1> QED
  BY Zenon, <1>6, <1>9, <1>10 DEF failed

\* An answer that is true after the step: of a claim the broker granted, and with
\* the outcome the row records.
LEMMA AnswersKeepInvariant ==
    ASSUME IInv, TypeOK', Rows, NEW i \in JobId,
           Answers(i)
    PROVE  IInv'
<1>1. PICK outcome \in {"Completed", "Failed", "Retried"} :
        /\ Active(i) /\ Told(i, outcome)
        /\ outcome # "Retried" => Ended(i) /\ history'[i].state = outcome
        /\ outcome = "Retried" => Requeued(i)
  BY Zenon DEF Answers, Completes, Retries, FailsWith, Requeued
<1>2. PICK a : /\ a.id = i /\ a.worker = jobs[i].worker /\ a.attempt = jobs[i].attempts
               /\ a.outcome = outcome /\ acks' = acks \cup {a}
  BY Zenon, <1>1 DEF Told
<1>3. [id |-> a.id, worker |-> a.worker, attempt |-> a.attempt] \in claims'
  BY Zenon, <1>1, <1>2, FencedClaim DEF Rows, ClaimOf
<1>4. ~Finished(i)
  BY Zenon, <1>1 DEF IInv, NoJobLost, Active, Live, Finished
<1>5. AckHolds(a)'
  <2>1. CASE outcome # "Retried"
    BY Zenon, <1>1, <1>2, <1>3, <2>1 DEF AckHolds, Ended
  <2>2. CASE outcome = "Retried"
    BY Zenon, <1>1, <1>2, <1>3, <1>4, <2>2
    DEF AckHolds, Requeued, Active, Completed, Finished
  <2> QED
    BY <2>1, <2>2
<1> QED
  BY Zenon, <1>2, <1>5, TrueAckKeepsInvariant

\* A replayed answer repeats what the history row says.
LEMMA ReplayKeepsInvariant ==
    ASSUME IInv, NEW i \in JobId, NEW w \in Worker, NEW attempt \in Nat,
           ReplayCompletion(i, w, attempt)
    PROVE  IInv'
<1> DEFINE a == AckOf(i, w, attempt, "Completed")
<1>1. /\ TypeOK' /\ Rows /\ UNCHANGED <<jobs, history, claims>>
      /\ Completed(i) /\ history[i].worker = w
      /\ history[i].attempts = Acknowledged(attempt)
      /\ acks' = acks \cup {a}
  BY Zenon, ReplayRows DEF IInv
<1>2. [id |-> i, worker |-> w, attempt |-> Acknowledged(attempt)] \in claims
  BY Zenon, <1>1 DEF IInv, CompletionsClaimed, ClaimOf
<1>3. a.id = i /\ a.worker = w /\ a.attempt = Acknowledged(attempt)
      /\ a.outcome = "Completed"
  BY Zenon DEF AckOf
<1> HIDE DEF a
<1>4. AckHolds(a)'
  BY Zenon, <1>1, <1>2, <1>3 DEF AckHolds, Completed, Finished
<1> QED
  BY Zenon, <1>1, <1>4, TrueAckKeepsInvariant
-----------------------------------------------------------------------------
(***************************************************************************)
(* Steps that do not concern claims: enqueues, rule changes, the clock     *)
(***************************************************************************)

\* The clock, the recorded rejections and the rule tables.
LEMMA ClockQuiet ==
    ASSUME TypeOK, Tick \/ ClockStepsBack
    PROVE  Quiet
<1>1. TypeOK'
  <2>1. now' \in 0..MaxTime
    BY BoundAssumption DEF TypeOK, Tick, ClockStepsBack
  <2> QED
    BY Zenon, <2>1 DEF TypeOK, Tick, ClockStepsBack, limits
<1> QED
  BY <1>1, UntouchedRows DEF Tick, ClockStepsBack, Quiet

\* A rolled-back enqueue (record_rejection) touches no row, claim or answer.
LEMMA RejectionQuiet ==
    ASSUME TypeOK, NEW kind \in RejectionKind, RecordRejection(kind)
    PROVE  Quiet /\ Undisturbed
<1>1. TypeOK'
  BY DEF TypeOK, RecordRejection, limits
<1> QED
  BY Zenon, <1>1, UntouchedRows DEF RecordRejection, Quiet, Undisturbed

\* The rule handlers of rate_limit.rs and ingress_limit.rs touch no job.
LEMMA OperatorQuiet ==
    ASSUME TypeOK, Operator
    PROVE  Quiet
<1>1. PICK f \in Facet :
        \/ \E rule \in RateRuleChoices : UpsertRateLimitRule(f, rule)
        \/ DeleteRateLimitRule(f)
        \/ \E rule \in IngressRuleChoices : UpsertIngressLimitRule(f, rule)
        \/ DeleteIngressLimitRule(f)
  BY DEF Operator
<1>2. ASSUME NEW rule \in RateRuleChoices, UpsertRateLimitRule(f, rule)
      PROVE  Quiet
  <2>1. TypeOK'
    BY Zenon, <1>2, RequestAssumption DEF TypeOK, UpsertRateLimitRule
  <2> QED
    BY <1>2, <2>1, UntouchedRows DEF UpsertRateLimitRule, Quiet
<1>3. CASE DeleteRateLimitRule(f)
  <2>1. TypeOK'
    BY Zenon, <1>3 DEF TypeOK, DeleteRateLimitRule
  <2> QED
    BY <1>3, <2>1, UntouchedRows DEF DeleteRateLimitRule, Quiet
<1>4. ASSUME NEW rule \in IngressRuleChoices, UpsertIngressLimitRule(f, rule)
      PROVE  Quiet
  <2>1. TypeOK'
    BY Zenon, <1>4, RequestAssumption DEF TypeOK, UpsertIngressLimitRule
  <2> QED
    BY <1>4, <2>1, UntouchedRows DEF UpsertIngressLimitRule, Quiet
<1>5. CASE DeleteIngressLimitRule(f)
  <2>1. TypeOK'
    BY Zenon, <1>5 DEF TypeOK, DeleteIngressLimitRule
  <2> QED
    BY <1>5, <2>1, UntouchedRows DEF DeleteIngressLimitRule, Quiet
<1> QED
  BY <1>1, <1>2, <1>3, <1>4, <1>5

\* Committing a transaction that continues the tables as they are.
LEMMA CommitQuiet ==
    ASSUME TypeOK, NEW t, Continues(Tx, t), Commit(t)
    PROVE  Quiet /\ Undisturbed
<1>1. TypeOK'
  BY ZenonT(30) DEF TypeOK, Continues, TxOK, Commit
<1>2. Rows
  BY ZenonT(30) DEF Rows, Continues, Tx, Commit, Settles
<1>3. Undisturbed
  BY ZenonT(30) DEF Undisturbed, Continues, Tx, Commit
<1> QED
  BY <1>1, <1>2, <1>3 DEF Quiet, Commit

\* A transaction begins with the tables as they are.
LEMMA TxBegins ==
    ASSUME TypeOK
    PROVE  /\ Tx \in TxOK /\ Tx.issued = issued
           /\ now \in Nat /\ issued \in Nat /\ MaxJobs \in Nat
<1>1. Tx \in TxOK /\ Tx.issued = issued
  <2>1. /\ issued \in 0..MaxJobs /\ jobs \in [JobId -> Job \cup {Nil}]
        /\ receipts \in [Slot -> Receipt \cup {Nil}]
        /\ ingressBuckets \in [Facet -> Bucket \cup {Nil}]
        /\ chains \in [JobId \cup Trace -> Nat]
    BY Zenon DEF TypeOK
  <2> QED
    BY <2>1 DEF Tx, TxOK
<1>2. now \in 0..MaxTime /\ issued \in 0..MaxJobs
  BY Zenon DEF TypeOK
<1> QED
  BY <1>1, <1>2, BoundAssumption

\* AddJob, accepted, replayed or rejected, leaves every existing job alone.
LEMMA AddJobQuiet ==
    ASSUME TypeOK, NEW raw \in RawRequest, AddJob(raw)
    PROVE  Quiet /\ Undisturbed
<1>1. Prepared(raw) \in Request
  BY PreparedType
<1>2. Tx \in TxOK /\ Tx.issued < MaxJobs /\ now \in Nat
  BY Zenon, TxBegins DEF AddJob
<1>3. Verdict(Tx, Prepared(raw)) = "inserted"
        => Continues(Tx, Inserted(Tx, Prepared(raw)))
  BY Zenon, <1>1, <1>2, EnqueueOneContinues DEF TypeOK
<1> QED
  BY Zenon, <1>3, CommitQuiet, RejectionQuiet DEF AddJob

\* A batch commits the transaction both requests went through, or none.
LEMMA AddJobBulkQuiet ==
    ASSUME TypeOK, NEW raw1 \in RawRequest, NEW raw2 \in RawRequest,
           AddJobBulk(raw1, raw2)
    PROVE  Quiet /\ Undisturbed
<1> DEFINE first == EnqueueOne(Tx, Prepared(raw1))
           both == EnqueueOne(first, Prepared(raw2))
<1>1. Prepared(raw1) \in Request /\ Prepared(raw2) \in Request
  BY PreparedType
<1>2. /\ Tx \in TxOK /\ Tx.issued + 2 <= MaxJobs /\ now \in Nat
      /\ Tx.issued \in Nat /\ MaxJobs \in Nat
  BY Zenon, TxBegins DEF AddJobBulk
<1>3. Continues(Tx, first) /\ first.issued <= Tx.issued + 1
  <2>1. Tx.issued < MaxJobs
    BY <1>2
  <2>2. /\ history \in [JobId -> Archived \cup {Nil}]
        /\ ingressRules \in [Facet -> RateRule \cup {Nil}]
    BY Zenon DEF TypeOK
  <2> QED
    BY Zenon, <1>1, <1>2, <2>1, <2>2, EnqueueOneContinues
<1>4. first \in TxOK /\ first.issued < MaxJobs /\ first.issued \in Nat
  <2>1. first \in TxOK /\ first.issued <= Tx.issued + 1
    BY Zenon, <1>3 DEF Continues
  <2> HIDE DEF first
  <2>2. first.issued \in Nat
    BY <2>1 DEF TxOK
  <2> QED
    BY <1>2, <2>1, <2>2
<1> HIDE DEF first
<1>5. Continues(first, both)
  <2>1. /\ history \in [JobId -> Archived \cup {Nil}]
        /\ ingressRules \in [Facet -> RateRule \cup {Nil}]
    BY Zenon DEF TypeOK
  <2> QED
    BY Zenon, <1>1, <1>2, <1>4, <2>1, EnqueueOneContinues
<1> HIDE DEF both
<1>6. Continues(Tx, both)
  <2>1. both \in TxOK /\ both.issued >= first.issued /\ first.issued >= Tx.issued
        /\ both.issued \in Nat
    <3>1. both \in TxOK /\ both.issued >= first.issued /\ first.issued >= Tx.issued
      BY Zenon, <1>3, <1>5 DEF Continues
    <3>2. both.issued \in 0..MaxJobs
      BY Zenon, <3>1 DEF TxOK
    <3> QED
      BY <1>2, <3>1, <3>2
  <2>2. \A i \in JobId : i \in Nat
    BY DEF JobId
  <2>3. ASSUME NEW i \in JobId
        PROVE  IF Tx.issued < i /\ i <= both.issued THEN Fresh(both.jobs[i])
               ELSE both.jobs[i] = Tx.jobs[i]
    BY SMTT(60), <1>2, <1>3, <1>4, <1>5, <2>1, <2>2 DEF Continues
  <2> QED
    <3>1. both.issued >= Tx.issued
      <4>1. first.issued \in Nat /\ Tx.issued \in Nat
        BY Zenon, <1>2, <1>4
      <4> QED
        BY <2>1, <4>1
    <3> QED
      BY Zenon, <2>1, <2>3, <3>1 DEF Continues
<1> QED
  BY Zenon, <1>6, CommitQuiet, RejectionQuiet DEF AddJobBulk, first, both

\* AddFlow and AddFlowBulk only add fresh, unclaimed rows.
LEMMA AddFlowQuiet ==
    ASSUME TypeOK, NEW f \in Seq(Node), WellFormed(f), Counted(f), AddFlow(f)
    PROVE  Quiet /\ Undisturbed
<1> DEFINE row == [k \in DOMAIN f |-> FlowJob(f, k, Nil, issued + f[k].root, 0)]
<1>1. /\ TypeOK /\ DOMAIN f = 1..Len(f) /\ Len(f) \in Nat /\ issued \in Nat
      /\ issued + Len(f) <= MaxJobs /\ MaxJobs \in Nat
      /\ \A i \in JobId : i \in Nat
  <2>1. issued + Len(f) <= MaxJobs
    BY Zenon DEF AddFlow
  <2>2. issued \in 0..MaxJobs
    BY Zenon DEF TypeOK
  <2>3. MaxJobs \in Nat /\ \A i \in JobId : i \in Nat
    BY BoundAssumption DEF JobId
  <2> QED
    BY <2>1, <2>2, <2>3
<1>2. ASSUME NEW k \in DOMAIN f
      PROVE  Fresh(row[k]) /\ FlowReceipt(row[k], issued + k) \in Receipt
  <2>1. f[k].root \in DOMAIN f
    BY Zenon DEF WellFormed, Roots
  <2>2. issued + f[k].root \in JobId
    BY <1>1, <2>1 DEF JobId
  <2> QED
    BY Zenon, <1>1, <2>2, FlowJobFresh
<1> HIDE DEF row
<1>3. /\ issued' = issued + Len(f)
      /\ jobs' = [i \in JobId |->
                    IF i - issued \in DOMAIN f THEN row[i - issued] ELSE jobs[i]]
      /\ receipts' = ReceiptsWith(f, row)
      /\ UNCHANGED <<now, history, limits, dispatch, chains, rejections, claims, acks>>
  BY Zenon DEF AddFlow, row
<1>4. TypeOK'
  <2>1. jobs' \in [JobId -> Job \cup {Nil}]
    <3>1. jobs \in [JobId -> Job \cup {Nil}]
      BY Zenon, <1>1 DEF TypeOK
    <3>2. \A k \in DOMAIN f : row[k] \in Job
      BY Zenon, <1>2 DEF Fresh
    <3> QED
      BY Zenon, <1>3, <3>1, <3>2
  <2>2. receipts' \in [Slot -> Receipt \cup {Nil}]
    BY Zenon, <1>1, <1>2, <1>3, FlowReceiptsType
  <2>3. issued' \in 0..MaxJobs
    <3>1. issued' = issued + Len(f)
      BY Zenon, <1>3
    <3>2. issued + Len(f) <= MaxJobs /\ issued \in Nat /\ Len(f) \in Nat /\ MaxJobs \in Nat
      BY Zenon, <1>1
    <3> QED
      BY <3>1, <3>2
  <2>4. history' \in [JobId -> Archived \cup {Nil}] /\ acks' \subseteq Ack
    BY Zenon, <1>1, <1>3 DEF TypeOK
  <2> QED
    BY Zenon, <1>1, <1>3, <2>1, <2>2, <2>3, <2>4, OtherTablesTyped
<1>5. Rows /\ Undisturbed
  <2>1. ASSUME NEW i \in JobId
        PROVE  i - issued \in DOMAIN f <=> issued < i /\ i <= issued'
    <3>1. issued' = issued + Len(f)
      BY Zenon, <1>3
    <3>2. DOMAIN f = 1..Len(f) /\ Len(f) \in Nat /\ issued \in Nat /\ i \in Nat
      BY Zenon, <1>1
    <3> QED
      BY <3>1, <3>2
  <2>2. ASSUME NEW i \in JobId
        PROVE  jobs'[i] = IF issued < i /\ i <= issued' THEN row[i - issued] ELSE jobs[i]
    BY Zenon, <1>3, <2>1
  <2>3. Rows
    <3>1. issued' >= issued
      <4>1. issued' = issued + Len(f) /\ Len(f) \in Nat /\ issued \in Nat
        BY Zenon, <1>1, <1>3
      <4> QED
        BY <4>1
    <3> QED
      BY Zenon, <1>2, <1>3, <2>1, <2>2, <3>1 DEF Rows, Settles
  <2>4. Undisturbed
    BY Zenon, <1>3, <2>2 DEF Undisturbed
  <2> QED
    BY Zenon, <2>3, <2>4
<1> QED
  BY Zenon, <1>3, <1>4, <1>5 DEF Quiet

\* AddFlowMerge adds fresh rows and re-gates a target that is not Active.
LEMMA AddFlowMergeQuiet ==
    ASSUME Tables, NEW s \in Slot, NEW f \in Seq(Node), WellFormed(f), Counted(f),
           AddFlowMerge(s, f)
    PROVE  Quiet /\ Undisturbed
<1> DEFINE target == receipts[s].job
           old == jobs[target]
           tree == IF old.link.tree = Nil THEN target ELSE old.link.tree
           row == [k \in DOMAIN f |->
                     FlowJob(f, k, target, tree, old.link.treeDepth + 1)]
           regated == [old EXCEPT !.link.tree = tree,
                                  !.pending = @ + Cardinality(Roots(f)),
                                  !.state = "WaitingChildren"]
<1>1. /\ TypeOK /\ DOMAIN f = 1..Len(f) /\ Len(f) \in Nat /\ issued \in Nat
      /\ issued + Len(f) <= MaxJobs /\ MaxJobs \in Nat
      /\ \A i \in JobId : i \in Nat
  <2>1. issued + Len(f) <= MaxJobs
    BY ZenonT(60) DEF AddFlowMerge
  <2> QED
    <3>1. TypeOK
      BY Zenon DEF Tables
    <3> QED
      BY <2>1, <3>1, TxBegins DEF JobId
<1>2. /\ receipts[s] \in Receipt /\ target \in JobId /\ Live(target)
      /\ old \in Job /\ old.state # "Active" /\ target <= issued
  <2>1. receipts[s] # Nil /\ Live(target) /\ old.state # "Active"
    BY ZenonT(60) DEF AddFlowMerge
  <2>2. receipts[s] \in Receipt /\ target \in JobId
    <3>1. receipts[s] \in Receipt
      BY Zenon, <1>1, <2>1 DEF TypeOK
    <3> QED
      BY Zenon, <3>1 DEF Receipt
  <2> QED
    BY Zenon, <1>1, <2>1, <2>2 DEF TypeOK, Live, Tables
<1>3. /\ issued' = issued + Len(f)
      /\ jobs' = [i \in JobId |->
                    IF i = target THEN regated
                    ELSE IF i - issued \in DOMAIN f THEN row[i - issued]
                    ELSE jobs[i]]
      /\ receipts' = ReceiptsWith(f, row)
      /\ UNCHANGED <<now, history, limits, dispatch, chains, rejections, claims, acks>>
  BY Zenon DEF AddFlowMerge
<1> HIDE DEF target, old, tree, row, regated
<1>3a. issued' = issued + Len(f) /\ history' = history /\ claims' = claims
  BY Zenon, <1>3
<1>3b. ASSUME NEW i \in JobId
       PROVE  jobs'[i] = IF i = target THEN regated
                         ELSE IF i - issued \in DOMAIN f THEN row[i - issued]
                         ELSE jobs[i]
  BY Zenon, <1>3
<1>4. tree \in JobId /\ old.link \in Link /\ old.link.treeDepth + 1 \in Nat
      /\ old.pending \in Int
  <2>1. old.link \in Link /\ old.pending \in Int
    BY <1>2 DEF Job
  <2> QED
    <3>1. old.link.tree \in JobId \cup {Nil} /\ old.link.treeDepth \in Nat
      BY Zenon, <2>1 DEF Link
    <3>2. old.link.treeDepth + 1 \in Nat
      BY <3>1
    <3> QED
      BY Zenon, <1>2, <2>1, <3>1, <3>2 DEF tree
<1>5. Cardinality(Roots(f)) \in Nat
  BY Zenon DEF Roots, Counted
<1>6. /\ regated \in Job
      /\ regated.opts = old.opts /\ regated.worker = old.worker
      /\ regated.attempts = old.attempts /\ regated.lease = old.lease
      /\ regated.state = "WaitingChildren"
      /\ SameLineage(regated.link, old.link)
      /\ regated.link.failParent = old.link.failParent
  <2> DEFINE link == [old.link EXCEPT !.tree = tree]
             pending == old.pending + Cardinality(Roots(f))
  <2>1. link \in Link /\ pending \in Int
    BY SMTT(60), <1>4, <1>5 DEF Link
  <2>1a. SameLineage(link, old.link) /\ link.failParent = old.link.failParent
    BY Zenon, <1>4 DEF Link, SameLineage
  <2>2. regated = [old EXCEPT !.link = link, !.pending = pending,
                              !.state = "WaitingChildren"]
    BY <1>2 DEF Job, regated
  <2> HIDE DEF link, pending
  <2> QED
    BY Zenon, <1>2, <2>1, <2>1a, <2>2 DEF Job, LiveState
<1>7. ASSUME NEW k \in DOMAIN f
      PROVE  Fresh(row[k]) /\ FlowReceipt(row[k], issued + k) \in Receipt
  BY ZenonT(60), <1>1, <1>2, <1>3, <1>4, FlowJobFresh DEF row
<1>8. TypeOK'
  <2>1. jobs' \in [JobId -> Job \cup {Nil}]
    <3>1. jobs \in [JobId -> Job \cup {Nil}]
      BY Zenon, <1>1 DEF TypeOK
    <3>2. \A k \in DOMAIN f : row[k] \in Job
      BY Zenon, <1>7 DEF Fresh
    <3> QED
      BY Zenon, <1>3, <1>6, <3>1, <3>2
  <2>2. receipts' \in [Slot -> Receipt \cup {Nil}]
    <3>1. receipts' = ReceiptsWith(f, row)
      BY Zenon, <1>3
    <3>2. ReceiptsWith(f, row) \in [Slot -> Receipt \cup {Nil}]
      BY Zenon, <1>1, <1>7, FlowReceiptsType
    <3> QED
      BY Zenon, <3>1, <3>2
  <2>3. issued' \in 0..MaxJobs
    <3>1. /\ issued' = issued + Len(f) /\ issued + Len(f) <= MaxJobs
          /\ issued \in Nat /\ Len(f) \in Nat /\ MaxJobs \in Nat
      BY Zenon, <1>1, <1>3
    <3> QED
      BY <3>1
  <2>4. history' \in [JobId -> Archived \cup {Nil}] /\ acks' \subseteq Ack
    BY Zenon, <1>1, <1>3 DEF TypeOK
  <2> QED
    BY Zenon, <1>1, <1>3, <2>1, <2>2, <2>3, <2>4, OtherTablesTyped
<1>9. Rows /\ Undisturbed
  <2>1. ASSUME NEW i \in JobId
        PROVE  i - issued \in DOMAIN f <=> issued < i /\ i <= issued'
    <3>1. issued' = issued + Len(f)
      BY <1>3a
    <3>2. DOMAIN f = 1..Len(f) /\ Len(f) \in Nat /\ issued \in Nat /\ i \in Nat
      BY Zenon, <1>1
    <3> QED
      BY <3>1, <3>2
  <2>2. ASSUME NEW i \in JobId, i = target
        PROVE  Kept(i) /\ i <= issued
    <3>1. jobs'[i] = regated /\ history' = history /\ old = jobs[i]
      <4>1. jobs'[i] = regated
        BY Zenon, <1>3b, <2>2
      <4>2. history' = history
        BY <1>3a
      <4>3. old = jobs[i]
        BY Zenon, <2>2 DEF old
      <4> QED
        BY Zenon, <4>1, <4>2, <4>3
    <3>2. jobs[i].state # "Active" /\ jobs[i] \in Job
      BY Zenon, <1>2, <3>1
    <3>3. regated # Nil /\ regated.state # "Active"
      <4>1. "WaitingChildren" # "Active"
        OBVIOUS
      <4> QED
        BY Zenon, <1>6, <4>1, RowsNotNil
    <3> QED
      BY Zenon, <1>2, <1>6, <2>2, <3>1, <3>2, <3>3, RowsNotNil DEF Kept, Live
  <2>3. ASSUME NEW i \in JobId, i # target
        PROVE  IF issued < i /\ i <= issued'
               THEN Fresh(jobs'[i]) /\ history'[i] = history[i]
               ELSE Settles(i)
    <3>1. CASE i - issued \in DOMAIN f
      <4>1. jobs'[i] = row[i - issued]
        BY Zenon, <1>3b, <2>3, <3>1
      <4>2. Fresh(jobs'[i])
        BY Zenon, <1>7, <3>1, <4>1
      <4> QED
        BY Zenon, <1>3a, <2>1, <3>1, <4>2
    <3>2. CASE i - issued \notin DOMAIN f
      <4>1. jobs'[i] = jobs[i]
        BY Zenon, <1>3b, <2>3, <3>2
      <4> QED
        BY Zenon, <1>3a, <2>1, <3>2, <4>1 DEF Settles
    <3> QED
      BY Zenon, <3>1, <3>2
  <2>4. Rows
    <3>1. \A i \in JobId : IF issued < i /\ i <= issued'
                            THEN Fresh(jobs'[i]) /\ history'[i] = history[i]
                            ELSE Settles(i)
      <4>1. ASSUME NEW i \in JobId, i = target
            PROVE  ~(issued < i) /\ Settles(i)
        <5>1. Kept(i) /\ i <= issued
          BY Zenon, <2>2, <4>1
        <5>2. ~(issued < i)
          BY <1>1, <5>1
        <5> QED
          BY Zenon, <5>1, <5>2 DEF Settles
      <4> QED
        BY Zenon, <2>3, <4>1
    <3> QED
      <4>1. issued' >= issued
        BY <1>1, <1>3a
      <4> QED
        BY Zenon, <1>3a, <3>1, <4>1 DEF Rows
  <2>5. ASSUME NEW i \in JobId, ~(issued < i /\ i <= issued'), i # target
        PROVE  jobs'[i] = jobs[i]
    BY Zenon, <1>3b, <2>1, <2>5
  <2>6. Undisturbed
    BY Zenon, <1>3a, <2>2, <2>5 DEF Undisturbed
  <2> QED
    BY <2>4, <2>6
<1> QED
  BY Zenon, <1>3, <1>8, <1>9 DEF Quiet
-----------------------------------------------------------------------------
(***************************************************************************)
(* Every step keeps the invariant                                          *)
(***************************************************************************)

\* Fan-outs and roots of the forests are counted by natural numbers.
ForestsCounted == \A f \in Seq(Node) : Counted(f)

\* Every enqueue only adds fresh rows, and re-gates a resting one in a merge.
LEMMA EnqueuesQuiet ==
    ASSUME ForestsCounted, Tables, Enqueues
    PROVE  Quiet /\ Undisturbed
<1>1. ASSUME NEW r \in JobRequests, AddJob(r)
      PROVE  Quiet /\ Undisturbed
  BY <1>1, RequestAssumption, AddJobQuiet DEF Tables
<1>2. ASSUME NEW b \in BulkRequests, AddJobBulk(b[1], b[2])
      PROVE  Quiet /\ Undisturbed
  <2>1. b[1] \in RawRequest /\ b[2] \in RawRequest
    BY RequestAssumption
  <2> QED
    BY <1>2, <2>1, AddJobBulkQuiet DEF Tables
<1>3. ASSUME NEW f \in Forests, AddFlow(f)
      PROVE  Quiet /\ Undisturbed
  BY <1>3, RequestAssumption, AddFlowQuiet DEF ForestsCounted, Tables
<1>4. ASSUME NEW s \in Slot, NEW f \in MergeForests, AddFlowMerge(s, f)
      PROVE  Quiet /\ Undisturbed
  BY Zenon, <1>4, RequestAssumption, AddFlowMergeQuiet DEF ForestsCounted
<1> QED
  BY <1>1, <1>2, <1>3, <1>4 DEF Enqueues

\* What a step does to the rows, the claims and the answers: nothing is said, one
\* claim is answered, a completion is replayed, or one is granted.
LEMMA StepRows ==
    ASSUME ForestsCounted, Tables, [Next]_vars
    PROVE  /\ TypeOK'
           /\ \/ Rows /\ acks' = acks
              \/ Rows /\ \E i \in JobId : Answers(i)
              \/ Rows /\ \E i \in JobId, w \in Worker, a \in Nat : ReplayCompletion(i, w, a)
              \/ \E i \in JobId, w \in Worker : ClaimStep(i, w)
<1>1. TypeOK
  BY DEF Tables
<1>2. Quiet => TypeOK' /\ Rows /\ acks' = acks
  BY DEF Quiet
<1>3. CASE Enqueues
  BY Zenon, <1>2, <1>3, EnqueuesQuiet
<1>4. CASE Requests
  <2>1. PICK i \in JobId, w \in Worker :
          \/ \E names \in Polls : GetNextJob(w, names, i)
          \/ \E a \in RequestAttempts :
                \/ RenewLease(i, w, a)
                \/ \E r \in Result \cup {Nil} : CompleteJob(i, w, a, r)
                \/ ReplayCompletion(i, w, a)
                \/ \E final \in BOOLEAN : FailJob(i, w, a, final)
    BY Zenon, <1>4 DEF Requests
  <2>2. ASSUME NEW names \in Polls, GetNextJob(w, names, i)
        PROVE  TypeOK' /\ ClaimStep(i, w)
    BY Zenon, <2>2, GetNextJobClaims DEF ClaimStep
  <2>3. ASSUME NEW a \in RequestAttempts, RenewLease(i, w, a)
        PROVE  Quiet
    BY <1>1, <2>3, RequestAssumption, RenewLeaseQuiet
  <2>4. ASSUME NEW a \in RequestAttempts, NEW r \in Result \cup {Nil}, CompleteJob(i, w, a, r)
        PROVE  TypeOK' /\ Rows /\ Answers(i)
    <3>1. a \in Nat
      BY RequestAssumption
    <3> QED
      BY Zenon, <1>1, <2>4, <3>1, CompleteJobRows DEF Answers
  <2>5. ASSUME NEW a \in RequestAttempts, ReplayCompletion(i, w, a)
        PROVE  TypeOK' /\ Rows /\ a \in Nat
    <3>1. a \in Nat
      BY RequestAssumption
    <3> QED
      BY Zenon, <1>1, <2>5, <3>1, ReplayRows
  <2>6. ASSUME NEW a \in RequestAttempts, RetryJob(i, w, a)
        PROVE  TypeOK' /\ Rows /\ Answers(i)
    <3>1. a \in Nat
      BY RequestAssumption
    <3> QED
      BY Zenon, <1>1, <2>6, <3>1, RetryJobRows DEF Answers
  <2>7. ASSUME NEW a \in RequestAttempts, NEW final \in BOOLEAN, FailForGood(i, w, a, final)
        PROVE  TypeOK' /\ Rows /\ Answers(i)
    <3>1. a \in Nat
      BY RequestAssumption
    <3>2. TypeOK' /\ Rows /\ FailsWith(i, FailedWith(i))
      BY Zenon, <1>1, <2>7, <3>1, FailForGoodRows
    <3>3. FailedWith(i) \in SUBSET JobId
      BY DEF FailedWith
    <3> QED
      BY Zenon, <3>2, <3>3 DEF Answers
  <2> QED
    BY Zenon, <1>2, <2>1, <2>2, <2>3, <2>4, <2>5, <2>6, <2>7 DEF FailJob
<1>5. CASE Operator
  BY Zenon, <1>1, <1>2, <1>5, OperatorQuiet
<1>6. CASE Recovery
  BY Zenon, <1>1, <1>2, <1>6, RecoverExpiredQuiet DEF Recovery
<1>7. CASE Tick \/ ClockStepsBack
  BY Zenon, <1>1, <1>2, <1>7, ClockQuiet
<1>8. CASE UNCHANGED vars
  <2>1. TypeOK'
    BY Zenon, <1>1, <1>8 DEF TypeOK, vars
  <2> QED
    BY Zenon, <1>1, <1>8, <2>1, UntouchedRows DEF vars
<1> QED
  BY Zenon, <1>3, <1>4, <1>5, <1>6, <1>7, <1>8 DEF Next

\* Every step keeps the invariant, and none but GetNextJob changes a claim.
LEMMA StepKeepsInvariant ==
    ASSUME ForestsCounted, IInv, [Next]_vars
    PROVE  IInv' /\ (Rows \/ \E i \in JobId, w \in Worker : ClaimStep(i, w))
<1>1. /\ TypeOK'
      /\ \/ Rows /\ acks' = acks
         \/ Rows /\ \E i \in JobId : Answers(i)
         \/ Rows /\ \E i \in JobId, w \in Worker, a \in Nat : ReplayCompletion(i, w, a)
         \/ \E i \in JobId, w \in Worker : ClaimStep(i, w)
  BY Zenon, InvariantTables, StepRows
<1>2. CASE Rows /\ acks' = acks
  BY Zenon, <1>1, <1>2, QuietKeepsInvariant DEF Quiet
<1>3. ASSUME Rows, NEW i \in JobId, Answers(i)
      PROVE  IInv'
  BY Zenon, <1>1, <1>3, AnswersKeepInvariant
<1>4. ASSUME Rows, NEW i \in JobId, NEW w \in Worker, NEW a \in Nat, ReplayCompletion(i, w, a)
      PROVE  IInv'
  BY Zenon, <1>4, ReplayKeepsInvariant
<1>5. ASSUME NEW i \in JobId, NEW w \in Worker, ClaimStep(i, w)
      PROVE  IInv'
  BY Zenon, <1>5, ClaimKeepsInvariant
<1> QED
  BY Zenon, <1>1, <1>2, <1>3, <1>4, <1>5

\* No step rewrites the history row of a finished job.
LEMMA StepKeepsOutcomes ==
    ASSUME ForestsCounted, IInv, [Next]_vars, NEW i \in JobId, Finished(i)
    PROVE  history'[i] = history[i]
<1>1. ~Live(i)
  BY Zenon DEF IInv, NoJobLost
<1>2. CASE Rows
  BY Zenon, <1>1, <1>2 DEF Rows, Settles, Kept, Requeued, Ended, Active
<1>3. ASSUME NEW j \in JobId, NEW w \in Worker, ClaimStep(j, w)
      PROVE  history'[i] = history[i]
  BY Zenon, <1>3 DEF ClaimStep
<1> QED
  BY Zenon, <1>2, <1>3, StepKeepsInvariant
=============================================================================
