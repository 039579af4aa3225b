--------------------------- MODULE RetentionSteps ---------------------------
(***************************************************************************)
(* What the sweeper may take from the tables while the broker runs, and    *)
(* what it leaves.                                                         *)
(***************************************************************************)
EXTENDS Retention, SlotSteps
-----------------------------------------------------------------------------
(***************************************************************************)
(* The tables and what is remembered of them                               *)
(***************************************************************************)

RetentionTypeOK ==
    /\ config \in Configs /\ ValidConfig(config)
    /\ touched \in [JobId \cup Trace -> Nat]
    /\ served \in [Facet \cup {Nil} -> Nat]
    /\ origin \in [JobId -> Job \cup {Nil}]
    /\ ended \in [JobId -> Archived \cup {Nil}]

\* Every issued job is live or has ended, never both, and what is left of it has
\* the options and the lineage it was inserted with.
Remembered(i) ==
    /\ origin[i] # Nil <=> i <= issued
    /\ i <= issued => Live(i) \/ ended[i] # Nil
    /\ Live(i) => /\ i <= issued /\ ended[i] = Nil
                  /\ jobs[i].opts = origin[i].opts
                  /\ SameLineage(jobs[i].link, origin[i].link)
    /\ ended[i] # Nil => /\ i <= issued
                         /\ ended[i].opts = origin[i].opts
                         /\ SameLineage(ended[i].link, origin[i].link)
    /\ Finished(i) => ended[i] = history[i]

\* The inductive invariant that the sweeper's properties rest on.
RInv == TypeOK /\ RetentionTypeOK /\ \A i \in JobId : Remembered(i)

\* How a step of the broker treats job i.
Treats(i) ==
    IF issued < i /\ i <= issued'
    THEN Live(i)' /\ history'[i] = history[i]
    ELSE \/ jobs'[i] = jobs[i] /\ history'[i] = history[i]
         \/ /\ Live(i) /\ Live(i)' /\ history'[i] = history[i]
            /\ jobs'[i].opts = jobs[i].opts
            /\ SameLineage(jobs'[i].link, jobs[i].link)
         \/ /\ Live(i) /\ ~Live(i)' /\ Finished(i)'
            /\ history'[i].opts = jobs[i].opts
            /\ SameLineage(history'[i].link, jobs[i].link)

\* The clock, the id counter and the ids are naturals.
LEMMA CountersTyped ==
    RInv => now \in Nat /\ issued \in Nat /\ \A i \in JobId : i \in Nat
<1>1. ASSUME RInv
      PROVE  now \in 0..MaxTime /\ issued \in 0..MaxJobs
  BY Zenon, <1>1 DEF RInv, TypeOK
<1> QED
  BY <1>1 DEF JobId

\* The clock and the id counter stay naturals across a step.
LEMMA CountersTypedNext ==
    RInv' => now' \in Nat /\ issued' \in Nat
<1>1. ASSUME RInv'
      PROVE  now' \in 0..MaxTime /\ issued' \in 0..MaxJobs
  BY Zenon, <1>1 DEF RInv, TypeOK
<1> QED
  BY <1>1

\* The handlers find the tables as they need them.
LEMMA RInvTables == RInv => Tables
BY Zenon DEF RInv, Tables, Remembered

\* Every handler inserts new jobs, keeps a job where it is, or archives it.
LEMMA StepTreats ==
    ASSUME ForestsCounted, Tables, [Next]_vars
    PROVE  TypeOK' /\ issued' >= issued /\ \A i \in JobId : Treats(i)
<1>1. TypeOK' /\ (Rows \/ \E i \in JobId, w \in Worker : ClaimStep(i, w))
  BY Zenon, StepRows
<1>2. ASSUME Rows
      PROVE  issued' >= issued /\ \A i \in JobId : Treats(i)
  <2>1. ASSUME NEW i \in JobId, issued < i /\ i <= issued'
        PROVE  Treats(i)
    <3>1. Fresh(jobs'[i]) /\ history'[i] = history[i]
      BY Zenon, <1>2, <2>1 DEF Rows
    <3>2. Live(i)'
      BY Zenon, <3>1, RowsNotNil DEF Fresh, Live
    <3> QED
      BY Zenon, <2>1, <3>1, <3>2 DEF Treats
  <2>2. ASSUME NEW i \in JobId, ~(issued < i /\ i <= issued')
        PROVE  Treats(i)
    <3>1. Settles(i)
      BY Zenon, <1>2, <2>2 DEF Rows
    <3>2. Requeued(i) => SameLineage(jobs'[i].link, jobs[i].link)
      BY Zenon DEF Requeued, SameLineage
    <3> QED
      BY Zenon, <2>2, <3>1, <3>2 DEF Treats, Settles, Kept, Requeued, Ended, Active
  <2> QED
    BY Zenon, <1>2, <2>1, <2>2 DEF Rows
<1>3. ASSUME NEW i \in JobId, NEW w \in Worker, ClaimStep(i, w)
      PROVE  issued' >= issued /\ \A j \in JobId : Treats(j)
  <2>1. issued' = issued /\ issued \in Nat /\ history' = history
    BY <1>3 DEF Tables, TypeOK, ClaimStep
  <2>2. ASSUME NEW j \in JobId
        PROVE  ~(issued < j /\ j <= issued')
    <3>1. j \in Nat
      BY DEF JobId
    <3> QED
      BY <2>1, <3>1
  <2>3. jobs'[i].opts = jobs[i].opts /\ jobs'[i].link = jobs[i].link /\ Live(i) /\ Live(i)'
    BY Zenon, <1>3 DEF ClaimStep, Active
  <2>4. \A j \in JobId : j # i => jobs'[j] = jobs[j]
    BY Zenon, <1>3 DEF ClaimStep
  <2>5. \A j \in JobId : Treats(j)
    BY Zenon, <2>1, <2>2, <2>3, <2>4 DEF Treats, SameLineage
  <2> QED
    BY <2>1, <2>5
<1> QED
  BY Zenon, <1>1, <1>2, <1>3

\* The broker's steps remember what they archive and what they insert.
LEMMA BrokerStepRemembers ==
    ASSUME ForestsCounted, RInv, Next, Stamps
    PROVE  RInv'
<1>0. TypeOK' /\ issued' >= issued /\ \A i \in JobId : Treats(i)
  BY Zenon, RInvTables, StepTreats
<1>1. /\ \A i \in JobId : origin'[i] = IF origin[i] = Nil THEN jobs'[i] ELSE origin[i]
      /\ \A i \in JobId : ended'[i] = IF history'[i] # Nil THEN history'[i] ELSE ended[i]
  BY Zenon DEF Stamps
<1>2. RetentionTypeOK'
  <2>1. /\ jobs' \in [JobId -> Job \cup {Nil}] /\ history' \in [JobId -> Archived \cup {Nil}]
        /\ now \in Nat
    BY <1>0 DEF RInv, TypeOK
  <2>2. origin' \in [JobId -> Job \cup {Nil}] /\ ended' \in [JobId -> Archived \cup {Nil}]
    BY Zenon, <2>1 DEF Stamps, RInv, RetentionTypeOK
  <2>3. touched' \in [JobId \cup Trace -> Nat] /\ served' \in [Facet \cup {Nil} -> Nat]
    BY Zenon, <2>1 DEF Stamps, Stamped, RInv, RetentionTypeOK
  <2>4. config' = config
    BY Zenon DEF Stamps
  <2> QED
    BY Zenon, <2>2, <2>3, <2>4 DEF RInv, RetentionTypeOK, ValidConfig
<1>3. ASSUME NEW i \in JobId
      PROVE  Remembered(i)'
  <2>1. /\ i \in Nat /\ issued \in Nat /\ issued' \in Nat /\ issued' >= issued
        /\ Remembered(i) /\ Treats(i)
    BY <1>0 DEF RInv, TypeOK, JobId
  <2>2. /\ origin'[i] = (IF origin[i] = Nil THEN jobs'[i] ELSE origin[i])
        /\ ended'[i] = (IF history'[i] # Nil THEN history'[i] ELSE ended[i])
    BY Zenon, <1>1
  <2>3. CASE i <= issued
    <3>1. i <= issued' /\ ~(issued < i /\ i <= issued')
      BY <2>1, <2>3
    <3>2. origin[i] # Nil /\ origin'[i] = origin[i]
      BY Zenon, <2>1, <2>2, <2>3 DEF Remembered
    <3>3. CASE jobs'[i] = jobs[i] /\ history'[i] = history[i]
      BY Zenon, <2>1, <2>2, <2>3, <3>1, <3>2, <3>3 DEF Remembered, Live, Finished
    <3>4. CASE /\ Live(i) /\ Live(i)' /\ history'[i] = history[i]
               /\ jobs'[i].opts = jobs[i].opts
               /\ SameLineage(jobs'[i].link, jobs[i].link)
      <4>1. ended[i] = Nil /\ ~Finished(i) /\ ended'[i] = Nil /\ ~Finished(i)'
        BY Zenon, <2>1, <2>2, <3>4 DEF Remembered, Finished
      <4>2. jobs'[i].opts = origin'[i].opts /\ SameLineage(jobs'[i].link, origin'[i].link)
        BY Zenon, <2>1, <3>2, <3>4 DEF Remembered, SameLineage
      <4> QED
        BY Zenon, <3>1, <3>2, <3>4, <4>1, <4>2 DEF Remembered
    <3>5. CASE /\ Live(i) /\ ~Live(i)' /\ Finished(i)'
               /\ history'[i].opts = jobs[i].opts
               /\ SameLineage(history'[i].link, jobs[i].link)
      <4>1. ended'[i] = history'[i] /\ ended'[i] # Nil
        BY Zenon, <2>2, <3>5 DEF Finished
      <4>2. ended'[i].opts = origin'[i].opts /\ SameLineage(ended'[i].link, origin'[i].link)
        BY Zenon, <2>1, <3>2, <3>5, <4>1 DEF Remembered, SameLineage
      <4> QED
        BY Zenon, <3>1, <3>2, <3>5, <4>1, <4>2 DEF Remembered
    <3> QED
      BY Zenon, <2>1, <3>1, <3>3, <3>4, <3>5 DEF Treats
  <2>4. CASE ~(i <= issued)
    <3>1. origin[i] = Nil /\ ~Live(i) /\ ended[i] = Nil /\ ~Finished(i)
      BY Zenon, <2>1, <2>4 DEF Remembered, Finished
    <3>2. origin'[i] = jobs'[i] /\ history'[i] = history[i] /\ ended'[i] = Nil
          /\ ~Finished(i)' /\ (Live(i)' <=> i <= issued')
      <4>1. CASE i <= issued'
        <5>1. issued < i
          BY <2>1, <2>4
        <5> QED
          BY Zenon, <2>1, <2>2, <3>1, <4>1, <5>1 DEF Treats, Finished
      <4>2. CASE ~(i <= issued')
        BY Zenon, <2>1, <2>2, <3>1, <4>2 DEF Treats, Finished, Live
      <4> QED
        BY Zenon, <4>1, <4>2
    <3> QED
      BY Zenon, <3>2 DEF Remembered, Live, SameLineage
  <2> QED
    BY Zenon, <2>3, <2>4
<1> QED
  BY Zenon, <1>0, <1>2, <1>3 DEF RInv

\* A sweep, row by row.
Swept(out) ==
    /\ TypeOK'
    /\ \A i \in JobId : history'[i] = IF i \in out.completed \cup out.failed THEN Nil
                                      ELSE history[i]
    /\ \A s \in Slot : receipts'[s] = IF s \in out.receipts THEN Nil ELSE receipts[s]
    /\ \A t \in JobId \cup Trace : chains'[t] = IF t \in out.chains THEN 0 ELSE chains[t]
    /\ \A f \in Facet \cup {Nil} : dispatch'[f] = IF f \in out.facets THEN 0 ELSE dispatch[f]
    /\ now' = now /\ issued' = issued /\ jobs' = jobs
    /\ config' = config /\ touched' = touched /\ served' = served
    /\ origin' = origin /\ ended' = ended

\* A sweep deletes rows and writes none.
LEMMA SweepRows ==
    ASSUME TypeOK, NEW out, Sweep(out)
    PROVE  Swept(out)
<1>1. /\ history \in [JobId -> Archived \cup {Nil}] /\ receipts \in [Slot -> Receipt \cup {Nil}]
      /\ chains \in [JobId \cup Trace -> Nat] /\ dispatch \in [Facet \cup {Nil} -> Nat]
      /\ Nil \in Archived \cup {Nil} /\ Nil \in Receipt \cup {Nil}
  BY Zenon DEF TypeOK
<1>2. 0 \in Nat
  OBVIOUS
<1> DEFINE h == Without(history, out.completed \cup out.failed, Nil)
           r == Without(receipts, out.receipts, Nil)
           c == Without(chains, out.chains, 0)
           d == Without(dispatch, out.facets, 0)
<1>3. /\ h \in [JobId -> Archived \cup {Nil}] /\ r \in [Slot -> Receipt \cup {Nil}]
      /\ c \in [JobId \cup Trace -> Nat] /\ d \in [Facet \cup {Nil} -> Nat]
      /\ \A i \in JobId : h[i] = IF i \in out.completed \cup out.failed THEN Nil ELSE history[i]
      /\ \A s \in Slot : r[s] = IF s \in out.receipts THEN Nil ELSE receipts[s]
      /\ \A t \in JobId \cup Trace : c[t] = IF t \in out.chains THEN 0 ELSE chains[t]
      /\ \A f \in Facet \cup {Nil} : d[f] = IF f \in out.facets THEN 0 ELSE dispatch[f]
  <2> HIDE DEF h, r, c, d
  <2>1. /\ h \in [JobId -> Archived \cup {Nil}]
        /\ \A i \in JobId : h[i] = IF i \in out.completed \cup out.failed THEN Nil ELSE history[i]
    BY Zenon, <1>1 DEF h, Without
  <2>2. /\ r \in [Slot -> Receipt \cup {Nil}]
        /\ \A s \in Slot : r[s] = IF s \in out.receipts THEN Nil ELSE receipts[s]
    BY Zenon, <1>1 DEF r, Without
  <2>3. /\ c \in [JobId \cup Trace -> Nat]
        /\ \A t \in JobId \cup Trace : c[t] = IF t \in out.chains THEN 0 ELSE chains[t]
    BY Zenon, <1>1, <1>2 DEF c, Without
  <2>4. /\ d \in [Facet \cup {Nil} -> Nat]
        /\ \A f \in Facet \cup {Nil} : d[f] = IF f \in out.facets THEN 0 ELSE dispatch[f]
    BY Zenon, <1>1, <1>2 DEF d, Without
  <2> QED
    BY Zenon, <2>1, <2>2, <2>3, <2>4
<1>4. /\ history' = h /\ receipts' = r /\ chains' = c /\ dispatch' = d
      /\ rejections' = rejections \ out.rejections
      /\ UNCHANGED <<now, issued, jobs, limits, claims, acks, retentionVars>>
  BY Zenon DEF Sweep
<1> HIDE DEF h, r, c, d
<1>5. /\ now' = now /\ issued' = issued /\ jobs' = jobs /\ claims' = claims /\ acks' = acks
      /\ rateRules' = rateRules /\ rateCounters' = rateCounters
      /\ ingressRules' = ingressRules /\ ingressBuckets' = ingressBuckets
      /\ config' = config /\ touched' = touched /\ served' = served
      /\ origin' = origin /\ ended' = ended
  BY Zenon, <1>4 DEF limits, retentionVars
<1>6. rejections' \subseteq [at: 0..MaxTime, kind: RejectionKind]
  BY Zenon, <1>4 DEF TypeOK
<1>7. TypeOK'
  BY Zenon, <1>3, <1>4, <1>5, <1>6 DEF TypeOK
<1> QED
  BY Zenon, <1>3, <1>4, <1>5, <1>7 DEF Swept

\* A sweep forgets rows, not what was remembered of them.
LEMMA SweepRemembers ==
    ASSUME RInv, NEW out, Swept(out)
    PROVE  RInv'
<1>1. RetentionTypeOK'
  BY Zenon DEF RInv, RetentionTypeOK, ValidConfig, Swept
<1>2. ASSUME NEW i \in JobId
      PROVE  Remembered(i)'
  <2>1. Remembered(i) /\ history'[i] \in {Nil, history[i]}
    BY Zenon DEF RInv, Swept
  <2>2. issued' = issued /\ jobs' = jobs /\ origin' = origin /\ ended' = ended
    BY Zenon DEF Swept
  <2> QED
    BY Zenon, <2>1, <2>2 DEF Remembered, Live, Finished
<1> QED
  BY Zenon, <1>1, <1>2 DEF RInv, Swept

\* A step that changes nothing keeps the invariant.
LEMMA StutterRemembers ==
    ASSUME RInv, UNCHANGED allVars
    PROVE  RInv'
<1>1. /\ now' = now /\ issued' = issued /\ jobs' = jobs /\ history' = history
      /\ receipts' = receipts /\ claims' = claims /\ acks' = acks
      /\ dispatch' = dispatch /\ chains' = chains /\ rejections' = rejections
      /\ rateRules' = rateRules /\ rateCounters' = rateCounters
      /\ ingressRules' = ingressRules /\ ingressBuckets' = ingressBuckets
      /\ config' = config /\ touched' = touched /\ served' = served
      /\ origin' = origin /\ ended' = ended
  BY Zenon DEF allVars, vars, retentionVars
<1>2. TypeOK'
  BY Zenon, <1>1 DEF RInv, TypeOK
<1>3. RetentionTypeOK'
  BY Zenon, <1>1 DEF RInv, RetentionTypeOK, ValidConfig
<1>4. \A i \in JobId : Remembered(i)'
  BY Zenon, <1>1 DEF RInv, Remembered, Live, Finished
<1> QED
  BY Zenon, <1>2, <1>3, <1>4 DEF RInv

\* The three kinds of step of the broker beside its sweeper, each with what it
\* does to the rows.
LEMMA EachStep ==
    ASSUME ForestsCounted, RInv, [RetentionNext]_allVars
    PROVE  /\ RInv'
           /\ \/ /\ Next /\ Stamps /\ issued' >= issued
                 /\ \A i \in JobId : Treats(i)
              \/ \E out \in SweepOutcomes : Swept(out)
              \/ UNCHANGED allVars
<1>1. CASE BrokerStep
  BY Zenon, <1>1, RInvTables, StepTreats, BrokerStepRemembers DEF BrokerStep
<1>2. CASE Sweeps
  BY Zenon, <1>2, SweepRows, SweepRemembers DEF Sweeps, RInv
<1>3. CASE UNCHANGED allVars
  BY Zenon, <1>3, StutterRemembers
<1> QED
  BY Zenon, <1>1, <1>2, <1>3 DEF RetentionNext

\* The broker and its sweeper start with every table empty.
LEMMA RetentionInitInvariant ==
    ASSUME RetentionInit
    PROVE  RInv
<1>1. TypeOK
  <2>1. 0 \in 0..MaxTime /\ 0 \in 0..MaxJobs
    BY BoundAssumption
  <2> QED
    BY <2>1 DEF RetentionInit, Init, TypeOK
<1>2. RetentionTypeOK
  BY DEF RetentionInit, RetentionTypeOK
<1>3. ASSUME NEW i \in JobId
      PROVE  Remembered(i)
  <2>1. /\ jobs[i] = Nil /\ history[i] = Nil /\ origin[i] = Nil /\ ended[i] = Nil
        /\ issued = 0
    BY Zenon DEF RetentionInit, Init
  <2>2. ~(i <= issued)
    BY <2>1 DEF JobId
  <2> QED
    BY Zenon, <2>1, <2>2 DEF Remembered, Live, Finished
<1> QED
  BY Zenon, <1>1, <1>2, <1>3 DEF RInv

-----------------------------------------------------------------------------
(***************************************************************************)
(* Order of dispatch                                                       *)
(***************************************************************************)

\* A step that moves neither the clock, the rotation nor the chain counters.
Steady == now' = now /\ dispatch' = dispatch /\ chains' = chains

\* Only the clock moves the clock, only a claim the rotation of the facets, and
\* only AddJob and AddJobBulk the chain counters.
LEMMA OnlyThese ==
    ASSUME Next
    PROVE  \/ Steady
           \/ dispatch' = dispatch /\ chains' = chains /\ UNCHANGED <<jobs, history>>
              /\ (now' = now + 1 \/ ClockMayStepBack)
           \/ /\ now' = now /\ chains' = chains
              /\ \E i \in JobId, w \in Worker, names \in Polls : GetNextJob(w, names, i)
           \/ /\ now' = now /\ dispatch' = dispatch
              /\ \/ \E r \in JobRequests : AddJob(r)
                 \/ \E b \in BulkRequests : AddJobBulk(b[1], b[2])
<1>1. CASE Enqueues
  <2>1. \A t : Commit(t) => now' = now /\ dispatch' = dispatch
    BY Zenon DEF Commit
  <2>2. \A kind : RecordRejection(kind) => now' = now /\ dispatch' = dispatch
    BY Zenon DEF RecordRejection
  <2>3. ASSUME NEW r \in JobRequests, AddJob(r)
        PROVE  now' = now /\ dispatch' = dispatch
    BY Zenon, <2>1, <2>2, <2>3 DEF AddJob
  <2>4. ASSUME NEW b \in BulkRequests, AddJobBulk(b[1], b[2])
        PROVE  now' = now /\ dispatch' = dispatch
    BY Zenon, <2>1, <2>2, <2>4 DEF AddJobBulk
  <2>5. ASSUME NEW f \in Forests, AddFlow(f)
        PROVE  Steady
    BY Zenon, <2>5 DEF AddFlow, Steady
  <2>6. ASSUME NEW s \in Slot, NEW f \in MergeForests, AddFlowMerge(s, f)
        PROVE  Steady
    BY Zenon, <2>6 DEF AddFlowMerge, Steady
  <2> QED
    BY Zenon, <1>1, <2>3, <2>4, <2>5, <2>6 DEF Enqueues
<1>2. CASE Requests
  <2>1. PICK i \in JobId, w \in Worker :
          \/ \E names \in Polls : GetNextJob(w, names, i)
          \/ \E a \in RequestAttempts :
                \/ RenewLease(i, w, a)
                \/ \E r \in Result \cup {Nil} : CompleteJob(i, w, a, r)
                \/ ReplayCompletion(i, w, a)
                \/ \E final \in BOOLEAN : FailJob(i, w, a, final)
    BY Zenon, <1>2 DEF Requests
  <2>2. \A names : GetNextJob(w, names, i) => now' = now /\ chains' = chains
    BY Zenon DEF GetNextJob
  <2>3. \A a : RenewLease(i, w, a) => Steady
    BY Zenon DEF RenewLease, Steady
  <2>4. \A a, r : CompleteJob(i, w, a, r) => Steady
    BY Zenon DEF CompleteJob, Steady
  <2>5. \A a : ReplayCompletion(i, w, a) => Steady
    BY Zenon DEF ReplayCompletion, Steady
  <2>6. \A a, final : FailJob(i, w, a, final) => Steady
    BY Zenon DEF FailJob, RetryJob, FailForGood, Steady
  <2> QED
    BY Zenon, <2>1, <2>2, <2>3, <2>4, <2>5, <2>6
<1>3. CASE Operator
  BY Zenon, <1>3 DEF Operator, UpsertRateLimitRule, DeleteRateLimitRule,
                     UpsertIngressLimitRule, DeleteIngressLimitRule, Steady
<1>4. CASE Recovery
  BY Zenon, <1>4 DEF Recovery, RecoverExpired, Steady
<1>5. CASE Tick \/ ClockStepsBack
  BY Zenon, <1>5 DEF Tick, ClockStepsBack
<1> QED
  BY Zenon, <1>1, <1>2, <1>3, <1>4, <1>5 DEF Next

\* The deletes of one sweep, each with what it selects from.
Deletes(out, ca, fa, cc, fc) ==
    LET h1 == Without(history, ca, Nil)
        h2 == Without(history, ca \cup fa, Nil)
        h3 == Without(history, ca \cup fa \cup cc, Nil)
        h4 == Without(history, ca \cup fa \cup cc \cup fc, Nil)
    IN  /\ ca \in PruneAge(history, "Completed", config.completedAge)
        /\ fa \in PruneAge(h1, "Failed", config.failedAge)
        /\ cc \in PruneCount(h2, "Completed", config.completedCount)
        /\ fc \in PruneCount(h3, "Failed", config.failedCount)
        /\ out.completed = ca \cup cc
        /\ out.failed = fa \cup fc
        /\ out.receipts \in PruneReceipts(h4)
        /\ out.chains \in PruneChainCounters
        /\ out.facets \in PruneFacetDispatch

\* The outcome of a sweep names the rows of its deletes.
LEMMA OutcomeDeletes ==
    ASSUME NEW out \in SweepOutcomes
    PROVE  \E ca, fa, cc, fc : Deletes(out, ca, fa, cc, fc)
<1> DEFINE R(ca, fa, cc, fc) ==
             LET h == Without(history, ca \cup fa \cup cc \cup fc, Nil)
             IN  [completed: {ca \cup cc}, failed: {fa \cup fc},
                  receipts: PruneReceipts(h), chains: PruneChainCounters,
                  facets: PruneFacetDispatch, rejections: PruneRejections]
           FC(ca, fa, cc) == PruneCount(Without(history, ca \cup fa \cup cc, Nil), "Failed",
                                        config.failedCount)
           CC(ca, fa) == PruneCount(Without(history, ca \cup fa, Nil), "Completed",
                                    config.completedCount)
           FA(ca) == PruneAge(Without(history, ca, Nil), "Failed", config.failedAge)
           CA == PruneAge(history, "Completed", config.completedAge)
<1>1. SweepOutcomes = UNION {UNION {UNION {UNION {R(ca, fa, cc, fc) : fc \in FC(ca, fa, cc)}
                                           : cc \in CC(ca, fa)} : fa \in FA(ca)} : ca \in CA}
  BY Zenon DEF SweepOutcomes
<1> HIDE DEF R, FC, CC, FA, CA
<1>2. PICK ca \in CA : out \in UNION {UNION {UNION {R(ca, fa, cc, fc) : fc \in FC(ca, fa, cc)}
                                             : cc \in CC(ca, fa)} : fa \in FA(ca)}
  BY Zenon, <1>1
<1>3. PICK fa \in FA(ca) : out \in UNION {UNION {R(ca, fa, cc, fc) : fc \in FC(ca, fa, cc)}
                                          : cc \in CC(ca, fa)}
  BY Zenon, <1>2
<1>4. PICK cc \in CC(ca, fa) : out \in UNION {R(ca, fa, cc, fc) : fc \in FC(ca, fa, cc)}
  BY Zenon, <1>3
<1>5. PICK fc \in FC(ca, fa, cc) : out \in R(ca, fa, cc, fc)
  BY Zenon, <1>4
<1>6. /\ out.completed = ca \cup cc /\ out.failed = fa \cup fc
      /\ out.receipts \in PruneReceipts(Without(history, ca \cup fa \cup cc \cup fc, Nil))
      /\ out.chains \in PruneChainCounters /\ out.facets \in PruneFacetDispatch
  BY Zenon, <1>5 DEF R
<1> QED
  BY Zenon, <1>6 DEF Deletes, CA, FA, CC, FC

\* A sweep forgets only facets that no live job waits for, so the jobs that wait
\* keep their order of dispatch.
LEMMA StepKeepsOrder ==
    ASSUME ForestsCounted, RInv, [RetentionNext]_allVars, jobs' = jobs,
           NEW i \in JobId, NEW j \in JobId, Live(i), Live(j)
    PROVE  Before(i, j)' <=> Before(i, j)
<1> DEFINE Kind(k) == dispatch'[jobs[k].opts.facet] = dispatch[jobs[k].opts.facet]
<1>1. Kind(i) /\ Kind(j)
  <2>1. CASE Next
    <3>1. ASSUME NEW k \in JobId, NEW w \in Worker, NEW names \in Polls, GetNextJob(w, names, k)
          PROVE  FALSE
      <4>1. Live(k) /\ jobs[k].state # "Active" /\ Active(k)'
        BY Zenon, <3>1, RInvTables, GetNextJobClaims DEF ClaimStep
      <4> QED
        BY Zenon, <4>1 DEF Active
    <3> QED
      BY Zenon, <2>1, <3>1, OnlyThese DEF Steady
  <2>2. ASSUME NEW out \in SweepOutcomes, Swept(out), NEW k \in JobId, Live(k)
        PROVE  Kind(k)
    <3>1. jobs[k].opts.facet \in Facet \cup {Nil}
      BY Zenon, <2>2 DEF RInv, TypeOK, Live, Job, Opts
    <3>2. out.facets \in PruneFacetDispatch
      BY Zenon, OutcomeDeletes DEF Deletes
    <3>3. jobs[k].opts.facet \notin out.facets
      BY Zenon, <2>2, <3>2 DEF PruneFacetDispatch, Oldest, Limited
    <3> QED
      BY Zenon, <2>2, <3>1, <3>3 DEF Swept
  <2>3. CASE UNCHANGED allVars
    BY Zenon, <2>3 DEF allVars, vars
  <2> QED
    BY Zenon, <2>1, <2>2, <2>3, EachStep
<1> QED
  BY Zenon, <1>1 DEF Before

-----------------------------------------------------------------------------
(***************************************************************************)
(* The safety floor                                                        *)
(***************************************************************************)

\* With the count limits off, a job is gone only once it is past the floor.
Aged ==
    config.completedCount = 0 /\ config.failedCount = 0 =>
        \A i \in JobId : ended[i] # Nil /\ ~Finished(i) => ended[i].finished + MinAge < now

\* A clock that is never set back only advances.
LEMMA ClockAdvances ==
    ASSUME ~ClockMayStepBack, TypeOK, Next
    PROVE  now' >= now
<1>1. now' = now \/ now' = now + 1
  BY Zenon, OnlyThese DEF Steady
<1>2. now \in Nat
  BY DEF TypeOK
<1> QED
  BY <1>1, <1>2

\* Neither the sweeper nor a handler takes a job that is not past the floor, if
\* only age limits are on.
LEMMA StepKeepsAged ==
    ASSUME ForestsCounted, ~ClockMayStepBack, RInv, Aged, [RetentionNext]_allVars
    PROVE  Aged'
<1>1. CASE UNCHANGED allVars
  <2>1. config' = config /\ ended' = ended /\ history' = history /\ now' = now
    BY Zenon, <1>1 DEF allVars, vars, retentionVars
  <2> QED
    BY Zenon, <2>1 DEF Aged, Finished, MinAge
<1> SUFFICES ASSUME ~UNCHANGED allVars,
                    config'.completedCount = 0, config'.failedCount = 0,
                    NEW i \in JobId, (ended[i] # Nil)', ~Finished(i)'
             PROVE  (ended[i].finished + MinAge < now)'
  BY Zenon, <1>1 DEF Aged
<1>2. /\ MinAge' = MinAge /\ MinAge \in Nat /\ now \in Nat /\ now' \in Nat
      /\ \A j \in JobId : ended[j] # Nil => ended[j].finished \in Nat
  <2>1. MinAge' = MinAge /\ MinAge \in Nat
    BY LeaseAssumption DEF MinAge
  <2>2. now \in Nat /\ now' \in Nat
    BY Zenon, EachStep, CountersTyped, CountersTypedNext
  <2>3. ASSUME NEW j \in JobId, ended[j] # Nil
        PROVE  ended[j].finished \in Nat
    BY Zenon, <2>3 DEF RInv, RetentionTypeOK, Archived
  <2> QED
    BY Zenon, <2>1, <2>2, <2>3
<1>3. CASE Next /\ Stamps /\ \A j \in JobId : Treats(j)
  <2>1. config' = config /\ ended'[i] = ended[i]
    BY Zenon, <1>3 DEF Stamps, Finished
  <2>2. ~Finished(i)
    BY Zenon, <1>3 DEF Treats, Finished
  <2>3. ended[i].finished + MinAge < now /\ ended[i] # Nil
    BY Zenon, <2>1, <2>2 DEF Aged
  <2>4. now' >= now
    BY Zenon, <1>3, ClockAdvances DEF RInv
  <2>5. ended[i].finished \in Nat
    BY Zenon, <1>2, <2>3
  <2>6. ended[i].finished + MinAge < now'
    BY <1>2, <2>3, <2>4, <2>5
  <2> QED
    BY Zenon, <1>2, <2>1, <2>6
<1>4. ASSUME NEW out \in SweepOutcomes, Swept(out)
      PROVE  (ended[i].finished + MinAge < now)'
  <2>1. /\ config' = config /\ ended' = ended /\ now' = now /\ ended[i] # Nil
        /\ history'[i] = IF i \in out.completed \cup out.failed THEN Nil ELSE history[i]
    BY Zenon, <1>4 DEF Swept
  <2>2. ASSUME Finished(i)
        PROVE  ended[i].finished + MinAge < now
    <3>1. PICK ca, fa, cc, fc : Deletes(out, ca, fa, cc, fc)
      BY Zenon, OutcomeDeletes
    <3>2. cc = {} /\ fc = {}
      BY Zenon, <2>1, <3>1 DEF Deletes, PruneCount
    <3>3. i \in ca \cup fa /\ ended[i] = history[i]
      <4>1. i \in out.completed \cup out.failed
        BY Zenon, <2>1, <2>2 DEF Finished
      <4>2. Remembered(i)
        BY Zenon DEF RInv
      <4> QED
        BY Zenon, <2>2, <3>1, <3>2, <4>1, <4>2 DEF Deletes, Remembered
    <3>4. ASSUME NEW h, NEW st, NEW age \in Nat, age # 0 => age >= MinAge,
                 i \in UNION PruneAge(h, st, age), h[i] = history[i]
          PROVE  ended[i].finished + MinAge < now
      <4>1. age # 0 /\ h[i].finished < now - age
        BY Zenon, <3>4 DEF PruneAge, Oldest, Limited
      <4>2. ended[i].finished < now - age /\ ended[i].finished \in Nat
        BY Zenon, <1>2, <2>1, <3>3, <3>4, <4>1
      <4> QED
        BY <1>2, <3>4, <4>1, <4>2
    <3>5. /\ config.completedAge \in Nat /\ config.failedAge \in Nat
          /\ config.completedAge # 0 => config.completedAge >= MinAge
          /\ config.failedAge # 0 => config.failedAge >= MinAge
      BY Zenon, ConfigAssumption DEF RInv, RetentionTypeOK, ValidConfig, RetentionConfig
    <3>6. CASE i \in ca
      BY Zenon, <3>1, <3>4, <3>5, <3>6 DEF Deletes
    <3>7. CASE i \in fa
      <4> DEFINE h == Without(history, ca, Nil)
      <4>1. fa \in PruneAge(h, "Failed", config.failedAge)
        BY Zenon, <3>1 DEF Deletes
      <4>2. h[i] # Nil
        BY Zenon, <3>7, <4>1 DEF PruneAge, Oldest, Limited, InState
      <4>3. h[i] = history[i]
        <5>1. h[i] = IF i \in ca THEN Nil ELSE history[i]
          BY Zenon DEF Without, RInv, TypeOK
        <5> QED
          BY Zenon, <4>2, <5>1
      <4> HIDE DEF h
      <4> QED
        BY Zenon, <3>4, <3>5, <3>7, <4>1, <4>3
    <3> QED
      BY Zenon, <3>3, <3>6, <3>7
  <2>3. ended[i].finished + MinAge < now
    BY Zenon, <2>1, <2>2 DEF Aged
  <2> QED
    BY Zenon, <1>2, <2>1, <2>3
<1> QED
  BY Zenon, <1>3, <1>4, EachStep
-----------------------------------------------------------------------------
(***************************************************************************)
(* The newest rows                                                         *)
(***************************************************************************)

\* Sets of jobs are counted by natural numbers, a part is no larger than the
\* whole, and a proper part is smaller.
Counting ==
    /\ Cardinality({}) = 0
    /\ \A S \in SUBSET JobId :
          /\ Cardinality(S) \in Nat
          /\ \A T \in SUBSET S : /\ Cardinality(T) <= Cardinality(S)
                                 /\ Cardinality(T) = Cardinality(S) => T = S
          /\ \A i \in JobId \ S : Cardinality(S \cup {i}) = Cardinality(S) + 1

\* The rows of h that stand in for a row r that is gone: of the same name and
\* outcome, and no older.
StandIns(h, r) ==
    {j \in InState(h, r.state) : h[j].opts.name = r.opts.name /\ h[j].finished >= r.finished}

\* Pruning by count leaves enough rows to stand in for every row it takes and for
\* every row it took before.
LEMMA PruneCountKeeps ==
    ASSUME Counting, NEW h \in [JobId -> Archived \cup {Nil}], NEW state, NEW keep \in Nat,
           NEW B \in PruneCount(h, state, keep), NEW r \in Archived, r.state = state,
           \/ Cardinality(StandIns(h, r)) >= keep
           \/ \E i \in B : h[i] = r
    PROVE  Cardinality(StandIns(Without(h, B, Nil), r)) >= keep
<1> DEFINE g == Without(h, B, Nil)
           rows == InState(h, state)
           named(S, n) == {i \in S : h[i].opts.name = n}
           n0 == r.opts.name
<1>1. CASE keep = 0
  <2>1. StandIns(g, r) \in SUBSET JobId
    BY Zenon DEF StandIns, InState
  <2>2. Cardinality(StandIns(g, r)) \in Nat
    BY Zenon, <2>1 DEF Counting
  <2> HIDE DEF g
  <2>3. Cardinality(StandIns(g, r)) >= keep
    BY <1>1, <2>2
  <2> QED
    BY Zenon, <2>3 DEF g
<1>2. CASE keep # 0
  <2>1. PICK K \in SUBSET rows :
          /\ \A n \in Queue :
                /\ Cardinality(named(K, n)) = Least(keep, Cardinality(named(rows, n)))
                /\ \A i \in named(K, n), j \in named(rows \ K, n) :
                      h[i].finished >= h[j].finished
          /\ B \in Limited(rows \ K)
    BY Zenon, <1>2 DEF PruneCount
  <2>2. B \subseteq rows \ K /\ rows \subseteq JobId /\ K \subseteq JobId
    BY Zenon, <2>1 DEF Limited, InState
  <2>3. n0 \in Queue
    BY Zenon DEF Archived, Opts
  <2>4. \A j \in JobId : g[j] = IF j \in B THEN Nil ELSE h[j]
    BY Zenon DEF Without
  <2>5. StandIns(g, r) = StandIns(h, r) \ B
    <3>1. \A j \in JobId : h[j] # Nil <=> h[j] \in Archived
      BY Zenon, RowsNotNil
    <3> HIDE DEF g
    <3> QED
      BY Zenon, <2>4 DEF StandIns, InState
  <2> DEFINE S == StandIns(h, r)
             Kn == named(K, n0)
             Rn == named(rows, n0)
  <2>6. S \subseteq Rn /\ Kn \subseteq Rn /\ Rn \in SUBSET JobId /\ S \in SUBSET JobId
        /\ Kn \in SUBSET JobId
    BY Zenon, <2>1, <2>2 DEF StandIns
  <2>7. Kn \cap B = {} /\ (S \ B) \in SUBSET JobId
    BY Zenon, <2>2, <2>6
  <2>8. Cardinality(Kn) = Least(keep, Cardinality(Rn))
    BY Zenon, <2>1, <2>3
  <2>9. \A i \in B : h[i] = r => i \in S
    <3>1. r.finished \in Nat
      BY Zenon DEF Archived
    <3>2. r.finished >= r.finished
      BY <3>1
    <3> QED
      BY Zenon, <2>2, <3>2 DEF StandIns, InState
  <2>10. /\ Cardinality(S) \in Nat /\ Cardinality(Kn) \in Nat /\ Cardinality(Rn) \in Nat
         /\ Cardinality(S \ B) \in Nat
         /\ Cardinality(S) <= Cardinality(Rn)
         /\ Cardinality(Kn) = Cardinality(Rn) => Kn = Rn
    <3> HIDE DEF S, Kn, Rn
    <3> QED
      BY Zenon, <2>6, <2>7 DEF Counting
  <2>11. Cardinality(S \ B) >= keep
    <3>1. CASE Kn \subseteq S
      <4>1. Kn \in SUBSET (S \ B)
        BY Zenon, <2>7, <3>1
      <4>2. Cardinality(Kn) <= Cardinality(S \ B)
        <5> HIDE DEF S, Kn
        <5> QED
          BY Zenon, <2>7, <4>1 DEF Counting
      <4>3. Cardinality(Rn) >= keep
        <5>1. CASE Cardinality(S) >= keep
          <6> HIDE DEF S, Rn, Kn
          <6> QED
            BY <2>10, <5>1
        <5>2. ASSUME NEW i \in B, h[i] = r
              PROVE  Cardinality(Rn) >= keep
          <6>1. i \in Rn /\ i \notin Kn
            BY Zenon, <2>2, <2>6, <2>9, <5>2
          <6>2. Cardinality(Kn) # Cardinality(Rn)
            BY Zenon, <2>10, <6>1
          <6> HIDE DEF S, Rn, Kn
          <6> QED
            BY <2>8, <2>10, <6>2 DEF Least
        <5> QED
          BY Zenon, <5>1, <5>2
      <4> HIDE DEF S, Rn, Kn
      <4> QED
        BY <2>8, <2>10, <4>2, <4>3 DEF Least
    <3>2. ASSUME NEW k \in Kn, k \notin S
          PROVE  Cardinality(S \ B) >= keep
      <4>1. S \subseteq Kn
        <5> SUFFICES ASSUME NEW j \in S, j \notin K
                     PROVE  FALSE
          BY Zenon, <2>6
        <5>1. h[k].finished >= h[j].finished
          BY Zenon, <2>1, <2>3, <2>6, <3>2
        <5>2. h[j].finished >= r.finished /\ ~(h[k].finished >= r.finished)
          BY Zenon, <2>1, <3>2 DEF StandIns
        <5>3. h[k].finished \in Nat /\ h[j].finished \in Nat /\ r.finished \in Nat
          <6>1. h[k] \in Archived /\ h[j] \in Archived
            BY Zenon, <2>1, <2>6, <3>2 DEF InState
          <6> QED
            BY Zenon, <6>1 DEF Archived
        <5> QED
          BY <5>1, <5>2, <5>3
      <4>2. S \cap B = {}
        BY Zenon, <2>7, <4>1
      <4>3. S \ B = S /\ Cardinality(S) >= keep
        BY Zenon, <2>9, <4>2
      <4> QED
        BY Zenon, <4>3
    <3> QED
      BY Zenon, <3>1, <3>2
  <2> QED
    BY Zenon, <2>5, <2>11
<1> QED
  BY Zenon, <1>1, <1>2

\* Pruning rows of one outcome leaves the rows of the other alone.
LEMMA PruneCountSelects ==
    ASSUME NEW h \in [JobId -> Archived \cup {Nil}], NEW state, NEW keep,
           NEW B \in PruneCount(h, state, keep)
    PROVE  B \subseteq InState(h, state)
BY Zenon DEF PruneCount, Limited

\* The count limit that applies to rows of a state.
Keep(c, state) == IF state = "Completed" THEN c.completedCount ELSE c.failedCount

\* With the age limits off, enough rows stand in for every job that is gone.
\* NewestKept in terms of StandIns.
Replaced ==
    config.completedAge = 0 /\ config.failedAge = 0 =>
        \A i \in JobId : ended[i] # Nil /\ ~Finished(i) =>
            Cardinality(StandIns(history, ended[i])) >= Keep(config, ended[i].state)

\* Rows that no prune takes go on standing in.
LEMMA MoreStandIns ==
    ASSUME Counting, NEW h \in [JobId -> Archived \cup {Nil}],
           NEW g \in [JobId -> Archived \cup {Nil}], NEW r \in Archived, NEW keep \in Nat,
           \A j \in JobId : h[j] # Nil /\ h[j].state = r.state => g[j] = h[j],
           Cardinality(StandIns(h, r)) >= keep
    PROVE  Cardinality(StandIns(g, r)) >= keep
<1>1. StandIns(h, r) \in SUBSET StandIns(g, r) /\ StandIns(g, r) \in SUBSET JobId
      /\ StandIns(h, r) \in SUBSET JobId
  BY Zenon DEF StandIns, InState
<1>2. /\ Cardinality(StandIns(h, r)) <= Cardinality(StandIns(g, r))
      /\ Cardinality(StandIns(h, r)) \in Nat /\ Cardinality(StandIns(g, r)) \in Nat
  BY Zenon, <1>1 DEF Counting
<1> QED
  BY <1>2

\* A sweep with the age limits off leaves enough rows of every name and outcome.
LEMMA SweepKeepsNewest ==
    ASSUME Counting, RInv, Replaced, NEW out \in SweepOutcomes, Swept(out),
           config.completedAge = 0, config.failedAge = 0,
           NEW i \in JobId, ended[i] # Nil, ~Finished(i)'
    PROVE  Cardinality(StandIns(history', ended[i])) >= Keep(config, ended[i].state)
<1> DEFINE r == ended[i]
<1>1. PICK ca, fa, cc, fc : Deletes(out, ca, fa, cc, fc)
  BY Zenon, OutcomeDeletes
<1>2. ca = {} /\ fa = {}
  BY Zenon, <1>1 DEF Deletes, PruneAge
<1> DEFINE g == Without(history, cc, Nil)
<1>3. /\ cc \in PruneCount(history, "Completed", config.completedCount)
      /\ fc \in PruneCount(g, "Failed", config.failedCount)
      /\ out.completed = cc /\ out.failed = fc
  <2>1. Without(history, {} \cup {}, Nil) = history
    BY Zenon DEF Without, RInv, TypeOK
  <2>2. {} \cup {} \cup cc = cc /\ {} \cup cc = cc /\ {} \cup fc = fc
    BY Zenon
  <2> QED
    BY Zenon, <1>1, <1>2, <2>1, <2>2 DEF Deletes
<1>4. /\ history \in [JobId -> Archived \cup {Nil}] /\ g \in [JobId -> Archived \cup {Nil}]
      /\ history' \in [JobId -> Archived \cup {Nil}]
      /\ \A j \in JobId : g[j] = IF j \in cc THEN Nil ELSE history[j]
      /\ \A j \in JobId : history'[j] = IF j \in cc \cup fc THEN Nil ELSE history[j]
  <2>1. history \in [JobId -> Archived \cup {Nil}] /\ history' \in [JobId -> Archived \cup {Nil}]
    BY Zenon DEF RInv, TypeOK, Swept
  <2>2. \A j \in JobId : history'[j] = IF j \in cc \cup fc THEN Nil ELSE history[j]
    BY Zenon, <1>3 DEF Swept
  <2> QED
    BY Zenon, <2>1, <2>2 DEF Without
<1>5. history' = Without(g, fc, Nil)
  <2>1. Without(g, fc, Nil) = [j \in JobId |-> IF j \in fc THEN Nil ELSE g[j]]
    <3>1. DOMAIN g = JobId
      BY Zenon, <1>4
    <3> HIDE DEF g
    <3> QED
      BY Zenon, <3>1 DEF Without
  <2>2. \A j \in JobId : history'[j] = (IF j \in fc THEN Nil ELSE g[j])
    <3> HIDE DEF g
    <3> QED
      BY Zenon, <1>4
  <2> HIDE DEF g
  <2> QED
    BY Zenon, <1>4, <2>1, <2>2
<1> HIDE DEF g
<1>6. /\ r \in Archived /\ r.state \in {"Completed", "Failed"}
      /\ config.completedCount \in Nat /\ config.failedCount \in Nat
  <2>1. r \in Archived
    BY Zenon DEF RInv, RetentionTypeOK
  <2>2. r.state \in {"Completed", "Failed"}
    BY Zenon, <2>1 DEF Archived, TerminalState
  <2>3. config \in RetentionConfig
    BY Zenon, ConfigAssumption DEF RInv, RetentionTypeOK
  <2> QED
    BY Zenon, <2>1, <2>2, <2>3 DEF RetentionConfig
<1>7. Cardinality(StandIns(history, r)) >= Keep(config, r.state) \/ (history[i] = r /\ i \in cc \cup fc)
  <2>1. CASE Finished(i)
    <3>1. Remembered(i)
      BY Zenon DEF RInv
    <3> QED
      BY Zenon, <1>4, <2>1, <3>1 DEF Remembered, Finished
  <2>2. CASE ~Finished(i)
    BY Zenon, <2>2 DEF Replaced
  <2> QED
    BY Zenon, <2>1, <2>2
<1>8. /\ \A j \in cc : history[j].state = "Completed"
      /\ \A j \in fc : g[j].state = "Failed" /\ g[j] # Nil
  <2>1. cc \subseteq InState(history, "Completed") /\ fc \subseteq InState(g, "Failed")
    BY Zenon, <1>3, <1>4, PruneCountSelects
  <2> QED
    BY Zenon, <2>1 DEF InState
<1>9. "Completed" # "Failed"
  OBVIOUS
<1>10. CASE r.state = "Completed"
  <2>1. Keep(config, r.state) = config.completedCount
    BY Zenon, <1>10 DEF Keep
  <2>2. Cardinality(StandIns(history, r)) >= config.completedCount
        \/ \E j \in cc : history[j] = r
    <3>1. i \in fc /\ history[i] = r => i \in cc
      BY Zenon, <1>4, <1>8, <1>9, <1>10
    <3> QED
      BY Zenon, <1>7, <2>1, <3>1
  <2>3. Cardinality(StandIns(g, r)) >= config.completedCount
    <3>1. Cardinality(StandIns(Without(history, cc, Nil), r)) >= config.completedCount
      BY Zenon, <1>3, <1>4, <1>6, <1>10, <2>2, PruneCountKeeps
    <3> QED
      BY Zenon, <3>1 DEF g
  <2>4. \A j \in JobId : g[j] # Nil /\ g[j].state = r.state => history'[j] = g[j]
    BY Zenon, <1>4, <1>8, <1>9, <1>10
  <2> QED
    BY Zenon, <1>4, <1>6, <2>1, <2>3, <2>4, MoreStandIns
<1>11. CASE r.state = "Failed"
  <2>1. Keep(config, r.state) = config.failedCount
    BY Zenon, <1>9, <1>11 DEF Keep
  <2>2. \A j \in JobId : history[j] # Nil /\ history[j].state = r.state => g[j] = history[j]
    BY Zenon, <1>4, <1>8, <1>9, <1>11
  <2>3. Cardinality(StandIns(g, r)) >= config.failedCount \/ \E j \in fc : g[j] = r
    <3>1. CASE Cardinality(StandIns(history, r)) >= config.failedCount
      BY Zenon, <1>4, <1>6, <2>2, <3>1, MoreStandIns
    <3>2. CASE history[i] = r /\ i \in cc \cup fc
      <4>1. i \notin cc
        BY Zenon, <1>8, <1>9, <1>11, <3>2
      <4>2. g[i] = r
        BY Zenon, <1>4, <3>2, <4>1
      <4> QED
        BY Zenon, <3>2, <4>1, <4>2
    <3> QED
      BY Zenon, <1>7, <2>1, <3>1, <3>2
  <2>4. Cardinality(StandIns(Without(g, fc, Nil), r)) >= config.failedCount
    BY Zenon, <1>3, <1>4, <1>6, <1>11, <2>3, PruneCountKeeps
  <2> QED
    BY Zenon, <1>5, <2>1, <2>4
<1> QED
  BY Zenon, <1>6, <1>10, <1>11

\* Neither the sweeper nor a handler takes a row that is needed to stand in.
LEMMA StepKeepsNewest ==
    ASSUME ForestsCounted, Counting, RInv, Replaced, [RetentionNext]_allVars
    PROVE  Replaced'
<1> SUFFICES ASSUME config'.completedAge = 0, config'.failedAge = 0,
                    NEW i \in JobId, ended'[i] # Nil, ~Finished(i)'
             PROVE  Cardinality(StandIns(history', ended'[i])) >= Keep(config', ended'[i].state)
  <2>1. \A i : StandIns(history, ended[i])' = StandIns(history', ended'[i])
    BY Zenon DEF StandIns, InState
  <2> QED
    BY Zenon, <2>1 DEF Replaced, Keep
<1>1. RInv'
  BY Zenon, EachStep
<1>2. CASE Next /\ Stamps /\ \A j \in JobId : Treats(j)
  <2>1. config' = config /\ ended'[i] = ended[i]
    BY Zenon, <1>2 DEF Stamps, Finished
  <2>2. ~Finished(i)
    BY Zenon, <1>2 DEF Treats, Finished
  <2>3. Cardinality(StandIns(history, ended[i])) >= Keep(config, ended[i].state)
    BY Zenon, <2>1, <2>2 DEF Replaced
  <2>4. \A j \in JobId : history[j] # Nil => history'[j] = history[j]
    <3> SUFFICES ASSUME NEW j \in JobId, history[j] # Nil
                 PROVE  history'[j] = history[j]
      BY Zenon
    <3>1. ~Live(j)
      BY Zenon DEF RInv, Remembered, Finished
    <3> QED
      BY Zenon, <1>2, <3>1 DEF Treats
  <2>5. /\ history \in [JobId -> Archived \cup {Nil}] /\ history' \in [JobId -> Archived \cup {Nil}]
        /\ ended[i] \in Archived
    <3>1. /\ history \in [JobId -> Archived \cup {Nil}]
          /\ ended \in [JobId -> Archived \cup {Nil}]
      BY Zenon DEF RInv, TypeOK, RetentionTypeOK
    <3>2. history' \in [JobId -> Archived \cup {Nil}]
      BY Zenon, <1>1 DEF RInv, TypeOK
    <3> QED
      BY Zenon, <2>1, <3>1, <3>2
  <2>6. Keep(config, ended[i].state) \in Nat
    <3>1. config \in RetentionConfig
      BY Zenon, ConfigAssumption DEF RInv, RetentionTypeOK
    <3> QED
      BY Zenon, <3>1 DEF RetentionConfig, Keep
  <2>7. Cardinality(StandIns(history', ended[i])) >= Keep(config, ended[i].state)
    BY Zenon, <2>3, <2>4, <2>5, <2>6, MoreStandIns
  <2> QED
    BY Zenon, <1>1, <2>1, <2>7
<1>3. ASSUME NEW out \in SweepOutcomes, Swept(out)
      PROVE  Cardinality(StandIns(history', ended'[i])) >= Keep(config', ended'[i].state)
  <2>1. config' = config /\ ended' = ended
    BY Zenon, <1>3 DEF Swept
  <2> QED
    BY Zenon, <1>1, <1>3, <2>1, SweepKeepsNewest
<1>4. CASE UNCHANGED allVars
  <2>1. config' = config /\ ended' = ended /\ history' = history
    BY Zenon, <1>4 DEF allVars, vars, retentionVars
  <2> QED
    BY Zenon, <1>1, <2>1 DEF Replaced, Finished
<1> QED
  BY Zenon, <1>2, <1>3, <1>4, EachStep
-----------------------------------------------------------------------------
(***************************************************************************)
(* The dedup window                                                        *)
(***************************************************************************)

\* The jobs that the sweeper took from job_history.
Gone == {i \in JobId : ended[i] # Nil /\ ~Finished(i)}

\* The slots are sound for the jobs that are still in a table.  SlotsSound reads
\* the options of a finished job from job_history, which a sweep empties; the
\* options in `ended` outlive it.
SlotWindow == Slotted(issued, jobs, ended, receipts, Gone)

\* Whichever table a job is in, its options are those it was inserted with.
LEMMA OptionsRemembered ==
    ASSUME RInv
    PROVE  \A i \in 1..issued : /\ i \in JobId /\ i <= issued
                                /\ OptsIn(jobs, ended, i) = origin[i].opts
                                /\ OptsIn(jobs, ended, i) \in Opts
<1>1. issued \in 0..MaxJobs /\ jobs \in [JobId -> Job \cup {Nil}]
      /\ ended \in [JobId -> Archived \cup {Nil}]
  BY Zenon DEF RInv, TypeOK, RetentionTypeOK
<1>2. \A i \in JobId : i <= issued => jobs[i] # Nil \/ ended[i] # Nil
  BY Zenon DEF RInv, Remembered, Live
<1>3. \A i \in 1..issued : i \in JobId /\ OptsIn(jobs, ended, i) \in Opts
  BY Zenon, <1>1, <1>2, OptsTyped
<1>4. \A i \in 1..issued : i <= issued
  BY <1>1
<1>5. \A i \in 1..issued : OptsIn(jobs, ended, i) = origin[i].opts
  BY Zenon, <1>2, <1>3, <1>4 DEF RInv, Remembered, OptsIn, Live
<1> QED
  BY Zenon, <1>3, <1>4, <1>5

\* A handler neither brings back a job that is gone nor makes one go.
LEMMA BrokerKeepsGone ==
    ASSUME RInv, RInv', Stamps, issued' >= issued, \A i \in JobId : Treats(i)
    PROVE  /\ Gone' = Gone /\ OptionsStay(ended, ended')
           /\ history' = history => ended' = ended
<1>1. \A i \in JobId : ended'[i] = IF history'[i] # Nil THEN history'[i] ELSE ended[i]
  BY Zenon DEF Stamps
<1>2. \A i \in JobId : i <= issued => ~(issued < i /\ i <= issued')
  BY CountersTyped
<1>3. ASSUME NEW i \in JobId, ended[i] # Nil
      PROVE  history'[i] = history[i] /\ ended'[i] = ended[i]
  <2>1. ~Live(i) /\ i <= issued /\ (Finished(i) => ended[i] = history[i])
    BY Zenon, <1>3 DEF RInv, Remembered
  <2>2. history'[i] = history[i]
    BY Zenon, <1>2, <2>1 DEF Treats
  <2> QED
    BY Zenon, <1>1, <2>1, <2>2 DEF Finished
<1>4. Gone' = Gone
  <2>1. ASSUME NEW i \in JobId
        PROVE  (ended[i] # Nil /\ ~Finished(i))' <=> (ended[i] # Nil /\ ~Finished(i))
    BY Zenon, <1>1, <1>3 DEF Finished
  <2> QED
    BY Zenon, <2>1 DEF Gone
<1>5. ASSUME history' = history
      PROVE  ended' = ended
  <2>1. \A i \in JobId : ended'[i] = ended[i]
    BY Zenon, <1>1, <1>5 DEF RInv, Remembered, Finished
  <2>2. ended \in [JobId -> Archived \cup {Nil}] /\ ended' \in [JobId -> Archived \cup {Nil}]
    BY Zenon DEF RInv, RetentionTypeOK
  <2> QED
    BY SMT, <2>1, <2>2
<1>6. OptionsStay(ended, ended')
  <2>1. \A i \in 1..issued : /\ i \in JobId /\ i <= issued
                             /\ OptsIn(jobs, ended, i) = origin[i].opts
    BY Zenon, OptionsRemembered
  <2>2. \A i \in 1..issued' : /\ i \in JobId
                              /\ OptsIn(jobs', ended', i) = origin'[i].opts
                              /\ OptsIn(jobs', ended', i) \in Opts
    <3>1. /\ issued' \in 0..MaxJobs /\ jobs' \in [JobId -> Job \cup {Nil}]
          /\ ended' \in [JobId -> Archived \cup {Nil}]
      BY Zenon DEF RInv, TypeOK, RetentionTypeOK
    <3>2. \A i \in JobId : i <= issued' => jobs'[i] # Nil \/ ended'[i] # Nil
      BY Zenon DEF RInv, Remembered, Live
    <3>3. \A i \in 1..issued' : i \in JobId /\ OptsIn(jobs', ended', i) \in Opts
      BY Zenon, <3>1, <3>2, OptsTyped
    <3>4. \A i \in 1..issued' : i <= issued'
      BY <3>1
    <3>5. \A i \in 1..issued' : OptsIn(jobs', ended', i) = origin'[i].opts
      BY Zenon, <3>2, <3>3, <3>4 DEF RInv, Remembered, OptsIn, Live
    <3> QED
      BY Zenon, <3>3, <3>5
  <2>3. ASSUME NEW i \in 1..issued
        PROVE  /\ i \in 1..issued' /\ origin'[i] = origin[i]
               /\ jobs[i] = Nil => jobs'[i] = Nil
    <3>1. i \in 1..issued'
      BY CountersTyped, CountersTypedNext
    <3>2. i \in JobId /\ origin[i] # Nil /\ ~(issued < i /\ i <= issued')
      BY Zenon, <1>2, <2>1 DEF RInv, Remembered
    <3> QED
      BY Zenon, <3>1, <3>2 DEF Stamps, Treats, Live
  <2>4. issued <= issued'
    BY Zenon DEF RInv, TypeOK
  <2> QED
    BY Zenon, <2>1, <2>2, <2>3, <2>4 DEF OptionsStay
<1> QED
  BY Zenon, <1>4, <1>5, <1>6

\* A sweep releases the slots of jobs that are gone, and of no others.
LEMMA SweepKeepsSlots ==
    ASSUME RInv, SlotWindow, NEW out \in SweepOutcomes, Swept(out)
    PROVE  SlotWindow'
<1>1. issued' = issued /\ jobs' = jobs /\ ended' = ended
  BY Zenon DEF Swept
<1>2. Gone \subseteq Gone'
  BY Zenon, <1>1 DEF Gone, Finished, Swept
<1>3. ASSUME NEW s \in Slot, s \in out.receipts
      PROVE  receipts[s] # Nil => receipts[s].job \in Gone'
  <2>1. PICK ca, fa, cc, fc : Deletes(out, ca, fa, cc, fc)
    BY Zenon, OutcomeDeletes
  <2> DEFINE h == Without(history, ca \cup fa \cup cc \cup fc, Nil)
             i == receipts[s].job
  <2>2. out.receipts \in PruneReceipts(h)
    BY Zenon, <2>1 DEF Deletes
  <2>3. jobs[i] = Nil /\ h[i] = Nil
    <3> HIDE DEF h
    <3> QED
      BY Zenon, <1>3, <2>2 DEF PruneReceipts, Limited
  <2>4. ASSUME receipts[s] # Nil
        PROVE  i \in Gone'
    <3>1. i \in 1..issued
      BY Zenon, <2>4 DEF SlotWindow, Slotted
    <3>2. i \in JobId /\ i <= issued
      BY Zenon, <3>1, OptionsRemembered
    <3>3. history'[i] = Nil
      <4>1. ca \cup fa \cup cc \cup fc = out.completed \cup out.failed
        BY Zenon, <2>1 DEF Deletes
      <4>2. DOMAIN history = JobId
        BY Zenon DEF RInv, TypeOK
      <4>3. h[i] = IF i \in out.completed \cup out.failed THEN Nil ELSE history[i]
        BY Zenon, <3>2, <4>1, <4>2 DEF Without
      <4> HIDE DEF h
      <4> QED
        BY Zenon, <2>3, <3>2, <4>3 DEF Swept
    <3>4. ended[i] # Nil
      BY Zenon, <2>3, <3>2 DEF RInv, Remembered, Live
    <3> QED
      BY Zenon, <1>1, <3>2, <3>3, <3>4 DEF Gone, Finished
  <2> QED
    BY Zenon, <2>4
<1>4. \A s \in Slot : receipts'[s] = IF s \in out.receipts THEN Nil ELSE receipts[s]
  BY Zenon DEF Swept
<1>5. \A i \in 1..issued : OptsIn(jobs, ended, i).key # Nil
                             => SlotOf(OptsIn(jobs, ended, i)) \in Slot
  <2>1. \A i \in 1..issued : OptsIn(jobs, ended, i) \in Opts
    BY Zenon, OptionsRemembered
  <2>2. \A o \in Opts : o.key # Nil => SlotOf(o) \in Slot
    BY DEF SlotOf, Slot, Opts
  <2> QED
    BY Zenon, <2>1, <2>2
<1>6. Slotted(issued, jobs, ended, receipts', Gone')
  BY Zenon, <1>2, <1>3, <1>4, <1>5 DEF SlotWindow, Slotted
<1> QED
  BY Zenon, <1>1, <1>6 DEF SlotWindow

\* Every step keeps the slots sound for the jobs that are not gone.
LEMMA StepKeepsSlotWindow ==
    ASSUME ForestsCounted, RInv, SlotWindow, [RetentionNext]_allVars
    PROVE  SlotWindow'
<1>1. RInv'
  BY Zenon, EachStep
<1>2. CASE Next /\ Stamps /\ issued' >= issued /\ \A i \in JobId : Treats(i)
  <2>1. /\ Gone' = Gone /\ OptionsStay(ended, ended')
        /\ history' = history => ended' = ended
    BY Zenon, <1>1, <1>2, BrokerKeepsGone
  <2>2. \A i \in 1..issued : OptsIn(jobs, ended, i) \in Opts
    BY Zenon, OptionsRemembered
  <2>3. Tables /\ Slotted(issued, jobs, ended, receipts, Gone) /\ [Next]_vars
    BY Zenon, <1>2, RInvTables DEF SlotWindow
  <2>4. Slotted(issued', jobs', ended', receipts', Gone)
    <3> HIDE DEF Gone
    <3> QED
      BY SMT, <2>1, <2>2, <2>3, StepKeepsSlots
  <2> QED
    BY Zenon, <2>1, <2>4 DEF SlotWindow
<1>3. ASSUME NEW out \in SweepOutcomes, Swept(out)
      PROVE  SlotWindow'
  BY Zenon, <1>3, SweepKeepsSlots
<1>4. CASE UNCHANGED allVars
  <2>1. /\ issued' = issued /\ jobs' = jobs /\ history' = history /\ receipts' = receipts
        /\ ended' = ended
    BY Zenon, <1>4 DEF allVars, vars, retentionVars
  <2>2. Gone' = Gone
    BY Zenon, <2>1 DEF Gone, Finished
  <2> QED
    BY Zenon, <2>1, <2>2 DEF SlotWindow
<1> QED
  BY Zenon, <1>2, <1>3, <1>4, EachStep

\* What the slots say of a job that is still in a table.
LEMMA SlotWindowImplies ==
    ASSUME RInv, SlotWindow
    PROVE  DedupWindow
<1> SUFFICES ASSUME NEW i \in JobId, origin[i] # Nil, origin[i].opts.key # Nil,
                    Live(i) \/ (Finished(i) /\ ~origin[i].opts.release)
             PROVE  /\ receipts[SlotOf(origin[i].opts)] # Nil
                    /\ receipts[SlotOf(origin[i].opts)].job = i
  BY Zenon DEF DedupWindow
<1>1. i <= issued /\ (Live(i) => ended[i] = Nil)
  BY Zenon DEF RInv, Remembered
<1>2. i \in 1..issued
  BY <1>1 DEF RInv, TypeOK, JobId
<1>3. OptsIn(jobs, ended, i) = origin[i].opts
  BY Zenon, <1>2, OptionsRemembered
<1>4. i \notin Gone /\ ~Freed(jobs, ended, i)
  BY Zenon, <1>1, <1>3 DEF Gone, Freed, Live
<1> QED
  BY Zenon, <1>2, <1>3, <1>4 DEF SlotWindow, Slotted
-----------------------------------------------------------------------------
(***************************************************************************)
(* Lineages                                                                *)
(***************************************************************************)

\* The first row of each job, if `js` is the table of live ones.
Org(js) == [i \in JobId |-> IF origin[i] = Nil THEN js[i] ELSE origin[i]]

\* LineageDerived of job i, for the first rows in `o`.
Derived(o, i) ==
    o[i] # Nil /\ o[i].link.tree = Nil =>
        /\ o[i].link.depth <= MaxExecutionDepth
        /\ o[i].link.parent # Nil =>
              /\ o[o[i].link.parent] # Nil
              /\ o[i].link.depth = o[o[i].link.parent].link.depth + 1
              /\ o[i].link.trace = o[o[i].link.parent].link.trace

\* What an open enqueue transaction finds in the live table.
Traced(t) ==
    /\ t.issued >= issued
    /\ \A i \in JobId :
          /\ Org(t.jobs)[i] # Nil => i <= t.issued
          /\ t.jobs[i] # Nil => /\ Org(t.jobs)[i] # Nil
                                /\ SameLineage(t.jobs[i].link, Org(t.jobs)[i].link)

\* Transaction u adds to t the one row `job` under the new id n; o and p are the
\* first rows before and after.
AddsRow(t, u, n, job, o, p) ==
    /\ n \in JobId /\ o[n] = Nil /\ origin[n] = Nil /\ job # Nil
    /\ p[n] = job /\ u.jobs[n] = job /\ Traced(u)
    /\ \A i \in JobId : i # n => p[i] = o[i] /\ u.jobs[i] = t.jobs[i]
    /\ (\A i \in JobId : Derived(o, i)) => \A i \in JobId : Derived(p, i)

\* The row that enqueue_one inserts has the lineage of its parent, which it finds
\* in jobs or in job_history, and no other job's lineage changes.
LEMMA InsertedLineage ==
    ASSUME RInv, NEW t \in TxOK, NEW r \in Request, t.issued < MaxJobs, Traced(t),
           Verdict(t, r) = "inserted",
           NEW u, u = Inserted(t, r), NEW n, n = t.issued + 1,
           NEW o, o = Org(t.jobs), NEW p, p = Org(u.jobs)
    PROVE  AddsRow(t, u, n, NewJob(t, r), o, p)
<1>1. /\ history \in [JobId -> Archived \cup {Nil}] /\ now \in Nat
      /\ ingressRules \in [Facet -> RateRule \cup {Nil}] /\ issued \in Nat /\ MaxJobs \in Nat
      /\ \A i \in JobId : i \in Nat
  BY BoundAssumption DEF RInv, TypeOK, JobId
<1>2. t.issued \in Nat /\ t.jobs \in [JobId -> Job \cup {Nil}]
  BY DEF TxOK
<1>3. n \in JobId /\ ~(n <= t.issued) /\ ~(n <= issued) /\ u.issued = n /\ n >= issued
  BY <1>1, <1>2 DEF Traced, JobId, Inserted
<1>4. o[n] = Nil /\ origin[n] = Nil
  BY Zenon, <1>3 DEF Traced, RInv, Remembered
<1>5. u.jobs = [t.jobs EXCEPT ![n] = NewJob(t, r)]
  BY Zenon DEF Inserted
<1>6. u.jobs[n] = NewJob(t, r) /\ \A i \in JobId : i # n => u.jobs[i] = t.jobs[i]
  BY Zenon, <1>2, <1>3, <1>5
<1>7. p[n] = NewJob(t, r) /\ \A i \in JobId : i # n => p[i] = o[i]
  BY Zenon, <1>3, <1>4, <1>6 DEF Org
<1>8. NewJob(t, r) # Nil
  <2>1. Continues(t, u)
    BY Zenon, <1>1, EnqueueOneContinues
  <2>2. t.issued < n /\ n <= u.issued
    BY <1>2, <1>3
  <2>3. Fresh(u.jobs[n])
    BY Zenon, <1>3, <2>1, <2>2 DEF Continues
  <2> QED
    BY Zenon, <1>6, <2>3, RowsNotNil DEF Fresh
<1>9. \A i \in JobId : o[i] # Nil => i # n /\ i <= n
  <2>1. \A i \in JobId : o[i] # Nil => i <= t.issued
    BY Zenon DEF Traced
  <2> QED
    BY <1>1, <1>2, <2>1
<1>10. Traced(u)
  <2>1. \A i \in JobId : p[i] # Nil => i <= u.issued
    <3>1. n <= n
      BY <1>1, <1>3
    <3> QED
      BY Zenon, <1>3, <1>7, <1>9, <3>1
  <2>2. ASSUME NEW i \in JobId, u.jobs[i] # Nil
        PROVE  p[i] # Nil /\ SameLineage(u.jobs[i].link, p[i].link)
    <3>1. CASE i = n
      BY Zenon, <1>6, <1>7, <1>8, <3>1 DEF SameLineage
    <3>2. CASE i # n
      BY Zenon, <1>6, <1>7, <2>2, <3>2 DEF Traced
    <3> QED
      BY Zenon, <3>1, <3>2
  <2> QED
    BY Zenon, <1>3, <2>1, <2>2 DEF Traced
<1>11. ASSUME r.parent # Nil
       PROVE  /\ r.parent \in JobId /\ o[r.parent] # Nil
              /\ SameLineage(ParentLink(t, r.parent), o[r.parent].link)
  <2>1. r.parent \in JobId /\ ParentKnown(t, r.parent)
    BY Zenon, <1>11 DEF Verdict, Request
  <2>2. CASE t.jobs[r.parent] # Nil
    BY Zenon, <2>1, <2>2 DEF Traced, ParentLink
  <2>3. CASE t.jobs[r.parent] = Nil
    <3>1. Finished(r.parent)
      BY Zenon, <2>1, <2>3 DEF ParentKnown, Finished
    <3>2. /\ origin[r.parent] # Nil
          /\ SameLineage(history[r.parent].link, origin[r.parent].link)
      BY Zenon, <2>1, <3>1 DEF RInv, Remembered, Finished
    <3> QED
      BY Zenon, <2>1, <2>3, <3>2 DEF Org, ParentLink
  <2> QED
    BY Zenon, <2>1, <2>2, <2>3
<1>12. /\ NewJob(t, r).link.parent = r.parent /\ NewJob(t, r).link.tree = Nil
       /\ NewJob(t, r).link.depth = EffectiveDepth(t, r)
       /\ NewJob(t, r).link.trace = EffectiveTrace(t, r)
  BY Zenon DEF NewJob
<1>13. EffectiveDepth(t, r) <= MaxExecutionDepth
  <2>1. EffectiveDepth(t, r) \in Nat
    <3>1. r.parent # Nil => ParentKnown(t, r.parent)
      BY Zenon DEF Verdict
    <3> QED
      BY Zenon, <1>1, <3>1, LineageType
  <2>2. ~(EffectiveDepth(t, r) > MaxExecutionDepth)
    BY Zenon DEF Verdict
  <2> QED
    BY <2>1, <2>2, EnqueueAssumption
<1>14. ASSUME \A i \in JobId : Derived(o, i), NEW i \in JobId
       PROVE  Derived(p, i)
  <2>1. CASE i # n
    <3>1. p[i] = o[i] /\ Derived(o, i)
      BY Zenon, <1>7, <1>14, <2>1
    <3>2. ASSUME o[i] # Nil, o[i].link.tree = Nil, o[i].link.parent # Nil
          PROVE  p[o[i].link.parent] = o[o[i].link.parent]
      <4>1. o[i].link.parent \in JobId
        <5>1. o[i] \in Job
          BY Zenon, <1>2, <3>2 DEF Org, RInv, RetentionTypeOK
        <5> QED
          BY Zenon, <3>2, <5>1 DEF Job, Link
      <4>2. o[o[i].link.parent] # Nil
        BY Zenon, <3>1, <3>2 DEF Derived
      <4> QED
        BY Zenon, <1>7, <1>9, <4>1, <4>2
    <3> QED
      BY Zenon, <3>1, <3>2 DEF Derived
  <2>2. CASE i = n
    <3>1. CASE r.parent = Nil
      BY Zenon, <1>7, <1>12, <1>13, <2>2, <3>1 DEF Derived
    <3>2. CASE r.parent # Nil
      <4>1. p[r.parent] = o[r.parent] /\ p[r.parent] # Nil
        BY Zenon, <1>7, <1>9, <1>11, <3>2
      <4>2. /\ EffectiveDepth(t, r) = o[r.parent].link.depth + 1
            /\ EffectiveTrace(t, r) = o[r.parent].link.trace
        BY Zenon, <1>11, <3>2 DEF EffectiveDepth, EffectiveTrace, SameLineage
      <4> QED
        <5>1. /\ p[i].link.parent = r.parent /\ p[i].link.tree = Nil
              /\ p[i].link.depth = EffectiveDepth(t, r)
              /\ p[i].link.trace = EffectiveTrace(t, r)
          BY Zenon, <1>7, <1>12, <2>2
        <5> QED
          BY Zenon, <1>13, <4>1, <4>2, <5>1 DEF Derived
    <3> QED
      BY Zenon, <3>1, <3>2
  <2> QED
    BY Zenon, <2>1, <2>2
<1> QED
  BY Zenon, <1>3, <1>4, <1>6, <1>7, <1>8, <1>10, <1>14 DEF AddsRow

\* ChainWindow's sets, for the first rows in `o`.
Lineage(o, x) == {i \in JobId : o[i] # Nil /\ o[i].link.tree = Nil /\ o[i].link.trace = x}
Recent(o, x) ==
    {i \in Lineage(o, x) : config.chainTtl = 0 \/ o[i].created >= now - config.chainTtl}

\* The counters `c` cover the lineages of the jobs in `o` and stay in the limit.
Covers(o, c) ==
    \A x \in JobId \cup Trace : /\ Cardinality(Recent(o, x)) <= c[x]
                                /\ c[x] <= Cardinality(Lineage(o, x))
                                /\ c[x] <= MaxChainSize

\* Every new job of `js` has moved the counter of its lineage.
Advanced(js, c) ==
    \A i \in JobId : origin[i] = Nil /\ js[i] # Nil =>
        /\ js[i].created = now
        /\ js[i].link.tree = Nil => c[js[i].link.trace] > chains[js[i].link.trace]

\* enqueue_one counts the job it inserts, below the limit.
LEMMA InsertedChains ==
    ASSUME Counting, RInv, NEW t \in TxOK, NEW r \in Request, t.issued < MaxJobs, Traced(t),
           Verdict(t, r) = "inserted", MaxChainSize > 0,
           Covers(Org(t.jobs), t.chains), Advanced(t.jobs, t.chains),
           \A x \in JobId \cup Trace : t.chains[x] >= chains[x],
           NEW u, u = Inserted(t, r)
    PROVE  /\ Covers(Org(u.jobs), u.chains) /\ Advanced(u.jobs, u.chains)
           /\ \A x \in JobId \cup Trace : u.chains[x] >= chains[x]
<1>0. PICK o, p, n : o = Org(t.jobs) /\ p = Org(u.jobs) /\ n = t.issued + 1
  BY Zenon
<1> DEFINE e == EffectiveTrace(t, r)
           job == NewJob(t, r)
<1>1. /\ n \in JobId /\ o[n] = Nil
      /\ \A i \in JobId : i # n => p[i] = o[i] /\ u.jobs[i] = t.jobs[i]
      /\ p[n] = job /\ origin[n] = Nil /\ u.jobs[n] = job /\ job # Nil
  <2>1. AddsRow(t, u, n, NewJob(t, r), o, p)
    BY Zenon, <1>0, InsertedLineage
  <2> QED
    BY Zenon, <2>1 DEF AddsRow
<1>2. e \in JobId \cup Trace
  <2>1. r.parent # Nil => ParentKnown(t, r.parent)
    BY Zenon DEF Verdict
  <2>2. history \in [JobId -> Archived \cup {Nil}]
    BY Zenon DEF RInv, TypeOK
  <2> QED
    BY Zenon, <2>1, <2>2, LineageType
<1>3. job.link.tree = Nil /\ job.link.trace = e /\ job.created = now
  BY Zenon DEF NewJob
<1>4. /\ t.chains \in [JobId \cup Trace -> Nat] /\ chains \in [JobId \cup Trace -> Nat]
      /\ now \in Nat /\ config.chainTtl \in Nat
  <2>1. config \in RetentionConfig
    BY Zenon, ConfigAssumption DEF RInv, RetentionTypeOK
  <2>2. config.chainTtl \in Nat /\ t.chains \in [JobId \cup Trace -> Nat]
        /\ chains \in [JobId \cup Trace -> Nat]
    BY Zenon, <2>1 DEF RetentionConfig, TxOK, RInv, TypeOK
  <2>3. now \in Nat
    BY Zenon, CountersTyped
  <2> QED
    BY Zenon, <2>2, <2>3
<1>5. t.chains[e] < MaxChainSize
  <2>1. ~Quarantined(t, e)
    BY Zenon DEF Verdict
  <2>2. ~(t.chains[e] >= MaxChainSize) /\ t.chains[e] \in Nat
    BY Zenon, <1>2, <1>4, <2>1 DEF Quarantined
  <2> QED
    BY <2>2, EnqueueAssumption
<1>6. u.chains = [t.chains EXCEPT ![e] = t.chains[e] + 1]
  <2>1. MaxChainSize # 0
    BY EnqueueAssumption
  <2> QED
    BY Zenon, <2>1 DEF Inserted
<1> HIDE DEF e, job
<1>7. /\ u.chains[e] = t.chains[e] + 1
      /\ \A x \in JobId \cup Trace : x # e => u.chains[x] = t.chains[x]
  BY Zenon, <1>2, <1>4, <1>6
<1>8. /\ \A x \in JobId \cup Trace : t.chains[x] \in Nat /\ chains[x] \in Nat
      /\ \A x \in JobId \cup Trace : u.chains[x] >= t.chains[x]
  BY <1>4, <1>7
<1>9. \A x \in JobId \cup Trace : /\ Recent(o, x) \in SUBSET JobId /\ Lineage(o, x) \in SUBSET JobId
                                  /\ n \notin Lineage(o, x) /\ n \notin Recent(o, x)
  BY Zenon, <1>1 DEF Recent, Lineage
<1>10. ASSUME NEW x \in JobId \cup Trace, x # e
       PROVE  Lineage(p, x) = Lineage(o, x) /\ Recent(p, x) = Recent(o, x)
  <2>1. \A i \in JobId : i \in Lineage(p, x) <=> i \in Lineage(o, x)
    BY Zenon, <1>1, <1>3, <1>10 DEF Lineage
  <2>2. \A i \in JobId : i \in Recent(p, x) <=> i \in Recent(o, x)
    BY Zenon, <1>1, <1>9, <2>1 DEF Recent
  <2> QED
    BY Zenon, <2>1, <2>2 DEF Lineage, Recent
<1>11. Lineage(p, e) = Lineage(o, e) \cup {n} /\ Recent(p, e) = Recent(o, e) \cup {n}
  <2>1. \A i \in JobId : i \in Lineage(p, e) <=> i \in Lineage(o, e) \cup {n}
    BY Zenon, <1>1, <1>3 DEF Lineage
  <2>2. \A i \in JobId : i \in Recent(p, e) <=> i \in Recent(o, e) \cup {n}
    <3>1. now >= now - config.chainTtl
      BY <1>4
    <3>2. n \in Recent(p, e)
      BY Zenon, <1>1, <1>3, <2>1, <3>1 DEF Recent
    <3> QED
      BY Zenon, <1>1, <2>1, <3>2 DEF Recent
  <2> QED
    BY Zenon, <1>1, <2>1, <2>2 DEF Lineage, Recent
<1>12. /\ Cardinality(Lineage(p, e)) = Cardinality(Lineage(o, e)) + 1
       /\ Cardinality(Recent(p, e)) = Cardinality(Recent(o, e)) + 1
       /\ Cardinality(Lineage(o, e)) \in Nat /\ Cardinality(Recent(o, e)) \in Nat
  BY Zenon, <1>1, <1>2, <1>9, <1>11 DEF Counting
<1>13. Covers(p, u.chains)
  <2> SUFFICES ASSUME NEW x \in JobId \cup Trace
               PROVE  /\ Cardinality(Recent(p, x)) <= u.chains[x]
                      /\ u.chains[x] <= Cardinality(Lineage(p, x))
                      /\ u.chains[x] <= MaxChainSize
    BY Zenon DEF Covers
  <2>1. /\ Cardinality(Recent(o, x)) <= t.chains[x] /\ t.chains[x] <= Cardinality(Lineage(o, x))
        /\ t.chains[x] <= MaxChainSize
    BY Zenon, <1>0 DEF Covers
  <2>2. CASE x # e
    BY Zenon, <1>7, <1>10, <2>1, <2>2
  <2>3. CASE x = e
    BY <1>5, <1>7, <1>8, <1>12, <2>1, <2>3, EnqueueAssumption
  <2> QED
    BY Zenon, <2>2, <2>3
<1>14. Advanced(u.jobs, u.chains)
  <2> SUFFICES ASSUME NEW i \in JobId, origin[i] = Nil, u.jobs[i] # Nil
               PROVE  /\ u.jobs[i].created = now
                      /\ u.jobs[i].link.tree = Nil =>
                            u.chains[u.jobs[i].link.trace] > chains[u.jobs[i].link.trace]
    BY Zenon DEF Advanced
  <2>1. CASE i = n
    <3>1. u.chains[e] > chains[e]
      BY <1>2, <1>7, <1>8
    <3> QED
      BY Zenon, <1>1, <1>3, <2>1, <3>1
  <2>2. CASE i # n
    <3> DEFINE x == t.jobs[i].link.trace
    <3>1. /\ u.jobs[i] = t.jobs[i] /\ t.jobs[i].created = now
          /\ t.jobs[i].link.tree = Nil => t.chains[x] > chains[x]
      BY Zenon, <1>1, <2>2 DEF Advanced
    <3>2. x \in JobId \cup Trace
      BY Zenon, <3>1 DEF TxOK, Job, Link
    <3> HIDE DEF x
    <3>3. t.chains[x] > chains[x] => u.chains[x] > chains[x]
      BY <1>4, <1>7, <1>8, <3>2
    <3> QED
      BY Zenon, <3>1, <3>3 DEF x
  <2> QED
    BY Zenon, <2>1, <2>2
<1>15. \A x \in JobId \cup Trace : u.chains[x] >= chains[x]
  BY <1>4, <1>7, <1>8
<1> QED
  BY Zenon, <1>0, <1>13, <1>14, <1>15

\* AddJob and AddJobBulk derive every lineage and count every job, or do nothing.
LEMMA AddJobLineage ==
    ASSUME Counting, RInv,
           \/ \E raw \in RawRequest : AddJob(raw)
           \/ \E raw1 \in RawRequest, raw2 \in RawRequest : AddJobBulk(raw1, raw2)
    PROVE  /\ now' = now
           /\ LineageDerived => \A i \in JobId : Derived(Org(jobs'), i)
           /\ MaxChainSize > 0 /\ Covers(origin, chains) =>
                 /\ Covers(Org(jobs'), chains') /\ Advanced(jobs', chains')
<1> DEFINE Good(t) ==
             /\ Traced(t)
             /\ LineageDerived => \A i \in JobId : Derived(Org(t.jobs), i)
             /\ MaxChainSize > 0 /\ Covers(origin, chains) =>
                   /\ Covers(Org(t.jobs), t.chains) /\ Advanced(t.jobs, t.chains)
                   /\ \A x \in JobId \cup Trace : t.chains[x] >= chains[x]
           Sound ==
             /\ now' = now
             /\ LineageDerived => \A i \in JobId : Derived(Org(jobs'), i)
             /\ MaxChainSize > 0 /\ Covers(origin, chains) =>
                   Covers(Org(jobs'), chains') /\ Advanced(jobs', chains')
<1>1. /\ Tx \in TxOK /\ Tx.issued = issued /\ now \in Nat /\ MaxJobs \in Nat /\ issued \in Nat
      /\ history \in [JobId -> Archived \cup {Nil}]
      /\ ingressRules \in [Facet -> RateRule \cup {Nil}]
      /\ chains \in [JobId \cup Trace -> Nat]
  BY Zenon, TxBegins DEF RInv, TypeOK
<1>2. Good(Tx)
  <2>1. Tx.issued = issued /\ Tx.jobs = jobs /\ Tx.chains = chains /\ issued >= issued
    BY <1>1 DEF Tx
  <2>2. \A i \in JobId : origin[i] = Nil => jobs[i] = Nil
    BY Zenon DEF RInv, Remembered, Live
  <2>3. Org(jobs) = origin
    <3>1. \A i \in JobId : Org(jobs)[i] = origin[i]
      BY Zenon, <2>2 DEF Org
    <3>2. Org(jobs) = [i \in JobId |-> origin[i]]
      BY Zenon, <2>2 DEF Org
    <3>3. origin = [i \in JobId |-> origin[i]]
      BY Zenon DEF RInv, RetentionTypeOK
    <3> QED
      BY Zenon, <3>2, <3>3
  <2>4. Traced(Tx)
    BY Zenon, <2>1, <2>3 DEF Traced, RInv, Remembered, Live
  <2>5. LineageDerived => \A i \in JobId : Derived(origin, i)
    BY Zenon DEF LineageDerived, Derived
  <2>6. Advanced(jobs, chains)
    BY Zenon, <2>2 DEF Advanced
  <2>7. \A x \in JobId \cup Trace : chains[x] >= chains[x]
    BY <1>1
  <2> QED
    BY Zenon, <2>1, <2>3, <2>4, <2>5, <2>6, <2>7
<1>3. ASSUME NEW t \in TxOK, NEW r \in Request, t.issued < MaxJobs, Good(t)
      PROVE  Good(EnqueueOne(t, r))
  <2>1. CASE Verdict(t, r) = "inserted"
    <3>0. PICK u, o, p, n : /\ u = Inserted(t, r) /\ n = t.issued + 1
                            /\ o = Org(t.jobs) /\ p = Org(u.jobs)
      BY Zenon
    <3>1. EnqueueOne(t, r) = u
      BY Zenon, <2>1, <3>0 DEF EnqueueOne
    <3>2. /\ Traced(u)
          /\ LineageDerived => \A i \in JobId : Derived(Org(u.jobs), i)
      <4>1. AddsRow(t, u, n, NewJob(t, r), o, p)
        BY Zenon, <1>3, <2>1, <3>0, InsertedLineage
      <4> QED
        BY Zenon, <1>3, <3>0, <4>1 DEF AddsRow
    <3>3. MaxChainSize > 0 /\ Covers(origin, chains) =>
                   /\ Covers(Org(u.jobs), u.chains) /\ Advanced(u.jobs, u.chains)
                   /\ \A x \in JobId \cup Trace : u.chains[x] >= chains[x]
      BY Zenon, <1>3, <2>1, <3>0, InsertedChains
    <3> QED
      BY Zenon, <3>1, <3>2, <3>3
  <2>2. CASE Verdict(t, r) # "inserted"
    BY Zenon, <1>3, <2>2 DEF EnqueueOne
  <2> QED
    BY Zenon, <2>1, <2>2
<1>4. ASSUME NEW t, Good(t), Commit(t)
      PROVE  Sound
  <2>1. jobs' = t.jobs /\ chains' = t.chains /\ now' = now
    BY Zenon, <1>4 DEF Commit
  <2> QED
    BY Zenon, <1>4, <2>1
<1>5. ASSUME NEW kind, RecordRejection(kind)
      PROVE  Sound
  <2>1. jobs' = jobs /\ chains' = chains /\ now' = now
    BY Zenon, <1>5 DEF RecordRejection
  <2>2. Tx.jobs = jobs /\ Tx.chains = chains
    BY Zenon DEF Tx
  <2> QED
    BY Zenon, <1>2, <2>1, <2>2
<1> HIDE DEF Good
<1>6. ASSUME NEW raw \in RawRequest, AddJob(raw)
      PROVE  Sound
  <2> DEFINE r == Prepared(raw)
  <2>1. r \in Request
    BY PreparedType
  <2>2. /\ Tx.issued < MaxJobs
        /\ \/ Verdict(Tx, r) = "inserted" /\ Commit(Inserted(Tx, r))
           \/ RecordRejection(Verdict(Tx, r))
    BY Zenon, <1>1, <1>6 DEF AddJob
  <2> HIDE DEF r, Sound
  <2>3. Good(EnqueueOne(Tx, r))
    BY Zenon, <1>1, <1>2, <1>3, <2>1, <2>2
  <2>4. Verdict(Tx, r) = "inserted" => EnqueueOne(Tx, r) = Inserted(Tx, r)
    BY Zenon DEF EnqueueOne
  <2> QED
    BY Zenon, <1>4, <1>5, <2>2, <2>3, <2>4
<1>7. ASSUME NEW raw1 \in RawRequest, NEW raw2 \in RawRequest, AddJobBulk(raw1, raw2)
      PROVE  Sound
  <2> DEFINE first == EnqueueOne(Tx, Prepared(raw1))
             both == EnqueueOne(first, Prepared(raw2))
  <2> HIDE DEF Sound
  <2>1. Prepared(raw1) \in Request /\ Prepared(raw2) \in Request
    BY PreparedType
  <2>2. /\ issued + 2 <= MaxJobs
        /\ Commit(both) \/ \E kind \in RejectionKind : RecordRejection(kind)
    BY ZenonT(60), <1>7 DEF AddJobBulk
  <2>3. Tx.issued < MaxJobs
    BY <1>1, <2>2
  <2>4. Continues(Tx, first) /\ first.issued <= Tx.issued + 1
    BY Zenon, <1>1, <2>1, <2>3, EnqueueOneContinues
  <2>5. first \in TxOK /\ first.issued \in Nat
    <3>1. first \in TxOK
      BY Zenon, <2>4 DEF Continues
    <3> HIDE DEF first
    <3>2. first.issued \in 0..MaxJobs
      BY <3>1 DEF TxOK
    <3> QED
      BY <3>1, <3>2
  <2>6. first.issued < MaxJobs
    BY <1>1, <2>2, <2>4, <2>5
  <2>7. Good(first)
    BY Zenon, <1>1, <1>2, <1>3, <2>1, <2>3
  <2> HIDE DEF first
  <2>8. Good(both)
    BY Zenon, <1>3, <2>1, <2>5, <2>6, <2>7
  <2> QED
    BY Zenon, <1>4, <1>5, <2>2, <2>8
<1> QED
  BY Zenon, <1>6, <1>7

\* AddJob or AddJobBulk takes the step.
AddsJobs ==
    \/ \E raw \in RawRequest : AddJob(raw)
    \/ \E raw1 \in RawRequest, raw2 \in RawRequest : AddJobBulk(raw1, raw2)

\* Any other step counts no job, and the jobs it adds are nodes of a tree.
LEMMA OtherSteps ==
    ASSUME RInv, Next, ~AddsJobs
    PROVE  /\ chains' = chains
           /\ \A i \in JobId : issued < i /\ i <= issued' => jobs'[i].link.tree # Nil
<1> DEFINE Grown == /\ chains' = chains
                    /\ \A i \in JobId : issued < i /\ i <= issued' => jobs'[i].link.tree # Nil
<1>1. /\ issued \in Nat /\ \A i \in JobId : i \in Nat
      /\ jobs \in [JobId -> Job \cup {Nil}] /\ receipts \in [Slot -> Receipt \cup {Nil}]
  BY DEF RInv, TypeOK, JobId
<1>2. ASSUME issued' = issued, chains' = chains
      PROVE  Grown
  <2>1. \A i \in JobId : ~(issued < i /\ i <= issued')
    BY <1>1, <1>2
  <2> QED
    BY Zenon, <1>2, <2>1
<1>3. ASSUME NEW f \in Forests, AddFlow(f)
      PROVE  Grown
  <2>1. f \in Seq(Node) /\ WellFormed(f)
    BY Zenon, RequestAssumption
  <2>2. DOMAIN f = 1..Len(f) /\ Len(f) \in Nat
    BY <2>1
  <2> DEFINE row == [k \in DOMAIN f |-> FlowJob(f, k, Nil, issued + f[k].root, 0)]
  <2>3. /\ issued' = issued + Len(f) /\ chains' = chains
        /\ \A i \in JobId : jobs'[i] = IF i - issued \in DOMAIN f THEN row[i - issued] ELSE jobs[i]
    BY Zenon, <1>3 DEF AddFlow
  <2>4. \A k \in DOMAIN f : row[k].link.tree = issued + f[k].root
    BY Zenon DEF FlowJob
  <2>5. \A k \in DOMAIN f : issued + f[k].root # Nil
    <3>1. \A k \in DOMAIN f : f[k].root \in Nat
      BY Zenon, <2>1 DEF WellFormed, Node
    <3>2. \A k \in DOMAIN f : issued + f[k].root \in Nat
      BY <1>1, <3>1
    <3> QED
      BY Zenon, <3>2, NilAssumption
  <2> HIDE DEF row
  <2>6. ASSUME NEW i \in JobId, issued < i, i <= issued'
        PROVE  jobs'[i].link.tree # Nil
    <3>1. i - issued \in DOMAIN f
      BY <1>1, <2>2, <2>3, <2>6
    <3> QED
      BY Zenon, <2>3, <2>4, <2>5, <3>1
  <2> QED
    BY Zenon, <2>3, <2>6
<1>4. ASSUME NEW s \in Slot, NEW f \in MergeForests, AddFlowMerge(s, f)
      PROVE  Grown
  <2> DEFINE target == receipts[s].job
             tree == IF jobs[target].link.tree = Nil THEN target
                     ELSE jobs[target].link.tree
             row == [k \in DOMAIN f |->
                       FlowJob(f, k, target, tree, jobs[target].link.treeDepth + 1)]
             regated == [jobs[target] EXCEPT !.link.tree = tree,
                                             !.pending = @ + Cardinality(Roots(f)),
                                             !.state = "WaitingChildren"]
  <2>1. f \in Seq(Node)
    BY Zenon, RequestAssumption
  <2>2. DOMAIN f = 1..Len(f) /\ Len(f) \in Nat
    BY <2>1
  <2>3. /\ issued' = issued + Len(f) /\ chains' = chains /\ receipts[s] # Nil /\ Live(target)
        /\ \A i \in JobId : jobs'[i] = IF i = target THEN regated
                                       ELSE IF i - issued \in DOMAIN f THEN row[i - issued]
                                       ELSE jobs[i]
    BY Zenon, <1>4 DEF AddFlowMerge
  <2>4. \A k \in DOMAIN f : row[k].link.tree = tree
    BY Zenon DEF FlowJob
  <2>5. target \in JobId /\ target <= issued
    <3>1. target \in JobId
      BY Zenon, <1>1, <2>3 DEF Receipt
    <3> QED
      BY Zenon, <2>3, <3>1 DEF RInv, Remembered
  <2>6. tree # Nil
    <3>1. target \in Nat
      BY Zenon, <1>1, <2>5
    <3> HIDE DEF target
    <3> QED
      BY Zenon, <3>1, NilAssumption
  <2> HIDE DEF row, tree, regated, target
  <2>7. ASSUME NEW i \in JobId, issued < i, i <= issued'
        PROVE  jobs'[i].link.tree # Nil
    <3>1. i - issued \in DOMAIN f /\ i # target
      BY <1>1, <2>2, <2>3, <2>5, <2>7
    <3> QED
      BY Zenon, <2>3, <2>4, <2>6, <3>1
  <2> QED
    BY Zenon, <2>3, <2>7
<1>5. CASE Enqueues
  <2>1. ~\E r \in JobRequests : AddJob(r)
    BY Zenon, RequestAssumption DEF AddsJobs
  <2>2. ~\E b \in BulkRequests : AddJobBulk(b[1], b[2])
    <3>1. \A b \in BulkRequests : b[1] \in RawRequest /\ b[2] \in RawRequest
      BY RequestAssumption
    <3> QED
      BY Zenon, <3>1 DEF AddsJobs
  <2>3. Grown
    <3> HIDE DEF Grown
    <3> QED
      BY Zenon, <1>3, <1>4, <1>5, <2>1, <2>2 DEF Enqueues
  <2> QED
    BY Zenon, <2>3
<1>6. CASE Requests
  <2>1. PICK i \in JobId, w \in Worker :
          \/ \E names \in Polls : GetNextJob(w, names, i)
          \/ \E a \in RequestAttempts :
                \/ RenewLease(i, w, a)
                \/ \E r \in Result \cup {Nil} : CompleteJob(i, w, a, r)
                \/ ReplayCompletion(i, w, a)
                \/ \E final \in BOOLEAN : FailJob(i, w, a, final)
    BY Zenon, <1>6 DEF Requests
  <2> DEFINE Idle == issued' = issued /\ chains' = chains
  <2>2. /\ \A names : GetNextJob(w, names, i) => Idle
        /\ \A a : RenewLease(i, w, a) => Idle
    BY Zenon DEF GetNextJob, RenewLease
  <2>3. \A a, r : CompleteJob(i, w, a, r) => Idle
    BY Zenon DEF CompleteJob
  <2>4. \A a : ReplayCompletion(i, w, a) => Idle
    BY Zenon DEF ReplayCompletion
  <2>5. \A a, final : FailJob(i, w, a, final) => Idle
    BY Zenon DEF FailJob, RetryJob, FailForGood
  <2>6. issued' = issued /\ chains' = chains
    <3>1. Idle
      <4> HIDE DEF Idle
      <4> QED
        BY Zenon, <2>1, <2>2, <2>3, <2>4, <2>5
    <3> QED
      BY Zenon, <3>1
  <2> QED
    BY Zenon, <1>2, <2>6
<1>7. CASE Operator \/ Recovery \/ Tick \/ ClockStepsBack
  <2>1. issued' = issued /\ chains' = chains
    BY Zenon, <1>7 DEF Operator, UpsertRateLimitRule, DeleteRateLimitRule,
                       UpsertIngressLimitRule, DeleteIngressLimitRule, Recovery,
                       RecoverExpired, Tick, ClockStepsBack
  <2> QED
    BY Zenon, <1>2, <2>1
<1> QED
  BY Zenon, <1>5, <1>6, <1>7 DEF Next

\* The first row of a job never changes, and a job that gets one is new.
LEMMA FirstRows ==
    ASSUME RInv, RInv', Next, Stamps
    PROVE  /\ origin' = Org(jobs')
           /\ \A i \in JobId : origin[i] # Nil => origin'[i] = origin[i]
           /\ ~AddsJobs => \A i \in JobId : origin[i] = Nil /\ origin'[i] # Nil
                                            => origin'[i].link.tree # Nil
<1>1. origin' = Org(jobs')
  BY Zenon DEF Stamps, Org
<1>2. \A i \in JobId : origin'[i] = IF origin[i] = Nil THEN jobs'[i] ELSE origin[i]
  BY Zenon, <1>1 DEF Org
<1>3. ASSUME NEW i \in JobId, origin[i] = Nil, origin'[i] # Nil
      PROVE  issued < i /\ i <= issued'
  <2>1. ~(i <= issued) /\ i <= issued'
    BY Zenon, <1>3 DEF RInv, Remembered
  <2> QED
    BY <2>1, CountersTyped, CountersTypedNext
<1>4. ASSUME ~AddsJobs, NEW i \in JobId, origin[i] = Nil, origin'[i] # Nil
      PROVE  origin'[i].link.tree # Nil
  BY Zenon, <1>2, <1>3, <1>4, OtherSteps
<1> QED
  BY Zenon, <1>1, <1>2, <1>4

\* Every step keeps lineages as they were derived.
LEMMA StepKeepsLineage ==
    ASSUME ForestsCounted, Counting, RInv, LineageDerived, [RetentionNext]_allVars
    PROVE  LineageDerived'
<1>1. RInv'
  BY Zenon, EachStep
<1>2. LineageDerived' <=> \A i \in JobId : Derived(origin', i)
  BY Zenon DEF LineageDerived, Derived
<1>3. \A i \in JobId : Derived(origin, i)
  BY Zenon DEF LineageDerived, Derived
<1>4. CASE Next /\ Stamps /\ AddsJobs
  <2>1. \A i \in JobId : Derived(Org(jobs'), i)
    BY Zenon, <1>4, AddJobLineage DEF AddsJobs
  <2> QED
    BY Zenon, <1>1, <1>2, <1>4, <2>1, FirstRows
<1>5. CASE Next /\ Stamps /\ ~AddsJobs
  <2> SUFFICES ASSUME NEW i \in JobId, origin'[i] # Nil, origin'[i].link.tree = Nil
               PROVE  Derived(origin', i)
    BY Zenon, <1>2 DEF Derived
  <2>1. origin[i] # Nil /\ origin'[i] = origin[i] /\ Derived(origin, i)
    BY Zenon, <1>1, <1>3, <1>5, FirstRows
  <2>2. ASSUME origin[i].link.parent # Nil
        PROVE  origin'[origin[i].link.parent] = origin[origin[i].link.parent]
    <3>1. origin[origin[i].link.parent] # Nil
      BY Zenon, <2>1, <2>2 DEF Derived
    <3>2. origin[i].link.parent \in JobId
      BY Zenon, <2>1, <2>2 DEF RInv, RetentionTypeOK, Job, Link
    <3> QED
      BY Zenon, <1>1, <1>5, <3>1, <3>2, FirstRows
  <2> QED
    BY Zenon, <2>1, <2>2 DEF Derived
<1>6. ASSUME origin' = origin
      PROVE  LineageDerived'
  BY Zenon, <1>2, <1>3, <1>6
<1>7. ASSUME NEW out \in SweepOutcomes, Swept(out)
      PROVE  origin' = origin
  BY Zenon, <1>7 DEF Swept
<1>8. UNCHANGED allVars => origin' = origin
  BY Zenon DEF allVars, retentionVars
<1> QED
  BY Zenon, <1>4, <1>5, <1>6, <1>7, <1>8, EachStep

\* ChainWindow is not inductive: a sweep may reset a counter of which it knows
\* only when it last moved, so no job of a lineage is younger than that.
ChainsCover ==
    MaxChainSize > 0 =>
        /\ Covers(origin, chains)
        /\ \A x \in JobId \cup Trace :
              /\ touched[x] <= now
              /\ \A i \in Lineage(origin, x) : origin[i].created <= touched[x]

\* Counters that are not reset cover a window that moves with the clock.
LEMMA WindowMoves ==
    ASSUME Counting, RInv, RInv', ChainsCover, MaxChainSize > 0,
           now' >= now, config' = config, chains' = chains,
           \A x \in JobId \cup Trace : Lineage(origin', x) = Lineage(origin, x),
           \A i \in JobId : origin[i] # Nil => origin'[i] = origin[i]
    PROVE  Covers(origin, chains)'
<1> SUFFICES ASSUME NEW x \in JobId \cup Trace
             PROVE  /\ Cardinality(Recent(origin, x)') <= chains[x]
                    /\ chains[x] <= Cardinality(Lineage(origin', x))
                    /\ chains[x] <= MaxChainSize
  <2>1. \A x : Lineage(origin, x)' = Lineage(origin', x)
    BY Zenon DEF Lineage
  <2> QED
    BY Zenon, <2>1 DEF Covers
<1>1. /\ Cardinality(Recent(origin, x)) <= chains[x]
      /\ chains[x] <= Cardinality(Lineage(origin, x))
      /\ chains[x] <= MaxChainSize
  BY Zenon DEF ChainsCover, Covers
<1>2. config.chainTtl \in Nat /\ now \in Nat /\ now' \in Nat
  <2>1. config \in RetentionConfig
    BY Zenon, ConfigAssumption DEF RInv, RetentionTypeOK
  <2>2. config.chainTtl \in Nat
    BY Zenon, <2>1 DEF RetentionConfig
  <2>3. now \in Nat /\ now' \in Nat
    BY Zenon, CountersTyped, CountersTypedNext
  <2> QED
    BY Zenon, <2>2, <2>3
<1>3. Recent(origin, x)' \in SUBSET Recent(origin, x)
  <2> SUFFICES ASSUME NEW i \in Recent(origin, x)'
               PROVE  i \in Recent(origin, x)
    BY Zenon
  <2>1. /\ i \in Lineage(origin', x)
        /\ config.chainTtl = 0 \/ origin'[i].created >= now' - config.chainTtl
    BY Zenon DEF Recent, Lineage
  <2>2. i \in Lineage(origin, x)
    BY Zenon, <2>1
  <2>3. i \in JobId /\ origin[i] # Nil
    BY Zenon, <2>2 DEF Lineage
  <2>4. origin'[i] = origin[i] /\ origin[i].created \in Nat
    BY Zenon, <2>3 DEF RInv, RetentionTypeOK, Job
  <2>5. config.chainTtl = 0 \/ origin[i].created >= now - config.chainTtl
    BY <1>2, <2>1, <2>4
  <2> QED
    BY Zenon, <2>2, <2>5 DEF Recent
<1>4. /\ Cardinality(Recent(origin, x)') <= Cardinality(Recent(origin, x))
      /\ Cardinality(Recent(origin, x)) \in Nat /\ Cardinality(Recent(origin, x)') \in Nat
  <2>1. Recent(origin, x) \in SUBSET JobId
    BY Zenon DEF Recent, Lineage
  <2>2. Recent(origin, x)' \in SUBSET JobId
    BY Zenon, <1>3, <2>1
  <2> QED
    BY Zenon, <1>3, <2>1, <2>2 DEF Counting
<1>5. chains[x] \in Nat
  BY Zenon DEF RInv, TypeOK
<1>6. Cardinality(Recent(origin, x)') <= chains[x]
  BY <1>1, <1>4, <1>5
<1> QED
  BY Zenon, <1>1, <1>6

\* A sweep resets only counters that have not moved for the time-to-live.
LEMMA SweepKeepsChains ==
    ASSUME Counting, RInv, ChainsCover, NEW out \in SweepOutcomes, Swept(out)
    PROVE  ChainsCover'
<1> SUFFICES ASSUME MaxChainSize > 0
             PROVE  ChainsCover'
  BY Zenon DEF ChainsCover
<1>1. /\ now' = now /\ config' = config /\ touched' = touched /\ origin' = origin
      /\ \A x \in JobId \cup Trace : chains'[x] = IF x \in out.chains THEN 0 ELSE chains[x]
  BY Zenon DEF Swept
<1>2. \A x : Lineage(origin, x)' = Lineage(origin, x) /\ Recent(origin, x)' = Recent(origin, x)
  BY Zenon, <1>1 DEF Lineage, Recent
<1>3. \A x \in JobId \cup Trace :
         /\ Cardinality(Recent(origin, x)) <= chains[x]
         /\ chains[x] <= Cardinality(Lineage(origin, x))
         /\ chains[x] <= MaxChainSize
         /\ touched[x] <= now
         /\ \A i \in Lineage(origin, x) : origin[i].created <= touched[x]
  BY Zenon DEF ChainsCover, Covers
<1>4. ASSUME NEW x \in JobId \cup Trace, x \in out.chains
      PROVE  Recent(origin, x) = {}
  <2>1. out.chains \in PruneChainCounters
    BY Zenon, OutcomeDeletes DEF Deletes
  <2>2. config.chainTtl # 0 /\ touched[x] < now - config.chainTtl
    BY Zenon, <1>4, <2>1 DEF PruneChainCounters, Oldest, Limited
  <2>3. config.chainTtl \in Nat /\ now \in Nat /\ touched[x] \in Nat
    <3>1. config \in RetentionConfig
      BY Zenon, ConfigAssumption DEF RInv, RetentionTypeOK
    <3>2. config.chainTtl \in Nat /\ touched[x] \in Nat
      BY Zenon, <3>1 DEF RetentionConfig, RInv, RetentionTypeOK
    <3>3. now \in Nat
      BY Zenon, CountersTyped
    <3> QED
      BY Zenon, <3>2, <3>3
  <2>4. ASSUME NEW i \in Recent(origin, x)
        PROVE  FALSE
    <3>1. i \in Lineage(origin, x) /\ origin[i].created >= now - config.chainTtl
      BY Zenon, <2>2, <2>4 DEF Recent
    <3>2. origin[i].created <= touched[x] /\ origin[i].created \in Nat
      BY Zenon, <1>3, <3>1 DEF Lineage, RInv, RetentionTypeOK, Job
    <3> QED
      BY <2>2, <2>3, <3>1, <3>2
  <2> QED
    BY Zenon, <2>4
<1>5. ASSUME NEW x \in JobId \cup Trace
      PROVE  /\ Cardinality(Recent(origin, x)) <= chains'[x]
             /\ chains'[x] <= Cardinality(Lineage(origin, x))
             /\ chains'[x] <= MaxChainSize
  <2>1. CASE x \notin out.chains
    BY Zenon, <1>1, <1>3, <2>1
  <2>2. CASE x \in out.chains
    <3>1. Lineage(origin, x) \in SUBSET JobId
      BY Zenon DEF Lineage
    <3>2. /\ chains'[x] = 0 /\ Cardinality(Recent(origin, x)) = 0
          /\ Cardinality(Lineage(origin, x)) \in Nat
      BY Zenon, <1>1, <1>4, <2>2, <3>1 DEF Counting
    <3> QED
      BY <3>2, EnqueueAssumption
  <2> QED
    BY Zenon, <2>1, <2>2
<1>6. Covers(origin, chains)'
  BY Zenon, <1>2, <1>5 DEF Covers
<1> QED
  BY Zenon, <1>1, <1>2, <1>3, <1>6 DEF ChainsCover

\* Every step keeps the counters of the lineages covering, if the clock is not
\* set back.
LEMMA StepKeepsChains ==
    ASSUME ForestsCounted, Counting, ~ClockMayStepBack, RInv, ChainsCover,
           [RetentionNext]_allVars
    PROVE  ChainsCover'
<1> SUFFICES ASSUME MaxChainSize > 0
             PROVE  ChainsCover'
  BY Zenon DEF ChainsCover
<1>1. RInv'
  BY Zenon, EachStep
<1>2. /\ Covers(origin, chains)
      /\ \A x \in JobId \cup Trace :
            touched[x] <= now /\ \A i \in Lineage(origin, x) : origin[i].created <= touched[x]
  BY Zenon DEF ChainsCover
<1>3. /\ now \in Nat /\ now' \in Nat /\ \A x \in JobId \cup Trace : touched[x] \in Nat
      /\ \A i \in JobId : origin[i] # Nil => origin[i].created \in Nat
  <2>1. /\ \A x \in JobId \cup Trace : touched[x] \in Nat
        /\ \A i \in JobId : origin[i] # Nil => origin[i].created \in Nat
    BY Zenon DEF RInv, RetentionTypeOK, Job
  <2>2. now \in Nat /\ now' \in Nat
    BY Zenon, <1>1, CountersTyped, CountersTypedNext
  <2> QED
    BY Zenon, <2>1, <2>2
<1>4. \A x : Lineage(origin, x)' = Lineage(origin', x)
  BY Zenon DEF Lineage
<1>5. ASSUME Next, Stamps, AddsJobs
      PROVE  ChainsCover'
  <2>1. now' = now /\ Covers(Org(jobs'), chains') /\ Advanced(jobs', chains')
    BY Zenon, <1>2, <1>5, AddJobLineage DEF AddsJobs
  <2>2. /\ origin' = Org(jobs') /\ config' = config
        /\ \A i \in JobId : origin[i] # Nil => origin'[i] = origin[i]
        /\ \A i \in JobId : origin[i] = Nil => origin'[i] = jobs'[i]
    BY Zenon, <1>1, <1>5, FirstRows DEF Stamps
  <2>3. Covers(origin, chains)'
    <3>1. \A x : Recent(origin, x)' = Recent(origin', x)
      BY Zenon, <1>4, <2>1, <2>2 DEF Recent
    <3> QED
      BY Zenon, <1>4, <2>1, <2>2, <3>1 DEF Covers
  <2>4. \A x \in JobId \cup Trace :
           touched'[x] = IF chains'[x] # chains[x] THEN now ELSE touched[x]
    BY Zenon, <1>5 DEF Stamps, Stamped, RInv, RetentionTypeOK
  <2>5. ASSUME NEW x \in JobId \cup Trace
        PROVE  /\ touched'[x] <= now'
               /\ \A i \in Lineage(origin', x) : origin'[i].created <= touched'[x]
    <3>1. touched'[x] \in {now, touched[x]} /\ touched[x] <= now /\ touched[x] \in Nat
      BY Zenon, <1>2, <1>3, <2>4
    <3>2. touched[x] <= touched'[x] /\ touched'[x] <= now'
      BY <1>3, <2>1, <3>1
    <3>3. ASSUME NEW i \in Lineage(origin', x)
          PROVE  origin'[i].created <= touched'[x]
      <4>1. /\ i \in JobId /\ origin'[i] # Nil /\ origin'[i].link.tree = Nil
            /\ origin'[i].link.trace = x
        BY Zenon, <3>3 DEF Lineage
      <4>2. CASE origin[i] # Nil
        <5>1. origin'[i] = origin[i] /\ i \in Lineage(origin, x)
          BY Zenon, <2>2, <4>1, <4>2 DEF Lineage
        <5>2. origin[i].created <= touched[x] /\ origin[i].created \in Nat
          BY Zenon, <1>2, <1>3, <4>1, <4>2, <5>1
        <5>3. origin[i].created <= touched'[x]
          BY <1>3, <3>1, <3>2, <5>2
        <5> QED
          BY Zenon, <5>1, <5>3
      <4>3. CASE origin[i] = Nil
        <5>1. /\ origin'[i] = jobs'[i] /\ jobs'[i].created = now
              /\ chains'[x] > chains[x]
          BY Zenon, <2>1, <2>2, <4>1, <4>3 DEF Advanced
        <5>2. chains[x] \in Nat /\ chains'[x] \in Nat
          BY Zenon, <1>1 DEF RInv, TypeOK
        <5>3. chains'[x] # chains[x]
          BY <5>1, <5>2
        <5>4. touched'[x] = now /\ now <= now
          BY <1>3, <2>4, <5>3
        <5> QED
          BY Zenon, <5>1, <5>4
      <4> QED
        BY Zenon, <4>2, <4>3
    <3> QED
      BY Zenon, <3>2, <3>3
  <2> QED
    BY Zenon, <1>4, <2>3, <2>5 DEF ChainsCover
<1>6. ASSUME chains' = chains, touched' = touched, config' = config, now' >= now,
             \A i \in JobId : origin[i] # Nil => origin'[i] = origin[i],
             \A i \in JobId : origin[i] = Nil /\ origin'[i] # Nil => origin'[i].link.tree # Nil
      PROVE  ChainsCover'
  <2>1. \A x : Lineage(origin', x) = Lineage(origin, x)
    BY Zenon, <1>6, RowsNotNil DEF Lineage
  <2>2. Covers(origin, chains)'
    BY Zenon, <1>1, <1>6, <2>1, WindowMoves
  <2>3. \A x \in JobId \cup Trace :
           touched[x] <= now' /\ \A i \in Lineage(origin, x) : origin'[i].created <= touched[x]
    <3>1. \A x \in JobId \cup Trace : touched[x] <= now'
      BY <1>2, <1>3, <1>6
    <3>2. \A x : \A i \in Lineage(origin, x) : origin'[i] = origin[i]
      BY Zenon, <1>6 DEF Lineage
    <3> QED
      BY Zenon, <1>2, <3>1, <3>2
  <2> QED
    BY Zenon, <1>4, <1>6, <2>1, <2>2, <2>3 DEF ChainsCover
<1>7. ASSUME Next, Stamps, ~AddsJobs
      PROVE  ChainsCover'
  <2>1. chains' = chains /\ config' = config
    BY Zenon, <1>7, OtherSteps DEF Stamps
  <2>2. touched' = touched
    <3>1. touched' = [k \in JobId \cup Trace |-> touched[k]]
      BY Zenon, <1>7, <2>1 DEF Stamps, Stamped, RInv, RetentionTypeOK
    <3>2. touched = [k \in JobId \cup Trace |-> touched[k]]
      BY Zenon DEF RInv, RetentionTypeOK
    <3> QED
      BY Zenon, <3>1, <3>2
  <2>3. now' >= now
    BY Zenon, <1>7, ClockAdvances DEF RInv
  <2> QED
    BY Zenon, <1>1, <1>6, <1>7, <2>1, <2>2, <2>3, FirstRows
<1>8. CASE UNCHANGED allVars
  <2>1. /\ chains' = chains /\ touched' = touched /\ config' = config /\ now' = now
        /\ origin' = origin
    BY Zenon, <1>8 DEF allVars, vars, retentionVars
  <2>2. now' >= now
    BY <1>3, <2>1
  <2> QED
    BY Zenon, <1>6, <2>1, <2>2
<1>9. ASSUME NEW out \in SweepOutcomes, Swept(out)
      PROVE  ChainsCover'
  BY Zenon, <1>9, SweepKeepsChains
<1> QED
  BY Zenon, <1>5, <1>7, <1>8, <1>9, EachStep
=============================================================================
