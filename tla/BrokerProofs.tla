---------------------------- MODULE BrokerProofs ----------------------------
(***************************************************************************)
(* Theorems about Broker, for every value of its constants: its safety     *)
(* properties, its limits, slots, cascades, gates and claims, what stays   *)
(* true beside the retention sweeper, and how it implements AbstractQueue. *)
(***************************************************************************)
EXTENDS BrokerSteps, RetentionSteps, FiniteSetTheorems

\* A forest is a finite sequence, so fan-outs and roots are natural numbers.
LEMMA AllCounted == ForestsCounted
<1> SUFFICES ASSUME NEW f \in Seq(Node), NEW p \in Nat
             PROVE  Cardinality({k \in DOMAIN f : f[k].parent = p}) \in Nat
  BY Zenon DEF ForestsCounted, Counted
<1>1. DOMAIN f = 1..Len(f) /\ Len(f) \in Nat
  OBVIOUS
<1>2. IsFiniteSet(1..Len(f))
  BY <1>1, FS_Interval
<1>3. IsFiniteSet({k \in DOMAIN f : f[k].parent = p})
  BY Zenon, <1>1, <1>2, FS_Subset
<1> QED
  BY Zenon, <1>3, FS_CardinalityType

\* A freshly migrated database satisfies the inductive invariant.
LEMMA InitInvariant ==
    ASSUME Init
    PROVE  IInv
<1>1. TypeOK
  <2>1. 0 \in 0..MaxTime /\ 0 \in 0..MaxJobs
    BY BoundAssumption
  <2> QED
    BY Zenon, <2>1 DEF Init, TypeOK
<1>2. \A i \in JobId : ~Live(i) /\ ~Finished(i) /\ ~(i <= 0)
  BY DEF Init, Live, Finished, JobId
<1> QED
  BY Zenon, <1>1, <1>2 DEF IInv, Init, NoJobLost, ClaimsExclusive, AttemptBudget, AcksAgree,
                    CompletionsClaimed, Completed

\* The invariant holds of the broker, whatever its limits, workers and requests.
THEOREM InductiveInvariant == Spec => []IInv
<1>1. Init => IInv
  BY Zenon, InitInvariant
<1>2. IInv /\ [Next]_vars => IInv'
  BY Zenon, AllCounted, StepKeepsInvariant
<1> QED
  BY <1>1, <1>2, PTL DEF Spec

\* Every table stays well-formed: no handler writes a row that another cannot
\* read, whichever order requests, lease expiries and merges come in.
THEOREM TypeCorrect == Spec => []TypeOK
<1>1. IInv => TypeOK
  BY DEF IInv
<1> QED
  BY <1>1, InductiveInvariant, PTL

\* No accepted job is ever lost or in both tables, for any number of jobs.
THEOREM JobsConserved == Spec => []NoJobLost
<1>1. IInv => NoJobLost
  BY DEF IInv
<1> QED
  BY <1>1, InductiveInvariant, PTL

\* An attempt of a job is granted to one worker only, for any number of workers
\* and whatever the clock does.
THEOREM ClaimsAreExclusive == Spec => []ClaimsExclusive
<1>1. IInv => ClaimsExclusive
  BY DEF IInv
<1> QED
  BY <1>1, InductiveInvariant, PTL

\* No job runs more often than its max_attempts.
THEOREM AttemptsWithinBudget == Spec => []AttemptBudget
<1>1. IInv => AttemptBudget
  BY DEF IInv
<1> QED
  BY <1>1, InductiveInvariant, PTL

\* What CompleteJob and FailJob were told stays true: stale, duplicated and
\* replayed acknowledgements never contradict an earlier one.
THEOREM AcknowledgementsAgree == Spec => []AcksAgree
<1>1. IInv => AcksAgree
  BY DEF IInv
<1> QED
  BY <1>1, InductiveInvariant, PTL

\* No step rewrites the history row of a finished job.
THEOREM OutcomesAreFinal == Spec => OutcomeFinal
<1>1. IInv /\ [Next]_vars
        => [\A i \in JobId : Finished(i) => history'[i] = history[i]]_vars
  BY Zenon, AllCounted, StepKeepsOutcomes
<1> QED
  BY <1>1, InductiveInvariant, PTL DEF Spec, OutcomeFinal

\* No window of a facet holds more claims than the rule in force allows.
THEOREM DispatchLimited == Spec => []DispatchWithinRule
<1>1. Init => DispatchWithinRule
  BY Zenon DEF Init, DispatchWithinRule
<1>2. TypeOK /\ DispatchWithinRule /\ [Next]_vars => DispatchWithinRule'
  BY Zenon, StepWithinDispatchRule
<1> QED
  BY <1>1, <1>2, TypeCorrect, PTL DEF Spec

\* Neither window of a facet admits more jobs than the rule in force allows,
\* also when a batch reaches the limit half way.
THEOREM AdmissionLimited == Spec => []AdmissionWithinRule
<1>1. Init => AdmissionWithinRule
  BY Zenon DEF Init, AdmissionWithinRule
<1>2. TypeOK /\ AdmissionWithinRule /\ [Next]_vars => AdmissionWithinRule'
  BY StepWithinIngressRule
<1> QED
  BY <1>1, <1>2, TypeCorrect, PTL DEF Spec

\* A rejected AddJob or AddJobBulk leaves its record and nothing else.
THEOREM RejectionsLeaveNothing == Spec => RejectionLeavesNothing
<1>1. [Next]_vars => [rejections' # rejections =>
                        UNCHANGED <<issued, jobs, receipts, ingressBuckets, chains>>]_vars
  BY Zenon, StepRejects
<1> QED
  BY <1>1, PTL DEF Spec, RejectionLeavesNothing

\* The broker implements the abstract queue, for any number of jobs, workers and
\* requests: whatever the RPC handlers and the recovery loop do, in any order and
\* under any clock, a client sees only submissions, exclusive grants within the
\* budget, and one verdict per job that is told to the owner alone.
THEOREM BrokerImplementsQueue == Spec => ImplementsQueue
<1>1. Init => Abstract!Init
  <2> SUFFICES ASSUME Init
               PROVE  Abstract!Init
    OBVIOUS
  <2>1. \A i \in JobId : ~Live(i) /\ ~Finished(i)
    BY Zenon DEF Init, Live, Finished
  <2>2. \A i \in JobId : View(i) = Abstract!Absent
    BY Zenon, <2>1 DEF View, Abstract!Absent
  <2> QED
    BY Zenon, <2>2 DEF Abstract!Init, Init
<1>2. IInv /\ [Next]_vars => [Abstract!Next]_<<[i \in JobId |-> View(i)], acks>>
  BY AllCounted, StepImplements
<1> QED
  BY <1>1, <1>2, InductiveInvariant, PTL DEF Spec, ImplementsQueue, Abstract!Spec

\* Whatever order requests, retries, lease expiries and merges come in, the slots
\* are sound.
THEOREM SlotInvariant == Spec => []SlotsInv
<1>1. Init => SlotsInv
  <2> SUFFICES ASSUME Init
               PROVE  SlotsInv
    OBVIOUS
  <2>1. 1..issued = {} /\ \A s \in Slot : receipts[s] = Nil
    BY DEF Init
  <2> QED
    BY Zenon, <2>1 DEF SlotsInv, Slotted
<1>2. IInv /\ SlotsInv /\ [Next]_vars => SlotsInv'
  BY AllCounted, StepKeepsSlotsInv
<1> QED
  BY <1>1, <1>2, InductiveInvariant, PTL DEF Spec

\* An idempotency slot always leads to the live job that holds it or to the job
\* that kept it, and release_on_finish frees it on every terminal path.
THEOREM SlotsAlwaysSound == Spec => []SlotsSound
<1>1. IInv /\ SlotsInv => SlotsSound
  BY Zenon, SlotsInvImplies
<1> QED
  BY <1>1, InductiveInvariant, SlotInvariant, PTL

\* A key runs again only if its earlier job asked for release and is terminal,
\* for any number of AddJob, AddJobBulk, flow and merge requests.
THEOREM NoWorkDuplicated == Spec => []NoDuplicateWork
<1>1. IInv /\ SlotsInv => NoDuplicateWork
  BY Zenon, SlotsInvImplies
<1> QED
  BY <1>1, InductiveInvariant, SlotInvariant, PTL

\* FailJob fails exactly the ancestors its flags reach, however deep the tree and
\* whichever of them are already terminal.
THEOREM FailuresFollowFlags == Spec => FailureFollowsFlags
<1>1. IInv /\ [Next]_vars => [acks' # acks => \A i \in JobId : Follows(i)]_vars
  BY Zenon, AllCounted, StepFollowsFlags
<1> QED
  BY <1>1, InductiveInvariant, PTL DEF Spec, FailureFollowsFlags, Follows
-----------------------------------------------------------------------------
(***************************************************************************)
(* The broker beside its retention sweeper                                 *)
(***************************************************************************)

\* Jobs are numbered, so sets of them can be counted.
LEMMA JobsCounted == Counting
<1>1. IsFiniteSet(JobId)
  BY BoundAssumption, FS_Interval DEF JobId
<1>2. ASSUME NEW S \in SUBSET JobId
      PROVE  IsFiniteSet(S) /\ Cardinality(S) \in Nat
  BY Zenon, <1>1, FS_Subset, FS_CardinalityType
<1>3. ASSUME NEW S \in SUBSET JobId, NEW T \in SUBSET S
      PROVE  Cardinality(T) <= Cardinality(S) /\ (Cardinality(T) = Cardinality(S) => T = S)
  BY Zenon, <1>2, FS_Subset
<1>4. ASSUME NEW S \in SUBSET JobId, NEW i \in JobId \ S
      PROVE  Cardinality(S \cup {i}) = Cardinality(S) + 1
  BY Zenon, <1>2, FS_AddElement
<1>5. Cardinality({}) = 0
  BY FS_EmptySet
<1> QED
  BY Zenon, <1>2, <1>3, <1>4, <1>5 DEF Counting

\* Every table stays well-formed, every job keeps the options and the lineage it
\* was accepted with in whichever table it is, and no job is live once it has
\* ended, whatever the sweeper takes and whenever.
THEOREM RetentionInvariant == RetentionSpec => []RInv
<1>1. RetentionInit => RInv
  BY RetentionInitInvariant
<1>2. RInv /\ [RetentionNext]_allVars => RInv'
  BY Zenon, AllCounted, EachStep
<1> QED
  BY <1>1, <1>2, PTL DEF RetentionSpec

\* Whatever a sweep forgets, no two waiting jobs change places.
THEOREM SweepsKeepOrder == RetentionSpec => SweepKeepsOrder
<1>1. RInv /\ [RetentionNext]_allVars
        => [jobs' = jobs =>
              \A i, j \in JobId : Live(i) /\ Live(j) => (Before(i, j)' <=> Before(i, j))]_allVars
  BY Zenon, AllCounted, StepKeepsOrder
<1> QED
  BY <1>1, RetentionInvariant, PTL DEF RetentionSpec, SweepKeepsOrder

\* As long as the clock is not set back, pruning by age alone never takes a job
\* to which a duplicate of its last request may still arrive.
THEOREM AgeKeepsReplays ==
    ASSUME ~ClockMayStepBack
    PROVE  RetentionSpec => []AgeKeepsReplay
<1>1. RetentionInit => Aged
  BY Zenon DEF RetentionInit, Aged
<1>2. RInv /\ Aged /\ [RetentionNext]_allVars => Aged'
  BY Zenon, AllCounted, StepKeepsAged
<1>3. RInv /\ Aged => AgeKeepsReplay
  <2> SUFFICES ASSUME RInv, Aged, config.completedCount = 0, config.failedCount = 0,
                      NEW i \in JobId, RecentlyEnded(i)
               PROVE  Finished(i)
    BY Zenon DEF AgeKeepsReplay
  <2>1. ended[i] # Nil /\ now - ended[i].finished <= MinAge
    BY Zenon DEF RecentlyEnded
  <2>2. ended[i].finished \in Nat
    BY Zenon, <2>1 DEF RInv, RetentionTypeOK, Archived
  <2>3. now \in Nat /\ MinAge \in Nat
    BY LeaseAssumption DEF RInv, TypeOK, MinAge
  <2>4. ~(ended[i].finished + MinAge < now)
    BY <2>1, <2>2, <2>3
  <2> QED
    BY Zenon, <2>1, <2>4 DEF Aged
<1> QED
  BY <1>1, <1>2, <1>3, RetentionInvariant, PTL DEF RetentionSpec

\* With the age limits off, the newest jobs of each name and outcome stay, as many
\* as the count limits keep.
THEOREM NewestAreKept == RetentionSpec => []NewestKept
<1>1. RetentionInit => Replaced
  BY Zenon DEF RetentionInit, Replaced
<1>2. RInv /\ Replaced /\ [RetentionNext]_allVars => Replaced'
  BY Zenon, AllCounted, JobsCounted, StepKeepsNewest
<1>3. Replaced => NewestKept
  BY Zenon DEF Replaced, NewestKept, StandIns, Keep
<1> QED
  BY <1>1, <1>2, <1>3, RetentionInvariant, PTL DEF RetentionSpec

\* The key of a job leads to it as long as the job is in a table and has not given
\* the key back, whatever sweeps and requests come in between.
THEOREM DedupWindowHolds == RetentionSpec => []DedupWindow
<1>1. RetentionInit => SlotWindow
  <2> SUFFICES ASSUME RetentionInit
               PROVE  SlotWindow
    OBVIOUS
  <2>1. 1..issued = {} /\ \A s \in Slot : receipts[s] = Nil
    BY DEF RetentionInit, Init
  <2> QED
    BY Zenon, <2>1 DEF SlotWindow, Slotted
<1>2. RInv /\ SlotWindow /\ [RetentionNext]_allVars => SlotWindow'
  BY Zenon, AllCounted, StepKeepsSlotWindow
<1>3. RInv /\ SlotWindow => DedupWindow
  BY Zenon, SlotWindowImplies
<1> QED
  BY <1>1, <1>2, <1>3, RetentionInvariant, PTL DEF RetentionSpec

\* Every job that AddJob or AddJobBulk inserts continues its parent's lineage, and
\* none is deeper than the circuit breaker allows.
THEOREM LineagesDerived == RetentionSpec => []LineageDerived
<1>1. RetentionInit => LineageDerived
  BY Zenon DEF RetentionInit, LineageDerived
<1>2. RInv /\ LineageDerived /\ [RetentionNext]_allVars => LineageDerived'
  BY Zenon, AllCounted, JobsCounted, StepKeepsLineage
<1> QED
  BY <1>1, <1>2, RetentionInvariant, PTL DEF RetentionSpec

\* As long as the clock is not set back, no lineage gets more than max_chain_size
\* jobs within the time-to-live of its counter, however the sweeper prunes.
THEOREM ChainWindowHolds ==
    ASSUME ~ClockMayStepBack
    PROVE  RetentionSpec => []ChainWindow
<1>1. RetentionInit => ChainsCover
  <2> SUFFICES ASSUME RetentionInit, NEW x \in JobId \cup Trace
               PROVE  /\ Cardinality(Recent(origin, x)) <= chains[x]
                      /\ chains[x] <= Cardinality(Lineage(origin, x))
                      /\ chains[x] <= MaxChainSize
                      /\ touched[x] <= now /\ Lineage(origin, x) = {}
    BY Zenon DEF ChainsCover, Covers
  <2>1. Lineage(origin, x) = {} /\ Recent(origin, x) = {}
    BY Zenon DEF RetentionInit, Lineage, Recent
  <2>2. chains[x] = 0 /\ touched[x] = 0 /\ now = 0
    BY Zenon DEF RetentionInit, Init
  <2>3. Cardinality({}) = 0
    BY FS_EmptySet
  <2>4. Cardinality(Lineage(origin, x)) = 0 /\ Cardinality(Recent(origin, x)) = 0
    BY Zenon, <2>1, <2>3
  <2> QED
    BY <2>1, <2>2, <2>4, EnqueueAssumption
<1>2. RInv /\ ChainsCover /\ [RetentionNext]_allVars => ChainsCover'
  BY Zenon, AllCounted, JobsCounted, StepKeepsChains
<1>3. ChainsCover => ChainWindow
  BY Zenon DEF ChainsCover, Covers, Recent, Lineage, ChainWindow
<1> QED
  BY <1>1, <1>2, <1>3, RetentionInvariant, PTL DEF RetentionSpec
-----------------------------------------------------------------------------
(***************************************************************************)
(* The gates of flow parents and the claims behind them                    *)
(***************************************************************************)

\* Sets of jobs are finite, and numbering the nodes of a forest is one to one.
LEMMA GatesCounted == GateCounting
<1>1. IsFiniteSet(JobId)
  BY BoundAssumption, FS_Interval DEF JobId
<1>2. ASSUME NEW S \in SUBSET JobId
      PROVE  /\ IsFiniteSet(S)
             /\ Cardinality(S) \in Nat
             /\ Cardinality(S) = 0 <=> S = {}
  BY Zenon, <1>1, FS_Subset, FS_CardinalityType, FS_EmptySet
<1>3. ASSUME NEW S \in SUBSET JobId, NEW i \in S
      PROVE  Cardinality(S \ {i}) = Cardinality(S) - 1
  BY <1>2, FS_RemoveElement
<1>4. ASSUME NEW S \in SUBSET JobId, NEW T \in SUBSET JobId, S \cap T = {}
      PROVE  Cardinality(S \cup T) = Cardinality(S) + Cardinality(T)
  <2>1. Cardinality(S) \in Nat /\ Cardinality(T) \in Nat /\ IsFiniteSet(S) /\ IsFiniteSet(T)
    BY Zenon, <1>2
  <2>2. Cardinality(S \cup T) = Cardinality(S) + Cardinality(T) - Cardinality(S \cap T)
    BY Zenon, <2>1, FS_Union
  <2>3. Cardinality(S \cap T) = 0
    BY Zenon, <1>4, FS_EmptySet
  <2> QED
    BY <2>1, <2>2, <2>3
<1>5. ASSUME NEW n \in Nat, NEW K \in SUBSET JobId
      PROVE  Cardinality({n + k : k \in K}) = Cardinality(K)
  <2> DEFINE T == {n + k : k \in K}
             f == [k \in K |-> n + k]
  <2>1. K \subseteq Nat
    BY DEF JobId
  <2>2. f \in [K -> T] /\ \A k \in K : f[k] = n + k
    BY Zenon
  <2>3. \A a, b \in K : f[a] = f[b] => a = b
    BY <2>1, <2>2
  <2>4. \A t \in T : \E k \in K : f[k] = t
    BY Zenon, <2>2
  <2> HIDE DEF f
  <2>5. f \in Bijection(K, T)
    BY Zenon, <2>2, <2>3, <2>4 DEF Bijection, Injection, Surjection, IsInjective
  <2> QED
    BY Zenon, <1>2, <2>5, FS_Bijection DEF ExistsBijection
<1> QED
  BY Zenon, <1>2, <1>3, <1>4, <1>5 DEF GateCounting

\* The inductive invariant of the gates holds as long as every child comes with
\* its tree: AddJob and AddJobBulk name no parent_job_id.
LEMMA GatesInvariant ==
    ASSUME NoNamedParents
    PROVE  Spec => []GateInv
<1>1. Init => GateInv
  <2> SUFFICES ASSUME Init
               PROVE  GateInv
    BY Zenon
  <2>1. IInv
    BY Zenon, InitInvariant
  <2>2. issued = 0 /\ 1..issued = {}
    BY DEF Init
  <2> QED
    BY Zenon, <2>1, <2>2 DEF GateInv, ParentsFirst
<1>2. GateInv /\ [Next]_vars => GateInv'
  BY Zenon, AllCounted, GatesCounted, StepKeepsGates
<1> QED
  BY <1>1, <1>2, PTL DEF Spec

\* Flow parents, of any shape of tree and any nesting: pending_children is always
\* the number of children not yet Completed, a parent waits exactly while there is
\* one, and none is Completed before its children are, in whatever order children
\* finish, fail, retry, lose their lease or are merged.
THEOREM GatesHold ==
    ASSUME NoNamedParents
    PROVE  Spec => []GateHolds
BY GatesInvariant, GateInvHolds, PTL

\* And nothing claims a parent while a child of its tree is live: only a child
\* that AddJob names, which complete_child subtracts although no tree counted it,
\* can release a parent early.
THEOREM ParentsWait ==
    ASSUME NoNamedParents
    PROVE  Spec => []NotClaimableBeforeChildren
<1>1. GateInv => NotClaimableBeforeChildren
  BY Zenon, GatesHoldBack
<1> QED
  BY <1>1, GatesInvariant, PTL

\* While a lease runs nobody else ends or shortens it: a claim outlives every
\* other worker's call, every operator's call and every recovery, for as long as
\* no parent runs while a child that would fail it is live.
THEOREM ClaimsOutliveOthers == Spec /\ []FlaggedParentsRest => ClaimProtected
<1>1. IInv /\ FlaggedParentsRest /\ [Next]_vars
      => [\A i \in JobId :
             Active(i) /\ jobs[i].lease > now =>
                \/ /\ Active(i)'
                   /\ jobs'[i].worker = jobs[i].worker
                   /\ jobs'[i].attempts = jobs[i].attempts
                   /\ jobs'[i].lease >= jobs[i].lease
                \/ \E a \in acks' \ acks :
                      /\ a.id = i
                      /\ a.worker = jobs[i].worker
                      /\ a.attempt = jobs[i].attempts]_vars
  BY Zenon, AllCounted, StepProtects DEF Protected
<1> QED
  BY <1>1, InductiveInvariant, PTL DEF Spec, ClaimProtected

\* The parents of trees are such parents, so behind the flow API alone every
\* running claim is safe.
THEOREM ClaimsProtected ==
    ASSUME NoNamedParents
    PROVE  Spec => ClaimProtected
<1>1. GateInv => FlaggedParentsRest
  BY Zenon, GatesHoldBack
<1> QED
  BY <1>1, GatesInvariant, ClaimsOutliveOthers, PTL
=============================================================================
