----------------------------- MODULE Retention -----------------------------
(***************************************************************************)
(* The retention sweeper, src/retention.rs, beside the running broker.  A  *)
(* sweep is one IMMEDIATE transaction on the shared writer: eight bounded  *)
(* deletes in a fixed order, each seeing what the ones before it removed.  *)
(* A failed sweep rolls back and is a stuttering step.                     *)
(***************************************************************************)
EXTENDS Broker

CONSTANT Configs   \* RetentionConfig values an operator may start with

\* Ages and times-to-live are durations, counts are rows per name; 0 disables.
\* The sweep interval is left to the clock.
RetentionConfig ==
    [completedAge: Nat, completedCount: Nat, failedAge: Nat, failedCount: Nat,
     batch: Nat \ {0}, chainTtl: Nat, facetTtl: Nat, rejectionsAge: Nat]

ASSUME ConfigAssumption == Configs \subseteq RetentionConfig

\* min_age_ms: how long a completion may still be replayed against job_history.
MinAge == 2 * LeaseDuration

\* A validation that forgets the safety floor.
ValidConfig_NoFloor(c) == TRUE

\* RetentionConfig::validate; the signs are in the type.
ValidConfig(c) ==
    /\ c.completedAge # 0 => c.completedAge >= MinAge
    /\ c.failedAge # 0 => c.failedAge >= MinAge

\* A sweeper that starts only for the count limits.
Enabled_CountsOnly(c) == c.completedCount > 0 \/ c.failedCount > 0

Enabled(c) ==
    \E field \in DOMAIN c \ {"batch"} : c[field] > 0

VARIABLES
    config,    \* the RetentionConfig the process started with
    touched,   \* chain_counters.updated_at
    served,    \* facet_dispatch.last_served_at
    origin,    \* auxiliary: the row each job was inserted with
    ended      \* auxiliary: the history row each finished job was given

retentionVars == <<config, touched, served, origin, ended>>
allVars == <<vars, retentionVars>>

RetentionInit ==
    /\ Init
    /\ config \in {c \in Configs : ValidConfig(c)}
    /\ touched = [t \in JobId \cup Trace |-> 0]
    /\ served = [f \in Facet \cup {Nil} |-> 0]
    /\ origin = [i \in JobId |-> Nil]
    /\ ended = [i \in JobId |-> Nil]

\* The time columns the handlers of Broker write along with the counters.
Stamped(stamp, before, after) ==
    [k \in DOMAIN stamp |-> IF after[k] # before[k] THEN now ELSE stamp[k]]

Stamps ==
    /\ touched' = Stamped(touched, chains, chains')
    /\ served' = Stamped(served, dispatch, dispatch')
    /\ origin' = [i \in JobId |-> IF origin[i] = Nil THEN jobs'[i] ELSE origin[i]]
    /\ ended' = [i \in JobId |-> IF history'[i] # Nil THEN history'[i] ELSE ended[i]]
    /\ UNCHANGED config

BrokerStep == Next /\ Stamps
-----------------------------------------------------------------------------
(***************************************************************************)
(* The deletes.  Each operator is the set of row sets its statement may    *)
(* select; there are several when the order leaves a tie.                  *)
(***************************************************************************)

\* LIMIT batch of the rows S, in no particular order.
Limited(S) ==
    {B \in SUBSET S : Cardinality(B) = Least(config.batch, Cardinality(S))}

\* ORDER BY at ASC LIMIT batch.
Oldest(S, at) ==
    {B \in Limited(S) : \A r \in B, s \in S \ B : at[r] <= at[s]}

InState(h, state) == {i \in JobId : h[i] # Nil /\ h[i].state = state}

PruneAge(h, state, age) ==
    LET old == {i \in InState(h, state) : h[i].finished < now - age}
    IN  IF age = 0 THEN {{}} ELSE Oldest(old, [i \in old |-> h[i].finished])

\* A count that is kept over all names together.
PruneCount_AcrossNames(h, state, keep) ==
    LET rows == InState(h, state)
        newest == {K \in SUBSET rows :
                     /\ Cardinality(K) = Least(keep, Cardinality(rows))
                     /\ \A i \in K, j \in rows \ K : h[i].finished >= h[j].finished}
    IN  IF keep = 0 THEN {{}} ELSE UNION {Limited(rows \ K) : K \in newest}

\* The newest `keep` rows of each name stay; any `batch` of the others go.
PruneCount(h, state, keep) ==
    LET rows == InState(h, state)
        named(S, n) == {i \in S : h[i].opts.name = n}
        newest == {K \in SUBSET rows : \A n \in Queue :
                     /\ Cardinality(named(K, n)) = Least(keep, Cardinality(named(rows, n)))
                     /\ \A i \in named(K, n), j \in named(rows \ K, n) :
                           h[i].finished >= h[j].finished}
    IN  IF keep = 0 THEN {{}} ELSE UNION {Limited(rows \ K) : K \in newest}

\* A prune that looks for the job in the live table only.
PruneReceipts_LiveOnly(h) ==
    Limited({s \in Slot : receipts[s] # Nil /\ jobs[receipts[s].job] = Nil})

\* Receipts whose job is in neither table.
PruneReceipts(h) ==
    Limited({s \in Slot : /\ receipts[s] # Nil
                          /\ jobs[receipts[s].job] = Nil
                          /\ h[receipts[s].job] = Nil})

\* A prune by age of the lineage, not of its last job.
PruneChainCounters_Any ==
    Limited({t \in JobId \cup Trace : chains[t] > 0 /\ config.chainTtl > 0})

PruneChainCounters ==
    LET idle == {t \in JobId \cup Trace :
                    chains[t] > 0 /\ touched[t] < now - config.chainTtl}
    IN  IF config.chainTtl = 0 THEN {{}} ELSE Oldest(idle, touched)

\* A prune that does not ask whether the facet still has jobs.
PruneFacetDispatch_Queued ==
    LET idle == {f \in Facet \cup {Nil} :
                    dispatch[f] > 0 /\ served[f] < now - config.facetTtl}
    IN  IF config.facetTtl = 0 THEN {{}} ELSE Oldest(idle, served)

PruneFacetDispatch ==
    LET idle == {f \in Facet \cup {Nil} :
                    /\ dispatch[f] > 0
                    /\ served[f] < now - config.facetTtl
                    /\ \A i \in JobId : Live(i) => jobs[i].opts.facet # f}
    IN  IF config.facetTtl = 0 THEN {{}} ELSE Oldest(idle, served)

\* A record of `rejections` may stand for several rows, so a batch may take
\* fewer records than its size.
PruneRejections ==
    LET old == {r \in rejections : r.at < now - config.rejectionsAge}
    IN  IF config.rejectionsAge = 0 THEN {{}}
        ELSE {B \in SUBSET old :
                 /\ Cardinality(B) <= config.batch
                 /\ \A r \in B, s \in old \ B : r.at <= s.at}

Without(table, gone, empty) ==
    [k \in DOMAIN table |-> IF k \in gone THEN empty ELSE table[k]]
-----------------------------------------------------------------------------
\* What one sweep may delete: SweepOutcome, with the rows and not their number.
SweepOutcomes ==
    UNION {UNION {UNION {UNION {
        LET h == Without(history, ca \cup fa \cup cc \cup fc, Nil)
        IN  [completed: {ca \cup cc}, failed: {fa \cup fc},
             receipts: PruneReceipts(h), chains: PruneChainCounters,
             facets: PruneFacetDispatch, rejections: PruneRejections]
      : fc \in PruneCount(Without(history, ca \cup fa \cup cc, Nil), "Failed", config.failedCount)}
      : cc \in PruneCount(Without(history, ca \cup fa, Nil), "Completed", config.completedCount)}
      : fa \in PruneAge(Without(history, ca, Nil), "Failed", config.failedAge)}
      : ca \in PruneAge(history, "Completed", config.completedAge)}

\* sweep_blocking commits one outcome.  A sweep that finds nothing to delete
\* changes nothing.
Sweep(out) ==
    /\ Enabled(config)
    /\ history' = Without(history, out.completed \cup out.failed, Nil)
    /\ receipts' = Without(receipts, out.receipts, Nil)
    /\ chains' = Without(chains, out.chains, 0)
    /\ dispatch' = Without(dispatch, out.facets, 0)
    /\ rejections' = rejections \ out.rejections
    /\ UNCHANGED <<now, issued, jobs, limits, claims, acks, retentionVars>>

Sweeps == \E out \in SweepOutcomes : Sweep(out)

RetentionNext == BrokerStep \/ Sweeps

RetentionSpec == RetentionInit /\ [][RetentionNext]_allVars
-----------------------------------------------------------------------------
(***************************************************************************)
(* Properties                                                              *)
(***************************************************************************)

\* The dedup window of a key is the retention of its job: while the job is live,
\* or in job_history without release_on_finish, the key leads to it and nothing
\* else is accepted for the key, whatever sweeps, limits on their batches and
\* terminal paths came in between.
DedupWindow ==
    \A i \in JobId :
        origin[i] # Nil /\ origin[i].opts.key # Nil
        /\ (Live(i) \/ (Finished(i) /\ ~origin[i].opts.release))
        => LET s == SlotOf(origin[i].opts)
           IN  receipts[s] # Nil /\ receipts[s].job = i

\* A sweep is invisible to dispatch: forgetting when a facet was last served
\* never changes which of two queued jobs goes first.
SweepKeepsOrder ==
    [][jobs' = jobs =>
          \A i, j \in JobId : Live(i) /\ Live(j) => (Before(i, j)' <=> Before(i, j))]_allVars

\* Forgetting an idle lineage does not open the quarantine: the counter covers
\* every job of the lineage accepted within the time-to-live (every job ever, if
\* it never forgets), counts no job twice, and stays within the limit, also
\* within a batch.  So no such span of time accepts more than max_chain_size.
ChainWindow ==
    MaxChainSize > 0 =>
        \A t \in JobId \cup Trace :
            LET lineage == {i \in JobId : /\ origin[i] # Nil
                                          /\ origin[i].link.tree = Nil
                                          /\ origin[i].link.trace = t}
                recent == {i \in lineage : \/ config.chainTtl = 0
                                           \/ origin[i].created >= now - config.chainTtl}
            IN  /\ Cardinality(recent) <= chains[t]
                /\ chains[t] <= Cardinality(lineage)
                /\ chains[t] <= MaxChainSize

\* Lineage is the server's: a job that AddJob or AddJobBulk put under a parent is
\* one deeper than it and shares its trace, also when the parent has moved to
\* job_history or is gone by now, and none is deeper than the circuit breaker
\* allows.  The nodes of a flow are in a tree and follow the tree's own rule.
LineageDerived ==
    \A i \in JobId :
        origin[i] # Nil /\ origin[i].link.tree = Nil =>
            LET link == origin[i].link
            IN  /\ link.depth <= MaxExecutionDepth
                /\ link.parent # Nil =>
                      /\ origin[link.parent] # Nil
                      /\ link.depth = origin[link.parent].link.depth + 1
                      /\ link.trace = origin[link.parent].link.trace

\* Job i ended no longer ago than a duplicate of its last request may arrive.
RecentlyEnded(i) == ended[i] # Nil /\ now - ended[i].finished <= MinAge

\* Pruning by age honours the safety floor: with the count limits off, a job that
\* ended recently is still in job_history, so a repeated CompleteJob is answered
\* from there and not with "job not found".
AgeKeepsReplay ==
    config.completedCount = 0 /\ config.failedCount = 0 =>
        \A i \in JobId : RecentlyEnded(i) => Finished(i)

\* Pruning by count takes the oldest first and each queue by itself: with the age
\* limits off, a job is gone only if as many later ones of the same name and
\* outcome as the limit keeps are still in job_history.
NewestKept ==
    config.completedAge = 0 /\ config.failedAge = 0 =>
        \A i \in JobId : ended[i] # Nil /\ ~Finished(i) =>
            Cardinality({j \in InState(history, ended[i].state) :
                           /\ history[j].opts.name = ended[i].opts.name
                           /\ history[j].finished >= ended[i].finished})
            >= IF ended[i].state = "Completed" THEN config.completedCount
                                               ELSE config.failedCount

\* "A terminal job cannot be pruned while a duplicate lifecycle RPC is still
\* replaying against history", whichever limit prunes it.
ReplayWindow ==
    \A i \in JobId : RecentlyEnded(i) /\ ended[i].state = "Completed" => Finished(i)

Overdue(i) ==
    /\ Finished(i)
    /\ LET age == IF history[i].state = "Completed" THEN config.completedAge
                                                    ELSE config.failedAge
       IN  age > 0 /\ history[i].finished < now - age

Orphaned(s) ==
    receipts[s] # Nil /\ jobs[receipts[s].job] = Nil /\ history[receipts[s].job] = Nil

\* Storage is reclaimed: a row past its age leaves job_history and the receipt of
\* a job that is gone is released, although each statement of a sweep takes only
\* a batch and the row may be at the end of the backlog.
Reclaimed ==
    /\ \A i \in JobId : Overdue(i) ~> ~Finished(i)
    /\ \A s \in Slot : Orphaned(s) ~> ~Orphaned(s)
=============================================================================
