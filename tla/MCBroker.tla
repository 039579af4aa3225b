------------------------------ MODULE MCBroker ------------------------------
(***************************************************************************)
(* Constants for model checking Broker, one group of requests per question *)
(* asked of it.                                                            *)
(***************************************************************************)
EXTENDS Refinement, TLC

CONSTANTS q1, q2, k1, k2, f1, f2, t1

WorkerSymmetry == Permutations(Worker)

EveryQueue == {{}}
EveryFilter == {{}, {q1}}

Plain == [name |-> q1, priority |-> 0, max |-> 1, delay |-> 0, base |-> 0, cap |-> 0,
          jitter |-> 0, facet |-> Nil, key |-> Nil, release |-> FALSE]

Standalone(o) == [opts |-> o, parent |-> Nil, trace |-> Nil, depth |-> 0]

\* Claims and retries: an immediate job with one retry, and a delayed one whose
\* retry is backed off and jittered.
ClaimRequests ==
    { Standalone([Plain EXCEPT !.max = 2]),
      Standalone([Plain EXCEPT !.max = 2, !.delay = 1, !.base = 2, !.jitter = 1]) }

\* Recovery under load: jobs of one attempt and of several.
RecoveryRequests ==
    {Standalone(Plain), Standalone([Plain EXCEPT !.max = 2, !.base = 1])}

\* Idempotency: a key retained after the job, and one released with it.
Keyed(k) == [Plain EXCEPT !.key = k]
Released(k) == [Plain EXCEPT !.key = k, !.release = TRUE]

\* Flows, in the flattened form prepare_node builds.
FlowNode(o, parent, root, depth, flag) ==
    [opts |-> o, parent |-> parent, root |-> root, depth |-> depth, failParent |-> flag]

OneLeaf(o, flag) == <<FlowNode(o, 0, 1, 0, flag)>>
Fan(o) == << FlowNode(o, 0, 1, 0, FALSE),
             FlowNode(Plain, 1, 1, 1, TRUE),
             FlowNode(Plain, 1, 1, 1, FALSE) >>
Chain(o) == << FlowNode(o, 0, 1, 0, FALSE),
               FlowNode(Plain, 1, 1, 1, TRUE),
               FlowNode(Plain, 2, 1, 2, TRUE) >>
TwoTrees(o) == << FlowNode(o, 0, 1, 0, TRUE),
                  FlowNode(Plain, 1, 1, 1, FALSE),
                  FlowNode(Plain, 0, 3, 0, FALSE) >>

SlotForests == {<<FlowNode(Keyed(k1), 0, 1, 0, FALSE), FlowNode(Plain, 1, 1, 1, TRUE)>>}
FlowForests == {Fan(Keyed(k1)), Chain(Keyed(k1)), TwoTrees(Keyed(k1))}
FlowMerges == {OneLeaf(Plain, TRUE), OneLeaf([Plain EXCEPT !.max = 2], FALSE)}

\* Lineage: children of any job, depths right and wrong, one supplied trace.
Under(p, d) == [opts |-> Plain, parent |-> p, trace |-> Nil, depth |-> d]
Traced == [opts |-> Plain, parent |-> Nil, trace |-> t1, depth |-> 0]

LineageRequests ==
    {Standalone(Plain), Traced} \cup {Under(p, d) : p \in JobId, d \in 0..1}

\* Limits: jobs of one facet, rules that allow nothing, one job or two per window.
LimitRequests == {Standalone([Plain EXCEPT !.facet = f1])}
LimitBatches == {<<Standalone([Plain EXCEPT !.facet = f1]), Standalone([Plain EXCEPT !.facet = f1])>>}
LimitRules == {[max |-> 0, window |-> 1], [max |-> 1, window |-> 2], [max |-> 2, window |-> 1]}
=============================================================================
