-------------------------------- MODULE Flow --------------------------------
(***************************************************************************)
(* Flows, src/flow.rs: trees of jobs in which a parent waits for its       *)
(* children.  A request is a forest in prepare_node's flattened form: a    *)
(* sequence of nodes, parents before children.                             *)
(***************************************************************************)
EXTENDS Enqueue

CONSTANTS
    MaxFlowDepth,   \* max_flow_depth
    MaxFlowNodes,   \* max_flow_nodes
    MaxFlowBulk     \* max_flow_bulk

ASSUME FlowAssumption ==
    MaxFlowDepth \in Nat /\ MaxFlowNodes \in Nat /\ MaxFlowBulk \in Nat

\* A node's parent and root are positions in its forest (0 for a root's
\* parent) and its depth counts from its root.
Node == [opts: RawOpts, parent: Nat, root: Nat, depth: Nat, failParent: BOOLEAN]

Roots(f) == {k \in DOMAIN f : f[k].parent = 0}

WellFormed(f) ==
    /\ f # << >>
    /\ \A k \in DOMAIN f :
          /\ f[k] \in Node
          /\ ~f[k].opts.release
          /\ f[k].root \in Roots(f)
          /\ IF f[k].parent = 0
             THEN f[k].root = k /\ f[k].depth = 0
             ELSE /\ f[k].parent < k
                  /\ f[k].root = f[f[k].parent].root
                  /\ f[k].depth = f[f[k].parent].depth + 1

ChildCount(f, k) == Cardinality({c \in DOMAIN f : f[c].parent = k})

\* prepare_node's field checks and the request-wide duplicate-key check.
ValidForest(f) ==
    /\ \A k \in DOMAIN f : ValidOpts(f[k].opts)
    /\ \A j, k \in DOMAIN f :
          (j # k /\ f[j].opts.key # Nil) => SlotOf(f[j].opts) # SlotOf(f[k].opts)

\* A receipt check that forgets the keys of finished jobs.
KeysUnused_Live(f) ==
    \A k \in DOMAIN f :
        LET s == SlotOf(f[k].opts)
        IN  f[k].opts.key # Nil /\ receipts[s] # Nil => ~Live(receipts[s].job)

\* The per-node receipt check inside the transaction.
KeysUnused(f) ==
    \A k \in DOMAIN f : f[k].opts.key # Nil => receipts[SlotOf(f[k].opts)] = Nil

\* The row inserted for node k.  The forest hangs under the live job `target`
\* (Nil for none), in tree `tree(k)`, with its roots at depth `base`.
FlowJob(f, k, target, tree, base) ==
    LET o == PreparedOpts(f[k].opts)
    IN  [opts |-> o,
         link |-> [parent |-> IF f[k].parent = 0 THEN target ELSE issued + f[k].parent,
                   trace |-> tree, depth |-> base + f[k].depth,
                   failParent |-> f[k].failParent,
                   tree |-> tree, treeDepth |-> base + f[k].depth],
         state |-> IF ChildCount(f, k) > 0 THEN "WaitingChildren"
                   ELSE RestingState(now + o.delay),
         worker |-> Nil, attempts |-> 0, lease |-> Nil, available |-> now + o.delay,
         created |-> now, pending |-> ChildCount(f, k)]

\* The receipt of a keyed node stores its derived lineage.
FlowReceipt(job, i) ==
    [request |-> [opts |-> job.opts, parent |-> job.link.parent,
                  trace |-> job.link.trace, depth |-> job.link.depth],
     job |-> i]

ReceiptsWith(f, row) ==
    [s \in Slot |->
        IF \E k \in DOMAIN f : f[k].opts.key # Nil /\ SlotOf(f[k].opts) = s
        THEN LET k == CHOOSE k \in DOMAIN f : SlotOf(f[k].opts) = s
             IN  FlowReceipt(row[k], issued + k)
        ELSE receipts[s]]

\* insert_prepared_tree for every tree of the request, in one transaction.
\* AddFlow is the request with one root, AddFlowBulk the one with several;
\* neither consults ingress limits, the circuit breaker or the quarantine.
AddFlow(f) ==
    LET row == [k \in DOMAIN f |-> FlowJob(f, k, Nil, issued + f[k].root, 0)]
    IN  /\ ValidForest(f)
        /\ Cardinality(Roots(f)) <= MaxFlowBulk
        /\ \A k \in DOMAIN f : f[k].depth <= MaxFlowDepth
        /\ \A r \in Roots(f) : Cardinality({k \in DOMAIN f : f[k].root = r}) <= MaxFlowNodes
        /\ KeysUnused(f)
        /\ issued + Len(f) <= MaxJobs
        /\ issued' = issued + Len(f)
        /\ jobs' = [i \in JobId |->
                      IF i - issued \in DOMAIN f THEN row[i - issued] ELSE jobs[i]]
        /\ receipts' = ReceiptsWith(f, row)
        /\ UNCHANGED <<now, history, limits, dispatch, chains, rejections, claims, acks>>

\* add_flow_merge: hang the forest under the live job that holds the slot, and
\* make that job wait for the new direct children.
AddFlowMerge(s, f) ==
    LET target == receipts[s].job
        job == jobs[target]
        tree == IF job.link.tree = Nil THEN target ELSE job.link.tree
        row == [k \in DOMAIN f |-> FlowJob(f, k, target, tree, job.link.treeDepth + 1)]
        regated == [job EXCEPT !.link.tree = tree,
                               !.pending = @ + Cardinality(Roots(f)),
                               !.state = "WaitingChildren"]
    IN  /\ ValidForest(f)
        /\ receipts[s] # Nil
        /\ Live(target)
        /\ job.state # "Active"
        /\ \A k \in DOMAIN f : job.link.treeDepth + 1 + f[k].depth <= MaxFlowDepth
        /\ Cardinality({i \in JobId : Live(i) /\ jobs[i].link.tree = tree} \cup {target})
             + Len(f) <= MaxFlowNodes
        /\ KeysUnused(f)
        /\ issued + Len(f) <= MaxJobs
        /\ issued' = issued + Len(f)
        /\ jobs' = [i \in JobId |->
                      IF i = target THEN regated
                      ELSE IF i - issued \in DOMAIN f THEN row[i - issued]
                      ELSE jobs[i]]
        /\ receipts' = ReceiptsWith(f, row)
        /\ UNCHANGED <<now, history, limits, dispatch, chains, rejections, claims, acks>>
=============================================================================
