---------------------------- MODULE MCRetention ----------------------------
(***************************************************************************)
(* Constants for model checking Retention.                                 *)
(***************************************************************************)
EXTENDS Retention, MCBroker

Off == [completedAge |-> 0, completedCount |-> 0, failedAge |-> 0, failedCount |-> 0,
        batch |-> 1, chainTtl |-> 0, facetTtl |-> 0, rejectionsAge |-> 0]

\* One lineage over two queues and two facets, a key, and children of its jobs.
KeyedRoot == [Traced EXCEPT !.opts = [Keyed(k1) EXCEPT !.facet = f1]]
OtherRoot == [Traced EXCEPT !.opts = [Plain EXCEPT !.facet = f2, !.name = q2]]
SweptRequests == {KeyedRoot, Under(1, 0), Under(2, 0)}
SweptBatches == {<<OtherRoot, [OtherRoot EXCEPT !.opts.name = q1]>>}

\* Bound: rejection records kept at a time.
FewRejections == Cardinality(rejections) <= 1

SweepConfigs ==
    { [Off EXCEPT !.completedAge = 2, !.failedAge = 2, !.chainTtl = 1, !.facetTtl = 1,
                  !.rejectionsAge = 1],
      [Off EXCEPT !.completedAge = 1, !.chainTtl = 1],
      [Off EXCEPT !.completedCount = 1, !.failedCount = 1, !.batch = 2] }
=============================================================================
