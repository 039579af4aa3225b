---------------------------- MODULE MCSchedulers ----------------------------
(***************************************************************************)
(* Constants for model checking Schedulers.                                *)
(***************************************************************************)
EXTENDS Schedulers

CONSTANTS q1, f1

Template(f, base) ==
    [name |-> q1, priority |-> 0, max |-> 0, delay |-> 0, base |-> base, cap |-> 0,
     jitter |-> 0, facet |-> f, key |-> Nil, release |-> FALSE]

\* Every time unit without a facet, every other one with a limited facet.
MixedSpecs ==
    {[opts |-> Template(Nil, 0), cron |-> 1], [opts |-> Template(f1, 1), cron |-> 2]}

\* A paused facet.
Paused == {[max |-> 0, window |-> 1]}
=============================================================================
