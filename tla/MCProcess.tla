----------------------------- MODULE MCProcess ------------------------------
(***************************************************************************)
(* Constants for model checking Process: one optional feature at a time.   *)
(***************************************************************************)
EXTENDS Process

CONSTANTS p1, p2

\* Snapshots; search switched on and off between starts; read-only queries,
\* beside the loops that only commit.
OneFeatureEach ==
    { [snapshots |-> TRUE, flags |-> {FALSE}, queries |-> {}, work |-> {"rpc"},
       starts |-> 2, time |-> MaxTime, commits |-> 1, rows |-> 0, orphans |-> 0],
      [snapshots |-> FALSE, flags |-> BOOLEAN, queries |-> {}, work |-> {"rpc", "retention"},
       starts |-> 3, time |-> 0, commits |-> 3, rows |-> MaxRow, orphans |-> 1],
      [snapshots |-> FALSE, flags |-> {FALSE}, queries |-> Query,
       work |-> {"rpc", "recovery", "scheduler"},
       starts |-> 1, time |-> 0, commits |-> 2, rows |-> 0, orphans |-> 1] }
=============================================================================
