---------------------------- MODULE MCTelemetry ----------------------------
(***************************************************************************)
(* Constants for model checking Telemetry.                                 *)
(***************************************************************************)
EXTENDS Telemetry, MCRetention

NoSweeps == {Off}

\* Ages alone, and counts alone, a row at a time.
SlowConfigs ==
    { [Off EXCEPT !.completedAge = MinAge, !.failedAge = MinAge],
      [Off EXCEPT !.completedCount = 1, !.failedCount = 1] }

\* Jobs of one attempt and of two, with a key that is retained or released.
ProgressRequests ==
    { Standalone(Keyed(k1)), Standalone([Released(k2) EXCEPT !.max = 2, !.base = 1]) }

\* One key that a single job, a batch and a flow compete for.
ReusedKey == {Standalone(Keyed(k1)), Standalone([Released(k1) EXCEPT !.max = 0])}
ReusedBatch == {<<Standalone(Released(k1)), Standalone(Released(k1))>>}
=============================================================================
