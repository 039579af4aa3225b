----------------------------- MODULE Refinement -----------------------------
(***************************************************************************)
(* Broker implements AbstractQueue.                                        *)
(***************************************************************************)
EXTENDS Broker

\* A job as its clients may think of it.  Waiting, Delayed and WaitingChildren
\* jobs are pending; leases, flow links and time stamps are not visible.
Entry(status, row) ==
    [status |-> status, owner |-> row.worker, attempt |-> row.attempts,
     budget |-> row.opts.max]

View(i) ==
    IF Live(i)
    THEN Entry(IF jobs[i].state = "Active" THEN "running" ELSE "pending", jobs[i])
    ELSE IF Finished(i) THEN Entry(history[i].state, history[i])
    ELSE [status |-> "none", owner |-> Nil, attempt |-> 0, budget |-> 0]

Abstract == INSTANCE AbstractQueue
    WITH Id <- JobId, queue <- [i \in JobId |-> View(i)], answers <- acks

\* Every step of the broker is a step of the abstract queue or invisible there:
\* AddJob and the flow RPCs submit, GetNextJob grants, CompleteJob and FailJob
\* end the one attempt they answer for, the recovery loop takes attempts back
\* and fails a job exactly when its budget is used up, and heartbeats, child
\* completions, merges into a live job and limit changes do not show.
ImplementsQueue == Abstract!Spec
=============================================================================
