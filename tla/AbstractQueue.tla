--------------------------- MODULE AbstractQueue ----------------------------
(***************************************************************************)
(* What a job broker promises, without tables, leases, limits, flows or a  *)
(* clock.  A job is submitted once, is granted to one worker at a time     *)
(* under a fresh attempt number, is never granted more often than its      *)
(* budget allows, and reaches one final verdict.  The only worker that is  *)
(* told how an attempt ended is the one that held it.                      *)
(***************************************************************************)
EXTENDS Integers

CONSTANTS Id, Worker, Nil

VARIABLES
    queue,    \* each job's status, its owner, attempts used and attempts allowed
    answers   \* what workers were told

Absent == [status |-> "none", owner |-> Nil, attempt |-> 0, budget |-> 0]
Pending(attempt, budget) ==
    [status |-> "pending", owner |-> Nil, attempt |-> attempt, budget |-> budget]
Running(w, attempt, budget) ==
    [status |-> "running", owner |-> w, attempt |-> attempt, budget |-> budget]

Init ==
    /\ queue = [i \in Id |-> Absent]
    /\ answers = {}

Has(i, status) == queue[i].status = status
Unfinished(i) == Has(i, "pending") \/ Has(i, "running")
AttemptLeft(i) == queue[i].attempt < queue[i].budget

\* A job after its running attempt was given up.
Requeued(i) == Pending(queue[i].attempt, queue[i].budget)

Tell(i, outcome) ==
    answers' = answers \cup {[id |-> i, worker |-> queue[i].owner,
                              attempt |-> queue[i].attempt, outcome |-> outcome]}

\* The jobs in S are accepted together.
Submit(S) ==
    /\ queue' = [i \in Id |-> IF i \in S THEN queue'[i] ELSE queue[i]]
    /\ \A i \in S :
          /\ queue[i] = Absent
          /\ queue'[i].budget \in Nat \ {0}
          /\ queue'[i] = Pending(0, queue'[i].budget)
    /\ UNCHANGED answers

Grant(i, w) ==
    /\ Has(i, "pending")
    /\ AttemptLeft(i)
    /\ queue' = [queue EXCEPT ![i] = Running(w, queue[i].attempt + 1, queue[i].budget)]
    /\ UNCHANGED answers

\* The owner reports success.
Complete(i) ==
    /\ Has(i, "running")
    /\ queue' = [queue EXCEPT ![i] = [@ EXCEPT !.status = "Completed"]]
    /\ Tell(i, "Completed")

\* The owner reports success again, and hears the same.
Repeat(i) ==
    /\ Has(i, "Completed")
    /\ Tell(i, "Completed")
    /\ UNCHANGED queue

\* The owner reports a failure that may be retried.
Retry(i) ==
    /\ Has(i, "running")
    /\ AttemptLeft(i)
    /\ queue' = [queue EXCEPT ![i] = Requeued(i)]
    /\ Tell(i, "Retried")

\* The owner reports a failure that is final, and other unfinished jobs, the
\* rest of S, fail with this one.
Fail(i, S) ==
    /\ i \in S
    /\ Has(i, "running")
    /\ \A j \in S : Unfinished(j)
    /\ queue' = [j \in Id |-> IF j \in S THEN [queue[j] EXCEPT !.status = "Failed"]
                              ELSE queue[j]]
    /\ Tell(i, "Failed")

\* Attempts whose owners are given up on: nobody is told.
TakeBack(S) ==
    /\ \A i \in S : Has(i, "running")
    /\ queue' = [i \in Id |-> IF i \notin S THEN queue[i]
                              ELSE IF AttemptLeft(i) THEN Requeued(i)
                              ELSE [queue[i] EXCEPT !.status = "Failed"]]
    /\ UNCHANGED answers

Next ==
    \/ \E S \in SUBSET Id : Submit(S) \/ TakeBack(S)
    \/ \E i \in Id :
          \/ \E w \in Worker : Grant(i, w)
          \/ Complete(i) \/ Repeat(i) \/ Retry(i)
          \/ \E S \in SUBSET Id : Fail(i, S)

Spec == Init /\ [][Next]_<<queue, answers>>
=============================================================================
