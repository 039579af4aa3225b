------------------------------- MODULE Reader -------------------------------
(***************************************************************************)
(* Read-only queries: Reader::query of src/reader.rs.  The permit belongs  *)
(* to the awaiting handler; the connection belongs to a blocking closure   *)
(* that nothing can cancel.  So a query that times out, or whose caller    *)
(* goes away, gives its permit back while its connection is still open.    *)
(***************************************************************************)
EXTENDS Integers, Sequences, FiniteSets, Functions

CONSTANTS
    Query,           \* queries that may be asked
    MaxConcurrency,  \* ANVILMQ_READER_MAX_CONCURRENCY
    MaxAsked         \* bound: queries asked in the life of a process

ASSUME ReaderAssumption == MaxConcurrency \in Nat \ {0} /\ MaxAsked \in Nat

VARIABLES
    waiting,  \* queries waiting for a permit, in order (the semaphore is fair)
    running,  \* queries that hold a permit
    permits,  \* permits of the semaphore
    strays,   \* closures whose query has been answered or dropped
    asked     \* queries asked since the process was started

readerVars == <<waiting, running, permits, strays, asked>>

\* Reader::from_env
ReaderReset ==
    /\ waiting' = <<>>
    /\ running' = {}
    /\ permits' = MaxConcurrency
    /\ strays' = 0
    /\ asked' = 0

ReaderInit ==
    /\ waiting = <<>>
    /\ running = {}
    /\ permits = MaxConcurrency
    /\ strays = 0
    /\ asked = 0

Pending == Range(waiting) \cup running

\* A request handler calls query.
Ask(q) ==
    /\ q \notin Pending
    /\ asked < MaxAsked
    /\ waiting' = Append(waiting, q)
    /\ asked' = asked + 1
    /\ UNCHANGED <<running, permits, strays>>

\* acquire().await, then spawn_blocking.
Acquire ==
    /\ waiting # <<>>
    /\ permits > 0
    /\ waiting' = Tail(waiting)
    /\ running' = running \cup {Head(waiting)}
    /\ permits' = permits - 1
    /\ UNCHANGED <<strays, asked>>

\* The closure returns in time.
Answer(q) ==
    /\ q \in running
    /\ running' = running \ {q}
    /\ permits' = permits + 1
    /\ UNCHANGED <<waiting, strays, asked>>

\* A timeout that never gives the permit back.
GiveUp_KeepsPermit(q) ==
    /\ q \in running
    /\ running' = running \ {q}
    /\ strays' = strays + 1
    /\ UNCHANGED <<waiting, permits, asked>>

\* tokio's timeout elapses, or the handler is dropped with its connection.
GiveUp(q) ==
    /\ q \in running
    /\ running' = running \ {q}
    /\ permits' = permits + 1
    /\ strays' = strays + 1
    /\ UNCHANGED <<waiting, asked>>

\* A waiter leaves the semaphore's queue and the others keep their order.
Without(s, k) == SubSeq(s, 1, k - 1) \o SubSeq(s, k + 1, Len(s))

\* A query that returns a permit it never had.
Withdraw_Releases(q) ==
    /\ \E k \in DOMAIN waiting : waiting[k] = q /\ waiting' = Without(waiting, k)
    /\ permits' = permits + 1
    /\ UNCHANGED <<running, strays, asked>>

\* The caller goes away before the query got a permit.
Withdraw(q) ==
    /\ \E k \in DOMAIN waiting : waiting[k] = q /\ waiting' = Without(waiting, k)
    /\ UNCHANGED <<running, permits, strays, asked>>

\* The progress handler interrupts the statement of a query given up.
StrayEnds ==
    /\ strays > 0
    /\ strays' = strays - 1
    /\ UNCHANGED <<waiting, running, permits, asked>>

\* Open read-only connections.
Connections == Cardinality(running) + strays
=============================================================================
