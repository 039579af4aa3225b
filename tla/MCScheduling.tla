---------------------------- MODULE MCScheduling ----------------------------
(***************************************************************************)
(* The retry delay against exact arithmetic, for every base and cap of a   *)
(* small machine word and attempt numbers past the width of the word.      *)
(***************************************************************************)
EXTENDS Scheduling

CONSTANT MaxAttempt   \* bound: attempts to follow

VARIABLES base, maximum, attempt

vars == <<base, maximum, attempt>>

Init ==
    /\ base \in 0..IntMax
    /\ maximum \in base..IntMax
    /\ attempt = 1

Next ==
    /\ attempt < MaxAttempt
    /\ attempt' = attempt + 1
    /\ UNCHANGED <<base, maximum>>

Spec == Init /\ [][Next]_vars

\* Saturating shifts and products change nothing: retry_delay is the capped
\* exponential computed without any overflow, and jitter keeps it in 0..delay.
RetryDelayExact ==
    LET delay == RetryDelay(base, maximum, attempt)
    IN  /\ delay = Least(base * 2^(attempt - 1), maximum)
        /\ \A j \in 0..JitterDen :
              Jittered(delay, j) # {} /\ Jittered(delay, j) \subseteq 0..delay

\* Backoff never shrinks from one attempt to the next, also where the shift
\* leaves the word.
BackoffGrows ==
    [][RetryDelay(base, maximum, attempt) <= RetryDelay(base, maximum, attempt')]_vars
=============================================================================
