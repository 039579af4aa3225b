----------------------------- MODULE RateLimit -----------------------------
(***************************************************************************)
(* Dispatch rate limits, src/rate_limit.rs: a fixed-window counter per     *)
(* facet, read by the claim query and consumed by the claim.               *)
(***************************************************************************)
EXTENDS Store

\* A limit that lets one claim too many through.
Blocked_OffByOne(facet) ==
    /\ facet # Nil
    /\ rateRules[facet] # Nil
    /\ \/ rateRules[facet].max = 0
       \/ /\ rateCounters[facet] # Nil
          /\ rateCounters[facet].expires > now
          /\ rateCounters[facet].count > rateRules[facet].max

\* The claim query's `blocked` predicate for a job of this facet.
Blocked(facet) ==
    /\ facet # Nil
    /\ rateRules[facet] # Nil
    /\ \/ rateRules[facet].max = 0
       \/ /\ rateCounters[facet] # Nil
          /\ rateCounters[facet].expires > now
          /\ rateCounters[facet].count >= rateRules[facet].max

\* consume: the counters after a job of this facet is claimed.
Consume(facet) ==
    IF facet = Nil \/ rateRules[facet] = Nil
    THEN rateCounters
    ELSE LET c == rateCounters[facet]
         IN  [rateCounters EXCEPT ![facet] =
                 IF c = Nil \/ c.expires <= now
                 THEN [count |-> 1, expires |-> now + rateRules[facet].window]
                 ELSE [c EXCEPT !.count = @ + 1]]

\* UpsertRateLimitRule: the new rule starts with no window.
UpsertRateLimitRule(facet, rule) ==
    /\ rateRules' = [rateRules EXCEPT ![facet] = rule]
    /\ rateCounters' = [rateCounters EXCEPT ![facet] = Nil]
    /\ UNCHANGED <<now, issued, jobs, history, receipts, dispatch, ingressRules,
                   ingressBuckets, chains, rejections, claims, acks>>

\* DeleteRateLimitRule removes the rule and its window.
DeleteRateLimitRule(facet) ==
    /\ rateRules' = [rateRules EXCEPT ![facet] = Nil]
    /\ rateCounters' = [rateCounters EXCEPT ![facet] = Nil]
    /\ UNCHANGED <<now, issued, jobs, history, receipts, dispatch, ingressRules,
                   ingressBuckets, chains, rejections, claims, acks>>
=============================================================================
