---------------------------- MODULE IngressLimit ----------------------------
(***************************************************************************)
(* Enqueue admission limits, src/ingress_limit.rs: two adjacent windows    *)
(* per facet approximate a sliding window.  admit runs inside the enqueue  *)
(* transaction, so Roll, Estimate and Admits take the buckets they work on *)
(* as a parameter.                                                         *)
(***************************************************************************)
EXTENDS Store

\* roll: move the pair of windows so that `now` falls in the current one.  A
\* clock set back leaves elapsed negative and the pair untouched.
Roll(b, w) ==
    LET elapsed == now - b.start
    IN  IF elapsed < w
        THEN b
        ELSE IF elapsed \div w = 1
        THEN [start |-> b.start + w, current |-> 0, previous |-> b.current]
        ELSE [start |-> now - (elapsed % w), current |-> 0, previous |-> 0]

\* estimate, scaled by the window so that it stays an integer: the previous
\* window's count decays linearly over the current one.
ScaledEstimate(b, w) ==
    LET weight == Greatest(0, Least(w - (now - b.start), w))
    IN  b.previous * weight + b.current * w

\* The rolled bucket admit works on; a facet without a counter starts one now.
CurrentBucket(buckets, facet) ==
    LET b == buckets[facet]
    IN  Roll(IF b = Nil THEN [start |-> now, current |-> 0, previous |-> 0] ELSE b,
             ingressRules[facet].window)

\* Admission up to and including the limit.
Admits_OffByOne(buckets, facet) ==
    \/ facet = Nil
    \/ ingressRules[facet] = Nil
    \/ LET rule == ingressRules[facet]
       IN  /\ rule.max # 0
           /\ ScaledEstimate(CurrentBucket(buckets, facet), rule.window)
                <= rule.max * rule.window

\* admit's verdict, and the counters it persists when the verdict is TRUE.
Admits(buckets, facet) ==
    \/ facet = Nil
    \/ ingressRules[facet] = Nil
    \/ LET rule == ingressRules[facet]
       IN  /\ rule.max # 0
           /\ ScaledEstimate(CurrentBucket(buckets, facet), rule.window)
                < rule.max * rule.window

Admitted(buckets, facet) ==
    IF facet = Nil \/ ingressRules[facet] = Nil
    THEN buckets
    ELSE [buckets EXCEPT ![facet] =
             [CurrentBucket(buckets, facet) EXCEPT !.current = @ + 1]]

UpsertIngressLimitRule(facet, rule) ==
    /\ ingressRules' = [ingressRules EXCEPT ![facet] = rule]
    /\ ingressBuckets' = [ingressBuckets EXCEPT ![facet] = Nil]
    /\ UNCHANGED <<now, issued, jobs, history, receipts, rateRules, rateCounters,
                   dispatch, chains, rejections, claims, acks>>

DeleteIngressLimitRule(facet) ==
    /\ ingressRules' = [ingressRules EXCEPT ![facet] = Nil]
    /\ ingressBuckets' = [ingressBuckets EXCEPT ![facet] = Nil]
    /\ UNCHANGED <<now, issued, jobs, history, receipts, rateRules, rateCounters,
                   dispatch, chains, rejections, claims, acks>>
=============================================================================
