--------------------------- MODULE EnqueueProofs ----------------------------
(***************************************************************************)
(* Proofs about Scheduling, Enqueue and Flow: retry delays are exact, grow *)
(* and stay in range for every machine word, and what an enqueue           *)
(* transaction inserts is well-formed and unclaimed.                       *)
(***************************************************************************)
EXTENDS Flow, TLAPS
-----------------------------------------------------------------------------
\* retry_delay's multiplier is a natural number at every shift.
LEMMA MultiplierType ==
    ASSUME NEW e \in Nat
    PROVE  Multiplier(e) \in Nat /\ IntMax \in Nat
<1>1. IntMax \in Nat
  <2>1. WordBits - 1 \in 0..WordBits
    BY WordAssumption
  <2>2. 2^(WordBits - 1) \in Nat \ {0}
    BY <2>1, PowerAssumption
  <2> QED
    BY <2>2 DEF IntMax
<1>2. CASE e < WordBits - 1
  <2>1. e \in 0..WordBits
    BY <1>2, WordAssumption
  <2>2. 2^e \in Nat \ {0}
    BY <2>1, PowerAssumption
  <2> QED
    BY <1>1, <1>2, <2>2 DEF Multiplier
<1>3. CASE ~(e < WordBits - 1)
  BY <1>1, <1>3 DEF Multiplier
<1> QED
  BY <1>2, <1>3

\* retry_delay never yields a negative delay, nor one above the cap.
LEMMA RetryDelayType ==
    ASSUME NEW b \in Nat, NEW c \in Nat, NEW a \in Nat
    PROVE  RetryDelay(b, c, a) \in Nat /\ (b > 0 => RetryDelay(b, c, a) <= c)
<1> DEFINE m == Multiplier(Greatest(a - 1, 0))
<1>1. Greatest(a - 1, 0) \in Nat
  BY DEF Greatest
<1>2. m \in Nat /\ IntMax \in Nat
  BY <1>1, MultiplierType
<1> HIDE DEF m
<1>3. b * m \in Nat
  BY <1>2
<1>4. SaturatingMul(b, m) \in Nat
  BY <1>2, <1>3 DEF SaturatingMul, Least
<1>5. Least(SaturatingMul(b, m), c) \in 0..c
  BY <1>4 DEF Least
<1> QED
  BY <1>5 DEF RetryDelay, m

\* Multiplying by a positive number does not shrink.
LEMMA TimesGrows ==
    ASSUME NEW b \in Nat, NEW m \in Nat, 1 <= b
    PROVE  b * m \in Nat /\ b * m >= m
<1>1. PICK k \in Nat : b = k + 1
  <2>1. b - 1 \in Nat
    OBVIOUS
  <2> QED
    BY <2>1
<1>2. k * m \in Nat /\ (k + 1) * m = k * m + m
  OBVIOUS
<1> QED
  BY <1>1, <1>2

\* The saturating shift and product lose nothing: for every word, every base and
\* cap of the word, retry_delay is the exponential computed without overflow and
\* capped, as long as the shift stays in the word, and the cap once it leaves it.
THEOREM BackoffExact ==
    ASSUME NEW cap \in 0..IntMax, NEW base \in 0..cap, NEW a \in Nat \ {0}
    PROVE  RetryDelay(base, cap, a)
           = IF base = 0 THEN 0
             ELSE IF a <= WordBits THEN Least(base * 2^(a - 1), cap) ELSE cap
<1> SUFFICES ASSUME base # 0
             PROVE  RetryDelay(base, cap, a)
                    = IF a <= WordBits THEN Least(base * 2^(a - 1), cap) ELSE cap
  BY DEF RetryDelay
<1>1. /\ IntMax \in Nat /\ cap \in Nat /\ base \in Nat /\ 1 <= base /\ cap <= IntMax
      /\ a - 1 \in Nat /\ Greatest(a - 1, 0) = a - 1 /\ WordBits \in Nat
  BY MultiplierType, WordAssumption DEF Greatest
<1>2. RetryDelay(base, cap, a) = Least(Least(base * Multiplier(a - 1), IntMax), cap)
  BY <1>1 DEF RetryDelay, SaturatingMul
<1>3. CASE a - 1 < WordBits - 1
  <2>1. PICK m : m = 2^(a - 1) /\ m \in Nat
    <3>1. a - 1 \in 0..WordBits
      BY <1>1, <1>3
    <3> QED
      BY <3>1, PowerAssumption
  <2>2. Multiplier(a - 1) = m /\ a <= WordBits
    BY <1>1, <1>3, <2>1 DEF Multiplier
  <2>3. base * m \in Nat
    BY <1>1, <2>1
  <2>4. Least(Least(base * m, IntMax), cap) = Least(base * m, cap)
    BY <1>1, <2>3 DEF Least
  <2> QED
    BY <1>2, <2>1, <2>2, <2>4
<1>4. CASE ~(a - 1 < WordBits - 1)
  <2>1. RetryDelay(base, cap, a) = cap
    <3>1. Multiplier(a - 1) = IntMax
      BY <1>4 DEF Multiplier
    <3>2. base * IntMax \in Nat /\ base * IntMax >= IntMax
      BY <1>1, TimesGrows
    <3> QED
      BY <1>1, <1>2, <3>1, <3>2 DEF Least
  <2>2. CASE a <= WordBits
    <3>1. a - 1 = WordBits - 1 /\ WordBits - 1 \in 0..WordBits
      BY <1>1, <1>4, <2>2, WordAssumption
    <3>2. PICK m : m = 2^(a - 1) /\ m \in Nat /\ m = IntMax + 1
      BY <3>1, PowerAssumption DEF IntMax
    <3>3. base * m \in Nat /\ base * m >= m
      BY <1>1, <3>2, TimesGrows
    <3>4. Least(base * m, cap) = cap
      BY <1>1, <3>2, <3>3 DEF Least
    <3> QED
      BY <2>1, <2>2, <3>2, <3>4
  <2> QED
    BY <2>1, <2>2
<1> QED
  BY <1>3, <1>4

\* Backoff never shrinks from one attempt to the next, also where the shift
\* reaches the sign bit and where it leaves the word.
THEOREM BackoffMonotone ==
    ASSUME NEW cap \in 0..IntMax, NEW base \in 0..cap, NEW a \in Nat \ {0}
    PROVE  RetryDelay(base, cap, a) <= RetryDelay(base, cap, a + 1)
<1>1. /\ IntMax \in Nat /\ cap \in Nat /\ base \in Nat /\ WordBits \in Nat
      /\ RetryDelay(base, cap, a) \in Nat /\ RetryDelay(base, cap, a + 1) \in Nat
      /\ a + 1 \in Nat \ {0} /\ (a + 1) - 1 = a
  <2>1. IntMax \in Nat
    BY MultiplierType
  <2>2. cap \in Nat /\ base \in Nat /\ a + 1 \in Nat \ {0} /\ (a + 1) - 1 = a
    BY <2>1
  <2> QED
    BY Zenon, <2>1, <2>2, RetryDelayType, WordAssumption
<1>2. CASE base = 0
  BY <1>1, <1>2, BackoffExact
<1>3. CASE base # 0 /\ a + 1 <= WordBits
  <2>1. PICK m, n : m = 2^(a - 1) /\ n = 2^a /\ m \in Nat /\ n = 2 * m
    <3>1. a \in 0..WordBits /\ a - 1 \in 0..WordBits /\ a > 0
      BY <1>1, <1>3
    <3> QED
      BY <3>1, PowerAssumption
  <2>2. base * m \in Nat /\ base * n = base * m + base * m
    BY <1>1, <2>1
  <2>3. /\ RetryDelay(base, cap, a) = Least(base * m, cap)
        /\ RetryDelay(base, cap, a + 1) = Least(base * n, cap)
    <3>1. a <= WordBits
      BY <1>1, <1>3
    <3>2. \A x \in Nat \ {0} : x <= WordBits
             => RetryDelay(base, cap, x) = Least(base * 2^(x - 1), cap)
      BY <1>3, BackoffExact
    <3>3. RetryDelay(base, cap, a + 1) = Least(base * 2^((a + 1) - 1), cap)
      BY Zenon, <1>1, <1>3, <3>2
    <3> QED
      BY Zenon, <1>1, <2>1, <3>1, <3>2, <3>3
  <2> QED
    BY <1>1, <2>2, <2>3 DEF Least
<1>4. CASE base # 0 /\ ~(a + 1 <= WordBits)
  <2>1. RetryDelay(base, cap, a + 1) = cap /\ RetryDelay(base, cap, a) <= cap
    BY <1>1, <1>4, BackoffExact, RetryDelayType
  <2> QED
    BY <1>1, <2>1
<1> QED
  BY <1>2, <1>3, <1>4

\* Whatever the fraction and the draw, jitter yields some delay, and only delays
\* between zero and the backoff it was given: rounding never lifts one above it.
THEOREM JitterInRange ==
    ASSUME NEW d \in Nat, NEW j \in 0..JitterDen
    PROVE  Jittered(d, j) # {} /\ Jittered(d, j) \subseteq 0..d
<1>1. CASE j = 0 \/ d = 0
  BY <1>1 DEF Jittered
<1>2. CASE ~(j = 0 \/ d = 0)
  <2>1. PICK D, k : D = JitterDen /\ D \in Nat /\ D > 0 /\ k = D - j /\ k \in Nat /\ k <= D
    BY JitterAssumption
  <2>2. PICK num : num = k * d /\ num \in Nat /\ num <= D * d
    <3>1. PICK i \in Nat : D = k + i
      <4>1. D - k \in Nat /\ D = k + (D - k)
        BY <2>1
      <4> QED
        BY <4>1
    <3>2. k * d \in Nat /\ i * d \in Nat /\ (k + i) * d = k * d + i * d
      BY <2>1
    <3> QED
      BY <3>1, <3>2
  <2>3. PICK q : q = (2 * num + D) \div (2 * D) /\ q \in Nat /\ (2 * D) * q <= 2 * num + D
    BY <2>1, <2>2
  <2>4. q <= d
    <3> SUFFICES ASSUME d + 1 <= q
                 PROVE  FALSE
      BY <2>3
    <3>1. PICK i \in Nat : q = (d + 1) + i
      <4>1. q - (d + 1) \in Nat /\ q = (d + 1) + (q - (d + 1))
        BY <2>3
      <4> QED
        BY <4>1
    <3>2. D * i \in Nat /\ D * d \in Nat /\ (2 * D) * q = 2 * (D * d) + 2 * D + 2 * (D * i)
      BY <2>1, <3>1
    <3> QED
      BY <2>1, <2>2, <2>3, <3>2
  <2>5. Jittered(d, j) = q..d
    BY <1>2, <2>1, <2>2, <2>3 DEF Jittered, Rounded
  <2> QED
    BY <2>3, <2>4, <2>5
<1> QED
  BY <1>1, <1>2

\* A jittered delay is a natural number.
LEMMA JitteredType ==
    ASSUME NEW d \in Nat, NEW j \in 0..JitterDen, NEW x \in Jittered(d, j)
    PROVE  x \in Nat
BY JitterInRange

\* roll keeps a bucket well-formed whatever the clock does.
LEMMA RollType ==
    ASSUME NEW b \in Bucket, NEW w \in Nat \ {0}, now \in Nat
    PROVE  Roll(b, w) \in Bucket
<1> DEFINE e == now - b.start
<1>1. e \in Int /\ e <= now /\ b.start \in Nat /\ b.current \in Nat
  BY DEF Bucket
<1>2. CASE e < w
  BY <1>2 DEF Roll
<1>3. CASE e >= w
  <2>1. e \in Nat
    BY <1>1, <1>3
  <2>2. e % w \in 0..(w - 1)
    BY <2>1
  <2>3. now - (e % w) \in Nat
    BY <1>1, <1>3, <2>1, <2>2
  <2> QED
    BY <1>1, <1>3, <2>3 DEF Roll, Bucket
<1> QED
  BY <1>1, <1>2, <1>3

\* admit persists a well-formed bucket.
LEMMA AdmittedType ==
    ASSUME NEW bs \in [Facet -> Bucket \cup {Nil}], NEW f \in Facet \cup {Nil},
           ingressRules \in [Facet -> RateRule \cup {Nil}], now \in Nat
    PROVE  Admitted(bs, f) \in [Facet -> Bucket \cup {Nil}]
<1>1. CASE f = Nil \/ ingressRules[f] = Nil
  BY <1>1 DEF Admitted
<1>2. CASE ~(f = Nil \/ ingressRules[f] = Nil)
  <2>1. f \in Facet /\ ingressRules[f] \in RateRule
    BY <1>2
  <2> DEFINE b == IF bs[f] = Nil THEN [start |-> now, current |-> 0, previous |-> 0]
                  ELSE bs[f]
  <2>2. b \in Bucket
    BY <2>1 DEF Bucket
  <2>3. ingressRules[f].window \in Nat \ {0}
    BY <2>1 DEF RateRule
  <2> HIDE DEF b
  <2>4. Roll(b, ingressRules[f].window) \in Bucket
    BY <2>2, <2>3, RollType
  <2>5. CurrentBucket(bs, f) \in Bucket
    BY <2>4 DEF CurrentBucket, b
  <2>6. [CurrentBucket(bs, f) EXCEPT !.current = @ + 1] \in Bucket
    BY <2>5 DEF Bucket
  <2> QED
    BY <1>2, <2>1, <2>6 DEF Admitted
<1> QED
  BY <1>1, <1>2
-----------------------------------------------------------------------------
(***************************************************************************)
(* The enqueue transaction                                                 *)
(***************************************************************************)

\* A row as an enqueue inserts it: unowned, unleased, never attempted.
Fresh(row) ==
    /\ row \in Job
    /\ row.state # "Active"
    /\ row.worker = Nil
    /\ row.lease = Nil
    /\ row.attempts = 0

TxOK ==
    [issued: 0..MaxJobs, jobs: [JobId -> Job \cup {Nil}],
     receipts: [Slot -> Receipt \cup {Nil}], buckets: [Facet -> Bucket \cup {Nil}],
     chains: [JobId \cup Trace -> Nat]]

\* Transaction u continues t by inserting fresh rows under new ids only.
Continues(t, u) ==
    /\ u \in TxOK
    /\ u.issued >= t.issued
    /\ \A i \in JobId :
          IF t.issued < i /\ i <= u.issued THEN Fresh(u.jobs[i])
          ELSE u.jobs[i] = t.jobs[i]

\* Default filling turns a request as sent into one as stored.
LEMMA PreparedOptsType ==
    ASSUME NEW o \in RawOpts
    PROVE  PreparedOpts(o) \in Opts /\ PreparedOpts(o).key = o.key
           /\ PreparedOpts(o).name = o.name
<1> DEFINE max == IF o.max = 0 THEN DefaultMaxAttempts ELSE o.max
           cap == IF o.cap = 0 THEN Greatest(DefaultBackoffCap, o.base) ELSE o.cap
<1>1. max \in Nat \ {0}
  BY EnqueueAssumption DEF RawOpts
<1>2. cap \in Nat
  BY EnqueueAssumption DEF RawOpts, Greatest
<1>3. PreparedOpts(o) = [o EXCEPT !.max = max, !.cap = cap]
  BY DEF PreparedOpts, RawOpts
<1> HIDE DEF max, cap
<1> QED
  BY Zenon, <1>1, <1>2, <1>3 DEF RawOpts, Opts

\* validate_and_prepare turns a raw request into a well-formed one.
LEMMA PreparedType ==
    ASSUME NEW r \in RawRequest
    PROVE  Prepared(r) \in Request
BY PreparedOptsType DEF RawRequest, Prepared, Request

\* An inserted job's depth and trace are defined.
LEMMA LineageType ==
    ASSUME NEW t \in TxOK, NEW r \in Request, t.issued < MaxJobs,
           history \in [JobId -> Archived \cup {Nil}],
           r.parent # Nil => ParentKnown(t, r.parent)
    PROVE  /\ EffectiveDepth(t, r) \in Nat
           /\ EffectiveTrace(t, r) \in JobId \cup Trace
<1>1. r.parent # Nil => ParentLink(t, r.parent) \in Link
  BY DEF ParentKnown, ParentLink, TxOK, Request, Job, Archived
<1>2. r.depth \in Nat /\ r.trace \in JobId \cup Trace \cup {Nil}
  BY DEF Request
<1>3. t.issued + 1 \in JobId
  BY BoundAssumption DEF TxOK, JobId
<1> QED
  BY <1>1, <1>2, <1>3 DEF EffectiveDepth, EffectiveTrace, Link

\* enqueue_one inserts at most one fresh row and keeps every table well-formed.
LEMMA EnqueueOneContinues ==
    ASSUME NEW t \in TxOK, NEW r \in Request, t.issued < MaxJobs, now \in Nat,
           history \in [JobId -> Archived \cup {Nil}],
           ingressRules \in [Facet -> RateRule \cup {Nil}]
    PROVE  /\ Verdict(t, r) = "inserted" => Continues(t, Inserted(t, r))
           /\ Continues(t, EnqueueOne(t, r))
           /\ EnqueueOne(t, r).issued <= t.issued + 1
<1>1. Continues(t, t)
  <2>1. t.issued \in Nat /\ \A i \in JobId : i \in Nat
    BY DEF TxOK, JobId
  <2> QED
    BY <2>1 DEF Continues
<1>2. ASSUME Verdict(t, r) = "inserted"
      PROVE  Continues(t, Inserted(t, r)) /\ Inserted(t, r).issued = t.issued + 1
  <2>1. r.parent # Nil => ParentKnown(t, r.parent)
    BY <1>2 DEF Verdict
  <2>2. EffectiveDepth(t, r) \in Nat /\ EffectiveTrace(t, r) \in JobId \cup Trace
    BY <2>1, LineageType
  <2>3. r.opts \in Opts /\ r.opts.delay \in Nat /\ r.parent \in JobId \cup {Nil}
    BY DEF Request, Opts
  <2>4. RestingState(now + r.opts.delay) \in {"Waiting", "Delayed"}
    BY DEF RestingState
  <2> DEFINE link == [parent |-> r.parent, trace |-> EffectiveTrace(t, r),
                      depth |-> EffectiveDepth(t, r), failParent |-> FALSE,
                      tree |-> Nil, treeDepth |-> 0]
  <2>5. link \in Link
    BY <2>2, <2>3 DEF Link
  <2>6. Fresh(NewJob(t, r))
    <3> HIDE DEF link
    <3>1. NewJob(t, r) =
            [opts |-> r.opts, link |-> link,
             state |-> RestingState(now + r.opts.delay), worker |-> Nil,
             attempts |-> 0, lease |-> Nil, available |-> now + r.opts.delay,
             created |-> now, pending |-> 0]
      BY DEF NewJob, link
    <3> QED
      BY <3>1, <2>3, <2>4, <2>5 DEF Fresh, Job, LiveState
  <2>7. t.issued + 1 \in JobId /\ t.issued \in Nat /\ t.issued + 1 \in 0..MaxJobs
    BY BoundAssumption DEF TxOK, JobId
  <2>8. [request |-> r, job |-> t.issued + 1] \in Receipt
    BY <2>7 DEF Receipt
  <2>9. Admitted(t.buckets, r.opts.facet) \in [Facet -> Bucket \cup {Nil}]
    <3>1. t.buckets \in [Facet -> Bucket \cup {Nil}] /\ r.opts.facet \in Facet \cup {Nil}
      BY <2>3 DEF TxOK, Opts
    <3> QED
      BY <3>1, AdmittedType
  <2>10. Inserted(t, r) \in TxOK
    <3>1. [t.jobs EXCEPT ![t.issued + 1] = NewJob(t, r)] \in [JobId -> Job \cup {Nil}]
      BY Zenon, <2>6 DEF TxOK, Fresh
    <3>2. (IF r.opts.key = Nil THEN t.receipts
           ELSE [t.receipts EXCEPT ![SlotOf(r.opts)] =
                    [request |-> r, job |-> t.issued + 1]])
             \in [Slot -> Receipt \cup {Nil}]
      BY Zenon, <2>8 DEF TxOK
    <3>3. (IF MaxChainSize = 0 THEN t.chains
           ELSE [t.chains EXCEPT ![EffectiveTrace(t, r)] = @ + 1])
             \in [JobId \cup Trace -> Nat]
      BY <2>2 DEF TxOK
    <3> QED
      BY <2>7, <2>9, <3>1, <3>2, <3>3 DEF Inserted, TxOK
  <2>11. Inserted(t, r).issued = t.issued + 1
         /\ Inserted(t, r).jobs = [t.jobs EXCEPT ![t.issued + 1] = NewJob(t, r)]
    BY DEF Inserted
  <2>12. t.jobs \in [JobId -> Job \cup {Nil}]
    BY DEF TxOK
  <2>13. ASSUME NEW i \in JobId
         PROVE  IF t.issued < i /\ i <= t.issued + 1 THEN Fresh(Inserted(t, r).jobs[i])
                ELSE Inserted(t, r).jobs[i] = t.jobs[i]
    <3>1. i \in Nat
      BY DEF JobId
    <3>2. CASE i = t.issued + 1
      BY <2>6, <2>7, <2>11, <2>12, <3>2
    <3>3. CASE i # t.issued + 1
      BY <2>7, <2>11, <2>12, <3>1, <3>3
    <3> QED
      BY <3>2, <3>3
  <2> QED
    BY <2>7, <2>10, <2>11, <2>13 DEF Continues
<1>3. t.issued \in Nat
  BY DEF TxOK
<1> QED
  BY <1>1, <1>2, <1>3 DEF EnqueueOne
-----------------------------------------------------------------------------
\* The nodes of a forest that share a parent can be counted.
Counted(f) == \A p \in Nat : Cardinality({k \in DOMAIN f : f[k].parent = p}) \in Nat

\* The rows of a forest: fresh, and with receipts to match.
LEMMA FlowJobFresh ==
    ASSUME TypeOK, NEW f \in Seq(Node), WellFormed(f), Counted(f),
           issued + Len(f) <= MaxJobs,
           NEW k \in DOMAIN f, NEW target \in JobId \cup {Nil}, NEW tree \in JobId,
           NEW base \in Nat
    PROVE  /\ Fresh(FlowJob(f, k, target, tree, base))
           /\ issued + k \in JobId
           /\ FlowReceipt(FlowJob(f, k, target, tree, base), issued + k) \in Receipt
<1> DEFINE o == PreparedOpts(f[k].opts)
           parent == IF f[k].parent = 0 THEN target ELSE issued + f[k].parent
           link == [parent |-> parent, trace |-> tree, depth |-> base + f[k].depth,
                    failParent |-> f[k].failParent,
                    tree |-> tree, treeDepth |-> base + f[k].depth]
           state == IF ChildCount(f, k) > 0 THEN "WaitingChildren"
                    ELSE RestingState(now + o.delay)
           job == FlowJob(f, k, target, tree, base)
<1>1. /\ DOMAIN f = 1..Len(f) /\ Len(f) \in Nat /\ issued \in Nat /\ now \in Nat
      /\ MaxJobs \in Nat
  BY BoundAssumption DEF TypeOK
<1>2. f[k] \in Node
  BY DEF WellFormed
<1>3. o \in Opts /\ o.delay \in Nat
  BY <1>2, PreparedOptsType DEF Node, Opts
<1>4. issued + k \in JobId
  BY <1>1 DEF JobId
<1>5. parent \in JobId \cup {Nil}
  <2>1. f[k].parent \in Nat /\ (f[k].parent # 0 => f[k].parent < k)
    BY <1>2 DEF Node, WellFormed
  <2> QED
    BY <1>1, <2>1 DEF JobId
<1>6. link \in Link
  BY <1>2, <1>5 DEF Link, Node
<1>7. ChildCount(f, k) \in Nat
  BY <1>1 DEF ChildCount, Counted
<1>8. state \in {"Waiting", "Delayed", "WaitingChildren"}
  BY SMTT(60) DEF RestingState
<1>9. job = [opts |-> o, link |-> link, state |-> state, worker |-> Nil,
             attempts |-> 0, lease |-> Nil, available |-> now + o.delay,
             created |-> now, pending |-> ChildCount(f, k)]
  BY DEF FlowJob
<1> HIDE DEF o, parent, link, state, job
<1>10. Fresh(job)
  BY <1>1, <1>3, <1>6, <1>7, <1>8, <1>9 DEF Fresh, Job, LiveState
<1>11. FlowReceipt(job, issued + k) \in Receipt
  <2>1. job.opts \in Opts /\ job.link \in Link
    BY <1>3, <1>6, <1>9
  <2>2. [opts |-> job.opts, parent |-> job.link.parent, trace |-> job.link.trace,
         depth |-> job.link.depth] \in Request
    BY <2>1 DEF Link, Request
  <2> QED
    BY <1>4, <2>2 DEF FlowReceipt, Receipt
<1> QED
  BY <1>4, <1>10, <1>11 DEF job

\* The receipts insert_prepared_tree writes are well-formed.
LEMMA FlowReceiptsType ==
    ASSUME TypeOK, NEW f \in Seq(Node), NEW row,
           \A k \in DOMAIN f : FlowReceipt(row[k], issued + k) \in Receipt
    PROVE  ReceiptsWith(f, row) \in [Slot -> Receipt \cup {Nil}]
<1> SUFFICES ASSUME NEW s \in Slot
             PROVE  ReceiptsWith(f, row)[s] \in Receipt \cup {Nil}
  BY DEF ReceiptsWith
<1> DEFINE used == \E k \in DOMAIN f : f[k].opts.key # Nil /\ SlotOf(f[k].opts) = s
           node == CHOOSE k \in DOMAIN f : SlotOf(f[k].opts) = s
<1>1. used => node \in DOMAIN f
  OBVIOUS
<1>2. receipts[s] \in Receipt \cup {Nil}
  BY DEF TypeOK
<1>3. ReceiptsWith(f, row)[s] =
        IF used THEN FlowReceipt(row[node], issued + node) ELSE receipts[s]
  BY DEF ReceiptsWith
<1> HIDE DEF used, node
<1> QED
  BY <1>1, <1>2, <1>3
=============================================================================
