----------------------------- MODULE SlotSteps ------------------------------
(***************************************************************************)
(* Idempotency slots and flow failures, step by step: a key names          *)
(* at most one job whose slot is not given back, and a failed child fails  *)
(* its parents as the flags say                                            *)
(***************************************************************************)
EXTENDS BrokerInvariant
-----------------------------------------------------------------------------
(***************************************************************************)
(* Idempotency slots                                                       *)
(***************************************************************************)

\* The options of job i in given tables, and whether it has given back its slot:
\* it asked for release_on_finish and is no longer in jobs.
OptsIn(js, hs, i) == IF js[i] # Nil THEN js[i].opts ELSE hs[i].opts
Freed(js, hs, i) == OptsIn(js, hs, i).release /\ js[i] = Nil

\* The slots of jobs 1..n: a receipt names a job that has not given back the slot,
\* every keyed job that has not holds its slot, and of two jobs of one slot the
\* earlier one gave it back.  The last part does not follow from the others: a
\* released later job leaves no trace in the receipts.  The jobs in `gone`, which
\* the retention sweeper took from job_history, may have lost their slots.
Slotted(n, js, hs, rs, gone) ==
    /\ \A s \in Slot :
          rs[s] # Nil =>
             /\ rs[s].job \in 1..n
             /\ SlotOf(OptsIn(js, hs, rs[s].job)) = s
             /\ OptsIn(js, hs, rs[s].job) = rs[s].request.opts
             /\ ~Freed(js, hs, rs[s].job)
    /\ \A i \in (1..n) \ gone :
          OptsIn(js, hs, i).key # Nil /\ ~Freed(js, hs, i) =>
             /\ rs[SlotOf(OptsIn(js, hs, i))] # Nil
             /\ rs[SlotOf(OptsIn(js, hs, i))].job = i
    /\ \A i \in (1..n) \ gone, j \in 1..n :
          i < j /\ OptsIn(js, hs, i).key # Nil
                /\ SlotOf(OptsIn(js, hs, i)) = SlotOf(OptsIn(js, hs, j))
          => Freed(js, hs, i)

\* What a transaction may do to slots: no job changes its options or comes back
\* to jobs, and each slot is left alone, taken by the one new job that has it, or
\* given back by its holder.
SlotStep(n, js, hs, rs, m, ks, gs, qs) ==
    /\ n <= m
    /\ \A i \in 1..n : OptsIn(ks, gs, i) = OptsIn(js, hs, i) /\ (js[i] = Nil => ks[i] = Nil)
    /\ \A s \in Slot :
          LET new == {j \in (n + 1)..m :
                         OptsIn(ks, gs, j).key # Nil /\ SlotOf(OptsIn(ks, gs, j)) = s}
          IN  \/ /\ qs[s] = rs[s] /\ new = {}
                 /\ rs[s] # Nil => ~Freed(ks, gs, rs[s].job)
              \/ /\ rs[s] = Nil /\ qs[s] # Nil
                 /\ new = {qs[s].job}
                 /\ OptsIn(ks, gs, qs[s].job) = qs[s].request.opts
                 /\ ks[qs[s].job] # Nil
              \/ /\ rs[s] # Nil /\ qs[s] = Nil /\ new = {}
                 /\ Freed(ks, gs, rs[s].job)

\* Such a transaction keeps the slots sound.
LEMMA SlotStepKeepsSlotted ==
    ASSUME NEW n \in Nat, NEW m \in Nat, NEW js, NEW hs, NEW rs, NEW ks, NEW gs, NEW qs,
           NEW gone,
           \A i \in 1..m : OptsIn(ks, gs, i) \in Opts,
           Slotted(n, js, hs, rs, gone), SlotStep(n, js, hs, rs, m, ks, gs, qs)
    PROVE  Slotted(m, ks, gs, qs, gone)
<1> DEFINE o(i) == OptsIn(js, hs, i)
           p(i) == OptsIn(ks, gs, i)
           new(s) == {j \in (n + 1)..m : p(j).key # Nil /\ SlotOf(p(j)) = s}
           Alone(s) == qs[s] = rs[s] /\ new(s) = {}
                       /\ (rs[s] # Nil => ~Freed(ks, gs, rs[s].job))
           Taken(s) == rs[s] = Nil /\ qs[s] # Nil /\ new(s) = {qs[s].job}
                       /\ p(qs[s].job) = qs[s].request.opts /\ ks[qs[s].job] # Nil
           Given(s) == rs[s] # Nil /\ qs[s] = Nil /\ new(s) = {} /\ Freed(ks, gs, rs[s].job)
<1>1. /\ n <= m
      /\ \A i \in 1..n : p(i) = o(i) /\ (js[i] = Nil => ks[i] = Nil)
      /\ \A s \in Slot : Alone(s) \/ Taken(s) \/ Given(s)
  BY DEF SlotStep
<1>2. \A s \in Slot : rs[s] # Nil =>
          /\ rs[s].job \in 1..n /\ SlotOf(o(rs[s].job)) = s
          /\ o(rs[s].job) = rs[s].request.opts
          /\ ~Freed(js, hs, rs[s].job)
  BY DEF Slotted
<1>3. \A i \in (1..n) \ gone : o(i).key # Nil /\ ~Freed(js, hs, i)
          => rs[SlotOf(o(i))] # Nil /\ rs[SlotOf(o(i))].job = i
  BY DEF Slotted
<1>4. \A i \in (1..n) \ gone, j \in 1..n : i < j /\ o(i).key # Nil /\ SlotOf(o(i)) = SlotOf(o(j))
          => Freed(js, hs, i)
  BY DEF Slotted
<1>5. \A i \in 1..m : p(i).key # Nil => SlotOf(p(i)) \in Slot
  BY DEF SlotOf, Slot, Opts
<1>6. \A i \in 1..n : Freed(js, hs, i) => Freed(ks, gs, i)
  BY <1>1 DEF Freed
<1>7. \A i \in 1..m : i \in 1..n \/ (i \in (n + 1)..m /\ i \notin 1..n)
  OBVIOUS
<1>8. \A i \in 1..n : i \in 1..m
  BY <1>1
<1>9. \A i \in 1..m : p(i).key # Nil => (i \in new(SlotOf(p(i))) <=> i \notin 1..n)
  BY <1>7
<1>10. \A s \in Slot : \A i \in new(s) : i \in 1..m /\ i \notin 1..n /\ SlotOf(p(i)) = s
                                         /\ p(i).key # Nil
  OBVIOUS
<1>11. \A i \in 1..m : ks[i] # Nil => ~Freed(ks, gs, i)
  BY DEF Freed
<1>12. \A i, j \in 1..m : i < j /\ j \in 1..n => i \in 1..n
  BY <1>1
<1>13. \A i \in 1..m : p(i).key # Nil =>
          \A j \in 1..m : SlotOf(p(j)) = SlotOf(p(i)) => p(j).key # Nil
  BY DEF SlotOf
<1>14. \A i \in 1..n : o(i) = p(i)
  BY <1>1
<1> HIDE DEF o, p, new
<1>15. ASSUME NEW s \in Slot, qs[s] # Nil
       PROVE  /\ qs[s].job \in 1..m /\ SlotOf(p(qs[s].job)) = s
              /\ p(qs[s].job) = qs[s].request.opts /\ ~Freed(ks, gs, qs[s].job)
  <2>1. CASE Alone(s)
    BY Zenon, <1>15, <2>1, <1>2, <1>8, <1>14
  <2>2. CASE Taken(s)
    BY Zenon, <2>2, <1>10, <1>11
  <2> QED
    BY Zenon, <1>1, <1>15, <2>1, <2>2
<1>16. ASSUME NEW i \in (1..m) \ gone, p(i).key # Nil, ~Freed(ks, gs, i)
       PROVE  qs[SlotOf(p(i))] # Nil /\ qs[SlotOf(p(i))].job = i
  <2> DEFINE s == SlotOf(p(i))
  <2>1. s \in Slot
    BY Zenon, <1>5, <1>16
  <2>2. CASE i \in 1..n
    <3>1. rs[s] # Nil /\ rs[s].job = i
      BY Zenon, <1>3, <1>6, <1>14, <1>16, <2>2
    <3> QED
      BY Zenon, <1>1, <1>16, <2>1, <3>1
  <2>3. CASE i \notin 1..n
    <3>1. i \in new(s)
      BY Zenon, <1>9, <1>16, <2>3
    <3>2. Taken(s)
      BY Zenon, <1>1, <2>1, <3>1
    <3> QED
      BY Zenon, <3>1, <3>2
  <2> QED
    BY <2>2, <2>3
<1>17. ASSUME NEW i \in (1..m) \ gone, NEW j \in 1..m, i < j, p(i).key # Nil,
              SlotOf(p(i)) = SlotOf(p(j))
       PROVE  Freed(ks, gs, i)
  <2> DEFINE s == SlotOf(p(i))
  <2>1. s \in Slot /\ p(j).key # Nil /\ SlotOf(p(j)) = s
    BY Zenon, <1>5, <1>13, <1>17
  <2>2. CASE j \in 1..n
    BY Zenon, <1>4, <1>6, <1>12, <1>14, <1>17, <2>2
  <2>3. CASE j \notin 1..n
    <3>1. j \in new(s)
      BY Zenon, <1>9, <2>1, <2>3
    <3>2. Taken(s)
      BY Zenon, <1>1, <2>1, <3>1
    <3>3. j = qs[s].job /\ rs[s] = Nil
      BY Zenon, <3>1, <3>2
    <3>4. i # j
      BY <1>17
    <3>5. i \in 1..n
      <4>1. i \notin new(s)
        BY Zenon, <3>2, <3>3, <3>4
      <4> QED
        BY Zenon, <1>9, <1>17, <4>1
    <3> QED
      BY Zenon, <1>3, <1>6, <1>14, <1>17, <3>3, <3>5
  <2> QED
    BY <2>2, <2>3
<1> QED
  BY Zenon, <1>15, <1>16, <1>17 DEF Slotted, p

\* enqueue_one finds the slot free or inserts nothing, so a batch keeps the slots
\* sound request by request, also when two of its requests share a key.
LEMMA EnqueueOneSlots ==
    ASSUME NEW t \in TxOK, NEW r \in Request, t.issued < MaxJobs, now \in Nat,
           history \in [JobId -> Archived \cup {Nil}],
           ingressRules \in [Facet -> RateRule \cup {Nil}], NEW hs, NEW gone,
           \A i \in 1..t.issued : OptsIn(t.jobs, hs, i) \in Opts,
           Slotted(t.issued, t.jobs, hs, t.receipts, gone)
    PROVE  LET u == EnqueueOne(t, r)
           IN  /\ \A i \in 1..u.issued : OptsIn(u.jobs, hs, i) \in Opts
               /\ Slotted(u.issued, u.jobs, hs, u.receipts, gone)
<1>1. CASE Verdict(t, r) # "inserted"
  BY <1>1 DEF EnqueueOne
<1>2. CASE Verdict(t, r) = "inserted"
  <2> DEFINE n == t.issued
             u == Inserted(t, r)
             slot == SlotOf(r.opts)
             opts(i) == OptsIn(u.jobs, hs, i)
  <2>1. n \in Nat /\ u.issued = n + 1 /\ n + 1 \in JobId /\ \A i \in 1..n : i \in JobId
    BY BoundAssumption DEF Inserted, TxOK, JobId
  <2>2. u \in TxOK /\ Fresh(u.jobs[n + 1])
        /\ \A i \in JobId : i # n + 1 => u.jobs[i] = t.jobs[i]
    <3>1. Continues(t, u)
      BY <1>2, EnqueueOneContinues
    <3>2. \A i \in JobId : i \in Nat
      BY DEF JobId
    <3> QED
      BY <2>1, <3>1, <3>2 DEF Continues
  <2>3. u.jobs[n + 1].opts = r.opts /\ u.jobs[n + 1] # Nil
    <3>1. u.jobs[n + 1] = NewJob(t, r)
      BY Zenon, <2>1 DEF Inserted, TxOK
    <3>2. NewJob(t, r).opts = r.opts
      BY Zenon DEF NewJob
    <3>3. u.jobs[n + 1] # Nil
      BY Zenon, <2>2, RowsNotNil DEF Fresh
    <3> QED
      BY Zenon, <3>1, <3>2, <3>3
  <2>4. /\ r.opts \in Opts
        /\ r.opts.key # Nil => slot \in Slot
        /\ r.opts.key # Nil => t.receipts[slot] = Nil
    <3>1. r.opts \in Opts
      BY DEF Request
    <3>2. r.opts.key # Nil => slot \in Slot
      BY <3>1 DEF Opts, SlotOf, Slot
    <3>3. r.opts.key # Nil => t.receipts[slot] = Nil
      BY Zenon, <1>2 DEF Verdict
    <3> QED
      BY <3>1, <3>2, <3>3
  <2>5. ASSUME NEW s \in Slot
        PROVE  u.receipts[s] = IF r.opts.key # Nil /\ slot = s
                               THEN [request |-> r, job |-> n + 1] ELSE t.receipts[s]
    <3>1. u.receipts = IF r.opts.key = Nil THEN t.receipts
                       ELSE [t.receipts EXCEPT ![slot] = [request |-> r, job |-> n + 1]]
      BY Zenon DEF Inserted
    <3>2. t.receipts \in [Slot -> Receipt \cup {Nil}]
      BY DEF TxOK
    <3> HIDE DEF u, slot
    <3> QED
      BY Zenon, <2>4, <3>1, <3>2
  <2>6. [request |-> r, job |-> n + 1] # Nil
    BY <2>1, NilAssumption DEF Receipt
  <2> HIDE DEF n, u, slot
  <2>7. /\ \A i \in 1..n : opts(i) = OptsIn(t.jobs, hs, i) /\ u.jobs[i] = t.jobs[i]
        /\ opts(n + 1) = r.opts
    <3>1. \A i \in 1..n : i # n + 1
      BY <2>1
    <3> QED
      BY Zenon, <2>1, <2>2, <2>3, <3>1 DEF OptsIn
  <2>8. \A i \in 1..(n + 1) : opts(i) \in Opts
    <3>1. \A i \in 1..(n + 1) : i \in 1..n \/ i = n + 1
      BY <2>1
    <3>2. \A i \in 1..n : OptsIn(t.jobs, hs, i) \in Opts
      BY DEF n
    <3> HIDE DEF opts
    <3> QED
      BY Zenon, <2>4, <2>7, <3>1, <3>2
  <2>9. ASSUME NEW s \in Slot, t.receipts[s] # Nil
        PROVE  ~Freed(u.jobs, hs, t.receipts[s].job)
    BY Zenon, <2>7, <2>9 DEF Slotted, Freed, n
  <2>10. (n + 1)..(n + 1) = {n + 1}
    BY <2>1
  <2>11. ASSUME NEW s \in Slot
         PROVE  LET new == {j \in {n + 1} : opts(j).key # Nil /\ SlotOf(opts(j)) = s}
                IN  \/ /\ u.receipts[s] = t.receipts[s] /\ new = {}
                       /\ t.receipts[s] # Nil => ~Freed(u.jobs, hs, t.receipts[s].job)
                    \/ /\ t.receipts[s] = Nil /\ u.receipts[s] # Nil
                       /\ new = {u.receipts[s].job}
                       /\ opts(u.receipts[s].job) = u.receipts[s].request.opts
                       /\ u.jobs[u.receipts[s].job] # Nil
    <3> DEFINE new == {j \in {n + 1} : opts(j).key # Nil /\ SlotOf(opts(j)) = s}
    <3>1. CASE r.opts.key # Nil /\ slot = s
      <4>1. /\ u.receipts[s] = [request |-> r, job |-> n + 1] /\ u.receipts[s] # Nil
            /\ t.receipts[s] = Nil
        BY Zenon, <2>4, <2>5, <2>6, <3>1
      <4>2. u.receipts[s].job = n + 1 /\ u.receipts[s].request = r
        BY <4>1
      <4>3. new = {n + 1}
        BY Zenon, <2>7, <3>1 DEF slot
      <4> QED
        BY Zenon, <2>3, <2>7, <4>1, <4>2, <4>3
    <3>2. CASE ~(r.opts.key # Nil /\ slot = s)
      <4>1. u.receipts[s] = t.receipts[s]
        BY Zenon, <2>5, <3>2
      <4>2. new = {}
        BY Zenon, <2>7, <3>2 DEF slot
      <4> QED
        BY Zenon, <2>9, <4>1, <4>2
    <3> QED
      BY Zenon, <3>1, <3>2
  <2>12. SlotStep(n, t.jobs, hs, t.receipts, n + 1, u.jobs, hs, u.receipts)
    <3>1. n <= n + 1
      BY <2>1
    <3> QED
      BY Zenon, <2>7, <2>10, <2>11, <3>1 DEF SlotStep
  <2>13. Slotted(n + 1, u.jobs, hs, u.receipts, gone)
    <3>1. n + 1 \in Nat /\ Slotted(n, t.jobs, hs, t.receipts, gone)
      BY <2>1 DEF n
    <3>2. \A i \in 1..(n + 1) : OptsIn(u.jobs, hs, i) \in Opts
      BY Zenon, <2>8
    <3> QED
      BY SMT, <2>1, <2>12, <3>1, <3>2, SlotStepKeepsSlotted
  <2>14. EnqueueOne(t, r) = u
    BY <1>2 DEF EnqueueOne, u
  <2> QED
    BY <2>1, <2>8, <2>13, <2>14
<1> QED
  BY <1>1, <1>2

\* The slots of the broker's tables.
SlotsInv == Slotted(issued, jobs, history, receipts, {})

\* Every job there is has options.
LEMMA OptsTyped ==
    ASSUME NEW n \in 0..MaxJobs, NEW js \in [JobId -> Job \cup {Nil}],
           NEW hs \in [JobId -> Archived \cup {Nil}],
           \A i \in JobId : i <= n => js[i] # Nil \/ hs[i] # Nil
    PROVE  \A i \in 1..n : i \in JobId /\ OptsIn(js, hs, i) \in Opts
<1> SUFFICES ASSUME NEW i \in 1..n
             PROVE  i \in JobId /\ OptsIn(js, hs, i) \in Opts
  OBVIOUS
<1>1. i \in JobId /\ i <= n
  BY BoundAssumption DEF JobId
<1>2. \A r \in Job : r.opts \in Opts
  BY DEF Job
<1>3. \A r \in Archived : r.opts \in Opts
  BY DEF Archived
<1>4. js[i] \in Job \cup {Nil} /\ hs[i] \in Archived \cup {Nil}
  BY <1>1
<1> QED
  BY Zenon, <1>1, <1>2, <1>3, <1>4 DEF OptsIn

\* No job changes its options, which are in jobs or else in `hs`, or comes back to
\* jobs.
OptionsStay(hs, gs) ==
    /\ issued <= issued'
    /\ \A i \in 1..issued :
          /\ i \in JobId
          /\ OptsIn(jobs', gs, i) = OptsIn(jobs, hs, i)
          /\ jobs[i] = Nil => jobs'[i] = Nil
    /\ \A i \in 1..issued' : i \in JobId /\ OptsIn(jobs', gs, i) \in Opts

\* Without a sweeper, options stay in jobs and job_history.
LEMMA OptionsKept ==
    ASSUME IInv, IInv', Rows \/ \E i \in JobId, w \in Worker : ClaimStep(i, w)
    PROVE  OptionsStay(history, history')
<1>1. issued \in Nat /\ \A i \in 1..issued : i \in JobId /\ i <= issued /\ i \in Nat
  BY BoundAssumption DEF IInv, TypeOK, JobId
<1>2. ASSUME Rows
      PROVE  /\ issued <= issued'
             /\ \A i \in 1..issued :
                   /\ OptsIn(jobs', history', i) = OptsIn(jobs, history, i)
                   /\ jobs[i] = Nil => jobs'[i] = Nil
  <2>1. ASSUME NEW i \in 1..issued
        PROVE  Settles(i)
    <3>1. ~(issued < i)
      BY <1>1
    <3> QED
      BY Zenon, <1>1, <1>2, <3>1 DEF Rows
  <2>2. ASSUME NEW i \in 1..issued
        PROVE  /\ OptsIn(jobs', history', i) = OptsIn(jobs, history, i)
               /\ jobs[i] = Nil => jobs'[i] = Nil
    BY Zenon, <2>1 DEF Settles, Kept, Requeued, Ended, OptsIn, Live, Active
  <2>3. issued <= issued'
    BY Zenon, <1>2 DEF Rows
  <2> QED
    BY Zenon, <2>2, <2>3
<1>3. ASSUME NEW i \in JobId, NEW w \in Worker, ClaimStep(i, w)
      PROVE  /\ issued <= issued'
             /\ \A j \in 1..issued :
                   /\ OptsIn(jobs', history', j) = OptsIn(jobs, history, j)
                   /\ jobs[j] = Nil => jobs'[j] = Nil
  <2>1. /\ issued' = issued /\ history' = history /\ jobs[i] # Nil /\ jobs'[i] # Nil
        /\ jobs'[i].opts = jobs[i].opts /\ \A j \in JobId : j # i => jobs'[j] = jobs[j]
    BY Zenon, <1>3 DEF ClaimStep, Live, Active
  <2>2. ASSUME NEW j \in 1..issued
        PROVE  /\ OptsIn(jobs', history', j) = OptsIn(jobs, history, j)
               /\ jobs[j] = Nil => jobs'[j] = Nil
    BY Zenon, <1>1, <2>1 DEF OptsIn
  <2> QED
    BY <1>1, <2>1, <2>2
<1>4. \A i \in 1..issued' : i \in JobId /\ OptsIn(jobs', history', i) \in Opts
  <2>1. issued' \in 0..MaxJobs /\ jobs' \in [JobId -> Job \cup {Nil}]
        /\ history' \in [JobId -> Archived \cup {Nil}]
    BY Zenon DEF IInv, TypeOK
  <2>2. \A i \in JobId : i <= issued' => jobs'[i] # Nil \/ history'[i] # Nil
    BY Zenon DEF IInv, NoJobLost, Live, Finished
  <2> QED
    BY Zenon, <2>1, <2>2, OptsTyped
<1> QED
  BY Zenon, <1>1, <1>2, <1>3, <1>4 DEF OptionsStay

\* A step that adds no job and deletes the release-on-finish receipts of exactly
\* the jobs it ends keeps the slots sound.
LEMMA EndingKeepsSlots ==
    ASSUME TypeOK, NEW hs, NEW gs, NEW gone, OptionsStay(hs, gs),
           Slotted(issued, jobs, hs, receipts, gone),
           issued' = issued,
           NEW done, receipts' = ReceiptsAfter(done),
           \A i \in JobId : Live(i) => (jobs'[i] = Nil <=> i \in done)
    PROVE  Slotted(issued', jobs', gs, receipts', gone)
<1>1. issued \in Nat /\ issued' \in Nat /\ receipts \in [Slot -> Receipt \cup {Nil}]
  BY DEF TypeOK
<1>2. /\ issued <= issued'
      /\ \A i \in 1..issued :
            /\ i \in JobId
            /\ OptsIn(jobs', gs, i) = OptsIn(jobs, hs, i)
            /\ jobs[i] = Nil => jobs'[i] = Nil
      /\ \A i \in 1..issued' : OptsIn(jobs', gs, i) \in Opts
  BY Zenon DEF OptionsStay
<1>3. (issued + 1)..issued' = {}
  BY <1>1
<1>4. ASSUME NEW s \in Slot
      PROVE  receipts'[s] = IF receipts[s] # Nil /\ receipts[s].job \in done
                               /\ receipts[s].request.opts.release
                            THEN Nil ELSE receipts[s]
  BY Zenon DEF ReceiptsAfter
<1>5. ASSUME NEW s \in Slot, receipts[s] # Nil
      PROVE  /\ OptsIn(jobs', gs, receipts[s].job) = receipts[s].request.opts
             /\ Freed(jobs', gs, receipts[s].job)
                  <=> receipts[s].request.opts.release /\ receipts[s].job \in done
  <2> DEFINE i == receipts[s].job
  <2>1. /\ i \in 1..issued /\ OptsIn(jobs, hs, i) = receipts[s].request.opts
        /\ ~Freed(jobs, hs, i)
    BY Zenon, <1>5 DEF Slotted
  <2>2. /\ i \in JobId /\ OptsIn(jobs', gs, i) = receipts[s].request.opts
        /\ (jobs[i] = Nil => jobs'[i] = Nil) /\ (jobs[i] # Nil => (jobs'[i] = Nil <=> i \in done))
    BY Zenon, <1>2, <2>1 DEF Live
  <2> HIDE DEF i
  <2>3. Freed(jobs', gs, i) <=> receipts[s].request.opts.release /\ i \in done
    BY Zenon, <2>1, <2>2 DEF Freed
  <2> QED
    BY Zenon, <2>2, <2>3 DEF i
<1>6. SlotStep(issued, jobs, hs, receipts, issued', jobs', gs, receipts')
  <2>1. ASSUME NEW s \in Slot
        PROVE  \/ /\ receipts'[s] = receipts[s]
                  /\ receipts[s] # Nil => ~Freed(jobs', gs, receipts[s].job)
               \/ /\ receipts[s] # Nil /\ receipts'[s] = Nil
                  /\ Freed(jobs', gs, receipts[s].job)
    BY Zenon, <1>4, <1>5
  <2> QED
    BY Zenon, <1>2, <1>3, <2>1 DEF SlotStep
<1> QED
  BY Zenon, <1>1, <1>2, <1>6, SlotStepKeepsSlotted

\* A step that ends no job and leaves the receipts alone keeps the slots sound.
LEMMA QuietSlots ==
    ASSUME TypeOK, NEW hs, NEW gs, NEW gone, OptionsStay(hs, gs),
           Slotted(issued, jobs, hs, receipts, gone),
           issued' = issued, receipts' = receipts,
           \A i \in JobId : Live(i) => Live(i)'
    PROVE  Slotted(issued', jobs', gs, receipts', gone)
<1>1. receipts' = ReceiptsAfter({})
  <2>1. receipts \in [Slot -> Receipt \cup {Nil}]
    BY Zenon DEF TypeOK
  <2> QED
    BY <2>1 DEF ReceiptsAfter
<1>2. \A i \in JobId : Live(i) => (jobs'[i] = Nil <=> i \in {})
  BY Zenon DEF Live
<1> QED
  BY SMT, <1>1, <1>2, EndingKeepsSlots

\* AddJob and AddJobBulk keep the slots sound.
LEMMA AddJobSlots ==
    ASSUME TypeOK, NEW hs, NEW gone, Slotted(issued, jobs, hs, receipts, gone),
           \A i \in 1..issued : OptsIn(jobs, hs, i) \in Opts,
           \/ \E raw \in RawRequest : AddJob(raw)
           \/ \E raw1 \in RawRequest, raw2 \in RawRequest : AddJobBulk(raw1, raw2)
    PROVE  Slotted(issued', jobs', hs, receipts', gone)
<1> DEFINE Good(t) == /\ \A i \in 1..t.issued : OptsIn(t.jobs, hs, i) \in Opts
                      /\ Slotted(t.issued, t.jobs, hs, t.receipts, gone)
           Sound == Slotted(issued', jobs', hs, receipts', gone)
<1>1. /\ Tx \in TxOK /\ Tx.issued = issued /\ now \in Nat /\ MaxJobs \in Nat /\ issued \in Nat
      /\ history \in [JobId -> Archived \cup {Nil}]
      /\ ingressRules \in [Facet -> RateRule \cup {Nil}]
  BY Zenon, TxBegins DEF TypeOK
<1>2. Good(Tx)
  <2>1. Tx.issued = issued /\ Tx.jobs = jobs /\ Tx.receipts = receipts
    BY DEF Tx
  <2> QED
    BY Zenon, <2>1
<1>3. ASSUME NEW t \in TxOK, NEW r \in Request, t.issued < MaxJobs, Good(t)
      PROVE  Good(EnqueueOne(t, r))
  BY Zenon, <1>1, <1>3, EnqueueOneSlots
<1> HIDE DEF Good
<1>4. ASSUME NEW t, Good(t), Commit(t)
      PROVE  Sound
  BY Zenon, <1>4 DEF Good, Commit
<1>5. ASSUME NEW kind, RecordRejection(kind)
      PROVE  Sound
  <2>1. issued' = issued /\ jobs' = jobs /\ history' = history /\ receipts' = receipts
    BY Zenon, <1>5 DEF RecordRejection
  <2> QED
    BY Zenon, <2>1
<1>6. ASSUME NEW raw \in RawRequest, AddJob(raw)
      PROVE  Sound
  <2> DEFINE r == Prepared(raw)
  <2>1. r \in Request
    BY PreparedType
  <2>2. /\ Tx.issued < MaxJobs
        /\ \/ Verdict(Tx, r) = "inserted" /\ Commit(Inserted(Tx, r))
           \/ RecordRejection(Verdict(Tx, r))
    BY Zenon, <1>1, <1>6 DEF AddJob
  <2> HIDE DEF r
  <2>3. Good(EnqueueOne(Tx, r))
    BY Zenon, <1>1, <1>2, <1>3, <2>1, <2>2
  <2>4. Verdict(Tx, r) = "inserted" => EnqueueOne(Tx, r) = Inserted(Tx, r)
    BY Zenon DEF EnqueueOne
  <2> QED
    BY Zenon, <1>4, <1>5, <2>2, <2>3, <2>4
<1>7. ASSUME NEW raw1 \in RawRequest, NEW raw2 \in RawRequest, AddJobBulk(raw1, raw2)
      PROVE  Sound
  <2> DEFINE first == EnqueueOne(Tx, Prepared(raw1))
             both == EnqueueOne(first, Prepared(raw2))
  <2>1. Prepared(raw1) \in Request /\ Prepared(raw2) \in Request
    BY PreparedType
  <2>2. /\ issued + 2 <= MaxJobs
        /\ Commit(both) \/ \E kind \in RejectionKind : RecordRejection(kind)
    BY ZenonT(60), <1>7 DEF AddJobBulk
  <2>3. Tx.issued < MaxJobs
    BY <1>1, <2>2
  <2>4. Continues(Tx, first) /\ first.issued <= Tx.issued + 1
    BY Zenon, <1>1, <2>1, <2>3, EnqueueOneContinues
  <2>5. first \in TxOK /\ first.issued \in Nat
    <3>1. first \in TxOK
      BY Zenon, <2>4 DEF Continues
    <3> HIDE DEF first
    <3>2. first.issued \in 0..MaxJobs
      BY <3>1 DEF TxOK
    <3> QED
      BY <3>1, <3>2
  <2>6. first.issued < MaxJobs
    BY <1>1, <2>2, <2>4, <2>5
  <2>7. Good(first)
    BY Zenon, <1>1, <1>2, <1>3, <2>1, <2>3
  <2> HIDE DEF first
  <2>8. Good(both)
    BY Zenon, <1>3, <2>1, <2>5, <2>6, <2>7
  <2> QED
    BY Zenon, <1>4, <1>5, <2>2, <2>8
<1> QED
  BY Zenon, <1>6, <1>7

\* A flow's receipt carries the row's options and its id.
LEMMA FlowReceiptFields ==
    ASSUME NEW job, NEW i
    PROVE  FlowReceipt(job, i).job = i /\ FlowReceipt(job, i).request.opts = job.opts
  BY DEF FlowReceipt

\* The slots after a request's forest is in: each key was unused and no two nodes
\* share one, so every slot has at most one new holder.
LEMMA ForestSlots ==
    ASSUME TypeOK, TypeOK', NEW hs, NEW gs, NEW gone, OptionsStay(hs, gs),
           Slotted(issued, jobs, hs, receipts, gone), Rows,
           NEW f \in Seq(Node), ValidForest(f), KeysUnused(f), NEW row,
           issued' = issued + Len(f), receipts' = ReceiptsWith(f, row),
           \A k \in DOMAIN f : /\ jobs'[issued + k] = row[k]
                               /\ row[k].opts = PreparedOpts(f[k].opts),
           \A i \in JobId : Live(i) => Live(i)'
    PROVE  Slotted(issued', jobs', gs, receipts', gone)
<1>1. /\ issued \in Nat /\ issued' \in Nat /\ DOMAIN f = 1..Len(f) /\ Len(f) \in Nat
      /\ \A i \in 1..issued' : i \in JobId /\ OptsIn(jobs', gs, i) \in Opts
  <2>1. issued' \in 0..MaxJobs /\ issued \in 0..MaxJobs
    BY Zenon DEF TypeOK
  <2>2. \A i \in 1..issued' : i \in JobId /\ OptsIn(jobs', gs, i) \in Opts
    BY Zenon DEF OptionsStay
  <2> QED
    BY <2>1, <2>2
<1>2. /\ issued <= issued'
      /\ \A i \in 1..issued :
            /\ i \in JobId
            /\ OptsIn(jobs', gs, i) = OptsIn(jobs, hs, i)
            /\ jobs[i] = Nil => jobs'[i] = Nil
  BY Zenon DEF OptionsStay
<1>3. ASSUME NEW k \in DOMAIN f
      PROVE  /\ issued + k \in (issued + 1)..issued' /\ jobs'[issued + k] # Nil
             /\ OptsIn(jobs', gs, issued + k) = row[k].opts
             /\ SlotOf(row[k].opts) = SlotOf(f[k].opts) /\ row[k].opts.key = f[k].opts.key
             /\ row[k].opts \in Opts
             /\ f[k].opts.key # Nil => SlotOf(f[k].opts) \in Slot
             /\ row[k] \in Job
  <2>1. issued + k \in (issued + 1)..issued' /\ issued + k \in 1..issued'
    BY <1>1
  <2>2. Fresh(jobs'[issued + k])
    <3>1. issued + k \in JobId /\ issued < issued + k /\ issued + k <= issued'
      BY <1>1, <2>1
    <3> QED
      BY Zenon, <3>1 DEF Rows
  <2>3. jobs'[issued + k] # Nil
    BY Zenon, <2>2, RowsNotNil DEF Fresh
  <2>4. f[k].opts \in RawOpts
    <3>1. f[k] \in Node
      BY <1>1
    <3> QED
      BY Zenon, <3>1 DEF Node
  <2>5. /\ PreparedOpts(f[k].opts) \in Opts
        /\ PreparedOpts(f[k].opts).key = f[k].opts.key
        /\ PreparedOpts(f[k].opts).name = f[k].opts.name
    BY Zenon, <2>4, PreparedOptsType
  <2>6. f[k].opts.key # Nil => SlotOf(f[k].opts) \in Slot
    BY Zenon, <2>4 DEF RawOpts, SlotOf, Slot
  <2> QED
    BY Zenon, <2>1, <2>2, <2>3, <2>5, <2>6 DEF OptsIn, SlotOf, Fresh
<1>4. \A j \in (issued + 1)..issued' : \E k \in DOMAIN f : j = issued + k
  <2> SUFFICES ASSUME NEW j \in (issued + 1)..issued'
               PROVE  \E k \in DOMAIN f : j = issued + k
    BY Zenon
  <2>1. j - issued \in DOMAIN f /\ j = issued + (j - issued)
    BY <1>1
  <2> QED
    BY Zenon, <2>1
<1>5. ASSUME NEW s \in Slot, receipts[s] # Nil
      PROVE  ~Freed(jobs', gs, receipts[s].job)
  BY Zenon, <1>2, <1>5 DEF Slotted, Freed, Live
<1> DEFINE new(s) == {j \in (issued + 1)..issued' :
                        /\ OptsIn(jobs', gs, j).key # Nil
                        /\ SlotOf(OptsIn(jobs', gs, j)) = s}
<1>6. ASSUME NEW s \in Slot, NEW k \in DOMAIN f, f[k].opts.key # Nil, SlotOf(f[k].opts) = s
      PROVE  /\ receipts[s] = Nil /\ receipts'[s] # Nil /\ new(s) = {receipts'[s].job}
             /\ OptsIn(jobs', gs, receipts'[s].job) = receipts'[s].request.opts
             /\ jobs'[receipts'[s].job] # Nil
  <2>1. receipts[s] = Nil
    BY Zenon, <1>6 DEF KeysUnused
  <2>2. \A j \in DOMAIN f : SlotOf(f[j].opts) = s => j = k
    BY Zenon, <1>6 DEF ValidForest
  <2>3. (CHOOSE j \in DOMAIN f : SlotOf(f[j].opts) = s) = k
    BY Zenon, <1>6, <2>2
  <2>4. receipts'[s] = FlowReceipt(row[k], issued + k)
    BY Zenon, <1>6, <2>3 DEF ReceiptsWith
  <2>5. receipts'[s].job = issued + k /\ receipts'[s].request.opts = row[k].opts
    BY <2>4, FlowReceiptFields
  <2>6. receipts'[s] # Nil
    <3>1. row[k] \in Job /\ issued + k \in JobId
      <4>1. issued + k \in 1..issued'
        BY <1>1
      <4> QED
        BY Zenon, <1>1, <1>3, <4>1
    <3>2. row[k].opts \in Opts /\ row[k].link \in Link
      BY Zenon, <3>1 DEF Job
    <3>3. FlowReceipt(row[k], issued + k) \in Receipt
      BY Zenon, <3>1, <3>2 DEF FlowReceipt, Receipt, Request, Link
    <3> QED
      BY Zenon, <2>4, <3>3, NilAssumption
  <2>7. new(s) = {issued + k}
    <3>1. issued + k \in new(s)
      BY Zenon, <1>3, <1>6
    <3>2. ASSUME NEW j \in new(s)
          PROVE  j = issued + k
      <4>1. PICK l \in DOMAIN f : j = issued + l
        BY Zenon, <1>4
      <4>2. OptsIn(jobs', gs, j).key # Nil /\ SlotOf(OptsIn(jobs', gs, j)) = s
        BY Zenon
      <4>3. SlotOf(f[l].opts) = s
        BY Zenon, <1>3, <4>1, <4>2
      <4> QED
        BY Zenon, <2>2, <4>1, <4>3
    <3> QED
      BY Zenon, <3>1, <3>2
  <2> QED
    BY Zenon, <1>3, <2>1, <2>5, <2>6, <2>7
<1>7. ASSUME NEW s \in Slot, \A k \in DOMAIN f : f[k].opts.key # Nil => SlotOf(f[k].opts) # s
      PROVE  receipts'[s] = receipts[s] /\ new(s) = {}
  <2>1. receipts'[s] = receipts[s]
    BY Zenon, <1>7 DEF ReceiptsWith
  <2>2. ASSUME NEW j \in new(s)
        PROVE  FALSE
    <3>1. PICK l \in DOMAIN f : j = issued + l
      BY Zenon, <1>4
    <3>2. OptsIn(jobs', gs, j).key # Nil /\ SlotOf(OptsIn(jobs', gs, j)) = s
      BY Zenon
    <3>3. SlotOf(f[l].opts) = s /\ f[l].opts.key # Nil
      BY Zenon, <1>3, <3>1, <3>2
    <3> QED
      BY Zenon, <1>7, <3>3
  <2> QED
    BY Zenon, <2>1, <2>2
<1>8. SlotStep(issued, jobs, hs, receipts, issued', jobs', gs, receipts')
  <2>1. ASSUME NEW s \in Slot
        PROVE  \/ /\ receipts'[s] = receipts[s] /\ new(s) = {}
                  /\ receipts[s] # Nil => ~Freed(jobs', gs, receipts[s].job)
               \/ /\ receipts[s] = Nil /\ receipts'[s] # Nil /\ new(s) = {receipts'[s].job}
                  /\ OptsIn(jobs', gs, receipts'[s].job) = receipts'[s].request.opts
                  /\ jobs'[receipts'[s].job] # Nil
    BY Zenon, <1>5, <1>6, <1>7
  <2> QED
    BY Zenon, <1>2, <2>1 DEF SlotStep
<1> QED
  BY Zenon, <1>1, <1>8, SlotStepKeepsSlotted

\* AddFlow, AddFlowBulk and AddFlowMerge keep the slots sound.
LEMMA FlowSlots ==
    ASSUME TypeOK, NEW hs, NEW gs, NEW gone, OptionsStay(hs, gs),
           Slotted(issued, jobs, hs, receipts, gone), Quiet, Undisturbed,
           NEW f \in Seq(Node),
           AddFlow(f) \/ \E s \in Slot : AddFlowMerge(s, f)
    PROVE  Slotted(issued', jobs', gs, receipts', gone)
<1>1. /\ issued \in Nat /\ DOMAIN f = 1..Len(f) /\ Len(f) \in Nat /\ MaxJobs \in Nat
      /\ Rows /\ TypeOK'
  <2>1. issued \in 0..MaxJobs /\ MaxJobs \in Nat /\ Rows /\ TypeOK'
    BY Zenon, BoundAssumption DEF TypeOK, Quiet
  <2> QED
    BY <2>1
<1>2. ASSUME NEW i \in JobId, Live(i)
      PROVE  Live(i)'
  <2>1. CASE issued < i /\ i <= issued'
    BY Zenon, <1>1, <2>1, RowsNotNil DEF Rows, Fresh, Live
  <2>2. CASE ~(issued < i /\ i <= issued')
    BY Zenon, <1>2, <2>2 DEF Undisturbed, Kept, Live
  <2> QED
    BY <2>1, <2>2
<1>3. ASSUME NEW k \in DOMAIN f, issued + Len(f) <= MaxJobs
      PROVE  issued + k \in JobId /\ (issued + k) - issued = k /\ ~(issued + k <= issued)
  BY <1>1, <1>3 DEF JobId
<1>4. ASSUME AddFlow(f)
      PROVE  Slotted(issued', jobs', gs, receipts', gone)
  <2> DEFINE row == [k \in DOMAIN f |-> FlowJob(f, k, Nil, issued + f[k].root, 0)]
  <2>1. /\ ValidForest(f) /\ KeysUnused(f) /\ issued + Len(f) <= MaxJobs
        /\ issued' = issued + Len(f) /\ receipts' = ReceiptsWith(f, row)
        /\ jobs' = [i \in JobId |->
                      IF i - issued \in DOMAIN f THEN row[i - issued] ELSE jobs[i]]
    BY Zenon, <1>4 DEF AddFlow
  <2>2. \A k \in DOMAIN f : row[k].opts = PreparedOpts(f[k].opts)
    BY Zenon DEF FlowJob
  <2> HIDE DEF row
  <2>3. \A k \in DOMAIN f : jobs'[issued + k] = row[k]
    BY Zenon, <1>3, <2>1
  <2> QED
    <3>1. /\ Rows /\ ValidForest(f) /\ KeysUnused(f) /\ issued' = issued + Len(f)
          /\ receipts' = ReceiptsWith(f, row)
          /\ \A k \in DOMAIN f : /\ jobs'[issued + k] = row[k]
                                /\ row[k].opts = PreparedOpts(f[k].opts)
          /\ \A i \in JobId : Live(i) => Live(i)'
      BY Zenon, <1>1, <1>2, <2>1, <2>2, <2>3
    <3> QED
      BY Zenon, <1>1, <3>1, ForestSlots
<1>5. ASSUME NEW s \in Slot, AddFlowMerge(s, f)
      PROVE  Slotted(issued', jobs', gs, receipts', gone)
  <2> DEFINE target == receipts[s].job
             tree == IF jobs[target].link.tree = Nil THEN target
                     ELSE jobs[target].link.tree
             row == [k \in DOMAIN f |->
                       FlowJob(f, k, target, tree, jobs[target].link.treeDepth + 1)]
             regated == [jobs[target] EXCEPT !.link.tree = tree,
                                             !.pending = @ + Cardinality(Roots(f)),
                                             !.state = "WaitingChildren"]
  <2>1. /\ ValidForest(f) /\ KeysUnused(f) /\ issued + Len(f) <= MaxJobs
        /\ receipts[s] # Nil
        /\ issued' = issued + Len(f) /\ receipts' = ReceiptsWith(f, row)
        /\ jobs' = [i \in JobId |->
                      IF i = target THEN regated
                      ELSE IF i - issued \in DOMAIN f THEN row[i - issued] ELSE jobs[i]]
    BY Zenon, <1>5 DEF AddFlowMerge
  <2>2. \A k \in DOMAIN f : row[k].opts = PreparedOpts(f[k].opts)
    BY Zenon DEF FlowJob
  <2>3. target \in 1..issued
    BY Zenon, <2>1 DEF Slotted
  <2>4. target <= issued
    BY <1>1, <2>3
  <2> HIDE DEF row, regated, target, tree
  <2>5. \A k \in DOMAIN f : jobs'[issued + k] = row[k]
    BY Zenon, <1>3, <2>1, <2>4
  <2> QED
    <3>1. /\ Rows /\ ValidForest(f) /\ KeysUnused(f) /\ issued' = issued + Len(f)
          /\ receipts' = ReceiptsWith(f, row)
          /\ \A k \in DOMAIN f : /\ jobs'[issued + k] = row[k]
                                /\ row[k].opts = PreparedOpts(f[k].opts)
          /\ \A i \in JobId : Live(i) => Live(i)'
      BY Zenon, <1>1, <1>2, <2>1, <2>2, <2>5
    <3> QED
      BY Zenon, <1>1, <3>1, ForestSlots
<1> QED
  BY <1>4, <1>5

\* Every step keeps the slots sound.
LEMMA StepKeepsSlots ==
    ASSUME ForestsCounted, Tables, [Next]_vars,
           NEW hs, NEW gs, NEW gone, OptionsStay(hs, gs), history' = history => gs = hs,
           \A i \in 1..issued : OptsIn(jobs, hs, i) \in Opts,
           Slotted(issued, jobs, hs, receipts, gone)
    PROVE  Slotted(issued', jobs', gs, receipts', gone)
<1> DEFINE Sound == Slotted(issued', jobs', gs, receipts', gone)
<1>1. TypeOK
  BY DEF Tables
<1>2. CASE Enqueues
  <2>0. Quiet /\ Undisturbed /\ gs = hs
    BY Zenon, <1>2, EnqueuesQuiet DEF Undisturbed
  <2>1. CASE \E r \in JobRequests : AddJob(r)
    BY Zenon, <1>1, <2>0, <2>1, RequestAssumption, AddJobSlots
  <2>2. ASSUME NEW b \in BulkRequests, AddJobBulk(b[1], b[2])
        PROVE  Sound
    <3>1. b[1] \in RawRequest /\ b[2] \in RawRequest
      BY RequestAssumption
    <3> QED
      BY Zenon, <1>1, <2>0, <2>2, <3>1, AddJobSlots
  <2>3. ASSUME NEW f \in Forests \cup MergeForests,
               AddFlow(f) \/ \E s \in Slot : AddFlowMerge(s, f)
        PROVE  Sound
    <3>1. f \in Seq(Node)
      BY Zenon, RequestAssumption
    <3> QED
      BY SMT, <1>1, <2>0, <2>3, <3>1, FlowSlots
  <2> QED
    BY Zenon, <1>2, <2>1, <2>2, <2>3 DEF Enqueues
<1>3. CASE Requests
  <2>1. PICK i \in JobId, w \in Worker :
          \/ \E names \in Polls : GetNextJob(w, names, i)
          \/ \E a \in RequestAttempts :
                \/ RenewLease(i, w, a)
                \/ \E r \in Result \cup {Nil} : CompleteJob(i, w, a, r)
                \/ ReplayCompletion(i, w, a)
                \/ \E final \in BOOLEAN : FailJob(i, w, a, final)
    BY Zenon, <1>3 DEF Requests
  <2>2. ASSUME NEW names \in Polls, GetNextJob(w, names, i)
        PROVE  Sound
    <3>1. ClaimStep(i, w) /\ receipts' = receipts
      BY Zenon, <2>2, GetNextJobClaims DEF GetNextJob
    <3>2. issued' = issued /\ \A j \in JobId : Live(j) => Live(j)'
      BY Zenon, <3>1 DEF ClaimStep, Live, Active
    <3> QED
      BY SMT, <1>1, <3>1, <3>2, QuietSlots
  <2>3. ASSUME NEW a \in RequestAttempts, RenewLease(i, w, a)
        PROVE  Sound
    <3>1. a \in Nat
      BY Zenon, RequestAssumption
    <3>2. issued' = issued /\ receipts' = receipts
      BY Zenon, <2>3 DEF RenewLease
    <3>3. Undisturbed
      BY Zenon, <1>1, <2>3, <3>1, RenewLeaseQuiet
    <3>4. \A j \in JobId : Live(j) => Live(j)'
      <4>1. \A j \in JobId : ~(issued < j /\ j <= issued')
        BY <1>1, <3>2 DEF TypeOK, JobId
      <4> QED
        BY Zenon, <3>3, <4>1 DEF Undisturbed, Kept, Live
    <3> QED
      BY SMT, <1>1, <3>2, <3>4, QuietSlots
  <2>4. ASSUME NEW a \in RequestAttempts, NEW r \in Result \cup {Nil}, CompleteJob(i, w, a, r)
        PROVE  Sound
    <3>1. a \in Nat
      BY RequestAssumption
    <3>2. issued' = issued /\ receipts' = ReceiptsAfter({i})
      BY Zenon, <2>4 DEF CompleteJob
    <3>3. Completes(i)
      BY Zenon, <1>1, <2>4, <3>1, CompleteJobRows
    <3>4. \A j \in JobId : Live(j) => (jobs'[j] = Nil <=> j \in {i})
      BY Zenon, <3>3 DEF Completes, Ended, Same, Kept, Live
    <3> QED
      BY Zenon, <1>1, <3>2, <3>4, EndingKeepsSlots
  <2>5. ASSUME NEW a \in RequestAttempts, ReplayCompletion(i, w, a)
        PROVE  Sound
    <3>1. issued' = issued /\ jobs' = jobs /\ history' = history /\ receipts' = receipts
      BY Zenon, <2>5 DEF ReplayCompletion
    <3> QED
      BY Zenon, <3>1
  <2>6. ASSUME NEW a \in RequestAttempts, RetryJob(i, w, a)
        PROVE  Sound
    <3>1. a \in Nat
      BY RequestAssumption
    <3>2. issued' = issued /\ receipts' = receipts
      BY Zenon, <2>6 DEF RetryJob
    <3>3. Retries(i)
      BY Zenon, <1>1, <2>6, <3>1, RetryJobRows
    <3>4. \A j \in JobId : Live(j) => Live(j)'
      BY Zenon, <3>3 DEF Retries, Requeued, Same, Live
    <3> QED
      BY SMT, <1>1, <3>2, <3>4, QuietSlots
  <2>7. ASSUME NEW a \in RequestAttempts, NEW final \in BOOLEAN, FailForGood(i, w, a, final)
        PROVE  Sound
    <3>1. a \in Nat
      BY Zenon, RequestAssumption
    <3>2. issued' = issued /\ receipts' = ReceiptsAfter(FailedWith(i))
      BY Zenon, <2>7 DEF FailForGood
    <3>3. FailsWith(i, FailedWith(i))
      BY Zenon, <1>1, <2>7, <3>1, FailForGoodRows
    <3>4. \A j \in JobId : Live(j) => (jobs'[j] = Nil <=> j \in FailedWith(i))
      BY Zenon, <3>3 DEF FailsWith, Ended, Same, Live
    <3> QED
      BY Zenon, <1>1, <3>2, <3>4, EndingKeepsSlots
  <2> QED
    BY Zenon, <2>1, <2>2, <2>3, <2>4, <2>5, <2>6, <2>7 DEF FailJob
<1>4. ASSUME NEW S \in RecoveryBatches, RecoverExpired(S)
      PROVE  Sound
  <2> DEFINE exhausted == {i \in S : ~MayRetry(jobs[i])}
  <2>1. issued' = issued /\ receipts' = ReceiptsAfter(exhausted)
    BY Zenon, <1>4 DEF RecoverExpired
  <2>2. TakenBack(S)
    BY Zenon, <1>1, <1>4, RecoverExpiredQuiet
  <2>3. \A j \in JobId : Live(j) => (jobs'[j] = Nil <=> j \in exhausted)
    BY Zenon, <2>2 DEF TakenBack, Requeued, Ended, Live
  <2> HIDE DEF exhausted
  <2> QED
    BY Zenon, <1>1, <2>1, <2>3, EndingKeepsSlots
<1>5. CASE Operator \/ Tick \/ ClockStepsBack \/ UNCHANGED vars
  <2>1. issued' = issued /\ jobs' = jobs /\ history' = history /\ receipts' = receipts
    BY Zenon, <1>5
    DEF Operator, UpsertRateLimitRule, DeleteRateLimitRule, UpsertIngressLimitRule,
        DeleteIngressLimitRule, Tick, ClockStepsBack, vars
  <2> QED
    BY Zenon, <2>1
<1> QED
  BY Zenon, <1>2, <1>3, <1>4, <1>5 DEF Next, Recovery

\* Without a sweeper, no job is gone.
LEMMA StepKeepsSlotsInv ==
    ASSUME ForestsCounted, IInv, SlotsInv, [Next]_vars
    PROVE  SlotsInv'
<1>1. IInv' /\ (Rows \/ \E i \in JobId, w \in Worker : ClaimStep(i, w)) /\ Tables
  BY Zenon, StepKeepsInvariant, InvariantTables
<1>2. OptionsStay(history, history')
  BY SMT, <1>1, OptionsKept
<1>3. \A i \in 1..issued : OptsIn(jobs, history, i) \in Opts
  <2>1. issued \in 0..MaxJobs /\ jobs \in [JobId -> Job \cup {Nil}]
        /\ history \in [JobId -> Archived \cup {Nil}]
    BY Zenon DEF IInv, TypeOK
  <2>2. \A i \in JobId : i <= issued => jobs[i] # Nil \/ history[i] # Nil
    BY Zenon DEF IInv, NoJobLost, Live, Finished
  <2> QED
    BY Zenon, <2>1, <2>2, OptsTyped
<1> QED
  BY Zenon, <1>1, <1>2, <1>3, StepKeepsSlots DEF SlotsInv

\* What the slot invariant says of live and finished jobs.
LEMMA SlotsInvImplies ==
    ASSUME IInv, SlotsInv
    PROVE  SlotsSound /\ NoDuplicateWork
<1>1. issued \in Nat /\ \A i \in JobId : i \in Nat /\ (i <= issued <=> i \in 1..issued)
  BY DEF IInv, TypeOK, JobId
<1>2. \A i \in 1..issued : i <= issued /\ i \in JobId /\ i \in Nat
  BY BoundAssumption DEF IInv, TypeOK, JobId
<1>3. \A i \in JobId : Row(i).opts = OptsIn(jobs, history, i)
  BY Zenon DEF Row, OptsIn, Live
<1>4. \A i \in JobId : i <= issued => (Live(i) <=> ~Finished(i))
  BY Zenon DEF IInv, NoJobLost, Live, Finished
<1>5. \A i \in JobId : Live(i) => i <= issued /\ OptsIn(jobs, history, i) = jobs[i].opts
  BY Zenon DEF IInv, NoJobLost, OptsIn, Live
<1>6. SlotsSound
  <2>1. ASSUME NEW s \in Slot, receipts[s] # Nil
        PROVE  LET i == receipts[s].job
               IN  /\ i <= issued
                   /\ SlotOf(Row(i).opts) = s
                   /\ Row(i).opts = receipts[s].request.opts
                   /\ Row(i).opts.release => Live(i)
    BY Zenon, <2>1, <1>2, <1>3 DEF SlotsInv, Slotted, Freed, Live
  <2>2. ASSUME NEW i \in JobId, Live(i), jobs[i].opts.key # Nil
        PROVE  /\ receipts[SlotOf(jobs[i].opts)] # Nil
               /\ receipts[SlotOf(jobs[i].opts)].job = i
    <3>1. i \in 1..issued /\ OptsIn(jobs, history, i) = jobs[i].opts
          /\ ~Freed(jobs, history, i)
      BY Zenon, <1>1, <1>5, <2>2 DEF Freed, Live
    <3> QED
      BY Zenon, <2>2, <3>1 DEF SlotsInv, Slotted
  <2> QED
    BY Zenon, <2>1, <2>2 DEF SlotsSound
<1>7. NoDuplicateWork
  <2> SUFFICES ASSUME NEW i \in JobId, NEW j \in JobId, i < j, j <= issued,
                      Row(i).opts.key # Nil, SlotOf(Row(i).opts) = SlotOf(Row(j).opts)
               PROVE  Row(i).opts.release /\ Finished(i)
    BY Zenon DEF NoDuplicateWork
  <2>1. i \in 1..issued /\ j \in 1..issued /\ i <= issued
    BY <1>1
  <2>2. Freed(jobs, history, i)
    BY Zenon, <1>3, <2>1 DEF SlotsInv, Slotted
  <2> QED
    BY Zenon, <1>3, <1>4, <2>1, <2>2 DEF Freed, Live
<1> QED
  BY <1>6, <1>7

-----------------------------------------------------------------------------
(***************************************************************************)
(* The failParentOnFailure walk                                            *)
(***************************************************************************)

\* FailedWith(i) is closed under the walk, and least: every job in it but i
\* itself is there because of a flagged child in it.
LEMMA FailureWalk ==
    ASSUME NEW i \in JobId, Live(i), jobs \in [JobId -> Job \cup {Nil}],
           NEW j \in FailedWith(i)
    PROVE  /\ Flagged(j) => jobs[j].link.parent \in FailedWith(i)
           /\ j # i => \E c \in FailedWith(i) : Flagged(c) /\ jobs[c].link.parent = j
<1> DEFINE F == FailedWith(i)
           parent(c) == jobs[c].link.parent
<1>1. i \in F /\ \A c \in F : c \in JobId /\ Live(c)
  BY Zenon, FailedWithLive
<1>2. \A c \in F : parent(c) \in JobId \cup {Nil}
  <2> SUFFICES ASSUME NEW c \in F
               PROVE  parent(c) \in JobId \cup {Nil}
    OBVIOUS
  <2>1. jobs[c] \in Job
    BY <1>1 DEF Live
  <2> QED
    BY Zenon, <2>1 DEF Job, Link
<1>3. ASSUME NEW c \in F, Flagged(c)
      PROVE  parent(c) \in F
  <2>1. parent(c) \in JobId /\ Live(parent(c)) /\ jobs[c].link.failParent /\ parent(c) # Nil
    BY Zenon, <1>2, <1>3 DEF Flagged
  <2>2. ASSUME NEW S \in SUBSET JobId, i \in S, FailureClosed(S)
        PROVE  parent(c) \in S
    <3>1. c \in S
      BY Zenon, <2>2 DEF FailedWith
    <3> QED
      BY Zenon, <1>1, <2>1, <2>2, <3>1 DEF FailureClosed
  <2> QED
    BY Zenon, <2>1, <2>2 DEF FailedWith
<1>4. ASSUME j # i, ~\E c \in F : Flagged(c) /\ parent(c) = j
      PROVE  FALSE
  <2> DEFINE S == F \ {j}
  <2>1. S \in SUBSET JobId /\ i \in S /\ j \notin S
    BY Zenon, <1>1, <1>4
  <2>2. FailureClosed(S)
    <3> SUFFICES ASSUME NEW c \in S, jobs[c].link.failParent, parent(c) # Nil,
                        Live(parent(c))
                 PROVE  parent(c) \in S
      BY Zenon DEF FailureClosed
    <3>1. c \in F /\ Flagged(c)
      BY Zenon DEF Flagged
    <3> QED
      BY Zenon, <1>3, <1>4, <3>1
  <2> HIDE DEF S
  <2> QED
    BY Zenon, <2>1, <2>2 DEF FailedWith
<1> QED
  BY Zenon, <1>3, <1>4

\* What FailureFollowsFlags says of job i.
Follows(i) ==
    Fails(i) =>
       /\ Flagged(i) => Fails(jobs[i].link.parent)
       /\ ~Active(i) => \E c \in JobId :
             Fails(c) /\ Flagged(c) /\ jobs[c].link.parent = i

\* A FailJob that ends a job fails exactly the ancestors its flags reach.
LEMMA StepFollowsFlags ==
    ASSUME ForestsCounted, IInv, Next, acks' # acks, NEW j \in JobId
    PROVE  Follows(j)
<1>0. Tables /\ TypeOK
  BY Zenon, InvariantTables DEF IInv
<1>1. PICK i \in JobId, w \in Worker :
        \/ \E names \in Polls : GetNextJob(w, names, i)
        \/ \E a \in RequestAttempts :
              \/ RenewLease(i, w, a)
              \/ \E r \in Result \cup {Nil} : CompleteJob(i, w, a, r)
              \/ ReplayCompletion(i, w, a)
              \/ \E final \in BOOLEAN : FailJob(i, w, a, final)
  <2>1. ~Enqueues
    BY Zenon, <1>0, EnqueuesQuiet DEF Quiet
  <2>2. ~(Operator \/ Tick \/ ClockStepsBack)
    BY Zenon
    DEF Operator, UpsertRateLimitRule, DeleteRateLimitRule, UpsertIngressLimitRule,
        DeleteIngressLimitRule, Tick, ClockStepsBack
  <2>3. ~Recovery
    BY Zenon DEF Recovery, RecoverExpired
  <2> QED
    BY Zenon, <2>1, <2>2, <2>3 DEF Next, Requests
<1>2. ASSUME NEW a \in RequestAttempts, NEW r \in Result \cup {Nil}, CompleteJob(i, w, a, r)
      PROVE  ~Fails(j)
  <2>1. a \in Nat
    BY RequestAssumption
  <2>2. Completes(i)
    BY Zenon, <1>0, <1>2, <2>1, CompleteJobRows
  <2>3. j = i => history'[j].state # "Failed"
    BY Zenon, <2>2 DEF Completes
  <2> QED
    BY Zenon, <2>2, <2>3 DEF Completes, Same, Kept, Live, Fails
<1>3. ASSUME NEW a \in RequestAttempts,
             RenewLease(i, w, a) \/ ReplayCompletion(i, w, a)
             \/ \E names \in Polls : GetNextJob(w, names, i)
      PROVE  ~Fails(j)
  <2>1. acks' = acks \/ jobs' = jobs
    BY Zenon, <1>3 DEF RenewLease, ReplayCompletion, GetNextJob
  <2> QED
    BY Zenon, <2>1 DEF Fails, Live
<1>4. ASSUME NEW a \in RequestAttempts, RetryJob(i, w, a)
      PROVE  ~Fails(j)
  <2>1. a \in Nat
    BY RequestAssumption
  <2>2. Retries(i)
    BY Zenon, <1>0, <1>4, <2>1, RetryJobRows
  <2> QED
    BY Zenon, <2>2 DEF Retries, Requeued, Same, Live, Fails
<1>5. ASSUME NEW a \in RequestAttempts, NEW final \in BOOLEAN, FailForGood(i, w, a, final)
      PROVE  Follows(j)
  <2>1. a \in Nat
    BY RequestAssumption
  <2>2. FailsWith(i, FailedWith(i))
    BY Zenon, <1>0, <1>5, <2>1, FailForGoodRows
  <2>3. Active(i) /\ Live(i) /\ FailedWith(i) \subseteq JobId
    BY Zenon, <2>2 DEF FailsWith, Active
  <2>4. \A c \in JobId : Fails(c) <=> c \in FailedWith(i)
    BY Zenon, <2>2 DEF FailsWith, Fails, Ended, Same, Live
  <2>5. jobs \in [JobId -> Job \cup {Nil}]
    BY Zenon DEF IInv, TypeOK
  <2> SUFFICES ASSUME j \in FailedWith(i)
               PROVE  /\ Flagged(j) => Fails(jobs[j].link.parent)
                      /\ ~Active(j) => \E c \in JobId :
                            Fails(c) /\ Flagged(c) /\ jobs[c].link.parent = j
    BY Zenon, <2>4 DEF Follows
  <2>6. /\ Flagged(j) => jobs[j].link.parent \in FailedWith(i)
        /\ j # i => \E c \in FailedWith(i) : Flagged(c) /\ jobs[c].link.parent = j
    BY Zenon, <2>3, <2>5, FailureWalk
  <2> QED
    BY Zenon, <2>3, <2>4, <2>6
<1> QED
  BY Zenon, <1>1, <1>2, <1>3, <1>4, <1>5 DEF FailJob, GetNextJob, Follows
=============================================================================
