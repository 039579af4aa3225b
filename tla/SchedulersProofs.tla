-------------------------- MODULE SchedulersProofs --------------------------
(***************************************************************************)
(* Proofs about Schedulers, for any number of schedulers, any batch size   *)
(* and any cron periods.                                                   *)
(***************************************************************************)
EXTENDS Schedulers, EnqueueProofs, FiniteSetTheorems
-----------------------------------------------------------------------------
(***************************************************************************)
(* The inductive invariant                                                 *)
(***************************************************************************)

Existing == {s \in SchedulerId : schedulers[s] # Nil}

\* A tick has ids left for its whole batch.  Under the writer's lock every row of
\* the batch is still the row in the table, and no scheduler is in it twice.
BatchInv ==
    /\ IsFiniteSet(Existing)
    /\ issued + Len(batch) <= MaxJobs
    /\ \A i, j \in 1..Len(batch) : batch[i].id = batch[j].id => i = j
    /\ \A i \in 1..Len(batch) : batch[i].row = schedulers[batch[i].id]

BooksInv ==
    /\ BookkeepingAgrees
    /\ \A s \in SchedulerId : born[s] <= Len(fires[s])

\* While the clock is not set back: the rows of the batch are due, and everything
\* a scheduler fired lies before its next run.
TimeInv ==
    /\ \A i \in 1..Len(batch) : batch[i].row.next <= now
    /\ \A s \in SchedulerId : \A i \in 1..Len(fires[s]) :
          /\ fires[s][i].at <= now
          /\ schedulers[s] # Nil => fires[s][i].at < schedulers[s].next
    /\ NoBackfill

SchedulersInv ==
    /\ SchedulersTypeOK
    /\ BatchInv
    /\ BooksInv
    /\ ~ClockMayStepBack => TimeInv
-----------------------------------------------------------------------------
(***************************************************************************)
(* The scan                                                                *)
(***************************************************************************)

\* What a sequence holds.
LEMMA SeqElement ==
    ASSUME NEW S, NEW s \in Seq(S), NEW i \in 1..Len(s)
    PROVE  s[i] \in S
  OBVIOUS

\* What is left of a sequence without its head.
LEMMA SeqRest ==
    ASSUME NEW S, NEW s \in Seq(S), s # <<>>
    PROVE  /\ Head(s) \in S /\ Tail(s) \in Seq(S) /\ Len(Tail(s)) = Len(s) - 1
           /\ \A i \in 1..Len(Tail(s)) : Tail(s)[i] = s[i + 1]
  OBVIOUS

\* next_cron_after is strictly after the time it is given.
LEMMA NextIsLater ==
    ASSUME NEW t \in Nat, NEW c \in Nat \ {0}
    PROVE  NextCronAfter(t, c) \in Nat /\ NextCronAfter(t, c) > t
<1> DEFINE q == t \div c
           r == t % c
<1>1. q \in Nat /\ r \in Nat /\ r < c /\ t = c * q + r
  OBVIOUS
<1> HIDE DEF q, r
<1>2. (q + 1) * c = c * q + c /\ c * q \in Nat
  BY <1>1
<1>3. (q + 1) * c \in Nat /\ (q + 1) * c > t
  BY <1>1, <1>2
<1> QED
  BY <1>3 DEF NextCronAfter, q

\* ORDER BY next_run_at, id: a strict total order of the rows that exist.
LEMMA BeforeOrders ==
    ASSUME SchedulersTypeOK, NEW s \in Existing, NEW u \in Existing, NEW v \in Existing
    PROVE  /\ ~Before(s, s)
           /\ s # u => Before(s, u) \/ Before(u, s)
           /\ Before(s, u) /\ Before(u, v) => Before(s, v)
<1>1. /\ s \in Nat /\ u \in Nat /\ v \in Nat
      /\ schedulers[s].next \in Nat /\ schedulers[u].next \in Nat /\ schedulers[v].next \in Nat
  BY Zenon, SchedulerAssumption DEF SchedulersTypeOK, Existing, Row
<1> QED
  BY <1>1 DEF Before

\* Positions by the number of predecessors number the elements of a finite set of
\* rows without gaps: the batch is a sequence that holds each of them once.
LEMMA RanksCount ==
    ASSUME SchedulersTypeOK, NEW C \in SUBSET Existing, IsFiniteSet(C)
    PROVE  LET rank == [s \in C |-> Cardinality({u \in C : Before(u, s)}) + 1]
           IN  /\ rank \in [C -> 1..Cardinality(C)]
               /\ \A s, u \in C : rank[s] = rank[u] => s = u
               /\ \A k \in 1..Cardinality(C) : \E s \in C : rank[s] = k
<1> DEFINE Pred(s) == {u \in C : Before(u, s)}
           rank == [s \in C |-> Cardinality(Pred(s)) + 1]
           n == Cardinality(C)
<1>1. n \in Nat
  BY FS_CardinalityType
<1>2. ASSUME NEW s \in C
      PROVE  /\ IsFiniteSet(Pred(s)) /\ Cardinality(Pred(s)) \in Nat
             /\ s \notin Pred(s) /\ Cardinality(Pred(s)) < n
  <2>1. s \notin Pred(s)
    BY BeforeOrders
  <2>2. Pred(s) \subseteq C
    OBVIOUS
  <2>3. /\ IsFiniteSet(Pred(s)) /\ Cardinality(Pred(s)) <= n
        /\ (Cardinality(Pred(s)) = n => Pred(s) = C)
    BY <2>2, FS_Subset
  <2>4. Pred(s) # C
    BY <2>1
  <2> HIDE DEF Pred, n
  <2>5. Cardinality(Pred(s)) \in Nat
    BY <2>3, FS_CardinalityType
  <2> QED
    BY <1>1, <2>1, <2>3, <2>4, <2>5
<1>3. ASSUME NEW s \in C, NEW u \in C, Before(s, u)
      PROVE  Cardinality(Pred(s)) < Cardinality(Pred(u))
  <2>1. s \in Pred(u)
    BY <1>3
  <2>2. Pred(s) \subseteq Pred(u)
    BY <1>3, BeforeOrders
  <2>3. s \notin Pred(s) /\ IsFiniteSet(Pred(u))
    BY Zenon, <1>2
  <2> HIDE DEF Pred
  <2>4. /\ Cardinality(Pred(s)) <= Cardinality(Pred(u))
        /\ (Cardinality(Pred(s)) = Cardinality(Pred(u)) => Pred(s) = Pred(u))
    BY <2>2, <2>3, FS_Subset
  <2>5. Cardinality(Pred(s)) \in Nat /\ Cardinality(Pred(u)) \in Nat
    BY <1>2
  <2> QED
    BY <2>1, <2>3, <2>4, <2>5
<1> HIDE DEF Pred
<1>4. \A s \in C : rank[s] = Cardinality(Pred(s)) + 1
  OBVIOUS
<1>5. rank \in [C -> 1..n]
  <2>1. \A s \in C : Cardinality(Pred(s)) + 1 \in 1..n
    BY <1>1, <1>2
  <2> QED
    BY <2>1
<1>6. ASSUME NEW s \in C, NEW u \in C, rank[s] = rank[u]
      PROVE  s = u
  <2>1. Cardinality(Pred(s)) \in Nat /\ Cardinality(Pred(u)) \in Nat
    BY <1>2
  <2>2. ~Before(s, u) /\ ~Before(u, s)
    BY <1>3, <1>4, <1>6, <2>1
  <2> QED
    BY <2>2, BeforeOrders
<1> HIDE DEF rank, n
<1>7. rank \in Injection(C, 1..n)
  BY Zenon, <1>5, <1>6 DEF Injection, IsInjective
<1>8. IsFiniteSet(1..n) /\ Cardinality(1..n) = n
  BY <1>1, FS_Interval
<1>9. rank \in Surjection(C, 1..n)
  <2>1. Cardinality(C) = Cardinality(1..n)
    BY <1>8 DEF n
  <2> QED
    BY Zenon, <1>7, <1>8, <2>1, FS_Injection
<1>10. \A k \in 1..n : \E s \in C : rank[s] = k
  BY Zenon, <1>9 DEF Surjection
<1> QED
  BY Zenon, <1>5, <1>6, <1>10 DEF rank, n, Pred

\* select_due_schedulers returns at most batch_size rows, all due, none twice.
LEMMA ScanKept ==
    ASSUME SchedulersInv, ScanDue
    PROVE  SchedulersInv'
<1> DEFINE chosen == {s \in SchedulerId : Due(s) /\ ScannedFirst(s)}
           n == Cardinality(chosen)
           Rank(s) == Cardinality({u \in chosen : Before(u, s)}) + 1
           at(k) == CHOOSE u \in chosen : Rank(u) = k
           entry(k) == [id |-> at(k), row |-> schedulers[at(k)]]
<1>1. /\ issued + n <= MaxJobs
      /\ batch' = [k \in 1..n |-> entry(k)]
      /\ UNCHANGED <<vars, schedulers, faults, fires, born>>
  BY Zenon DEF ScanDue
<1>2. SchedulersTypeOK /\ IsFiniteSet(Existing) /\ issued \in Nat
  BY DEF SchedulersInv, BatchInv, SchedulersTypeOK, TypeOK
<1>3. chosen \subseteq Existing /\ IsFiniteSet(chosen) /\ n \in Nat
  <2>1. chosen \subseteq Existing
    BY DEF Existing, Due
  <2> QED
    BY <1>2, <2>1, FS_Subset, FS_CardinalityType
<1>4. /\ \A s \in chosen : Rank(s) \in 1..n
      /\ \A k \in 1..n : \E s \in chosen : Rank(s) = k
  <2> DEFINE rank == [s \in chosen |-> Rank(s)]
  <2>1. /\ rank \in [chosen -> 1..n]
        /\ \A k \in 1..n : \E s \in chosen : rank[s] = k
    BY Zenon, <1>2, <1>3, RanksCount
  <2>2. \A s \in chosen : rank[s] = Rank(s)
    BY Zenon
  <2> QED
    BY Zenon, <2>1, <2>2
<1>5. n <= SchedulerBatch
  <2>1. CASE n = 0
    BY <2>1, SchedulerAssumption
  <2>2. CASE n > 0
    <3>1. PICK m \in chosen : Rank(m) = n
      <4> HIDE DEF Rank, n, chosen
      <4>1. n \in 1..n
        BY <1>3, <2>2
      <4> QED
        BY Zenon, <1>4, <4>1
    <3> DEFINE P == {u \in chosen : Before(u, m)}
               Q == {u \in SchedulerId : Due(u) /\ Before(u, m)}
    <3>2. Cardinality(Q) < SchedulerBatch
      BY Zenon DEF ScannedFirst
    <3>3. P \subseteq Q /\ Q \subseteq Existing
      BY Zenon DEF Existing, Due
    <3>4. Rank(m) = Cardinality(P) + 1
      OBVIOUS
    <3> HIDE DEF P, Q, Rank, n, chosen
    <3>5. IsFiniteSet(Q) /\ Cardinality(Q) \in Nat
      BY <1>2, <3>3, FS_Subset, FS_CardinalityType
    <3>6. Cardinality(P) <= Cardinality(Q) /\ Cardinality(P) \in Nat
      BY <3>3, <3>5, FS_Subset, FS_CardinalityType
    <3> QED
      BY <1>3, <3>1, <3>2, <3>4, <3>5, <3>6, SchedulerAssumption
  <2> QED
    BY <1>3, <2>1, <2>2
<1> HIDE DEF Rank, n
<1>6. ASSUME NEW k \in 1..n
      PROVE  at(k) \in chosen /\ Rank(at(k)) = k
  BY Zenon, <1>4
<1> HIDE DEF at
<1>7. \A s \in chosen : s \in SchedulerId /\ schedulers[s] \in Row
                        /\ schedulers[s].next <= now
  BY <1>2 DEF Due, SchedulersTypeOK
<1> HIDE DEF chosen
<1>8. ASSUME NEW k \in 1..n
      PROVE  /\ batch'[k] = entry(k) /\ batch'[k].id = at(k)
             /\ batch'[k].row = schedulers[at(k)]
             /\ entry(k) \in [id: SchedulerId, row: Row]
  BY <1>1, <1>6, <1>7
<1>9. batch' \in Seq([id: SchedulerId, row: Row]) /\ Len(batch') = n
  <2> HIDE DEF entry
  <2> QED
    BY <1>1, <1>3, <1>8
<1>10. UNCHANGED <<now, issued>>
  BY <1>1 DEF vars
<1>11. SchedulersTypeOK'
  <2>1. TypeOK'
    BY <1>1, <1>2 DEF SchedulersTypeOK, TypeOK, vars
  <2> QED
    BY Zenon, <1>1, <1>2, <1>5, <1>9, <2>1 DEF SchedulersTypeOK
<1>12. BatchInv'
  <2>1. \A i, j \in 1..n : batch'[i].id = batch'[j].id => i = j
    BY Zenon, <1>6, <1>8
  <2>2. \A i \in 1..n : batch'[i].row = schedulers[batch'[i].id]
    BY Zenon, <1>8
  <2>3. Existing' = Existing
    BY <1>1 DEF Existing
  <2> QED
    BY Zenon, <1>1, <1>2, <1>9, <1>10, <2>1, <2>2, <2>3 DEF BatchInv
<1>13. BooksInv'
  BY <1>1 DEF SchedulersInv, BooksInv, BookkeepingAgrees
<1>14. ~ClockMayStepBack => TimeInv'
  <2>1. \A i \in 1..n : batch'[i].row.next <= now
    BY Zenon, <1>6, <1>7, <1>8
  <2> QED
    BY Zenon, <1>1, <1>9, <1>10, <2>1 DEF SchedulersInv, TimeInv, NoBackfill
<1> QED
  BY <1>11, <1>12, <1>13, <1>14 DEF SchedulersInv
-----------------------------------------------------------------------------
(***************************************************************************)
(* The other steps                                                         *)
(***************************************************************************)

\* The rest of the batch after its head has been dealt with.
LEMMA BatchGoesOn ==
    ASSUME SchedulersTypeOK, batch # <<>>
    PROVE  /\ Len(batch) \in Nat \ {0} /\ 1 \in 1..Len(batch)
           /\ Head(batch) = batch[1] /\ Head(batch) \in [id: SchedulerId, row: Row]
           /\ Tail(batch) \in Seq([id: SchedulerId, row: Row])
           /\ Len(Tail(batch)) = Len(batch) - 1
           /\ \A i \in 1..Len(Tail(batch)) :
                 Tail(batch)[i] = batch[i + 1] /\ i + 1 \in 1..Len(batch)
<1>1. batch \in Seq([id: SchedulerId, row: Row])
  BY DEF SchedulersTypeOK
<1>2. Len(batch) \in Nat \ {0}
  BY <1>1
<1>3. /\ Tail(batch) \in Seq([id: SchedulerId, row: Row])
      /\ Len(Tail(batch)) = Len(batch) - 1
      /\ \A i \in 1..Len(Tail(batch)) : Tail(batch)[i] = batch[i + 1]
  BY <1>1
<1>4. Head(batch) \in [id: SchedulerId, row: Row]
  BY Zenon, <1>1, SeqRest
<1>5. Head(batch) = batch[1]
  BY <1>1, <1>2
<1> QED
  BY <1>2, <1>3, <1>4, <1>5

\* A fire that is rejected or fails is skipped, and a crash forgets the batch.
LEMMA SkipKept ==
    ASSUME SchedulersInv, batch # <<>>, batch' = Tail(batch) \/ batch' = <<>>,
           UNCHANGED <<vars, schedulers, fires, born>>, faults' \in 0..MaxFaults
    PROVE  SchedulersInv'
<1>1. SchedulersTypeOK /\ UNCHANGED <<now, issued>> /\ issued \in Nat /\ MaxJobs \in Nat
  <2>1. SchedulersTypeOK /\ issued \in 0..MaxJobs /\ UNCHANGED <<now, issued>>
    BY Zenon DEF SchedulersInv, SchedulersTypeOK, TypeOK, vars
  <2> QED
    BY <2>1, BoundAssumption
<1>2. /\ batch' \in Seq([id: SchedulerId, row: Row])
      /\ Len(batch') \in Nat /\ Len(batch') < Len(batch) /\ Len(batch) \in Nat
      /\ \E d \in Nat : \A i \in 1..Len(batch') :
            i + d \in 1..Len(batch) /\ batch'[i] = batch[i + d]
  <2>1. CASE batch' = Tail(batch)
    <3>1. \A i \in 1..Len(batch') : i + 1 \in 1..Len(batch) /\ batch'[i] = batch[i + 1]
      BY Zenon, <1>1, <2>1, BatchGoesOn
    <3>2. /\ batch' \in Seq([id: SchedulerId, row: Row])
          /\ Len(batch') = Len(batch) - 1 /\ Len(batch) \in Nat \ {0}
      BY Zenon, <1>1, <2>1, BatchGoesOn
    <3>3. 1 \in Nat /\ Len(batch') \in Nat /\ Len(batch') < Len(batch)
      BY <3>2
    <3> QED
      BY Zenon, <3>1, <3>2, <3>3
  <2>2. CASE batch' = <<>>
    <3>1. Len(batch) \in Nat \ {0}
      BY <1>1, BatchGoesOn
    <3> QED
      BY <2>2, <3>1
  <2> QED
    BY <2>1, <2>2
<1>3. PICK d \in Nat : \A i \in 1..Len(batch') :
          i + d \in 1..Len(batch) /\ batch'[i] = batch[i + d]
  BY Zenon, <1>2
<1>4. SchedulersTypeOK'
  <2>1. TypeOK'
    BY <1>1 DEF SchedulersTypeOK, TypeOK, vars
  <2>2. Len(batch') <= SchedulerBatch
    BY <1>1, <1>2, SchedulerAssumption DEF SchedulersTypeOK
  <2> QED
    BY <1>1, <1>2, <2>1, <2>2 DEF SchedulersTypeOK
<1>5. BatchInv'
  <2>1. ASSUME NEW i \in 1..Len(batch'), NEW j \in 1..Len(batch'),
               batch'[i].id = batch'[j].id
        PROVE  i = j
    <3>1. /\ i + d \in 1..Len(batch) /\ j + d \in 1..Len(batch)
          /\ batch[i + d].id = batch[j + d].id
      BY Zenon, <1>3, <2>1
    <3>2. i + d = j + d
      BY Zenon, <3>1 DEF SchedulersInv, BatchInv
    <3> QED
      BY <3>2
  <2>2. ASSUME NEW i \in 1..Len(batch')
        PROVE  batch'[i].row = schedulers[batch'[i].id]
    <3>1. i + d \in 1..Len(batch) /\ batch'[i] = batch[i + d]
      BY Zenon, <1>3
    <3> QED
      BY Zenon, <3>1 DEF SchedulersInv, BatchInv
  <2>3. issued + Len(batch') <= MaxJobs
    BY <1>1, <1>2 DEF SchedulersInv, BatchInv
  <2>4. IsFiniteSet(Existing)' 
    BY DEF SchedulersInv, BatchInv, Existing
  <2> QED
    BY Zenon, <1>1, <2>1, <2>2, <2>3, <2>4 DEF BatchInv
<1>6. BooksInv'
  BY DEF SchedulersInv, BooksInv, BookkeepingAgrees
<1>7. ~ClockMayStepBack => TimeInv'
  <2> SUFFICES ASSUME TimeInv
               PROVE  TimeInv'
    BY DEF SchedulersInv
  <2>1. \A i \in 1..Len(batch') : batch'[i].row.next <= now
    BY Zenon, <1>3 DEF TimeInv
  <2> QED
    BY Zenon, <1>1, <2>1 DEF TimeInv, NoBackfill
<1> QED
  BY <1>4, <1>5, <1>6, <1>7 DEF SchedulersInv

\* An upsert keeps the books of the row and makes it due after everything fired.
LEMMA UpsertKept ==
    ASSUME SchedulersInv, NEW s \in SchedulerId, NEW spec \in SchedulerSpecs,
           UpsertScheduler(s, spec)
    PROVE  SchedulersInv'
<1> DEFINE old == schedulers[s]
           row == UpsertedRow(old, spec)
<1>1. /\ batch = <<>> /\ batch' = batch
      /\ schedulers' = [schedulers EXCEPT ![s] = row]
      /\ born' = IF old = Nil THEN [born EXCEPT ![s] = Len(fires[s])] ELSE born
      /\ UNCHANGED <<vars, faults, fires>>
  BY DEF UpsertScheduler, LockFree
<1>2. /\ SchedulersTypeOK /\ TypeOK
      /\ schedulers \in [SchedulerId -> Row \cup {Nil}] /\ born \in [SchedulerId -> Nat]
      /\ fires \in [SchedulerId -> Seq(Fired)] /\ now \in Nat
      /\ \A u \in SchedulerId : Len(fires[u]) \in Nat /\ born[u] \in Nat
  BY DEF SchedulersInv, SchedulersTypeOK, TypeOK
<1>3. spec.opts \in RawOpts /\ spec.cron \in Nat \ {0}
  BY SpecAssumption
<1>4. NextCronAfter(now, spec.cron) \in Nat /\ NextCronAfter(now, spec.cron) > now
  BY Zenon, <1>2, <1>3, NextIsLater
<1>5. /\ row \in Row /\ row # Nil
      /\ row.next > now
      /\ old = Nil => row.produced = 0 /\ row.last = Nil
      /\ old # Nil => row.produced = old.produced /\ row.last = old.last
  <2>1. old # Nil => old.produced \in Nat /\ old.last \in JobId \cup {Nil}
    BY <1>2 DEF Row
  <2>2. row \in Row
    BY <1>3, <1>4, <2>1 DEF UpsertedRow, Row
  <2> QED
    BY <1>4, <2>2, SpecAssumption DEF UpsertedRow
<1> HIDE DEF row
<1>6. /\ schedulers'[s] = row
      /\ \A u \in SchedulerId : u # s => schedulers'[u] = schedulers[u]
      /\ schedulers' \in [SchedulerId -> Row \cup {Nil}]
  BY <1>1, <1>2, <1>5
<1>7. /\ born' \in [SchedulerId -> Nat]
      /\ \A u \in SchedulerId : u # s => born'[u] = born[u]
      /\ born'[s] = IF old = Nil THEN Len(fires[s]) ELSE born[s]
  BY <1>1, <1>2
<1>8. SchedulersTypeOK'
  <2>1. TypeOK'
    BY <1>1, <1>2 DEF TypeOK, vars
  <2> QED
    BY <1>1, <1>2, <1>6, <1>7, <2>1 DEF SchedulersTypeOK
<1>9. BatchInv'
  <2>1. IsFiniteSet(Existing \cup {s})
    BY FS_AddElement DEF SchedulersInv, BatchInv
  <2>2. Existing' \subseteq Existing \cup {s}
    BY Zenon, <1>6 DEF Existing
  <2>3. IsFiniteSet(Existing')
    BY <2>1, <2>2, FS_Subset
  <2>4. 1..Len(batch') = {}
    BY <1>1
  <2>5. issued' + Len(batch') <= MaxJobs
    BY <1>1 DEF SchedulersInv, BatchInv, vars
  <2> QED
    BY Zenon, <2>3, <2>4, <2>5 DEF BatchInv
<1>10. BooksInv'
  <2>1. BookkeepingAgrees /\ \A u \in SchedulerId : born[u] <= Len(fires[u])
    BY DEF SchedulersInv, BooksInv
  <2>2. ASSUME NEW u \in SchedulerId, u # s
        PROVE  /\ schedulers'[u] = schedulers[u] /\ born'[u] = born[u]
               /\ fires'[u] = fires[u]
    BY <1>1, <1>6, <1>7, <2>2
  <2>3. BookkeepingAgrees'
    <3> SUFFICES ASSUME NEW u \in SchedulerId, schedulers'[u] # Nil
                 PROVE  /\ schedulers'[u].produced = Len(fires'[u]) - born'[u]
                        /\ schedulers'[u].last = IF Len(fires'[u]) = born'[u] THEN Nil
                                                 ELSE fires'[u][Len(fires'[u])].job
      BY DEF BookkeepingAgrees
    <3>1. CASE u # s
      BY Zenon, <2>1, <2>2, <3>1 DEF BookkeepingAgrees
    <3>2. CASE u = s /\ old = Nil
      BY <1>1, <1>2, <1>5, <1>6, <1>7, <3>2
    <3>3. CASE u = s /\ old # Nil
      <4>1. /\ old.produced = Len(fires[s]) - born[s]
            /\ old.last = IF Len(fires[s]) = born[s] THEN Nil ELSE fires[s][Len(fires[s])].job
        BY <2>1, <3>3 DEF BookkeepingAgrees
      <4> QED
        BY Zenon, <1>1, <1>5, <1>6, <1>7, <3>3, <4>1
    <3> QED
      BY <3>1, <3>2, <3>3
  <2>4. \A u \in SchedulerId : born'[u] <= Len(fires'[u])
    BY <1>1, <1>2, <1>7, <2>1
  <2> QED
    BY <2>3, <2>4 DEF BooksInv
<1>11. ~ClockMayStepBack => TimeInv'
  <2> SUFFICES ASSUME TimeInv
               PROVE  TimeInv'
    BY DEF SchedulersInv
  <2>1. 1..Len(batch') = {} /\ now' = now /\ fires' = fires
    BY <1>1 DEF vars
  <2>2. ASSUME NEW u \in SchedulerId, NEW i \in 1..Len(fires[u]), schedulers'[u] # Nil
        PROVE  fires[u][i].at < schedulers'[u].next
    <3>1. CASE u # s
      BY <1>6, <2>2, <3>1 DEF TimeInv
    <3>2. CASE u = s
      <4>1. fires[u][i].at <= now /\ fires[u][i].at \in Nat
        <5>1. fires[u][i] \in Fired
          BY <1>2
        <5> QED
          BY <5>1 DEF TimeInv, Fired
      <4>2. row.next \in Nat
        BY <1>5 DEF Row
      <4> QED
        BY <1>2, <1>5, <1>6, <3>2, <4>1, <4>2
    <3> QED
      BY <3>1, <3>2
  <2> QED
    BY Zenon, <2>1, <2>2 DEF TimeInv, NoBackfill
<1> QED
  BY <1>8, <1>9, <1>10, <1>11 DEF SchedulersInv

\* Deleting a scheduler empties its row and touches no other.
LEMMA DeleteSchedulerKept ==
    ASSUME SchedulersInv, NEW s \in SchedulerId, DeleteScheduler(s)
    PROVE  SchedulersInv'
<1>1. /\ batch = <<>> /\ batch' = batch
      /\ schedulers' = [schedulers EXCEPT ![s] = Nil]
      /\ UNCHANGED <<vars, faults, fires, born>>
  BY DEF DeleteScheduler, LockFree
<1>2. SchedulersTypeOK /\ TypeOK /\ schedulers \in [SchedulerId -> Row \cup {Nil}]
  BY DEF SchedulersInv, SchedulersTypeOK
<1>3. /\ schedulers' \in [SchedulerId -> Row \cup {Nil}]
      /\ \A u \in SchedulerId : schedulers'[u] # Nil => schedulers'[u] = schedulers[u]
  BY <1>1, <1>2
<1>4. SchedulersTypeOK'
  <2>1. TypeOK'
    BY <1>1, <1>2 DEF TypeOK, vars
  <2> QED
    BY <1>1, <1>2, <1>3, <2>1 DEF SchedulersTypeOK
<1>5. BatchInv'
  <2>1. Existing' \subseteq Existing
    BY Zenon, <1>3 DEF Existing
  <2>2. IsFiniteSet(Existing')
    BY <2>1, FS_Subset DEF SchedulersInv, BatchInv
  <2>3. 1..Len(batch') = {}
    BY <1>1
  <2>4. issued' + Len(batch') <= MaxJobs
    BY Zenon, <1>1 DEF SchedulersInv, BatchInv, vars
  <2> QED
    BY Zenon, <2>2, <2>3, <2>4 DEF BatchInv
<1>6. BooksInv'
  BY Zenon, <1>1, <1>3 DEF SchedulersInv, BooksInv, BookkeepingAgrees
<1>7. ~ClockMayStepBack => TimeInv'
  <2>1. 1..Len(batch') = {} /\ now' = now
    BY <1>1 DEF vars
  <2> QED
    BY Zenon, <1>1, <1>3, <2>1 DEF SchedulersInv, TimeInv, NoBackfill
<1> QED
  BY <1>4, <1>5, <1>6, <1>7 DEF SchedulersInv

\* What a successful fire finds and does: the row of the batch is the one in the
\* table, and the job it inserts is well formed.
LEMMA FireFacts ==
    ASSUME SchedulersInv, FireSucceeds
    PROVE  LET s == Head(batch).id
               row == schedulers[s]
           IN  /\ s \in SchedulerId /\ row \in Row
               /\ Head(batch).row = row
               /\ issued \in Nat /\ issued + 1 \in JobId /\ issued' = issued + 1
               /\ TypeOK' /\ now' = now
               /\ jobs'[issued'].opts = Prepared(BuildRequest(row)).opts
               /\ NextRun(row) \in Nat /\ NextRun(row) > now
               /\ schedulers' = Advanced(s, NextRun(row), issued + 1)
               /\ fires' = [fires EXCEPT ![s] =
                      Append(@, [due |-> row.next, at |-> now, job |-> issued + 1])]
<1> DEFINE s == Head(batch).id
           row == Head(batch).row
           r == ScheduledRequest
<1>1. /\ SchedulersTypeOK /\ TypeOK /\ BatchInv /\ batch # <<>>
      /\ Verdict(Tx, r) = "inserted" /\ Commit(Inserted(Tx, r))
      /\ fires' = [fires EXCEPT ![s] =
             Append(@, [due |-> row.next, at |-> now, job |-> issued + 1])]
      /\ schedulers' = IF schedulers[s] = Nil THEN schedulers
                       ELSE Advanced(s, NextRun(row), issued + 1)
  BY Zenon DEF SchedulersInv, SchedulersTypeOK, FireSucceeds
<1>2. /\ s \in SchedulerId /\ row \in Row /\ Len(batch) \in Nat \ {0}
      /\ row = schedulers[s]
  <2>1. /\ Head(batch) \in [id: SchedulerId, row: Row] /\ Head(batch) = batch[1]
        /\ 1 \in 1..Len(batch) /\ Len(batch) \in Nat \ {0}
    BY Zenon, <1>1, BatchGoesOn
  <2>2. row = schedulers[s]
    BY Zenon, <1>1, <2>1 DEF BatchInv
  <2> QED
    BY <2>1, <2>2
<1>3. issued \in Nat /\ now \in Nat /\ issued < MaxJobs /\ issued + 1 \in JobId
  <2>1. /\ issued \in 0..MaxJobs /\ now \in 0..MaxTime
        /\ issued + Len(batch) <= MaxJobs /\ MaxJobs \in Nat /\ MaxTime \in Nat
    BY Zenon, <1>1, BoundAssumption DEF TypeOK, BatchInv
  <2>2. issued \in Nat /\ now \in Nat
    BY <2>1
  <2> QED
    BY <1>2, <2>1, <2>2 DEF JobId
<1>4. r \in Request /\ r = Prepared(BuildRequest(row))
  <2>1. row.opts \in RawOpts
    BY <1>2 DEF Row
  <2>2. [row.opts EXCEPT !.delay = 0, !.key = Nil, !.release = FALSE] \in RawOpts
    BY Zenon, <2>1 DEF RawOpts
  <2>3. BuildRequest(row) \in RawRequest
    BY <2>2 DEF BuildRequest, RawRequest
  <2>4. r = Prepared(BuildRequest(row))
    BY DEF ScheduledRequest
  <2> QED
    BY <2>3, <2>4, PreparedType
<1> HIDE DEF r
<1>5. Tx \in TxOK /\ Tx.issued = issued /\ Tx.jobs = jobs
  BY Zenon, <1>1 DEF Tx, TxOK, TypeOK
<1>6. Inserted(Tx, r) \in TxOK
  <2>1. /\ history \in [JobId -> Archived \cup {Nil}]
        /\ ingressRules \in [Facet -> RateRule \cup {Nil}]
    BY <1>1 DEF TypeOK
  <2>2. Continues(Tx, Inserted(Tx, r))
    BY <1>1, <1>3, <1>4, <1>5, <2>1, EnqueueOneContinues
  <2> QED
    BY <2>2 DEF Continues
<1>7. TypeOK' /\ now' = now
  BY Zenon, <1>1, <1>6 DEF Commit, TxOK, TypeOK
<1>8. /\ issued' = issued + 1
      /\ jobs' = [jobs EXCEPT ![issued + 1] = NewJob(Tx, r)]
  BY Zenon, <1>1, <1>5 DEF Commit, Inserted
<1>9. jobs'[issued'].opts = r.opts
  <2>1. jobs'[issued + 1] = NewJob(Tx, r)
    BY Zenon, <1>1, <1>3, <1>8 DEF TypeOK
  <2>2. NewJob(Tx, r).opts = r.opts
    BY DEF NewJob
  <2>3. issued' = issued + 1
    BY Zenon, <1>8
  <2> QED
    BY Zenon, <2>1, <2>2, <2>3
<1>10. NextRun(row) \in Nat /\ NextRun(row) > now
  <2>1. row.cron \in Nat \ {0}
    BY <1>2 DEF Row
  <2> QED
    BY Zenon, <1>3, <2>1, NextIsLater DEF NextRun
<1>11. schedulers[s] # Nil
  BY <1>2, SpecAssumption
<1> QED
  BY Zenon, <1>1, <1>2, <1>3, <1>4, <1>7, <1>8, <1>9, <1>10, <1>11

\* A fire advances its row beyond now and enters its job in the books.
LEMMA FireKept ==
    ASSUME SchedulersInv, FireSucceeds
    PROVE  SchedulersInv'
<1> DEFINE s == Head(batch).id
           row == schedulers[s]
           next == NextRun(row)
           new == schedulers'[s]
           entry == [due |-> row.next, at |-> now, job |-> issued + 1]
           n == Len(fires[s])
<1>1. /\ s \in SchedulerId /\ row \in Row /\ Head(batch).row = row
      /\ issued \in Nat /\ issued + 1 \in JobId /\ issued' = issued + 1
      /\ TypeOK' /\ now' = now
      /\ next \in Nat /\ next > now
      /\ schedulers' = Advanced(s, next, issued + 1)
      /\ fires' = [fires EXCEPT ![s] = Append(@, entry)]
  BY Zenon, FireFacts
<1>2. /\ SchedulersTypeOK /\ schedulers \in [SchedulerId -> Row \cup {Nil}]
      /\ fires \in [SchedulerId -> Seq(Fired)] /\ now \in Nat
      /\ \A u \in SchedulerId : Len(fires[u]) \in Nat /\ born[u] \in Nat
      /\ BatchInv /\ BooksInv
  BY DEF SchedulersInv, SchedulersTypeOK, TypeOK
<1>3. batch # <<>> /\ batch' = Tail(batch) /\ UNCHANGED <<faults, born>>
  BY Zenon DEF FireSucceeds
<1>4. /\ row.next \in Nat /\ row.produced \in Nat /\ row # Nil
      /\ row = [opts |-> row.opts, cron |-> row.cron, next |-> row.next,
                produced |-> row.produced, last |-> row.last]
      /\ row.opts \in RawOpts /\ row.cron \in Nat \ {0}
  BY <1>1, SpecAssumption DEF Row
<1>5. /\ new = [row EXCEPT !.next = next, !.produced = @ + 1, !.last = issued + 1]
      /\ \A u \in SchedulerId : u # s => schedulers'[u] = schedulers[u]
      /\ DOMAIN schedulers' = SchedulerId
      /\ schedulers' = [schedulers EXCEPT ![s] = new]
  <2> HIDE DEF s, next
  <2> QED
    BY Zenon, <1>1, <1>2 DEF Advanced
<1>6. new \in Row /\ new.next = next /\ new.produced = row.produced + 1
      /\ new.last = issued + 1 /\ new # Nil
  <2> HIDE DEF s, next, row, new
  <2>1. new = [opts |-> row.opts, cron |-> row.cron, next |-> next,
               produced |-> row.produced + 1, last |-> issued + 1]
    BY Zenon, <1>1, <1>5 DEF Row
  <2>2. new \in Row
    <3>1. row.produced + 1 \in Nat
      BY <1>4
    <3> QED
      BY Zenon, <1>1, <1>4, <2>1, <3>1 DEF Row
  <2>3. new # Nil
    BY <2>2, SpecAssumption
  <2> QED
    BY <2>1, <2>2, <2>3
<1>7. entry \in Fired
  BY <1>1, <1>2, <1>4 DEF Fired
<1> HIDE DEF new, next
<1>8. /\ fires' \in [SchedulerId -> Seq(Fired)]
      /\ \A u \in SchedulerId : u # s => fires'[u] = fires[u]
      /\ fires'[s] = Append(fires[s], entry)
  <2> HIDE DEF s, entry
  <2>1. Append(fires[s], entry) \in Seq(Fired)
    BY <1>1, <1>2, <1>7
  <2> QED
    BY <1>1, <1>2, <2>1
<1>9. /\ n \in Nat /\ Len(fires'[s]) = n + 1
      /\ \A i \in 1..n : fires'[s][i] = fires[s][i]
      /\ fires'[s][n + 1] = entry
  <2> HIDE DEF s, entry
  <2> QED
    BY <1>1, <1>2, <1>7, <1>8
<1> HIDE DEF entry
<1>10. /\ Len(batch) \in Nat \ {0}
       /\ batch' \in Seq([id: SchedulerId, row: Row])
       /\ Len(batch') = Len(batch) - 1
       /\ \A i \in 1..Len(batch') : batch'[i] = batch[i + 1] /\ i + 1 \in 1..Len(batch)
       /\ 1 \in 1..Len(batch) /\ Head(batch) = batch[1]
  BY Zenon, <1>2, <1>3, BatchGoesOn
<1>11. ASSUME NEW i \in 1..Len(batch')
       PROVE  /\ batch'[i] = batch[i + 1] /\ i + 1 \in 1..Len(batch)
              /\ batch'[i].id # s /\ batch'[i].id \in SchedulerId
              /\ batch'[i].row = schedulers'[batch'[i].id]
  <2>1. batch'[i] = batch[i + 1] /\ i + 1 \in 1..Len(batch)
    BY Zenon, <1>10
  <2>2. i + 1 # 1
    BY <1>10
  <2>3. batch'[i].id # s
    BY Zenon, <1>2, <1>10, <2>1, <2>2 DEF BatchInv
  <2>4. batch'[i] \in [id: SchedulerId, row: Row]
    BY Zenon, <1>10, SeqElement
  <2>5. batch'[i].row = schedulers[batch'[i].id]
    BY Zenon, <1>2, <2>1 DEF BatchInv
  <2> HIDE DEF s
  <2> QED
    BY <1>5, <2>1, <2>3, <2>4, <2>5
<1> HIDE DEF s, row, n
<1>12. SchedulersTypeOK'
  <2>1. schedulers' \in [SchedulerId -> Row \cup {Nil}]
    BY Zenon, <1>2, <1>5, <1>6
  <2>2. Len(batch') <= SchedulerBatch
    BY <1>2, <1>10, SchedulerAssumption DEF SchedulersTypeOK
  <2> QED
    BY <1>1, <1>2, <1>3, <1>8, <1>10, <2>1, <2>2 DEF SchedulersTypeOK
<1>13. BatchInv'
  <2>1. Existing' \subseteq Existing \cup {s}
    BY Zenon, <1>5 DEF Existing
  <2>2. IsFiniteSet(Existing \cup {s})
    BY Zenon, <1>2, FS_AddElement DEF BatchInv
  <2>3. IsFiniteSet(Existing')
    BY <2>1, <2>2, FS_Subset
  <2>4. issued' + Len(batch') <= MaxJobs
    BY <1>1, <1>2, <1>10, BoundAssumption DEF BatchInv
  <2>5. ASSUME NEW i \in 1..Len(batch'), NEW j \in 1..Len(batch'), batch'[i].id = batch'[j].id
        PROVE  i = j
    <3>1. /\ i + 1 \in 1..Len(batch) /\ j + 1 \in 1..Len(batch)
          /\ batch[i + 1].id = batch[j + 1].id
      BY Zenon, <1>11, <2>5
    <3>2. i + 1 = j + 1
      BY Zenon, <1>2, <3>1 DEF BatchInv
    <3> QED
      BY <3>2
  <2> QED
    BY Zenon, <1>11, <2>3, <2>4, <2>5 DEF BatchInv
<1>14. BooksInv'
  <2>1. ASSUME NEW u \in SchedulerId, u # s
        PROVE  /\ schedulers'[u] = schedulers[u] /\ born'[u] = born[u]
               /\ fires'[u] = fires[u]
    BY <1>3, <1>5, <1>8, <2>1
  <2>2. row.produced = n - born[s] /\ born[s] <= n
    BY <1>1, <1>2, <1>4 DEF BooksInv, BookkeepingAgrees, row, n
  <2>3. BookkeepingAgrees'
    <3> SUFFICES ASSUME NEW u \in SchedulerId, schedulers'[u] # Nil
                 PROVE  /\ schedulers'[u].produced = Len(fires'[u]) - born'[u]
                        /\ schedulers'[u].last = IF Len(fires'[u]) = born'[u] THEN Nil
                                                 ELSE fires'[u][Len(fires'[u])].job
      BY DEF BookkeepingAgrees
    <3>1. CASE u # s
      BY Zenon, <1>2, <2>1, <3>1 DEF BooksInv, BookkeepingAgrees
    <3>2. CASE u = s
      <4>1. new.produced = (n + 1) - born[s] /\ n + 1 # born[s]
        BY <1>1, <1>2, <1>6, <1>9, <2>2
      <4>2. fires'[s][n + 1].job = issued + 1
        BY <1>9 DEF entry
      <4>3. /\ schedulers'[s].produced = Len(fires'[s]) - born'[s]
            /\ schedulers'[s].last = issued + 1 /\ Len(fires'[s]) # born'[s]
            /\ fires'[s][Len(fires'[s])].job = issued + 1
        <5>1. born' = born
          BY <1>3
        <5>2. Len(fires'[s]) = n + 1
          BY <1>9
        <5>3. new.produced = (n + 1) - born[s] /\ new.last = issued + 1
          BY <1>6, <4>1
        <5>4. Len(fires'[s]) - born'[s] = (n + 1) - born[s]
          BY <5>1, <5>2
        <5>5. fires'[s][Len(fires'[s])] = fires'[s][n + 1]
          BY Zenon, <5>2
        <5>6. Len(fires'[s]) # born'[s]
          BY Zenon, <4>1, <5>1, <5>2
        <5> QED
          BY Zenon, <4>2, <5>3, <5>4, <5>5, <5>6 DEF new
      <4> QED
        BY Zenon, <3>2, <4>3
    <3> QED
      BY <3>1, <3>2
  <2>4. ASSUME NEW u \in SchedulerId
        PROVE  born'[u] <= Len(fires'[u])
    <3>1. CASE u = s
      BY <1>1, <1>2, <1>3, <1>9, <2>2, <3>1
    <3>2. CASE u # s
      BY <1>2, <2>1, <3>2 DEF BooksInv
    <3> QED
      BY <3>1, <3>2
  <2> QED
    BY <2>3, <2>4 DEF BooksInv
<1>15. ~ClockMayStepBack => TimeInv'
  <2> SUFFICES ASSUME TimeInv
               PROVE  TimeInv'
    BY DEF SchedulersInv
  <2>1. \A i \in 1..Len(batch') : batch'[i].row.next <= now'
    BY Zenon, <1>1, <1>11 DEF TimeInv
  <2>2. ASSUME NEW i \in 1..n
        PROVE  fires[s][i].at \in Nat /\ fires[s][i].at <= now /\ fires[s][i].at < row.next
    <3>1. fires[s][i] \in Fired
      BY <1>1, <1>2 DEF n
    <3> QED
      BY Zenon, <1>1, <1>4, <3>1 DEF TimeInv, Fired, n, row
  <2>3. entry.at = now /\ entry.due = row.next
    BY DEF entry
  <2>4. ASSUME NEW u \in SchedulerId, NEW i \in 1..Len(fires'[u])
        PROVE  /\ fires'[u][i].at <= now'
               /\ schedulers'[u] # Nil => fires'[u][i].at < schedulers'[u].next
    <3>1. CASE u # s
      BY Zenon, <1>1, <1>5, <1>8, <3>1 DEF TimeInv
    <3>2. CASE u = s /\ i = n + 1
      <4>1. /\ fires'[u][i].at = now /\ schedulers'[u].next = next
            /\ now' = now /\ next > now /\ now \in Nat
        BY Zenon, <1>1, <1>2, <1>6, <1>9, <2>3, <3>2 DEF new
      <4> QED
        BY <4>1
    <3>3. CASE u = s /\ i # n + 1
      <4>1. i \in 1..n /\ fires'[s][i] = fires[s][i]
        BY <1>9, <2>4, <3>3
      <4>2. /\ fires'[u][i].at \in Nat /\ fires'[u][i].at <= now
            /\ schedulers'[u].next = next /\ next \in Nat
            /\ now' = now /\ next > now /\ now \in Nat
        BY Zenon, <1>1, <1>2, <1>6, <2>2, <3>3, <4>1 DEF new
      <4> QED
        BY <4>2
    <3> QED
      BY <3>1, <3>2, <3>3
  <2>5. ASSUME NEW u \in SchedulerId, NEW i \in 1..Len(fires'[u]),
               NEW j \in 1..Len(fires'[u]), i < j
        PROVE  fires'[u][i].at < fires'[u][j].due
    <3>1. CASE u # s
      BY Zenon, <1>8, <2>5, <3>1 DEF TimeInv, NoBackfill
    <3>2. CASE u = s /\ j = n + 1
      <4>1. i \in 1..n
        BY <1>9, <2>5, <3>2
      <4> QED
        BY <1>9, <2>2, <2>3, <3>2, <4>1
    <3>3. CASE u = s /\ j # n + 1
      <4>1. i \in 1..n /\ j \in 1..n
        BY <1>9, <2>5, <3>3
      <4>2. fires[s][i].at < fires[s][j].due
        BY <1>1, <2>5, <4>1 DEF TimeInv, NoBackfill, n
      <4> QED
        BY <1>9, <3>3, <4>1, <4>2
    <3> QED
      BY <3>1, <3>2, <3>3
  <2> QED
    BY Zenon, <2>1, <2>4, <2>5 DEF TimeInv, NoBackfill
<1> QED
  BY <1>12, <1>13, <1>14, <1>15 DEF SchedulersInv

\* Rules set while no tick is running.
LEMMA OperatorKept ==
    ASSUME SchedulersInv, OperatorStep
    PROVE  SchedulersInv'
<1>1. TypeOK /\ UNCHANGED loop
  BY DEF OperatorStep, SchedulersInv, SchedulersTypeOK
<1>2. UNCHANGED <<schedulers, batch, faults, fires, born>>
  BY <1>1 DEF loop
<1>3. /\ TypeOK' /\ UNCHANGED <<now, issued>>
  <2>1. CASE \E f \in Facet, rule \in IngressRuleChoices : UpsertIngressLimitRule(f, rule)
    <3>1. PICK f \in Facet, rule \in IngressRuleChoices : UpsertIngressLimitRule(f, rule)
      BY <2>1
    <3>2. rule \in RateRule
      BY SpecAssumption
    <3>3. /\ ingressRules' \in [Facet -> RateRule \cup {Nil}]
          /\ ingressBuckets' \in [Facet -> Bucket \cup {Nil}]
      BY <1>1, <3>1, <3>2 DEF UpsertIngressLimitRule, TypeOK
    <3> QED
      BY <1>1, <3>1, <3>3 DEF UpsertIngressLimitRule, TypeOK
  <2>2. CASE \E f \in Facet : DeleteIngressLimitRule(f)
    <3>1. PICK f \in Facet : DeleteIngressLimitRule(f)
      BY <2>2
    <3>2. /\ ingressRules' \in [Facet -> RateRule \cup {Nil}]
          /\ ingressBuckets' \in [Facet -> Bucket \cup {Nil}]
      BY <1>1, <3>1 DEF DeleteIngressLimitRule, TypeOK
    <3> QED
      BY <1>1, <3>1, <3>2 DEF DeleteIngressLimitRule, TypeOK
  <2> QED
    BY Zenon, <2>1, <2>2 DEF OperatorStep
<1> QED
  BY Zenon, <1>2, <1>3 DEF SchedulersInv, SchedulersTypeOK, BatchInv, BooksInv, TimeInv,
     NoBackfill, BookkeepingAgrees, Existing

\* Time only makes more rows due.
LEMMA ClockKept ==
    ASSUME SchedulersInv, ClockStep
    PROVE  SchedulersInv'
<1>1. TypeOK /\ UNCHANGED <<schedulers, batch, faults, fires, born>>
  BY DEF ClockStep, SchedulersInv, SchedulersTypeOK, loop
<1>2. /\ TypeOK' /\ issued' = issued /\ now \in Nat /\ now' \in Nat
      /\ ClockMayStepBack \/ now' = now + 1
  <2>1. /\ now \in 0..MaxTime /\ MaxTime \in Nat
        /\ \/ now < MaxTime /\ now' = now + 1
           \/ ClockMayStepBack /\ now > 0 /\ now' = now - 1
    BY Zenon, <1>1, BoundAssumption DEF ClockStep, Tick, ClockStepsBack, TypeOK
  <2>2. /\ now' \in 0..MaxTime /\ now \in Nat /\ now' \in Nat
        /\ ClockMayStepBack \/ now' = now + 1
    BY <2>1
  <2>3. /\ UNCHANGED <<issued, jobs, history, receipts>>
        /\ UNCHANGED <<rateRules, rateCounters, ingressRules, ingressBuckets>>
        /\ UNCHANGED <<dispatch, chains, rejections, claims, acks>>
    BY Zenon DEF ClockStep, Tick, ClockStepsBack, limits
  <2>4. /\ issued' = issued /\ jobs' = jobs /\ history' = history /\ receipts' = receipts
        /\ rateRules' = rateRules /\ rateCounters' = rateCounters
        /\ ingressRules' = ingressRules /\ ingressBuckets' = ingressBuckets
        /\ dispatch' = dispatch /\ chains' = chains /\ rejections' = rejections
        /\ claims' = claims /\ acks' = acks
    BY <2>3
  <2> QED
    BY Zenon, <1>1, <2>2, <2>4 DEF TypeOK
<1>3. BatchInv' /\ BooksInv' /\ SchedulersTypeOK'
  BY Zenon, <1>1, <1>2 DEF SchedulersInv, SchedulersTypeOK, BatchInv, BooksInv,
     BookkeepingAgrees, Existing
<1>4. ~ClockMayStepBack => TimeInv'
  <2> SUFFICES ASSUME TimeInv, now' = now + 1
               PROVE  TimeInv'
    BY <1>2 DEF SchedulersInv
  <2>1. ASSUME NEW i \in 1..Len(batch)
        PROVE  batch[i].row.next <= now'
    <3>1. batch[i] \in [id: SchedulerId, row: Row]
      BY Zenon, SeqElement DEF SchedulersInv, SchedulersTypeOK
    <3>2. batch[i].row.next \in Nat
      BY <3>1 DEF Row
    <3>3. batch[i].row.next <= now
      BY Zenon DEF TimeInv
    <3>4. now \in Nat
      BY DEF SchedulersInv, SchedulersTypeOK, TypeOK
    <3> QED
      BY <3>2, <3>3, <3>4
  <2>2. ASSUME NEW s \in SchedulerId, NEW i \in 1..Len(fires[s])
        PROVE  fires[s][i].at <= now'
    <3>1. fires[s] \in Seq(Fired)
      BY DEF SchedulersInv, SchedulersTypeOK
    <3>2. fires[s][i] \in Fired
      BY <3>1
    <3>3. fires[s][i].at \in Nat
      BY <3>2 DEF Fired
    <3>4. fires[s][i].at <= now
      BY Zenon DEF TimeInv
    <3> QED
      BY <1>2, <3>3, <3>4
  <2> QED
    BY Zenon, <1>1, <2>1, <2>2 DEF TimeInv, NoBackfill
<1> QED
  BY <1>3, <1>4 DEF SchedulersInv

\* A new database has no scheduler and nothing has fired.
LEMMA InitSchedulers ==
    ASSUME SchedulersInit
    PROVE  SchedulersInv
<1>1. /\ Init /\ schedulers = [s \in SchedulerId |-> Nil] /\ batch = <<>> /\ faults = 0
      /\ fires = [s \in SchedulerId |-> <<>>] /\ born = [s \in SchedulerId |-> 0]
  BY DEF SchedulersInit
<1>2. TypeOK /\ issued = 0
  BY <1>1, BoundAssumption DEF Init, TypeOK
<1>3. Len(batch) = 0 /\ 1..0 = {} /\ \A s \in SchedulerId : Len(fires[s]) = 0
  BY <1>1
<1>4. SchedulersTypeOK
  BY <1>1, <1>2, <1>3, SchedulerAssumption DEF SchedulersTypeOK
<1>5. BatchInv
  <2>1. Existing = {}
    BY <1>1 DEF Existing
  <2>2. IsFiniteSet(Existing)
    BY Zenon, <2>1, FS_EmptySet
  <2>3. issued + Len(batch) <= MaxJobs
    BY <1>2, <1>3, BoundAssumption
  <2>4. \A i \in 1..Len(batch) : FALSE
    BY Zenon, <1>3
  <2> QED
    BY Zenon, <2>2, <2>3, <2>4 DEF BatchInv
<1>6. BooksInv
  BY <1>1, <1>3 DEF BooksInv, BookkeepingAgrees
<1>7. TimeInv
  BY Zenon, <1>3 DEF TimeInv, NoBackfill
<1> QED
  BY <1>4, <1>5, <1>6, <1>7 DEF SchedulersInv

\* Every step of the loop, the operator and the clock keeps the invariant.
LEMMA StepKeepsSchedulersInv ==
    ASSUME SchedulersInv, [SchedulersNext]_allVars
    PROVE  SchedulersInv'
<1>1. CASE FireRejected
  BY <1>1, SkipKept DEF FireRejected, SchedulersInv, SchedulersTypeOK
<1>2. CASE StorageError \/ Crash
  <2>1. faults' \in 0..MaxFaults
    BY <1>2, SchedulerAssumption DEF StorageError, Crash, SchedulersInv, SchedulersTypeOK
  <2> QED
    BY <1>2, <2>1, SkipKept DEF StorageError, Crash
<1>3. CASE UNCHANGED allVars
  <2>1. UNCHANGED <<now, issued, schedulers, batch, faults, fires, born>>
    BY <1>3 DEF allVars, vars, loop
  <2>2. TypeOK'
    BY <1>3 DEF allVars, vars, TypeOK, SchedulersInv, SchedulersTypeOK
  <2> QED
    BY Zenon, <2>1, <2>2 DEF SchedulersInv, SchedulersTypeOK, BatchInv, BooksInv, TimeInv,
       NoBackfill, BookkeepingAgrees, Existing
<1> QED
  BY Zenon, <1>1, <1>2, <1>3, ScanKept, UpsertKept, DeleteSchedulerKept, FireKept,
     OperatorKept, ClockKept DEF SchedulersNext
-----------------------------------------------------------------------------
(***************************************************************************)
(* The theorems                                                            *)
(***************************************************************************)

\* Through any order of upserts, deletes, scans, fires, rejections, storage errors
\* and crashes, the invariant of the tick and of the books holds.
THEOREM SchedulersInvariant == SchedulersSpec => []SchedulersInv
<1>1. SchedulersInit => SchedulersInv
  BY InitSchedulers
<1>2. SchedulersInv /\ [SchedulersNext]_allVars => SchedulersInv'
  BY StepKeepsSchedulersInv
<1> QED
  BY <1>1, <1>2, PTL DEF SchedulersSpec

\* Every table and the running batch stay well formed, and a tick never fires more
\* than batch_size rows (select_due_schedulers).
THEOREM SchedulersTypeCorrect == SchedulersSpec => []SchedulersTypeOK
<1>1. SchedulersInv => SchedulersTypeOK
  BY DEF SchedulersInv
<1> QED
  BY <1>1, SchedulersInvariant, PTL

\* produced_count and last_job_id are those of the jobs fired since the row was
\* inserted, whatever failed in between (fire_one, upsert_scheduler).
THEOREM BooksAgree == SchedulersSpec => []BookkeepingAgrees
<1>1. SchedulersInv => BookkeepingAgrees
  BY DEF SchedulersInv, BooksInv
<1> QED
  BY <1>1, SchedulersInvariant, PTL

\* With a clock that is not set back, no occurrence is fired twice and none that
\* was missed is made up for, for every cron period (next_cron_after, fire_one).
THEOREM OccurrencesFireOnce ==
    ASSUME ~ClockMayStepBack
    PROVE  SchedulersSpec => []NoBackfill
<1>1. SchedulersInv => NoBackfill
  BY DEF SchedulersInv, TimeInv
<1> QED
  BY <1>1, SchedulersInvariant, PTL

\* With a clock that is not set back, the row a fire goes by is still the one in
\* the table, and due (run_once keeps the writer's lock).
THEOREM FiresFollowTable ==
    ASSUME ~ClockMayStepBack
    PROVE  SchedulersSpec => FiresAreCurrent
<1> DEFINE Current ==
             \A s \in SchedulerId : fires'[s] # fires[s] =>
                 /\ Due(s)
                 /\ jobs'[issued'].opts = Prepared(BuildRequest(schedulers[s])).opts
<1>1. SchedulersInv /\ [SchedulersNext]_allVars => [Current]_allVars
  <2> SUFFICES ASSUME SchedulersInv, SchedulersNext,
                      NEW u \in SchedulerId, fires'[u] # fires[u]
               PROVE  /\ Due(u)
                      /\ jobs'[issued'].opts = Prepared(BuildRequest(schedulers[u])).opts
    BY Zenon
  <2>1. FireSucceeds
    <3>1. ASSUME fires' = fires
          PROVE  FALSE
      BY Zenon, <3>1
    <3> QED
      BY Zenon, <3>1 DEF SchedulersNext, UpsertScheduler, DeleteScheduler, ScanDue,
         FireRejected, StorageError, Crash, OperatorStep, ClockStep, loop
  <2> DEFINE s == Head(batch).id
             e == [due |-> schedulers[s].next, at |-> now, job |-> issued + 1]
  <2>2. /\ s \in SchedulerId /\ schedulers[s] \in Row /\ Head(batch).row = schedulers[s]
        /\ jobs'[issued'].opts = Prepared(BuildRequest(schedulers[s])).opts
        /\ fires' = [fires EXCEPT ![s] = Append(@, e)]
    BY Zenon, <2>1, FireFacts
  <2>3. u = s
    <3>1. fires \in [SchedulerId -> Seq(Fired)]
      BY DEF SchedulersInv, SchedulersTypeOK
    <3> HIDE DEF s, e
    <3> QED
      BY <2>2, <3>1
  <2>4. schedulers[s].next <= now
    <3>1. 1 \in 1..Len(batch) /\ Head(batch) = batch[1]
      BY Zenon, <2>1, BatchGoesOn DEF FireSucceeds, SchedulersInv
    <3>2. batch[1].row.next <= now
      BY Zenon, <3>1 DEF SchedulersInv, TimeInv
    <3> QED
      BY Zenon, <2>2, <3>1, <3>2
  <2>5. Due(s)
    BY Zenon, <2>2, <2>4, SpecAssumption DEF Due
  <2> QED
    BY Zenon, <2>2, <2>3, <2>5
<1> QED
  BY <1>1, SchedulersInvariant, PTL DEF SchedulersSpec, FiresAreCurrent
=============================================================================
