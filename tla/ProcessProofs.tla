--------------------------- MODULE ProcessProofs ----------------------------
(***************************************************************************)
(* Proofs about Process, for every value of its constants: any number of   *)
(* starts, crashes, queries and snapshots, and any batch and limit.        *)
(***************************************************************************)
EXTENDS Process, FiniteSetTheorems, TLAPS
-----------------------------------------------------------------------------
(***************************************************************************)
(* The inductive invariant, one part for each thing main() looks after     *)
(***************************************************************************)

Binding == {"down", "open", "index", "watch", "http"}
Starting == Binding \cup {"loops", "grpc"}
Closing == {"abort", "checkpoint", "exit"}

\* How far main() is, which server is in which state, and who is still served.
ShutdownInv ==
    /\ main \in Starting \cup {"select", "join"} \cup Closing
    /\ server \in [Server -> {"off", "ready", "up", "draining", "done"}]
    /\ main \in Starting => server["grpc"] = "off"
    /\ main \in Binding => server["http"] = "off"
    /\ main \in {"loops", "grpc"} => server["http"] = "ready"
    /\ main \in Closing => \A s \in Server : server[s] = "done"
    /\ rpc => server["grpc"] \in {"up", "draining"}
    /\ Pending # {} => server["http"] \in {"up", "draining"}
    /\ main \in {"checkpoint", "exit"} => loops = {}

\* After the checkpoint each closure it found in the pool is still there or has
\* committed at most what it could.
SealInv ==
    /\ orphans \in Nat
    /\ ticks \subseteq Loop
    /\ main = "exit" =>
          /\ seal.version \in Nat /\ seal.pool \in Nat
          /\ seal.version <= version
          /\ version + Pool <= seal.version + seal.pool
          /\ seal.truncated /\ version = seal.version => ~wal

\* Every permit is in the semaphore or with a running query, and no query is
\* twice in the reader.
ReaderInv ==
    /\ waiting \in Seq(Query)
    /\ running \subseteq Query /\ IsFiniteSet(running)
    /\ \A i, j \in DOMAIN waiting : waiting[i] = waiting[j] => i = j
    /\ \A i \in DOMAIN waiting : waiting[i] \notin running
    /\ permits \in Nat
    /\ permits + Cardinality(running) = MaxConcurrency

\* The statements of SETUP_SQL ran in order.  Entries exist only once the insert
\* trigger does, they are of rows that exist, and a process that has finished
\* the backfill misses none.
IndexInv ==
    /\ history \subseteq 1..MaxRow /\ index \subseteq 1..MaxRow
    /\ schema \in {{}, {"table"}, {"table", "insert"}, {"table", "insert", "delete"}}
    /\ "insert" \notin schema => index = {}
    /\ torn \/ index \subseteq history
    /\ fts /\ main \notin {"down", "open", "index"} =>
          "delete" \in schema /\ history \subseteq index

\* Stamps are published in order, and a snapshot on disk is one of them.
SnapshotInv ==
    /\ clock \in Stamp /\ version \in Nat
    /\ files \in [Stamp -> Nat \cup {Nil}]
    /\ temps \in [Stamp -> Nat \cup {Nil, Partial}]
    /\ cycle \in Cycle \cup {Nil}
    /\ published \in Seq([stamp: Stamp, copy: Nat])
    /\ cycle # Nil => cycle.stamp <= clock /\ cycle.copy <= version
    /\ At("rename") => temps[cycle.stamp] = cycle.copy
    /\ At("prune") => temps[cycle.stamp] = Nil
    /\ \A i \in 1..Len(published) : published[i].stamp <= clock
    /\ \A i, j \in 1..Len(published) :
          i < j => published[i].stamp <= published[j].stamp
    /\ At("copy") \/ At("rename") =>
          \A i \in 1..Len(published) : published[i].stamp <= cycle.stamp
    /\ \A s \in Snapshot : \E i \in 1..Len(published) : published[i].stamp = s
    /\ RecoveryPoint

\* A process that died has been started.
TempsInv ==
    /\ starts \in Nat
    /\ main # "down" => starts > 0
    /\ TempsAccounted

ProcessInv ==
    ShutdownInv /\ SealInv /\ ReaderInv /\ IndexInv /\ SnapshotInv /\ TempsInv
-----------------------------------------------------------------------------
(***************************************************************************)
(* Least and greatest elements                                             *)
(***************************************************************************)

\* What a sequence holds.
LEMMA SeqElement ==
    ASSUME NEW S, NEW s \in Seq(S), NEW i \in 1..Len(s)
    PROVE  s[i] \in S
  OBVIOUS

\* A part of a sequence, the empty one included.
LEMMA SeqPart ==
    ASSUME NEW S, NEW s \in Seq(S), NEW a \in 1..(Len(s) + 1), NEW b \in 0..Len(s), a <= b + 1
    PROVE  /\ SubSeq(s, a, b) \in Seq(S) /\ Len(SubSeq(s, a, b)) = b - a + 1
           /\ \A i \in 1..(b - a + 1) : SubSeq(s, a, b)[i] = s[a + i - 1]
  OBVIOUS

\* Every set of stamps has a least one: what prune removes first is defined.
LEMMA MinDefined ==
    ASSUME NEW S \in SUBSET Nat, S # {}
    PROVE  Min(S) \in S /\ \A y \in S : Min(S) <= y
<1>1. PICK x \in S : \A y \in S : <<y, x>> \notin OpToRel(<, Nat)
  BY Zenon, NatLessThanWellFounded, WFMin
<1>2. \A y \in S : ~(y < x)
  BY Zenon, <1>1 DEF OpToRel
<1>3. \A y \in S : x <= y
  BY <1>2
<1> QED
  BY Zenon, <1>3 DEF Min

\* Every non-empty set of rowids has a greatest one: the next rowid is defined.
LEMMA MaxDefined ==
    ASSUME NEW n \in Nat, NEW S \in SUBSET (1..n), S # {}
    PROVE  Max(S) \in S
<1> DEFINE T == {k \in 0..n : n - k \in S}
<1>1. T \in SUBSET Nat /\ T # {}
  <2>1. PICK x \in S : x \in 1..n
    BY Zenon
  <2>2. n - x \in 0..n /\ n - (n - x) = x
    BY <2>1
  <2>3. n - x \in T
    BY Zenon, <2>1, <2>2
  <2>4. T \subseteq Nat
    OBVIOUS
  <2> QED
    BY Zenon, <2>3, <2>4
<1>2. Min(T) \in T /\ \A k \in T : Min(T) <= k
  BY <1>1, MinDefined
<1> DEFINE m == Min(T)
<1> HIDE DEF m
<1>3. m \in 0..n /\ n - m \in S /\ \A k \in T : m <= k
  BY <1>2 DEF m
<1>4. ASSUME NEW y \in S
      PROVE  n - m >= y
  <2>1. y \in 1..n /\ n - y \in 0..n /\ n - (n - y) = y
    OBVIOUS
  <2>2. n - y \in T
    BY <2>1
  <2> QED
    BY <1>3, <2>1, <2>2
<1> QED
  BY Zenon, <1>3, <1>4 DEF Max
-----------------------------------------------------------------------------
(***************************************************************************)
(* Read-only queries                                                       *)
(***************************************************************************)

\* A query leaves the set of those that hold a permit.
LEMMA PermitReturned ==
    ASSUME ReaderInv, NEW q \in running,
           running' = running \ {q}, permits' = permits + 1, waiting' = waiting
    PROVE  ReaderInv' /\ Pending' \subseteq Pending
<1>1. IsFiniteSet(running') /\ Cardinality(running') = Cardinality(running) - 1
  BY FS_RemoveElement DEF ReaderInv
<1>2. Cardinality(running) \in Nat
  BY FS_CardinalityType DEF ReaderInv
<1>3. permits' \in Nat /\ permits' + Cardinality(running') = MaxConcurrency
  BY <1>1, <1>2, ReaderAssumption DEF ReaderInv
<1> QED
  BY Zenon, <1>1, <1>3 DEF ReaderInv, Pending, Range

\* The semaphore hands a permit to the query that waited longest.
LEMMA PermitTaken ==
    ASSUME ReaderInv, Acquire
    PROVE  ReaderInv' /\ Pending' \subseteq Pending
<1> DEFINE q == Head(waiting)
<1>1. /\ waiting \in Seq(Query) /\ waiting # <<>> /\ permits > 0 /\ permits \in Nat
      /\ waiting' = Tail(waiting) /\ running' = running \cup {q}
      /\ permits' = permits - 1
  BY DEF Acquire, ReaderInv
<1>2. /\ Len(waiting) \in Nat \ {0} /\ q = waiting[1] /\ waiting' \in Seq(Query)
      /\ Len(waiting') = Len(waiting) - 1
      /\ DOMAIN waiting = 1..Len(waiting) /\ DOMAIN waiting' = 1..Len(waiting')
      /\ \A i \in DOMAIN waiting' : waiting'[i] = waiting[i + 1]
  BY <1>1
<1>3. /\ 1 \in DOMAIN waiting
      /\ \A i \in DOMAIN waiting' : i + 1 \in DOMAIN waiting /\ i \in Int /\ i + 1 # 1
  BY <1>2
<1>4. /\ \A i, j \in DOMAIN waiting : waiting[i] = waiting[j] => i = j
      /\ \A i \in DOMAIN waiting : waiting[i] \notin running
      /\ running \subseteq Query /\ IsFiniteSet(running)
      /\ permits + Cardinality(running) = MaxConcurrency
  BY DEF ReaderInv
<1>5. q \in Query /\ q \notin running /\ q \in Range(waiting)
  BY <1>1, <1>2, <1>3, <1>4 DEF Range
<1>6. IsFiniteSet(running') /\ Cardinality(running') = Cardinality(running) + 1
  BY <1>1, <1>4, <1>5, FS_AddElement
<1>7. Cardinality(running) \in Nat
  BY <1>4, FS_CardinalityType
<1>8. permits' \in Nat /\ permits' + Cardinality(running') = MaxConcurrency
  BY <1>1, <1>4, <1>6, <1>7, ReaderAssumption
<1>9. \A i, j \in DOMAIN waiting' : waiting'[i] = waiting'[j] => i = j
  BY <1>2, <1>3, <1>4
<1>10. \A i \in DOMAIN waiting' : waiting'[i] \notin running'
  BY <1>1, <1>2, <1>3, <1>4
<1>11. Pending' \subseteq Pending
  BY <1>1, <1>2, <1>3, <1>5 DEF Pending, Range
<1> QED
  BY <1>1, <1>2, <1>4, <1>5, <1>6, <1>8, <1>9, <1>10, <1>11 DEF ReaderInv

\* A query joins the end of the line.
LEMMA QueryAsked ==
    ASSUME ReaderInv, NEW q \in Query, Ask(q)
    PROVE  ReaderInv'
<1>1. waiting \in Seq(Query) /\ waiting' = Append(waiting, q)
  BY DEF Ask, ReaderInv
<1>2. /\ waiting' \in Seq(Query) /\ Len(waiting) \in Nat
      /\ DOMAIN waiting = 1..Len(waiting) /\ DOMAIN waiting' = 1..(Len(waiting) + 1)
      /\ \A i \in DOMAIN waiting : waiting'[i] = waiting[i]
      /\ waiting'[Len(waiting) + 1] = q
  BY <1>1
<1>3. \A i \in DOMAIN waiting' : i \in DOMAIN waiting \/ i = Len(waiting) + 1
  BY <1>2
<1>4. \A i \in DOMAIN waiting : waiting[i] # q
  BY DEF Ask, Pending, Range
<1>5. q \notin running /\ running' = running /\ permits' = permits
  BY DEF Ask, Pending
<1>6. \A i, j \in DOMAIN waiting' : waiting'[i] = waiting'[j] => i = j
  BY Zenon, <1>2, <1>3, <1>4 DEF ReaderInv
<1>7. \A i \in DOMAIN waiting' : waiting'[i] \notin running'
  BY Zenon, <1>2, <1>3, <1>5 DEF ReaderInv
<1> QED
  BY Zenon, <1>2, <1>5, <1>6, <1>7 DEF ReaderInv

\* A query leaves the line before its turn; the others keep their order.
LEMMA QueryWithdrawn ==
    ASSUME ReaderInv, NEW q, Withdraw(q)
    PROVE  ReaderInv' /\ Pending' \subseteq Pending
<1>1. PICK k \in DOMAIN waiting : waiting' = Without(waiting, k)
  BY DEF Withdraw
<1> DEFINE n == Len(waiting)
           front == SubSeq(waiting, 1, k - 1)
           back == SubSeq(waiting, k + 1, n)
           old(i) == IF i < k THEN i ELSE i + 1
<1>2. /\ waiting \in Seq(Query) /\ n \in Nat /\ DOMAIN waiting = 1..n /\ k \in 1..n
      /\ \A i \in 1..n : waiting[i] \in Query
  BY DEF ReaderInv
<1>3. /\ front \in Seq(Query) /\ Len(front) = k - 1
      /\ \A i \in 1..(k - 1) : front[i] = waiting[i]
  BY <1>2, SeqPart
<1>4. /\ back \in Seq(Query) /\ Len(back) = n - k
      /\ \A i \in 1..(n - k) : back[i] = waiting[k + i]
  BY <1>2, SeqPart
<1> HIDE DEF front, back
<1>5. waiting' = front \o back
  BY <1>1 DEF Without, front, back
<1>6. /\ waiting' \in Seq(Query) /\ Len(waiting') = Len(front) + Len(back)
      /\ \A i \in 1..(Len(front) + Len(back)) :
            waiting'[i] = IF i <= Len(front) THEN front[i] ELSE back[i - Len(front)]
  BY <1>3, <1>4, <1>5
<1>7. Len(front) + Len(back) = n - 1 /\ DOMAIN waiting' = 1..(n - 1)
  BY <1>2, <1>3, <1>4, <1>6
<1>8. ASSUME NEW i \in DOMAIN waiting'
      PROVE  i \in Int /\ old(i) \in DOMAIN waiting /\ waiting'[i] = waiting[old(i)]
  <2>1. i \in 1..(n - 1) /\ old(i) \in 1..n
    BY <1>2, <1>7
  <2>2. CASE i < k
    <3>1. i \in 1..(k - 1) /\ i <= Len(front)
      BY <1>2, <1>3, <2>1, <2>2
    <3> QED
      BY <1>2, <1>3, <1>6, <1>7, <2>1, <2>2, <3>1
  <2>3. CASE i >= k
    <3>1. i - (k - 1) \in 1..(n - k) /\ ~(i <= Len(front)) /\ k + (i - (k - 1)) = i + 1
      BY <1>2, <1>3, <2>1, <2>3
    <3>2. waiting'[i] = back[i - (k - 1)]
      BY <1>3, <1>6, <1>7, <2>1, <3>1
    <3> QED
      BY <1>2, <1>4, <2>1, <2>3, <3>1, <3>2
  <2> QED
    BY <1>2, <2>1, <2>2, <2>3
<1>9. \A i, j \in DOMAIN waiting' : old(i) = old(j) => i = j
  BY <1>2, <1>8
<1> HIDE DEF old, n
<1>10. running' = running /\ permits' = permits
  BY DEF Withdraw
<1>11. \A i, j \in DOMAIN waiting' : waiting'[i] = waiting'[j] => i = j
  BY Zenon, <1>8, <1>9 DEF ReaderInv
<1>12. \A i \in DOMAIN waiting' : waiting'[i] \notin running'
  BY Zenon, <1>8, <1>10 DEF ReaderInv
<1>13. Pending' \subseteq Pending
  BY <1>8, <1>10 DEF Pending, Range
<1> QED
  BY Zenon, <1>6, <1>10, <1>11, <1>12, <1>13 DEF ReaderInv

\* A new process starts with all its permits and no query.
LEMMA ReaderForgets ==
    ASSUME ReaderReset
    PROVE  ReaderInv' /\ Pending' = {}
<1>1. MaxConcurrency + 0 = MaxConcurrency /\ MaxConcurrency \in Nat
  BY ReaderAssumption
<1>2. <<>> \in Seq(Query) /\ DOMAIN <<>> = {}
  OBVIOUS
<1> QED
  BY <1>1, <1>2, FS_EmptySet DEF ReaderReset, ReaderInv, Pending, Range

\* The steps of a query: only Ask adds one.
LEMMA QueryKept ==
    ASSUME ReaderInv, NEW q \in Query,
           Ask(q) \/ Answer(q) \/ GiveUp(q) \/ Withdraw(q)
    PROVE  ReaderInv' /\ (Ask(q) \/ Pending' \subseteq Pending)
<1>1. CASE Answer(q) \/ GiveUp(q)
  BY <1>1, PermitReturned DEF Answer, GiveUp
<1> QED
  BY <1>1, QueryAsked, QueryWithdrawn

\* Steps that leave the queries alone.
LEMMA ReaderUntouched ==
    ASSUME ReaderInv, StrayEnds \/ UNCHANGED readerVars
    PROVE  ReaderInv' /\ Pending' \subseteq Pending
BY Zenon DEF StrayEnds, readerVars, ReaderInv, Pending
-----------------------------------------------------------------------------
(***************************************************************************)
(* The search index                                                        *)
(***************************************************************************)

\* SETUP_SQL's statements, as far as the k-th.
LEMMA SetupPrefix ==
    /\ {Statement[i] : i \in 1..0} = {}
    /\ {Statement[i] : i \in 1..1} = {"table"}
    /\ {Statement[i] : i \in 1..2} = {"table", "insert"}
    /\ {Statement[i] : i \in 1..3} = {"table", "insert", "delete"}
<1>1. Statement[1] = "table" /\ Statement[2] = "insert" /\ Statement[3] = "delete"
  BY DEF Statement
<1>2. 1..0 = {} /\ 1..1 = {1} /\ 1..2 = {1, 2} /\ 1..3 = {1, 2, 3}
  OBVIOUS
<1> QED
  BY <1>1, <1>2

\* An interrupted setup goes on where it stopped.
LEMMA SetupKept ==
    ASSUME IndexInv, Setup \/ Backfill, main = "index", main' = main
    PROVE  IndexInv'
<1>1. CASE Setup
  <2>1. PICK k \in 1..3 :
          /\ schema = {Statement[i] : i \in 1..k - 1}
          /\ schema' = schema \cup {Statement[k]}
    BY <1>1 DEF Setup
  <2>2. UNCHANGED <<history, index, torn>>
    BY <1>1 DEF Setup
  <2>3. Statement[1] = "table" /\ Statement[2] = "insert" /\ Statement[3] = "delete"
    BY DEF Statement
  <2>4. \/ schema = {} /\ schema' = {"table"}
        \/ schema = {"table"} /\ schema' = {"table", "insert"}
        \/ schema = {"table", "insert"} /\ schema' = {"table", "insert", "delete"}
    <3>1. k = 1 \/ k = 2 \/ k = 3
      BY <2>1
    <3>2. CASE k = 1
      BY <2>1, <2>3, <3>2, SetupPrefix
    <3>3. CASE k = 2
      BY <2>1, <2>3, <3>3, SetupPrefix
    <3>4. CASE k = 3
      BY <2>1, <2>3, <3>4, SetupPrefix
    <3> QED
      BY <3>1, <3>2, <3>3, <3>4
  <2>5. "insert" \notin schema' => "insert" \notin schema
    BY <2>1
  <2> QED
    BY <2>2, <2>4, <2>5 DEF IndexInv
<1>2. CASE Backfill
  <2>1. PICK rows \in SUBSET Unindexed : index' = index \cup rows
    BY <1>2 DEF Backfill
  <2>2. UNCHANGED <<history, schema, torn>> /\ "insert" \in schema
    BY <1>2, SetupPrefix DEF Backfill, SetupDone
  <2> QED
    BY <2>1, <2>2 DEF IndexInv, Unindexed
<1> QED
  BY <1>1, <1>2

\* The rowid of a new row is in range and not one in use.
LEMMA InsertKept ==
    ASSUME IndexInv, InsertRow, UNCHANGED <<fts, main>>
    PROVE  IndexInv'
<1>1. NextRow \in 1..MaxRow
  <2>1. CASE history = {}
    BY <2>1, IndexAssumption DEF NextRow, InsertRow
  <2>2. CASE history # {}
    <3>1. Max(history) \in 1..MaxRow
      BY Zenon, <2>2, MaxDefined, IndexAssumption DEF IndexInv
    <3> QED
      BY <2>2, <3>1, IndexAssumption DEF NextRow, InsertRow
  <2> QED
    BY <2>1, <2>2
<1>2. /\ history' = history \cup {NextRow}
      /\ index' = IF "insert" \in schema THEN index \cup {NextRow} ELSE index
      /\ UNCHANGED <<schema, torn>>
  BY DEF InsertRow
<1>3. "delete" \in schema => "insert" \in schema
  BY DEF IndexInv
<1> QED
  BY <1>1, <1>2, <1>3 DEF IndexInv

\* A deleted row takes its entry along, or was never indexed, or tears.
LEMMA DeleteKept ==
    ASSUME IndexInv, NEW r \in history, DeleteRow(r), UNCHANGED <<fts, main>>
    PROVE  IndexInv'
<1>1. /\ history' = history \ {r}
      /\ index' = IF "delete" \in schema THEN index \ {r} ELSE index
      /\ torn' = (torn \/ ("insert" \in schema /\ "delete" \notin schema))
      /\ schema' = schema
  BY DEF DeleteRow
<1>2. history' \subseteq 1..MaxRow /\ index' \subseteq 1..MaxRow
  BY <1>1 DEF IndexInv
<1>3. torn' \/ index' \subseteq history'
  BY Zenon, <1>1 DEF IndexInv
<1>4. "insert" \notin schema' => index' = {}
  BY <1>1 DEF IndexInv
<1>5. fts' /\ main' \notin {"down", "open", "index"} =>
        "delete" \in schema' /\ history' \subseteq index'
  BY <1>1 DEF IndexInv
<1> QED
  BY Zenon, <1>1, <1>2, <1>3, <1>4, <1>5 DEF IndexInv
-----------------------------------------------------------------------------
(***************************************************************************)
(* Snapshots                                                               *)
(***************************************************************************)

\* Commits and time may be added at any moment.
LEMMA SnapshotsAge ==
    ASSUME SnapshotInv, UNCHANGED snapshotVars,
           clock' \in Stamp, clock' >= clock, version' \in Nat, version' >= version
    PROVE  SnapshotInv'
<1>1. clock \in Int /\ version \in Int /\ clock' \in Int /\ version' \in Int
  BY DEF SnapshotInv, Stamp
<1>2. UNCHANGED <<files, temps, cycle, published>>
  BY DEF snapshotVars
<1>3. /\ \A i \in 1..Len(published) : published[i].stamp \in Int
      /\ cycle # Nil => cycle.stamp \in Int /\ cycle.copy \in Int
  <2>1. cycle # Nil => cycle.stamp \in Int /\ cycle.copy \in Int
    BY DEF SnapshotInv, Stamp, Cycle
  <2>2. \A i \in 1..Len(published) : published[i] \in [stamp: Stamp, copy: Nat]
    BY Zenon, SeqElement DEF SnapshotInv
  <2> QED
    BY <2>1, <2>2 DEF Stamp
<1>4. cycle' # Nil => cycle'.stamp <= clock' /\ cycle'.copy <= version'
  BY <1>1, <1>2, <1>3 DEF SnapshotInv
<1>5. \A i \in 1..Len(published') : published'[i].stamp <= clock'
  BY <1>1, <1>2, <1>3 DEF SnapshotInv
<1>6. \A s \in Snapshot : files[s] \in 0..version'
  BY <1>1 DEF SnapshotInv, RecoveryPoint
<1>7. RecoveryPoint'
  BY <1>2, <1>6 DEF SnapshotInv, RecoveryPoint, Snapshot, MostRecent
<1> QED
  BY Zenon, <1>2, <1>4, <1>5, <1>7 DEF SnapshotInv, At, Snapshot

\* The recovery point depends on what was published and on the files alone.
LEMMA SnapshotsUntouched ==
    ASSUME RecoveryPoint, version' = version, files' = files, published' = published
    PROVE  RecoveryPoint'
BY DEF RecoveryPoint, Snapshot, MostRecent

\* A cycle may end, or fail, or die, at any moment before its rename.
LEMMA CycleEnds ==
    ASSUME SnapshotInv, UNCHANGED <<clock, version, files, published>>,
           temps' \in [Stamp -> Nat \cup {Nil, Partial}], cycle' = Nil
    PROVE  SnapshotInv'
<1>1. RecoveryPoint'
  BY SnapshotsUntouched DEF SnapshotInv
<1>2. ~At("copy")' /\ ~At("rename")' /\ ~At("prune")'
  BY DEF At
<1> QED
  BY Zenon, <1>1, <1>2 DEF SnapshotInv, Snapshot

\* A cycle that has not renamed its file has changed no snapshot.
LEMMA CycleGoesOn ==
    ASSUME SnapshotInv, UNCHANGED <<clock, version, files, published>>,
           temps' \in [Stamp -> Nat \cup {Nil, Partial}],
           cycle' \in Cycle, cycle'.stamp <= clock, cycle'.copy <= version,
           \/ cycle'.step = "copy"
           \/ cycle'.step = "rename" /\ temps'[cycle'.stamp] = cycle'.copy,
           \A i \in 1..Len(published) : published[i].stamp <= cycle'.stamp
    PROVE  SnapshotInv'
<1>1. RecoveryPoint'
  BY SnapshotsUntouched DEF SnapshotInv
<1>2. ~At("prune")' /\ (At("rename")' => temps'[cycle'.stamp] = cycle'.copy)
  BY DEF At
<1> QED
  BY Zenon, <1>1, <1>2 DEF SnapshotInv, Snapshot

\* VACUUM INTO begins: the stamp is the latest so far.
LEMMA BeginKept ==
    ASSUME SnapshotInv, BeginSnapshot, UNCHANGED <<clock, version>>
    PROVE  SnapshotInv'
<1>1. /\ cycle' = [step |-> "copy", stamp |-> clock, copy |-> version]
      /\ temps' = [temps EXCEPT ![clock] = Partial]
      /\ UNCHANGED <<files, published>>
  BY DEF BeginSnapshot
<1>2. clock \in Stamp /\ version \in Nat /\ clock <= clock /\ version <= version
  BY DEF SnapshotInv, Stamp
<1>3. temps' \in [Stamp -> Nat \cup {Nil, Partial}]
  BY <1>1 DEF SnapshotInv
<1>4. cycle' \in Cycle /\ cycle'.step = "copy" /\ cycle'.stamp = clock
      /\ cycle'.copy = version
  BY <1>1, <1>2 DEF Cycle
<1>5. \A i \in 1..Len(published) : published[i].stamp <= clock
  BY DEF SnapshotInv
<1> QED
  BY <1>1, <1>2, <1>3, <1>4, <1>5, CycleGoesOn

\* VACUUM INTO ends: the temporary file is whole.
LEMMA CopyKept ==
    ASSUME SnapshotInv, CopyWritten, UNCHANGED <<clock, version>>
    PROVE  SnapshotInv'
<1>1. /\ At("copy")
      /\ temps' = [temps EXCEPT ![cycle.stamp] = cycle.copy]
      /\ cycle' = [cycle EXCEPT !.step = "rename"]
      /\ UNCHANGED <<files, published>>
  BY DEF CopyWritten
<1>2. cycle \in Cycle /\ cycle.stamp \in Stamp /\ cycle.copy \in Nat
  BY <1>1 DEF At, SnapshotInv, Cycle
<1>3. cycle' \in Cycle /\ cycle'.step = "rename" /\ cycle'.stamp = cycle.stamp
      /\ cycle'.copy = cycle.copy
  BY <1>1, <1>2 DEF Cycle
<1>4. temps' \in [Stamp -> Nat \cup {Nil, Partial}] /\ temps'[cycle.stamp] = cycle.copy
  BY <1>1, <1>2 DEF SnapshotInv
<1>5. /\ cycle.stamp <= clock /\ cycle.copy <= version
      /\ \A i \in 1..Len(published) : published[i].stamp <= cycle.stamp
  BY <1>1 DEF SnapshotInv, At
<1> QED
  BY <1>1, <1>3, <1>4, <1>5, CycleGoesOn

\* The stamps published after the i-th publication.
Later(i) == {published[j].stamp : j \in i + 1..Len(published)}

\* They are stamps, so they can be counted.
LEMMA LaterCounted ==
    ASSUME SnapshotInv, NEW i \in 1..Len(published)
    PROVE  /\ Later(i) \subseteq Stamp /\ IsFiniteSet(Later(i))
           /\ Cardinality(Later(i)) \in Nat
<1>1. \A j \in 1..Len(published) : published[j].stamp \in Stamp
  <2>1. \A j \in 1..Len(published) : published[j] \in [stamp: Stamp, copy: Nat]
    BY Zenon, SeqElement DEF SnapshotInv
  <2> QED
    BY <2>1
<1>2. Len(published) \in Nat
  BY DEF SnapshotInv
<1>3. Later(i) \subseteq Stamp
  BY <1>1, <1>2 DEF Later
<1>4. IsFiniteSet(Stamp)
  BY FS_Interval, SnapshotAssumption DEF Stamp
<1> QED
  BY <1>3, <1>4, FS_Subset, FS_CardinalityType

\* rename: the copy becomes the latest snapshot, and no earlier one that still
\* counts has its name.
LEMMA PublishKept ==
    ASSUME SnapshotInv, Publish, UNCHANGED <<clock, version>>
    PROVE  SnapshotInv'
<1> DEFINE n == Len(published)
           s0 == cycle.stamp
           e == [stamp |-> s0, copy |-> cycle.copy]
<1>1. /\ At("rename")
      /\ files' = [files EXCEPT ![s0] = temps[s0]]
      /\ temps' = [temps EXCEPT ![s0] = Nil]
      /\ published' = Append(published, e)
      /\ cycle' = [cycle EXCEPT !.step = "prune"]
  BY DEF Publish
<1>2. /\ cycle \in Cycle /\ s0 \in Stamp /\ cycle.copy \in Nat
      /\ s0 <= clock /\ cycle.copy <= version /\ temps[s0] = cycle.copy
      /\ clock \in Int /\ version \in Nat /\ s0 \in Int
      /\ \A i \in 1..n : published[i].stamp <= s0
  BY <1>1 DEF At, SnapshotInv, Cycle, Stamp
<1>3. /\ cycle' \in Cycle /\ cycle'.stamp = s0 /\ cycle'.copy = cycle.copy
      /\ cycle' # Nil /\ ~At("rename")' /\ ~At("copy")'
  BY <1>1, <1>2, SnapshotAssumption DEF Cycle, At
<1>4. temps' \in [Stamp -> Nat \cup {Nil, Partial}] /\ temps'[s0] = Nil
  BY <1>1, <1>2 DEF SnapshotInv
<1>5. /\ files' \in [Stamp -> Nat \cup {Nil}] /\ files'[s0] = cycle.copy
      /\ \A s \in Stamp : s # s0 => files'[s] = files[s]
  BY <1>1, <1>2 DEF SnapshotInv
<1>6. /\ published \in Seq([stamp: Stamp, copy: Nat]) /\ n \in Nat
      /\ e \in [stamp: Stamp, copy: Nat]
  BY <1>2 DEF SnapshotInv
<1>7. /\ published' \in Seq([stamp: Stamp, copy: Nat]) /\ Len(published') = n + 1
      /\ \A i \in 1..n : published'[i] = published[i]
      /\ published'[n + 1] = e /\ e.stamp = s0 /\ e.copy = cycle.copy
  BY <1>1, <1>6
<1> HIDE DEF e, s0, n
<1>8. \A i \in 1..(n + 1) : i \in 1..n \/ i = n + 1
  BY <1>6
<1>9. \A i \in 1..(n + 1) : published'[i].stamp <= clock'
  BY Zenon, <1>2, <1>7, <1>8 DEF SnapshotInv, n
<1>10. ASSUME NEW i \in 1..(n + 1), NEW j \in 1..(n + 1), i < j
       PROVE  published'[i].stamp <= published'[j].stamp
  <2>1. i \in 1..n
    BY <1>6, <1>10
  <2>2. CASE j = n + 1
    BY <1>2, <1>7, <2>1, <2>2
  <2>3. CASE j \in 1..n
    BY Zenon, <1>7, <1>10, <2>1, <2>3 DEF SnapshotInv, n
  <2> QED
    BY <1>8, <2>2, <2>3
<1>11. ASSUME NEW s \in Snapshot'
       PROVE  files'[s] \in 0..version /\ \E i \in 1..(n + 1) : published'[i].stamp = s
  <2>1. s \in Stamp /\ files'[s] # Nil
    BY <1>11 DEF Snapshot
  <2>2. CASE s = s0
    BY <1>2, <1>5, <1>6, <1>7, <2>2
  <2>3. CASE s # s0
    <3>1. s \in Snapshot /\ files'[s] = files[s]
      BY <1>5, <2>1, <2>3 DEF Snapshot
    <3>2. files[s] \in 0..version
      BY <3>1 DEF SnapshotInv, RecoveryPoint
    <3>3. PICK i \in 1..n : published[i].stamp = s
      BY <3>1 DEF SnapshotInv, n
    <3>4. i \in 1..(n + 1)
      BY <1>6, <3>3
    <3>5. published'[i].stamp = s
      BY Zenon, <1>7, <3>3
    <3> QED
      BY Zenon, <3>1, <3>2, <3>4, <3>5
  <2> QED
    BY <2>2, <2>3
<1>12. ASSUME NEW i \in 1..(n + 1), MostRecent(i)'
       PROVE  files'[published'[i].stamp] = published'[i].copy
  <2>1. CASE i = n + 1
    BY <1>5, <1>7, <2>1
  <2>2. CASE i \in 1..n
    <3> DEFINE later2 == {published'[j].stamp : j \in i + 1..(n + 1)}
    <3>1. published'[i].stamp \notin later2 /\ Cardinality(later2) < Retain
      BY <1>7, <1>12 DEF MostRecent
    <3>2. later2 = Later(i) \cup {s0}
      <4>1. Later(i) = {published'[j].stamp : j \in i + 1..n}
        <5>1. \A j \in i + 1..n : published'[j] = published[j]
          BY <1>6, <1>7, <2>2
        <5> QED
          BY Zenon, <5>1 DEF Later, n
      <4>2. i + 1..(n + 1) = (i + 1..n) \cup {n + 1}
        BY <1>6, <2>2
      <4> QED
        BY Zenon, <1>7, <4>1, <4>2
    <3> HIDE DEF later2
    <3>3. /\ Cardinality(later2) = IF s0 \in Later(i) THEN Cardinality(Later(i))
                                  ELSE Cardinality(Later(i)) + 1
          /\ Cardinality(Later(i)) \in Nat
      BY Zenon, <2>2, <3>2, LaterCounted, FS_AddElement DEF n
    <3>4. published[i].stamp \notin Later(i) /\ Cardinality(Later(i)) < Retain
      BY <1>7, <2>2, <3>1, <3>2, <3>3, SnapshotAssumption
    <3>5. files[published[i].stamp] = published[i].copy
      BY <2>2, <3>4 DEF SnapshotInv, RecoveryPoint, MostRecent, Later, n
    <3>6. published[i].stamp \in Stamp
      <4>1. published[i] \in [stamp: Stamp, copy: Nat]
        BY Zenon, <1>6, <2>2, SeqElement DEF n
      <4> QED
        BY <4>1
    <3>7. published[i].stamp # s0
      BY Zenon, <1>7, <2>2, <3>1, <3>2
    <3> QED
      BY <1>5, <1>7, <2>2, <3>5, <3>6, <3>7
  <2> QED
    BY <1>8, <2>1, <2>2
<1>13. RecoveryPoint'
  BY <1>7, <1>11, <1>12 DEF RecoveryPoint
<1>14. clock' \in Stamp /\ version' \in Nat
  BY DEF SnapshotInv
<1>15. cycle'.stamp <= clock' /\ cycle'.copy <= version'
  BY <1>2, <1>3
<1> QED
  BY Zenon, <1>3, <1>4, <1>5, <1>7, <1>9, <1>10, <1>11, <1>13, <1>14, <1>15
  DEF SnapshotInv

\* prune: a snapshot among the Retain last ones is never the smallest name of
\* more than Retain, because names are in order of publication.
LEMMA PruneKept ==
    ASSUME SnapshotInv, At("prune"), Excess,
           files' = [files EXCEPT ![Min(Snapshot)] = Nil],
           UNCHANGED <<clock, version, cycle, temps, published>>
    PROVE  SnapshotInv'
<1> DEFINE m == Min(Snapshot)
<1>1. /\ files \in [Stamp -> Nat \cup {Nil}] /\ Snapshot \subseteq Stamp
      /\ \A s \in Stamp : s \in Int /\ s \in Nat
  BY DEF SnapshotInv, Snapshot, Stamp
<1>2. IsFiniteSet(Snapshot) /\ Cardinality(Snapshot) \in Nat
  <2>1. IsFiniteSet(Stamp)
    BY FS_Interval, SnapshotAssumption DEF Stamp
  <2> QED
    BY <1>1, <2>1, FS_Subset, FS_CardinalityType
<1>3. Cardinality(Snapshot) > Retain /\ Retain \in Nat
  BY SnapshotAssumption DEF Excess
<1>4. Snapshot # {}
  BY <1>2, <1>3, FS_EmptySet
<1>5. m \in Snapshot /\ \A s \in Snapshot : m <= s
  BY <1>1, <1>4, MinDefined
<1>6. Cardinality(Snapshot \ {m}) = Cardinality(Snapshot) - 1
  BY <1>2, <1>5, FS_RemoveElement
<1> HIDE DEF m
<1>7. /\ files' = [files EXCEPT ![m] = Nil] /\ m \in Stamp
      /\ files' \in [Stamp -> Nat \cup {Nil}]
      /\ \A s \in Stamp : s # m => files'[s] = files[s]
      /\ files'[m] = Nil
  BY <1>1, <1>5 DEF m
<1>8. Snapshot' = Snapshot \ {m}
  BY Zenon, <1>1, <1>7 DEF Snapshot
<1>9. ASSUME NEW i \in 1..Len(published), MostRecent(i)
      PROVE  published[i].stamp \in Stamp /\ published[i].stamp # m
  <2>1. published[i].stamp \in Stamp
    <3>1. published[i] \in [stamp: Stamp, copy: Nat]
      BY Zenon, SeqElement DEF SnapshotInv
    <3> QED
      BY <3>1
  <2>2. ASSUME published[i].stamp = m
        PROVE  FALSE
    <3>1. ASSUME NEW s \in Snapshot \ {m}
          PROVE  s \in Later(i)
      <4>1. s \in Int /\ m \in Int /\ m < s
        BY <1>1, <1>5, <1>7
      <4>2. PICK j \in 1..Len(published) : published[j].stamp = s
        BY DEF SnapshotInv
      <4>3. j \in Int /\ i \in Int /\ j # i /\ ~(j < i)
        BY <2>2, <4>1, <4>2 DEF SnapshotInv
      <4>4. j \in i + 1..Len(published)
        BY <4>2, <4>3
      <4> QED
        BY <4>2, <4>4 DEF Later
    <3>2. Cardinality(Snapshot \ {m}) <= Cardinality(Later(i))
          /\ Cardinality(Later(i)) \in Nat
      BY <3>1, LaterCounted, FS_Subset
    <3>3. Cardinality(Later(i)) < Retain
      BY <1>9 DEF MostRecent, Later
    <3> QED
      BY <1>2, <1>3, <1>6, <3>2, <3>3
  <2> QED
    BY <2>1, <2>2
<1>10. RecoveryPoint'
  <2>1. \A s \in Snapshot' : files'[s] \in 0..version'
    BY <1>1, <1>7, <1>8 DEF SnapshotInv, RecoveryPoint
  <2>2. ASSUME NEW i \in 1..Len(published'), MostRecent(i)'
        PROVE  files'[published'[i].stamp] = published'[i].copy
    <3>1. i \in 1..Len(published) /\ MostRecent(i) /\ published' = published
      BY <2>2 DEF MostRecent
    <3>2. files[published[i].stamp] = published[i].copy
      BY <3>1 DEF SnapshotInv, RecoveryPoint
    <3> QED
      BY <1>7, <1>9, <3>1, <3>2
  <2> QED
    BY <2>1, <2>2 DEF RecoveryPoint
<1>11. \A s \in Snapshot' : \E i \in 1..Len(published) : published[i].stamp = s
  BY Zenon, <1>8 DEF SnapshotInv
<1> QED
  BY Zenon, <1>7, <1>10, <1>11 DEF SnapshotInv, At

\* Every step of the snapshot writer.
LEMMA BackupKept ==
    ASSUME SnapshotInv, BeginSnapshot \/ BeginFails \/ SnapshotStep,
           UNCHANGED <<clock, version>>
    PROVE  SnapshotInv'
<1>1. temps \in [Stamp -> Nat \cup {Nil, Partial}]
  BY DEF SnapshotInv
<1>2. CASE BeginFails \/ SnapshotFails
  <2>1. PICK s : RemoveTemp(s)
    BY Zenon, <1>2 DEF BeginFails, SnapshotFails
  <2>2. temps' \in [Stamp -> Nat \cup {Nil, Partial}]
    BY <1>1, <2>1 DEF RemoveTemp
  <2>3. cycle' = Nil /\ UNCHANGED <<files, published>>
    BY Zenon, <1>2 DEF BeginFails, SnapshotFails
  <2> QED
    BY <2>2, <2>3, CycleEnds
<1>3. CASE PruneOne
  <2>1. CASE files' = [files EXCEPT ![Min(Snapshot)] = Nil] /\ cycle' = cycle
    BY <1>3, <2>1, PruneKept DEF PruneOne
  <2>2. CASE files' = files /\ cycle' = Nil
    BY <1>1, <1>3, <2>2, CycleEnds DEF PruneOne
  <2> QED
    BY <1>3, <2>1, <2>2 DEF PruneOne
<1>4. CASE EndSnapshot
  BY <1>1, <1>4, CycleEnds DEF EndSnapshot
<1> QED
  BY <1>2, <1>3, <1>4, BeginKept, CopyKept, PublishKept DEF SnapshotStep

\* The database and its files are written by the index, by requests and loops, and
\* by the snapshot writer.
LEMMA DataSteps ==
    ASSUME [ProcessNext]_allVars
    PROVE  \/ UNCHANGED data
           \/ IndexStep
           \/ EndRpc \/ RunOrphan
           \/ \E l \in Loop : RunTick(l)
           \/ BackupStep
           \/ TimePasses
           \/ Die
<1>1. CASE Start \/ Signal \/ Send \/ AcceptRpc \/ CancelRpc \/ ReaderStep
  BY Zenon, <1>1 DEF Start, Signal, Send, AcceptRpc, CancelRpc, ReaderStep
<1>2. CASE MainStep
  <2>1. \/ IndexStep \/ Exit
        \/ \E from, to : Goes(from, to)
    BY Zenon, <1>2 DEF MainStep, Open, Indexed, Watch, BindHttp, SpawnLoops, Serve,
                Select, Join, Abort, Checkpoint
  <2> QED
    BY Zenon, <2>1 DEF Goes, Exit
<1>3. CASE \E s \in Server : StopAccepting(s) \/ Drained(s)
  BY Zenon, <1>3 DEF StopAccepting, Drained
<1>4. CASE \E l \in Loop : TickLoop(l) \/ RunTick(l)
  BY Zenon, <1>4 DEF TickLoop
<1>5. CASE \E q \in Query : QueryStep(q)
  BY Zenon, <1>5 DEF QueryStep
<1>6. CASE UNCHANGED allVars
  BY Zenon, <1>6 DEF allVars
<1> QED
  BY Zenon, <1>1, <1>2, <1>3, <1>4, <1>5, <1>6 DEF ProcessNext

\* Every step of the process keeps what is known of the snapshots: only a cycle and
\* a crash touch the directory, and commits only add to the database.
LEMMA SnapshotKept ==
    ASSUME SnapshotInv, [ProcessNext]_allVars
    PROVE  SnapshotInv'
<1>1. clock \in Stamp /\ version \in Nat /\ clock >= clock /\ version >= version
  BY DEF SnapshotInv, Stamp
<1>2. ASSUME version' = version \/ version' = version + 1, UNCHANGED <<clock, snapshotVars>>
      PROVE  SnapshotInv'
  <2>1. version' \in Nat /\ version' >= version
    BY <1>1, <1>2
  <2> QED
    BY <1>1, <1>2, <2>1, SnapshotsAge
<1>3. CASE UNCHANGED data \/ IndexStep
  BY Zenon, <1>2, <1>3 DEF data, IndexStep
<1>4. CASE EndRpc \/ RunOrphan
  BY Zenon, <1>2, <1>4 DEF EndRpc, RunOrphan, Write
<1>5. CASE \E l \in Loop : RunTick(l)
  <2>1. PICK l \in Loop : RunTick(l)
    BY <1>5
  <2>2. CASE l = "scheduler" /\ FireDue
    <3>1. PICK fired \in 0..FireBatch : version' = version + fired
      BY Zenon, <2>2 DEF FireDue
    <3>2. version' \in Nat /\ version' >= version
      BY <1>1, <3>1, FireAssumption
    <3>3. UNCHANGED <<clock, snapshotVars>>
      BY Zenon, <2>2 DEF FireDue
    <3> QED
      BY <1>1, <3>2, <3>3, SnapshotsAge
  <2>3. CASE l \in {"recovery", "retention"}
    BY Zenon, <1>2, <2>1, <2>3 DEF RunTick, Write, data
  <2> QED
    BY Zenon, <2>1, <2>2, <2>3 DEF RunTick
<1>6. CASE BackupStep
  BY Zenon, <1>6, BackupKept DEF BackupStep
<1>7. CASE TimePasses
  <2>1. clock' \in Stamp /\ clock' >= clock /\ UNCHANGED <<version, snapshotVars>>
    BY <1>1, <1>7, SnapshotAssumption DEF TimePasses, Tick, Stamp
  <2> QED
    BY <1>1, <2>1, SnapshotsAge
<1>8. CASE Die
  BY Zenon, <1>8, CycleEnds DEF Die, SnapshotInv
<1> QED
  BY Zenon, <1>3, <1>4, <1>5, <1>6, <1>7, <1>8, DataSteps
-----------------------------------------------------------------------------
(***************************************************************************)
(* Temporary files                                                         *)
(***************************************************************************)

Ended == IF main = "down" THEN starts ELSE starts - 1
Left == {s \in Stamp \ stuck : temps[s] # Nil /\ (cycle = Nil \/ cycle.stamp # s)}

\* While no process ends, the files left over are at most those there were.
LEMMA NothingLeft ==
    ASSUME TempsInv, starts' \in Nat, main' # "down" => starts' > 0,
           Left' \subseteq Left, Ended' >= Ended
    PROVE  TempsInv'
<1>1. IsFiniteSet(Left) /\ Left \subseteq Stamp
  <2>1. IsFiniteSet(Stamp)
    BY FS_Interval, SnapshotAssumption DEF Stamp
  <2>2. Left \subseteq Stamp
    BY Zenon DEF Left
  <2> QED
    BY <2>1, <2>2, FS_Subset
<1>2. Cardinality(Left') <= Cardinality(Left) /\ IsFiniteSet(Left')
  BY <1>1, FS_Subset
<1>3. Cardinality(Left') \in Nat /\ Cardinality(Left) \in Nat
  BY <1>1, <1>2, FS_CardinalityType
<1>4. Ended \in Int /\ Ended' \in Int
  BY DEF TempsInv, Ended
<1>5. Cardinality(Left) <= Ended
  BY DEF TempsInv, TempsAccounted, Left, Ended
<1>6. Cardinality(Left') <= Ended'
  BY <1>2, <1>3, <1>4, <1>5
<1> QED
  BY <1>6 DEF TempsInv, TempsAccounted, Left, Ended

\* A process that dies leaves one file: the one its cycle was writing.
LEMMA DieLeavesOne ==
    ASSUME TempsInv, SnapshotInv, Die
    PROVE  TempsInv'
<1>1. /\ main # "down" /\ main' = "down" /\ starts' = starts
      /\ cycle' = Nil /\ temps' = temps /\ stuck' = stuck
  BY DEF Die, Forgotten
<1>2. IsFiniteSet(Left) /\ Cardinality(Left) \in Nat
  <2>1. IsFiniteSet(Stamp) /\ Left \subseteq Stamp
    BY FS_Interval, SnapshotAssumption DEF Stamp, Left
  <2> QED
    BY <2>1, FS_Subset, FS_CardinalityType
<1> DEFINE more == Left \cup {cycle.stamp}
<1>3. Left' \subseteq more
  BY Zenon, <1>1 DEF Left
<1>4. IsFiniteSet(more) /\ Cardinality(more) <= Cardinality(Left) + 1
  <2>1. \/ cycle.stamp \in Left /\ Cardinality(more) = Cardinality(Left)
        \/ cycle.stamp \notin Left /\ Cardinality(more) = Cardinality(Left) + 1
    BY <1>2, FS_AddElement
  <2>2. IsFiniteSet(more)
    BY Zenon, <1>2, FS_AddElement
  <2> HIDE DEF more
  <2> QED
    BY <1>2, <2>1, <2>2
<1>5. Cardinality(Left') <= Cardinality(more) /\ Cardinality(more) \in Nat
      /\ Cardinality(Left') \in Nat
  BY <1>3, <1>4, FS_Subset, FS_CardinalityType
<1>6. Cardinality(Left) <= starts - 1 /\ starts \in Nat
  BY <1>1 DEF TempsInv, TempsAccounted, Left
<1>7. Cardinality(Left') <= starts
  BY <1>2, <1>4, <1>5, <1>6
<1> QED
  BY <1>1, <1>6, <1>7 DEF TempsInv, TempsAccounted, Left

\* Files are left over only by processes that end.
LEMMA TempsKept ==
    ASSUME TempsInv, SnapshotInv, [ProcessNext]_allVars
    PROVE  TempsInv'
<1>1. starts \in Nat /\ (main # "down" => starts > 0)
  BY DEF TempsInv
<1>2. ASSUME UNCHANGED <<starts, main>>, Left' \subseteq Left
      PROVE  TempsInv'
  <2>1. Ended' >= Ended
    BY <1>1, <1>2 DEF Ended
  <2> QED
    BY <1>1, <1>2, <2>1, NothingLeft
<1>3. ASSUME UNCHANGED <<temps, cycle, stuck>>
      PROVE  Left' \subseteq Left
  BY <1>3 DEF Left
<1>4. ASSUME UNCHANGED <<temps, cycle, stuck, starts, main>>
      PROVE  TempsInv'
  BY <1>2, <1>3, <1>4
<1>5. CASE Start
  <2>1. /\ UNCHANGED <<temps, cycle, stuck>> /\ starts' = starts + 1
        /\ main = "down" /\ main' = "open"
    BY <1>5 DEF Start, data, snapshotVars
  <2>2. Ended' >= Ended /\ starts' \in Nat /\ starts' > 0
    BY <1>1, <2>1 DEF Ended
  <2> QED
    BY <1>3, <2>1, <2>2, NothingLeft
<1>6. ASSUME NEW from, NEW to, Goes(from, to), from # "down", to # "down"
      PROVE  TempsInv'
  <2>1. UNCHANGED <<temps, cycle, stuck, starts>> /\ main # "down" /\ main' # "down"
    BY <1>6 DEF Goes, data, snapshotVars, config
  <2>2. Ended' >= Ended
    BY <1>1, <2>1 DEF Ended
  <2> QED
    BY <1>1, <1>3, <2>1, <2>2, NothingLeft
<1>7. CASE Exit
  <2>1. UNCHANGED <<temps, cycle, stuck, starts>> /\ main' = "down"
    BY <1>7 DEF Exit, Forgotten, data, snapshotVars
  <2>2. Ended' >= Ended
    BY <1>1, <2>1 DEF Ended
  <2> QED
    BY <1>1, <1>3, <2>1, <2>2, NothingLeft
<1>8. CASE MainStep
  <2>1. CASE IndexStep
    BY Zenon, <1>4, <2>1 DEF IndexStep, snapshotVars, config
  <2>2. CASE Open \/ Indexed \/ Watch \/ BindHttp \/ SpawnLoops \/ Serve
             \/ Select \/ Join \/ Abort \/ Checkpoint
    <3>1. PICK from, to : Goes(from, to) /\ from # "down" /\ to # "down"
      BY Zenon, <2>2 DEF Open, Indexed, Watch, BindHttp, SpawnLoops, Serve, Select, Join,
                  Abort, Checkpoint
    <3> QED
      BY <1>6, <3>1
  <2> QED
    BY Zenon, <1>7, <1>8, <2>1, <2>2 DEF MainStep
<1>9. CASE Signal \/ Send \/ AcceptRpc \/ CancelRpc
  BY Zenon, <1>4, <1>9 DEF Signal, Send, AcceptRpc, CancelRpc, data, snapshotVars, config
<1>10. CASE \E s \in Server : StopAccepting(s) \/ Drained(s)
  BY Zenon, <1>4, <1>10 DEF StopAccepting, Drained, data, snapshotVars, config
<1>11. CASE EndRpc \/ RunOrphan
  BY Zenon, <1>4, <1>11 DEF EndRpc, RunOrphan, Write, snapshotVars, config
<1>12. CASE \E l \in Loop : TickLoop(l) \/ RunTick(l)
  BY Zenon, <1>4, <1>12 DEF TickLoop, RunTick, Write, FireDue, data, snapshotVars, config
<1>13. CASE (\E q \in Query : QueryStep(q)) \/ ReaderStep
  BY Zenon, <1>4, <1>13 DEF QueryStep, ReaderStep, data, snapshotVars, processVars, config
<1>14. CASE TimePasses \/ UNCHANGED allVars
  BY Zenon, <1>4, <1>14 DEF TimePasses, allVars, data, snapshotVars, processVars, config
<1>15. CASE BackupStep
  <2>1. UNCHANGED <<starts, main>>
    BY Zenon, <1>15 DEF BackupStep, processVars, config
  <2>2. Left' \subseteq Left
    <3> USE DEF Left
    <3>1. temps \in [Stamp -> Nat \cup {Nil, Partial}] /\ clock \in Stamp
          /\ cycle \in Cycle \cup {Nil}
      BY DEF SnapshotInv
    <3>2. CASE BeginSnapshot
      <4>1. cycle = Nil /\ cycle'.stamp = clock /\ cycle' # Nil
            /\ stuck' = stuck \ {clock}
            /\ \A s \in Stamp : s # clock => temps'[s] = temps[s]
        <5>1. cycle' \in Cycle
          BY <3>1, <3>2 DEF BeginSnapshot, Cycle, SnapshotInv
        <5> QED
          BY <3>1, <3>2, <5>1, SnapshotAssumption DEF BeginSnapshot
      <4> QED
        BY Zenon, <4>1
    <3>3. CASE CopyWritten \/ Publish
      <4>1. PICK t \in {"rename", "prune"} : cycle' = [cycle EXCEPT !.step = t]
        BY <3>3 DEF CopyWritten, Publish
      <4>2. cycle # Nil /\ cycle' \in Cycle /\ cycle'.stamp = cycle.stamp /\ stuck' = stuck
        BY <3>1, <3>3, <4>1 DEF CopyWritten, Publish, At, Cycle
      <4>3. PICK v : temps' = [temps EXCEPT ![cycle.stamp] = v]
        BY Zenon, <3>3 DEF CopyWritten, Publish
      <4>4. \A s \in Stamp : s # cycle.stamp => temps'[s] = temps[s]
        BY <3>1, <4>3
      <4>5. cycle' # Nil
        BY <4>2, SnapshotAssumption
      <4> QED
        BY Zenon, <4>2, <4>4, <4>5
    <3>4. ASSUME NEW t \in Stamp, RemoveTemp(t), cycle = Nil \/ cycle.stamp = t, cycle' = Nil
          PROVE  Left' \subseteq Left
      <4>1. CASE temps' = [temps EXCEPT ![t] = Nil] /\ stuck' = stuck \ {t}
        <5>1. temps'[t] = Nil /\ \A s \in Stamp : s # t => temps'[s] = temps[s]
          BY <3>1, <4>1
        <5> QED
          BY Zenon, <3>4, <4>1, <5>1
      <4>2. CASE temps' = temps /\ stuck' = stuck \cup {t}
        BY Zenon, <3>4, <4>2
      <4> QED
        BY Zenon, <3>4, <4>1, <4>2 DEF RemoveTemp
    <3>5. CASE BeginFails \/ SnapshotFails
      <4>1. CASE BeginFails
        BY Zenon, <3>1, <3>4, <4>1 DEF BeginFails
      <4>2. CASE SnapshotFails
        <5>1. cycle # Nil /\ cycle.stamp \in Stamp
          BY <3>1, <4>2 DEF SnapshotFails, At, Cycle
        <5> QED
          BY Zenon, <3>4, <4>2, <5>1 DEF SnapshotFails
      <4> QED
        BY <3>5, <4>1, <4>2
    <3>6. CASE PruneOne \/ EndSnapshot
      <4>1. cycle # Nil /\ temps[cycle.stamp] = Nil /\ temps' = temps /\ stuck' = stuck
            /\ (cycle' = cycle \/ cycle' = Nil)
        BY Zenon, <3>6 DEF PruneOne, EndSnapshot, At, SnapshotInv
      <4> QED
        BY Zenon, <4>1
    <3> QED
      BY Zenon, <1>15, <3>2, <3>3, <3>5, <3>6 DEF BackupStep, SnapshotStep
  <2> QED
    BY <1>2, <2>1, <2>2
<1> QED
  BY Zenon, <1>5, <1>8, <1>9, <1>10, <1>11, <1>12, <1>13, <1>14, <1>15, DieLeavesOne
     DEF ProcessNext
-----------------------------------------------------------------------------
(***************************************************************************)
(* Every step of the process                                               *)
(***************************************************************************)

\* The index is complete before main() goes on, and stays so.
LEMMA IndexKept ==
    ASSUME IndexInv, [ProcessNext]_allVars
    PROVE  IndexInv'
<1> DEFINE early == {"down", "open", "index"}
<1>1. ASSUME UNCHANGED indexVars,
             \/ main' \in early
             \/ ~fts'
             \/ fts' = fts /\ main \notin early
             \/ BackfillDone
      PROVE  IndexInv'
  <2>1. UNCHANGED <<history, schema, index, torn>>
    BY <1>1 DEF indexVars
  <2>2. BackfillDone => "delete" \in schema /\ history \subseteq index
    BY SetupPrefix DEF BackfillDone, SetupDone, Unindexed
  <2> QED
    BY <1>1, <2>1, <2>2 DEF IndexInv
<1>2. ASSUME UNCHANGED <<indexVars, fts, main>>
      PROVE  IndexInv'
  BY Zenon, <1>2 DEF indexVars, IndexInv
<1>3. CASE Start
  BY <1>1, <1>3 DEF Start, data
<1>4. CASE MainStep
  <2>1. CASE IndexStep
    BY Zenon, <2>1, SetupKept DEF IndexStep
  <2>2. CASE Open
    <3>1. /\ UNCHANGED <<indexVars, fts>>
          /\ main' = IF fts THEN "index" ELSE "watch"
      BY Zenon, <2>2 DEF Open, Goes, data, config
    <3>2. main' \in early \/ ~fts'
      BY <3>1
    <3> QED
      BY Zenon, <1>1, <3>1, <3>2
  <2>3. CASE Indexed
    BY Zenon, <1>1, <2>3 DEF Indexed, Goes, data
  <2>4. CASE Watch \/ BindHttp \/ SpawnLoops \/ Serve \/ Select \/ Join \/ Abort \/ Checkpoint
    <3>1. UNCHANGED <<indexVars, fts>> /\ main \notin early
      BY Zenon, <2>4 DEF Watch, BindHttp, SpawnLoops, Serve, Select, Join, Abort, Checkpoint,
                  Goes, data, config
    <3> QED
      BY <1>1, <3>1
  <2>5. CASE Exit
    BY <1>1, <2>5 DEF Exit, Forgotten, data
  <2> QED
    BY Zenon, <1>4, <2>1, <2>2, <2>3, <2>4, <2>5 DEF MainStep
<1>5. CASE Signal \/ Send \/ AcceptRpc \/ CancelRpc
  BY Zenon, <1>2, <1>5 DEF Signal, Send, AcceptRpc, CancelRpc, data, config
<1>6. CASE \E s \in Server : StopAccepting(s) \/ Drained(s)
  BY Zenon, <1>2, <1>6 DEF StopAccepting, Drained, data, config
<1>7. CASE EndRpc \/ RunOrphan
  <2>1. UNCHANGED <<fts, main>>
        /\ (InsertRow \/ UNCHANGED indexVars)
    BY Zenon, <1>7 DEF EndRpc, RunOrphan, Write, config
  <2> QED
    BY Zenon, <1>2, <2>1, InsertKept
<1>8. CASE \E l \in Loop : TickLoop(l) \/ RunTick(l)
  <2>1. /\ UNCHANGED <<fts, main>>
        /\ InsertRow \/ (\E r \in history : DeleteRow(r)) \/ UNCHANGED indexVars
    BY Zenon, <1>8 DEF TickLoop, RunTick, Write, FireDue, config, data
  <2> QED
    BY Zenon, <1>2, <2>1, InsertKept, DeleteKept
<1>9. CASE (\E q \in Query : QueryStep(q)) \/ ReaderStep \/ BackupStep
  BY Zenon, <1>2, <1>9 DEF QueryStep, ReaderStep, BackupStep, data, processVars, config
<1>10. CASE TimePasses \/ UNCHANGED allVars
  BY Zenon, <1>2, <1>10 DEF TimePasses, allVars, data, processVars, config
<1>11. CASE Die
  BY <1>1, <1>11 DEF Die, Forgotten
<1> QED
  BY Zenon, <1>3, <1>4, <1>5, <1>6, <1>7, <1>8, <1>9, <1>10, <1>11 DEF ProcessNext

\* Queries are only asked while http accepts requests.
LEMMA ReaderKept ==
    ASSUME ReaderInv, [ProcessNext]_allVars
    PROVE  /\ ReaderInv'
           /\ Pending' \subseteq Pending \/ (server["http"] = "up" /\ UNCHANGED processVars)
<1>1. CASE UNCHANGED readerVars
  BY <1>1, ReaderUntouched
<1>2. CASE ReaderReset
  BY <1>2, ReaderForgets
<1>3. CASE \E q \in Query : QueryStep(q)
  <2>1. PICK q \in Query : QueryStep(q)
    BY <1>3
  <2>2. /\ Ask(q) \/ Answer(q) \/ GiveUp(q) \/ Withdraw(q)
        /\ UNCHANGED processVars
    BY Zenon, <2>1 DEF QueryStep
  <2>3. CASE server["http"] = "up"
    BY Zenon, <2>2, <2>3, QueryKept
  <2>4. CASE server["http"] # "up"
    <3>1. Answer(q) \/ GiveUp(q) \/ Withdraw(q)
      BY Zenon, <2>1, <2>4 DEF QueryStep
    <3>2. CASE Answer(q) \/ GiveUp(q)
      BY <3>2, PermitReturned DEF Answer, GiveUp
    <3> QED
      BY <3>1, <3>2, QueryWithdrawn
  <2> QED
    BY Zenon, <2>3, <2>4
<1>4. CASE ReaderStep
  BY Zenon, <1>4, PermitTaken, ReaderUntouched DEF ReaderStep
<1>5. ReaderReset \/ UNCHANGED readerVars \/ ReaderStep \/ \E q \in Query : QueryStep(q)
  <2>1. CASE Start \/ Signal \/ Send \/ AcceptRpc \/ EndRpc \/ CancelRpc \/ RunOrphan
             \/ BackupStep \/ TimePasses
    BY Zenon, <2>1 DEF Start, Signal, Send, AcceptRpc, EndRpc, CancelRpc, RunOrphan,
                BackupStep, TimePasses
  <2>2. CASE MainStep
    <3>1. \/ IndexStep \/ Exit
          \/ \E from, to : Goes(from, to)
      BY Zenon, <2>2 DEF MainStep, Open, Indexed, Watch, BindHttp, SpawnLoops, Serve,
                  Select, Join, Abort, Checkpoint
    <3> QED
      BY Zenon, <3>1 DEF Goes, Exit, Forgotten, IndexStep
  <2>3. CASE \E s \in Server : StopAccepting(s) \/ Drained(s)
    BY Zenon, <2>3 DEF StopAccepting, Drained
  <2>4. CASE \E l \in Loop : TickLoop(l) \/ RunTick(l)
    BY Zenon, <2>4 DEF TickLoop, RunTick
  <2>5. CASE Die \/ UNCHANGED allVars
    BY Zenon, <2>5 DEF Die, Forgotten, allVars
  <2> QED
    BY Zenon, <2>1, <2>2, <2>3, <2>4, <2>5 DEF ProcessNext
<1> QED
  BY Zenon, <1>1, <1>2, <1>3, <1>4, <1>5

\* Who is still served: both servers are done before the loops are aborted, and
\* the loops before the checkpoint.
LEMMA ShutdownKept ==
    ASSUME ShutdownInv, ReaderInv, [ProcessNext]_allVars
    PROVE  ShutdownInv'
<1>1. Pending' \subseteq Pending \/ (server["http"] = "up" /\ UNCHANGED processVars)
  BY ReaderKept
<1>2. ASSUME UNCHANGED <<main, server, rpc, loops>>
      PROVE  ShutdownInv'
  <2>1. Pending' # {} => server["http"] \in {"up", "draining"}
    BY Zenon, <1>1 DEF ShutdownInv
  <2> QED
    BY Zenon, <1>2, <2>1 DEF ShutdownInv
<1>3. CASE Forgotten
  <2>1. Pending' = {}
    BY <1>3, ReaderForgets DEF Forgotten
  <2> QED
    BY <1>3, <2>1 DEF Forgotten, ShutdownInv, Starting, Binding, Closing, Server
<1>4. CASE Start
  <2>1. main = "down" /\ main' = "open" /\ UNCHANGED <<server, rpc, loops>>
    BY <1>4 DEF Start, shutdown, work
  <2>2. Pending' # {} => server["http"] \in {"up", "draining"}
    BY Zenon, <1>1, <2>1 DEF ShutdownInv
  <2> QED
    BY <2>1, <2>2 DEF ShutdownInv, Starting, Binding, Closing
<1>5. CASE MainStep
  <2>1. CASE IndexStep
    <3>1. main = "index" /\ UNCHANGED <<main, server, rpc, loops>>
      BY <2>1 DEF IndexStep, shutdown, work
    <3>2. Pending' # {} => server["http"] \in {"up", "draining"}
      BY Zenon, <1>1 DEF ShutdownInv
    <3> QED
      BY <3>1, <3>2 DEF ShutdownInv, Starting, Binding, Closing
  <2>2. CASE Open \/ Indexed \/ Watch \/ SpawnLoops \/ BindHttp \/ Serve \/ Select
    <3>1. UNCHANGED rpc /\ main' \notin Closing /\ main' # main
      BY <2>2 DEF Open, Indexed, Watch, SpawnLoops, BindHttp, Serve, Select, Goes, Closing
    <3>2. Pending' \subseteq Pending
      BY <1>1, <3>1 DEF processVars
    <3>3. CASE Open \/ Indexed \/ Watch
      <4>1. main' \in Binding /\ main \in Binding /\ server' = server
        BY <3>3 DEF Open, Indexed, Watch, Goes, Binding, shutdown
      <4> QED
        BY <3>1, <3>2, <4>1 DEF ShutdownInv, Starting, Closing, Binding
    <3>4. CASE BindHttp
      BY <3>1, <3>2, <3>4 DEF BindHttp, Goes, ShutdownInv, Starting, Closing, Binding, Server
    <3>5. CASE SpawnLoops
      BY <3>1, <3>2, <3>5 DEF SpawnLoops, Goes, shutdown, ShutdownInv, Starting, Closing, Binding
    <3>6. CASE Serve
      <4>1. main = "grpc" /\ ~rpc /\ Pending = {}
        BY <3>6 DEF Serve, Goes, ShutdownInv, Starting
      <4>2. server' \in [Server -> {"off", "ready", "up", "draining", "done"}]
        BY <3>6 DEF Serve, Server
      <4>3. main' = "select" /\ ~rpc' /\ Pending' = {}
        BY <3>1, <3>2, <3>6, <4>1 DEF Serve, Goes
      <4> QED
        BY <4>2, <4>3 DEF ShutdownInv, Starting, Closing, Binding
    <3>7. CASE Select
      BY <3>1, <3>2, <3>7 DEF Select, Goes, ShutdownInv, Starting, Closing, Binding
    <3> QED
      BY Zenon, <2>2, <3>3, <3>4, <3>5, <3>6, <3>7
  <2>3. CASE Join \/ Abort \/ Checkpoint
    <3>1. UNCHANGED <<server, rpc>> /\ main' \in Closing /\ main' # main
          /\ \A s \in Server : server[s] = "done"
      BY Zenon, <2>3 DEF Join, Abort, Checkpoint, Goes, Closing, shutdown, ShutdownInv
    <3>2. Pending' \subseteq Pending
      BY <1>1, <3>1 DEF processVars
    <3>3. ~rpc /\ Pending = {}
      BY <3>1 DEF ShutdownInv, Server
    <3>4. main' \in {"checkpoint", "exit"} => loops' = {}
      BY Zenon, <2>3 DEF Join, Abort, Checkpoint, Goes, ShutdownInv
    <3>5. main' \notin Binding \cup {"loops", "grpc"}
      BY <3>1 DEF Closing, Binding
    <3>6. Pending' = {}
      BY <3>2, <3>3
    <3> QED
      BY <3>1, <3>3, <3>4, <3>5, <3>6 DEF ShutdownInv, Starting
  <2> QED
    BY Zenon, <1>3, <1>5, <2>1, <2>2, <2>3 DEF MainStep, Exit
<1>6. CASE Signal \/ Send
  BY Zenon, <1>2, <1>6 DEF Signal, Send, work
<1>7. CASE \E s \in Server : StopAccepting(s) \/ Drained(s)
  <2>1. PICK s \in Server : StopAccepting(s) \/ Drained(s)
    BY <1>7
  <2>2. /\ UNCHANGED <<main, rpc, loops>>
        /\ \/ server[s] = "up" /\ server' = [server EXCEPT ![s] = "draining"]
           \/ server[s] = "draining" /\ ~Busy(s) /\ server' = [server EXCEPT ![s] = "done"]
        /\ UNCHANGED readerVars
    BY <2>1 DEF StopAccepting, Drained, work
  <2>3. Pending' = Pending
    BY <2>2 DEF readerVars, Pending
  <2>4. server' \in [Server -> {"off", "ready", "up", "draining", "done"}]
    BY <2>2 DEF ShutdownInv
  <2>5. main \notin Closing
    BY <2>2 DEF ShutdownInv
  <2>6. main \in Starting => s = "http" /\ main \notin Binding \cup {"loops", "grpc"}
    BY <2>2 DEF ShutdownInv, Server, Starting
  <2>7. main \notin Starting
    BY <2>6 DEF Starting
  <2>8. rpc => server'["grpc"] \in {"up", "draining"}
    BY <2>1, <2>2 DEF ShutdownInv, Server, Busy
  <2>9. Pending # {} => server'["http"] \in {"up", "draining"}
    BY <2>1, <2>2 DEF ShutdownInv, Server, Busy
  <2> QED
    BY Zenon, <2>2, <2>3, <2>4, <2>5, <2>7, <2>8, <2>9 DEF ShutdownInv, Starting
<1>8. CASE AcceptRpc
  <2>1. server["grpc"] = "up" /\ UNCHANGED <<main, server, loops>>
    BY <1>8 DEF AcceptRpc, shutdown
  <2>2. Pending' # {} => server["http"] \in {"up", "draining"}
    BY Zenon, <1>1 DEF ShutdownInv
  <2> QED
    BY <2>1, <2>2 DEF ShutdownInv
<1>9. CASE EndRpc \/ CancelRpc
  <2>1. rpc /\ ~rpc' /\ UNCHANGED <<main, server, loops>>
    BY <1>9 DEF EndRpc, CancelRpc, shutdown
  <2>2. Pending' # {} => server["http"] \in {"up", "draining"}
    BY Zenon, <1>1 DEF ShutdownInv
  <2> QED
    BY Zenon, <2>1, <2>2 DEF ShutdownInv
<1>10. CASE RunOrphan \/ \E l \in Loop : TickLoop(l) \/ RunTick(l)
  BY Zenon, <1>2, <1>10 DEF RunOrphan, TickLoop, RunTick, shutdown
<1>11. CASE (\E q \in Query : QueryStep(q)) \/ ReaderStep \/ BackupStep
            \/ TimePasses \/ UNCHANGED allVars
  BY Zenon, <1>2, <1>11 DEF QueryStep, ReaderStep, BackupStep, TimePasses, allVars,
     processVars, shutdown, work
<1>12. CASE Die
  BY Zenon, <1>3, <1>12 DEF Die
<1> QED
  BY Zenon, <1>4, <1>5, <1>6, <1>7, <1>8, <1>9, <1>10, <1>11, <1>12 DEF ProcessNext

\* The loops' closures in the pool can be counted.
LEMMA TicksCounted ==
    ASSUME NEW S \in SUBSET Loop
    PROVE  IsFiniteSet(S) /\ Cardinality(S) \in Nat
<1>1. IsFiniteSet({"recovery"})
  BY Zenon, FS_Singleton
<1>2. IsFiniteSet(({"recovery"} \cup {"retention"}) \cup {"scheduler"})
  BY Zenon, <1>1, FS_AddElement
<1>3. Loop = ({"recovery"} \cup {"retention"}) \cup {"scheduler"}
  BY DEF Loop
<1> QED
  BY Zenon, <1>2, <1>3, FS_Subset, FS_CardinalityType

\* A version and the commits still in the pool add up to a natural number.
LEMMA SumNat ==
    ASSUME NEW a \in Nat, NEW b \in Nat
    PROVE  a + b \in Nat
OBVIOUS

\* Bounds on such sums can be chained.
LEMMA AtMostTransitive ==
    ASSUME NEW a \in Nat, NEW b \in Nat, NEW c \in Nat, a <= b, b <= c
    PROVE  a <= c
OBVIOUS

\* A closure leaves the pool, and commits no more than it was counted for.
LEMMA ClosureRuns ==
    ASSUME SealInv, version \in Nat, Pool \in Nat, version' \in Nat, Pool' \in Nat,
           version <= version', version' + Pool' <= version + Pool,
           version' = version => (~wal => ~wal'),
           orphans' \in Nat, ticks' \subseteq Loop, UNCHANGED <<main, seal>>
    PROVE  SealInv'
<1> SUFFICES ASSUME main = "exit"
             PROVE  /\ seal.version \in Nat /\ seal.pool \in Nat
                    /\ seal.version <= version'
                    /\ version' + Pool' <= seal.version + seal.pool
                    /\ seal.truncated /\ version' = seal.version => ~wal'
  BY DEF SealInv
<1>1. /\ seal.version \in Nat /\ seal.pool \in Nat /\ seal.version <= version
      /\ version + Pool <= seal.version + seal.pool
  BY Zenon DEF SealInv
<1>2. seal.truncated /\ version = seal.version => ~wal
  BY Zenon DEF SealInv
<1>3. seal.version <= version' /\ (version' = seal.version => version' = version)
  BY <1>1
<1>4. version' + Pool' \in Nat /\ version + Pool \in Nat /\ seal.version + seal.pool \in Nat
  BY Zenon, <1>1, SumNat
<1>5. version' + Pool' <= seal.version + seal.pool
  BY Zenon, <1>1, <1>4, AtMostTransitive
<1> QED
  BY Zenon, <1>1, <1>2, <1>3, <1>5

\* The pool can be counted.
LEMMA PoolCounted ==
    ASSUME NEW S \in SUBSET Loop, NEW n \in Nat
    PROVE  Cardinality(S) + n + (IF "scheduler" \in S THEN FireBatch - 1 ELSE 0) \in Nat
BY TicksCounted, FireAssumption

\* Once the checkpoint has run, nothing joins the pool: the loops are gone, and no
\* handler is left whose client could go away.
LEMMA SealKept ==
    ASSUME SealInv, ShutdownInv, version \in Nat, [ProcessNext]_allVars
    PROVE  SealInv'
<1>1. Cardinality(ticks) \in Nat /\ IsFiniteSet(ticks) /\ Pool \in Nat /\ orphans \in Nat
  BY TicksCounted, PoolCounted DEF SealInv, Pool
<1>2. ASSUME UNCHANGED <<main, version, orphans, ticks, wal, seal>>
      PROVE  SealInv'
  BY Zenon, <1>2 DEF SealInv, Pool
<1>3. ASSUME main' # "exit", orphans' \in Nat, ticks' \subseteq Loop
      PROVE  SealInv'
  BY Zenon, <1>3 DEF SealInv
<1>4. ASSUME main' # "exit", UNCHANGED <<orphans, ticks>>
      PROVE  SealInv'
  BY Zenon, <1>3, <1>4 DEF SealInv
<1>5. CASE Forgotten
  <2>1. main' = "down" /\ orphans' = 0 /\ ticks' = {}
    BY Zenon, <1>5 DEF Forgotten
  <2> QED
    BY <1>3, <2>1
<1>6. CASE Start
  BY Zenon, <1>4, <1>6 DEF Start, work
<1>7. CASE MainStep
  <2>1. CASE IndexStep
    BY Zenon, <1>4, <2>1 DEF IndexStep, work
  <2>2. CASE Open \/ Indexed \/ Watch \/ BindHttp \/ SpawnLoops \/ Serve
             \/ Select \/ Join \/ Abort
    BY Zenon, <1>4, <2>2 DEF Open, Indexed, Watch, BindHttp, SpawnLoops, Serve, Select, Join,
                Abort, Goes
  <2>3. CASE Checkpoint
    <3>1. PICK truncated \in BOOLEAN :
            /\ wal' = (wal /\ ~truncated)
            /\ seal' = [version |-> version, pool |-> Pool, truncated |-> truncated]
      BY Zenon, <2>3 DEF Checkpoint
    <3>2. UNCHANGED <<version, orphans, ticks>>
      BY Zenon, <2>3 DEF Checkpoint, Goes, data
    <3>3. seal'.version = version /\ seal'.pool = Pool /\ seal'.truncated = truncated
      BY <3>1
    <3>4. Pool' = Pool
      BY Zenon, <3>2 DEF Pool
    <3>5. seal'.version <= version' /\ version' + Pool' <= seal'.version + seal'.pool
      BY <1>1, <3>2, <3>3, <3>4
    <3>6. seal'.truncated => ~wal'
      BY Zenon, <3>1, <3>3
    <3> QED
      BY Zenon, <1>1, <3>2, <3>3, <3>5, <3>6 DEF SealInv
  <2> QED
    BY Zenon, <1>5, <1>7, <2>1, <2>2, <2>3 DEF MainStep, Exit
<1>8. CASE Signal \/ Send \/ AcceptRpc
  BY Zenon, <1>2, <1>8 DEF Signal, Send, AcceptRpc, data, work, log
<1>9. CASE \E s \in Server : StopAccepting(s) \/ Drained(s)
  BY Zenon, <1>2, <1>9 DEF StopAccepting, Drained, data, work, log
<1>10. CASE EndRpc \/ CancelRpc
  <2>1. rpc /\ main' = main /\ ticks' = ticks
    BY Zenon, <1>10 DEF EndRpc, CancelRpc
  <2>2. main' # "exit"
    BY <2>1 DEF ShutdownInv, Closing, Server
  <2>3. orphans' = orphans \/ orphans' = orphans + 1
    BY Zenon, <1>10 DEF EndRpc, CancelRpc
  <2>4. orphans' \in Nat
    BY <1>1, <2>3
  <2> QED
    BY Zenon, <1>3, <2>1, <2>2, <2>4 DEF SealInv
<1>11. CASE RunOrphan
  <2>1. /\ orphans > 0 /\ orphans' = orphans - 1
        /\ UNCHANGED <<main, seal, ticks>>
        /\ UNCHANGED <<version, wal>> \/ version' = version + 1
    BY Zenon, <1>11 DEF RunOrphan, Write
  <2>2. orphans' \in Nat /\ Pool' = Pool - 1
    BY <1>1, <2>1, FireAssumption DEF Pool
  <2>3. ticks' \subseteq Loop
    BY Zenon, <2>1 DEF SealInv
  <2>4. Pool' \in Nat
    BY <2>2, <2>3, PoolCounted DEF Pool
  <2>5. version' \in Nat /\ version <= version' /\ version' + Pool' <= version + Pool
    BY <1>1, <2>1, <2>2
  <2>6. version' = version => (~wal => ~wal')
    BY <2>1
  <2> QED
    BY Zenon, <1>1, <2>1, <2>2, <2>3, <2>4, <2>5, <2>6, ClosureRuns
<1>12. CASE \E l \in Loop : TickLoop(l)
  <2>1. PICK l \in Loop : l \in loops /\ ticks' = ticks \cup {l} /\ UNCHANGED <<main, orphans>>
    BY Zenon, <1>12 DEF TickLoop
  <2>2. main' # "exit"
    BY Zenon, <2>1 DEF ShutdownInv
  <2>3. ticks' \subseteq Loop
    BY Zenon, <2>1 DEF SealInv
  <2> QED
    BY Zenon, <1>1, <1>3, <2>1, <2>2, <2>3
<1>13. CASE \E l \in Loop : RunTick(l)
  <2>1. PICK l \in Loop : RunTick(l)
    BY <1>13
  <2>2. l \in ticks /\ ticks' = ticks \ {l} /\ UNCHANGED <<main, seal, orphans>>
    BY Zenon, <2>1 DEF RunTick
  <2>3. Cardinality(ticks') = Cardinality(ticks) - 1
    BY <1>1, <2>2, FS_RemoveElement
  <2>4. ticks' \subseteq Loop /\ orphans' \in Nat
    BY Zenon, <1>1, <2>2 DEF SealInv
  <2>5. Pool' \in Nat
    BY <2>4, PoolCounted DEF Pool
  <2>6. CASE l = "scheduler" /\ FireDue
    <3>1. PICK fired \in 0..FireBatch :
            version' = version + fired /\ wal' = (wal \/ fired > 0)
      BY Zenon, <2>6 DEF FireDue
    <3>2. Pool' = Pool - FireBatch
      BY <1>1, <2>2, <2>3, <2>6, FireAssumption DEF Pool
    <3>3. /\ version' \in Nat /\ version <= version' /\ version' + Pool' <= version + Pool
          /\ version' = version => ~(fired > 0)
      BY <1>1, <3>1, <3>2, FireAssumption
    <3>4. version' = version => (~wal => ~wal')
      BY Zenon, <3>1, <3>3
    <3> QED
      BY Zenon, <1>1, <2>2, <2>4, <2>5, <3>3, <3>4, ClosureRuns
  <2>7. CASE l \in {"recovery", "retention"}
    <3>1. UNCHANGED <<version, wal>> \/ version' = version + 1
      BY Zenon, <2>1, <2>7 DEF RunTick, Write, data
    <3>2. Pool' = Pool - 1
      BY <1>1, <2>2, <2>3, <2>7, FireAssumption DEF Pool
    <3>3. version' \in Nat /\ version <= version' /\ version' + Pool' <= version + Pool
      BY <1>1, <3>1, <3>2
    <3>4. version' = version => (~wal => ~wal')
      BY <3>1
    <3> QED
      BY Zenon, <1>1, <2>2, <2>4, <2>5, <3>3, <3>4, ClosureRuns
  <2> QED
    BY Zenon, <2>1, <2>6, <2>7 DEF RunTick
<1>14. CASE (\E q \in Query : QueryStep(q)) \/ ReaderStep \/ BackupStep
            \/ TimePasses \/ UNCHANGED allVars
  BY Zenon, <1>2, <1>14 DEF QueryStep, ReaderStep, BackupStep, TimePasses, allVars,
     processVars, data, work, log
<1>15. CASE Die
  BY Zenon, <1>5, <1>15 DEF Die
<1> QED
  BY Zenon, <1>6, <1>7, <1>8, <1>9, <1>10, <1>11, <1>12, <1>13, <1>14, <1>15 DEF ProcessNext

\* Before the first start the data directory is empty and nothing runs.
LEMMA InitProcess ==
    ASSUME ProcessInit
    PROVE  ProcessInv
<1>1. ShutdownInv
  <2>1. Pending = {}
    BY DEF ProcessInit, ReaderInit, Pending, Range
  <2> QED
    BY <2>1 DEF ProcessInit, ShutdownInv, Starting, Binding, Closing, Server
<1>2. ReaderInv
  <2>1. MaxConcurrency + 0 = MaxConcurrency /\ MaxConcurrency \in Nat
    BY ReaderAssumption
  <2>2. <<>> \in Seq(Query) /\ DOMAIN <<>> = {}
    OBVIOUS
  <2> QED
    BY <2>1, <2>2, FS_EmptySet DEF ProcessInit, ReaderInit, ReaderInv
<1>3. IndexInv
  BY DEF ProcessInit, IndexInit, IndexInv
<1>4. /\ clock = 0 /\ version = 0 /\ cycle = Nil /\ published = <<>>
      /\ files = [s \in Stamp |-> Nil] /\ temps = [s \in Stamp |-> Nil]
  BY DEF ProcessInit, SnapshotsInit
<1>5. SnapshotInv
  <2>1. 0 \in Stamp /\ published \in Seq([stamp: Stamp, copy: Nat])
        /\ Len(published) = 0 /\ 1..0 = {}
    BY <1>4, SnapshotAssumption DEF Stamp
  <2>2. Snapshot = {}
    BY <1>4 DEF Snapshot
  <2>3. ~At("copy") /\ ~At("rename") /\ ~At("prune")
    BY <1>4 DEF At
  <2>4. RecoveryPoint
    BY <2>1, <2>2 DEF RecoveryPoint
  <2>5. files \in [Stamp -> Nat \cup {Nil}] /\ temps \in [Stamp -> Nat \cup {Nil, Partial}]
    BY <1>4
  <2> QED
    BY <1>4, <2>1, <2>2, <2>3, <2>4, <2>5 DEF SnapshotInv
<1>6. TempsInv
  <2>1. Left = {}
    BY <1>4 DEF Left
  <2>2. starts = 0 /\ main = "down"
    BY DEF ProcessInit
  <2> QED
    BY <2>1, <2>2, FS_EmptySet DEF TempsInv, TempsAccounted, Left
<1>7. SealInv
  BY DEF ProcessInit, SealInv
<1> QED
  BY <1>1, <1>2, <1>3, <1>5, <1>6, <1>7 DEF ProcessInv
-----------------------------------------------------------------------------
(***************************************************************************)
(* The theorems                                                            *)
(***************************************************************************)

\* Whatever main(), the servers, the loops, the queries and the snapshot writer do,
\* in whatever order, and whenever the process dies and is started again, the six
\* parts of the invariant hold.
THEOREM ProcessInvariant == ProcessSpec => []ProcessInv
<1>1. ProcessInit => ProcessInv
  BY InitProcess
<1>2. ProcessInv /\ [ProcessNext]_allVars => ProcessInv'
  <2> SUFFICES ASSUME ProcessInv, [ProcessNext]_allVars
               PROVE  ProcessInv'
    OBVIOUS
  <2>1. version \in Nat
    BY DEF ProcessInv, SnapshotInv
  <2> QED
    BY Zenon, <2>1, ShutdownKept, SealKept, ReaderKept, IndexKept, SnapshotKept, TempsKept
       DEF ProcessInv
<1> QED
  BY <1>1, <1>2, PTL DEF ProcessSpec

\* The tables, files and tasks are well formed, and timeouts, withdrawn queries and
\* restarts never leave the semaphore with more permits than it was made with
\* (Reader::query).
THEOREM ProcessTypeCorrect == ProcessSpec => []ProcessTypeOK
<1>1. ProcessInv => ProcessTypeOK
  <2> SUFFICES ASSUME ProcessInv
               PROVE  ProcessTypeOK
    OBVIOUS
  <2>1. Cardinality(running) \in Nat
    BY FS_CardinalityType DEF ProcessInv, ReaderInv
  <2>2. permits \in 0..MaxConcurrency
    BY <2>1, ReaderAssumption DEF ProcessInv, ReaderInv
  <2> QED
    BY Zenon, <2>2 DEF ProcessInv, ProcessTypeOK, ReaderInv, IndexInv, SnapshotInv, ShutdownInv
<1> QED
  BY <1>1, ProcessInvariant, PTL

\* The Retain snapshots published last are on disk and whole, in the middle of a
\* cycle and after a death in it, for every Retain (run_blocking and prune).
THEOREM SnapshotsRecover == ProcessSpec => []RecoveryPoint
<1>1. ProcessInv => RecoveryPoint
  BY DEF ProcessInv, SnapshotInv
<1> QED
  BY <1>1, ProcessInvariant, PTL

\* While search runs on the index it misses no row of job_history and has none too
\* many, for every batch size and wherever setup and backfill were interrupted
\* (setup_blocking and backfill_blocking).
THEOREM SearchIsExact == ProcessSpec => []SearchExact
<1>1. ProcessInv => SearchExact
  BY Zenon DEF ProcessInv, IndexInv, SearchExact, Serving, Unindexed
<1> QED
  BY <1>1, ProcessInvariant, PTL

\* No request is under way when the checkpoint runs.  Whatever commits after it is a
\* closure it found in the pool, each at most once or, for a scan of the schedulers,
\* once for each of its batch; if none commits, a truncated log stays empty (main
\* and checkpoint).
THEOREM CheckpointLast == ProcessSpec => []CheckpointIsLast
<1>1. ProcessInv => CheckpointIsLast
  BY DEF ProcessInv, ShutdownInv, SealInv, CheckpointIsLast, Closing, Server
<1> QED
  BY <1>1, ProcessInvariant, PTL

\* Apart from files that could not be removed, a process leaves at most one
\* temporary file behind, and only by dying (run_blocking).
THEOREM TempsBounded == ProcessSpec => []TempsAccounted
<1>1. ProcessInv => TempsAccounted
  BY DEF ProcessInv, TempsInv
<1> QED
  BY <1>1, ProcessInvariant, PTL
=============================================================================
