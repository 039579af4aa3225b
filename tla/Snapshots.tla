----------------------------- MODULE Snapshots ------------------------------
(***************************************************************************)
(* The local snapshot writer of src/backup.rs.  A cycle is a sequence of   *)
(* file operations, and the process may die between any two of them; what  *)
(* is on disk stays.                                                       *)
(***************************************************************************)
EXTENDS Integers, Sequences, FiniteSets, FiniteSetsExt

CONSTANTS
    Nil, Partial,  \* no file, and a file not yet fully written
    MaxTime,       \* bound: time stamps
    MaxCycles,     \* bound: snapshots published
    Retain         \* BackupConfig.retain

Stamp == 0..MaxTime
Cycle == [step: {"copy", "rename", "prune"}, stamp: Stamp, copy: Nat]

ASSUME SnapshotAssumption ==
    /\ MaxTime \in Nat /\ MaxCycles \in Nat
    /\ Retain \in Nat \ {0}
    /\ Nil \notin Nat /\ Partial \notin Nat /\ Nil # Partial /\ Nil \notin Cycle

VARIABLES
    clock,      \* unix_ms
    version,    \* commits the database holds
    files,      \* stamp -> version in snapshot-<stamp>.db
    temps,      \* stamp -> version in .snapshot-<stamp>.db.tmp
    cycle,      \* the running call of run_blocking
    published,  \* auxiliary: the snapshots published, in order
    stuck       \* auxiliary: temporary files whose last removal failed

snapshotVars == <<files, temps, cycle, published, stuck>>

SnapshotsInit ==
    /\ clock = 0
    /\ version = 0
    /\ files = [s \in Stamp |-> Nil]
    /\ temps = [s \in Stamp |-> Nil]
    /\ cycle = Nil
    /\ published = <<>>
    /\ stuck = {}

\* Time passes.  The wall clock is not set back here: prune goes by file name,
\* so snapshots taken after the clock was set back count as the oldest.
Tick == clock < MaxTime /\ clock' = clock + 1
-----------------------------------------------------------------------------
At(step) == cycle # Nil /\ cycle.step = step

\* let _ = remove_file: the temporary file goes, or stays and nobody hears of it.
RemoveTemp(s) ==
    \/ temps' = [temps EXCEPT ![s] = Nil] /\ stuck' = stuck \ {s}
    \/ temps' = temps /\ stuck' = stuck \cup {s}

\* run_blocking up to VACUUM INTO: a stale temporary file of the same name goes,
\* and the copy is of what is committed when the statement begins.
BeginSnapshot ==
    /\ cycle = Nil
    /\ Len(published) < MaxCycles
    /\ cycle' = [step |-> "copy", stamp |-> clock, copy |-> version]
    /\ temps' = [temps EXCEPT ![clock] = Partial]
    /\ stuck' = stuck \ {clock}
    /\ UNCHANGED <<files, published>>

\* The stale file does not go.  VACUUM INTO refuses to overwrite it, and the call
\* tries the removal again before it returns the error.
BeginFails ==
    /\ cycle = Nil
    /\ temps[clock] # Nil
    /\ RemoveTemp(clock)
    /\ UNCHANGED <<files, cycle, published>>

\* write_snapshot
CopyWritten ==
    /\ At("copy")
    /\ temps' = [temps EXCEPT ![cycle.stamp] = cycle.copy]
    /\ cycle' = [cycle EXCEPT !.step = "rename"]
    /\ UNCHANGED <<files, published, stuck>>

\* A failed cycle that forgets its temporary file.
SnapshotFails_LeavesTemp ==
    /\ At("copy") \/ At("rename")
    /\ cycle' = Nil
    /\ UNCHANGED <<files, temps, published, stuck>>

\* VACUUM INTO or rename fails, and the temporary file is to go.
SnapshotFails ==
    /\ At("copy") \/ At("rename")
    /\ RemoveTemp(cycle.stamp)
    /\ cycle' = Nil
    /\ UNCHANGED <<files, published>>

\* rename, which replaces a snapshot of the same stamp.
Publish ==
    /\ At("rename")
    /\ files' = [files EXCEPT ![cycle.stamp] = temps[cycle.stamp]]
    /\ temps' = [temps EXCEPT ![cycle.stamp] = Nil]
    /\ published' = Append(published, [stamp |-> cycle.stamp, copy |-> cycle.copy])
    /\ cycle' = [cycle EXCEPT !.step = "prune"]
    /\ UNCHANGED stuck

Snapshot == {s \in Stamp : files[s] # Nil}

\* A prune that makes room for one more.
Excess_OneMore == Cardinality(Snapshot) >= Retain

Excess == Cardinality(Snapshot) > Retain

\* prune removes the smallest names, one file at a time; a removal that fails
\* ends the cycle.
PruneOne ==
    /\ At("prune")
    /\ Excess
    /\ \/ files' = [files EXCEPT ![Min(Snapshot)] = Nil] /\ cycle' = cycle
       \/ files' = files /\ cycle' = Nil
    /\ UNCHANGED <<temps, published, stuck>>

EndSnapshot ==
    /\ At("prune")
    /\ ~Excess
    /\ cycle' = Nil
    /\ UNCHANGED <<files, temps, published, stuck>>

SnapshotStep ==
    CopyWritten \/ SnapshotFails \/ Publish \/ PruneOne \/ EndSnapshot
-----------------------------------------------------------------------------
\* The i-th publication is among the Retain last ones and not replaced since.
MostRecent(i) ==
    LET later == {published[j].stamp : j \in i + 1..Len(published)}
    IN  published[i].stamp \notin later /\ Cardinality(later) < Retain

\* At every moment, in the middle of a cycle and after a crash in it, the Retain
\* snapshots published last are on disk, and they are whole: each holds exactly
\* what was committed when its copy began (rename after VACUUM INTO, prune after
\* rename).  The clock must not be set back: prune orders files by their stamps.
RecoveryPoint ==
    /\ \A s \in Snapshot : files[s] \in 0..version
    /\ \A i \in 1..Len(published) :
           MostRecent(i) => files[published[i].stamp] = published[i].copy
=============================================================================
