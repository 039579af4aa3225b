---------------------------- MODULE SearchIndex -----------------------------
(***************************************************************************)
(* The optional full-text index over job_history of src/fts.rs.  Its three *)
(* schema objects and its rows are in the database: they survive a restart *)
(* and stay when the feature is switched off.                              *)
(***************************************************************************)
EXTENDS Integers, FiniteSets, FiniteSetsExt

CONSTANTS
    MaxRow,         \* bound: rowids of job_history
    BackfillBatch   \* DEFAULT_BACKFILL_BATCH

ASSUME IndexAssumption == MaxRow \in Nat /\ BackfillBatch \in Nat \ {0}

VARIABLES
    history,  \* rowids of job_history
    schema,   \* which of table, insert trigger and delete trigger exist
    index,    \* rowids of job_history_fts
    torn      \* auxiliary: a row was deleted when only the insert trigger existed

indexVars == <<history, schema, index, torn>>

IndexInit ==
    /\ history = {}
    /\ schema = {}
    /\ index = {}
    /\ torn = FALSE

\* SETUP_SQL has no transaction: each statement commits by itself.
Statement == <<"table", "insert", "delete">>

\* setup_blocking, one statement; those that exist are skipped.
Setup ==
    \E k \in 1..3 :
        /\ schema = {Statement[i] : i \in 1..k - 1}
        /\ schema' = schema \cup {Statement[k]}
        /\ UNCHANGED <<history, index, torn>>

SetupDone == schema = {Statement[i] : i \in 1..3}

Unindexed == history \ index

\* A backfill of one batch only.
BackfillDone_OneBatch == SetupDone /\ (index # {} \/ Unindexed = {})

\* The loop of backfill_blocking ends when a batch inserted nothing.
BackfillDone == SetupDone /\ Unindexed = {}

\* backfill_blocking, one batch.
Backfill ==
    /\ SetupDone
    /\ ~BackfillDone
    /\ \E rows \in SUBSET Unindexed :
           /\ Cardinality(rows) = Min({BackfillBatch, Cardinality(Unindexed)})
           /\ index' = index \cup rows
    /\ UNCHANGED <<history, schema, torn>>

\* SQLite gives the rowid after the largest one in use.
NextRow == IF history = {} THEN 1 ELSE Max(history) + 1

\* A job ends: an INSERT into job_history, and its trigger.  The index refuses a
\* rowid it holds already, and the whole transaction with it.
InsertRow ==
    /\ NextRow <= MaxRow
    /\ "insert" \in schema => NextRow \notin index
    /\ history' = history \cup {NextRow}
    /\ index' = IF "insert" \in schema THEN index \cup {NextRow} ELSE index
    /\ UNCHANGED <<schema, torn>>

\* A retention sweep deletes a row, and the delete trigger its entry.
DeleteRow(r) ==
    /\ r \in history
    /\ history' = history \ {r}
    /\ index' = IF "delete" \in schema THEN index \ {r} ELSE index
    /\ torn' = (torn \/ ("insert" \in schema /\ "delete" \notin schema))
    /\ UNCHANGED schema
=============================================================================
