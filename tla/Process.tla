------------------------------ MODULE Process -------------------------------
(***************************************************************************)
(* The life of the broker process: main of src/main.rs, from opening the   *)
(* database to the checkpoint before it exits, with the two servers, the   *)
(* shutdown broadcast, the background loops, the snapshot writer, the      *)
(* search index and read-only queries.  The process may die at any moment; *)
(* database and files stay.                                                *)
(*                                                                         *)
(* `main` is where main() has got to: down, open, index, watch, http,      *)
(* loops, grpc, select, join, abort, checkpoint, exit.                     *)
(***************************************************************************)
EXTENDS Snapshots, SearchIndex, Reader

CONSTANTS
    Deployments   \* what is configured, and what work it gets:
                  \* [snapshots, flags, queries, work] and the bounds
                  \* [starts, time, commits, rows, orphans]

CONSTANT FireBatch  \* ANVILMQ_SCHEDULER_BATCH_SIZE

ASSUME FireAssumption == FireBatch \in Nat \ {0}

Server == {"http", "grpc"}
Loop == {"recovery", "retention", "scheduler"}

VARIABLES
    deploy,   \* the deployment
    starts,   \* starts so far
    main,     \* where main() has got to
    fts,      \* ANVILMQ_FTS_ENABLED of this start
    watcher,  \* the task that waits for a signal: off, waiting, sending, done
    server,   \* off, ready (its receiver is subscribed), up, draining, done
    told,     \* receivers with a message of the broadcast channel
    rpc,      \* a gRPC request awaits its closure in the blocking pool
    orphans,  \* closures of requests whose client went away
    loops,    \* background loops spawned and not aborted
    ticks,    \* loops with a closure in the blocking pool
    wal,      \* the write-ahead log has frames
    seal      \* auxiliary: the checkpoint and what it found

config == <<deploy, starts, fts>>
shutdown == <<watcher, server, told>>
work == <<rpc, orphans, loops, ticks>>
log == <<wal, seal>>
processVars == <<main, config, shutdown, work, log>>
data == <<clock, version, snapshotVars, indexVars>>
allVars == <<data, readerVars, processVars>>

ProcessInit ==
    /\ SnapshotsInit /\ IndexInit /\ ReaderInit
    /\ deploy \in Deployments
    /\ starts = 0 /\ main = "down" /\ fts = FALSE
    /\ watcher = "off" /\ server = [s \in Server |-> "off"] /\ told = {}
    /\ rpc = FALSE /\ orphans = 0 /\ loops = {} /\ ticks = {}
    /\ wal = FALSE /\ seal = Nil

\* Everything in memory is gone; crashes and exits alike.
Forgotten ==
    /\ main' = "down" /\ watcher' = "off" /\ told' = {}
    /\ server' = [s \in Server |-> "off"]
    /\ rpc' = FALSE /\ orphans' = 0 /\ loops' = {} /\ ticks' = {} /\ seal' = Nil
    /\ ReaderReset
    /\ UNCHANGED <<deploy, starts, fts, wal>>
-----------------------------------------------------------------------------
Start ==
    /\ main = "down"
    /\ starts < deploy.starts
    /\ starts' = starts + 1
    /\ main' = "open"
    /\ fts' \in deploy.flags
    /\ UNCHANGED <<data, readerVars, deploy, shutdown, work, log>>

\* main() gets from one place to the next.
Goes(from, to) ==
    /\ main = from
    /\ main' = to
    /\ UNCHANGED <<data, readerVars, config, rpc, orphans>>

\* DatabaseManager::with_durability; its migrations change nothing here.
Open ==
    /\ Goes("open", IF fts THEN "index" ELSE "watch")
    /\ UNCHANGED <<shutdown, loops, ticks, log>>

\* enable_fts, one statement.
IndexStep ==
    /\ main = "index"
    /\ Setup \/ Backfill
    /\ wal' = TRUE
    /\ UNCHANGED <<clock, version, snapshotVars, readerVars, config, main, shutdown, work, seal>>

Indexed ==
    /\ BackfillDone
    /\ Goes("index", "watch")
    /\ UNCHANGED <<shutdown, loops, ticks, log>>

\* The signal task is spawned.
Watch ==
    /\ Goes("watch", "http")
    /\ watcher' = "waiting"
    /\ UNCHANGED <<server, told, loops, ticks, log>>

\* http subscribes and binds.
BindHttp ==
    /\ Goes("http", "loops")
    /\ server' = [server EXCEPT !["http"] = "ready"]
    /\ UNCHANGED <<watcher, told, loops, ticks, log>>

SpawnLoops ==
    /\ Goes("loops", "grpc")
    /\ loops' = Loop \cup (IF deploy.snapshots THEN {"backup"} ELSE {})
    /\ UNCHANGED <<shutdown, ticks, log>>

\* grpc subscribes; select! polls both servers for the first time, and grpc binds
\* or fails to.
Serve ==
    /\ Goes("grpc", "select")
    /\ \E bound \in {"up", "done"} : server' = [http |-> "up", grpc |-> bound]
    /\ UNCHANGED <<watcher, told, loops, ticks, log>>
-----------------------------------------------------------------------------
\* SIGTERM or Ctrl-C, once its handler is installed; later ones change nothing.
Signal ==
    /\ watcher = "waiting"
    /\ watcher' = "sending"
    /\ UNCHANGED <<data, readerVars, config, main, server, told, work, log>>

\* What shutdown_tx.send does: a message for every receiver there is.
Receivers == {s \in Server : server[s] \in {"ready", "up"}}

Send ==
    /\ watcher = "sending"
    /\ watcher' = "done"
    /\ told' = told \cup Receivers
    /\ UNCHANGED <<data, readerVars, config, main, server, work, log>>

\* The server's shutdown future resolves: it accepts nothing more.
StopAccepting(s) ==
    /\ s \in told
    /\ server[s] = "up"
    /\ told' = told \ {s}
    /\ server' = [server EXCEPT ![s] = "draining"]
    /\ UNCHANGED <<data, readerVars, config, main, watcher, work, log>>

Busy(s) == IF s = "grpc" THEN rpc ELSE Pending # {}

\* The last request of the server is answered and its future returns.
Drained(s) ==
    /\ server[s] = "draining"
    /\ ~Busy(s)
    /\ server' = [server EXCEPT ![s] = "done"]
    /\ UNCHANGED <<data, readerVars, config, main, watcher, told, work, log>>

\* A select! that does not tell the other server.
Select_Silent ==
    /\ \E s \in Server : server[s] = "done"
    /\ Goes("select", "join")
    /\ UNCHANGED <<shutdown, loops, ticks, log>>

\* select!: the first server to return has the other one told.
Select ==
    /\ \E s \in Server : server[s] = "done"
    /\ Goes("select", "join")
    /\ told' = told \cup Receivers
    /\ UNCHANGED <<watcher, server, loops, ticks, log>>

Join ==
    /\ \A s \in Server : server[s] = "done"
    /\ Goes("join", "abort")
    /\ UNCHANGED <<shutdown, loops, ticks, log>>

\* A main() that forgets one of its handles.
Abort_AllButRetention ==
    /\ Goes("abort", "checkpoint")
    /\ loops' = loops \cap {"retention"}
    /\ UNCHANGED <<shutdown, ticks, log>>

\* abort() ends the loops, not the closures they have handed over.
Abort ==
    /\ Goes("abort", "checkpoint")
    /\ loops' = {}
    /\ UNCHANGED <<shutdown, ticks, log>>

\* The commits that closures in the blocking pool can still make: one each, and
\* one for each due scheduler of a scan.
Pool ==
    Cardinality(ticks) + orphans + (IF "scheduler" \in ticks THEN FireBatch - 1 ELSE 0)

\* DatabaseManager::checkpoint: TRUNCATE empties the log.  PASSIVE, when a reader is
\* in the way, and an error, which main() logs and passes over, leave it in place.
Checkpoint ==
    /\ Goes("checkpoint", "exit")
    /\ \E truncated \in BOOLEAN :
          /\ wal' = (wal /\ ~truncated)
          /\ seal' = [version |-> version, pool |-> Pool, truncated |-> truncated]
    /\ UNCHANGED <<shutdown, loops, ticks>>

\* The runtime is dropped: it waits for the closures that run, and forgets those
\* that have not begun.
Exit ==
    /\ main = "exit"
    /\ cycle = Nil /\ Connections = 0
    /\ Forgotten
    /\ UNCHANGED data

\* The process is killed, or main() returns early with an error.
Die ==
    /\ main # "down"
    /\ Forgotten
    /\ cycle' = Nil
    /\ UNCHANGED <<clock, version, files, temps, published, stuck, indexVars>>
-----------------------------------------------------------------------------
\* A write commits; some of them end a job.
Write ==
    /\ \/ version < deploy.commits /\ version' = version + 1
          /\ ((NextRow <= deploy.rows /\ InsertRow) \/ UNCHANGED indexVars) /\ wal' = TRUE
       \/ UNCHANGED <<version, indexVars, wal>>
    /\ UNCHANGED <<clock, snapshotVars>>

\* A handler is called and hands its closure to the blocking pool.
AcceptRpc ==
    /\ server["grpc"] = "up"
    /\ "rpc" \in deploy.work
    /\ ~rpc
    /\ rpc' = TRUE
    /\ UNCHANGED <<data, readerVars, config, main, shutdown, orphans, loops, ticks, log>>

\* The closure commits, or is refused, and the client has its answer.
EndRpc ==
    /\ rpc
    /\ rpc' = FALSE
    /\ Write
    /\ UNCHANGED <<readerVars, config, main, shutdown, orphans, loops, ticks, seal>>

\* The client goes away: the handler is dropped, and its closure is not.
CancelRpc ==
    /\ rpc
    /\ orphans < deploy.orphans
    /\ rpc' = FALSE
    /\ orphans' = orphans + 1
    /\ UNCHANGED <<data, readerVars, config, main, shutdown, loops, ticks, log>>

\* The closure nobody waits for runs.
RunOrphan ==
    /\ orphans > 0
    /\ orphans' = orphans - 1
    /\ Write
    /\ UNCHANGED <<readerVars, config, main, shutdown, rpc, loops, ticks, seal>>

\* An interval ticks and the loop calls spawn_blocking.
TickLoop(l) ==
    /\ l \in loops \cap deploy.work
    /\ l \notin ticks
    /\ ticks' = ticks \cup {l}
    /\ UNCHANGED <<data, readerVars, config, main, shutdown, rpc, orphans, loops, log>>

\* run_once fires the due schedulers one by one and keeps the writer's lock
\* meanwhile, so no other commit comes between theirs.
FireDue ==
    /\ \E fired \in 0..FireBatch :
          /\ version + fired <= deploy.commits
          /\ version' = version + fired
          /\ wal' = (wal \/ fired > 0)
    /\ UNCHANGED <<clock, snapshotVars, indexVars>>

\* The closure takes the writer's lock and commits, or finds nothing to do.
RunTick(l) ==
    /\ l \in ticks
    /\ ticks' = ticks \ {l}
    /\ \/ l = "recovery" /\ Write
       \/ l = "scheduler" /\ FireDue
       \/ /\ l = "retention" /\ version < deploy.commits
          /\ version' = version + 1
          /\ \E r \in history : DeleteRow(r)
          /\ wal' = TRUE
          /\ UNCHANGED <<clock, snapshotVars>>
       \/ l = "retention" /\ UNCHANGED <<data, wal>>
    /\ UNCHANGED <<readerVars, config, main, shutdown, rpc, orphans, loops, seal>>

\* A reader's step; queries come in while http accepts.
QueryStep(q) ==
    /\ \/ server["http"] = "up" /\ q \in deploy.queries /\ Ask(q)
       \/ Answer(q) \/ GiveUp(q) \/ Withdraw(q)
    /\ UNCHANGED <<data, processVars>>

BackupStep ==
    /\ \/ "backup" \in loops /\ (BeginSnapshot \/ BeginFails)
       \/ SnapshotStep
    /\ UNCHANGED <<clock, version, indexVars, readerVars, processVars>>

ReaderStep == (Acquire \/ StrayEnds) /\ UNCHANGED <<data, processVars>>

TimePasses ==
    /\ Tick
    /\ clock' <= deploy.time
    /\ UNCHANGED <<version, snapshotVars, indexVars, readerVars, processVars>>

MainStep ==
    \/ Open \/ IndexStep \/ Indexed \/ Watch \/ BindHttp \/ SpawnLoops \/ Serve
    \/ Select \/ Join \/ Abort \/ Checkpoint \/ Exit

ProcessNext ==
    \/ Start
    \/ MainStep
    \/ Signal
    \/ Send
    \/ \E s \in Server : StopAccepting(s) \/ Drained(s)
    \/ AcceptRpc
    \/ EndRpc
    \/ CancelRpc
    \/ RunOrphan
    \/ \E l \in Loop : TickLoop(l) \/ RunTick(l)
    \/ \E q \in Query : QueryStep(q)
    \/ ReaderStep
    \/ BackupStep
    \/ TimePasses
    \/ Die

ProcessSpec == ProcessInit /\ [][ProcessNext]_allVars

\* The runtime polls every task that is ready, requests and closures end (queries
\* by their timeout, their closures by the progress handler), and so does a
\* snapshot.  Nothing makes requests, signals, failures or restarts happen.
FairProcessSpec ==
    /\ ProcessSpec
    /\ WF_allVars(MainStep)
    /\ WF_allVars(Send)
    /\ \A s \in Server : WF_allVars(StopAccepting(s)) /\ WF_allVars(Drained(s))
    /\ WF_allVars(EndRpc)
    /\ \A q \in Query : WF_allVars(GiveUp(q) /\ UNCHANGED <<data, processVars>>)
    /\ WF_allVars(Acquire /\ UNCHANGED <<data, processVars>>)
    /\ WF_allVars(StrayEnds /\ UNCHANGED <<data, processVars>>)
    /\ WF_allVars(SnapshotStep /\ UNCHANGED <<clock, version, indexVars, readerVars, processVars>>)
-----------------------------------------------------------------------------
Serving == main \in {"select", "join", "abort", "checkpoint", "exit"}

\* The tables, files and tasks are well formed; in particular the semaphore never
\* has more permits than it was made with.
ProcessTypeOK ==
    /\ permits \in 0..MaxConcurrency /\ running \subseteq Query
    /\ history \subseteq 1..MaxRow /\ index \subseteq 1..MaxRow
    /\ files \in [Stamp -> Nat \cup {Nil}]
    /\ temps \in [Stamp -> Nat \cup {Nil, Partial}]
    /\ server \in [Server -> {"off", "ready", "up", "draining", "done"}]

\* While search runs on the index, the index holds exactly the rows of
\* job_history, whatever crashes interrupted setup or backfill and however often
\* the feature was switched on and off (setup_blocking, backfill_blocking and the
\* triggers).  A row may be left over only if one was deleted when a crash had
\* left the insert trigger without the delete trigger.
SearchExact ==
    Serving /\ fts => Unindexed = {} /\ (index = history \/ torn)

\* The checkpoint comes after the last request: when it runs, everything a client
\* was told is committed, since main awaits both servers first.  What can still
\* commit after it are the closures then in the blocking pool, of aborted loops and
\* of calls whose client went away: each once, a scan of the schedulers once for
\* each of its batch, and nothing joins them.  If none of them does, a log that was
\* truncated stays empty.
CheckpointIsLast ==
    /\ main \in {"checkpoint", "exit"} => ~rpc /\ Pending = {}
    /\ main = "exit" =>
          /\ version + Pool <= seal.version + seal.pool
          /\ seal.truncated /\ version = seal.version => ~wal

\* Temporary files do not pile up unnoticed: one that no cycle is writing was left
\* by a process that died, at most one each, or by a removal that failed, since
\* failed copies and renames try to clean up (run_blocking).
TempsAccounted ==
    LET ended == IF main = "down" THEN starts ELSE starts - 1
        left == {s \in Stamp \ stuck : temps[s] # Nil /\ (cycle = Nil \/ cycle.stamp # s)}
    IN  Cardinality(left) <= ended

\* A signal that finds a receiver, and a server that ends by itself, stop the
\* process, whichever of the servers hears of it first and whatever requests,
\* queries and loops are under way (the broadcast channel, select! and the joins
\* after it).
ShutdownCompletes ==
    (told # {} \/ \E s \in Server : server[s] \in {"draining", "done"}) ~> main = "down"

\* Every query ends, even if all closures before it were given up on: a timeout
\* returns the permit (Reader::query).
QueriesEnd == \A q \in Query : q \in Pending ~> q \notin Pending
=============================================================================
