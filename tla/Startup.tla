------------------------------ MODULE Startup ------------------------------
(***************************************************************************)
(* From the start of a process to its end, for the instances of the shop   *)
(* that share a PostgreSQL database: main.run and db.RunMigrations, then   *)
(* server.Run with its listener goroutine, readiness and shutdown.         *)
(*                                                                         *)
(* An instance may crash anywhere and start again.  A migration is one     *)
(* transaction that runs a file and records its checksum; a file stands    *)
(* for its checksum.                                                       *)
(***************************************************************************)
EXTENDS Integers, Sequences, FiniteSets

CONSTANTS
  Instances,
  Last,        \* versions are 1 .. Last, in lexicographic order of the files
  Files,       \* contents of migration files
  NoFile,      \* a version an image, or schema_migrations, does not have
  Images,      \* migration directories the instances may be built with
  Pools,       \* values of SHOP_DB_MAX_CONNS
  NoInstance

ASSUME StartupAssumption ==
  /\ IsFiniteSet(Instances)
  /\ NoInstance \notin Instances
  /\ Last \in Nat
  /\ NoFile \notin Files
  /\ Images \subseteq [1 .. Last -> Files \cup {NoFile}]
  /\ Pools \subseteq Nat \ {0}

VARIABLES
  recorded,    \* schema_migrations
  ran,         \* history: the versions that have been run, in order
  lock,        \* the instance whose session holds the advisory lock
  pc,          \* where main is
  conns,       \* connections taken from the pool
  applied,     \* what loadAppliedMigrations returned
  at,          \* the file the loop is at
  listener,    \* where the goroutine of Run is
  ready,       \* Health.ready
  signalled,   \* main's context is cancelled
  image, pool  \* what the instance is built and configured with

db     == <<recorded, ran, lock>>
loop   == <<conns, applied, at>>
server == <<listener, ready>>
config == <<image, pool>>
vars   == <<db, pc, loop, server, signalled, config>>

Versions == 1 .. Last
NoFiles  == [v \in Versions |-> NoFile]

Init ==
  /\ recorded = NoFiles
  /\ ran = <<>>
  /\ lock = NoInstance
  /\ pc = [i \in Instances |-> "off"]
  /\ conns = [i \in Instances |-> 0]
  /\ applied = [i \in Instances |-> NoFiles]
  /\ at = [i \in Instances |-> 1]
  /\ listener = [i \in Instances |-> "none"]
  /\ ready = [i \in Instances |-> FALSE]
  /\ signalled = [i \in Instances |-> FALSE]
  /\ image \in [Instances -> Images]
  /\ pool \in [Instances -> Pools]

Goto(i, label) == pc' = [pc EXCEPT ![i] = label]

\* The process is gone, and its sessions with it: PostgreSQL frees the lock.
Exit(i) ==
  /\ Goto(i, "off")
  /\ lock' = IF lock = i THEN NoInstance ELSE lock
  /\ conns' = [conns EXCEPT ![i] = 0]
  /\ applied' = [applied EXCEPT ![i] = NoFiles]
  /\ at' = [at EXCEPT ![i] = 1]
  /\ listener' = [listener EXCEPT ![i] = "none"]
  /\ ready' = [ready EXCEPT ![i] = FALSE]
  /\ signalled' = [signalled EXCEPT ![i] = FALSE]
  /\ UNCHANGED <<recorded, ran, config>>

-----------------------------------------------------------------------------
(* main.run and RunMigrations.                                             *)

Start(i) ==
  /\ pc[i] = "off"
  /\ Goto(i, "open")
  /\ UNCHANGED <<db, loop, server, signalled, config>>

\* db.Open makes the pool, and PostgreSQL answers its ping.
Open(i) ==
  /\ pc[i] = "open"
  /\ Goto(i, "acquire")
  /\ UNCHANGED <<db, loop, server, signalled, config>>

\* pool.Acquire, which waits for a connection.
Acquire(i) ==
  /\ pc[i] = "acquire"
  /\ conns[i] < pool[i]
  /\ conns' = [conns EXCEPT ![i] = @ + 1]
  /\ Goto(i, "lock")
  /\ UNCHANGED <<db, applied, at, server, signalled, config>>

\* Mutant: the lock is tried, not waited for.
AdvisoryLockTried(i) ==
  /\ pc[i] = "lock"
  /\ lock' = IF lock = NoInstance THEN i ELSE lock
  /\ Goto(i, "load")
  /\ UNCHANGED <<recorded, ran, loop, server, signalled, config>>

AdvisoryLock(i) ==
  /\ pc[i] = "lock"
  /\ lock = NoInstance
  /\ lock' = i
  /\ Goto(i, "load")
  /\ UNCHANGED <<recorded, ran, loop, server, signalled, config>>

LoadApplied(i) ==
  /\ pc[i] = "load"
  /\ applied' = [applied EXCEPT ![i] = recorded]
  /\ Goto(i, "files")
  /\ UNCHANGED <<db, conns, at, server, signalled, config>>

\* Mutant: a file that was edited is taken for the one that was applied.
SkipEdited(i) ==
  /\ pc[i] = "files"
  /\ at[i] \in Versions
  /\ image[i][at[i]] = NoFile \/ applied[i][at[i]] # NoFile
  /\ at' = [at EXCEPT ![i] = @ + 1]
  /\ UNCHANGED <<db, pc, conns, applied, server, signalled, config>>

\* The loop passes over a file that was applied as it is.
Skip(i) ==
  /\ pc[i] = "files"
  /\ at[i] \in Versions
  /\ image[i][at[i]] \in {NoFile, applied[i][at[i]]}
  /\ at' = [at EXCEPT ![i] = @ + 1]
  /\ UNCHANGED <<db, pc, conns, applied, server, signalled, config>>

\* The file was not applied, and its transaction begins once the pool has
\* a second connection.
BeginTx(i) ==
  /\ pc[i] = "files"
  /\ at[i] \in Versions
  /\ image[i][at[i]] # NoFile
  /\ applied[i][at[i]] = NoFile
  /\ conns[i] < pool[i]
  /\ conns' = [conns EXCEPT ![i] = @ + 1]
  /\ Goto(i, "tx")
  /\ UNCHANGED <<db, applied, at, server, signalled, config>>

\* Mutants: the connection of the transaction is not given back, or the
\* version is not recorded with it.
CommitLeaks(i) ==
  /\ pc[i] = "tx"
  /\ recorded[at[i]] = NoFile
  /\ recorded' = [recorded EXCEPT ![at[i]] = image[i][at[i]]]
  /\ ran' = Append(ran, at[i])
  /\ at' = [at EXCEPT ![i] = @ + 1]
  /\ Goto(i, "files")
  /\ UNCHANGED <<lock, conns, applied, server, signalled, config>>

CommitUnrecorded(i) ==
  /\ pc[i] = "tx"
  /\ recorded[at[i]] = NoFile
  /\ Len(ran) < 2 * Last
  /\ ran' = Append(ran, at[i])
  /\ at' = [at EXCEPT ![i] = @ + 1]
  /\ conns' = [conns EXCEPT ![i] = @ - 1]
  /\ Goto(i, "files")
  /\ UNCHANGED <<recorded, lock, applied, server, signalled, config>>

\* The file is run and recorded; version is the primary key.
Commit(i) ==
  /\ pc[i] = "tx"
  /\ recorded[at[i]] = NoFile
  /\ recorded' = [recorded EXCEPT ![at[i]] = image[i][at[i]]]
  /\ ran' = Append(ran, at[i])
  /\ at' = [at EXCEPT ![i] = @ + 1]
  /\ conns' = [conns EXCEPT ![i] = @ - 1]
  /\ Goto(i, "files")
  /\ UNCHANGED <<lock, applied, server, signalled, config>>

\* No file is left: the deferred unlock and Release.
Unlock(i) ==
  /\ pc[i] = "files"
  /\ at[i] > Last
  /\ lock' = IF lock = i THEN NoInstance ELSE lock
  /\ conns' = [conns EXCEPT ![i] = @ - 1]
  /\ Goto(i, "migrated")
  /\ UNCHANGED <<recorded, ran, applied, at, server, signalled, config>>

Starting == {"open", "acquire", "lock", "load", "files", "tx", "migrated"}

\* Mutant: the wait for the lock cannot be cancelled.
FailDeaf(i) == pc[i] \in Starting \ {"lock"} /\ Exit(i)

\* An error, a checksum that differs among them, or the cancelled context,
\* ends main.
Fail(i) == pc[i] \in Starting /\ Exit(i)

\* A commit whose reply does not come: main ends, the file has been run.
CommitLost(i) ==
  /\ pc[i] = "tx"
  /\ recorded[at[i]] = NoFile
  /\ recorded' = [recorded EXCEPT ![at[i]] = image[i][at[i]]]
  /\ ran' = Append(ran, at[i])
  /\ Goto(i, "lost")
  /\ UNCHANGED <<lock, loop, server, signalled, config>>

-----------------------------------------------------------------------------
(* Server.Run.                                                             *)

\* Run starts the goroutine and waits.
Run(i) ==
  /\ pc[i] = "migrated"
  /\ Goto(i, "select")
  /\ listener' = [listener EXCEPT ![i] = "starting"]
  /\ UNCHANGED <<db, loop, ready, signalled, config>>

SetReady(i) ==
  /\ listener[i] = "starting"
  /\ ready' = [ready EXCEPT ![i] = TRUE]
  /\ listener' = [listener EXCEPT ![i] = "ready"]
  /\ UNCHANGED <<db, pc, loop, signalled, config>>

\* ListenAndServe, which returns at once after Shutdown.
Listen(i) ==
  /\ listener[i] = "ready"
  /\ listener' = [listener EXCEPT ![i] = IF pc[i] = "shutdown" THEN "closed" ELSE "serving"]
  /\ UNCHANGED <<db, pc, loop, ready, signalled, config>>

\* SIGTERM or an interrupt.
Signal(i) ==
  /\ pc[i] # "off"
  /\ ~ signalled[i]
  /\ signalled' = [signalled EXCEPT ![i] = TRUE]
  /\ UNCHANGED <<db, pc, loop, server, config>>

\* Run sees the cancelled context.
Drain(i) ==
  /\ pc[i] = "select"
  /\ signalled[i]
  /\ ready' = [ready EXCEPT ![i] = FALSE]
  /\ Goto(i, "draining")
  /\ UNCHANGED <<db, loop, listener, signalled, config>>

\* Shutdown closes the listener if there is one, and ListenAndServe returns.
Shutdown(i) ==
  /\ pc[i] = "draining"
  /\ listener' = [listener EXCEPT ![i] = IF @ = "serving" THEN "closed" ELSE @]
  /\ Goto(i, "shutdown")
  /\ UNCHANGED <<db, loop, ready, signalled, config>>

\* The requests are answered, or SHOP_SHUTDOWN_TIMEOUT has passed; or
\* ListenAndServe failed.
Return(i) ==
  /\ \/ pc[i] = "shutdown"
     \/ pc[i] = "select" /\ listener[i] \in {"ready", "serving"}
     \/ pc[i] = "lost"
  /\ Exit(i)

Crash(i) == pc[i] # "off" /\ Exit(i)

-----------------------------------------------------------------------------
Next ==
  \E i \in Instances :
    \/ Start(i)
    \/ Open(i)
    \/ Acquire(i)
    \/ AdvisoryLock(i)
    \/ LoadApplied(i)
    \/ Skip(i)
    \/ BeginTx(i)
    \/ Commit(i)
    \/ CommitLost(i)
    \/ Unlock(i)
    \/ Fail(i)
    \/ Run(i)
    \/ SetReady(i)
    \/ Listen(i)
    \/ Signal(i)
    \/ Drain(i)
    \/ Shutdown(i)
    \/ Return(i)
    \/ Crash(i)

Spec == Init /\ [][Next]_vars

\* A file that differs from the one applied is an error.
Mismatch(i) ==
  /\ pc[i] = "files"
  /\ at[i] \in Versions
  /\ NoFile \notin {image[i][at[i]], applied[i][at[i]]}
  /\ image[i][at[i]] # applied[i][at[i]]

\* The statements are answered, waiting for the lock is in the order of
\* arrival, and main goes on; nobody has to start, stop or crash.
Fairness ==
  \A i \in Instances :
    /\ WF_vars(Open(i) \/ Acquire(i))
    /\ SF_vars(AdvisoryLock(i))
    /\ WF_vars(LoadApplied(i) \/ Skip(i) \/ BeginTx(i))
    /\ WF_vars(Commit(i))
    /\ WF_vars(Unlock(i))
    /\ WF_vars((Mismatch(i) \/ signalled[i]) /\ Fail(i))
    /\ WF_vars(Drain(i))
    /\ WF_vars(Shutdown(i))
    /\ WF_vars(pc[i] \in {"shutdown", "lost"} /\ Return(i))

FairSpec == Spec /\ Fairness

-----------------------------------------------------------------------------
(***************************************************************************)
(* Type invariant: and no instance takes more connections than its pool    *)
(* has, nor keeps one after the migrations.                                *)
(***************************************************************************)
TypeOK ==
  /\ recorded \in [Versions -> Files \cup {NoFile}]
  /\ ran \in Seq(Versions)
  /\ lock \in Instances \cup {NoInstance}
  /\ pc \in [Instances -> Starting \cup {"off", "lost", "select", "draining", "shutdown"}]
  /\ conns \in [Instances -> 0 .. 2]
  /\ applied \in [Instances -> [Versions -> Files \cup {NoFile}]]
  /\ at \in [Instances -> 1 .. Last + 1]
  /\ listener \in [Instances -> {"none", "starting", "ready", "serving", "closed"}]
  /\ ready \in [Instances -> BOOLEAN]
  /\ signalled \in [Instances -> BOOLEAN]
  /\ image \in [Instances -> Images]
  /\ pool \in [Instances -> Pools]
  /\ \A i \in Instances :
       /\ conns[i] <= pool[i]
       /\ pc[i] = "select" => conns[i] = 0

(***************************************************************************)
(* A version is run once, whoever runs it, crashes and lost replies        *)
(* included, and after the versions before it, if no image has a later     *)
(* file without the earlier ones.                                          *)
(***************************************************************************)
NoGaps ==
  \A i \in Instances, v, w \in Versions :
    (v < w /\ image[i][w] # NoFile) => image[i][v] # NoFile

RunOnce ==
  /\ \A m, n \in DOMAIN ran : m < n => ran[m] # ran[n]
  /\ NoGaps => \A n \in DOMAIN ran : ran[n] = n

(***************************************************************************)
(* What the loop read in schema_migrations stays true while it goes on:    *)
(* the versions it has yet to reach are recorded as it read them, so that  *)
(* no instance ever runs into another one's migration.                     *)
(***************************************************************************)
SerialisedByLock ==
  \A i \in Instances : pc[i] \in {"files", "tx"} =>
    \A v \in Versions : v >= at[i] => recorded[v] = applied[i][v]

(***************************************************************************)
(* An instance that says it is ready has every migration of its image in   *)
(* the database, run from the very same file.                              *)
(***************************************************************************)
ReadyIsMigrated ==
  \A i \in Instances : ready[i] =>
    \A v \in Versions : image[i][v] \in {NoFile, recorded[v]}

(***************************************************************************)
(* With two connections in every pool, an instance that starts ends its    *)
(* migrations or itself.  (With one, it waits for itself, and the others   *)
(* for its lock.)                                                          *)
(***************************************************************************)
StartReturns ==
  (\A i \in Instances : pool[i] >= 2) =>
    \A i \in Instances : (pc[i] = "open") ~> (pc[i] \in {"migrated", "off"})

(***************************************************************************)
(* An instance that is told to stop does, wherever it is, even waiting     *)
(* for the lock or for a connection.                                       *)
(***************************************************************************)
SignalStops == \A i \in Instances : signalled[i] ~> (pc[i] = "off")
=============================================================================
