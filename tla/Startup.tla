------------------------------- MODULE Startup -------------------------------
(***************************************************************************)
(* The daemon as a process (cli.ts, server.ts startDaemon and close,       *)
(* storage/migrate.ts, idle-stop.ts): what it leaves on disk for others to *)
(* find, how the schema is brought forward, and how it is started, by      *)
(* --ensure or at once, and stopped, by signals, crashes and its idle      *)
(* timer.  Nothing keeps two processes apart but the look of --ensure at   *)
(* the pid file: whatever else is started takes pid file and socket over.  *)
(***************************************************************************)
EXTENDS Naturals

CONSTANTS
    Procs,       \* daemon processes, each started at most once
    Latest,      \* the last migration the build of each process knows
    Ensures,     \* callers of `revdev-daemon --ensure`
    MaxClients,  \* bound on the connections of a process
    None

VARIABLES
    at,        \* where each process is
    clients,   \* its connections
    timer,     \* whether its idle timer is armed
    signalled, \* processes sent SIGTERM and still to notice it
    pidFile,   \* the process harness.pid names
    path,      \* the process whose socket harness.sock names
    schema,    \* versions recorded in schema_version
    applied,   \* how often the SQL of each migration has run
    ensure,    \* what each caller is about to do
    crossed,   \* the last start or clean-up began while another process or caller was about
    torn       \* two processes have worked on the data directory at once

procState   == <<at, clients, timer, signalled>>
files       == <<pidFile, path>>
database    == <<schema, applied>>
startupVars == <<at, clients, timer, signalled, pidFile, path, schema, applied, ensure, crossed, torn>>

Versions == 1 .. (CHOOSE n \in {Latest[p] : p \in Procs} : \A p \in Procs : Latest[p] <= n)
CloseSteps == {"stop", "drain", "unlink", "pid"}

TypeOK ==
    /\ at \in [Procs -> {"unborn", "spawned", "opening", "open", "serving", "dead"} \cup CloseSteps]
    /\ clients \in [Procs -> 0 .. MaxClients] /\ timer \in [Procs -> BOOLEAN]
    /\ signalled \subseteq Procs
    /\ pidFile \in Procs \cup {None} /\ path \in Procs \cup {None}
    /\ schema \subseteq Versions /\ applied \in [Versions -> 0 .. 2]
    /\ ensure \in [Ensures -> {"idle", "clean", "clear", "spawn"}]
    /\ crossed \in BOOLEAN /\ torn \in BOOLEAN

Init ==
    /\ at = [p \in Procs |-> "unborn"]
    /\ clients = [p \in Procs |-> 0] /\ timer = [p \in Procs |-> FALSE]
    /\ signalled = {} /\ pidFile = None /\ path = None
    /\ schema = {} /\ applied = [v \in Versions |-> 0]
    /\ ensure = [e \in Ensures |-> "idle"]
    /\ crossed = FALSE /\ torn = FALSE

Alive(p)   == at[p] \notin {"unborn", "dead"}
Go(p, to)  == at' = [at EXCEPT ![p] = to]
AtWork(p)  == at[p] \in {"opening", "open", "serving", "stop", "drain"}

\* Someone who may still take pid file or socket: a process, or a caller of --ensure
\* that has decided to remove them and start one.
Around == \/ \E p \in Procs : Alive(p)
          \/ \E e \in Ensures : ensure[e] # "idle"

-----------------------------------------------------------------------------
(* A process from its start to its listening socket.                       *)

\* The command itself, or with --detach: systemd, Studio or a user start it without a look
\* at what is there.
Start(p) ==
    /\ at[p] = "unborn" /\ Go(p, "spawned") /\ crossed' = Around
    /\ UNCHANGED <<clients, timer, signalled, files, database, ensure, torn>>

\* The pid file is written first, whatever it named before, and the data directory opened;
\* whether the database stands for a second process there is not settled by this code.
WritePid(p) ==
    /\ at[p] = "spawned" /\ Go(p, "opening") /\ pidFile' = p
    /\ torn' = (torn \/ \E q \in Procs : AtWork(q))
    /\ UNCHANGED <<clients, timer, signalled, path, database, ensure, crossed>>

CurrentVersion == IF schema = {} THEN 0 ELSE CHOOSE v \in schema : \A w \in schema : w <= v

Pending(p) == {v \in Versions : v <= Latest[p] /\ v > CurrentVersion}

\* One transaction: the SQL of the next migration and its version row.
Migrate(p) ==
    /\ at[p] = "opening" /\ CurrentVersion <= Latest[p]
    /\ \E v \in Pending(p) :
          /\ \A w \in Pending(p) : v <= w
          /\ schema' = schema \cup {v}
          /\ applied' = [applied EXCEPT ![v] = IF @ < 2 THEN @ + 1 ELSE @]
    /\ UNCHANGED <<procState, files, ensure, crossed, torn>>

\* migrate() refuses a database from a later build.
FitsAnyVersion(p) == schema # {}
Fits(p) == CurrentVersion = Latest[p]
Migrated(p) ==
    /\ at[p] = "opening" /\ Fits(p) /\ Go(p, "open")
    /\ UNCHANGED <<clients, timer, signalled, files, database, ensure, crossed, torn>>

\* startDaemon throws: the data directory is taken, a migration fails, the schema is newer,
\* listen fails.  The pid file goes, whomever it names by now.
FailStart(p) ==
    /\ at[p] \in {"opening", "open"} /\ Go(p, "dead") /\ pidFile' = None
    /\ UNCHANGED <<clients, timer, signalled, path, database, ensure, crossed, torn>>

\* The old socket file is removed, be it that of a process which listens, the new one
\* bound, the idle timer armed.
Listen(p) ==
    /\ at[p] = "open" /\ Go(p, "serving") /\ path' = p
    /\ timer' = [timer EXCEPT ![p] = TRUE]
    /\ UNCHANGED <<clients, signalled, pidFile, database, ensure, crossed, torn>>

-----------------------------------------------------------------------------
(* Connections and the idle timer.                                         *)

Connect(p) ==
    /\ path = p /\ at[p] = "serving" /\ clients[p] < MaxClients
    /\ clients' = [clients EXCEPT ![p] = @ + 1] /\ timer' = [timer EXCEPT ![p] = FALSE]
    /\ UNCHANGED <<at, signalled, files, database, ensure, crossed, torn>>

Disconnect(p) ==
    /\ at[p] = "serving" /\ clients[p] > 0
    /\ clients' = [clients EXCEPT ![p] = @ - 1]
    /\ timer' = [timer EXCEPT ![p] = clients[p] = 1]
    /\ UNCHANGED <<at, signalled, files, database, ensure, crossed, torn>>

IdleFire(p) ==
    /\ timer[p] /\ timer' = [timer EXCEPT ![p] = FALSE]
    /\ signalled' = signalled \cup {p}
    /\ UNCHANGED <<at, clients, files, database, ensure, crossed, torn>>

-----------------------------------------------------------------------------
(* The end of a process.                                                   *)

Signal(p) ==
    /\ at[p] = "serving" /\ signalled' = signalled \cup {p}
    /\ UNCHANGED <<at, clients, timer, files, database, ensure, crossed, torn>>

\* Before startDaemon returns there is no handler, and SIGTERM ends the process as a crash does.
Crash(p) ==
    /\ Alive(p) /\ Go(p, "dead")
    /\ clients' = [clients EXCEPT ![p] = 0] /\ timer' = [timer EXCEPT ![p] = FALSE]
    /\ signalled' = signalled \ {p}
    /\ UNCHANGED <<files, database, ensure, crossed, torn>>

BeginClose(p) ==
    /\ p \in signalled /\ at[p] = "serving" /\ Go(p, "stop")
    /\ timer' = [timer EXCEPT ![p] = FALSE] /\ signalled' = signalled \ {p}
    /\ UNCHANGED <<clients, files, database, ensure, crossed, torn>>

\* server.close, which unlinks the path, and the sockets; the drain and
\* db.close; the path once more; the pid file, and exit.
After(s) == CASE s = "stop" -> "drain" [] s = "drain" -> "unlink" [] s = "unlink" -> "pid" [] OTHER -> "dead"
CloseStep(p) ==
    /\ at[p] \in CloseSteps /\ Go(p, After(at[p]))
    /\ path' = IF at[p] \in {"stop", "unlink"} THEN None ELSE path
    /\ pidFile' = IF at[p] = "pid" THEN None ELSE pidFile
    /\ clients' = [clients EXCEPT ![p] = 0]
    /\ UNCHANGED <<timer, signalled, database, ensure, crossed, torn>>

-----------------------------------------------------------------------------
(* revdev-daemon --ensure.                                                 *)

To(e, step) == ensure' = [ensure EXCEPT ![e] = step]

\* A caller whose ping was answered, or whose pid file names a live process, has nothing to do.
\* Otherwise, or after a ping that was too slow, it removes the socket (no pid file), and the
\* file of a dead process as well; a file that is being written may be read empty, which removes
\* nothing.
ReadPid(e) ==
    /\ ensure[e] = "idle"
    /\ \/ pidFile = None /\ To(e, "clean") /\ crossed' = Around
       \/ pidFile # None /\ ~Alive(pidFile) /\ To(e, "clear") /\ crossed' = Around
       \/ (\E p \in Procs : at[p] = "spawned") /\ To(e, "spawn") /\ crossed' = TRUE
    /\ UNCHANGED <<procState, files, database, torn>>

Clean(e) ==
    /\ ensure[e] \in {"clean", "clear"} /\ To(e, "spawn")
    /\ path' = None /\ pidFile' = IF ensure[e] = "clear" THEN None ELSE pidFile
    /\ UNCHANGED <<procState, database, crossed, torn>>

\* It starts a process and pings it for up to 20 seconds.
Spawn(e, p) ==
    /\ ensure[e] = "spawn" /\ at[p] = "unborn"
    /\ Go(p, "spawned") /\ To(e, "idle")
    /\ UNCHANGED <<clients, timer, signalled, files, database, crossed, torn>>

Next ==
    \/ \E p \in Procs :
          \/ Start(p) \/ WritePid(p) \/ Migrate(p) \/ Migrated(p) \/ FailStart(p) \/ Listen(p)
          \/ Connect(p) \/ Disconnect(p) \/ IdleFire(p)
          \/ Signal(p) \/ Crash(p) \/ BeginClose(p) \/ CloseStep(p)
          \/ \E e \in Ensures : Spawn(e, p)
    \/ \E e \in Ensures : ReadPid(e) \/ Clean(e)

Spec == Init /\ [][Next]_startupVars
-----------------------------------------------------------------------------
(* Properties.  `crossed` excepts what the code does not keep: a start, or *)
(* a clean-up by --ensure, while a process is alive that the pid file does *)
(* not name or another caller is at the same.  It is forgotten with the    *)
(* first start or clean-up after all of them have gone.                    *)

\* After starts and clean-ups one at a time at most one process works on the data directory,
\* over crashes, failed starts, slow pings, closes in progress and callers that overlap.
OneDaemon == ~crossed => \A p, q \in Procs : AtWork(p) /\ AtWork(q) => p = q

\* A daemon that serves can then be found: the pid file and the socket are its own, however
\* many were there before it.
ServingIsFound == ~crossed => \A p \in Procs : at[p] = "serving" => pidFile = p /\ path = p

\* Unless two worked on the data directory at once, a daemon serves the schema of its build,
\* every migration of which ran once.
SchemaFits ==
    ~torn => /\ \A p \in Procs : at[p] = "serving" => schema = 1 .. Latest[p]
             /\ \A v \in Versions : applied[v] = IF v \in schema THEN 1 ELSE 0

\* A serving daemon without clients is going to stop, one with clients is not
\* unless it was told to before they came.
IdleIsTimed ==
    \A p \in Procs : at[p] = "serving" /\ p \notin signalled => (timer[p] <=> clients[p] = 0)
=============================================================================
