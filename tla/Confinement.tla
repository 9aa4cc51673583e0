----------------------------- MODULE Confinement -----------------------------
(* Where a spawned agent runs (confinement.ts and its callers): the sandbox  *)
(* it is put in and what can be seen from there, the environment it gets,    *)
(* the reading of files that must be root's, and the sweep that tells which  *)
(* agents' keys belong to dead processes (agent-key-gc.ts).                  *)
EXTENDS Naturals, Sequences, FiniteSets, SequencesExt

CONSTANTS
    None,
    Places,      \* directories: non-empty sequences of names
    Home, DataDir, AgentHome, Tmp, Usr,
    Lexical,     \* the paths of NEVER_BOUND_* but the data directory
    Links,       \* where such a path may really be: a directory, or None when it is absent
    Caches,      \* sharedCaches
    Machines,    \* platform, bwrap and escape hatch of the hosts considered
    EnvKeys,     \* the sets of keys a caller gives
    Depth,       \* directories above the trust anchor, the root of the file system included
    Agents, Pids

VARIABLES
    machine, conf,     \* the host; _confinement: what was resolved at the start
    link,              \* where each path of Lexical really is
    spawn,             \* agent.spawn: how far it is, its arguments, and what it started
    chain, author,     \* directories on the way to the anchor; who wrote the file found there
    reader,            \* readRootOwnedFile: the directory it is at, and the content it returned
    pidOf, alive,      \* pids recorded for an agent: its session's, its processes'; live processes
    sweep              \* runAgentKeyGc: where it is, what its queries read, its verdicts

sandboxVars == <<machine, conf, link, spawn>>
anchorVars  == <<chain, author, reader>>
sweepVars   == <<pidOf, alive, sweep>>

-----------------------------------------------------------------------------
(* Paths and what must never be bound                                       *)

Within(root, target) == IsPrefix(root, target)

Real(p, l) == \A s \in Lexical : Within(s, p) => l[s] = s

\* neverBoundSet: each entry as it is written and as it resolves
NeverBound(l) == Lexical \cup {DataDir} \cup ({l[s] : s \in Lexical} \ {None})

Overlaps(p, l) == \E nb \in NeverBound(l) : Within(p, nb) \/ Within(nb, p)

\* assertGrantedRootBindable
Bindable(p, l) == ~Within(p, Home) /\ ~Overlaps(p, l)

-----------------------------------------------------------------------------
(* The sandbox: bwrap applies its arguments in order, and what is mounted   *)
(* last over a directory is what is seen there.                             *)

Op(kind, at) == [kind |-> kind, at |-> at]
Binds(ps)    == SetToSeq({Op("bind", p) : p \in ps})

\* spawnConfined
Mounts(root, caches) ==
    <<Op("bind", Usr), Op("tmpfs", Tmp), Op("tmpfs", Home), Op("bind", root), Op("bind", AgentHome)>>
    \o Binds(caches)

\* external: what a path shows, of the host's directories, None when it is empty or not there
Shows(mounts, p) ==
    LET over == {i \in DOMAIN mounts : Within(mounts[i].at, p)}
    IN IF over = {} THEN None
       ELSE LET last == CHOOSE i \in over : \A j \in over : j <= i
            IN IF mounts[last].kind = "bind" THEN p ELSE None

-----------------------------------------------------------------------------
(* Which backend, and which environment                                     *)

\* isTrustedRootOwner
RootOwned(uid, squashed) == uid = "root" \/ (uid = "nobody" /\ squashed)

\* resolveBwrapAbsPath
UsableBwrap(m) == m.bwrap # None /\ RootOwned(m.bwrap.uid, m.squashed) /\ ~m.bwrap.writable

\* resolveConfinementBackend
Resolved(m) ==
    [backend |-> ~m.hatch /\ m.platform = "linux" /\ UsableBwrap(m), hatch |-> m.hatch]

Denied  == {"REVDEV_SPAWN_CONFINEMENT"}
Allowed == {"TERM", "REVDEV_X"}

\* filterCallerEnv
MaySet(keys) == keys \cap Denied = {} /\ keys \subseteq Allowed

\* buildConfinedEnv: the daemon's, with the caller's on top
ConfinedEnv(keys) ==
    [k \in keys \cup {"HOME", "PATH", "TERM"} |->
        IF k \in keys THEN "caller" ELSE IF k = "HOME" THEN "agent" ELSE "fixed"]

-----------------------------------------------------------------------------
Idle == [at |-> "idle", root |-> None, cwd |-> None, keys |-> {}, mounts |-> None, env |-> None, links |-> None]

SandboxInit ==
    /\ machine \in Machines /\ conf = None
    /\ link = [s \in Lexical |-> s]
    /\ spawn = Idle

\* onDaemonStarted
ResolveBackend == conf = None /\ conf' = Resolved(machine) /\ UNCHANGED <<machine, link, spawn>>

\* requireRootAndDir has resolved the root and the directory beneath it; the environment
\* is refused before anything is created.
AskSpawn(root, cwd, keys) ==
    /\ spawn.at = "idle"
    /\ Real(root, link) /\ Within(root, cwd)
    /\ spawn' = [spawn EXCEPT !.at = IF MaySet(keys) THEN "home" ELSE "refused",
                              !.root = root, !.cwd = cwd, !.keys = keys]
    /\ UNCHANGED <<machine, conf, link>>

\* ensureAgentHome, which the disk may fail.
MakeHome ==
    /\ spawn.at = "home"
    /\ \E at \in {"prepare", "refused"} : spawn' = [spawn EXCEPT !.at = at]
    /\ UNCHANGED <<machine, conf, link>>

\* Behind those, with the host as it is then.
StartSpawn(caches) ==
    /\ spawn.at = "prepare"
    /\ LET c == IF conf = None THEN Resolved(machine) ELSE conf
           runs(mounts) == [spawn EXCEPT !.at = "runs", !.mounts = mounts,
                                         !.env = ConfinedEnv(spawn.keys), !.links = link]
       IN spawn' = IF c.backend /\ Bindable(spawn.root, link) THEN runs(Mounts(spawn.root, caches))
                   ELSE IF ~c.backend /\ c.hatch THEN runs(None)
                   ELSE [spawn EXCEPT !.at = "refused"]
    /\ UNCHANGED <<machine, conf, link>>

\* The operator moves a secret, leaving a symbolic link, or removes it.
MoveSecret(s, to) ==
    /\ spawn.at # "runs"
    /\ link' = [link EXCEPT ![s] = to]
    /\ UNCHANGED <<machine, conf, spawn>>

SandboxNext ==
    \/ ResolveBackend \/ MakeHome
    \/ \E root \in Places, cwd \in Places, keys \in EnvKeys : AskSpawn(root, cwd, keys)
    \/ \E caches \in SUBSET Caches : StartSpawn(caches)
    \/ \E s \in Lexical, to \in Links : MoveSecret(s, to)

-----------------------------------------------------------------------------
(* readRootOwnedFile: every directory from the file's up to the root of the *)
(* file system, then the file itself.  Meanwhile another user replaces what *)
(* he may replace; root leaves the way to the file alone.                   *)

Entry == [kind : {"dir", "link"}, owner : {"root", "user"}, writable : BOOLEAN]
Trusted(e) == e.kind = "dir" /\ e.owner = "root" /\ ~e.writable

AnchorInit ==
    /\ chain \in {c \in [1 .. Depth -> Entry] : c[1].kind = "dir" /\ c[1].owner = "root"}
    /\ author = "root"
    /\ reader = [at |-> Depth, read |-> None]

CheckDirectory ==
    /\ reader.at \in 1 .. Depth
    /\ reader' = [reader EXCEPT !.at = IF Trusted(chain[reader.at]) THEN reader.at - 1 ELSE Depth + 1]
    /\ UNCHANGED <<chain, author>>

\* Opened without following a link, and looked at through the handle: a regular file of
\* root's that nobody else may write.
ReadFile ==
    /\ reader.at = 0
    /\ reader' = [at |-> Depth + 1, read |-> author]
    /\ UNCHANGED <<chain, author>>

\* Whoever may write a directory may rename what is in it, root's or not; the file at the end
\* is then another one, which root owns and may have been written for something else.
MayWrite(e) == e.kind = "dir" /\ (e.owner = "user" \/ e.writable)

Replace(d) ==
    /\ MayWrite(chain[d])
    /\ author' = "user"
    /\ chain' \in {c \in [1 .. Depth -> Entry] : \A i \in 1 .. d : c[i] = chain[i]}
    /\ UNCHANGED reader

AnchorNext == CheckDirectory \/ ReadFile \/ \E d \in 1 .. Depth : Replace(d)

-----------------------------------------------------------------------------
(* runAgentKeyGc                                                            *)

NoSweep == [at |-> "idle", fromSession |-> None, fromRows |-> None, dead |-> {}, live |-> {}, steady |-> {}]
Recorded == {r \in Agents \X Pids : r[2] = pidOf[r[1]].session \/ r[2] \in pidOf[r[1]].rows}

SweepInit ==
    /\ pidOf = [a \in Agents |-> [session |-> None, rows |-> {}]]
    /\ alive = {}
    /\ sweep = NoSweep

\* What has been recorded and alive ever since the sweep began.
StaysSteady(sw) ==
    [sw EXCEPT !.steady = {r \in @ : r[2] \in alive' /\ r \in Recorded'}]

\* session.register and agent.spawn record a live process; rows keep the pid of one that exited.
RecordPid(a, p) ==
    /\ \/ p \in Pids /\ alive' = alive \cup {p} /\ pidOf' = [pidOf EXCEPT ![a].session = p]
       \/ p \in Pids \ alive /\ alive' = alive \cup {p} /\ pidOf' = [pidOf EXCEPT ![a].rows = @ \cup {p}]
       \/ p \in pidOf[a].rows \ alive /\ pidOf' = [pidOf EXCEPT ![a].rows = @ \ {p}] /\ UNCHANGED alive
    /\ sweep' = StaysSteady(sweep)

ExitPid(p) ==
    /\ p \in alive /\ alive' = alive \ {p}
    /\ UNCHANGED pidOf
    /\ sweep' = StaysSteady(sweep)

ReadSessions ==
    /\ sweep.at = "idle"
    /\ sweep' = [NoSweep EXCEPT !.at = "rows", !.fromSession = [a \in Agents |-> {pidOf[a].session} \ {None}],
                                !.steady = {r \in Recorded : r[2] \in alive}]
    /\ UNCHANGED <<pidOf, alive>>

ReadRows ==
    /\ sweep.at = "rows"
    /\ sweep' = [sweep EXCEPT !.at = "classify", !.fromRows = [a \in Agents |-> pidOf[a].rows]]
    /\ UNCHANGED <<pidOf, alive>>

\* isPidAlive
IsAlive(p) == p \in alive

\* addPid; from here to the verdicts there is no await
Pooled(a) == sweep.fromSession[a] \cup sweep.fromRows[a]

Classify ==
    /\ sweep.at = "classify"
    /\ sweep' = [sweep EXCEPT !.at = "idle", !.fromSession = None, !.fromRows = None,
                    !.live = {a \in Agents : \E p \in Pooled(a) : IsAlive(p)},
                    !.dead = {a \in Agents : Pooled(a) # {} /\ \A p \in Pooled(a) : ~IsAlive(p)}]
    /\ UNCHANGED <<pidOf, alive>>

SweepNext ==
    \/ ReadSessions \/ ReadRows \/ Classify
    \/ \E p \in Pids : ExitPid(p) \/ \E a \in Agents : RecordPid(a, p)

-----------------------------------------------------------------------------
TypeOK ==
    /\ conf \in {None} \cup [backend : BOOLEAN, hatch : BOOLEAN]
    /\ spawn.at \in {"idle", "home", "prepare", "refused", "runs"}
    /\ link \in [Lexical -> Links]

\* Nothing of what must never be bound can be seen from a sandbox, wherever it was when the
\* agent was started: not a secret, not where its link leads, not the daemon's data but the
\* home of this agent (assertGrantedRootBindable, spawnConfined).
SecretsStayHidden ==
    spawn.at = "runs" /\ spawn.mounts # None =>
        \A p \in Places : Shows(spawn.mounts, p) # None /\ ~Within(AgentHome, p) =>
            ~\E hidden \in {DataDir} \cup ({spawn.links[s] : s \in Lexical} \ {None}) : Within(hidden, p)

\* The sandbox has the directory it starts in and the agent's home, and the rest of the operator's
\* home is gone (the order of the arguments in spawnConfined).
WorkIsThere ==
    spawn.at = "runs" /\ spawn.mounts # None =>
        /\ Shows(spawn.mounts, spawn.cwd) = spawn.cwd
        /\ Shows(spawn.mounts, AgentHome) = AgentHome
        /\ \A p \in Places : Within(Home, p) /\ Shows(spawn.mounts, p) # None =>
               \E q \in Caches \cup {spawn.root, AgentHome} : Within(q, p)

\* Nothing runs outside a sandbox unless the operator asked for it, nothing runs with a home,
\* path or control variable of the caller's (agent.spawn, filterCallerEnv).
ConfinedUnlessAsked ==
    spawn.at = "runs" =>
        /\ spawn.mounts = None => machine.hatch
        /\ spawn.mounts # None => ~machine.bwrap.writable /\ (machine.bwrap.uid = "root" \/ machine.squashed)
        /\ spawn.env["HOME"] = "agent" /\ spawn.env["PATH"] = "fixed" /\ DOMAIN spawn.env \cap Denied = {}

\* A file that must be root's is the one root put there, whatever another user replaces while
\* the directories are walked (readRootOwnedFile).
RootsFileIsRead == reader.read # "user"

\* No agent is counted dead that had one and the same live process on record all through the
\* sweep; no agent is counted both ways (runAgentKeyGc).
DeadAreDead ==
    /\ sweep.at = "idle" => ~\E r \in sweep.steady : r[1] \in sweep.dead
    /\ sweep.live \cap sweep.dead = {}
=============================================================================
