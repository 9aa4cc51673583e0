------------------------------- MODULE Daemon -------------------------------
(***************************************************************************)
(* The components of one daemon that share no state with one another, side *)
(* by side: how the process starts and stops, its loop guard, the project  *)
(* roots and the calls on them, goals, permission grants and modes, the    *)
(* identities of agents, and the HTTP gateway; with them the licences of   *)
(* the machine it runs on.  A behaviour exercises the component its focus  *)
(* names; the others have no state.                                        *)
(***************************************************************************)
EXTENDS Naturals, Sequences, FiniteSets

CONSTANTS
    None, Agents, Calls,
    Daemons, Latest, Callers, MaxClients,                      \* Startup
    LoopIds, Limits, Default, MaxStreak, Amounts, MaxSpent,    \* LoopGuard
    Paths, Inodes, Beneath, MaxSecrets, MaxChanges,            \* ProjectRoots
    Names, Parent, LinkTo, Branches,                           \* Files
    GoalIds, Criteria, GoalOf, BlockedBy,                      \* Goals
    GrantIds, Shapes, ClassOf, DenyList,                       \* Grants
    Keys, Provisioned,                                         \* Identity
    Letters, MaxPath, MaxPrefix, Repo,                         \* Policy
    Secrets, Nonces, Conns, MaxNonces, Threshold, BaseLock,    \* Gateway
    MaxLock, Ceiling, Horizon, MaxFailures,
    Tickets, StreamIds, Pids, MaxTickets, MaxStreams,
    Operations, Rotations, Runs, Old, Jtis, Writers, Readers,  \* Licences
    Supervisors, ProcIds, MaxPerAgent, MaxChunks, Page,        \* Processes
    Registrants, Works, Mails,                                 \* Sessions, Mail
    Waiters, Types, Hot, Early, Wants, MaxEvents, MaxPolls,    \* Mail, events
    Scans, MaxChange, MaxScans,                                \* PackWatch
    Rows, Levels, Pushes, Pulls, MaxLog, MaxOutbox,            \* Replica
    MaxFact, SessionOf, ContentOf, Scopes, Limit, Workers, Nodes, Pairs,  \* Knowledge
    Chats, Tools, MaxRounds                                    \* Inference

\* None stands for nothing; versions are numbered, and one of the builds is the newest.
ASSUME DaemonsAssumption ==
    /\ None \notin Daemons /\ MaxClients \in Nat
    /\ Latest \in [Daemons -> Nat]
    /\ \E p \in Daemons : \A q \in Daemons : Latest[q] <= Latest[p]

\* A limit is a positive number, and what a call reports as spent is none that is negative.
ASSUME LoopsAssumption ==
    /\ None \notin Agents /\ Amounts \subseteq Nat
    /\ Limits \subseteq Nat \ {0} /\ Default \in Nat \ {0}

\* A criterion is of one goal, and a goal names goals as blockers.
ASSUME GoalsAssumption ==
    /\ None \notin {"open", "active", "blocked", "done", "abandoned"}
    /\ GoalOf \in [Criteria -> GoalIds] /\ BlockedBy \in [GoalIds -> SUBSET GoalIds]

VARIABLES
    focus, at, clients, timer, signalled, pidFile, path, schema, applied, ensure, clashed, torn,
    session, loop, live, dir, repo, secrets, roots, rows, opening, signer, late, changes,
    leaf, calls, touched, branches, disk, worktrees, unsure, status, verdict, task, methods,
    crossed, override, grants, gate, used, identities, keys, requests, daemonKeys, broken,
    gated, envMode, sessionMode, anchor, denied, deniedPath, prefix, file, recorded, key,
    starting, nonces, conns, limiter, clock, tokens, minted, pending, streams, active, opened,
    receipts, registered, vault, promoted, runs, list, lock, writers, readers, revoked, unsettled,
    spawn, parent, pty, registry, row, stored, poll, stale, overlapped, sessions, copied, handlers,
    uncopied, open, mail, posted, mailers, lost, log, announced, wait, polls, since, got, pack, known,
    watching, logging, debounce, scanning, scan, settingUp, moves, persisted, dropped, spared, replica,
    hub, shape, cursor, outbox, pushes, pulls, missed, facts, passed, episodes, doubled, workers,
    regrouped, jumped, crowded, graph, communities, clustering, env, chat, bookings, bound, unbooked, skill

startupVars  == <<at, clients, timer, signalled, pidFile, path, schema, applied, ensure, clashed, torn>>
loopVars     == <<session, loop>>
rootVars     == <<live, dir, repo, secrets, roots, rows, opening, signer, late, changes>>
fileVars     == <<leaf, calls, touched, branches, disk, worktrees, unsure>>
goalVars     == <<status, verdict, task, methods, crossed>>
grantVars    == <<override, grants, gate, used>>
identityVars == <<identities, keys, requests, daemonKeys, broken>>
gateVars     == <<gated, envMode, sessionMode, anchor, denied>>
pathVars     == <<deniedPath, prefix>>
pairVars     == <<file, recorded, key, starting, nonces, conns, limiter, clock, tokens, minted>>
streamVars   == <<pending, streams, active, opened>>
promotionVars  == <<receipts, registered, vault, promoted, runs>>
revocationVars == <<list, lock, writers, readers, revoked, unsettled>>
procVars       == <<spawn, parent, pty, registry, row, stored, poll, stale, overlapped>>
sessionVars    == <<sessions, copied, handlers, uncopied>>
mailVars       == <<open, mail, posted, mailers, lost>>
feedVars       == <<log, announced, wait, polls, since, got>>
packVars       == <<pack, known, watching, logging, debounce, scanning, scan, settingUp, moves, persisted, dropped, spared>>
replicaVars    == <<replica, hub, shape, cursor, outbox, pushes, pulls, missed>>
knowledgeVars  == <<facts, passed, episodes, doubled, workers, regrouped, jumped, crowded, graph, communities,
                    clustering>>
chatVars       == <<env, chat, bookings, bound, unbooked>>
skillVars      == <<skill>>
daemonVars   == <<focus, startupVars, loopVars, rootVars, fileVars, goalVars, grantVars, identityVars,
                  gateVars, pathVars, pairVars, streamVars, promotionVars, revocationVars, procVars, sessionVars,
                  mailVars, feedVars, packVars, replicaVars, knowledgeVars, chatVars, skillVars>>

Startup      == INSTANCE Startup WITH Procs <- Daemons, Ensures <- Callers, crossed <- clashed
LoopGuard    == INSTANCE LoopGuard WITH Loops <- LoopIds
ProjectRoots == INSTANCE ProjectRoots
Files        == INSTANCE Files
Goals        == INSTANCE Goals WITH Goals <- GoalIds, calls <- methods
Grants       == INSTANCE Grants WITH Grants <- GrantIds
Identity     == INSTANCE Identity WITH row <- identities, minted <- daemonKeys
Policy       == INSTANCE Policy WITH call <- gated, default <- envMode, override <- sessionMode, path <- deniedPath
Gateway      == INSTANCE Gateway WITH Streams <- StreamIds, Procs <- Pids
Licences     == INSTANCE Licences
Processes    == INSTANCE Processes WITH Agents <- Supervisors, Procs <- ProcIds, Nobody <- None
Presence     == INSTANCE Sessions WITH Agents <- Registrants, row <- sessions, calls <- handlers, unsure <- uncopied
Mail         == INSTANCE Mail WITH calls <- mailers, MaxLog <- MaxEvents
Pack         == INSTANCE PackWatch WITH disk <- pack, starting <- settingUp
Replica      == INSTANCE Replica
Knowledge    == INSTANCE Knowledge
Models       == INSTANCE Inference WITH Calls <- Chats, call <- chat, receipts <- bookings, excused <- unbooked

\* None is no path, no inode and no root.
ASSUME RootsAssumption ==
    /\ None \notin Paths /\ None \notin Inodes /\ MaxChanges \in Nat
    /\ None \notin ProjectRoots!Root /\ None \notin ProjectRoots!Owner

\* A name and what a link points to lie in one of the places; None is no call and no row.
ASSUME FilesAssumption ==
    /\ Parent \in [Names -> Files!Places] /\ LinkTo \in [Names -> Files!Places]
    /\ None \notin Files!FileCall /\ None \notin Files!TreeCall
    /\ None \notin [branch : Branches, status : {"active", "removed"}]

\* None is no row, no key and no request.
ASSUME IdentityAssumption ==
    None \notin Identity!Row /\ None \notin Identity!Key /\ None \notin Identity!Request

\* Grants are numbered as they are issued, and None is no grant.
ASSUME GrantsAssumption ==
    GrantIds \subseteq Nat /\ (\A s \in Shapes : s.max \in Nat) /\ None \notin Grants!Grant

\* None is none of the strings that stand for agents, modes and places.
ASSUME PolicyAssumption ==
    /\ None \notin {"operator", "agent", "auto", "shadow", "in", "out"}
    /\ MaxPath \in Nat /\ MaxPrefix \in Nat

\* None is no secret, nonce, attempt or process; a limiter trips after a first failure at the
\* earliest, a lock may grow, and there is room for a ticket.
ASSUME GatewayAssumption ==
    /\ None \notin Secrets \cup Gateway!Attempt \cup Pids /\ "unsafe" \notin Secrets
    /\ IsFiniteSet(Conns) /\ IsFiniteSet(StreamIds)
    /\ {Threshold, Ceiling, MaxTickets} \subseteq Nat \ {0}
    /\ {BaseLock, MaxLock, Horizon, MaxFailures, MaxStreams} \subseteq Nat /\ BaseLock <= MaxLock

\* What the provers do not know of exponentiation.
ASSUME PowersOfTwo == \A n \in 0 .. MaxFailures : 2 ^ n \in Nat \ {0}

\* The licence of before is that of no operation, a rotation is an operation; None is no token and no state of a process.
ASSUME LicencesAssumption ==
    /\ Old \notin Operations /\ Rotations \subseteq Operations /\ None \notin Licences!Tokens
    /\ None \notin Licences!Run /\ None \notin Licences!Writing /\ None \notin Licences!Reading

\* None is no supervisor; there are finitely many processes, and a page of output is not empty.
ASSUME ProcessesAssumption ==
    /\ None \notin Supervisors /\ IsFiniteSet(ProcIds)
    /\ {MaxPerAgent, MaxChunks} \subseteq Nat /\ Page \in Nat \ {0}

\* None is no session, no mail and no handler; a waiter wants one type of event.
ASSUME FeedsAssumption ==
    /\ None \notin [open : BOOLEAN, work : Works] /\ None \notin Presence!Handler
    /\ None \notin [to : Agents, read : BOOLEAN] /\ None \notin Mail!Handler
    /\ Wants \in [Waiters -> Types] /\ {MaxEvents, MaxPolls} \subseteq Nat /\ MaxPolls > 0
    /\ None \notin Nat /\ {MaxChange, MaxScans} \subseteq Nat

\* A row that is there has a positive level; None is no push, no pull and no reconciliation.
ASSUME GraphAssumption ==
    /\ Levels \subseteq Nat \ {0} /\ IsFiniteSet(Rows) /\ {MaxLog, MaxOutbox} \subseteq Nat
    /\ None \notin Replica!Push /\ None \notin Replica!Pull
    /\ {MaxFact, Limit} \subseteq Nat /\ IsFiniteSet(Workers)
    /\ None \notin Knowledge!Worker /\ None \notin Knowledge!Clustering

\* None is no model, no status, no tool and no outcome of a skill.
ASSUME ModelsAssumption ==
    /\ None \notin Models!ModelNames \cup Models!Statuses \cup Tools \cup {"ran", "failed", "thrown"}
    /\ MaxRounds \in Nat

Foci == {"startup", "loops", "roots", "files", "trees", "goals", "grants", "identity", "permission", "denylist",
         "gateway", "streams", "licences", "revocations", "processes", "sessions", "mail", "feed", "pack",
         "replica", "facts", "communities", "models", "skills"}

DaemonInit ==
    /\ IF focus = "startup" THEN Startup!Init
       ELSE /\ at = None /\ clients = None /\ timer = None /\ signalled = None /\ pidFile = None
            /\ path = None /\ schema = None /\ applied = None /\ ensure = None /\ clashed = None
            /\ torn = None
    /\ IF focus = "loops" THEN LoopGuard!Init
       ELSE session = None /\ loop = None
    /\ IF focus = "roots" THEN ProjectRoots!Init
       ELSE /\ live = None /\ dir = None /\ repo = None /\ secrets = None /\ roots = None /\ rows = None
            /\ opening = None /\ signer = None /\ late = None /\ changes = None
    /\ IF focus \in {"files", "trees"} THEN Files!Init
       ELSE /\ leaf = None /\ calls = None /\ touched = None /\ branches = None /\ disk = None
            /\ worktrees = None /\ unsure = None
    /\ IF focus = "goals" THEN Goals!Init
       ELSE status = None /\ verdict = None /\ task = None /\ methods = None /\ crossed = None
    /\ IF focus = "grants" THEN Grants!Init
       ELSE override = None /\ grants = None /\ gate = None /\ used = None
    /\ IF focus = "identity" THEN Identity!Init
       ELSE identities = None /\ keys = None /\ requests = None /\ daemonKeys = None /\ broken = None
    /\ IF focus \in {"permission", "denylist"} THEN Policy!Init
       ELSE /\ gated = None /\ envMode = None /\ sessionMode = None /\ anchor = None /\ denied = None
            /\ deniedPath = None /\ prefix = None
    /\ IF focus = "gateway" THEN Gateway!PairInit
       ELSE /\ file = None /\ recorded = None /\ key = None /\ starting = None /\ nonces = None
            /\ conns = None /\ limiter = None /\ clock = None /\ tokens = None /\ minted = None
    /\ IF focus = "streams" THEN Gateway!StreamInit
       ELSE pending = None /\ streams = None /\ active = None /\ opened = None
    /\ IF focus = "licences" THEN Licences!PromotionInit
       ELSE receipts = None /\ registered = None /\ vault = None /\ promoted = None /\ runs = None
    /\ IF focus = "revocations" THEN Licences!RevocationInit
       ELSE /\ list = None /\ lock = None /\ writers = None /\ readers = None /\ revoked = None
            /\ unsettled = None
    /\ IF focus = "processes" THEN Processes!Init
       ELSE /\ spawn = None /\ parent = None /\ pty = None /\ registry = None /\ row = None /\ stored = None
            /\ poll = None /\ stale = None /\ overlapped = None
    /\ IF focus = "replica" THEN Replica!Init
       ELSE /\ replica = None /\ hub = None /\ shape = None /\ cursor = None /\ outbox = None
            /\ pushes = None /\ pulls = None /\ missed = None
    /\ IF focus \in {"facts", "communities"} THEN Knowledge!Init
       ELSE /\ facts = None /\ passed = None /\ episodes = None /\ workers = None /\ crowded = None
            /\ doubled = None /\ regrouped = None /\ jumped = None
            /\ graph = None /\ communities = None /\ clustering = None
    /\ IF focus = "feed" THEN Mail!FeedInit
       ELSE log = None /\ announced = None /\ wait = None /\ polls = None /\ since = None /\ got = None
    /\ IF focus = "pack" THEN Pack!Init
       ELSE /\ pack = None /\ known = None /\ watching = None /\ logging = None /\ debounce = None
            /\ scanning = None /\ scan = None /\ settingUp = None /\ moves = None /\ persisted = None
            /\ dropped = None /\ spared = None
    /\ IF focus = "sessions" THEN Presence!Init
       ELSE sessions = None /\ copied = None /\ handlers = None /\ uncopied = None
    /\ IF focus = "mail" THEN Mail!Init
       ELSE open = None /\ mail = None /\ posted = None /\ mailers = None /\ lost = None
    /\ IF focus \in {"models", "skills"} THEN Models!Init
       ELSE /\ env = None /\ chat = None /\ bookings = None /\ bound = None /\ unbooked = None
            /\ skill = None

\* Only the component in focus takes steps.
Rests(foci, v) == IF focus \in foci THEN TRUE ELSE UNCHANGED v

DaemonRests ==
    /\ Rests({"startup"}, startupVars)
    /\ Rests({"loops"}, loopVars)
    /\ Rests({"roots"}, rootVars)
    /\ Rests({"files", "trees"}, fileVars)
    /\ Rests({"goals"}, goalVars)
    /\ Rests({"grants"}, grantVars)
    /\ Rests({"identity"}, identityVars)
    /\ Rests({"permission"}, gateVars)
    /\ Rests({"denylist"}, pathVars)
    /\ Rests({"gateway"}, pairVars)
    /\ Rests({"streams"}, streamVars)
    /\ Rests({"licences"}, promotionVars)
    /\ Rests({"revocations"}, revocationVars)
    /\ Rests({"processes"}, procVars)
    /\ Rests({"replica"}, replicaVars)
    /\ Rests({"facts", "communities"}, knowledgeVars)
    /\ Rests({"feed"}, feedVars)
    /\ Rests({"pack"}, packVars)
    /\ Rests({"sessions"}, sessionVars)
    /\ Rests({"mail"}, mailVars)
    /\ Rests({"models"}, chatVars)
    /\ Rests({"skills"}, skillVars)

DaemonStep ==
    \/ focus = "startup" /\ Startup!Next
    \/ focus = "loops" /\ LoopGuard!Next
    \/ focus = "roots" /\ ProjectRoots!Next
    \/ focus = "files" /\ Files!FileNext
    \/ focus = "trees" /\ Files!TreeNext
    \/ focus = "goals" /\ Goals!Next
    \/ focus = "grants" /\ Grants!Next
    \/ focus = "identity" /\ Identity!Next
    \/ focus = "permission" /\ Policy!GateNext
    \/ focus = "denylist" /\ Policy!PathNext
    \/ focus = "gateway" /\ Gateway!PairNext
    \/ focus = "streams" /\ Gateway!StreamNext
    \/ focus = "licences" /\ Licences!PromotionNext
    \/ focus = "revocations" /\ Licences!RevocationNext
    \/ focus = "processes" /\ Processes!Next
    \/ focus = "replica" /\ Replica!Next
    \/ focus = "facts" /\ Knowledge!ReconcileNext
    \/ focus = "communities" /\ Knowledge!CommunityNext
    \/ focus = "feed" /\ Mail!FeedNext
    \/ focus = "pack" /\ Pack!Next
    \/ focus = "sessions" /\ Presence!Next
    \/ focus = "mail" /\ Mail!Next
    \/ focus = "models" /\ Models!ChatNext
    \/ focus = "skills" /\ Models!SkillNext

\* The focus may lie elsewhere, and the daemon rests.
DaemonNext == UNCHANGED focus /\ DaemonRests /\ (focus \in Foci => DaemonStep)

DaemonSpec == DaemonInit /\ [][DaemonNext]_daemonVars
-----------------------------------------------------------------------------
(* The properties of each component, stated in its module.                 *)

Of(foci, P) == focus \in foci => P

\* Of processes started one at a time at one address one serves, whoever looks finds it by pid
\* file and socket; it serves the schema of its build unless two have worked on the data directory,
\* and it stops for idleness only when idle (cli.ts, migrate.ts, idle-stop.ts).
OneDaemonServes ==
    /\ Of({"startup"}, Startup!TypeOK)
    /\ Of({"startup"}, Startup!OneDaemon /\ Startup!ServingIsFound /\ Startup!SchemaFits /\ Startup!IdleIsTimed)

\* A loop hangs on a live session; only progress clears a streak, only loop.resume lets a stopped
\* loop on, and what was spent is never forgotten (loop-guard.ts).
LoopsAreGuarded ==
    /\ []Of({"loops"}, LoopGuard!TypeOK /\ LoopGuard!LoopsAreLive)
    /\ [][Of({"loops"}, LoopGuard!ProgressClears /\ LoopGuard!ResumeOverrides /\ LoopGuard!SpendStays)]_loopVars

\* Project roots lie apart and belong to who opened them, file calls are made below an opened path
\* and change nothing outside of it, and worktree rows name worktrees (filegit.ts, vcs.ts).
AccessIsConfined ==
    /\ Of({"roots"}, ProjectRoots!TypeOK)
    /\ Of({"roots"}, ProjectRoots!RootsAreApart /\ ProjectRoots!RootsAreOwned /\ ProjectRoots!AccessIsByOpenedPath)
    /\ Of({"files", "trees"}, Files!TypeOK /\ Files!FileCallsStayInside /\ Files!WorktreesAreReal)

\* A goal is done only when its criteria are met, a closed one stays as it is (goals/), and a key
\* that was retired never signs again (identity.rotate).
ClosedStaysClosed ==
    /\ []Of({"goals"}, Goals!TypeOK /\ Goals!GoalsAreEarned)
    /\ [][Of({"goals"}, Goals!StaysClosed)]_goalVars
    /\ [][Of({"identity"}, Identity!Retired)]_identityVars

\* Grants are spent within their limits, one key signs for an agent and it came from the trust
\* anchor, and no mode, door or missing signature is a way around an approval (permission.ts, server.ts).
AuthorityHolds ==
    /\ Of({"grants"}, Grants!TypeOK /\ Grants!LimitsHold /\ Grants!CriticalIsNamed)
    /\ Of({"identity"}, Identity!TypeOK /\ Identity!OneKeySigns /\ Identity!ClientKeysAreTrusted)
    /\ Of({"permission"}, Policy!TypeOK /\ Policy!FloorHolds /\ Policy!UnsignedIsMinor)
    /\ Of({"permission"}, Policy!ShadowForetells /\ Policy!DoorIsOperators /\ Policy!OnlyOperatorsAct)

\* A pairing nonce and a stream ticket are good once, as Once promises, what gives access is on
\* record, guesses are slowed down, and the streams are counted (the HTTP gateway).
GatewayIsGuarded ==
    /\ Of({"gateway"}, Gateway!PairingStarts) /\ [][Of({"gateway"}, Gateway!PairsOnce)]_pairVars
    /\ []Of({"gateway"}, Gateway!PairTypeOK /\ Gateway!KeyIsOnRecord /\ Gateway!GuessesAreSlowed)
    /\ Of({"streams"}, Gateway!StreamingStarts) /\ [][Of({"streams"}, Gateway!StreamsOnce)]_streamVars
    /\ []Of({"streams"}, Gateway!StreamTypeOK /\ Gateway!StreamsAreCounted)

\* A licence in force stays until a registered one replaces it, and can be contained (scripts/); a
\* revocation that was reported stays on the list and is enforced (revoked-jtis.ts).
LicencesAreKept ==
    /\ [][Of({"licences"}, Licences!LiveStays)]_promotionVars
    /\ []Of({"licences"}, Licences!PromotionTypeOK /\ Licences!ContainmentIsRecoverable)
    /\ []Of({"revocations"}, Licences!RevocationTypeOK /\ Licences!RevocationsStay /\ Licences!RevokedIsRefused)

\* A row says running for a process that can be accounted for, a supervisor stays within its cap,
\* and a client that is done has read everything (spawn.ts).
ProcessesAreAccounted ==
    /\ Of({"processes"}, Processes!TypeOK)
    /\ Of({"processes"}, Processes!RunningRowsAreAccountedFor /\ Processes!CapHolds /\ Processes!DoneMeansAllRead)

\* Nothing is missed: events by those who wait for them (events.wait), changes of the design pack
\* (design-pack-watch.ts), sessions and mail in their mirror, marked by the recipient only (neon.ts).
FeedsAreComplete ==
    /\ []Of({"feed"}, Mail!FeedTypeOK /\ Mail!FeedIsComplete)
    /\ []Of({"pack"}, Pack!TypeOK /\ Pack!RestIsKnown /\ Pack!MovesAreInOrder)
    /\ []Of({"sessions"}, Presence!TypeOK /\ Presence!FleetSeesSessions)
    /\ []Of({"mail"}, Mail!TypeOK /\ Mail!FleetMailIsLocal)
    /\ [][Of({"mail"}, Mail!MarkedByOwner)]_mailVars

\* What was pushed is on the hub and what was pulled is not undone (graph-sync.ts).  A fact the
\* cursor passed is in an episode unless it was jumped for another session, of one source unless it
\* was fetched again under another, which has one episode if no reconciliations overlapped
\* (graph-reconcile.ts); if no computations did, no node is in two communities (graph-communities.ts).
GraphIsFaithful ==
    /\ []Of({"replica"}, Replica!TypeOK /\ Replica!PushedIsOnHub /\ Replica!CursorIsBehindReplica)
    /\ [][Of({"replica"}, Replica!NeverBack)]_replicaVars
    /\ []Of({"facts", "communities"}, Knowledge!TypeOK)
    /\ []Of({"facts"}, Knowledge!FactsAreIngested /\ Knowledge!EpisodesAreOnce)
    /\ []Of({"communities"}, Knowledge!CommunitiesAreDisjoint)

\* What a model ran is booked and training is opted into (openrouter.ts), and the trace of tools
\* is true (skill-invoke-runtime.ts).
ModelCallsAreGuarded ==
    /\ Of({"models"}, Models!ChatTypeOK /\ Models!ReceiptsAreKept /\ Models!TrainingIsOptIn)
    /\ Of({"skills"}, Models!SkillTypeOK /\ Models!TraceIsTrue)
=============================================================================
