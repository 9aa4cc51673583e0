------------------------------- MODULE Clients -------------------------------
(***************************************************************************)
(* Those who talk to a daemon, or work beside it: the calls of Studio, its *)
(* agents and terminals, the console, the bridge of the tools, the sandbox *)
(* that a spawned agent gets, the sweep of agents' keys and the inspector  *)
(* of a database.  They share no state with one another, nor with the      *)
(* daemon's own components; a behaviour exercises the one client names.    *)
(***************************************************************************)
EXTENDS Naturals, Sequences, FiniteSets

CONSTANTS
    Null,                                                   \* what is absent
    StudioCalls, SignedCalls, MaxTries,                     \* StudioRpc
    LocalIds,                                               \* LocalAgents
    TermIds, HostKeys,                                      \* Terminals
    Addresses, LiveTiers, MaxCalls, SshKeys, Remotes, MaxLines,  \* Console
    Directories, Home, DataDir, AgentHome, Tmp, Usr,        \* Confinement
    Lexical, Links, Caches, Machines, EnvKeys, AnchorDepth, KeyHolders, HostPids,
    Alphabets, MaxPieces, MaxRows, MaxTimeout, RowLimits, Timeouts,  \* Inspector
    Requests, ToolCalls, WritingCalls, Askers, AskedLimits, NoopLimit, MaxTicks \* Bridge

VARIABLES
    client,
    call, frames, envelopes, ran, up, answers, relay, holder, cooling, visit, cached, root,
    upset, child, entry, launch, waiter, daemonSession, agentCalls, quit, excused, kind,
    knownHosts, sess, mapped, endings, hook, unclaimed, view, plans, planCursor, offline,
    plan, payUrl, signedIn, loading, shownError, email, otp, apiCalls, codesSent, edited,
    left, keyFile, admitted, sessionKey, seat, remoteTerms, offered, picked, inp, outp,
    rsz, ownStep, ended, peer, crash, arrived, scanned, fed, scanner, machine, conf, link,
    confined, chain, author, reader, pidOf, alive, sweep, stmt, inspection, tx, inspected,
    socket, reply, served, who, kgTool, pool, spare, embedder, published, asked, guarded,
    runtime

rpcVars        == <<call, frames, envelopes, ran, up, answers, relay, holder, cooling>>
repoVars       == <<visit, cached, root, upset>>
agentVars      == <<child, entry, launch, waiter, daemonSession, agentCalls, quit, excused>>
terminalVars   == <<kind, knownHosts, sess, mapped, endings, hook, unclaimed>>
screenVars     == <<view, plans, planCursor, offline, plan, payUrl, signedIn, loading, shownError, email, otp, apiCalls, codesSent, edited, left>>
bridgeVars     == <<keyFile, admitted, sessionKey, seat, remoteTerms, offered, picked, inp, outp, rsz, ownStep, ended, peer, crash>>
streamedVars   == <<arrived, scanned, fed, scanner>>
confinedVars   == <<machine, conf, link, confined>>
anchorVars     == <<chain, author, reader>>
sweepVars      == <<pidOf, alive, sweep>>
stmtVars       == <<stmt>>
inspectedVars  == <<inspection, tx, inspected>>
clientVars     == <<socket, reply, served>>
kgVars         == <<who, kgTool, pool, spare, embedder, published, asked>>
runtimeVars    == <<guarded, runtime>>
clientsVars    == <<client, rpcVars, repoVars, agentVars, terminalVars, screenVars,
                     bridgeVars, streamedVars, confinedVars, anchorVars, sweepVars,
                     stmtVars, inspectedVars, clientVars, kgVars, runtimeVars>>

Rpc      == INSTANCE StudioRpc WITH None <- Null, Calls <- StudioCalls, Signed <- SignedCalls,
    nonces <- envelopes, opened <- cached
Local    == INSTANCE LocalAgents WITH None <- Null, Calls <- StudioCalls, Agents <- LocalIds, start <- launch,
    session <- daemonSession, call <- agentCalls
Terms    == INSTANCE Terminals WITH None <- Null, Sessions <- TermIds, Keys <- HostKeys,
    known <- knownHosts, entry <- mapped, events <- endings, excused <- unclaimed
Cons     == INSTANCE Console WITH None <- Null, Mails <- Addresses, Keys <- SshKeys,
    tiers <- plans, cursor <- planCursor, selected <- plan, url <- payUrl, user <- signedIn, err <- shownError,
    calls <- apiCalls, sent <- codesSent, listed <- keyFile, allowed <- admitted, key <- sessionKey,
    running <- remoteTerms, target <- picked, own <- ownStep, done <- ended, lines <- arrived, pos <- scanned,
    scan <- scanner
Sandbox  == INSTANCE Confinement WITH None <- Null, Pids <- HostPids, Places <- Directories, Agents <- KeyHolders,
    spawn <- confined, Depth <- AnchorDepth
Inspect  == INSTANCE Inspector WITH None <- Null, Limits <- RowLimits, receipts <- inspected
Bridge   == INSTANCE Bridge WITH None <- Null, Default <- NoopLimit, Writing <- WritingCalls,
    Identities <- Askers, LoopLimits <- AskedLimits, runs <- served, tool <- kgTool, episodes <- published, guard <- guarded

\* The directories that a sandbox is made of, or that it must hide.
SandboxPaths == Directories \cup Caches \cup (Links \ {Null}) \cup {Home, DataDir, AgentHome, Tmp, Usr}
MountOps == [kind : {"bind", "tmpfs"}, at : SandboxPaths]

\* Of the directories checked on the way to a file there are finitely many; Null is no one's file, no
\* directory, no process, no sandbox and no backend.  A secret lies, or is moved to, neither within the
\* system's directories nor within a shared cache, nor are those within it.
ASSUME ConfinementAssumption ==
    /\ AnchorDepth \in Nat /\ Null \notin {"root", "user"} /\ Null \notin HostPids
    /\ SandboxPaths \subseteq Seq(UNION {{p[i] : i \in DOMAIN p} : p \in SandboxPaths})
    /\ Null \notin Seq(MountOps) /\ Null \notin [backend : BOOLEAN, hatch : BOOLEAN]
    /\ Lexical \subseteq Links /\ IsFiniteSet(Caches)
    /\ \A secret \in (Links \ {Null}) \cup {DataDir}, bound \in Caches \cup {Usr} :
          ~Sandbox!Within(secret, bound) /\ ~Sandbox!Within(bound, secret)
    /\ \A m \in Machines : m.hatch \in BOOLEAN

\* Null is no request, no identity and no outcome.
ASSUME BridgeAssumption ==
    /\ Null \notin Requests /\ Null \notin Askers
    /\ Null \notin {"result", "error", "refused", "reset", "timeout", "ok", "missing", "unavailable"}

\* The limits of the inspector are numbers; Null is no outcome of a query.
ASSUME InspectAssumption ==
    /\ {MaxRows, MaxTimeout} \subseteq Nat
    /\ Null \notin {"ok", "refused", "threw"} \cup [readOnly : BOOLEAN, timeout : Timeouts]

\* Null is no agent, no entry and no state of a process.
ASSUME LocalAssumption ==
    Null \notin LocalIds \cup Local!Entries \cup {"alive", "lost", "killed", "fine", "failed"}

\* A call is attempted at least once; Null is no call, no answer and no relay.
ASSUME RpcAssumption ==
    /\ MaxTries \in Nat \ {0} /\ SignedCalls \subseteq StudioCalls
    /\ Null \notin StudioCalls \cup {"done"} /\ Null \notin [stdin : BOOLEAN, stdout : BOOLEAN, joined : BOOLEAN]

\* The API answers with lists of the known plans, none of which is the built-in price list; the bounds
\* are numbers, and Null is no plan, no account, no key and no terminal.
ASSUME ConsoleAssumption ==
    /\ LiveTiers \subseteq Seq({"free", "pro", "max", "enterprise"}) /\ Cons!Fallback \notin LiveTiers
    /\ MaxLines \in Nat /\ Null \notin {"pro", "max", "enterprise", "account"} \cup Remotes

\* Null is no terminal and no host key.
ASSUME TerminalsAssumption == Null \notin TermIds /\ Null \notin HostKeys

\* A runtime stops after an iteration at least, whatever limit it asks for; Null is no number.
ASSUME RuntimeAssumption ==
    AskedLimits \subseteq Nat \ {0} /\ NoopLimit \in Nat \ {0} /\ Null \notin Nat

ClientFoci == {"socket", "relay", "repository", "agents", "hostkeys", "terminals", "screens", "bridge",
               "events", "sandbox", "anchor", "keysweep", "statements", "inspections", "bridgeclient",
               "kgtools", "loopclient"}

\* Of the component in focus; the others rest.
While(clients, p) == client \in clients => p
Idles(clients, v) == IF client \in clients THEN TRUE ELSE UNCHANGED v

\* A component that is not in client has no state.
ClientsInit ==
    /\ IF client \in {"socket", "relay", "repository"} THEN Rpc!Init
       ELSE /\ call = Null /\ frames = Null /\ envelopes = Null /\ ran = Null /\ up = Null /\ answers = Null
            /\ relay = Null /\ holder = Null /\ cooling = Null /\ visit = Null /\ cached = Null
            /\ root = Null /\ upset = Null
    /\ IF client = "agents" THEN Local!Init
       ELSE /\ child = Null /\ entry = Null /\ launch = Null /\ waiter = Null /\ daemonSession = Null
            /\ agentCalls = Null /\ quit = Null /\ excused = Null
    /\ IF client \in {"hostkeys", "terminals"} THEN Terms!Init
       ELSE /\ kind = Null /\ knownHosts = Null /\ sess = Null /\ mapped = Null /\ endings = Null
            /\ hook = Null /\ unclaimed = Null
    /\ IF client \in {"screens", "bridge", "events"} THEN Cons!Init
       ELSE /\ view = Null /\ plans = Null /\ planCursor = Null /\ offline = Null /\ plan = Null
            /\ payUrl = Null /\ signedIn = Null /\ loading = Null /\ shownError = Null /\ email = Null
            /\ otp = Null /\ apiCalls = Null /\ codesSent = Null /\ edited = Null /\ left = Null
            /\ keyFile = Null /\ admitted = Null /\ sessionKey = Null /\ seat = Null /\ remoteTerms = Null
            /\ offered = Null /\ picked = Null /\ inp = Null /\ outp = Null /\ rsz = Null /\ ownStep = Null
            /\ ended = Null /\ peer = Null /\ crash = Null /\ arrived = Null /\ scanned = Null /\ fed = Null
            /\ scanner = Null
    /\ IF client = "sandbox" THEN Sandbox!SandboxInit
       ELSE machine = Null /\ conf = Null /\ link = Null /\ confined = Null
    /\ IF client = "anchor" THEN Sandbox!AnchorInit
       ELSE chain = Null /\ author = Null /\ reader = Null
    /\ IF client = "keysweep" THEN Sandbox!SweepInit
       ELSE pidOf = Null /\ alive = Null /\ sweep = Null
    /\ IF client = "statements" THEN Inspect!TextInit ELSE stmt = Null
    /\ IF client = "inspections" THEN Inspect!QueryInit
       ELSE inspection = Null /\ tx = Null /\ inspected = Null
    /\ IF client = "bridgeclient" THEN Bridge!ClientInit
       ELSE socket = Null /\ reply = Null /\ served = Null
    /\ IF client = "kgtools" THEN Bridge!KgInit
       ELSE /\ who = Null /\ kgTool = Null /\ pool = Null /\ spare = Null /\ embedder = Null
            /\ published = Null /\ asked = Null
    /\ IF client = "loopclient" THEN Bridge!LoopInit ELSE guarded = Null /\ runtime = Null

\* Only the component in client takes steps.
ClientsRest ==
    /\ Idles({"socket", "relay"}, rpcVars)
    /\ Idles({"repository"}, repoVars)
    /\ Idles({"agents"}, agentVars)
    /\ Idles({"hostkeys", "terminals"}, terminalVars)
    /\ Idles({"screens"}, screenVars)
    /\ Idles({"bridge"}, bridgeVars)
    /\ Idles({"events"}, streamedVars)
    /\ Idles({"sandbox"}, confinedVars)
    /\ Idles({"anchor"}, anchorVars)
    /\ Idles({"keysweep"}, sweepVars)
    /\ Idles({"statements"}, stmtVars)
    /\ Idles({"inspections"}, inspectedVars)
    /\ Idles({"bridgeclient"}, clientVars)
    /\ Idles({"kgtools"}, kgVars)
    /\ Idles({"loopclient"}, runtimeVars)

ClientsStep ==
    \/ client = "socket" /\ Rpc!SocketNext
    \/ client = "relay" /\ Rpc!RelayNext
    \/ client = "repository" /\ Rpc!RepoNext
    \/ client = "agents" /\ Local!Next
    \/ client = "hostkeys" /\ Terms!KeyNext
    \/ client = "terminals" /\ Terms!PanelNext
    \/ client = "screens" /\ Cons!ScreenNext
    \/ client = "bridge" /\ Cons!BridgeNext
    \/ client = "events" /\ Cons!StreamNext
    \/ client = "sandbox" /\ Sandbox!SandboxNext
    \/ client = "anchor" /\ Sandbox!AnchorNext
    \/ client = "keysweep" /\ Sandbox!SweepNext
    \/ client = "statements" /\ Inspect!TextNext
    \/ client = "inspections" /\ Inspect!QueryNext
    \/ client = "bridgeclient" /\ Bridge!ClientNext
    \/ client = "kgtools" /\ Bridge!KgNext
    \/ client = "loopclient" /\ Bridge!LoopNext

\* The focus may lie elsewhere, and the clients rest.
ClientsNext == UNCHANGED client /\ ClientsRest /\ (client \in ClientFoci => ClientsStep)

ClientsSpec == ClientsInit /\ [][ClientsNext]_clientsVars
-----------------------------------------------------------------------------
(* The properties of each component, stated in its module.                 *)

\* A signed call of Studio runs once and gets its own answer, and a retry heals a lost root; Studio
\* lists its children and ends their sessions; host keys stay pinned, no terminal is left behind; the
\* console's bridge ends its goroutines and its reader of event streams loses no line; a call of the
\* tools' bridge settles with its own answer, an episode carries the identity that asked, a runtime
\* stops at its loop's limit; an agent runs where its sandbox hides what it must, a file of root's is
\* root's, no agent with a live process is swept; an inspection leaves one receipt.
ClientsAreExact ==
    /\ While({"socket", "relay", "repository"}, Rpc!TypeOK)
    /\ While({"socket", "relay"}, Rpc!SignedRunsOnce /\ Rpc!AnswersAreOwn)
    /\ While({"repository"}, Rpc!RetriesHeal)
    /\ While({"agents"}, Local!TypeOK /\ Local!ChildrenAreListed /\ Local!EndIsHonest /\ Local!SessionsFollowAgents)
    /\ While({"hostkeys", "terminals"}, Terms!TypeOK)
    /\ While({"hostkeys"}, Terms!KeyIsPinned)
    /\ While({"terminals"}, Terms!NoStrays)
    /\ While({"bridge"}, Cons!BridgeEnds)
    /\ While({"events"}, Cons!StreamIsFaithful)
    /\ While({"sandbox"}, Sandbox!TypeOK /\ Sandbox!SecretsStayHidden /\ Sandbox!WorkIsThere /\ Sandbox!ConfinedUnlessAsked)
    /\ While({"anchor"}, Sandbox!RootsFileIsRead)
    /\ While({"keysweep"}, Sandbox!DeadAreDead)
    /\ While({"inspections"}, Inspect!TypeOK /\ Inspect!OneReceiptEach /\ Inspect!NoOpenTransaction)
    /\ While({"bridgeclient"}, Bridge!ClientTypeOK /\ Bridge!CallsSettle)
    /\ While({"kgtools"}, Bridge!EpisodesAreOwn)
    /\ While({"loopclient"}, Bridge!RuntimeStops)

\* A terminal that Studio shows is one it can reach; the console warns of old prices, takes payment for
\* the plan it names, asks for a code where one was sent, waits only for what is on its way, and leads
\* a session only to terminals there are, with a key that was listed.
ConsoleIsTruthful ==
    /\ []While({"terminals"}, Terms!ShownIsReal)
    /\ []While({"screens", "bridge", "events"}, Cons!TypeOK)
    /\ []While({"screens"}, Cons!PricesAreFlagged /\ Cons!PayForSelected)
    /\ []While({"screens"}, Cons!CodeWentThere /\ Cons!LoadingHasCall)
    /\ [][While({"bridge"}, Cons!ListedReach)]_bridgeVars
=============================================================================
