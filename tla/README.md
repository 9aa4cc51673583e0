# TLA+ models of RevDev

RevDev runs a local daemon (`packages/daemon`) through which coding agents
coordinate: they register sessions, reserve files, share a task board, ask for
permission, run processes and loops, and use repositories and models.  Studio
(`apps/studio`, a desktop application), the console (`apps/console`, an SSH
server) and the bridge (`packages/bridge`) are its clients.  The daemon is one
Node process around an embedded database (PGlite); it copies part of its state
to a shared Postgres (Neon) and asks a hosted authority about its licence.

This directory models the daemon, the bridge, the database inspector, the parts of
Studio and the console that keep state of their own, and the scripts that issue
licences; it checks the models with TLC and proves part of them with TLAPS.

## 1. Inventory

Everything the daemon does is done by asynchronous handlers in one process.
There are no threads; the interleavings come from `await`.  Between two awaits
a handler runs alone, and one `db.query` is atomic.  So throughout:

> **one action = one statement on a store, together with the code that runs
> before the next await.**

Studio's front end is of the same kind (promises and React's state), its back
end runs commands on several threads, and the console runs goroutines; there one
action is what happens under one lock, or between two operations another thread
can see.

| component | state | what is hard | what makes it correct | module |
|---|---|---|---|---|
| RPC pipeline (`dispatchRpc`, `verifyOrWarn`, `requireVerifiedAgent`) | `SocketContext` per socket, nonces, `_activeHandlerCount` | the context is shared by all frames of a socket, every gate awaits | a handler acts for a proven principal; an envelope runs once | `Dispatch` |
| shutdown (`close()`) | `_closing`, sockets, database | requests in every phase at every step | no handler on a closed database; `close()` ends | `Dispatch` |
| what may run (`permission.ts`, `server.ts`) | method tables, mode, deny-list, trust anchor | five tables that have to agree, read at different times | critical calls are asked for; only operators use their door | `Policy` |
| approvals | `pending_approvals`, blocked mark | gate and decision take several statements | single use, bound to agent and call, decisions final, queue bounded | `Approvals` |
| grants | `permission_grants` | listed and spent by separate statements | limits, and critical calls are named | `Grants` |
| identity (`session.register`, `identity.rotate`) | identity and key rows | several statements without a transaction | one key signs; it came from the anchor; retired keys stay retired | `Identity` |
| sessions and their mirror | `agent_sessions`, `coordination_sessions` | copies overtake each other or fail | the fleet sees what is open | `Sessions` |
| mail and its mirror | `agent_messages`, `coordination_mail` | as above, and marks | the fleet's mail is the local mail; marked by the recipient only | `Mail` |
| reservations | `file_reservations`, Neon claims | lookup and write are two statements | no row without a holder that knows | `Reservations` |
| task board | `tasks`, Neon work items, events | local and Neon statements interleave | one owner per task; completions announced | `Tasks`, `TaskOwnership` |
| licence check (`guard.ts`, `license-authority.ts`) | trust generations, trust set | two network calls, answers out of order, keys rotate | no permission under replaced trust or a dead token | `LicenseTrust` |
| revocation store (`revoked-jtis.ts`) | list, lock file | crash with the lock held, failing writes | a reported revocation stays and is enforced | `Licences` |
| loop guard | registry in memory | long legal sequences; session ends in between | loops hang on live sessions; limit and account hold | `LoopGuard` |
| project roots (`filegit.ts`) | `registeredRoots`, `project_roots` | directories move, context re-read, restart | roots apart, owned, reached by the opened path only | `ProjectRoots` |
| file and worktree calls (`filegit.ts`, `vcs.ts`) | tree on disk, worktree rows | links swapped between check and use | changes stay inside; rows name real worktrees | `Files` |
| processes (`spawn.ts`) | PTY registry, `agent_processes` | exit before registration, stop against exit, restart | rows accounted for; cap; output complete | `Processes` |
| confinement (`confinement.ts`, `agent.spawn`) | backend, links of the hidden paths, mounts and environment of a spawn | order of mounts, links that lead elsewhere, swaps while a path is walked | nothing hidden is seen; nothing runs unconfined unasked; root's file is root's | `Confinement` |
| key sweep (`agent-key-gc.ts`) | verdicts per agent | two queries and a probe while processes come and go | the dead are dead | `Confinement` |
| goals (`goals/`) | goals, criteria | read and write in separate statements | done is earned; closed is final | `Goals` |
| HTTP gateway | secret, nonces, limiter, tokens, tickets, streams | expiry, eviction, restart, overlapping attempts | one-time credentials; guesses slowed; streams counted | `Gateway`, `Once` |
| knowledge graph | outbox, shape, replica, cursors, communities | several sites, duplicates, crashes | replica converges; facts are ingested, and one source once | `Replica`, `Knowledge` |
| events (`events.wait`, bus) | rows, bus, waiters | deadline against late poll against bus | no missed event | `Mail` |
| design pack watch | snapshot, debounce, scan flag | changes during a scan | at rest the pack is known; moves in order | `PackWatch` |
| start, stop, idle, migrations (`cli.ts`, `migrate.ts`, `idle-stop.ts`) | pid file, socket path, schema | only a look at the pid file keeps two starters apart; closes and failed starts beside new ones; crash in a migration | one daemon, found, on its schema | `Startup` |
| model calls (`openrouter.ts`, `skill-invoke*.ts`) | chain, receipts | failure and fallback at each step | what ran is booked; training is opted into | `Inference` |
| tool guard (`tool-guard/`) | none; text to verdict | quoting, nesting, wrappers, order of matchers | exactly the commands set apart by blanks or quotes are read | `ToolGuard` |
| database inspector (`db-inspector/`) | transaction, receipts; text to verdict | quoting and comments around the wrapper; failure at each statement of a query | the wrapper holds; one receipt per query, read only, within limits | `Inspector` |
| tools and schemas (`bridge/src/index.ts`, `validation/`) | none; parameters to verdict | about fifty tools, their schemas and handlers, written apart | the daemon takes what a tool sends, and reads it | `Contract` |
| bridge clients (`client.ts`, `kg-tools.ts`, `loop-contract.ts`) | a socket and timer per call, shared executor, iterations | answers in pieces, late, or lost; identity files change; sessions end | calls settle with their own answer; episodes are one's own; a runtime stops | `Bridge` |
| licence scripts (`scripts/`) | receipts, vault | crash between promotion and its record | the licence in force is a registered one | `Licences` |
| Studio's RPC client and relay | retries, live relay, cool-down | late answers on a shared pipe | signed calls run once; answers are one's own | `StudioRpc` |
| Studio's sign-in and licence | tokens, managed licence file | a sign-out or new sign-in between the questions of a pass | a pass acts for the session it began in | `StudioAuth` |
| Studio's local agents | children, entries, daemon sessions | exit, stop and removal overlap | children listed, ends honest, sessions follow | `LocalAgents` |
| Studio's terminals | known hosts, sessions, hook | ends before the listener, overlapping connects | key pinned, no strays, shown is real | `Terminals` |
| Studio's git panel | status, selection, diff | answers out of order, paths that change under them | what is shown is fresh and of the selection | `GitPanel` |
| Studio's deploy wizard | configuration, attempts | whole-record writes of stale copies | drafts kept, steps stay, ready is the latest | `DeployWizard` |
| Studio's services | daemon, engines, profile, env file | partial failure, hand-started engines | the tier holds; control reports what happened | `StudioServices` |
| Console | payment screens, bridge, event reader | late messages, teardown of goroutines | screens truthful, bridge ends, stream faithful | `Console` |

The hazards, each at its line and with the properties that cover it, are the
`hazards` of `PROJECT.json`.

## 2. Modules

There are three kinds.

- **Core modules** with runs of their own: `Dispatch`, `Approvals`, `Tasks`
  (implementing `TaskOwnership`), `LicenseTrust`, `Reservations`.  The proofs about
  `Dispatch` are in `Dispatch_proofs`, those about the others at the end of the module
  itself.  `MCDispatch` and `MCLicenseTrust` instantiate two of them for TLC;
  the others are checked as they stand.
- **Component modules**, one per further part, all checked by the one run
  `components` of `MCComponents`.  `Daemon` puts those side by side that make up one
  daemon, and `Daemon_proofs` and `Agents_proofs` are about it; `Clients` those who talk
  to a daemon or work beside it, and `Clients_proofs` is about it.
- **Abstract specifications**: `TaskOwnership` (what the board is for) and `Once`
  (what a one-time credential promises).

### Dispatch

A request slot `r` has a place `pc[r]`; the places before the handler are the awaits
of `dispatchRpc`: `license` (for a licensed method, the call of the authority), `key` and
`nonce` (the queries of `verifyOrWarn`, for a signed call), `permission` (the session row,
for a request that names an agent).  Those inside (`origin`, `body`, `tail`) are the awaits
of a handler: the `key_origin` query of `requireVerifiedAgent`, its statement, and what it
awaits behind it.  A gate that has nothing to wait for is passed in the same run of the
event loop: `guard.ts:226` returns at once for a licence-exempt method, and a request
that names no agent is let through to the `door` of its handler without a query.  Such a
request is `Running`, and nothing else moves until it has come to its next await
(`Turn`, `LoopIsFree`); so an exempt request cannot outwait `close()` in front of the
gates.  `ctx[s]` is the `SocketContext` of a socket, with the saved pre-signature binding.
`PassLicense` is the synchronous head of `verifyOrWarn`, `CheckKey` and `RecordNonce` what
follows its two queries; `AfterVerify` is the signature and identity gate, which follow
without an await.

The about 150 methods are folded into six by what the gates do with them: `register` and
`attach` (exempt from licence and identity), `end` (signature required), `reserve`
(self-scoped coordination, licensed), `write` (signature required), `snapshot` (licensed,
exempt from identity: `context.snapshot`).  The tables themselves are in `Policy`.  Key
rows, hashes and the signature are one Boolean `good` of a call; time is `stale`, the
nonces of envelopes that are out of the 60 s window.  The agents `ClientOwned` hold their
own key; how they get it is in `Identity`.

`close()` is `BeginClose`, `DestroySockets`, `CloseDatabase` and
`ResetClosing`.  `GraceMayExpire` says whether the grace period (5 s) may end
before the handlers do.

Left out: parameter validation and unknown methods (they answer without
touching state), telemetry, response writing, and `session.update`-like
methods that act as `reserve` does here.

### Approvals

`status`, `owner`, `bound` and `lapsed` are the columns of
`pending_approvals`.  A request at the gate goes through `ExpireAtGate`,
`Consume` or `NothingToConsume`, `CountPending`, `Queue`, `MarkBlocked`; a
decision through `ReadRow`, `WriteDecision`, `ClearBlocked`.  `Deciders` stand
for calls of a trusted operator other than the requester: the handler turns
everybody else away before it touches a row.  `uses` is a history variable.

### Tasks and TaskOwnership

`local` is the PGlite row, `neon` the mirrored one; each request makes its
local statement, then its statement on Neon (`MirrorSucceeds` or `MirrorFails`;
the helpers of `neon.ts` swallow errors), and a completion then announces.
`told` is a history variable: who was told it owns a task and has not asked to
release it.  `settled` is one too: the tasks whose last completion has been
announced, or whose announcement died with the daemon.  An agent has one
request in progress at a time.  `TaskOwnership` says what the board is for: a
pair is granted only if nobody else has the task.  `Tasks` implements it with
`owners <- told`.

### Reservations

`holder` is the live row of each path; a row past its time is no row, as every
query filters it and every reserve overwrites it.  `Lookup` and `Write` are the
two statements `files.reserve` makes per path.  `told` is a history variable as
above; `over` keeps the paths whose time was up, or whose client had gone,
before the reply, and `missed` the pairs whose last claim failed on Neon.
`LeaveEarly` says whether a client may go before it has its answer.

### LicenseTrust

The three generations of `license-authority.ts` and one record per check:
where it is, the token and the request generation it started with, the trust
set it received and under which accepted generation.  Trust sets are sets of
keys; a digest is the set itself.  The answers of the authority
(`AnswerTrust`, `AnswerVerify`) are formed at one time and read at a later one.
Tiers and customer ids are left out: they are part of the token.

### The component modules

Each has its own variables, `Init`, `Next` (or one next-state relation per part)
and properties; the header of each names the files it models, `map` in
`PROJECT.json` the lines of each definition, but for small helpers whose lines lie within
those of the definitions that use them.  A Boolean history variable of the
kind `crossed`, `raced`, `overlapped`, `excused`, `upset`, `unsure` records that
something happened under which the code does **not** keep the property; section 6
says what.  In `Goals`, `PackWatch`, `StudioAuth`, `DeployWizard`,
`StudioServices` and the screens of `Console` the behaviour ends there.

**`Policy`** The tables `Routine`, `Consequential`, `Critical`, `IdentityExempt`,
`Signed`, `Door` are those of `permission.ts` and `server.ts`, method by method.
A request goes through `Request`, `Verify`, `Gate`, `Approved` or `Answer` and
`Handle`; `default`, `override`, `anchor` and `denied` may change between any two.
`Decide` is `decideEnforcement`, `Would` the shadow evaluation.  `ShadowForetells`:
what the shadow audit says about a mode is what that mode does.  `FloorHolds`: an
unknown mode or an unlisted method is no way around an approval.
`UnsignedIsMinor`: what runs unsigned.  `DoorIsOperators`, `OnlyOperatorsAct`: the
operator is never locked out, nobody else acts.  `MatchIsBySegment` and
`DeniedHoweverNamed` compare the string operations of the deny-list with a
definition over path segments, for all paths and entries up to the bounds.

**`Grants`** `Resolve`, `Enforce`, and `TryGrant` once for each row of the
selection, against `IssueGrant`, `EndGrant` (expiry or revocation) and `SetMode`.
`LimitsHold`: uses and what is left add up to what was issued.  `CriticalIsNamed`.

**`Identity`** Enrolment and rotation statement by statement over rows `row` and
`keys`; a crash may cut one off.  `OneKeySigns`, `ClientKeysAreTrusted`,
`Retired`.

**`Sessions`, `Mail`** A handler writes its local row, then the copy in Neon,
which may fail, or be overtaken.  `FleetSeesSessions`, `FleetMailIsLocal`,
`MarkedByOwner`.

**`LoopGuard`** `session` is the row of an agent, `loop` the registry, with status,
streak, limit and what was spent (the three counters are one).  All access to the
registry is synchronous behind the last query of its handler, so a handler is one
action.  `LoopsAreLive`, `ProgressClears`, `ResumeOverrides`,
`SpendStays`.

**`ProjectRoots`** `dir` is what stands at each path, `roots` and `rows` the map in
memory and its table.  `project.open` reads, resolves, checks and registers in
steps while directories are moved and sessions end.  `RootsAreApart`,
`RootsAreOwned`, `AccessIsByOpenedPath`.

**`Files`** A file call resolves its path, is refused or performed, while the final
component of any name is swapped (`FileNext`); `git.createBranch`,
`git.deleteBranch`, `worktree.create` and `remove` over rows and branches
(`TreeNext`).  `FileCallsStayInside`, `WorktreesAreReal`.

**`Processes`** `agent.spawn` checks the cap, forks, writes the row and registers;
the exit callback, `agent.stop`, `agent.remove`, session end, restart and the
polling client go on beside it.  `RunningRowsAreAccountedFor`, `CapHolds`,
`DoneMeansAllRead`.

**`Confinement`** `agent.spawn` makes the agent's home, asserts that the granted root
can be bound, builds mounts and environment and starts the process, on each kind of
host and while the paths that must stay hidden become links to other places
(`SandboxNext`); a path shows what the last mount above it put there (`Shows`), so the
order of the arguments matters.  `readRootOwnedFile` walks the directories above a file
while another user replaces what is his (`AnchorNext`).  The sweep of agent keys reads
sessions, then processes, then probes pids (`SweepNext`).  `SecretsStayHidden`,
`WorkIsThere`, `ConfinedUnlessAsked`, `RootsFileIsRead`, `DeadAreDead`.

**`Goals`** Each method reads what it decides on in one step and writes in another;
tasks and other goals move in between.  `GoalsAreEarned`, `StaysClosed`.

**`Gateway`** The bootstrap secret and its record, nonces and pairing, limiter and
lock-outs, bearer tokens (`PairNext`); tickets and streams (`StreamNext`).  Both
implement `Once`, with an initial state that maps to one of its own and steps that map
to steps or stutters (`PairingStarts`, `PairsOnce`; `StreamingStarts`, `StreamsOnce`).
`KeyIsOnRecord`, `GuessesAreSlowed`, `StreamsAreCounted`.

**`Replica`, `Knowledge`** Outbox, hub, shape log and pull with the merge of rows by
level; the reconcile cursor with its episodes; communities by union-find against
the definition of a component.  `PushedIsOnHub`, `CursorIsBehindReplica`,
`NeverBack`, `FactsAreIngested`, `EpisodesAreOnce`, `ComponentsAreFound`,
`CommunitiesAreDisjoint`.  `Knowledge` groups the facts that are fetched together by their
content, as `reconcileHeuristicLocal` does, and an episode is of the set of their ids, as
`episodeSource` joins them; reconciliations are of all sessions or of one, over one cursor.
`jumped` are the facts it passed for another session, `regrouped` those fetched under a
second source, and the properties say how far those go.

**`Mail`, the events** (`FeedNext`) The events table, the bus, the polls of
`events.wait` and its deadline, and clients that wait again from the last row they were
given.  `FeedIsComplete`.

**`PackWatch`** Changes, file system events, debounce, scan, persistence.
`RestIsKnown`, `MovesAreInOrder`.

**`Startup`** Processes that write the pid file, migrate, listen, serve, idle and close;
started at once or by `--detach` (`Start`), whatever is there, or by `--ensure`
(`ReadPid`, `Clean`, `Spawn`), whose ping may fail at any time; crashes and failures at
every step, signals (before `startDaemon` returns they end the process as a crash does);
builds that know different migrations.  A start takes the pid file and the socket path over, a
failure or a close removes them, whomever they name.  `crossed` says that the last start
or clean-up began while another process or caller was about (`Around`); it is forgotten
with the first one after all of them have gone.  `torn` says that two have worked on the
data directory at once.  
`OneDaemon`, `ServingIsFound`, `SchemaFits`, `IdleIsTimed`.

**`Licences`** The two licence scripts: the hosted operation, its receipt, the
conditional write of the vault, promotion, recovery by another run (`PromotionNext`);
`LiveStays`, `ContainmentIsRecoverable`.  The local revocation store: writers take the
lock file, read, write a temporary file, rename and unlink; readers load; each may crash
or fail (`RevocationNext`).  `RevocationsStay`, `RevokedIsRefused`: a reader never
allows what is revoked, an unreadable list included.

**`Inference`** `openRouterChat`: the chain of models, one exchange with its retry,
the receipt; `runSkillInvokeRuntime`: rounds and tools.  `ReceiptsAreKept`,
`TrainingIsOptIn`, `TraceIsTrue`.

**`ToolGuard`** Pure functions over inputs that a behaviour builds character by
character, or word by word, with separators that touch the words beside them or do not:
the ordered matcher against the definition by existence of positions (`GreedyIsExact`),
the quote-aware tokens (`NothingIsHidden`: no character is lost), the commands that are
read, which are those of the writer but for separators that touch a bare word
(`CommandsAreRead`), what is seen of a command handed to another shell as `-c x`, `-cx`,
`eval x` and `-lc x` (`NestedIsSeen`), and behind wrappers, some with flags that take a
value (`WrappersAreSeenThrough`).  The last three state what is not seen as well.

**`Inspector`** A text is built from the pieces of an alphabet (`TextNext`); `Scan` is
the scanner with its quotes, dollar quotes, comments and numbers, `Guarded` the guard
behind it.  `WrapperHolds`: within the inspector's own `SELECT`, what passed the guard
is read as it was read alone.  `GuardIsStable`.  `runInspectQuery` goes through its
statements, any of which may fail or time out, with the transaction of a session that
is used again (`QueryNext`).  `OneReceiptEach`, `NoOpenTransaction`.

**`Contract`** What each tool of the bridge sends (`BridgeTools`), what the schema of its
method accepts (`Schemas`) and what the handler reads (`Handlers`), with the values
that a schema tells apart.  A call is sent, validated, identified, handled and
answered.  `ToolsMatchDaemon`, `UnsignedIsLimited`, `MethodsAreKnown`; the tables of
methods are those of `Policy`.

**`Bridge`** A call of `DaemonClient` over its socket, with its inactivity timer and an
answer that comes in pieces (`ClientNext`); the kg tools, which read the identity files,
wait for the one executor and race a timer against their transaction (`KgNext`); the
runtime that arms, ticks and re-arms a loop (`LoopNext`).  `CallsSettle`,
`EpisodesAreOwn`, `RuntimeStops`.

**`StudioRpc`** The attempts of a call over a socket (`SocketNext`) and over the
relay that all calls share (`RelayNext`), and the cache of opened roots with its
one retry (`RepoNext`).  `SignedRunsOnce`, `AnswersAreOwn`, `RetriesHeal`.

**`StudioAuth`** Restore, sign-in, refresh and sign-out against the provisioning
pass and the two files it writes.  A pass notes when a sign-out began under its last
question, and `robbed` what a wipe that followed was due to.  `WipeIsEarned`, `OperatorStays`,
`ManagedIsMarked`, `SignedOutIsGone`.

**`LocalAgents`** `agent_spawn`, the waiter thread, stop, removal, `kill_all`, and
the session at the daemon.  `ChildrenAreListed`, `EndIsHonest`,
`SessionsFollowAgents`.

**`Terminals`** Host keys over connection attempts (`KeyNext`); the map of sessions,
pumps, end events and the hooks of SSH and local terminals (`PanelNext`).
`KeyIsPinned`, `NoStrays`, `ShownIsReal`.

**`GitPanel`** Two repositories with one file each (HEAD, index, work tree, unmerged);
status, branches, diff, staging, commit, discard, switch, push and pull over
overlapping calls whose answers come back in any order.  The diff that is shown carries its
repository and side; `late` are the diff requests whose selection has changed since they were
sent, `strayed` says that one of them, or one kept over a change of path, is on the screen.
`PanelIsFresh`,
`ListsAreExact`, `RemoteIsOwnBranch`, `DiffIsOfSelection`.

**`DeployWizard`** The stored configuration, the copies two components hold of it,
writes on their way (`WizardNext`); deployment attempts, polling, cancelling and
retrying (`DeployNext`); migration and seeding of the database that was tested
(`DatabaseNext`).  `DraftIsKept`, `StepsInOrder`, `StepsRemain`, `ReadyIsLatest`,
`CancelHolds`, `DatabaseIsTested`.

**`StudioServices`** Start, stop and restart of the daemon (`DaemonNext`), resource
tiers over engines, profile and environment file (`TierNext`), the polling hook
(`PollNext`).  `OkIsTrue`, `TierHolds`, `ShellFollowsProfile`,
`NotOlder`.

**`Console`** The payment screens with every message and key in any order
(`ScreenNext`), the agents session and the goroutines of its bridge
(`BridgeNext`), the reader of event streams (`StreamNext`).  `PricesAreFlagged`,
`PayForSelected`, `CodeWentThere`, `LoadingHasCall`, `BridgeEnds`,
`ListedReach`, `StreamIsFaithful`.

### Daemon and MCComponents

The component modules share no variable.  Exploring them together would multiply
state spaces and show nothing: no step of one reads what another writes.  A
composition instantiates them and chooses, in the initial state, the one part
(`focus`) that moves; the others have no state (`None`) and stay so.  A behaviour of
the composition is therefore a behaviour of one part, each part has all of its own,
and the run reaches exactly the sum of their state spaces.  `Daemon` composes the
parts of one daemon about which something is proved, with the constants and the
assumptions the proofs use.  `Clients` does the same for those who talk to a daemon or
work beside it: Studio's RPC client, its local agents and its terminals, the console, the
bridge, the sandbox, the key sweep and the inspector; its focus is `client`, its absent
value `Null`.  Neither module mentions the other.  `MCComponents` EXTENDS both, lets one
of the two move (the focus "clients" hands over to `client`), and adds the tool guard, the
tables of `Contract` and the screens of Studio.  Where the initial states of a part differ only by symmetry
`MCComponents` fixes one (`DaemonAtStart` and its neighbours).  Where parts do interact
the interaction is inside of one module: sessions and loops (`LoopGuard`), sessions and roots (`ProjectRoots`),
sessions and processes (`Processes`), the board and goals (`Goals`), the sign-in and
the licence the daemon reads (`StudioAuth`), retries of Studio and the nonces of the
daemon (`StudioRpc`), Studio's start and stop and the daemon's start-up
(`StudioServices`).

The properties of `Daemon`, `Clients` and `MCComponents` are conjunctions, by the kind of promise,
of properties stated in the component modules, so that the run names what is violated
by its kind, and the module says what it is.

| property | stated in | conjoins |
|---|---|---|
| `OneDaemonServes` | `Daemon` | `Startup` |
| `LoopsAreGuarded` | `Daemon` | `LoopGuard` |
| `AccessIsConfined` | `Daemon` | `ProjectRoots`, `Files` |
| `AuthorityHolds` | `Daemon` | `Grants`, `Identity`, `Policy` but for its deny-list |
| `ClosedStaysClosed` | `Daemon` | what is final: `Goals`, the keys of `Identity` |
| `GatewayIsGuarded` | `Daemon` | `Gateway` |
| `LicencesAreKept` | `Daemon` | `Licences` |
| `ProcessesAreAccounted` | `Daemon` | `Processes` |
| `FeedsAreComplete` | `Daemon` | the events and the mail of `Mail`, `PackWatch`, `Sessions` |
| `GraphIsFaithful` | `Daemon` | `Replica`, `Knowledge` but for what its union-find computes |
| `ModelCallsAreGuarded` | `Daemon` | `Inference` |
| `ClientsAreExact` | `Clients` | `StudioRpc`, `LocalAgents`, host keys and sessions of `Terminals`, the bridge and the reader of `Console`, `Confinement`, the queries of `Inspector`, `Bridge` |
| `ComputationsAreExact` | `MCComponents` | `ToolGuard`, the deny-list of `Policy`, the union-find of `Knowledge`, the guard of `Inspector`, `Contract` |
| `ScreensAreTruthful` | `MCComponents` | `StudioAuth`, `GitPanel`, `DeployWizard`, `StudioServices`, and `ConsoleIsTruthful` of `Clients`: the screens of `Console`, who reaches its terminals, and what `Terminals` shows |

The properties also say that the state of each part is of its type.

## 3. Runs

The bounds are named by constants or are the sizes of the sets in the `.cfg`, or, for
the components that are in neither `Daemon` nor `Clients`, in `MCComponents`.

| run | instance | shows |
|---|---|---|
| `dispatch_sequential` | 2 agents (one client-owned), 2 sockets, 3 requests, `Pipelined = FALSE` | `EnvelopeAcceptedOnce`, `PrincipalIsProven`, `SnapshotIsConnectionLevel` for clients that wait for their answers, over replays on a second socket, sweeps of the nonces, tampered envelopes and shutdown |
| `dispatch_shutdown` | 2 sockets, 2 pipelined requests of every kind of handler, `GraceMayExpire = FALSE`, fair | the drain counts exactly the running handlers (`ActiveIsExact`) and ends (`CloseTerminates`), the database closes on none of them (`ClosedDatabaseIsQuiet`), every request settles (`EveryRequestSettles`) |
| `approvals_serial` | 2 agents, 2 calls, 3 ids, 2 gates, 1 decider, `MaxPending = 1` | `SingleUse`, `VerdictIsFinal`; `PassesAreApproved`: no call of an agent is let through more often than it was approved; `PendingBounded`: the cap is exceeded by at most the requests between count and INSERT |
| `tasks_board` | 3 agents, 1 task, failing Neon, restarts, fair | `OwnershipSpec` (refinement of `TaskOwnership`), `OpenIsUnowned`, `CompletionAnnounced` |
| `license_turbulent` | 2 checks, 2 trust sets, 2 tokens, failures, revocation, restarts, `MaxGen = 3` | `TrustIsOfThisLifecycle`, `AllowedUnderOneTrust`, `NewerTrustWins` |
| `license_calm` | 3 checks, one licence under one key, failures and restarts, fair | `SomeCheckSucceeds`: if nothing fails, overlapping checks cannot all deny each other; `TrustRecovers`: of a check that sets out when the authority is well again, and those that overtake it, one is allowed, whatever earlier fetches are still about |
| `reservations_overlap` | 2 agents, 2 paths, failing Neon, `LeaveEarly = FALSE` | `HolderKnows`, `FleetSeesHolder` |
| `components` | each component module, over interleavings, faults and restarts | the fourteen properties of section 2 |

Four further runs end in a counterexample: they state something a comment or a
document says and the code does not do; `findings` in `PROJECT.json` quotes both
sides.

| run | what it shows |
|---|---|
| `dispatch_pipelined` | two signed frames in flight on one socket: the second saves the first one's signature as the connection binding |
| `dispatch_late` | a licensed request without identity (`context.snapshot`) waits for the licence authority over the whole of `close()`, finds the gate open again and runs on a closed database |
| `approvals_twodeciders` | a decision that read the row earlier revives a consumed approval |
| `reservations_doublegrant` | two agents are both told they reserved a path |

Every passing run of a core module also checks its `TypeOK`, except that `Dispatch`
does so in the sequential run only and `license_calm` not at all.

Why the bounds of the core runs are enough: two requests (checks, gates, agents)
are what any of the interleavings needs, since every decision in the code compares
one request with the shared state; the third request of `dispatch_sequential` is
the one that would exploit what two others leave in the context, the third
check of `license_calm` overtakes the one that overtook the first, and the
third id of `approvals_serial` is the first that `PendingBounded` forbids.  Two
sockets separate what a socket shares from what it does not.  Generations are only
compared, and `MaxGen` leaves room for a restart between any two steps of two
checks.  Where the properties are proved (section 4) they hold beyond the bounds.

The bounds of `components`, for the same reasons two of whatever overlaps, and
beyond that:

| part | bounds |
|---|---|
| loops | limits 1 and 2, default 3, `MaxStreak = 4` (one beyond the default), amounts 0 and 1 up to `MaxSpent = 2` |
| processes | 2 processes over a cap of 1, 2 chunks read 1 at a time: every page is full or last |
| roots | 3 paths, one below another, one a secret; `MaxChanges = 1` change of the file system per behaviour |
| files | names inside, in `.git` and outside, links between them; 2 calls; 2 branches |
| gateway | 2 nonces over a table of 1; 4 failures over a threshold of 1, so that the lock grows to its cap; 3 tickets over a table and a stream cap of 2 |
| grants | a limited grant of a class, and an unlimited, scoped one that names a critical method; every mode |
| identity | 3 keys: one provisioned for both agents, one for one of them, one for neither |
| licences | 3 operations of which 2 are rotations, 2 runs; 2 tokens, 2 writers and a reader |
| replica, facts, communities | 1 row at 2 levels, 1 push against 2 pulls, a log of 2; 3 facts of 2 sessions and 2 contents over a limit of 2, reconciled for all or for one session; every graph of 3 nodes with edges from 3 pairs |
| start-up | 3 processes of two builds, started by 2 callers of `--ensure` or without, 1 client each |
| feed, pack | a hot, an early and a plain type, 3 rows, 2 polls in flight per waiter; 2 changes, 2 scans |
| sessions, mail | 1 agent and 2 handlers; 2 agents, 2 mails, 2 handlers |
| Studio's RPC | 2 calls, one signed, 2 tries (3 in the code: the third meets nothing the second did not) |
| sign-in | 2 tokens: the first and its replacement |
| local agents | 1 agent, 3 calls of stop and remove: one more than can both find it |
| models, skills | 1 call over every outcome of every attempt; 3 rounds, 2 tools |
| texts, lines | all texts up to 5 characters, all lines up to 3 words in up to 2 commands, shells two deep (4 in the code: each level is treated as the one above) |
| terminals | 2 sessions, 2 host keys |
| git panel | 2 repositories, 2 branches, 1 content, 2 calls in flight |
| wizard, deployment, database | 3 steps of the three kinds of saving; 2 apps, 2 attempts; 2 databases |
| services | 2 processes, 2 overlapping controls; both snaps and Ollama; 2 fetches over 2 changes |
| console | 2 calls in flight of each kind; 1 key, 2 terminals; 4 lines of a stream |
| sandbox | 11 places, 6 hosts, every place a hidden path may lead to |
| anchor, sweep | 3 directories above the file; 1 agent with 2 pids, so that one may die or be used again while the other lives |
| statements | texts of up to 4 pieces of one of 3 alphabets: strings with their quotes and escapes, comments with brackets and semicolons, `WITH` and lists |
| inspections | limits and timeouts from 0 to beyond their maxima of 2; any number of queries one after the other over one session |
| tools | every tool, with ordinary arguments and at most one that is odd |
| bridge | 2 calls of the client; 3 of the kg tools, of which 2 write, over files that hold an identity or none; limits 1 and 3 over a default of 2 (3 in the code), 4 iterations |
| policy | every method of every table; paths up to 4 characters, entries up to 3 |

The runs set `CHECK_DEADLOCK FALSE`, because slots and ids are used once and a
stopped daemon does nothing: those states really are the end.

Symmetry is used for requests, agents, paths and ids where the core modules treat
them alike, and never in a run with a liveness property.

### Fairness

`Dispatch!RequestFairness`: a request that has arrived keeps moving, because
queries, the fetches with their 5 s timeout and the git children are all
bounded.  `CloseFairness`: `close()` runs on its own once begun.  Arrival,
disconnects and time are never fair.  `Tasks!LiveSpec`: local statements and
HTTP calls to Neon end, with a result or an error; `Ask` and `Restart` are not
fair.  `LicenseTrust!LiveSpec`: both calls have a deadline, so a check that
began moves on; nobody has to begin one.  The component modules state no fairness:
what has to happen eventually there (a loop's client ticks, a user presses a key, a
peer closes) is up to others, and what must not be forgotten is stated as safety of
the states at rest (`FeedIsComplete`, `RestIsKnown`, `BridgeEnds`, `LoadingHasCall`).

## 4. Proofs

`tlapm` checks eight modules, and with them every safety property that a passing run
checks of a core module, and of the fourteen properties of `components` the twelve of `Daemon`
and `Clients` and the part of a thirteenth that `Clients` states.  Each proof has the shape: an inductive invariant, the lemma that the initial
states satisfy it, one that every step preserves it (one step per action), and the
theorems that follow.  They hold for all values of
the constants that satisfy the assumption of the module; where a theorem needs more,
it says so in its `ASSUME`, and one of the runs of section 3 that end in a
counterexample shows that it has to, or the text below says why.

**`Dispatch_proofs`** (assumption `DispatchAssumption`: finitely many requests,
`None` is no agent and no nonce, signed calls carry a nonce, `register` and
`attach` name an agent).

- `TypeCorrect` and `HandlersCounted` rest on `CountInv`: the types without the bound
  of the counter (`Typed`), what is known of a request in front of its verdict
  (`Undecided`), and `ActiveIsExact` itself.  `TypeOK` alone is not inductive: a
  decrement stays in `Nat` only because the handler that leaves has been counted.
  `MoveKeepsHandlers`, `MoveIntoHandler` and `MoveOutOfHandler` say what a move of one
  request does to the set of handlers, `CountKept`, `CountEnter` and `CountExit` what
  that does to its cardinality.
- `DatabaseClosesQuietly` assumes `~GraceMayExpire` (a handler that outlives the grace
  period meets the closed database by design) and adds `Phases`: how `closer` relates
  to the gate, the database and the counter, with `GateHolds`, that a counter of zero
  stays there while the gate is down.
- `AcceptedOnce` adds `OnRecord`: the nonce of an accepted envelope is in the table
  until it is stale, and stays there while an INSERT of it is on its way; the second
  part is what the sweep could break.
- `PrincipalProven` and `SnapshotsAreBindings` assume `~Pipelined`, without which they
  are false (`dispatch_pipelined`).  `Alone` says that one request at a time is on its
  way on a socket; `Bound` follows it: up to its verdict the socket is not bound by a
  signature, after it by its own.  `FrameOfRequest` and `FrameKeepsBound` reduce a step
  to what it does for its own request, which is where the shared context is used up.

**`Tasks`** (`TasksAssumption`: `None` is no agent).  `BoardInv` says
that rows without a taker have no owner, that whoever was told it owns a task
owns its row (`ToldIsOwner`), that a claim stands until it is answered
(`ClaimStands`: the answer comes after the await on Neon), and that a release
withdraws what was told when it is asked for (`ReleaseWithdrawn`).  From it
follow `TypeCorrect`, `OpenRowsUnowned`, `OneOwnerPerTask`, and
`BoardImplementsOwnership`: the answer to a claim is a `Grant`, the request for a
release a `GiveUp`, everything else a stutter.

**`LicenseTrust`** (`LicenseTrustAssumption`: `None` is no trust set and
no token, tokens are signed by keys).  `TrustInv` orders the generations:
no fetch is newer than `requestGen`, the newest belongs to this lifecycle
(`FetchesOrdered`), what is accepted came from it (`AcceptanceOrdered`), and a
check that was upset holds a snapshot older than `acceptedGen`
(`SnapshotsOrdered`).  The last part is why a digest is not enough: a key set
that comes back has the same digest and a newer generation.  `TypeCorrect`,
`TrustNeverOutlivesLifecycle`, `NewestTrustStays` and `OneTrustPerCheck` follow.

**`Approvals`** (`ApprovalsAssumption`).  `TypeCorrect` holds as it
stands.  `ApprovalsAreSingleUse` and `VerdictsAreFinal` assume `SerialDecisions`
(no two `permission.decide` calls in progress together), without which they
are false (`approvals_twodeciders`).  `QueueInv` says that a used row is consumed
(`UsedIsConsumed`) and that the row a decision is about to write is pending or
has expired since it was read (`DecisionFresh`).  `PassesAreBacked`
and `QueueIsBounded` hold for any number of deciders: `Backed` counts, for each agent and
call, that passes and approvals still in force are no more than the operators' approvals
of it.  The bound is not inductive:
`RoomLeft` counts the requests between count and INSERT along with the pending rows,
so that an INSERT moves one from the one to the other, and a request that counts
leaves room for the other gates.

**`Reservations`** (`ReservationsAssumption`).  `FleetInv` says that a row is
claimed, or its claim failed, or its request is still to claim it (`RowsAreClaimed`),
and that a request is in the shape its step implies (`Shaped`: a path that is done is
not to be done again).  `TypeCorrect` and `FleetSeesRows` follow.  `HoldersKnow` assumes
`~LeaveEarly`: an agent that leaves while its request runs is the case in which rows
stay behind that nobody knows of (section 6).  `RowsAreTold` adds who will be told of a
row, and `OverIsGone` that what ran out before the reply has not come back by then,
since a request writes each path once.

The two modules about `Daemon` prove their theorems of `DaemonSpec`: a focus never
changes (`FocusStays` and `GraphFocus`, `AuthorityFocus` and `FeedsFocus`), so an inductive invariant
per part is one of the whole.  The assumptions in `Daemon` say what its constants are:
that `None` is none of the values it stands beside, that limits are positive, that
versions are numbered with a newest among them, that a name and a link lead to one of
the places.  `PowersOfTwo` says of the lock-outs what the provers do not know of
exponentiation.  TLC evaluates all of them in the run `components`.

**`Daemon_proofs`**

- `DaemonIsServed` from `StartupInv`: unless someone was about when the last start or
  clean-up began (`clashed`, `Startup!crossed`), one process at most is alive, on file or
  about to write the file, and nothing is alive between a caller's look at the pid file
  and its start (`Alone`); unless two have worked on the data directory at once (`torn`),
  the schema is a prefix of the versions, each applied once (`Migrated`).  `OneDaemon`
  alone is not inductive: what makes a second process impossible is what the first one has
  written.  The theorem is about any number of starts of every kind; what a start beside a
  live daemon does until both have gone is in section 6.
- `LoopGuardHolds` from `LoopInv`, which is the type invariant and `LoopsAreLive`;
  `LoopActions` says what each call does to the registry (guards are kept, reaped, armed
  afresh, or it is progress or a resume), and the three action properties follow.
- `AccessStaysConfined` from `RootsInv` (an opening that was checked avoids the secrets
  until it registers, `OpeningsAvoid`) and `FilesInv`: a call that writes was let through
  for a place inside (`FileCallsAreChecked`), an agent holds the worktree its row names
  until git has removed it, and the one git has added and no row names yet, and no two
  agents hold one (`TreesAreHeld`); this part ends where worktree calls of one agent
  overlapped (`unsure`).
- `GatewayStaysGuarded` from `PairInv` and `StreamInv`, with the refinement of `Once` step
  by step.  `GuessesAreSlowed` is not inductive, since attempts are admitted together and
  fail one by one: `RoundsAreWaited` counts those admitted with those that have failed.
  `StreamInv` says that the tickets of the table differ (`TicketsDiffer`; without it a
  ticket taken out could be left in) and that the counter is the number of streams that
  run.
- `ProcessesStayAccounted` from `ProcessesInv`: what runs was forked and what the registry
  lists was not heard to exit (`Placed`), and a final status stays and has no output after
  it (`ReadUp`).  `CapHolds` is about a cardinality: `CheckCapStep` moves one process from
  those that wait to those that count, `FewerHeld` is every other step.
- `GraphStaysFaithful` from `ReplicaInv` and `KnowledgeInv`.  What a push has applied is on
  the hub when it is marked (`PushesFollow`), and of the changes up to the end of a page
  those that are not in the replica are on the page (`PullsFollow`), because a merge never
  lowers a level; a pull that meets another one may therefore move the cursor as it likes.
  A batch leaves out no active fact up to its last but those it jumps over
  (`BatchesFollow`), the sources in progress and those on record have in common only facts
  that were fetched under a second source (`SourcesAreApart`), and the group that was
  looked up is still the first and has no episode (`ChecksHold`); components of one forest are apart
  whatever their roots are (`ComponentsAreApart`), and stay so while they are inserted
  one by one (`FindsAreApart`).  That the oldest pending operation and the first fact of a
  batch exist is `LeastOf`, a set of naturals has a least element, from the cardinality of
  its parts.  Sessions, contents and scopes are arbitrary.

**`Agents_proofs`**

- `ClosedGoalsAndKeys` from `GoalsInv` (what a method has read still holds when it writes,
  `ReadsHold`, as long as it is alone with its goal) and `IdentityInv`.
- `AuthorityIsHeld` from `GrantsInv` (`Metered`: what a limited grant has let through and
  has left make up its limit; `Gated`: what a call holds in the gate covers it),
  `IdentityInv` and `PolicyInv` (`Verified`: what a call past the verification has shown).
  `IdentityInv` has two halves: `Whole`, of agents none of whose enrolments was cut off
  or overlapped, and `Founded`, which holds whatever happened, because a client's key is
  looked for in the trust anchor before anything is written.
- `LicencesStayKept` from `PromotionInv` (what a rotation expects in the vault is no longer
  registered and expected by no other, `ExpectedIsContained`; what a script read from the
  vault is there as long as it is registered, `PriorIsThere`) and `RevocationInv`
  (`WriterIsAlone`: the list does not change between load and save; `ChecksHold`: what a
  reader is bound to refuse it still can).
- `ModelCallsStayGuarded` from `ChatInv` and `SkillInv`: every chain is of models that may be
  asked in this environment, or of the free router alone (`LawfulChain`,
  `ResolvedIsLawful`), a receipt is written at the end of its call and no other is there
  for it (`CallsAreBooked`), and the entry of the round in progress counts as good only
  until its result is taken (`TraceFollows`).
- `FeedsStayComplete` has four parts.  `FeedInv`: what a poll has answered, or a request
  has found, is the next event the waiter has not been given (`AnswersAreNext`), so that
  whichever of two polls, the bus and the deadline comes first answers with that one, and
  what comes later finds the waiter gone.  `PackInv`: as long as no scan was dropped, one
  scan runs at a time (`OneScan`), once nothing is to come it has seen the pack as it is
  (`Sighted`), and the moves lead up to what is known (`Told`).  `PresenceInv`: a handler
  that nothing has raced is alone with its session, and its copy makes row and mirror
  agree (`Undisturbed`).  `MailInv`: a mark that is here and not there is on its way
  (`NoneIsLost`).

**`Clients_proofs`**  `ClientsStayExact`, of `ClientsSpec`, whose focus never changes either
(`ClientsStay`).  Twelve inductive invariants, one per part, none of which is the property
itself but for what is said:

- `CallerInv`, Studio's calls.  `RpcInv`: no two frames are of the same attempt
  (`FramesDiffer`), runs and frames of a call are no more than its attempts
  (`RunsAreTries`), the envelope of a signed call is on record once a handler has it
  (`EnvelopesAreOne`), and an answer that says a handler ran is of one that did
  (`AnswersAreTrue`).  That answers are one's own needs `PipeInv` on the relay, since
  nothing on the pipe names a call: who reads is alone, what is on the pipe is for it, and
  nothing is on the pipe of a relay that the next call may take.  `VisitInv`: a second round that will
  find no root is one of a call that was upset.
- `AgentsInv`, Studio's agents: what the launch, the waiter thread and the entry say of a
  child in each combination (`LifeOf`), and that whoever holds the credentials of an open
  session is on its way to end it (`SessionIsHeld`).
- `TermsInv`.  `KeysInv`: unless first connections overlapped, what is connected shares the
  first key on file, and one session at most is about to learn it.  `PanelInv`: one attempt
  at a time, and the hook refers to the session it shows (`HookFits`); where a session
  may be, given what became of its pump (`SessionFits`).
- `BridgeInv`: whoever ends the operator's side has said so first.  `StreamInv`: the lines
  handed on are, in order, the data lines scanned before the first end mark.
- `SandboxInv`: what was looked up for a spawn holds when it runs, whatever has moved since
  (`SpawnHolds`).  That its mounts hide a secret then follows for any number of shared
  caches, since what shows of a path is decided by the last mount above it (`LastOver`),
  and of two paths above a third one lies within the other.
- `AnchorInv`: a directory, or the file, that another user could have written (`Suspicious`)
  has one on the rest of the walk that shows it.  `SweepInv`: a process that is alive and
  on record throughout is among those the sweep has read.
- `InspectionInv`: where a query is determines the transaction of its session and the
  receipts there are.
- `CallsInv`, `ToolsInv`, `RuntimeInv`, the bridge: a settlement is of the first line
  received, and each socket has its timer until it is settled; a kg call works for the
  identity that asked while it works at all; a runtime that goes on has counted no more
  idle ticks than its guard.

`ConsoleStaysTruthful`, of the same specification: `ConsoleIsTruthful`, what the console and
the panel of terminals show, the part of `ScreensAreTruthful` that `Clients` states.
It rests on the invariants above and on `ConsoleInv`:

- `ScreenInv`, the payment screens, whose answers come in any order and apply whatever is shown
  by then.  The offline flag and the built-in price list go together, and a screen that waits
  has a call on its way (`MenusFit`); as long as no checkout was left under its call, every
  checkout under way is for the plan on the open screen (`CheckoutsFit`), which is why its
  address is too, and likewise for codes and the address they go to (`LinksFit`).
- `ShownInv`, the terminals.  `ShownIsReal` is not inductive: a session can end anywhere between
  its pump's start and the moment the panel shows it.  `ArrivesAlive` follows it there:
  at each place it answers, or its end is on its way, or came before anyone listened, and
  who is about to show it has a listener.
- `SeatTypes`, `PumpTypes`, `StreamTypes`: types, of which the action property needs that
  of terminals (`PickChooses`): only the look at the file lets a session on, and an answer of
  the API without an id leads nowhere.

The assumptions of `Clients` say that `Null` is none of the values it stands beside, that
limits are numbers and attempts happen at least once, and of the sandbox that places are
paths and that a secret lies neither within the system's directories or a shared cache nor
above one: otherwise the layout of `confinement.ts` itself would have to break a promise.
Of the console they say that the API's price lists are of the known plans and differ from the
built-in one, since the warning is about where a list comes from and the property compares lists.

## 5. Only model-checked

Every liveness property (fairness and `ENABLED` are out of the prover's reach):
`CloseTerminates`, `EveryRequestSettles`, `CompletionAnnounced`, `SomeCheckSucceeds`,
`TrustRecovers`.
`ComputationsAreExact`: what a recursive or inductive computation returns for every input
(the tool guard, the scanner of the inspector, the deny-list, union-find) would need induction over data, and is checked
over bounded inputs.  Of `ScreensAreTruthful`, the parts of `MCComponents` are left without a theorem for no
such reason: sign-in, git panel, wizard and services could be proved like the console, part by part.

## 6. What the code does not do

What the models show beyond the four runs above, and what the properties therefore
leave out or stop at.

**Daemon.**  The release on disconnect asks for a `register` or `attach` binding,
and an agent whose last request was signed is bound by signature then
(`Dispatch!ReleasedOnClose`); it does not see what a request still in progress
writes after it (`Reservations` with `LeaveEarly = TRUE`).  `expireStaleApprovals`
leaves a session blocked on a permission that nobody can decide any more.  The
statements on Neon are not ordered, so the mirror of the board may stay behind it;
`tasks.release` also takes a completed task back to open.  A licence check overtaken
by a newer one is denied although the authority is well (`SomeCheckSucceeds` bounds
the damage).  `loop.resume` arms an exhausted loop.

- *Policy.*  The comment at `server.ts:205-225` says every mutation must be signed,
  but `merge.request` and `update`, `inference.pull`, `delete`, `start` and `stop`,
  `workflow.run`, `graph.outbox.push`, `graph.sync.pull` and `graph.reconcile` run
  unsigned, beside mail, tasks and memory; the four inference methods are critical
  and exempt from identity.  Deny-list entries are compared with the text of a path:
  a `.` or an empty segment inside of it is not removed, and an absolute path also
  matches entries that lie above the root.  The shadow audit does not know the
  deny-list.
- *Identity.*  Rotating back to an earlier key supersedes the current one and then
  fails on the primary key: the agent has no active key.  Two enrolments of one agent that
  overlap can leave two keys that sign for it, one of them the daemon's.  `OneKeySigns`
  is of agents none of whose enrolments and rotations overlapped or were cut off
  (`broken`); that a client's key comes from the trust anchor holds for all.
- *Sessions, mail.*  `session.update` re-reads `ctx.agentId` of a shared socket after
  an await; registering again does not reset `activity_state`; `runPrune` never
  copies the end of a session to Neon.  A mark that overtakes the copy of its mail
  leaves the fleet's copy unread for ever, and a copy that is lost is not sent again.  Rows
  whose copies failed or overtook each other are excepted (`unsure`, `lost`): the properties
  say that every other row is right, not that these become so.
- *Files.*  Each agent has one worktree row, so a second `worktree.create` orphans
  the first.  Renaming a directory hands its root to whoever opens it next; a root
  may be registered for the later signer of the socket or for a session that has
  ended; `git.pull` is not scanned for drivers.
- *Processes, goals.*  Overlapping spawns exceed the cap; an exit before the
  registration or a restart leaves rows running.  Overlapping methods on one goal can
  break both properties: each reads the status before it writes.  The model ends there
  (`crossed`), so what is shown is that the board, the blockers and the methods on other goals
  cannot break it.
- *Confinement.*  The model grants no root of the whole file system.
- *Inspector.*  Its properties are relative to the guard's own reading of a text; how
  Postgres splits one is not compared with it.
- *Bridge, schemas.*  `mail_send` sends a priority and `session_end` a session id that no
  handler reads; `mail_mark_read` asks for integers while the ids of the inbox are UUIDs;
  `task_list` offers a status "pending" that no task has.  The comment at
  `validation/index.ts:4` says only `ping` has no schema, but `identity.rotate`,
  `project.grant` and `revoke`, `goal.*`, `workflow.*`, `skills.*`, `permission.setMode`,
  `grant`, `listGrants` and `revokeGrant` have none.  `events_wait` waits up to 30 s by
  default, beyond the 10 s of inactivity its client allows.  A call whose connection the
  daemon ends in good order before it answers never settles (`CallsSettle` excepts it).
  Two first kg calls can make two executors; the timer of a call does not cover the wait
  for its executor, and an episode may be published after its call has timed out.
  Arming a loop again without a limit keeps an earlier explicit one, which
  `armDaemonLoop` then takes for an error.
- *Graph.*  `graph.reconcile` for one session moves the one cursor past the facts of
  the others, which are never ingested (`jumped`; `graph-reconcile.ts:389-402` against its
  header).  The source of an episode joins the ids of all active facts of one content that
  were fetched together (`graph-reconcile.ts:233-235`): if a run ends before it moves the
  cursor, and a fact of that content comes or is superseded before the next, the content
  gets a second episode under another source (`regrouped`).  A fact superseded after the
  cursor passed is never invalidated; rows that fail are passed by the cursor and only a
  snapshot repairs them.  The model assumes that the hub shows facts in the order of
  `created_at` and id; one that appears behind the cursor would be missed.
- *Start-up.*  Only `--ensure` looks before it starts, and only at the pid file.  A
  foreground start (systemd, Studio) or a `--detach` beside a live daemon overwrites its
  pid file (`cli.ts:328`), opens the same data directory (`server.ts:2991`), removes the
  socket the other listens on (`server.ts:3086`) and, if it fails, removes the pid file
  (`cli.ts:335`), although the help text says that it fails at `listen()` and that "the
  existing daemon is untouched" (`cli.ts:85-91`).  Two callers of `--ensure` between their
  look and the pid file of what they start do the same.  From then on, until all of them
  have gone, there may be two daemons, and one that closes unlinks the other's pid file and
  socket: `OneDaemon` and `ServingIsFound` except this (`crossed`), and `SchemaFits` two
  that have migrated at once (`torn`).  A reused pid makes `--ensure` exit with 1; a
  second signal during close starts a second close.
- *Revocation store.*  The lock file of a process that died stays until the operator
  removes it, and every paid call is refused meanwhile: what is shown is that nothing is
  answered, lost or half written under it, not that it goes away.
- *Tool guard.*  A separator ends a command only if blanks or quotes set it apart
  (`patterns.ts:291-299`, `308`): in `true;node -e x` the guard sees one command named
  `true;node`.  A newline is a blank to it.  `bash -lc x` is not opened (`378-386`), and a
  wrapper flag that takes a value leaves the value where the command is looked for (`sudo -u
  foo node`, admitted at `338-345`).  The model writes all of these; the properties say
  that nothing else is hidden.
- *Pack watch.*  A change during a scan whose debounce fires while `scanning` is set
  is dropped until the next change.
- *Inference.*  An answer cut while it is read leaves no receipt, nor does one whose INSERT
  fails (`ReceiptsAreKept` excepts both); the receipt is
  booked on `ctx.agentId` at the time of writing; with the free router any listed
  model is accepted, whatever `data_collection` says; the tool trace marks its last
  entry and counts refused tools.  The runtime behind `skills.invoke` is external; the model
  assumes that it takes tool calls and results in turn, without which the mark would fall on
  another tool's entry.

**Studio.**

- *RPC.*  An unsigned mutating call may run up to three times; a signed one that
  timed out reports a refused replay although it ran.  On Windows a timed-out call
  takes the pipes of the live relay with it: every later call is sent, and run, but
  fails until the relay is reset, contrary to the comment near `harness.rs:511`.  A
  late answer to `project.open` can put a lost root back into the cache and defeat
  the retry.
- *Sign-in.*  `handleUnauthorized` rotates the token and never stores the new one, and
  acts on its last answer without another look: a sign-out that falls into `checkStatus`
  has the licence of the machine wiped (`license-provision.ts:149-151`), which the comment
  at `use-auth.ts:38-41` rules out.  `WipeIsEarned` says that every earlier sign-out is
  noticed.  Quitting during a sign-out and starting without
  network believes a revoked token.  A licence file written without its marker can
  not be wiped, though the wipe reports success; a managed write overwrites an
  operator's licence.
- *Local agents.*  Stop and removal take the credentials first; if they are then
  refused, the session of the daemon cannot be ended any more.  A natural exit and
  `kill_all` never end it.  If waiting for a child fails (`try_wait`, `spawner.rs:283-291`) it
  is listed as errored though it may live, and stop and `kill_all` pass it by; `kill_all`
  ignores a kill that fails.  A child forked but not yet entered is missed by `kill_all`.
- *Terminals.*  An end event before its listener is lost; closing the panel during an
  attempt leaves a session nobody can end; two overlapping first connections can
  trust different host keys; a failed write of `known_hosts` is ignored.
- *Git panel.*  `git_push` and `git_pull` return `success: false` as a result, which
  the panel shows as success (comments near `GitPanel.tsx:617` and `640`).  Answers
  for an earlier path, or out of order, overwrite what is shown; push and pull name
  the branch that is shown.  `selectFile` shows whatever diff arrives, be it that of an
  earlier selection (`GitPanel.tsx:497-503`), and `applyPath` keeps selection and diff of the
  repository before (`628-637`): the wrong diff stays until the next selection or its
  diff (`strayed`).
- *Deploy wizard.*  Two updates of one click start from the same configuration, and
  one undoes the other; `MainApp` writes back the configuration read at launch
  (`App.tsx:157-166`); "Configuration saved" is shown although the write failed;
  Cancel and Retry share one flag, so Retry revives the attempt that was cancelled.
- *Services.*  Overlapping control calls, or one begun before a spawned process wrote
  its pid, can start two daemons.  From heavy to snaps both snaps stay up; a tier
  whose engine is missing has stopped the others first; variables are never unset in
  a sourced shell; an aborted fetch still fills the cache.

**Console.**  Messages apply whatever the screen: a late `linkSent` opens the code
screen with no address, a checkout answer appears under a newer plan, a late 404
signs a verified user out.  The bridge ends only when its readers notice: after the
far end has exited the session waits for a key, and after a detach for output.
Three goroutines write to one WebSocket, for which the library may end the server
(`crash = "write"`; `BridgeEnds` excludes only the double close).  An established
session survives the emptying of the key file, contrary to `main.go:75-77`.  The
30 s time limit of the HTTP client also cuts event streams, and the reader shows a cut
one as finished.

## 7. Not modelled

- *Configuration, observability, the approvals CLI*: they read settings, count or
  print.  *Protocol package*: DIDs, signature formats and the type of wait-for-work.
- *Key sweep*: deletion, which the code has switched off; only the verdicts are modelled.
- *PGlite, Neon, the licence authority, git, the models, the operating system*: the
  environment; modelled by what the code can observe of them, and marked external.
- *Read-only calls* (listings, status, logs, searches): they change nothing.  Those
  whose answer is acted on later are in the modules of who acts (`GitPanel`,
  `StudioRpc`, `Mail`).
- *`Files`*: git calls that only read; renames of directories inside a path.
- *`ToolGuard`*: the single rules of the manifest, governance gates and validation.
- *`Inference`*: the Ollama handlers and the workflow runner, which pass requests on.
- *`Replica`*: which site's name and attributes win on equal levels.
- *`StudioServices`*: the systemd variant, the first-run setup of Windows, pulling
  models, reuse of process ids.
- *`StudioAuth!recheck`* has no caller.  *`GitPanel`*: other programs that change the
  repository while the panel is open; unborn branches; renamed entries.
- *`DeployWizard`*: what each step asks of its service is reduced to success or
  failure; a double click on Next.
- *`Console`*: shutdown of the server, QR codes, and the agent calls nothing uses.
- *Panels of Studio* other than those above only show what the modelled parts return.
