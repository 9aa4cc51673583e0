------------------------------ MODULE Dispatch ------------------------------
(***************************************************************************)
(* The request pipeline of the RevDev daemon (dispatchRpc, server.ts) and  *)
(* the shutdown sequence it races with (close(), same file).               *)
(*                                                                         *)
(* A request walks through licence guard, signature check, identity gate,  *)
(* permission gate and shutdown gate and then runs its handler.  Requests, *)
(* close() and the clients interleave where a gate waits for I/O: for the  *)
(* licence authority (licensed methods only), for the queries of the       *)
(* signature check, for the session row of the permission gate (only for a *)
(* request that names an agent) and in the handler.  A gate that has       *)
(* nothing to wait for is passed in the same run of the event loop, which  *)
(* Turn expresses.  All requests of one socket share one SocketContext     *)
(* (ctx), which a verified signature overrides for the duration of a       *)
(* request.                                                                *)
(***************************************************************************)
EXTENDS Naturals, FiniteSets

CONSTANTS
    Agents,        \* agent identities
    ClientOwned,   \* those whose private key the daemon never held
    Sockets,       \* client connections (an HTTP request is a socket used once)
    Requests,      \* request slots; a slot is used once
    Calls,         \* the calls a client may send
    None,          \* absence of an agent or of a nonce
    Pipelined,     \* may a client send a request before the last one is answered?
    GraceMayExpire \* may the shutdown grace period end before the handlers do?

Methods == {"register", "attach", "end", "reserve", "write", "snapshot"}

\* METHOD TABLES.  "reserve" stands for the self-scoped coordination methods,
\* "write" for the file and git methods, "snapshot" for the reads that need a
\* licence but no identity (context.snapshot).
Licensed       == {"reserve", "snapshot"}
IdentityExempt == {"register", "attach", "snapshot"}
SigRequired    == {"end", "write"}
Binding        == {"register", "attach"}

Call == [method : Methods, actor : Agents \cup {None}, signer : Agents \cup {None},
         good : BOOLEAN, nonce : Nat \cup {None}]

ASSUME DispatchAssumption ==
    /\ None \notin Agents /\ None \notin Nat
    /\ ClientOwned \subseteq Agents
    /\ Calls \subseteq Call
    /\ \A c \in Calls : c.method \in Binding => c.actor # None
    /\ \A c \in Calls : (c.signer = None) <=> (c.nonce = None)
    /\ IsFiniteSet(Requests)
    /\ Pipelined \in BOOLEAN /\ GraceMayExpire \in BOOLEAN

VARIABLES
    open,     \* sockets that are still connected
    ctx,      \* SocketContext of each socket
    pc,       \* where each request is
    sockOf,   \* the socket a request arrived on
    call,     \* the call it carries
    verdict,  \* result of verifyOrWarn: "none", "invalid" or "verified"
    as,       \* the principal its handler acts for
    nonces,   \* agent_identity_nonces
    stale,    \* nonces of envelopes older than SIG_TS_WINDOW_SECS
    held,     \* agents with a live file reservation
    active,   \* _activeHandlerCount
    closing,  \* _closing
    closer,   \* progress of close()
    dbOpen    \* PGlite accepts queries

reqVars   == <<pc, sockOf, call, verdict, as>>
storeVars == <<nonces, stale, held>>
stopVars  == <<closing, closer, dbOpen>>
vars      == <<open, ctx, reqVars, storeVars, active, stopVars>>

Vias     == {"none", "register", "attach", "param", "signature"}
Context  == [agent : Agents \cup {None}, via : Vias, preAgent : Agents \cup {None}, preVia : Vias]
FreshCtx == [agent |-> None, via |-> "none", preAgent |-> None, preVia |-> "none"]
Gates    == {"license", "key", "nonce", "permission", "door"}
Handling == {"origin", "body", "tail"}
Settled  == {"answered", "dead"}

TypeOK ==
    /\ open \subseteq Sockets
    /\ ctx \in [Sockets -> Context]
    /\ pc \in [Requests -> {"unsent"} \cup Gates \cup Handling \cup Settled]
    /\ sockOf \in [Requests -> Sockets]
    /\ call \in [Requests -> Calls]
    /\ verdict \in [Requests -> {"none", "invalid", "verified"}]
    /\ as \in [Requests -> Agents \cup {None}]
    /\ nonces \subseteq Nat
    /\ stale \subseteq Nat
    /\ held \subseteq Agents
    /\ active \in 0..Cardinality(Requests)
    /\ closing \in BOOLEAN
    /\ closer \in {"serving", "stopping", "draining", "closed", "stopped"}
    /\ dbOpen \in BOOLEAN

Init ==
    /\ open = Sockets
    /\ ctx = [s \in Sockets |-> FreshCtx]
    /\ pc = [r \in Requests |-> "unsent"]
    /\ sockOf \in [Requests -> Sockets]
    /\ call \in [Requests -> Calls]
    /\ verdict = [r \in Requests |-> "none"]
    /\ as = [r \in Requests |-> None]
    /\ nonces = {} /\ stale = {} /\ held = {}
    /\ active = 0
    /\ closing = FALSE /\ closer = "serving" /\ dbOpen = TRUE

-----------------------------------------------------------------------------
(* The pieces of a request.                                                *)

Ctx(r)       == ctx[sockOf[r]]
Method(r)    == call[r].method
InHandler(r) == pc[r] \in Handling
InFlight(r)  == pc[r] \notin {"unsent"} \cup Settled
Quiet(s)     == \A r \in Requests : sockOf[r] = s => ~InFlight(r)

ClearSignatureKeepsSigner(c) == c
ClearSignature(c) ==
    IF c.via = "signature"
    THEN [agent |-> c.preAgent, via |-> c.preVia, preAgent |-> None, preVia |-> "none"]
    ELSE c

BindSigner(c, a) ==
    [agent |-> a, via |-> "signature", preAgent |-> c.agent, preVia |-> c.via]

\* The agent the permission gate and the unsigned principal rule look up:
\* the bound one, else params.actorAgentId.  (The "actor" of a register or an
\* attach is its agentId parameter, which neither of them reads.)
Actor(r)      == IF Method(r) \in Binding THEN None ELSE call[r].actor
NamedAgent(r) == IF Ctx(r).agent # None THEN Ctx(r).agent ELSE Actor(r)

\* The envelope checks that follow the key lookup: signature, timestamp
\* window, method and params hash.
EnvelopeAcceptedAnyAge(r) == call[r].good
EnvelopeAccepted(r) == call[r].good /\ call[r].nonce \notin stale

Goto(r, l) == pc' = [pc EXCEPT ![r] = l]

\* The synchronous end of verifyOrWarn and the two gates behind it, on context
\* c.  The permission gate reads the session row of the agent the request names;
\* a request that names none is at the door of the handler without any I/O.
AfterVerify(r, v, c) ==
    LET named == c.agent # None \/ Actor(r) # None IN
    /\ verdict' = [verdict EXCEPT ![r] = v]
    /\ Goto(r, IF \/ Method(r) \in SigRequired /\ v # "verified"
                  \/ Method(r) \notin IdentityExempt /\ ~named
               THEN "answered" ELSE IF named THEN "permission" ELSE "door")

\* A request that waits for nothing runs on; nothing else happens meanwhile.
Running(r) == \/ pc[r] = "license" /\ Method(r) \notin Licensed
              \/ pc[r] = "door"
Turn(r)    == \A q \in Requests : Running(q) => q = r
LoopIsFree == \A q \in Requests : ~Running(q)

-----------------------------------------------------------------------------
(* Arrival and the gates.                                                  *)

Arrive(r) ==
    /\ pc[r] = "unsent"
    /\ sockOf[r] \in open
    /\ Pipelined \/ Quiet(sockOf[r])
    /\ Goto(r, "license")
    /\ UNCHANGED <<open, ctx, sockOf, call, verdict, as, storeVars, active, stopVars>>

DenyLicense(r) ==
    /\ pc[r] = "license" /\ Method(r) \in Licensed
    /\ Goto(r, "answered")
    /\ UNCHANGED <<open, ctx, sockOf, call, verdict, as, storeVars, active, stopVars>>

\* Licence granted; verifyOrWarn runs up to its first query.
PassLicense(r) ==
    LET c == ClearSignature(Ctx(r)) IN
    /\ pc[r] = "license"
    /\ ctx' = [ctx EXCEPT ![sockOf[r]] = c]
    /\ IF call[r].signer = None
       THEN AfterVerify(r, "none", c)
       ELSE Goto(r, "key") /\ UNCHANGED verdict
    /\ UNCHANGED <<open, sockOf, call, as, storeVars, active, stopVars>>

CheckKey(r) ==
    /\ pc[r] = "key"
    /\ \/ dbOpen /\ EnvelopeAccepted(r) /\ Goto(r, "nonce") /\ UNCHANGED verdict
       \/ dbOpen /\ ~EnvelopeAccepted(r) /\ AfterVerify(r, "invalid", Ctx(r))
       \/ ~dbOpen /\ Goto(r, "dead") /\ UNCHANGED verdict
    /\ UNCHANGED <<open, ctx, sockOf, call, as, storeVars, active, stopVars>>

\* The unique index on the nonce decides; a failing INSERT of any kind is a replay.
NonceFree(r) == dbOpen /\ call[r].nonce \notin nonces

RecordNonce(r) ==
    LET c == BindSigner(Ctx(r), call[r].signer) IN
    /\ pc[r] = "nonce"
    /\ \/ /\ NonceFree(r)
          /\ nonces' = nonces \cup {call[r].nonce}
          /\ ctx' = [ctx EXCEPT ![sockOf[r]] = c]
          /\ AfterVerify(r, "verified", c)
       \/ /\ ~NonceFree(r)
          /\ AfterVerify(r, "invalid", Ctx(r))
          /\ UNCHANGED <<nonces, ctx>>
    /\ UNCHANGED <<open, sockOf, call, as, stale, held, active, stopVars>>

\* The mode is known: read from the session row, or the daemon's for want of an agent.
PermissionGranted(r) == (pc[r] = "permission" /\ dbOpen) \/ pc[r] = "door"

\* The permission gate answers the request itself (denied, queued or failed closed).
RefusePermission(r) ==
    /\ PermissionGranted(r)
    /\ Goto(r, "answered")
    /\ UNCHANGED <<open, ctx, sockOf, call, verdict, as, storeVars, active, stopVars>>

\* resolveEffectiveMode reads the session row outside the gate's try block.
LosePermissionHangs(r) == FALSE
LosePermission(r) ==
    /\ pc[r] = "permission"
    /\ ~dbOpen
    /\ Goto(r, "dead")
    /\ UNCHANGED <<open, ctx, sockOf, call, verdict, as, storeVars, active, stopVars>>

GateIgnoresClosing == TRUE
ShutdownGateOpen   == ~closing

RefuseShutdown(r) ==
    /\ PermissionGranted(r)
    /\ ~ShutdownGateOpen
    /\ Goto(r, "answered")
    /\ UNCHANGED <<open, ctx, sockOf, call, verdict, as, storeVars, active, stopVars>>

-----------------------------------------------------------------------------
(* Handlers.                                                               *)

\* A handler is entered and runs to its first await.  A method that needs a
\* principal takes the signer, or asks for the key origin of the named agent;
\* one that finds none throws before any await.
HasSigner(r) == Ctx(r).via = "signature" /\ Ctx(r).agent # None

Throws(r) == \/ Method(r) = "end" /\ ~HasSigner(r)
             \/ Method(r) = "reserve" /\ NamedAgent(r) = None

EnterHandler(r) ==
    /\ PermissionGranted(r)
    /\ ShutdownGateOpen
    /\ IF Throws(r)
       THEN Goto(r, "answered") /\ UNCHANGED <<as, active>>
       ELSE /\ active' = active + 1
            /\ as' = [as EXCEPT ![r] = CASE Method(r) \in {"end", "write"} -> Ctx(r).agent
                                         [] Method(r) = "reserve" -> NamedAgent(r)
                                         [] OTHER -> None]
            /\ Goto(r, IF Method(r) = "reserve" /\ ~HasSigner(r) THEN "origin" ELSE "body")
    /\ UNCHANGED <<open, ctx, sockOf, call, verdict, storeVars, stopVars>>

\* try { await handler } finally { _activeHandlerCount-- }
HandlerExitTwice(r) == Goto(r, "answered") /\ active' = active - 2
HandlerExitLeaks(r) == Goto(r, "answered") /\ UNCHANGED active
HandlerExit(r) == Goto(r, "answered") /\ active' = active - 1

\* requireVerifiedAgent: an unsigned principal must be daemon-minted.
TrustAnyOrigin(a)  == TRUE
TrustedUnsigned(a) == a \notin ClientOwned

CheckOrigin(r) ==
    LET s == sockOf[r] IN
    /\ pc[r] = "origin"
    /\ dbOpen
    /\ IF TrustedUnsigned(as[r])
       THEN /\ Goto(r, "body")
            /\ ctx' = IF Ctx(r).agent = None
                      THEN [ctx EXCEPT ![s] = [@ EXCEPT !.agent = as[r], !.via = "param"]] ELSE ctx
            /\ UNCHANGED active
       ELSE HandlerExit(r) /\ UNCHANGED ctx
    /\ UNCHANGED <<open, sockOf, call, verdict, as, storeVars, stopVars>>

\* The handler's statement and what it does to the context right after it.
RunBody(r) ==
    LET s == sockOf[r] IN
    /\ pc[r] = "body"
    /\ dbOpen
    /\ Goto(r, "tail")
    /\ ctx' = CASE Method(r) \in Binding ->
                     [ctx EXCEPT ![s] = [@ EXCEPT !.agent = call[r].actor, !.via = Method(r)]]
                [] Method(r) = "end" /\ Ctx(r).agent = as[r] -> [ctx EXCEPT ![s].agent = None]
                [] OTHER -> ctx
    /\ held' = IF Method(r) = "reserve" THEN held \cup {as[r]} ELSE held
    /\ UNCHANGED <<open, sockOf, call, verdict, as, nonces, stale, active, stopVars>>

\* The handler throws at a query: on a closed database, or an attach that
\* names a session that is not live.
FailHandler(r) ==
    /\ InHandler(r)
    /\ ~dbOpen \/ (pc[r] = "body" /\ Method(r) = "attach")
    /\ HandlerExit(r)
    /\ UNCHANGED <<open, ctx, sockOf, call, verdict, as, storeVars, stopVars>>

FinishHandler(r) ==
    /\ pc[r] = "tail"
    /\ HandlerExit(r)
    /\ UNCHANGED <<open, ctx, sockOf, call, verdict, as, storeVars, stopVars>>

-----------------------------------------------------------------------------
(* Clients leaving, and the clock.                                         *)

\* The socket's 'close' listener drops the reservations of a bound agent.
ReleasedOnClose(s) ==
    IF ~closing /\ ctx[s].via \in Binding THEN {ctx[s].agent} ELSE {}

Disconnect(s) ==
    /\ s \in open /\ closer = "serving"
    /\ open' = open \ {s}
    /\ held' = held \ ReleasedOnClose(s)
    /\ UNCHANGED <<ctx, reqVars, nonces, stale, active, stopVars>>

\* An envelope leaves the timestamp window.
Age(n) ==
    /\ n \notin stale
    /\ \E r \in Requests : call[r].nonce = n
    /\ stale' = stale \cup {n}
    /\ UNCHANGED <<open, ctx, reqVars, nonces, held, active, stopVars>>

\* The sweep window (10 min) is far beyond the timestamp window (60 s), so a
\* swept nonce is stale; and an INSERT is queued by the step that checked the
\* timestamp, so none waits out the nine minutes between.
SweepNonces ==
    /\ closer = "serving" /\ nonces \cap stale # {}
    /\ \A r \in Requests : pc[r] = "nonce" => call[r].nonce \notin stale
    /\ nonces' = nonces \ stale
    /\ UNCHANGED <<open, ctx, reqVars, stale, held, active, stopVars>>

-----------------------------------------------------------------------------
(* close().                                                                *)

BeginClose ==
    /\ closer = "serving"
    /\ closing' = TRUE /\ closer' = "stopping"
    /\ UNCHANGED <<open, ctx, reqVars, storeVars, active, dbOpen>>

\* notifyDaemonStopping and the gateway's stop have settled.
DestroySockets ==
    /\ closer = "stopping"
    /\ open' = {} /\ closer' = "draining"
    /\ UNCHANGED <<ctx, reqVars, storeVars, active, closing, dbOpen>>

Drained == active = 0 \/ GraceMayExpire

CloseDatabase ==
    /\ closer = "draining"
    /\ Drained
    /\ dbOpen' = FALSE /\ closer' = "closed"
    /\ UNCHANGED <<open, ctx, reqVars, storeVars, active, closing>>

ResetClosing ==
    /\ closer = "closed"
    /\ closing' = FALSE /\ closer' = "stopped"
    /\ UNCHANGED <<open, ctx, reqVars, storeVars, active, dbOpen>>

-----------------------------------------------------------------------------
Closing == BeginClose \/ DestroySockets \/ CloseDatabase \/ ResetClosing

Gate(r) == \/ DenyLicense(r) \/ PassLicense(r) \/ CheckKey(r) \/ RecordNonce(r)
           \/ RefusePermission(r) \/ LosePermission(r) \/ RefuseShutdown(r)

Handle(r) == EnterHandler(r) \/ CheckOrigin(r) \/ RunBody(r) \/ FailHandler(r) \/ FinishHandler(r)

Next ==
    \/ \E r \in Requests : Turn(r) /\ (Arrive(r) \/ Gate(r) \/ Handle(r))
    \/ \E s \in Sockets : LoopIsFree /\ Disconnect(s)
    \/ \E n \in {call[r].nonce : r \in Requests} \ {None} : Age(n)
    \/ LoopIsFree /\ SweepNonces
    \/ LoopIsFree /\ Closing

Spec == Init /\ [][Next]_vars

\* A query, a fetch with its 5 s timeout and a git child are all bounded, so a
\* request that has arrived keeps moving.
RequestFairness ==
    \A r \in Requests : WF_vars(Turn(r) /\ Gate(r)) /\ WF_vars(Turn(r) /\ Handle(r))

\* close() moves on its own: once begun it awaits only bounded calls.
CloseFairness ==
    /\ WF_vars(LoopIsFree /\ DestroySockets)
    /\ WF_vars(LoopIsFree /\ CloseDatabase)
    /\ WF_vars(LoopIsFree /\ ResetClosing)

LiveSpec == Spec /\ RequestFairness /\ CloseFairness
-----------------------------------------------------------------------------
(* Properties.                                                             *)

\* _activeHandlerCount counts exactly the handlers between entry and their
\* finally block; the drain in close() reads nothing else.
ActiveIsExact == active = Cardinality({r \in Requests : InHandler(r)})

\* An envelope is accepted at most once over the whole life of the daemon,
\* although nonces are swept: the timestamp window outlives the sweep.
EnvelopeAcceptedOnce ==
    \A r1, r2 \in Requests :
        r1 # r2 /\ verdict[r1] = "verified" /\ verdict[r2] = "verified"
            => call[r1].nonce # call[r2].nonce

\* A handler that acts for a principal acts for the signer of its own request
\* or, unsigned, for an identity the daemon minted (requireVerifiedAgent).
PrincipalIsProven ==
    \A r \in Requests : pc[r] \in {"body", "tail"} /\ as[r] # None =>
        IF verdict[r] = "verified" THEN as[r] = call[r].signer ELSE as[r] \notin ClientOwned

\* What verifyOrWarn saves for the next request is a connection-level binding,
\* never a signature's: its closing comment and the declared type of
\* preSignatureBoundVia both say so.
SnapshotIsConnectionLevel == \A s \in Sockets : ctx[s].preVia # "signature"

\* As long as the shutdown gate is down no handler is left on a closed database.
ClosedDatabaseIsQuiet == closing /\ ~dbOpen => active = 0

\* No handler is ever on a closed database: the promise of the comment on the
\* shutdown gate.
HandlersHaveDatabase == active > 0 => dbOpen

\* close() ends: every way a handler can end gives its place in the counter back,
\* so the drain sees zero without having to wait for its grace period.
CloseTerminates == closing ~> closer = "stopped"

\* Every request that arrives is answered or fails with its connection's daemon.
EveryRequestSettles == \A r \in Requests : InFlight(r) ~> pc[r] \in Settled
=============================================================================
