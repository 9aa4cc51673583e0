--------------------------- MODULE Dispatch_proofs --------------------------
(***************************************************************************)
(* Proofs about Dispatch, for every number of requests and sockets and     *)
(* every choice of calls.                                                  *)
(***************************************************************************)
EXTENDS Dispatch, FiniteSetTheorems, TLAPS

Handlers == {r \in Requests : InHandler(r)}

\* TypeOK without its bound on active, which follows from ActiveIsExact.
Typed ==
    /\ open \subseteq Sockets
    /\ ctx \in [Sockets -> Context]
    /\ pc \in [Requests -> {"unsent"} \cup Gates \cup Handling \cup Settled]
    /\ sockOf \in [Requests -> Sockets]
    /\ call \in [Requests -> Calls]
    /\ verdict \in [Requests -> {"none", "invalid", "verified"}]
    /\ as \in [Requests -> Agents \cup {None}]
    /\ nonces \subseteq Nat
    /\ stale \subseteq Nat
    /\ held \subseteq Agents
    /\ active \in Nat
    /\ closing \in BOOLEAN
    /\ closer \in {"serving", "stopping", "draining", "closed", "stopped"}
    /\ dbOpen \in BOOLEAN

\* A request that is about to look up its key or to record its nonce is
\* signed, nothing before the gates has a verdict, and a reservation is made
\* for somebody.
Undecided ==
    \A r \in Requests :
        /\ pc[r] \in {"key", "nonce"} => call[r].signer # None
        /\ pc[r] \in {"unsent", "license", "key", "nonce"} => verdict[r] = "none"
        /\ pc[r] \in {"origin", "body"} /\ Method(r) = "reserve" => as[r] # None

CountInv == Typed /\ Undecided /\ ActiveIsExact

\* The requests inside a handler are finitely many and can be counted.
LEMMA HandlersFinite == IsFiniteSet(Handlers) /\ Cardinality(Handlers) \in 0..Cardinality(Requests)
BY FS_Subset, FS_CardinalityType, DispatchAssumption DEF Handlers

\* A daemon that has just started runs no handler.
LEMMA InitCount == Init => CountInv
<1> SUFFICES ASSUME Init PROVE CountInv
    OBVIOUS
<1>1. Handlers = {}
    BY DEF Init, Handlers, InHandler, Handling
<1>2. ActiveIsExact
    BY <1>1, FS_EmptySet DEF Init, ActiveIsExact, Handlers
<1>3. Typed
    BY DEF Init, Typed, FreshCtx, Context, Vias
<1>4. Undecided
    BY DEF Init, Undecided
<1> QED
    BY <1>2, <1>3, <1>4 DEF CountInv

-----------------------------------------------------------------------------
(* The handler count over one step.                                        *)

\* A running handler is counted, so giving its place back cannot underflow.
LEMMA HandlerCounted ==
    ASSUME ActiveIsExact, NEW r \in Requests, InHandler(r)
    PROVE  active \in Nat /\ active >= 1
<1>1. r \in Handlers
    BY DEF Handlers
<1>2. IsFiniteSet(Handlers) /\ Cardinality(Handlers) \in Nat
    BY HandlersFinite, FS_CardinalityType
<1>3. Cardinality(Handlers) # 0
    BY <1>1, <1>2, FS_EmptySet
<1>4. active = Cardinality(Handlers)
    BY DEF ActiveIsExact, Handlers
<1> QED
    BY <1>2, <1>3, <1>4

\* A step that leaves handlers and counter alone keeps them in line.
LEMMA CountKept ==
    ASSUME ActiveIsExact, UNCHANGED active, Handlers' = Handlers
    PROVE  ActiveIsExact'
BY DEF ActiveIsExact, Handlers

\* Entering a handler and counting it keeps them in line.
LEMMA CountEnter ==
    ASSUME ActiveIsExact, NEW r \in Requests, ~InHandler(r),
           Handlers' = Handlers \cup {r}, active' = active + 1
    PROVE  ActiveIsExact'
<1>1. Cardinality(Handlers \cup {r}) = Cardinality(Handlers) + 1
    BY HandlersFinite, FS_AddElement DEF Handlers
<1> QED
    BY <1>1 DEF ActiveIsExact, Handlers

\* So does leaving one and giving its place back (the finally block).
LEMMA CountExit ==
    ASSUME ActiveIsExact, NEW r \in Requests, InHandler(r),
           Handlers' = Handlers \ {r}, active' = active - 1
    PROVE  ActiveIsExact'
<1>1. Cardinality(Handlers \ {r}) = Cardinality(Handlers) - 1
    BY HandlersFinite, FS_RemoveElement DEF Handlers
<1> QED
    BY <1>1 DEF ActiveIsExact, Handlers

\* A request that moves between labels on the same side of a handler's door.
LEMMA MoveKeepsHandlers ==
    ASSUME Typed, NEW r \in Requests, NEW l, Goto(r, l), InHandler(r) <=> l \in Handling
    PROVE  Handlers' = Handlers
BY DEF Typed, Goto, Handlers, InHandler

\* A request that moves to a label inside the door joins the handlers.
LEMMA MoveIntoHandler ==
    ASSUME Typed, NEW r \in Requests, NEW l, Goto(r, l), l \in Handling
    PROVE  Handlers' = Handlers \cup {r}
BY DEF Typed, Goto, Handlers, InHandler

\* A request that moves to a label outside the door leaves them.
LEMMA MoveOutOfHandler ==
    ASSUME Typed, NEW r \in Requests, NEW l, Goto(r, l), l \notin Handling
    PROVE  Handlers' = Handlers \ {r}
BY DEF Typed, Goto, Handlers, InHandler

-----------------------------------------------------------------------------
(* Typing of the pieces of a request.                                      *)

\* The calls that clients send are calls.
LEMMA CallTyped ==
    ASSUME Typed, NEW r \in Requests
    PROVE  /\ call[r] \in Call
           /\ call[r].signer = None <=> call[r].nonce = None
           /\ Method(r) \in Binding => call[r].actor \in Agents
BY DispatchAssumption DEF Typed, Call, Method

\* The context that a request shares is a context, cleared of its signature too.
LEMMA ContextTyped ==
    ASSUME Typed, NEW r \in Requests
    PROVE  /\ sockOf[r] \in Sockets /\ Ctx(r) \in Context
           /\ ClearSignature(Ctx(r)) \in Context
           /\ \A a \in Agents \cup {None} : BindSigner(Ctx(r), a) \in Context
BY DEF Typed, Ctx, Context, Vias, ClearSignature, BindSigner

\* Writing a context back leaves every socket with one.
LEMMA ContextUpdate ==
    ASSUME Typed, NEW r \in Requests, NEW c \in Context, ctx' = [ctx EXCEPT ![sockOf[r]] = c]
    PROVE  ctx' \in [Sockets -> Context]
BY DEF Typed

\* So does overwriting the binding of a context.
LEMMA ContextEdit ==
    ASSUME Typed, NEW r \in Requests, NEW a \in Agents \cup {None}
    PROVE  /\ [Ctx(r) EXCEPT !.agent = a] \in Context
           /\ \A v \in Vias : [Ctx(r) EXCEPT !.agent = a, !.via = v] \in Context
BY ContextTyped DEF Context

\* Whom the permission gate and the unsigned principal rule name is an agent or nobody.
LEMMA NamedTyped ==
    ASSUME Typed, NEW r \in Requests
    PROVE  NamedAgent(r) \in Agents \cup {None}
<1>1. Ctx(r).agent \in Agents \cup {None}
    BY ContextTyped DEF Context
<1>2. Actor(r) \in Agents \cup {None}
    BY CallTyped DEF Actor, Call
<1> QED
    BY <1>1, <1>2 DEF NamedAgent

\* The synchronous end of verifyOrWarn stays outside the door.
LEMMA AfterVerifyMoves ==
    ASSUME Typed, NEW r \in Requests, NEW v \in {"none", "invalid", "verified"}, NEW c,
           AfterVerify(r, v, c)
    PROVE  /\ verdict' = [verdict EXCEPT ![r] = v]
           /\ \E l \in {"answered", "permission", "door"} : Goto(r, l)
BY DEF AfterVerify

-----------------------------------------------------------------------------
(* Every step keeps CountInv.                                              *)

\* The gates before the door preserve the invariant: they touch neither counter nor handlers.
LEMMA GateStep ==
    ASSUME CountInv, NEW r \in Requests, Gate(r)
    PROVE  CountInv'
<1> USE DEF CountInv
<1>1. CASE DenyLicense(r) \/ RefusePermission(r) \/ LosePermission(r) \/ RefuseShutdown(r)
    <2>1. /\ \E l \in {"answered", "dead"} : Goto(r, l)
          /\ ~InHandler(r)
          /\ UNCHANGED <<open, ctx, sockOf, call, verdict, as, storeVars, active, stopVars>>
        BY <1>1 DEF DenyLicense, RefusePermission, LosePermission, RefuseShutdown,
                    PermissionGranted, InHandler, Handling
    <2>2. Typed'
        BY <2>1 DEF Typed, Goto, storeVars, stopVars, Settled
    <2>3. Undecided'
        BY <2>1 DEF Typed, Undecided, Goto, Method
    <2>4. ActiveIsExact'
        BY <2>1, MoveKeepsHandlers, CountKept DEF Handling
    <2> QED
        BY <2>2, <2>3, <2>4
<1>2. CASE PassLicense(r)
    <2> DEFINE c == ClearSignature(Ctx(r))
    <2>1. /\ pc[r] = "license"
          /\ ctx' = [ctx EXCEPT ![sockOf[r]] = c]
          /\ UNCHANGED <<open, sockOf, call, as, storeVars, active, stopVars>>
        BY <1>2 DEF PassLicense
    <2>2. \/ Goto(r, "key") /\ UNCHANGED verdict /\ call[r].signer # None
          \/ verdict' = [verdict EXCEPT ![r] = "none"] /\ \E l \in {"answered", "permission", "door"} : Goto(r, l)
        BY <1>2, AfterVerifyMoves DEF PassLicense
    <2>3. Typed'
        BY <2>1, <2>2, ContextTyped DEF Typed, Goto, storeVars, stopVars, Gates, Settled
    <2>4. Undecided'
        BY <2>1, <2>2 DEF Typed, Undecided, Goto, Method
    <2>5. ~InHandler(r)
        BY <2>1 DEF InHandler, Handling
    <2>6. ActiveIsExact'
        BY <2>1, <2>2, <2>5, MoveKeepsHandlers, CountKept DEF Handling
    <2> QED
        BY <2>3, <2>4, <2>6
<1>3. CASE CheckKey(r)
    <2>1. /\ pc[r] = "key"
          /\ UNCHANGED <<open, ctx, sockOf, call, as, storeVars, active, stopVars>>
        BY <1>3 DEF CheckKey
    <2>2. \/ UNCHANGED verdict /\ \E l \in {"nonce", "dead"} : Goto(r, l)
          \/ verdict' = [verdict EXCEPT ![r] = "invalid"] /\ \E l \in {"answered", "permission", "door"} : Goto(r, l)
        BY <1>3, AfterVerifyMoves DEF CheckKey
    <2>3. Typed'
        BY <2>1, <2>2 DEF Typed, Goto, storeVars, stopVars, Gates, Settled
    <2>4. Undecided'
        BY <2>1, <2>2 DEF Typed, Undecided, Goto, Method
    <2>5. ~InHandler(r)
        BY <2>1 DEF InHandler, Handling
    <2>6. ActiveIsExact'
        BY <2>1, <2>2, <2>5, MoveKeepsHandlers, CountKept DEF Handling
    <2> QED
        BY <2>3, <2>4, <2>6
<1>4. CASE RecordNonce(r)
    <2>1. /\ pc[r] = "nonce"
          /\ UNCHANGED <<open, sockOf, call, as, stale, held, active, stopVars>>
        BY <1>4 DEF RecordNonce
    <2>2. \/ /\ nonces' = nonces \cup {call[r].nonce}
             /\ ctx' = [ctx EXCEPT ![sockOf[r]] = BindSigner(Ctx(r), call[r].signer)]
          \/ UNCHANGED <<nonces, ctx>>
        BY <1>4 DEF RecordNonce
    <2>3. \E v \in {"invalid", "verified"}, l \in {"answered", "permission", "door"} :
              verdict' = [verdict EXCEPT ![r] = v] /\ Goto(r, l)
        BY <1>4, AfterVerifyMoves DEF RecordNonce
    <2>4. call[r].nonce \in Nat /\ call[r].signer \in Agents \cup {None}
        BY <2>1, CallTyped DEF Undecided, Call
    <2>5. Typed'
        <3>1. ctx' \in [Sockets -> Context]
            <4>1. BindSigner(Ctx(r), call[r].signer) \in Context
                BY <2>4, ContextTyped
            <4> QED
                BY <2>2, <4>1, ContextUpdate DEF Typed
        <3>2. nonces' \subseteq Nat
            BY <2>2, <2>4 DEF Typed
        <3> QED
            BY <2>1, <2>3, <3>1, <3>2 DEF Typed, Goto, stopVars, Gates, Settled
    <2>6. Undecided'
        BY <2>1, <2>3 DEF Typed, Undecided, Goto, Method
    <2>7. ~InHandler(r)
        BY <2>1 DEF InHandler, Handling
    <2>8. ActiveIsExact'
        BY <2>1, <2>3, <2>7, MoveKeepsHandlers, CountKept DEF Handling
    <2> QED
        BY <2>5, <2>6, <2>8
<1> QED
    BY <1>1, <1>2, <1>3, <1>4 DEF Gate

\* Every way through a handler preserves it: entry, both exits, and the moves between.
LEMMA HandleStep ==
    ASSUME CountInv, NEW r \in Requests, Handle(r)
    PROVE  CountInv'
<1> USE DEF CountInv
<1>1. CASE EnterHandler(r)
    <2>1. pc[r] \in {"permission", "door"} /\ ~InHandler(r)
        BY <1>1 DEF EnterHandler, PermissionGranted, InHandler, Handling
    <2>2. UNCHANGED <<open, ctx, sockOf, call, verdict, storeVars, stopVars>>
        BY <1>1 DEF EnterHandler
    <2>3. CASE Throws(r)
        <3>1. Goto(r, "answered") /\ UNCHANGED <<as, active>>
            BY <1>1, <2>3 DEF EnterHandler
        <3>2. ActiveIsExact'
            BY <2>1, <3>1, MoveKeepsHandlers, CountKept DEF Handling
        <3> QED
            BY <2>1, <2>2, <3>1, <3>2
               DEF Typed, Undecided, Goto, Method, storeVars, stopVars, Settled
    <2>4. CASE ~Throws(r)
        <3>1. active' = active + 1 /\ \E l \in {"origin", "body"} : Goto(r, l)
            BY <1>1, <2>4 DEF EnterHandler
        <3>2. Ctx(r).agent \in Agents \cup {None}
            BY ContextTyped DEF Context
        <3>3. as' \in [Requests -> Agents \cup {None}]
            BY <1>1, <2>4, <3>2, NamedTyped DEF EnterHandler, Typed
        <3>4. Typed'
            <4>1. active' \in Nat
                BY <3>1 DEF Typed
            <4>2. pc' \in [Requests -> {"unsent"} \cup Gates \cup Handling \cup Settled]
                BY <3>1 DEF Typed, Goto, Handling
            <4> QED
                BY <2>2, <3>3, <4>1, <4>2 DEF Typed, storeVars, stopVars
        <3>5. Undecided'
            <4>1. Method(r) = "reserve" => as'[r] # None
                BY <1>1, <2>4 DEF EnterHandler, Throws, Typed
            <4>2. \A q \in Requests : q # r => as'[q] = as[q]
                BY <1>1, <2>4 DEF EnterHandler, Typed
            <4> QED
                BY <2>1, <2>2, <3>1, <4>1, <4>2 DEF Typed, Undecided, Goto, Method
        <3>6. ActiveIsExact'
            BY <2>1, <3>1, MoveIntoHandler, CountEnter DEF Handling
        <3> QED
            BY <3>4, <3>5, <3>6
    <2> QED
        BY <2>3, <2>4
<1>2. ASSUME HandlerExit(r), InHandler(r),
             UNCHANGED <<open, ctx, sockOf, call, verdict, as, storeVars, stopVars>>
      PROVE  CountInv'
    <2>1. Goto(r, "answered") /\ active' = active - 1 /\ active \in Nat /\ active >= 1
        BY <1>2, HandlerCounted DEF HandlerExit
    <2>2. Typed'
        <3>1. active' \in Nat
            BY <2>1
        <3>2. pc' \in [Requests -> {"unsent"} \cup Gates \cup Handling \cup Settled]
            BY <2>1 DEF Typed, Goto, Settled
        <3> QED
            BY <1>2, <3>1, <3>2 DEF Typed, storeVars, stopVars
    <2>3. Undecided'
        BY <1>2, <2>1 DEF Typed, Undecided, Goto, Method
    <2>4. ActiveIsExact'
        BY <1>2, <2>1, MoveOutOfHandler, CountExit DEF Handling
    <2> QED
        BY <2>2, <2>3, <2>4
<1>3. CASE CheckOrigin(r)
    <2>1. /\ InHandler(r) /\ pc[r] = "origin"
          /\ UNCHANGED <<open, sockOf, call, verdict, as, storeVars, stopVars>>
        BY <1>3 DEF CheckOrigin, InHandler, Handling
    <2>2. CASE TrustedUnsigned(as[r])
        <3>1. Goto(r, "body") /\ UNCHANGED active
            BY <1>3, <2>2 DEF CheckOrigin
        <3>2. ctx' \in [Sockets -> Context]
            <4> DEFINE c == [Ctx(r) EXCEPT !.agent = as[r], !.via = "param"]
            <4>1. c \in Context
                BY ContextEdit DEF Typed, Vias
            <4>2. ctx' = ctx \/ ctx' = [ctx EXCEPT ![sockOf[r]] = c]
                BY <1>3, <2>2 DEF CheckOrigin, Ctx, Typed
            <4> QED
                BY <4>1, <4>2, ContextUpdate DEF Typed
        <3>3. Typed'
            BY <2>1, <3>1, <3>2 DEF Typed, Goto, storeVars, stopVars, Handling
        <3>4. Undecided'
            BY <2>1, <3>1 DEF Typed, Undecided, Goto, Method
        <3>5. ActiveIsExact'
            BY <2>1, <3>1, MoveKeepsHandlers, CountKept DEF Handling
        <3> QED
            BY <3>3, <3>4, <3>5
    <2>3. CASE ~TrustedUnsigned(as[r])
        BY <1>2, <1>3, <2>1, <2>3 DEF CheckOrigin
    <2> QED
        BY <2>2, <2>3
<1>4. CASE RunBody(r)
    <2>1. /\ InHandler(r) /\ Goto(r, "tail") /\ pc[r] = "body"
          /\ UNCHANGED <<open, sockOf, call, verdict, as, nonces, stale, active, stopVars>>
        BY <1>4 DEF RunBody, InHandler, Handling
    <2>2. ctx' \in [Sockets -> Context]
        <3> DEFINE c == [Ctx(r) EXCEPT !.agent = call[r].actor, !.via = Method(r)]
                   d == [Ctx(r) EXCEPT !.agent = None]
        <3>1. Method(r) \in Binding => c \in Context
            BY CallTyped, ContextEdit DEF Binding, Vias
        <3>2. d \in Context
            BY ContextEdit
        <3>3. \/ Method(r) \in Binding /\ ctx' = [ctx EXCEPT ![sockOf[r]] = c]
              \/ ctx' = [ctx EXCEPT ![sockOf[r]] = d]
              \/ ctx' = ctx
            <4>1. Method(r) \in Binding =>
                     ctx' = [ctx EXCEPT ![sockOf[r]] = [@ EXCEPT !.agent = call[r].actor,
                                                                 !.via = Method(r)]]
                BY <1>4 DEF RunBody, Binding
            <4>2. Method(r) \notin Binding /\ Method(r) = "end" /\ Ctx(r).agent = as[r] =>
                     ctx' = [ctx EXCEPT ![sockOf[r]].agent = None]
                BY <1>4 DEF RunBody
            <4>3. Method(r) \notin Binding /\ ~(Method(r) = "end" /\ Ctx(r).agent = as[r]) =>
                     ctx' = ctx
                BY <1>4 DEF RunBody
            <4> QED
                BY <4>1, <4>2, <4>3 DEF Ctx, Typed
        <3> QED
            BY <3>1, <3>2, <3>3, ContextUpdate DEF Typed
    <2>3. held' \subseteq Agents
        BY <1>4, <2>1 DEF RunBody, Typed, Undecided
    <2>4. Typed'
        BY <2>1, <2>2, <2>3 DEF Typed, Goto, stopVars, Handling
    <2>5. Undecided'
        BY <2>1 DEF Typed, Undecided, Goto, Method
    <2>6. ActiveIsExact'
        BY <2>1, MoveKeepsHandlers, CountKept DEF Handling
    <2> QED
        BY <2>4, <2>5, <2>6
<1>5. CASE FailHandler(r) \/ FinishHandler(r)
    BY <1>2, <1>5 DEF FailHandler, FinishHandler, InHandler, Handling
<1> QED
    BY <1>1, <1>3, <1>4, <1>5 DEF Handle

\* Arrivals, departures, time and close() leave requests inside the door where they are.
LEMMA WorldStep ==
    ASSUME CountInv,
           \/ \E r \in Requests : Arrive(r)
           \/ \E s \in Sockets : Disconnect(s)
           \/ \E n \in {call[r].nonce : r \in Requests} \ {None} : Age(n)
           \/ SweepNonces \/ Closing \/ UNCHANGED vars
    PROVE  CountInv'
<1> USE DEF CountInv
<1>1. ASSUME NEW r \in Requests, Arrive(r) PROVE CountInv'
    <2>1. ~InHandler(r) /\ Goto(r, "license") /\ pc[r] = "unsent"
          /\ UNCHANGED <<open, ctx, sockOf, call, verdict, as, storeVars, active, stopVars>>
        BY <1>1 DEF Arrive, InHandler, Handling
    <2>2. Typed'
        BY <2>1 DEF Typed, Goto, storeVars, stopVars, Gates
    <2>3. Undecided'
        BY <2>1 DEF Typed, Undecided, Goto, Method
    <2>4. ActiveIsExact'
        BY <2>1, MoveKeepsHandlers, CountKept DEF Handling
    <2> QED
        BY <2>2, <2>3, <2>4
<1>2. ASSUME UNCHANGED <<reqVars, active>> PROVE Undecided' /\ ActiveIsExact'
    <2>1. Undecided'
        BY <1>2 DEF reqVars, Undecided, Method
    <2>2. Handlers' = Handlers
        BY <1>2 DEF reqVars, Handlers, InHandler
    <2> QED
        BY <1>2, <2>1, <2>2, CountKept
<1>3. ASSUME NEW s \in Sockets, Disconnect(s) PROVE CountInv'
    BY <1>2, <1>3 DEF Disconnect, Typed, reqVars, stopVars
<1>4. ASSUME NEW n \in {call[r].nonce : r \in Requests} \ {None}, Age(n) PROVE CountInv'
    <2>1. n \in Nat
        BY <1>4, CallTyped DEF Call
    <2> QED
        BY <1>2, <1>4, <2>1 DEF Age, Typed, reqVars, stopVars
<1>5. CASE SweepNonces
    BY <1>2, <1>5 DEF SweepNonces, Typed, reqVars, stopVars
<1>6. CASE Closing
    BY <1>2, <1>6 DEF Closing, BeginClose, DestroySockets, CloseDatabase, ResetClosing,
                      Typed, reqVars, storeVars
<1>7. CASE UNCHANGED vars
    BY <1>2, <1>7 DEF vars, Typed, reqVars, storeVars, stopVars
<1> QED
    BY <1>1, <1>3, <1>4, <1>5, <1>6, <1>7

\* The invariant is inductive.
LEMMA NextCount == CountInv /\ [Next]_vars => CountInv'
<1> SUFFICES ASSUME CountInv, [Next]_vars PROVE CountInv'
    OBVIOUS
<1>1. ASSUME NEW r \in Requests, Gate(r) \/ Handle(r) PROVE CountInv'
    BY <1>1, GateStep, HandleStep
<1>2. \/ \E r \in Requests : Gate(r) \/ Handle(r)
      \/ \E r \in Requests : Arrive(r)
      \/ \E s \in Sockets : Disconnect(s)
      \/ \E n \in {call[r].nonce : r \in Requests} \ {None} : Age(n)
      \/ SweepNonces \/ Closing \/ UNCHANGED vars
    BY DEF Next
<1> QED
    BY <1>1, <1>2, WorldStep

\* The bound of TypeOK on the counter follows from what it counts.
LEMMA CountImpliesType == CountInv => TypeOK
<1> SUFFICES ASSUME CountInv PROVE TypeOK
    OBVIOUS
<1>1. active \in 0..Cardinality(Requests)
    BY HandlersFinite DEF CountInv, ActiveIsExact, Handlers
<1> QED
    BY <1>1 DEF CountInv, Typed, TypeOK

\* The counter is exact and the state typed in every reachable state.
LEMMA SpecCount == Spec => []CountInv
BY InitCount, NextCount, PTL DEF Spec

\* Every reachable state of the daemon is well typed; the part that is not
\* plain is active \in 0..Cardinality(Requests), that the counter of running
\* handlers (_activeHandlerCount) neither underflows nor leaks.
THEOREM TypeCorrect == Spec => []TypeOK
BY SpecCount, CountImpliesType, PTL

\* The counter close() drains on (_activeHandlerCount) is at all times the
\* number of handlers between their entry and their finally block, however many
\* requests run, and through errors, shutdown and a database closed under them.
THEOREM HandlersCounted == Spec => []ActiveIsExact
<1>1. CountInv => ActiveIsExact
    BY DEF CountInv
<1> QED
    BY SpecCount, <1>1, PTL

-----------------------------------------------------------------------------
(* Shutdown, when the grace period is long enough for every handler.       *)

\* close() goes through its phases in order, and closes the database on nobody.
Phases ==
    /\ closer = "serving" => ~closing /\ dbOpen
    /\ closer \in {"stopping", "draining"} => closing /\ dbOpen
    /\ closer = "closed" => closing /\ ~dbOpen /\ active = 0
    /\ closer = "stopped" => ~closing /\ ~dbOpen

\* While the shutdown gate is down the counter only falls, and never below zero.
LEMMA GateHolds ==
    ASSUME CountInv, closing, active = 0, NEW r \in Requests, Arrive(r) \/ Gate(r) \/ Handle(r)
    PROVE  active' = 0
<1>1. ~InHandler(r)
    BY HandlerCounted DEF CountInv
<1>2. ~Handle(r)
    BY <1>1 DEF Handle, EnterHandler, ShutdownGateOpen, CheckOrigin, RunBody, FailHandler,
                FinishHandler, InHandler, Handling
<1> QED
    BY <1>2 DEF Arrive, Gate, DenyLicense, PassLicense, CheckKey, RecordNonce, RefusePermission,
                LosePermission, RefuseShutdown

\* Each step of close(), and every request, respects the order of the phases.
LEMMA PhasesStep ==
    ASSUME ~GraceMayExpire, CountInv, Phases, [Next]_vars
    PROVE  Phases'
<1>1. ASSUME NEW r \in Requests, Arrive(r) \/ Gate(r) \/ Handle(r) PROVE Phases'
    <2>1. UNCHANGED stopVars
        BY <1>1 DEF Arrive, Gate, DenyLicense, PassLicense, CheckKey, RecordNonce, RefusePermission,
                    LosePermission, RefuseShutdown, Handle, EnterHandler, CheckOrigin, RunBody,
                    FailHandler, FinishHandler
    <2> QED
        BY <1>1, <2>1, GateHolds DEF Phases, stopVars
<1>2. CASE Closing
    BY <1>2 DEF Closing, BeginClose, DestroySockets, CloseDatabase, ResetClosing, Drained, Phases
<1>3. ASSUME UNCHANGED <<active, stopVars>> PROVE Phases'
    BY <1>3 DEF Phases, stopVars
<1>4. \/ \E r \in Requests : Arrive(r) \/ Gate(r) \/ Handle(r)
      \/ Closing \/ UNCHANGED <<active, stopVars>>
    BY DEF Next, Disconnect, Age, SweepNonces, vars
<1> QED
    BY <1>1, <1>2, <1>3, <1>4

\* If the handlers end within the grace period, close() closes the database on
\* none of them, and none starts until the shutdown gate is reset.
THEOREM DatabaseClosesQuietly == ASSUME ~GraceMayExpire PROVE Spec => []ClosedDatabaseIsQuiet
<1>1. Init => Phases
    BY DEF Init, Phases
<1>2. CountInv /\ Phases /\ [Next]_vars => Phases'
    BY PhasesStep
<1>3. CountInv /\ Phases => ClosedDatabaseIsQuiet
    BY DEF CountInv, Typed, Phases, ClosedDatabaseIsQuiet
<1> QED
    BY SpecCount, <1>1, <1>2, <1>3, PTL DEF Spec

-----------------------------------------------------------------------------
(* Envelopes.                                                              *)

Verified(r) == verdict[r] = "verified"

\* The nonce of an accepted envelope is on record until it is stale, and while
\* an INSERT of it is on its way it is on record all the same.
OnRecord ==
    /\ \A q \in Requests : Verified(q) => call[q].nonce \in nonces \cup stale
    /\ \A q, r \in Requests :
          Verified(q) /\ pc[r] = "nonce" /\ call[r].nonce = call[q].nonce
              => call[q].nonce \in nonces

NonceInv == Typed /\ Undecided /\ OnRecord /\ EnvelopeAcceptedOnce

\* Nothing but RecordNonce accepts, nothing but CheckKey sends an INSERT.
LEMMA RequestKeepsRecord ==
    ASSUME NonceInv, NEW r \in Requests, Arrive(r) \/ Gate(r) \/ Handle(r), ~RecordNonce(r)
    PROVE  OnRecord' /\ EnvelopeAcceptedOnce'
<1>1. UNCHANGED <<nonces, stale, call>>
    BY DEF Arrive, Gate, DenyLicense, PassLicense, CheckKey, RefusePermission, LosePermission,
           RefuseShutdown, Handle, EnterHandler, CheckOrigin, RunBody, FailHandler, FinishHandler,
           storeVars
<1>2. \A q \in Requests : Verified(q)' => Verified(q)
    BY DEF NonceInv, Typed, Verified, AfterVerify, Arrive, Gate, DenyLicense, PassLicense, CheckKey,
           RefusePermission, LosePermission, RefuseShutdown, Handle, EnterHandler, CheckOrigin,
           RunBody, FailHandler, FinishHandler
<1>3. \A q \in Requests : pc'[q] = "nonce" => pc[q] = "nonce" \/ call[q].nonce \notin stale
    <2>1. CASE CheckKey(r)
        BY <2>1 DEF NonceInv, Typed, CheckKey, EnvelopeAccepted, AfterVerify, Goto
    <2>2. CASE ~CheckKey(r)
        <3>1. \E l \in {"license", "key", "permission", "door", "origin", "body", "tail", "answered", "dead"} :
                 Goto(r, l)
            BY <2>2 DEF Arrive, Gate, DenyLicense, PassLicense, RefusePermission, LosePermission,
                   RefuseShutdown, Handle, EnterHandler, CheckOrigin, RunBody, FailHandler,
                   FinishHandler, HandlerExit, AfterVerify
        <3> QED
            BY <3>1 DEF NonceInv, Typed, Goto
    <2> QED
        BY <2>1, <2>2
<1>4. OnRecord'
    BY <1>1, <1>2, <1>3 DEF NonceInv, OnRecord, Verified
<1>5. EnvelopeAcceptedOnce'
    BY <1>1, <1>2 DEF NonceInv, EnvelopeAcceptedOnce, Verified
<1> QED
    BY <1>4, <1>5

\* The unique index turns away an envelope that was accepted before, even if
\* it went stale after its timestamp was checked.
LEMMA RecordKeepsRecord ==
    ASSUME NonceInv, NEW r \in Requests, RecordNonce(r)
    PROVE  OnRecord' /\ EnvelopeAcceptedOnce'
<1>1. /\ pc[r] = "nonce" /\ UNCHANGED <<call, stale>>
      /\ \E l \in {"answered", "permission", "door"} : Goto(r, l)
    BY DEF RecordNonce, AfterVerify
<1>2. \A q \in Requests : pc'[q] = "nonce" => pc[q] = "nonce"
    BY <1>1 DEF NonceInv, Typed, Goto
<1>3. CASE NonceFree(r) /\ nonces' = nonces \cup {call[r].nonce}
                      /\ verdict' = [verdict EXCEPT ![r] = "verified"]
    <2>1. \A q \in Requests : Verified(q)' <=> Verified(q) \/ q = r
        BY <1>3 DEF NonceInv, Typed, Verified
    <2>2. \A q \in Requests : Verified(q) => call[q].nonce # call[r].nonce
        BY <1>1, <1>3 DEF NonceInv, OnRecord, NonceFree
    <2>3. OnRecord'
        BY <1>1, <1>2, <1>3, <2>1 DEF NonceInv, OnRecord, Verified
    <2>4. EnvelopeAcceptedOnce'
        BY <1>1, <2>1, <2>2 DEF NonceInv, EnvelopeAcceptedOnce, Verified
    <2> QED
        BY <2>3, <2>4
<1>4. CASE UNCHANGED nonces /\ verdict' = [verdict EXCEPT ![r] = "invalid"]
    <2>1. \A q \in Requests : Verified(q)' => Verified(q)
        BY <1>4 DEF NonceInv, Typed, Verified
    <2> QED
        BY <1>1, <1>2, <1>4, <2>1 DEF NonceInv, OnRecord, EnvelopeAcceptedOnce, Verified
<1> QED
    BY <1>3, <1>4 DEF RecordNonce, AfterVerify

\* Requests, the sweep and time keep the record of accepted nonces.
LEMMA NonceStep ==
    ASSUME NonceInv, [Next]_vars
    PROVE  OnRecord' /\ EnvelopeAcceptedOnce'
<1>1. ASSUME NEW r \in Requests, Arrive(r) \/ Gate(r) \/ Handle(r)
      PROVE  OnRecord' /\ EnvelopeAcceptedOnce'
    BY <1>1, RequestKeepsRecord, RecordKeepsRecord
<1>2. CASE SweepNonces
    BY <1>2 DEF SweepNonces, NonceInv, OnRecord, EnvelopeAcceptedOnce, Verified, reqVars
<1>3. ASSUME UNCHANGED <<reqVars, nonces>>, stale \subseteq stale'
      PROVE  OnRecord' /\ EnvelopeAcceptedOnce'
    BY <1>3 DEF NonceInv, OnRecord, EnvelopeAcceptedOnce, Verified, reqVars
<1>4. \/ \E r \in Requests : Arrive(r) \/ Gate(r) \/ Handle(r)
      \/ SweepNonces \/ (UNCHANGED <<reqVars, nonces>> /\ stale \subseteq stale')
    BY DEF Next, Closing, BeginClose, DestroySockets, CloseDatabase, ResetClosing, Disconnect, Age,
           storeVars, vars
<1> QED
    BY <1>1, <1>2, <1>3, <1>4

\* An envelope is accepted at most once over the life of the daemon, however
\* often and on however many sockets it is delivered, although its nonce is
\* swept in the end.
THEOREM AcceptedOnce == Spec => []EnvelopeAcceptedOnce
<1>1. Init => OnRecord /\ EnvelopeAcceptedOnce
    BY DEF Init, OnRecord, EnvelopeAcceptedOnce, Verified
<1>2. CountInv /\ OnRecord /\ EnvelopeAcceptedOnce /\ [Next]_vars => OnRecord' /\ EnvelopeAcceptedOnce'
    BY NonceStep DEF NonceInv, CountInv
<1> QED
    BY SpecCount, <1>1, <1>2, PTL DEF Spec

-----------------------------------------------------------------------------
(* Whom a handler acts for, if a client waits for its answers.             *)

\* One request at a time is on its way on a socket.
Alone ==
    \A q, r \in Requests : InFlight(q) /\ InFlight(r) /\ sockOf[q] = sockOf[r] => q = r

\* Until a request is verified its socket is not bound by a signature, and then
\* by its own; a handler that is about to ask for the origin of a key was not
\* verified, and one in its body acts for whom it has proven.
BoundOf(r) ==
    /\ pc[r] \in {"key", "nonce"} \/ (pc[r] \in {"permission", "door"} /\ verdict[r] # "verified")
           => Ctx(r).via # "signature"
    /\ pc[r] \in {"permission", "door"} /\ verdict[r] = "verified"
           => /\ Ctx(r).via = "signature" /\ Ctx(r).agent = call[r].signer
              /\ call[r].signer # None
    /\ pc[r] \in {"permission", "door"} /\ Method(r) \in SigRequired => verdict[r] = "verified"
    /\ pc[r] = "origin" => verdict[r] # "verified"
    /\ pc[r] \in {"body", "tail"} /\ as[r] # None
           => IF verdict[r] = "verified" THEN as[r] = call[r].signer ELSE as[r] \notin ClientOwned

Bound == SnapshotIsConnectionLevel /\ \A r \in Requests : BoundOf(r)

\* A request in progress changes only what is its own and the context of its socket.
Frame(r) ==
    /\ UNCHANGED <<sockOf, call>>
    /\ \A q \in Requests : q # r => pc'[q] = pc[q] /\ verdict'[q] = verdict[q] /\ as'[q] = as[q]
    /\ \A s \in Sockets : s # sockOf[r] => ctx'[s] = ctx[s]

\* A gate or a handler is the step of a request in progress, and of nothing else.
LEMMA FrameOfRequest ==
    ASSUME Typed, NEW r \in Requests, Gate(r) \/ Handle(r)
    PROVE  InFlight(r) /\ Frame(r)
<1> USE DEF Frame, InFlight, Settled
<1>1. CASE Gate(r)
    <2>1. CASE PassLicense(r)
        BY <2>1 DEF Typed, PassLicense, AfterVerify, Goto
    <2>2. CASE CheckKey(r)
        BY <2>2 DEF Typed, CheckKey, AfterVerify, Goto
    <2>3. CASE RecordNonce(r)
        BY <2>3 DEF Typed, RecordNonce, AfterVerify, Goto
    <2> QED
        BY <1>1, <2>1, <2>2, <2>3
           DEF Typed, Gate, DenyLicense, RefusePermission, LosePermission, RefuseShutdown,
               PermissionGranted, Goto
<1>2. CASE Handle(r)
    <2>1. CASE EnterHandler(r)
        BY <2>1 DEF Typed, EnterHandler, PermissionGranted, Goto
    <2>2. CASE CheckOrigin(r)
        BY <2>2 DEF Typed, CheckOrigin, HandlerExit, Goto
    <2>3. CASE RunBody(r)
        <3>1. \A s \in Sockets : s # sockOf[r] => ctx'[s] = ctx[s]
            BY <2>3 DEF Typed, RunBody
        <3> QED
            BY <2>3, <3>1 DEF Typed, RunBody, Goto
    <2> QED
        BY <1>2, <2>1, <2>2, <2>3
           DEF Typed, Handle, FailHandler, FinishHandler, HandlerExit, InHandler, Handling, Goto
<1> QED
    BY <1>1, <1>2

\* What the request itself establishes is all there is to show: no other is on
\* its way on the socket.
LEMMA FrameKeepsBound ==
    ASSUME Typed, Alone, Bound, NEW r \in Requests, InFlight(r), Frame(r),
           BoundOf(r)', ctx'[sockOf[r]].preVia # "signature"
    PROVE  Alone' /\ Bound'
<1>1. \A q \in Requests : InFlight(q)' => InFlight(q)
    BY DEF Frame, InFlight
<1>2. Alone'
    BY <1>1 DEF Alone, Frame
<1>3. ASSUME NEW q \in Requests, q # r PROVE BoundOf(q)'
    <2>1. CASE InFlight(q)
        <3>1. sockOf[q] # sockOf[r] /\ sockOf[q] \in Sockets
            BY <1>3, <2>1 DEF Alone, Typed
        <3>2. Ctx(q)' = Ctx(q)
            BY <3>1 DEF Frame, Ctx
        <3> QED
            BY <1>3, <3>2 DEF Frame, Bound, BoundOf, Method
    <2>2. CASE ~InFlight(q)
        BY <1>3, <2>2 DEF Frame, BoundOf, InFlight, Settled
    <2> QED
        BY <2>1, <2>2
<1>4. SnapshotIsConnectionLevel'
    BY DEF Frame, Bound, SnapshotIsConnectionLevel
<1> QED
    BY <1>2, <1>3, <1>4 DEF Bound

\* The gates: a context loses the signature of the last request before the
\* signer of this one is bound.
LEMMA GateKeepsBound ==
    ASSUME CountInv, Alone, Bound, NEW r \in Requests, Gate(r)
    PROVE  Alone' /\ Bound'
<1> USE DEF CountInv
<1>0. /\ InFlight(r) /\ Frame(r) /\ sockOf[r] \in Sockets
      /\ Ctx(r).preVia # "signature" /\ BoundOf(r)
    BY FrameOfRequest DEF Typed, Bound, SnapshotIsConnectionLevel, Ctx
<1> SUFFICES BoundOf(r)' /\ ctx'[sockOf[r]].preVia # "signature"
    BY <1>0, FrameKeepsBound
<1>1. CASE DenyLicense(r) \/ RefusePermission(r) \/ LosePermission(r) \/ RefuseShutdown(r)
    <2>1. ctx' = ctx /\ \E l \in {"answered", "dead"} : Goto(r, l)
        BY <1>1 DEF DenyLicense, RefusePermission, LosePermission, RefuseShutdown
    <2> QED
        BY <1>0, <2>1 DEF Typed, BoundOf, Goto, Ctx
<1>2. CASE PassLicense(r)
    <2> DEFINE c == ClearSignature(Ctx(r))
    <2>1. c.via # "signature" /\ c.preVia # "signature"
        BY <1>0 DEF ClearSignature
    <2> HIDE DEF c
    <2>2. ctx' = [ctx EXCEPT ![sockOf[r]] = c] /\ UNCHANGED <<sockOf, call, as>>
        BY <1>2 DEF PassLicense, c
    <2>3. Ctx(r)' = c
        BY <1>0, <2>2 DEF Typed, Ctx
    <2>4. CASE Goto(r, "key")
        BY <2>1, <2>2, <2>3, <2>4 DEF Typed, BoundOf, Goto, Ctx
    <2>5. CASE AfterVerify(r, "none", c)
        BY <2>1, <2>2, <2>3, <2>5 DEF Typed, BoundOf, AfterVerify, Goto, Ctx, Method
    <2> QED
        BY <1>2, <2>4, <2>5 DEF PassLicense, c
<1>3. CASE CheckKey(r)
    <2>1. pc[r] = "key" /\ Ctx(r).via # "signature" /\ UNCHANGED <<ctx, sockOf, call, as>>
        BY <1>0, <1>3 DEF CheckKey, BoundOf
    <2>2. CASE \E l \in {"nonce", "dead"} : Goto(r, l)
        BY <1>0, <2>1, <2>2 DEF Typed, BoundOf, Goto, Ctx
    <2>3. CASE AfterVerify(r, "invalid", Ctx(r))
        BY <1>0, <2>1, <2>3 DEF Typed, BoundOf, AfterVerify, Goto, Ctx, Method
    <2> QED
        BY <1>3, <2>2, <2>3 DEF CheckKey
<1>4. CASE RecordNonce(r)
    <2> DEFINE c == BindSigner(Ctx(r), call[r].signer)
    <2>1. pc[r] = "nonce" /\ Ctx(r).via # "signature" /\ UNCHANGED <<sockOf, call, as>>
        BY <1>0, <1>4 DEF RecordNonce, BoundOf
    <2>2. /\ c.via = "signature" /\ c.agent = call[r].signer /\ c.preVia # "signature"
          /\ call[r].signer # None
        BY <2>1 DEF BindSigner, Undecided
    <2> HIDE DEF c
    <2>3. CASE ctx' = [ctx EXCEPT ![sockOf[r]] = c] /\ AfterVerify(r, "verified", c)
        <3>1. Ctx(r)' = c
            BY <1>0, <2>1, <2>3 DEF Typed, Ctx
        <3> QED
            BY <2>1, <2>2, <2>3, <3>1 DEF Typed, BoundOf, AfterVerify, Goto, Ctx, Method
    <2>4. CASE ctx' = ctx /\ AfterVerify(r, "invalid", Ctx(r))
        BY <1>0, <2>1, <2>4 DEF Typed, BoundOf, AfterVerify, Goto, Ctx, Method
    <2> QED
        BY <1>4, <2>3, <2>4 DEF RecordNonce, c
<1> QED
    BY <1>1, <1>2, <1>3, <1>4 DEF Gate

\* The handlers: one that needs a principal takes the signer, or asks for the
\* origin of the key.
LEMMA HandleKeepsBound ==
    ASSUME CountInv, Alone, Bound, NEW r \in Requests, Handle(r)
    PROVE  Alone' /\ Bound'
<1> USE DEF CountInv
<1>0. /\ InFlight(r) /\ Frame(r) /\ sockOf[r] \in Sockets
      /\ Ctx(r).preVia # "signature" /\ BoundOf(r)
    BY FrameOfRequest DEF Typed, Bound, SnapshotIsConnectionLevel, Ctx
<1> SUFFICES BoundOf(r)' /\ ctx'[sockOf[r]].preVia # "signature"
    BY <1>0, FrameKeepsBound
<1>1. CASE EnterHandler(r)
    <2>1. pc[r] \in {"permission", "door"} /\ UNCHANGED <<ctx, sockOf, call, verdict>>
        BY <1>1 DEF EnterHandler, PermissionGranted
    <2>2. CASE Throws(r)
        BY <1>0, <1>1, <2>1, <2>2 DEF Typed, EnterHandler, BoundOf, Goto, Ctx
    <2>3. CASE ~Throws(r)
        <3>1. /\ Method(r) \in {"end", "write"} => as'[r] = Ctx(r).agent
              /\ Method(r) = "reserve" => as'[r] = NamedAgent(r)
              /\ Method(r) \notin {"end", "write", "reserve"} => as'[r] = None
              /\ Goto(r, IF Method(r) = "reserve" /\ ~HasSigner(r) THEN "origin" ELSE "body")
            BY <1>1, <2>3 DEF Typed, EnterHandler
        <3>2. verdict[r] = "verified" => HasSigner(r) /\ Ctx(r).agent = call[r].signer
            BY <1>0, <2>1 DEF BoundOf, HasSigner
        <3>3. verdict[r] # "verified" => ~HasSigner(r) /\ Method(r) \notin {"end", "write"}
            BY <1>0, <2>1 DEF BoundOf, HasSigner, SigRequired
        <3>4. CASE verdict[r] = "verified"
            <4>1. as'[r] = None \/ as'[r] = call[r].signer
                BY <3>1, <3>2, <3>4 DEF NamedAgent, HasSigner
            <4>2. pc'[r] = "body"
                BY <3>1, <3>2, <3>4 DEF Typed, Goto
            <4> QED
                BY <1>0, <2>1, <3>4, <4>1, <4>2 DEF BoundOf, Ctx
        <3>5. CASE verdict[r] # "verified"
            <4>1. \/ pc'[r] = "origin"
                  \/ pc'[r] = "body" /\ as'[r] = None
                BY <3>1, <3>3, <3>5 DEF Typed, Goto
            <4> QED
                BY <1>0, <2>1, <3>5, <4>1 DEF BoundOf, Ctx
        <3> QED
            BY <3>4, <3>5
    <2> QED
        BY <2>2, <2>3
<1>2. CASE CheckOrigin(r)
    <2>1. pc[r] = "origin" /\ verdict[r] # "verified" /\ UNCHANGED <<sockOf, call, verdict, as>>
        BY <1>0, <1>2 DEF CheckOrigin, BoundOf
    <2>2. ctx'[sockOf[r]].preVia # "signature"
        <3>1. \/ ctx' = ctx
              \/ ctx' = [ctx EXCEPT ![sockOf[r]] = [@ EXCEPT !.agent = as[r], !.via = "param"]]
            BY <1>2 DEF CheckOrigin
        <3> DEFINE c == [Ctx(r) EXCEPT !.agent = as[r], !.via = "param"]
        <3>2. c.preVia = Ctx(r).preVia
            BY ContextTyped DEF Context
        <3>3. \/ ctx'[sockOf[r]] = Ctx(r)
              \/ ctx'[sockOf[r]] = c
            BY <1>0, <3>1 DEF Typed, Ctx
        <3> HIDE DEF c
        <3> QED
            BY <1>0, <3>2, <3>3
    <2>3. CASE TrustedUnsigned(as[r])
        BY <1>2, <2>1, <2>2, <2>3 DEF Typed, CheckOrigin, BoundOf, Goto, TrustedUnsigned
    <2>4. CASE ~TrustedUnsigned(as[r])
        BY <1>2, <2>1, <2>2, <2>4 DEF Typed, CheckOrigin, HandlerExit, BoundOf, Goto
    <2> QED
        BY <2>3, <2>4
<1>3. CASE RunBody(r)
    <2>1. pc[r] = "body" /\ Goto(r, "tail") /\ UNCHANGED <<sockOf, call, verdict, as>>
        BY <1>3 DEF RunBody
    <2>2. ctx'[sockOf[r]].preVia = Ctx(r).preVia
        BY <1>0, <1>3 DEF Typed, RunBody, Context, Ctx
    <2> QED
        BY <1>0, <2>1, <2>2 DEF Typed, BoundOf, Goto
<1>4. CASE FailHandler(r) \/ FinishHandler(r)
    BY <1>0, <1>4 DEF Typed, FailHandler, FinishHandler, HandlerExit, BoundOf, Goto, Ctx
<1> QED
    BY <1>1, <1>2, <1>3, <1>4 DEF Handle

\* A client that waits sends the next request when the last is settled.
LEMMA BoundStep ==
    ASSUME ~Pipelined, CountInv, Alone, Bound, [Next]_vars
    PROVE  Alone' /\ Bound'
<1>1. ASSUME NEW r \in Requests, Arrive(r) PROVE Alone' /\ Bound'
    <2>1. /\ Quiet(sockOf[r]) /\ pc' = [pc EXCEPT ![r] = "license"]
          /\ UNCHANGED <<ctx, sockOf, call, verdict, as>>
        BY <1>1 DEF Arrive, Goto
    <2>2. Alone'
        BY <2>1 DEF CountInv, Typed, Alone, Quiet, InFlight
    <2>3. Bound'
        BY <2>1 DEF CountInv, Typed, Bound, BoundOf, SnapshotIsConnectionLevel, Ctx, Method
    <2> QED
        BY <2>2, <2>3
<1>2. ASSUME UNCHANGED <<ctx, reqVars>> PROVE Alone' /\ Bound'
    BY <1>2 DEF reqVars, Alone, InFlight, Bound, BoundOf, SnapshotIsConnectionLevel, Ctx, Method
<1>3. \/ \E r \in Requests : Arrive(r) \/ Gate(r) \/ Handle(r)
      \/ UNCHANGED <<ctx, reqVars>>
    BY DEF Next, Closing, BeginClose, DestroySockets, CloseDatabase, ResetClosing, Disconnect, Age,
           SweepNonces, vars
<1> QED
    BY <1>1, <1>2, <1>3, GateKeepsBound, HandleKeepsBound

\* As long as clients wait for their answers, sockets and requests stay bound as they should.
LEMMA BoundAlways == ASSUME ~Pipelined PROVE Spec => [](Alone /\ Bound)
<1>1. Init => Alone /\ Bound
    BY DEF Init, Alone, InFlight, Bound, BoundOf, SnapshotIsConnectionLevel, FreshCtx
<1>2. CountInv /\ (Alone /\ Bound) /\ [Next]_vars => (Alone /\ Bound)'
    BY BoundStep
<1> QED
    BY SpecCount, <1>1, <1>2, PTL DEF Spec

\* If clients wait for their answers, a handler that acts for an agent acts for
\* the signer of its own request or for an identity the daemon minted.
THEOREM PrincipalProven == ASSUME ~Pipelined PROVE Spec => []PrincipalIsProven
<1>1. Alone /\ Bound => PrincipalIsProven
    BY DEF Bound, BoundOf, PrincipalIsProven
<1> QED
    BY <1>1, BoundAlways, PTL

\* If clients wait for their answers, verifyOrWarn never saves a signature as
\* the binding of the connection.
THEOREM SnapshotsAreBindings == ASSUME ~Pipelined PROVE Spec => []SnapshotIsConnectionLevel
<1>1. Alone /\ Bound => SnapshotIsConnectionLevel
    BY DEF Bound
<1> QED
    BY <1>1, BoundAlways, PTL
=============================================================================
