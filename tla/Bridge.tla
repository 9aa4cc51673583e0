-------------------------------- MODULE Bridge ---------------------------------
(* The bridge's clients (packages/bridge, packages/protocol): a call of      *)
(* DaemonClient, one socket each; the kg_* tools over the executor they      *)
(* share; and the runtime that reports its iterations to a loop.             *)
EXTENDS Naturals, Sequences, FiniteSets

CONSTANTS
    None,
    Requests,    \* calls of DaemonClient
    ToolCalls,   \* calls of the kg_* tools
    Writing,     \* those of kg_add_episode
    Identities,  \* what the identity files may hold
    Default,     \* DEFAULT_LOOP_NOOP_LIMIT
    LoopLimits,  \* the limits a runtime may ask for
    MaxTicks     \* bound on the iterations of one arm

VARIABLES
    socket,      \* of each call: where it is, the lines the daemon wrote, how much arrived, the timer
    reply,       \* of each call: how its promise settled
    runs,        \* how often the daemon ran each call
    who,         \* the identity in the files now
    tool,        \* of each kg call: how far it is, its principal, its timer, its result
    pool, spare, \* cachedExecutor; whether another pool was made and lost
    embedder,    \* cachedEmbedder
    episodes,    \* what was published for each call
    asked,       \* the identity when each call began
    guard,       \* the daemon's loop
    runtime      \* the runtime: what its last call returned, and its iterations since

clientVars  == <<socket, reply, runs>>
kgVars      == <<who, tool, pool, spare, embedder, episodes, asked>>
loopVars    == <<guard, runtime>>

-----------------------------------------------------------------------------
(* DaemonClient.call: a line is two pieces here, which arrive together or   *)
(* apart; the buffer is never emptied, and each piece reads it again.       *)

Line(id, kind) == [id |-> id, kind |-> kind]
NoSocket == [at |-> "none", written |-> <<>>, arrived |-> 0, timer |-> FALSE, quiet |-> FALSE]

ClientInit ==
    /\ socket = [r \in Requests |-> NoSocket]
    /\ reply = [r \in Requests |-> None]
    /\ runs = [r \in Requests |-> 0]

\* The first settlement of a promise counts.
Settle(r, how) == reply' = [reply EXCEPT ![r] = IF @ = None THEN how ELSE @]

Connect(r) ==
    /\ socket[r].at = "none"
    /\ socket' = [socket EXCEPT ![r].at = "connecting", ![r].timer = TRUE]
    /\ UNCHANGED <<reply, runs>>

Connected(r) ==
    /\ socket[r].at = "connecting"
    /\ socket' = [socket EXCEPT ![r].at = "sent"]
    /\ UNCHANGED <<reply, runs>>

\* The error event, of a connection refused or reset.
SocketFails(r) ==
    /\ socket[r].at \in {"connecting", "sent", "ending"}
    /\ socket' = [socket EXCEPT ![r].at = "closed", ![r].timer = FALSE]
    /\ Settle(r, IF socket[r].at = "connecting" THEN "refused" ELSE "reset")
    /\ UNCHANGED runs

\* external: the daemon runs the request once, or refuses it, and writes one line; one that
\* it could not read has no id.
Serve(r) ==
    /\ socket[r].at = "sent" /\ socket[r].written = <<>> /\ ~socket[r].quiet
    /\ \E line \in {Line(r, "result"), Line(r, "error"), Line(None, "error")} :
          /\ socket' = [socket EXCEPT ![r].written = <<line>>]
          /\ runs' = [runs EXCEPT ![r] = IF line.kind = "result" THEN @ + 1 ELSE @]
    /\ UNCHANGED reply

\* The lines that are whole in what has arrived, and the one that settles the call.
Whole(r, arrived) == {i \in DOMAIN socket[r].written : 2 * i <= arrived}
Own(r, arrived)   == {i \in Whole(r, arrived) : socket[r].written[i].id = r}

Arrive(r, n) ==
    /\ socket[r].at = "sent" /\ n \in socket[r].arrived + 1 .. 2 * Len(socket[r].written)
    /\ IF Own(r, n) = {} THEN /\ socket' = [socket EXCEPT ![r].arrived = n]
                              /\ UNCHANGED reply
       ELSE LET line == socket[r].written[CHOOSE i \in Own(r, n) : TRUE]
            IN /\ socket' = [socket EXCEPT ![r].arrived = n, ![r].at = "ending"]
               /\ Settle(r, line.kind)
    /\ UNCHANGED runs

\* external: the daemon ends the connection, before it answers or after; its last bytes have arrived.
HangUp(r) ==
    /\ socket[r].at \in {"sent", "ending"} /\ ~socket[r].quiet
    /\ socket[r].arrived = 2 * Len(socket[r].written)
    /\ socket' = [socket EXCEPT ![r].at = "closed", ![r].timer = FALSE, ![r].quiet = (socket[r].at = "sent")]
    /\ UNCHANGED <<reply, runs>>

\* Ten seconds without activity.
SocketIdles(r) ==
    /\ socket[r].timer
    /\ socket' = [socket EXCEPT ![r].at = "closed", ![r].timer = FALSE]
    /\ Settle(r, "timeout")
    /\ UNCHANGED runs

ClientNext == \E r \in Requests :
    \/ Connect(r) \/ Connected(r) \/ SocketFails(r) \/ Serve(r) \/ HangUp(r) \/ SocketIdles(r)
    \/ \E n \in 1 .. 2 : Arrive(r, n)

-----------------------------------------------------------------------------
(* The kg_* tools: withExecutor, with the race against the timer around the *)
(* work but not around the executor.                                        *)

NoTool == [at |-> "none", principal |-> None, timer |-> FALSE, result |-> None]

KgInit ==
    /\ who \in Identities \cup {None}
    /\ tool = [t \in ToolCalls |-> NoTool]
    /\ pool = FALSE /\ spare = FALSE /\ embedder = "unset"
    /\ episodes = [t \in ToolCalls |-> <<>>]
    /\ asked = [t \in ToolCalls |-> None]

\* The identity files are rewritten, or removed (loadStudioPrincipal reads them at each call).
ChangeIdentity(i) ==
    /\ who' = i
    /\ UNCHANGED <<tool, pool, spare, embedder, episodes, asked>>

\* With an executor the work begins: kg_add_episode resolves its embedder first.
Working(t) == [at |-> IF t \in Writing /\ embedder = "unset" THEN "embedder" ELSE "query",
               principal |-> tool[t].principal, timer |-> TRUE, result |-> tool[t].result]

\* requirePrincipal and getExecutor, up to its await
StartTool(t) ==
    /\ tool[t].at = "none"
    /\ asked' = [asked EXCEPT ![t] = who]
    /\ tool' = [tool EXCEPT ![t] =
           IF who = None THEN [@ EXCEPT !.at = "done", !.result = "missing"]
           ELSE IF pool THEN [Working(t) EXCEPT !.principal = who]
           ELSE [@ EXCEPT !.at = "executor", !.principal = who]]
    /\ UNCHANGED <<who, pool, spare, embedder, episodes>>

\* Two calls that begin before there is an executor make one each, and the last one is kept.
GetExecutor(t, ok) ==
    /\ tool[t].at = "executor"
    /\ IF ok THEN /\ tool' = [tool EXCEPT ![t] = Working(t)]
                  /\ pool' = TRUE /\ spare' = (spare \/ pool)
       ELSE /\ tool' = [tool EXCEPT ![t].at = "done", ![t].result = "unavailable"]
            /\ UNCHANGED <<pool, spare>>
    /\ UNCHANGED <<who, embedder, episodes, asked>>

\* The outcome without an embedder is kept as well.
ResolveEmbedder(t, found) ==
    /\ tool[t].at = "embedder"
    /\ embedder' = found
    /\ tool' = [tool EXCEPT ![t].at = "query"]
    /\ UNCHANGED <<who, pool, spare, episodes, asked>>

\* publishMemory and the queries, which may fail before they take effect or while they answer;
\* the work goes on when the timer has answered for it.
Query(t) ==
    /\ tool[t].at = "query"
    /\ episodes' = IF t \in Writing THEN [episodes EXCEPT ![t] = Append(@, tool[t].principal)] ELSE episodes
    /\ tool' = [tool EXCEPT ![t].at = "answer"]
    /\ UNCHANGED <<who, pool, spare, embedder, asked>>

Finish(t, how) ==
    /\ tool[t].at = "answer" \/ (tool[t].at = "query" /\ how = "unavailable")
    /\ tool' = [tool EXCEPT ![t].at = "done", ![t].timer = FALSE, ![t].result = IF @ = None THEN how ELSE @]
    /\ UNCHANGED <<who, pool, spare, embedder, episodes, asked>>

ToolTimeout(t) ==
    /\ tool[t].timer /\ tool[t].result = None
    /\ tool' = [tool EXCEPT ![t].timer = FALSE, ![t].result = "timeout"]
    /\ UNCHANGED <<who, pool, spare, embedder, episodes, asked>>

KgNext ==
    \/ \E i \in Identities \cup {None} : ChangeIdentity(i)
    \/ \E t \in ToolCalls :
          \/ StartTool(t) \/ Query(t) \/ ToolTimeout(t)
          \/ \E ok \in BOOLEAN : GetExecutor(t, ok)
          \/ \E found \in {"function", "null"} : ResolveEmbedder(t, found)
          \/ \E how \in {"ok", "unavailable"} : Finish(t, how)

-----------------------------------------------------------------------------
(* armDaemonLoop, tickDaemonLoop and statusDaemonLoop                       *)

NoLoop    == [limit |-> None, idle |-> 0, status |-> "gone"]
MustStop(status) == status = "not_advancing"

\* what a client reads of an answer: an answer that has no loop, or lost a part of it, is an error
Read(answer) ==
    IF answer = "whole" THEN [ok |-> TRUE, stop |-> MustStop(guard'.status), limit |-> guard'.limit]
    ELSE [ok |-> FALSE, stop |-> FALSE, limit |-> None]

NotArmed == [asks |-> None, last |-> None, idle |-> 0, ticks |-> 0, on |-> FALSE]
LoopInit == guard = NoLoop /\ runtime = NotArmed

Answers == {"whole", "partial", "lost"}

\* external: a new loop gets the default limit unless the caller asks for one; a re-arm leaves
\* the streak, and the limit unless it asks
Armed(asks) ==
    LET fresh == [limit |-> Default, idle |-> 0, status |-> "armed"]
        g     == [(IF guard.status = "gone" THEN fresh ELSE guard) EXCEPT !.limit = IF asks = None THEN @ ELSE asks]
    IN IF g.idle >= g.limit THEN [g EXCEPT !.status = "not_advancing"] ELSE g

\* Who asks for no limit takes no other than the default.
Arm(asks, answer) ==
    /\ ~runtime.on
    /\ guard' = Armed(asks)
    /\ LET read == IF asks = None /\ guard'.limit # Default THEN Read("lost") ELSE Read(answer)
       IN runtime' = [asks |-> asks, last |-> read, idle |-> 0, ticks |-> 0, on |-> read.ok /\ ~read.stop]

\* external: the daemon counts a tick whether or not its answer gets through
Ticked(advanced) ==
    LET idle == IF advanced THEN 0 ELSE guard.idle + 1
    IN [guard EXCEPT !.idle = idle,
                     !.status = IF idle >= guard.limit THEN "not_advancing" ELSE IF advanced THEN "armed" ELSE @]

\* A runtime goes on while its ticks are answered and none tells it to stop.
Tick(advanced, answer) ==
    /\ runtime.on /\ runtime.ticks < MaxTicks
    /\ IF guard.status = "gone" THEN UNCHANGED guard ELSE guard' = Ticked(advanced)
    /\ LET read == IF guard.status = "gone" THEN Read("lost") ELSE Read(answer)
       IN runtime' = [runtime EXCEPT !.last = read, !.idle = IF advanced THEN 0 ELSE @ + 1,
                                     !.ticks = @ + 1, !.on = read.ok /\ ~read.stop]

\* A loop that is gone is an answer, and none to stop.
AskStatus(answer) ==
    /\ runtime.on
    /\ LET read == IF guard.status = "gone" THEN [ok |-> TRUE, stop |-> FALSE, limit |-> None]
                   ELSE [ok |-> answer = "whole", stop |-> answer = "whole" /\ MustStop(guard.status),
                         limit |-> IF answer = "whole" THEN guard.limit ELSE None]
       IN runtime' = [runtime EXCEPT !.last = read, !.on = read.ok /\ ~read.stop]
    /\ UNCHANGED guard

\* external: the session ends, and its loops with it
Reap == guard' = NoLoop /\ UNCHANGED runtime

LoopNext ==
    \/ \E asks \in LoopLimits \cup {None}, answer \in Answers : Arm(asks, answer)
    \/ \E advanced \in BOOLEAN, answer \in Answers : Tick(advanced, answer)
    \/ \E answer \in Answers : AskStatus(answer)
    \/ Reap

-----------------------------------------------------------------------------
ClientTypeOK ==
    /\ \A r \in Requests : socket[r].at \in {"none", "connecting", "sent", "ending", "closed"} /\ runs[r] \in 0 .. 1
    /\ reply \in [Requests -> {None, "result", "error", "refused", "reset", "timeout"}]

\* A call takes no answer but its own; one that returns a result has run, and only once; one that was refused has not; and every call
\* settles or still has its timer, but for one whose connection the daemon ended without an answer
\* of its own (client.ts, call).
CallsSettle == \A r \in Requests :
    /\ reply[r] \in {"result", "error"} => socket[r].written[1] = Line(r, reply[r])
    /\ reply[r] = "result" => runs[r] = 1
    /\ reply[r] = "refused" => runs[r] = 0
    /\ socket[r].at # "none" /\ reply[r] = None => socket[r].timer \/ socket[r].quiet

\* An episode carries the identity its call began with, whatever the files hold by then; a call
\* that returns ok published once, a repeated settlement publishes nothing more, and one without an
\* identity never does; a call that has not returned is waiting for an executor or has its timer
\* (kg-tools.ts, withExecutor and raceTimeout).
EpisodesAreOwn == \A t \in ToolCalls :
    /\ \A i \in DOMAIN episodes[t] : episodes[t][i] = asked[t] /\ asked[t] # None
    /\ tool[t].result = "ok" /\ t \in Writing => Len(episodes[t]) = 1
    /\ Len(episodes[t]) <= 1
    /\ tool[t].at # "none" /\ tool[t].result = None => tool[t].at = "executor" \/ tool[t].timer

\* A runtime that goes on has made fewer iterations in a row without advancing than its limit, the
\* default one unless it asked for another, though the session may end between any two of its calls,
\* and answers get lost (loop-contract.ts).
RuntimeStops ==
    runtime.on =>
        /\ runtime.idle < (IF runtime.asks = None THEN Default ELSE runtime.asks)
        /\ runtime.last.ok /\ ~runtime.last.stop
=============================================================================
