------------------------------ MODULE LoopGuard -----------------------------
(***************************************************************************)
(* The loop guard (loop-guard.ts, the loop.* handlers of server.ts) and    *)
(* the sessions its loops hang on: registering, ending, pruning, and the   *)
(* reaping of loops that session.end and harness.prune fire through        *)
(* notifyAgentEnded (eviction.ts).                                         *)
(*                                                                         *)
(* The registry is process memory and every access to it is synchronous; a *)
(* handler is one action because it reads and writes the registry behind   *)
(* its last query, and the session rows change together with the reaping.  *)
(***************************************************************************)
EXTENDS Naturals

CONSTANTS
    Agents,     \* agents; an agent's session has the same id
    Loops,      \* loop ids
    Limits,     \* values of noopLimit a caller may give
    Default,    \* DEFAULT_NOOP_LIMIT
    None,
    MaxStreak,  \* bound on the no-op streaks of a run
    Amounts,    \* amounts a call reports as spent, zero among them
    MaxSpent    \* bound on the total of a loop

VARIABLES
    session,  \* the row of each agent: "none", "live" or "ended"
    loop      \* LoopGuardRegistry.loops

loopVars == <<session, loop>>

NoLoop == [agent |-> None, status |-> "absent", streak |-> 0, limit |-> 0,
           spent |-> 0]
Guard  == [agent : Agents, status : {"armed", "paused", "stopped", "not_advancing"},
           streak : Nat, limit : Nat \ {0}, spent : Nat]

TypeOK ==
    /\ session \in [Agents -> {"none", "live", "ended"}]
    /\ loop \in [Loops -> Guard \cup {NoLoop}]

Init ==
    /\ session = [a \in Agents |-> "none"]
    /\ loop = [l \in Loops |-> NoLoop]

Owns(a, l) == loop[l].agent = a

-----------------------------------------------------------------------------
(* Sessions.                                                               *)

\* session.register opens the row or re-opens it.
Register(a) ==
    /\ session' = [session EXCEPT ![a] = "live"]
    /\ UNCHANGED loop

Reap(as) == [l \in Loops |-> IF loop[l].agent \in as THEN NoLoop ELSE loop[l]]

EndSession(a) ==
    /\ session' = [b \in Agents |-> IF b = a /\ session[b] = "live" THEN "ended" ELSE session[b]]
    /\ loop' = Reap({a})

\* runPrune ends the sessions found stale and reaps for each of them; rows that
\* ended long ago are deleted.
Prune ==
    \E stale \in SUBSET {a \in Agents : session[a] = "live"},
       old \in SUBSET {a \in Agents : session[a] = "ended"} :
        /\ session' = [a \in Agents |-> CASE a \in stale -> "ended"
                                          [] a \in old -> "none"
                                          [] OTHER -> session[a]]
        /\ loop' = Reap(stale)

-----------------------------------------------------------------------------
(* loop.arm, loop.tick, loop.record_spend, loop.pause, loop.resume,        *)
(* loop.stop.                                                              *)

NormalizedNever(n) == n
NormalizedLimit(n) == IF n = None THEN Default ELSE n

Exhausted(g) == g.streak >= g.limit

\* A re-arm refreshes the cadence and, where given, the limit; nothing else.
RearmedAfresh(g, n) == [g EXCEPT !.limit = IF n = None THEN @ ELSE n, !.streak = 0,
                                 !.status = "armed"]
Rearmed(g, n) ==
    LET h == [g EXCEPT !.limit = IF n = None THEN @ ELSE n] IN
    IF h.status # "paused" /\ Exhausted(h) THEN [h EXCEPT !.status = "not_advancing"] ELSE h

SessionIsLive(a) == session[a] = "live"

Arm(a, l, n) ==
    /\ SessionIsLive(a)
    /\ loop[l].agent \in {a, None}
    /\ loop' = [loop EXCEPT ![l] =
            IF loop[l].status \in {"absent", "stopped"}
            THEN [agent |-> a, status |-> "armed", streak |-> 0, limit |-> NormalizedLimit(n),
                  spent |-> 0]
            ELSE Rearmed(loop[l], n)]
    /\ UNCHANGED session

\* The three counters of a loop are one total: they grow alike.
Spent(g, n) == [g EXCEPT !.spent = @ + n]

TickedInVain(g) ==
    LET h == [g EXCEPT !.streak = @ + 1] IN
    IF Exhausted(h) THEN [h EXCEPT !.status = "not_advancing"] ELSE h

Tick(a, l, advanced, n) ==
    /\ Owns(a, l)
    /\ loop[l].status \in {"armed", "not_advancing"}
    /\ advanced \/ loop[l].streak < MaxStreak
    /\ loop[l].spent + n <= MaxSpent
    /\ LET g == Spent(loop[l], n) IN
       loop' = [loop EXCEPT ![l] =
            IF advanced THEN [g EXCEPT !.streak = 0, !.status = "armed"] ELSE TickedInVain(g)]
    /\ UNCHANGED session

\* A paused loop is still charged, a stopped one is not.
RecordSpend(a, l, n) ==
    /\ Owns(a, l) /\ loop[l].status # "stopped"
    /\ loop[l].spent + n <= MaxSpent
    /\ loop' = [loop EXCEPT ![l] = Spent(@, n)]
    /\ UNCHANGED session

Pause(a, l) ==
    /\ Owns(a, l) /\ loop[l].status # "stopped"
    /\ loop' = [loop EXCEPT ![l].status = "paused"]
    /\ UNCHANGED session

\* The status goes back to armed whatever the streak is.
Resume(a, l) ==
    /\ Owns(a, l) /\ loop[l].status # "stopped"
    /\ loop' = [loop EXCEPT ![l].status = "armed"]
    /\ UNCHANGED session

Stop(a, l) ==
    /\ Owns(a, l)
    /\ loop' = [loop EXCEPT ![l].status = "stopped"]
    /\ UNCHANGED session

-----------------------------------------------------------------------------
Next ==
    \/ \E a \in Agents : Register(a) \/ EndSession(a)
    \/ Prune
    \/ \E a \in Agents, l \in Loops :
          \/ \E n \in Limits \cup {None} : Arm(a, l, n)
          \/ \E advanced \in BOOLEAN, n \in Amounts : Tick(a, l, advanced, n)
          \/ \E n \in Amounts : RecordSpend(a, l, n)
          \/ Pause(a, l) \/ Resume(a, l) \/ Stop(a, l)

Spec == Init /\ [][Next]_loopVars
-----------------------------------------------------------------------------
(* Properties.                                                             *)

\* Every loop in the registry hangs on a live session of its owner: a finished
\* session leaves no guard that still accepts ticks.
LoopsAreLive ==
    \A l \in Loops : loop[l] # NoLoop => session[loop[l].agent] = "live"

\* While a loop is alive only progress shortens its no-op streak: no sequence
\* of re-arming, pausing and resuming dodges the limit that way.
ProgressClears ==
    \A l \in Loops :
        /\ loop[l].status \notin {"absent", "stopped"} /\ loop'[l].status # "absent"
        /\ loop'[l].streak < loop[l].streak
        => \E a \in Agents, n \in Amounts : Tick(a, l, TRUE, n)
OnlyProgressClears == [][ProgressClears]_loopVars

\* What a loop has spent is on its account until its owner stops it or its
\* session ends: no re-arm, pause or resume opens a fresh account, and a loop
\* that is armed anew after a stop does not inherit the old one.
SpendStays ==
    \A l \in Loops :
        /\ loop[l].status \notin {"absent", "stopped"} /\ loop'[l].status # "absent"
           => loop'[l].spent >= loop[l].spent
        /\ loop[l].status = "stopped" /\ loop'[l].status = "armed" => loop'[l].spent = 0
SpendIsKept == [][SpendStays]_loopVars

\* Only an explicit loop.resume arms a loop that has used up its no-op limit:
\* neither a tick that meets the limit exactly nor a re-arm that lowers the
\* limit below the streak leaves its owner with the word to go on.
ResumeOverrides ==
    \A l \in Loops : loop'[l].status = "armed" /\ Exhausted(loop'[l])
        => \/ \A f \in {"agent", "status", "streak", "limit"} : loop'[l][f] = loop[l][f]
           \/ \E a \in Agents : Resume(a, l)
OnlyResumeOverrides == [][ResumeOverrides]_loopVars
=============================================================================
