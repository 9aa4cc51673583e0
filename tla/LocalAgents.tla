----------------------------- MODULE LocalAgents -----------------------------
(* Agents on a local model that Studio runs itself: the child, its entry in  *)
(* the map of sessions, the thread that waits for its exit, and the session  *)
(* of the daemon that Studio opens for it once it runs.                      *)
EXTENDS Naturals, FiniteSets

CONSTANTS Agents, Calls, None

VARIABLES
    child,    \* the process of an agent; "lost": waiting for it or killing it failed, so that
              \* nobody knows whether it lives
    entry,    \* SpawnerState.sessions: status and whether the daemon's credentials are attached
    start,    \* agent_spawn: how far it is
    waiter,   \* wait_for_exit: what its thread saw
    session,  \* the daemon's session of the agent
    call,     \* agent_stop and agent_remove in progress
    quit,     \* kill_all ran: Studio ends
    excused   \* agents whose credentials were lost on the way

agentVars == <<child, entry, start, waiter, session, call, quit, excused>>

Entries == [status : {"running", "stopped", "errored"}, creds : BOOLEAN]

TypeOK ==
    /\ child \in [Agents -> {None, "alive", "lost", "killed", "fine", "failed"}]
    /\ entry \in [Agents -> Entries \cup {None}]
    /\ start \in [Agents -> {"idle", "forked", "register", "attach", "answered"}]
    /\ waiter \in [Agents -> {"polling", "exited", "over"}]
    /\ session \in [Agents -> {"none", "open", "ended"}]
    /\ call \in [Calls -> [at : {"idle", "took", "end", "over"}, op : {None, "stop", "remove"},
                           agent : Agents \cup {None}, creds : BOOLEAN]]
    /\ quit \in BOOLEAN
    /\ excused \subseteq Agents

Init ==
    /\ child = [a \in Agents |-> None] /\ entry = [a \in Agents |-> None]
    /\ start = [a \in Agents |-> "idle"] /\ waiter = [a \in Agents |-> "over"]
    /\ session = [a \in Agents |-> "none"]
    /\ call = [c \in Calls |-> [at |-> "idle", op |-> None, agent |-> None, creds |-> FALSE]]
    /\ quit = FALSE /\ excused = {}

Known(a) == entry[a] # None
StartAt(a, place) == start' = [start EXCEPT ![a] = place]
Settle(a, status) == entry' = [entry EXCEPT ![a].status = status]
-----------------------------------------------------------------------------
(* agent_spawn: the process first, its entry behind the lock, then the daemon *)

Fork(a) ==
    /\ start[a] = "idle" /\ StartAt(a, "forked")
    /\ child' = [child EXCEPT ![a] = "alive"]
    /\ UNCHANGED <<entry, waiter, session, call, quit, excused>>

Insert(a) ==
    /\ start[a] = "forked" /\ StartAt(a, "register")
    /\ entry' = [entry EXCEPT ![a] = [status |-> "running", creds |-> FALSE]]
    /\ waiter' = [waiter EXCEPT ![a] = "polling"]
    /\ UNCHANGED <<child, session, call, quit, excused>>

\* session.register at the daemon; its answer may be lost
Register(a) ==
    /\ start[a] = "register"
    /\ \/ session' = [session EXCEPT ![a] = "open"] /\ StartAt(a, "attach") /\ UNCHANGED excused
       \/ /\ session' = [session EXCEPT ![a] = "open"] /\ StartAt(a, "answered")
          /\ excused' = excused \cup {a}
       \/ StartAt(a, "answered") /\ UNCHANGED <<session, excused>>
    /\ UNCHANGED <<child, entry, waiter, call, quit>>

\* set_daemon_creds: if the entry is gone or stopped by now, nobody will end the session
Attach(a) ==
    /\ start[a] = "attach" /\ StartAt(a, "answered")
    /\ entry' = IF Known(a) THEN [entry EXCEPT ![a].creds = TRUE] ELSE entry
    /\ excused' = IF Known(a) THEN excused ELSE excused \cup {a}
    /\ UNCHANGED <<child, waiter, session, call, quit>>

Exit(a) ==
    /\ child[a] = "alive"
    /\ \E how \in {"fine", "failed"} : child' = [child EXCEPT ![a] = how]
    /\ UNCHANGED <<entry, start, waiter, session, call, quit, excused>>
-----------------------------------------------------------------------------
(* wait_for_exit: poll under the lock, record under the lock                *)

Poll(a) ==
    /\ waiter[a] = "polling"
    /\ \/ ~Known(a) /\ waiter' = [waiter EXCEPT ![a] = "over"] /\ UNCHANGED child
       \/ Known(a) /\ child[a] # "alive" /\ waiter' = [waiter EXCEPT ![a] = "exited"] /\ UNCHANGED child
       \* try_wait fails: recorded like an exit
       \/ /\ Known(a) /\ waiter' = [waiter EXCEPT ![a] = "exited"]
          /\ child' = [child EXCEPT ![a] = "lost"]
    /\ UNCHANGED <<entry, start, session, call, quit, excused>>

StillRunning(a) == entry[a].status = "running"

Record(a) ==
    /\ waiter[a] = "exited"
    /\ waiter' = [waiter EXCEPT ![a] = "over"]
    /\ IF Known(a) /\ StillRunning(a)
       THEN Settle(a, IF child[a] = "fine" THEN "stopped" ELSE "errored")
       ELSE UNCHANGED entry
    /\ UNCHANGED <<child, start, session, call, quit, excused>>
-----------------------------------------------------------------------------
(* agent_stop and agent_remove: each takes the credentials first            *)

Take(c, op, a) ==
    /\ call[c].at = "idle" /\ start[a] \notin {"idle", "forked"}
    /\ call' = [call EXCEPT ![c] = [at |-> "took", op |-> op, agent |-> a,
                                    creds |-> Known(a) /\ entry[a].creds]]
    /\ entry' = IF Known(a) THEN [entry EXCEPT ![a].creds = FALSE] ELSE entry
    /\ UNCHANGED <<child, start, waiter, session, quit, excused>>

Then(c, at) == call' = [call EXCEPT ![c].at = at]

\* a call that refuses has taken the credentials for nothing
Refuse(c) ==
    /\ Then(c, "over")
    /\ excused' = IF call[c].creds THEN excused \cup {call[c].agent} ELSE excused
    /\ UNCHANGED <<entry, child>>

Proceed(c) == Then(c, "end") /\ UNCHANGED excused

Stop(c) ==
    LET a == call[c].agent IN
    /\ call[c].at = "took" /\ call[c].op = "stop"
    /\ \/ /\ Known(a) /\ Settle(a, "stopped") /\ Proceed(c)
          /\ child' = [child EXCEPT ![a] = IF @ = "alive" THEN "killed" ELSE @]
       \/ Refuse(c) /\ (Known(a) => child[a] \in {"alive", "lost"})   \* unknown, or kill fails
    /\ UNCHANGED <<start, waiter, session, quit>>

MayRemove(a) == Known(a) /\ entry[a].status # "running"

Remove(c) ==
    LET a == call[c].agent IN
    /\ call[c].at = "took" /\ call[c].op = "remove"
    /\ IF MayRemove(a)
       THEN /\ entry' = [entry EXCEPT ![a] = None]
            /\ excused' = IF entry[a].creds THEN excused \cup {a} ELSE excused
            /\ Then(c, "end") /\ UNCHANGED child
       ELSE Refuse(c)
    /\ UNCHANGED <<start, waiter, session, quit>>

\* session.end, signed with the credentials; a failure is only logged
End(c) ==
    LET a == call[c].agent IN
    /\ call[c].at = "end" /\ Then(c, "over")
    /\ \/ call[c].creds /\ session' = [session EXCEPT ![a] = "ended"] /\ UNCHANGED excused
       \/ call[c].creds /\ excused' = excused \cup {a} /\ UNCHANGED session
       \/ ~call[c].creds /\ UNCHANGED <<session, excused>>
    /\ UNCHANGED <<child, entry, start, waiter, quit>>

\* kill_all when Studio exits; a child that has no entry yet is missed, and whether a kill
\* failed is not looked at
KilledListed == {a \in Agents : Known(a) /\ entry[a].status = "running"}

KillAll ==
    /\ ~quit /\ quit' = TRUE
    /\ \E spared \in SUBSET KilledListed :
          child' = [a \in Agents |-> IF a \notin KilledListed \/ child[a] # "alive" THEN child[a]
                                     ELSE IF a \in spared THEN "lost" ELSE "killed"]
    /\ entry' = [a \in Agents |-> IF a \in KilledListed
                                  THEN [entry[a] EXCEPT !.status = "stopped"] ELSE entry[a]]
    /\ UNCHANGED <<start, waiter, session, call, excused>>

Next ==
    \/ KillAll
    \/ \E a \in Agents : Exit(a)
    \/ /\ ~quit
       /\ \/ \E a \in Agents : \/ Fork(a) \/ Insert(a) \/ Register(a) \/ Attach(a)
                               \/ Poll(a) \/ Record(a)
          \/ \E c \in Calls : \/ Stop(c) \/ Remove(c) \/ End(c)
                              \/ \E op \in {"stop", "remove"}, a \in Agents : Take(c, op, a)

Spec == Init /\ [][Next]_agentVars
-----------------------------------------------------------------------------
\* No child runs out of sight: one that is alive is listed as running, so it can be
\* stopped and quitting kills it, save between its fork and its entry, and once waiting for
\* it or the kill of kill_all failed: then the list says errored or stopped of a child that
\* may live on, and it may even be removed from it (spawn, wait_for_exit, kill_all).
ChildrenAreListed ==
    \A a \in Agents : child[a] = "alive" /\ start[a] # "forked"
        => Known(a) /\ entry[a].status = "running" /\ ~quit

\* What the list says of an agent that ended is how it ended: errored only if it failed by
\* itself or waiting for it failed, whatever stop and the waiting thread do in which order
\* (wait_for_exit).
EndIsHonest ==
    \A a \in Agents : Known(a) =>
        /\ entry[a].status = "errored" => child[a] \in {"failed", "lost"}
        /\ entry[a].status # "running" => child[a] # "alive"

\* The daemon's session of a removed agent is ended, or about to be, unless the answer of
\* the daemon was lost, or the credentials were taken by a call that then refused (agent_remove
\* of a running agent, agent_stop whose kill failed), or could not be attached before the
\* removal took what there was (take_daemon_creds, set_daemon_creds).
SessionsFollowAgents ==
    \A a \in Agents :
        session[a] = "open" /\ ~Known(a) /\ start[a] = "answered" =>
            \/ a \in excused
            \/ \E c \in Calls : call[c].agent = a /\ call[c].creds /\ call[c].at \in {"took", "end"}
=============================================================================
