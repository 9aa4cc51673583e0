------------------------------- MODULE Sessions -------------------------------
(***************************************************************************)
(* Sessions and their copies in Neon (server.ts, the session handlers and  *)
(* runPrune; neon.ts).  A handler writes its local row and then, in a      *)
(* statement of its own, the copy; a copy may fail, and the copies of two  *)
(* handlers may overtake each other.                                       *)
(***************************************************************************)

CONSTANTS
    Agents,
    Works,  \* values of the task column
    Calls,  \* handlers in progress
    None

VARIABLES
    row,     \* agent_sessions
    copied,  \* coordination_sessions
    calls,
    unsure   \* agents whose copy failed, was overtaken or never made

sessionVars == <<row, copied, calls, unsure>>

Session == [open : BOOLEAN, work : Works] \cup {None}
Ops     == {"register", "update", "end"}
Handler == [op : Ops, agent : Agents, work : Works, raced : BOOLEAN]

TypeOK ==
    /\ {row, copied} \subseteq [Agents -> Session]
    /\ calls \in [Calls -> Handler \cup {None}]
    /\ unsure \subseteq Agents

Init ==
    /\ row = [a \in Agents |-> None] /\ copied = [a \in Agents |-> None]
    /\ calls = [c \in Calls |-> None]
    /\ unsure = {}

IsOpen(s) == s # None /\ s.open
On(c, a)  == calls[c] # None /\ calls[c].agent = a
Leave(c)  == calls' = [calls EXCEPT ![c] = None]

\* session.register opens or re-opens, session.update does not ask whether the
\* session has ended, session.end closes it.
Updated(s, w) == IF s = None THEN None ELSE [s EXCEPT !.work = w]
Ended(s)      == IF s = None THEN None ELSE [s EXCEPT !.open = FALSE]
Written(op, s, w) ==
    CASE op = "register" -> [open |-> TRUE, work |-> w]
      [] op = "update"   -> Updated(s, w)
      [] op = "end"      -> Ended(s)

\* Two handlers at one session may copy in either order.
BeginSession(c, op, a, w) ==
    /\ calls[c] = None
    /\ row' = [row EXCEPT ![a] = Written(op, @, w)]
    /\ calls' = [d \in Calls |->
         IF d = c THEN [op |-> op, agent |-> a, work |-> w, raced |-> \E e \in Calls : On(e, a)]
         ELSE IF On(d, a) THEN [calls[d] EXCEPT !.raced = TRUE] ELSE calls[d]]
    /\ UNCHANGED <<copied, unsure>>

\* What the copy of each handler writes.
Copy(op, s, w) ==
    CASE op = "register" -> [open |-> TRUE, work |-> w]
      [] op = "update"   -> IF s = None THEN None ELSE [s EXCEPT !.work = w]
      [] op = "end"      -> IF s = None THEN None ELSE [s EXCEPT !.open = FALSE]

\* A session that registers undisturbed is copied as a whole, whatever went
\* wrong before.
CopySession(c, a) ==
    /\ On(c, a)
    /\ copied' = [copied EXCEPT ![a] = Copy(calls[c].op, @, calls[c].work)]
    /\ unsure' = IF calls[c].raced THEN unsure \cup {a}
                 ELSE IF calls[c].op = "register" THEN unsure \ {a} ELSE unsure
    /\ Leave(c) /\ UNCHANGED row

\* The copy fails, which is logged only, or the daemon stops before it.
FailSession(c, a) ==
    /\ On(c, a) /\ Leave(c) /\ unsure' = unsure \cup {a}
    /\ UNCHANGED <<row, copied>>

\* runPrune ends a stale session and later deletes it; neither is copied.
Prune(a) ==
    /\ row[a] # None
    /\ row' = [row EXCEPT ![a] = IF IsOpen(@) THEN Ended(@) ELSE None]
    /\ unsure' = unsure \cup {a}
    /\ calls' = [c \in Calls |-> IF On(c, a) THEN [calls[c] EXCEPT !.raced = TRUE] ELSE calls[c]]
    /\ UNCHANGED copied

Next ==
    \E a \in Agents :
        \/ Prune(a)
        \/ \E c \in Calls :
              \/ \E op \in Ops, w \in Works : BeginSession(c, op, a, w)
              \/ CopySession(c, a) \/ FailSession(c, a)

Spec == Init /\ [][Next]_sessionVars
-----------------------------------------------------------------------------
\* The fleet sees the sessions that are open, with their work, once no handler
\* is at one of them; not one whose copy failed, was overtaken or pruned, until
\* it registers again undisturbed.
FleetSeesSessions ==
    \A a \in Agents \ unsure :
        (\A c \in Calls : ~On(c, a)) =>
            /\ IsOpen(row[a]) <=> IsOpen(copied[a])
            /\ IsOpen(row[a]) => copied[a].work = row[a].work
=============================================================================
