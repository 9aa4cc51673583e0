------------------------------ MODULE Processes ------------------------------
(***************************************************************************)
(* Spawned agent processes (spawn.ts): the registry of live PTYs in        *)
(* memory, the rows of agent_processes, and the output a client polls.     *)
(*                                                                         *)
(* A handler's statement takes effect where the handler issues it, because *)
(* PGlite runs statements in order; the handler goes on later.  A process  *)
(* id is known to clients once agent.spawn has registered the process.     *)
(***************************************************************************)
EXTENDS Naturals, FiniteSets

CONSTANTS
    Agents,       \* supervisors; the child principal of a process is the process
    Procs,        \* process ids, each for one call of agent.spawn
    MaxPerAgent,  \* MAX_PROCESSES_PER_AGENT
    MaxChunks,    \* bound: chunks of output a process writes
    Page,         \* limit of one agent.output call
    Nobody        \* no supervisor yet

VARIABLES
    spawn,      \* where the call of agent.spawn for a process is
    parent,     \* its supervisor
    pty,        \* the operating system's process
    registry,   \* live entries
    row,        \* status of the agent_processes row
    stored,     \* chunks in agent_process_output
    poll,       \* one client that polls the output of each process
    stale,      \* processes whose row outlived the daemon that ran them
    overlapped  \* supervisors that had two calls of agent.spawn past the cap check at once

procVars == <<spawn, parent, pty, registry, row, stored, poll, stale, overlapped>>

Principals == Agents \cup Procs
InProgress == {"minting", "forked"}
Final      == {"exited", "killed"}
NoPoll     == [at |-> "idle", status |-> "running", cursor |-> 0, done |-> FALSE]

TypeOK ==
    /\ spawn \in [Procs -> {"unused", "asked", "done", "refused"} \cup InProgress]
    /\ parent \in [Procs -> Agents \cup {Nobody}]
    /\ pty \in [Procs -> {"none", "alive", "doomed", "dead", "unheard"}]
    /\ registry \subseteq Procs
    /\ row \in [Procs -> {"absent", "running"} \cup Final]
    /\ stored \in [Procs -> 0..MaxChunks]
    /\ poll \in [Procs -> [at : {"idle", "chunks"}, status : {"running"} \cup Final,
                           cursor : 0..MaxChunks, done : BOOLEAN]]
    /\ stale \subseteq Procs
    /\ overlapped \subseteq Agents

Init ==
    /\ spawn = [p \in Procs |-> "unused"]
    /\ parent = [p \in Procs |-> Nobody]
    /\ pty = [p \in Procs |-> "none"]
    /\ registry = {}
    /\ row = [p \in Procs |-> "absent"]
    /\ stored = [p \in Procs |-> 0]
    /\ poll = [p \in Procs |-> NoPoll]
    /\ stale = {}
    /\ overlapped = {}

IsController(p, x)   == x \in {p, parent[p]}
LiveCountOwned(a)    == Cardinality({p \in registry : p = a})
LiveCount(a) == Cardinality({p \in registry : parent[p] = a \/ p = a})

-----------------------------------------------------------------------------
(* agent.spawn.                                                            *)

\* The tool guard and the project root are consulted before the cap.
AskSpawn(a, p) ==
    /\ spawn[p] = "unused"
    /\ spawn' = [spawn EXCEPT ![p] = "asked"]
    /\ parent' = [parent EXCEPT ![p] = a]
    /\ UNCHANGED <<pty, registry, row, stored, poll, stale, overlapped>>

\* The cap counts registered processes only; the child is minted behind it.
CheckCap(p) ==
    /\ spawn[p] = "asked"
    /\ IF LiveCount(parent[p]) >= MaxPerAgent
       THEN spawn' = [spawn EXCEPT ![p] = "refused"] /\ UNCHANGED overlapped
       ELSE /\ spawn' = [spawn EXCEPT ![p] = "minting"]
            /\ overlapped' = IF \E q \in Procs : parent[q] = parent[p] /\ spawn[q] \in InProgress
                             THEN overlapped \cup {parent[p]} ELSE overlapped
    /\ UNCHANGED <<parent, pty, registry, row, stored, poll, stale>>

\* Guard, root, mint, home or confinement refuse.
RefuseSpawn(p) ==
    /\ spawn[p] \in {"asked", "minting"}
    /\ spawn' = [spawn EXCEPT ![p] = "refused"]
    /\ UNCHANGED <<parent, pty, registry, row, stored, poll, stale, overlapped>>

\* The process runs from here on, and its row is inserted.
Fork(p) ==
    /\ spawn[p] = "minting"
    /\ spawn' = [spawn EXCEPT ![p] = "forked"]
    /\ pty' = [pty EXCEPT ![p] = "alive"]
    /\ row' = [row EXCEPT ![p] = "running"]
    /\ UNCHANGED <<parent, registry, stored, poll, stale, overlapped>>

Register(p) ==
    /\ spawn[p] = "forked"
    /\ spawn' = [spawn EXCEPT ![p] = "done"]
    /\ registry' = registry \cup {p}
    /\ UNCHANGED <<parent, pty, row, stored, poll, stale, overlapped>>

-----------------------------------------------------------------------------
(* The PTY's callbacks.                                                    *)

\* Listeners exist once the process is registered, and outlive its entry.  An
\* exit nobody listens to leaves a running row, and then an entry, behind.
ExitUpdatesEntry(p) == p \in registry
ExitUpdates(p) == row[p] # "absent"
Exit(p) ==
    /\ pty[p] \in {"alive", "doomed"}
    /\ IF spawn[p] = "done"
       THEN /\ pty' = [pty EXCEPT ![p] = "dead"]
            /\ registry' = registry \ {p}
            /\ row' = [row EXCEPT ![p] = IF ExitUpdates(p) THEN "exited" ELSE @]
       ELSE pty' = [pty EXCEPT ![p] = "unheard"] /\ UNCHANGED <<registry, row>>
    /\ UNCHANGED <<spawn, parent, stored, poll, stale, overlapped>>

\* Output without an entry is dropped.
BuffersOf(p) == p \in registry
Output(p) ==
    /\ pty[p] \in {"alive", "doomed"} /\ BuffersOf(p) /\ row[p] # "absent"
    /\ stored[p] < MaxChunks
    /\ stored' = [stored EXCEPT ![p] = @ + 1]
    /\ UNCHANGED <<spawn, parent, pty, registry, row, poll, stale, overlapped>>

-----------------------------------------------------------------------------
(* Control.                                                                *)

Doomed(P) == [p \in Procs |-> IF p \in P /\ pty[p] = "alive" THEN "doomed" ELSE pty[p]]

\* Without an entry the call only reports the row.
Stop(p, x) ==
    /\ spawn[p] = "done" /\ p \in registry /\ IsController(p, x)
    /\ pty' = Doomed({p})
    /\ registry' = registry \ {p}
    /\ row' = [row EXCEPT ![p] = "killed"]
    /\ UNCHANGED <<spawn, parent, stored, poll, stale, overlapped>>

\* The output goes with the row.
Remove(p, x) ==
    /\ spawn[p] = "done" /\ row[p] # "absent" /\ IsController(p, x)
    /\ pty' = IF p \in registry THEN Doomed({p}) ELSE pty
    /\ registry' = registry \ {p}
    /\ row' = [row EXCEPT ![p] = "absent"]
    /\ stored' = [stored EXCEPT ![p] = 0]
    /\ poll' = [poll EXCEPT ![p] = NoPoll]
    /\ UNCHANGED <<spawn, parent, stale, overlapped>>

\* The hook of session.end and harness.prune, for a supervisor or a child.
EvictProcesses(x) ==
    LET E == {p \in registry : IsController(p, x)}
    IN /\ pty' = Doomed(E)
       /\ registry' = registry \ E
       /\ UNCHANGED <<spawn, parent, row, stored, poll, stale, overlapped>>

\* PTYs hang up with the daemon; nothing repairs their rows.
RestartProcesses ==
    /\ spawn' = [p \in Procs |-> IF spawn[p] \in {"unused", "done"} THEN spawn[p]
                                 ELSE IF spawn[p] = "forked" THEN "done" ELSE "refused"]
    /\ pty' = [p \in Procs |-> IF pty[p] \in {"alive", "doomed"} THEN "dead" ELSE pty[p]]
    /\ registry' = {}
    /\ stale' = stale \cup {p \in Procs : row[p] = "running"}
    /\ poll' = [p \in Procs |-> [poll[p] EXCEPT !.at = "idle"]]
    /\ UNCHANGED <<parent, row, stored, overlapped>>

-----------------------------------------------------------------------------
(* agent.output: the status first, then a page of chunks.                  *)

PollStatus(p) ==
    /\ spawn[p] = "done" /\ row[p] # "absent" /\ poll[p].at = "idle" /\ ~poll[p].done
    /\ poll' = [poll EXCEPT ![p].at = "chunks", ![p].status = row[p]]
    /\ UNCHANGED <<spawn, parent, pty, registry, row, stored, stale, overlapped>>

\* A client is done when the status is final and the page not full.
PollChunks(p) ==
    LET left == stored[p] - poll[p].cursor
        got  == IF left < Page THEN left ELSE Page
    IN /\ poll[p].at = "chunks"
       /\ poll' = [poll EXCEPT ![p] = [at |-> "idle", status |-> poll[p].status,
                                       cursor |-> poll[p].cursor + got,
                                       done |-> poll[p].status \in Final /\ got < Page]]
       /\ UNCHANGED <<spawn, parent, pty, registry, row, stored, stale, overlapped>>

-----------------------------------------------------------------------------
ProcessStep(p) ==
    \/ CheckCap(p) \/ RefuseSpawn(p) \/ Fork(p) \/ Register(p) \/ Exit(p) \/ Output(p)
    \/ PollStatus(p) \/ PollChunks(p)

\* What does not concern other components when an agent ends.
OwnNext ==
    \/ \E p \in Procs : ProcessStep(p) \/ \E a \in Agents : AskSpawn(a, p)
    \/ \E p \in Procs, x \in Principals : Stop(p, x) \/ Remove(p, x)

Next == OwnNext \/ RestartProcesses \/ \E x \in Principals : EvictProcesses(x)

Spec == Init /\ [][Next]_procVars
-----------------------------------------------------------------------------
(* Properties.                                                             *)

\* A row says running only for a process that somebody can still stop, that is
\* being started, that is on its way out or left unheard before it was
\* registered, or that went with an earlier daemon.
RunningRowsAreAccountedFor ==
    \A p \in Procs : row[p] = "running" =>
        p \in registry \/ spawn[p] = "forked" \/ pty[p] \in {"doomed", "unheard"} \/ p \in stale

\* A supervisor that waits for each agent.spawn never has more than the cap.
CapHolds ==
    \A a \in Agents \ overlapped :
        Cardinality({p \in Procs : parent[p] = a /\ (p \in registry \/ spawn[p] \in InProgress)})
            <= MaxPerAgent

\* A client that saw a final status and a page that was not full has all the
\* output there will ever be.
DoneMeansAllRead == \A p \in Procs : poll[p].done => poll[p].cursor = stored[p]
=============================================================================
