-------------------------------- MODULE Tasks -------------------------------
(***************************************************************************)
(* The task board (tasks.* handlers of server.ts) and its mirror in Neon   *)
(* (syncTask* of neon.ts).                                                 *)
(*                                                                         *)
(* A handler makes one local statement and then, at an await of its own,   *)
(* one best-effort statement on the shared database.  Nothing orders the   *)
(* second statements of different handlers.                                *)
(***************************************************************************)
EXTENDS Naturals, TLAPS

CONSTANTS
    Agents,  \* the verified principals
    Tasks,   \* task ids
    None     \* SQL NULL

ASSUME TasksAssumption == None \notin Agents

VARIABLES
    local,     \* tasks rows in PGlite
    neon,      \* coordination_work_items rows
    req,       \* the request each agent has in progress
    told,      \* <<agent, task>>: the agent was told it owns the task, and has not released it
    settled    \* tasks whose last completion has been notified, or was cut short by a crash

vars == <<local, neon, req, told, settled>>

Ops       == {"create", "claim", "complete", "release"}
Row       == [status : {"absent", "open", "claimed", "completed"}, owner : Agents \cup {None}]
Unasked   == [at |-> "idle", op |-> "none", task |-> None]
InWork    == [at : {"update", "refused", "mirror", "announce"}, op : Ops, task : Tasks]
NeonRow   == [status : {"absent", "open", "claimed", "done"}, owner : Agents \cup {None}]
AbsentRow == [status |-> "absent", owner |-> None]
OpenRow   == [status |-> "open", owner |-> None]

TypeOK ==
    /\ local \in [Tasks -> Row]
    /\ neon \in [Tasks -> NeonRow]
    /\ req \in [Agents -> InWork \cup {Unasked}]
    /\ told \subseteq Agents \X Tasks
    /\ settled \subseteq Tasks

Init ==
    /\ local = [t \in Tasks |-> AbsentRow]
    /\ neon = [t \in Tasks |-> AbsentRow]
    /\ req = [a \in Agents |-> Unasked]
    /\ told = {}
    /\ settled = {}

At(a, step, op) == req[a].at = step /\ req[a].op = op
Goto(a, step)   == req' = [req EXCEPT ![a].at = step]
Reply(a)        == req' = [req EXCEPT ![a] = Unasked]

-----------------------------------------------------------------------------
(* The local statements.                                                   *)

Ask(a, op, t) ==
    /\ req[a] = Unasked
    /\ req' = [req EXCEPT ![a] = [at |-> "update", op |-> op, task |-> t]]
    /\ told' = IF op = "release" THEN told \ {<<a, t>>} ELSE told
    /\ UNCHANGED <<local, neon, settled>>

\* The id is the primary key: a second create fails.
Create(a) ==
    LET t == req[a].task IN
    /\ At(a, "update", "create")
    /\ IF local[t].status = "absent"
       THEN local' = [local EXCEPT ![t] = OpenRow] /\ Goto(a, "mirror")
       ELSE Reply(a) /\ UNCHANGED local
    /\ UNCHANGED <<neon, told, settled>>

ClaimableByAnyone(row, a) == row.status \in {"open", "claimed"} \/ row.owner = a
Claimable(row, a) == row.status = "open" \/ row.owner = a

Claim(a) ==
    LET t == req[a].task IN
    /\ At(a, "update", "claim")
    /\ IF Claimable(local[t], a)
       THEN local' = [local EXCEPT ![t] = [status |-> "claimed", owner |-> a]] /\ Goto(a, "mirror")
       ELSE Goto(a, "refused") /\ UNCHANGED local
    /\ UNCHANGED <<neon, told, settled>>

\* A refused claim looks up who holds the task and reports it.
Refuse(a) ==
    /\ At(a, "refused", "claim")
    /\ Reply(a)
    /\ UNCHANGED <<local, neon, told, settled>>

Complete(a) ==
    LET t == req[a].task IN
    /\ At(a, "update", "complete")
    /\ IF local[t].owner = a
       THEN /\ local' = [local EXCEPT ![t].status = "completed"]
            /\ settled' = settled \ {t}
            /\ Goto(a, "mirror")
       ELSE Reply(a) /\ UNCHANGED <<local, settled>>
    /\ UNCHANGED <<neon, told>>

ReleasedKeepsOwner(row) == [row EXCEPT !.status = "open"]
Released(row) == OpenRow

Release(a) ==
    LET t == req[a].task IN
    /\ At(a, "update", "release")
    /\ IF local[t].owner = a
       THEN local' = [local EXCEPT ![t] = Released(local[t])] /\ Goto(a, "mirror")
       ELSE Reply(a) /\ UNCHANGED local
    /\ UNCHANGED <<neon, told, settled>>

-----------------------------------------------------------------------------
(* The statement on Neon, and what follows it.                             *)

\* The row after the mirrored statement.  The UPDATEs match on the owner and
\* find nothing where the row is missing; Neon's word for completed is done.
MirroredVerbatim(row, op, a) ==
    CASE op = "claim" /\ (row.status = "open" \/ row.owner = a) ->
             [status |-> "claimed", owner |-> a]
      [] op = "complete" /\ row.owner = a -> [row EXCEPT !.status = "completed"]
      [] op = "create" \/ (op = "release" /\ row.owner = a) -> OpenRow
      [] OTHER -> row
Mirrored(row, op, a) ==
    IF op = "create" \/ (op = "release" /\ row.owner = a) THEN OpenRow
    ELSE IF op = "claim" /\ (row.status = "open" \/ row.owner = a)
         THEN [status |-> "claimed", owner |-> a]
    ELSE IF op = "complete" /\ row.owner = a THEN [row EXCEPT !.status = "done"]
    ELSE row

\* The sync helpers swallow every error: the handler goes on either way.
AfterFailedMirrorThrows(a) == Reply(a) /\ UNCHANGED told
AfterMirror(a) ==
    IF req[a].op = "complete"
    THEN Goto(a, "announce") /\ UNCHANGED told
    ELSE /\ Reply(a)
         /\ told' = IF req[a].op = "claim" THEN told \cup {<<a, req[a].task>>} ELSE told

MirrorSucceeds(a) ==
    LET t == req[a].task IN
    /\ req[a].at = "mirror"
    /\ neon' = [neon EXCEPT ![t] = Mirrored(neon[t], req[a].op, a)]
    /\ AfterMirror(a)
    /\ UNCHANGED <<local, settled>>

AfterMirrorError(a) == AfterMirror(a)

MirrorFails(a) ==
    /\ req[a].at = "mirror"
    /\ AfterMirrorError(a)
    /\ UNCHANGED <<local, neon, settled>>

\* The work.completed event; its INSERT may fail, the notification is sent anyway.
Announce(a) ==
    /\ At(a, "announce", "complete")
    /\ settled' = settled \cup {req[a].task}
    /\ Reply(a)
    /\ UNCHANGED <<local, neon, told>>

\* PGlite and Neon survive the daemon, the requests in progress do not.
Restart ==
    /\ req' = [a \in Agents |-> Unasked]
    /\ settled' = settled \cup {t \in Tasks : \E a \in Agents :
            req[a].task = t /\ req[a].op = "complete" /\ req[a].at # "update"}
    /\ UNCHANGED <<local, neon, told>>

-----------------------------------------------------------------------------
Handler(a) ==
    \/ Create(a) \/ Claim(a) \/ Refuse(a) \/ Complete(a) \/ Release(a)
    \/ MirrorSucceeds(a) \/ MirrorFails(a) \/ Announce(a)

Next ==
    \/ \E a \in Agents : Handler(a) \/ \E op \in Ops, t \in Tasks : Ask(a, op, t)
    \/ Restart

Spec == Init /\ [][Next]_vars

\* Local statements and the HTTP calls to Neon both end, with a result or an error.
LiveSpec == Spec /\ \A a \in Agents : WF_vars(Handler(a))
-----------------------------------------------------------------------------
(* Properties.                                                             *)

\* The board keeps the promise of the abstract specification: whoever was told
\* it owns a task is alone with it, over overlapping claims, failing mirrors
\* and restarts.
Ownership == INSTANCE TaskOwnership WITH owners <- told
OwnershipSpec == Ownership!Spec

\* An open row has no owner, locally and on Neon.  This is what makes the
\* owner clause of the claim guard safe.
OpenIsUnowned ==
    \A t \in Tasks : /\ local[t].status = "open" => local[t].owner = None
                     /\ neon[t].status = "open" => neon[t].owner = None

\* A completion is announced, whatever Neon does, unless the daemon dies first.
CompletionAnnounced ==
    \A t \in Tasks : local[t].status = "completed" ~> t \in settled
-----------------------------------------------------------------------------
(* Theorems about Tasks: types, unowned open rows, and that the board       *)
(* implements exclusive ownership.                                          *)

\* The row of a task that is not on the board, or on it and open, has no owner.
UnownedUnlessTaken ==
    \A t \in Tasks : local[t].status \in {"absent", "open"} => local[t].owner = None

NeonOpenUnowned == \A t \in Tasks : neon[t].status = "open" => neon[t].owner = None

\* Whoever was told it owns a task is the owner of its row.
ToldIsOwner == \A a \in Agents, t \in Tasks : <<a, t>> \in told => local[t].owner = a

\* Between the statement of a claim and its answer the row stays with the claimer.
ClaimStands ==
    \A a \in Agents : At(a, "mirror", "claim") => local[req[a].task].owner = a

\* A pair is withdrawn when its release is asked for, and stays so to its end.
ReleaseWithdrawn ==
    \A a \in Agents : req[a].op = "release" => <<a, req[a].task>> \notin told

BoardInv == /\ TypeOK /\ UnownedUnlessTaken /\ NeonOpenUnowned
            /\ ToldIsOwner /\ ClaimStands /\ ReleaseWithdrawn

\* Every row the board can write is a row.
LEMMA RowsOK == OpenRow \in Row /\ OpenRow \in NeonRow /\ AbsentRow \in Row /\ AbsentRow \in NeonRow
                /\ Unasked \notin InWork
  BY DEF OpenRow, AbsentRow, Row, NeonRow, Unasked, InWork

\* The initial board is empty: nobody is told anything and no row has an owner.
LEMMA BoardInit == Init => BoardInv
  BY RowsOK DEF Init, BoardInv, TypeOK, UnownedUnlessTaken, NeonOpenUnowned, ToldIsOwner,
         ClaimStands, ReleaseWithdrawn, At, AbsentRow, Unasked

\* A mirrored statement leaves a row of Neon, and an open one without an owner.
LEMMA MirroredOK ==
    ASSUME NEW row \in NeonRow, NEW a \in Agents, NEW op \in Ops,
           row.status = "open" => row.owner = None
    PROVE  /\ Mirrored(row, op, a) \in NeonRow
           /\ Mirrored(row, op, a).status = "open" => Mirrored(row, op, a).owner = None
  <1>1. CASE op = "claim" BY <1>1, RowsOK DEF Mirrored, NeonRow
  <1>2. CASE op = "complete"
    BY <1>2 DEF Mirrored, NeonRow
  <1>3. CASE op \in {"create", "release"}
    BY <1>3 DEF Mirrored, NeonRow, OpenRow
  <1> QED BY <1>1, <1>2, <1>3 DEF Ops

\* Each step of an agent's request, and a restart, preserves the invariant.
LEMMA BoardStep == BoardInv /\ [Next]_vars => BoardInv'
  <1> SUFFICES ASSUME BoardInv, [Next]_vars PROVE BoardInv'
    OBVIOUS
  <1> USE TasksAssumption, RowsOK DEF BoardInv
  <1>1. ASSUME NEW a \in Agents, NEW op \in Ops, NEW t \in Tasks, Ask(a, op, t)
        PROVE  BoardInv'
    <2>1. TypeOK' BY <1>1 DEF TypeOK, Ask, InWork
    <2>2. ClaimStands'
      BY <1>1 DEF TypeOK, Ask, ClaimStands, At, InWork
    <2>3. ReleaseWithdrawn'
      BY <1>1 DEF TypeOK, Ask, ReleaseWithdrawn, InWork
    <2> QED BY <1>1, <2>1, <2>2, <2>3 DEF Ask, UnownedUnlessTaken, NeonOpenUnowned, ToldIsOwner
  <1>2. ASSUME NEW a \in Agents, Create(a) PROVE BoardInv'
    <2>0. req[a] \in InWork
      BY <1>2 DEF TypeOK, Create, At, Unasked
    <2>1. TypeOK' BY <1>2, <2>0 DEF TypeOK, Create, Goto, Reply, InWork
    <2>2. UnownedUnlessTaken' /\ ToldIsOwner'
      BY <1>2, <2>0 DEF TypeOK, Create, UnownedUnlessTaken, ToldIsOwner, OpenRow, InWork
    <2>3. \A t \in Tasks : local'[t].owner = local[t].owner
      BY <1>2, <2>0 DEF TypeOK, Create, UnownedUnlessTaken, OpenRow, InWork
    <2>4. \A b \in Agents : b # a => req'[b] = req[b]
      BY <1>2 DEF TypeOK, Create, Goto, Reply
    <2>5. req'[a].op # "claim" /\ req'[a].op # "release"
      BY <1>2, <2>0 DEF TypeOK, Create, At, Goto, Reply, Unasked, InWork
    <2>6. ClaimStands'
      <3> SUFFICES ASSUME NEW b \in Agents, At(b, "mirror", "claim")'
                   PROVE  local'[req'[b].task].owner = b
        BY DEF ClaimStands
      <3>1. b # a /\ req'[b] = req[b] /\ At(b, "mirror", "claim")
        BY <2>4, <2>5 DEF At
      <3>2. req[b].task \in Tasks
        BY <3>1 DEF TypeOK, At, Unasked, InWork
      <3> QED BY <2>3, <3>1, <3>2 DEF ClaimStands
    <2>7. ReleaseWithdrawn'
      BY <1>2, <2>4, <2>5 DEF Create, ReleaseWithdrawn
    <2> QED BY <1>2, <2>1, <2>2, <2>6, <2>7 DEF Create, NeonOpenUnowned
  <1>3. ASSUME NEW a \in Agents, Claim(a) PROVE BoardInv'
    <2>0. req[a] \in InWork
      BY <1>3 DEF TypeOK, Claim, At, Unasked
    <2>1. TypeOK' BY <1>3, <2>0 DEF TypeOK, Claim, Goto, InWork, Row
    <2>2. UnownedUnlessTaken' /\ ToldIsOwner'
      BY <1>3, <2>0 DEF TypeOK, Claim, Claimable, UnownedUnlessTaken, ToldIsOwner, InWork
    <2>3. ReleaseWithdrawn'
      BY <1>3, <2>0 DEF TypeOK, Claim, ReleaseWithdrawn, At, Goto, InWork
    <2>4. ClaimStands'
      <3> SUFFICES ASSUME NEW b \in Agents, At(b, "mirror", "claim")'
                   PROVE  local'[req'[b].task].owner = b
        BY DEF ClaimStands
      <3>1. CASE b = a
        BY <1>3, <2>0, <3>1 DEF TypeOK, Claim, At, Goto, InWork
      <3>2. CASE b # a
        <4>1. req'[b] = req[b]
          BY <1>3, <3>2 DEF TypeOK, Claim, Goto
        <4>2. local[req[b].task].owner = b
          BY <4>1 DEF ClaimStands, At
        <4>3. req[b].task = req[a].task => ~Claimable(local[req[a].task], a)
          BY <2>0, <3>2, <4>2 DEF Claimable, UnownedUnlessTaken, InWork
        <4>4. req[b].task \in Tasks
          BY <4>1 DEF TypeOK, At, Unasked, InWork
        <4> QED BY <1>3, <4>1, <4>2, <4>3, <4>4 DEF Claim, TypeOK
      <3> QED BY <3>1, <3>2
    <2> QED BY <1>3, <2>1, <2>2, <2>3, <2>4 DEF Claim, NeonOpenUnowned
  <1>4. ASSUME NEW a \in Agents, Refuse(a) PROVE BoardInv'
    BY <1>4 DEF TypeOK, Refuse, Reply, UnownedUnlessTaken, NeonOpenUnowned, ToldIsOwner,
                ClaimStands, ReleaseWithdrawn, At, Unasked
  <1>5. ASSUME NEW a \in Agents, Complete(a) PROVE BoardInv'
    <2>0. req[a] \in InWork
      BY <1>5 DEF TypeOK, Complete, At, Unasked
    <2>1. TypeOK' BY <1>5, <2>0 DEF TypeOK, Complete, Goto, Reply, InWork, Row
    <2>2. UnownedUnlessTaken' /\ ToldIsOwner'
      BY <1>5, <2>0 DEF TypeOK, Complete, UnownedUnlessTaken, ToldIsOwner, InWork, Row
    <2>3. \A t \in Tasks : local'[t].owner = local[t].owner
      BY <1>5, <2>0 DEF TypeOK, Complete, InWork, Row
    <2>4. \A b \in Agents : b # a => req'[b] = req[b]
      BY <1>5 DEF TypeOK, Complete, Goto, Reply
    <2>5. req'[a].op # "claim" /\ req'[a].op # "release"
      BY <1>5, <2>0 DEF TypeOK, Complete, At, Goto, Reply, Unasked, InWork
    <2>6. ClaimStands'
      <3> SUFFICES ASSUME NEW b \in Agents, At(b, "mirror", "claim")'
                   PROVE  local'[req'[b].task].owner = b
        BY DEF ClaimStands
      <3>1. b # a /\ req'[b] = req[b] /\ At(b, "mirror", "claim")
        BY <2>4, <2>5 DEF At
      <3>2. req[b].task \in Tasks
        BY <3>1 DEF TypeOK, At, Unasked, InWork
      <3> QED BY <2>3, <3>1, <3>2 DEF ClaimStands
    <2>7. ReleaseWithdrawn'
      BY <1>5, <2>4, <2>5 DEF Complete, ReleaseWithdrawn
    <2> QED BY <1>5, <2>1, <2>2, <2>6, <2>7 DEF Complete, NeonOpenUnowned
  <1>6. ASSUME NEW a \in Agents, Release(a) PROVE BoardInv'
    <2>0. req[a] \in InWork /\ <<a, req[a].task>> \notin told
      BY <1>6 DEF TypeOK, Release, At, Unasked, ReleaseWithdrawn
    <2>1. TypeOK' BY <1>6, <2>0 DEF TypeOK, Release, Released, Goto, Reply, InWork
    <2>2. UnownedUnlessTaken' /\ ToldIsOwner'
      BY <1>6, <2>0 DEF TypeOK, Release, Released, UnownedUnlessTaken, ToldIsOwner, OpenRow, InWork
    <2>3. \A b \in Agents : b # a => req'[b] = req[b]
      BY <1>6 DEF TypeOK, Release, Goto, Reply
    <2>4. req'[a].op # "claim" /\ (req'[a].op = "release" => req'[a].task = req[a].task)
      BY <1>6, <2>0 DEF TypeOK, Release, At, Goto, Reply, Unasked, InWork
    <2>5. ASSUME NEW b \in Agents, b # a, At(b, "mirror", "claim")
          PROVE  local'[req[b].task].owner = b
      <3>1. local[req[b].task].owner = b /\ req[b].task \in Tasks
        BY <2>5 DEF ClaimStands, TypeOK, At, Unasked, InWork
      <3>2. CASE req[b].task = req[a].task
        BY <1>6, <2>5, <3>1, <3>2 DEF Release
      <3>3. CASE req[b].task # req[a].task
        BY <1>6, <2>0, <3>1, <3>3 DEF Release, TypeOK, InWork
      <3> QED BY <3>2, <3>3
    <2>6. ClaimStands'
      BY <2>3, <2>4, <2>5 DEF ClaimStands, At
    <2>7. ReleaseWithdrawn'
      BY <1>6, <2>0, <2>3, <2>4 DEF Release, ReleaseWithdrawn
    <2> QED BY <1>6, <2>1, <2>2, <2>6, <2>7 DEF Release, NeonOpenUnowned
  <1>7. ASSUME NEW a \in Agents, req[a].at = "mirror", AfterMirror(a), UNCHANGED <<local, settled>>,
               neon' = neon \/ neon' = [neon EXCEPT ![req[a].task] =
                                          Mirrored(neon[req[a].task], req[a].op, a)]
        PROVE  BoardInv'
    <2>0. req[a] \in InWork
      BY <1>7 DEF TypeOK, Unasked
    <2>1. neon' \in [Tasks -> NeonRow] /\ NeonOpenUnowned'
      <3>1. CASE neon' = neon BY <1>7, <3>1 DEF TypeOK, NeonOpenUnowned
      <3>2. CASE neon' # neon
        <4> DEFINE t == req[a].task
        <4>1. t \in Tasks /\ req[a].op \in Ops /\ neon[t] \in NeonRow
          BY <2>0 DEF InWork, TypeOK
        <4>2. /\ Mirrored(neon[t], req[a].op, a) \in NeonRow
              /\ Mirrored(neon[t], req[a].op, a).status = "open"
                    => Mirrored(neon[t], req[a].op, a).owner = None
          BY <4>1, MirroredOK DEF NeonOpenUnowned
        <4> QED BY <1>7, <3>2, <4>1, <4>2 DEF TypeOK, NeonOpenUnowned
      <3> QED BY <3>1, <3>2
    <2>2. TypeOK'
      BY <1>7, <2>0, <2>1 DEF TypeOK, AfterMirror, Goto, Reply, InWork
    <2>3. ToldIsOwner' /\ UnownedUnlessTaken'
      BY <1>7, <2>0 DEF TypeOK, AfterMirror, ToldIsOwner, UnownedUnlessTaken, ClaimStands, At, InWork
    <2>4. \A b \in Agents : b # a => req'[b] = req[b]
      BY <1>7 DEF TypeOK, AfterMirror, Goto, Reply
    <2>5. ~At(a, "mirror", "claim")' /\ req'[a].op # "release"
      BY <1>7, <2>0 DEF TypeOK, AfterMirror, Goto, Reply, At, Unasked, InWork
    <2>6. ClaimStands'
      BY <1>7, <2>4, <2>5 DEF ClaimStands, At
    <2>7. ReleaseWithdrawn'
      <3> SUFFICES ASSUME NEW b \in Agents, req'[b].op = "release"
                   PROVE  <<b, req'[b].task>> \notin told'
        BY DEF ReleaseWithdrawn
      <3>1. b # a /\ <<b, req'[b].task>> \notin told
        BY <2>4, <2>5 DEF ReleaseWithdrawn
      <3> QED BY <1>7, <3>1 DEF AfterMirror
    <2> QED BY <2>1, <2>2, <2>3, <2>6, <2>7
  <1>8. ASSUME NEW a \in Agents, MirrorSucceeds(a) PROVE BoardInv'
    BY <1>7, <1>8 DEF MirrorSucceeds
  <1>9. ASSUME NEW a \in Agents, MirrorFails(a) PROVE BoardInv'
    BY <1>7, <1>9 DEF MirrorFails, AfterMirrorError
  <1>10. ASSUME NEW a \in Agents, Announce(a) PROVE BoardInv'
    <2>0. req[a] \in InWork
      BY <1>10 DEF TypeOK, Announce, At, Unasked
    <2> QED BY <1>10, <2>0 DEF TypeOK, Announce, Reply, UnownedUnlessTaken, NeonOpenUnowned,
                  ToldIsOwner, ClaimStands, ReleaseWithdrawn, At, Unasked, InWork
  <1>11. CASE Restart
    BY <1>11 DEF TypeOK, Restart, UnownedUnlessTaken, NeonOpenUnowned, ToldIsOwner, ClaimStands,
                 ReleaseWithdrawn, At, Unasked
  <1>12. CASE UNCHANGED vars
    BY <1>12 DEF vars, TypeOK, UnownedUnlessTaken, NeonOpenUnowned, ToldIsOwner, ClaimStands,
                 ReleaseWithdrawn, At
  <1> QED BY <1>1, <1>2, <1>3, <1>4, <1>5, <1>6, <1>8, <1>9, <1>10, <1>11, <1>12 DEF Next, Handler

\* The inductive invariant of the board.
LEMMA BoardAlways == Spec => []BoardInv
  BY BoardInit, BoardStep, PTL DEF Spec

\* The rows of the board and of its mirror stay rows of their tables: no
\* handler writes a status or an owner that the schema does not know.
THEOREM TypeCorrect == Spec => []TypeOK
  BY BoardAlways, PTL DEF BoardInv

\* An open row has no owner, on either side: this is what makes the owner
\* clause in the claim guard of tasks.claim safe.
THEOREM OpenRowsUnowned == Spec => []OpenIsUnowned
  <1>1. BoardInv => OpenIsUnowned
    BY DEF BoardInv, UnownedUnlessTaken, NeonOpenUnowned, OpenIsUnowned
  <1> QED BY <1>1, BoardAlways, PTL

-----------------------------------------------------------------------------
(* The board implements TaskOwnership.                                     *)

\* What a step does to the pairs agents were told of: a release withdraws one,
\* the answer to a claim that still stands adds one.
LEMMA BoardMaps == BoardInv /\ [Next]_vars => [Ownership!Next]_told
  <1> SUFFICES ASSUME BoardInv, Next, told' # told PROVE Ownership!Next
    BY DEF vars
  <1>1. ASSUME NEW a \in Agents, NEW op \in Ops, NEW t \in Tasks, Ask(a, op, t)
        PROVE  Ownership!Next
    BY <1>1 DEF Ask, Ownership!Next, Ownership!GiveUp
  <1>2. ASSUME NEW a \in Agents, req[a].at = "mirror", AfterMirror(a)
        PROVE  Ownership!Next
    <2> DEFINE t == req[a].task
    <2>1. At(a, "mirror", "claim") /\ told' = told \cup {<<a, t>>}
      BY <1>2 DEF AfterMirror, At
    <2>2. t \in Tasks /\ local[t].owner = a
      BY <1>2, <2>1 DEF BoardInv, TypeOK, ClaimStands, Unasked, InWork
    <2>3. \A b \in Agents : <<b, t>> \in told => b = a
      BY <2>2 DEF BoardInv, ToldIsOwner
    <2>4. \A b : <<b, t>> \in told => b \in Agents
      BY DEF BoardInv, TypeOK
    <2> QED BY <2>1, <2>2, <2>3 DEF Ownership!Next, Ownership!Grant
  <1>3. ASSUME NEW a \in Agents, Handler(a) PROVE Ownership!Next
    BY <1>2, <1>3 DEF Handler, Create, Claim, Refuse, Complete, Release, MirrorSucceeds,
                      MirrorFails, AfterMirrorError, Announce
  <1>4. ~Restart BY DEF Restart
  <1> QED BY <1>1, <1>3, <1>4 DEF Next

\* Over overlapping claims, failing mirrors and restarts, an agent is told it
\* owns a task only while nobody else has been told so.
THEOREM BoardImplementsOwnership == Spec => OwnershipSpec
  <1>1. Init => Ownership!Init
    BY DEF Init, Ownership!Init
  <1> QED BY <1>1, BoardMaps, BoardAlways, PTL DEF Spec, OwnershipSpec, Ownership!Spec

\* Two agents are never both told that they own one task.
THEOREM OneOwnerPerTask ==
    Spec => [](\A a, b \in Agents, t \in Tasks : {<<a, t>>, <<b, t>>} \subseteq told => a = b)
  <1>1. BoardInv => \A a, b \in Agents, t \in Tasks :
                        {<<a, t>>, <<b, t>>} \subseteq told => a = b
    BY DEF BoardInv, ToldIsOwner
  <1> QED BY <1>1, BoardAlways, PTL
=============================================================================
