------------------------------- MODULE Replica -------------------------------
(***************************************************************************)
(* The knowledge-graph replica (graph.ts, graph-sync.ts): local writes go  *)
(* to the hub through an outbox, the hub's rows come down through a shape  *)
(* stream with a cursor and through snapshots.                             *)
(*                                                                         *)
(* A row is what its merge tells apart: 0 absent, 1 valid, and the greater *)
(* the earlier it was made invalid.  Node names and summaries, which the   *)
(* last writer sets, are left out.                                         *)
(***************************************************************************)
EXTENDS Naturals, FiniteSets, Sequences, FiniteSetsExt

CONSTANTS
    Rows,
    Levels,    \* how far a row may get
    Pushes,    \* graph.outbox.push in progress
    Pulls,     \* graph.sync.pull in progress
    MaxLog,    \* bound: changes of the hub
    MaxOutbox, \* bound: operations of this daemon
    None

VARIABLES
    replica, hub,   \* rows of the PGlite replica, and of the hub
    shape,          \* what the stream of the hub's changes has carried so far
    cursor,         \* kg_shape_cursors: the position of the next page
    outbox,         \* kg_outbox: operations, and whether each is marked pushed
    pushes, pulls,
    missed          \* changes in the stream that failed to apply, until a later row brings them

replicaVars == <<replica, hub, shape, cursor, outbox, pushes, pulls, missed>>

Op   == [row : Rows, level : Levels]
Push == [todo : SUBSET (1..MaxOutbox), applied : BOOLEAN]
Pull == [page : Seq([row : Rows, level : Levels \cup {0}]), upTo : 0..MaxLog, snapshot : BOOLEAN]

TypeOK ==
    /\ {replica, hub} \subseteq [Rows -> Levels \cup {0}]
    /\ shape \in Seq(Op) /\ cursor \in 0..MaxLog
    /\ outbox \in Seq([op : Op, pushed : BOOLEAN])
    /\ pushes \in [Pushes -> Push \cup {None}] /\ pulls \in [Pulls -> Pull \cup {None}]
    /\ missed \subseteq Op

Init ==
    /\ replica = [r \in Rows |-> 0] /\ hub = [r \in Rows |-> 0]
    /\ shape = <<>> /\ cursor = 0 /\ outbox = <<>> /\ missed = {}
    /\ pushes = [p \in Pushes |-> None] /\ pulls = [p \in Pulls |-> None]

\* ON CONFLICT DO NOTHING, then LEAST of the invalidation times.
MergedOverwrite(rows, op) == [rows EXCEPT ![op.row] = op.level]
Merged(rows, op) == [rows EXCEPT ![op.row] = IF op.level > @ THEN op.level ELSE @]

HubTakes(op) ==
    /\ hub' = Merged(hub, op)
    /\ shape' = IF hub' = hub THEN shape ELSE Append(shape, [row |-> op.row, level |-> hub'[op.row]])

-----------------------------------------------------------------------------
\* graph.addEpisode: applied locally, recorded in the outbox.
AddEpisode(op) ==
    /\ Len(outbox) < MaxOutbox
    /\ replica' = Merged(replica, op)
    /\ outbox' = Append(outbox, [op |-> op, pushed |-> FALSE])
    /\ UNCHANGED <<hub, shape, cursor, pushes, pulls, missed>>

\* Another daemon's push.
RemoteWrite(op) ==
    /\ Len(shape) < MaxLog
    /\ HubTakes(op)
    /\ UNCHANGED <<replica, cursor, outbox, pushes, pulls, missed>>

-----------------------------------------------------------------------------
(* graph.outbox.push: the pending operations in order; each is applied to  *)
(* the hub, then marked.                                                   *)

Pending == {i \in DOMAIN outbox : ~outbox[i].pushed}
Oldest(p) == Min(pushes[p].todo)
StartPush(p) ==
    /\ pushes[p] = None /\ Pending # {}
    /\ pushes' = [pushes EXCEPT ![p] = [todo |-> Pending, applied |-> FALSE]]
    /\ UNCHANGED <<replica, hub, shape, cursor, outbox, pulls, missed>>

ApplyOnHub(p) ==
    /\ pushes[p] # None /\ ~pushes[p].applied /\ Len(shape) < MaxLog
    /\ HubTakes(outbox[Oldest(p)].op)
    /\ pushes' = [pushes EXCEPT ![p].applied = TRUE]
    /\ UNCHANGED <<replica, cursor, outbox, pulls, missed>>

MayMark(p) == pushes[p].applied
MarkPushed(p) ==
    /\ pushes[p] # None /\ MayMark(p)
    /\ outbox' = [outbox EXCEPT ![Oldest(p)].pushed = TRUE]
    /\ pushes' = [pushes EXCEPT ![p] = IF pushes[p].todo = {Oldest(p)} THEN None
                                       ELSE [todo |-> pushes[p].todo \ {Oldest(p)}, applied |-> FALSE]]
    /\ UNCHANGED <<replica, hub, shape, cursor, pulls, missed>>

\* The hub refuses an operation, or the daemon stops.
StopPush(p) ==
    /\ pushes[p] # None
    /\ pushes' = [pushes EXCEPT ![p] = None]
    /\ UNCHANGED <<replica, hub, shape, cursor, outbox, pulls, missed>>

-----------------------------------------------------------------------------
(* graph.sync.pull: pages of the shape stream, then a snapshot.            *)

FetchPage(p) ==
    /\ pulls[p] = None
    /\ pulls' = [pulls EXCEPT ![p] = [page |-> SubSeq(shape, cursor + 1, Len(shape)),
                                      upTo |-> Len(shape), snapshot |-> FALSE]]
    /\ UNCHANGED <<replica, hub, shape, cursor, outbox, pushes, missed>>

FetchSnapshot(p) ==
    /\ pulls[p] = None
    /\ \E order \in [1..Cardinality(Rows) -> Rows] :
          /\ {order[i] : i \in DOMAIN order} = Rows
          /\ pulls' = [pulls EXCEPT ![p] =
                 [page |-> [i \in DOMAIN order |-> [row |-> order[i], level |-> hub[order[i]]]],
                  upTo |-> 0, snapshot |-> TRUE]]
    /\ UNCHANGED <<replica, hub, shape, cursor, outbox, pushes, missed>>

\* A row that fails is counted, and the pull goes on.
ApplyRow(p) ==
    /\ pulls[p] # None /\ pulls[p].page # <<>>
    /\ LET op == Head(pulls[p].page) IN
       \/ /\ replica' = Merged(replica, op)
          /\ missed' = {m \in missed : m.row # op.row \/ m.level > op.level}
       \/ /\ missed' = IF pulls[p].snapshot THEN missed ELSE missed \cup {op}
          /\ UNCHANGED replica
    /\ pulls' = [pulls EXCEPT ![p].page = Tail(@)]
    /\ UNCHANGED <<hub, shape, cursor, outbox, pushes>>

\* saveCursor, and the end of the pull.
PageDone(p) == pulls[p].page = <<>>
FinishPage(p) ==
    /\ pulls[p] # None /\ PageDone(p)
    /\ cursor' = IF pulls[p].snapshot THEN cursor ELSE pulls[p].upTo
    /\ pulls' = [pulls EXCEPT ![p] = None]
    /\ UNCHANGED <<replica, hub, shape, outbox, pushes, missed>>

StopPull(p) ==
    /\ pulls[p] # None
    /\ pulls' = [pulls EXCEPT ![p] = None]
    /\ UNCHANGED <<replica, hub, shape, cursor, outbox, pushes, missed>>

Next ==
    \/ \E op \in Op : AddEpisode(op) \/ RemoteWrite(op)
    \/ \E p \in Pushes : StartPush(p) \/ ApplyOnHub(p) \/ MarkPushed(p) \/ StopPush(p)
    \/ \E p \in Pulls : FetchPage(p) \/ FetchSnapshot(p) \/ ApplyRow(p) \/ FinishPage(p) \/ StopPull(p)

Spec == Init /\ [][Next]_replicaVars
-----------------------------------------------------------------------------
(* Properties.                                                             *)

\* An operation marked as pushed has reached the hub, whatever stopped the push.
PushedIsOnHub == \A i \in DOMAIN outbox : outbox[i].pushed => hub[outbox[i].op.row] >= outbox[i].op.level

\* What the cursor has passed is in the replica, unless its row failed: a pull
\* that stops anywhere, or meets another one, skips nothing.
CursorIsBehindReplica ==
    \A i \in 1..cursor : shape[i] \notin missed => replica[shape[i].row] >= shape[i].level

\* Nothing that arrives late, twice or out of order brings a retracted fact back.
NeverBack == \A r \in Rows : replica'[r] >= replica[r] /\ hub'[r] >= hub[r]
NothingIsUndone == [][NeverBack]_replicaVars
=============================================================================
