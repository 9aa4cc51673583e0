------------------------------ MODULE Approvals -----------------------------
(***************************************************************************)
(* The pending-approval queue of manual permission mode (permission.ts):   *)
(* the permission gate consumes or queues an approval, operators decide,   *)
(* rows lapse.                                                             *)
(*                                                                         *)
(* Each statement on pending_approvals is one action together with the     *)
(* code that runs before the next await.  The gate of one request and the  *)
(* decision of one operator take several statements, and nothing holds the *)
(* row between them.                                                       *)
(***************************************************************************)
EXTENDS Naturals, FiniteSets, TLC, FiniteSetTheorems, TLAPS

CONSTANTS
    Agents,     \* agents whose calls need approval
    Calls,      \* (method, paramsHash) pairs
    Ids,        \* approval ids that may be drawn (bounds the run)
    Gates,      \* requests that may be at the permission gate together
    Deciders,   \* permission.decide calls that may be in progress together
    MaxPending, \* MAX_PENDING_PER_AGENT
    None

ASSUME ApprovalsAssumption ==
    /\ MaxPending \in Nat \ {0}
    /\ IsFiniteSet(Ids) /\ IsFiniteSet(Gates)
    /\ None \notin Agents \cup Calls \cup Ids

VARIABLES
    status,   \* status column of each row, "absent" before the INSERT
    owner,    \* agent_id column
    bound,    \* (method, params_hash) columns
    lapsed,   \* rows whose expires_at has passed
    blocked,  \* agents whose session row says blocked on 'permission'
    gate,     \* progress of each request at the gate
    decision, \* progress of each permission.decide
    uses,     \* history: how many requests each approval let through
    passed,   \* history: how often each call of each agent was let through
    granted   \* history: how often operators approved it

rowVars == <<status, owner, bound, lapsed>>
history == <<uses, passed, granted>>
vars    == <<rowVars, blocked, gate, decision, history>>

Statuses  == {"absent", "pending", "approved", "denied", "expired", "consumed"}
GateSteps == {"expire", "consume", "count", "insert", "block"}
Verdicts  == {"approved", "denied"}

IdleGate     == [at |-> "idle", agent |-> None, call |-> None]
IdleDecision == [at |-> "idle", id |-> None, verdict |-> None]

GateState     == [at : GateSteps, agent : Agents, call : Calls] \cup {IdleGate}
DecisionState == [at : {"write", "unblock"}, id : Ids, verdict : Verdicts] \cup {IdleDecision}

TypeOK ==
    /\ status \in [Ids -> Statuses]
    /\ owner \in [Ids -> Agents \cup {None}]
    /\ bound \in [Ids -> Calls \cup {None}]
    /\ lapsed \subseteq Ids
    /\ blocked \subseteq Agents
    /\ gate \in [Gates -> GateState]
    /\ decision \in [Deciders -> DecisionState]
    /\ uses \in [Ids -> Nat]
    /\ passed \in [Agents -> [Calls -> Nat]]
    /\ granted \in [Agents -> [Calls -> Nat]]

Init ==
    /\ status = [i \in Ids |-> "absent"]
    /\ owner = [i \in Ids |-> None]
    /\ bound = [i \in Ids |-> None]
    /\ lapsed = {}
    /\ blocked = {}
    /\ gate = [g \in Gates |-> IdleGate]
    /\ decision = [d \in Deciders |-> IdleDecision]
    /\ uses = [i \in Ids |-> 0]
    /\ passed = [a \in Agents |-> [c \in Calls |-> 0]]
    /\ granted = [a \in Agents |-> [c \in Calls |-> 0]]

Pending(a) == {i \in Ids : status[i] = "pending" /\ owner[i] = a /\ i \notin lapsed}

\* The UPDATE of expireStaleApprovals.
SweptOffSchema ==
    [i \in Ids |-> IF status[i] \in {"pending", "approved"} /\ i \in lapsed
                   THEN "lapsed" ELSE status[i]]
SweptStatus ==
    [i \in Ids |-> IF status[i] \in {"pending", "approved"} /\ i \in lapsed
                   THEN "expired" ELSE status[i]]

-----------------------------------------------------------------------------
(* The gate: tryConsumeApproval, then queueApprovalRequired.               *)

Ask(g, a, c) ==
    /\ gate[g].at = "idle"
    /\ gate' = [gate EXCEPT ![g] = [at |-> "expire", agent |-> a, call |-> c]]
    /\ UNCHANGED <<rowVars, blocked, decision, history>>

ExpireAtGate(g) ==
    /\ gate[g].at = "expire"
    /\ status' = SweptStatus
    /\ gate' = [gate EXCEPT ![g].at = "consume"]
    /\ UNCHANGED <<owner, bound, lapsed, blocked, decision, history>>

\* The rows the UPDATE's subquery matches.
MatchingAnyCall(g) ==
    {i \in Ids : status[i] = "approved" /\ i \notin lapsed /\ owner[i] = gate[g].agent}
MatchingWhileApproved(g) ==
    {i \in Ids : /\ status[i] \in {"approved", "consumed"} /\ i \notin lapsed
                 /\ owner[i] = gate[g].agent /\ bound[i] = gate[g].call}
Matching(g) ==
    {i \in Ids : /\ status[i] = "approved" /\ i \notin lapsed
                 /\ owner[i] = gate[g].agent /\ bound[i] = gate[g].call}

\* One statement matches and consumes; the request goes on to its handler.
Consume(g, i) ==
    /\ gate[g].at = "consume"
    /\ i \in Matching(g)
    /\ status' = [status EXCEPT ![i] = "consumed"]
    /\ uses' = [uses EXCEPT ![i] = @ + 1]
    /\ passed' = [passed EXCEPT ![gate[g].agent][gate[g].call] = @ + 1]
    /\ gate' = [gate EXCEPT ![g] = IdleGate]
    /\ UNCHANGED <<owner, bound, lapsed, blocked, decision, granted>>

NothingToConsume(g) ==
    /\ gate[g].at = "consume"
    /\ Matching(g) = {}
    /\ gate' = [gate EXCEPT ![g].at = "count"]
    /\ UNCHANGED <<rowVars, blocked, decision, history>>

\* The flood guard reads a count; the INSERT it admits is a later statement.
BelowCapAlways(a) == TRUE
BelowCap(a) == Cardinality(Pending(a)) < MaxPending

CountPending(g) ==
    /\ gate[g].at = "count"
    /\ gate' = [gate EXCEPT ![g] = IF BelowCap(gate[g].agent)
                                   THEN [gate[g] EXCEPT !.at = "insert"] ELSE IdleGate]
    /\ UNCHANGED <<rowVars, blocked, decision, history>>

Queue(g, i) ==
    /\ gate[g].at = "insert"
    /\ status[i] = "absent"
    /\ status' = [status EXCEPT ![i] = "pending"]
    /\ owner' = [owner EXCEPT ![i] = gate[g].agent]
    /\ bound' = [bound EXCEPT ![i] = gate[g].call]
    /\ gate' = [gate EXCEPT ![g].at = "block"]
    /\ UNCHANGED <<lapsed, blocked, decision, history>>

\* The session is marked blocked and the caller gets its -32004 receipt.
MarkBlocked(g) ==
    /\ gate[g].at = "block"
    /\ blocked' = blocked \cup {gate[g].agent}
    /\ gate' = [gate EXCEPT ![g] = IdleGate]
    /\ UNCHANGED <<rowVars, decision, history>>

-----------------------------------------------------------------------------
(* permission.decide and permission.pending.                               *)

DecidableAny(i) == status[i] # "absent"
Decidable(i) == status[i] = "pending"

ReadRow(d, i, v) ==
    /\ decision[d].at = "idle"
    /\ Decidable(i)
    /\ decision' = [decision EXCEPT ![d] = [at |-> "write", id |-> i, verdict |-> v]]
    /\ UNCHANGED <<rowVars, blocked, gate, history>>

\* UPDATE ... WHERE id = $1: the status read before is not part of the match.
\* An approval gets a fresh consume window, a denial keeps the old expiry.
WriteDecision(d) ==
    LET i == decision[d].id v == decision[d].verdict IN
    /\ decision[d].at = "write"
    /\ status' = [status EXCEPT ![i] = v]
    /\ lapsed' = IF v = "approved" THEN lapsed \ {i} ELSE lapsed
    /\ granted' = IF v = "approved" THEN [granted EXCEPT ![owner[i]][bound[i]] = @ + 1] ELSE granted
    /\ decision' = [decision EXCEPT ![d].at = "unblock"]
    /\ UNCHANGED <<owner, bound, blocked, gate, uses, passed>>

ClearBlocked(d) ==
    /\ decision[d].at = "unblock"
    /\ blocked' = blocked \ {owner[decision[d].id]}
    /\ decision' = [decision EXCEPT ![d] = IdleDecision]
    /\ UNCHANGED <<rowVars, gate, history>>

ListPending ==
    /\ SweptStatus # status
    /\ status' = SweptStatus
    /\ UNCHANGED <<owner, bound, lapsed, blocked, gate, decision, history>>

\* The clock reaches a row's expires_at.
Lapse(i) ==
    /\ status[i] \in {"pending", "approved"} /\ i \notin lapsed
    /\ lapsed' = lapsed \cup {i}
    /\ UNCHANGED <<status, owner, bound, blocked, gate, decision, history>>

-----------------------------------------------------------------------------
GateStep(g) ==
    \/ \E a \in Agents, c \in Calls : Ask(g, a, c)
    \/ ExpireAtGate(g)
    \/ \E i \in Ids : Consume(g, i)
    \/ NothingToConsume(g)
    \/ CountPending(g)
    \/ \E i \in Ids : Queue(g, i)
    \/ MarkBlocked(g)

DecideStep(d) ==
    \/ \E i \in Ids, v \in Verdicts : ReadRow(d, i, v)
    \/ WriteDecision(d)
    \/ ClearBlocked(d)

Next ==
    \/ \E g \in Gates : GateStep(g)
    \/ \E d \in Deciders : DecideStep(d)
    \/ ListPending
    \/ \E i \in Ids : Lapse(i)

Spec == Init /\ [][Next]_vars

-----------------------------------------------------------------------------
(* Properties.                                                             *)

\* No two permission.decide calls overlap: one operator at one surface.
SerialDecisions == \A d1, d2 \in Deciders : d1 = d2

\* An approval lets one request through, never two (design I5, "single-use").
SingleUse == \A i \in Ids : uses[i] <= 1

\* No call of an agent is let through more often than operators have approved it,
\* however gates, expiry and decisions overlap, decisions that revive a row included.
PassesAreApproved ==
    \A a \in Agents, c \in Calls : passed[a][c] <= granted[a][c]

\* A decided or used approval is never decided again: a denial stays a denial
\* and a consumed row does not come back.
VerdictIsFinal ==
    [][\A i \in Ids : status[i] \in {"denied", "consumed"} => status'[i] = status[i]]_vars

\* The flood guard bounds the queue of an agent, up to the requests that were
\* between its count and their INSERT.
PendingBounded ==
    \A a \in Agents : Cardinality(Pending(a)) <= MaxPending + Cardinality(Gates) - 1

\* Which is which makes no difference.
MCSymmetry == Permutations(Ids) \cup Permutations(Gates) \cup Permutations(Agents) \cup Permutations(Calls)
-----------------------------------------------------------------------------
(* Theorems about Approvals: types, and what holds as long as no two        *)
(* permission.decide calls overlap.                                         *)

\* The pieces a step changes stay rows, gates and decisions.
LEMMA PartsOK == /\ IdleGate \in GateState /\ IdleDecision \in DecisionState
                 /\ \A st \in [Ids -> Statuses] : status = st => SweptStatus \in [Ids -> Statuses]
  BY DEF IdleGate, IdleDecision, GateState, DecisionState, GateSteps, SweptStatus, Statuses

\* A gate or a decision in progress carries an agent and a call, a row and a verdict.
LEMMA BusyGate ==
    ASSUME TypeOK, NEW g \in Gates, gate[g].at # "idle"
    PROVE  gate[g] \in [at : GateSteps, agent : Agents, call : Calls]
  BY DEF TypeOK, GateState, IdleGate
\* The same for a decision: it carries the row it has read and a verdict.
LEMMA BusyDecision ==
    ASSUME TypeOK, NEW d \in Deciders, decision[d].at # "idle"
    PROVE  decision[d] \in [at : {"write", "unblock"}, id : Ids, verdict : Verdicts]
  BY DEF TypeOK, DecisionState, IdleDecision

\* One more for a call of an agent leaves the tally a tally.
LEMMA Tallied ==
    ASSUME NEW f \in [Agents -> [Calls -> Nat]], NEW a, NEW c
    PROVE  [f EXCEPT ![a][c] = @ + 1] \in [Agents -> [Calls -> Nat]]
  <1>1. CASE a \in Agents
    <2>1. f[a] \in [Calls -> Nat]
      BY <1>1
    <2>2. CASE c \in Calls
      BY <1>1, <2>1, <2>2
    <2>3. CASE c \notin Calls
      <3>1. [f[a] EXCEPT ![c] = @ + 1] = f[a]
        BY <2>1, <2>3
      <3> QED BY <1>1, <2>1, <3>1
    <2> QED BY <2>2, <2>3
  <1>2. CASE a \notin Agents
    BY <1>2
  <1> QED BY <1>1, <1>2

\* The queue starts empty.
LEMMA TypeInit == Init => TypeOK
  BY PartsOK DEF Init, TypeOK, Statuses

\* One step per action; the statements of gate, decision and clock each write
\* one or two columns.
LEMMA TypeStep == TypeOK /\ [Next]_vars => TypeOK'
  <1> SUFFICES ASSUME TypeOK, [Next]_vars PROVE TypeOK'
    OBVIOUS
  <1> USE PartsOK DEF TypeOK, history
  <1>1. ASSUME NEW g \in Gates, NEW a \in Agents, NEW c \in Calls, Ask(g, a, c) PROVE TypeOK'
    <2>1. [at |-> "expire", agent |-> a, call |-> c] \in GateState
      BY DEF GateState, GateSteps
    <2> QED BY <1>1, <2>1 DEF Ask, rowVars
  <1>2. ASSUME NEW g \in Gates, ExpireAtGate(g) PROVE TypeOK'
    <2>1. [gate[g] EXCEPT !.at = "consume"] \in GateState
      BY <1>2, BusyGate DEF ExpireAtGate, GateState, GateSteps
    <2> QED BY <1>2, <2>1 DEF ExpireAtGate
  <1>3. ASSUME NEW g \in Gates, NEW i \in Ids, Consume(g, i) PROVE TypeOK'
    <2>1. gate[g].agent \in Agents /\ gate[g].call \in Calls
      BY <1>3, BusyGate DEF Consume
    <2>2. passed' \in [Agents -> [Calls -> Nat]]
      BY <1>3, <2>1 DEF Consume
    <2> QED BY <1>3, <2>2 DEF Consume, Statuses
  <1>4. ASSUME NEW g \in Gates, NothingToConsume(g) PROVE TypeOK'
    <2>1. [gate[g] EXCEPT !.at = "count"] \in GateState
      BY <1>4, BusyGate DEF NothingToConsume, GateState, GateSteps
    <2> QED BY <1>4, <2>1 DEF NothingToConsume, rowVars
  <1>5. ASSUME NEW g \in Gates, CountPending(g) PROVE TypeOK'
    <2>1. [gate[g] EXCEPT !.at = "insert"] \in GateState
      BY <1>5, BusyGate DEF CountPending, GateState, GateSteps
    <2> QED BY <1>5, <2>1 DEF CountPending, rowVars
  <1>6. ASSUME NEW g \in Gates, NEW i \in Ids, Queue(g, i) PROVE TypeOK'
    <2>1. /\ gate[g].agent \in Agents /\ gate[g].call \in Calls
          /\ [gate[g] EXCEPT !.at = "block"] \in GateState
      BY <1>6, BusyGate DEF Queue, GateState, GateSteps
    <2> QED BY <1>6, <2>1 DEF Queue, Statuses
  <1>7. ASSUME NEW g \in Gates, MarkBlocked(g) PROVE TypeOK'
    <2>1. gate[g].agent \in Agents
      BY <1>7, BusyGate DEF MarkBlocked
    <2> QED BY <1>7, <2>1 DEF MarkBlocked, rowVars
  <1>8. ASSUME NEW d \in Deciders, NEW i \in Ids, NEW v \in Verdicts, ReadRow(d, i, v) PROVE TypeOK'
    <2>1. [at |-> "write", id |-> i, verdict |-> v] \in DecisionState
      BY DEF DecisionState
    <2> QED BY <1>8, <2>1 DEF ReadRow, rowVars
  <1>9. ASSUME NEW d \in Deciders, WriteDecision(d) PROVE TypeOK'
    <2>1. /\ decision[d].id \in Ids /\ decision[d].verdict \in Verdicts
          /\ [decision[d] EXCEPT !.at = "unblock"] \in DecisionState
      BY <1>9, BusyDecision DEF WriteDecision, DecisionState
    <2>2. granted' \in [Agents -> [Calls -> Nat]]
      BY <1>9, Tallied DEF WriteDecision
    <2>3. status' \in [Ids -> Statuses] /\ lapsed' \subseteq Ids
      BY <1>9, <2>1 DEF WriteDecision, Statuses, Verdicts
    <2>4. decision' \in [Deciders -> DecisionState]
      BY <1>9, <2>1 DEF WriteDecision
    <2>5. UNCHANGED <<owner, bound, blocked, gate, uses, passed>>
      BY <1>9 DEF WriteDecision
    <2> QED BY <2>2, <2>3, <2>4, <2>5
  <1>10. ASSUME NEW d \in Deciders, ClearBlocked(d) PROVE TypeOK'
    BY <1>10 DEF ClearBlocked, rowVars
  <1>11. CASE ListPending BY <1>11 DEF ListPending
  <1>12. ASSUME NEW i \in Ids, Lapse(i) PROVE TypeOK'
    BY <1>12 DEF Lapse
  <1>13. CASE UNCHANGED vars BY <1>13 DEF vars, rowVars
  <1> QED BY <1>1, <1>2, <1>3, <1>4, <1>5, <1>6, <1>7, <1>8, <1>9, <1>10, <1>11, <1>12, <1>13
          DEF Next, GateStep, DecideStep

\* The columns of pending_approvals, gates and decisions stay well-typed.
THEOREM TypeCorrect == Spec => []TypeOK
  BY TypeInit, TypeStep, PTL DEF Spec

-----------------------------------------------------------------------------
(* One decision at a time.                                                 *)

\* A used row is consumed, and used once.
UsedIsConsumed ==
    \A i \in Ids : uses[i] = 0 \/ (uses[i] = 1 /\ status[i] = "consumed")

\* The row a decision is about to write was pending when it was read; since
\* then it can only have expired.
DecisionFresh ==
    \A d \in Deciders : decision[d].at = "write"
        => status[decision[d].id] \in {"pending", "expired"}

QueueInv == TypeOK /\ UsedIsConsumed /\ DecisionFresh

\* The invariant survives every step when decisions are serial, and a denied or
\* consumed row stays what it is.
LEMMA QueueStep ==
    ASSUME SerialDecisions, QueueInv, [Next]_vars
    PROVE  /\ QueueInv'
           /\ \A i \in Ids : status[i] \in {"denied", "consumed"} => status'[i] = status[i]
  <1> USE DEF history
  <1> DEFINE Final == \A i \in Ids : status[i] \in {"denied", "consumed"} => status'[i] = status[i]
  <1>0. TypeOK'
    BY TypeStep DEF QueueInv
  <1> SUFFICES (UsedIsConsumed /\ DecisionFresh)' /\ Final
    BY <1>0 DEF QueueInv
  <1>1. ASSUME UNCHANGED <<uses, decision>>, status' = SweptStatus
        PROVE  (UsedIsConsumed /\ DecisionFresh)' /\ Final
    BY <1>1 DEF QueueInv, TypeOK, DecisionState, IdleDecision, SweptStatus, UsedIsConsumed, DecisionFresh
  <1>2. ASSUME UNCHANGED <<uses, decision, status>>
        PROVE  (UsedIsConsumed /\ DecisionFresh)' /\ Final
    BY <1>2 DEF QueueInv, UsedIsConsumed, DecisionFresh
  <1>3. ASSUME NEW g \in Gates, NEW i \in Ids, Consume(g, i)
        PROVE  (UsedIsConsumed /\ DecisionFresh)' /\ Final
    BY <1>3 DEF QueueInv, TypeOK, Consume, Matching, UsedIsConsumed, DecisionFresh
  <1>4. ASSUME NEW g \in Gates, NEW i \in Ids, Queue(g, i)
        PROVE  (UsedIsConsumed /\ DecisionFresh)' /\ Final
    BY <1>4 DEF QueueInv, TypeOK, Queue, UsedIsConsumed, DecisionFresh
  <1>5. ASSUME NEW d \in Deciders, NEW i \in Ids, NEW v \in Verdicts, ReadRow(d, i, v)
        PROVE  (UsedIsConsumed /\ DecisionFresh)' /\ Final
    BY <1>5 DEF QueueInv, TypeOK, ReadRow, Decidable, UsedIsConsumed, DecisionFresh, rowVars
  <1>6. ASSUME NEW d \in Deciders, WriteDecision(d)
        PROVE  (UsedIsConsumed /\ DecisionFresh)' /\ Final
    <2>1. \A e \in Deciders : e = d
      BY DEF SerialDecisions
    <2>2. status[decision[d].id] \in {"pending", "expired"} /\ decision[d].id \in Ids
      BY <1>6, BusyDecision DEF QueueInv, DecisionFresh, WriteDecision
    <2>3. DecisionFresh'
      BY <1>6, <2>1 DEF QueueInv, TypeOK, WriteDecision, DecisionFresh
    <2>4. UsedIsConsumed' /\ Final
      BY <1>6, <2>2 DEF QueueInv, TypeOK, WriteDecision, UsedIsConsumed
    <2> QED BY <2>3, <2>4
  <1>7. ASSUME NEW d \in Deciders, ClearBlocked(d)
        PROVE  (UsedIsConsumed /\ DecisionFresh)' /\ Final
    BY <1>7 DEF QueueInv, TypeOK, ClearBlocked, IdleDecision, UsedIsConsumed, DecisionFresh, rowVars
  <1>8. ASSUME NEW i \in Ids, Lapse(i) PROVE UNCHANGED <<uses, decision, status>>
    BY <1>8 DEF Lapse
  <1>9. ASSUME NEW g \in Gates, GateStep(g) PROVE (UsedIsConsumed /\ DecisionFresh)' /\ Final
    BY <1>1, <1>2, <1>3, <1>4, <1>9
    DEF GateStep, Ask, ExpireAtGate, NothingToConsume, CountPending, MarkBlocked, rowVars
  <1>10. ASSUME NEW d \in Deciders, DecideStep(d) PROVE (UsedIsConsumed /\ DecisionFresh)' /\ Final
    BY <1>5, <1>6, <1>7, <1>10 DEF DecideStep
  <1> QED BY <1>1, <1>2, <1>8, <1>9, <1>10 DEF Next, ListPending, vars, rowVars

\* Serial decisions keep every reachable queue in order.
LEMMA QueueAlways == ASSUME SerialDecisions PROVE Spec => []QueueInv
  <1>1. Init => QueueInv
    BY TypeInit DEF Init, QueueInv, UsedIsConsumed, DecisionFresh, IdleDecision
  <1>2. QueueInv /\ [Next]_vars => QueueInv'
    BY QueueStep
  <1> QED BY <1>1, <1>2, PTL DEF Spec

\* As long as decisions do not overlap, an approval lets at most one request
\* through, over any number of overlapping requests, expiry and listing.
THEOREM ApprovalsAreSingleUse == ASSUME SerialDecisions PROVE Spec => []SingleUse
  <1>1. QueueInv => SingleUse
    BY DEF QueueInv, UsedIsConsumed, SingleUse
  <1> QED BY <1>1, QueueAlways, PTL

\* As long as decisions do not overlap, a denial stays a denial and a consumed
\* approval does not come back.
THEOREM VerdictsAreFinal == ASSUME SerialDecisions PROVE Spec => VerdictIsFinal
  <1>1. QueueInv /\ [Next]_vars =>
            [\A i \in Ids : status[i] \in {"denied", "consumed"} => status'[i] = status[i]]_vars
    BY QueueStep
  <1> QED BY <1>1, QueueAlways, PTL DEF Spec, VerdictIsFinal

-----------------------------------------------------------------------------
(* However many decisions overlap.                                         *)

\* The requests of an agent between their count and their INSERT.
Inserting(a) == {g \in Gates : gate[g].at = "insert" /\ gate[g].agent = a}

\* A request that is about to insert has left room for itself: it was below the
\* cap when it counted, and only the other gates can have come before it.
RoomLeft ==
    \A a \in Agents :
        Cardinality(Pending(a)) + Cardinality(Inserting(a)) <= MaxPending + Cardinality(Gates) - 1

\* The two counts are finite, and no more requests insert than there are gates.
LEMMA Counts ==
    \A a : /\ IsFiniteSet(Pending(a)) /\ Cardinality(Pending(a)) \in Nat
           /\ IsFiniteSet(Inserting(a)) /\ Cardinality(Inserting(a)) \in Nat
           /\ Cardinality(Inserting(a)) <= Cardinality(Gates)
           /\ MaxPending \in Nat \ {0} /\ Cardinality(Gates) \in Nat
  BY ApprovalsAssumption, FS_Subset, FS_CardinalityType DEF Pending, Inserting

\* A set within another with one more element is larger by one at most.
LEMMA SizeOfLarger ==
    ASSUME NEW S, IsFiniteSet(S), NEW x, NEW T, T \subseteq S \cup {x}
    PROVE  Cardinality(T) \in Nat /\ Cardinality(T) <= Cardinality(S) + 1
  <1>1. /\ IsFiniteSet(S \cup {x}) /\ Cardinality(S) \in Nat
        /\ Cardinality(S \cup {x}) \in Nat /\ Cardinality(S \cup {x}) <= Cardinality(S) + 1
    BY FS_AddElement, FS_CardinalityType
  <1>2. IsFiniteSet(T) /\ Cardinality(T) <= Cardinality(S \cup {x})
    BY <1>1, FS_Subset
  <1> QED BY <1>1, <1>2, FS_CardinalityType

\* A set within another without one of its elements is smaller by one at least.
LEMMA SizeOfSmaller ==
    ASSUME NEW S, IsFiniteSet(S), NEW x \in S, NEW T, T \subseteq S \ {x}
    PROVE  Cardinality(T) \in Nat /\ Cardinality(T) <= Cardinality(S) - 1
  <1>1. /\ IsFiniteSet(S \ {x}) /\ Cardinality(S) \in Nat
        /\ Cardinality(S \ {x}) = Cardinality(S) - 1
    BY FS_RemoveElement, FS_CardinalityType
  <1>2. IsFiniteSet(T) /\ Cardinality(T) <= Cardinality(S \ {x})
    BY <1>1, FS_Subset
  <1> QED BY <1>1, <1>2, FS_CardinalityType

\* What shrinks both sets keeps the room.
LEMMA RoomKept ==
    ASSUME RoomLeft, \A a \in Agents : Pending(a)' \subseteq Pending(a) /\ Inserting(a)' \subseteq Inserting(a)
    PROVE  RoomLeft'
  <1>1. \A a \in Agents : /\ Cardinality(Pending(a)') <= Cardinality(Pending(a))
                          /\ Cardinality(Inserting(a)') <= Cardinality(Inserting(a))
                          /\ Cardinality(Pending(a)') \in Nat /\ Cardinality(Inserting(a)') \in Nat
    BY Counts, FS_Subset, FS_CardinalityType
  <1> QED BY <1>1, Counts DEF RoomLeft

\* Only the count and the INSERT let a set grow.
LEMMA RoomStep == TypeOK /\ RoomLeft /\ [Next]_vars => RoomLeft'
  <1> SUFFICES ASSUME TypeOK, RoomLeft, [Next]_vars PROVE RoomLeft'
    OBVIOUS
  <1>1. ASSUME NEW g \in Gates, CountPending(g) PROVE RoomLeft'
    <2>1. gate[g].agent \in Agents
      BY <1>1, BusyGate DEF CountPending
    <2>2. \A a \in Agents : Pending(a)' = Pending(a)
      BY <1>1 DEF CountPending, Pending, rowVars
    <2>3. \A a \in Agents : a # gate[g].agent \/ ~BelowCap(a) => Inserting(a)' \subseteq Inserting(a)
      BY <1>1, <2>1 DEF TypeOK, CountPending, Inserting, IdleGate
    <2>4. \A a \in Agents : Cardinality(Inserting(a)') \in Nat /\ Cardinality(Inserting(a)') <= Cardinality(Gates)
      <3>1. \A a \in Agents : Inserting(a)' \subseteq Gates
        BY DEF Inserting
      <3> QED BY <3>1, ApprovalsAssumption, FS_Subset, FS_CardinalityType
    <2>5. \A a \in Agents : Inserting(a)' \subseteq Inserting(a)
                            => Cardinality(Inserting(a)') <= Cardinality(Inserting(a))
      BY Counts, FS_Subset
    <2> SUFFICES ASSUME NEW a \in Agents
                 PROVE  Cardinality(Pending(a)) + Cardinality(Inserting(a)')
                            <= MaxPending + Cardinality(Gates) - 1
      BY <2>2 DEF RoomLeft
    <2>6. CASE a = gate[g].agent /\ BelowCap(a)
      BY <2>4, <2>6, Counts DEF BelowCap
    <2>7. CASE a # gate[g].agent \/ ~BelowCap(a)
      BY <2>3, <2>4, <2>5, <2>7, Counts DEF RoomLeft
    <2> QED BY <2>6, <2>7
  <1>2. ASSUME NEW g \in Gates, NEW i \in Ids, Queue(g, i) PROVE RoomLeft'
    <2>1. gate[g].agent \in Agents /\ gate[g].at = "insert"
      BY <1>2, BusyGate DEF Queue
    <2>2. \A a \in Agents : a # gate[g].agent =>
              Pending(a)' \subseteq Pending(a) /\ Inserting(a)' \subseteq Inserting(a)
      BY <1>2, <2>1 DEF TypeOK, Queue, Pending, Inserting
    <2> SUFFICES ASSUME NEW a \in Agents
                 PROVE  Cardinality(Pending(a)') + Cardinality(Inserting(a)')
                            <= MaxPending + Cardinality(Gates) - 1
      BY DEF RoomLeft
    <2>3. CASE a # gate[g].agent
      <3>1. /\ Cardinality(Pending(a)') <= Cardinality(Pending(a))
            /\ Cardinality(Inserting(a)') <= Cardinality(Inserting(a))
            /\ Cardinality(Pending(a)') \in Nat /\ Cardinality(Inserting(a)') \in Nat
        BY <2>2, <2>3, Counts, FS_Subset, FS_CardinalityType
      <3> QED BY <3>1, Counts DEF RoomLeft
    <2>4. CASE a = gate[g].agent
      <3>0. /\ Pending(a)' \subseteq Pending(a) \cup {i}
            /\ Inserting(a)' \subseteq Inserting(a) \ {g} /\ g \in Inserting(a)
        BY <1>2, <2>1, <2>4 DEF TypeOK, Queue, Pending, Inserting
      <3>1. Cardinality(Pending(a)') \in Nat /\ Cardinality(Pending(a)') <= Cardinality(Pending(a)) + 1
        BY <3>0, Counts, SizeOfLarger
      <3>2. /\ Cardinality(Inserting(a)') \in Nat
            /\ Cardinality(Inserting(a)') <= Cardinality(Inserting(a)) - 1
        BY <3>0, Counts, SizeOfSmaller
      <3> QED BY <3>1, <3>2, Counts DEF RoomLeft
    <2> QED BY <2>3, <2>4
  <1>3. ASSUME UNCHANGED <<status, owner, lapsed>>,
               \A g \in Gates : gate'[g] = gate[g] \/ gate'[g].at # "insert"
        PROVE  RoomLeft'
    BY <1>3, RoomKept DEF Pending, Inserting
  <1>4. ASSUME UNCHANGED owner, \A i \in Ids : status'[i] = "pending" => status[i] = "pending",
               \A i \in Ids : status'[i] = "pending" /\ i \in lapsed => i \in lapsed',
               \A g \in Gates : gate'[g] = gate[g] \/ gate'[g].at # "insert"
        PROVE  RoomLeft'
    BY <1>4, RoomKept DEF Pending, Inserting
  <1>5. ASSUME NEW g \in Gates, GateStep(g) PROVE RoomLeft'
    <2>1. ASSUME NEW a \in Agents, NEW c \in Calls, Ask(g, a, c) PROVE RoomLeft'
      BY <1>3, <2>1 DEF TypeOK, Ask, rowVars
    <2>2. CASE ExpireAtGate(g)
      BY <1>4, <2>2 DEF TypeOK, ExpireAtGate, SweptStatus
    <2>3. ASSUME NEW i \in Ids, Consume(g, i) PROVE RoomLeft'
      BY <1>4, <2>3 DEF TypeOK, Consume, IdleGate
    <2>4. CASE NothingToConsume(g)
      <3>1. \A h \in Gates : gate'[h] = gate[h] \/ gate'[h].at = "count"
        BY <2>4, BusyGate DEF TypeOK, NothingToConsume
      <3> QED BY <1>3, <2>4, <3>1 DEF NothingToConsume, rowVars
    <2>5. CASE MarkBlocked(g)
      BY <1>3, <2>5 DEF TypeOK, MarkBlocked, IdleGate, rowVars
    <2> QED BY <1>1, <1>2, <1>5, <2>1, <2>2, <2>3, <2>4, <2>5 DEF GateStep
  <1>6. ASSUME NEW d \in Deciders, DecideStep(d) PROVE RoomLeft'
    <2>1. CASE WriteDecision(d)
      <3>1. decision[d].verdict \in Verdicts /\ decision[d].id \in Ids
        BY <2>1, BusyDecision DEF WriteDecision
      <3> QED BY <1>4, <2>1, <3>1 DEF TypeOK, WriteDecision, Verdicts
    <2> QED BY <1>3, <1>6, <2>1 DEF DecideStep, ReadRow, ClearBlocked, rowVars
  <1>7. CASE ListPending
    BY <1>4, <1>7 DEF TypeOK, ListPending, SweptStatus
  <1>8. ASSUME NEW i \in Ids, Lapse(i) PROVE RoomLeft'
    BY <1>4, <1>8 DEF Lapse
  <1>9. CASE UNCHANGED vars
    BY <1>3, <1>9 DEF vars, rowVars
  <1> QED BY <1>5, <1>6, <1>7, <1>8, <1>9 DEF Next

\* The queue of an agent exceeds its cap by no more than the other requests that
\* were between count and INSERT, for any number of gates and deciders.
THEOREM QueueIsBounded == Spec => []PendingBounded
  <1>1. Init => RoomLeft
    <2>1. Init => \A a \in Agents : Pending(a) = {} /\ Inserting(a) = {}
      BY DEF Init, Pending, Inserting, IdleGate
    <2> QED BY <2>1, Counts, FS_EmptySet DEF RoomLeft
  <1>2. RoomLeft => PendingBounded
    BY Counts DEF RoomLeft, PendingBounded
  <1> QED BY <1>1, <1>2, RoomStep, TypeCorrect, PTL DEF Spec

\* The approvals of a call of an agent that a request can still consume.
Approved(a, c) == {i \in Ids : status[i] = "approved" /\ owner[i] = a /\ bound[i] = c}

\* Every approval an operator gave is spent at most once or still there; the
\* ones that lapse are in neither count.
Backed ==
    \A a \in Agents, c \in Calls :
        passed[a][c] + Cardinality(Approved(a, c)) <= granted[a][c]

\* There are finitely many of them.
LEMMA ApprovedCount ==
    \A a, c : IsFiniteSet(Approved(a, c)) /\ Cardinality(Approved(a, c)) \in Nat
  BY ApprovalsAssumption, FS_Subset, FS_CardinalityType DEF Approved

\* What approves nothing and lets nothing through keeps the balance.
LEMMA BackedKept ==
    ASSUME Backed, TypeOK, UNCHANGED <<passed, granted>>,
           \A a \in Agents, c \in Calls : Approved(a, c)' \subseteq Approved(a, c)
    PROVE  Backed'
  <1>1. \A a \in Agents, c \in Calls : /\ Cardinality(Approved(a, c)') \in Nat
                                       /\ Cardinality(Approved(a, c)') <= Cardinality(Approved(a, c))
    BY ApprovedCount, FS_Subset, FS_CardinalityType
  <1> QED BY <1>1, ApprovedCount DEF Backed, TypeOK

\* The consuming statement takes the row it lets through, and only a written
\* approval adds one.
LEMMA BackedStep == TypeOK /\ Backed /\ [Next]_vars => Backed'
  <1> SUFFICES ASSUME TypeOK, Backed, [Next]_vars PROVE Backed'
    OBVIOUS
  <1>1. ASSUME UNCHANGED <<owner, bound, passed, granted>>,
               \A i \in Ids : status'[i] = "approved" => status[i] = "approved"
        PROVE  Backed'
    BY <1>1, BackedKept DEF Approved
  <1>2. ASSUME NEW g \in Gates, NEW i \in Ids, Consume(g, i) PROVE Backed'
    <2>1. gate[g].agent \in Agents /\ gate[g].call \in Calls
      BY <1>2, BusyGate DEF Consume
    <2> SUFFICES ASSUME NEW a \in Agents, NEW c \in Calls
                 PROVE  passed'[a][c] + Cardinality(Approved(a, c)') <= granted'[a][c]
      BY DEF Backed
    <2>2. CASE a = gate[g].agent /\ c = gate[g].call
      <3>1. i \in Approved(a, c) /\ Approved(a, c)' \subseteq Approved(a, c) \ {i}
        BY <1>2, <2>2 DEF TypeOK, Consume, Matching, Approved
      <3>2. Cardinality(Approved(a, c)') \in Nat
            /\ Cardinality(Approved(a, c)') <= Cardinality(Approved(a, c)) - 1
        BY <3>1, ApprovedCount, SizeOfSmaller
      <3>3. passed'[a][c] = passed[a][c] + 1 /\ granted' = granted
        BY <1>2, <2>1, <2>2 DEF TypeOK, Consume
      <3> QED BY <3>2, <3>3, ApprovedCount DEF TypeOK, Backed
    <2>3. CASE ~(a = gate[g].agent /\ c = gate[g].call)
      <3>1. Approved(a, c)' \subseteq Approved(a, c)
        BY <1>2 DEF TypeOK, Consume, Approved
      <3>2. Cardinality(Approved(a, c)') \in Nat
            /\ Cardinality(Approved(a, c)') <= Cardinality(Approved(a, c))
        BY <3>1, ApprovedCount, FS_Subset, FS_CardinalityType
      <3>3. passed'[a][c] = passed[a][c] /\ granted' = granted
        BY <1>2, <2>1, <2>3 DEF TypeOK, Consume
      <3> QED BY <3>2, <3>3, ApprovedCount DEF TypeOK, Backed
    <2> QED BY <2>2, <2>3
  <1>3. ASSUME NEW d \in Deciders, WriteDecision(d) PROVE Backed'
    <2> DEFINE j == decision[d].id
    <2>1. j \in Ids /\ decision[d].verdict \in Verdicts
      BY <1>3, BusyDecision DEF WriteDecision
    <2>2. CASE decision[d].verdict # "approved"
      <3>1. granted' = granted /\ \A i \in Ids : status'[i] = "approved" => status[i] = "approved"
        BY <1>3, <2>1, <2>2 DEF TypeOK, WriteDecision
      <3> QED BY <1>1, <1>3, <3>1 DEF WriteDecision
    <2>3. CASE decision[d].verdict = "approved"
      <3> SUFFICES ASSUME NEW a \in Agents, NEW c \in Calls
                   PROVE  passed'[a][c] + Cardinality(Approved(a, c)') <= granted'[a][c]
        BY DEF Backed
      <3>0. passed' = passed
        BY <1>3 DEF WriteDecision
      <3>1. CASE owner[j] = a /\ bound[j] = c
        <4>1. Approved(a, c)' \subseteq Approved(a, c) \cup {j}
          BY <1>3, <2>1 DEF TypeOK, WriteDecision, Approved
        <4>2. Cardinality(Approved(a, c)') \in Nat
              /\ Cardinality(Approved(a, c)') <= Cardinality(Approved(a, c)) + 1
          BY <4>1, ApprovedCount, SizeOfLarger
        <4>3. granted'[a][c] = granted[a][c] + 1
          BY <1>3, <2>3, <3>1 DEF TypeOK, WriteDecision
        <4> QED BY <3>0, <4>2, <4>3, ApprovedCount DEF TypeOK, Backed
      <3>2. CASE ~(owner[j] = a /\ bound[j] = c)
        <4>1. Approved(a, c)' \subseteq Approved(a, c)
          BY <1>3, <2>1, <3>2 DEF TypeOK, WriteDecision, Approved
        <4>2. Cardinality(Approved(a, c)') \in Nat
              /\ Cardinality(Approved(a, c)') <= Cardinality(Approved(a, c))
          BY <4>1, ApprovedCount, FS_Subset, FS_CardinalityType
        <4>3. granted'[a][c] = granted[a][c]
          BY <1>3, <2>3, <3>2 DEF TypeOK, WriteDecision
        <4> QED BY <3>0, <4>2, <4>3, ApprovedCount DEF TypeOK, Backed
      <3> QED BY <3>1, <3>2
    <2> QED BY <2>2, <2>3
  <1>4. ASSUME NEW g \in Gates, NEW i \in Ids, Queue(g, i) PROVE Backed'
    <2>1. \A a \in Agents, c \in Calls : Approved(a, c)' \subseteq Approved(a, c)
      BY <1>4 DEF TypeOK, Queue, Approved
    <2> QED BY <1>4, <2>1, BackedKept DEF Queue, history
  <1>5. ASSUME NEW g \in Gates, GateStep(g) PROVE Backed'
    BY <1>1, <1>2, <1>4, <1>5
    DEF TypeOK, GateStep, Ask, ExpireAtGate, SweptStatus, NothingToConsume, CountPending, MarkBlocked,
        rowVars, history
  <1>6. ASSUME NEW d \in Deciders, DecideStep(d) PROVE Backed'
    BY <1>1, <1>3, <1>6 DEF DecideStep, ReadRow, ClearBlocked, rowVars, history
  <1>7. CASE ListPending
    BY <1>1, <1>7 DEF TypeOK, ListPending, SweptStatus, history
  <1>8. ASSUME NEW i \in Ids, Lapse(i) PROVE Backed'
    BY <1>1, <1>8 DEF Lapse, history
  <1>9. CASE UNCHANGED vars
    BY <1>1, <1>9 DEF vars, rowVars, history
  <1> QED BY <1>5, <1>6, <1>7, <1>8, <1>9 DEF Next

\* No call is let through more often than operators approved it, for any number
\* of overlapping gates and deciders: even a decision that revives a consumed
\* row counts as an approval of its own.
THEOREM PassesAreBacked == Spec => []PassesAreApproved
  <1>1. Init => Backed
    <2>1. Init => \A a \in Agents, c \in Calls : Approved(a, c) = {}
      BY DEF Init, Approved
    <2> QED BY <2>1, FS_EmptySet DEF Backed, Init
  <1>2. TypeOK /\ Backed => PassesAreApproved
    BY ApprovedCount DEF TypeOK, Backed, PassesAreApproved
  <1> QED BY <1>1, <1>2, BackedStep, TypeCorrect, PTL DEF Spec
=============================================================================
