---------------------------- MODULE Agents_proofs ----------------------------
(***************************************************************************)
(* What the daemon lets an agent do and what it tells others: goals are    *)
(* earned and stay closed, a grant covers and pays for what it lets        *)
(* through, one key signs for an agent, the permission mode of a call is   *)
(* the operator's, licences count until they are replaced or revoked,      *)
(* model calls are paid and lawful, and nothing that is waited for or      *)
(* mirrored is missed.                                                     *)
(***************************************************************************)
EXTENDS Daemon, FiniteSetTheorems, TLAPS

-----------------------------------------------------------------------------
(* Least elements.                                                         *)

\* A set of naturals has a least element: the parts of it up to one of its members are
\* finite, and the smallest of them has one member.
LEMMA LeastOf ==
    ASSUME NEW S, S \subseteq Nat, S # {}
    PROVE  \E m \in S : \A k \in S : m <= k
  <1> DEFINE UpTo(k) == S \cap (0 .. k)
             Parts == {UpTo(k) : k \in S}
  <1>1. ASSUME NEW k \in S PROVE UpTo(k) \in FiniteSubsetsOf(Nat)
    <2>1. IsFiniteSet(0 .. k)
      BY FS_Interval
    <2>2. UpTo(k) \in SUBSET (0 .. k)
      OBVIOUS
    <2>3. IsFiniteSet(UpTo(k))
      BY <2>1, <2>2, FS_Subset, Zenon
    <2> QED BY <2>3 DEF FiniteSubsetsOf
  <1>2. Parts \subseteq FiniteSubsetsOf(Nat) /\ Parts # {}
    BY <1>1
  <1>3. PICK X \in Parts : \A Y \in Parts : <<Y, X>> \notin StrictSubsetOrdering(Nat)
    <2> HIDE DEF Parts
    <2> QED BY <1>2, FS_StrictSubsetOrderingWellFounded, WFMin, Zenon
  <1>4. PICK m \in S : X = UpTo(m)
    BY <1>3
  <1>5. ASSUME NEW k \in S, k < m PROVE FALSE
    <2>1. UpTo(k) \in SUBSET Nat /\ X \in SUBSET Nat /\ UpTo(k) \subseteq X /\ m \in X /\ m \notin UpTo(k)
      BY <1>4, <1>5
    <2>2. <<UpTo(k), X>> \in StrictSubsetOrdering(Nat)
      BY <2>1 DEF StrictSubsetOrdering
    <2> QED BY <1>3, <2>2
  <1> QED BY <1>5

-----------------------------------------------------------------------------
(* Goals.                                                                  *)

\* A goal that may be completed has criteria, and all of them are met; the blockers of one
\* that may be worked on are closed.
Earned(g, ve)    == /\ \E k \in Criteria : GoalOf[k] = g /\ ve[k] # None
                    /\ \A k \in Criteria : GoalOf[k] = g => ve[k] \in {"met", None}
Unhindered(g, st) == \A b \in BlockedBy[g] : st[b] \in Goals!Terminal

OnCriterion == {"add", "met", "failed", "reset", "propose"}

\* What a method read still holds when it writes, as long as it is alone with its goal.
Sound(m, st, ve) ==
    /\ \A t \in Goals!Transitions : m.op = t[1] => Goals!CanTransition(st[m.goal], t[2])
    /\ m.op = "activate" => Unhindered(m.goal, st)
    /\ m.op = "complete" => Earned(m.goal, ve)
    /\ m.op = "create" => st[m.goal] \in {None, "open"}
    /\ IF m.op \in OnCriterion
       THEN m.crit \in Criteria /\ GoalOf[m.crit] = m.goal /\ st[m.goal] \notin Goals!Terminal
       ELSE m.crit = None

AloneOnGoal == \A c, d \in Calls : methods[c] # None /\ methods[d] # None /\ methods[c].goal = methods[d].goal => c = d
ReadsHold   == \A c \in Calls : methods[c] # None => Sound(methods[c], status, verdict)
AllEarned   == \A g \in GoalIds : /\ status[g] = "done" => Earned(g, verdict)
                                  /\ status[g] \in {"active", "done"} => Unhindered(g, status)

GoalsInv == Goals!TypeOK /\ (~crossed => AloneOnGoal /\ ReadsHold /\ AllEarned)

Method == [op : Goals!Ops, goal : GoalIds, crit : Criteria \cup {None}]

LEMMA GoalsInit == Goals!Init => GoalsInv
  BY GoalsAssumption DEF Goals!Init, GoalsInv, Goals!TypeOK, AloneOnGoal, ReadsHold, AllEarned

LEMMA GoalsEarned == GoalsInv => Goals!GoalsAreEarned
  BY DEF GoalsInv, AllEarned, Earned, Unhindered, Goals!GoalsAreEarned, Goals!CriteriaOf, Goals!Unblocked

\* It holds whatever happens to other goals, as long as what is closed stays closed.
LEMMA SoundStays ==
    ASSUME NEW m, m.goal \in GoalIds, NEW st, NEW ve, NEW st2, NEW ve2, Sound(m, st, ve),
           st2[m.goal] = st[m.goal] \/ (m.op = "create" /\ st2[m.goal] = "open"),
           \A g \in GoalIds : st[g] \in Goals!Terminal => st2[g] = st[g],
           \A k \in Criteria : GoalOf[k] = m.goal => ve2[k] = ve[k] \/ m.op = "create"
    PROVE  Sound(m, st2, ve2)
  <1>1. \A t \in Goals!Transitions : t[1] \in {"activate", "block", "abandon", "complete"}
    BY DEF Goals!Transitions
  <1>2. Unhindered(m.goal, st) => Unhindered(m.goal, st2)
    BY GoalsAssumption DEF Unhindered
  <1>3. m.op # "create" => (Earned(m.goal, ve) => Earned(m.goal, ve2))
    BY DEF Earned
  <1> QED BY <1>1, <1>2, <1>3 DEF Sound, OnCriterion

\* The reads of a method.
LEMMA MethodEnters ==
    ASSUME GoalsInv, ~crossed, NEW c \in Calls, NEW op \in Goals!Ops, NEW g \in GoalIds, NEW k \in Criteria \cup {None},
           Goals!Enter(c, op, g, k), Sound([op |-> op, goal |-> g, crit |-> k], status, verdict)
    PROVE  GoalsInv'
  <1> DEFINE m == [op |-> op, goal |-> g, crit |-> k]
  <1>1. m \in Method /\ m.op = op /\ m.goal = g /\ m.crit = k /\ Sound(m, status, verdict)
    BY DEF Method
  <1>2. /\ methods[c] = None /\ methods' = [methods EXCEPT ![c] = m] /\ UNCHANGED <<status, verdict, task>>
        /\ crossed' = (crossed \/ Goals!Working(g))
    BY DEF Goals!Enter
  <1> HIDE DEF m
  <1>3. methods' \in [Calls -> Method \cup {None}] /\ methods \in [Calls -> Method \cup {None}]
    BY <1>1, <1>2 DEF GoalsInv, Goals!TypeOK, Method
  <1>4. crossed' \in BOOLEAN
    BY <1>2, Zenon DEF GoalsInv, Goals!TypeOK
  <1>5. Goals!TypeOK'
    BY <1>2, <1>3, <1>4 DEF GoalsInv, Goals!TypeOK, Method
  <1>6. ASSUME ~crossed' PROVE AloneOnGoal' /\ ReadsHold' /\ AllEarned'
    <2>1. ~Goals!Working(g)
      BY <1>2, <1>6, Zenon
    <2>2. \A d \in Calls : methods[d] # None => methods[d].goal # g
      BY <2>1 DEF Goals!Working
    <2>3. AloneOnGoal'
      BY <1>1, <1>2, <1>3, <2>2 DEF GoalsInv, AloneOnGoal
    <2>4. AllEarned'
      BY <1>2 DEF GoalsInv, AllEarned
    <2>5. ReadsHold'
      BY <1>1, <1>2, <1>3 DEF GoalsInv, ReadsHold
    <2> QED BY <2>3, <2>4, <2>5
  <1> QED BY <1>5, <1>6 DEF GoalsInv

\* A method is over, after a write that only its own goal or criterion sees.
LEMMA MethodLeaves ==
    ASSUME GoalsInv, ~crossed, NEW c \in Calls, methods[c] # None, Goals!Leave(c),
           Goals!TypeOK', NEW g \in GoalIds, g = methods[c].goal,
           \A h \in GoalIds \ {g} : status'[h] = status[h],
           status[g] \in Goals!Terminal => status'[g] = status[g],
           \A k \in Criteria : GoalOf[k] # g => verdict'[k] = verdict[k],
           status'[g] = "done" => Earned(g, verdict'),
           status'[g] \in {"active", "done"} => Unhindered(g, status')
    PROVE  GoalsInv'
  <1>1. methods' = [methods EXCEPT ![c] = None] /\ crossed' = crossed
    BY DEF Goals!Leave
  <1>2. methods \in [Calls -> Method \cup {None}]
    BY DEF GoalsInv, Goals!TypeOK, Method
  <1>3. AloneOnGoal'
    BY <1>1, <1>2 DEF GoalsInv, AloneOnGoal
  <1>4. ReadsHold'
    <2>1. ASSUME NEW d \in Calls, methods'[d] # None PROVE Sound(methods'[d], status', verdict')
      <3>1. d # c /\ methods'[d] = methods[d] /\ methods[d].goal \in GoalIds \ {g}
        BY <1>1, <1>2, <2>1 DEF GoalsInv, AloneOnGoal, Method
      <3>2. Sound(methods[d], status, verdict)
        BY <2>1, <3>1 DEF GoalsInv, ReadsHold
      <3> QED BY <3>1, <3>2, SoundStays
    <2> QED BY <2>1 DEF ReadsHold
  <1>5. AllEarned'
    <2>1. ASSUME NEW h \in GoalIds \ {g}
          PROVE  /\ status'[h] = "done" => Earned(h, verdict')
                 /\ status'[h] \in {"active", "done"} => Unhindered(h, status')
      <3>1. status[h] = "done" => Earned(h, verdict)
        BY DEF GoalsInv, AllEarned
      <3>2. status[h] \in {"active", "done"} => Unhindered(h, status)
        BY DEF GoalsInv, AllEarned
      <3>3. Earned(h, verdict) => Earned(h, verdict')
        BY DEF Earned
      <3>4. Unhindered(h, status) => Unhindered(h, status')
        BY GoalsAssumption DEF Unhindered
      <3> QED BY <3>1, <3>2, <3>3, <3>4
    <2> QED BY <2>1 DEF AllEarned
  <1> QED BY <1>1, <1>3, <1>4, <1>5 DEF GoalsInv

LEMMA GoalsWrites ==
    ASSUME GoalsInv, ~crossed, NEW c \in Calls,
           Goals!WriteStatus(c) \/ Goals!WriteCriterion(c) \/ Goals!FinishCreate(c)
    PROVE  GoalsInv' /\ Goals!StaysClosed
  <1> DEFINE m == methods[c]
  <1>0. /\ m # None /\ m \in Method /\ Sound(m, status, verdict) /\ Goals!Leave(c)
        /\ status \in [GoalIds -> {"open", "active", "blocked", None} \cup Goals!Terminal]
        /\ verdict \in [Criteria -> {"pending", "met", "failed", None}]
        /\ task \in [Criteria -> {"open", "claimed", "completed", None}]
        /\ methods \in [Calls -> Method \cup {None}] /\ crossed \in BOOLEAN
    BY DEF Goals!WriteStatus, Goals!WriteCriterion, Goals!FinishCreate, GoalsInv, ReadsHold, Goals!TypeOK, Method
  <1>1. methods' \in [Calls -> Method \cup {None}] /\ crossed' \in BOOLEAN
    BY <1>0 DEF Goals!Leave
  <1>2. m.goal \in GoalIds /\ m.crit \in Criteria \cup {None} /\ m.op \in Goals!Ops
    BY <1>0 DEF Method
  <1>3. ASSUME Goals!WriteStatus(c) PROVE GoalsInv' /\ Goals!StaysClosed
    <2>1. PICK t \in Goals!Transitions : m.op = t[1] /\ status' = [status EXCEPT ![m.goal] = t[2]]
      BY <1>3 DEF Goals!WriteStatus
    <2>2. UNCHANGED <<verdict, task>> /\ Goals!CanTransition(status[m.goal], t[2])
      BY <1>0, <1>3, <2>1 DEF Goals!WriteStatus, Sound
    <2>3. /\ status[m.goal] \notin Goals!Terminal /\ status'[m.goal] = t[2]
          /\ t[2] \in {"active", "blocked", "abandoned", "done"}
          /\ t[2] = "done" => m.op = "complete" /\ status[m.goal] = "active"
          /\ t[2] = "active" => m.op = "activate"
      BY <1>0, <1>2, <2>1, <2>2 DEF Goals!Transitions, Goals!CanTransition, Goals!Terminal
    <2>4. \A h \in GoalIds \ {m.goal} : status'[h] = status[h]
      BY <1>0, <2>1
    <2>5. Unhindered(m.goal, status) => Unhindered(m.goal, status')
      BY <1>0, <1>2, <2>3, <2>4, GoalsAssumption DEF Unhindered
    <2>6. Goals!TypeOK'
      BY <1>0, <1>1, <2>1, <2>2, <2>3 DEF Goals!TypeOK, Method, Goals!Terminal
    <2>7. t[2] = "done" => Earned(m.goal, verdict')
      BY <1>0, <2>2, <2>3 DEF Sound
    <2>8. t[2] \in {"active", "done"} => Unhindered(m.goal, status')
      BY <1>0, <1>2, <2>3, <2>5 DEF Sound, GoalsInv, AllEarned
    <2>9. GoalsInv'
      BY <1>0, <1>2, <2>2, <2>3, <2>4, <2>6, <2>7, <2>8, MethodLeaves
    <2> QED BY <2>3, <2>4, <2>9 DEF Goals!StaysClosed
  <1>4. ASSUME Goals!FinishCreate(c) PROVE GoalsInv' /\ Goals!StaysClosed
    <2>1. UNCHANGED <<status, verdict, task>>
      BY <1>4 DEF Goals!FinishCreate
    <2>2. Goals!TypeOK'
      BY <1>0, <1>1, <2>1 DEF Goals!TypeOK, Method
    <2>3. GoalsInv'
      BY <1>0, <1>2, <2>1, <2>2, MethodLeaves DEF GoalsInv, AllEarned
    <2> QED BY <2>1, <2>3 DEF Goals!StaysClosed
  <1>5. ASSUME Goals!WriteCriterion(c) PROVE GoalsInv' /\ Goals!StaysClosed
    <2>1. /\ UNCHANGED status /\ m.crit # None /\ m.op \in OnCriterion
      BY <1>0, <1>5 DEF Goals!WriteCriterion, Sound
    <2>2. GoalOf[m.crit] = m.goal /\ status[m.goal] \notin Goals!Terminal /\ m.crit \in Criteria
      BY <1>0, <2>1 DEF Sound
    <2>3. /\ \E v \in {"pending", "met", "failed"} : verdict' \in {verdict, [verdict EXCEPT ![m.crit] = v]}
          /\ \E v \in {"open", None} : task' \in {task, [task EXCEPT ![m.crit] = v]}
      BY <1>5, <2>1, Zenon DEF Goals!WriteCriterion, OnCriterion
    <2>4. Goals!TypeOK'
      BY <1>0, <1>1, <2>1, <2>2, <2>3 DEF Goals!TypeOK, Method
    <2>5. \A k \in Criteria : GoalOf[k] # m.goal => verdict'[k] = verdict[k]
      BY <1>0, <2>2, <2>3
    <2>6. status'[m.goal] \in {"active", "done"} => Unhindered(m.goal, status')
      BY <1>2, <2>1 DEF GoalsInv, AllEarned
    <2>7. GoalsInv'
      BY <1>0, <1>2, <2>1, <2>2, <2>4, <2>5, <2>6, MethodLeaves DEF Goals!Terminal
    <2> QED BY <2>1, <2>7 DEF Goals!StaysClosed
  <1> QED BY <1>3, <1>4, <1>5

LEMMA GoalsInserts ==
    ASSUME GoalsInv, ~crossed, NEW c \in Calls,
           Goals!InsertGoal(c) \/ \E k \in Criteria : Goals!InsertCriterion(c, k)
    PROVE  GoalsInv' /\ Goals!StaysClosed
  <1> DEFINE g == methods[c].goal
  <1>0. /\ methods[c] # None /\ methods[c].op = "create" /\ g \in GoalIds /\ status[g] \in {None, "open"}
        /\ UNCHANGED <<task, methods, crossed>>
        /\ status \in [GoalIds -> {"open", "active", "blocked", None} \cup Goals!Terminal]
        /\ verdict \in [Criteria -> {"pending", "met", "failed", None}]
        /\ methods \in [Calls -> Method \cup {None}]
    BY DEF Goals!InsertGoal, Goals!InsertCriterion, GoalsInv, ReadsHold, Sound, Goals!TypeOK, Method
  <1>1. /\ status' \in [GoalIds -> {"open", "active", "blocked", None} \cup Goals!Terminal]
        /\ status'[g] \in {status[g], "open"} /\ \A h \in GoalIds \ {g} : status'[h] = status[h]
        /\ verdict' \in [Criteria -> {"pending", "met", "failed", None}]
        /\ \A k \in Criteria : GoalOf[k] # g => verdict'[k] = verdict[k]
    BY <1>0 DEF Goals!InsertGoal, Goals!InsertCriterion
  <1>2. \A h \in GoalIds : status[h] \in Goals!Terminal => status'[h] = status[h]
    BY <1>0, <1>1, GoalsAssumption DEF Goals!Terminal
  <1>3. ReadsHold'
    <2>1. ASSUME NEW d \in Calls, methods[d] # None PROVE Sound(methods[d], status', verdict')
      <3>1. methods[d].goal \in GoalIds /\ (methods[d].goal = g => d = c) /\ Sound(methods[d], status, verdict)
        BY <1>0, <2>1 DEF GoalsInv, ReadsHold, AloneOnGoal, Method
      <3> QED BY <1>0, <1>1, <1>2, <3>1, SoundStays
    <2> QED BY <1>0, <2>1 DEF ReadsHold
  <1>4. AllEarned'
    <2>1. ASSUME NEW h \in GoalIds
          PROVE  /\ status'[h] = "done" => Earned(h, verdict')
                 /\ status'[h] \in {"active", "done"} => Unhindered(h, status')
      <3>1. status'[h] \in {"active", "done"} => h # g /\ status[h] = status'[h]
        BY <1>0, <1>1, GoalsAssumption
      <3>2. h # g /\ Earned(h, verdict) => Earned(h, verdict')
        BY <1>1 DEF Earned
      <3>3. Unhindered(h, status) => Unhindered(h, status')
        BY <1>2, GoalsAssumption DEF Unhindered
      <3> QED BY <3>1, <3>2, <3>3 DEF GoalsInv, AllEarned
    <2> QED BY <2>1 DEF AllEarned
  <1>5. Goals!TypeOK' /\ AloneOnGoal'
    BY <1>0, <1>1 DEF GoalsInv, Goals!TypeOK, AloneOnGoal
  <1> QED BY <1>0, <1>2, <1>3, <1>4, <1>5 DEF GoalsInv, Goals!StaysClosed

LEMMA GoalsStep ==
    ASSUME GoalsInv, Goals!Next
    PROVE  GoalsInv' /\ Goals!StaysClosed
  <1>0. ~crossed
    BY Zenon DEF Goals!Next
  <1>1. ASSUME Goals!CrashGoals PROVE GoalsInv' /\ Goals!StaysClosed
    <2>1. methods' = [c \in Calls |-> None] /\ UNCHANGED <<status, verdict, task>>
      BY <1>1 DEF Goals!CrashGoals
    <2>2. crossed' \in BOOLEAN
      BY <1>1, Zenon DEF Goals!CrashGoals
    <2>3. Goals!TypeOK' /\ AloneOnGoal' /\ ReadsHold'
      BY <2>1, <2>2 DEF GoalsInv, Goals!TypeOK, AloneOnGoal, ReadsHold
    <2>4. AllEarned'
      BY <1>0, <2>1 DEF GoalsInv, AllEarned
    <2> QED BY <2>1, <2>3, <2>4 DEF GoalsInv, Goals!StaysClosed
  <1>2. ASSUME NEW k \in Criteria, NEW to \in {"open", "claimed", "completed"}, Goals!MoveTask(k, to)
        PROVE  GoalsInv' /\ Goals!StaysClosed
    <2>1. UNCHANGED <<status, verdict, methods, crossed>> /\ task' = [task EXCEPT ![k] = to]
      BY <1>2 DEF Goals!MoveTask
    <2>2. Goals!TypeOK'
      BY <2>1 DEF GoalsInv, Goals!TypeOK
    <2>3. AloneOnGoal' /\ ReadsHold' /\ AllEarned'
      BY <1>0, <2>1 DEF GoalsInv, AloneOnGoal, ReadsHold, AllEarned
    <2> QED BY <2>1, <2>2, <2>3 DEF GoalsInv, Goals!StaysClosed
  <1>3. ASSUME NEW c \in Calls, NEW g \in GoalIds, Goals!BeginCreate(c, g) PROVE GoalsInv' /\ Goals!StaysClosed
    <2>1. "create" \in Goals!Ops /\ "create" \notin OnCriterion /\ \A t \in Goals!Transitions : t[1] # "create"
      BY DEF Goals!Ops, OnCriterion, Goals!Transitions
    <2>2. Sound([op |-> "create", goal |-> g, crit |-> None], status, verdict)
      BY <1>3, <2>1 DEF Sound, Goals!BeginCreate
    <2>3. Goals!Enter(c, "create", g, None)
      BY <1>3 DEF Goals!BeginCreate
    <2> QED BY <1>0, <2>1, <2>2, <2>3, MethodEnters DEF Goals!StaysClosed, Goals!Enter
  <1>4. ASSUME NEW c \in Calls, NEW g \in GoalIds, NEW op \in Goals!Ops, Goals!BeginTransition(c, op, g)
        PROVE  GoalsInv' /\ Goals!StaysClosed
    <2>1. \A t \in Goals!Transitions : op = t[1] => Goals!CanTransition(status[g], t[2])
      BY <1>4 DEF Goals!BeginTransition, Goals!Transitions
    <2>2. op \notin OnCriterion /\ op # "create"
      BY <1>4 DEF Goals!BeginTransition, Goals!Transitions, OnCriterion
    <2>3. (op = "activate" => Unhindered(g, status)) /\ (op = "complete" => Earned(g, verdict))
      BY <1>4 DEF Goals!BeginTransition, Unhindered, Earned, Goals!Unblocked, Goals!ReadyToComplete, Goals!CriteriaOf
    <2>4. Sound([op |-> op, goal |-> g, crit |-> None], status, verdict)
      BY <2>1, <2>2, <2>3 DEF Sound
    <2>5. Goals!Enter(c, op, g, None)
      BY <1>4 DEF Goals!BeginTransition
    <2> QED BY <1>0, <2>4, <2>5, MethodEnters DEF Goals!StaysClosed, Goals!Enter
  <1>5. ASSUME NEW c \in Calls, NEW k \in Criteria, NEW op \in OnCriterion, Goals!BeginCriterion(c, op, k)
        PROVE  GoalsInv' /\ Goals!StaysClosed
    <2>1. Goals!OpenToChange(GoalOf[k]) /\ Goals!Enter(c, op, GoalOf[k], k)
      BY <1>5, Zenon DEF Goals!BeginCriterion
    <2>2. op \in Goals!Ops /\ op # "create" /\ op \notin {"activate", "block", "abandon", "complete"}
      BY DEF Goals!Ops, OnCriterion
    <2>3. Sound([op |-> op, goal |-> GoalOf[k], crit |-> k], status, verdict)
      BY <2>1, <2>2 DEF Sound, Goals!OpenToChange, Goals!Transitions
    <2>4. GoalOf[k] \in GoalIds
      BY GoalsAssumption
    <2> QED BY <1>0, <2>1, <2>2, <2>3, <2>4, MethodEnters DEF Goals!StaysClosed, Goals!Enter
  <1>6. \/ Goals!CrashGoals
        \/ \E k \in Criteria, to \in {"open", "claimed", "completed"} : Goals!MoveTask(k, to)
        \/ \E c \in Calls, g \in GoalIds : Goals!BeginCreate(c, g)
        \/ \E c \in Calls, g \in GoalIds, op \in Goals!Ops : Goals!BeginTransition(c, op, g)
        \/ \E c \in Calls, k \in Criteria, op \in OnCriterion : Goals!BeginCriterion(c, op, k)
        \/ \E c \in Calls : Goals!WriteStatus(c) \/ Goals!WriteCriterion(c) \/ Goals!FinishCreate(c)
        \/ \E c \in Calls : Goals!InsertGoal(c) \/ \E k \in Criteria : Goals!InsertCriterion(c, k)
    BY Zenon DEF Goals!Next, OnCriterion
  <1> QED BY <1>0, <1>1, <1>2, <1>3, <1>4, <1>5, <1>6, GoalsWrites, GoalsInserts

-----------------------------------------------------------------------------
(* Grants.                                                                 *)

\* What a call in the gate holds: its selection has grants that cover it, and what it was let
\* through by is a grant that does.
CoveredBy(g, e, gs) == g \in GrantIds /\ gs[g] # None /\ Grants!Covers(gs[g].shape, e.call)
Gated(e, gs) ==
    /\ e.at \in {"idle", "resolved", "granting", "decided"}
    /\ e.at = "granting" => \A g \in e.rows : CoveredBy(g, e, gs)
    /\ e.at = "decided" /\ Grants!Class(e.call.method) = "critical" =>
          \/ e.by = "ask"
          \/ e.by = "allow" /\ e.mode = "shadow"
          \/ \E g \in e.via : CoveredBy(g, e, gs)

\* What a limited grant has let through and what it has left make up its limit.
Metered(g) ==
    IF grants[g] = None THEN used[g] = 0
    ELSE grants[g].shape.max > 0 => used[g] + grants[g].left = grants[g].shape.max

GrantsInv ==
    /\ Grants!TypeOK /\ \A g \in GrantIds : Metered(g)
    /\ DOMAIN gate = Calls /\ \A c \in Calls : Gated(gate[c], grants)

LEMMA GrantsInit == Grants!Init => GrantsInv
  BY GrantsAssumption DEF Grants!Init, GrantsInv, Grants!TypeOK, Metered, Gated, Grants!Idle

LEMMA GrantsKeep == GrantsInv => Grants!TypeOK /\ Grants!LimitsHold /\ Grants!CriticalIsNamed
  BY DEF GrantsInv, Metered, Gated, CoveredBy, Grants!LimitsHold, Grants!CriticalIsNamed, Grants!Covers

\* What a grant covers never changes.
ShapesStay == \A g \in GrantIds : grants[g] # None => grants'[g] # None /\ grants'[g].shape = grants[g].shape

LEMMA GatedStays ==
    ASSUME NEW e, Gated(e, grants), ShapesStay
    PROVE  Gated(e, grants')
  BY DEF Gated, CoveredBy, ShapesStay

GrantTypes ==
    /\ override \in Grants!Modes \cup {None} /\ grants \in [GrantIds -> Grants!Grant \cup {None}]
    /\ used \in [GrantIds -> Nat]

\* The grants change, or a call takes a step in the gate.
LEMMA GateMoves ==
    ASSUME GrantsInv, ShapesStay, GrantTypes', \A g \in GrantIds : Metered(g)',
           NEW c, NEW e, gate' = gate \/ (gate' = [gate EXCEPT ![c] = e] /\ Gated(e, grants'))
    PROVE  GrantsInv'
  <1>1. DOMAIN gate' = Calls /\ \A d \in Calls : gate'[d] = gate[d] \/ Gated(gate'[d], grants')
    BY DEF GrantsInv
  <1>2. \A d \in Calls : Gated(gate'[d], grants')
    BY <1>1, GatedStays DEF GrantsInv
  <1>3. Grants!TypeOK'
    BY <1>2 DEF Grants!TypeOK, GrantTypes, Gated
  <1> QED BY <1>1, <1>2, <1>3 DEF GrantsInv

LEMMA GrantsRest ==
    ASSUME GrantsInv, UNCHANGED <<grants, used>>
    PROVE  ShapesStay /\ (\A g \in GrantIds : Metered(g)') /\ (override' \in Grants!Modes \cup {None} => GrantTypes')
  BY DEF GrantsInv, ShapesStay, Metered, GrantTypes, Grants!TypeOK

\* The grants of one id change.
LEMMA GrantChanges ==
    ASSUME GrantsInv, NEW g \in GrantIds, NEW x \in Grants!Grant, NEW n \in Nat,
           grants' = [grants EXCEPT ![g] = x], used' = [used EXCEPT ![g] = n], UNCHANGED override,
           grants[g] # None => x.shape = grants[g].shape, x.shape.max > 0 => n + x.left = x.shape.max
    PROVE  ShapesStay /\ GrantTypes' /\ \A h \in GrantIds : Metered(h)'
  <1>1. GrantTypes /\ GrantTypes'
    BY DEF GrantsInv, Grants!TypeOK, GrantTypes
  <1>2. \A h \in GrantIds : /\ grants'[h] = IF h = g THEN x ELSE grants[h]
                            /\ used'[h] = IF h = g THEN n ELSE used[h]
    BY <1>1 DEF GrantTypes
  <1>3. x # None
    BY GrantsAssumption
  <1> QED BY <1>1, <1>2, <1>3 DEF GrantsInv, Metered, ShapesStay

LEMMA Decisions ==
    ASSUME NEW m, NEW mode
    PROVE  /\ Grants!Decide(m, mode) = "allow" /\ Grants!Class(m) = "critical" => mode = "shadow"
           /\ Grants!Class(m) = "critical" => Grants!Decide(m, mode) \in {"allow", "ask"}
  BY DEF Grants!Decide

LEMMA GrantsStep == GrantsInv /\ Grants!Next => GrantsInv'
  <1> SUFFICES ASSUME GrantsInv, Grants!Next PROVE GrantsInv'
    OBVIOUS
  <1>0. GrantTypes /\ (\A c \in Calls : Gated(gate[c], grants)) /\ \A g \in GrantIds : Metered(g)
    BY DEF GrantsInv, Grants!TypeOK, GrantTypes
  <1>1. ASSUME NEW c \in Calls, NEW call \in Grants!Call, Grants!Resolve(c, call) PROVE GrantsInv'
    <2> DEFINE e == [at |-> "resolved", call |-> call, mode |-> IF override = None THEN "shadow" ELSE override]
    <2>1. gate' = [gate EXCEPT ![c] = e] /\ UNCHANGED <<override, grants, used>>
      BY <1>1 DEF Grants!Resolve
    <2>2. Gated(e, grants')
      BY DEF Gated
    <2> HIDE DEF e
    <2> QED BY <1>0, <2>1, <2>2, GrantsRest, GateMoves DEF GrantTypes
  <1>2. ASSUME NEW c \in Calls, Grants!Enforce(c) PROVE GrantsInv'
    <2> DEFINE d == Grants!Decide(gate[c].call.method, gate[c].mode)
               f == Grants!Decided(c, d, {})
               h == [at |-> "granting", call |-> gate[c].call, mode |-> gate[c].mode, rows |-> Grants!Selected(c)]
    <2>1. UNCHANGED <<override, grants, used>> /\ (gate' = [gate EXCEPT ![c] = f] \/ gate' = [gate EXCEPT ![c] = h])
      BY <1>2 DEF Grants!Enforce
    <2>2. Gated(h, grants')
      BY <2>1 DEF Gated, CoveredBy, Grants!Selected, Grants!Active
    <2>3. Gated(f, grants')
      BY Decisions DEF Gated, Grants!Decided
    <2> HIDE DEF f, h
    <2> QED BY <1>0, <2>1, <2>2, <2>3, GrantsRest, GateMoves DEF GrantTypes
  <1>3. ASSUME NEW c \in Calls, Grants!TryGrant(c) PROVE GrantsInv'
    <2>1. CASE gate[c].rows = {}
      <3> DEFINE e == Grants!Decided(c, "ask", {})
      <3>1. gate' = [gate EXCEPT ![c] = e] /\ UNCHANGED <<override, grants, used>>
        BY <1>3, <2>1 DEF Grants!TryGrant
      <3>2. Gated(e, grants')
        BY DEF Gated, Grants!Decided
      <3> HIDE DEF e
      <3> QED BY <1>0, <3>1, <3>2, GrantsRest, GateMoves DEF GrantTypes
    <2>2. ASSUME NEW g \in gate[c].rows, grants[g].shape.max > 0, ~Grants!Takes(g),
                 gate' = [gate EXCEPT ![c].rows = @ \ {g}], UNCHANGED <<override, grants, used>>
          PROVE  GrantsInv'
      <3> DEFINE e == [gate[c] EXCEPT !.rows = @ \ {g}]
      <3>1. gate' = [gate EXCEPT ![c] = e]
        BY <2>2
      <3>2. Gated(e, grants')
        BY <1>0, <1>3, <2>2 DEF Gated, CoveredBy, Grants!TryGrant
      <3> HIDE DEF e
      <3> QED BY <1>0, <2>2, <3>1, <3>2, GrantsRest, GateMoves DEF GrantTypes
    <2>3. ASSUME NEW g \in gate[c].rows, gate' = [gate EXCEPT ![c] = Grants!Decided(c, "grant", {g})], UNCHANGED override,
                 IF grants[g].shape.max > 0
                 THEN Grants!Takes(g) /\ grants' = Grants!Spend(g) /\ used' = [used EXCEPT ![g] = @ + 1]
                 ELSE UNCHANGED <<grants, used>>
          PROVE  GrantsInv'
      <3> DEFINE e == Grants!Decided(c, "grant", {g})
      <3>1. CoveredBy(g, gate[c], grants) /\ g \in GrantIds /\ grants[g] \in Grants!Grant /\ grants[g] # None
        BY <1>0, <1>3 DEF Gated, CoveredBy, Grants!TryGrant, GrantTypes
      <3>2. CoveredBy(g, e, grants)
        BY <3>1 DEF CoveredBy, Grants!Decided
      <3>3. ShapesStay => Gated(e, grants')
        BY <3>1, <3>2 DEF Gated, CoveredBy, ShapesStay, Grants!Decided
      <3> HIDE DEF e
      <3>4. CASE grants[g].shape.max > 0
        <4> DEFINE x == [grants[g] EXCEPT !.left = @ - 1, !.status = IF grants[g].left <= 1 THEN "exhausted" ELSE @]
        <4>1. grants[g].left \in Nat /\ grants[g].left > 0 /\ used[g] \in Nat /\ grants[g].shape.max \in Nat
          BY <1>0, <2>3, <3>1, <3>4, GrantsAssumption DEF GrantTypes, Grants!Grant, Grants!Takes
        <4>a. grants[g].left - 1 \in Nat
          BY <4>1
        <4>2. x \in Grants!Grant /\ x.shape = grants[g].shape /\ x.left = grants[g].left - 1
          BY <3>1, <4>a DEF Grants!Grant
        <4>3. grants' = [grants EXCEPT ![g] = x] /\ used' = [used EXCEPT ![g] = used[g] + 1]
          BY <2>3, <3>4 DEF Grants!Spend
        <4>4. used[g] + 1 \in Nat /\ (used[g] + 1) + x.left = x.shape.max
          BY <1>0, <3>1, <3>4, <4>1, <4>2 DEF Metered
        <4> HIDE DEF x
        <4>5. ShapesStay /\ GrantTypes' /\ \A h \in GrantIds : Metered(h)'
          BY <2>3, <3>1, <4>2, <4>3, <4>4, GrantChanges
        <4> QED BY <2>3, <3>3, <4>5, GateMoves DEF e
      <3>5. CASE ~(grants[g].shape.max > 0)
        <4>1. UNCHANGED <<override, grants, used>>
          BY <2>3, <3>5
        <4> QED BY <1>0, <2>3, <3>3, <4>1, GrantsRest, GateMoves DEF GrantTypes, e
      <3> QED BY <3>4, <3>5
    <2> QED BY <1>3, <2>1, <2>2, <2>3 DEF Grants!TryGrant
  <1>4. ASSUME NEW m \in Grants!Modes \cup {None}, Grants!SetMode(m) PROVE GrantsInv'
    BY <1>0, <1>4, GrantsRest, GateMoves DEF GrantTypes, Grants!SetMode
  <1>5. ASSUME NEW g \in GrantIds, NEW s \in Shapes, Grants!IssueGrant(g, s) PROVE GrantsInv'
    <2> DEFINE x == [shape |-> s, status |-> "active", left |-> s.max]
    <2>1. x \in Grants!Grant /\ x.shape = s /\ x.left = s.max /\ s.max \in Nat
      BY GrantsAssumption DEF Grants!Grant
    <2>2. grants[g] = None /\ used[g] = 0 /\ used[g] \in Nat /\ used = [used EXCEPT ![g] = used[g]]
      BY <1>0, <1>5 DEF Grants!IssueGrant, Metered, GrantTypes
    <2>3. grants' = [grants EXCEPT ![g] = x] /\ used' = [used EXCEPT ![g] = used[g]] /\ UNCHANGED <<override, gate>>
      BY <1>5, <2>2 DEF Grants!IssueGrant
    <2> HIDE DEF x
    <2>a. used[g] + x.left = x.shape.max
      BY <2>1, <2>2
    <2>4. ShapesStay /\ GrantTypes' /\ \A h \in GrantIds : Metered(h)'
      BY <2>1, <2>2, <2>3, <2>a, GrantChanges
    <2> QED BY <2>3, <2>4, GateMoves
  <1>6. ASSUME NEW g \in GrantIds, Grants!EndGrant(g) PROVE GrantsInv'
    <2> DEFINE x == [grants[g] EXCEPT !.status = "ended"]
    <2>1. grants[g] \in Grants!Grant /\ grants[g] # None /\ used[g] \in Nat
      BY <1>0, <1>6 DEF Grants!EndGrant, Grants!Active, GrantTypes
    <2>2. x \in Grants!Grant /\ x.shape = grants[g].shape /\ x.left = grants[g].left
      BY <2>1 DEF Grants!Grant
    <2>3. grants' = [grants EXCEPT ![g] = x] /\ used' = [used EXCEPT ![g] = used[g]] /\ UNCHANGED <<override, gate>>
      BY <1>0, <1>6 DEF Grants!EndGrant, GrantTypes
    <2> HIDE DEF x
    <2>4. ShapesStay /\ GrantTypes' /\ \A h \in GrantIds : Metered(h)'
      BY <1>0, <2>1, <2>2, <2>3, GrantChanges DEF Metered
    <2> QED BY <2>3, <2>4, GateMoves
  <1> QED BY <1>1, <1>2, <1>3, <1>4, <1>5, <1>6 DEF Grants!Next

-----------------------------------------------------------------------------
(* Identities and keys.                                                    *)

RequestOf(a, c) == requests[c] # None /\ requests[c].agent = a

\* An agent none of whose enrolments or rotations was cut off or overlapped: one request at a
\* time, and what each of its steps finds.
Whole(a) ==
    /\ \A c, d \in Calls : RequestOf(a, c) /\ RequestOf(a, d) => c = d
    /\ ~Identity!Busy(a) => Identity!Active(a) = IF identities[a] = None THEN {} ELSE {identities[a].key}
    /\ \A c \in Calls : RequestOf(a, c) =>
          /\ requests[c].step = "identity" => identities[a] = None /\ Identity!Active(a) = {}
          /\ requests[c].step = "key" =>
                identities[a] # None /\ identities[a].key = requests[c].key /\ Identity!Active(a) = {}
          /\ requests[c].step = "rotated" => Identity!Active(a) = {}
          /\ requests[c].step = "point" => Identity!Active(a) = {requests[c].key}

AreTrusted(a) == \A k \in Identity!Active(a) : Identity!Trusted(a, k)
Rotating == {"supersede", "rotated", "point"}

\* Whatever was cut off or overlapped: the row of an agent comes before its keys, what a client
\* offers comes from the trust anchor, and a rotation is for an agent with a key.
Founded ==
    /\ \A k \in Keys : keys[k] # None => identities[keys[k].agent] # None
    /\ \A c \in Calls : requests[c] # None =>
          LET r == requests[c] IN
          /\ r.origin = "client" \/ r.step \in Rotating => Identity!Trusted(r.agent, r.key)
          /\ r.step = "key" \/ r.step \in Rotating => identities[r.agent] # None
          /\ r.step = "key" => /\ identities[r.agent].origin = r.origin
                               /\ \A k \in Keys : keys[k] # None => keys[k].agent # r.agent
          /\ r.step \in {"rotated", "point"} => AreTrusted(r.agent)
    /\ \A c, d \in Calls : requests[c] # None /\ requests[d] # None /\ requests[c].agent = requests[d].agent
                           /\ requests[c].step = "key" /\ (requests[d].step = "key" \/ requests[d].step \in Rotating)
                           => c = d
    /\ \A a \in Agents : identities[a] # None /\ identities[a].origin = "client" => AreTrusted(a)

IdentityInv ==
    /\ Identity!TypeOK
    /\ \A a \in Agents \ broken : Whole(a)
    /\ Founded

LEMMA IdentityInit == Identity!Init => IdentityInv
  <1> SUFFICES ASSUME Identity!Init PROVE IdentityInv
    OBVIOUS
  <1>1. \A a \in Agents : Identity!Active(a) = {}
    BY IdentityAssumption DEF Identity!Init, Identity!Active, Identity!Key
  <1> QED BY <1>1 DEF Identity!Init, IdentityInv, Identity!TypeOK, Whole, Founded, RequestOf, Identity!Busy

LEMMA SigningKey ==
    ASSUME NEW ks \in [Keys -> Identity!Key \cup {None}], NEW k \in Keys, NEW a \in Agents
    PROVE  ks[k] = [agent |-> a, status |-> "active"] <=> ks[k] # None /\ ks[k].agent = a /\ ks[k].status = "active"
  BY IdentityAssumption DEF Identity!Key

\* An agent's keys and requests are not touched by what happens to another agent.
LEMMA WholeStays ==
    ASSUME NEW a \in Agents, Whole(a), identities'[a] = identities[a],
           \A c \in Calls : requests'[c] = requests[c] \/ (~RequestOf(a, c) /\ ~RequestOf(a, c)'),
           Identity!Active(a)' = Identity!Active(a)
    PROVE  Whole(a)'
  <1>1. \A c \in Calls : (RequestOf(a, c)' <=> RequestOf(a, c)) /\ (RequestOf(a, c) => requests'[c] = requests[c])
    BY DEF RequestOf
  <1>2. Identity!Busy(a)' <=> Identity!Busy(a)
    BY <1>1 DEF Identity!Busy, RequestOf
  <1> QED BY <1>1, <1>2 DEF Whole

\* A request is under way.
LEMMA RequestEnters ==
    ASSUME IdentityInv, NEW c \in Calls, NEW a \in Agents, NEW k \in Keys, NEW s, NEW o,
           <<s, o>> \in {<<"identity", "daemon">>, <<"identity", "client">>, <<"supersede", "client">>},
           o = "client" => Identity!Trusted(a, k),
           IF s = "identity" THEN identities[a] = None ELSE Identity!Active(a) # {},
           Identity!Enter(c, s, a, k, o), UNCHANGED <<identities, keys>>, daemonKeys' \subseteq Keys
    PROVE  IdentityInv'
  <1> DEFINE r == [step |-> s, agent |-> a, key |-> k, origin |-> o]
  <1>1. /\ r \in Identity!Request /\ r # None /\ r.step = s /\ r.agent = a /\ r.key = k /\ r.origin = o
        /\ s \in {"identity", "supersede"}
    BY IdentityAssumption DEF Identity!Request
  <1>2. requests[c] = None /\ requests' = [requests EXCEPT ![c] = r] /\ broken' = IF Identity!Busy(a) THEN broken \cup {a} ELSE broken
    BY DEF Identity!Enter
  <1> HIDE DEF r
  <1>3. /\ identities \in [Agents -> Identity!Row \cup {None}] /\ keys \in [Keys -> Identity!Key \cup {None}]
        /\ requests \in [Calls -> Identity!Request \cup {None}] /\ broken \subseteq Agents
    BY DEF IdentityInv, Identity!TypeOK
  <1>4. Identity!TypeOK'
    BY <1>1, <1>2, <1>3 DEF Identity!TypeOK
  <1>5. \A b : Identity!Active(b)' = Identity!Active(b)
    BY DEF Identity!Active
  <1>6. ASSUME NEW b \in Agents \ broken' PROVE Whole(b)'
    <2>1. b \notin broken /\ Whole(b)
      BY <1>2 DEF IdentityInv
    <2>2. CASE b # a
      BY <1>1, <1>2, <1>3, <1>5, <2>1, <2>2, WholeStays DEF RequestOf
    <2>3. CASE b = a
      <3>1. ~Identity!Busy(a)
        BY <1>2, <2>3
      <3>2. \A d \in Calls : RequestOf(a, d)' => d = c
        BY <1>2, <1>3, <3>1 DEF RequestOf, Identity!Busy
      <3>3. Identity!Busy(a)'
        BY <1>1, <1>2, <1>3 DEF Identity!Busy
      <3>4. s = "identity" => identities'[a] = None /\ Identity!Active(a)' = {}
        BY <1>5, <2>1, <2>3, <3>1 DEF Whole
      <3>5. requests'[c] = r
        BY <1>2, <1>3
      <3> QED BY <1>1, <2>3, <3>2, <3>3, <3>4, <3>5 DEF Whole, RequestOf
    <2> QED BY <2>2, <2>3
  <1>7. Founded'
    <2>1. s = "supersede" => identities[a] # None /\ \E i \in Keys : keys[i] # None /\ keys[i].agent = a
      <3>1. s = "supersede" => \E i \in Keys : keys[i] # None /\ keys[i].agent = a
        BY <1>3, SigningKey DEF Identity!Active
      <3> QED BY <3>1 DEF IdentityInv, Founded
    <2>2. \A d \in Calls : requests'[d] = IF d = c THEN r ELSE requests[d]
      BY <1>2, <1>3
    <2>3. \A b : AreTrusted(b)' <=> AreTrusted(b)
      BY <1>5 DEF AreTrusted
    <2> QED BY <1>1, <1>2, <2>1, <2>2, <2>3 DEF IdentityInv, Founded, Rotating
  <1> QED BY <1>4, <1>6, <1>7 DEF IdentityInv

IdentityTypes ==
    /\ identities \in [Agents -> Identity!Row \cup {None}] /\ keys \in [Keys -> Identity!Key \cup {None}]
    /\ requests \in [Calls -> Identity!Request \cup {None}] /\ broken \subseteq Agents /\ daemonKeys \subseteq Keys

\* A request is cut off, or its insert fails.
LEMMA RequestFails ==
    ASSUME IdentityInv, NEW c \in Calls, requests[c] # None, Identity!Fail(c), UNCHANGED <<identities, keys, daemonKeys>>
    PROVE  IdentityInv'
  <1> DEFINE a == requests[c].agent
  <1>1. requests' = [requests EXCEPT ![c] = None] /\ broken' = broken \cup {a}
    BY DEF Identity!Fail, Identity!Leave
  <1>2. IdentityTypes /\ a \in Agents
    BY DEF IdentityInv, Identity!TypeOK, IdentityTypes, Identity!Request
  <1>3. \A b : Identity!Active(b)' = Identity!Active(b)
    BY DEF Identity!Active
  <1>4. Identity!TypeOK'
    BY <1>1, <1>2 DEF Identity!TypeOK, IdentityTypes
  <1>5. \A d \in Calls : requests'[d] = IF d = c THEN None ELSE requests[d]
    BY <1>1, <1>2 DEF IdentityTypes
  <1>6. ASSUME NEW b \in Agents \ broken' PROVE Whole(b)'
    BY <1>1, <1>3, <1>5, WholeStays DEF RequestOf, IdentityInv
  <1>7. Founded'
    <2>1. \A b : AreTrusted(b)' <=> AreTrusted(b)
      BY <1>3 DEF AreTrusted
    <2> QED BY <1>5, <2>1 DEF IdentityInv, Founded
  <1> QED BY <1>4, <1>6, <1>7 DEF IdentityInv

LEMMA IdentityInserted ==
    ASSUME IdentityInv, NEW c \in Calls, Identity!InsertIdentity(c)
    PROVE  IdentityInv'
  <1> DEFINE r == requests[c]
             a == requests[c].agent
             q == [requests[c] EXCEPT !.step = "key"]
             i == [key |-> r.key, origin |-> r.origin]
  <1>1. r # None /\ r.step = "identity" /\ UNCHANGED <<keys, daemonKeys>>
    BY DEF Identity!InsertIdentity
  <1>2. IdentityTypes /\ r \in Identity!Request /\ a \in Agents
    BY <1>1 DEF IdentityInv, Identity!TypeOK, IdentityTypes, Identity!Request
  <1>3. CASE identities[a] # None
    <2>1. Identity!Fail(c) /\ UNCHANGED identities
      BY <1>3 DEF Identity!InsertIdentity
    <2> QED BY <1>1, <2>1, RequestFails
  <1>4. CASE identities[a] = None
    <2>1. identities' = [identities EXCEPT ![a] = i] /\ requests' = [requests EXCEPT ![c] = q] /\ UNCHANGED broken
      BY <1>4 DEF Identity!InsertIdentity, Identity!GoTo
    <2>2. /\ q \in Identity!Request /\ q.step = "key" /\ q.agent = a /\ q.key = r.key /\ q.origin = r.origin
          /\ i \in Identity!Row /\ i # None /\ i.key = r.key /\ i.origin = r.origin
      BY <1>2, IdentityAssumption DEF Identity!Request, Identity!Row
    <2>a. q # None
      BY <2>2, IdentityAssumption
    <2> HIDE DEF q, i
    <2>3. Identity!TypeOK'
      BY <1>1, <1>2, <2>1, <2>2 DEF Identity!TypeOK, IdentityTypes
    <2>4. \A b : Identity!Active(b)' = Identity!Active(b)
      BY <1>1 DEF Identity!Active
    <2>5. \A d \in Calls : requests'[d] = IF d = c THEN q ELSE requests[d]
      BY <1>2, <2>1 DEF IdentityTypes
    <2>6. \A b \in Agents : identities'[b] = IF b = a THEN i ELSE identities[b]
      BY <1>2, <2>1 DEF IdentityTypes
    <2>7. ASSUME NEW b \in Agents \ broken' PROVE Whole(b)'
      <3>1. Whole(b)
        BY <2>1, <2>7 DEF IdentityInv
      <3>2. CASE b # a
        BY <2>2, <2>4, <2>5, <2>6, <3>1, <3>2, WholeStays DEF RequestOf
      <3>3. CASE b = a
        <4>1. \A d \in Calls : RequestOf(a, d)' <=> d = c
          BY <1>1, <2>2, <2>a, <2>5, <3>1, <3>3 DEF Whole, RequestOf
        <4>2. Identity!Busy(a)'
          BY <2>2, <2>a, <2>5 DEF Identity!Busy
        <4>3. Identity!Active(a) = {}
          BY <1>1, <3>1, <3>3 DEF Whole, RequestOf
        <4> QED BY <2>2, <2>4, <2>5, <2>6, <3>3, <4>1, <4>2, <4>3 DEF Whole
      <3> QED BY <3>2, <3>3
    <2>8. Founded'
      <3>1. \A b : AreTrusted(b)' <=> AreTrusted(b)
        BY <2>4 DEF AreTrusted
      <3>2. \A k \in Keys : keys[k] # None => keys[k].agent # a /\ keys[k].agent \in Agents
        BY <1>2, <1>4 DEF IdentityInv, Founded, IdentityTypes, Identity!Key
      <3>3. AreTrusted(a)
        BY <1>2, <3>2, SigningKey DEF AreTrusted, Identity!Active, IdentityTypes
      <3>4. \A d \in Calls : requests[d] # None =>
              /\ requests[d].agent = a => requests[d].step # "key" /\ requests[d].step \notin Rotating
              /\ requests[d].agent \in Agents
        BY <1>2, <1>4 DEF IdentityInv, Founded, IdentityTypes, Identity!Request
      <3>5. r.origin = "client" => Identity!Trusted(a, r.key)
        BY <1>1 DEF IdentityInv, Founded
      <3>6. \A k \in Keys : keys[k] # None => identities'[keys[k].agent] # None
        BY <2>2, <2>6, <3>2 DEF IdentityInv, Founded
      <3>7. \A b \in Agents : identities'[b] # None /\ identities'[b].origin = "client" => AreTrusted(b)
        BY <2>6, <3>3 DEF IdentityInv, Founded
      <3>8. ASSUME NEW d \in Calls, requests'[d] # None
            PROVE  LET s == requests'[d] IN
                   /\ s.origin = "client" \/ s.step \in Rotating => Identity!Trusted(s.agent, s.key)
                   /\ s.step = "key" \/ s.step \in Rotating => identities'[s.agent] # None
                   /\ s.step = "key" => /\ identities'[s.agent].origin = s.origin
                                        /\ \A k \in Keys : keys[k] # None => keys[k].agent # s.agent
                   /\ s.step \in {"rotated", "point"} => AreTrusted(s.agent)
        <4>1. CASE d = c
          BY <2>2, <2>5, <2>6, <3>2, <3>5, <1>2, <4>1 DEF Rotating
        <4>2. CASE d # c
          BY <2>5, <2>6, <3>4, <3>8, <4>2 DEF IdentityInv, Founded, Rotating
        <4> QED BY <4>1, <4>2
      <3>9. \A d, e \in Calls : requests'[d] # None /\ requests'[e] # None /\ requests'[d].agent = requests'[e].agent
                           /\ requests'[d].step = "key" /\ (requests'[e].step = "key" \/ requests'[e].step \in Rotating)
                           => d = e
        BY <2>2, <2>5, <3>4 DEF IdentityInv, Founded
      <3> QED BY <1>1, <3>1, <3>6, <3>7, <3>8, <3>9 DEF Founded
    <2> QED BY <2>3, <2>7, <2>8 DEF IdentityInv
  <1> QED BY <1>3, <1>4

LEMMA ActiveKeys ==
    ASSUME keys \in [Keys -> Identity!Key \cup {None}], keys' \in [Keys -> Identity!Key \cup {None}], NEW a \in Agents
    PROVE  /\ Identity!Active(a) \subseteq Keys /\ Identity!Active(a)' \subseteq Keys
           /\ \A k \in Keys : k \in Identity!Active(a) <=> keys[k] # None /\ keys[k].agent = a /\ keys[k].status = "active"
           /\ \A k \in Keys : k \in Identity!Active(a)' <=> keys'[k] # None /\ keys'[k].agent = a /\ keys'[k].status = "active"
  <1> DEFINE Signs(e) == e # None /\ e.agent = a /\ e.status = "active"
  <1>0. \A e \in Identity!Key \cup {None} : e = [agent |-> a, status |-> "active"] <=> Signs(e)
    BY IdentityAssumption DEF Identity!Key
  <1>1. \A k \in Keys : keys[k] = [agent |-> a, status |-> "active"] <=> Signs(keys[k])
    BY <1>0
  <1>2. \A k \in Keys : keys'[k] = [agent |-> a, status |-> "active"] <=> Signs(keys'[k])
    BY <1>0
  <1> QED BY <1>1, <1>2 DEF Identity!Active

\* A key that is new to the table signs for its agent, and nothing else changes.
LEMMA KeyArrives ==
    ASSUME keys \in [Keys -> Identity!Key \cup {None}], NEW n \in Keys, keys[n] = None, NEW a \in Agents,
           keys' = [keys EXCEPT ![n] = [agent |-> a, status |-> "active"]]
    PROVE  /\ keys' \in [Keys -> Identity!Key \cup {None}] /\ keys'[n] # None /\ keys'[n].agent = a
           /\ \A k \in Keys \ {n} : keys'[k] = keys[k]
           /\ \A b \in Agents : Identity!Active(b)' = IF b = a THEN Identity!Active(b) \cup {n} ELSE Identity!Active(b)
  <1> DEFINE e == [agent |-> a, status |-> "active"]
  <1>1. e \in Identity!Key /\ e.agent = a /\ e.status = "active" /\ e # None
    BY IdentityAssumption DEF Identity!Key
  <1>2. keys' = [keys EXCEPT ![n] = e]
    OBVIOUS
  <1> HIDE DEF e
  <1>3. /\ keys' \in [Keys -> Identity!Key \cup {None}] /\ keys'[n] = e
        /\ \A k \in Keys \ {n} : keys'[k] = keys[k]
    BY <1>1, <1>2
  <1>4. ASSUME NEW b \in Agents
        PROVE  Identity!Active(b)' = IF b = a THEN Identity!Active(b) \cup {n} ELSE Identity!Active(b)
    <2>1. \A k \in Keys : k \in Identity!Active(b)' <=> k \in Identity!Active(b) \/ (k = n /\ b = a)
      BY <1>1, <1>3, ActiveKeys
    <2>2. Identity!Active(b) \subseteq Keys /\ Identity!Active(b)' \subseteq Keys
      BY <1>3, ActiveKeys
    <2>3. CASE b = a
      BY <2>1, <2>2, <2>3
    <2>4. CASE b # a
      BY <2>1, <2>2, <2>4
    <2> QED BY <2>3, <2>4
  <1> QED BY <1>1, <1>3, <1>4

LEMMA KeyInserted ==
    ASSUME IdentityInv, NEW c \in Calls, Identity!InsertKey(c)
    PROVE  IdentityInv'
  <1> SUFFICES ASSUME NEW r, r = requests[c], NEW a, a = r.agent PROVE IdentityInv'
    OBVIOUS
  <1> DEFINE e == [agent |-> a, status |-> "active"]
             q == IF r.step = "key" THEN None ELSE [r EXCEPT !.step = "point"]
  <1>1. r # None /\ r.step \in {"key", "rotated"} /\ UNCHANGED <<identities, daemonKeys>>
    BY DEF Identity!InsertKey
  <1>2. IdentityTypes /\ r \in Identity!Request /\ a \in Agents /\ r.key \in Keys
    BY <1>1 DEF IdentityInv, Identity!TypeOK, IdentityTypes, Identity!Request
  <1>3. CASE keys[r.key] # None
    <2>1. Identity!Fail(c) /\ UNCHANGED keys
      BY <1>3 DEF Identity!InsertKey
    <2> QED BY <1>1, <2>1, RequestFails
  <1>4. CASE keys[r.key] = None
    <2>1. keys' = [keys EXCEPT ![r.key] = e] /\ requests' = [requests EXCEPT ![c] = q] /\ UNCHANGED broken
      BY <1>1, <1>4 DEF Identity!InsertKey, Identity!GoTo, Identity!Leave
    <2>2. /\ r.step = "key" => q = None
          /\ r.step = "rotated" => q \in Identity!Request /\ q # None /\ q.step = "point" /\ q.agent = a /\ q.key = r.key /\ q.origin = r.origin
          /\ e \in Identity!Key /\ e # None /\ e.agent = a /\ e.status = "active"
      BY <1>2, IdentityAssumption DEF Identity!Request, Identity!Key
    <2>a. /\ keys' \in [Keys -> Identity!Key \cup {None}] /\ keys'[r.key] # None /\ keys'[r.key].agent = a
          /\ \A k \in Keys \ {r.key} : keys'[k] = keys[k]
          /\ \A b \in Agents : Identity!Active(b)' = IF b = a THEN Identity!Active(b) \cup {r.key} ELSE Identity!Active(b)
      BY <1>2, <1>4, <2>1, KeyArrives DEF IdentityTypes
    <2> HIDE DEF q, e
    <2>3. Identity!TypeOK'
      BY <1>1, <1>2, <2>1, <2>2, <2>a DEF Identity!TypeOK, IdentityTypes
    <2>4. requests'[c] = q /\ \A d \in Calls \ {c} : requests'[d] = requests[d]
      BY <1>2, <2>1 DEF IdentityTypes
    <2>5. \A d \in Calls : requests'[d] = IF d = c THEN q ELSE requests[d]
      BY <2>4
    <2>7. \A b \in Agents \ {a} : Identity!Active(b)' = Identity!Active(b)
      BY <2>a
    <2>8. Identity!Active(a)' = Identity!Active(a) \cup {r.key}
      BY <1>2, <2>a
    <2>9. ASSUME NEW b \in Agents \ broken' PROVE Whole(b)'
      <3>1. Whole(b)
        BY <2>1, <2>9 DEF IdentityInv
      <3>2. CASE b # a
        BY <1>1, <2>2, <2>5, <2>7, <3>1, <3>2, WholeStays DEF RequestOf
      <3>3. CASE b = a
        <4>1. \A d \in Calls : RequestOf(a, d) <=> d = c
          BY <1>1, <3>1, <3>3 DEF Whole, RequestOf
        <4>2. Identity!Active(a)' = {r.key}
          BY <1>1, <2>8, <3>1, <3>3, <4>1 DEF Whole, RequestOf
        <4>3. CASE r.step = "key"
          <5>1. \A d \in Calls : ~RequestOf(a, d)'
            BY <2>2, <2>5, <4>1, <4>3 DEF RequestOf
          <5>2. identities'[a] # None /\ identities'[a].key = r.key
            BY <1>1, <3>1, <3>3, <4>1, <4>3 DEF Whole
          <5> QED BY <3>3, <4>2, <5>1, <5>2 DEF Whole, RequestOf, Identity!Busy
        <4>4. CASE r.step = "rotated"
          <5>1. \A d \in Calls : RequestOf(a, d)' <=> d = c
            BY <2>2, <2>5, <4>1, <4>4 DEF RequestOf
          <5>2. Identity!Busy(a)' /\ requests'[c] = q
            BY <2>2, <2>5, <4>4 DEF Identity!Busy
          <5> QED BY <2>2, <3>3, <4>2, <4>4, <5>1, <5>2 DEF Whole, RequestOf
        <4> QED BY <1>1, <4>3, <4>4
      <3> QED BY <3>2, <3>3
    <2>10. Founded'
      <3>0. /\ identities[a] # None
            /\ r.origin = "client" \/ r.step = "rotated" => Identity!Trusted(a, r.key)
            /\ r.step = "rotated" => AreTrusted(a)
            /\ r.step = "key" => identities[a].origin = r.origin /\ \A k \in Keys : keys[k] # None => keys[k].agent # a
        BY <1>1 DEF IdentityInv, Founded, Rotating
      <3>1. \A b \in Agents \ {a} : AreTrusted(b)' <=> AreTrusted(b)
        BY <2>7 DEF AreTrusted
      <3>2. Identity!Trusted(a, r.key) => AreTrusted(a)'
        <4>1. r.step = "key" => Identity!Active(a) = {}
          BY <1>2, <3>0, SigningKey DEF Identity!Active, IdentityTypes
        <4> QED BY <1>1, <2>8, <3>0, <4>1 DEF AreTrusted, Identity!Trusted
      <3>3. ASSUME NEW d \in Calls, d # c, requests[d] # None, requests[d].agent = a
            PROVE  requests[d].step # "key" /\ (r.step = "key" => requests[d].step \notin Rotating)
        BY <1>1, <3>3 DEF IdentityInv, Founded, Rotating
      <3>4. \A k \in Keys : keys'[k] # None => identities'[keys'[k].agent] # None
        BY <1>1, <1>2, <2>a, <3>0 DEF IdentityInv, Founded
      <3>5. ASSUME NEW d \in Calls, requests'[d] # None
            PROVE  LET s == requests'[d] IN
                   /\ s.origin = "client" \/ s.step \in Rotating => Identity!Trusted(s.agent, s.key)
                   /\ s.step = "key" \/ s.step \in Rotating => identities'[s.agent] # None
                   /\ s.step = "key" => /\ identities'[s.agent].origin = s.origin
                                        /\ \A k \in Keys : keys'[k] # None => keys'[k].agent # s.agent
                   /\ s.step \in {"rotated", "point"} => \A b : b = s.agent => AreTrusted(b)'
        <4>1. CASE d = c
          BY <1>1, <2>2, <2>5, <3>0, <3>2, <3>5, <4>1
        <4>2. CASE d # c
          <5>0. requests'[d] = requests[d] /\ requests[d] # None /\ requests[d].agent \in Agents
            BY <1>2, <2>5, <3>5, <4>2 DEF IdentityTypes, Identity!Request
          <5>1. CASE requests[d].agent # a
            BY <1>1, <1>2, <2>a, <3>1, <5>0, <5>1 DEF IdentityInv, Founded
          <5>2. CASE requests[d].agent = a
            <6>1. requests[d].step # "key" /\ (requests[d].step \in {"rotated", "point"} => AreTrusted(a)')
              BY <1>1, <3>0, <3>2, <3>3, <4>2, <5>0, <5>2 DEF Rotating
            <6> QED BY <1>1, <5>0, <5>2, <6>1 DEF IdentityInv, Founded
          <5> QED BY <5>1, <5>2
        <4> QED BY <4>1, <4>2
      <3>6. \A d, f \in Calls : requests'[d] # None /\ requests'[f] # None /\ requests'[d].agent = requests'[f].agent
                           /\ requests'[d].step = "key" /\ (requests'[f].step = "key" \/ requests'[f].step \in Rotating)
                           => d = f
        BY <1>1, <2>2, <2>5, <3>3 DEF IdentityInv, Founded
      <3>7. ASSUME NEW b \in Agents, identities[b] # None, identities[b].origin = "client" PROVE AreTrusted(b)'
        <4>1. AreTrusted(b)
          BY <3>7 DEF IdentityInv, Founded
        <4>2. b = a /\ r.step = "key" => r.origin = "client"
          BY <3>0, <3>7
        <4> QED BY <1>1, <3>0, <3>1, <3>2, <4>1, <4>2
      <3> QED BY <1>1, <3>4, <3>5, <3>6, <3>7 DEF Founded
    <2> QED BY <2>3, <2>9, <2>10 DEF IdentityInv
  <1> QED BY <1>3, <1>4

LEMMA KeysSuperseded ==
    ASSUME IdentityInv, NEW c \in Calls, Identity!Supersede(c)
    PROVE  IdentityInv'
  <1> SUFFICES ASSUME NEW r, r = requests[c], NEW a, a = r.agent PROVE IdentityInv'
    OBVIOUS
  <1> DEFINE q == [r EXCEPT !.step = "rotated"]
  <1>1. r # None /\ r.step = "supersede" /\ UNCHANGED <<identities, daemonKeys, broken>> /\ requests' = [requests EXCEPT ![c] = q]
    BY DEF Identity!Supersede, Identity!GoTo
  <1>2. IdentityTypes /\ r \in Identity!Request /\ a \in Agents
    BY <1>1 DEF IdentityInv, Identity!TypeOK, IdentityTypes, Identity!Request
  <1>3. q \in Identity!Request /\ q # None /\ q.step = "rotated" /\ q.agent = a /\ q.key = r.key /\ q.origin = r.origin
    BY <1>2, IdentityAssumption DEF Identity!Request
  <1> HIDE DEF q
  <1>4. \A k \in Keys : keys'[k] = IF keys[k] # None /\ keys[k].agent = a THEN [keys[k] EXCEPT !.status = "superseded"] ELSE keys[k]
    BY DEF Identity!Supersede, Identity!Superseded
  <1>5. \A e \in Identity!Key : /\ [e EXCEPT !.status = "superseded"] \in Identity!Key
                                /\ [e EXCEPT !.status = "superseded"] # None
                                /\ [e EXCEPT !.status = "superseded"].agent = e.agent
                                /\ [e EXCEPT !.status = "superseded"].status = "superseded"
    BY IdentityAssumption DEF Identity!Key
  <1>6. \A k \in Keys : /\ keys'[k] \in Identity!Key \cup {None} /\ (keys'[k] # None <=> keys[k] # None)
                        /\ keys[k] # None => /\ keys'[k].agent = keys[k].agent
                                             /\ IF keys[k].agent = a THEN keys'[k].status = "superseded" ELSE keys'[k] = keys[k]
    <2>1. ASSUME NEW k \in Keys, keys[k] # None
          PROVE  /\ keys'[k] \in Identity!Key \cup {None} /\ keys'[k] # None /\ keys'[k].agent = keys[k].agent
                 /\ IF keys[k].agent = a THEN keys'[k].status = "superseded" ELSE keys'[k] = keys[k]
      <3>1. keys[k] \in Identity!Key
        BY <1>2, <2>1 DEF IdentityTypes
      <3> QED BY <1>4, <1>5, <2>1, <3>1
    <2> QED BY <1>4, <2>1
  <1>7. keys' \in [Keys -> Identity!Key \cup {None}]
    BY <1>6 DEF Identity!Supersede
  <1>8. Identity!TypeOK'
    BY <1>1, <1>2, <1>3, <1>7 DEF Identity!TypeOK, IdentityTypes
  <1>9. Identity!Active(a)' = {} /\ \A b \in Agents \ {a} : Identity!Active(b)' = Identity!Active(b)
    <2>1. Identity!Active(a)' = {}
      BY <1>2, <1>6, <1>7, ActiveKeys DEF IdentityTypes
    <2>2. ASSUME NEW b \in Agents \ {a} PROVE Identity!Active(b)' = Identity!Active(b)
      <3>1. Identity!Active(b) \subseteq Keys /\ Identity!Active(b)' \subseteq Keys
        BY <1>2, <1>7, ActiveKeys DEF IdentityTypes
      <3>2. \A k \in Keys : k \in Identity!Active(b)' <=> k \in Identity!Active(b)
        BY <1>2, <1>6, <1>7, ActiveKeys DEF IdentityTypes
      <3> QED BY <3>1, <3>2
    <2> QED BY <2>1, <2>2
  <1>10. \A d \in Calls : requests'[d] = IF d = c THEN q ELSE requests[d]
    BY <1>1, <1>2 DEF IdentityTypes
  <1>11. ASSUME NEW b \in Agents \ broken' PROVE Whole(b)'
    <2>1. Whole(b)
      BY <1>1, <1>11 DEF IdentityInv
    <2>2. CASE b # a
      BY <1>1, <1>3, <1>9, <1>10, <2>1, <2>2, WholeStays DEF RequestOf
    <2>3. CASE b = a
      <3>1. \A d \in Calls : RequestOf(a, d)' <=> d = c
        BY <1>1, <1>3, <1>10, <2>1, <2>3 DEF Whole, RequestOf
      <3>2. Identity!Busy(a)' /\ requests'[c] = q
        BY <1>3, <1>10 DEF Identity!Busy
      <3> QED BY <1>3, <1>9, <2>3, <3>1, <3>2 DEF Whole, RequestOf
    <2> QED BY <2>2, <2>3
  <1>12. Founded'
    <2>1. AreTrusted(a)' /\ \A b \in Agents \ {a} : AreTrusted(b)' <=> AreTrusted(b)
      BY <1>9 DEF AreTrusted
    <2>2. \A d \in Calls : requests[d] # None => requests[d].agent \in Agents
      BY <1>2 DEF IdentityTypes, Identity!Request
    <2>3. ASSUME NEW d \in Calls, requests'[d] # None
          PROVE  LET s == requests'[d] IN
                 /\ s.origin = "client" \/ s.step \in Rotating => Identity!Trusted(s.agent, s.key)
                 /\ s.step = "key" \/ s.step \in Rotating => identities'[s.agent] # None
                 /\ s.step = "key" => /\ identities'[s.agent].origin = s.origin
                                      /\ \A k \in Keys : keys'[k] # None => keys'[k].agent # s.agent
                 /\ s.step \in {"rotated", "point"} => \A b : b = s.agent => AreTrusted(b)'
      <3>1. CASE d = c
        BY <1>1, <1>3, <1>10, <2>1, <3>1 DEF IdentityInv, Founded, Rotating
      <3>2. CASE d # c
        BY <1>1, <1>2, <1>6, <1>10, <2>1, <2>2, <2>3, <3>2 DEF IdentityInv, Founded
      <3> QED BY <3>1, <3>2
    <2>4. \A d, f \in Calls : requests'[d] # None /\ requests'[f] # None /\ requests'[d].agent = requests'[f].agent
                         /\ requests'[d].step = "key" /\ (requests'[f].step = "key" \/ requests'[f].step \in Rotating)
                         => d = f
      BY <1>1, <1>3, <1>10 DEF IdentityInv, Founded, Rotating
    <2>5. \A k \in Keys : keys'[k] # None => identities'[keys'[k].agent] # None
      BY <1>1, <1>6 DEF IdentityInv, Founded
    <2>6. \A b \in Agents : identities'[b] # None /\ identities'[b].origin = "client" => AreTrusted(b)'
      BY <1>1, <2>1 DEF IdentityInv, Founded
    <2> QED BY <2>3, <2>4, <2>5, <2>6 DEF Founded
  <1> QED BY <1>8, <1>11, <1>12 DEF IdentityInv

LEMMA IdentityPointed ==
    ASSUME IdentityInv, NEW c \in Calls, Identity!PointIdentity(c)
    PROVE  IdentityInv'
  <1> SUFFICES ASSUME NEW r, r = requests[c], NEW a, a = r.agent PROVE IdentityInv'
    OBVIOUS
  <1> DEFINE i == [key |-> r.key, origin |-> "client"]
  <1>1. /\ r # None /\ r.step = "point" /\ UNCHANGED <<keys, daemonKeys, broken>>
        /\ requests' = [requests EXCEPT ![c] = None] /\ identities' = [identities EXCEPT ![a] = i]
    BY DEF Identity!PointIdentity, Identity!Leave
  <1>2. IdentityTypes /\ r \in Identity!Request /\ a \in Agents
    BY <1>1 DEF IdentityInv, Identity!TypeOK, IdentityTypes, Identity!Request
  <1>3. i \in Identity!Row /\ i # None /\ i.key = r.key /\ i.origin = "client"
    BY <1>2, IdentityAssumption DEF Identity!Request, Identity!Row
  <1> HIDE DEF i
  <1>4. Identity!TypeOK'
    BY <1>1, <1>2, <1>3 DEF Identity!TypeOK, IdentityTypes
  <1>5. \A b : Identity!Active(b)' = Identity!Active(b)
    BY <1>1 DEF Identity!Active
  <1>6. \A d \in Calls : requests'[d] = IF d = c THEN None ELSE requests[d]
    BY <1>1, <1>2 DEF IdentityTypes
  <1>7. \A b \in Agents : identities'[b] = IF b = a THEN i ELSE identities[b]
    BY <1>1, <1>2 DEF IdentityTypes
  <1>8. ASSUME NEW b \in Agents \ broken' PROVE Whole(b)'
    <2>1. Whole(b)
      BY <1>1, <1>8 DEF IdentityInv
    <2>2. CASE b # a
      BY <1>1, <1>5, <1>6, <1>7, <2>1, <2>2, WholeStays DEF RequestOf
    <2>3. CASE b = a
      <3>1. \A d \in Calls : ~RequestOf(a, d)'
        BY <1>1, <1>6, <2>1, <2>3 DEF Whole, RequestOf
      <3>2. ~Identity!Busy(a)'
        BY <3>1 DEF Identity!Busy, RequestOf
      <3>3. Identity!Active(a)' = {r.key}
        BY <1>1, <1>5, <2>1, <2>3 DEF Whole, RequestOf
      <3> QED BY <1>3, <1>7, <2>3, <3>1, <3>2, <3>3 DEF Whole
    <2> QED BY <2>2, <2>3
  <1>9. Founded'
    <2>1. \A b : AreTrusted(b)' <=> AreTrusted(b)
      BY <1>5 DEF AreTrusted
    <2>2. AreTrusted(a) /\ \A d \in Calls : requests[d] # None /\ requests[d].agent = a => requests[d].step # "key"
      BY <1>1 DEF IdentityInv, Founded, Rotating
    <2>3. \A k \in Keys : keys[k] # None => keys[k].agent \in Agents
      BY <1>2 DEF IdentityTypes, Identity!Key
    <2>4. \A d \in Calls : requests[d] # None => requests[d].agent \in Agents
      BY <1>2 DEF IdentityTypes, Identity!Request
    <2>5. \A k \in Keys : keys'[k] # None => identities'[keys'[k].agent] # None
      BY <1>1, <1>3, <1>7, <2>3 DEF IdentityInv, Founded
    <2>6. \A b \in Agents : identities'[b] # None /\ identities'[b].origin = "client" => AreTrusted(b)'
      BY <1>7, <2>1, <2>2 DEF IdentityInv, Founded
    <2>7. ASSUME NEW d \in Calls, requests'[d] # None
          PROVE  LET s == requests'[d] IN
                 /\ s.origin = "client" \/ s.step \in Rotating => Identity!Trusted(s.agent, s.key)
                 /\ s.step = "key" \/ s.step \in Rotating => identities'[s.agent] # None
                 /\ s.step = "key" => /\ identities'[s.agent].origin = s.origin
                                      /\ \A k \in Keys : keys'[k] # None => keys'[k].agent # s.agent
                 /\ s.step \in {"rotated", "point"} => \A b : b = s.agent => AreTrusted(b)'
      BY <1>1, <1>3, <1>6, <1>7, <2>1, <2>2, <2>4, <2>7 DEF IdentityInv, Founded
    <2>8. \A d, f \in Calls : requests'[d] # None /\ requests'[f] # None /\ requests'[d].agent = requests'[f].agent
                         /\ requests'[d].step = "key" /\ (requests'[f].step = "key" \/ requests'[f].step \in Rotating)
                         => d = f
      BY <1>6 DEF IdentityInv, Founded
    <2> QED BY <2>5, <2>6, <2>7, <2>8 DEF Founded
  <1> QED BY <1>4, <1>8, <1>9 DEF IdentityInv

LEMMA IdentityStep == IdentityInv /\ Identity!Next => IdentityInv'
  <1> SUFFICES ASSUME IdentityInv, Identity!Next PROVE IdentityInv'
    OBVIOUS
  <1>1. daemonKeys \subseteq Keys
    BY DEF IdentityInv, Identity!TypeOK
  <1>2. ASSUME NEW c \in Calls, NEW a \in Agents, NEW k \in Keys, Identity!MintKey(c, a, k) PROVE IdentityInv'
    BY <1>1, <1>2, RequestEnters DEF Identity!MintKey
  <1>3. ASSUME NEW c \in Calls, NEW a \in Agents, NEW k \in Keys, Identity!EnrolKey(c, a, k) PROVE IdentityInv'
    BY <1>1, <1>3, RequestEnters DEF Identity!EnrolKey
  <1>4. ASSUME NEW c \in Calls, NEW a \in Agents, NEW k \in Keys, Identity!Rotate(c, a, k) PROVE IdentityInv'
    BY <1>1, <1>4, RequestEnters DEF Identity!Rotate
  <1>5. ASSUME NEW c \in Calls, Identity!Interrupt(c) PROVE IdentityInv'
    BY <1>5, RequestFails DEF Identity!Interrupt
  <1> QED BY <1>2, <1>3, <1>4, <1>5, IdentityInserted, KeyInserted, KeysSuperseded, IdentityPointed DEF Identity!Next

LEMMA KeysRetire == IdentityInv /\ Identity!Next => Identity!Retired
  <1> SUFFICES ASSUME IdentityInv, Identity!Next PROVE Identity!Retired
    OBVIOUS
  <1>1. keys \in [Keys -> Identity!Key \cup {None}]
    BY DEF IdentityInv, Identity!TypeOK
  <1>2. ASSUME NEW c \in Calls, Identity!InsertKey(c) PROVE Identity!Retired
    BY <1>1, <1>2 DEF Identity!InsertKey, Identity!Retired
  <1>3. ASSUME NEW c \in Calls, Identity!Supersede(c) PROVE Identity!Retired
    BY <1>3 DEF Identity!Supersede, Identity!Retired
  <1> QED BY <1>2, <1>3 DEF Identity!Next, Identity!Retired, Identity!InsertIdentity, Identity!PointIdentity,
             Identity!Interrupt, Identity!MintKey, Identity!EnrolKey, Identity!Rotate

LEMMA IdentityHolds == IdentityInv => Identity!TypeOK /\ Identity!OneKeySigns /\ Identity!ClientKeysAreTrusted
  BY DEF IdentityInv, Whole, Founded, AreTrusted, Identity!OneKeySigns, Identity!ClientKeysAreTrusted

-----------------------------------------------------------------------------
(* Permission modes.                                                       *)

\* A call that is past the verification of its signature met the demands on it; one that
\* reached the handler unasked was let through by the mode or by the door.
Verified(c) ==
    /\ c.signed => c.agent # None
    /\ c.at \in {"gate", "queued", "denied", "handler", "ran"} =>
          /\ c.method \in Policy!Signed => c.signed
          /\ c.method \notin Policy!IdentityExempt => c.agent # None

CallTypes(c) ==
    /\ DOMAIN c = {"method", "agent", "signed", "at", "read", "asked"}
    /\ c.method \in Policy!Methods \cup {None} /\ c.agent \in {"operator", "agent", None}
    /\ c.signed \in BOOLEAN
    /\ c.at \in {"none", "verify", "gate", "queued", "denied", "refused", "handler", "ran"}
    /\ c.read \in {None, "in", "out"} /\ c.asked \in BOOLEAN
    /\ c.at # "none" => c.method \in Policy!Methods
GateTypes ==
    /\ CallTypes(gated)
    /\ envMode \in {"", "auto", "bogus"} /\ sessionMode \in {None, "auto", "shadow"}
    /\ anchor \in BOOLEAN /\ denied \in BOOLEAN

PolicyInv ==
    /\ GateTypes /\ deniedPath = <<>> /\ prefix = <<>>
    /\ Verified(gated)
    /\ Policy!FloorHolds /\ Policy!DoorIsOperators /\ Policy!OnlyOperatorsAct

LEMMA PolicyInit == Policy!Init => PolicyInv
  <1> SUFFICES ASSUME Policy!Init PROVE PolicyInv
    OBVIOUS
  <1>1. gated = Policy!Idle /\ deniedPath = <<>> /\ prefix = <<>>
    BY DEF Policy!Init, Policy!GateInit, Policy!PathInit
  <1>2. /\ DOMAIN gated = {"method", "agent", "signed", "at", "read", "asked"}
        /\ gated.method = None /\ gated.agent = None /\ gated.at = "none" /\ gated.read = None
    BY <1>1 DEF Policy!Idle
  <1>3. gated.signed \in BOOLEAN /\ gated.asked \in BOOLEAN /\ ~gated.signed
    BY <1>1, Zenon DEF Policy!Idle
  <1>4. /\ envMode \in {"", "auto", "bogus"} /\ sessionMode = None
        /\ anchor \in BOOLEAN /\ denied \in BOOLEAN
    BY Zenon DEF Policy!Init, Policy!GateInit
  <1>5. GateTypes
    BY <1>2, <1>3, <1>4 DEF GateTypes, CallTypes
  <1> QED BY <1>1, <1>2, <1>3, <1>5 DEF PolicyInv, Verified, Policy!FloorHolds, Policy!DoorIsOperators, Policy!OnlyOperatorsAct

LEMMA Minor ==
    ASSUME NEW m \in Policy!Methods, m \notin Policy!Signed
    PROVE  m \in Policy!Routine \cup Policy!Unsigned
  <1>1. CASE m \in Policy!Consequential
    BY <1>1 DEF Policy!Consequential, Policy!Signed, Policy!Unsigned
  <1>2. CASE m \in Policy!Critical
    BY <1>2 DEF Policy!Critical, Policy!Signed, Policy!Unsigned
  <1>3. CASE m = "unmapped"
    BY <1>3 DEF Policy!Unsigned
  <1> QED BY <1>1, <1>2, <1>3 DEF Policy!Methods, Policy!Classified

LEMMA Foretold == Policy!ShadowForetells
  <1> SUFFICES ASSUME NEW m, NEW raw \in {"manual", "auto", "bogus"}
      PROVE Policy!Would(m, raw) = Policy!Decide(m, Policy!SimulatedMode(raw)) \/ (Policy!SimulatedMode(raw) = "auto" /\ denied)
    BY DEF Policy!ShadowForetells
  <1>1. Policy!Class(m) \in {"routine", "consequential", "critical"}
    BY DEF Policy!Class
  <1> QED BY <1>1 DEF Policy!Would, Policy!Decide, Policy!SimulatedMode, Policy!WouldManual, Policy!WouldAuto

LEMMA PolicyHolds ==
    ASSUME PolicyInv
    PROVE  /\ Policy!TypeOK /\ Policy!FloorHolds /\ Policy!UnsignedIsMinor
           /\ Policy!ShadowForetells /\ Policy!DoorIsOperators /\ Policy!OnlyOperatorsAct
  <1>1. Policy!TypeOK
    <2>1. Len(deniedPath) <= MaxPath /\ Len(prefix) <= MaxPrefix
      BY PolicyAssumption DEF PolicyInv
    <2> QED BY <2>1, Zenon DEF PolicyInv, GateTypes, CallTypes, Policy!TypeOK
  <1>2. Policy!UnsignedIsMinor
    BY Minor DEF PolicyInv, GateTypes, CallTypes, Verified, Policy!UnsignedIsMinor
  <1> QED BY <1>1, <1>2, Foretold DEF PolicyInv

\* The request moves on: to a place, with what the door read and whether it was asked for.
MovesTo(s, r, asked) ==
    /\ DOMAIN gated' = DOMAIN gated
    /\ gated'.method = gated.method /\ gated'.agent = gated.agent /\ gated'.signed = gated.signed
    /\ gated'.at = s /\ gated'.read = r /\ gated'.asked = asked

LEMMA Moves ==
    ASSUME DOMAIN gated = {"method", "agent", "signed", "at", "read", "asked"}, NEW s, NEW r
    PROVE  /\ gated' = [gated EXCEPT !.at = s] => MovesTo(s, gated.read, gated.asked)
           /\ gated' = [gated EXCEPT !.at = s, !.read = r] => MovesTo(s, r, gated.asked)
           /\ gated' = [gated EXCEPT !.read = r, !.at = s] => MovesTo(s, r, gated.asked)
           /\ gated' = [gated EXCEPT !.at = s, !.asked = TRUE] => MovesTo(s, gated.read, TRUE)
  BY DEF MovesTo

LEMMA PolicyStep == PolicyInv /\ Policy!GateNext /\ UNCHANGED pathVars => PolicyInv'
  <1> SUFFICES ASSUME PolicyInv, Policy!GateNext, UNCHANGED pathVars PROVE PolicyInv'
    OBVIOUS
  <1>0. GateTypes /\ deniedPath' = <<>> /\ prefix' = <<>>
    BY DEF PolicyInv, pathVars
  <1>1. ASSUME NEW m \in Policy!Methods, NEW who \in {"operator", "agent", None}, NEW sg \in BOOLEAN, Policy!Request(m, who, sg)
        PROVE  PolicyInv'
    <2>1. /\ gated' = [method |-> m, agent |-> who, signed |-> sg, at |-> "verify", read |-> None, asked |-> FALSE]
          /\ UNCHANGED <<envMode, sessionMode, anchor, denied>> /\ (sg => who # None)
      BY <1>1 DEF Policy!Request
    <2>2. /\ DOMAIN gated' = {"method", "agent", "signed", "at", "read", "asked"}
          /\ gated'.method = m /\ gated'.agent = who /\ gated'.at = "verify" /\ gated'.read = None
      BY <2>1
    <2>3. gated'.signed \in BOOLEAN /\ gated'.asked \in BOOLEAN /\ (gated'.signed => gated'.agent # None)
      BY <2>1, Zenon
    <2>4. GateTypes'
      BY <1>0, <2>1, <2>2, <2>3 DEF GateTypes, CallTypes
    <2> QED BY <1>0, <2>2, <2>3, <2>4 DEF PolicyInv, Verified, Policy!FloorHolds, Policy!DoorIsOperators, Policy!OnlyOperatorsAct
  <1>2. ASSUME Policy!Verify PROVE PolicyInv'
    <2>1. PICK s \in {"refused", "gate"} : gated' = [gated EXCEPT !.at = s]
      BY <1>2 DEF Policy!Verify
    <2>2. MovesTo(s, gated.read, gated.asked)
      BY <1>0, <2>1, Moves DEF GateTypes, CallTypes
    <2>3. /\ s = "gate" => /\ gated.method \in Policy!Signed => gated.signed
                           /\ gated.method \notin Policy!IdentityExempt => gated.agent # None
          /\ gated.at = "verify" /\ UNCHANGED <<envMode, sessionMode, anchor, denied>>
      BY <1>2, <2>1, <2>2 DEF Policy!Verify, MovesTo
    <2>4. GateTypes'
      BY <1>0, <2>2, <2>3 DEF GateTypes, CallTypes, MovesTo
    <2> QED BY <1>0, <2>2, <2>3, <2>4
        DEF MovesTo, PolicyInv, Verified, Policy!FloorHolds, Policy!DoorIsOperators, Policy!OnlyOperatorsAct
  <1>3. ASSUME Policy!Gate PROVE PolicyInv'
    <2> DEFINE ruling == IF Policy!Mode # "shadow" /\ Policy!AtDoor(gated) THEN "allow" ELSE Policy!Decide(gated.method, Policy!Mode)
               r == IF Policy!Mode # "shadow" /\ gated.method \in Policy!Door /\ gated.signed THEN Policy!Anchored ELSE None
               s == IF ruling = "allow" THEN "handler" ELSE IF ruling = "deny" THEN "denied"
                    ELSE IF gated.agent = None THEN "refused" ELSE "queued"
    <2>1. gated.at = "gate" /\ gated' = [gated EXCEPT !.read = r, !.at = s] /\ UNCHANGED <<envMode, sessionMode, anchor, denied>>
      BY <1>3 DEF Policy!Gate
    <2>2. s \in {"handler", "denied", "refused", "queued"} /\ r \in {None, "in", "out"} /\ (s = "handler" <=> ruling = "allow")
      BY DEF Policy!Anchored
    <2>3. s = "handler" =>
             \/ gated.method \in Policy!Door /\ r = "in"
             \/ Policy!Decide(gated.method, Policy!Mode) = "allow"
      BY <2>2 DEF Policy!AtDoor, Policy!Trusted, Policy!Anchored
    <2>4. Policy!Decide(gated.method, Policy!Mode) = "allow" =>
             /\ Policy!Mode \notin {"shadow", "auto"} => gated.method \in Policy!Routine
             /\ Policy!Mode # "shadow" => Policy!Class(gated.method) # "critical"
      BY DEF Policy!Decide, Policy!Class
    <2>5. gated.method \in Policy!Door /\ gated.signed /\ gated.agent = "operator" /\ s \in {"queued", "denied"} => r # "in"
      BY <2>2, PolicyAssumption DEF Policy!AtDoor, Policy!Trusted, Policy!Anchored, Policy!Decide
    <2>6. envMode = "bogus" /\ sessionMode = None => Policy!Mode = "manual"
      BY DEF Policy!Mode, Policy!Resolved, Policy!Modes
    <2> HIDE DEF ruling, r, s
    <2>7. MovesTo(s, r, gated.asked)
      BY <1>0, <2>1, Moves DEF GateTypes, CallTypes
    <2>8. GateTypes'
      BY <1>0, <2>1, <2>2, <2>7 DEF GateTypes, CallTypes, MovesTo
    <2>9. Policy!Mode' = Policy!Mode /\ Policy!Class(gated.method)' = Policy!Class(gated.method)
      BY <2>1, <2>7 DEF MovesTo, Policy!Mode
    <2>10. Verified(gated)' /\ Policy!OnlyOperatorsAct'
      BY <2>1, <2>2, <2>7 DEF MovesTo, PolicyInv, Verified, Policy!OnlyOperatorsAct
    <2>11. Policy!DoorIsOperators'
      BY <2>2, <2>5, <2>7 DEF MovesTo, Policy!DoorIsOperators
    <2>12. Policy!FloorHolds'
      BY <2>1, <2>2, <2>3, <2>4, <2>6, <2>7, <2>9 DEF MovesTo, Policy!FloorHolds, Policy!ByDoor
    <2> QED BY <1>0, <2>8, <2>10, <2>11, <2>12 DEF PolicyInv
  <1>4. ASSUME Policy!Approved PROVE PolicyInv'
    <2>1. /\ MovesTo("handler", gated.read, TRUE)
          /\ gated.at = "queued" /\ UNCHANGED <<envMode, sessionMode, anchor, denied>>
      BY <1>0, <1>4, Moves DEF Policy!Approved, GateTypes, CallTypes
    <2>2. GateTypes'
      BY <1>0, <2>1 DEF GateTypes, CallTypes, MovesTo
    <2> QED BY <1>0, <2>1, <2>2
        DEF MovesTo, PolicyInv, Verified, Policy!FloorHolds, Policy!DoorIsOperators, Policy!OnlyOperatorsAct
  <1>5. ASSUME Policy!Handle PROVE PolicyInv'
    <2>0. gated.at = "handler" /\ UNCHANGED <<envMode, anchor, denied>>
      BY <1>5 DEF Policy!Handle
    <2>1. CASE gated.method \notin Policy!Door
      <3>1. gated' = [gated EXCEPT !.at = "ran"]
        BY <1>5, <2>1 DEF Policy!Handle
      <3>2. MovesTo("ran", gated.read, gated.asked)
        BY <1>0, <3>1, Moves DEF GateTypes, CallTypes
      <3>3. UNCHANGED sessionMode
        BY <1>5, <2>1, <3>2 DEF Policy!Handle, MovesTo, Policy!Door
      <3>4. GateTypes'
        BY <1>0, <2>0, <3>2, <3>3 DEF GateTypes, CallTypes, MovesTo
      <3> QED BY <1>0, <2>0, <2>1, <3>2, <3>4
          DEF MovesTo, PolicyInv, Verified, Policy!FloorHolds, Policy!DoorIsOperators, Policy!OnlyOperatorsAct
    <2>2. CASE gated.method \in Policy!Door
      <3> DEFINE s == IF Policy!OperatorMayAct(gated) THEN "ran" ELSE "refused"
      <3>1. gated' = [gated EXCEPT !.at = s, !.read = Policy!Anchored]
        BY <1>5, <2>2 DEF Policy!Handle
      <3>2. s \in {"ran", "refused"} /\ (s = "ran" => gated.signed /\ gated.agent = "operator" /\ Policy!Anchored = "in")
        BY DEF Policy!OperatorMayAct, Policy!Trusted, Policy!Anchored
      <3> HIDE DEF s
      <3>3. MovesTo(s, Policy!Anchored, gated.asked)
        BY <1>0, <3>1, Moves DEF GateTypes, CallTypes
      <3>4. sessionMode' \in {None, "auto", "shadow"}
        BY <1>0, <1>5 DEF Policy!Handle, GateTypes, CallTypes
      <3>5. GateTypes'
        BY <1>0, <2>0, <3>2, <3>3, <3>4 DEF GateTypes, CallTypes, MovesTo, Policy!Anchored
      <3> QED BY <1>0, <2>0, <2>2, <3>2, <3>3, <3>5
          DEF MovesTo, PolicyInv, Verified, Policy!FloorHolds, Policy!DoorIsOperators, Policy!OnlyOperatorsAct
    <2> QED BY <2>1, <2>2
  <1>6. ASSUME Policy!Answer PROVE PolicyInv'
    <2>1. gated' = Policy!Idle /\ UNCHANGED <<envMode, sessionMode, anchor, denied>>
      BY <1>6 DEF Policy!Answer
    <2>2. /\ DOMAIN gated' = {"method", "agent", "signed", "at", "read", "asked"}
          /\ gated'.method = None /\ gated'.agent = None /\ gated'.at = "none" /\ gated'.read = None
      BY <2>1 DEF Policy!Idle
    <2>3. gated'.signed \in BOOLEAN /\ gated'.asked \in BOOLEAN /\ ~gated'.signed
      BY <2>1, Zenon DEF Policy!Idle
    <2>4. GateTypes'
      BY <1>0, <2>1, <2>2, <2>3 DEF GateTypes, CallTypes
    <2> QED BY <1>0, <2>2, <2>3, <2>4 DEF PolicyInv, Verified, Policy!FloorHolds, Policy!DoorIsOperators, Policy!OnlyOperatorsAct
  <1>7. ASSUME Policy!EditAnchor PROVE PolicyInv'
    <2>1. UNCHANGED <<gated, envMode, sessionMode, denied>>
      BY <1>7 DEF Policy!EditAnchor
    <2>2. anchor' \in BOOLEAN
      BY <1>7, Zenon DEF Policy!EditAnchor
    <2>3. denied' \in BOOLEAN
      BY <1>0, <2>1, Zenon DEF GateTypes
    <2>4. GateTypes'
      BY <1>0, <2>1, <2>2, <2>3, Zenon DEF GateTypes
    <2> QED BY <1>0, <2>1, <2>4
        DEF PolicyInv, Verified, Policy!FloorHolds, Policy!DoorIsOperators, Policy!OnlyOperatorsAct, Policy!Mode, Policy!ByDoor
  <1> QED BY <1>1, <1>2, <1>3, <1>4, <1>5, <1>6, <1>7 DEF Policy!GateNext

-----------------------------------------------------------------------------
(* Issuing and rotating.                                                   *)

Committed == {o \in Operations : receipts[o].committed}
Known     == Committed \cup {Old}

\* What a rotation expects in the vault is no longer registered, and no other rotation
\* expects it.
ExpectedIsContained ==
    \A o \in Committed : /\ receipts[o].expected \in (Known \cup {None}) \ registered
                         /\ o \in Rotations <=> receipts[o].expected # None
                         /\ \A p \in Committed : receipts[o].expected = receipts[p].expected
                                                 /\ o \in Rotations => o = p

\* What a process read from the vault is there as long as it is registered.
PriorIsThere ==
    \A r \in Runs : runs[r] # None =>
        /\ runs[r].op \notin Rotations => runs[r].prior = None
        /\ runs[r].step = "set" => runs[r].op \in Committed
        /\ runs[r].step = "generate" /\ runs[r].op \in Rotations =>
              runs[r].prior \in Known /\ (runs[r].prior \in registered => vault = runs[r].prior)

PromotionInv ==
    /\ Licences!PromotionTypeOK
    /\ registered \cup promoted \subseteq Known /\ vault \in Known \cup {None}
    /\ ExpectedIsContained /\ PriorIsThere
    /\ Licences!ContainmentIsRecoverable

LEMMA PromotionStarts == Licences!PromotionInit => PromotionInv
  <1> SUFFICES ASSUME Licences!PromotionInit PROVE PromotionInv
    OBVIOUS
  <1>1. Licences!PromotionTypeOK
    BY DEF Licences!PromotionInit, Licences!PromotionTypeOK, Licences!NoReceipt, Licences!Tokens
  <1>2. Committed = {}
    BY DEF Committed, Licences!PromotionInit, Licences!NoReceipt
  <1> QED BY <1>1, <1>2, LicencesAssumption DEF PromotionInv, Licences!PromotionInit, Known, ExpectedIsContained, PriorIsThere,
          Licences!ContainmentIsRecoverable, Licences!NoReceipt

\* A process moves, and nothing else does.
LEMMA RunMoves ==
    ASSUME PromotionInv, UNCHANGED <<receipts, registered, vault, promoted>>,
           NEW r \in Runs, NEW e, runs' = [runs EXCEPT ![r] = e], e = None \/ e \in Licences!Run,
           e # None =>
             /\ e.op \notin Rotations => e.prior = None
             /\ e.step = "set" => e.op \in Committed
             /\ e.step = "generate" /\ e.op \in Rotations => e.prior \in Known /\ (e.prior \in registered => vault = e.prior)
    PROVE  PromotionInv'
  <1> USE DEF PromotionInv, Known, Committed
  <1>1. Licences!PromotionTypeOK'
    BY DEF Licences!PromotionTypeOK
  <1>2. (Committed' = Committed) /\ (Known' = Known)
    OBVIOUS
  <1>3. PriorIsThere'
    BY <1>2 DEF PriorIsThere, Licences!PromotionTypeOK
  <1> QED BY <1>1, <1>2, <1>3 DEF ExpectedIsContained, Licences!ContainmentIsRecoverable

LEMMA OperationCommits ==
    ASSUME PromotionInv, NEW r \in Runs, runs[r] # None, runs[r].step = "generate", Licences!Commits(r),
           NEW step \in {"set", "confirm"}, runs' = [runs EXCEPT ![r].step = step],
           receipts' = [receipts EXCEPT ![runs[r].op] = [committed |-> TRUE, expected |-> runs[r].prior]],
           registered' = (registered \ {runs[r].prior}) \cup {runs[r].op}, UNCHANGED <<vault, promoted>>
    PROVE  PromotionInv'
  <1> DEFINE o == runs[r].op
             prior == runs[r].prior
  <1> USE DEF PromotionInv
  <1>1. /\ o \in Operations /\ prior \in Licences!Tokens \cup {None} /\ ~receipts[o].committed
        /\ o \in Rotations => prior \in registered /\ prior \in Known /\ vault = prior
        /\ o \notin Rotations => prior = None
    BY LicencesAssumption DEF Licences!PromotionTypeOK, Licences!Run, Licences!Commits, Licences!Receipt, PriorIsThere
  <1>2. (Committed' = Committed \cup {o}) /\ (Known' = Known \cup {o}) /\ o \notin Known
    BY <1>1, LicencesAssumption DEF Committed, Known, Licences!PromotionTypeOK
  <1>3. Licences!PromotionTypeOK'
    BY <1>1 DEF Licences!PromotionTypeOK, Licences!Run, Licences!Tokens
  <1>4. \A p \in Operations : receipts'[p] = IF p = o THEN [committed |-> TRUE, expected |-> prior] ELSE receipts[p]
    BY <1>1 DEF Licences!PromotionTypeOK
  <1>5. prior # o /\ None \notin Known \cup {o} /\ prior \notin registered'
    BY <1>1, <1>2, LicencesAssumption DEF Known, Committed, Licences!Tokens
  <1>6. ExpectedIsContained'
    <2> DEFINE x(p) == receipts[p].expected
    <2>1. \A p \in Committed : x(p) \notin registered' /\ x(p) # o
      BY <1>2, <1>5, LicencesAssumption DEF ExpectedIsContained, Licences!Tokens
    <2> QED BY <1>1, <1>2, <1>4, <1>5, <2>1 DEF ExpectedIsContained
  <1>7. PriorIsThere'
    <2>1. \A p \in Runs : runs'[p] = IF p = r THEN [runs[r] EXCEPT !.step = step] ELSE runs[p]
      BY DEF Licences!PromotionTypeOK
    <2>2. \A p \in Runs : runs[p] # None => runs[p] \in Licences!Run
      BY DEF Licences!PromotionTypeOK
    <2>3. runs'[r].op = o /\ runs'[r].prior = prior /\ runs'[r].step = step
      BY <2>1, <2>2 DEF Licences!Run
    <2>4. ASSUME NEW p \in Runs, runs[p] # None, runs[p].step = "generate", runs[p].op \in Rotations
          PROVE  runs[p].prior \in Known /\ (runs[p].prior \in registered' => vault = runs[p].prior)
      BY <1>2, <2>4 DEF PriorIsThere
    <2>5. runs'[r] # None
      BY <2>1, <2>2, LicencesAssumption DEF Licences!Run
    <2>6. ASSUME NEW p \in Runs, runs'[p] # None
          PROVE  /\ runs'[p].op \notin Rotations => runs'[p].prior = None
                 /\ runs'[p].step = "set" => runs'[p].op \in Committed'
                 /\ runs'[p].step = "generate" /\ runs'[p].op \in Rotations =>
                       runs'[p].prior \in Known' /\ (runs'[p].prior \in registered' => vault' = runs'[p].prior)
      <3>1. CASE p = r BY <1>1, <1>2, <2>3, <3>1
      <3>2. CASE p # r BY <1>2, <2>1, <2>4, <2>6, <3>2 DEF PriorIsThere
      <3> QED BY <3>1, <3>2
    <2> QED BY <2>6 DEF PriorIsThere
  <1>8. Licences!ContainmentIsRecoverable'
    BY <1>1, <1>4, LicencesAssumption DEF Licences!ContainmentIsRecoverable
  <1> QED BY <1>1, <1>2, <1>3, <1>6, <1>7, <1>8

\* The vault changes to the replacement of a licence that is contained.
LEMMA OperationIsPromoted ==
    ASSUME PromotionInv, NEW r \in Runs, runs[r] # None, runs[r].step = "set",
           runs[r].op \notin promoted, vault = receipts[runs[r].op].expected,
           vault' = runs[r].op, promoted' = promoted \cup {runs[r].op}, runs' = [runs EXCEPT ![r] = None],
           UNCHANGED <<receipts, registered>>
    PROVE  PromotionInv'
  <1> DEFINE o == runs[r].op
  <1> USE DEF PromotionInv
  <1>1. o \in Committed /\ o \in Operations /\ Committed' = Committed /\ Known' = Known /\ vault \notin registered
    BY DEF PriorIsThere, Committed, Known, ExpectedIsContained
  <1>2. Licences!PromotionTypeOK'
    BY <1>1 DEF Licences!PromotionTypeOK, Licences!Tokens
  <1>3. ExpectedIsContained'
    BY <1>1 DEF ExpectedIsContained
  <1>4. PriorIsThere'
    BY <1>1 DEF PriorIsThere, Licences!PromotionTypeOK
  <1>5. Licences!ContainmentIsRecoverable'
    <2>1. ASSUME NEW p \in Rotations, receipts[p].committed, p \notin promoted, p # o, vault = receipts[p].expected
          PROVE  FALSE
      BY <1>1, <2>1, LicencesAssumption DEF ExpectedIsContained, Committed
    <2> QED BY <1>1, <2>1 DEF Licences!ContainmentIsRecoverable
  <1> QED BY <1>1, <1>2, <1>3, <1>4, <1>5 DEF Known

LEMMA PromotionStep == PromotionInv /\ Licences!PromotionNext => PromotionInv'
  <1> SUFFICES ASSUME PromotionInv, Licences!PromotionNext PROVE PromotionInv'
    OBVIOUS
  <1> PICK r \in Runs : \/ Licences!Recover(r) \/ Licences!Prepare(r) \/ Licences!Generate(r)
                        \/ Licences!Promote(r) \/ Licences!Die(r)
                        \/ \E o \in Operations : Licences!Start(r, o)
    BY DEF Licences!PromotionNext
  <1> USE DEF Licences!At, Licences!GoTo, Licences!Stop, Licences!Receipt
  <1>1. runs[r] \in Licences!Run \cup {None} /\ (runs[r] # None => runs[r].op \in Operations)
    BY DEF PromotionInv, Licences!PromotionTypeOK, Licences!Run
  <1>2. ASSUME UNCHANGED <<receipts, registered, vault, promoted>>, Licences!Stop(r) PROVE PromotionInv'
    BY <1>2, RunMoves
  <1>3. ASSUME NEW step \in {"recover", "prepare", "generate", "confirm", "set"}, runs[r] # None, Licences!GoTo(r, step),
               step = "generate" => runs[r].op \notin Rotations, step = "set" => runs[r].op \in Committed,
               UNCHANGED <<receipts, registered, vault, promoted>>
        PROVE  PromotionInv'
    <2>1. runs' = [runs EXCEPT ![r] = [runs[r] EXCEPT !.step = step]] /\ [runs[r] EXCEPT !.step = step] \in Licences!Run
      BY <1>1, <1>3 DEF Licences!Run, PromotionInv, Licences!PromotionTypeOK
    <2>2. runs[r].op \notin Rotations => runs[r].prior = None
      BY <1>3 DEF PromotionInv, PriorIsThere
    <2> QED BY <1>1, <1>3, <2>1, <2>2, RunMoves DEF Licences!Run
  <1>4. ASSUME NEW o \in Operations, Licences!Start(r, o) PROVE PromotionInv'
    BY <1>4, RunMoves DEF Licences!Start, Licences!Run
  <1>5. ASSUME Licences!Recover(r) PROVE PromotionInv'
    BY <1>1, <1>2, <1>3, <1>5 DEF Licences!Recover, Licences!Accept, Committed
  <1>6. ASSUME Licences!Prepare(r) PROVE PromotionInv'
    <2>1. ASSUME runs[r].op \in Rotations, vault # None,
                 runs' = [runs EXCEPT ![r].step = "generate", ![r].prior = vault]
          PROVE  PromotionInv'
      <3>1. runs[r] \in Licences!Run /\ vault \in Known /\ vault \in Licences!Tokens
        BY <1>1, <1>6, <2>1 DEF Licences!Prepare, PromotionInv, Licences!PromotionTypeOK
      <3> DEFINE d == [runs[r] EXCEPT !.step = "generate"]
                 e == [d EXCEPT !.prior = vault]
      <3>2. d \in Licences!Run /\ d.op = runs[r].op /\ d.step = "generate"
        BY <3>1 DEF Licences!Run
      <3> HIDE DEF d
      <3>3. e \in Licences!Run /\ e.op = runs[r].op /\ e.step = "generate" /\ e.prior = vault
        BY <3>1, <3>2 DEF Licences!Run
      <3>4. runs \in [Runs -> Licences!Run \cup {None}]
        BY DEF PromotionInv, Licences!PromotionTypeOK
      <3>5. runs' = [runs EXCEPT ![r] = e]
        BY <2>1, <3>4, Zenon DEF d
      <3> QED BY <1>6, <2>1, <3>1, <3>3, <3>5, RunMoves DEF Licences!Prepare
    <2> QED BY <1>2, <1>3, <1>6, <2>1 DEF Licences!Prepare
  <1>7. ASSUME Licences!Generate(r) PROVE PromotionInv'
    BY <1>3, <1>7, OperationCommits DEF Licences!Generate
  <1>8. ASSUME Licences!Promote(r) PROVE PromotionInv'
    BY <1>2, <1>8, OperationIsPromoted DEF Licences!Promote, Licences!Matches
  <1>9. ASSUME Licences!Die(r) PROVE PromotionInv'
    BY <1>2, <1>9 DEF Licences!Die
  <1> QED BY <1>4, <1>5, <1>6, <1>7, <1>8, <1>9

LEMMA LiveStay == PromotionInv /\ Licences!PromotionNext => Licences!LiveStays
  <1> SUFFICES ASSUME PromotionInv, Licences!PromotionNext, vault' # vault PROVE vault \notin registered'
    BY DEF Licences!LiveStays
  <1> PICK r \in Runs : Licences!Promote(r)
    BY DEF Licences!PromotionNext, Licences!Recover, Licences!Prepare, Licences!Generate, Licences!Die, Licences!Start
  <1> QED BY DEF Licences!Promote, Licences!Matches, Licences!Receipt, Licences!At, PromotionInv, PriorIsThere,
          ExpectedIsContained
-----------------------------------------------------------------------------
(* Revoking.                                                               *)

\* The one writer has the lock; what it loaded is still the list when it saves, and what it
\* saved is there when it unlocks.  While nothing is locked no revocation is in doubt.
WriterIsAlone ==
    /\ \A w, x \in Writers : writers[w] # None /\ writers[x] # None => w = x
    /\ \A w \in Writers : writers[w] # None =>
          /\ lock /\ unsettled = {writers[w].jti}
          /\ writers[w].step = "save" => writers[w].loaded = list
          /\ writers[w].step = "unlock" => writers[w].jti \in list
    /\ ~lock => unsettled = {}

\* What a check is bound to refuse it still can: the token is on the list once the check has
\* seen that there is no lock, and revoked or in doubt before.
CheckHolds(e) ==
    e.bound => /\ e.step = "look" => e.jti \in revoked \cup unsettled
               /\ e.step = "read" => e.jti \in list
               /\ e.step # "valid"
ChecksHold == \A r \in Readers : readers[r] # None => CheckHolds(readers[r])

RevocationInv ==
    /\ Licences!RevocationTypeOK /\ Licences!RevocationsStay
    /\ WriterIsAlone /\ ChecksHold

LEMMA RevocationStarts == Licences!RevocationInit => RevocationInv
  BY DEF Licences!RevocationInit, RevocationInv, Licences!RevocationTypeOK, Licences!RevocationsStay, WriterIsAlone, ChecksHold

\* The list, the lock and what is in doubt go on as a writer needs it.
LEMMA ChecksGoOn ==
    ASSUME RevocationInv, UNCHANGED readers, list \subseteq list', revoked \cup unsettled \subseteq revoked' \cup unsettled'
    PROVE  ChecksHold'
  BY DEF RevocationInv, ChecksHold, CheckHolds

\* A revocation that is given up binds no check, unless it was done before.
LEMMA ChecksUnbound ==
    ASSUME RevocationInv, NEW D, Licences!Unbind(D), UNCHANGED <<list, revoked>>, unsettled \subseteq unsettled' \cup D
    PROVE  ChecksHold' /\ readers' \in [Readers -> Licences!Reading \cup {None}]
  <1>1. ASSUME NEW r \in Readers, readers[r] # None, readers[r].jti \in D \ revoked
        PROVE  readers'[r] \in Licences!Reading /\ readers'[r].bound = FALSE
    <2>1. readers[r] \in Licences!Reading
      BY <1>1 DEF RevocationInv, Licences!RevocationTypeOK
    <2>2. readers'[r] = [readers[r] EXCEPT !.bound = FALSE]
      BY <1>1 DEF Licences!Unbind
    <2> QED BY <2>1, <2>2 DEF Licences!Reading
  <1>2. ASSUME NEW r \in Readers, ~(readers[r] # None /\ readers[r].jti \in D \ revoked)
        PROVE  readers'[r] = readers[r]
    BY <1>2 DEF Licences!Unbind
  <1>3. readers' \in [Readers -> Licences!Reading \cup {None}]
    <2>1. \A r \in Readers : readers'[r] \in Licences!Reading \cup {None}
      BY <1>1, <1>2 DEF RevocationInv, Licences!RevocationTypeOK
    <2> QED BY <2>1 DEF Licences!Unbind
  <1>4. ASSUME NEW r \in Readers, NEW e, e = readers'[r], e # None PROVE CheckHolds(e)'
    BY <1>1, <1>2, <1>4 DEF CheckHolds, RevocationInv, ChecksHold
  <1> QED BY <1>3, <1>4 DEF ChecksHold

LEMMA WriterSteps ==
    ASSUME RevocationInv, NEW w \in Writers,
           \/ Licences!Load(w) \/ Licences!Save(w) \/ Licences!Unlock(w) \/ Licences!FailWrite(w) \/ Licences!DieWriting(w)
           \/ \E j \in Jtis : Licences!OpenLock(w, j)
    PROVE  RevocationInv'
  <1> USE DEF RevocationInv, Licences!RevocationTypeOK, Licences!RevocationsStay
  <1>1. writers[w] # None => writers[w] \in Licences!Writing
    OBVIOUS
  <1>2. ASSUME NEW j \in Jtis, Licences!OpenLock(w, j) PROVE RevocationInv'
    <2>1. ChecksHold'
      BY <1>2, ChecksGoOn DEF Licences!OpenLock
    <2> DEFINE e == [jti |-> j, step |-> "load", loaded |-> {}]
    <2>2. e \in Licences!Writing /\ writers' = [writers EXCEPT ![w] = e]
      BY <1>2 DEF Licences!OpenLock, Licences!Writing
    <2>3. e.jti = j /\ e.step = "load"
      OBVIOUS
    <2> HIDE DEF e
    <2>4. \A x \in Writers : writers[x] = None
      BY <1>2 DEF Licences!OpenLock, Licences!MayLock, WriterIsAlone
    <2>5. unsettled' = {j}
      BY <1>2 DEF Licences!OpenLock, Licences!MayLock, WriterIsAlone
    <2>6. WriterIsAlone'
      BY <1>2, <2>2, <2>3, <2>4, <2>5 DEF Licences!OpenLock, WriterIsAlone
    <2> QED BY <1>2, <2>1, <2>2, <2>6 DEF Licences!OpenLock
  <1>3. ASSUME Licences!Load(w) PROVE RevocationInv'
    <2>1. ChecksHold'
      BY <1>3, ChecksGoOn DEF Licences!Load
    <2> DEFINE d == [writers[w] EXCEPT !.step = "save"]
               e == [d EXCEPT !.loaded = list]
    <2>2. d \in Licences!Writing /\ d.jti = writers[w].jti /\ d.step = "save"
      BY <1>1, <1>3 DEF Licences!Load, Licences!Writing
    <2>3. writers' = [writers EXCEPT ![w] = e]
      BY <1>3, Zenon DEF Licences!Load
    <2> HIDE DEF d
    <2>4. e \in Licences!Writing /\ e.jti = writers[w].jti /\ e.step = "save" /\ e.loaded = list
      BY <2>2 DEF Licences!Writing
    <2> HIDE DEF e
    <2>5. WriterIsAlone'
      BY <1>3, <2>3, <2>4 DEF Licences!Load, WriterIsAlone
    <2> QED BY <1>3, <2>1, <2>3, <2>4, <2>5 DEF Licences!Load
  <1>4. ASSUME Licences!Save(w) PROVE RevocationInv'
    <2>1. list' = list \cup {writers[w].jti}
      BY <1>4 DEF Licences!Save, WriterIsAlone
    <2>2. ChecksHold'
      BY <1>4, <2>1, ChecksGoOn DEF Licences!Save
    <2> DEFINE e == [writers[w] EXCEPT !.step = "unlock"]
    <2>3. e \in Licences!Writing /\ e.jti = writers[w].jti /\ e.step = "unlock"
      BY <1>1, <1>4 DEF Licences!Save, Licences!Writing
    <2>4. writers' = [writers EXCEPT ![w] = e]
      BY <1>4, Zenon DEF Licences!Save
    <2> HIDE DEF e
    <2>5. WriterIsAlone'
      BY <1>4, <2>1, <2>3, <2>4 DEF Licences!Save, WriterIsAlone
    <2>6. list' \subseteq Jtis
      BY <1>1, <1>4, <2>1 DEF Licences!Writing, Licences!Save
    <2> QED BY <1>4, <2>1, <2>2, <2>3, <2>4, <2>5, <2>6 DEF Licences!Save
  <1>5. ASSUME Licences!Unlock(w) PROVE RevocationInv'
    <2>1. ChecksHold'
      BY <1>5, ChecksGoOn DEF Licences!Unlock
    <2>2. writers[w].jti \in list /\ writers[w].jti \in Jtis /\ unsettled' = {}
      BY <1>1, <1>5 DEF Licences!Unlock, WriterIsAlone, Licences!Writing
    <2> QED BY <1>5, <2>1, <2>2 DEF Licences!Unlock, WriterIsAlone
  <1>6. ASSUME Licences!FailWrite(w) PROVE RevocationInv'
    <2>1. ChecksHold' /\ readers' \in [Readers -> Licences!Reading \cup {None}]
      BY <1>6, ChecksUnbound DEF Licences!FailWrite
    <2>2. unsettled' = {}
      BY <1>6 DEF Licences!FailWrite, WriterIsAlone
    <2> QED BY <1>6, <2>1, <2>2 DEF Licences!FailWrite, WriterIsAlone
  <1>7. ASSUME Licences!DieWriting(w) PROVE RevocationInv'
    <2>1. ChecksHold'
      BY <1>7, ChecksGoOn DEF Licences!DieWriting
    <2> QED BY <1>7, <2>1 DEF Licences!DieWriting, WriterIsAlone
  <1> QED BY <1>2, <1>3, <1>4, <1>5, <1>6, <1>7

LEMMA LockRecovered == RevocationInv /\ Licences!RecoverLock => RevocationInv'
  <1> SUFFICES ASSUME RevocationInv, Licences!RecoverLock PROVE RevocationInv'
    OBVIOUS
  <1>1. ChecksHold' /\ readers' \in [Readers -> Licences!Reading \cup {None}]
    BY ChecksUnbound DEF Licences!RecoverLock
  <1> QED BY <1>1 DEF Licences!RecoverLock, RevocationInv, Licences!RevocationTypeOK, Licences!RevocationsStay, WriterIsAlone

LEMMA ReaderMoves ==
    ASSUME RevocationInv, UNCHANGED <<list, lock, writers, revoked, unsettled>>,
           NEW r \in Readers, NEW e \in Licences!Reading, readers' = [readers EXCEPT ![r] = e], CheckHolds(e)
    PROVE  RevocationInv'
  <1>1. ASSUME NEW q \in Readers, NEW f, f = readers'[q], f # None PROVE CheckHolds(f)'
    BY <1>1 DEF RevocationInv, Licences!RevocationTypeOK, ChecksHold, CheckHolds
  <1> QED BY <1>1 DEF RevocationInv, Licences!RevocationTypeOK, Licences!RevocationsStay, WriterIsAlone, ChecksHold

LEMMA RevocationStep == RevocationInv /\ Licences!RevocationNext => RevocationInv'
  <1> SUFFICES ASSUME RevocationInv, Licences!RevocationNext PROVE RevocationInv'
    OBVIOUS
  <1>1. ASSUME NEW r \in Readers, NEW j \in Jtis, Licences!StartCheck(r, j) PROVE RevocationInv'
    <2> DEFINE b == j \in revoked \cup unsettled
               e == [jti |-> j, step |-> "look", bound |-> b]
    <2>1. e \in Licences!Reading
      BY DEF Licences!Reading
    <2>2. CheckHolds(e)
      BY DEF CheckHolds
    <2> QED BY <1>1, <2>1, <2>2, ReaderMoves DEF Licences!StartCheck
  <1>2. ASSUME NEW r \in Readers, NEW step \in {"read", "valid", "refused"}, readers[r] # None,
               readers' = [readers EXCEPT ![r].step = step],
               readers[r].bound => (step = "read" => readers[r].jti \in list) /\ step # "valid",
               UNCHANGED <<list, lock, writers, revoked, unsettled>>
        PROVE  RevocationInv'
    <2> DEFINE e == [readers[r] EXCEPT !.step = step]
    <2>1. readers[r] \in Licences!Reading
      BY <1>2 DEF RevocationInv, Licences!RevocationTypeOK
    <2>2. e \in Licences!Reading /\ e.jti = readers[r].jti /\ e.step = step /\ e.bound = readers[r].bound
      BY <2>1 DEF Licences!Reading
    <2>3. readers' = [readers EXCEPT ![r] = e]
      BY <1>2, Zenon
    <2> HIDE DEF e
    <2>4. CheckHolds(e)
      BY <1>2, <2>2 DEF CheckHolds
    <2> QED BY <1>2, <2>2, <2>3, <2>4, ReaderMoves
  <1>3. ASSUME NEW r \in Readers, Licences!LookForLock(r) PROVE RevocationInv'
    <2>1. readers[r] # None /\ (~lock => (readers[r].bound => readers[r].jti \in list))
      BY <1>3 DEF Licences!LookForLock, RevocationInv, ChecksHold, CheckHolds, WriterIsAlone, Licences!RevocationsStay
    <2> QED BY <1>2, <1>3, <2>1 DEF Licences!LookForLock, Licences!Pending
  <1>4. ASSUME NEW r \in Readers, Licences!ReadList(r) PROVE RevocationInv'
    <2>1. readers[r] # None /\ (readers[r].bound => readers[r].jti \in list)
      BY <1>4 DEF Licences!ReadList, RevocationInv, ChecksHold, CheckHolds
    <2> QED BY <1>2, <1>4, <2>1 DEF Licences!ReadList
  <1> QED BY <1>1, <1>3, <1>4, WriterSteps, LockRecovered DEF Licences!RevocationNext

LEMMA RevocationsHold == RevocationInv => Licences!RevokedIsRefused
  BY DEF RevocationInv, ChecksHold, CheckHolds, Licences!RevokedIsRefused

-----------------------------------------------------------------------------
(* Model calls.                                                            *)

\* The models the environment lets a chain name.
Lawful == {m \in Models!Listed : Models!Tier[m] = "default" \/ env.training}
LawfulChain(chain) == chain = <<Models!FreeRouter>> \/ (chain \in Seq(Lawful) /\ Len(chain) <= Models!MaxChain)

\* A model that is recorded was asked for, or the free router has chosen it.
ModelsAreLawful ==
    \A c \in Chats :
        /\ LawfulChain(chat[c].chain)
        /\ chat[c].result = "ok" => chat[c].model # None
        /\ chat[c].model # None => /\ chat[c].model \in Models!Listed
                                   /\ chat[c].chain = <<Models!FreeRouter>> \/ chat[c].model \in Lawful

\* A call is posted once before it sleeps, has a result when it is answered, and a receipt only at its end.
CallsAreBooked ==
    /\ \A c \in Chats :
          /\ chat[c].at = "asleep" => chat[c].posts = 1
          /\ chat[c].at = "answered" => chat[c].result # None
          /\ chat[c].at = "over" /\ c \notin unbooked =>
                [call |-> c, status |-> chat[c].result, agent |-> chat[c].agent] \in bookings
    /\ \A r \in bookings : chat[r.call].at = "over"
    /\ \A r, s \in bookings : r.call = s.call => r = s

ChatInv == Models!ChatTypeOK /\ ModelsAreLawful /\ CallsAreBooked

LEMMA TierNames ==
    /\ Models!Listed = {"gemma", "small", "super", "lightning", "ultra"}
    /\ Models!Tier["gemma"] = "default" /\ Models!Tier["small"] = "default"
    /\ Models!FreeRouter \notin Models!Listed /\ Models!Listed \subseteq Models!ModelNames /\ None \notin Models!ModelNames
    /\ Models!FreeRouter \in Models!ModelNames /\ Models!MaxChain = 3
  BY ModelsAssumption DEF Models!Tier, Models!Listed, Models!FreeRouter, Models!ModelNames, Models!MaxChain

LEMMA ChainsAreOfModels == ASSUME NEW chain, LawfulChain(chain) PROVE chain \in Seq(Models!ModelNames) /\ Len(chain) <= Models!MaxChain
  <1>1. Lawful \subseteq Models!ModelNames
    BY TierNames DEF Lawful
  <1>2. CASE chain = <<Models!FreeRouter>>
    BY <1>2, TierNames
  <1>3. CASE chain \in Seq(Lawful) /\ Len(chain) <= Models!MaxChain
    BY <1>1, <1>3
  <1> QED BY <1>2, <1>3 DEF LawfulChain

LEMMA ActiveIsLawful ==
    Models!ActiveChain \in Seq(Lawful) /\ Len(Models!ActiveChain) <= 3
  <1>1. "gemma" \in Lawful /\ "small" \in Lawful /\ (env.training => "super" \in Lawful /\ "lightning" \in Lawful)
    BY TierNames DEF Lawful
  <1> DEFINE L == Lawful
  <1>2. "gemma" \in L /\ "small" \in L /\ (env.training => "super" \in L /\ "lightning" \in L)
    BY <1>1
  <1> HIDE DEF L
  <1>3. CASE env.training
    <2>1. Models!ActiveChain = <<"gemma", "super", "lightning">>
      BY <1>3 DEF Models!ActiveChain, Models!Training
    <2>2. <<"gemma", "super", "lightning">> \in Seq(L) /\ Len(<<"gemma", "super", "lightning">>) = 3
      BY <1>2, <1>3
    <2> QED BY <2>1, <2>2 DEF L
  <1>4. CASE ~env.training
    <2>1. Models!ActiveChain = <<"gemma", "small">>
      BY <1>4 DEF Models!ActiveChain, Models!DefaultChain
    <2>2. <<"gemma", "small">> \in Seq(L) /\ Len(<<"gemma", "small">>) = 2
      BY <1>2
    <2> QED BY <2>1, <2>2 DEF L
  <1> QED BY <1>3, <1>4

\* Leaving a name out leaves the others.
LEMMA WithoutKeeps ==
    ASSUME NEW S, NEW chain \in Seq(S), NEW m
    PROVE  Models!Without(chain, m) \in Seq(S)
  <1>1. CASE \E i \in DOMAIN chain : chain[i] = m
    <2> DEFINE at1 == CHOOSE i \in DOMAIN chain : chain[i] = m
    <2>1. at1 \in 1 .. Len(chain)
      BY <1>1
    <2>2. Models!Without(chain, m) = SubSeq(chain, 1, at1 - 1) \o SubSeq(chain, at1 + 1, Len(chain))
      BY <1>1 DEF Models!Without
    <2> HIDE DEF at1
    <2>3. SubSeq(chain, 1, at1 - 1) \in Seq(S)
      BY <2>1
    <2>4. SubSeq(chain, at1 + 1, Len(chain)) \in Seq(S)
      BY <2>1
    <2> QED BY <2>2, <2>3, <2>4
  <1>2. CASE ~(\E i \in DOMAIN chain : chain[i] = m)
    BY <1>2 DEF Models!Without
  <1> QED BY <1>1, <1>2

\* Every chain is lawful, whatever model a call names and whatever the environment says.
LEMMA ResolvedIsLawful == ASSUME NEW m \in Models!ModelNames \cup {None} PROVE LawfulChain(Models!Resolve(m))
  <1>0. <<>> \in Seq(Lawful) /\ Len(<<>>) = 0 /\ Models!MaxChain = 3
    BY TierNames
  <1>1. ASSUME NEW k \in Lawful PROVE Models!StartingWith(k) \in Seq(Lawful) /\ Len(Models!StartingWith(k)) <= 3
    <2> DEFINE rest == Models!Without(Models!ActiveChain, k)
               chain == <<k>> \o rest
               n == IF Len(chain) < Models!MaxChain THEN Len(chain) ELSE Models!MaxChain
    <2>1. rest \in Seq(Lawful)
      BY ActiveIsLawful, WithoutKeeps
    <2> HIDE DEF rest
    <2>2. chain \in Seq(Lawful) /\ Len(chain) \in Nat
      BY <2>1
    <2>3. Models!StartingWith(k) = SubSeq(chain, 1, n)
      BY DEF Models!StartingWith, rest
    <2> HIDE DEF chain
    <2>4. n \in Nat /\ n <= Len(chain) /\ n <= 3
      BY <1>0, <2>2
    <2> HIDE DEF n
    <2> QED BY <2>2, <2>3, <2>4
  <1>2. CASE m = Models!FreeRouter
    BY <1>0, <1>2 DEF Models!Resolve, LawfulChain
  <1>3. CASE m # Models!FreeRouter
    <2> DEFINE chosen == IF m = None THEN env.model ELSE m
    <2>1. Models!Resolve(m) = IF chosen = None THEN Models!ActiveChain
                              ELSE IF Models!Permitted(chosen) THEN Models!StartingWith(chosen) ELSE <<>>
      BY <1>3 DEF Models!Resolve
    <2> HIDE DEF chosen
    <2>2. Models!Permitted(chosen) => chosen \in Lawful
      BY DEF Models!Permitted, Lawful
    <2> QED BY <1>0, <1>1, <2>1, <2>2, ActiveIsLawful DEF LawfulChain
  <1> QED BY <1>2, <1>3

LEMMA ChatStarts == Models!Init => ChatInv
  <1> SUFFICES ASSUME Models!Init PROVE ChatInv
    OBVIOUS
  <1>1. Models!ChatTypeOK
    BY DEF Models!Init, Models!ChatTypeOK
  <1>2. <<>> \in Seq(Lawful) /\ Len(<<>>) <= Models!MaxChain
    BY TierNames
  <1>3. \A c \in Chats : chat[c].chain = <<>> /\ chat[c].result = None /\ chat[c].model = None /\ chat[c].at = "idle"
    BY DEF Models!Init
  <1>4. ModelsAreLawful
    BY <1>2, <1>3, ModelsAssumption DEF ModelsAreLawful, LawfulChain, Models!Statuses
  <1>5. CallsAreBooked
    BY <1>3 DEF Models!Init, CallsAreBooked
  <1> QED BY <1>1, <1>4, <1>5 DEF ChatInv

LEMMA ChatTypes ==
    ASSUME ChatInv
    PROVE  /\ chat \in [Chats -> [at : {"idle", "posted", "asleep", "answered", "over"}, posts : 0..2,
                                  chain : {<<>>} \cup Seq(Models!ModelNames), result : Models!Statuses \cup {None},
                                  model : Models!ModelNames \cup {None}, agent : {"a", "b"}]]
           /\ unbooked \subseteq Chats /\ bound \in {"a", "b"}
           /\ \A r \in bookings : r.call \in Chats /\ r.status \in Models!Statuses /\ r.agent \in {"a", "b"}
           /\ None \notin Models!Statuses /\ None \notin Models!ModelNames
  BY ModelsAssumption DEF ChatInv, Models!ChatTypeOK

LEMMA ChatHolds == ChatInv => Models!ReceiptsAreKept /\ Models!TrainingIsOptIn
  <1> SUFFICES ASSUME ChatInv PROVE Models!ReceiptsAreKept /\ Models!TrainingIsOptIn
    OBVIOUS
  <1>1. Models!ReceiptsAreKept
    <2>1. ASSUME NEW c \in Chats, chat[c].at = "over", c \notin unbooked
          PROVE  {r \in bookings : r.call = c} = {[call |-> c, status |-> chat[c].result, agent |-> chat[c].agent]}
      <3> DEFINE b == [call |-> c, status |-> chat[c].result, agent |-> chat[c].agent]
      <3>1. b \in bookings /\ b.call = c
        BY <2>1 DEF ChatInv, CallsAreBooked
      <3> HIDE DEF b
      <3>2. \A r \in bookings : r.call = c => r = b
        BY <3>1 DEF ChatInv, CallsAreBooked
      <3>3. {r \in bookings : r.call = c} = {b}
        BY <3>1, <3>2
      <3> QED BY <3>3 DEF b
    <2> QED BY <2>1 DEF ChatInv, CallsAreBooked, Models!ReceiptsAreKept
  <1>2. ASSUME NEW c \in Chats, chat[c].chain # <<Models!FreeRouter>>, ~env.training,
               NEW m \in {chat[c].chain[i] : i \in DOMAIN chat[c].chain} \cup {chat[c].model}, m \in Models!Listed
        PROVE  Models!Tier[m] = "default"
    <2>1. chat[c].chain \in Seq(Lawful) /\ (chat[c].model # None => chat[c].model \in Lawful)
      BY <1>2 DEF ChatInv, ModelsAreLawful, LawfulChain
    <2>2. \A i \in DOMAIN chat[c].chain : chat[c].chain[i] \in Lawful
      <3> DEFINE L == Lawful
                 chain == chat[c].chain
      <3>1. chain \in Seq(L)
        BY <2>1
      <3> HIDE DEF L, chain
      <3>2. \A i \in DOMAIN chain : chain[i] \in L
        BY <3>1
      <3> QED BY <3>2 DEF L, chain
    <2>3. m \in Lawful
      BY <1>2, <2>1, <2>2, TierNames
    <2> QED BY <1>2, <2>3 DEF Lawful
  <1>3. \A c \in Chats : Len(chat[c].chain) <= Models!MaxChain
    BY ChainsAreOfModels DEF ChatInv, ModelsAreLawful
  <1>4. \A c \in Chats : chat[c].result = "ok" => chat[c].model \in Models!Listed
    BY DEF ChatInv, ModelsAreLawful
  <1>5. Models!TrainingIsOptIn
    BY <1>2, <1>3, <1>4 DEF Models!TrainingIsOptIn
  <1> QED BY <1>1, <1>5


ChatRow == [at : {"idle", "posted", "asleep", "answered", "over"}, posts : 0..2,
            chain : {<<>>} \cup Seq(Models!ModelNames), result : Models!Statuses \cup {None},
            model : Models!ModelNames \cup {None}, agent : {"a", "b"}]

\* What a call may name and have been answered by.
RowIsLawful(x) ==
    /\ LawfulChain(x.chain)
    /\ x.result = "ok" => x.model # None
    /\ x.model # None => /\ x.model \in Models!Listed
                         /\ x.chain = <<Models!FreeRouter>> \/ x.model \in Lawful

LEMMA ChatRows == ASSUME ChatInv PROVE chat \in [Chats -> ChatRow] /\ \A c \in Chats : chat[c] \in ChatRow /\ RowIsLawful(chat[c])
  BY ChatTypes DEF ChatRow, ChatInv, ModelsAreLawful, RowIsLawful

\* A step of one call that leaves the other calls, the environment and lawfulness as they are.
LEMMA RowTurns ==
    ASSUME ChatInv, NEW c \in Chats, NEW x \in ChatRow, chat' = [chat EXCEPT ![c] = x], UNCHANGED <<env, bound>>, RowIsLawful(x),
           unbooked \subseteq unbooked', unbooked' \subseteq Chats,
           \A r \in bookings' : r.call \in Chats /\ r.status \in Models!Statuses /\ r.agent \in {"a", "b"}
    PROVE  Models!ChatTypeOK' /\ ModelsAreLawful' /\ \A d \in Chats : chat'[d] = IF d = c THEN x ELSE chat[d]
  <1>1. \A d \in Chats : chat'[d] = IF d = c THEN x ELSE chat[d]
    BY ChatRows
  <1>2. chat' \in [Chats -> ChatRow]
    BY ChatRows
  <1>3. Models!ChatTypeOK'
    BY <1>2 DEF ChatInv, Models!ChatTypeOK, ChatRow
  <1>4. \A d \in Chats : RowIsLawful(chat'[d])
    BY <1>1, ChatRows
  <1>5. Lawful' = Lawful
    BY DEF Lawful
  <1>6. ModelsAreLawful'
    BY <1>4, <1>5 DEF RowIsLawful, ModelsAreLawful, LawfulChain
  <1> QED BY <1>1, <1>3, <1>6

LEMMA CallGoesOn ==
    ASSUME ChatInv, NEW c \in Chats, NEW x \in ChatRow, chat' = [chat EXCEPT ![c] = x], UNCHANGED <<env, bound, bookings, unbooked>>,
           RowIsLawful(x), chat[c].at # "over", x.at # "over",
           x.at = "asleep" => x.posts = 1, x.at = "answered" => x.result # None
    PROVE  ChatInv'
  <1>1. Models!ChatTypeOK' /\ ModelsAreLawful' /\ \A d \in Chats : chat'[d] = IF d = c THEN x ELSE chat[d]
    BY ChatTypes, RowTurns
  <1>2. CallsAreBooked'
    BY <1>1, ChatTypes DEF ChatInv, CallsAreBooked
  <1> QED BY <1>1, <1>2 DEF ChatInv

LEMMA BeginStep ==
    ASSUME ChatInv, NEW c \in Chats, NEW m \in Models!ModelNames \cup {None}, Models!Begin(c, m)
    PROVE  ChatInv'
  <1> DEFINE chain == Models!Resolve(m)
             Started(at1, n, result) == [at |-> at1, posts |-> n, chain |-> chain, result |-> result, model |-> None, agent |-> bound]
             x == IF ~env.key THEN Started("answered", 0, "not_configured")
                  ELSE IF chain = <<>> THEN Started("answered", 0, "not_allowlisted")
                  ELSE Started("posted", 1, None)
  <1>0. chat[c].at = "idle" /\ chat' = [chat EXCEPT ![c] = x] /\ UNCHANGED <<env, bookings, bound, unbooked>>
    BY DEF Models!Begin
  <1>1. LawfulChain(chain) /\ chain \in Seq(Models!ModelNames)
    BY ResolvedIsLawful, ChainsAreOfModels
  <1> HIDE DEF chain
  <1>2. ASSUME NEW at1 \in {"answered", "posted"}, NEW n \in 0 .. 2, NEW result \in {"not_configured", "not_allowlisted", None}
        PROVE  Started(at1, n, result) \in ChatRow /\ RowIsLawful(Started(at1, n, result))
    BY <1>1, ChatTypes DEF ChatRow, RowIsLawful, Models!Statuses
  <1>3. /\ x \in ChatRow /\ RowIsLawful(x) /\ x.at \in {"answered", "posted"}
        /\ x.at = "answered" => x.result # None
    <2>1. Started("answered", 0, "not_configured").result # None /\ Started("answered", 0, "not_allowlisted").result # None
      BY ChatTypes DEF Models!Statuses
    <2>2. \A at1, n, result : Started(at1, n, result).at = at1
      OBVIOUS
    <2> HIDE DEF Started
    <2> QED BY <1>2, <2>1, <2>2
  <1> HIDE DEF x
  <1> QED BY <1>0, <1>3, CallGoesOn

LEMMA OutcomeStep ==
    ASSUME ChatInv, NEW c \in Chats, chat[c].at = "posted", NEW code \in Models!Statuses, NEW model \in Models!Listed \cup {None},
           Models!Outcome(c, code, model), UNCHANGED <<env, bookings, bound, unbooked>>,
           code = "ok" => model # None,
           model # None => chat[c].chain = <<Models!FreeRouter>> \/ model \in Lawful
    PROVE  ChatInv'
  <1> DEFINE y == chat[c]
             y1 == [y EXCEPT !.at = "answered"]
             y2 == [y1 EXCEPT !.result = code]
             x == [y2 EXCEPT !.model = model]
  <1>0. y \in ChatRow /\ RowIsLawful(y)
    BY ChatRows
  <1>1. chat' = [chat EXCEPT ![c] = x]
    <2>1. [chat EXCEPT ![c].at = "answered"] = [chat EXCEPT ![c] = y1]
      BY ChatRows
    <2>2. [chat EXCEPT ![c].at = "answered", ![c].result = code] = [chat EXCEPT ![c] = y2]
      BY ChatRows
    <2>3. [chat EXCEPT ![c].at = "answered", ![c].result = code, ![c].model = model] = [chat EXCEPT ![c] = x]
      BY ChatRows
    <2> QED BY <2>3 DEF Models!Outcome
  <1> HIDE DEF y
  <1>2. /\ x \in ChatRow /\ x.at = "answered" /\ x.result = code /\ x.model = model /\ x.chain = y.chain
    BY <1>0, TierNames DEF ChatRow
  <1> HIDE DEF x
  <1>3. RowIsLawful(x)
    BY <1>0, <1>2 DEF RowIsLawful, y
  <1> QED BY <1>1, <1>2, <1>3, ChatTypes, CallGoesOn

LEMMA AnswerStep ==
    ASSUME ChatInv, NEW c \in Chats,
           Models!Unreached(c) \/ Models!Failed(c) \/ (\E m \in Models!Listed \cup {"other"} : Models!Completed(c, m))
    PROVE  ChatInv'
  <1>0. chat[c].at = "posted" /\ UNCHANGED <<env, bookings, bound, unbooked>>
    BY DEF Models!Unreached, Models!Failed, Models!Completed
  <1>1. {"error", "ok", "rejected_model"} \subseteq Models!Statuses
    BY DEF Models!Statuses
  <1>2. CASE Models!Outcome(c, "error", None) \/ Models!Outcome(c, "rejected_model", None)
    BY <1>0, <1>1, <1>2, OutcomeStep
  <1>3. ASSUME NEW m \in Models!Listed \cup {"other"}, Models!Acceptable(m, chat[c].chain), Models!Outcome(c, "ok", m)
        PROVE  ChatInv'
    <2>1. m \in Models!Listed /\ m # None
      BY <1>3, TierNames DEF Models!Acceptable
    <2>2. chat[c].chain = <<Models!FreeRouter>> \/ m \in Lawful
      <3> SUFFICES ASSUME chat[c].chain # <<Models!FreeRouter>> PROVE m \in Lawful
        OBVIOUS
      <3> DEFINE chain == chat[c].chain
                 L == Lawful
      <3>1. chain \in Seq(L)
        BY ChatRows DEF RowIsLawful, LawfulChain
      <3>2. \E i \in DOMAIN chain : chain[i] = m
        BY <1>3 DEF Models!Acceptable
      <3> HIDE DEF chain, L
      <3>3. m \in L
        BY <3>1, <3>2
      <3> QED BY <3>3 DEF L
    <2> QED BY <1>0, <1>1, <1>3, <2>1, <2>2, OutcomeStep
  <1> QED BY <1>2, <1>3 DEF Models!Unreached, Models!Failed, Models!Completed

LEMMA LimitedStep ==
    ASSUME ChatInv, NEW c \in Chats, Models!Limited(c) \/ Models!Again(c)
    PROVE  ChatInv'
  <1> DEFINE y == chat[c]
  <1>0. UNCHANGED <<env, bookings, bound, unbooked>> /\ y \in ChatRow /\ RowIsLawful(y)
    BY ChatRows DEF Models!Limited, Models!Again
  <1>1. CASE y.at = "posted" /\ y.posts = 1 /\ chat' = [chat EXCEPT ![c].at = "asleep"]
    <2> DEFINE x == [y EXCEPT !.at = "asleep"]
    <2>1. chat' = [chat EXCEPT ![c] = x]
      BY <1>1, ChatRows
    <2> HIDE DEF y
    <2>2. x \in ChatRow /\ x.at = "asleep" /\ x.posts = 1 /\ x.chain = y.chain /\ x.result = y.result /\ x.model = y.model
      BY <1>0, <1>1 DEF ChatRow
    <2> HIDE DEF x
    <2>3. RowIsLawful(x)
      BY <1>0, <2>2 DEF RowIsLawful
    <2>4. chat[c].at # "over"
      BY <1>1 DEF y
    <2> QED BY <1>0, <2>1, <2>2, <2>3, <2>4, CallGoesOn
  <1>2. CASE y.at = "posted" /\ Models!Outcome(c, "rate_limited", None)
    BY <1>0, <1>2, OutcomeStep DEF Models!Statuses
  <1>3. CASE Models!Again(c)
    <2> DEFINE y1 == [y EXCEPT !.at = "posted"]
               x == [y1 EXCEPT !.posts = @ + 1]
    <2>0. y.at = "asleep" /\ y.posts = 1
      BY <1>3 DEF Models!Again, ChatInv, CallsAreBooked
    <2>1. chat' = [chat EXCEPT ![c] = x]
      <3>1. chat' = [chat EXCEPT ![c].at = "posted", ![c].posts = @ + 1]
        BY <1>3 DEF Models!Again
      <3>2. [chat EXCEPT ![c].at = "posted"] = [chat EXCEPT ![c] = y1]
        BY ChatRows
      <3>3. [chat EXCEPT ![c].at = "posted", ![c].posts = @ + 1] = [chat EXCEPT ![c] = x]
        BY ChatRows
      <3> QED BY <3>1, <3>3
    <2>2. y.at # "over"
      BY <2>0
    <2> HIDE DEF y
    <2>3. x \in ChatRow /\ x.at = "posted" /\ x.chain = y.chain /\ x.result = y.result /\ x.model = y.model
      <3>1. /\ y1 \in ChatRow /\ y1.at = "posted" /\ y1.posts = 1
            /\ y1.chain = y.chain /\ y1.result = y.result /\ y1.model = y.model
        BY <1>0, <2>0 DEF ChatRow
      <3> HIDE DEF y1
      <3>2. x = [y1 EXCEPT !.posts = 2]
        BY <3>1 DEF ChatRow
      <3> HIDE DEF x
      <3> QED BY <3>1, <3>2 DEF ChatRow
    <2> HIDE DEF x
    <2>4. RowIsLawful(x)
      BY <1>0, <2>3 DEF RowIsLawful
    <2>5. chat[c].at # "over"
      BY <2>2 DEF y
    <2> QED BY <1>0, <2>1, <2>3, <2>4, <2>5, CallGoesOn
  <1> QED BY <1>1, <1>2, <1>3 DEF Models!Limited, Models!MayRetry

LEMMA CutOffStep ==
    ASSUME ChatInv, NEW c \in Chats, Models!CutOff(c)
    PROVE  ChatInv'
  <1> DEFINE y == chat[c]
             y1 == [y EXCEPT !.at = "over"]
             x == [y1 EXCEPT !.result = "error"]
  <1>0. y.at = "posted" /\ y \in ChatRow /\ RowIsLawful(y) /\ unbooked' = unbooked \cup {c} /\ UNCHANGED <<env, bookings, bound>>
    BY ChatRows DEF Models!CutOff
  <1>1. chat' = [chat EXCEPT ![c] = x]
    <2>1. [chat EXCEPT ![c].at = "over"] = [chat EXCEPT ![c] = y1]
      BY ChatRows
    <2>2. [chat EXCEPT ![c].at = "over", ![c].result = "error"] = [chat EXCEPT ![c] = x]
      BY ChatRows
    <2> QED BY <2>2 DEF Models!CutOff
  <1>2. chat[c].at # "over"
    BY <1>0
  <1> HIDE DEF y
  <1>3. x \in ChatRow /\ x.at = "over" /\ x.result = "error" /\ x.chain = y.chain /\ x.model = y.model
    BY <1>0 DEF ChatRow, Models!Statuses
  <1> HIDE DEF x
  <1>4. RowIsLawful(x)
    BY <1>0, <1>3 DEF RowIsLawful
  <1>5. Models!ChatTypeOK' /\ ModelsAreLawful' /\ \A d \in Chats : chat'[d] = IF d = c THEN x ELSE chat[d]
    BY <1>0, <1>1, <1>3, <1>4, ChatTypes, RowTurns
  <1>6. CallsAreBooked'
    BY <1>0, <1>2, <1>3, <1>5, ChatTypes DEF ChatInv, CallsAreBooked
  <1> QED BY <1>5, <1>6 DEF ChatInv

LEMMA WriteReceiptStep ==
    ASSUME ChatInv, NEW c \in Chats, Models!WriteReceipt(c)
    PROVE  ChatInv'
  <1> DEFINE y == chat[c]
             x == [y EXCEPT !.at = "over"]
             b == [call |-> c, status |-> y.result, agent |-> bound]
  <1>0. /\ y.at = "answered" /\ y \in ChatRow /\ RowIsLawful(y) /\ UNCHANGED <<env, bound>>
        /\ chat' = [chat EXCEPT ![c].at = "over"]
        /\ \/ bookings' = bookings \cup {b} /\ unbooked' = (IF bound = y.agent THEN unbooked ELSE unbooked \cup {c})
           \/ unbooked' = unbooked \cup {c} /\ UNCHANGED bookings
    BY ChatRows DEF Models!WriteReceipt, Models!ReceiptAgent
  <1>1. chat' = [chat EXCEPT ![c] = x]
    BY <1>0, ChatRows
  <1>2. chat[c].at # "over" /\ y.result \in Models!Statuses
    BY <1>0, ChatTypes DEF ChatInv, CallsAreBooked, ChatRow
  <1>3. b.call = c /\ b.status = y.result /\ b.agent = bound /\ b.agent \in {"a", "b"}
    BY ChatTypes
  <1>4. x \in ChatRow /\ x.at = "over" /\ x.result = y.result /\ x.chain = y.chain /\ x.model = y.model /\ x.agent = y.agent
    <2> HIDE DEF y
    <2> QED BY <1>0 DEF ChatRow
  <1> HIDE DEF x
  <1>5. RowIsLawful(x)
    <2> HIDE DEF y
    <2> QED BY <1>0, <1>4 DEF RowIsLawful
  <1>6. \A r \in bookings : r.call # c
    BY <1>2 DEF ChatInv, CallsAreBooked
  <1>7. bound = y.agent => b = [call |-> c, status |-> x.result, agent |-> x.agent]
    BY <1>4
  <1> HIDE DEF y, b
  <1>8. Models!ChatTypeOK' /\ ModelsAreLawful' /\ \A d \in Chats : chat'[d] = IF d = c THEN x ELSE chat[d]
    <2>1. unbooked \subseteq unbooked' /\ unbooked' \subseteq Chats
      BY <1>0, ChatTypes
    <2>2. \A r \in bookings' : r.call \in Chats /\ r.status \in Models!Statuses /\ r.agent \in {"a", "b"}
      BY <1>0, <1>2, <1>3, ChatTypes
    <2> QED BY <1>0, <1>1, <1>4, <1>5, <2>1, <2>2, RowTurns
  <1>9. CallsAreBooked'
    <2>1. ASSUME NEW d \in Chats, chat'[d].at = "over", d \notin unbooked'
          PROVE  [call |-> d, status |-> chat'[d].result, agent |-> chat'[d].agent] \in bookings'
      <3>1. CASE d = c
        BY <1>0, <1>7, <1>8, <2>1, <3>1
      <3>2. CASE d # c
        <4>1. chat'[d] = chat[d] /\ d \notin unbooked /\ bookings \subseteq bookings'
          BY <1>0, <1>8, <2>1, <3>2
        <4> QED BY <2>1, <4>1 DEF ChatInv, CallsAreBooked
      <3> QED BY <3>1, <3>2
    <2>2. \A d \in Chats : /\ chat'[d].at = "asleep" => chat'[d].posts = 1
                           /\ chat'[d].at = "answered" => chat'[d].result # None
      BY <1>4, <1>8 DEF ChatInv, CallsAreBooked
    <2>3. \A r \in bookings' : r \in bookings \/ r = b
      BY <1>0
    <2>4. \A r \in bookings' : chat'[r.call].at = "over"
      BY <1>3, <1>4, <1>8, <2>3, ChatTypes DEF ChatInv, CallsAreBooked
    <2>5. \A r, s \in bookings' : r.call = s.call => r = s
      BY <1>3, <1>6, <2>3 DEF ChatInv, CallsAreBooked
    <2> QED BY <2>1, <2>2, <2>4, <2>5 DEF CallsAreBooked
  <1> QED BY <1>8, <1>9 DEF ChatInv

LEMMA ChatRests == ChatInv /\ UNCHANGED <<env, chat, bookings, unbooked>> /\ bound' \in {"a", "b"} => ChatInv'
  BY DEF ChatInv, Models!ChatTypeOK, ModelsAreLawful, LawfulChain, Lawful, CallsAreBooked

LEMMA ChatStep == ChatInv /\ Models!ChatNext => ChatInv'
  <1> SUFFICES ASSUME ChatInv, Models!ChatNext PROVE ChatInv'
    OBVIOUS
  <1>1. CASE Models!Rebind
    BY <1>1, ChatRests DEF Models!Rebind
  <1> QED BY <1>1, BeginStep, AnswerStep, LimitedStep, CutOffStep, WriteReceiptStep DEF Models!ChatNext

-----------------------------------------------------------------------------
(* The tools of a skill.                                                   *)

\* The entry of the round in progress stands as good until its result is taken.
TraceFollows ==
    /\ Len(skill.trace) = skill.rounds
    /\ skill.at = "idle" => skill.rounds = 0 /\ skill.ran = {}
    /\ skill.at = "tool" => skill.rounds > 0 /\ skill.rounds \notin skill.ran /\ skill.trace[skill.rounds].tool = skill.tool
    /\ skill.at = "told" => skill.rounds > 0 /\ (skill.ok => skill.rounds \in skill.ran)
    /\ skill.at = "over" => skill.result # None
    /\ skill.at # "over" => skill.result = None
    /\ \A i \in skill.ran : i \in 1 .. skill.rounds /\ skill.trace[i].tool \in skill.allowed
    /\ \A i \in 1 .. skill.rounds : skill.trace[i].ok =>
          \/ i \in skill.ran
          \/ i = skill.rounds /\ (skill.at \in {"tool", "told"} \/ (skill.at = "over" /\ skill.result # "ran"))

SkillInv == Models!SkillTypeOK /\ TraceFollows

LEMMA SkillStarts == Models!Init => SkillInv
  <1> SUFFICES ASSUME Models!Init PROVE SkillInv
    OBVIOUS
  <1>1. /\ skill = [at |-> "idle", rounds |-> 0, allowed |-> {}, tool |-> None, ok |-> TRUE,
                    trace |-> <<>>, ran |-> {}, result |-> None]
    BY DEF Models!Init
  <1>2. Models!SkillTypeOK
    BY <1>1, ModelsAssumption DEF Models!SkillTypeOK
  <1>3. TraceFollows
    BY <1>1 DEF TraceFollows
  <1> QED BY <1>2, <1>3 DEF SkillInv

LEMMA SkillTypes ==
    ASSUME SkillInv
    PROVE  /\ skill.at \in {"idle", "model", "tool", "told", "over"} /\ skill.rounds \in 0 .. MaxRounds /\ MaxRounds \in Nat
           /\ skill.allowed \subseteq Tools /\ skill.tool \in Tools \cup {None} /\ skill.ok \in BOOLEAN
           /\ skill.trace \in Seq([tool : Tools, ok : BOOLEAN]) /\ skill.ran \subseteq 1 .. MaxRounds
           /\ skill.result \in {None, "ran", "failed", "thrown"} /\ None \notin Tools
           /\ DOMAIN skill = {"at", "rounds", "allowed", "tool", "ok", "trace", "ran", "result"}
           /\ \A i \in 1 .. skill.rounds : skill.trace[i].tool \in Tools /\ skill.trace[i].ok \in BOOLEAN
  <1> DEFINE M == [tool : Tools, ok : BOOLEAN]
  <1>1. skill.trace \in Seq(M)
    BY DEF SkillInv, Models!SkillTypeOK
  <1>2. \A i \in 1 .. Len(skill.trace) : skill.trace[i] \in M
    <2> HIDE DEF M
    <2> QED BY <1>1
  <1> QED BY <1>2, ModelsAssumption DEF SkillInv, Models!SkillTypeOK, TraceFollows

LEMMA SkillHolds == SkillInv => Models!TraceIsTrue
  <1> SUFFICES ASSUME SkillInv PROVE Models!TraceIsTrue
    OBVIOUS
  <1>1. DOMAIN skill.trace = 1 .. skill.rounds
    BY SkillTypes DEF SkillInv, TraceFollows
  <1> QED BY <1>1, ModelsAssumption DEF SkillInv, TraceFollows, Models!TraceIsTrue

LEMMA PrepareStep ==
    ASSUME SkillInv, NEW tools \in SUBSET Tools, Models!Prepare(tools)
    PROVE  SkillInv'
  <1>0. skill.at = "idle" /\ skill' = [skill EXCEPT !.at = "model", !.allowed = tools]
    BY DEF Models!Prepare
  <1>1. Models!SkillTypeOK'
    BY <1>0 DEF SkillInv, Models!SkillTypeOK
  <1>2. /\ skill'.at = "model" /\ skill'.allowed = tools
        /\ UNCHANGED <<skill.rounds, skill.trace, skill.ran, skill.result, skill.ok, skill.tool>>
    BY <1>0, SkillTypes
  <1>3. TraceFollows'
    BY <1>0, <1>2 DEF SkillInv, TraceFollows
  <1> QED BY <1>1, <1>3 DEF SkillInv

LEMMA AskToolStep ==
    ASSUME SkillInv, NEW t \in Tools, Models!AskTool(t)
    PROVE  SkillInv'
  <1> DEFINE e == [tool |-> t, ok |-> TRUE]
             M == [tool : Tools, ok : BOOLEAN]
  <1>0. /\ skill.at = "model" /\ skill.rounds < MaxRounds
        /\ skill' = [skill EXCEPT !.at = "tool", !.rounds = @ + 1, !.tool = t, !.trace = Append(@, e)]
    BY DEF Models!AskTool
  <1>1. e \in M /\ e.tool = t
    OBVIOUS
  <1> HIDE DEF e
  <1>2. /\ skill'.at = "tool" /\ skill'.rounds = skill.rounds + 1 /\ skill'.tool = t /\ skill'.trace = Append(skill.trace, e)
        /\ UNCHANGED <<skill.ran, skill.result, skill.ok, skill.allowed>>
    BY <1>0, SkillTypes
  <1>3. skill.trace \in Seq(M) /\ Len(skill.trace) = skill.rounds /\ skill.rounds \in Nat
    BY SkillTypes DEF SkillInv, TraceFollows
  <1> HIDE DEF M
  <1>4. /\ skill'.trace \in Seq(M) /\ Len(skill'.trace) = skill.rounds + 1 /\ skill'.trace[skill.rounds + 1] = e
        /\ \A i \in 1 .. skill.rounds : skill'.trace[i] = skill.trace[i]
    BY <1>1, <1>2, <1>3
  <1>5. Models!SkillTypeOK'
    <2>1. skill'.rounds \in 0 .. MaxRounds
      BY <1>0, <1>2, SkillTypes
    <2> QED BY <1>0, <1>2, <1>4, <2>1 DEF SkillInv, Models!SkillTypeOK, M
  <1>6. TraceFollows'
    BY <1>0, <1>1, <1>2, <1>3, <1>4, SkillTypes DEF SkillInv, TraceFollows
  <1> QED BY <1>5, <1>6 DEF SkillInv

LEMMA RunToolStep ==
    ASSUME SkillInv, Models!RefuseTool \/ (\E ok \in BOOLEAN : Models!RunTool(ok))
    PROVE  SkillInv'
  <1>1. CASE Models!RefuseTool
    <2>0. skill.at = "tool" /\ skill' = [skill EXCEPT !.at = "told", !.ok = FALSE]
      BY <1>1 DEF Models!RefuseTool, Models!Told
    <2>1. /\ skill'.at = "told" /\ ~skill'.ok
          /\ UNCHANGED <<skill.rounds, skill.trace, skill.ran, skill.result, skill.allowed, skill.tool>>
      BY <2>0, SkillTypes
    <2>2. Models!SkillTypeOK'
      BY <2>0 DEF SkillInv, Models!SkillTypeOK
    <2>3. TraceFollows'
      BY <2>0, <2>1 DEF SkillInv, TraceFollows
    <2> QED BY <2>2, <2>3 DEF SkillInv
  <1>2. ASSUME NEW ok \in BOOLEAN, Models!RunTool(ok) PROVE SkillInv'
    <2>0. /\ skill.at = "tool" /\ skill.tool \in skill.allowed
          /\ skill' = [skill EXCEPT !.at = "told", !.ok = ok, !.ran = @ \cup {skill.rounds}]
      BY <1>2 DEF Models!RunTool, Models!OnList
    <2>1. /\ skill'.at = "told" /\ skill'.ran = skill.ran \cup {skill.rounds}
          /\ UNCHANGED <<skill.rounds, skill.trace, skill.result, skill.allowed, skill.tool>>
      BY <2>0, SkillTypes
    <2>2. skill.rounds > 0 /\ skill.rounds \in 1 .. MaxRounds
      BY <2>0, SkillTypes DEF SkillInv, TraceFollows
    <2>3. Models!SkillTypeOK'
      BY <2>0, <2>2 DEF SkillInv, Models!SkillTypeOK
    <2>4. TraceFollows'
      BY <2>0, <2>1, <2>2, SkillTypes DEF SkillInv, TraceFollows
    <2> QED BY <2>3, <2>4 DEF SkillInv
  <1> QED BY <1>1, <1>2

LEMMA TakeResultStep ==
    ASSUME SkillInv, Models!TakeResult
    PROVE  SkillInv'
  <1> DEFINE n == skill.rounds
             M == [tool : Tools, ok : BOOLEAN]
             e == [skill.trace[n] EXCEPT !.ok = @ /\ skill.ok]
  <1>0. /\ skill.at = "told" /\ n > 0 /\ n \in Nat /\ Len(skill.trace) = n /\ (skill.ok => n \in skill.ran)
        /\ skill.trace \in Seq(M) /\ skill.trace[n] \in M
    <2>1. skill.at = "told" /\ n > 0 /\ n \in Nat /\ Len(skill.trace) = n /\ (skill.ok => n \in skill.ran) /\ skill.trace \in Seq(M)
      BY SkillTypes DEF Models!TakeResult, SkillInv, TraceFollows
    <2> HIDE DEF M
    <2>2. skill.trace[n] \in M
      BY <2>1
    <2> QED BY <2>1, <2>2
  <1>1. skill' = [skill EXCEPT !.at = "model", !.tool = None, !.trace = [skill.trace EXCEPT ![n] = e]]
    BY <1>0 DEF Models!TakeResult, Models!MarkLast
  <1>2. e \in M /\ e.tool = skill.trace[n].tool /\ (e.ok => skill.ok)
    BY <1>0, SkillTypes
  <1> HIDE DEF e
  <1>3. /\ skill'.at = "model" /\ skill'.tool = None /\ skill'.trace = [skill.trace EXCEPT ![n] = e]
        /\ UNCHANGED <<skill.rounds, skill.ran, skill.result, skill.ok, skill.allowed>>
    BY <1>1, SkillTypes
  <1> HIDE DEF M
  <1>4. /\ skill'.trace \in Seq(M) /\ Len(skill'.trace) = n
        /\ \A i \in 1 .. n : skill'.trace[i] = IF i = n THEN e ELSE skill.trace[i]
    BY <1>0, <1>2, <1>3
  <1>5. Models!SkillTypeOK'
    BY <1>1, <1>3, <1>4 DEF SkillInv, Models!SkillTypeOK, M
  <1>6. TraceFollows'
    BY <1>0, <1>2, <1>3, <1>4, SkillTypes DEF SkillInv, TraceFollows
  <1> QED BY <1>5, <1>6 DEF SkillInv

LEMMA EndSkillStep ==
    ASSUME SkillInv, Models!Denied \/ Models!EndSkill
    PROVE  SkillInv'
  <1>0. PICK result \in {"ran", "failed", "thrown"} :
            skill.at \in {"model", "tool", "told"} /\ (result = "ran" => skill.at = "model")
            /\ skill' = [skill EXCEPT !.at = "over", !.result = result]
    BY DEF Models!Denied, Models!EndSkill
  <1>1. /\ skill'.at = "over" /\ skill'.result = result
        /\ UNCHANGED <<skill.rounds, skill.trace, skill.ran, skill.ok, skill.allowed, skill.tool>>
    BY <1>0, SkillTypes
  <1>2. Models!SkillTypeOK'
    BY <1>0 DEF SkillInv, Models!SkillTypeOK
  <1>3. TraceFollows'
    BY <1>0, <1>1, ModelsAssumption DEF SkillInv, TraceFollows
  <1> QED BY <1>2, <1>3 DEF SkillInv

LEMMA SkillRests == SkillInv /\ UNCHANGED skill => SkillInv'
  BY DEF SkillInv, Models!SkillTypeOK, TraceFollows

LEMMA SkillStep == SkillInv /\ Models!SkillNext => SkillInv'
  BY PrepareStep, AskToolStep, RunToolStep, TakeResultStep, EndSkillStep DEF Models!SkillNext

-----------------------------------------------------------------------------
(* The feed of events.                                                     *)

\* The row of its type that comes next for a client, for which it has 0 if there is none yet.
IsNext(w, i) ==
    /\ i \in Mail!RowsFor(w) /\ i > since[w]
    /\ \A j \in Mail!RowsFor(w) : j > since[w] => i <= j

\* What a poll has answered, or the request has found, is what the client has not been given yet.
Awaited(w) == ({wait[w].row} \cup {polls[w][k] : k \in 1 .. Len(polls[w])}) \ {0}
AnswersAreNext ==
    \A w \in Waiters : since[w] <= Len(log) /\ \A i \in Awaited(w) : IsNext(w, i)

FeedInv == Mail!FeedTypeOK /\ AnswersAreNext /\ Mail!FeedIsComplete

LEMMA FeedStarts == Mail!FeedInit => FeedInv
  <1> SUFFICES ASSUME Mail!FeedInit PROVE FeedInv
    OBVIOUS
  <1>1. Mail!FeedTypeOK
    BY FeedsAssumption DEF Mail!FeedInit, Mail!FeedTypeOK, Mail!Ids
  <1>2. AnswersAreNext
    BY DEF Mail!FeedInit, AnswersAreNext, Awaited
  <1>3. Mail!FeedIsComplete
    BY DEF Mail!FeedInit, Mail!FeedIsComplete, Mail!RowsFor
  <1> QED BY <1>1, <1>2, <1>3 DEF FeedInv

LEMMA FeedTypes ==
    ASSUME FeedInv
    PROVE  /\ log \in Seq(Types) /\ Len(log) \in Nat /\ Len(log) <= MaxEvents /\ MaxEvents \in Nat
           /\ wait \in [Waiters -> [at : {"idle", "first", "waiting", "settled"}, row : {0} \cup Mail!Ids]]
           /\ polls \in [Waiters -> Seq({0} \cup Mail!Ids)] /\ since \in [Waiters -> {0} \cup Mail!Ids]
           /\ got \in [Waiters -> Seq(Mail!Ids)] /\ Mail!Ids = 1 .. MaxEvents
           /\ \A w \in Waiters : since[w] \in Nat /\ Mail!RowsFor(w) = {i \in 1 .. Len(log) : log[i] = Wants[w]}
  BY FeedsAssumption DEF FeedInv, Mail!FeedTypeOK, Mail!Ids, Mail!RowsFor

LEMMA PolledIsNext ==
    ASSUME FeedInv, NEW w \in Waiters
    PROVE  Mail!Polled(w) \in {0} \cup Mail!Ids /\ (Mail!Polled(w) = 0 \/ IsNext(w, Mail!Polled(w)))
  <1> DEFINE S == {i \in Mail!RowsFor(w) : i > since[w]}
  <1>1. S \subseteq Mail!Ids /\ S \subseteq Nat
    BY FeedTypes
  <1>2. CASE S = {}
    BY <1>2 DEF Mail!Polled
  <1>3. CASE S # {}
    <2>1. Mail!Polled(w) = Mail!Min(S)
      BY <1>3 DEF Mail!Polled
    <2>2. Mail!Min(S) \in S /\ \A k \in S : Mail!Min(S) <= k
      <3> HIDE DEF S
      <3> QED BY <1>1, <1>3, LeastOf DEF Mail!Min
    <2> QED BY <1>1, <2>1, <2>2 DEF IsNext
  <1> QED BY <1>2, <1>3

\* What the polls of a waiter may become: one answer less, or one more that is what comes next.
Follows(w, answers) ==
    /\ answers \in Seq({0} \cup Mail!Ids) /\ Len(answers) <= MaxPolls
    /\ \A k \in 1 .. Len(answers) : answers[k] = 0 \/ IsNext(w, answers[k])

LEMMA PollsFollow ==
    ASSUME FeedInv, NEW w \in Waiters
    PROVE  /\ Follows(w, polls[w]) /\ Follows(w, <<>>) /\ Follows(w, <<Mail!Polled(w)>>)
           /\ Len(polls[w]) < MaxPolls => Follows(w, Append(polls[w], Mail!Polled(w)))
           /\ polls[w] # <<>> => Follows(w, Tail(polls[w])) /\ (Head(polls[w]) = 0 \/ IsNext(w, Head(polls[w])))
  <1> DEFINE q == polls[w]
             i == Mail!Polled(w)
             R == {0} \cup Mail!Ids
  <1>1. /\ q \in Seq(R) /\ Len(q) \in Nat /\ Len(q) <= MaxPolls /\ MaxPolls \in Nat /\ MaxPolls > 0
        /\ \A k \in 1 .. Len(q) : q[k] = 0 \/ IsNext(w, q[k])
    BY FeedsAssumption DEF FeedInv, Mail!FeedTypeOK, AnswersAreNext, Awaited
  <1>2. i \in R /\ (i = 0 \/ IsNext(w, i))
    BY PolledIsNext
  <1>3. Follows(w, q) /\ Follows(w, <<>>)
    BY <1>1 DEF Follows
  <1> HIDE DEF q, i, R
  <1>4. Follows(w, <<i>>)
    <2>1. <<i>> \in Seq(R) /\ Len(<<i>>) = 1 /\ <<i>>[1] = i
      BY <1>2
    <2> QED BY <1>1, <1>2, <2>1 DEF Follows, R
  <1>5. ASSUME Len(q) < MaxPolls PROVE Follows(w, Append(q, i))
    <2>1. /\ Append(q, i) \in Seq(R) /\ Len(Append(q, i)) = Len(q) + 1
          /\ \A k \in 1 .. Len(q) + 1 : Append(q, i)[k] = IF k <= Len(q) THEN q[k] ELSE i
      BY <1>1, <1>2
    <2> QED BY <1>1, <1>2, <1>5, <2>1 DEF Follows, R
  <1>6. ASSUME q # <<>> PROVE Follows(w, Tail(q)) /\ (Head(q) = 0 \/ IsNext(w, Head(q)))
    <2>1. /\ Tail(q) \in Seq(R) /\ Len(Tail(q)) = Len(q) - 1 /\ Len(q) > 0 /\ Head(q) = q[1]
          /\ \A k \in 1 .. Len(q) - 1 : Tail(q)[k] = q[k + 1]
      BY <1>1, <1>6
    <2> QED BY <1>1, <2>1 DEF Follows, R
  <1> QED BY <1>3, <1>4, <1>5, <1>6 DEF q, i

\* A poll, an answer or a deadline changes nothing of what comes next.
LEMMA FeedMoves ==
    ASSUME FeedInv, UNCHANGED <<log, since, got>>, announced' \in [Hot -> {"none", "due"}],
           wait' \in [Waiters -> [at : {"idle", "first", "waiting", "settled"}, row : {0} \cup Mail!Ids]],
           \A w \in Waiters : wait'[w].row = 0 \/ wait'[w].row = wait[w].row \/ IsNext(w, wait'[w].row),
           polls' = [w \in Waiters |-> polls'[w]], \A w \in Waiters : Follows(w, polls'[w])
    PROVE  FeedInv'
  <1>1. Mail!FeedTypeOK'
    BY DEF FeedInv, Mail!FeedTypeOK, Follows
  <1>2. ASSUME NEW w \in Waiters, NEW i \in Awaited(w)' PROVE IsNext(w, i)'
    <2>1. IsNext(w, i)
      BY DEF FeedInv, AnswersAreNext, Awaited, Follows
    <2> QED BY <2>1 DEF IsNext, Mail!RowsFor
  <1>3. AnswersAreNext'
    BY <1>2 DEF FeedInv, AnswersAreNext
  <1>4. Mail!FeedIsComplete'
    BY DEF FeedInv, Mail!FeedIsComplete, Mail!RowsFor
  <1> QED BY <1>1, <1>3, <1>4 DEF FeedInv

LEMMA EventLogged ==
    ASSUME FeedInv, NEW t \in Types, Mail!LogEvent(t)
    PROVE  FeedInv'
  <1>0. /\ log' = Append(log, t) /\ Len(log) < MaxEvents /\ UNCHANGED <<wait, polls, since, got>>
        /\ log' \in Seq(Types) /\ Len(log') = Len(log) + 1 /\ Len(log) \in Nat
        /\ \A i \in 1 .. Len(log) + 1 : log'[i] = IF i <= Len(log) THEN log[i] ELSE t
    BY FeedTypes DEF Mail!LogEvent
  <1>1. Mail!FeedTypeOK'
    BY <1>0, FeedTypes DEF FeedInv, Mail!FeedTypeOK, Mail!LogEvent
  <1>2. ASSUME NEW w \in Waiters
        PROVE  \A i : i \in Mail!RowsFor(w)' <=> i \in Mail!RowsFor(w) \/ (i = Len(log) + 1 /\ t = Wants[w])
    BY <1>0, FeedTypes DEF Mail!RowsFor
  <1>3. AnswersAreNext'
    <2> SUFFICES ASSUME NEW w \in Waiters PROVE (since[w] <= Len(log))' /\ \A i \in Awaited(w)' : IsNext(w, i)'
      BY DEF AnswersAreNext
    <2>1. since[w] <= Len(log) /\ since[w] \in Nat /\ \A i \in Awaited(w) : IsNext(w, i)
      BY FeedTypes DEF FeedInv, AnswersAreNext
    <2>2. Awaited(w)' = Awaited(w)
      BY <1>0 DEF Awaited
    <2>3. \A i : IsNext(w, i) => IsNext(w, i)'
      BY <1>0, <1>2, FeedTypes DEF IsNext
    <2> QED BY <1>0, <2>1, <2>2, <2>3
  <1>4. Mail!FeedIsComplete'
    <2> SUFFICES ASSUME NEW w \in Waiters
                 PROVE  /\ {got[w][k] : k \in DOMAIN got[w]}' = {i \in Mail!RowsFor(w)' : i <= since[w]}
                        /\ \A j, k \in DOMAIN got[w] : j < k => got[w][j] < got[w][k]
      BY <1>0 DEF Mail!FeedIsComplete
    <2>1. since[w] <= Len(log) /\ since[w] \in Nat
      BY FeedTypes DEF FeedInv, AnswersAreNext
    <2>2. {i \in Mail!RowsFor(w)' : i <= since[w]} = {i \in Mail!RowsFor(w) : i <= since[w]}
      BY <1>0, <1>2, <2>1
    <2> QED BY <1>0, <2>2 DEF FeedInv, Mail!FeedIsComplete
  <1> QED BY <1>1, <1>3, <1>4 DEF FeedInv

LEMMA Polling ==
    ASSUME FeedInv, NEW w \in Waiters, Mail!Ask(w) \/ Mail!TimerPoll(w) \/ Mail!Deadline(w) \/ Mail!Answer(w)
    PROVE  FeedInv'
  <1> DEFINE W == [at : {"idle", "first", "waiting", "settled"}, row : {0} \cup Mail!Ids]
  <1>0. UNCHANGED <<log, since, got, announced>>
    BY DEF Mail!Ask, Mail!TimerPoll, Mail!Deadline, Mail!Answer, Mail!Poll
  <1>1. announced' \in [Hot -> {"none", "due"}] /\ wait[w] \in W
    BY <1>0, FeedTypes DEF FeedInv, Mail!FeedTypeOK
  <1>2. \E x \in W : \E q : /\ wait' = [wait EXCEPT ![w] = x] /\ polls' = [polls EXCEPT ![w] = q]
                        /\ Follows(w, q) /\ (x.row \in {0, wait[w].row} \/ IsNext(w, x.row))
    <2>1. CASE Mail!Ask(w)
      <3> DEFINE x == [at |-> "first", row |-> 0]
      <3>1. x \in W /\ x.row = 0 /\ wait' = [wait EXCEPT ![w] = x] /\ polls' = [polls EXCEPT ![w] = <<Mail!Polled(w)>>]
        BY <2>1 DEF Mail!Ask
      <3> HIDE DEF x
      <3> QED BY <3>1, PollsFollow
    <2>2. CASE Mail!TimerPoll(w)
      <3>1. polls' = [polls EXCEPT ![w] = Append(polls[w], Mail!Polled(w))] /\ Len(polls[w]) < MaxPolls
        BY <2>2 DEF Mail!TimerPoll, Mail!Poll, Mail!CanPoll
      <3>2. wait' = [wait EXCEPT ![w] = wait[w]]
        BY <2>2, FeedTypes DEF Mail!TimerPoll
      <3> QED BY <1>1, <3>1, <3>2, PollsFollow
    <2>3. CASE Mail!Deadline(w)
      <3> DEFINE x == [wait[w] EXCEPT !.at = "settled"]
      <3>1. wait' = [wait EXCEPT ![w] = x] /\ polls' = [polls EXCEPT ![w] = polls[w]]
        BY <2>3, FeedTypes DEF Mail!Deadline
      <3>2. x \in W /\ x.row = wait[w].row
        BY <1>1
      <3> HIDE DEF x
      <3> QED BY <3>1, <3>2, PollsFollow
    <2>4. CASE Mail!Answer(w)
      <3> DEFINE i == Head(polls[w])
                 at1 == IF wait[w].at = "first" THEN "waiting" ELSE wait[w].at
                 x == IF i # 0 THEN [at |-> "settled", row |-> i] ELSE [at |-> at1, row |-> wait[w].row]
      <3>1. polls[w] # <<>> /\ wait' = [wait EXCEPT ![w] = x] /\ polls' = [polls EXCEPT ![w] = Tail(polls[w])]
        BY <2>4 DEF Mail!Answer
      <3>2. Follows(w, Tail(polls[w])) /\ (i = 0 \/ IsNext(w, i)) /\ i \in {0} \cup Mail!Ids
        <4>1. polls[w] \in Seq({0} \cup Mail!Ids)
          BY FeedTypes
        <4>2. i \in {0} \cup Mail!Ids
          BY <3>1, <4>1
        <4> QED BY <3>1, <4>2, PollsFollow
      <3>3. x \in W /\ x.row \in {i, wait[w].row}
        BY <1>1, <3>2
      <3> HIDE DEF x, i
      <3> QED BY <3>1, <3>2, <3>3
    <2> QED BY <2>1, <2>2, <2>3, <2>4
  <1>3. PICK x, q : /\ wait' = [wait EXCEPT ![w] = x] /\ polls' = [polls EXCEPT ![w] = q] /\ x \in W
                    /\ Follows(w, q) /\ (x.row \in {0, wait[w].row} \/ IsNext(w, x.row))
    BY <1>2
  <1>4. wait' \in [Waiters -> W] /\ \A v \in Waiters : wait'[v].row = 0 \/ wait'[v].row = wait[v].row \/ IsNext(v, wait'[v].row)
    BY <1>3, FeedTypes
  <1>5. polls' = [v \in Waiters |-> polls'[v]] /\ \A v \in Waiters : Follows(v, polls'[v])
    BY <1>3, FeedTypes, PollsFollow
  <1> QED BY <1>0, <1>1, <1>4, <1>5, FeedMoves

LEMMA Announcing ==
    ASSUME FeedInv, NEW t \in Hot \cup Early, Mail!Announce(t)
    PROVE  FeedInv'
  <1> DEFINE woken == {w \in Waiters : wait[w].at = "waiting" /\ Wants[w] = t}
  <1>0. /\ UNCHANGED <<log, wait, since, got>> /\ \A w \in woken : Len(polls[w]) < MaxPolls
        /\ polls' = [w \in Waiters |-> IF w \in woken THEN Append(polls[w], Mail!Polled(w)) ELSE polls[w]]
        /\ announced' = [u \in Hot |-> IF u = t THEN "none" ELSE announced[u]]
    BY DEF Mail!Announce, Mail!CanPoll
  <1>1. announced' \in [Hot -> {"none", "due"}]
    BY <1>0 DEF FeedInv, Mail!FeedTypeOK
  <1> HIDE DEF woken
  <1>2. polls' = [w \in Waiters |-> polls'[w]] /\ \A w \in Waiters : Follows(w, polls'[w])
    BY <1>0, PollsFollow
  <1> QED BY <1>0, <1>1, <1>2, FeedMoves, FeedTypes

LEMMA Replying ==
    ASSUME FeedInv, NEW w \in Waiters, Mail!Reply(w)
    PROVE  FeedInv'
  <1> DEFINE i == wait[w].row
             x == [at |-> "idle", row |-> 0]
  <1>0. /\ wait' = [wait EXCEPT ![w] = x] /\ polls' = [polls EXCEPT ![w] = <<>>]
        /\ since' = [since EXCEPT ![w] = IF i = 0 THEN since[w] ELSE i]
        /\ got' = [got EXCEPT ![w] = IF i = 0 THEN got[w] ELSE Append(got[w], i)] /\ UNCHANGED <<log, announced>>
    BY DEF Mail!Reply
  <1>1. /\ i \in {0} \cup Mail!Ids /\ (i # 0 => IsNext(w, i)) /\ got[w] \in Seq(Mail!Ids) /\ since[w] \in Nat
        /\ x \in [at : {"idle", "first", "waiting", "settled"}, row : {0} \cup Mail!Ids] /\ x.row = 0
    BY FeedTypes DEF FeedInv, AnswersAreNext, Awaited
  <1> HIDE DEF i, x
  <1>2. Mail!FeedTypeOK'
    <2>1. got' \in [Waiters -> Seq(Mail!Ids)]
      BY <1>0, <1>1, FeedTypes
    <2>2. polls' \in [Waiters -> Seq({0} \cup Mail!Ids)] /\ \A v \in Waiters : Len(polls'[v]) <= MaxPolls
      BY <1>0, FeedTypes, FeedsAssumption DEF FeedInv, Mail!FeedTypeOK
    <2> QED BY <1>0, <1>1, <2>1, <2>2, FeedTypes DEF FeedInv, Mail!FeedTypeOK
  <1>3. \A v \in Waiters : Mail!RowsFor(v)' = Mail!RowsFor(v)
    BY <1>0 DEF Mail!RowsFor
  <1>4. ASSUME NEW v \in Waiters, v # w
        PROVE  /\ since'[v] = since[v] /\ got'[v] = got[v] /\ Awaited(v)' = Awaited(v)
    BY <1>0, <1>4, FeedTypes DEF Awaited
  <1>5. AnswersAreNext'
    <2> SUFFICES ASSUME NEW v \in Waiters PROVE since'[v] <= Len(log') /\ \A k \in Awaited(v)' : IsNext(v, k)'
      BY DEF AnswersAreNext
    <2>1. CASE v = w
      <3>1. Awaited(v)' = {}
        BY <1>0, <1>1, <2>1, FeedTypes DEF Awaited
      <3>2. since'[w] <= Len(log)
        BY <1>0, <1>1, FeedTypes DEF FeedInv, AnswersAreNext, IsNext
      <3> QED BY <1>0, <2>1, <3>1, <3>2
    <2>2. CASE v # w
      <3>1. since[v] <= Len(log) /\ \A k \in Awaited(v) : IsNext(v, k)
        BY DEF FeedInv, AnswersAreNext
      <3>2. \A k : IsNext(v, k) => IsNext(v, k)'
        BY <1>3, <1>4, <2>2 DEF IsNext
      <3> QED BY <1>0, <1>4, <2>2, <3>1, <3>2
    <2> QED BY <2>1, <2>2
  <1>6. Mail!FeedIsComplete'
    <2> SUFFICES ASSUME NEW v \in Waiters
                 PROVE  /\ {got'[v][k] : k \in DOMAIN got'[v]} = {j \in Mail!RowsFor(v)' : j <= since'[v]}
                        /\ \A j, k \in DOMAIN got'[v] : j < k => got'[v][j] < got'[v][k]
      BY DEF Mail!FeedIsComplete
    <2>1. /\ {got[v][k] : k \in DOMAIN got[v]} = {j \in Mail!RowsFor(v) : j <= since[v]}
          /\ \A j, k \in DOMAIN got[v] : j < k => got[v][j] < got[v][k]
      BY DEF FeedInv, Mail!FeedIsComplete
    <2>2. CASE v # w \/ i = 0
      <3>1. got'[v] = got[v] /\ since'[v] = since[v]
        BY <1>0, <1>4, <2>2, FeedTypes
      <3> QED BY <1>3, <2>1, <3>1
    <2>3. CASE v = w /\ i # 0
      <3> DEFINE g == got[w]
                 n == Len(got[w])
      <3>1. /\ got'[v] = Append(g, i) /\ since'[v] = i
        BY <1>0, <2>3, FeedTypes
      <3>2. /\ n \in Nat /\ DOMAIN g = 1 .. n /\ DOMAIN Append(g, i) = 1 .. n + 1
            /\ \A k \in 1 .. n : g[k] \in Mail!Ids /\ Append(g, i)[k] = g[k]
            /\ Append(g, i)[n + 1] = i
        BY <1>1
      <3>3. IsNext(w, i) /\ i \in Nat
        BY <1>1, <2>3, FeedTypes
      <3>4. \A k \in 1 .. n : g[k] < i
        <4> SUFFICES ASSUME NEW k \in 1 .. n PROVE g[k] < i
          OBVIOUS
        <4>1. g[k] \in {got[v][j] : j \in DOMAIN got[v]} /\ g[k] \in Nat
          <5>1. k \in DOMAIN got[v] /\ g[k] = got[v][k] /\ g[k] \in Mail!Ids
            BY <2>3, <3>2
          <5>2. Mail!Ids \subseteq Nat
            BY FeedTypes
          <5> HIDE DEF g, n
          <5> QED BY <5>1, <5>2
        <4>2. g[k] <= since[w]
          BY <2>1, <2>3, <4>1
        <4> QED BY <1>1, <3>3, <4>1, <4>2 DEF IsNext
      <3> HIDE DEF g, n
      <3>5. {Append(g, i)[k] : k \in 1 .. n + 1} = {g[k] : k \in 1 .. n} \cup {i}
        BY <3>2
      <3>6. {j \in Mail!RowsFor(w) : j <= i} = {j \in Mail!RowsFor(w) : j <= since[w]} \cup {i}
        <4>1. Mail!RowsFor(w) \subseteq Nat
          BY FeedTypes
        <4> QED BY <1>1, <3>3, <4>1 DEF IsNext
      <3>7. {g[k] : k \in 1 .. n} = {j \in Mail!RowsFor(w) : j <= since[w]} /\ \A j, k \in 1 .. n : j < k => g[j] < g[k]
        BY <2>1, <2>3, <3>2 DEF g
      <3>8. \A j, k \in 1 .. n + 1 : j < k => Append(g, i)[j] < Append(g, i)[k]
        BY <3>2, <3>4, <3>7
      <3> QED BY <1>3, <2>3, <3>1, <3>2, <3>5, <3>6, <3>7, <3>8
    <2> QED BY <2>2, <2>3
  <1> QED BY <1>2, <1>5, <1>6 DEF FeedInv

LEMMA FeedStep == FeedInv /\ Mail!FeedNext => FeedInv'
  BY EventLogged, Polling, Announcing, Replying DEF Mail!FeedNext

LEMMA FeedRests == FeedInv /\ UNCHANGED feedVars => FeedInv'
  BY DEF feedVars, FeedInv, Mail!FeedTypeOK, AnswersAreNext, Awaited, IsNext, Mail!FeedIsComplete, Mail!RowsFor

-----------------------------------------------------------------------------
(* The watch on the design pack.                                           *)

\* The flag is set for one scan, and a scan is of a pack that is watched.
OneScan ==
    /\ \A s, t \in Scans : scan[s].at # "none" /\ scan[t].at # "none" => s = t
    /\ scanning <=> \E s \in Scans : scan[s].at # "none"
    /\ settingUp => ~watching /\ ~scanning
    /\ debounce \/ scanning => watching
    /\ watching => known # None

\* What is known is not newer than the pack, and no older than it once nothing is to come.
Sighted ==
    /\ known # None => known <= pack
    /\ \A s \in Scans : scan[s].at = "read" => known <= scan[s].saw /\ scan[s].saw <= pack
    /\ watching /\ ~debounce =>
          /\ ~scanning => known = pack
          /\ \A s \in Scans : /\ scan[s].at = "read" => scan[s].saw = pack
                              /\ scan[s].at = "log" => known = pack

\* The moves lead to what is known, and the one a scan is writing down is the last.
Told ==
    /\ \A i \in 1 .. Len(moves) : /\ known # None /\ moves[i].from \in Pack!Versions
                                  /\ moves[i].from <= moves[i].to /\ moves[i].to <= known
                                  /\ i > 1 => moves[i - 1].to <= moves[i].from
    /\ \A s \in Scans : scan[s].at = "log" => persisted < Len(moves)

PackInv == Pack!TypeOK /\ (~dropped => OneScan /\ Sighted /\ Told)

LEMMA PackStarts == Pack!Init => PackInv
  <1> SUFFICES ASSUME Pack!Init PROVE PackInv
    OBVIOUS
  <1>1. {watching, logging, debounce, scanning, settingUp, dropped} \subseteq BOOLEAN
    BY DEF Pack!Init
  <1>2. Pack!TypeOK
    BY <1>1, FeedsAssumption DEF Pack!Init, Pack!TypeOK, Pack!Versions
  <1>3. OneScan /\ Sighted
    BY DEF Pack!Init, OneScan, Sighted
  <1>4. Told
    BY DEF Pack!Init, Told
  <1> QED BY <1>2, <1>3, <1>4 DEF PackInv

LEMMA PackHolds == PackInv => Pack!RestIsKnown /\ Pack!MovesAreInOrder
  <1> SUFFICES ASSUME PackInv, ~dropped PROVE Pack!RestIsKnown /\ Pack!MovesAreInOrder
    BY DEF Pack!RestIsKnown, Pack!MovesAreInOrder
  <1>1. DOMAIN moves = 1 .. Len(moves)
    BY DEF PackInv, Pack!TypeOK
  <1> QED BY <1>1 DEF PackInv, Sighted, Told, Pack!RestIsKnown, Pack!MovesAreInOrder

LEMMA PackTypes ==
    ASSUME PackInv
    PROVE  /\ pack \in Pack!Versions /\ known \in Pack!Versions \cup {None} /\ scan \in [Scans -> [at : {"none", "read", "log"}, saw : Pack!Versions, force : BOOLEAN]]
           /\ moves \in Seq([from : Pack!Versions \cup {None}, to : Pack!Versions]) /\ persisted \in 0 .. Len(moves) /\ spared \in Nat
           /\ Len(moves) \in Nat /\ Pack!Versions \subseteq Nat /\ None \notin Nat /\ MaxChange \in Nat
  BY FeedsAssumption DEF PackInv, Pack!TypeOK, Pack!Versions

LEMMA MoveTypes == ASSUME PackInv, NEW i \in 1 .. Len(moves) PROVE moves[i].to \in Nat
  <1> DEFINE M == [from : Pack!Versions \cup {None}, to : Pack!Versions]
  <1>0. moves \in Seq(M)
    BY PackTypes
  <1> HIDE DEF M
  <1>1. moves[i] \in M
    BY <1>0
  <1> USE DEF M
  <1> QED BY <1>1, PackTypes

LEMMA WatchStep ==
    ASSUME PackInv, ~dropped, Pack!BeginWatch \/ Pack!Watch \/ Pack!Unwatch
    PROVE  PackInv'
  <1>0. OneScan /\ Sighted /\ Told /\ UNCHANGED <<pack, scanning, scan, moves, persisted, spared>>
    BY DEF PackInv, Pack!BeginWatch, Pack!Watch, Pack!Unwatch
  <1>1. {watching', logging', debounce', scanning', settingUp', dropped'} \subseteq BOOLEAN
    BY Zenon DEF PackInv, Pack!TypeOK, Pack!BeginWatch, Pack!Watch, Pack!Unwatch
  <1>2. Pack!TypeOK'
    BY <1>0, <1>1 DEF PackInv, Pack!TypeOK, Pack!BeginWatch, Pack!Watch, Pack!Unwatch
  <1>3. ASSUME Pack!BeginWatch, ~dropped' PROVE (OneScan /\ Sighted /\ Told)'
    <2>1. ~scanning /\ UNCHANGED known /\ settingUp' = TRUE /\ watching' = FALSE /\ debounce' = FALSE
      BY <1>3, Zenon DEF Pack!BeginWatch
    <2> QED BY <1>0, <2>1 DEF OneScan, Sighted, Told
  <1>4. ASSUME Pack!Watch, ~dropped' PROVE (OneScan /\ Sighted /\ Told)'
    <2>1. settingUp /\ known' = pack /\ settingUp' = FALSE /\ watching' = TRUE /\ UNCHANGED debounce
      BY <1>4, Zenon DEF Pack!Watch
    <2>2. \A t \in Scans : scan[t].at = "none"
      BY <1>0, <2>1 DEF OneScan
    <2>3. known' # None /\ known' \in Nat
      BY <2>1, PackTypes
    <2>4. (OneScan /\ Sighted)'
      BY <1>0, <2>1, <2>2, <2>3 DEF OneScan, Sighted
    <2>5. \A i \in 1 .. Len(moves) : moves[i].to <= known'
      <3> SUFFICES ASSUME NEW i \in 1 .. Len(moves) PROVE moves[i].to <= known'
        OBVIOUS
      <3>1. moves[i].to \in Nat /\ known # None /\ moves[i].to <= known
        BY <1>0, MoveTypes DEF Told
      <3>2. known \in Nat /\ pack \in Nat /\ known <= pack
        BY <1>0, <3>1, PackTypes DEF Sighted
      <3> QED BY <2>1, <3>1, <3>2
    <2>6. Told'
      BY <1>0, <2>2, <2>3, <2>5 DEF Told
    <2> QED BY <2>4, <2>6
  <1>5. ASSUME Pack!Unwatch, ~dropped' PROVE (OneScan /\ Sighted /\ Told)'
    <2>1. ~scanning /\ ~settingUp /\ UNCHANGED <<known, settingUp>> /\ watching' = FALSE /\ debounce' = FALSE
      BY <1>5, Zenon DEF Pack!Unwatch
    <2> QED BY <1>0, <2>1 DEF OneScan, Sighted, Told
  <1> QED BY <1>2, <1>3, <1>4, <1>5 DEF PackInv

LEMMA ChangeStep ==
    ASSUME PackInv, ~dropped, Pack!Change
    PROVE  PackInv'
  <1>0. /\ OneScan /\ Sighted /\ Told /\ pack' = pack + 1 /\ pack < MaxChange
        /\ UNCHANGED <<known, watching, logging, scanning, scan, settingUp, moves, persisted, spared>>
    BY DEF PackInv, Pack!Change
  <1>1. debounce' \in BOOLEAN /\ dropped' \in BOOLEAN /\ (debounce' <=> debounce \/ watching)
    BY Zenon DEF PackInv, Pack!TypeOK, Pack!Change
  <1>2. Pack!TypeOK'
    BY <1>0, <1>1, PackTypes DEF PackInv, Pack!TypeOK, Pack!Versions
  <1>3. OneScan' /\ Told'
    BY <1>0, <1>1 DEF OneScan, Told
  <1>4. Sighted'
    BY <1>0, <1>1, PackTypes DEF Sighted, OneScan, Pack!Versions
  <1> QED BY <1>2, <1>3, <1>4 DEF PackInv

LEMMA StartScanStep ==
    ASSUME PackInv, ~dropped, NEW s \in Scans, NEW asked \in BOOLEAN, NEW force \in BOOLEAN, Pack!StartScan(s, asked, force)
    PROVE  PackInv'
  <1> DEFINE x == [at |-> "read", saw |-> pack, force |-> force]
  <1>0. /\ OneScan /\ Sighted /\ Told /\ known # None /\ scan[s].at = "none" /\ spared > 0
        /\ UNCHANGED <<pack, known, watching, logging, settingUp, moves, persisted>>
    BY DEF PackInv, Pack!StartScan
  <1>1. /\ debounce' \in BOOLEAN /\ (debounce' <=> debounce /\ asked) /\ watching
    BY <1>0, Zenon DEF OneScan, Pack!StartScan
  <1>2. CASE ~scanning
    <2>1. scan' = [scan EXCEPT ![s] = x] /\ scanning' = TRUE /\ spared' = spared - 1 /\ dropped' = dropped
      BY <1>2 DEF Pack!StartScan, Pack!MayScan
    <2>2. x \in [at : {"none", "read", "log"}, saw : Pack!Versions, force : BOOLEAN] /\ x.at = "read" /\ x.saw = pack
      BY PackTypes
    <2> HIDE DEF x
    <2>3. Pack!TypeOK'
      BY <1>0, <1>1, <2>1, <2>2, PackTypes DEF PackInv, Pack!TypeOK
    <2>4. \A t \in Scans : scan'[t] = IF t = s THEN x ELSE scan[t]
      BY <2>1, PackTypes
    <2>5. OneScan'
      BY <1>0, <1>1, <1>2, <2>1, <2>2, <2>4 DEF OneScan
    <2>6. Sighted'
      BY <1>0, <1>1, <1>2, <2>1, <2>2, <2>4, PackTypes DEF OneScan, Sighted
    <2>7. Told'
      BY <1>0, <2>2, <2>4 DEF Told
    <2> QED BY <2>3, <2>5, <2>6, <2>7 DEF PackInv
  <1>3. CASE scanning
    <2>1. UNCHANGED <<scan, scanning, spared>>
      BY <1>3 DEF Pack!StartScan, Pack!MayScan
    <2>2. dropped' \in BOOLEAN /\ (dropped' <=> dropped \/ ~asked)
      BY <1>3, Zenon DEF Pack!StartScan, Pack!MayScan
    <2>3. Pack!TypeOK'
      BY <1>0, <1>1, <2>1, <2>2 DEF PackInv, Pack!TypeOK
    <2>4. ~dropped' => OneScan' /\ Sighted' /\ Told'
      BY <1>0, <1>1, <2>1, <2>2 DEF OneScan, Sighted, Told
    <2> QED BY <2>3, <2>4 DEF PackInv
  <1> QED BY <1>2, <1>3

LEMMA FinishScanStep ==
    ASSUME PackInv, ~dropped, NEW s \in Scans, NEW saw \in Pack!Versions, Pack!FinishScan(s, saw)
    PROVE  PackInv'
  <1>0. /\ OneScan /\ Sighted /\ Told /\ scan[s].at = "read" /\ saw \in scan[s].saw .. pack /\ known' = saw
        /\ UNCHANGED <<pack, watching, logging, debounce, settingUp, persisted, dropped, spared>>
    BY DEF PackInv, Pack!FinishScan
  <1>1. /\ scanning /\ watching /\ known # None /\ known \in Nat /\ scan[s].saw \in Nat
        /\ known <= scan[s].saw /\ scan[s].saw <= saw /\ saw <= pack /\ (~debounce => saw = pack)
    <2>1. scanning /\ watching /\ known # None
      BY <1>0 DEF OneScan
    <2>2. known <= scan[s].saw /\ scan[s].saw <= pack /\ (~debounce => scan[s].saw = pack)
      BY <1>0, <2>1 DEF Sighted
    <2>3. known \in Nat /\ scan[s].saw \in Nat /\ pack \in Nat
      BY <2>1, PackTypes
    <2> QED BY <1>0, <2>1, <2>2, <2>3
  <1>2. \A t \in Scans : t # s => scan[t].at = "none"
    BY <1>0 DEF OneScan
  <1> DEFINE x(at1) == [scan[s] EXCEPT !.at = at1]
  <1>3. \A at1 \in {"none", "log"} : x(at1) \in [at : {"none", "read", "log"}, saw : Pack!Versions, force : BOOLEAN] /\ x(at1).at = at1
    BY PackTypes
  <1>4. CASE known = saw /\ ~scan[s].force
    <2>1. scan' = [scan EXCEPT ![s] = x("none")] /\ scanning' = FALSE /\ moves' = moves
      BY <1>4 DEF Pack!FinishScan
    <2> HIDE DEF x
    <2>2. \A t \in Scans : scan'[t].at = "none"
      BY <1>2, <1>3, <2>1, PackTypes
    <2>3. Pack!TypeOK'
      BY <1>0, <1>3, <2>1, PackTypes DEF PackInv, Pack!TypeOK
    <2>4. OneScan' /\ Sighted' /\ Told'
      BY <1>0, <1>1, <1>4, <2>1, <2>2, PackTypes DEF OneScan, Sighted, Told
    <2> QED BY <2>3, <2>4 DEF PackInv
  <1>5. CASE ~(known = saw /\ ~scan[s].force)
    <2> DEFINE m == [from |-> known, to |-> saw]
               next == IF logging THEN "log" ELSE "none"
    <2>1. moves' = Append(moves, m) /\ scan' = [scan EXCEPT ![s] = x(next)] /\ scanning' = logging
      BY <1>5 DEF Pack!FinishScan
    <2>2. next \in {"none", "log"} /\ (next = "log" <=> logging) /\ logging \in BOOLEAN
      BY DEF PackInv, Pack!TypeOK
    <2>3. m \in [from : Pack!Versions \cup {None}, to : Pack!Versions] /\ m.from = known /\ m.to = saw
      BY PackTypes
    <2> HIDE DEF x, m, next
    <2>4. \A t \in Scans : scan'[t].at = IF t = s THEN next ELSE "none"
      BY <1>2, <1>3, <2>1, <2>2, PackTypes
    <2>5. /\ moves' \in Seq([from : Pack!Versions \cup {None}, to : Pack!Versions]) /\ Len(moves') = Len(moves) + 1
          /\ \A i \in 1 .. Len(moves') : moves'[i] = IF i <= Len(moves) THEN moves[i] ELSE m
      BY <2>1, <2>3, PackTypes
    <2>6. Pack!TypeOK'
      BY <1>0, <1>3, <2>1, <2>2, <2>5, PackTypes DEF PackInv, Pack!TypeOK
    <2>7. OneScan'
      BY <1>0, <1>1, <2>1, <2>2, <2>4, PackTypes DEF OneScan
    <2>8. Sighted'
      BY <1>0, <1>1, <2>2, <2>4, PackTypes DEF Sighted
    <2>9. Told'
      <3>1. ASSUME NEW i \in 1 .. Len(moves')
            PROVE  /\ moves'[i].from \in Pack!Versions /\ moves'[i].from <= moves'[i].to /\ moves'[i].to <= known'
                   /\ i > 1 => moves'[i - 1].to <= moves'[i].from
        <4>0. i \in Nat /\ Len(moves) \in Nat /\ i <= Len(moves) + 1 /\ i >= 1
          BY <2>5, PackTypes
        <4>1. CASE i <= Len(moves)
          <5>1. moves'[i] = moves[i] /\ (i > 1 => moves'[i - 1] = moves[i - 1])
            BY <2>5, <4>0, <4>1
          <5>2. moves[i].to \in Nat /\ moves[i].from \in Pack!Versions /\ moves[i].from <= moves[i].to /\ moves[i].to <= known
                /\ (i > 1 => moves[i - 1].to <= moves[i].from)
            BY <1>0, <4>0, <4>1, MoveTypes DEF Told
          <5> QED BY <1>0, <1>1, <5>1, <5>2
        <4>2. CASE i = Len(moves) + 1
          <5>1. moves'[i] = m /\ (i > 1 => i - 1 \in 1 .. Len(moves) /\ moves'[i - 1] = moves[i - 1])
            BY <2>5, <4>0, <4>2
          <5>2. i > 1 => moves[i - 1].to <= known
            BY <1>0, <5>1 DEF Told
          <5> QED BY <1>0, <1>1, <2>3, <5>1, <5>2, PackTypes
        <4> QED BY <2>5, <4>1, <4>2, PackTypes
      <3>2. known' # None
        BY <1>0, PackTypes
      <3>3. persisted' < Len(moves')
        BY <1>0, <2>5, PackTypes
      <3> QED BY <3>1, <3>2, <3>3 DEF Told
    <2> QED BY <2>6, <2>7, <2>8, <2>9 DEF PackInv
  <1> QED BY <1>4, <1>5

LEMMA LogMovedStep ==
    ASSUME PackInv, ~dropped, NEW s \in Scans, Pack!LogMoved(s)
    PROVE  PackInv'
  <1> DEFINE x == [scan[s] EXCEPT !.at = "none"]
  <1>0. /\ OneScan /\ Sighted /\ Told /\ scan[s].at = "log" /\ scan' = [scan EXCEPT ![s] = x] /\ scanning' = FALSE
        /\ persisted' \in {persisted, persisted + 1}
        /\ UNCHANGED <<pack, known, watching, logging, debounce, settingUp, moves, dropped, spared>>
    BY DEF PackInv, Pack!LogMoved
  <1>1. x \in [at : {"none", "read", "log"}, saw : Pack!Versions, force : BOOLEAN] /\ x.at = "none"
    BY PackTypes
  <1> HIDE DEF x
  <1>2. \A t \in Scans : scan'[t].at = "none"
    BY <1>0, <1>1, PackTypes DEF OneScan
  <1>3. Pack!TypeOK'
    <2>1. persisted' \in 0 .. Len(moves)
      BY <1>0, PackTypes DEF Told
    <2> QED BY <1>0, <1>1, <2>1 DEF PackInv, Pack!TypeOK
  <1>4. OneScan' /\ Sighted' /\ Told'
    BY <1>0, <1>2 DEF OneScan, Sighted, Told
  <1> QED BY <1>3, <1>4 DEF PackInv

LEMMA PackStep == PackInv /\ Pack!Next => PackInv'
  BY WatchStep, ChangeStep, StartScanStep, FinishScanStep, LogMovedStep DEF Pack!Next

LEMMA PackRests == PackInv /\ UNCHANGED packVars => PackInv'
  <1> SUFFICES ASSUME PackInv, UNCHANGED packVars PROVE PackInv'
    OBVIOUS
  <1>1. {watching', logging', debounce', scanning', settingUp', dropped'} \subseteq BOOLEAN
    BY Zenon DEF packVars, PackInv, Pack!TypeOK
  <1> QED BY <1>1 DEF packVars, PackInv, Pack!TypeOK, OneScan, Sighted, Told

-----------------------------------------------------------------------------
(* Sessions and their copies.                                              *)

\* The fleet sees of a session what there is to see of it.
Agree(s, k) == (Presence!IsOpen(s) <=> Presence!IsOpen(k)) /\ (Presence!IsOpen(s) => k.work = s.work)

\* A handler that nothing has got in the way of is alone with its session, and its copy will make
\* the two agree, if they agreed before or a registration writes both anew.
CopyIsDue(a, h, s, k) == h.op = "register" \/ a \notin uncopied => Agree(s, Presence!Copy(h.op, k, h.work))
Undisturbed ==
    \A c \in Calls, a \in Registrants : Presence!On(c, a) /\ ~handlers[c].raced =>
        /\ \A d \in Calls : Presence!On(d, a) => d = c
        /\ CopyIsDue(a, handlers[c], sessions[a], copied[a])

Agreed ==
    \A a \in Registrants \ uncopied : (\A c \in Calls : ~Presence!On(c, a)) => Agree(sessions[a], copied[a])

PresenceInv == Presence!TypeOK /\ Undisturbed /\ Agreed

LEMMA PresenceStarts == Presence!Init => PresenceInv
  BY FeedsAssumption DEF Presence!Init, PresenceInv, Presence!TypeOK, Presence!Session, Undisturbed, Agreed, Agree, Presence!On, Presence!IsOpen

LEMMA PresenceHolds == PresenceInv => Presence!FleetSeesSessions
  BY DEF PresenceInv, Agreed, Agree, Presence!FleetSeesSessions

LEMMA SessionWritten ==
    ASSUME NEW s \in Presence!Session, NEW k \in Presence!Session, NEW op \in Presence!Ops, NEW w \in Works
    PROVE  /\ Presence!Written(op, s, w) \in Presence!Session /\ Presence!Copy(op, s, w) \in Presence!Session
           /\ op = "register" \/ Agree(s, k) => Agree(Presence!Written(op, s, w), Presence!Copy(op, k, w))
  <1>1. CASE op = "register"
    BY <1>1 DEF Presence!Written, Presence!Copy, Presence!Session, Agree, Presence!IsOpen
  <1>2. CASE op = "update"
    BY <1>2, FeedsAssumption DEF Presence!Written, Presence!Copy, Presence!Updated, Presence!Session, Agree, Presence!IsOpen
  <1>3. CASE op = "end"
    BY <1>3, FeedsAssumption DEF Presence!Written, Presence!Copy, Presence!Ended, Presence!Session, Agree, Presence!IsOpen
  <1> QED BY <1>1, <1>2, <1>3 DEF Presence!Ops

LEMMA BeginSessionStep ==
    ASSUME PresenceInv, NEW c \in Calls, NEW op \in Presence!Ops, NEW a \in Registrants, NEW w \in Works,
           Presence!BeginSession(c, op, a, w)
    PROVE  PresenceInv'
  <1>0. /\ handlers \in [Calls -> Presence!Handler \cup {None}] /\ sessions \in [Registrants -> Presence!Session]
        /\ copied \in [Registrants -> Presence!Session] /\ uncopied \subseteq Registrants
    BY DEF PresenceInv, Presence!TypeOK
  <1> DEFINE raced == \E e \in Calls : Presence!On(e, a)
             h == [op |-> op, agent |-> a, work |-> w, raced |-> raced]
             marked(d) == [handlers[d] EXCEPT !.raced = TRUE]
  <1>1. h \in Presence!Handler
    BY DEF Presence!Handler
  <1>2. \A d \in Calls : Presence!On(d, a) => marked(d) \in Presence!Handler /\ marked(d).agent = a /\ marked(d).raced
    BY <1>0 DEF Presence!Handler, Presence!On
  <1>3. /\ handlers[c] = None /\ handlers' = [d \in Calls |-> IF d = c THEN h ELSE IF Presence!On(d, a) THEN marked(d) ELSE handlers[d]]
        /\ sessions' = [sessions EXCEPT ![a] = Presence!Written(op, sessions[a], w)] /\ UNCHANGED <<copied, uncopied>>
    BY DEF Presence!BeginSession
  <1>4. h.op = op /\ h.agent = a /\ h.work = w /\ h.raced = raced
    OBVIOUS
  <1> HIDE DEF h, marked, raced
  <1>5. Presence!TypeOK'
    BY <1>0, <1>1, <1>2, <1>3, SessionWritten DEF Presence!TypeOK
  <1>6. h # None /\ \A d \in Calls : Presence!On(d, a) => marked(d) # None
    BY <1>1, <1>2, FeedsAssumption
  <1>7. \A d \in Calls, b \in Registrants : Presence!On(d, b)' <=> Presence!On(d, b) \/ (d = c /\ b = a)
    BY <1>2, <1>3, <1>4, <1>6 DEF Presence!On
  <1>8. Undisturbed'
    <2> SUFFICES ASSUME NEW d \in Calls, NEW b \in Registrants, Presence!On(d, b)', ~handlers'[d].raced
                 PROVE  /\ \A e \in Calls : Presence!On(e, b)' => e = d
                        /\ CopyIsDue(b, handlers[d], sessions[b], copied[b])'
      BY DEF Undisturbed
    <2>1. CASE d = c
      <3>1. b = a /\ ~raced /\ handlers'[d] = h
        BY <1>3, <1>4, <1>6, <2>1 DEF Presence!On
      <3>2. \A e \in Calls : ~Presence!On(e, a)
        BY <3>1 DEF raced
      <3>3. a \notin uncopied => Agree(sessions[a], copied[a])
        BY <3>2 DEF PresenceInv, Agreed
      <3>4. op = "register" \/ a \notin uncopied => Agree(Presence!Written(op, sessions[a], w), Presence!Copy(op, copied[a], w))
        BY <1>0, <3>3, SessionWritten
      <3> QED BY <1>0, <1>3, <1>4, <1>7, <2>1, <3>1, <3>2, <3>4 DEF CopyIsDue
    <2>2. CASE d # c
      <3>1. b # a /\ handlers'[d] = handlers[d] /\ Presence!On(d, b)
        BY <1>2, <1>3, <1>7, <2>2 DEF Presence!On
      <3>2. sessions'[b] = sessions[b] /\ copied'[b] = copied[b] /\ uncopied' = uncopied
        BY <1>0, <1>3, <3>1
      <3>3. /\ \A e \in Calls : Presence!On(e, b) => e = d
            /\ CopyIsDue(b, handlers[d], sessions[b], copied[b])
        BY <3>1 DEF PresenceInv, Undisturbed
      <3> QED BY <1>7, <3>1, <3>2, <3>3 DEF CopyIsDue
    <2> QED BY <2>1, <2>2
  <1>9. Agreed'
    <2> SUFFICES ASSUME NEW b \in Registrants \ uncopied', \A d \in Calls : ~Presence!On(d, b)'
                 PROVE  Agree(sessions'[b], copied'[b])
      BY DEF Agreed
    <2>1. b # a /\ \A d \in Calls : ~Presence!On(d, b)
      BY <1>7
    <2> QED BY <1>0, <1>3, <2>1 DEF PresenceInv, Agreed
  <1> QED BY <1>5, <1>8, <1>9 DEF PresenceInv

\* A handler leaves after its copy, or without one.
LEMMA CopySessionStep ==
    ASSUME PresenceInv, NEW c \in Calls, NEW a \in Registrants, Presence!CopySession(c, a)
    PROVE  PresenceInv'
  <1>0. /\ handlers \in [Calls -> Presence!Handler \cup {None}] /\ sessions \in [Registrants -> Presence!Session]
        /\ copied \in [Registrants -> Presence!Session] /\ uncopied \subseteq Registrants
    BY DEF PresenceInv, Presence!TypeOK
  <1>1. /\ Presence!On(c, a) /\ handlers' = [handlers EXCEPT ![c] = None] /\ UNCHANGED sessions
        /\ copied' = [copied EXCEPT ![a] = Presence!Copy(handlers[c].op, copied[a], handlers[c].work)]
        /\ uncopied' = IF handlers[c].raced THEN uncopied \cup {a}
                       ELSE IF handlers[c].op = "register" THEN uncopied \ {a} ELSE uncopied
    BY DEF Presence!CopySession, Presence!Leave
  <1>2. handlers[c] \in Presence!Handler
    BY <1>0, <1>1 DEF Presence!On
  <1>3. Presence!TypeOK'
    <2>1. copied' \in [Registrants -> Presence!Session]
      BY <1>0, <1>1, <1>2, SessionWritten DEF Presence!Handler
    <2> QED BY <1>0, <1>1, <2>1 DEF Presence!TypeOK
  <1>4. \A d \in Calls, b \in Registrants : Presence!On(d, b)' <=> Presence!On(d, b) /\ d # c
    BY <1>0, <1>1 DEF Presence!On
  <1>5. \A b \in Registrants \ {a} : copied'[b] = copied[b] /\ (b \in uncopied' <=> b \in uncopied)
    BY <1>0, <1>1
  <1>6. Undisturbed'
    <2> SUFFICES ASSUME NEW d \in Calls, NEW b \in Registrants, Presence!On(d, b)', ~handlers'[d].raced
                 PROVE  /\ \A e \in Calls : Presence!On(e, b)' => e = d
                        /\ CopyIsDue(b, handlers[d], sessions[b], copied[b])'
      BY DEF Undisturbed
    <2>1. Presence!On(d, b) /\ d # c /\ handlers'[d] = handlers[d]
      BY <1>0, <1>1, <1>4
    <2>2. /\ \A e \in Calls : Presence!On(e, b) => e = d
          /\ CopyIsDue(b, handlers[d], sessions[b], copied[b])
      BY <2>1 DEF PresenceInv, Undisturbed
    <2>3. b # a
      BY <1>1, <2>1, <2>2
    <2> QED BY <1>1, <1>4, <1>5, <2>1, <2>2, <2>3 DEF CopyIsDue
  <1>7. Agreed'
    <2> SUFFICES ASSUME NEW b \in Registrants \ uncopied', \A d \in Calls : ~Presence!On(d, b)'
                 PROVE  Agree(sessions'[b], copied'[b])
      BY DEF Agreed
    <2>1. CASE b = a
      BY <1>0, <1>1, <2>1 DEF PresenceInv, Undisturbed, CopyIsDue
    <2>2. CASE b # a
      <3>1. \A d \in Calls : ~Presence!On(d, b)
        BY <1>1, <1>4, <2>2 DEF Presence!On
      <3> QED BY <1>1, <1>5, <2>2, <3>1 DEF PresenceInv, Agreed
    <2> QED BY <2>1, <2>2
  <1> QED BY <1>3, <1>6, <1>7 DEF PresenceInv

LEMMA FailSessionStep ==
    ASSUME PresenceInv, NEW c \in Calls, NEW a \in Registrants, Presence!FailSession(c, a)
    PROVE  PresenceInv'
  <1>0. /\ handlers \in [Calls -> Presence!Handler \cup {None}] /\ uncopied \subseteq Registrants
    BY DEF PresenceInv, Presence!TypeOK
  <1>1. /\ Presence!On(c, a) /\ handlers' = [handlers EXCEPT ![c] = None] /\ UNCHANGED <<sessions, copied>>
        /\ uncopied' = uncopied \cup {a}
    BY DEF Presence!FailSession, Presence!Leave
  <1>2. \A d \in Calls, b \in Registrants : Presence!On(d, b)' <=> Presence!On(d, b) /\ d # c
    BY <1>0, <1>1 DEF Presence!On
  <1>3. Undisturbed'
    BY <1>0, <1>1, <1>2 DEF PresenceInv, Undisturbed, CopyIsDue
  <1>4. Agreed'
    BY <1>1, <1>2 DEF PresenceInv, Agreed, Presence!On
  <1> QED BY <1>0, <1>1, <1>3, <1>4 DEF PresenceInv, Presence!TypeOK

LEMMA PruneStep ==
    ASSUME PresenceInv, NEW a \in Registrants, Presence!Prune(a)
    PROVE  PresenceInv'
  <1>0. /\ handlers \in [Calls -> Presence!Handler \cup {None}] /\ sessions \in [Registrants -> Presence!Session]
        /\ copied \in [Registrants -> Presence!Session] /\ uncopied \subseteq Registrants
    BY DEF PresenceInv, Presence!TypeOK
  <1> DEFINE marked(d) == [handlers[d] EXCEPT !.raced = TRUE]
  <1>1. /\ handlers' = [d \in Calls |-> IF Presence!On(d, a) THEN marked(d) ELSE handlers[d]] /\ UNCHANGED copied
        /\ sessions' = [sessions EXCEPT ![a] = IF Presence!IsOpen(sessions[a]) THEN Presence!Ended(sessions[a]) ELSE None]
        /\ uncopied' = uncopied \cup {a}
    BY DEF Presence!Prune
  <1>2. \A d \in Calls : Presence!On(d, a) => marked(d) \in Presence!Handler /\ marked(d).agent = a /\ marked(d).raced
    BY <1>0 DEF Presence!Handler, Presence!On
  <1> HIDE DEF marked
  <1>3. Presence!TypeOK'
    <2>1. sessions' \in [Registrants -> Presence!Session]
      BY <1>0, <1>1 DEF Presence!Ended, Presence!Session
    <2> QED BY <1>0, <1>1, <1>2, <2>1 DEF Presence!TypeOK
  <1>4. \A d \in Calls, b \in Registrants : Presence!On(d, b)' <=> Presence!On(d, b)
    BY <1>1, <1>2, FeedsAssumption DEF Presence!On
  <1>5. Undisturbed'
    <2> SUFFICES ASSUME NEW d \in Calls, NEW b \in Registrants, Presence!On(d, b)', ~handlers'[d].raced
                 PROVE  /\ \A e \in Calls : Presence!On(e, b)' => e = d
                        /\ CopyIsDue(b, handlers[d], sessions[b], copied[b])'
      BY DEF Undisturbed
    <2>1. b # a /\ Presence!On(d, b) /\ handlers'[d] = handlers[d]
      BY <1>1, <1>2, <1>4 DEF Presence!On
    <2>2. sessions'[b] = sessions[b] /\ copied'[b] = copied[b] /\ (b \in uncopied' <=> b \in uncopied)
      BY <1>0, <1>1, <2>1
    <2> QED BY <1>4, <2>1, <2>2 DEF PresenceInv, Undisturbed, CopyIsDue
  <1>6. Agreed'
    BY <1>0, <1>1, <1>4 DEF PresenceInv, Agreed
  <1> QED BY <1>3, <1>5, <1>6 DEF PresenceInv

LEMMA PresenceStep == PresenceInv /\ Presence!Next => PresenceInv'
  BY BeginSessionStep, CopySessionStep, FailSessionStep, PruneStep DEF Presence!Next

LEMMA PresenceRests == PresenceInv /\ UNCHANGED sessionVars => PresenceInv'
  BY DEF sessionVars, PresenceInv, Presence!TypeOK, Undisturbed, Agreed, Agree, CopyIsDue, Presence!On

-----------------------------------------------------------------------------
(* Mail and its copies.                                                    *)

Holds(c, m)  == mailers[c] # None /\ m \in mailers[c].mails
Posts(c, m)  == Holds(c, m) /\ mailers[c].op # "mark"
Marks(c, m)  == Holds(c, m) /\ mailers[c].op = "mark"
OwnMark(m)   == \E c \in Calls : Marks(c, m) /\ mailers[c].agent = mail[m].to

\* A mail is posted by the handler that delivered it; who marks it has marked it here already.
HandlersFollow ==
    \A c \in Calls, m \in Mails :
        /\ Holds(c, m) => mail[m] # None
        /\ Posts(c, m) => \A d \in Calls : Posts(d, m) => d = c
        /\ Marks(c, m) /\ mailers[c].agent = mail[m].to => mail[m].read

CopiesFollow ==
    \A m \in Mails : posted[m] # None => mail[m] # None /\ posted[m].to = mail[m].to /\ (posted[m].read => mail[m].read)

\* A mail is copied unread, and a mark that is here and not there is still on its way.
NoneIsLost ==
    \A m \in Mails \ lost : mail[m] # None =>
        IF \E c \in Calls : Posts(c, m) THEN posted[m] = None /\ (mail[m].read => OwnMark(m))
        ELSE posted[m] # None /\ (posted[m] = mail[m] \/ OwnMark(m))

MailInv == Mail!TypeOK /\ HandlersFollow /\ CopiesFollow /\ NoneIsLost

LEMMA MailStarts == Mail!Init => MailInv
  BY FeedsAssumption DEF Mail!Init, MailInv, Mail!TypeOK, Mail!Message, HandlersFollow, CopiesFollow, NoneIsLost, Posts, Marks, Holds

LEMMA MailHolds == MailInv => Mail!FleetMailIsLocal
  <1> SUFFICES ASSUME MailInv PROVE Mail!FleetMailIsLocal
    OBVIOUS
  <1>1. ASSUME NEW m \in Mails, m \notin lost, \A c \in Calls : mailers[c] # None => m \notin mailers[c].mails
        PROVE  posted[m] = mail[m]
    <2>1. \A c \in Calls : ~Holds(c, m)
      BY <1>1 DEF Holds
    <2>2. ~OwnMark(m) /\ \A c \in Calls : ~Posts(c, m)
      BY <2>1 DEF OwnMark, Posts, Marks
    <2> QED BY <1>1, <2>2 DEF MailInv, NoneIsLost, CopiesFollow
  <1> QED BY <1>1 DEF MailInv, CopiesFollow, Mail!FleetMailIsLocal

LEMMA BoxTypes ==
    ASSUME MailInv
    PROVE  /\ mail \in [Mails -> Mail!Message] /\ posted \in [Mails -> Mail!Message]
           /\ mailers \in [Calls -> Mail!Handler \cup {None}] /\ open \subseteq Agents /\ lost \subseteq Mails
           /\ \A m \in Mails : /\ mail[m] # None => mail[m] \in [to : Agents, read : BOOLEAN]
                               /\ posted[m] # None => posted[m] \in [to : Agents, read : BOOLEAN]
  BY DEF MailInv, Mail!TypeOK, Mail!Message

LEMMA BeginMailStep ==
    ASSUME MailInv, NEW c \in Calls, NEW a \in Agents, NEW to \in SUBSET Agents, Mail!BeginMail(c, a, to)
    PROVE  MailInv'
  <1> DEFINE h == [op |-> "cast", agent |-> a, to |-> to, mails |-> {}]
  <1>0. /\ mailers[c] = None /\ mailers' = [mailers EXCEPT ![c] = h] /\ UNCHANGED <<open, mail, posted, lost>>
    BY DEF Mail!BeginMail, Mail!Begin
  <1>1. h \in Mail!Handler /\ h.mails = {}
    BY DEF Mail!Handler
  <1> HIDE DEF h
  <1>2. Mail!TypeOK'
    BY <1>0, <1>1 DEF MailInv, Mail!TypeOK
  <1>3. \A d \in Calls, m \in Mails : /\ Holds(d, m)' <=> Holds(d, m)
                                      /\ Holds(d, m) => mailers'[d] = mailers[d]
    BY <1>0, <1>1, BoxTypes DEF Holds
  <1>4. \A d \in Calls, m \in Mails : (Posts(d, m)' <=> Posts(d, m)) /\ (Marks(d, m)' <=> Marks(d, m))
    BY <1>3 DEF Posts, Marks
  <1>5. \A m \in Mails : OwnMark(m)' <=> OwnMark(m)
    BY <1>0, <1>3, <1>4 DEF OwnMark, Marks
  <1>6. HandlersFollow'
    BY <1>0, <1>3, <1>4 DEF MailInv, HandlersFollow, Marks
  <1>7. NoneIsLost'
    BY <1>0, <1>4, <1>5 DEF MailInv, NoneIsLost
  <1> QED BY <1>0, <1>2, <1>6, <1>7 DEF MailInv, CopiesFollow

LEMMA DeliverStep ==
    ASSUME MailInv, NEW c \in Calls, NEW b \in Agents, NEW m \in Mails, Mail!Deliver(c, b, m)
    PROVE  MailInv'
  <1> DEFINE h  == mailers[c]
             op == IF h.to = {b} THEN "post" ELSE "cast"
             h1 == [h EXCEPT !.to = @ \ {b}]
             h2 == [h1 EXCEPT !.mails = @ \cup {m}]
             h3 == [h2 EXCEPT !.op = op]
             x  == [to |-> b, read |-> FALSE]
  <1>0. /\ h \in Mail!Handler /\ h # None /\ h.op = "cast" /\ mail[m] = None
        /\ mail' = [mail EXCEPT ![m] = x] /\ mailers' = [mailers EXCEPT ![c] = h3] /\ UNCHANGED <<open, posted, lost>>
    <2>1. h # None /\ h.op = "cast" /\ mail[m] = None /\ mail' = [mail EXCEPT ![m] = x] /\ UNCHANGED <<open, posted, lost>>
      BY DEF Mail!Deliver, Mail!At
    <2>2. mailers' = [mailers EXCEPT ![c].to = @ \ {b}, ![c].mails = @ \cup {m}, ![c].op = IF h.to = {b} THEN "post" ELSE "cast"]
      BY DEF Mail!Deliver
    <2>3. mailers \in [Calls -> Mail!Handler \cup {None}] /\ h \in Mail!Handler
      BY <2>1, BoxTypes
    <2>4. [mailers EXCEPT ![c].to = @ \ {b}] = [mailers EXCEPT ![c] = h1]
      BY <2>3
    <2>5. [mailers EXCEPT ![c].to = @ \ {b}, ![c].mails = @ \cup {m}] = [mailers EXCEPT ![c] = h2]
      BY <2>3
    <2> QED BY <2>1, <2>2, <2>3, <2>5
  <1>1. h3 = [op |-> op, agent |-> h.agent, to |-> h.to \ {b}, mails |-> h.mails \cup {m}]
    <2>1. h = [op |-> h.op, agent |-> h.agent, to |-> h.to, mails |-> h.mails]
      BY <1>0 DEF Mail!Handler
    <2> HIDE DEF h
    <2>2. h1 = [op |-> h.op, agent |-> h.agent, to |-> h.to \ {b}, mails |-> h.mails]
      BY <2>1
    <2> HIDE DEF h1
    <2>3. h2 = [op |-> h.op, agent |-> h.agent, to |-> h.to \ {b}, mails |-> h.mails \cup {m}]
      BY <2>2
    <2> HIDE DEF h2, op
    <2> QED BY <2>3
  <1>2. /\ h3 \in Mail!Handler /\ h3.op # "mark" /\ h3.mails = h.mails \cup {m} /\ h3 # None
    <2>1. op \in {"post", "cast"}
      OBVIOUS
    <2> HIDE DEF op, h3
    <2>2. h3 \in Mail!Handler
      BY <1>0, <1>1, <2>1 DEF Mail!Handler
    <2> QED BY <1>1, <2>1, <2>2, FeedsAssumption
  <1>3. x \in Mail!Message /\ x # None /\ x.to = b /\ x.read = FALSE
    <2>1. x \in [to : Agents, read : BOOLEAN] /\ x.to = b /\ x.read = FALSE
      OBVIOUS
    <2> HIDE DEF x
    <2> QED BY <2>1, FeedsAssumption DEF Mail!Message
  <1> HIDE DEF h3, x
  <1>4. Mail!TypeOK'
    BY <1>0, <1>2, <1>3 DEF MailInv, Mail!TypeOK
  <1>5. \A d \in Calls, n \in Mails : /\ Holds(d, n)' <=> Holds(d, n) \/ (d = c /\ n = m)
                                      /\ Posts(d, n)' <=> Posts(d, n) \/ (d = c /\ n = m)
                                      /\ (Marks(d, n)' <=> Marks(d, n)) /\ (Marks(d, n) => mailers'[d] = mailers[d])
    BY <1>0, <1>2, BoxTypes DEF Holds, Posts, Marks
  <1>6. \A n \in Mails : mail'[n] = IF n = m THEN x ELSE mail[n]
    BY <1>0, BoxTypes
  <1>7. posted[m] = None /\ \A d \in Calls : ~Holds(d, m)
    BY <1>0 DEF MailInv, HandlersFollow, CopiesFollow
  <1>8. \A n \in Mails \ {m} : OwnMark(n)' <=> OwnMark(n)
    BY <1>5, <1>6 DEF OwnMark
  <1>9. HandlersFollow'
    BY <1>3, <1>5, <1>6, <1>7 DEF MailInv, HandlersFollow, Posts, Marks
  <1>10. CopiesFollow'
    BY <1>0, <1>6, <1>7 DEF MailInv, CopiesFollow
  <1>11. NoneIsLost'
    <2> SUFFICES ASSUME NEW n \in Mails \ lost', mail'[n] # None
                 PROVE  IF \E d \in Calls : Posts(d, n)' THEN posted'[n] = None /\ (mail'[n].read => OwnMark(n)')
                        ELSE posted'[n] # None /\ (posted'[n] = mail'[n] \/ OwnMark(n)')
      BY DEF NoneIsLost
    <2>1. CASE n = m
      BY <1>0, <1>3, <1>5, <1>6, <1>7, <2>1
    <2>2. CASE n # m
      BY <1>0, <1>5, <1>6, <1>8, <2>2 DEF MailInv, NoneIsLost
    <2> QED BY <2>1, <2>2
  <1> QED BY <1>4, <1>9, <1>10, <1>11 DEF MailInv

LEMMA PostStep ==
    ASSUME MailInv, NEW c \in Calls, NEW m \in Mails, Mail!Post(c, m)
    PROVE  MailInv'
  <1> DEFINE h  == mailers[c]
             h1 == [h EXCEPT !.mails = @ \ {m}]
             x  == [to |-> mail[m].to, read |-> FALSE]
  <1>0. /\ h \in Mail!Handler /\ h # None /\ h.op = "post" /\ m \in h.mails
        /\ posted' = [posted EXCEPT ![m] = x] /\ mailers' = [mailers EXCEPT ![c] = IF h.mails = {m} THEN None ELSE h1]
        /\ UNCHANGED <<open, mail, lost>>
    <2>1. h # None /\ h.op = "post" /\ m \in h.mails /\ posted' = [posted EXCEPT ![m] = x] /\ UNCHANGED <<open, mail, lost>>
      BY DEF Mail!Post, Mail!At
    <2>2. mailers' = [mailers EXCEPT ![c] = IF mailers[c].mails = {m} THEN None ELSE [mailers[c] EXCEPT !.mails = @ \ {m}]]
      BY DEF Mail!Post
    <2>3. mailers \in [Calls -> Mail!Handler \cup {None}] /\ h \in Mail!Handler
      BY <2>1, BoxTypes
    <2>4. mailers' = [mailers EXCEPT ![c] = IF h.mails = {m} THEN None ELSE h1]
      BY <2>2
    <2> QED BY <2>1, <2>3, <2>4
  <1>1. Posts(c, m) /\ mail[m] # None /\ mail[m] \in [to : Agents, read : BOOLEAN]
    BY <1>0, BoxTypes DEF MailInv, HandlersFollow, Posts, Holds
  <1>2. h1 \in Mail!Handler /\ h1.op = "post" /\ h1.mails = h.mails \ {m} /\ h1 # None
    BY <1>0, FeedsAssumption DEF Mail!Handler
  <1>3. x \in Mail!Message /\ x # None /\ x.to = mail[m].to /\ x.read = FALSE /\ (~mail[m].read => x = mail[m])
    <2>1. x \in [to : Agents, read : BOOLEAN] /\ x.to = mail[m].to /\ x.read = FALSE
      BY <1>1
    <2>2. ~mail[m].read => x = mail[m]
      BY <1>1
    <2> HIDE DEF x
    <2> QED BY <2>1, <2>2, FeedsAssumption DEF Mail!Message
  <1> HIDE DEF h1, x
  <1>4. Mail!TypeOK'
    BY <1>0, <1>2, <1>3 DEF MailInv, Mail!TypeOK
  <1>5. \A d \in Calls, n \in Mails : /\ Holds(d, n)' <=> Holds(d, n) /\ ~(d = c /\ n = m)
                                      /\ Posts(d, n)' <=> Posts(d, n) /\ ~(d = c /\ n = m)
                                      /\ (Marks(d, n)' <=> Marks(d, n)) /\ (Marks(d, n) => mailers'[d] = mailers[d])
    BY <1>0, <1>2, BoxTypes DEF Holds, Posts, Marks
  <1>6. \A n \in Mails : (OwnMark(n)' <=> OwnMark(n)) /\ posted'[n] = IF n = m THEN x ELSE posted[n]
    BY <1>0, <1>5, BoxTypes DEF OwnMark
  <1>7. HandlersFollow'
    BY <1>0, <1>5 DEF MailInv, HandlersFollow, Posts, Marks
  <1>8. CopiesFollow'
    BY <1>0, <1>1, <1>3, <1>6 DEF MailInv, CopiesFollow
  <1>9. NoneIsLost'
    <2> SUFFICES ASSUME NEW n \in Mails \ lost', mail'[n] # None
                 PROVE  IF \E d \in Calls : Posts(d, n)' THEN posted'[n] = None /\ (mail'[n].read => OwnMark(n)')
                        ELSE posted'[n] # None /\ (posted'[n] = mail'[n] \/ OwnMark(n)')
      BY DEF NoneIsLost
    <2>1. CASE n = m
      <3>1. \A d \in Calls : ~Posts(d, m)'
        BY <1>1, <1>5 DEF MailInv, HandlersFollow
      <3>2. m \notin lost /\ (mail[m].read => OwnMark(m))
        BY <1>0, <1>1, <2>1 DEF MailInv, NoneIsLost
      <3> QED BY <1>0, <1>3, <1>6, <2>1, <3>1, <3>2
    <2>2. CASE n # m
      BY <1>0, <1>5, <1>6, <2>2 DEF MailInv, NoneIsLost
    <2> QED BY <2>1, <2>2
  <1> QED BY <1>4, <1>7, <1>8, <1>9 DEF MailInv

LEMMA FailMailStep ==
    ASSUME MailInv, NEW c \in Calls, Mail!FailMail(c)
    PROVE  MailInv'
  <1>0. /\ mailers[c] # None /\ mailers[c] \in Mail!Handler /\ mailers' = [mailers EXCEPT ![c] = None]
        /\ lost' = lost \cup mailers[c].mails /\ UNCHANGED <<open, mail, posted>>
    BY BoxTypes DEF Mail!FailMail, Mail!Leave
  <1>1. Mail!TypeOK'
    BY <1>0 DEF MailInv, Mail!TypeOK, Mail!Handler
  <1>2. \A d \in Calls, n \in Mails : /\ Holds(d, n)' <=> Holds(d, n) /\ d # c
                                      /\ Posts(d, n)' <=> Posts(d, n) /\ d # c
                                      /\ (Marks(d, n)' <=> Marks(d, n) /\ d # c) /\ (d # c => mailers'[d] = mailers[d])
    BY <1>0, BoxTypes DEF Holds, Posts, Marks
  <1>3. HandlersFollow'
    BY <1>0, <1>2 DEF MailInv, HandlersFollow
  <1>4. ASSUME NEW n \in Mails \ lost'
        PROVE  (OwnMark(n)' <=> OwnMark(n)) /\ ~Posts(c, n)
    <2>1. ~Holds(c, n)
      BY <1>0, <1>4 DEF Holds
    <2> QED BY <1>0, <1>2, <2>1 DEF OwnMark, Posts, Marks
  <1>5. NoneIsLost'
    <2> SUFFICES ASSUME NEW n \in Mails \ lost', mail[n] # None
                 PROVE  IF \E d \in Calls : Posts(d, n)' THEN posted[n] = None /\ (mail[n].read => OwnMark(n)')
                        ELSE posted[n] # None /\ (posted[n] = mail[n] \/ OwnMark(n)')
      BY <1>0 DEF NoneIsLost
    <2>1. (\E d \in Calls : Posts(d, n)') <=> (\E d \in Calls : Posts(d, n))
      BY <1>2, <1>4
    <2> QED BY <1>0, <1>4, <2>1 DEF MailInv, NoneIsLost
  <1> QED BY <1>0, <1>1, <1>3, <1>5 DEF MailInv, CopiesFollow

LEMMA ReadMail ==
    ASSUME NEW x \in [to : Agents, read : BOOLEAN]
    PROVE  /\ [x EXCEPT !.read = TRUE] \in [to : Agents, read : BOOLEAN]
           /\ [x EXCEPT !.read = TRUE].to = x.to /\ [x EXCEPT !.read = TRUE].read = TRUE
  OBVIOUS

LEMMA BeginMarkStep ==
    ASSUME MailInv, NEW c \in Calls, NEW a \in Agents, NEW m \in Mails, Mail!BeginMark(c, a, m)
    PROVE  MailInv'
  <1> DEFINE h == [op |-> "mark", agent |-> a, to |-> {}, mails |-> {m}]
  <1>0. /\ mailers[c] = None /\ mail[m] # None /\ mailers' = [mailers EXCEPT ![c] = h]
        /\ mail' = Mail!MarkRead(a, {m}, mail) /\ UNCHANGED <<open, posted, lost>>
    BY DEF Mail!BeginMark, Mail!Begin
  <1>1. h \in Mail!Handler /\ h # None /\ h.mails = {m} /\ h.op = "mark" /\ h.agent = a
    BY FeedsAssumption DEF Mail!Handler
  <1> HIDE DEF h
  <1>2. /\ mail' \in [Mails -> Mail!Message]
        /\ \A n \in Mails : IF n = m /\ mail[m].to = a THEN mail'[n] # None /\ mail'[n].to = a /\ mail'[n].read = TRUE
                            ELSE mail'[n] = mail[n]
    <2> DEFINE y(i) == [mail[i] EXCEPT !.read = TRUE]
    <2>1. mail' = [i \in Mails |-> IF i = m /\ mail[i] # None /\ mail[i].to = a THEN y(i) ELSE mail[i]]
      BY <1>0 DEF Mail!MarkRead, Mail!Own
    <2>2. \A i \in Mails : mail[i] # None => y(i) \in Mail!Message /\ y(i) # None /\ y(i).to = mail[i].to /\ y(i).read = TRUE
      BY BoxTypes, ReadMail, FeedsAssumption DEF Mail!Message
    <2>3. mail[m] # None /\ mail \in [Mails -> Mail!Message]
      BY <1>0, BoxTypes
    <2> HIDE DEF y
    <2> QED BY <2>1, <2>2, <2>3
  <1>3. Mail!TypeOK'
    BY <1>0, <1>1, <1>2 DEF MailInv, Mail!TypeOK
  <1>4. \A d \in Calls, n \in Mails : /\ Holds(d, n)' <=> Holds(d, n) \/ (d = c /\ n = m)
                                      /\ Posts(d, n)' <=> Posts(d, n)
                                      /\ (Marks(d, n)' <=> Marks(d, n) \/ (d = c /\ n = m))
                                      /\ (Holds(d, n) => mailers'[d] = mailers[d])
    BY <1>0, <1>1, BoxTypes DEF Holds, Posts, Marks
  <1>5. \A n \in Mails : /\ mail'[n] # None <=> mail[n] # None
                         /\ mail[n] # None => mail'[n].to = mail[n].to /\ (mail[n].read => mail'[n].read)
                         /\ mail'[n] = mail[n] \/ (n = m /\ mail[m].to = a)
    BY <1>0, <1>2
  <1>6. mailers'[c].agent = a
    BY <1>0, <1>1, BoxTypes
  <1>7. HandlersFollow'
    <2> SUFFICES ASSUME NEW d \in Calls, NEW n \in Mails
                 PROVE  /\ Holds(d, n)' => mail'[n] # None
                        /\ Posts(d, n)' => \A e \in Calls : Posts(e, n)' => e = d
                        /\ Marks(d, n)' /\ mailers'[d].agent = mail'[n].to => mail'[n].read
      BY DEF HandlersFollow
    <2>1. CASE d = c /\ n = m
      <3>1. /\ mail'[m] # None /\ ~Posts(c, m)' /\ mailers'[c].agent = a
            /\ a = mail'[m].to => mail'[m].read
        BY <1>0, <1>1, <1>2, <1>4, <1>5, <1>6, BoxTypes DEF Posts, Holds
      <3> QED BY <2>1, <3>1
    <2>2. CASE ~(d = c /\ n = m)
      BY <1>4, <1>5, <2>2 DEF MailInv, HandlersFollow, Marks
    <2> QED BY <2>1, <2>2
  <1>8. CopiesFollow'
    BY <1>0, <1>5 DEF MailInv, CopiesFollow
  <1>9. ASSUME NEW n \in Mails, mail[n] # None PROVE OwnMark(n)' \/ (mail'[n] = mail[n] /\ ~OwnMark(n))
    <2>1. CASE n = m /\ mail[m].to = a
      BY <1>2, <1>4, <1>6, <2>1 DEF OwnMark
    <2>2. CASE ~(n = m /\ mail[m].to = a)
      BY <1>4, <1>5, <1>9, <2>2 DEF OwnMark, Marks
    <2> QED BY <2>1, <2>2
  <1>10. NoneIsLost'
    <2> SUFFICES ASSUME NEW n \in Mails \ lost', mail'[n] # None
                 PROVE  IF \E d \in Calls : Posts(d, n)' THEN posted'[n] = None /\ (mail'[n].read => OwnMark(n)')
                        ELSE posted'[n] # None /\ (posted'[n] = mail'[n] \/ OwnMark(n)')
      BY DEF NoneIsLost
    <2> QED BY <1>0, <1>4, <1>5, <1>9 DEF MailInv, NoneIsLost
  <1> QED BY <1>3, <1>7, <1>8, <1>10 DEF MailInv

LEMMA CopyMarkStep ==
    ASSUME MailInv, NEW c \in Calls, Mail!CopyMark(c)
    PROVE  MailInv'
  <1> DEFINE h == mailers[c]
  <1>0. /\ h \in Mail!Handler /\ h # None /\ h.op = "mark" /\ mailers' = [mailers EXCEPT ![c] = None]
        /\ posted' = Mail!MarkRead(h.agent, h.mails, posted)
        /\ lost' = lost \cup {m \in h.mails : posted[m] = None} /\ UNCHANGED <<open, mail>>
    BY BoxTypes DEF Mail!CopyMark, Mail!At, Mail!Leave
  <1>1. h.agent \in Agents /\ h.mails \in SUBSET Mails
    BY <1>0 DEF Mail!Handler
  <1>2. /\ posted' \in [Mails -> Mail!Message]
        /\ \A n \in Mails : IF n \in h.mails /\ posted[n] # None /\ posted[n].to = h.agent
                            THEN posted'[n] # None /\ posted'[n].to = h.agent /\ posted'[n].read = TRUE
                            ELSE posted'[n] = posted[n]
    <2> DEFINE y(i) == [posted[i] EXCEPT !.read = TRUE]
    <2>1. posted' = [i \in Mails |-> IF i \in h.mails /\ posted[i] # None /\ posted[i].to = h.agent THEN y(i) ELSE posted[i]]
      BY <1>0 DEF Mail!MarkRead, Mail!Own
    <2>2. \A i \in Mails : posted[i] # None => y(i) \in Mail!Message /\ y(i) # None /\ y(i).to = posted[i].to /\ y(i).read = TRUE
      BY BoxTypes, ReadMail, FeedsAssumption DEF Mail!Message
    <2> HIDE DEF y, h
    <2> QED BY <2>1, <2>2, BoxTypes
  <1>3. Mail!TypeOK'
    BY <1>0, <1>1, <1>2 DEF MailInv, Mail!TypeOK
  <1>4. \A d \in Calls, n \in Mails : /\ Holds(d, n)' <=> Holds(d, n) /\ d # c
                                      /\ Posts(d, n)' <=> Posts(d, n)
                                      /\ (Marks(d, n)' <=> Marks(d, n) /\ d # c) /\ (d # c => mailers'[d] = mailers[d])
    BY <1>0, BoxTypes DEF Holds, Posts, Marks
  <1>5. \A n \in Mails : Marks(c, n) <=> n \in h.mails
    BY <1>0 DEF Marks, Holds
  <1>6. HandlersFollow'
    BY <1>0, <1>4 DEF MailInv, HandlersFollow
  <1>7. CopiesFollow'
    BY <1>0, <1>2, <1>5 DEF MailInv, CopiesFollow, HandlersFollow
  <1>8. NoneIsLost'
    <2> SUFFICES ASSUME NEW n \in Mails \ lost', mail[n] # None
                 PROVE  IF \E d \in Calls : Posts(d, n)' THEN posted'[n] = None /\ (mail[n].read => OwnMark(n)')
                        ELSE posted'[n] # None /\ (posted'[n] = mail[n] \/ OwnMark(n)')
      BY <1>0 DEF NoneIsLost
    <2>0. n \in Mails \ lost /\ (n \in h.mails => posted[n] # None)
      BY <1>0
    <2>1. (\E d \in Calls : Posts(d, n)') <=> (\E d \in Calls : Posts(d, n))
      BY <1>4
    <2>2. CASE n \notin h.mails \/ h.agent # mail[n].to
      <3>1. posted'[n] = posted[n]
        BY <1>2, <2>0, <2>2 DEF MailInv, CopiesFollow
      <3>2. OwnMark(n)' <=> OwnMark(n)
        BY <1>0, <1>4, <1>5, <2>2 DEF OwnMark
      <3> QED BY <2>0, <2>1, <3>1, <3>2 DEF MailInv, NoneIsLost
    <2>3. CASE n \in h.mails /\ h.agent = mail[n].to
      <3>1. posted[n] # None /\ posted[n].to = mail[n].to /\ mail[n].read
        BY <1>5, <2>0, <2>3 DEF MailInv, CopiesFollow, HandlersFollow
      <3>2. posted'[n] \in [to : Agents, read : BOOLEAN] /\ posted'[n].to = h.agent /\ posted'[n].read = TRUE
        BY <1>2, <2>3, <3>1 DEF Mail!Message
      <3>3. posted'[n] = mail[n]
        BY <2>3, <3>1, <3>2, BoxTypes
      <3>4. ~\E d \in Calls : Posts(d, n)
        BY <2>0, <3>1 DEF MailInv, NoneIsLost
      <3> QED BY <1>2, <2>1, <2>3, <3>1, <3>3, <3>4
    <2> QED BY <2>2, <2>3
  <1> QED BY <1>3, <1>6, <1>7, <1>8 DEF MailInv

LEMMA MailRests == MailInv /\ UNCHANGED mailVars => MailInv'
  BY DEF mailVars, MailInv, Mail!TypeOK, HandlersFollow, CopiesFollow, NoneIsLost, OwnMark, Posts, Marks, Holds

LEMMA MailStep == MailInv /\ Mail!Next => MailInv'
  <1>1. ASSUME MailInv, NEW a \in Agents, Mail!OpenSession(a) PROVE MailInv'
    BY <1>1 DEF Mail!OpenSession, MailInv, Mail!TypeOK, HandlersFollow, CopiesFollow, NoneIsLost, OwnMark, Posts, Marks, Holds
  <1> QED BY <1>1, BeginMailStep, DeliverStep, BeginMarkStep, PostStep, FailMailStep, CopyMarkStep DEF Mail!Next

\* A mail that is there changes by the mark of its recipient only.
LEMMA MailMarked == MailInv /\ Mail!Next => Mail!MarkedByOwner
  <1> SUFFICES ASSUME MailInv, Mail!Next, NEW m \in Mails, mail[m] # None, mail'[m] # mail[m]
               PROVE  \E c \in Calls : mailers'[c] # None /\ mailers'[c].op = "mark" /\ mailers'[c].agent = mail[m].to
    BY DEF Mail!MarkedByOwner
  <1>1. PICK c \in Calls : \E a \in Agents, n \in Mails : Mail!Deliver(c, a, n) \/ Mail!BeginMark(c, a, n)
    BY DEF Mail!Next, Mail!OpenSession, Mail!BeginMail, Mail!Post, Mail!FailMail, Mail!CopyMark
  <1>2. PICK a \in Agents, n \in Mails : Mail!Deliver(c, a, n) \/ Mail!BeginMark(c, a, n)
    BY <1>1
  <1>3. CASE Mail!Deliver(c, a, n)
    BY <1>3, BoxTypes DEF Mail!Deliver
  <1>4. CASE Mail!BeginMark(c, a, n)
    <2> DEFINE h == [op |-> "mark", agent |-> a, to |-> {}, mails |-> {n}]
    <2>1. mail' = Mail!MarkRead(a, {n}, mail) /\ mailers' = [mailers EXCEPT ![c] = h]
      BY <1>4 DEF Mail!BeginMark, Mail!Begin
    <2>2. mail[m].to = a
      BY <2>1, BoxTypes DEF Mail!MarkRead, Mail!Own
    <2>3. h \in Mail!Handler /\ h.op = "mark" /\ h.agent = a
      BY DEF Mail!Handler
    <2>4. mailers'[c] = h
      BY <2>1, BoxTypes
    <2> QED BY <2>2, <2>3, <2>4, FeedsAssumption
  <1> QED BY <1>2, <1>3, <1>4

-----------------------------------------------------------------------------
(* The daemon.                                                             *)

\* The focus never moves, and the component in focus takes the steps.
LEMMA AuthorityFocus ==
    ASSUME [DaemonNext]_daemonVars
    PROVE  /\ focus' = focus
           /\ focus = "goals" => Goals!Next \/ UNCHANGED goalVars
           /\ focus = "grants" => Grants!Next \/ UNCHANGED grantVars
           /\ focus = "identity" => Identity!Next \/ UNCHANGED identityVars
           /\ focus = "permission" => (Policy!GateNext \/ UNCHANGED gateVars) /\ UNCHANGED pathVars
           /\ focus = "licences" => Licences!PromotionNext \/ UNCHANGED promotionVars
           /\ focus = "revocations" => Licences!RevocationNext \/ UNCHANGED revocationVars
           /\ focus = "models" => Models!ChatNext \/ UNCHANGED chatVars
           /\ focus = "skills" => Models!SkillNext \/ UNCHANGED skillVars
  BY DEF DaemonNext, DaemonRests, Rests, DaemonStep, Foci, daemonVars

LEMMA GoalsRest == GoalsInv /\ UNCHANGED goalVars => GoalsInv'
  <1> SUFFICES ASSUME GoalsInv, UNCHANGED goalVars PROVE GoalsInv'
    OBVIOUS
  <1>1. crossed' \in BOOLEAN
    BY Zenon DEF goalVars, GoalsInv, Goals!TypeOK
  <1>2. UNCHANGED <<status, verdict, task, methods>> /\ (crossed' <=> crossed)
    BY DEF goalVars
  <1> QED BY <1>1, <1>2 DEF GoalsInv, Goals!TypeOK, AloneOnGoal, ReadsHold, AllEarned

LEMMA IdentityRests == IdentityInv /\ UNCHANGED identityVars => IdentityInv'
  <1> SUFFICES ASSUME IdentityInv, UNCHANGED identityVars PROVE IdentityInv'
    OBVIOUS
  <1>1. UNCHANGED <<identities, keys, requests, daemonKeys, broken>>
    BY DEF identityVars
  <1>2. \A a \in Agents : Identity!Active(a)' = Identity!Active(a)
    BY <1>1 DEF Identity!Active
  <1>3. \A a \in Agents : Whole(a) => Whole(a)'
    BY <1>1, <1>2, WholeStays
  <1>4. \A a : AreTrusted(a)' <=> AreTrusted(a)
    BY <1>1 DEF AreTrusted, Identity!Active, Identity!Trusted
  <1>5. Founded
    BY DEF IdentityInv
  <1>6. Founded'
    BY <1>1, <1>4, <1>5 DEF Founded, Identity!Trusted
  <1>7. Identity!TypeOK'
    BY <1>1 DEF IdentityInv, Identity!TypeOK
  <1> QED BY <1>1, <1>3, <1>6, <1>7 DEF IdentityInv

LEMMA GrantsUntouched == GrantsInv /\ UNCHANGED grantVars => GrantsInv'
  BY DEF grantVars, GrantsInv, Grants!TypeOK, Metered

LEMMA PolicyRests == PolicyInv /\ UNCHANGED gateVars /\ UNCHANGED pathVars => PolicyInv'
  <1> SUFFICES ASSUME PolicyInv, UNCHANGED gateVars, UNCHANGED pathVars PROVE PolicyInv'
    OBVIOUS
  <1>1. UNCHANGED <<gated, envMode, sessionMode, deniedPath, prefix>>
    BY DEF gateVars, pathVars
  <1>2. anchor' \in BOOLEAN /\ denied' \in BOOLEAN
    BY Zenon DEF gateVars, PolicyInv, GateTypes
  <1>3. (anchor' <=> anchor) /\ (denied' <=> denied)
    BY DEF gateVars
  <1>4. GateTypes'
    BY <1>1, <1>2 DEF PolicyInv, GateTypes
  <1> QED BY <1>1, <1>3, <1>4
      DEF PolicyInv, Verified, Policy!FloorHolds, Policy!DoorIsOperators, Policy!OnlyOperatorsAct, Policy!Mode, Policy!ByDoor

LEMMA PromotionRests == PromotionInv /\ UNCHANGED promotionVars => PromotionInv'
  BY DEF promotionVars, PromotionInv, Licences!PromotionTypeOK, Committed, Known, ExpectedIsContained, PriorIsThere,
         Licences!ContainmentIsRecoverable

LEMMA RevocationRests == RevocationInv /\ UNCHANGED revocationVars => RevocationInv'
  <1> SUFFICES ASSUME RevocationInv, UNCHANGED revocationVars PROVE RevocationInv'
    OBVIOUS
  <1>1. lock' \in BOOLEAN /\ (lock' <=> lock) /\ UNCHANGED <<list, writers, readers, revoked, unsettled>>
    BY Zenon DEF revocationVars, RevocationInv, Licences!RevocationTypeOK
  <1>2. ChecksHold'
    BY <1>1, ChecksGoOn
  <1> QED BY <1>1, <1>2 DEF RevocationInv, Licences!RevocationTypeOK, Licences!RevocationsStay, WriterIsAlone

\* goal.* calls and the rotation of keys: a goal is completed or activated only by what it
\* has earned, a goal that is closed stays closed, and a key that was superseded stays so.
THEOREM ClosedGoalsAndKeys == DaemonSpec => ClosedStaysClosed
  <1> DEFINE Inv == /\ focus = "goals" => GoalsInv
                    /\ focus = "identity" => IdentityInv
             Earning == Of({"goals"}, Goals!TypeOK /\ Goals!GoalsAreEarned)
             Closing == Of({"goals"}, Goals!StaysClosed)
             Retiring == Of({"identity"}, Identity!Retired)
  <1>1. DaemonInit => Inv
    BY GoalsInit, IdentityInit DEF DaemonInit
  <1>2. Inv /\ [DaemonNext]_daemonVars => Inv'
    BY AuthorityFocus, GoalsStep, GoalsRest, IdentityStep, IdentityRests
  <1>3. Inv => Earning
    BY GoalsEarned DEF GoalsInv, Of
  <1>4. Inv /\ [DaemonNext]_daemonVars => [Closing]_goalVars
    BY AuthorityFocus, GoalsStep DEF Of
  <1>5. Inv /\ [DaemonNext]_daemonVars => [Retiring]_identityVars
    BY AuthorityFocus, KeysRetire DEF Of
  <1> HIDE DEF Inv, Earning, Closing, Retiring
  <1>6. DaemonSpec => []Earning /\ [][Closing]_goalVars /\ [][Retiring]_identityVars
    BY <1>1, <1>2, <1>3, <1>4, <1>5, PTL DEF DaemonSpec
  <1> QED BY <1>6 DEF ClosedStaysClosed, Earning, Closing, Retiring

\* Grants, identities and permission modes: a limited grant lets through no more than its
\* limit and a critical call is never let through by a grant for its class; one key signs for
\* an agent, and a key offered by a client is one the trust anchor names; the floor and the
\* door of the permission mode hold, whatever the call and the session ask for.
THEOREM AuthorityIsHeld == DaemonSpec => []AuthorityHolds
  <1> DEFINE Inv == /\ focus = "grants" => GrantsInv
                    /\ focus = "identity" => IdentityInv
                    /\ focus = "permission" => PolicyInv
  <1>1. DaemonInit => Inv
    BY GrantsInit, IdentityInit, PolicyInit DEF DaemonInit
  <1>2. Inv /\ [DaemonNext]_daemonVars => Inv'
    BY AuthorityFocus, GrantsStep, GrantsUntouched, IdentityStep, IdentityRests, PolicyStep, PolicyRests
  <1>3. Inv => AuthorityHolds
    BY GrantsKeep, IdentityHolds, PolicyHolds DEF AuthorityHolds, Of
  <1> QED BY <1>1, <1>2, <1>3, PTL DEF DaemonSpec

\* issue-license.ts, rotate-license.ts and revoked-jtis.ts, with processes that die, answers
\* that are lost and operations that are repeated: no licence that counts is overwritten, the
\* replacement of a contained one can be had, and a revocation binds every check after it.
THEOREM LicencesStayKept == DaemonSpec => LicencesAreKept
  <1> DEFINE Inv == /\ focus = "licences" => PromotionInv
                    /\ focus = "revocations" => RevocationInv
             Tokens == Of({"licences"}, Licences!PromotionTypeOK /\ Licences!ContainmentIsRecoverable)
             Checks == Of({"revocations"}, Licences!RevocationTypeOK /\ Licences!RevocationsStay /\ Licences!RevokedIsRefused)
             Steps == Of({"licences"}, Licences!LiveStays)
  <1>1. DaemonInit => Inv
    BY PromotionStarts, RevocationStarts DEF DaemonInit
  <1>2. Inv /\ [DaemonNext]_daemonVars => Inv'
    BY AuthorityFocus, PromotionStep, PromotionRests, RevocationStep, RevocationRests
  <1>3. Inv => Tokens /\ Checks
    BY RevocationsHold DEF PromotionInv, RevocationInv, Of
  <1>4. Inv /\ [DaemonNext]_daemonVars => [Steps]_promotionVars
    BY AuthorityFocus, LiveStay DEF Of
  <1> HIDE DEF Inv, Tokens, Checks, Steps
  <1>5. DaemonSpec => []Tokens /\ []Checks /\ [][Steps]_promotionVars
    BY <1>1, <1>2, <1>3, <1>4, PTL DEF DaemonSpec
  <1> QED BY <1>5 DEF LicencesAreKept, Tokens, Checks, Steps

\* openrouter.ts and skill-invoke-runtime.ts, with answers that are limited or cut off and a
\* session bound anew while a call is under way: a call that is over is booked once, no model
\* that trains on its input answers where training is not allowed, save by the free router,
\* and a tool counts as good in the trace only if it ran.
THEOREM ModelCallsStayGuarded == DaemonSpec => []ModelCallsAreGuarded
  <1> DEFINE Inv == /\ focus = "models" => ChatInv
                    /\ focus = "skills" => SkillInv
  <1>1. DaemonInit => Inv
    BY ChatStarts, SkillStarts DEF DaemonInit
  <1>2. ChatInv /\ UNCHANGED chatVars => ChatInv'
    BY ChatRests DEF chatVars, ChatInv, Models!ChatTypeOK
  <1>3. Inv /\ [DaemonNext]_daemonVars => Inv'
    BY <1>2, AuthorityFocus, ChatStep, SkillStep, SkillRests DEF skillVars
  <1>4. Inv => ModelCallsAreGuarded
    BY ChatHolds, SkillHolds DEF ChatInv, SkillInv, ModelCallsAreGuarded, Of
  <1> QED BY <1>1, <1>3, <1>4, PTL DEF DaemonSpec

\* The focus never moves, and the component in focus takes the steps.
LEMMA FeedsFocus ==
    ASSUME [DaemonNext]_daemonVars
    PROVE  /\ focus' = focus
           /\ focus = "sessions" => Presence!Next \/ UNCHANGED sessionVars
           /\ focus = "mail" => Mail!Next \/ UNCHANGED mailVars
           /\ focus = "feed" => Mail!FeedNext \/ UNCHANGED feedVars
           /\ focus = "pack" => Pack!Next \/ UNCHANGED packVars
  BY DEF DaemonNext, DaemonStep, Foci, daemonVars

\* events.wait and its polls, the watch on the design pack, and the copies of sessions and mail
\* in Neon, with handlers that overlap, copies that fail and restarts: a waiter has got each of
\* its events up to its cursor, a pack at rest is known, the fleet sees sessions and mail as they
\* are once the copies are made, and only its recipient marks a mail as read.
THEOREM FeedsStayComplete == DaemonSpec => FeedsAreComplete
  <1> DEFINE Inv == /\ focus = "feed" => FeedInv
                    /\ focus = "pack" => PackInv
                    /\ focus = "sessions" => PresenceInv
                    /\ focus = "mail" => MailInv
             Heard == Of({"feed"}, Mail!FeedTypeOK /\ Mail!FeedIsComplete)
             Watched == Of({"pack"}, Pack!TypeOK /\ Pack!RestIsKnown /\ Pack!MovesAreInOrder)
             Seen == Of({"sessions"}, Presence!TypeOK /\ Presence!FleetSeesSessions)
             Mailed == Of({"mail"}, Mail!TypeOK /\ Mail!FleetMailIsLocal)
             Marked == Of({"mail"}, Mail!MarkedByOwner)
  <1>1. DaemonInit => Inv
    BY FeedStarts, PackStarts, PresenceStarts, MailStarts DEF DaemonInit
  <1>2. Inv /\ [DaemonNext]_daemonVars => Inv'
    BY FeedsFocus, FeedStep, FeedRests, PackStep, PackRests, PresenceStep, PresenceRests, MailStep, MailRests
  <1>3. Inv => Heard /\ Watched /\ Seen /\ Mailed
    BY PackHolds, PresenceHolds, MailHolds DEF FeedInv, PackInv, PresenceInv, MailInv, Of
  <1>4. Inv /\ [DaemonNext]_daemonVars => [Marked]_mailVars
    BY FeedsFocus, MailMarked DEF Of
  <1> HIDE DEF Inv, Heard, Watched, Seen, Mailed, Marked
  <1>5. DaemonSpec => []Heard /\ []Watched /\ []Seen /\ []Mailed /\ [][Marked]_mailVars
    BY <1>1, <1>2, <1>3, <1>4, PTL DEF DaemonSpec
  <1> QED BY <1>5 DEF FeedsAreComplete, Heard, Watched, Seen, Mailed, Marked
=============================================================================
