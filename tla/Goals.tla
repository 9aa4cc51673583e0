-------------------------------- MODULE Goals --------------------------------
(***************************************************************************)
(* Goals with acceptance criteria (goals/goal-harness.ts, goal-store.ts).  *)
(*                                                                         *)
(* Each method reads what it decides on and writes in separate statements; *)
(* the reads of one method are one step here, its write is another.        *)
(***************************************************************************)
EXTENDS FiniteSets

CONSTANTS
    Goals, Criteria, Calls,
    GoalOf,     \* the goal of each criterion
    BlockedBy,  \* the goals each goal names as blockers
    None

VARIABLES
    status,   \* goals.status, None before createGoal
    verdict,  \* goal_criteria.status, None before it is inserted
    task,     \* status of the task linked to a criterion, None for no task
    calls,    \* methods in progress
    crossed   \* two methods worked on one goal at once, or a crash cut one off

goalVars == <<status, verdict, task, calls, crossed>>

Terminal == {"done", "abandoned"}
Ops == {"create", "activate", "block", "abandon", "complete", "add", "met", "failed", "reset", "propose"}

TypeOK ==
    /\ status \in [Goals -> {"open", "active", "blocked", None} \cup Terminal]
    /\ verdict \in [Criteria -> {"pending", "met", "failed", None}]
    /\ task \in [Criteria -> {"open", "claimed", "completed", None}]
    /\ calls \in [Calls -> [op : Ops, goal : Goals, crit : Criteria \cup {None}] \cup {None}]
    /\ crossed \in BOOLEAN

Init ==
    /\ status = [g \in Goals |-> None]
    /\ verdict = [k \in Criteria |-> None] /\ task = [k \in Criteria |-> None]
    /\ calls = [c \in Calls |-> None]
    /\ crossed = FALSE

CanReopen(from, to) == from \in {"open", "active", "blocked", "abandoned"} /\ from # to
CanTransition(from, to) ==
    \/ from = "open" /\ to \in {"active", "blocked", "abandoned"}
    \/ from = "active" /\ to \in {"blocked", "done", "abandoned"}
    \/ from = "blocked" /\ to \in {"active", "abandoned"}

CriteriaOf(g) == {k \in Criteria : GoalOf[k] = g /\ verdict[k] # None}

\* progress(): every criterion met, and every linked task completed.
ReadyToComplete(g) ==
    CriteriaOf(g) # {} /\ \A k \in CriteriaOf(g) : verdict[k] = "met" /\ task[k] \in {"completed", None}

-----------------------------------------------------------------------------
(* The reads of a method.                                                  *)

Working(g) == \E c \in Calls : calls[c] # None /\ calls[c].goal = g
Enter(c, op, g, k) ==
    /\ calls[c] = None
    /\ calls' = [calls EXCEPT ![c] = [op |-> op, goal |-> g, crit |-> k]]
    /\ crossed' = (crossed \/ Working(g))
    /\ UNCHANGED <<status, verdict, task>>

Unblocked(g) == \A b \in BlockedBy[g] : status[b] \in Terminal

\* setGoalStatus follows for a goal that may make the transition.
Transitions == {<<"activate", "active">>, <<"block", "blocked">>, <<"abandon", "abandoned">>,
                <<"complete", "done">>}
BeginTransition(c, op, g) ==
    /\ \E to \in {t[2] : t \in {u \in Transitions : u[1] = op}} : CanTransition(status[g], to)
    /\ op = "activate" => Unblocked(g)
    /\ op = "complete" => ReadyToComplete(g)
    /\ Enter(c, op, g, None)

\* addCriterion, recordCriterion and resetCriterion leave terminal goals alone.
OpenToChange(g) == status[g] # None /\ status[g] \notin Terminal
BeginCriterion(c, op, k) ==
    /\ OpenToChange(GoalOf[k])
    /\ CASE op = "add"              -> verdict[k] = None
         [] op \in {"met", "failed"} -> verdict[k] # None
         [] op = "reset"            -> verdict[k] = "failed"
         [] op = "propose"          -> /\ status[GoalOf[k]] = "active" /\ verdict[k] = "pending"
                                       /\ task[k] = None
    /\ Enter(c, op, GoalOf[k], k)

BeginCreate(c, g) == status[g] = None /\ ~Working(g) /\ Enter(c, "create", g, None)

-----------------------------------------------------------------------------
(* The write of a method, and its event.                                   *)

Leave(c) == calls' = [calls EXCEPT ![c] = None] /\ UNCHANGED crossed

WriteStatus(c) ==
    /\ calls[c] # None
    /\ \E t \in Transitions : /\ calls[c].op = t[1]
                              /\ status' = [status EXCEPT ![calls[c].goal] = t[2]]
    /\ Leave(c) /\ UNCHANGED <<verdict, task>>

\* UPDATE ... WHERE status = 'failed', which also unlinks the task.
ResetRow(k) == verdict[k] = "failed"

WriteCriterion(c) ==
    LET op == calls[c].op
        k  == calls[c].crit
    IN /\ calls[c] # None /\ k # None
       /\ CASE op = "add"     -> verdict' = [verdict EXCEPT ![k] = "pending"] /\ UNCHANGED task
            [] op \in {"met", "failed"} -> verdict' = [verdict EXCEPT ![k] = op] /\ UNCHANGED task
            [] op = "reset"   -> IF ResetRow(k)
                                 THEN /\ verdict' = [verdict EXCEPT ![k] = "pending"]
                                      /\ task' = [task EXCEPT ![k] = None]
                                 ELSE UNCHANGED <<verdict, task>>
            [] op = "propose" -> task' = [task EXCEPT ![k] = "open"] /\ UNCHANGED verdict
       /\ Leave(c) /\ UNCHANGED status

\* createGoal inserts the goal, then its criteria one by one.
InsertGoal(c) ==
    /\ calls[c] # None /\ calls[c].op = "create" /\ status[calls[c].goal] = None
    /\ status' = [status EXCEPT ![calls[c].goal] = "open"]
    /\ UNCHANGED <<verdict, task, calls, crossed>>

InsertCriterion(c, k) ==
    /\ calls[c] # None /\ calls[c].op = "create" /\ status[calls[c].goal] # None
    /\ GoalOf[k] = calls[c].goal /\ verdict[k] = None
    /\ verdict' = [verdict EXCEPT ![k] = "pending"]
    /\ UNCHANGED <<status, task, calls, crossed>>

FinishCreate(c) ==
    /\ calls[c] # None /\ calls[c].op = "create" /\ status[calls[c].goal] # None
    /\ Leave(c) /\ UNCHANGED <<status, verdict, task>>

\* The board moves a linked task.
MoveTask(k, to) ==
    /\ task[k] # None
    /\ <<task[k], to>> \in {<<"open", "claimed">>, <<"claimed", "completed">>, <<"claimed", "open">>}
    /\ task' = [task EXCEPT ![k] = to]
    /\ UNCHANGED <<status, verdict, calls, crossed>>

CrashGoals ==
    /\ crossed' = (crossed \/ \E c \in Calls : calls[c] # None)
    /\ calls' = [c \in Calls |-> None]
    /\ UNCHANGED <<status, verdict, task>>

\* Nothing is claimed of a goal two methods worked on at once, so the model ends there.
Next ==
  ~crossed /\
  ( \/ CrashGoals
    \/ \E c \in Calls :
          \/ WriteStatus(c) \/ WriteCriterion(c) \/ InsertGoal(c) \/ FinishCreate(c)
          \/ \E k \in Criteria : InsertCriterion(c, k)
          \/ \E g \in Goals : BeginCreate(c, g) \/ \E op \in Ops : BeginTransition(c, op, g)
          \/ \E k \in Criteria, op \in {"add", "met", "failed", "reset", "propose"} : BeginCriterion(c, op, k)
    \/ \E k \in Criteria, to \in {"open", "claimed", "completed"} : MoveTask(k, to) )

Spec == Init /\ [][Next]_goalVars
-----------------------------------------------------------------------------
(* Properties.  Methods on different goals overlap freely in them.         *)

\* A goal that is done stays with criteria that are all met, and was not
\* worked on while one of its blockers was still open.
GoalsAreEarned ==
    ~crossed => \A g \in Goals :
        /\ status[g] = "done" => CriteriaOf(g) # {} /\ \A k \in CriteriaOf(g) : verdict[k] = "met"
        /\ status[g] \in {"active", "done"} => Unblocked(g)

\* A goal that was closed is never opened again.
StaysClosed == \A g \in Goals : status[g] \in Terminal => status'[g] = status[g]
ClosedIsFinal == [][StaysClosed]_goalVars
=============================================================================
