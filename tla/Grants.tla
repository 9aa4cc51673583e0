------------------------------- MODULE Grants --------------------------------
(***************************************************************************)
(* The permission gate in front of the approval queue (permission.ts,      *)
(* dispatchRpc): the mode of a session, the policy, and the grants an      *)
(* operator issues to an agent-scoped session.                             *)
(***************************************************************************)
EXTENDS Naturals

CONSTANTS
    Calls,     \* calls of one grantee, each with its place in the gate
    Grants,    \* ids, in the order of issue
    Shapes,    \* [classes, methods, scoped, max]: max 0 for unlimited
    ClassOf,   \* action class of each method
    DenyList,  \* methods the operator denies in auto mode
    None

VARIABLES
    override,  \* permission_mode of the session, None for the default of the daemon
    grants,    \* permission_grants by id: shape, status and uses_remaining
    gate,      \* the calls in the gate
    used       \* calls each limited grant let through

grantVars == <<override, grants, gate, used>>

Modes   == {"shadow", "manual", "auto", "agent-scoped"}
Methods == DOMAIN ClassOf
Idle    == [at |-> "idle"]
Call    == [method : Methods, inScope : BOOLEAN]

Grant   == [shape : Shapes, status : {"active", "exhausted", "ended"}, left : Nat]

TypeOK ==
    /\ override \in Modes \cup {None}
    /\ grants \in [Grants -> Grant \cup {None}]
    /\ \A c \in Calls : gate[c].at \in {"idle", "resolved", "granting", "decided"}
    /\ used \in [Grants -> Nat]

Init ==
    /\ override \in Modes \cup {None}
    /\ grants = [g \in Grants |-> None]
    /\ gate = [c \in Calls |-> Idle]
    /\ used = [g \in Grants |-> 0]

Class(m) == IF m \in DOMAIN ClassOf THEN ClassOf[m] ELSE "critical"

\* decideEnforcement
Decide(m, mode) ==
    IF mode = "shadow" THEN "allow"
    ELSE IF mode # "auto" THEN IF Class(m) = "routine" THEN "allow" ELSE "ask"
    ELSE IF Class(m) = "critical" THEN "ask" ELSE IF m \in DenyList THEN "deny" ELSE "allow"

-----------------------------------------------------------------------------
\* resolveEffectiveMode: the override of a live session, else the default, shadow.
Resolve(c, call) ==
    /\ gate[c] = Idle
    /\ gate' = [gate EXCEPT ![c] = [at |-> "resolved", call |-> call,
                                    mode |-> IF override = None THEN "shadow" ELSE override]]
    /\ UNCHANGED <<override, grants, used>>

Decided(c, by, via) ==
    [at |-> "decided", call |-> gate[c].call, by |-> by, via |-> via, mode |-> gate[c].mode]

\* grantCoversMethod and grantRootMatches
CoversByClass(s, call) == Class(call.method) \in s.classes \cup {"critical"} \/ call.method \in s.methods
Covers(s, call) ==
    /\ \/ call.method \in s.methods
       \/ /\ Class(call.method) = "consequential"
          /\ "consequential" \in s.classes
    /\ s.scoped => call.inScope

Active(g)   == grants[g] # None /\ grants[g].status = "active"
Selected(c) == {g \in Grants : Active(g) /\ Covers(grants[g].shape, gate[c].call)}

\* The policy; in agent-scoped mode the active grants are then selected.
Enforce(c) ==
    LET d == Decide(gate[c].call.method, gate[c].mode) IN
    /\ gate[c].at = "resolved"
    /\ gate' = [gate EXCEPT ![c] =
                  IF d = "ask" /\ @.mode = "agent-scoped"
                  THEN [at |-> "granting", call |-> @.call, mode |-> @.mode, rows |-> Selected(c)]
                  ELSE Decided(c, d, {})]
    /\ UNCHANGED <<override, grants, used>>

TakesAny(g)  == TRUE
Takes(g) == Active(g) /\ grants[g].left > 0
Spend(g)     == [grants EXCEPT ![g].left = @ - 1,
                               ![g].status = IF grants[g].left <= 1 THEN "exhausted" ELSE @]

\* One row of the selection, the oldest first: a limited grant is spent by an
\* UPDATE that may match nothing, an unlimited one is used as it was read.
TryGrant(c) ==
    /\ gate[c].at = "granting"
    /\ \/ /\ gate[c].rows = {}
          /\ gate' = [gate EXCEPT ![c] = Decided(c, "ask", {})]
          /\ UNCHANGED <<grants, used>>
       \/ \E g \in gate[c].rows :
             /\ \A h \in gate[c].rows : g <= h
             /\ IF grants[g].shape.max > 0 /\ ~Takes(g)
                THEN gate' = [gate EXCEPT ![c].rows = @ \ {g}] /\ UNCHANGED <<grants, used>>
                ELSE /\ gate' = [gate EXCEPT ![c] = Decided(c, "grant", {g})]
                     /\ IF grants[g].shape.max > 0
                        THEN grants' = Spend(g) /\ used' = [used EXCEPT ![g] = @ + 1]
                        ELSE UNCHANGED <<grants, used>>
    /\ UNCHANGED override

-----------------------------------------------------------------------------
(* The operator, another agent.                                            *)

SetMode(m) ==
    /\ override' = m
    /\ UNCHANGED <<grants, gate, used>>

IssueGrant(g, s) ==
    /\ grants[g] = None /\ \A h \in Grants : h < g => grants[h] # None
    /\ grants' = [grants EXCEPT ![g] = [shape |-> s, status |-> "active", left |-> s.max]]
    /\ UNCHANGED <<override, gate, used>>

\* Expiry, or a revocation; each is an UPDATE of an active row.
EndGrant(g) ==
    /\ Active(g)
    /\ grants' = [grants EXCEPT ![g].status = "ended"]
    /\ UNCHANGED <<override, gate, used>>

-----------------------------------------------------------------------------
Next ==
    \/ \E c \in Calls : \/ \E call \in Call : Resolve(c, call)
                        \/ Enforce(c) \/ TryGrant(c)
    \/ \E m \in Modes \cup {None} : SetMode(m)
    \/ \E g \in Grants : \/ \E s \in Shapes : IssueGrant(g, s)
                         \/ EndGrant(g)

Spec == Init /\ [][Next]_grantVars
-----------------------------------------------------------------------------
(* Properties.                                                             *)

\* However calls overlap with one another, with expiry and with revocation, a
\* limited grant lets no more calls through than it was issued for.
LimitsHold ==
    \A g \in Grants : grants[g] # None /\ grants[g].shape.max > 0
                      => used[g] + grants[g].left = grants[g].shape.max

\* A critical call that passes without approval is in a session that was only
\* observed when it arrived, or has a grant for its place that names it.
CriticalIsNamed ==
    \A c \in Calls : gate[c].at = "decided" /\ Class(gate[c].call.method) = "critical" =>
        \/ gate[c].by = "ask"
        \/ gate[c].by = "allow" /\ gate[c].mode = "shadow"
        \/ \E g \in gate[c].via : /\ gate[c].call.method \in grants[g].shape.methods
                                 /\ grants[g].shape.scoped => gate[c].call.inScope
=============================================================================
