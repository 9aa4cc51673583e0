---------------------------- MODULE TaskOwnership ---------------------------
(***************************************************************************)
(* What the task board promises its clients: an agent that has been told   *)
(* it owns a task shares it with nobody until it gives it up.              *)
(***************************************************************************)
CONSTANTS Agents, Tasks

VARIABLE owners  \* the <<agent, task>> pairs that agents have been told of

TypeOK == owners \subseteq Agents \X Tasks

Init == owners = {}

Grant(a, t) ==
    /\ \A b \in Agents : <<b, t>> \in owners => b = a
    /\ owners' = owners \cup {<<a, t>>}

GiveUp(a, t) == owners' = owners \ {<<a, t>>}

Next == \E a \in Agents, t \in Tasks : Grant(a, t) \/ GiveUp(a, t)

Spec == Init /\ [][Next]_owners

\* One owner per task, as the API reference promises ("only one agent can own a task").
OneOwner == \A a, b \in Agents, t \in Tasks : {<<a, t>>, <<b, t>>} \subseteq owners => a = b
=============================================================================
