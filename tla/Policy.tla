--------------------------------- MODULE Policy --------------------------------
(* What the daemon lets through to a handler: the tables of methods          *)
(* (permission.ts, server.ts), the mode they are read under, the operator's  *)
(* door, and the path test of the deny-list.  The queue of approvals and the *)
(* grants are in Approvals and Grants.                                       *)
EXTENDS Naturals, Sequences, SequencesExt

CONSTANTS
    Letters, MaxPath, MaxPrefix,   \* characters of a name; lengths of a path and of a prefix
    Repo,                          \* the path of an opened root
    None

VARIABLES
    call,         \* the request: its method, signature, principal, and where it has got
    default,      \* REVDEV_PERMISSION_MODE as the operator wrote it
    override,     \* permission_mode of the session of the caller
    anchor,       \* whether the operator's key is in the trust anchor
    denied,       \* whether the method is on the operator's deny-list
    path, prefix  \* a path of a call, an entry of the deny-list

gateVars == <<call, default, override, anchor, denied>>
pathVars == <<path, prefix>>
-----------------------------------------------------------------------------
(* The tables: the class of each method, those an unregistered caller may    *)
(* use, and those that are refused without a verified signature.             *)

Routine == {
    "ping", "session.register", "session.attach", "session.list", "session.snapshot.write",
    "session.snapshot.get", "session.snapshot.prune", "session.update", "mail.send",
    "mail.broadcast", "mail.inbox", "mail.markRead", "files.reserve", "files.check",
    "files.release", "files.list", "design.pack.status", "design.pack.watch",
    "design.pack.unwatch", "design.pack.scan", "tasks.create", "tasks.claim",
    "tasks.complete", "tasks.release", "tasks.list", "goal.create", "goal.get", "goal.list",
    "goal.setStatus", "goal.addCriterion", "goal.recordCriterion", "goal.listCriteria",
    "goal.progress", "goal.nextActions", "goal.proposeTask", "events.log", "events.query",
    "events.wait", "loop.arm", "loop.tick", "loop.status", "loop.spend",
    "loop.record_spend", "loop.pause", "loop.resume", "loop.stop", "context.snapshot",
    "memory.store", "memory.query", "harness.health", "inference.status", "inference.chat",
    "inference.generate", "file.read", "file.stat", "git.status", "git.diffFile",
    "git.diffContent", "git.readBlobAtHead", "git.readBlobAtIndex", "git.listBranches",
    "git.log", "worktree.list", "merge.status", "merge.list", "agent.output",
    "agent.streamTicket", "agent.resize", "agent.stop", "agent.list", "permission.pending",
    "permission.listGrants", "daemon.peers", "workflow.list", "skills.list",
    "skills.invoke", "graph.status", "graph.search", "graph.node", "graph.neighbors",
    "graph.at", "graph.context", "graph.addEpisode", "graph.communities",
    "skills.tool.Read", "skills.tool.Grep", "skills.tool.Glob"}
Consequential == {
    "file.write", "file.delete", "git.stageFile", "git.unstageFile", "git.createBranch",
    "git.switchBranch", "git.deleteBranch", "git.commit", "git.pull", "worktree.create",
    "agent.input", "merge.request", "merge.update", "agent.remove", "gateway.revokeToken",
    "workflow.run", "graph.outbox.push", "graph.sync.pull", "graph.reconcile"}
Critical == {
    "agent.spawn", "git.push", "git.discardFile", "project.open", "project.grant",
    "project.revoke", "worktree.remove", "harness.prune", "identity.rotate", "session.end",
    "inference.pull", "inference.delete", "inference.start", "inference.stop",
    "permission.decide", "permission.setMode", "permission.grant", "permission.revokeGrant",
    "skills.tool.Bash"}
IdentityExempt == {
    "ping", "session.register", "session.attach", "session.list", "context.snapshot",
    "harness.health", "daemon.peers", "inference.status", "inference.pull",
    "inference.delete", "inference.start", "inference.stop", "inference.chat",
    "inference.generate", "graph.status", "graph.search", "graph.node", "graph.neighbors",
    "graph.at", "graph.context"}
Signed == {
    "file.read", "file.write", "file.delete", "file.stat", "git.stageFile",
    "git.unstageFile", "git.discardFile", "git.createBranch", "git.switchBranch",
    "git.deleteBranch", "git.commit", "git.push", "git.pull", "worktree.create",
    "worktree.remove", "git.diffFile", "git.diffContent", "git.readBlobAtHead",
    "git.readBlobAtIndex", "project.open", "git.status", "git.listBranches", "git.log",
    "identity.rotate", "project.grant", "project.revoke", "agent.spawn", "agent.stop",
    "agent.input", "agent.resize", "agent.output", "agent.streamTicket", "agent.list",
    "agent.remove", "session.end", "harness.prune", "permission.decide",
    "permission.setMode", "permission.grant", "permission.revokeGrant",
    "gateway.revokeToken"}

\* skills.tool.Bash and the like are tools of skills.invoke, classified with the methods
Classified == Routine \cup Consequential \cup Critical
Door       == {"permission.decide", "permission.setMode"}
Methods    == Classified \cup {"unmapped"}
Class(m)   == IF m \in Routine THEN "routine" ELSE IF m \in Consequential THEN "consequential" ELSE "critical"
-----------------------------------------------------------------------------
(* The permission gate                                                      *)

Modes == {"shadow", "manual", "auto", "agent-scoped"}
Resolved(raw) == IF raw = "" THEN "shadow" ELSE IF raw \in Modes THEN raw ELSE "manual"
Mode == IF override # None /\ call.agent = "agent" THEN override ELSE Resolved(default)

\* decideEnforcement
Decide(m, mode) ==
    LET k == Class(m) IN
    IF mode = "shadow" THEN "allow"
    ELSE IF mode = "auto" THEN IF k = "critical" THEN "ask" ELSE IF denied THEN "deny" ELSE "allow"
    ELSE IF k = "routine" THEN "allow" ELSE "ask"

\* evaluateShadow: what the simulated mode would have done, for the audit
SimulatedMode(raw) == IF raw = "auto" THEN "auto" ELSE "manual"
WouldManual(k) == IF k = "routine" THEN "allow" ELSE "ask"
WouldAuto(k)   == IF k = "critical" THEN "ask" ELSE "allow"
Would(m, raw)  == IF SimulatedMode(raw) = "auto" THEN WouldAuto(Class(m)) ELSE WouldManual(Class(m))

Anchored == IF anchor THEN "in" ELSE "out"
Trusted(c) == c.signed /\ c.agent = "operator" /\ anchor

Idle == [method |-> None, agent |-> None, signed |-> FALSE, at |-> "none", read |-> None, asked |-> FALSE]

\* A request of a registered agent, of the operator, or of nobody, signed or not.
Request(m, who, sg) ==
    /\ call.at = "none"
    /\ sg => who # None
    /\ call' = [method |-> m, agent |-> who, signed |-> sg, at |-> "verify", read |-> None,
                asked |-> FALSE]
    /\ UNCHANGED <<default, override, anchor, denied>>

Verify ==
    /\ call.at = "verify"
    /\ call' = [call EXCEPT !.at = IF \/ call.method \in Signed /\ ~call.signed
                                      \/ call.method \notin IdentityExempt /\ call.agent = None
                                   THEN "refused" ELSE "gate"]
    /\ UNCHANGED <<default, override, anchor, denied>>

\* The door asks for no approval of the decision on approvals.
AtDoor(c) == c.method \in Door /\ Trusted(c)
Gate ==
    /\ call.at = "gate"
    /\ LET verdict == IF Mode # "shadow" /\ AtDoor(call) THEN "allow" ELSE Decide(call.method, Mode)
       IN call' = [call EXCEPT
             !.read = IF Mode # "shadow" /\ call.method \in Door /\ call.signed THEN Anchored ELSE None,
             !.at = IF verdict = "allow" THEN "handler" ELSE IF verdict = "deny" THEN "denied"
                    ELSE IF call.agent = None THEN "refused" ELSE "queued"]
    /\ UNCHANGED <<default, override, anchor, denied>>

\* The queued call that came back with a consumed approval, or under a grant.
Approved ==
    /\ call.at = "queued" /\ call' = [call EXCEPT !.at = "handler", !.asked = TRUE]
    /\ UNCHANGED <<default, override, anchor, denied>>

\* requireTrustedOperator reads the anchor again.  setMode is for another session
\* than the caller's: here that of "agent".  An unmapped method has no handler.
OperatorMayAct(c) == Trusted(c)
Handle ==
    /\ call.at = "handler"
    /\ call' = IF call.method \notin Door THEN [call EXCEPT !.at = "ran"]
               ELSE [call EXCEPT !.at = IF OperatorMayAct(call) THEN "ran" ELSE "refused", !.read = Anchored]
    /\ override' \in IF call'.at = "ran" /\ call.method = "permission.setMode"
                     THEN {None, "auto", "shadow"} ELSE {override}
    /\ UNCHANGED <<default, anchor, denied>>

\* The answer, an error or a receipt for the queue, ends the call.
Answer ==
    /\ call.at \in {"ran", "refused", "queued", "denied"} /\ call' = Idle
    /\ UNCHANGED <<default, override, anchor, denied>>

EditAnchor ==
    /\ anchor' = ~anchor
    /\ UNCHANGED <<call, default, override, denied>>

GateInit ==
    /\ call = Idle
    /\ default \in {"", "auto", "bogus"} /\ override = None /\ anchor \in BOOLEAN /\ denied \in BOOLEAN
GateNext ==
    \/ \E m \in Methods, who \in {"operator", "agent", None}, sg \in BOOLEAN : Request(m, who, sg)
    \/ Verify \/ Gate \/ Approved \/ Handle \/ Answer \/ EditAnchor
-----------------------------------------------------------------------------
(* The path test of the deny-list, on paths as sequences of characters with  *)
(* backslashes already turned                                                *)

Sep == "/"
HasPrefix(s, t) == IsPrefix(t, s)
DropDot(s) == IF HasPrefix(s, <<".", Sep>>) THEN SubSeq(s, 3, Len(s)) ELSE s
NameAt(s)  == {i \in 1 .. Len(s) : s[i] # Sep}
Lead(s)    == SubSeq(s, IF NameAt(s) = {} THEN Len(s) + 1 ELSE CHOOSE i \in NameAt(s) : \A j \in NameAt(s) : i <= j, Len(s))
Trail(s)   == SubSeq(s, 1, IF NameAt(s) = {} THEN 0 ELSE CHOOSE i \in NameAt(s) : \A j \in NameAt(s) : i >= j)
Includes(s, t) == \E i \in 1 .. Len(s) : HasPrefix(SubSeq(s, i, Len(s)), t)

Entry(q) == Trail(Lead(DropDot(q)))
Matches(p, q) ==
    LET norm == DropDot(p)  e == Entry(q)  relative == Lead(norm)
    IN /\ e # <<>>
       /\ \/ relative = e
          \/ HasPrefix(relative, e \o <<Sep>>)
          \/ IsSuffix(<<Sep>> \o e, norm)
          \/ Includes(norm, <<Sep>> \o e \o <<Sep>>)

\* A value of a call, and what is left of it below the root of the call.
Candidates(value) ==
    {value} \cup (IF HasPrefix(value, Repo \o <<Sep>>) /\ Lead(SubSeq(value, Len(Repo) + 1, Len(value))) # <<>>
                  THEN {Lead(SubSeq(value, Len(Repo) + 1, Len(value)))} ELSE {})
OnDenyList(value, q) == \E c \in Candidates(value) : Matches(c, q)

PathInit == path = <<>> /\ prefix = <<>>
PathNext ==
    \E ch \in Letters \cup {".", Sep} :
       \/ Len(prefix) < MaxPrefix /\ path = <<>> /\ prefix' = Append(prefix, ch) /\ UNCHANGED path
       \/ Len(path) < MaxPath /\ path' = Append(path, ch) /\ UNCHANGED prefix

Init == GateInit /\ PathInit
-----------------------------------------------------------------------------
(* Properties                                                               *)

TypeOK ==
    /\ call.method \in Methods \cup {None} /\ call.agent \in {"operator", "agent", None}
    /\ call.at \in {"none", "verify", "gate", "queued", "denied", "refused", "handler", "ran"}
    /\ call.read \in {None, "in", "out"} /\ call.asked \in BOOLEAN
    /\ default \in {"", "auto", "bogus"} /\ override \in {None, "auto", "shadow"} /\ anchor \in BOOLEAN /\ denied \in BOOLEAN
    /\ Len(path) <= MaxPath /\ Len(prefix) <= MaxPrefix

\* Shadow mode is honest about the future: for every method, what the audit says
\* the simulated mode would do is what that mode does, the deny-list of auto mode
\* apart, which the audit does not know (permission.ts:200-216, 338-354).
ShadowForetells ==
    LET m == call.method IN
    m # None => \A raw \in {"manual", "auto", "bogus"} :
       Would(m, raw) = Decide(m, SimulatedMode(raw)) \/ (SimulatedMode(raw) = "auto" /\ denied)

\* A mode nobody knows is no way around an approval: under it nothing but
\* routine calls reaches a handler unasked, a method missing from the table
\* included; and outside shadow mode no critical call does, whatever the deny-list
\* says.  Only the operator's own door is open (permission.ts:192, 222-229, 438-465).
ByDoor == call.method \in Door /\ call.read = "in"
FloorHolds ==
    call.at = "handler" /\ ~call.asked /\ ~ByDoor =>
       /\ default = "bogus" /\ override = None => call.method \in Routine
       /\ Mode # "shadow" => Class(call.method) # "critical"

\* What runs without a signature is routine, or one of the calls about models,
\* merges, the graph and workflows: never a file, a repository, a process or a
\* permission, and without a name only what needs none (server.ts:174, 231).
Unsigned == {"merge.request", "merge.update", "inference.pull", "inference.delete", "inference.start",
             "inference.stop", "workflow.run", "graph.outbox.push", "graph.sync.pull", "graph.reconcile",
             "skills.tool.Bash", "unmapped"}
UnsignedIsMinor ==
    call.at = "ran" /\ ~call.signed =>
       /\ call.method \in Routine \cup Unsigned
       /\ call.agent = None => call.method \in IdentityExempt

\* The operator is never locked out of the door, whatever the mode and the
\* deny-list, and nobody else acts through it, approved or not: the handler goes
\* by the anchor as it stands when it runs (server.ts:674-706).
DoorIsOperators ==
    call.method \in Door /\ call.signed /\ call.agent = "operator" =>
       /\ call.at \in {"queued", "denied"} => call.read # "in"
       /\ call.at = "ran" => call.read = "in"
OnlyOperatorsAct ==
    call.method \in Door /\ call.at = "ran" => call.signed /\ call.agent = "operator"

\* An entry of the deny-list matches exactly the paths that hold its segments in
\* a row: no name that merely begins or ends like it (permission.ts:290-317).
MatchIsBySegment ==
    LET p == DropDot(path)  e == Entry(prefix)
    IN Matches(path, prefix) <=>
         /\ e # <<>>
         /\ \E i \in 1 .. Len(p) :
               /\ HasPrefix(SubSeq(p, i, Len(p)), e)
               /\ i = 1 \/ p[i - 1] = Sep
               /\ i + Len(e) - 1 = Len(p) \/ p[i + Len(e)] = Sep

\* A path below an entry is denied however the call names it: as it is, with a
\* leading "./", or from the root of the file system (permission.ts:265-285).
DeniedHoweverNamed ==
    LET e == Entry(prefix)
        Below == /\ e # <<>> /\ HasPrefix(path, e)
                 /\ ~HasPrefix(path, <<".", Sep>>)
                 /\ Len(path) = Len(e) \/ path[Len(e) + 1] = Sep
    IN Below => \A value \in {path, <<".", Sep>> \o path, Repo \o <<Sep>> \o path} :
                   OnDenyList(value, prefix)
================================================================================
