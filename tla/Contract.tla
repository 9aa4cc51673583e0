------------------------------- MODULE Contract --------------------------------
(* The contract between the tools of the bridge (packages/bridge) and the    *)
(* daemon: what each tool sends, what the schema of its method accepts       *)
(* (validation/), and what the handler reads.                                *)
EXTENDS FiniteSets, TLC

CONSTANTS
    None,
    Exempt, Signed, Classified,   \* the daemon's tables of methods, which Policy has
    SkillTools                    \* the tools of skills.invoke, classified with the methods

VARIABLES
    toolCall   \* a call of a tool: the parameters it sends, who signs, and how far it is

-----------------------------------------------------------------------------
(* Values, by what a schema tells apart: an ordinary string, an empty one,  *)
(* one beyond every limit, one with "..", one that starts with a dash; an   *)
(* ordinary integer, 0, a fraction; a truth value, a list, an object.       *)

Str        == {"word", "empty", "dotted", "dashed"}
Free       == Str \cup {"long"}
Named      == Str \ {"empty"}
Unbounded  == Free \ {"empty"}
SafePath   == Str \ {"dotted"}
GitRef     == Named \ {"dashed"}
AgentId    == {"word", "dashed"}
Whole      == {"count"}
Natural    == {"count", "zero"}
Number     == {"count", "fraction"}
AnyNumber  == {"count", "zero", "fraction"}
Flag       == {"flag"}
List       == {"list", "dotted list"}
PathList   == {"list"}
Object     == {"object"}
Opt(type)  == type \cup {None}
Ordinary   == {"word", "count", "flag", "list", "object"}
Odd        == {"empty", "dotted", "dashed", "long", "zero", "fraction", "dotted list"}

Priorities == {"low", "medium", "high", "critical"}
Urgencies  == {"low", "normal", "high"}
Root       == [repoPath |-> SafePath]
File       == [repoPath |-> SafePath, filePath |-> SafePath]
Loop       == [loopId |-> Named]
Spend      == [tokensIn |-> Opt(Natural), tokensOut |-> Opt(Natural), costMicros |-> Opt(Natural)]
Process    == [processId |-> Unbounded]
Model      == [model |-> Str]
Provider   == [provider |-> Opt({"ollama", "openrouter"}), temperature |-> Opt(AnyNumber), maxTokens |-> Opt(Whole), model |-> Opt(Str)]
NoFields   == <<>>

-----------------------------------------------------------------------------
(* The schemas: the fields of each method and what they take.               *)

SessionSchemas ==
    "session.register" :> [agentId |-> Opt(Str), agentName |-> Opt(Str), workDir |-> Opt(Str), backend |-> Opt(Str),
                           task |-> Opt(Str), env |-> Opt(Str), pid |-> Opt(Natural), publicKeyPem |-> Opt(Str)]
    @@ "session.attach" :> [sessionId |-> Opt(Str), agentId |-> Opt(Str)]
    @@ "session.list" :> [scope |-> Opt({"local", "fleet"})]
    @@ "session.end" :> [exitSummary |-> Opt(Str), summary |-> Opt(Str), sessionId |-> Opt(Str), agentId |-> Opt(Str)]
    @@ "session.update" :> [task |-> Opt(Str), files |-> Opt(Str), state |-> Opt({"active", "blocked", "idle"}),
                            blockedReason |-> Opt(Str), sessionId |-> Opt(Str), agentId |-> Opt(Str)]

MailSchemas ==
    "mail.send" :> [to |-> Opt(Str), toAgent |-> Opt(Str), subject |-> Str, body |-> Str, priority |-> Opt(Urgencies)]
    @@ "mail.inbox" :> [agentId |-> Opt(AgentId), unreadOnly |-> Opt(Flag)]
    @@ "mail.broadcast" :> [subject |-> Str, body |-> Str]
    @@ "mail.markRead" :> [messageIds |-> List]

FileSchemas ==
    "files.reserve" :> [filePath |-> Opt(SafePath), paths |-> Opt(PathList), ttlSeconds |-> Opt(Whole), reason |-> Opt(Str)]
    @@ "files.check" :> [filePath |-> Opt(SafePath), paths |-> Opt(PathList)]
    @@ "files.release" :> [filePath |-> Opt(SafePath), paths |-> Opt(PathList)]
    @@ "files.list" :> [agentId |-> Opt(Str)]
    @@ "design.pack.status" :> NoFields
    @@ "design.pack.watch" :> [repoRoot |-> Opt(SafePath), paths |-> Opt(PathList)]
    @@ "design.pack.unwatch" :> NoFields
    @@ "design.pack.scan" :> [force |-> Opt(Flag), paths |-> Opt(PathList)]

TaskSchemas ==
    "tasks.create" :> [taskId |-> Opt(Str), title |-> Opt(Str), description |-> Opt(Str), priority |-> Opt(Priorities), full |-> Opt(Str)]
    @@ "tasks.list" :> [status |-> Opt(Str \cup {"pending", "claimed", "completed", "all"}), owner |-> Opt(Str)]
    @@ "tasks.claim" :> [taskId |-> Str]
    @@ "tasks.complete" :> [taskId |-> Str, summary |-> Opt(Str)]
    @@ "tasks.release" :> [taskId |-> Str]

\* an event's payload is anything that can be written down within its limit
EventSchemas ==
    "events.log" :> [eventType |-> Str, payload |-> Opt(Str \cup AnyNumber \cup Flag \cup List \cup Object), agentId |-> Opt(Str)]
    @@ "events.query" :> [limit |-> Opt(Whole), since |-> Opt(Str), eventType |-> Opt(Str)]
    @@ "events.wait" :> [eventType |-> Named, sinceId |-> Opt(Natural), timeoutMs |-> Opt(Whole)]
    @@ "loop.arm" :> (Loop @@ [intervalMs |-> Whole, noopLimit |-> Opt(Whole), sessionId |-> Opt(Named)])
    @@ "loop.tick" :> (Loop @@ [advanced |-> Flag] @@ Spend)
    @@ "loop.record_spend" :> (Loop @@ Spend)
    @@ [m \in {"loop.status", "loop.spend", "loop.pause", "loop.resume", "loop.stop"} |-> Loop]

SnapshotSchemas ==
    "context.snapshot" :> [eventLimit |-> Opt(Whole), includeSelf |-> Opt(Flag)]
    @@ "session.snapshot.write" :> [sessionId |-> Named, sections |-> Object, mechanical |-> Opt(Object)]
    @@ "session.snapshot.get" :> [sessionId |-> Named]
    @@ "session.snapshot.prune" :> [maxAgeDays |-> Opt(Whole)]

MemorySchemas ==
    "memory.store" :> [memoryType |-> Str, content |-> Str, metadata |-> Opt(Object)]
    @@ "memory.query" :> [memoryType |-> Opt(Str), query |-> Opt(Str), tags |-> Opt(List), limit |-> Opt(Whole)]

GraphSchemas ==
    "graph.status" :> NoFields @@ "graph.outbox.push" :> NoFields
    @@ "graph.search" :> [query |-> Named, anchor |-> Opt(Named), naturalKey |-> Opt(Named), kinds |-> Opt(List),
                          relations |-> Opt(List), at |-> Opt(Str), limit |-> Opt(Whole), bfsDepth |-> Opt(Whole)]
    @@ "graph.node" :> [naturalKey |-> Named, at |-> Opt(Str)]
    @@ "graph.neighbors" :> [naturalKey |-> Named, depth |-> Opt(Whole), relations |-> Opt(List), at |-> Opt(Str)]
    @@ "graph.at" :> [naturalKey |-> Named, at |-> Named]
    @@ "graph.context" :> [naturalKey |-> Named, depth |-> Opt(Whole), charBudget |-> Opt(Whole), at |-> Opt(Str)]
    @@ "graph.addEpisode" :> [episodeType |-> Opt(Str), source |-> Opt(Named), content |-> Opt(Str), contentRef |-> Opt(Object),
                              referenceTime |-> Opt(Str), siteId |-> Opt(Str), nodes |-> Opt(List), edges |-> Opt(List)]
    @@ "graph.sync.pull" :> [repos |-> Opt(List), scope |-> Opt({"all"})]
    @@ "graph.communities" :> [refresh |-> Opt(Flag), limit |-> Opt(Whole)]
    @@ "graph.reconcile" :> [sessionId |-> Opt(Str), limit |-> Opt(Whole)]

HealthSchemas ==
    "harness.health" :> NoFields
    @@ "daemon.peers" :> [staleAfterSeconds |-> Opt(Number)]
    @@ "harness.prune" :> [staleDays |-> Opt(Number), hardDeleteDays |-> Opt(Number), heartbeatStaleSeconds |-> Opt(Number)]

InferenceSchemas ==
    "inference.status" :> NoFields
    @@ [m \in {"inference.pull", "inference.delete", "inference.start", "inference.stop"} |-> Model]
    @@ "inference.chat" :> ([messages |-> List] @@ Provider)
    @@ "inference.generate" :> ([prompt |-> Str] @@ Provider)

MergeSchemas ==
    "worktree.create" :> [branch |-> Str, baseBranch |-> Opt(Str), path |-> Opt(Str)]
    @@ "worktree.list" :> [agentId |-> Opt(Str)]
    @@ "worktree.remove" :> [branch |-> Str]
    @@ "merge.request" :> [taskId |-> Opt(Str), sourceBranch |-> Opt(Str), branch |-> Opt(Str), baseBranch |-> Opt(Str),
                           targetBranch |-> Opt(Str), description |-> Opt(Str)]
    @@ "merge.status" :> [mergeId |-> Str]
    @@ "merge.list" :> [status |-> Opt(Str), agentId |-> Opt(Str)]
    @@ "merge.update" :> [mergeId |-> Str, status |-> Opt(Str), prNumber |-> Opt(Natural), prUrl |-> Opt(Str),
                          errorMessage |-> Opt(Str), ciOutput |-> Opt(Str)]

AgentSchemas ==
    "agent.spawn" :> [command |-> Named, args |-> Opt(List), repoPath |-> SafePath, cwd |-> Opt(SafePath),
                      cols |-> Opt(Whole), rows |-> Opt(Whole), env |-> Opt(Object)]
    @@ "agent.list" :> NoFields
    @@ [m \in {"agent.stop", "agent.remove", "agent.streamTicket"} |-> Process]
    @@ "agent.input" :> (Process @@ [data |-> Str])
    @@ "agent.resize" :> (Process @@ [cols |-> Whole, rows |-> Whole])
    @@ "agent.output" :> (Process @@ [cursor |-> Opt(Free), limit |-> Opt(Whole)])

GitSchemas ==
    [m \in {"project.open", "git.status", "git.listBranches"} |-> Root]
    @@ [m \in {"file.read", "file.delete", "file.stat", "git.diffContent", "git.stageFile", "git.unstageFile",
               "git.discardFile", "git.readBlobAtHead", "git.readBlobAtIndex"} |-> File]
    @@ "file.write" :> (File @@ [content |-> Str])
    @@ "git.diffFile" :> (File @@ [staged |-> Opt(Flag)])
    @@ "git.createBranch" :> (Root @@ [name |-> GitRef, baseBranch |-> Opt(GitRef)])
    @@ "git.switchBranch" :> (Root @@ [name |-> GitRef])
    @@ "git.deleteBranch" :> (Root @@ [name |-> GitRef, force |-> Opt(Flag)])
    @@ "git.log" :> (Root @@ [limit |-> Opt(Whole)])
    @@ "git.commit" :> (Root @@ [message |-> Named])
    @@ [m \in {"git.push", "git.pull"} |-> Root @@ [remote |-> Opt(GitRef), branch |-> Opt(GitRef)]]

PermissionSchemas ==
    "permission.pending" :> [agentId |-> Opt(Str), scope |-> Opt({"self", "all"})]
    @@ "permission.decide" :> [approvalId |-> Named, verdict |-> {"approved", "denied"}]
    @@ "gateway.revokeToken" :> [token |-> Unbounded]

Schemas ==
    SessionSchemas @@ MailSchemas @@ FileSchemas @@ TaskSchemas @@ EventSchemas @@ SnapshotSchemas @@ MemorySchemas
    @@ GraphSchemas @@ HealthSchemas @@ InferenceSchemas @@ MergeSchemas @@ AgentSchemas @@ GitSchemas @@ PermissionSchemas

\* a field, None when it is not there
Field(params, f) == IF f \in DOMAIN params THEN params[f] ELSE None
Given(params, f) == Field(params, f) \notin {None, "empty"}

\* what a schema asks of several fields together
Refined(m, p) ==
    CASE m = "session.attach" -> Given(p, "sessionId") \/ Given(p, "agentId")
      [] m = "mail.send" -> Given(p, "to") \/ Given(p, "toAgent")
      [] m = "merge.request" -> Given(p, "sourceBranch") \/ Given(p, "branch")
      [] m \in {"inference.chat", "inference.generate"} -> Field(p, "provider") = "openrouter" \/ Given(p, "model")
      [] OTHER -> TRUE

\* validateParams: what no schema names passes, and so does a method without one
Valid(m, p) ==
    m \in DOMAIN Schemas =>
        Refined(m, p) /\ \A f \in DOMAIN Schemas[m] : Field(p, f) \in Schemas[m][f]

-----------------------------------------------------------------------------
(* RPC_METHODS                                                              *)

RpcMethods ==
    {"ping", "harness.health", "harness.prune", "daemon.peers",
     "session.register", "session.attach", "session.update", "session.end", "session.list",
     "session.snapshot.write", "session.snapshot.get", "session.snapshot.prune", "identity.rotate",
     "mail.send", "mail.broadcast", "mail.inbox", "mail.markRead",
     "files.reserve", "files.check", "files.release", "files.list",
     "design.pack.status", "design.pack.watch", "design.pack.unwatch", "design.pack.scan",
     "tasks.create", "tasks.claim", "tasks.complete", "tasks.release", "tasks.list",
     "goal.create", "goal.get", "goal.list", "goal.setStatus", "goal.addCriterion", "goal.recordCriterion",
     "goal.listCriteria", "goal.progress", "goal.nextActions", "goal.proposeTask",
     "events.log", "events.query", "events.wait",
     "loop.arm", "loop.tick", "loop.status", "loop.spend", "loop.record_spend", "loop.pause", "loop.resume", "loop.stop",
     "context.snapshot", "memory.store", "memory.query",
     "agent.spawn", "agent.stop", "agent.list", "agent.remove", "agent.input", "agent.resize", "agent.output", "agent.streamTicket",
     "inference.status", "inference.pull", "inference.delete", "inference.start", "inference.stop", "inference.chat", "inference.generate",
     "project.open", "project.grant", "project.revoke", "file.read", "file.write", "file.delete", "file.stat",
     "git.status", "git.diffFile", "git.diffContent", "git.readBlobAtHead", "git.readBlobAtIndex", "git.listBranches", "git.log",
     "git.stageFile", "git.unstageFile", "git.discardFile", "git.createBranch", "git.switchBranch", "git.deleteBranch",
     "git.commit", "git.push", "git.pull", "worktree.create", "worktree.list", "worktree.remove",
     "merge.request", "merge.status", "merge.list", "merge.update",
     "permission.pending", "permission.decide", "permission.setMode", "permission.listGrants", "permission.grant", "permission.revokeGrant",
     "gateway.revokeToken", "workflow.list", "workflow.run", "skills.list", "skills.invoke",
     "graph.status", "graph.search", "graph.node", "graph.neighbors", "graph.at", "graph.context", "graph.addEpisode",
     "graph.outbox.push", "graph.sync.pull", "graph.communities", "graph.reconcile"}

-----------------------------------------------------------------------------
(* The tools: the method each calls, whether it asks for a signed bridge    *)
(* first, and what it sends for the arguments its own schema lets through,  *)
(* defaults filled in.                                                      *)

Tool(method, sends) == [method |-> method, asks |-> FALSE, sends |-> sends]
SignedTool(method, sends) == [method |-> method, asks |-> TRUE, sends |-> sends]

SessionTools ==
    "session_register" :> Tool("session.register", [agentName |-> Free, workDir |-> Free, backend |-> Free])
    @@ "session_list" :> Tool("session.list", NoFields)
    @@ "session_end" :> Tool("session.end", [sessionId |-> Free])
    @@ "session_attach" :> Tool("session.attach", [sessionId |-> Free])

MailTools ==
    "mail_send" :> Tool("mail.send", [to |-> Free, subject |-> Free, body |-> Free, priority |-> Urgencies])
    @@ "mail_inbox" :> Tool("mail.inbox", [unreadOnly |-> Flag])
    @@ "mail_broadcast" :> Tool("mail.broadcast", [subject |-> Free, body |-> Free])
    @@ "mail_mark_read" :> Tool("mail.markRead", [messageIds |-> PathList])

FileTools ==
    "file_reserve" :> Tool("files.reserve", [paths |-> List, reason |-> Opt(Free)])
    @@ "file_check" :> Tool("files.check", [paths |-> List])
    @@ "file_release" :> Tool("files.release", [paths |-> List])
    @@ "file_list" :> Tool("files.list", NoFields)

TaskTools ==
    "task_create" :> Tool("tasks.create", [title |-> Free, description |-> Opt(Free), priority |-> Opt(Priorities)])
    @@ "task_list" :> Tool("tasks.list", [status |-> {"pending", "claimed", "completed", "all"}])
    @@ "task_claim" :> Tool("tasks.claim", [taskId |-> Free])
    @@ "task_complete" :> Tool("tasks.complete", [taskId |-> Free, summary |-> Opt(Free)])
    @@ "task_release" :> Tool("tasks.release", [taskId |-> Free])

MemoryTools ==
    "memory_store" :> Tool("memory.store", [memoryType |-> Free, content |-> Free, metadata |-> Opt(Object)])
    @@ "memory_query" :> Tool("memory.query", [memoryType |-> Opt(Free), query |-> Opt(Free), tags |-> Opt(List), limit |-> AnyNumber])

MergeTools ==
    "merge_request" :> Tool("merge.request", [sourceBranch |-> Free, baseBranch |-> Free, description |-> Opt(Free)])
    @@ "merge_status" :> Tool("merge.status", [mergeId |-> Free])
    @@ "merge_list" :> Tool("merge.list", NoFields)
    @@ "merge_update" :> Tool("merge.update", [mergeId |-> Free, status |-> Opt(Free), prNumber |-> Opt(Natural),
                                               prUrl |-> Opt(Free), errorMessage |-> Opt(Free)])

WorktreeTools ==
    "worktree_create" :> SignedTool("worktree.create", [repoPath |-> Free, branch |-> Free, baseBranch |-> Free])
    @@ "worktree_list" :> Tool("worktree.list", [agentId |-> Opt(Unbounded)])
    @@ "worktree_remove" :> SignedTool("worktree.remove", [repoPath |-> Free, branch |-> Free])

\* daemon_status asks for the health once a ping was answered
EventTools ==
    "daemon_status" :> Tool("harness.health", NoFields)
    @@ "events_query" :> Tool("events.query", [limit |-> AnyNumber, since |-> Opt(Free)])
    @@ "events_wait" :> Tool("events.wait", [eventType |-> Free, sinceId |-> AnyNumber, timeoutMs |-> AnyNumber])

PermissionTools ==
    "permission_pending" :> Tool("permission.pending", [agentId |-> Opt(Unbounded)])
    @@ "permission_decide" :> SignedTool("permission.decide", [approvalId |-> Free, verdict |-> {"approved", "denied"}])
    @@ "permission_set_mode" :> SignedTool("permission.setMode",
           [agentId |-> Free, mode |-> {"manual", "auto", "agent-scoped", "shadow", None}])
    @@ "permission_list_grants" :> Tool("permission.listGrants", [granteeAgentId |-> Opt(Unbounded), includeInactive |-> Opt(Flag)])
    @@ "permission_grant" :> SignedTool("permission.grant",
           [granteeAgentId |-> Free, classes |-> Opt(List), methods |-> Opt(List), rootScope |-> Opt(Unbounded),
            expiresAt |-> Opt(Unbounded), maxUses |-> Opt(Whole)])
    @@ "permission_revoke_grant" :> SignedTool("permission.revokeGrant", [grantId |-> Free])

BridgeTools ==
    SessionTools @@ MailTools @@ FileTools @@ TaskTools @@ MemoryTools @@ MergeTools @@ WorktreeTools @@ EventTools @@ PermissionTools

-----------------------------------------------------------------------------
(* The handlers of these methods: the fields each reads, and the sets of    *)
(* fields of which it needs one.                                            *)

Reads(fields, needs) == [fields |-> fields, needs |-> needs]

SessionReads ==
    "session.list" :> Reads({"scope"}, {})
    @@ "session.attach" :> Reads({"sessionId", "agentId"}, {{"sessionId", "agentId"}})
    @@ "session.end" :> Reads({"sessionId", "agentId", "exitSummary", "summary"}, {})
RegisterReads ==
    "session.register" :> Reads({"agentId", "agentName", "workDir", "task", "backend", "env", "pid", "publicKeyPem"}, {})
MailReads ==
    "mail.send" :> Reads({"to", "toAgent", "subject", "body"}, {{"to", "toAgent"}})
    @@ "mail.inbox" :> Reads({"unreadOnly"}, {})
    @@ "mail.broadcast" :> Reads({"subject", "body"}, {})
    @@ "mail.markRead" :> Reads({"messageIds"}, {})
FileReads ==
    "files.reserve" :> Reads({"paths", "filePath", "reason", "ttlSeconds"}, {{"paths", "filePath"}})
    @@ [m \in {"files.check", "files.release"} |-> Reads({"paths", "filePath"}, {{"paths", "filePath"}})]
    @@ "files.list" :> Reads({}, {})
TaskReads ==
    "tasks.create" :> Reads({"taskId", "title", "description", "priority"}, {})
    @@ "tasks.list" :> Reads({"status", "owner"}, {})
    @@ "tasks.claim" :> Reads({"taskId"}, {{"taskId"}})
    @@ "tasks.complete" :> Reads({"taskId", "summary"}, {{"taskId"}})
    @@ "tasks.release" :> Reads({"taskId"}, {{"taskId"}})
MemoryReads ==
    "memory.store" :> Reads({"memoryType", "content", "metadata"}, {})
    @@ "memory.query" :> Reads({"memoryType", "query", "tags", "limit"}, {})
MergeReads ==
    "merge.request" :> Reads({"branch", "sourceBranch", "targetBranch", "baseBranch", "description", "taskId"}, {{"branch", "sourceBranch"}})
    @@ "merge.status" :> Reads({"mergeId"}, {{"mergeId"}})
    @@ "merge.list" :> Reads({"status", "agentId"}, {})
    @@ "merge.update" :> Reads({"mergeId", "status", "prNumber", "prUrl", "errorMessage"}, {{"mergeId"}})
    @@ "worktree.list" :> Reads({"agentId"}, {})
WorktreeReads ==
    "worktree.create" :> Reads({"repoPath", "branch", "baseBranch"}, {{"repoPath"}, {"branch"}})
    @@ "worktree.remove" :> Reads({"repoPath", "branch"}, {{"repoPath"}, {"branch"}})
EventReads ==
    "events.query" :> Reads({"limit", "since", "eventType"}, {})
    @@ "events.wait" :> Reads({"eventType", "sinceId", "timeoutMs"}, {})
HealthReads == "harness.health" :> Reads({}, {})
PermissionReads ==
    "permission.pending" :> Reads({"agentId", "scope"}, {})
    @@ "permission.decide" :> Reads({"approvalId", "verdict"}, {{"verdict"}})
    @@ "permission.setMode" :> Reads({"agentId", "mode"}, {{"agentId"}})
    @@ "permission.listGrants" :> Reads({"granteeAgentId", "agentId", "includeInactive"}, {})
    @@ "permission.grant" :> Reads({"granteeAgentId", "agentId", "classes", "methods", "rootScope", "expiresAt", "maxUses"},
                                   {{"granteeAgentId", "agentId"}, {"classes", "methods"}})
    @@ "permission.revokeGrant" :> Reads({"grantId"}, {{"grantId"}})

Handlers ==
    SessionReads @@ RegisterReads @@ MailReads @@ FileReads @@ TaskReads @@ MemoryReads @@ MergeReads @@ WorktreeReads
    @@ EventReads @@ HealthReads @@ PermissionReads

-----------------------------------------------------------------------------
NoCall == [tool |-> None, params |-> NoFields, signs |-> FALSE, odd |-> FALSE, at |-> "none"]

Init == toolCall = NoCall
Method == BridgeTools[toolCall.tool].method

\* A tool is called with ordinary arguments, those it may leave out given or not.
Call(t, signs) ==
    /\ toolCall.at = "none"
    /\ LET sends   == BridgeTools[t].sends
           usual   == [f \in DOMAIN sends |-> sends[f] \ Odd]
       IN \E params \in [DOMAIN sends -> UNION {usual[f] : f \in DOMAIN sends}] :
             /\ \A f \in DOMAIN sends : params[f] \in usual[f]
             /\ toolCall' = [NoCall EXCEPT !.tool = t, !.params = params, !.signs = signs, !.at = "called"]

\* Or with one argument that is not ordinary, but passes the tool's own schema.
Distort(f, value) ==
    /\ toolCall.at = "called" /\ ~toolCall.odd
    /\ f \in DOMAIN toolCall.params /\ value \in BridgeTools[toolCall.tool].sends[f]
    /\ toolCall' = [toolCall EXCEPT !.params[f] = value, !.odd = TRUE]

\* requireSigned
Send ==
    /\ toolCall.at = "called"
    /\ toolCall' = [toolCall EXCEPT !.at = IF BridgeTools[toolCall.tool].asks /\ ~toolCall.signs THEN "unsigned" ELSE "sent"]

Validate ==
    /\ toolCall.at = "sent"
    /\ toolCall' = [toolCall EXCEPT !.at = IF Valid(Method, toolCall.params) THEN "valid" ELSE "invalid"]

\* The connection is a new one, which no session is bound to.
Identify ==
    /\ toolCall.at = "valid"
    /\ toolCall' = [toolCall EXCEPT !.at = IF toolCall.signs \/ (Method \in Exempt /\ Method \notin Signed)
                                           THEN "handled" ELSE "unidentified"]

\* The handler throws without a field it needs.
Handle ==
    /\ toolCall.at = "handled"
    /\ LET has(needs) == \E f \in needs : Given(toolCall.params, f)
       IN toolCall' = [toolCall EXCEPT !.at = IF \A needs \in Handlers[Method].needs : has(needs) THEN "served" ELSE "lacking"]

Answer ==
    /\ toolCall.at \in {"unsigned", "invalid", "unidentified", "served", "lacking"}
    /\ toolCall' = NoCall

Next ==
    \/ \E t \in DOMAIN BridgeTools, signs \in BOOLEAN : Call(t, signs)
    \/ \E f \in UNION {DOMAIN BridgeTools[t].sends : t \in DOMAIN BridgeTools}, value \in Odd : Distort(f, value)
    \/ Send \/ Validate \/ Identify \/ Handle \/ Answer

-----------------------------------------------------------------------------
\* What a bridge that signs sends with ordinary arguments is served, but for a grant of nothing;
\* what it sends is read by the handler, but for the priority of a mail and the session of
\* session.end, which ends the signer's (schemas.ts: drift between schemas, handlers and bridge).
ToolsMatchDaemon ==
    toolCall.at # "none" =>
        /\ ~toolCall.odd /\ toolCall.signs =>
               /\ toolCall.at \notin {"unsigned", "invalid", "unidentified"}
               /\ toolCall.at = "lacking" => Method = "permission.grant" /\ \A f \in {"classes", "methods"} : ~Given(toolCall.params, f)
        /\ {<<Method, f>> : f \in DOMAIN toolCall.params \ Handlers[Method].fields}
               \subseteq {<<"mail.send", "priority">>, <<"session.end", "sessionId">>}

\* Without a signature a bridge is served what nobody needs to be registered for; a tool that asks
\* for a signature first calls a method that is refused without one, and all such tools but
\* session_end do (index.ts, requireSigned).
UnsignedIsLimited ==
    toolCall.at # "none" =>
        /\ toolCall.at = "served" /\ ~toolCall.signs => Method \in Exempt
        /\ toolCall.at = "unsigned" => Method \in Signed
        /\ toolCall.at = "sent" /\ Method \in Signed /\ ~toolCall.signs => toolCall.tool = "session_end"

\* Every method has a class and every class a method, no schema or tool names a method that is not
\* there, and no path of the git and file methods may have ".." (methods.ts, permission.ts, safePath).
MethodsAreKnown ==
    /\ RpcMethods = Classified \ SkillTools
    /\ \A t \in DOMAIN BridgeTools : BridgeTools[t].method \in RpcMethods
    /\ DOMAIN Schemas \subseteq RpcMethods
    /\ DOMAIN Handlers = {BridgeTools[t].method : t \in DOMAIN BridgeTools}
    /\ \A m \in DOMAIN GitSchemas : \A f \in {"repoPath", "filePath"} \cap DOMAIN GitSchemas[m] :
           "dotted" \notin GitSchemas[m][f]
=============================================================================
