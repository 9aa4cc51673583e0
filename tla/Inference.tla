------------------------------ MODULE Inference ------------------------------
(* Model calls over OpenRouter: the chain of models a call may use, the      *)
(* exchange with its one retry, and the receipt that each call leaves in the *)
(* event log; and skills.invoke, whose model asks for tools.                 *)
EXTENDS Naturals, Sequences, FiniteSets

CONSTANTS Calls, Tools, MaxRounds, None

VARIABLES
    env,       \* the daemon's environment: key, training and free router allowed, model
    call,      \* openRouterChat: where a call is, its chain, its outcome
    receipts,  \* inference.receipt events
    bound,     \* ctx.agentId of the socket the calls came over
    excused,   \* calls whose receipt the database refused, or whose answer was cut
    skill      \* runSkillInvokeRuntime: rounds, the tool in progress, its trace

chatVars  == <<env, call, receipts, bound, excused>>
skillVars == <<skill>>

\* the allowlist by tier, and the two chains; every other name is unlisted
Tier == [gemma |-> "default", small |-> "default", super |-> "training",
         lightning |-> "training", ultra |-> "explicit"]
Listed == DOMAIN Tier
DefaultChain  == <<"gemma", "small">>
Training == <<"gemma", "super", "lightning">>
FreeRouter == "free"
ModelNames == Listed \cup {"other", FreeRouter}
MaxChain == 3
-----------------------------------------------------------------------------
(* resolveOpenRouterChain                                                   *)

ActiveChain == IF env.training THEN Training ELSE DefaultChain

Permitted(m) == m \in Listed /\ (Tier[m] = "default" \/ env.training)

\* no name is in a chain twice
Without(chain, m) ==
    IF \E i \in DOMAIN chain : chain[i] = m
    THEN LET at == CHOOSE i \in DOMAIN chain : chain[i] = m
         IN SubSeq(chain, 1, at - 1) \o SubSeq(chain, at + 1, Len(chain))
    ELSE chain

StartingWith(m) ==
    LET chain == <<m>> \o Without(ActiveChain, m)
    IN SubSeq(chain, 1, IF Len(chain) < MaxChain THEN Len(chain) ELSE MaxChain)

\* the empty chain is a refusal
Resolve(m) ==
    IF m = FreeRouter THEN IF env.free THEN <<FreeRouter>> ELSE <<>>
    ELSE LET chosen == IF m = None THEN env.model ELSE m
         IN IF chosen = None THEN ActiveChain
            ELSE IF Permitted(chosen) THEN StartingWith(chosen) ELSE <<>>

\* isAllowlistedResponseModel; the router names the model that answered
Acceptable(m, chain) ==
    IF chain = <<FreeRouter>> THEN m \in Listed
    ELSE m \in Listed /\ \E i \in DOMAIN chain : chain[i] = m
-----------------------------------------------------------------------------
Statuses == {"not_configured", "not_allowlisted", "error", "rate_limited", "rejected_model", "ok"}

ChatTypeOK ==
    /\ env \in [key : BOOLEAN, training : BOOLEAN, free : BOOLEAN, model : {"ultra", "other", None}]
    /\ call \in [Calls -> [at : {"idle", "posted", "asleep", "answered", "over"}, posts : 0..2,
                           chain : {<<>>} \cup Seq(ModelNames), result : Statuses \cup {None},
                           model : ModelNames \cup {None}, agent : {"a", "b"}]]
    /\ \A r \in receipts : r.call \in Calls /\ r.status \in Statuses /\ r.agent \in {"a", "b"}
    /\ excused \subseteq Calls /\ bound \in {"a", "b"}

SkillTypeOK ==
    skill \in [at : {"idle", "model", "tool", "told", "over"}, rounds : 0..MaxRounds,
               allowed : SUBSET Tools, tool : Tools \cup {None}, ok : BOOLEAN,
               trace : Seq([tool : Tools, ok : BOOLEAN]), ran : SUBSET (1..MaxRounds),
               result : {None, "ran", "failed", "thrown"}]

TypeOK == ChatTypeOK /\ SkillTypeOK

Init ==
    /\ env \in [key : BOOLEAN, training : BOOLEAN, free : BOOLEAN, model : {"ultra", "other", None}]
    /\ call = [c \in Calls |-> [at |-> "idle", posts |-> 0, chain |-> <<>>, result |-> None,
                                model |-> None, agent |-> "a"]]
    /\ receipts = {} /\ bound = "a" /\ excused = {}
    /\ skill = [at |-> "idle", rounds |-> 0, allowed |-> {}, tool |-> None, ok |-> TRUE,
                trace |-> <<>>, ran |-> {}, result |-> None]

\* the outcome is fixed, the receipt is still to be written
Outcome(c, status, model) ==
    call' = [call EXCEPT ![c].at = "answered", ![c].result = status, ![c].model = model]

Begin(c, m) ==
    /\ call[c].at = "idle"
    /\ LET chain == Resolve(m)
           started(at, result) == [at |-> at, posts |-> IF at = "posted" THEN 1 ELSE 0,
                                   chain |-> chain, result |-> result, model |-> None, agent |-> bound]
       IN call' = [call EXCEPT ![c] =
              IF ~env.key THEN started("answered", "not_configured")
              ELSE IF chain = <<>> THEN started("answered", "not_allowlisted")
              ELSE started("posted", None)]
    /\ UNCHANGED <<env, receipts, bound, excused>>

\* no answer in time, or no connection
Unreached(c) ==
    /\ call[c].at = "posted" /\ Outcome(c, "error", None)
    /\ UNCHANGED <<env, receipts, bound, excused>>

\* 429: one more attempt if the wait is short, and only one
MayRetryAlways(c) == TRUE
MayRetry(c) == call[c].posts = 1

Limited(c) ==
    /\ call[c].at = "posted"
    /\ \/ MayRetry(c) /\ call' = [call EXCEPT ![c].at = "asleep"]
       \/ Outcome(c, "rate_limited", None)
    /\ UNCHANGED <<env, receipts, bound, excused>>

Again(c) ==
    /\ call[c].at = "asleep"
    /\ call' = [call EXCEPT ![c].at = "posted", ![c].posts = @ + 1]
    /\ UNCHANGED <<env, receipts, bound, excused>>

\* a body cut while it is read ends the call without a receipt
CutOff(c) ==
    /\ call[c].at = "posted"
    /\ call' = [call EXCEPT ![c].at = "over", ![c].result = "error"]
    /\ excused' = excused \cup {c}
    /\ UNCHANGED <<env, receipts, bound>>

\* an HTTP error, no JSON, or an empty completion
Failed(c) ==
    /\ call[c].at = "posted" /\ Outcome(c, "error", None)
    /\ UNCHANGED <<env, receipts, bound, excused>>

Completed(c, m) ==
    /\ call[c].at = "posted"
    /\ IF Acceptable(m, call[c].chain) THEN Outcome(c, "ok", m) ELSE Outcome(c, "rejected_model", None)
    /\ UNCHANGED <<env, receipts, bound, excused>>

\* writeReceipt names the agent the socket has by now; a failing INSERT is ignored
ReceiptAgent(c) == bound

WriteReceipt(c) ==
    /\ call[c].at = "answered"
    /\ call' = [call EXCEPT ![c].at = "over"]
    /\ \/ /\ receipts' = receipts \cup {[call |-> c, status |-> call[c].result, agent |-> ReceiptAgent(c)]}
          /\ excused' = IF bound = call[c].agent THEN excused ELSE excused \cup {c}
       \/ excused' = excused \cup {c} /\ UNCHANGED receipts
    /\ UNCHANGED <<env, bound>>

\* another frame of the socket binds its signer
Rebind ==
    /\ bound = "a" /\ bound' = "b"
    /\ UNCHANGED <<env, call, receipts, excused>>

ChatNext ==
    \/ Rebind
    \/ \E c \in Calls :
          \/ \E m \in ModelNames \cup {None} : Begin(c, m)
          \/ Unreached(c) \/ Limited(c) \/ Again(c) \/ CutOff(c) \/ Failed(c)
          \/ \E m \in Listed \cup {"other"} : Completed(c, m)
          \/ WriteReceipt(c)
-----------------------------------------------------------------------------
(* skills.invoke                                                            *)

Prepare(tools) ==
    /\ skill.at = "idle"
    /\ skill' = [skill EXCEPT !.at = "model", !.allowed = tools]
    /\ UNCHANGED chatVars

\* The runtime of @revealui/ai is outside this repository.  It is assumed to hand out calls
\* and results in strict turn: a result before the next call, and none without a call.  The
\* trace leans on that, for a result carries no name and is put to the last call.

\* the model asks for a tool: the trace takes it as good until its result says otherwise
AskTool(t) ==
    /\ skill.at = "model" /\ skill.rounds < MaxRounds
    /\ skill' = [skill EXCEPT !.at = "tool", !.rounds = @ + 1, !.tool = t,
                              !.trace = Append(@, [tool |-> t, ok |-> TRUE])]
    /\ UNCHANGED chatVars

\* the wrapper of every tool reports to the runtime whether the tool succeeded
Told(ok) == skill' = [skill EXCEPT !.at = "told", !.ok = ok]

\* not on the list of the skill, or refused by a path rule or by the tool guard
RefuseTool ==
    /\ skill.at = "tool" /\ Told(FALSE)
    /\ UNCHANGED chatVars

OnList(t) == t \in skill.allowed

\* it ran, with a result or with an error of its own
RunTool(ok) ==
    /\ skill.at = "tool" /\ OnList(skill.tool)
    /\ skill' = [skill EXCEPT !.at = "told", !.ok = ok, !.ran = @ \cup {skill.rounds}]
    /\ UNCHANGED chatVars

\* a permission that is denied or has to be asked for ends the whole invocation
Denied ==
    /\ skill.at = "tool" /\ OnList(skill.tool)
    /\ skill' = [skill EXCEPT !.at = "over", !.result = "thrown"]
    /\ UNCHANGED chatVars

MarkLast(trace, ok) == [trace EXCEPT ![Len(trace)].ok = @ /\ ok]

TakeResult ==
    /\ skill.at = "told"
    /\ skill' = [skill EXCEPT !.at = "model", !.tool = None, !.trace = MarkLast(@, skill.ok)]
    /\ UNCHANGED chatVars

EndSkill ==
    /\ skill.at \in {"model", "tool", "told"}
    /\ \E result \in {"ran", "failed"} :
          /\ result = "ran" => skill.at = "model"
          /\ skill' = [skill EXCEPT !.at = "over", !.result = result]
    /\ UNCHANGED chatVars

SkillNext ==
    \/ \E tools \in SUBSET Tools : Prepare(tools)
    \/ \E t \in Tools : AskTool(t)
    \/ RefuseTool \/ Denied \/ TakeResult \/ EndSkill
    \/ \E ok \in BOOLEAN : RunTool(ok)

ChatSpec  == Init /\ [][ChatNext /\ UNCHANGED skillVars]_<<chatVars, skillVars>>
SkillSpec == Init /\ [][SkillNext]_<<chatVars, skillVars>>
-----------------------------------------------------------------------------
\* Every call leaves exactly one receipt with its outcome in the name of its agent,
\* however it ends and after a retry, unless the body of the answer was cut, the INSERT failed
\* or the socket changed its agent meanwhile (openRouterChat, writeReceipt).
ReceiptsAreKept ==
    /\ \A c \in Calls : call[c].at = "over" /\ c \notin excused =>
          {r \in receipts : r.call = c} = {[call |-> c, status |-> call[c].result, agent |-> call[c].agent]}
    /\ \A r, s \in receipts : r.call = s.call => r = s

\* No answer of a model that trains on its input is used where training is not allowed, save
\* by the free router, which is taken at its word; every chain the request could send obeys
\* the same rule and the limit of three (resolveOpenRouterChain, isAllowlistedResponseModel).
TrainingIsOptIn ==
    \A c \in Calls :
        /\ Len(call[c].chain) <= MaxChain
        /\ call[c].result = "ok" => call[c].model \in Listed
        /\ call[c].chain # <<FreeRouter>> /\ ~env.training =>
              \A m \in {call[c].chain[i] : i \in DOMAIN call[c].chain} \cup {call[c].model} :
                  m \in Listed => Tier[m] = "default"

\* What the trace says of a tool is what happened: a tool counts as good only if it ran and
\* was on the list of the skill, whichever tools are refused, fail or run before and after
\* it, as long as the runtime takes calls and results in turn (runSkillInvokeRuntime marks the
\* last entry of the trace).
TraceIsTrue ==
    /\ \A i \in skill.ran : i \in DOMAIN skill.trace /\ skill.trace[i].tool \in skill.allowed
    /\ skill.at \in {"model", "over"} /\ skill.result \in {None, "ran"} =>
          \A i \in DOMAIN skill.trace : skill.trace[i].ok => i \in skill.ran
=============================================================================
