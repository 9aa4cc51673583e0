------------------------------ MODULE StudioRpc ------------------------------
(* How Studio calls the daemon: a call is attempted up to MaxTries times,    *)
(* each attempt within a time limit, over a socket of its own or, on Windows, *)
(* over one relay process that all calls share.                              *)
EXTENDS Naturals, Sequences, FiniteSets, SequencesExt

CONSTANTS Calls, Signed, MaxTries, None

VARIABLES
    call,     \* rpc_call_raw: where each call is, its attempts so far, what it returned
    frames,   \* requests on their way to the daemon or in progress there
    nonces,   \* envelopes on record at the daemon
    ran,      \* how often the daemon ran the handler of a call
    up,       \* whether the daemon runs
    answers,  \* lines the daemon wrote and nobody has read
    relay,    \* LIVE_RELAY: None, or which ends of its pipes are in place and whether it
              \* still has its connection to the daemon
    holder,   \* the call that holds the lock of LIVE_RELAY
    cooling,  \* RELAY_COOLDOWN_UNTIL is in the future
    visit,    \* repo_rpc: where each call on the repository is
    opened,   \* OPENED_PROJECTS has the repository
    root,     \* the daemon has it as a project root of Studio
    upset     \* second tries that saw the root go, or a late answer put it into the cache

rpcVars == <<call, frames, nonces, ran, up, answers, relay, holder, cooling>>
repoVars == <<visit, opened, root, upset>>

Outcomes == {None, "done", "replayed", "unparsed", "failed"}
Places   == {"idle", "look", "open", "opened", "call", "answered", "refused", "done", "unknown", "failed"}
Frames   == [call : Calls, try : 1..MaxTries, at : {"way", "handler"}, heard : BOOLEAN]

TypeOK ==
    /\ call \in [Calls -> [at : {"idle", "ready", "writing", "sent", "paused", "over"},
                           try : 0..MaxTries, outcome : Outcomes, of : Calls \cup {None}]]
    /\ frames \subseteq Frames
    /\ nonces \subseteq Signed \X (1..MaxTries)
    /\ ran \in [Calls -> 0..MaxTries]
    /\ up \in BOOLEAN /\ cooling \in BOOLEAN
    /\ \A i \in DOMAIN answers : answers[i].call \in Calls /\ answers[i].says \in Outcomes
    /\ relay \in {None} \cup [stdin : BOOLEAN, stdout : BOOLEAN, joined : BOOLEAN]
    /\ holder \in Calls \cup {None}
    /\ visit \in [Calls -> [at : Places, round : {1, 2}]]
    /\ opened \in BOOLEAN /\ root \in BOOLEAN /\ upset \subseteq Calls

Init ==
    /\ call = [c \in Calls |-> [at |-> "idle", try |-> 0, outcome |-> None, of |-> None]]
    /\ frames = {} /\ nonces = {} /\ ran = [c \in Calls |-> 0] /\ up = TRUE
    /\ answers = <<>> /\ relay = None /\ holder = None /\ cooling = FALSE
    /\ visit = [c \in Calls |-> [at |-> "idle", round |-> 1]]
    /\ opened = FALSE /\ root \in BOOLEAN /\ upset = {}
-----------------------------------------------------------------------------
(* The daemon                                                               *)

\* mutations and content reads carry an envelope
Signs(c) == c \in Signed

\* it is made once per call, before the first attempt
EnvelopePerTry(c, n) == <<c, n>>
Envelope(c, n) == <<c, 1>>

Deaf == {[f EXCEPT !.heard = FALSE] : f \in frames}

Answer(f, says) ==
    answers' = IF f.heard THEN Append(answers, [call |-> f.call, try |-> f.try, says |-> says])
               ELSE answers

Accept(f) ==
    /\ up /\ f \in frames /\ f.at = "way"
    /\ IF Signs(f.call) /\ Envelope(f.call, f.try) \in nonces
       THEN frames' = frames \ {f} /\ Answer(f, "replayed") /\ UNCHANGED nonces
       ELSE /\ frames' = (frames \ {f}) \cup {[f EXCEPT !.at = "handler"]}
            /\ nonces' = IF Signs(f.call) THEN nonces \cup {Envelope(f.call, f.try)} ELSE nonces
            /\ UNCHANGED answers
    /\ UNCHANGED <<call, ran, up, relay, holder, cooling>>

Run(f) ==
    /\ up /\ f \in frames /\ f.at = "handler"
    /\ frames' = frames \ {f}
    /\ ran' = [ran EXCEPT ![f.call] = @ + 1]
    /\ Answer(f, "done")
    /\ UNCHANGED <<call, nonces, up, relay, holder, cooling>>

\* it ends; what it was sent is lost, what it wrote can still be read
Die ==
    /\ up /\ up' = FALSE
    /\ frames' = {}
    /\ relay' = IF relay = None THEN None ELSE [relay EXCEPT !.joined = FALSE]
    /\ UNCHANGED <<call, nonces, ran, answers, holder, cooling>>

Start ==
    /\ ~up /\ up' = TRUE
    /\ UNCHANGED <<call, frames, nonces, ran, answers, relay, holder, cooling>>

DaemonNext == Die \/ Start \/ \E f \in frames : Accept(f) \/ Run(f)
-----------------------------------------------------------------------------
(* The attempts of a call                                                   *)

Ask(c) ==
    /\ call[c].at = "idle"
    /\ call' = [call EXCEPT ![c].at = IF cooling THEN "over" ELSE "ready",
                            ![c].outcome = IF cooling THEN "failed" ELSE None]
    /\ UNCHANGED <<frames, nonces, ran, up, answers, relay, holder, cooling>>

Return(c, outcome, of) ==
    call' = [call EXCEPT ![c].at = "over", ![c].outcome = outcome, ![c].of = of]

\* a transient error: again after a pause, unless this was the last attempt
IsLast(c) == call[c].try + 1 = MaxTries

Fail(c) ==
    call' = [call EXCEPT ![c].try = @ + 1, ![c].at = IF IsLast(c) THEN "over" ELSE "paused",
                         ![c].outcome = IF IsLast(c) THEN "failed" ELSE None]

Retry(c) ==
    /\ call[c].at = "paused"
    /\ call' = [call EXCEPT ![c].at = "ready"]
    /\ UNCHANGED <<frames, nonces, ran, up, answers, relay, holder, cooling>>

Frame(c, heard) == [call |-> c, try |-> call[c].try + 1, at |-> "way", heard |-> heard]

Mine(c, x) == x.call = c /\ x.try = call[c].try + 1
-----------------------------------------------------------------------------
(* A socket per attempt (rpc_call_once on Unix)                             *)

Connect(c) ==
    /\ call[c].at = "ready" /\ up
    /\ frames' = frames \cup {Frame(c, TRUE)}
    /\ call' = [call EXCEPT ![c].at = "sent"]
    /\ UNCHANGED <<nonces, ran, up, answers, relay, holder, cooling>>

\* nobody listens, or the line could not be written to its end
ConnectFails(c) ==
    /\ call[c].at = "ready"
    /\ Fail(c)
    /\ UNCHANGED <<frames, nonces, ran, up, answers, relay, holder, cooling>>

Read(c) ==
    /\ call[c].at = "sent"
    /\ \E i \in DOMAIN answers :
          /\ Mine(c, answers[i])
          /\ Return(c, answers[i].says, answers[i].call)
          /\ answers' = RemoveAt(answers, i)
    /\ UNCHANGED <<frames, nonces, ran, up, relay, holder, cooling>>

\* an attempt gets one answer at most
Waiting(c) == {i \in DOMAIN answers : Mine(c, answers[i])}

\* the time limit: the socket is closed, the request may have been read from it
TimeOut(c) ==
    /\ call[c].at = "sent"
    /\ Fail(c)
    /\ frames' = {IF Mine(c, f) THEN [f EXCEPT !.heard = FALSE] ELSE f : f \in frames}
    /\ answers' \in IF Waiting(c) = {} THEN {answers} ELSE {RemoveAt(answers, i) : i \in Waiting(c)}
    /\ UNCHANGED <<nonces, ran, up, relay, holder, cooling>>

\* an empty line does not parse and is not retried, a reset connection is
Broken(c) ==
    /\ call[c].at = "sent"
    /\ \A f \in frames : ~Mine(c, f)
    /\ Waiting(c) = {}
    /\ Fail(c) \/ Return(c, "unparsed", None)
    /\ UNCHANGED <<frames, nonces, ran, up, answers, relay, holder, cooling>>

SocketNext ==
    \/ DaemonNext
    \/ \E c \in Calls :
          \/ Ask(c) \/ Retry(c) \/ Connect(c) \/ ConnectFails(c)
          \/ Read(c) \/ TimeOut(c) \/ Broken(c)
-----------------------------------------------------------------------------
(* One relay for all calls (rpc_call_once on Windows)                       *)

\* an error of the relay itself keeps everybody from spawning another one for a while
FailDown(c) == Fail(c) /\ cooling' = TRUE
FailRelay(c) == Fail(c) /\ cooling' = (cooling \/ IsLast(c))

DropRelay == relay' = None /\ frames' = Deaf /\ answers' = <<>>

\* the lock, a relay if there is none, and its standard input for the writer
TakeRelay(c) ==
    /\ call[c].at = "ready" /\ holder = None
    /\ relay # None => relay.stdin
    /\ relay = None => ~cooling
    /\ relay' = IF relay = None THEN [stdin |-> FALSE, stdout |-> TRUE, joined |-> up]
                ELSE [relay EXCEPT !.stdin = FALSE]
    /\ holder' = c
    /\ call' = [call EXCEPT ![c].at = "writing"]
    /\ UNCHANGED <<frames, nonces, ran, up, answers, cooling>>

SpawnFails(c) ==
    /\ call[c].at = "ready" /\ holder = None /\ relay = None
    /\ FailDown(c)
    /\ UNCHANGED <<frames, nonces, ran, up, answers, relay, holder>>

NoStdin(c) ==
    /\ call[c].at = "ready" /\ holder = None /\ relay # None
    /\ ~relay.stdin
    /\ FailRelay(c)
    /\ UNCHANGED <<frames, nonces, ran, up, answers, relay, holder>>

\* the line is written; the standard output goes to the reader, if nobody else took it
Write(c) ==
    /\ call[c].at = "writing"
    /\ frames' = IF relay.joined THEN frames \cup {Frame(c, TRUE)} ELSE frames
    /\ IF relay.stdout
       THEN /\ relay' = [relay EXCEPT !.stdin = TRUE, !.stdout = FALSE]
            /\ call' = [call EXCEPT ![c].at = "sent"]
            /\ UNCHANGED <<holder, cooling>>
       ELSE /\ relay' = [relay EXCEPT !.stdin = TRUE]
            /\ FailRelay(c) /\ holder' = None
    /\ UNCHANGED <<nonces, ran, up, answers>>

WriteFails(c) ==
    /\ call[c].at = "writing"
    /\ Fail(c) /\ holder' = None /\ DropRelay
    /\ UNCHANGED <<nonces, ran, up, cooling>>

\* the next line of the pipe, whoever it answers: its id is not compared
ReadLine(c) ==
    /\ call[c].at = "sent" /\ answers # <<>>
    /\ Return(c, Head(answers).says, Head(answers).call)
    /\ answers' = Tail(answers)
    /\ relay' = [relay EXCEPT !.stdout = TRUE]
    /\ holder' = None
    /\ UNCHANGED <<frames, nonces, ran, up, cooling>>

\* the relay ended, as it does when the daemon is gone, and also by itself
EndOfFile(c) ==
    /\ call[c].at = "sent" /\ answers = <<>>
    /\ FailDown(c) /\ holder' = None /\ DropRelay
    /\ UNCHANGED <<nonces, ran, up>>

\* the future is dropped: what it took from the relay goes with it
AfterTimeOut(r) == r

TimeOutRelay(c) ==
    /\ \/ call[c].at = "ready" /\ holder # None /\ UNCHANGED <<frames, relay, holder>>
       \/ /\ call[c].at \in {"writing", "sent"}
          /\ frames' \in {frames, IF relay.joined /\ call[c].at = "writing"
                                  THEN frames \cup {Frame(c, TRUE)} ELSE frames}
          /\ relay' = AfterTimeOut(relay) /\ holder' = None
    /\ Fail(c)
    /\ UNCHANGED <<nonces, ran, up, answers, cooling>>

\* reset_live_relay, when the user connects again
ResetRelay ==
    /\ holder = None /\ relay # None
    /\ DropRelay /\ cooling' = FALSE
    /\ UNCHANGED <<call, nonces, ran, up, holder>>

CoolDown ==
    /\ cooling /\ cooling' = FALSE
    /\ UNCHANGED <<call, frames, nonces, ran, up, answers, relay, holder>>

RelayNext ==
    \/ DaemonNext \/ ResetRelay \/ CoolDown
    \/ \E c \in Calls :
          \/ Ask(c) \/ Retry(c) \/ TakeRelay(c) \/ SpawnFails(c) \/ NoStdin(c) \/ Write(c)
          \/ WriteFails(c) \/ ReadLine(c) \/ EndOfFile(c) \/ TimeOutRelay(c)

\* Calls on a repository (repo_rpc); each exchange with the daemon takes effect there
\* in one step and is answered in another, or fails

To(c, place) == visit' = [visit EXCEPT ![c].at = place]

Visit(c) == visit[c].at = "idle" /\ To(c, "look") /\ UNCHANGED <<opened, root, upset>>

Look(c) ==
    /\ visit[c].at = "look"
    /\ To(c, IF opened THEN "call" ELSE "open")
    /\ UNCHANGED <<opened, root, upset>>

OpenRoot(c) ==
    /\ visit[c].at = "open"
    /\ To(c, "opened") /\ root' = TRUE
    /\ UNCHANGED <<opened, upset>>

InSecondRound == {c \in Calls : visit[c].round = 2}

Opened(c) ==
    /\ visit[c].at = "opened"
    /\ opened' = TRUE
    /\ To(c, "call")
    /\ upset' = IF root THEN upset ELSE upset \cup InSecondRound
    /\ UNCHANGED root

CallRoot(c) ==
    /\ visit[c].at = "call"
    /\ To(c, IF root THEN "answered" ELSE "refused")
    /\ UNCHANGED <<opened, root, upset>>

CallFails(c) ==
    /\ visit[c].at \in {"open", "opened", "call", "answered"}
    /\ To(c, "failed")
    /\ UNCHANGED <<opened, root, upset>>

Answered(c) ==
    /\ visit[c].at = "answered"
    /\ To(c, "done")
    /\ UNCHANGED <<opened, root, upset>>

\* the daemon does not know the root: forget it, open it again, call once more
CacheAfterRefusal(o) == FALSE

Refused(c) ==
    /\ visit[c].at = "refused"
    /\ IF visit[c].round = 1
       THEN /\ opened' = CacheAfterRefusal(opened)
            /\ visit' = [visit EXCEPT ![c] = [at |-> "look", round |-> 2]]
       ELSE To(c, "unknown") /\ UNCHANGED opened
    /\ UNCHANGED <<root, upset>>

\* a restart without the root, an eviction, or a revocation
LoseRoot ==
    /\ root /\ root' = FALSE
    /\ upset' = upset \cup InSecondRound
    /\ UNCHANGED <<visit, opened>>

RepoNext ==
    \/ LoseRoot
    \/ \E c \in Calls :
          \/ Visit(c) \/ Look(c) \/ OpenRoot(c) \/ Opened(c) \/ CallRoot(c)
          \/ CallFails(c) \/ Answered(c) \/ Refused(c)

SocketSpec == Init /\ [][SocketNext /\ UNCHANGED repoVars]_<<rpcVars, repoVars>>
RelaySpec  == Init /\ [][RelayNext /\ UNCHANGED repoVars]_<<rpcVars, repoVars>>
RepoSpec   == Init /\ [][RepoNext /\ UNCHANGED rpcVars]_<<rpcVars, repoVars>>
-----------------------------------------------------------------------------
\* A signed call runs at most once, however often it is attempted and whichever
\* attempts time out, arrive late or are lost (rpc_call_raw retries with one envelope).
SignedRunsOnce == \A c \in Signed : ran[c] <= 1

\* What a call returns as its answer is the answer to that call: the lines of the relay
\* carry ids that nobody compares, after time-outs as well (rpc_call_once).
AnswersAreOwn ==
    \A c \in Calls : call[c].of # None =>
        /\ call[c].of = c
        /\ call[c].outcome = "done" => ran[c] > 0
\* A call on a repository fails for want of the root only if the root went away again after
\* the call had opened it once more, or another call's late answer hid that it was gone: a
\* restart of the daemon between two calls goes unnoticed (repo_rpc).
RetriesHeal == \A c \in Calls : visit[c].at = "unknown" => c \in upset
=============================================================================
