---------------------------- MODULE StudioServices ----------------------------
(* What the desktop application starts and stops on the host: the daemon     *)
(* (daemon_ctl.rs on Unix), the engines of local inference by resource tier  *)
(* (inference.rs), and the hook through which its panels poll them.          *)
EXTENDS Naturals, Sequences, FiniteSets

CONSTANTS
    Procs, Ctls,        \* processes that can be spawned; calls of start, stop and restart
    Snaps, Small, Big,  \* inference snaps; those of the tiers "snaps" and "heavy"
    Polls, MaxChange,   \* fetches of the hook; bound on the changes it may read
    None

VARIABLES
    proc, keyed,        \* where each process is; whether it was given the licence file
    pidFile, path, jwt, \* harness.pid, the process behind the socket, whether license.jwt exists
    ctl, crossed,       \* the calls; calls overlapped, or one began before a spawned process wrote its pid
    engine, boot,       \* engines of the host; snaps enabled at boot
    task, profile,      \* the command being served; inference-profile.json
    env, shell, sourced,\* local-ai.active.env; a shell that reads it, and whether it did since it changed
    spoilt,             \* an engine was handled otherwise, a stop failed, or a write did
    fact, poll, newest, data, cache, hid    \* usePollingFetch, with the fetch of useInference

daemonVars == <<proc, keyed, pidFile, path, jwt, ctl, crossed>>
tierVars   == <<engine, boot, task, profile, env, shell, sourced, spoilt>>
pollVars   == <<fact, poll, newest, data, cache, hid>>
-----------------------------------------------------------------------------
(* The daemon                                                               *)

Alive(p)    == proc[p] \notin {"unborn", "dead"}
Becomes(p, s) == proc' = [proc EXCEPT ![p] = s]
Answers(c, how, p) == ctl' = [ctl EXCEPT ![c].step = how, ![c].pid = p]

Begin(c, op) ==
    /\ ctl[c].step \in {"idle", "ok", "error"}
    /\ ctl' = [ctl EXCEPT ![c] = [op |-> op, step |-> IF op = "start" THEN "start" ELSE "stop", pid |-> None]]
    /\ crossed' = (crossed \/ (\E d \in Ctls : ctl[d].step \notin {"idle", "ok", "error"})
                           \/ (\E p \in Procs : proc[p] = "spawned"))
    /\ UNCHANGED <<proc, keyed, pidFile, path, jwt>>

\* daemon_start: the licence file is passed on only if it exists
Keyed == jwt
Start(c) ==
    /\ ctl[c].step = "start"
    /\ IF pidFile # None /\ Alive(pidFile)
       THEN Answers(c, "error", None) /\ UNCHANGED <<proc, keyed>>
       ELSE \/ \E p \in Procs :
                /\ proc[p] = "unborn" /\ Becomes(p, "spawned")
                /\ keyed' = [keyed EXCEPT ![p] = Keyed]
                /\ Answers(c, "await", p)
            \/ Answers(c, "error", None) /\ UNCHANGED <<proc, keyed>>
    /\ UNCHANGED <<pidFile, path, jwt, crossed>>

\* whoever serves the socket answers the ping
Reached(c) ==
    /\ ctl[c].step = "await"
    /\ \/ path # None /\ proc[path] = "serving" /\ Answers(c, "ok", ctl[c].pid)
       \/ Answers(c, "error", None)
    /\ UNCHANGED <<proc, keyed, pidFile, path, jwt, crossed>>

\* daemon_restart ignores how its stop ended
Stopped(c, how) == IF ctl[c].op = "restart" THEN Answers(c, "start", None) ELSE Answers(c, how, None)

Stop(c) ==
    /\ ctl[c].step = "stop"
    /\ IF pidFile = None THEN Stopped(c, "error") /\ UNCHANGED <<proc, pidFile>>
       ELSE IF ~Alive(pidFile) THEN pidFile' = None /\ Stopped(c, "error") /\ UNCHANGED proc
       ELSE /\ Answers(c, "term", pidFile)
            /\ Becomes(pidFile, IF proc[pidFile] = "serving" THEN "closing" ELSE "dead")
            /\ UNCHANGED pidFile
    /\ UNCHANGED <<keyed, path, jwt, crossed>>

Ended(c) == ~Alive(ctl[c].pid)
Gone(c) ==
    /\ ctl[c].step \in {"term", "kill"} /\ Ended(c) /\ Stopped(c, "ok")
    /\ UNCHANGED <<proc, keyed, pidFile, path, jwt, crossed>>

\* after ten seconds; the process may have ended by itself just before
Kill(c) ==
    /\ ctl[c].step = "term"
    /\ IF Alive(ctl[c].pid) THEN Becomes(ctl[c].pid, "dead") /\ Answers(c, "kill", ctl[c].pid)
       ELSE Stopped(c, "error") /\ UNCHANGED proc
    /\ UNCHANGED <<keyed, pidFile, path, jwt, crossed>>

\* The process itself: its pid file, its socket, its end.
Proceeds(p) ==
    /\ UNCHANGED <<keyed, jwt, ctl, crossed>>
    /\ \/ proc[p] = "spawned" /\ Becomes(p, "opening") /\ pidFile' = p /\ UNCHANGED path
       \/ proc[p] = "opening" /\ Becomes(p, "serving") /\ path' = p /\ UNCHANGED pidFile
       \/ proc[p] \in {"opening", "closing"} /\ Becomes(p, "dead") /\ pidFile' = None
             /\ path' = IF proc[p] = "closing" THEN None ELSE path
       \/ proc[p] \in {"spawned", "serving"} /\ Becomes(p, "dead") /\ UNCHANGED <<pidFile, path>>   \* a crash

\* the licence is stored or removed
SetLicence ==
    /\ jwt' = ~jwt
    /\ crossed' = (crossed \/ \E c \in Ctls : ctl[c].step \notin {"idle", "ok", "error"})
    /\ UNCHANGED <<proc, keyed, pidFile, path, ctl>>

DaemonNext ==
    /\ ~crossed
    /\ \/ \E c \in Ctls : Start(c) \/ Reached(c) \/ Stop(c) \/ Gone(c) \/ Kill(c)
                          \/ \E op \in {"start", "stop", "restart"} : Begin(c, op)
       \/ \E p \in Procs : Proceeds(p)
       \/ SetLicence
-----------------------------------------------------------------------------
(* Local inference                                                          *)

Tiers   == {"idle", "daily", "snaps", "heavy"}
Up(e)   == engine[e] \in {"starting", "on"}
MayRun(t) == CASE t = "idle" -> {} [] t = "daily" -> {"ollama"} [] t = "heavy" -> {Big} [] OTHER -> Snaps
Serves(t) == CASE t = "snaps" -> Small [] t = "heavy" -> Big [] t = "daily" -> "ollama" [] OTHER -> None

\* which engines a tier stops, and it takes a snap it stops off the boot too
Stops(t)   == CASE t = "idle" -> {"ollama"} \cup Snaps [] t = "daily" -> Snaps
                [] t = "snaps" -> {"ollama"} [] OTHER -> {"ollama"} \cup (Snaps \ {Big})
Unboots(S) == S

Halt(e) == IF engine[e] = "absent" THEN "absent" ELSE IF e # "ollama" THEN "off"
           ELSE IF Up(e) THEN "ending" ELSE engine[e]

\* the errors of stopping are ignored
Apply(t) ==
    /\ task = None
    /\ \E failing \in SUBSET {e \in Stops(t) : Up(e)} :
        /\ engine' = [e \in DOMAIN engine |-> IF e \in Stops(t) \ failing THEN Halt(e) ELSE engine[e]]
        /\ boot' = boot \ Unboots(Stops(t) \ failing)
        /\ spoilt' = [spoilt EXCEPT !.byHand = @ \/ failing # {}]
        /\ task' = [tier |-> t, step |-> IF t = "idle" THEN "save" ELSE "start",
                    base |-> FALSE, clean |-> failing = {}]
    /\ UNCHANGED <<profile, env, shell, sourced>>

\* ollama serve is spawned whatever runs; one whose address is still taken ends at once
Launched(e) == CASE engine[e] = "off" -> IF e = "ollama" THEN "starting" ELSE "on"
                 [] OTHER -> engine[e]
StartEngine ==
    /\ task # None /\ task.step = "start"
    /\ LET e == Serves(task.tier)
       IN IF engine[e] = "absent" THEN task' = None /\ UNCHANGED <<engine, boot>>
          ELSE /\ \/ engine' = [engine EXCEPT ![e] = Launched(e)]
                  \/ e # "ollama" /\ UNCHANGED engine         \* snap start failed
               /\ boot' = boot \cup ({e} \cap Snaps)
               /\ task' = [task EXCEPT !.step = "wait"]
    /\ UNCHANGED <<profile, env, shell, sourced, spoilt>>

\* until the engine answers, or for so many tries
Waited ==
    /\ task # None /\ task.step = "wait"
    /\ task' = [task EXCEPT !.step = "save", !.base = task.tier = "daily" \/ engine[Serves(task.tier)] = "on"]
    /\ UNCHANGED <<engine, boot, profile, env, shell, sourced, spoilt>>

SaveProfile ==
    /\ task # None /\ task.step = "save"
    /\ \/ /\ profile' = [tier |-> task.tier, base |-> task.base]
          /\ task' = [task EXCEPT !.step = "env"] /\ spoilt' = [spoilt EXCEPT !.byHand = ~task.clean]
       \/ task' = None /\ spoilt' = [spoilt EXCEPT !.cut = TRUE] /\ UNCHANGED profile
    /\ UNCHANGED <<engine, boot, env, shell, sourced>>

\* Kept: the file has no line for the variable
Kept == "kept"
Lines(p) == [provider |-> CASE p.tier = "idle" -> "unset" [] p.tier = "daily" -> "ollama" [] OTHER -> "inference-snaps",
             model    |-> IF p.tier = "idle" THEN "unset" ELSE Serves(p.tier),
             snapUrl  |-> IF p.tier \in {"snaps", "heavy"} /\ p.base THEN "url" ELSE "unset",
             ollamaUrl |-> IF p.tier = "daily" THEN "url" ELSE Kept]
SaveEnv ==
    /\ task # None /\ task.step = "env"
    /\ \/ env' = Lines(profile) /\ UNCHANGED spoilt
       \/ spoilt' = [spoilt EXCEPT !.cut = TRUE] /\ UNCHANGED env
    /\ task' = None /\ sourced' = FALSE
    /\ UNCHANGED <<engine, boot, profile, shell>>

Source ==
    /\ ~sourced /\ task = None
    /\ shell' = [k \in DOMAIN env |-> IF env[k] = Kept THEN shell[k] ELSE env[k]]
    /\ sourced' = TRUE
    /\ UNCHANGED <<engine, boot, task, profile, env, spoilt>>

\* ollama_start, ollama_stop, snap_install and snap_remove of the panel
ByHand(e) ==
    /\ task = None
    /\ \/ e = "ollama" /\ engine[e] # "absent" /\ engine' = [engine EXCEPT ![e] = Launched(e)] /\ UNCHANGED boot
       \/ e = "ollama" /\ engine' = [engine EXCEPT ![e] = Halt(e)] /\ UNCHANGED boot
       \/ e \in Snaps /\ engine[e] = "absent" /\ engine' = [engine EXCEPT ![e] = "on"] /\ boot' = boot \cup {e}
       \/ e \in Snaps /\ engine' = [engine EXCEPT ![e] = "absent"] /\ boot' = boot \ {e}
    /\ spoilt' = [spoilt EXCEPT !.byHand = @ \/ (Up(e)' /\ ~Up(e))]
    /\ UNCHANGED <<task, profile, env, shell, sourced>>

\* ollama comes up, fails, or ends after its signal
OllamaMoves ==
    /\ engine["ollama"] \in {"starting", "on", "ending"}
    /\ \E s \in (IF engine["ollama"] = "starting" THEN {"on", "off"} ELSE {"off"}) :
            engine' = [engine EXCEPT !["ollama"] = s]
    /\ UNCHANGED <<boot, task, profile, env, shell, sourced, spoilt>>

Reboot ==
    /\ task = None
    /\ engine' = [e \in DOMAIN engine |-> IF engine[e] = "absent" THEN "absent" ELSE IF e \in boot THEN "on" ELSE "off"]
    /\ UNCHANGED <<boot, task, profile, env, shell, sourced, spoilt>>

TierNext ==
    /\ ~spoilt.cut
    /\ \/ \E t \in Tiers : Apply(t)
       \/ StartEngine \/ Waited \/ SaveProfile \/ SaveEnv \/ Source \/ OllamaMoves \/ Reboot
       \/ \E e \in DOMAIN engine : ByHand(e)
-----------------------------------------------------------------------------
(* usePollingFetch                                                          *)

Change == /\ fact < MaxChange /\ fact' = fact + 1 /\ UNCHANGED <<poll, newest, data, cache, hid>>

\* the interval and refresh; a hidden window gets the last result again
RunOnce(f, hidden) ==
    /\ poll[f].at = "idle"
    /\ newest' = f
    /\ IF hidden /\ cache # None
       THEN /\ poll' = [poll EXCEPT ![f] = [at |-> "read", of |-> cache]] /\ hid' = TRUE
       ELSE /\ poll' = [poll EXCEPT ![f] = [at |-> "asked", of |-> None]] /\ UNCHANGED hid
    /\ UNCHANGED <<fact, data, cache>>

Fetched(f) ==
    /\ poll[f].at = "asked"
    /\ poll' = [poll EXCEPT ![f] = [at |-> "read", of |-> fact]]
    /\ UNCHANGED <<fact, newest, data, cache, hid>>

\* a fetch that was aborted still leaves its result in the cache
Applies(f) == f = newest
Resolve(f) ==
    /\ poll[f].at = "read"
    /\ poll' = [poll EXCEPT ![f] = [at |-> "idle", of |-> None]]
    /\ cache' = poll[f].of
    /\ data' = IF Applies(f) THEN poll[f].of ELSE data
    /\ UNCHANGED <<fact, newest, hid>>

Reject(f) ==
    /\ poll[f].at = "asked"
    /\ poll' = [poll EXCEPT ![f] = [at |-> "idle", of |-> None]]
    /\ UNCHANGED <<fact, newest, data, cache, hid>>

PollNext == Change \/ \E f \in Polls : Fetched(f) \/ Resolve(f) \/ Reject(f) \/ \E h \in BOOLEAN : RunOnce(f, h)
-----------------------------------------------------------------------------
Init ==
    /\ proc = [p \in Procs |-> "unborn"] /\ keyed = [p \in Procs |-> FALSE]
    /\ pidFile = None /\ path = None /\ jwt = FALSE /\ crossed = FALSE
    /\ ctl = [c \in Ctls |-> [op |-> "start", step |-> "idle", pid |-> None]]
    /\ engine \in [{"ollama"} \cup Snaps -> {"absent", "off"}] /\ boot = {}
    /\ task = None /\ profile = [tier |-> "idle", base |-> FALSE]
    /\ env = [k \in {"provider", "model", "snapUrl", "ollamaUrl"} |-> Kept]
    /\ shell = [k \in DOMAIN env |-> "unset"] /\ sourced = FALSE
    /\ spoilt = [byHand |-> FALSE, cut |-> FALSE]
    /\ fact = 0 /\ poll = [f \in Polls |-> [at |-> "idle", of |-> None]] /\ newest = None
    /\ data = None /\ cache = None /\ hid = FALSE

TypeOK ==
    /\ proc \in [Procs -> {"unborn", "spawned", "opening", "serving", "closing", "dead"}]
    /\ keyed \in [Procs -> BOOLEAN] /\ {pidFile, path} \subseteq Procs \cup {None}
    /\ {jwt, crossed, sourced, hid} \subseteq BOOLEAN
    /\ \A c \in Ctls : /\ ctl[c].step \in {"idle", "start", "await", "stop", "term", "kill", "ok", "error"}
                       /\ ctl[c].pid \in Procs \cup {None}
    /\ engine \in [{"ollama"} \cup Snaps -> {"absent", "off", "starting", "on", "ending"}] /\ boot \subseteq Snaps
    /\ profile.tier \in Tiers /\ spoilt \in [byHand : BOOLEAN, cut : BOOLEAN]
    /\ fact \in 0 .. MaxChange /\ newest \in Polls \cup {None}
    /\ {data, cache} \subseteq (0 .. MaxChange) \cup {None}

\* A start or restart that succeeds names the process that serves the socket, and that process
\* was given the licence if one is stored; a stop that succeeds leaves no daemon. Calls that
\* overlap, or begin before a spawned process has written its pid file, are left out.
OkIsTrue ==
    ~crossed' => \A c \in Ctls : ctl[c].step \notin {"idle", "ok", "error"} /\ ctl'[c].step = "ok" =>
        IF ctl[c].op = "stop" THEN \A p \in Procs : proc'[p] \in {"unborn", "dead"}
        ELSE /\ path' = ctl'[c].pid
             /\ keyed'[path'] = jwt'
ControlIsHonest == [][OkIsTrue]_daemonVars

\* Only engines of the chosen tier run, after a reboot too, unless one was handled by hand, a
\* stop failed or the profile was not written (profile_apply).
TierHolds ==
    task = None /\ ~spoilt.byHand /\ ~spoilt.cut => \A e \in DOMAIN engine : Up(e) => e \in MayRun(profile.tier)

\* A shell that has read the environment file addresses the provider, model and snap of the
\* profile, whatever it had read before (save_profile).
ShellFollowsProfile ==
    sourced /\ task = None /\ ~spoilt.cut /\ env.provider # Kept =>
        \A k \in {"provider", "model", "snapUrl"} : shell[k] = Lines(profile)[k]

\* What a panel shows never goes back to something older, however its fetches overlap; the
\* result a hidden window reuses is left out (usePollingFetch).
NotOlder == ~hid' /\ data # None => data' # None /\ data' >= data
DataNeverAges == [][NotOlder]_pollVars

DaemonSpec == Init /\ [][DaemonNext /\ UNCHANGED <<tierVars, pollVars>>]_daemonVars
TierSpec   == Init /\ [][TierNext /\ UNCHANGED <<daemonVars, pollVars>>]_tierVars
PollSpec   == Init /\ [][PollNext /\ UNCHANGED <<daemonVars, tierVars>>]_pollVars
=============================================================================
