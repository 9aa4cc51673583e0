----------------------------- MODULE DeployWizard -----------------------------
(* The deploy wizard of the desktop application: the configuration it keeps  *)
(* with the backend while the user goes through the steps, the attempts to   *)
(* deploy the apps, and the database that is migrated and seeded.            *)
EXTENDS Naturals, Sequences, FiniteSets

CONSTANTS
    Last, Kind,     \* steps 1 .. Last; each saves "both" draft and deploy, a "draft", or "none"
    Email,          \* the step whose Next stays enabled while its test is sent again
    Apps, Attempts, Targets, None

VARIABLES
    config,    \* what the backend has stored
    queue,     \* commands on their way to the backend, which serves them in order
    shown,     \* config of useConfig in the wizard
    launch,    \* config of useConfig in MainApp, read when the application starts
    data,      \* the steps whose fields the wizard has in memory
    cur, op,   \* the step that is open; what each step is doing, and the config it saw
    moving,    \* Next is being carried out
    upset,     \* hasty: went elsewhere while a step or a command was busy; unsaved: a write failed
    attempt, status, run, build, cancelled, deploying, overlapped,   \* StepDeploy
    db                                                                \* StepDatabase

wizardVars == <<config, queue, shown, launch, data, cur, op, moving, upset>>
deployVars == <<attempt, status, run, build, cancelled, deploying, overlapped>>
dbVars     == <<db>>

Steps  == 1 .. Last
Config == [done : SUBSET Steps, draft : SUBSET Steps, deploy : SUBSET Steps, complete : BOOLEAN]
-----------------------------------------------------------------------------
(* The steps and the configuration                                          *)

FirstOpen(c) == IF Steps \subseteq c.done THEN Last
                ELSE CHOOSE i \in Steps \ c.done : \A j \in Steps \ c.done : i <= j


Idle == [s \in Steps |-> [at |-> "idle", base |-> None]]
Set(c, by, s) == [op |-> "set", cfg |-> c, by |-> by, step |-> s]
Get(by)       == [op |-> "get", cfg |-> None, by |-> by, step |-> None]

Start(s) ==
    /\ cur = s /\ op[s].at = "idle" /\ moving = None /\ ~shown.complete
    /\ op' = [op EXCEPT ![s] = [at |-> "working", base |-> shown]]
    /\ UNCHANGED <<config, queue, shown, launch, data, cur, moving, upset>>

Fails(s) ==
    /\ op[s].at = "working"
    /\ op' = [op EXCEPT ![s] = [at |-> "idle", base |-> None]]
    /\ UNCHANGED <<config, queue, shown, launch, data, cur, moving, upset>>

\* updateData keeps what the other steps have entered
Entered(s) == data \cup {s}

\* Both writes start from the configuration of the click, so the later one undoes the earlier;
\* which is later depends on when React runs the update of the data.
Succeeds(s) ==
    /\ op[s].at = "working"
    /\ LET draft  == Set([op[s].base EXCEPT !.draft = Entered(s)], "update", None)
           deploy == Set([op[s].base EXCEPT !.deploy = @ \cup {s}], "update", s)
       IN IF Kind[s] = "both"
          THEN \/ queue' = queue \o <<draft, deploy>>
               \/ queue' = queue \o <<deploy, draft>>
          ELSE queue' = queue \o (IF Kind[s] = "draft" THEN <<draft>> ELSE <<>>)
    /\ data' = IF Kind[s] = "none" THEN data ELSE Entered(s)
    /\ op' = [op EXCEPT ![s] = [at |-> IF Kind[s] = "both" THEN "saving" ELSE "saved", base |-> None]]
    /\ UNCHANGED <<config, shown, launch, cur, moving, upset>>

\* next: completeStep, reload, then the next step
Next(s) ==
    /\ cur = s /\ moving = None
    /\ op[s].at = "saved" \/ (s = Email /\ s \in data)
    /\ moving' = s
    /\ queue' = Append(queue, Get("mark"))
    /\ upset' = [upset EXCEPT !.hasty = @ \/ op[s].at \in {"working", "saving"}]
    /\ UNCHANGED <<config, shown, launch, data, cur, op>>

\* goTo and back; a step that is left forgets its state, what it is doing goes on
Visit(i) ==
    /\ i # cur /\ (i <= FirstOpen(shown) \/ i = cur - 1)
    /\ cur' = i
    /\ op' = [op EXCEPT ![cur].at = IF @ = "saved" THEN "idle" ELSE @]
    /\ upset' = [upset EXCEPT !.hasty = @ \/ queue # <<>> \/ op[cur].at \in {"working", "saving"}]
    /\ UNCHANGED <<config, queue, shown, launch, data, moving>>

Reloaded(c) == c

\* get_config, for completeStep and for reload
ServeGet ==
    /\ queue # <<>> /\ Head(queue).op = "get"
    /\ IF Head(queue).by = "mark"
       THEN /\ queue' = Append(Tail(queue), IF moving \in config.done THEN Get("reload")
                                            ELSE Set([config EXCEPT !.done = @ \cup {moving}], "mark", None))
            /\ UNCHANGED <<shown, cur, op, moving>>
       ELSE /\ queue' = Tail(queue)
            /\ shown' = Reloaded(config) /\ moving' = None
            /\ cur' = IF moving = Last THEN cur ELSE IF cur < Last THEN cur + 1 ELSE cur
            /\ op' = [op EXCEPT ![cur].at = IF @ = "saved" /\ moving # Last THEN "idle" ELSE @]
    /\ UNCHANGED <<config, launch, data, upset>>

\* set_config; updateConfig swallows an error, so the step goes on as if it were saved
ServeSet ==
    /\ queue # <<>> /\ Head(queue).op = "set"
    /\ LET q == Head(queue)
       IN /\ op' = IF q.step # None THEN [op EXCEPT ![q.step].at = IF @ = "saving" THEN "saved" ELSE @] ELSE op
          /\ \/ /\ config' = q.cfg
                /\ shown' = IF q.by = "mark" THEN shown ELSE q.cfg
                /\ queue' = IF q.by = "mark" THEN Append(Tail(queue), Get("reload")) ELSE Tail(queue)
                /\ UNCHANGED <<moving, upset>>
             \/ /\ queue' = Tail(queue)
                /\ moving' = IF q.by = "mark" THEN None ELSE moving
                /\ upset' = [upset EXCEPT !.unsaved = @ \/ q.by # "mark"]
                /\ UNCHANGED <<config, shown>>
    /\ UNCHANGED <<launch, data, cur>>

\* The application starts again; commands that were not served are lost.
Restart ==
    /\ ~config.complete
    /\ shown' = config /\ launch' = config /\ data' = config.draft /\ cur' = FirstOpen(config)
    /\ queue' = <<>> /\ op' = Idle /\ moving' = None
    /\ UNCHANGED <<config, upset>>

\* MainApp writes what it read at the start of the application, and the wizard closes
Complete ==
    /\ cur = Last /\ op[Last].at = "saved" /\ queue = <<>> /\ moving = None
    /\ config' = [launch EXCEPT !.complete = TRUE] /\ shown' = config'
    /\ UNCHANGED <<queue, launch, data, cur, op, moving, upset>>

WizardNext ==
    /\ ~config.complete /\ ~upset.hasty
    /\ \/ \E s \in Steps : Start(s) \/ Fails(s) \/ Succeeds(s) \/ Next(s) \/ Visit(s)
       \/ ServeGet \/ ServeSet \/ Restart \/ Complete
-----------------------------------------------------------------------------
(* The deployment of the apps                                               *)

Running(n) == \E a \in Apps : run[n][a] \notin {"none", "over"}

\* a new attempt lifts the cancellation, for an earlier one that still runs too
Deploy(n) ==
    /\ n = attempt + 1 /\ n \in Attempts /\ ~deploying
    /\ \E a \in Apps : status[a] # "ready"
    /\ attempt' = n /\ cancelled' = FALSE /\ deploying' = TRUE
    /\ run' = [run EXCEPT ![n] = [a \in Apps |-> "env"]]
    /\ status' = [a \in Apps |-> "busy"]
    /\ overlapped' = (overlapped \/ \E m \in Attempts : Running(m))
    /\ UNCHANGED build

Goes(n, a, phase, shows) ==
    /\ run' = [run EXCEPT ![n][a] = phase]
    /\ status' = [status EXCEPT ![a] = shows]
Errs(n, a) == Goes(n, a, "over", "error")

AfterPush(n, a) == IF cancelled THEN Errs(n, a) ELSE Goes(n, a, "deploying", "busy")

\* all variables, or an error on the way
PushEnv(n, a) ==
    /\ run[n][a] = "env"
    /\ AfterPush(n, a) \/ Errs(n, a)
    /\ UNCHANGED <<attempt, build, cancelled, deploying, overlapped>>

\* vercel_deploy: a request whose answer is an error may have been carried out
Trigger(n, a) ==
    /\ run[n][a] = "deploying"
    /\ \/ build' = [build EXCEPT ![a] = [of |-> n, state |-> "building"]]
          /\ IF cancelled THEN Errs(n, a) ELSE Goes(n, a, "polling", "busy")
       \/ Errs(n, a) /\ (UNCHANGED build \/ build' = [build EXCEPT ![a] = [of |-> n, state |-> "building"]])
    /\ UNCHANGED <<attempt, cancelled, deploying, overlapped>>

BuildEnds(a) ==
    /\ build[a].state = "building"
    /\ \E state \in {"ready", "failed"} : build' = [build EXCEPT ![a].state = state]
    /\ UNCHANGED <<attempt, status, run, cancelled, deploying, overlapped>>

Settled(a) == build[a].state = "ready"

\* the cancellation is looked at before the question, not after the answer
Ask(n, a) ==
    /\ run[n][a] = "polling"
    /\ \/ ~cancelled /\ Goes(n, a, "asking", "busy")
       \/ Errs(n, a)                                  \* cancelled, or for too long
    /\ UNCHANGED <<attempt, build, cancelled, deploying, overlapped>>

\* the answer about a build that another attempt has replaced is not followed
Poll(n, a) ==
    /\ run[n][a] = "asking" /\ build[a].of = n
    /\ \/ build[a].state = "failed" /\ Errs(n, a)
       \/ Settled(a) /\ Goes(n, a, "over", "ready")
       \/ Goes(n, a, "polling", "busy")                \* it was still building
    /\ UNCHANGED <<attempt, build, cancelled, deploying, overlapped>>

AllSettled(n) ==
    /\ n = attempt /\ deploying /\ ~Running(n)
    /\ deploying' = FALSE
    /\ UNCHANGED <<attempt, status, run, build, cancelled, overlapped>>

Cancel ==
    /\ deploying
    /\ cancelled' = TRUE /\ deploying' = FALSE
    /\ UNCHANGED <<attempt, status, run, build, overlapped>>

DeployNext ==
    /\ ~overlapped
    /\ \/ \E n \in Attempts : Deploy(n) \/ AllSettled(n) \/ \E a \in Apps : PushEnv(n, a) \/ Trigger(n, a) \/ Ask(n, a) \/ Poll(n, a)
       \/ \E a \in Apps : BuildEnds(a)
       \/ Cancel
-----------------------------------------------------------------------------
(* The database                                                             *)

Asks(phase, pending) == db' = [db EXCEPT !.phase = phase, !.pending = pending]

Edit(u) == /\ db.phase = "input" /\ db' = [db EXCEPT !.url = u]

Connect ==
    /\ db.phase = "input" /\ db.url # None
    /\ db' = [db EXCEPT !.phase = "testing", !.asked = db.url, !.target = None]

Tested ==
    /\ db.phase = "testing" /\ db.pending = None
    /\ \/ db' = [db EXCEPT !.target = db.asked, !.pending = "migrate", !.tested = @ \cup {db.asked}]
       \/ Asks("input", None)

Confirm ==
    /\ db.pending # None /\ db.target # None
    /\ Asks(IF db.pending = "migrate" THEN "migrating" ELSE "seeding", None)

Migrated ==
    /\ db.phase = "migrating" /\ db.pending = None
    /\ \/ db' = [db EXCEPT !.migrated = @ \cup {db.target}, !.pending = "seed"]
       \/ db' = [db EXCEPT !.phase = "input"]

Seeded ==
    /\ db.phase = "seeding"
    /\ \/ db' = [db EXCEPT !.seeded = @ \cup {db.target}, !.phase = "done", !.saved = db.target]
       \/ db' = [db EXCEPT !.phase = "input"]

Close == db.pending # None /\ db' = [db EXCEPT !.target = None, !.pending = None, !.phase = "input"]

DatabaseNext == \/ \E u \in Targets : Edit(u)
                \/ Connect \/ Tested \/ Confirm \/ Migrated \/ Seeded \/ Close
-----------------------------------------------------------------------------
Fresh == [done |-> {}, draft |-> {}, deploy |-> {}, complete |-> FALSE]

Init ==
    /\ config = Fresh /\ shown = Fresh /\ launch = Fresh /\ queue = <<>> /\ data = {} /\ cur = 1
    /\ op = Idle /\ moving = None /\ upset = [hasty |-> FALSE, unsaved |-> FALSE]
    /\ attempt = 0 /\ status = [a \in Apps |-> "idle"] /\ run = [n \in Attempts |-> [a \in Apps |-> "none"]]
    /\ build = [a \in Apps |-> [of |-> 0, state |-> "none"]]
    /\ cancelled = FALSE /\ deploying = FALSE /\ overlapped = FALSE
    /\ db = [url |-> None, asked |-> None, target |-> None, phase |-> "input", pending |-> None,
             tested |-> {}, migrated |-> {}, seeded |-> {}, saved |-> None]

TypeOK ==
    /\ config \in Config /\ shown \in Config /\ launch \in Config
    /\ data \subseteq Steps /\ cur \in Steps /\ moving \in Steps \cup {None}
    /\ \A s \in Steps : op[s].at \in {"idle", "working", "saving", "saved"}
    /\ upset \in [hasty : BOOLEAN, unsaved : BOOLEAN]
    /\ attempt \in Attempts \cup {0} /\ {cancelled, deploying, overlapped} \subseteq BOOLEAN
    /\ status \in [Apps -> {"idle", "busy", "ready", "error"}]
    /\ run \in [Attempts -> [Apps -> {"none", "env", "deploying", "polling", "asking", "over"}]]
    /\ build \in [Apps -> [of : Attempts \cup {0}, state : {"none", "building", "ready", "failed"}]]
    /\ db.phase \in {"input", "testing", "migrating", "seeding", "done"}
    /\ {db.url, db.asked, db.target, db.saved} \subseteq Targets \cup {None}

\* No write takes back a step that was completed, except the one that ends the wizard, unless
\* the user went elsewhere while a step was busy: its writes start from the configuration it
\* saw (updateConfig, completeStep).
StepsRemain == ~upset'.hasty /\ ~config'.complete => config.done \subseteq config'.done
StepsStay == [][StepsRemain]_wizardVars

\* What a completed step has entered is stored: its draft, or for a step that saves twice at
\* least one of the two; a write that failed is left out (updateData, updateConfig).
DraftIsKept ==
    ~upset.hasty /\ ~upset.unsaved /\ ~config.complete =>
        \A s \in config.done : /\ Kind[s] = "draft" => s \in config.draft
                              /\ Kind[s] = "both" => s \in config.draft \cup config.deploy

\* The wizard never opens a step before all steps in front of it are completed in the stored
\* configuration, although Next goes on by itself (useDeployWizard).
StepsInOrder == ~upset.hasty /\ ~config.complete => cur <= FirstOpen(config)

\* An app is shown as ready only if its latest build is, and this attempt has triggered it;
\* an attempt that was started while a cancelled one still ran is left out (handleDeploy).
ReadyIsLatest ==
    ~overlapped => \A a \in Apps :
        status[a] = "ready" => build[a] = [of |-> attempt, state |-> "ready"]

\* After Cancel no further app begins to deploy (deployApp).
CancelHolds ==
    ~overlapped' /\ cancelled /\ cancelled' =>
        \A n \in Attempts, a \in Apps : run'[n][a] = "deploying" => run[n][a] = "deploying"
CancelStops == [][CancelHolds]_deployVars

\* Only a database that answered the test is migrated, only one that was migrated is seeded,
\* and the one that is saved is the one that was seeded (StepDatabase).
DatabaseIsTested ==
    /\ db.seeded \subseteq db.migrated /\ db.migrated \subseteq db.tested
    /\ db.saved # None => db.saved \in db.seeded

WizardSpec   == Init /\ [][WizardNext /\ UNCHANGED <<deployVars, dbVars>>]_wizardVars
DeploySpec   == Init /\ [][DeployNext /\ UNCHANGED <<wizardVars, dbVars>>]_deployVars
DatabaseSpec == Init /\ [][DatabaseNext /\ UNCHANGED <<wizardVars, deployVars>>]_dbVars
=============================================================================
