----------------------------- MODULE MCComponents ----------------------------
(* Every component that shares no state with the others, for TLC: those of   *)
(* the daemon in Daemon, those in Clients, and beside them the panels and     *)
(* services of Studio and what is computed of a text.  A behaviour exercises  *)
(* the one its focus names, or that client names when the focus is on clients.*)
EXTENDS Daemon, Clients

VARIABLES
    token, licence, ref, vaulted, step, leaving, refresh, out, pass, jwtFile, robbed,
    unsettledOut, cut, git, panelCalls, order, panel, together, misled, overtaken, lateDiffs, strayed, config,
    queue, shown, atLaunch, entered, openStep, stepOp, moving, hurried, attempt, appStatus,
    rollouts, build, cancelled, deploying, resumed, database, proc, keyed, daemonPid,
    daemonSocket, jwt, ctl, controlsCrossed, engine, boot, tierTask, profile, activeEnv,
    shell, sourced, spoilt, fact, fetches, newest, fetched, cache, hid,
    text, line, toolCall

authVars       == <<token, licence, ref, vaulted, step, leaving, refresh, out, pass, jwtFile, robbed, unsettledOut, cut>>
panelVars      == <<git, panelCalls, order, panel, together, misled, overtaken, lateDiffs, strayed>>
wizardVars     == <<config, queue, shown, atLaunch, entered, openStep, stepOp, moving, hurried>>
deployVars     == <<attempt, appStatus, rollouts, build, cancelled, deploying, resumed>>
dbVars         == <<database>>
daemonCtlVars  == <<proc, keyed, daemonPid, daemonSocket, jwt, ctl, controlsCrossed>>
tierVars       == <<engine, boot, tierTask, profile, activeEnv, shell, sourced, spoilt>>
pollVars       == <<fact, fetches, newest, fetched, cache, hid>>
textVars       == <<text>>
lineVars       == <<line>>
toolVars       == <<toolCall>>
vars == <<daemonVars, clientsVars, authVars, panelVars, wizardVars, deployVars, dbVars, daemonCtlVars,
          tierVars, pollVars, textVars, lineVars, toolVars>>

MCParent == [n \in {"config", "note", "else"} |->
                CASE n = "config" -> "git" [] n = "note" -> "in" [] OTHER -> "out"]
MCLinkTo == [n \in {"config", "note", "else"} |-> IF n = "note" THEN "out" ELSE "in"]
MCGoalOf == [k \in {"i", "j"} |-> IF k = "j" THEN "h" ELSE "g"]
MCBlockedBy == [g \in {"g", "h"} |-> IF g = "h" THEN {"g"} ELSE {}]
MCShapes == {[classes |-> {"consequential"}, methods |-> {}, scoped |-> FALSE, max |-> 1],
             [classes |-> {}, methods |-> {"push"}, scoped |-> TRUE, max |-> 0]}
MCClassOf == [m \in {"commit", "push"} |-> IF m = "commit" THEN "consequential" ELSE "critical"]
MCLatest == [p \in {"p", "q", "r"} |-> IF p = "q" THEN 2 ELSE 1]
MCBeneath == {<<"repo/sub", "repo">>}
MCProvisioned == {<<"a", "k">>, <<"b", "k">>, <<"a", "l">>}
MCRepo == <<"/", "b">>
MCSessionOf == <<"s", "t", "s">>
MCContentOf == <<"x", "x", "y">>
MCPairs == {<<1, 3>>, <<3, 2>>}
MCWants == [w \in {"w", "x"} |-> IF w = "w" THEN "done" ELSE "moved"]

Part(s, bStart, bEnd) == [s |-> s, bStart |-> bStart, bEnd |-> bEnd]
MCMatchers == {<<Part(<<"a">>, TRUE, TRUE)>>,
               <<Part(<<"a", "b">>, FALSE, FALSE), Part(<<"b">>, FALSE, TRUE)>>,
               <<Part(<<"a", "a">>, FALSE, TRUE), Part(<<"a">>, TRUE, FALSE)>>,
               <<Part(<<"a">>, FALSE, FALSE), Part(<<"-">>, FALSE, FALSE), Part(<<"b">>, TRUE, TRUE)>>}
Bare(w) == [text |-> w, quoted |-> FALSE]
Quoted(w) == [text |-> w, quoted |-> TRUE]
MCWords == {Bare(<<"S">>), Bare(<<"C">>), Bare(<<"E">>), Bare(<<"W">>), Bare(<<"U">>), Bare(<<"=">>),
            Quoted(<<"S">>), Quoted(<<";">>), Quoted(<<"a", " ", "\"">>), Quoted(<<>>)}

MCTrees == {<<None, None, "v", FALSE>>, <<None, "v", None, FALSE>>, <<"v", "v", "v", TRUE>>}

MCKind == <<"draft", "both", "none">>
MCLiveTiers == {<<>>, <<"free", "pro">>}

MCDirectories == {<<"h">>, <<"h", "s">>, <<"h", "s", "p">>, <<"h", "p">>, <<"h", "p", "s">>, <<"h", "d">>,
             <<"h", "d", "a">>, <<"h", "c">>, <<"s">>, <<"s", "p">>, <<"t">>}
Host(platform, bwrap, squashed, hatch) == [platform |-> platform, bwrap |-> bwrap, squashed |-> squashed, hatch |-> hatch]
Bwrap(uid, writable) == [uid |-> uid, writable |-> writable]
MCHome == <<"h">>
MCDataDir == <<"h", "d">>
MCAgentHome == <<"h", "d", "a">>
MCTmp == <<"t">>
MCUsr == <<"u">>
MCLexical == {<<"h", "s">>}
MCLinks == {Null, <<"h", "s">>, <<"h", "p", "s">>, <<"s">>}
MCCaches == {<<"h", "c">>}
MCMachines == {Host("linux", Bwrap("root", FALSE), FALSE, FALSE), Host("linux", Bwrap("nobody", FALSE), FALSE, FALSE),
               Host("linux", Bwrap("nobody", FALSE), TRUE, FALSE), Host("linux", Bwrap("root", TRUE), FALSE, TRUE),
               Host("linux", Null, FALSE, FALSE), Host("darwin", Bwrap("root", FALSE), FALSE, FALSE)}
MCEnvKeys == {{}, {"TERM", "REVDEV_X"}, {"REVDEV_SPAWN_CONFINEMENT"}, {"TERM", "PATH"}}

MCAlphabets == {{<<"S">>, <<"D">>, <<" ">>, <<"E">>, <<"'">>, <<"\\">>, <<"$">>, <<"\"">>, <<"1">>},
                {<<"S", " ">>, <<"D">>, <<"-">>, <<"/", "*">>, <<"*", "/">>, <<"/", "*", "*", "/">>, <<";">>, <<"(">>, <<")">>, <<"\n">>},
                {<<"W", " ", "n", " ">>, <<"A">>, <<"A", " ", "n", " ", "M">>, <<"(", "S", ")">>, <<"S">>, <<",">>, <<"[">>, <<"n", " ">>}}
MCSkillTools == {"skills.tool.Read", "skills.tool.Grep", "skills.tool.Glob", "skills.tool.Bash"}

Auth == INSTANCE StudioAuth WITH Tokens <- {"t", "u"},
    stored <- vaulted, disk <- jwtFile, upset <- unsettledOut
Panel == INSTANCE GitPanel WITH Repos <- {"r", "q"}, Branches <- {"m", "x"}, Contents <- {"v"}, Calls <- {"c", "d"}, Trees <- MCTrees,
    call <- panelCalls, excused <- overtaken, late <- lateDiffs
Wizard == INSTANCE DeployWizard WITH Last <- 3, Kind <- MCKind, Email <- 2, Apps <- {"a", "b"}, Attempts <- {1, 2}, Targets <- {"t", "u"},
    launch <- atLaunch, data <- entered, cur <- openStep, op <- stepOp, upset <- hurried, status <- appStatus, run <- rollouts, overlapped <- resumed, db <- database
Services == INSTANCE StudioServices WITH Procs <- {"p", "q"}, Ctls <- {"c", "d"}, Snaps <- {"gemma3", "nemotron"}, Small <- "gemma3", Big <- "nemotron", Polls <- {"f", "g"}, MaxChange <- 2,
    pidFile <- daemonPid, path <- daemonSocket, crossed <- controlsCrossed, task <- tierTask, env <- activeEnv, poll <- fetches, data <- fetched
Guard == INSTANCE ToolGuard WITH MaxText <- 5, MaxWords <- 3, MaxCommands <- 2, Matchers <- MCMatchers, Words <- MCWords, MaxDepth <- 2
Protocol == INSTANCE Contract WITH Exempt <- Policy!IdentityExempt, Signed <- Policy!Signed, Classified <- Policy!Classified, SkillTools <- MCSkillTools

\* Where the starting states are cut: the directories are alike, and one of them is the
\* repository; no secret is known; and what other parts of a module start with is fixed.
RootsAtStart ==
    /\ signer = "a" /\ secrets = {}
    /\ dir["repo"] = (CHOOSE i \in Inodes : TRUE) /\ dir["other"] = None /\ dir["repo/sub"] = None
GateAtStart == IF focus = "permission" THEN denied = (envMode = "auto") ELSE envMode = "" /\ ~anchor /\ ~denied
DaemonAtStart ==
    /\ focus = "roots" => RootsAtStart
    /\ focus = "trees" => leaf = [n \in Names |-> "file"]
    /\ focus \in {"permission", "denylist"} => GateAtStart
    /\ focus = "skills" => env = [key |-> TRUE, training |-> FALSE, free |-> FALSE, model |-> None]
PanelAtStart == git["r"].branch = "m" /\ git["q"] = git["r"]
EnginesAtStart == engine["gemma3"] = "off" /\ engine["nemotron"] = "off" /\ (focus # "tiers" => engine["ollama"] = "off")
TerminalsAtStart == IF client = "hostkeys" THEN kind = "ssh" ELSE knownHosts = <<"k">>
ClientsAtStart ==
    /\ client \in {"socket", "relay"} => ~root
    /\ client \in {"hostkeys", "terminals"} => TerminalsAtStart

OwnFoci == {"account", "gitpanel", "wizard", "deployment", "database", "daemonctl", "tiers", "polling",
            "texts", "lines", "tools"}

\* A component that is not in focus has no state.
Init ==
    /\ \/ focus \in Foci \cup OwnFoci /\ client = Null
       \/ focus = "clients" /\ client \in ClientFoci
    /\ DaemonInit /\ DaemonAtStart
    /\ ClientsInit /\ ClientsAtStart
    /\ IF focus = "account" THEN Auth!Init
       ELSE /\ token = None /\ licence = None /\ ref = None /\ vaulted = None /\ step = None
            /\ leaving = None /\ refresh = None /\ out = None /\ pass = None /\ jwtFile = None
            /\ robbed = None /\ unsettledOut = None /\ cut = None
    /\ IF focus = "gitpanel" THEN Panel!Init /\ PanelAtStart
       ELSE /\ git = None /\ panelCalls = None /\ order = None /\ panel = None /\ together = None
            /\ misled = None /\ overtaken = None /\ lateDiffs = None /\ strayed = None
    /\ IF focus \in {"wizard", "deployment", "database"} THEN Wizard!Init
       ELSE /\ config = None /\ queue = None /\ shown = None /\ atLaunch = None /\ entered = None
            /\ openStep = None /\ stepOp = None /\ moving = None /\ hurried = None /\ attempt = None
            /\ appStatus = None /\ rollouts = None /\ build = None /\ cancelled = None /\ deploying = None
            /\ resumed = None /\ database = None
    /\ IF focus \in {"daemonctl", "tiers", "polling"} THEN Services!Init /\ EnginesAtStart
       ELSE /\ proc = None /\ keyed = None /\ daemonPid = None /\ daemonSocket = None /\ jwt = None
            /\ ctl = None /\ controlsCrossed = None /\ engine = None /\ boot = None /\ tierTask = None
            /\ profile = None /\ activeEnv = None /\ shell = None /\ sourced = None /\ spoilt = None
            /\ fact = None /\ fetches = None /\ newest = None /\ fetched = None /\ cache = None
            /\ hid = None
    /\ IF focus \in {"texts", "lines"} THEN Guard!Init ELSE text = None /\ line = None
    /\ IF focus = "tools" THEN Protocol!Init ELSE toolCall = None

Next ==
    /\ UNCHANGED <<focus, client>>
    /\ DaemonRests /\ ClientsRest
    /\ Rests({"account"}, authVars)
    /\ Rests({"gitpanel"}, panelVars)
    /\ Rests({"wizard"}, wizardVars)
    /\ Rests({"deployment"}, deployVars)
    /\ Rests({"database"}, dbVars)
    /\ Rests({"daemonctl"}, daemonCtlVars)
    /\ Rests({"tiers"}, tierVars)
    /\ Rests({"polling"}, pollVars)
    /\ Rests({"texts"}, textVars)
    /\ Rests({"lines"}, lineVars)
    /\ Rests({"tools"}, toolVars)
    /\ CASE focus \in Foci -> DaemonStep
         [] focus = "clients" -> ClientsStep
         [] focus = "account" -> Auth!Next
         [] focus = "gitpanel" -> Panel!Next
         [] focus = "wizard" -> Wizard!WizardNext
         [] focus = "deployment" -> Wizard!DeployNext
         [] focus = "database" -> Wizard!DatabaseNext
         [] focus = "daemonctl" -> Services!DaemonNext
         [] focus = "tiers" -> Services!TierNext
         [] focus = "polling" -> Services!PollNext
         [] focus = "texts" -> Guard!TextNext
         [] focus = "lines" -> Guard!LineNext
         [] focus = "tools" -> Protocol!Next

Spec == Init /\ [][Next]_vars
-----------------------------------------------------------------------------
(* The properties of each component, stated in its module.  Only the one in *)
(* focus has a state to look at.                                            *)

\* What is computed is what its definition says: the tool guard looks at every command that blanks
\* or quotes set apart from the separators around it, in shells within shells and behind wrappers,
\* and at no other (tool-guard/), the deny-list matches by segments however a path is named (permission.ts),
\* union-find returns the components of the graph (graph-communities.ts), the inspector's guard reads
\* a statement in its wrapper as it read it alone (guard.ts), and the tools of the bridge, the schemas
\* and the handlers agree (validation/schemas.ts).
ComputationsAreExact ==
    /\ Of({"texts", "lines"}, Guard!TypeOK)
    /\ Of({"texts"}, Guard!GreedyIsExact /\ Guard!NothingIsHidden)
    /\ Of({"lines"}, Guard!CommandsAreRead /\ Guard!NestedIsSeen /\ Guard!WrappersAreSeenThrough)
    /\ Of({"denylist"}, Policy!MatchIsBySegment /\ Policy!DeniedHoweverNamed)
    /\ Of({"communities"}, Knowledge!ComponentsAreFound)
    /\ While({"statements"}, Inspect!WrapperHolds /\ Inspect!GuardIsStable)
    /\ Of({"tools"}, Protocol!ToolsMatchDaemon /\ Protocol!UnsignedIsLimited /\ Protocol!MethodsAreKnown)

\* Studio wipes the licence only on an answer to the session it asked for, but for a sign-out during
\* the last question (license-provision.ts), and shows the repository, its diff unless one answered
\* late for another selection (GitPanel.tsx), the deployment, services and terminals as they are; it
\* keeps drafts, and the console's screens lead where they say.
ScreensAreTruthful ==
    /\ []Of({"account"}, Auth!TypeOK)
    /\ []Of({"account"}, Auth!WipeIsEarned /\ Auth!ManagedIsMarked /\ Auth!SignedOutIsGone)
    /\ [][Of({"account"}, Auth!OperatorStays)]_authVars
    /\ []Of({"gitpanel"}, Panel!TypeOK /\ Panel!PanelIsFresh /\ Panel!ListsAreExact)
    /\ []Of({"gitpanel"}, Panel!RemoteIsOwnBranch /\ Panel!DiffIsOfSelection)
    /\ []Of({"wizard", "deployment", "database"}, Wizard!TypeOK)
    /\ []Of({"wizard"}, Wizard!DraftIsKept /\ Wizard!StepsInOrder)
    /\ [][Of({"wizard"}, Wizard!StepsRemain)]_wizardVars
    /\ []Of({"deployment"}, Wizard!ReadyIsLatest)
    /\ [][Of({"deployment"}, Wizard!CancelHolds)]_deployVars
    /\ []Of({"database"}, Wizard!DatabaseIsTested)
    /\ []Of({"daemonctl", "tiers", "polling"}, Services!TypeOK)
    /\ []Of({"tiers"}, Services!TierHolds /\ Services!ShellFollowsProfile)
    /\ [][Of({"daemonctl"}, Services!OkIsTrue)]_daemonCtlVars
    /\ [][Of({"polling"}, Services!NotOlder)]_pollVars
    /\ ConsoleIsTruthful
=============================================================================
