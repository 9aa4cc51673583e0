------------------------------ MODULE GitPanel -------------------------------
(* The git panel of the desktop application: what it shows of a repository,  *)
(* the operations it offers, the daemon that runs git for them, and answers  *)
(* that come back while the panel has moved on.  One file per repository.    *)
EXTENDS Naturals, Sequences, FiniteSets

CONSTANTS
    Repos, Branches, Contents, Calls, None,
    Trees   \* the states of its file that a repository may start with

VARIABLES
    git,       \* each repository: branch, branches, and the file in HEAD, index and worktree
    call,      \* what the panel is doing: operation, captured path, file state, answer
    order,     \* answers on their way, in the order they were read
    panel,     \* GitPanel: path, status, list of branches, selection, diff
    together,  \* calls that overlapped with another
    misled,    \* pushes and pulls of another branch than the one that was checked out
    excused,   \* a status or list overtook another or was for another path, or an answer got lost
    late,      \* diffs on their way under which the selection or the path changed
    strayed    \* the diff that is shown came late, or the path changed since

diffVars == <<late, strayed>>
gitVars  == <<git, call, order, panel, together, misled, excused, late, strayed>>

Missing(side) == side = None
-----------------------------------------------------------------------------
(* git.status and bucket_porcelain                                          *)

\* the entries of git status --porcelain, as <<X, Y>>
Entries(g) ==
    IF g.unmerged THEN {<<"U", "U">>}
    ELSE LET x == IF g.head = g.index THEN " " ELSE IF Missing(g.head) THEN "A"
                  ELSE IF Missing(g.index) THEN "D" ELSE "M"
             y == IF Missing(g.index) \/ g.index = g.work THEN " "
                  ELSE IF Missing(g.work) THEN "D" ELSE "M"
         IN ({<<x, y>>} \ {<<" ", " ">>})
            \cup (IF Missing(g.index) /\ ~Missing(g.work) THEN {<<"?", "?">>} ELSE {})

Conflicted(e) == e[1] = "U" \/ e[2] = "U" \/ e \in {<<"D", "D">>, <<"A", "A">>}
Untracked(e)  == e = <<"?", "?">>

\* bucket_porcelain
Bucket(es) ==
    LET plain == {e \in es : ~Conflicted(e) /\ ~Untracked(e)}
    IN {"staged" : e \in {p \in plain : p[1] # " "}}
       \cup {"unstaged" : e \in {p \in plain : p[2] # " "} \cup {q \in es : Conflicted(q)}}
       \cup {"untracked" : e \in {q \in es : Untracked(q)}}

Snapshot(r) == [repo |-> r, branch |-> git[r].branch, lists |-> Bucket(Entries(git[r]))]
-----------------------------------------------------------------------------
(* What the daemon runs: the set of outcomes, each a repository and success *)

Nothing(g) == [git |-> g, ok |-> FALSE]
Done(g)    == [git |-> g, ok |-> TRUE]

GitAdd(g) ==
    IF Missing(g.index) /\ Missing(g.work) THEN Nothing(g)
    ELSE Done([g EXCEPT !.index = g.work, !.unmerged = FALSE])

GitUnstage(g) == Done([g EXCEPT !.index = g.head, !.unmerged = FALSE])

GitDiscard(g) ==
    IF g.unmerged \/ Missing(g.index) THEN Nothing(g) ELSE Done([g EXCEPT !.work = g.index])

GitCommit(g) ==
    IF g.unmerged \/ g.head = g.index THEN Nothing(g) ELSE Done([g EXCEPT !.head = g.index])

GitBranch(g, b) ==
    IF b \in g.branches THEN Nothing(g) ELSE Done([g EXCEPT !.branches = @ \cup {b}])

\* changes in the way may keep git from switching
GitSwitch(g, b) ==
    IF g.unmerged \/ b \notin g.branches THEN {Nothing(g)}
    ELSE IF g.head = g.index /\ g.index = g.work
         THEN {Done([g EXCEPT !.branch = b, !.head = v, !.index = v, !.work = v]) : v \in Contents}
         ELSE {Done([g EXCEPT !.branch = b]), Nothing(g)}

\* up to date, merged, in conflict, or refused
GitPull(g) ==
    {Nothing(g), Done(g)} \cup
    (IF g.unmerged \/ g.index # g.head THEN {}
     ELSE {[git |-> [g EXCEPT !.unmerged = TRUE], ok |-> FALSE]} \cup
          (IF g.work # g.head THEN {}
           ELSE {Done([g EXCEPT !.head = v, !.index = v, !.work = v]) : v \in Contents}))

Outcomes(c) ==
    LET g == git[call[c].repo]
    IN CASE call[c].op = "stage"   -> {GitAdd(g)}
         [] call[c].op = "unstage" -> {GitUnstage(g)}
         [] call[c].op = "discard" -> {GitDiscard(g)}
         [] call[c].op = "commit"  -> {GitCommit(g), Nothing(g)}
         [] call[c].op = "create"  -> {GitBranch(g, call[c].branch)}
         [] call[c].op = "switch"  -> GitSwitch(g, call[c].branch)
         [] call[c].op = "push"    -> {Done(g), Nothing(g)}
         [] call[c].op = "pull"    -> GitPull(g)
         [] OTHER                  -> {}

\* git_diff_content: unmerged entries cannot be read, nor a file that is neither in the
\* worktree nor deleted from it; a side that is known to be missing is empty
DiffReads(g, side) ==
    /\ ~g.unmerged
    /\ side = "staged" \/ ~Missing(g.work) \/ ~Missing(g.index)
-----------------------------------------------------------------------------
Ops == {"stage", "unstage", "discard", "commit", "create", "switch", "push", "pull", "refresh", "diff"}
Sides == {"staged", "unstaged"}
Status == [repo : Repos, branch : Branches, lists : SUBSET {"staged", "unstaged", "untracked"}]

TypeOK ==
    /\ \A r \in Repos :
          /\ git[r].branch \in git[r].branches /\ git[r].branches \subseteq Branches
          /\ {git[r].head, git[r].index, git[r].work} \subseteq Contents \cup {None}
          /\ git[r].unmerged \in BOOLEAN
    /\ \A c \in Calls :
          /\ call[c].at \in {"idle", "asked", "ran", "reading", "read", "listing", "listed", "over"}
          /\ call[c].op \in Ops \cup {None} /\ call[c].repo \in Repos \cup {None}
          /\ call[c].snap \in Status \cup {None} /\ call[c].list \subseteq Branches
    /\ panel.repo \in Repos /\ panel.status \in Status \cup {None}
    /\ panel.branches \subseteq Branches
    /\ {panel.selected} \cup {call[c].side : c \in Calls} \subseteq Sides \cup {None}
    /\ panel.diff \in [repo : Repos, side : Sides] \cup {None}
    /\ together \subseteq Calls /\ misled \subseteq Calls /\ late \subseteq Calls
    /\ excused \in BOOLEAN /\ strayed \in BOOLEAN

Init ==
    /\ git \in [Repos -> {[branch |-> b, branches |-> {b}, head |-> t[1], index |-> t[2],
                           work |-> t[3], unmerged |-> t[4]] : b \in Branches, t \in Trees}]
    /\ call = [c \in Calls |-> [at |-> "idle", op |-> None, repo |-> None, branch |-> None,
                                side |-> None, ok |-> FALSE, snap |-> None, list |-> {}]]
    /\ order = <<>> /\ together = {} /\ misled = {} /\ excused = FALSE
    /\ late = {} /\ strayed = FALSE
    /\ LET r == CHOOSE r \in Repos : TRUE   \* they are alike
       IN panel = [repo |-> r, status |-> Snapshot(r), branches |-> git[r].branches,
                   selected |-> None, diff |-> None]

Active == {c \in Calls : call[c].at \notin {"idle", "over"}}
Doing(op) == \E c \in Active : call[c].op = op

Asking == {c \in Active : call[c].op = "diff"}

\* the selection changes, and the old diff is taken away: what is under way will come late
Dropped  == late' = late \cup Asking /\ strayed' = FALSE

\* side is the selection that the handler sees, or asks the diff of
Begin(c, op, r, b, side) ==
    /\ call[c].at = "idle" /\ ~excused
    /\ call' = [call EXCEPT ![c] = [@ EXCEPT !.at = IF op = "refresh" THEN "reading" ELSE "asked",
                    !.op = op, !.repo = r, !.branch = b, !.side = side]]
    /\ together' = IF Active = {} THEN together ELSE together \cup Active \cup {c}
    /\ UNCHANGED <<git, order, misled, excused>>

Lists(l) == panel.status # None /\ l \in panel.status.lists

\* the buttons of the file list and the commit form
Click(c, op) ==
    /\ \/ op = "stage" /\ (Lists("unstaged") \/ Lists("untracked"))
       \/ op = "unstage" /\ Lists("staged")
       \/ op = "discard" /\ Lists("unstaged")
       \/ op = "commit" /\ Lists("staged") /\ ~Doing("commit")
       \/ op = "refresh"
    /\ Begin(c, op, panel.repo, None, panel.selected)
    /\ UNCHANGED <<panel, diffVars>>

Named == IF panel.status = None THEN CHOOSE b \in Branches : TRUE ELSE panel.status.branch

\* handlePush, handlePull: the branch that the status names
Remote(c, op) ==
    /\ op \in {"push", "pull"} /\ ~Doing(op) /\ panel.status # None
    /\ Begin(c, op, panel.repo, Named, None)
    /\ UNCHANGED <<panel, diffVars>>

\* createAndSwitchBranch goes on with the switch
ToBranch(c, op, b) ==
    /\ \/ op = "create" /\ ~Doing("create")
       \/ op = "switch" /\ ~Doing("switch") /\ b \in panel.branches
    /\ Begin(c, op, panel.repo, b, None)
    /\ UNCHANGED <<panel, diffVars>>

\* applyPath: status and lists stay until the answers for the new path, selection and diff
\* until the next selection
ApplyPath(c, r) ==
    /\ r # panel.repo
    /\ Begin(c, "refresh", r, None, None)
    /\ panel' = [panel EXCEPT !.repo = r]
    /\ late' = late \cup Asking /\ strayed' = (panel.diff # None)

DiffCleared == None

Select(c, l) ==
    /\ \/ l = "staged" /\ Lists("staged")
       \/ l = "unstaged" /\ (Lists("unstaged") \/ Lists("untracked"))
    /\ Begin(c, "diff", panel.repo, None, l)
    /\ panel' = [panel EXCEPT !.selected = l, !.diff = DiffCleared]
    /\ Dropped

\* the daemon runs the operation; the branch of a push or pull is the one of the click
Run(c) ==
    /\ call[c].at = "asked" /\ call[c].op # "diff" /\ ~excused
    /\ \E o \in Outcomes(c) :
          /\ git' = [git EXCEPT ![call[c].repo] = o.git]
          /\ call' = [call EXCEPT ![c].at = "ran", ![c].ok = o.ok]
    /\ misled' = IF call[c].op \in {"push", "pull"} /\ call[c].branch # git[call[c].repo].branch
                 THEN misled \cup {c} ELSE misled
    /\ UNCHANGED <<order, panel, together, excused, diffVars>>

\* after an error nothing is read again; push and pull report theirs as a result, which the
\* panel takes for success
Refreshes(c) == call[c].op # "push" /\ (call[c].ok \/ call[c].op = "pull")

Answered(c) ==
    /\ call[c].at = "ran" /\ ~excused
    /\ IF call[c].op = "create" /\ call[c].ok
       THEN call' = [call EXCEPT ![c].op = "switch", ![c].at = "asked"]
       ELSE call' = [call EXCEPT ![c].at = IF Refreshes(c) THEN "reading" ELSE "over"]
    /\ IF call[c].op = "commit" /\ call[c].ok
       THEN panel' = [panel EXCEPT !.selected = None, !.diff = None] /\ Dropped
       ELSE UNCHANGED <<panel, diffVars>>
    \* a branch that was created is not listed if the switch failed
    /\ excused' = (call[c].op = "switch" /\ ~call[c].ok)
    /\ UNCHANGED <<git, order, together, misled>>

\* a call that was run, and whose answer got lost, is an error to the panel
Lose(c) ==
    /\ call[c].at = "ran" /\ ~excused
    /\ call' = [call EXCEPT ![c].at = "over"]
    /\ excused' = TRUE
    /\ UNCHANGED <<git, order, panel, together, misled, diffVars>>

ReadStatus(c) ==
    /\ call[c].at = "reading" /\ ~excused
    /\ \E snap \in {Snapshot(call[c].repo), None} :
          call' = [call EXCEPT ![c].at = "read", ![c].snap = snap]
    /\ order' = Append(order, c)
    /\ UNCHANGED <<git, panel, together, misled, excused, diffVars>>

\* the answers of a kind are to be shown in the order they were read
Overtakes(c) == \E i, j \in DOMAIN order :
                    i < j /\ order[j] = c /\ call[order[i]].at = call[c].at

\* discardFile drops the selection if it saw one when it was called
Deselects(c) == call[c].op = "discard" /\ call[c].side # None

ShowStatus(c) ==
    /\ call[c].at = "read" /\ ~excused
    /\ excused' = (Overtakes(c) \/ call[c].repo # panel.repo)
    /\ order' = SelectSeq(order, LAMBDA d : d # c)
    /\ IF Deselects(c)
       THEN panel' = [panel EXCEPT !.status = call[c].snap, !.selected = None, !.diff = None] /\ Dropped
       ELSE panel' = [panel EXCEPT !.status = call[c].snap] /\ UNCHANGED diffVars
    /\ call' = [call EXCEPT ![c].at = "listing"]
    /\ UNCHANGED <<git, together, misled>>

\* loadBranches; an error leaves the old list
ReadBranches(c) ==
    /\ call[c].at = "listing" /\ ~excused
    /\ call' = [call EXCEPT ![c].at = "listed", ![c].list = git[call[c].repo].branches]
    /\ order' = Append(order, c)
    /\ UNCHANGED <<git, panel, together, misled, excused, diffVars>>

ListBranches(c) ==
    /\ call[c].at = "listed" /\ ~excused
    /\ call' = [call EXCEPT ![c].at = "over"]
    /\ order' = SelectSeq(order, LAMBDA d : d # c)
    /\ \/ /\ panel' = [panel EXCEPT !.branches = call[c].list]
          /\ excused' = (Overtakes(c) \/ call[c].repo # panel.repo)
       \/ excused' = TRUE /\ UNCHANGED panel
    /\ UNCHANGED <<git, together, misled, diffVars>>

\* selectFile shows the diff it asked for without a look at what is selected by now; an
\* error is shown instead of it, and the old diff is kept
ShowDiff(c) ==
    /\ call[c].op = "diff" /\ call[c].at = "asked" /\ ~excused
    /\ IF DiffReads(git[call[c].repo], call[c].side)
       THEN /\ panel' = [panel EXCEPT !.diff = [repo |-> call[c].repo, side |-> call[c].side]]
            /\ strayed' = (c \in late)
       ELSE UNCHANGED <<panel, strayed>>
    /\ late' = late \ {c}
    /\ call' = [call EXCEPT ![c].at = "over"]
    /\ UNCHANGED <<git, order, together, misled, excused>>

Next ==
    \/ \E c \in Calls :
          \/ \E op \in Ops : Click(c, op) \/ Remote(c, op) \/ \E b \in Branches : ToBranch(c, op, b)
          \/ \E r \in Repos : ApplyPath(c, r)
          \/ \E l \in Sides : Select(c, l)
          \/ Run(c) \/ Answered(c) \/ Lose(c) \/ ReadStatus(c) \/ ShowStatus(c)
          \/ ReadBranches(c) \/ ListBranches(c) \/ ShowDiff(c)

Spec == Init /\ [][Next]_gitVars
-----------------------------------------------------------------------------
\* Once nothing is under way the panel shows the repository as it is, or no status after an
\* error (refresh, loadBranches, and the handlers that end with a refresh).
PanelIsFresh ==
    Active = {} /\ ~excused =>
        /\ panel.status \in {None, Snapshot(panel.repo)}
        /\ panel.branches = git[panel.repo].branches

\* A file is listed as staged, changed or untracked exactly when it is, and a conflict only
\* among the changes, where it can be staged but not committed (bucket_porcelain).
ListsAreExact ==
    \A r \in Repos :
        LET g == git[r]   lists == Snapshot(r).lists
        IN /\ "staged" \in lists <=> ~g.unmerged /\ g.index # g.head
           /\ "unstaged" \in lists <=> g.unmerged \/ (~Missing(g.index) /\ g.work # g.index)
           /\ "untracked" \in lists <=> ~g.unmerged /\ Missing(g.index) /\ ~Missing(g.work)

\* A push or pull that overlaps with nothing else is of the branch that is checked out,
\* although the panel names it (handlePush, handlePull).
RemoteIsOwnBranch == ~excused => misled \subseteq together

\* The diff that is shown is the one of the selected side in the repository of the path,
\* unless it was asked for before the selection or the path last changed, or the path has
\* changed under it: these are shown as if they were the selection's, until the next
\* selection or its diff (selectFile, discardFile, handleCommit, applyPath).
DiffIsOfSelection ==
    strayed \/ panel.diff \in {None, [repo |-> panel.repo, side |-> panel.selected]}
=============================================================================
