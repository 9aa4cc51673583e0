-------------------------------- MODULE Files --------------------------------
(***************************************************************************)
(* file.* and git.* calls on one registered root (filegit.ts, vcs.ts,      *)
(* format-enforce.ts): path resolution against a tree that others change   *)
(* meanwhile, and the worktrees recorded for each agent.                   *)
(*                                                                         *)
(* A name is known by where it lies: inside the root, in its .git, outside *)
(* of it or in a secret.  Only final components are swapped between the    *)
(* check of a path and its use.                                            *)
(***************************************************************************)
EXTENDS FiniteSets

CONSTANTS
    Names, Agents, Calls,
    Parent,   \* where the directory of a name lies
    LinkTo,   \* where a symbolic link at a name points
    Branches,
    None

VARIABLES
    leaf,      \* what stands at each name
    calls,     \* calls in progress
    touched,   \* where file.* wrote or deleted
    branches,  \* local branches
    disk,      \* branches with a worktree next to the root
    worktrees, \* the one row of each agent
    unsure     \* an agent had two worktree calls in progress, or one that a crash cut off

fileVars == <<leaf, calls, touched, branches, disk, worktrees, unsure>>

Places   == {"in", "git", "out", "secret"}
FileCall == [op : {"read", "write", "delete"}, place : Places, name : Names]
TreeCall == [op : {"create", "created", "remove", "removed"}, agent : Agents, branch : Branches]

TypeOK ==
    /\ leaf \in [Names -> {"absent", "file", "link"}]
    /\ calls \in [Calls -> FileCall \cup TreeCall \cup {None}]
    /\ touched \subseteq Places
    /\ branches \subseteq Branches /\ disk \subseteq branches
    /\ worktrees \in [Agents -> [branch : Branches, status : {"active", "removed"}] \cup {None}]
    /\ unsure \in BOOLEAN

Init ==
    /\ leaf \in [Names -> {"absent", "file", "link"}]
    /\ calls = [c \in Calls |-> None]
    /\ touched = {} /\ branches = {} /\ disk = {}
    /\ worktrees = [a \in Agents |-> None]
    /\ unsure = FALSE

TreeVars == <<branches, disk, worktrees, unsure>>

-----------------------------------------------------------------------------
(* file.*                                                                  *)

\* A target that has to exist is resolved itself; one that may be new, by its
\* directory.
Resolved(op, n) == IF op # "write" /\ leaf[n] = "link" THEN LinkTo[n] ELSE Parent[n]
Confined(place) == place \in {"in", "git"}
AllowsAll(op, place)   == TRUE
AllowsPlace(op, place) == op = "read" \/ place # "git"

CheckPath(c, op, n) ==
    /\ calls[c] = None
    /\ op = "write" \/ leaf[n] # "absent"
    /\ Confined(Resolved(op, n)) /\ AllowsPlace(op, Resolved(op, n))
    /\ calls' = [calls EXCEPT ![c] = [op |-> op, place |-> Resolved(op, n), name |-> n]]
    /\ UNCHANGED <<leaf, touched, TreeVars>>

\* The tool guard or the declared formatter refuses, a formatter that fails or
\* is missing included; or the file is gone.
RefuseFile(c) ==
    /\ calls[c] \in FileCall
    /\ calls' = [calls EXCEPT ![c] = None]
    /\ UNCHANGED <<leaf, touched, TreeVars>>

ReadFile(c) ==
    /\ calls[c] \in FileCall /\ calls[c].op = "read"
    /\ calls' = [calls EXCEPT ![c] = None]
    /\ UNCHANGED <<leaf, touched, TreeVars>>

\* Opened with O_NOFOLLOW.
Lands(n) == IF leaf[n] = "link" THEN {} ELSE {Parent[n]}
WriteFile(c) ==
    LET n == calls[c].name IN
    /\ calls[c] \in FileCall /\ calls[c].op = "write"
    /\ calls' = [calls EXCEPT ![c] = None]
    /\ touched' = touched \cup Lands(n)
    /\ leaf' = [leaf EXCEPT ![n] = IF @ = "absent" THEN "file" ELSE @]
    /\ UNCHANGED TreeVars

\* unlink removes what stands at the resolved path, and never follows it.
DeleteFile(c) ==
    LET n == calls[c].name IN
    /\ calls[c] \in FileCall /\ calls[c].op = "delete"
    /\ calls' = [calls EXCEPT ![c] = None]
    /\ touched' = touched \cup {calls[c].place}
    /\ leaf' = [leaf EXCEPT ![n] = IF calls[c].place = Parent[n] THEN "absent" ELSE @]
    /\ UNCHANGED TreeVars

Swap(n) ==
    /\ leaf' \in {[leaf EXCEPT ![n] = x] : x \in {"absent", "file", "link"}}
    /\ UNCHANGED <<calls, touched, TreeVars>>

-----------------------------------------------------------------------------
(* git.createBranch, git.deleteBranch and worktree.*: git refuses a branch  *)
(* that exists, and to delete one that is checked out.                     *)

CreateBranch(b) ==
    /\ b \notin branches
    /\ branches' = branches \cup {b}
    /\ UNCHANGED <<leaf, calls, touched, disk, worktrees, unsure>>

DeleteBranch(b) ==
    /\ b \in branches \ disk
    /\ branches' = branches \ {b}
    /\ UNCHANGED <<leaf, calls, touched, disk, worktrees, unsure>>

Busy(a) == \E c \in Calls : calls[c] \in TreeCall /\ calls[c].agent = a
Start(c, a, op, b) ==
    /\ calls[c] = None
    /\ calls' = [calls EXCEPT ![c] = [op |-> op, agent |-> a, branch |-> b]]
    /\ unsure' = (unsure \/ Busy(a))

\* The scan for filter drivers may refuse; then nothing has happened.
StartCreate(c, a, b) ==
    /\ Start(c, a, "create", b)
    /\ UNCHANGED <<leaf, touched, branches, disk, worktrees>>

GitAdds(b)       == b \notin branches
Records(b) == GitAdds(b)
AddWorktree(c) ==
    LET b == calls[c].branch IN
    /\ calls[c] \in TreeCall /\ calls[c].op = "create"
    /\ IF Records(b) THEN calls' = [calls EXCEPT ![c].op = "created"]
                     ELSE calls' = [calls EXCEPT ![c] = None]
    /\ disk' = IF GitAdds(b) THEN disk \cup {b} ELSE disk
    /\ branches' = branches \cup {b}
    /\ UNCHANGED <<leaf, touched, worktrees, unsure>>

\* INSERT ... ON CONFLICT (agent_id) DO UPDATE
RecordWorktree(c) ==
    LET a == calls[c].agent IN
    /\ calls[c] \in TreeCall /\ calls[c].op = "created"
    /\ worktrees' = [worktrees EXCEPT ![a] = [branch |-> calls[c].branch, status |-> "active"]]
    /\ calls' = [calls EXCEPT ![c] = None]
    /\ UNCHANGED <<leaf, touched, branches, disk, unsure>>

StartRemove(c, a, b) ==
    /\ worktrees[a] = [branch |-> b, status |-> "active"]
    /\ Start(c, a, "remove", b)
    /\ UNCHANGED <<leaf, touched, branches, disk, worktrees>>

\* git may refuse, as it does when the worktree has changes.
RemoveWorktree(c) ==
    LET b == calls[c].branch IN
    /\ calls[c] \in TreeCall /\ calls[c].op = "remove"
    /\ \/ /\ b \in disk
          /\ calls' = [calls EXCEPT ![c].op = "removed"] /\ disk' = disk \ {b}
       \/ calls' = [calls EXCEPT ![c] = None] /\ UNCHANGED disk
    /\ UNCHANGED <<leaf, touched, branches, worktrees, unsure>>

RecordRemoval(c) ==
    LET a == calls[c].agent IN
    /\ calls[c] \in TreeCall /\ calls[c].op = "removed"
    /\ worktrees' = [worktrees EXCEPT ![a] = IF @.branch = calls[c].branch
                                             THEN [@ EXCEPT !.status = "removed"] ELSE @]
    /\ calls' = [calls EXCEPT ![c] = None]
    /\ UNCHANGED <<leaf, touched, branches, disk, unsure>>

\* The daemon dies in the middle of everything.
CrashFiles ==
    /\ calls' = [c \in Calls |-> None]
    /\ unsure' = (unsure \/ \E a \in Agents : Busy(a))
    /\ UNCHANGED <<leaf, touched, branches, disk, worktrees>>

-----------------------------------------------------------------------------
FileNext ==
    \/ \E c \in Calls : \/ \E op \in {"read", "write", "delete"}, n \in Names : CheckPath(c, op, n)
                        \/ RefuseFile(c) \/ ReadFile(c) \/ WriteFile(c) \/ DeleteFile(c)
    \/ \E n \in Names : Swap(n)

TreeNext ==
    \/ \E b \in Branches : CreateBranch(b) \/ DeleteBranch(b)
    \/ \E c \in Calls :
          \/ \E a \in Agents, b \in Branches : StartCreate(c, a, b) \/ StartRemove(c, a, b)
          \/ AddWorktree(c) \/ RecordWorktree(c) \/ RemoveWorktree(c) \/ RecordRemoval(c)
    \/ CrashFiles

Next == FileNext \/ TreeNext

Spec == Init /\ [][Next]_fileVars
-----------------------------------------------------------------------------
(* Properties.                                                             *)

\* Whatever is swapped in at the end of a path after it was checked, file.*
\* changes nothing outside of the root, in .git or in a secret.
FileCallsStayInside == touched \subseteq {"in"}

\* While agents wait for their calls, an active row names a worktree that is
\* there, or that is being removed for its agent.
WorktreesAreReal ==
    \A a \in Agents :
        ~unsure /\ worktrees[a] # None /\ worktrees[a].status = "active" =>
            worktrees[a].branch \in disk \/ Busy(a)
=============================================================================
