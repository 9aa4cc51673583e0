---------------------------- MODULE ProjectRoots -----------------------------
(***************************************************************************)
(* Registered project roots (filegit.ts): the map in memory, keyed by the  *)
(* inode of the directory, the rows of project_roots, and the directories  *)
(* themselves, which anybody may move, replace or reconfigure.             *)
(***************************************************************************)
EXTENDS Naturals, FiniteSets

CONSTANTS
    Agents,      \* agents with a client-owned key
    Paths,       \* real paths of directories
    Inodes,
    Beneath,     \* pairs <<p, q>> of paths: p lies beneath q
    MaxSecrets,  \* never-bound paths, as far as the set may grow
    MaxChanges,  \* bound: changes of the file system
    None

VARIABLES
    live,     \* agents with a session that has not ended
    dir,      \* the inode at each path
    repo,     \* inodes of git repositories whose config names no program to run
    secrets,  \* the never-bound set of this daemon
    roots,    \* registeredRoots
    rows,     \* project_roots
    opening,  \* the path each call of project.open works on
    signer,   \* ctx.agentId of the socket the agents share
    late,     \* owners whose session ended before project.open registered their root
    changes

rootVars == <<live, dir, repo, secrets, roots, rows, opening, signer, late, changes>>

Root  == [real : Paths, agent : Agents, grants : SUBSET Agents]
Owner == [real : Paths, agent : Agents]

TypeOK ==
    /\ live \subseteq Agents /\ late \subseteq Agents /\ signer \in Agents
    /\ dir \in [Paths -> Inodes \cup {None}]
    /\ repo \subseteq Inodes /\ secrets \subseteq MaxSecrets
    /\ roots \in [Inodes -> Root \cup {None}]
    /\ rows \in [Inodes -> Owner \cup {None}]
    /\ opening \in [Agents -> Paths \cup {None}]
    /\ changes \in 0..MaxChanges

Init ==
    /\ live = Agents /\ late = {} /\ signer \in Agents
    /\ dir \in [Paths -> Inodes \cup {None}]
    /\ \A p, q \in Paths : dir[p] = dir[q] /\ p # q => dir[p] = None
    /\ repo = Inodes /\ secrets \in SUBSET MaxSecrets
    /\ roots = [i \in Inodes |-> None] /\ rows = [i \in Inodes |-> None]
    /\ opening = [a \in Agents |-> None]
    /\ changes = 0

Within(p, q)   == p = q \/ <<p, q>> \in Beneath
Overlap(p, q)  == Within(p, q) \/ Within(q, p)
Avoids(p, set) == \A s \in set : ~Overlap(p, s)
Registered     == {i \in Inodes : roots[i] # None}

-----------------------------------------------------------------------------
(* project.open.                                                           *)

\* The request is verified, which makes its signer the agent of the socket;
\* the path is a repository away from every secret.
CheckRoot(a, p) ==
    /\ opening[a] = None /\ a \in live
    /\ dir[p] # None /\ Avoids(p, secrets)
    /\ opening' = [opening EXCEPT ![a] = p]
    /\ signer' = a
    /\ UNCHANGED <<live, dir, repo, secrets, roots, rows, late, changes>>

ConflictsByPath(p, a) == \E i \in Registered : roots[i].agent # a /\ roots[i].real = p
Conflicts(p, a) == \E i \in Registered : roots[i].agent # a /\ Overlap(roots[i].real, p)

\* After the origin of the key and the config were read: the overlap check, the
\* entry and the row belong to whoever is the agent of the socket by now.
Register(a) ==
    LET p == opening[a]
        i == dir[p]
    IN /\ p # None
       /\ opening' = [opening EXCEPT ![a] = None]
       /\ IF i \in repo /\ ~Conflicts(p, signer)
          THEN /\ roots' = [roots EXCEPT ![i] = [real |-> p, agent |-> signer, grants |-> {}]]
               /\ rows' = [rows EXCEPT ![i] = [real |-> p, agent |-> signer]]
               /\ late' = IF signer \in live THEN late ELSE late \cup {signer}
          ELSE UNCHANGED <<roots, rows, late>>
       /\ UNCHANGED <<live, dir, repo, secrets, signer, changes>>

-----------------------------------------------------------------------------
(* project.grant, project.revoke and access by any file.* or git.* call.   *)

\* An entry counts for the path it was opened by, not for an inode alone.
EntryAt(p) == dir[p] \in Registered /\ roots[dir[p]].real = p
Owns(a, p) == EntryAt(p) /\ roots[dir[p]].agent = a
MayUse(a, p) == Owns(a, p) \/ (EntryAt(p) /\ a \in roots[dir[p]].grants)

Grant(a, p, b) ==
    /\ Owns(a, p)
    /\ roots' = [roots EXCEPT ![dir[p]].grants = @ \cup {b}]
    /\ UNCHANGED <<live, dir, repo, secrets, rows, opening, signer, late, changes>>

Revoke(a, p, b) ==
    /\ Owns(a, p)
    /\ roots' = [roots EXCEPT ![dir[p]].grants = @ \ {b}]
    /\ UNCHANGED <<live, dir, repo, secrets, rows, opening, signer, late, changes>>

-----------------------------------------------------------------------------
(* Sessions and restarts.                                                  *)

\* The hook of session.end and harness.prune.
EvictRoots(a) ==
    /\ roots' = [i \in Inodes |->
                   IF i \notin Registered \/ roots[i].agent = a THEN None
                   ELSE [roots[i] EXCEPT !.grants = @ \ {a}]]
    /\ rows' = [i \in Inodes |-> IF rows[i] # None /\ rows[i].agent = a THEN None ELSE rows[i]]
    /\ late' = late \ {a}

EndSession(a) ==
    /\ a \in live
    /\ live' = live \ {a}
    /\ EvictRoots(a)
    /\ UNCHANGED <<dir, repo, secrets, opening, signer, changes>>

BeginSession(a) ==
    /\ a \notin live
    /\ live' = live \cup {a}
    /\ late' = late \ {a}
    /\ UNCHANGED <<dir, repo, secrets, roots, rows, opening, signer, changes>>

\* restoreProjectRoots: rows of ended sessions go, and so do rows that no
\* longer name a repository or now overlap a secret.  Grants were in memory only.
Restorable(row, set) == row.agent \in live /\ dir[row.real] # None /\ Avoids(row.real, set)
RestartRoots ==
    /\ secrets' \in {s \in SUBSET MaxSecrets : secrets \subseteq s}
    /\ rows' = [i \in Inodes |-> IF rows[i] # None /\ Restorable(rows[i], secrets') THEN rows[i] ELSE None]
    /\ roots' = [i \in Inodes |-> IF rows'[i] = None THEN None
                                  ELSE [real |-> rows[i].real, agent |-> rows[i].agent, grants |-> {}]]
    /\ opening' = [a \in Agents |-> None]
    /\ late' = {}
    /\ UNCHANGED <<live, dir, repo, signer, changes>>

-----------------------------------------------------------------------------
(* The file system.                                                        *)

Move(p, q) ==
    /\ dir[p] # None /\ dir[q] = None /\ ~Overlap(p, q)
    /\ \A r \in Paths : <<r, p>> \in Beneath => dir[r] = None
    /\ dir' = [dir EXCEPT ![q] = dir[p], ![p] = None]
    /\ UNCHANGED repo

\* The kernel may give a new directory the inode of a deleted one.
Make(p, i) ==
    /\ dir[p] = None /\ \A q \in Paths : dir[q] # i
    /\ dir' = [dir EXCEPT ![p] = i]
    /\ repo' = repo \cup {i}

Delete(p) ==
    /\ dir[p] # None
    /\ dir' = [dir EXCEPT ![p] = None]
    /\ UNCHANGED repo

Reconfigure(i) == repo' = repo \ {i} /\ i \in repo /\ UNCHANGED dir

FileSystem ==
    /\ changes < MaxChanges /\ changes' = changes + 1
    /\ \/ \E p, q \in Paths : Move(p, q)
       \/ \E p \in Paths, i \in Inodes : Make(p, i)
       \/ \E p \in Paths : Delete(p)
       \/ \E i \in Inodes : Reconfigure(i)
    /\ UNCHANGED <<live, secrets, roots, rows, opening, signer, late>>

OwnNext ==
    \/ FileSystem
    \/ \E a \in Agents : Register(a) \/ \E p \in Paths : CheckRoot(a, p)
    \/ \E a, b \in Agents, p \in Paths : Grant(a, p, b) \/ Revoke(a, p, b)

Next ==
    \/ OwnNext \/ RestartRoots
    \/ \E a \in Agents : EndSession(a) \/ BeginSession(a)

Spec == Init /\ [][Next]_rootVars
-----------------------------------------------------------------------------
(* Properties.                                                             *)

\* However calls of project.open overlap, roots of two agents never contain
\* one another, and no root overlaps a secret of this daemon.
RootsAreApart ==
    \A i \in Registered :
        /\ Avoids(roots[i].real, secrets)
        /\ \A j \in Registered : roots[i].agent # roots[j].agent
                                 => ~Overlap(roots[i].real, roots[j].real)

\* A root belongs to a session that has not ended, unless project.open was
\* under way when it did; and what a restart would restore is what is served.
RootsAreOwned ==
    /\ \A i \in Registered : roots[i].agent \in live \cup late
    /\ \A i \in Inodes : IF roots[i] = None THEN rows[i] = None
                         ELSE rows[i] = [real |-> roots[i].real, agent |-> roots[i].agent]

\* A directory that was moved or made anew under an old inode is nobody's
\* until it is opened: only the path that was opened gives access.
AccessIsByOpenedPath ==
    \A a \in Agents, p \in Paths : MayUse(a, p) => \E i \in Inodes : rows[i] # None /\ rows[i].real = p
=============================================================================
