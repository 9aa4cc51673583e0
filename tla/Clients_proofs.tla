--------------------------- MODULE Clients_proofs ---------------------------
(***************************************************************************)
(* That ClientsAreExact and ConsoleIsTruthful hold, for any calls,         *)
(* children, terminals, hosts, price lists, sandboxes, inspections and     *)
(* loops: one inductive invariant of each component, and that only the one *)
(* in focus moves.                                                         *)
(***************************************************************************)
EXTENDS Clients, FiniteSetTheorems, SequenceTheorems, TLAPS
-----------------------------------------------------------------------------
(* Files that must be root's (readRootOwnedFile).                          *)

\* Another user wrote the file, or may write a directory that was found trusted, only if there
\* is a directory still to be looked at that is not.
Suspicious ==
    author = "user" \/ \E j \in reader.at + 1 .. AnchorDepth : Sandbox!MayWrite(chain[j])

AnchorInv ==
    /\ reader \in [at : 0 .. AnchorDepth + 1, read : {Null, "root"}]
    /\ author \in {"root", "user"} /\ chain \in [1 .. AnchorDepth -> Sandbox!Entry]
    /\ reader.at <= AnchorDepth /\ Suspicious => \E d \in 1 .. reader.at : Sandbox!MayWrite(chain[d])

LEMMA AnchorStarts == Sandbox!AnchorInit => AnchorInv
  BY ConfinementAssumption DEF Sandbox!AnchorInit, AnchorInv, Suspicious

LEMMA AnchorStep == AnchorInv /\ Sandbox!AnchorNext => AnchorInv'
  <1> SUFFICES ASSUME AnchorInv, Sandbox!AnchorNext PROVE AnchorInv'
    OBVIOUS
  <1>1. /\ reader.at \in 0 .. AnchorDepth + 1 /\ reader.read \in {Null, "root"} /\ AnchorDepth \in Nat
        /\ reader = [at |-> reader.at, read |-> reader.read] /\ chain \in [1 .. AnchorDepth -> Sandbox!Entry]
    BY ConfinementAssumption DEF AnchorInv
  <1>2. CASE Sandbox!CheckDirectory
    <2>1. reader.at \in 1 .. AnchorDepth /\ UNCHANGED <<chain, author>>
      BY <1>2 DEF Sandbox!CheckDirectory
    <2>2. CASE Sandbox!Trusted(chain[reader.at])
      <3>1. reader' = [at |-> reader.at - 1, read |-> reader.read]
        BY <1>1, <1>2, <2>2 DEF Sandbox!CheckDirectory
      <3>2. ~Sandbox!MayWrite(chain[reader.at])
        BY <2>2 DEF Sandbox!Trusted, Sandbox!MayWrite
      <3>3. ASSUME Suspicious' PROVE \E d \in 1 .. reader.at - 1 : Sandbox!MayWrite(chain[d])
        <4>1. Suspicious
          BY <1>1, <2>1, <3>1, <3>2, <3>3 DEF Suspicious
        <4>2. PICK d \in 1 .. reader.at : Sandbox!MayWrite(chain[d])
          BY <1>1, <2>1, <4>1 DEF AnchorInv
        <4>3. d # reader.at
          BY <3>2, <4>2
        <4> QED BY <2>1, <4>2, <4>3
      <3>4. reader'.at = reader.at - 1 /\ reader' \in [at : 0 .. AnchorDepth + 1, read : {Null, "root"}]
        BY <1>1, <2>1, <3>1
      <3> QED BY <2>1, <3>3, <3>4 DEF AnchorInv
    <2>3. CASE ~Sandbox!Trusted(chain[reader.at])
      <3>1. reader' = [at |-> AnchorDepth + 1, read |-> reader.read]
        BY <1>1, <1>2, <2>3 DEF Sandbox!CheckDirectory
      <3> QED BY <1>1, <2>1, <3>1 DEF AnchorInv
    <2> QED BY <2>2, <2>3
  <1>3. CASE Sandbox!ReadFile
    <2>1. author = "root"
      BY <1>1, <1>3 DEF Sandbox!ReadFile, AnchorInv, Suspicious
    <2> QED BY <1>1, <1>3, <2>1 DEF Sandbox!ReadFile, AnchorInv
  <1>4. ASSUME NEW d \in 1 .. AnchorDepth, Sandbox!Replace(d) PROVE AnchorInv'
    <2>1. /\ Sandbox!MayWrite(chain[d]) /\ author' = "user" /\ UNCHANGED reader
          /\ chain' \in [1 .. AnchorDepth -> Sandbox!Entry] /\ \A i \in 1 .. d : chain'[i] = chain[i]
      BY <1>4 DEF Sandbox!Replace
    <2>2. ASSUME reader.at <= AnchorDepth PROVE \E e \in 1 .. reader.at : Sandbox!MayWrite(chain'[e])
      <3>1. CASE d <= reader.at
        <4>1. chain'[d] = chain[d]
          BY <2>1
        <4> QED BY <1>1, <2>1, <3>1, <4>1
      <3>2. CASE d > reader.at
        <4>1. Suspicious
          BY <1>1, <2>1, <3>2 DEF Suspicious
        <4>2. PICK e \in 1 .. reader.at : Sandbox!MayWrite(chain[e])
          BY <2>2, <4>1 DEF AnchorInv
        <4>3. chain'[e] = chain[e]
          BY <1>1, <2>1, <3>2
        <4> QED BY <4>2, <4>3
      <3> QED BY <1>1, <3>1, <3>2
    <2> QED BY <2>1, <2>2 DEF AnchorInv
  <1> QED BY <1>2, <1>3, <1>4 DEF Sandbox!AnchorNext

LEMMA AnchorRests == AnchorInv /\ UNCHANGED anchorVars => AnchorInv'
  BY DEF anchorVars, AnchorInv, Suspicious

LEMMA AnchorHolds == AnchorInv => Sandbox!RootsFileIsRead
  BY ConfinementAssumption DEF AnchorInv, Sandbox!RootsFileIsRead

-----------------------------------------------------------------------------
(* The sweep of agents' keys (runAgentKeyGc).                              *)

\* The fields of a sweep.
SweepShape ==
    sweep = [at |-> sweep.at, fromSession |-> sweep.fromSession, fromRows |-> sweep.fromRows,
             dead |-> sweep.dead, live |-> sweep.live, steady |-> sweep.steady]

PidsRecorded == pidOf \in [KeyHolders -> [session : HostPids \cup {Null}, rows : SUBSET HostPids]]

\* What stays steady is alive and on record, and what has been read of it has it.
SweepInv ==
    /\ SweepShape /\ PidsRecorded
    /\ sweep.at \in {"idle", "rows", "classify"} /\ sweep.live \cap sweep.dead = {}
    /\ \A r \in sweep.steady :
          /\ r[1] \in KeyHolders /\ r[2] \in alive
          /\ r[2] = pidOf[r[1]].session \/ r[2] \in pidOf[r[1]].rows
          /\ sweep.at = "idle" => r[1] \notin sweep.dead
          /\ sweep.at = "rows" => r[2] \in sweep.fromSession[r[1]] \/ r[2] \in pidOf[r[1]].rows
          /\ sweep.at = "classify" => r[2] \in Sandbox!Pooled(r[1])

LEMMA SweepStarts == Sandbox!SweepInit => SweepInv
  BY DEF Sandbox!SweepInit, Sandbox!NoSweep, SweepInv, SweepShape, PidsRecorded

LEMMA SweepStep == SweepInv /\ Sandbox!SweepNext => SweepInv'
  <1> SUFFICES ASSUME SweepInv, Sandbox!SweepNext PROVE SweepInv'
    OBVIOUS
  <1>1. CASE Sandbox!ReadSessions
    <2>1. /\ sweep'.at = "rows" /\ sweep'.dead = {} /\ sweep'.live = {}
          /\ sweep'.fromSession = [a \in KeyHolders |-> {pidOf[a].session} \ {Null}]
          /\ sweep'.steady = {r \in Sandbox!Recorded : r[2] \in alive}
          /\ UNCHANGED <<pidOf, alive>> /\ SweepShape'
      BY <1>1 DEF SweepShape, Sandbox!ReadSessions, Sandbox!NoSweep
    <2>2. ASSUME NEW r \in sweep'.steady
          PROVE  /\ r[1] \in KeyHolders /\ r[2] \in alive /\ r[2] \in HostPids
                 /\ r[2] = pidOf[r[1]].session \/ r[2] \in pidOf[r[1]].rows
      BY <2>1, <2>2 DEF Sandbox!Recorded
    <2>3. ASSUME NEW r \in sweep'.steady
          PROVE  r[2] \in sweep'.fromSession[r[1]] \/ r[2] \in pidOf[r[1]].rows
      <3>1. sweep'.fromSession[r[1]] = {pidOf[r[1]].session} \ {Null}
        BY <2>1, <2>2, <2>3
      <3> QED BY <3>1, <2>2, <2>3, ConfinementAssumption
    <2> QED BY <2>1, <2>2, <2>3 DEF SweepInv, PidsRecorded
  <1>2. CASE Sandbox!ReadRows
    <2>1. /\ sweep.at = "rows" /\ sweep'.at = "classify" /\ sweep'.dead = sweep.dead /\ sweep'.live = sweep.live
          /\ sweep'.fromSession = sweep.fromSession /\ sweep'.steady = sweep.steady
          /\ sweep'.fromRows = [a \in KeyHolders |-> pidOf[a].rows] /\ UNCHANGED <<pidOf, alive>>
          /\ SweepShape'
      BY <1>2 DEF Sandbox!ReadRows, SweepInv, SweepShape
    <2>2. \A a \in KeyHolders : Sandbox!Pooled(a)' = sweep.fromSession[a] \cup pidOf[a].rows
      BY <2>1 DEF Sandbox!Pooled
    <2> QED BY <2>1, <2>2 DEF SweepInv, PidsRecorded
  <1>3. CASE Sandbox!Classify
    <2>1. /\ sweep.at = "classify" /\ sweep'.at = "idle" /\ sweep'.steady = sweep.steady /\ UNCHANGED <<pidOf, alive>>
          /\ sweep'.live = {a \in KeyHolders : \E p \in Sandbox!Pooled(a) : Sandbox!IsAlive(p)}
          /\ sweep'.dead = {a \in KeyHolders : Sandbox!Pooled(a) # {} /\ \A p \in Sandbox!Pooled(a) : ~Sandbox!IsAlive(p)}
          /\ SweepShape'
      BY <1>3 DEF Sandbox!Classify, SweepInv, SweepShape
    <2>2. sweep'.live \cap sweep'.dead = {}
      BY <2>1
    <2>3. ASSUME NEW r \in sweep.steady PROVE r[1] \notin sweep'.dead
      BY <2>1, <2>3 DEF SweepInv, Sandbox!IsAlive
    <2> QED BY <2>1, <2>2, <2>3 DEF SweepInv, PidsRecorded
  <1>4. ASSUME sweep' = Sandbox!StaysSteady(sweep),
               \A a \in KeyHolders : \A p \in pidOf[a].rows : p \in alive => p \in pidOf'[a].rows,
               PidsRecorded'
        PROVE  SweepInv'
    <2>1. /\ sweep'.at = sweep.at /\ sweep'.dead = sweep.dead /\ sweep'.live = sweep.live
          /\ sweep'.fromSession = sweep.fromSession /\ sweep'.fromRows = sweep.fromRows
          /\ sweep'.steady = {r \in sweep.steady : r[2] \in alive' /\ r \in Sandbox!Recorded'}
          /\ SweepShape'
      BY <1>4 DEF Sandbox!StaysSteady, SweepInv, SweepShape
    <2>2. ASSUME NEW r \in sweep'.steady
          PROVE  /\ r \in sweep.steady /\ r[2] \in alive' /\ r[2] \in alive
                 /\ r[2] = pidOf'[r[1]].session \/ r[2] \in pidOf'[r[1]].rows
      BY <2>1, <2>2 DEF Sandbox!Recorded, SweepInv
    <2>3. ASSUME NEW r \in sweep'.steady, sweep.at = "rows"
          PROVE  r[2] \in sweep'.fromSession[r[1]] \/ r[2] \in pidOf'[r[1]].rows
      BY <2>1, <2>2, <2>3, <1>4 DEF SweepInv
    <2>4. \A a \in KeyHolders : Sandbox!Pooled(a)' = Sandbox!Pooled(a)
      BY <2>1 DEF Sandbox!Pooled
    <2>5. ASSUME NEW r \in sweep'.steady
          PROVE  /\ r[1] \in KeyHolders
                 /\ sweep'.at = "idle" => r[1] \notin sweep'.dead
                 /\ sweep'.at = "classify" => r[2] \in Sandbox!Pooled(r[1])'
      BY <2>1, <2>2, <2>4, <2>5 DEF SweepInv
    <2>6. sweep'.at \in {"idle", "rows", "classify"} /\ sweep'.live \cap sweep'.dead = {}
      BY <2>1 DEF SweepInv
    <2> QED BY <1>4, <2>1, <2>2, <2>3, <2>5, <2>6 DEF SweepInv
  <1>5. ASSUME NEW p \in HostPids, Sandbox!ExitPid(p) PROVE SweepInv'
    BY <1>4, <1>5 DEF Sandbox!ExitPid, SweepInv, PidsRecorded
  <1>6. ASSUME NEW p \in HostPids, NEW a \in KeyHolders, Sandbox!RecordPid(a, p) PROVE SweepInv'
    <2>1. ASSUME NEW b \in KeyHolders, NEW q \in pidOf[b].rows, q \in alive
          PROVE  q \in pidOf'[b].rows
      BY <1>6, <2>1 DEF Sandbox!RecordPid, SweepInv, PidsRecorded
    <2>2. PidsRecorded'
      BY <1>6 DEF Sandbox!RecordPid, SweepInv, PidsRecorded
    <2> QED BY <1>4, <1>6, <2>1, <2>2 DEF Sandbox!RecordPid
  <1> QED BY <1>1, <1>2, <1>3, <1>5, <1>6 DEF Sandbox!SweepNext

LEMMA SweepRests == SweepInv /\ UNCHANGED sweepVars => SweepInv'
  BY DEF sweepVars, SweepInv, SweepShape, PidsRecorded, Sandbox!Pooled

LEMMA SweepHolds == SweepInv => Sandbox!DeadAreDead
  BY DEF SweepInv, Sandbox!DeadAreDead
-----------------------------------------------------------------------------
(* The sandbox of a spawned agent (confinement.ts).                         *)

\* A path lies within another if it begins with its names.
LEMMA WithinMeans ==
    ASSUME NEW N, NEW s \in Seq(N), NEW t \in Seq(N)
    PROVE  Sandbox!Within(s, t) <=> Len(s) <= Len(t) /\ \A i \in 1 .. Len(s) : s[i] = t[i]
  <1>1. CASE Len(s) <= Len(t)
    <2> DEFINE u == SubSeq(t, 1, Len(s))
    <2>1. SubSeq(s, 1, Len(s)) = s /\ Len(s) \in Nat
      OBVIOUS
    <2>2. u \in Seq(N) /\ Len(u) = Len(s) /\ \A i \in 1 .. Len(s) : u[i] = t[i]
      BY <1>1
    <2> HIDE DEF u
    <2>3. s = u <=> \A i \in 1 .. Len(s) : s[i] = t[i]
      <3>1. ASSUME \A i \in 1 .. Len(s) : s[i] = t[i] PROVE s = u
        BY <2>1, <2>2, <3>1, SeqEqual
      <3> QED BY <2>2, <3>1
    <2> QED BY <1>1, <2>1, <2>3 DEF Sandbox!Within, Sandbox!IsPrefix, u
  <1>2. CASE ~(Len(s) <= Len(t))
    BY <1>2 DEF Sandbox!Within, Sandbox!IsPrefix
  <1> QED BY <1>1, <1>2

PathNames == UNION {{p[i] : i \in DOMAIN p} : p \in SandboxPaths}

\* Of two directories that hold the same path one lies within the other.
LEMMA Comparable ==
    ASSUME NEW a \in SandboxPaths, NEW b \in SandboxPaths, NEW p \in SandboxPaths, Sandbox!Within(a, p), Sandbox!Within(b, p)
    PROVE  Sandbox!Within(a, b) \/ Sandbox!Within(b, a)
  <1>1. a \in Seq(PathNames) /\ b \in Seq(PathNames) /\ p \in Seq(PathNames)
    BY ConfinementAssumption DEF PathNames
  <1> HIDE DEF PathNames
  <1>2. /\ Len(a) <= Len(p) /\ \A i \in 1 .. Len(a) : a[i] = p[i]
        /\ Len(b) <= Len(p) /\ \A i \in 1 .. Len(b) : b[i] = p[i]
    BY <1>1, WithinMeans
  <1>3. CASE Len(a) <= Len(b)
    <2>1. \A i \in 1 .. Len(a) : a[i] = b[i]
      BY <1>1, <1>2, <1>3
    <2> QED BY <1>1, <1>3, <2>1, WithinMeans
  <1>4. CASE Len(b) <= Len(a)
    <2>1. \A i \in 1 .. Len(b) : b[i] = a[i]
      BY <1>1, <1>2, <1>4
    <2> QED BY <1>1, <1>4, <2>1, WithinMeans
  <1> QED BY <1>1, <1>3, <1>4

LEMMA WithinItself == ASSUME NEW p \in SandboxPaths PROVE Sandbox!Within(p, p)
  <1>1. p \in Seq(PathNames)
    BY ConfinementAssumption DEF PathNames
  <1> HIDE DEF PathNames
  <1> QED BY <1>1, WithinMeans

LEMMA LastOne ==
    ASSUME NEW n \in Nat, NEW T, T \subseteq 1 .. n, T # {}
    PROVE  \E i \in T : \A j \in T : j <= i
  <1> DEFINE U == {n - i : i \in T}
             L == OpToRel(<, Nat)
  <1>0. \A i \in T : i \in 1 .. n /\ n - i \in Nat
    <2>1. ASSUME NEW i \in T PROVE i \in 1 .. n /\ n - i \in Nat
      <3>1. i \in 1 .. n
        OBVIOUS
      <3> QED BY <3>1
    <2> QED BY <2>1
  <1>1. U \subseteq Nat /\ U # {}
    BY <1>0
  <1>2. IsWellFoundedOn(L, Nat)
    BY NatLessThanWellFounded
  <1>5. \A x, y \in Nat : y < x => <<y, x>> \in L
    BY DEF OpToRel
  <1> HIDE DEF L
  <1>3. PICK x \in U : \A y \in U : ~(<<y, x>> \in L)
    <2> HIDE DEF U
    <2> QED BY <1>1, <1>2, WFMin, Zenon
  <1>4. PICK i \in T : x = n - i
    BY <1>3
  <1>6. ASSUME NEW j \in T PROVE j <= i
    <2>1. n - j \in U /\ n - j \in Nat /\ x \in Nat
      BY <1>1, <1>3
    <2>2. ~(n - j < x)
      BY <1>3, <1>5, <2>1
    <2> QED BY <1>4, <2>2
  <1> QED BY <1>6
-----------------------------------------------------------------------------
\* Arguments for a set of directories: each is one of them.
LEMMA CountsTheSame == \A S : Sandbox!Cardinality(S) = Cardinality(S)
  BY DEF Cardinality, Sandbox!Cardinality

LEMMA BindsAre ==
    ASSUME NEW caches \in SUBSET Caches
    PROVE  /\ Sandbox!Binds(caches) \in Seq(MountOps)
           /\ \A i \in DOMAIN Sandbox!Binds(caches) : \E q \in caches : Sandbox!Binds(caches)[i] = Sandbox!Op("bind", q)
  <1> DEFINE S == {Sandbox!Op("bind", q) : q \in caches}
  <1>1. IsFiniteSet(caches) /\ IsFiniteSet(S)
    <2>1. IsFiniteSet(caches)
      BY ConfinementAssumption, FS_Subset
    <2> DEFINE f == [q \in caches |-> Sandbox!Op("bind", q)]
    <2>2. f \in Surjection(caches, S)
      BY DEF Surjection
    <2> HIDE DEF f, S
    <2> QED BY <2>1, <2>2, FS_Surjection
  <1>2. S \subseteq MountOps
    BY DEF Sandbox!Op, MountOps, SandboxPaths
  <1>3. Sandbox!Binds(caches) = Sandbox!SetToSeq(S)
    BY DEF Sandbox!Binds
  <1>4. \A s \in S : \E q \in caches : s = Sandbox!Op("bind", q)
    OBVIOUS
  <1> HIDE DEF S
  <1>5. PICK n \in Nat : ExistsBijection(1 .. n, S)
    BY <1>1, FS_NatBijection
  <1>6. Sandbox!Cardinality(S) = n
    BY <1>5, FS_CountingElements, CountsTheSame
  <1>7. \E f \in [1 .. n -> S] : Sandbox!IsInjective(f)
    BY <1>5 DEF ExistsBijection, Bijection, Injection, IsInjective, Sandbox!IsInjective
  <1>8. Sandbox!SetToSeq(S) \in [1 .. n -> S]
    BY <1>6, <1>7 DEF Sandbox!SetToSeq
  <1>9. Sandbox!Binds(caches) \in Seq(MountOps) /\ DOMAIN Sandbox!Binds(caches) = 1 .. n
    BY <1>2, <1>3, <1>8
  <1> QED BY <1>3, <1>4, <1>8, <1>9

LEMMA MountsAre ==
    ASSUME NEW top \in Directories, NEW caches \in SUBSET Caches, NEW m, m = Sandbox!Mounts(top, caches)
    PROVE  /\ m \in Seq(MountOps) /\ Len(m) >= 5 /\ DOMAIN m = 1 .. Len(m)
           /\ m[1] = Sandbox!Op("bind", Usr) /\ m[2].kind = "tmpfs" /\ m[3] = Sandbox!Op("tmpfs", Home)
           /\ m[4] = Sandbox!Op("bind", top) /\ m[5] = Sandbox!Op("bind", AgentHome)
           /\ \A i \in 6 .. Len(m) : \E q \in caches : m[i] = Sandbox!Op("bind", q)
  <1> DEFINE five == <<Sandbox!Op("bind", Usr), Sandbox!Op("tmpfs", Tmp), Sandbox!Op("tmpfs", Home), Sandbox!Op("bind", top), Sandbox!Op("bind", AgentHome)>>
             rest == Sandbox!Binds(caches)
  <1>1. five \in Seq(MountOps) /\ Len(five) = 5
    BY DEF Sandbox!Op, MountOps, SandboxPaths
  <1>2. rest \in Seq(MountOps) /\ \A i \in DOMAIN rest : \E q \in caches : rest[i] = Sandbox!Op("bind", q)
    BY BindsAre
  <1>3. m = five \o rest
    BY DEF Sandbox!Mounts
  <1>4. /\ five[1] = Sandbox!Op("bind", Usr) /\ five[2].kind = "tmpfs" /\ five[3] = Sandbox!Op("tmpfs", Home)
        /\ five[4] = Sandbox!Op("bind", top) /\ five[5] = Sandbox!Op("bind", AgentHome)
    BY DEF Sandbox!Op
  <1> HIDE DEF five, rest
  <1>5. /\ five \o rest \in Seq(MountOps) /\ Len(five \o rest) = Len(five) + Len(rest)
        /\ \A i \in 1 .. Len(five) + Len(rest) : (five \o rest)[i] = IF i <= Len(five) THEN five[i] ELSE rest[i - Len(five)]
    BY <1>1, <1>2, ConcatProperties
  <1>l. Len(rest) \in Nat /\ DOMAIN rest = 1 .. Len(rest)
    BY <1>2
  <1>c. /\ m \in Seq(MountOps) /\ Len(m) = 5 + Len(rest) /\ DOMAIN m = 1 .. Len(m) /\ Len(m) >= 5
        /\ \A i \in 1 .. Len(m) : m[i] = IF i <= 5 THEN five[i] ELSE rest[i - 5]
    BY <1>1, <1>3, <1>5, <1>l
  <1>d. m[1] = five[1] /\ m[2] = five[2] /\ m[3] = five[3] /\ m[4] = five[4] /\ m[5] = five[5]
    BY <1>c, <1>l
  <1>6. ASSUME NEW i \in 6 .. Len(m) PROVE m[i] = rest[i - 5] /\ i - 5 \in DOMAIN rest
    BY <1>c, <1>l
  <1>7. \A i \in 6 .. Len(m) : \E q \in caches : m[i] = Sandbox!Op("bind", q)
    BY <1>2, <1>6
  <1> QED BY <1>4, <1>c, <1>d, <1>7
-----------------------------------------------------------------------------
\* What is mounted last over a path is what shows there.
LEMMA LastOver ==
    ASSUME NEW m \in Seq(MountOps), NEW p, \E i \in DOMAIN m : Sandbox!Within(m[i].at, p)
    PROVE  \E i \in DOMAIN m : /\ Sandbox!Within(m[i].at, p)
                               /\ \A j \in DOMAIN m : Sandbox!Within(m[j].at, p) => j <= i
                               /\ Sandbox!Shows(m, p) = (IF m[i].kind = "bind" THEN p ELSE Null)
  <1> DEFINE over == {i \in DOMAIN m : Sandbox!Within(m[i].at, p)}
             last == CHOOSE i \in over : \A j \in over : j <= i
  <1>1. over # {} /\ over \subseteq 1 .. Len(m) /\ Len(m) \in Nat
    OBVIOUS
  <1>2. Sandbox!Shows(m, p) = IF m[last].kind = "bind" THEN p ELSE Null
    BY <1>1 DEF Sandbox!Shows
  <1>3. last \in over /\ \A j \in over : j <= last
    <2> HIDE DEF over
    <2>1. \E i \in over : \A j \in over : j <= i
      BY <1>1, LastOne
    <2> QED BY <2>1
  <1> HIDE DEF last
  <1> QED BY <1>2, <1>3

LEMMA Shown ==
    ASSUME NEW m \in Seq(MountOps), NEW p, NEW i \in DOMAIN m, Sandbox!Within(m[i].at, p),
           \A j \in DOMAIN m : j >= i => m[j].kind = "bind"
    PROVE  Sandbox!Shows(m, p) = p
  <1>1. PICK l \in DOMAIN m : /\ \A j \in DOMAIN m : Sandbox!Within(m[j].at, p) => j <= l
                              /\ Sandbox!Shows(m, p) = (IF m[l].kind = "bind" THEN p ELSE Null)
    BY LastOver
  <1>2. l >= i
    BY <1>1
  <1> QED BY <1>1, <1>2
-----------------------------------------------------------------------------
(* Who runs where.                                                         *)

Envs == {Sandbox!ConfinedEnv(keys) : keys \in EnvKeys}
SpawnRecords == [at : {"idle", "home", "prepare", "refused", "runs"}, root : Directories \cup {Null},
                 cwd : Directories \cup {Null}, keys : EnvKeys \cup {{}}, mounts : {Null} \cup Seq(MountOps),
                 env : {Null} \cup Envs, links : {Null} \cup [Lexical -> Links]]

\* What was looked up for a spawn holds when it runs, whatever has moved since.
SpawnHolds ==
    /\ confined.at \in {"home", "prepare", "runs"} =>
          /\ confined.root \in Directories /\ confined.cwd \in Directories
          /\ Sandbox!Within(confined.root, confined.cwd) /\ confined.keys \in EnvKeys /\ Sandbox!MaySet(confined.keys)
    /\ confined.at = "runs" =>
          /\ confined.env = Sandbox!ConfinedEnv(confined.keys) /\ confined.links \in [Lexical -> Links]
          /\ \/ confined.mounts = Null /\ machine.hatch
             \/ /\ Sandbox!UsableBwrap(machine) /\ Sandbox!Bindable(confined.root, confined.links)
                /\ \E caches \in SUBSET Caches : confined.mounts = Sandbox!Mounts(confined.root, caches)

SandboxInv ==
    /\ machine \in Machines /\ conf \in {Null, Sandbox!Resolved(machine)} /\ link \in [Lexical -> Links]
    /\ confined \in SpawnRecords /\ SpawnHolds

LEMMA SandboxStart == ASSUME Sandbox!SandboxInit PROVE SandboxInv
  <1>1. /\ machine \in Machines /\ conf = Null /\ link = [s \in Lexical |-> s] /\ confined = Sandbox!Idle
    BY DEF Sandbox!SandboxInit
  <1>2. link \in [Lexical -> Links]
    BY <1>1, ConfinementAssumption
  <1>3. Sandbox!Idle \in SpawnRecords /\ Sandbox!Idle.at = "idle"
    BY DEF Sandbox!Idle, SpawnRecords
  <1> QED BY <1>1, <1>2, <1>3 DEF SandboxInv, SpawnHolds

LEMMA Resolves ==
    ASSUME NEW m \in Machines
    PROVE  /\ Sandbox!Resolved(m) \in [backend : BOOLEAN, hatch : BOOLEAN]
           /\ Sandbox!Resolved(m).backend => Sandbox!UsableBwrap(m)
           /\ Sandbox!Resolved(m).hatch <=> m.hatch
  <1> DEFINE b == ~m.hatch /\ m.platform = "linux" /\ Sandbox!UsableBwrap(m)
  <1>1. b \in BOOLEAN /\ m.hatch \in BOOLEAN
    BY ConfinementAssumption
  <1>2. Sandbox!Resolved(m) = [backend |-> b, hatch |-> m.hatch] /\ (b => Sandbox!UsableBwrap(m))
    BY DEF Sandbox!Resolved
  <1> HIDE DEF b
  <1> QED BY <1>1, <1>2

\* The spawn that starts: in a sandbox that may bind its root, or where the operator asked for none.
LEMMA SpawnStarts ==
    ASSUME SandboxInv, NEW caches \in SUBSET Caches, Sandbox!StartSpawn(caches)
    PROVE  SandboxInv'
  <1>1. confined.at = "prepare" /\ UNCHANGED <<machine, conf, link>>
    BY DEF Sandbox!StartSpawn
  <1>2. /\ machine \in Machines /\ conf \in {Null, Sandbox!Resolved(machine)} /\ link \in [Lexical -> Links] /\ confined \in SpawnRecords
        /\ confined.root \in Directories /\ confined.cwd \in Directories
        /\ Sandbox!Within(confined.root, confined.cwd) /\ confined.keys \in EnvKeys /\ Sandbox!MaySet(confined.keys)
    BY <1>1 DEF SandboxInv, SpawnHolds
  <1> DEFINE c == IF conf = Null THEN Sandbox!Resolved(machine) ELSE conf
             env == Sandbox!ConfinedEnv(confined.keys)
             mounts == Sandbox!Mounts(confined.root, caches)
             runs(m) == [confined EXCEPT !.at = "runs", !.mounts = m, !.env = env, !.links = link]
             refused == [confined EXCEPT !.at = "refused"]
  <1>3. c = Sandbox!Resolved(machine)
    BY <1>2
  <1>4. /\ c.backend => Sandbox!UsableBwrap(machine)
        /\ c.hatch <=> machine.hatch
    BY <1>2, <1>3, Resolves
  <1>5. env \in Envs
    BY <1>2 DEF Envs
  <1>6. mounts \in Seq(MountOps)
    BY <1>2, MountsAre
  <1>7. \/ confined' = runs(mounts) /\ c.backend /\ Sandbox!Bindable(confined.root, link)
        \/ confined' = runs(Null) /\ c.hatch
        \/ confined' = refused
    BY DEF Sandbox!StartSpawn
  <1> HIDE DEF c, env, mounts
  <1>8. ASSUME NEW m \in {Null} \cup Seq(MountOps), confined' = runs(m)
        PROVE  /\ confined' \in SpawnRecords /\ confined'.at = "runs" /\ confined'.root = confined.root /\ confined'.cwd = confined.cwd
               /\ confined'.keys = confined.keys /\ confined'.mounts = m /\ confined'.env = env /\ confined'.links = link
    BY <1>2, <1>5, <1>8 DEF SpawnRecords
  <1>9. CASE confined' = refused
    <2>1. confined' \in SpawnRecords /\ confined'.at = "refused"
      BY <1>2, <1>9 DEF SpawnRecords
    <2> QED BY <1>1, <1>2, <2>1 DEF SandboxInv, SpawnHolds
  <1>10. CASE confined' = runs(Null) /\ c.hatch
    <2>1. machine.hatch
      BY <1>4, <1>10
    <2> QED BY <1>1, <1>2, <1>8, <1>10, <2>1 DEF SandboxInv, SpawnHolds, env
  <1>11. CASE confined' = runs(mounts) /\ c.backend /\ Sandbox!Bindable(confined.root, link)
    <2>1. /\ confined' \in SpawnRecords /\ confined'.at = "runs" /\ confined'.root = confined.root /\ confined'.cwd = confined.cwd
          /\ confined'.keys = confined.keys /\ confined'.mounts = mounts /\ confined'.env = env /\ confined'.links = link
      BY <1>6, <1>8, <1>11
    <2>2. Sandbox!UsableBwrap(machine)
      BY <1>4, <1>11
    <2>3. machine' = machine
      BY <1>1
    <2>4. SpawnHolds'
      <3>1. /\ Sandbox!UsableBwrap(machine)' /\ Sandbox!Bindable(confined.root, confined.links)'
            /\ \E s \in SUBSET Caches : confined'.mounts = Sandbox!Mounts(confined'.root, s)
        BY <1>11, <2>1, <2>2, <2>3 DEF mounts
      <3> QED BY <1>2, <2>1, <3>1 DEF SpawnHolds, env
    <2> QED BY <1>1, <1>2, <2>1, <2>4 DEF SandboxInv
  <1> QED BY <1>7, <1>9, <1>10, <1>11

LEMMA SandboxStep == ASSUME SandboxInv, Sandbox!SandboxNext PROVE SandboxInv'
  <1>w. /\ machine \in Machines /\ conf \in {Null, Sandbox!Resolved(machine)} /\ link \in [Lexical -> Links] /\ confined \in SpawnRecords
    BY DEF SandboxInv
  <1>1. CASE Sandbox!ResolveBackend
    BY <1>1 DEF Sandbox!ResolveBackend, SandboxInv, SpawnHolds
  <1>2. CASE Sandbox!MakeHome
    <2>1. PICK at \in {"prepare", "refused"} : confined' = [confined EXCEPT !.at = at] /\ confined.at = "home" /\ UNCHANGED <<machine, conf, link>>
      BY <1>2 DEF Sandbox!MakeHome
    <2>2. /\ confined' \in SpawnRecords /\ confined'.at = at /\ confined'.root = confined.root /\ confined'.cwd = confined.cwd
          /\ confined'.keys = confined.keys
      BY <1>w, <2>1 DEF SpawnRecords
    <2> QED BY <2>1, <2>2 DEF SandboxInv, SpawnHolds
  <1>3. ASSUME NEW top \in Directories, NEW cwd \in Directories, NEW keys \in EnvKeys, Sandbox!AskSpawn(top, cwd, keys)
        PROVE  SandboxInv'
    <2> DEFINE at == IF Sandbox!MaySet(keys) THEN "home" ELSE "refused"
    <2>1. /\ confined' = [confined EXCEPT !.at = at, !.root = top, !.cwd = cwd, !.keys = keys]
          /\ Sandbox!Within(top, cwd) /\ UNCHANGED <<machine, conf, link>>
      BY <1>3 DEF Sandbox!AskSpawn
    <2>2. at \in {"home", "refused"} /\ (at = "home" => Sandbox!MaySet(keys))
      OBVIOUS
    <2> HIDE DEF at
    <2>3. /\ confined' \in SpawnRecords /\ confined'.at = at /\ confined'.root = top /\ confined'.cwd = cwd
          /\ confined'.keys = keys
      BY <1>w, <2>1, <2>2 DEF SpawnRecords
    <2> QED BY <2>1, <2>2, <2>3 DEF SandboxInv, SpawnHolds
  <1>4. ASSUME NEW s \in Lexical, NEW to \in Links, Sandbox!MoveSecret(s, to) PROVE SandboxInv'
    <2>1. link' \in [Lexical -> Links] /\ UNCHANGED <<machine, conf, confined>>
      BY <1>w, <1>4 DEF Sandbox!MoveSecret
    <2> QED BY <2>1 DEF SandboxInv, SpawnHolds
  <1> QED BY <1>1, <1>2, <1>3, <1>4, SpawnStarts DEF Sandbox!SandboxNext

LEMMA SandboxRest == ASSUME SandboxInv, UNCHANGED confinedVars PROVE SandboxInv'
  BY DEF SandboxInv, SpawnHolds, confinedVars
-----------------------------------------------------------------------------
LEMMA NothingSecretShows ==
    ASSUME NEW top \in Directories, NEW caches \in SUBSET Caches, NEW links \in [Lexical -> Links], Sandbox!Bindable(top, links),
           NEW p \in Directories, NEW m, m = Sandbox!Mounts(top, caches), Sandbox!Shows(m, p) # Null, ~Sandbox!Within(AgentHome, p),
           NEW hidden \in {DataDir} \cup ({links[s] : s \in Lexical} \ {Null})
    PROVE  ~Sandbox!Within(hidden, p)
  <1> SUFFICES ASSUME Sandbox!Within(hidden, p) PROVE FALSE
    OBVIOUS
  <1>1. /\ m \in Seq(MountOps) /\ Len(m) >= 5 /\ DOMAIN m = 1 .. Len(m) /\ Len(m) \in Nat
        /\ m[1] = Sandbox!Op("bind", Usr) /\ m[2].kind = "tmpfs" /\ m[3] = Sandbox!Op("tmpfs", Home)
        /\ m[4] = Sandbox!Op("bind", top) /\ m[5] = Sandbox!Op("bind", AgentHome)
        /\ \A i \in 6 .. Len(m) : \E q \in caches : m[i] = Sandbox!Op("bind", q)
    BY MountsAre
  <1>2. \E i \in DOMAIN m : Sandbox!Within(m[i].at, p)
    BY DEF Sandbox!Shows
  <1>3. PICK i \in DOMAIN m : Sandbox!Within(m[i].at, p) /\ m[i].kind = "bind"
    BY <1>1, <1>2, LastOver
  <1>4. \A k, q : Sandbox!Op(k, q).kind = k /\ Sandbox!Op(k, q).at = q
    BY DEF Sandbox!Op
  <1>5. i = 1 \/ i = 4 \/ i \in 6 .. Len(m)
    BY <1>1, <1>3, <1>4
  <1>6. hidden \in SandboxPaths /\ hidden \in (Links \ {Null}) \cup {DataDir} /\ hidden \in Sandbox!NeverBound(links)
    BY DEF SandboxPaths, Sandbox!NeverBound
  <1>7. m[i].at \in SandboxPaths /\ p \in SandboxPaths
    <2>1. m[i] \in MountOps
      BY <1>1, <1>3
    <2> QED BY <2>1 DEF MountOps, SandboxPaths
  <1>8. Sandbox!Within(hidden, m[i].at) \/ Sandbox!Within(m[i].at, hidden)
    BY <1>3, <1>6, <1>7, Comparable
  <1>9. CASE i = 4
    BY <1>1, <1>4, <1>6, <1>8, <1>9 DEF Sandbox!Bindable, Sandbox!Overlaps
  <1>10. CASE i = 1
    <2>1. m[i].at = Usr /\ Usr \in Caches \cup {Usr}
      BY <1>1, <1>4, <1>10
    <2> QED BY <1>6, <1>8, <2>1, ConfinementAssumption
  <1>11. CASE i \in 6 .. Len(m)
    <2>1. m[i].at \in Caches
      BY <1>1, <1>4, <1>11
    <2> QED BY <1>6, <1>8, <2>1, ConfinementAssumption
  <1> QED BY <1>5, <1>9, <1>10, <1>11

LEMMA SandboxHolds ==
    ASSUME SandboxInv
    PROVE  Sandbox!TypeOK /\ Sandbox!SecretsStayHidden /\ Sandbox!WorkIsThere /\ Sandbox!ConfinedUnlessAsked
  <1>1. Sandbox!TypeOK
    <2>1. conf \in {Null} \cup [backend : BOOLEAN, hatch : BOOLEAN]
      BY Resolves DEF SandboxInv
    <2> QED BY <2>1 DEF SandboxInv, SpawnRecords, Sandbox!TypeOK
  <1>2. ASSUME confined.at = "runs", confined.mounts # Null
        PROVE  /\ confined.root \in Directories /\ confined.cwd \in Directories /\ Sandbox!Within(confined.root, confined.cwd)
               /\ confined.links \in [Lexical -> Links] /\ Sandbox!Bindable(confined.root, confined.links) /\ Sandbox!UsableBwrap(machine)
               /\ \E caches \in SUBSET Caches : confined.mounts = Sandbox!Mounts(confined.root, caches)
    BY <1>2 DEF SandboxInv, SpawnHolds
  <1>3. Sandbox!SecretsStayHidden
    BY <1>2, NothingSecretShows DEF Sandbox!SecretsStayHidden
  <1>4. Sandbox!WorkIsThere
    <2> SUFFICES ASSUME confined.at = "runs", confined.mounts # Null
                 PROVE  /\ Sandbox!Shows(confined.mounts, confined.cwd) = confined.cwd
                        /\ Sandbox!Shows(confined.mounts, AgentHome) = AgentHome
                        /\ \A p \in Directories : Sandbox!Within(Home, p) /\ Sandbox!Shows(confined.mounts, p) # Null =>
                              \E q \in Caches \cup {confined.root, AgentHome} : Sandbox!Within(q, p)
      BY DEF Sandbox!WorkIsThere
    <2>1. PICK caches \in SUBSET Caches : confined.mounts = Sandbox!Mounts(confined.root, caches)
      BY <1>2
    <2>2. PICK m : m = confined.mounts
      OBVIOUS
    <2>3. /\ m \in Seq(MountOps) /\ Len(m) >= 5 /\ DOMAIN m = 1 .. Len(m) /\ Len(m) \in Nat
          /\ m[3] = Sandbox!Op("tmpfs", Home) /\ m[4] = Sandbox!Op("bind", confined.root) /\ m[5] = Sandbox!Op("bind", AgentHome)
          /\ \A i \in 6 .. Len(m) : \E q \in caches : m[i] = Sandbox!Op("bind", q)
      BY <1>2, <2>1, <2>2, MountsAre
    <2>4. \A k, q : Sandbox!Op(k, q).kind = k /\ Sandbox!Op(k, q).at = q
      BY DEF Sandbox!Op
    <2>5. \A j \in DOMAIN m : j >= 4 => m[j].kind = "bind"
      <3>1. ASSUME NEW j \in DOMAIN m, j >= 4 PROVE j = 4 \/ j = 5 \/ j \in 6 .. Len(m)
        BY <2>3, <3>1
      <3> QED BY <2>3, <2>4, <3>1
    <2>6. Sandbox!Shows(m, confined.cwd) = confined.cwd
      <3>1. 4 \in DOMAIN m /\ Sandbox!Within(m[4].at, confined.cwd)
        BY <1>2, <2>3, <2>4
      <3> QED BY <2>3, <2>5, <3>1, Shown
    <2>7. Sandbox!Shows(m, AgentHome) = AgentHome
      <3>1. 5 \in DOMAIN m /\ Sandbox!Within(m[5].at, AgentHome)
        BY <2>3, <2>4, WithinItself DEF SandboxPaths
      <3>2. \A j \in DOMAIN m : j >= 5 => m[j].kind = "bind"
        BY <2>3, <2>5
      <3> QED BY <2>3, <3>1, <3>2, Shown
    <2>8. ASSUME NEW p \in Directories, Sandbox!Within(Home, p), Sandbox!Shows(m, p) # Null
          PROVE  \E q \in Caches \cup {confined.root, AgentHome} : Sandbox!Within(q, p)
      <3>1. 3 \in DOMAIN m /\ Sandbox!Within(m[3].at, p)
        BY <2>3, <2>4, <2>8
      <3>2. PICK i \in DOMAIN m : /\ Sandbox!Within(m[i].at, p) /\ m[i].kind = "bind" /\ 3 <= i
        BY <2>3, <2>8, <3>1, LastOver
      <3>3. i = 4 \/ i = 5 \/ i \in 6 .. Len(m)
        BY <2>3, <2>4, <3>2
      <3> QED BY <2>3, <2>4, <3>2, <3>3
    <2> QED BY <2>2, <2>6, <2>7, <2>8
  <1>5. Sandbox!ConfinedUnlessAsked
    <2> SUFFICES ASSUME confined.at = "runs"
                 PROVE  /\ confined.mounts = Null => machine.hatch
                        /\ confined.mounts # Null => ~machine.bwrap.writable /\ (machine.bwrap.uid = "root" \/ machine.squashed)
                        /\ confined.env["HOME"] = "agent" /\ confined.env["PATH"] = "fixed" /\ DOMAIN confined.env \cap Sandbox!Denied = {}
      BY DEF Sandbox!ConfinedUnlessAsked
    <2>1. confined.mounts # Null => ~machine.bwrap.writable /\ (machine.bwrap.uid = "root" \/ machine.squashed)
      BY <1>2 DEF Sandbox!UsableBwrap, Sandbox!RootOwned
    <2>2. confined.mounts = Null => machine.hatch
      <3>1. SUFFICES ASSUME confined.mounts = Null PROVE machine.hatch
        OBVIOUS
      <3>2. \A caches \in SUBSET Caches : Sandbox!Mounts(confined.root, caches) # Null
        BY MountsAre, ConfinementAssumption DEF SandboxInv, SpawnHolds
      <3> QED BY <3>1, <3>2 DEF SandboxInv, SpawnHolds
    <2>3. confined.env = Sandbox!ConfinedEnv(confined.keys) /\ Sandbox!MaySet(confined.keys)
      BY DEF SandboxInv, SpawnHolds
    <2>4. "HOME" \notin confined.keys /\ "PATH" \notin confined.keys /\ "REVDEV_SPAWN_CONFINEMENT" \notin confined.keys
      BY <2>3 DEF Sandbox!MaySet, Sandbox!Allowed
    <2> QED BY <2>1, <2>2, <2>3, <2>4 DEF Sandbox!ConfinedEnv, Sandbox!Denied
  <1> QED BY <1>1, <1>3, <1>4, <1>5
-----------------------------------------------------------------------------
(* A query of the inspector (runInspectQuery).                             *)

MaybeTimeout == Timeouts \cup {Null}
QueryPlaces == {"idle", "connect", "begin", "timeout", "query", "commit", "caught", "over"}
WholeInspection ==
    [at : QueryPlaces, limit : RowLimits \cup {Null}, timeout : MaybeTimeout, passes : BOOLEAN, began : BOOLEAN,
     ran : {Null} \cup [readOnly : BOOLEAN, timeout : Timeouts], rows : {Null} \cup Nat, committed : BOOLEAN,
     result : {Null, "ok", "refused", "threw"}]
WholeTx == [open : BOOLEAN, aborted : BOOLEAN, readOnly : BOOLEAN, timeout : MaybeTimeout, lost : BOOLEAN]

\* What the query has done by now, and what it left of the session's transaction.
Progress ==
    LET i == inspection IN
    /\ i.at # "over" => i.result = Null /\ ~i.committed
    /\ i.at \notin {"idle", "over"} => i.limit \in 1 .. MaxRows /\ i.timeout \in Timeouts
    /\ i.at \in {"idle", "connect", "begin", "timeout", "query"} => i.ran = Null
    /\ i.at \in {"idle", "connect", "begin"} => ~i.began
    /\ i.at = "commit" => i.ran # Null /\ i.rows \in Nat
    /\ i.ran # Null => i.ran.readOnly /\ i.ran.timeout = i.timeout

Transaction ==
    /\ tx.lost => ~tx.open
    /\ inspection.at \in {"idle", "connect", "begin", "over"} => (tx.open => tx.aborted)
    /\ ~inspection.began => (tx.open => tx.aborted)
    /\ inspection.at \in {"timeout", "query"} => tx.readOnly
    /\ inspection.at = "query" => tx.timeout = inspection.timeout

\* One receipt, once the query is over.
ReceiptFits ==
    /\ inspection.at # "over" => inspected = <<>>
    /\ inspected \in Seq([outcome : {"rejected", "failed", "completed"}, count : {Null} \cup Nat]) /\ Len(inspected) <= 1
    /\ inspected # <<>> /\ inspected[1].outcome = "completed" =>
          /\ inspection.committed /\ inspection.ran # Null /\ inspection.limit \in Nat
          /\ inspected[1].count \in Nat /\ inspected[1].count <= inspection.limit
    /\ inspection.at = "over" /\ inspected = <<>> => inspection.result = "threw" /\ inspection.ran = Null
    /\ inspection.result = "ok" => inspected # <<>> /\ inspected[1].outcome = "completed"

InspectionInv == inspection \in WholeInspection /\ tx \in WholeTx /\ Progress /\ Transaction /\ ReceiptFits
-----------------------------------------------------------------------------
(* The agents that Studio runs itself.                                     *)

\* Before its entry an agent has a process at most, and one that was killed is not listed as running.
LifeOf(a) ==
    /\ launch[a] \in {"idle", "forked"} => entry[a] = Null /\ daemonSession[a] = "none" /\ waiter[a] = "over" /\ child[a] # "killed"
    /\ launch[a] = "idle" => child[a] = Null
    /\ launch[a] \in {"idle", "forked", "register"} => daemonSession[a] = "none"
    /\ child[a] = Null => launch[a] = "idle"
    /\ waiter[a] = "exited" => child[a] # "alive"
    /\ entry[a] # Null /\ child[a] = "killed" => entry[a].status # "running"
    /\ entry[a] # Null /\ entry[a].creds => launch[a] = "answered"

\* Whoever knows of an open session ends it.
Held(a) == \E c \in StudioCalls : agentCalls[c].agent = a /\ agentCalls[c].creds /\ agentCalls[c].at \in {"took", "end"}
SessionIsHeld(a) ==
    daemonSession[a] = "open" /\ launch[a] = "answered" =>
        a \in excused \/ (entry[a] # Null /\ entry[a].creds) \/ Held(a)

\* A call in progress has an agent, and credentials only of one that has them.
CallKnows(c) ==
    agentCalls[c].at \in {"took", "end"} =>
        /\ agentCalls[c].agent \in LocalIds
        /\ agentCalls[c].creds => launch[agentCalls[c].agent] = "answered"

AgentsInv ==
    /\ Local!TypeOK /\ Local!ChildrenAreListed /\ Local!EndIsHonest
    /\ \A a \in LocalIds : LifeOf(a) /\ SessionIsHeld(a)
    /\ \A c \in StudioCalls : CallKnows(c)
-----------------------------------------------------------------------------
LEMMA InspectionStarts == Inspect!QueryInit => InspectionInv
  <1> SUFFICES ASSUME Inspect!QueryInit PROVE InspectionInv
    OBVIOUS
  <1>1. /\ inspection.at = "idle" /\ inspection.result = Null /\ inspection.committed = FALSE
        /\ inspection.ran = Null /\ inspection.began = FALSE /\ inspection \in WholeInspection
    BY DEF Inspect!QueryInit, Inspect!NoInspection, WholeInspection, MaybeTimeout, QueryPlaces
  <1>2. tx.open = FALSE /\ tx \in WholeTx
    BY DEF Inspect!QueryInit, Inspect!NoTx, WholeTx, MaybeTimeout
  <1>3. inspected = <<>> /\ Len(<<>>) = 0
    BY DEF Inspect!QueryInit
  <1> QED BY <1>1, <1>2, <1>3, InspectAssumption DEF InspectionInv, Progress, Transaction, ReceiptFits

\* A receipt is written at the end of a query that had none.
LEMMA AuditFits ==
    ASSUME inspected = <<>>, NEW i \in WholeInspection, NEW o \in {"rejected", "failed", "completed"},
           NEW r \in {"refused", "ok"}, Inspect!Audit(i, o, r), o = "completed" <=> r = "ok",
           o = "completed" => i.committed /\ i.ran # Null /\ i.limit \in Nat /\ i.rows \in Nat /\ i.rows <= i.limit
    PROVE  /\ inspection' \in WholeInspection /\ inspection'.at = "over"
           /\ inspection'.ran = i.ran /\ inspection'.timeout = i.timeout /\ (inspection'.began <=> i.began)
           /\ ReceiptFits'
  <1>1. PICK x \in {r, "threw"} : inspection' = [i EXCEPT !.at = "over", !.result = x]
    BY DEF Inspect!Audit
  <1>2. /\ inspection' \in WholeInspection /\ inspection'.at = "over" /\ inspection'.result = x
        /\ inspection'.ran = i.ran /\ inspection'.timeout = i.timeout /\ (inspection'.began <=> i.began)
        /\ inspection'.limit = i.limit /\ (inspection'.committed <=> i.committed)
    BY <1>1 DEF WholeInspection, QueryPlaces
  <1> DEFINE n == IF o = "completed" THEN i.rows ELSE Null
             rec == [outcome |-> o, count |-> n]
  <1>3. rec \in [outcome : {"rejected", "failed", "completed"}, count : {Null} \cup Nat]
    OBVIOUS
  <1>4. rec.outcome = o /\ rec.count = n
    OBVIOUS
  <1>5. inspected' = Append(<<>>, rec)
    BY DEF Inspect!Audit
  <1> HIDE DEF rec
  <1>6. /\ inspected' = <<rec>> /\ inspected' # <<>> /\ inspected'[1] = rec /\ Len(inspected') = 1
        /\ inspected' \in Seq([outcome : {"rejected", "failed", "completed"}, count : {Null} \cup Nat])
    BY <1>3, <1>5
  <1>7. x = "ok" => o = "completed"
    BY <1>1
  <1> QED BY <1>2, <1>4, <1>6, <1>7 DEF ReceiptFits

LEMMA InspectionStep == InspectionInv /\ Inspect!QueryNext => InspectionInv'
  <1> SUFFICES ASSUME InspectionInv, Inspect!QueryNext PROVE InspectionInv'
    OBVIOUS
  <1> DEFINE i == inspection
  <1>0. /\ i \in WholeInspection /\ tx \in WholeTx /\ Progress /\ Transaction /\ ReceiptFits
        /\ (tx.open \in BOOLEAN /\ tx.aborted \in BOOLEAN /\ tx.lost \in BOOLEAN /\ tx.timeout \in MaybeTimeout)
        /\ i.at # "over" => inspected = <<>>
    BY DEF InspectionInv, WholeTx, ReceiptFits
  <1>a. ASSUME inspected' = inspected, inspected = <<>>, inspection'.at # "over", inspection'.result = Null
        PROVE  ReceiptFits'
    BY <1>a, <1>0, InspectAssumption DEF ReceiptFits
  <1>b. ASSUME Inspect!Failed
        PROVE  tx' \in WholeTx /\ (tx'.open => tx'.aborted) /\ (tx'.lost => ~tx'.open)
    <2>1. CASE tx' = [tx EXCEPT !.aborted = tx.open]
      BY <1>0, <2>1 DEF WholeTx, Transaction
    <2>2. CASE tx' = [Inspect!NoTx EXCEPT !.lost = TRUE]
      BY <2>2 DEF Inspect!NoTx, WholeTx, MaybeTimeout
    <2> QED BY <1>b, <2>1, <2>2 DEF Inspect!Failed
  <1>1. ASSUME NEW hasUrl \in BOOLEAN, NEW own \in BOOLEAN, NEW l \in RowLimits, NEW t \in Timeouts, NEW p \in BOOLEAN,
               Inspect!Ask(hasUrl, own, l, t, p)
        PROVE  InspectionInv'
    <2> DEFINE j == [Inspect!NoInspection EXCEPT !.limit = l, !.timeout = t, !.passes = p]
    <2>1. /\ j.at = "idle" /\ j.limit = l /\ j.timeout = t /\ j.began = FALSE /\ j.ran = Null /\ j.result = Null
          /\ j.committed = FALSE /\ j \in WholeInspection
      BY DEF Inspect!NoInspection, WholeInspection, MaybeTimeout, QueryPlaces
    <2>2. i.at = "idle" /\ tx' = tx /\ (tx.open => tx.aborted) /\ inspected = <<>>
      BY <1>1, <1>0 DEF Inspect!Ask, Transaction
    <2>3. \/ inspection' = [j EXCEPT !.at = "over", !.result = "threw"] /\ inspected' = inspected
          \/ Inspect!Audit(j, "rejected", "refused")
          \/ /\ l \in 1 .. MaxRows /\ inspected' = inspected
             /\ \E at \in {"begin", "connect"} : inspection' = [j EXCEPT !.at = at]
      BY <1>1 DEF Inspect!Ask, Inspect!InLimits
    <2> HIDE DEF j
    <2>4. CASE inspection' = [j EXCEPT !.at = "over", !.result = "threw"] /\ inspected' = inspected
      <3>1. /\ inspection' \in WholeInspection /\ inspection'.at = "over" /\ inspection'.result = "threw"
            /\ inspection'.ran = Null /\ inspection'.began = FALSE
        BY <2>1, <2>4 DEF WholeInspection, QueryPlaces
      <3> QED BY <1>0, <2>2, <2>4, <3>1 DEF InspectionInv, Progress, Transaction, ReceiptFits
    <2>5. CASE Inspect!Audit(j, "rejected", "refused")
      <3>1. /\ inspection' \in WholeInspection /\ inspection'.at = "over" /\ inspection'.ran = Null /\ ~inspection'.began
            /\ ReceiptFits'
        BY <2>1, <2>2, <2>5, AuditFits
      <3> QED BY <1>0, <2>2, <3>1 DEF InspectionInv, Progress, Transaction
    <2>6. ASSUME NEW at \in {"begin", "connect"}, inspection' = [j EXCEPT !.at = at], inspected' = inspected, l \in 1 .. MaxRows
          PROVE  InspectionInv'
      <3>1. /\ inspection' \in WholeInspection /\ inspection'.at = at /\ inspection'.result = Null
            /\ inspection'.ran = Null /\ inspection'.began = FALSE /\ inspection'.committed = FALSE
            /\ inspection'.limit = l /\ inspection'.timeout = t
        BY <2>1, <2>6 DEF WholeInspection, QueryPlaces
      <3>2. ReceiptFits'
        BY <1>a, <2>2, <2>6, <3>1
      <3> QED BY <1>0, <2>2, <2>6, <3>1, <3>2 DEF InspectionInv, Progress, Transaction
    <2> QED BY <2>3, <2>4, <2>5, <2>6
  <1>2. CASE Inspect!Connect
    <2>1. i.at = "connect" /\ inspected = <<>> /\ ~i.began /\ i.ran = Null
      BY <1>2, <1>0 DEF Inspect!Connect, Progress
    <2>2. CASE tx' = Inspect!NoTx /\ inspection' = [inspection EXCEPT !.at = "begin"] /\ UNCHANGED inspected
      <3>1. /\ inspection' \in WholeInspection /\ inspection'.at = "begin" /\ inspection'.result = i.result
            /\ inspection'.ran = i.ran /\ (inspection'.began <=> i.began) /\ (inspection'.committed <=> i.committed)
            /\ inspection'.limit = i.limit /\ inspection'.timeout = i.timeout
        BY <1>0, <2>2 DEF WholeInspection, QueryPlaces
      <3>2. tx' \in WholeTx /\ ~tx'.open
        BY <2>2 DEF Inspect!NoTx, WholeTx, MaybeTimeout
      <3>3. ReceiptFits'
        BY <1>0, <1>a, <2>1, <2>2, <3>1 DEF Progress
      <3> QED BY <1>0, <2>1, <3>1, <3>2, <3>3 DEF InspectionInv, Progress, Transaction
    <2>3. CASE Inspect!Audit(inspection, "failed", "refused") /\ UNCHANGED tx
      <3>1. /\ inspection' \in WholeInspection /\ inspection'.at = "over" /\ inspection'.ran = Null /\ ~inspection'.began
            /\ ReceiptFits'
        BY <1>0, <2>1, <2>3, AuditFits
      <3> QED BY <1>0, <2>1, <2>3, <3>1 DEF InspectionInv, Progress, Transaction
    <2> QED BY <1>2, <2>2, <2>3 DEF Inspect!Connect
  <1>c. ASSUME i.at \in {"begin", "timeout", "query", "commit"}, Inspect!Failed, UNCHANGED inspected,
               \/ inspection' = [inspection EXCEPT !.at = "caught"]
               \/ inspection' = [inspection EXCEPT !.at = "caught", !.rows = Null]
        PROVE  InspectionInv'
    <2>1. /\ inspection' \in WholeInspection /\ inspection'.at = "caught" /\ inspection'.result = i.result
          /\ inspection'.ran = i.ran /\ (inspection'.began <=> i.began) /\ (inspection'.committed <=> i.committed)
          /\ inspection'.limit = i.limit /\ inspection'.timeout = i.timeout
      BY <1>0, <1>c DEF WholeInspection, QueryPlaces
    <2>2. ReceiptFits'
      BY <1>0, <1>a, <1>c, <2>1 DEF Progress
    <2> QED BY <1>0, <1>b, <1>c, <2>1, <2>2 DEF InspectionInv, Progress, Transaction
  <1>3. CASE Inspect!Begin
    <2>1. i.at = "begin" /\ UNCHANGED inspected
      BY <1>3 DEF Inspect!Begin
    <2>2. CASE Inspect!Done([tx EXCEPT !.open = TRUE, !.readOnly = TRUE])
               /\ inspection' = [inspection EXCEPT !.at = "timeout", !.began = TRUE]
      <3>1. /\ inspection' \in WholeInspection /\ inspection'.at = "timeout" /\ inspection'.result = i.result
            /\ inspection'.ran = i.ran /\ inspection'.began /\ (inspection'.committed <=> i.committed)
            /\ inspection'.limit = i.limit /\ inspection'.timeout = i.timeout
        BY <1>0, <2>2 DEF WholeInspection, QueryPlaces
      <3>2. tx' \in WholeTx /\ tx'.readOnly /\ ~tx'.lost
        BY <1>0, <2>2 DEF Inspect!Done, WholeTx
      <3>3. ReceiptFits'
        BY <1>0, <1>a, <2>1, <3>1 DEF Progress
      <3> QED BY <1>0, <2>1, <3>1, <3>2, <3>3 DEF InspectionInv, Progress, Transaction
    <2> QED BY <1>3, <1>c, <2>1, <2>2 DEF Inspect!Begin
  <1>4. CASE Inspect!SetTimeout
    <2>1. i.at = "timeout" /\ UNCHANGED inspected
      BY <1>4 DEF Inspect!SetTimeout
    <2>2. CASE Inspect!Done([tx EXCEPT !.timeout = inspection.timeout]) /\ inspection' = [inspection EXCEPT !.at = "query"]
      <3>1. /\ inspection' \in WholeInspection /\ inspection'.at = "query" /\ inspection'.result = i.result
            /\ inspection'.ran = i.ran /\ (inspection'.began <=> i.began) /\ (inspection'.committed <=> i.committed)
            /\ inspection'.limit = i.limit /\ inspection'.timeout = i.timeout
        BY <1>0, <2>2 DEF WholeInspection, QueryPlaces
      <3>2. tx' \in WholeTx /\ (tx'.readOnly <=> tx.readOnly) /\ ~tx'.lost /\ tx'.timeout = i.timeout /\ (tx'.open <=> tx.open) /\ (tx'.aborted <=> tx.aborted)
        BY <1>0, <2>1, <2>2 DEF Inspect!Done, WholeTx, MaybeTimeout, Progress
      <3>3. ReceiptFits'
        BY <1>0, <1>a, <2>1, <3>1 DEF Progress
      <3> QED BY <1>0, <2>1, <3>1, <3>2, <3>3 DEF InspectionInv, Progress, Transaction
    <2> QED BY <1>4, <1>c, <2>1, <2>2 DEF Inspect!SetTimeout
  <1>5. CASE Inspect!Query
    <2>1. i.at = "query" /\ UNCHANGED inspected
      BY <1>5 DEF Inspect!Query
    <2>2. ASSUME Inspect!Done(tx), NEW n \in 0 .. MaxRows + 1, NEW at \in {"commit", "caught"},
                 inspection' = [inspection EXCEPT !.at = at, !.ran = [readOnly |-> tx.readOnly, timeout |-> tx.timeout],
                                                  !.rows = IF at = "commit" THEN n ELSE Null]
          PROVE  InspectionInv'
      <3> DEFINE took == [readOnly |-> tx.readOnly, timeout |-> tx.timeout]
      <3>1. /\ tx' = tx /\ ~tx.lost /\ took.readOnly /\ took.timeout = i.timeout /\ i.timeout \in Timeouts
            /\ took \in [readOnly : BOOLEAN, timeout : Timeouts] /\ took # Null /\ n \in Nat /\ i.limit \in 1 .. MaxRows
        BY <1>0, <2>1, <2>2, InspectAssumption DEF Inspect!Done, Progress, Transaction, WholeTx
      <3> HIDE DEF took
      <3>a. inspection' = [inspection EXCEPT !.at = at, !.ran = took, !.rows = IF at = "commit" THEN n ELSE Null]
        BY <2>2 DEF took
      <3>2. /\ inspection' \in WholeInspection /\ inspection'.at = at /\ inspection'.result = i.result
            /\ inspection'.ran = took /\ (inspection'.began <=> i.began) /\ (inspection'.committed <=> i.committed)
            /\ inspection'.limit = i.limit /\ inspection'.timeout = i.timeout /\ (at = "commit" => inspection'.rows = n)
        BY <1>0, <3>1, <3>a DEF WholeInspection, QueryPlaces
      <3>3. ReceiptFits'
        BY <1>0, <1>a, <2>1, <3>2 DEF Progress
      <3> QED BY <1>0, <2>1, <3>1, <3>2, <3>3 DEF InspectionInv, Progress, Transaction
    <2> QED BY <1>5, <1>c, <2>1, <2>2 DEF Inspect!Query
  <1>6. CASE Inspect!Commit
    <2> DEFINE rows == IF i.rows < i.limit THEN i.rows ELSE i.limit
               kept == [inspection EXCEPT !.rows = rows, !.committed = TRUE]
    <2>1. /\ i.at = "commit" /\ inspected = <<>> /\ i.rows \in Nat /\ i.limit \in Nat /\ i.ran # Null
          /\ rows \in Nat /\ rows <= i.limit
      BY <1>6, <1>0, InspectAssumption DEF Inspect!Commit, Progress
    <2>2. CASE Inspect!Done(Inspect!NoTx) /\ Inspect!Audit(kept, "completed", "ok")
      <3>1. /\ kept \in WholeInspection /\ kept.ran = i.ran /\ kept.committed /\ kept.limit = i.limit /\ kept.timeout = i.timeout
            /\ kept.rows = rows
        BY <1>0, <2>1 DEF WholeInspection
      <3> HIDE DEF kept, rows
      <3>2. /\ inspection' \in WholeInspection /\ inspection'.at = "over" /\ inspection'.ran = i.ran
            /\ inspection'.timeout = i.timeout /\ ReceiptFits'
        BY <2>1, <2>2, <3>1, AuditFits
      <3>3. tx' \in WholeTx /\ ~tx'.open
        BY <2>2 DEF Inspect!Done, Inspect!NoTx, WholeTx, MaybeTimeout
      <3> QED BY <1>0, <3>2, <3>3 DEF InspectionInv, Progress, Transaction
    <2>3. CASE Inspect!Failed /\ inspection' = [inspection EXCEPT !.at = "caught", !.rows = Null] /\ UNCHANGED inspected
      BY <1>c, <2>1, <2>3
    <2> QED BY <1>6, <2>2, <2>3 DEF Inspect!Commit
  <1>7. CASE Inspect!Catch
    <2>1. i.at = "caught" /\ inspected = <<>> /\ Inspect!Audit(inspection, "failed", "refused")
      BY <1>7, <1>0 DEF Inspect!Catch
    <2>2. /\ inspection' \in WholeInspection /\ inspection'.at = "over" /\ inspection'.ran = i.ran
          /\ inspection'.timeout = i.timeout /\ ReceiptFits'
      BY <1>0, <2>1, AuditFits
    <2>3. tx' \in WholeTx /\ (tx'.open => tx'.aborted) /\ (tx'.lost => ~tx'.open)
      <3>1. CASE i.began
        <4>1. tx' = (IF tx.lost THEN tx ELSE Inspect!NoTx) \/ Inspect!Failed
          BY <1>7, <3>1 DEF Inspect!Catch
        <4>2. Inspect!NoTx \in WholeTx /\ ~Inspect!NoTx.open
          BY DEF Inspect!NoTx, WholeTx, MaybeTimeout
        <4> QED BY <1>0, <1>b, <4>1, <4>2 DEF Transaction
      <3>2. CASE ~i.began
        BY <1>7, <1>0, <3>2 DEF Inspect!Catch, Transaction
      <3> QED BY <3>1, <3>2
    <2> QED BY <1>0, <2>2, <2>3 DEF InspectionInv, Progress, Transaction
  <1>8. CASE Inspect!Again
    <2>1. /\ inspection'.at = "idle" /\ inspection'.result = Null /\ inspection'.committed = FALSE /\ i.at = "over"
          /\ inspection'.ran = Null /\ inspection'.began = FALSE /\ inspection' \in WholeInspection
      BY <1>8 DEF Inspect!Again, Inspect!NoInspection, WholeInspection, MaybeTimeout, QueryPlaces
    <2>2. inspected' = <<>> /\ Len(<<>>) = 0 /\ tx' = tx
      BY <1>8 DEF Inspect!Again
    <2> QED BY <1>0, <2>1, <2>2, InspectAssumption DEF InspectionInv, Progress, Transaction, ReceiptFits
  <1> QED BY <1>1, <1>2, <1>3, <1>4, <1>5, <1>6, <1>7, <1>8 DEF Inspect!QueryNext

LEMMA InspectionRests == InspectionInv /\ UNCHANGED inspectedVars => InspectionInv'
  BY DEF inspectedVars, InspectionInv, Progress, Transaction, ReceiptFits

LEMMA InspectionHolds == InspectionInv => Inspect!TypeOK /\ Inspect!OneReceiptEach /\ Inspect!NoOpenTransaction
  <1> SUFFICES ASSUME InspectionInv PROVE Inspect!TypeOK /\ Inspect!OneReceiptEach /\ Inspect!NoOpenTransaction
    OBVIOUS
  <1>1. inspection.at \in QueryPlaces /\ inspection.result \in {Null, "ok", "refused", "threw"} /\ Len(inspected) <= 1
    BY DEF InspectionInv, WholeInspection, ReceiptFits
  <1>2. Inspect!OneReceiptEach
    BY DEF InspectionInv, Progress, ReceiptFits, Inspect!OneReceiptEach
  <1>3. Inspect!NoOpenTransaction
    BY DEF InspectionInv, Transaction, Inspect!NoOpenTransaction
  <1> QED BY <1>1, <1>2, <1>3 DEF Inspect!TypeOK, QueryPlaces
-----------------------------------------------------------------------------
LEMMA NoneIsNoEntry == Null \notin Local!Entries
  BY LocalAssumption

LEMMA AgentsStart == Local!Init => AgentsInv
  <1> SUFFICES ASSUME Local!Init PROVE AgentsInv
    OBVIOUS
  <1>1. Local!TypeOK
    BY DEF Local!Init, Local!TypeOK, Local!Entries
  <1>2. \A a \in LocalIds : child[a] = Null /\ entry[a] = Null /\ launch[a] = "idle" /\ waiter[a] = "over" /\ daemonSession[a] = "none"
    BY DEF Local!Init
  <1>3. \A c \in StudioCalls : agentCalls[c].at = "idle"
    BY DEF Local!Init
  <1> QED BY <1>1, <1>2, <1>3, LocalAssumption DEF AgentsInv, LifeOf, SessionIsHeld, CallKnows, Local!ChildrenAreListed, Local!EndIsHonest, Local!Known

\* What is known of one agent, its calls apart.
AgentFits(a) ==
    /\ child[a] \in {Null, "alive", "lost", "killed", "fine", "failed"} /\ entry[a] \in Local!Entries \cup {Null}
    /\ LifeOf(a)
    /\ child[a] = "alive" /\ launch[a] # "forked" => entry[a] # Null /\ entry[a].status = "running" /\ ~quit
    /\ entry[a] # Null /\ entry[a].status = "errored" => child[a] \in {"failed", "lost"}
    /\ entry[a] # Null /\ entry[a].status # "running" => child[a] # "alive"

LEMMA AgentsFit == AgentsInv => \A a \in LocalIds : AgentFits(a)
  BY DEF AgentsInv, AgentFits, Local!TypeOK, Local!ChildrenAreListed, Local!EndIsHonest, Local!Known

LEMMA FitAgents ==
    ASSUME Local!TypeOK', \A a \in LocalIds : AgentFits(a)' /\ SessionIsHeld(a)',
           \A c \in StudioCalls : CallKnows(c)'
    PROVE  AgentsInv'
  BY DEF AgentsInv, AgentFits, Local!ChildrenAreListed, Local!EndIsHonest, Local!Known

\* An agent nothing happens to fits as before; so do the calls that hold its session.
LEMMA AgentKeeps ==
    ASSUME NEW a \in LocalIds, AgentFits(a), quit' = quit, child'[a] = child[a], entry'[a] = entry[a],
           launch'[a] = launch[a], waiter'[a] = waiter[a], daemonSession'[a] = daemonSession[a]
    PROVE  AgentFits(a)'
  BY DEF AgentFits, LifeOf

LEMMA SessionKeeps ==
    ASSUME NEW a \in LocalIds, SessionIsHeld(a), entry'[a] = entry[a] \/ (entry'[a] # Null /\ entry[a] # Null /\ (entry'[a].creds <=> entry[a].creds)),
           launch'[a] = launch[a], daemonSession'[a] = daemonSession[a], a \in excused => a \in excused',
           \A c \in StudioCalls : agentCalls'[c] = agentCalls[c] \/ agentCalls[c].at \notin {"took", "end"} \/ agentCalls[c].agent # a \/ ~agentCalls[c].creds \/
               (agentCalls'[c].agent = a /\ agentCalls'[c].creds /\ agentCalls'[c].at \in {"took", "end"})
    PROVE  SessionIsHeld(a)'
  BY DEF SessionIsHeld, Held

AgentTouch(a) == \A b \in LocalIds \ {a} :
    /\ child'[b] = child[b] /\ entry'[b] = entry[b] /\ launch'[b] = launch[b] /\ waiter'[b] = waiter[b]
    /\ daemonSession'[b] = daemonSession[b] /\ (b \in excused => b \in excused')


LEMMA OneAgent ==
    ASSUME AgentsInv, NEW a \in LocalIds, AgentTouch(a), quit' = quit, Local!TypeOK', AgentFits(a)', SessionIsHeld(a)',
           \A c \in StudioCalls : agentCalls'[c] = agentCalls[c] \/
               ((agentCalls[c].at = "idle" \/ agentCalls[c].agent = a) /\ agentCalls'[c].agent = a
                /\ (agentCalls'[c].at \in {"took", "end"} /\ agentCalls'[c].creds => launch'[a] = "answered")),
           launch[a] = "answered" => launch'[a] = "answered"
    PROVE  AgentsInv'
  <1>1. ASSUME NEW b \in LocalIds PROVE AgentFits(b)' /\ SessionIsHeld(b)'
    <2>1. CASE b = a
      BY <2>1
    <2>2. CASE b # a
      <3>1. AgentFits(b)'
        BY <2>2, AgentsFit, AgentKeeps DEF AgentTouch
      <3>2. SessionIsHeld(b)'
        BY <2>2, SessionKeeps DEF AgentTouch, AgentsInv
      <3> QED BY <3>1, <3>2
    <2> QED BY <2>1, <2>2
  <1>2. ASSUME NEW c \in StudioCalls PROVE CallKnows(c)'
    <2>1. CASE agentCalls'[c] = agentCalls[c]
      BY <2>1 DEF AgentsInv, CallKnows, AgentTouch
    <2>2. CASE agentCalls'[c] # agentCalls[c]
      BY <2>2 DEF CallKnows
    <2> QED BY <2>1, <2>2
  <1> QED BY <1>1, <1>2, FitAgents

\* The start of an agent and the thread that waits for it leave the calls alone.
LEMMA StartStep ==
    ASSUME AgentsInv, NEW a \in LocalIds, ~quit,
           Local!Fork(a) \/ Local!Insert(a) \/ Local!Register(a) \/ Local!Attach(a)
    PROVE  AgentsInv'
  <1>0. Local!TypeOK /\ AgentFits(a) /\ SessionIsHeld(a)
    BY AgentsFit DEF AgentsInv
  <1>a. quit' = quit /\ ~quit' /\ UNCHANGED agentCalls
    BY DEF Local!Fork, Local!Insert, Local!Register, Local!Attach
  <1>l. launch[a] # "answered"
    BY DEF Local!Fork, Local!Insert, Local!Register, Local!Attach
  <1>1. CASE Local!Fork(a)
    <2>1. Local!TypeOK' /\ AgentTouch(a) /\ child'[a] = "alive" /\ launch'[a] = "forked" /\ entry' = entry /\ waiter' = waiter /\ daemonSession' = daemonSession
      BY <1>0, <1>1 DEF Local!TypeOK, Local!Fork, Local!StartAt, AgentTouch
    <2>2. AgentFits(a)' /\ SessionIsHeld(a)'
      BY <1>0, <1>1, <1>a, <2>1, LocalAssumption DEF AgentFits, LifeOf, SessionIsHeld, Local!Fork
    <2> QED BY <1>a, <1>l, <2>1, <2>2, OneAgent
  <1>2. CASE Local!Insert(a)
    <2> DEFINE e == [status |-> "running", creds |-> FALSE]
    <2>0. e \in Local!Entries /\ e.status = "running" /\ e.creds = FALSE
      BY DEF Local!Entries
    <2>e. e # Null
      BY <2>0, NoneIsNoEntry
    <2> HIDE DEF e
    <2>1. Local!TypeOK' /\ AgentTouch(a) /\ child' = child /\ launch'[a] = "register" /\ entry'[a] = e /\ waiter'[a] = "polling" /\ daemonSession' = daemonSession
      BY <1>0, <1>2, <2>0 DEF Local!TypeOK, Local!Insert, Local!StartAt, AgentTouch, e
    <2>2. AgentFits(a)' /\ SessionIsHeld(a)'
      BY <1>0, <1>2, <1>a, <2>0, <2>e, <2>1 DEF AgentFits, LifeOf, SessionIsHeld, Local!Insert
    <2> QED BY <1>a, <1>l, <2>1, <2>2, OneAgent
  <1>3. CASE Local!Register(a)
    <2>1. Local!TypeOK' /\ AgentTouch(a) /\ child' = child /\ entry' = entry /\ waiter' = waiter
      BY <1>0, <1>3 DEF Local!TypeOK, Local!Register, Local!StartAt, AgentTouch
    <2>2. /\ launch'[a] \in {"attach", "answered"}
          /\ launch'[a] = "answered" => a \in excused' \/ daemonSession' = daemonSession
      BY <1>0, <1>3 DEF Local!TypeOK, Local!Register, Local!StartAt
    <2>3. AgentFits(a)' /\ SessionIsHeld(a)'
      BY <1>0, <1>3, <1>a, <2>1, <2>2, LocalAssumption DEF AgentFits, LifeOf, SessionIsHeld, Local!Register
    <2> QED BY <1>a, <1>l, <2>1, <2>3, OneAgent
  <1>4. CASE Local!Attach(a)
    <2>1. child' = child /\ waiter' = waiter /\ daemonSession' = daemonSession /\ launch'[a] = "answered" /\ excused \subseteq excused'
      BY <1>0, <1>4 DEF Local!TypeOK, Local!Attach, Local!StartAt
    <2>2. CASE entry[a] # Null
      <3> DEFINE e == [entry[a] EXCEPT !.creds = TRUE]
      <3>0. e \in Local!Entries /\ e.status = entry[a].status /\ e.creds
        BY <1>0, <2>2 DEF Local!Entries, AgentFits
      <3>e. e # Null
        BY <3>0, NoneIsNoEntry
      <3>1. entry' = [entry EXCEPT ![a] = e]
        BY <1>4, <2>2 DEF Local!Attach, Local!Known
      <3> HIDE DEF e
      <3>a. excused' = excused /\ launch' = [launch EXCEPT ![a] = "answered"]
        BY <1>4, <2>2 DEF Local!Attach, Local!StartAt, Local!Known
      <3>b. Local!TypeOK' /\ entry'[a] = e
        BY <1>0, <1>a, <2>1, <3>a, <3>0, <3>1 DEF Local!TypeOK
      <3>2. Local!TypeOK' /\ AgentTouch(a) /\ entry'[a] = e
        BY <1>0, <2>1, <3>a, <3>b, <3>1 DEF Local!TypeOK, AgentTouch
      <3>3. AgentFits(a)' /\ SessionIsHeld(a)'
        BY <1>0, <1>4, <1>a, <2>1, <2>2, <3>0, <3>e, <3>b DEF AgentFits, LifeOf, SessionIsHeld, Local!Attach
      <3> QED BY <1>a, <1>l, <3>2, <3>3, OneAgent
    <2>3. CASE entry[a] = Null
      <3>1. Local!TypeOK' /\ AgentTouch(a) /\ entry' = entry /\ a \in excused'
        BY <1>0, <1>4, <2>3 DEF Local!TypeOK, Local!Attach, Local!StartAt, AgentTouch, Local!Known
      <3>2. AgentFits(a)' /\ SessionIsHeld(a)'
        BY <1>0, <1>4, <1>a, <2>1, <3>1 DEF AgentFits, LifeOf, SessionIsHeld, Local!Attach
      <3> QED BY <1>a, <1>l, <3>1, <3>2, OneAgent
    <2> QED BY <2>2, <2>3
  <1> QED BY <1>1, <1>2, <1>3, <1>4

LEMMA WaitStep ==
    ASSUME AgentsInv, NEW a \in LocalIds, Local!Exit(a) \/ Local!Poll(a) \/ Local!Record(a)
    PROVE  AgentsInv'
  <1>0. Local!TypeOK /\ AgentFits(a) /\ SessionIsHeld(a)
    BY AgentsFit DEF AgentsInv
  <1>a. quit' = quit /\ UNCHANGED <<agentCalls, launch, daemonSession, excused>>
    BY DEF Local!Exit, Local!Poll, Local!Record
  <1>1. CASE Local!Exit(a)
    <2>1. Local!TypeOK' /\ AgentTouch(a) /\ child'[a] \in {"fine", "failed"} /\ entry' = entry /\ waiter' = waiter
      BY <1>0, <1>1 DEF Local!TypeOK, Local!Exit, AgentTouch
    <2>2. AgentFits(a)' /\ SessionIsHeld(a)'
      BY <1>0, <1>1, <1>a, <2>1, LocalAssumption DEF AgentFits, LifeOf, SessionIsHeld, Held, Local!Exit
    <2> QED BY <1>a, <2>1, <2>2, OneAgent
  <1>2. CASE Local!Poll(a)
    <2>1. waiter[a] = "polling" /\ entry' = entry
      BY <1>2 DEF Local!Poll
    <2>2. PICK w \in {"exited", "over"} :
              /\ waiter' = [waiter EXCEPT ![a] = w]
              /\ \/ child' = child /\ (w = "exited" => child[a] # "alive")
                 \/ child' = [child EXCEPT ![a] = "lost"]
      BY <1>2 DEF Local!Poll
    <2>3. Local!TypeOK' /\ AgentTouch(a) /\ waiter'[a] = w
      BY <1>0, <1>a, <2>1, <2>2 DEF Local!TypeOK, AgentTouch
    <2>4. child'[a] = "lost" \/ (child'[a] = child[a] /\ (w = "exited" => child[a] # "alive"))
      BY <1>0, <2>2 DEF Local!TypeOK
    <2>5. launch[a] \notin {"idle", "forked"}
      BY <1>0, <2>1 DEF AgentFits, LifeOf
    <2>6. AgentFits(a)'
      BY <1>0, <1>a, <2>1, <2>3, <2>4, <2>5, LocalAssumption DEF AgentFits, LifeOf
    <2>7. SessionIsHeld(a)'
      BY <1>0, <1>a, <2>1 DEF SessionIsHeld, Held
    <2> QED BY <1>a, <2>3, <2>6, <2>7, OneAgent
  <1>3. CASE Local!Record(a)
    <2>1. child' = child /\ waiter'[a] = "over" /\ child[a] # "alive"
      BY <1>0, <1>3 DEF Local!TypeOK, Local!Record, AgentFits, LifeOf
    <2>2. CASE entry[a] # Null /\ entry[a].status = "running"
      <3> DEFINE s == IF child[a] = "fine" THEN "stopped" ELSE "errored"
                 e == [entry[a] EXCEPT !.status = s]
      <3>0. e \in Local!Entries /\ e.status = s /\ (e.creds <=> entry[a].creds) /\ e # Null
        BY <1>0, <2>2, LocalAssumption DEF Local!Entries, AgentFits
      <3>1. entry' = [entry EXCEPT ![a] = e]
        BY <1>3, <2>2 DEF Local!Record, Local!Known, Local!StillRunning, Local!Settle
      <3> HIDE DEF e
      <3>2. Local!TypeOK' /\ AgentTouch(a) /\ entry'[a] = e
        BY <1>0, <1>3, <1>a, <2>1, <3>0, <3>1 DEF Local!TypeOK, Local!Record, AgentTouch
      <3>3. child[a] \in {"killed", "lost", "fine", "failed"}
        BY <1>0, <2>1, <2>2 DEF AgentFits, LifeOf
      <3>4. child[a] # "killed"
        BY <1>0, <2>2 DEF AgentFits, LifeOf
      <3>5. AgentFits(a)'
        BY <1>0, <1>3, <1>a, <2>1, <2>2, <3>0, <3>2, <3>3, <3>4 DEF AgentFits, LifeOf, Local!Record
      <3>6. SessionIsHeld(a)'
        BY <1>0, <1>a, <2>2, <3>0, <3>2 DEF SessionIsHeld, Held
      <3> QED BY <1>a, <3>2, <3>5, <3>6, OneAgent
    <2>3. CASE ~(entry[a] # Null /\ entry[a].status = "running")
      <3>1. Local!TypeOK' /\ AgentTouch(a) /\ entry' = entry
        BY <1>0, <1>3, <1>a, <2>1, <2>3 DEF Local!TypeOK, Local!Record, AgentTouch, Local!Known, Local!StillRunning
      <3>2. AgentFits(a)' /\ SessionIsHeld(a)'
        BY <1>0, <1>3, <1>a, <2>1, <3>1 DEF AgentFits, LifeOf, SessionIsHeld, Held
      <3> QED BY <1>a, <3>1, <3>2, OneAgent
    <2> QED BY <2>2, <2>3
  <1> QED BY <1>1, <1>2, <1>3


LEMMA CallTakes ==
    ASSUME AgentsInv, NEW c \in StudioCalls, NEW op \in {"stop", "remove"}, NEW a \in LocalIds, Local!Take(c, op, a)
    PROVE  AgentsInv'
  <1>0. Local!TypeOK /\ AgentFits(a) /\ SessionIsHeld(a)
    BY AgentsFit DEF AgentsInv
  <1>a. quit' = quit /\ UNCHANGED <<child, launch, waiter, daemonSession, excused>> /\ agentCalls[c].at = "idle" /\ launch[a] \notin {"idle", "forked"}
    BY DEF Local!Take
  <1> DEFINE had == entry[a] # Null /\ entry[a].creds
             n == [at |-> "took", op |-> op, agent |-> a, creds |-> had]
  <1>b. had \in BOOLEAN /\ (entry[a] # Null => (had <=> entry[a].creds))
    OBVIOUS
  <1>c. agentCalls' = [agentCalls EXCEPT ![c] = n]
    BY DEF Local!Take, Local!Known
  <1> HIDE DEF had
  <1>d. /\ n \in [at : {"idle", "took", "end", "over"}, op : {Null, "stop", "remove"}, agent : LocalIds \cup {Null}, creds : BOOLEAN]
        /\ n.at = "took" /\ n.agent = a /\ (n.creds <=> had)
    BY <1>b
  <1> HIDE DEF n
  <1>e. agentCalls'[c] = n /\ \A d \in StudioCalls : d # c => agentCalls'[d] = agentCalls[d]
    BY <1>0, <1>c DEF Local!TypeOK
  <1>f. \A d \in StudioCalls : agentCalls'[d] = agentCalls[d] \/
            ((agentCalls[d].at = "idle" \/ agentCalls[d].agent = a) /\ agentCalls'[d].agent = a
             /\ (agentCalls'[d].at \in {"took", "end"} /\ agentCalls'[d].creds => launch'[a] = "answered"))
    BY <1>0, <1>a, <1>d, <1>e DEF AgentFits, LifeOf, had
  <1>g. Held(a) => Held(a)'
    BY <1>a, <1>e DEF Held
  <1>h. had => Held(a)'
    BY <1>d, <1>e DEF Held
  <1>1. CASE entry[a] # Null
    <2> DEFINE e == [entry[a] EXCEPT !.creds = FALSE]
    <2>0. e \in Local!Entries /\ e.status = entry[a].status /\ ~e.creds
      BY <1>0, <1>1 DEF Local!Entries, AgentFits
    <2>e. e # Null
      BY <2>0, NoneIsNoEntry
    <2>1. entry' = [entry EXCEPT ![a] = e]
      BY <1>1 DEF Local!Take, Local!Known
    <2> HIDE DEF e
    <2>2. Local!TypeOK' /\ AgentTouch(a) /\ entry'[a] = e
      BY <1>0, <1>a, <1>c, <1>d, <2>0, <2>1 DEF Local!TypeOK, AgentTouch
    <2>3. AgentFits(a)'
      BY <1>0, <1>a, <1>1, <2>0, <2>e, <2>2 DEF AgentFits, LifeOf
    <2>4. SessionIsHeld(a)'
      BY <1>0, <1>a, <1>1, <1>b, <1>g, <1>h DEF SessionIsHeld
    <2> QED BY <1>a, <1>f, <2>2, <2>3, <2>4, OneAgent
  <1>2. CASE entry[a] = Null
    <2>1. entry' = entry
      BY <1>2 DEF Local!Take, Local!Known
    <2>2. Local!TypeOK' /\ AgentTouch(a)
      BY <1>0, <1>a, <1>c, <1>d, <2>1 DEF Local!TypeOK, AgentTouch
    <2>3. AgentFits(a)'
      BY <1>0, <1>a, <2>1 DEF AgentFits, LifeOf
    <2>4. SessionIsHeld(a)'
      BY <1>0, <1>a, <1>2, <1>g DEF SessionIsHeld
    <2> QED BY <1>a, <1>f, <2>2, <2>3, <2>4, OneAgent
  <1> QED BY <1>1, <1>2

\* A call moves on, and nothing of it changes but where it is.
LEMMA CallMoves ==
    ASSUME Local!TypeOK, NEW c \in StudioCalls, NEW p \in {"end", "over"}, Local!Then(c, p)
    PROVE  /\ agentCalls' \in [StudioCalls -> [at : {"idle", "took", "end", "over"}, op : {Null, "stop", "remove"},
                                         agent : LocalIds \cup {Null}, creds : BOOLEAN]]
           /\ agentCalls'[c].at = p /\ agentCalls'[c].agent = agentCalls[c].agent
           /\ (agentCalls'[c].creds <=> agentCalls[c].creds)
           /\ \A d \in StudioCalls : d # c => agentCalls'[d] = agentCalls[d]
  <1> DEFINE n == [agentCalls[c] EXCEPT !.at = p]
             Type == [at : {"idle", "took", "end", "over"}, op : {Null, "stop", "remove"}, agent : LocalIds \cup {Null}, creds : BOOLEAN]
  <1>1. agentCalls' = [agentCalls EXCEPT ![c] = n] /\ agentCalls \in [StudioCalls -> Type]
    BY DEF Local!Then, Local!TypeOK
  <1>2. n \in Type /\ n.at = p /\ n.agent = agentCalls[c].agent /\ (n.creds <=> agentCalls[c].creds)
    BY <1>1
  <1> QED BY <1>1, <1>2

LEMMA CallEnds ==
    ASSUME AgentsInv, NEW c \in StudioCalls, Local!Stop(c) \/ Local!Remove(c) \/ Local!End(c)
    PROVE  AgentsInv'
  <1>i. agentCalls[c].at \in {"took", "end"}
    BY DEF Local!Stop, Local!Remove, Local!End
  <1>p. PICK a \in LocalIds : a = agentCalls[c].agent
    BY <1>i DEF AgentsInv, CallKnows
  <1>0. a \in LocalIds /\ Local!TypeOK /\ AgentFits(a) /\ SessionIsHeld(a)
    BY AgentsFit DEF AgentsInv
  <1>a. quit' = quit /\ UNCHANGED <<launch, waiter>>
    BY DEF Local!Stop, Local!Remove, Local!End
  <1>b. PICK p \in {"end", "over"} : Local!Then(c, p)
    BY DEF Local!Stop, Local!Remove, Local!End, Local!Proceed, Local!Refuse
  <1>c. /\ agentCalls' \in [StudioCalls -> [at : {"idle", "took", "end", "over"}, op : {Null, "stop", "remove"},
                                         agent : LocalIds \cup {Null}, creds : BOOLEAN]]
        /\ agentCalls'[c].at = p /\ agentCalls'[c].agent = a
        /\ (agentCalls'[c].creds <=> agentCalls[c].creds)
        /\ \A d \in StudioCalls : d # c => agentCalls'[d] = agentCalls[d]
    BY <1>0, <1>b, <1>p, CallMoves
  <1>k. agentCalls[c].creds => launch[a] = "answered"
    BY <1>i, <1>p DEF AgentsInv, CallKnows
  <1>d. \A d \in StudioCalls : agentCalls'[d] = agentCalls[d] \/
            ((agentCalls[d].at = "idle" \/ agentCalls[d].agent = a) /\ agentCalls'[d].agent = a
             /\ (agentCalls'[d].at \in {"took", "end"} /\ agentCalls'[d].creds => launch'[a] = "answered"))
    BY <1>a, <1>c, <1>k, <1>p
  <1>e. p = "end" /\ Held(a) => Held(a)'
    BY <1>c, <1>p DEF Held
  <1>f. p = "over" /\ Held(a) /\ ~Held(a)' => agentCalls[c].creds
    BY <1>c, <1>p DEF Held
  <1>1. CASE Local!Stop(c)
    <2>0. agentCalls[c].at = "took" /\ UNCHANGED daemonSession
      BY <1>1 DEF Local!Stop
    <2>1. CASE /\ entry[a] # Null /\ Local!Settle(a, "stopped") /\ Local!Proceed(c)
               /\ child' = [child EXCEPT ![a] = IF @ = "alive" THEN "killed" ELSE @]
      <3>1. /\ child' = [child EXCEPT ![a] = IF @ = "alive" THEN "killed" ELSE @]
            /\ Local!Settle(a, "stopped") /\ Local!Then(c, "end") /\ UNCHANGED excused
        BY <2>1 DEF Local!Proceed
      <3>2. p = "end"
        BY <1>0, <1>b, <1>c, <3>1, CallMoves
      <3> DEFINE e == [entry[a] EXCEPT !.status = "stopped"]
      <3>3. e \in Local!Entries /\ e.status = "stopped" /\ (e.creds <=> entry[a].creds)
        BY <1>0, <2>1 DEF Local!Entries, AgentFits
      <3>4. e # Null
        BY <3>3, NoneIsNoEntry
      <3>5. entry' = [entry EXCEPT ![a] = e]
        BY <3>1 DEF Local!Settle
      <3> HIDE DEF e
      <3>6. Local!TypeOK' /\ AgentTouch(a) /\ entry'[a] = e
        BY <1>0, <1>a, <1>c, <2>0, <3>1, <3>3, <3>5 DEF Local!TypeOK, AgentTouch
      <3>7. child'[a] = (IF child[a] = "alive" THEN "killed" ELSE child[a])
        BY <1>0, <3>1 DEF Local!TypeOK
      <3>8. AgentFits(a)'
        BY <1>0, <1>a, <2>0, <2>1, <3>3, <3>4, <3>6, <3>7, LocalAssumption DEF AgentFits, LifeOf
      <3>9. SessionIsHeld(a)'
        BY <1>0, <1>a, <1>e, <2>0, <2>1, <3>1, <3>2, <3>3, <3>4, <3>6 DEF SessionIsHeld
      <3> QED BY <1>0, <1>a, <1>d, <3>6, <3>8, <3>9, OneAgent
    <2>2. CASE Local!Refuse(c)
      <3>2. UNCHANGED <<entry, child>> /\ excused' = IF agentCalls[c].creds THEN excused \cup {a} ELSE excused
        BY <2>2, <1>p DEF Local!Refuse
      <3>3. Local!TypeOK' /\ AgentTouch(a)
        BY <1>0, <1>a, <1>c, <2>0, <3>2 DEF Local!TypeOK, AgentTouch
      <3>4. AgentFits(a)'
        BY <1>0, <1>a, <2>0, <3>2 DEF AgentFits, LifeOf
      <3>5. SessionIsHeld(a)'
        BY <1>0, <1>a, <1>e, <1>f, <2>0, <3>2 DEF SessionIsHeld
      <3> QED BY <1>0, <1>a, <1>d, <3>3, <3>4, <3>5, OneAgent
    <2> QED BY <1>1, <2>1, <2>2, <1>p DEF Local!Stop, Local!Known
  <1>2. CASE Local!Remove(c)
    <2>0. agentCalls[c].at = "took" /\ UNCHANGED <<daemonSession, child>>
      BY <1>2 DEF Local!Remove, Local!Refuse
    <2>1. CASE Local!MayRemove(a)
      <3>0. entry[a] # Null /\ entry[a].status # "running"
        BY <2>1 DEF Local!MayRemove, Local!Known
      <3>1. /\ entry' = [entry EXCEPT ![a] = Null] /\ Local!Then(c, "end")
            /\ excused' = IF entry[a].creds THEN excused \cup {a} ELSE excused
        BY <1>2, <2>1, <1>p DEF Local!Remove
      <3>2. p = "end"
        BY <1>0, <1>b, <1>c, <3>1, CallMoves
      <3>3. Local!TypeOK' /\ AgentTouch(a) /\ entry'[a] = Null
        BY <1>0, <1>a, <1>c, <2>0, <3>1 DEF Local!TypeOK, AgentTouch
      <3>4. AgentFits(a)'
        BY <1>0, <1>a, <2>0, <3>0, <3>3 DEF AgentFits, LifeOf
      <3>5. SessionIsHeld(a)'
        BY <1>0, <1>a, <1>e, <2>0, <3>0, <3>1, <3>2, <3>3 DEF SessionIsHeld
      <3> QED BY <1>0, <1>a, <1>d, <3>3, <3>4, <3>5, OneAgent
    <2>2. CASE ~Local!MayRemove(a)
      <3>1. Local!Refuse(c)
        BY <1>2, <2>2, <1>p DEF Local!Remove
      <3>2. UNCHANGED <<entry, child>> /\ excused' = IF agentCalls[c].creds THEN excused \cup {a} ELSE excused
        BY <3>1, <1>p DEF Local!Refuse
      <3>3. Local!TypeOK' /\ AgentTouch(a)
        BY <1>0, <1>a, <1>c, <2>0, <3>2 DEF Local!TypeOK, AgentTouch
      <3>4. AgentFits(a)'
        BY <1>0, <1>a, <2>0, <3>2 DEF AgentFits, LifeOf
      <3>5. SessionIsHeld(a)'
        BY <1>0, <1>a, <1>e, <1>f, <2>0, <3>2 DEF SessionIsHeld
      <3> QED BY <1>0, <1>a, <1>d, <3>3, <3>4, <3>5, OneAgent
    <2> QED BY <2>1, <2>2
  <1>3. CASE Local!End(c)
    <2>u. UNCHANGED <<child, entry>>
      BY <1>3 DEF Local!End
    <2>0. \/ agentCalls[c].creds /\ daemonSession' = [daemonSession EXCEPT ![a] = "ended"] /\ excused' = excused
          \/ agentCalls[c].creds /\ excused' = excused \cup {a} /\ daemonSession' = daemonSession
          \/ ~agentCalls[c].creds /\ daemonSession' = daemonSession /\ excused' = excused
      BY <1>3, <1>p, Zenon DEF Local!End
    <2>1. Local!TypeOK' /\ AgentTouch(a)
      BY <1>0, <1>a, <1>c, <2>u, <2>0 DEF Local!TypeOK, AgentTouch
    <2>2. daemonSession'[a] \in {"ended", daemonSession[a]} /\ (daemonSession'[a] # "ended" => daemonSession'[a] = daemonSession[a])
      BY <1>0, <2>0 DEF Local!TypeOK
    <2>3. SessionIsHeld(a)'
      BY <1>0, <1>a, <1>e, <1>f, <2>u, <2>0, <2>2 DEF SessionIsHeld, Local!TypeOK
    <2>4. launch[a] \notin {"idle", "forked", "register"} \/ daemonSession'[a] = daemonSession[a]
      BY <1>0, <1>k, <2>0 DEF Local!TypeOK
    <2>5. AgentFits(a)'
      BY <1>0, <1>a, <2>u, <2>2, <2>4 DEF AgentFits, LifeOf
    <2> QED BY <1>0, <1>a, <1>d, <2>1, <2>3, <2>5, OneAgent
  <1> QED BY <1>1, <1>2, <1>3

LEMMA AllKilled == ASSUME AgentsInv, Local!KillAll PROVE AgentsInv'
  <1>0. Local!TypeOK /\ \A a \in LocalIds : AgentFits(a) /\ SessionIsHeld(a)
    BY AgentsFit DEF AgentsInv
  <1>1. quit' = TRUE /\ UNCHANGED <<launch, waiter, daemonSession, agentCalls, excused>>
    BY DEF Local!KillAll
  <1> DEFINE killed(a) == entry[a] # Null /\ entry[a].status = "running"
             halted(a) == [entry[a] EXCEPT !.status = "stopped"]
  <1>2. /\ entry' = [a \in LocalIds |-> IF killed(a) THEN halted(a) ELSE entry[a]]
        /\ child' \in [LocalIds -> {Null, "alive", "lost", "killed", "fine", "failed"}]
        /\ \A a \in LocalIds : IF killed(a) /\ child[a] = "alive" THEN child'[a] \in {"killed", "lost"} ELSE child'[a] = child[a]
    <2>1. entry' = [a \in LocalIds |-> IF killed(a) THEN halted(a) ELSE entry[a]]
      BY DEF Local!KillAll, Local!KilledListed, Local!Known
    <2>2. PICK spared \in SUBSET LocalIds :
              child' = [a \in LocalIds |-> IF ~killed(a) \/ child[a] # "alive" THEN child[a] ELSE IF a \in spared THEN "lost" ELSE "killed"]
      BY DEF Local!KillAll, Local!KilledListed, Local!Known
    <2> QED BY <1>0, <2>1, <2>2 DEF AgentFits
  <1>3. ASSUME NEW a \in LocalIds, killed(a)
        PROVE  halted(a) \in Local!Entries /\ halted(a).status = "stopped" /\ (halted(a).creds <=> entry[a].creds)
    BY <1>0, <1>3 DEF AgentFits, Local!Entries
  <1>4. ASSUME NEW a \in LocalIds, killed(a) PROVE halted(a) # Null
    BY <1>3, <1>4, NoneIsNoEntry
  <1> HIDE DEF halted
  <1>5. Local!TypeOK'
    <2>1. entry' \in [LocalIds -> Local!Entries \cup {Null}]
      BY <1>0, <1>2, <1>3 DEF AgentFits
    <2>2. child' \in [LocalIds -> {Null, "alive", "lost", "killed", "fine", "failed"}]
      BY <1>2
    <2> QED BY <1>0, <1>1, <2>1, <2>2 DEF Local!TypeOK
  <1>6. ASSUME NEW a \in LocalIds PROVE AgentFits(a)' /\ SessionIsHeld(a)'
    <2>1. CASE killed(a)
      <3>1. /\ entry'[a] = halted(a)
            /\ IF child[a] = "alive" THEN child'[a] \in {"killed", "lost"} ELSE child'[a] = child[a]
        BY <1>2, <2>1
      <3>2. AgentFits(a)'
        BY <1>0, <1>1, <1>3, <1>4, <2>1, <3>1, LocalAssumption DEF AgentFits, LifeOf
      <3>3. SessionIsHeld(a)'
        BY <1>0, <1>1, <1>3, <1>4, <2>1, <3>1 DEF SessionIsHeld, Held
      <3> QED BY <3>2, <3>3
    <2>2. CASE ~killed(a)
      <3>1. entry'[a] = entry[a] /\ child'[a] = child[a]
        BY <1>2, <2>2
      <3>2. AgentFits(a)' /\ SessionIsHeld(a)'
        BY <1>0, <1>1, <2>2, <3>1 DEF AgentFits, LifeOf, SessionIsHeld, Held
      <3> QED BY <3>2
    <2> QED BY <2>1, <2>2
  <1>7. \A c \in StudioCalls : CallKnows(c)'
    BY <1>1 DEF AgentsInv, CallKnows
  <1> QED BY <1>5, <1>6, <1>7, FitAgents

LEMMA AgentsStep == AgentsInv /\ Local!Next => AgentsInv'
  BY StartStep, WaitStep, CallTakes, CallEnds, AllKilled DEF Local!Next

LEMMA AgentsRest == AgentsInv /\ UNCHANGED agentVars => AgentsInv'
  BY DEF agentVars, AgentsInv, LifeOf, SessionIsHeld, Held, CallKnows, Local!TypeOK, Local!ChildrenAreListed, Local!EndIsHonest, Local!Known

LEMMA AgentsHold ==
    AgentsInv => Local!TypeOK /\ Local!ChildrenAreListed /\ Local!EndIsHonest /\ Local!SessionsFollowAgents
  BY DEF AgentsInv, SessionIsHeld, Held, Local!SessionsFollowAgents, Local!Known
-----------------------------------------------------------------------------
(* Terminals of Studio, and the host keys they meet.                       *)

\* While nothing was excused all that went on share the key that is known, and only one is to learn it.
KeysInv ==
    /\ \A s \in TermIds : sess[s].at \in {"idle", "dialing"} => sess[s].key = Null
    /\ \A s \in TermIds : sess[s].at = "unknown" => sess[s].key # Null
    /\ unclaimed.keys = {} =>
         /\ \A s \in TermIds : sess[s].key # Null /\ sess[s].at \notin {"failed", "unknown"}
              => knownHosts # <<>> /\ sess[s].key = knownHosts[1]
         /\ \A s, t \in TermIds : sess[s].at = "unknown" /\ sess[t].at = "unknown" => s = t
         /\ \A s \in TermIds : sess[s].at = "unknown" => knownHosts = <<>>

Opened == {"heard", "listening", "shown"}
Opening == {"dialing", "unknown", "keyed", "up", "returned"}

\* Where a session may be, given what became of its pump and whether it is stored.
SessionFits(s) ==
    /\ s \in mapped => sess[s].pump # "none" /\ sess[s].at \in Opened \cup {"returned"}
    /\ sess[s].pump # "none" => sess[s].at \in Opened \cup {"up", "returned"}
    /\ sess[s].at = "up" => (kind = "ssh" <=> sess[s].pump # "none")
    /\ s \in endings => sess[s].pump \in {"ended", "gone"}
    /\ sess[s].pump = "gone" /\ (s \in mapped \/ sess[s].at = "up") => s \in unclaimed.strays
    /\ sess[s].at \in Opening => hook.ref = Null
    /\ sess[s].at \in Opening \cup {"heard", "listening"} /\ ~hook.mounted => s \in unclaimed.strays

\* One attempt at a time; the hook refers to a session that got its number, and closes one that is forgotten.
HookFits ==
    /\ \A s, t \in TermIds : sess[s].at \in Opening \cup {"heard", "listening"}
                          /\ sess[t].at \in Opening \cup {"heard", "listening"} => s = t
    /\ hook.ref # Null => sess[hook.ref].at \in Opened
    /\ hook.closing # Null => hook.closing \notin mapped /\ sess[hook.closing].at \in Opened

PanelInv == HookFits /\ Terms!NoStrays /\ \A s \in TermIds : SessionFits(s)

TermsInv == Terms!TypeOK /\ (client = "hostkeys" => KeysInv) /\ (client = "terminals" => PanelInv)
-----------------------------------------------------------------------------
SessPlaces == {"idle", "dialing", "unknown", "keyed", "up", "returned", "heard", "listening", "shown", "failed"}
WholeSess == [at : SessPlaces, key : HostKeys \cup {Null}, pump : {"none", "running", "ended", "gone"}]
WholeHook == [ref : TermIds \cup {Null}, shown : TermIds \cup {Null}, ears : SUBSET TermIds,
              ear : TermIds \cup {Null}, closing : TermIds \cup {Null},
              sending : TermIds \cup {Null}, mounted : BOOLEAN]
WholeExcuse == [keys : SUBSET TermIds, strays : SUBSET TermIds, unheard : SUBSET TermIds]

LEMMA TermsTypes ==
    Terms!TypeOK <=> /\ kind \in {"ssh", "shell"} /\ knownHosts \in Seq(HostKeys)
                     /\ sess \in [TermIds -> WholeSess] /\ mapped \subseteq TermIds /\ endings \subseteq TermIds
                     /\ hook \in WholeHook /\ unclaimed \in WholeExcuse
  BY DEF Terms!TypeOK, WholeSess, SessPlaces, WholeHook, WholeExcuse

LEMMA TermsTypesNext ==
    Terms!TypeOK' <=> /\ kind' \in {"ssh", "shell"} /\ knownHosts' \in Seq(HostKeys)
                     /\ sess' \in [TermIds -> WholeSess] /\ mapped' \subseteq TermIds /\ endings' \subseteq TermIds
                     /\ hook' \in WholeHook /\ unclaimed' \in WholeExcuse
  BY DEF Terms!TypeOK, WholeSess, SessPlaces, WholeHook, WholeExcuse

\* A session that moves keeps its key and its pump, one whose pump changes keeps its place.
LEMMA SessMoves ==
    ASSUME sess \in [TermIds -> WholeSess], NEW s \in TermIds, NEW x \in SessPlaces, sess' = [sess EXCEPT ![s].at = x]
    PROVE  /\ sess' \in [TermIds -> WholeSess] /\ sess'[s].at = x /\ sess'[s].key = sess[s].key /\ sess'[s].pump = sess[s].pump
           /\ \A t \in TermIds : t # s => sess'[t] = sess[t]
  <1> DEFINE n == [sess[s] EXCEPT !.at = x]
  <1>1. sess' = [sess EXCEPT ![s] = n]
    OBVIOUS
  <1>2. n \in WholeSess /\ n.at = x /\ n.key = sess[s].key /\ n.pump = sess[s].pump
    BY DEF WholeSess
  <1> QED BY <1>1, <1>2

LEMMA PumpMoves ==
    ASSUME sess \in [TermIds -> WholeSess], NEW s \in TermIds, NEW x \in {"running", "ended", "gone"}, sess' = [sess EXCEPT ![s].pump = x]
    PROVE  /\ sess' \in [TermIds -> WholeSess] /\ sess'[s].pump = x /\ sess'[s].key = sess[s].key /\ sess'[s].at = sess[s].at
           /\ \A t \in TermIds : t # s => sess'[t] = sess[t]
  <1> DEFINE n == [sess[s] EXCEPT !.pump = x]
  <1>1. sess' = [sess EXCEPT ![s] = n]
    OBVIOUS
  <1>2. n \in WholeSess /\ n.at = sess[s].at /\ n.key = sess[s].key /\ n.pump = x
    BY DEF WholeSess
  <1> QED BY <1>1, <1>2

LEMMA BothMove ==
    ASSUME sess \in [TermIds -> WholeSess], NEW s \in TermIds, NEW x \in SessPlaces,
           sess' = [sess EXCEPT ![s].at = x, ![s].pump = "running"]
    PROVE  /\ sess' \in [TermIds -> WholeSess] /\ sess'[s].at = x /\ sess'[s].key = sess[s].key /\ sess'[s].pump = "running"
           /\ \A t \in TermIds : t # s => sess'[t] = sess[t]
  <1> DEFINE n == [[sess[s] EXCEPT !.at = x] EXCEPT !.pump = "running"]
  <1>1. sess' = [sess EXCEPT ![s] = n]
    OBVIOUS
  <1>2. n \in WholeSess /\ n.at = x /\ n.key = sess[s].key /\ n.pump = "running"
    BY DEF WholeSess
  <1> QED BY <1>1, <1>2

LEMMA TermsStart == Terms!Init => Terms!TypeOK /\ KeysInv /\ PanelInv
  <1> SUFFICES ASSUME Terms!Init PROVE Terms!TypeOK /\ KeysInv /\ PanelInv
    OBVIOUS
  <1>1. /\ \A s \in TermIds : sess[s].at = "idle" /\ sess[s].key = Null /\ sess[s].pump = "none"
        /\ mapped = {} /\ endings = {} /\ hook.ref = Null /\ hook.closing = Null
    BY DEF Terms!Init
  <1>2. Terms!TypeOK
    <2>1. knownHosts \in Seq(HostKeys)
      <3>1. ASSUME NEW k \in HostKeys PROVE <<k>> \in Seq(HostKeys)
        OBVIOUS
      <3>2. <<>> \in Seq(HostKeys)
        OBVIOUS
      <3> QED BY <3>1, <3>2 DEF Terms!Init
    <2> QED BY <2>1, TermsTypes DEF Terms!Init, WholeSess, SessPlaces, WholeHook, WholeExcuse
  <1>3. KeysInv
    BY <1>1 DEF KeysInv
  <1>4. PanelInv
    BY <1>1 DEF PanelInv, HookFits, SessionFits, Opened, Opening, Terms!NoStrays
  <1> QED BY <1>2, <1>3, <1>4

LEMMA KeyStep == Terms!TypeOK /\ KeysInv /\ Terms!KeyNext => Terms!TypeOK' /\ KeysInv'
  <1> SUFFICES ASSUME Terms!TypeOK, KeysInv, Terms!KeyNext PROVE Terms!TypeOK' /\ KeysInv'
    OBVIOUS
  <1>0. PICK s \in TermIds : Terms!Connect(s) \/ Terms!Learn(s) \/ Terms!ConnectFails(s) \/ \E k \in HostKeys : Terms!CheckKey(s, k)
    BY DEF Terms!KeyNext
  <1>t. /\ kind \in {"ssh", "shell"} /\ knownHosts \in Seq(HostKeys)
        /\ sess \in [TermIds -> WholeSess] /\ mapped \subseteq TermIds /\ endings \subseteq TermIds
        /\ hook \in WholeHook /\ unclaimed \in WholeExcuse
    BY TermsTypes
  <1>u. UNCHANGED <<kind, mapped, endings, hook>>
    BY <1>0 DEF Terms!Connect, Terms!Learn, Terms!ConnectFails, Terms!CheckKey
  <1>1. CASE Terms!Connect(s)
    <2>1. sess[s].at = "idle" /\ UNCHANGED <<knownHosts, unclaimed>>
      BY <1>1 DEF Terms!Connect, Terms!At
    <2>2. PICK x \in {"dialing", "up"} : sess' = [sess EXCEPT ![s].at = x]
      BY <1>1 DEF Terms!Connect
    <2>3. /\ sess' \in [TermIds -> WholeSess] /\ sess'[s].at = x /\ sess'[s].key = sess[s].key
          /\ \A t \in TermIds : t # s => sess'[t] = sess[t]
      BY <1>t, <2>2, SessMoves DEF SessPlaces
    <2>4. KeysInv'
      BY <2>1, <2>3 DEF KeysInv
    <2> QED BY <1>t, <1>u, <2>1, <2>3, <2>4, TermsTypesNext
  <1>2. CASE Terms!ConnectFails(s)
    <2>1. UNCHANGED <<knownHosts, unclaimed>> /\ sess' = [sess EXCEPT ![s].at = "failed"]
      BY <1>2 DEF Terms!ConnectFails
    <2>3. /\ sess' \in [TermIds -> WholeSess] /\ sess'[s].at = "failed" /\ sess'[s].key = sess[s].key
          /\ \A t \in TermIds : t # s => sess'[t] = sess[t]
      BY <1>t, <2>1, SessMoves DEF SessPlaces
    <2>4. KeysInv'
      BY <2>1, <2>3 DEF KeysInv
    <2> QED BY <1>t, <1>u, <2>1, <2>3, <2>4, TermsTypesNext
  <1>3. CASE Terms!Learn(s)
    <2>1. sess[s].at = "unknown" /\ sess' = [sess EXCEPT ![s].at = "keyed"]
      BY <1>3 DEF Terms!Learn, Terms!At
    <2>3. /\ sess' \in [TermIds -> WholeSess] /\ sess'[s].at = "keyed" /\ sess'[s].key = sess[s].key
          /\ \A t \in TermIds : t # s => sess'[t] = sess[t]
      BY <1>t, <2>1, SessMoves DEF SessPlaces
    <2>4. CASE knownHosts' = Append(knownHosts, sess[s].key) /\ unclaimed' = unclaimed
      <3>1. CASE unclaimed.keys = {} 
        <4>1. knownHosts = <<>> /\ sess[s].key \in HostKeys
          BY <1>t, <2>1, <3>1 DEF KeysInv, WholeSess
        <4>2. knownHosts' = <<sess[s].key>> /\ knownHosts' # <<>> /\ knownHosts'[1] = sess[s].key /\ knownHosts' \in Seq(HostKeys)
          BY <2>4, <4>1
        <4>3. \A t \in TermIds : t # s /\ sess[t].at # "failed" => sess[t].key = Null /\ sess[t].at # "unknown"
          BY <2>1, <3>1, <4>1 DEF KeysInv
        <4>4. KeysInv'
          BY <2>1, <2>3, <4>2, <4>3, <3>1, <2>4 DEF KeysInv
        <4> QED BY <1>t, <1>u, <2>3, <2>4, <4>2, <4>4, TermsTypesNext
      <3>2. CASE unclaimed.keys # {}
        <4>1. KeysInv'
          BY <2>1, <2>3, <2>4, <3>2 DEF KeysInv
        <4>2. sess[s].key \in HostKeys
          BY <1>t, <2>1 DEF KeysInv, WholeSess
        <4>3. knownHosts' \in Seq(HostKeys)
          BY <1>t, <2>4, <4>2
        <4> QED BY <1>t, <1>u, <2>3, <2>4, <4>1, <4>3, TermsTypesNext
      <3> QED BY <3>1, <3>2
    <2>5. CASE unclaimed' = [unclaimed EXCEPT !.keys = @ \cup {s}] /\ knownHosts' = knownHosts
      <3>1. unclaimed' \in WholeExcuse /\ unclaimed'.keys # {}
        BY <1>t, <2>5 DEF WholeExcuse
      <3>2. KeysInv'
        BY <2>1, <2>3, <3>1 DEF KeysInv
      <3> QED BY <1>t, <1>u, <2>3, <2>5, <3>1, <3>2, TermsTypesNext
    <2> QED BY <1>3, <2>4, <2>5 DEF Terms!Learn
  <1>4. ASSUME NEW k \in HostKeys, Terms!CheckKey(s, k) PROVE Terms!TypeOK' /\ KeysInv'
    <2> DEFINE x == IF knownHosts = <<>> THEN "unknown" ELSE IF Terms!Matching(k) THEN "keyed" ELSE "failed"
               n == [sess[s] EXCEPT !.key = k, !.at = x]
    <2>1. sess[s].at = "dialing" /\ sess' = [sess EXCEPT ![s] = n] /\ knownHosts' = knownHosts
      BY <1>4 DEF Terms!CheckKey, Terms!At
    <2>2. n \in WholeSess /\ n.at = x /\ n.key = k
      BY <1>t DEF WholeSess, SessPlaces
    <2>3. /\ sess' \in [TermIds -> WholeSess] /\ sess'[s] = n
          /\ \A t \in TermIds : t # s => sess'[t] = sess[t]
      BY <1>t, <2>1, <2>2
    <2> HIDE DEF n
    <2>4. CASE knownHosts = <<>> /\ \E t \in TermIds : sess[t].at = "unknown"
      <3> DEFINE more == {s} \cup {t \in TermIds : Terms!At(t, {"unknown"})}
      <3>1. unclaimed' = [unclaimed EXCEPT !.keys = @ \cup more]
        BY <1>4, <2>4 DEF Terms!CheckKey, Terms!At
      <3>2. unclaimed' \in WholeExcuse /\ unclaimed'.keys # {}
        BY <1>t, <3>1 DEF WholeExcuse
      <3>n. k # Null
        BY TerminalsAssumption
      <3>3. KeysInv'
        BY <2>1, <2>2, <2>3, <3>n, <3>2 DEF KeysInv
      <3> QED BY <1>t, <1>u, <2>1, <2>3, <3>2, <3>3, TermsTypesNext
    <2>5. CASE ~(knownHosts = <<>> /\ \E t \in TermIds : sess[t].at = "unknown")
      <3>1. unclaimed' = unclaimed
        BY <1>4, <2>5 DEF Terms!CheckKey, Terms!At
      <3>2. k # Null
        BY TerminalsAssumption
      <3>3. KeysInv'
        BY <2>1, <2>2, <2>3, <2>5, <3>1, <3>2 DEF KeysInv, Terms!Matching
      <3> QED BY <1>t, <1>u, <2>1, <2>3, <3>1, <3>3, TermsTypesNext
    <2> QED BY <2>4, <2>5
  <1> QED BY <1>0, <1>1, <1>2, <1>3, <1>4

\* The panel's hook with other references.
LEMMA HookClears == ASSUME NEW h \in WholeHook, NEW x \in WholeHook, x = Terms!Cleared(h)
                    PROVE  x.ref = Null /\ x.closing = h.closing /\ (x.mounted <=> h.mounted) /\ x.sending = h.sending
  BY DEF Terms!Cleared, WholeHook

LEMMA ClearedHook == ASSUME NEW h \in WholeHook PROVE Terms!Cleared(h) \in WholeHook
  BY DEF Terms!Cleared, WholeHook

LEMMA PanelStartPump ==
    ASSUME Terms!TypeOK, PanelInv, NEW s \in TermIds, Terms!StartPump(s)
    PROVE  Terms!TypeOK' /\ PanelInv'
  <1>t. /\ kind \in {"ssh", "shell"} /\ knownHosts \in Seq(HostKeys)
        /\ sess \in [TermIds -> WholeSess] /\ mapped \subseteq TermIds /\ endings \subseteq TermIds
        /\ hook \in WholeHook /\ unclaimed \in WholeExcuse
    BY TermsTypes
  <1>u. UNCHANGED <<kind, knownHosts>>
    BY DEF Terms!StartPump
  <1>a. sess' = [sess EXCEPT ![s].at = "up", ![s].pump = "running"]
    BY DEF Terms!StartPump
  <1>s. /\ sess' \in [TermIds -> WholeSess] /\ sess'[s].at = "up" /\ sess'[s].pump = "running"
        /\ \A t \in TermIds : t # s => sess'[t] = sess[t]
    BY <1>t, <1>a, BothMove DEF SessPlaces
  <1>h. hook' = hook
    BY DEF Terms!StartPump
  <1>r. UNCHANGED <<mapped, endings, unclaimed>>
    BY DEF Terms!StartPump
  <1>g. sess[s].at = "keyed" /\ kind = "ssh"
    BY DEF Terms!StartPump, Terms!At
  <1>y. Terms!TypeOK'
    BY <1>t, <1>u, <1>s, <1>h, <1>r, TermsTypesNext DEF WholeExcuse
  <1>1. ASSUME NEW t \in TermIds PROVE SessionFits(t)'
    BY <1>t, <1>u, <1>s, <1>h, <1>r, <1>g DEF PanelInv, HookFits, SessionFits, Opened, Opening
  <1>2. HookFits'
    BY <1>t, <1>s, <1>h, <1>r, <1>g, TerminalsAssumption DEF PanelInv, HookFits, SessionFits, Opened, Opening, WholeHook
  <1>3. Terms!NoStrays'
    BY <1>t, <1>s, <1>h, <1>r, <1>g, TerminalsAssumption DEF PanelInv, HookFits, SessionFits, Opened, Opening, Terms!NoStrays, Terms!At, WholeExcuse
  <1> QED BY <1>y, <1>1, <1>2, <1>3 DEF PanelInv

LEMMA PanelStore ==
    ASSUME Terms!TypeOK, PanelInv, NEW s \in TermIds, Terms!Store(s)
    PROVE  Terms!TypeOK' /\ PanelInv'
  <1>t. /\ kind \in {"ssh", "shell"} /\ knownHosts \in Seq(HostKeys)
        /\ sess \in [TermIds -> WholeSess] /\ mapped \subseteq TermIds /\ endings \subseteq TermIds
        /\ hook \in WholeHook /\ unclaimed \in WholeExcuse
    BY TermsTypes
  <1>u. UNCHANGED <<kind, knownHosts>>
    BY DEF Terms!Store
  <1>a. sess' = [sess EXCEPT ![s].at = "returned"]
    BY DEF Terms!Store
  <1>s. /\ sess' \in [TermIds -> WholeSess] /\ sess'[s].at = "returned" /\ sess'[s].pump = sess[s].pump
        /\ \A t \in TermIds : t # s => sess'[t] = sess[t]
    BY <1>t, <1>a, SessMoves DEF SessPlaces
  <1>h. hook' = hook
    BY DEF Terms!Store
  <1>r. mapped' = mapped \cup {s} /\ UNCHANGED <<endings, unclaimed>>
    BY DEF Terms!Store
  <1>g. sess[s].at = "up" /\ kind = "ssh"
    BY DEF Terms!Store, Terms!At
  <1>y. Terms!TypeOK'
    BY <1>t, <1>u, <1>s, <1>h, <1>r, TermsTypesNext DEF WholeExcuse
  <1>1. ASSUME NEW t \in TermIds PROVE SessionFits(t)'
    BY <1>t, <1>u, <1>s, <1>h, <1>r, <1>g DEF PanelInv, HookFits, SessionFits, Opened, Opening
  <1>2. HookFits'
    BY <1>t, <1>s, <1>h, <1>r, <1>g, TerminalsAssumption DEF PanelInv, HookFits, SessionFits, Opened, Opening, WholeHook
  <1>3. Terms!NoStrays'
    BY <1>t, <1>s, <1>h, <1>r, <1>g, TerminalsAssumption DEF PanelInv, HookFits, SessionFits, Opened, Opening, Terms!NoStrays, Terms!At, WholeExcuse
  <1> QED BY <1>y, <1>1, <1>2, <1>3 DEF PanelInv

LEMMA PanelOpenShell ==
    ASSUME Terms!TypeOK, PanelInv, NEW s \in TermIds, Terms!OpenShell(s)
    PROVE  Terms!TypeOK' /\ PanelInv'
  <1>t. /\ kind \in {"ssh", "shell"} /\ knownHosts \in Seq(HostKeys)
        /\ sess \in [TermIds -> WholeSess] /\ mapped \subseteq TermIds /\ endings \subseteq TermIds
        /\ hook \in WholeHook /\ unclaimed \in WholeExcuse
    BY TermsTypes
  <1>u. UNCHANGED <<kind, knownHosts>>
    BY DEF Terms!OpenShell
  <1>a. sess' = [sess EXCEPT ![s].at = "returned", ![s].pump = "running"]
    BY DEF Terms!OpenShell
  <1>s. /\ sess' \in [TermIds -> WholeSess] /\ sess'[s].at = "returned" /\ sess'[s].pump = "running"
        /\ \A t \in TermIds : t # s => sess'[t] = sess[t]
    BY <1>t, <1>a, BothMove DEF SessPlaces
  <1>h. hook' = hook
    BY DEF Terms!OpenShell
  <1>r. mapped' = mapped \cup {s} /\ UNCHANGED <<endings, unclaimed>>
    BY DEF Terms!OpenShell
  <1>g. sess[s].at = "up" /\ kind = "shell"
    BY DEF Terms!OpenShell, Terms!At
  <1>y. Terms!TypeOK'
    BY <1>t, <1>u, <1>s, <1>h, <1>r, TermsTypesNext DEF WholeExcuse
  <1>1. ASSUME NEW t \in TermIds PROVE SessionFits(t)'
    BY <1>t, <1>u, <1>s, <1>h, <1>r, <1>g DEF PanelInv, HookFits, SessionFits, Opened, Opening
  <1>2. HookFits'
    BY <1>t, <1>s, <1>h, <1>r, <1>g, TerminalsAssumption DEF PanelInv, HookFits, SessionFits, Opened, Opening, WholeHook
  <1>3. Terms!NoStrays'
    BY <1>t, <1>s, <1>h, <1>r, <1>g, TerminalsAssumption DEF PanelInv, HookFits, SessionFits, Opened, Opening, Terms!NoStrays, Terms!At, WholeExcuse
  <1> QED BY <1>y, <1>1, <1>2, <1>3 DEF PanelInv

LEMMA PanelEnd ==
    ASSUME Terms!TypeOK, PanelInv, NEW s \in TermIds, Terms!End(s)
    PROVE  Terms!TypeOK' /\ PanelInv'
  <1>t. /\ kind \in {"ssh", "shell"} /\ knownHosts \in Seq(HostKeys)
        /\ sess \in [TermIds -> WholeSess] /\ mapped \subseteq TermIds /\ endings \subseteq TermIds
        /\ hook \in WholeHook /\ unclaimed \in WholeExcuse
    BY TermsTypes
  <1>u. UNCHANGED <<kind, knownHosts>>
    BY DEF Terms!End
  <1>a. sess' = [sess EXCEPT ![s].pump = "ended"]
    BY DEF Terms!End
  <1>s. /\ sess' \in [TermIds -> WholeSess] /\ sess'[s].pump = "ended" /\ sess'[s].at = sess[s].at
        /\ \A t \in TermIds : t # s => sess'[t] = sess[t]
    BY <1>t, <1>a, PumpMoves DEF SessPlaces
  <1>h. hook' = hook
    BY DEF Terms!End
  <1>r. endings' = endings \cup {s} /\ UNCHANGED <<mapped, unclaimed>>
    BY DEF Terms!End
  <1>g. sess[s].pump = "running"
    BY DEF Terms!End, Terms!At
  <1>y. Terms!TypeOK'
    BY <1>t, <1>u, <1>s, <1>h, <1>r, TermsTypesNext DEF WholeExcuse
  <1>1. ASSUME NEW t \in TermIds PROVE SessionFits(t)'
    BY <1>t, <1>u, <1>s, <1>h, <1>r, <1>g DEF PanelInv, HookFits, SessionFits, Opened, Opening
  <1>2. HookFits'
    BY <1>t, <1>s, <1>h, <1>r, <1>g, TerminalsAssumption DEF PanelInv, HookFits, SessionFits, Opened, Opening, WholeHook
  <1>3. Terms!NoStrays'
    BY <1>t, <1>s, <1>h, <1>r, <1>g, TerminalsAssumption DEF PanelInv, HookFits, SessionFits, Opened, Opening, Terms!NoStrays, Terms!At, WholeExcuse
  <1> QED BY <1>y, <1>1, <1>2, <1>3 DEF PanelInv

LEMMA PanelCleanUp ==
    ASSUME Terms!TypeOK, PanelInv, NEW s \in TermIds, Terms!CleanUp(s)
    PROVE  Terms!TypeOK' /\ PanelInv'
  <1>t. /\ kind \in {"ssh", "shell"} /\ knownHosts \in Seq(HostKeys)
        /\ sess \in [TermIds -> WholeSess] /\ mapped \subseteq TermIds /\ endings \subseteq TermIds
        /\ hook \in WholeHook /\ unclaimed \in WholeExcuse
    BY TermsTypes
  <1>u. UNCHANGED <<kind, knownHosts>>
    BY DEF Terms!CleanUp
  <1>a. sess' = [sess EXCEPT ![s].pump = "gone"]
    BY DEF Terms!CleanUp
  <1>s. /\ sess' \in [TermIds -> WholeSess] /\ sess'[s].pump = "gone" /\ sess'[s].at = sess[s].at
        /\ \A t \in TermIds : t # s => sess'[t] = sess[t]
    BY <1>t, <1>a, PumpMoves DEF SessPlaces
  <1>h. hook' = hook
    BY DEF Terms!CleanUp
  <1>r. /\ mapped' = mapped \ {s} /\ endings' = endings /\ unclaimed' \in WholeExcuse
        /\ unclaimed.strays \subseteq unclaimed'.strays /\ (sess[s].at = "up" => s \in unclaimed'.strays)
    BY <1>t DEF Terms!CleanUp, Terms!CleanedUp, Terms!At, WholeExcuse
  <1>g. sess[s].pump = "ended"
    BY DEF Terms!CleanUp, Terms!At
  <1>y. Terms!TypeOK'
    BY <1>t, <1>u, <1>s, <1>h, <1>r, TermsTypesNext DEF WholeExcuse
  <1>1. ASSUME NEW t \in TermIds PROVE SessionFits(t)'
    BY <1>t, <1>u, <1>s, <1>h, <1>r, <1>g DEF PanelInv, HookFits, SessionFits, Opened, Opening
  <1>2. HookFits'
    BY <1>t, <1>s, <1>h, <1>r, <1>g, TerminalsAssumption DEF PanelInv, HookFits, SessionFits, Opened, Opening, WholeHook
  <1>3. Terms!NoStrays'
    BY <1>t, <1>s, <1>h, <1>r, <1>g, TerminalsAssumption DEF PanelInv, HookFits, SessionFits, Opened, Opening, Terms!NoStrays, Terms!At, WholeExcuse
  <1> QED BY <1>y, <1>1, <1>2, <1>3 DEF PanelInv

LEMMA PanelGotId ==
    ASSUME Terms!TypeOK, PanelInv, NEW s \in TermIds, Terms!GotId(s)
    PROVE  Terms!TypeOK' /\ PanelInv'
  <1>t. /\ kind \in {"ssh", "shell"} /\ knownHosts \in Seq(HostKeys)
        /\ sess \in [TermIds -> WholeSess] /\ mapped \subseteq TermIds /\ endings \subseteq TermIds
        /\ hook \in WholeHook /\ unclaimed \in WholeExcuse
    BY TermsTypes
  <1>u. UNCHANGED <<kind, knownHosts>>
    BY DEF Terms!GotId
  <1>a. sess' = [sess EXCEPT ![s].at = "heard"]
    BY DEF Terms!GotId
  <1>s. /\ sess' \in [TermIds -> WholeSess] /\ sess'[s].at = "heard" /\ sess'[s].pump = sess[s].pump
        /\ \A t \in TermIds : t # s => sess'[t] = sess[t]
    BY <1>t, <1>a, SessMoves DEF SessPlaces
  <1>b. hook' = [hook EXCEPT !.ref = s]
    BY DEF Terms!GotId
  <1>h. hook' \in WholeHook /\ hook'.ref = s /\ hook'.closing = hook.closing /\ (hook'.mounted <=> hook.mounted)
    BY <1>t, <1>b DEF WholeHook
  <1>r. UNCHANGED <<mapped, endings, unclaimed>>
    BY DEF Terms!GotId
  <1>g. sess[s].at = "returned"
    BY DEF Terms!GotId, Terms!At
  <1>y. Terms!TypeOK'
    BY <1>t, <1>u, <1>s, <1>h, <1>r, TermsTypesNext DEF WholeExcuse
  <1>1. ASSUME NEW t \in TermIds PROVE SessionFits(t)'
    BY <1>t, <1>u, <1>s, <1>h, <1>r, <1>g DEF PanelInv, HookFits, SessionFits, Opened, Opening
  <1>2. HookFits'
    BY <1>t, <1>s, <1>h, <1>r, <1>g, TerminalsAssumption DEF PanelInv, HookFits, SessionFits, Opened, Opening, WholeHook
  <1>3. Terms!NoStrays'
    BY <1>t, <1>s, <1>h, <1>r, <1>g, TerminalsAssumption DEF PanelInv, HookFits, SessionFits, Opened, Opening, Terms!NoStrays, Terms!At, WholeExcuse
  <1> QED BY <1>y, <1>1, <1>2, <1>3 DEF PanelInv

LEMMA PanelListenForEnd ==
    ASSUME Terms!TypeOK, PanelInv, NEW s \in TermIds, Terms!ListenForEnd(s)
    PROVE  Terms!TypeOK' /\ PanelInv'
  <1>t. /\ kind \in {"ssh", "shell"} /\ knownHosts \in Seq(HostKeys)
        /\ sess \in [TermIds -> WholeSess] /\ mapped \subseteq TermIds /\ endings \subseteq TermIds
        /\ hook \in WholeHook /\ unclaimed \in WholeExcuse
    BY TermsTypes
  <1>u. UNCHANGED <<kind, knownHosts>>
    BY DEF Terms!ListenForEnd
  <1>a. sess' = [sess EXCEPT ![s].at = "listening"]
    BY DEF Terms!ListenForEnd
  <1>s. /\ sess' \in [TermIds -> WholeSess] /\ sess'[s].at = "listening" /\ sess'[s].pump = sess[s].pump
        /\ \A t \in TermIds : t # s => sess'[t] = sess[t]
    BY <1>t, <1>a, SessMoves DEF SessPlaces
  <1>b. hook' = [hook EXCEPT !.ears = @ \cup {s}, !.ear = s]
    BY DEF Terms!ListenForEnd
  <1>h. hook' \in WholeHook /\ hook'.ref = hook.ref /\ hook'.closing = hook.closing /\ (hook'.mounted <=> hook.mounted)
    BY <1>t, <1>b DEF WholeHook
  <1>r. UNCHANGED <<mapped, endings, unclaimed>>
    BY DEF Terms!ListenForEnd
  <1>g. sess[s].at = "heard"
    BY DEF Terms!ListenForEnd, Terms!At
  <1>y. Terms!TypeOK'
    BY <1>t, <1>u, <1>s, <1>h, <1>r, TermsTypesNext DEF WholeExcuse
  <1>1. ASSUME NEW t \in TermIds PROVE SessionFits(t)'
    BY <1>t, <1>u, <1>s, <1>h, <1>r, <1>g DEF PanelInv, HookFits, SessionFits, Opened, Opening
  <1>2. HookFits'
    BY <1>t, <1>s, <1>h, <1>r, <1>g, TerminalsAssumption DEF PanelInv, HookFits, SessionFits, Opened, Opening, WholeHook
  <1>3. Terms!NoStrays'
    BY <1>t, <1>s, <1>h, <1>r, <1>g, TerminalsAssumption DEF PanelInv, HookFits, SessionFits, Opened, Opening, Terms!NoStrays, Terms!At, WholeExcuse
  <1> QED BY <1>y, <1>1, <1>2, <1>3 DEF PanelInv

LEMMA PanelShow ==
    ASSUME Terms!TypeOK, PanelInv, NEW s \in TermIds, Terms!Show(s)
    PROVE  Terms!TypeOK' /\ PanelInv'
  <1>t. /\ kind \in {"ssh", "shell"} /\ knownHosts \in Seq(HostKeys)
        /\ sess \in [TermIds -> WholeSess] /\ mapped \subseteq TermIds /\ endings \subseteq TermIds
        /\ hook \in WholeHook /\ unclaimed \in WholeExcuse
    BY TermsTypes
  <1>u. UNCHANGED <<kind, knownHosts>>
    BY DEF Terms!Show
  <1>a. sess' = [sess EXCEPT ![s].at = "shown"]
    BY DEF Terms!Show
  <1>s. /\ sess' \in [TermIds -> WholeSess] /\ sess'[s].at = "shown" /\ sess'[s].pump = sess[s].pump
        /\ \A t \in TermIds : t # s => sess'[t] = sess[t]
    BY <1>t, <1>a, SessMoves DEF SessPlaces
  <1>b. hook' = IF hook.mounted THEN [hook EXCEPT !.shown = s] ELSE hook
    BY DEF Terms!Show
  <1>h. hook' \in WholeHook /\ hook'.ref = hook.ref /\ hook'.closing = hook.closing /\ (hook'.mounted <=> hook.mounted)
    BY <1>t, <1>b DEF WholeHook
  <1>r. /\ UNCHANGED <<mapped, endings>> /\ unclaimed' \in WholeExcuse /\ unclaimed'.strays = unclaimed.strays
    BY <1>t DEF Terms!Show, WholeExcuse
  <1>g. sess[s].at = "listening"
    BY DEF Terms!Show, Terms!At
  <1>y. Terms!TypeOK'
    BY <1>t, <1>u, <1>s, <1>h, <1>r, TermsTypesNext DEF WholeExcuse
  <1>1. ASSUME NEW t \in TermIds PROVE SessionFits(t)'
    BY <1>t, <1>u, <1>s, <1>h, <1>r, <1>g DEF PanelInv, HookFits, SessionFits, Opened, Opening
  <1>2. HookFits'
    BY <1>t, <1>s, <1>h, <1>r, <1>g, TerminalsAssumption DEF PanelInv, HookFits, SessionFits, Opened, Opening, WholeHook
  <1>3. Terms!NoStrays'
    BY <1>t, <1>s, <1>h, <1>r, <1>g, TerminalsAssumption DEF PanelInv, HookFits, SessionFits, Opened, Opening, Terms!NoStrays, Terms!At, WholeExcuse
  <1> QED BY <1>y, <1>1, <1>2, <1>3 DEF PanelInv

LEMMA PanelDeliver ==
    ASSUME Terms!TypeOK, PanelInv, NEW s \in TermIds, Terms!Deliver(s)
    PROVE  Terms!TypeOK' /\ PanelInv'
  <1>t. /\ kind \in {"ssh", "shell"} /\ knownHosts \in Seq(HostKeys)
        /\ sess \in [TermIds -> WholeSess] /\ mapped \subseteq TermIds /\ endings \subseteq TermIds
        /\ hook \in WholeHook /\ unclaimed \in WholeExcuse
    BY TermsTypes
  <1>u. UNCHANGED <<kind, knownHosts>>
    BY DEF Terms!Deliver
  <1>s. sess' = sess
    BY DEF Terms!Deliver
  <1>h. /\ hook' \in WholeHook /\ hook'.closing = hook.closing /\ (hook'.mounted <=> hook.mounted)
        /\ hook'.ref = hook.ref \/ (hook.ref = s /\ hook'.ref = Null)
    <2>1. hook' = hook \/ (hook.ref = s /\ hook' = Terms!Cleared(hook))
      BY DEF Terms!Deliver
    <2> QED BY <1>t, <2>1, HookClears, ClearedHook
  <1>r. /\ mapped' = mapped /\ endings' = endings \ {s} /\ unclaimed' \in WholeExcuse /\ unclaimed'.strays = unclaimed.strays
    BY <1>t DEF Terms!Deliver, WholeExcuse
  <1>g. s \in endings /\ s \in TermIds
    BY DEF Terms!Deliver, Terms!At
  <1>y. Terms!TypeOK'
    BY <1>t, <1>u, <1>s, <1>h, <1>r, TermsTypesNext DEF WholeExcuse
  <1>1. ASSUME NEW t \in TermIds PROVE SessionFits(t)'
    BY <1>t, <1>u, <1>s, <1>h, <1>r, <1>g DEF PanelInv, HookFits, SessionFits, Opened, Opening
  <1>2. HookFits'
    BY <1>t, <1>s, <1>h, <1>r, <1>g, TerminalsAssumption DEF PanelInv, HookFits, SessionFits, Opened, Opening, WholeHook
  <1>3. Terms!NoStrays'
    BY <1>t, <1>s, <1>h, <1>r, <1>g, TerminalsAssumption DEF PanelInv, HookFits, SessionFits, Opened, Opening, Terms!NoStrays, Terms!At, WholeExcuse
  <1> QED BY <1>y, <1>1, <1>2, <1>3 DEF PanelInv

LEMMA PanelSend ==
    ASSUME Terms!TypeOK, PanelInv, Terms!Send
    PROVE  Terms!TypeOK' /\ PanelInv'
  <1>t. /\ kind \in {"ssh", "shell"} /\ knownHosts \in Seq(HostKeys)
        /\ sess \in [TermIds -> WholeSess] /\ mapped \subseteq TermIds /\ endings \subseteq TermIds
        /\ hook \in WholeHook /\ unclaimed \in WholeExcuse
    BY TermsTypes
  <1>u. UNCHANGED <<kind, knownHosts>>
    BY DEF Terms!Send
  <1>s. sess' = sess
    BY DEF Terms!Send
  <1>b. hook' = [hook EXCEPT !.sending = hook.ref]
    BY DEF Terms!Send
  <1>h. hook' \in WholeHook /\ hook'.ref = hook.ref /\ hook'.closing = hook.closing /\ (hook'.mounted <=> hook.mounted)
    BY <1>t, <1>b DEF WholeHook
  <1>r. UNCHANGED <<mapped, endings, unclaimed>>
    BY DEF Terms!Send
  <1>g. TRUE
    OBVIOUS
  <1>y. Terms!TypeOK'
    BY <1>t, <1>u, <1>s, <1>h, <1>r, TermsTypesNext DEF WholeExcuse
  <1>1. ASSUME NEW t \in TermIds PROVE SessionFits(t)'
    BY <1>t, <1>u, <1>s, <1>h, <1>r, <1>g DEF PanelInv, HookFits, SessionFits, Opened, Opening
  <1>2. HookFits'
    BY <1>t, <1>s, <1>h, <1>r, <1>g, TerminalsAssumption DEF PanelInv, HookFits, SessionFits, Opened, Opening, WholeHook
  <1>3. Terms!NoStrays'
    BY <1>t, <1>s, <1>h, <1>r, <1>g, TerminalsAssumption DEF PanelInv, HookFits, SessionFits, Opened, Opening, Terms!NoStrays, Terms!At, WholeExcuse
  <1> QED BY <1>y, <1>1, <1>2, <1>3 DEF PanelInv

LEMMA PanelSent ==
    ASSUME Terms!TypeOK, PanelInv, Terms!Sent
    PROVE  Terms!TypeOK' /\ PanelInv'
  <1>t. /\ kind \in {"ssh", "shell"} /\ knownHosts \in Seq(HostKeys)
        /\ sess \in [TermIds -> WholeSess] /\ mapped \subseteq TermIds /\ endings \subseteq TermIds
        /\ hook \in WholeHook /\ unclaimed \in WholeExcuse
    BY TermsTypes
  <1>u. UNCHANGED <<kind, knownHosts>>
    BY DEF Terms!Sent
  <1>s. sess' = sess
    BY DEF Terms!Sent
  <1>b. hook' = [hook EXCEPT !.sending = Null]
    BY DEF Terms!Sent
  <1>h. hook' \in WholeHook /\ hook'.ref = hook.ref /\ hook'.closing = hook.closing /\ (hook'.mounted <=> hook.mounted)
    BY <1>t, <1>b DEF WholeHook
  <1>r. UNCHANGED <<mapped, endings, unclaimed>>
    BY DEF Terms!Sent
  <1>g. TRUE
    OBVIOUS
  <1>y. Terms!TypeOK'
    BY <1>t, <1>u, <1>s, <1>h, <1>r, TermsTypesNext DEF WholeExcuse
  <1>1. ASSUME NEW t \in TermIds PROVE SessionFits(t)'
    BY <1>t, <1>u, <1>s, <1>h, <1>r, <1>g DEF PanelInv, HookFits, SessionFits, Opened, Opening
  <1>2. HookFits'
    BY <1>t, <1>s, <1>h, <1>r, <1>g, TerminalsAssumption DEF PanelInv, HookFits, SessionFits, Opened, Opening, WholeHook
  <1>3. Terms!NoStrays'
    BY <1>t, <1>s, <1>h, <1>r, <1>g, TerminalsAssumption DEF PanelInv, HookFits, SessionFits, Opened, Opening, Terms!NoStrays, Terms!At, WholeExcuse
  <1> QED BY <1>y, <1>1, <1>2, <1>3 DEF PanelInv

LEMMA PanelSendFails ==
    ASSUME Terms!TypeOK, PanelInv, Terms!SendFails
    PROVE  Terms!TypeOK' /\ PanelInv'
  <1>t. /\ kind \in {"ssh", "shell"} /\ knownHosts \in Seq(HostKeys)
        /\ sess \in [TermIds -> WholeSess] /\ mapped \subseteq TermIds /\ endings \subseteq TermIds
        /\ hook \in WholeHook /\ unclaimed \in WholeExcuse
    BY TermsTypes
  <1>u. UNCHANGED <<kind, knownHosts>>
    BY DEF Terms!SendFails
  <1>s. sess' = sess
    BY DEF Terms!SendFails
  <1>h. /\ hook' \in WholeHook /\ hook'.ref = Null /\ (hook'.mounted <=> hook.mounted)
        /\ hook'.closing = hook.closing
    <2>1. hook' = [Terms!Cleared(hook) EXCEPT !.sending = Null]
      BY DEF Terms!SendFails
    <2>2. Terms!Cleared(hook) \in WholeHook
      BY <1>t, ClearedHook
    <2>3. /\ hook' \in WholeHook /\ hook'.ref = Terms!Cleared(hook).ref /\ (hook'.mounted <=> Terms!Cleared(hook).mounted)
          /\ hook'.closing = Terms!Cleared(hook).closing
      BY <2>1, <2>2 DEF WholeHook
    <2> QED BY <1>t, <2>2, <2>3, HookClears
  <1>r. /\ UNCHANGED <<mapped, endings>> /\ unclaimed' \in WholeExcuse
        /\ unclaimed.strays \subseteq unclaimed'.strays /\ (hook.ref \notin {Null, hook.sending} => hook.ref \in unclaimed'.strays)
    BY <1>t DEF Terms!SendFails, Terms!LateFor, WholeExcuse, WholeHook
  <1>g. /\ hook.sending # Null
        /\ hook.sending \in TermIds => ~(hook.sending \in mapped /\ sess[hook.sending].pump = "running")
    BY DEF Terms!SendFails, Terms!Alive
  <1>y. Terms!TypeOK'
    BY <1>t, <1>u, <1>s, <1>h, <1>r, TermsTypesNext DEF WholeExcuse
  <1>1. ASSUME NEW t \in TermIds PROVE SessionFits(t)'
    BY <1>t, <1>u, <1>s, <1>h, <1>r, <1>g DEF PanelInv, HookFits, SessionFits, Opened, Opening
  <1>2. HookFits'
    BY <1>t, <1>s, <1>h, <1>r, <1>g, TerminalsAssumption DEF PanelInv, HookFits, SessionFits, Opened, Opening, WholeHook
  <1>p. \A t \in mapped : sess[t].pump \in {"running", "ended", "gone"} /\ (sess[t].pump = "gone" => t \in unclaimed.strays)
    BY <1>t DEF PanelInv, SessionFits, WholeSess
  <1>3. Terms!NoStrays'
    BY <1>t, <1>s, <1>h, <1>r, <1>g, <1>p, TerminalsAssumption DEF PanelInv, HookFits, SessionFits, Opened, Opening, Terms!NoStrays, Terms!At, WholeExcuse
  <1> QED BY <1>y, <1>1, <1>2, <1>3 DEF PanelInv

LEMMA PanelDisconnected ==
    ASSUME Terms!TypeOK, PanelInv, Terms!Disconnected
    PROVE  Terms!TypeOK' /\ PanelInv'
  <1>t. /\ kind \in {"ssh", "shell"} /\ knownHosts \in Seq(HostKeys)
        /\ sess \in [TermIds -> WholeSess] /\ mapped \subseteq TermIds /\ endings \subseteq TermIds
        /\ hook \in WholeHook /\ unclaimed \in WholeExcuse
    BY TermsTypes
  <1>u. UNCHANGED <<kind, knownHosts>>
    BY DEF Terms!Disconnected
  <1>s. sess' = sess
    BY DEF Terms!Disconnected
  <1>h. /\ hook' \in WholeHook /\ hook'.ref = Null /\ (hook'.mounted <=> hook.mounted)
        /\ hook'.closing = Null
    <2>1. hook' = [Terms!Cleared(hook) EXCEPT !.closing = Null]
      BY DEF Terms!Disconnected
    <2>2. Terms!Cleared(hook) \in WholeHook
      BY <1>t, ClearedHook
    <2>3. /\ hook' \in WholeHook /\ hook'.ref = Terms!Cleared(hook).ref /\ (hook'.mounted <=> Terms!Cleared(hook).mounted)
          /\ hook'.closing = Null
      BY <2>1, <2>2 DEF WholeHook
    <2> QED BY <1>t, <2>2, <2>3, HookClears
  <1>r. /\ UNCHANGED <<mapped, endings>> /\ unclaimed' \in WholeExcuse
        /\ unclaimed.strays \subseteq unclaimed'.strays /\ (hook.ref \notin {Null, hook.closing} => hook.ref \in unclaimed'.strays)
    BY <1>t DEF Terms!Disconnected, Terms!LateFor, WholeExcuse, WholeHook
  <1>g. hook.closing # Null
    BY DEF Terms!Disconnected
  <1>y. Terms!TypeOK'
    BY <1>t, <1>u, <1>s, <1>h, <1>r, TermsTypesNext DEF WholeExcuse
  <1>1. ASSUME NEW t \in TermIds PROVE SessionFits(t)'
    BY <1>t, <1>u, <1>s, <1>h, <1>r, <1>g DEF PanelInv, HookFits, SessionFits, Opened, Opening
  <1>2. HookFits'
    BY <1>t, <1>s, <1>h, <1>r, <1>g, TerminalsAssumption DEF PanelInv, HookFits, SessionFits, Opened, Opening, WholeHook
  <1>3. Terms!NoStrays'
    BY <1>t, <1>s, <1>h, <1>r, <1>g, TerminalsAssumption DEF PanelInv, HookFits, SessionFits, Opened, Opening, Terms!NoStrays, Terms!At, WholeExcuse
  <1> QED BY <1>y, <1>1, <1>2, <1>3 DEF PanelInv

LEMMA PanelDisconnect ==
    ASSUME Terms!TypeOK, PanelInv, Terms!Disconnect
    PROVE  Terms!TypeOK' /\ PanelInv'
  <1>t. /\ kind \in {"ssh", "shell"} /\ knownHosts \in Seq(HostKeys)
        /\ sess \in [TermIds -> WholeSess] /\ mapped \subseteq TermIds /\ endings \subseteq TermIds
        /\ hook \in WholeHook /\ unclaimed \in WholeExcuse
    BY TermsTypes
  <1>u. UNCHANGED <<kind, knownHosts>>
    BY DEF Terms!Disconnect
  <1>s. sess' = sess
    BY DEF Terms!Disconnect
  <1>b. hook' = [hook EXCEPT !.closing = hook.ref]
    BY DEF Terms!Disconnect
  <1>h. hook' \in WholeHook /\ hook'.ref = hook.ref /\ hook'.closing = hook.ref /\ (hook'.mounted <=> hook.mounted)
    BY <1>t, <1>b DEF WholeHook
  <1>r. mapped' = mapped \ {hook.ref} /\ UNCHANGED <<endings, unclaimed>>
    BY DEF Terms!Disconnect
  <1>g. hook.ref # Null
    BY DEF Terms!Disconnect
  <1>y. Terms!TypeOK'
    BY <1>t, <1>u, <1>s, <1>h, <1>r, TermsTypesNext DEF WholeExcuse
  <1>1. ASSUME NEW t \in TermIds PROVE SessionFits(t)'
    BY <1>t, <1>u, <1>s, <1>h, <1>r, <1>g DEF PanelInv, HookFits, SessionFits, Opened, Opening
  <1>2. HookFits'
    BY <1>t, <1>s, <1>h, <1>r, <1>g, TerminalsAssumption DEF PanelInv, HookFits, SessionFits, Opened, Opening, WholeHook
  <1>3. Terms!NoStrays'
    BY <1>t, <1>s, <1>h, <1>r, <1>g, TerminalsAssumption DEF PanelInv, HookFits, SessionFits, Opened, Opening, Terms!NoStrays, Terms!At, WholeExcuse
  <1> QED BY <1>y, <1>1, <1>2, <1>3 DEF PanelInv

LEMMA PanelUnmount ==
    ASSUME Terms!TypeOK, PanelInv, Terms!Unmount
    PROVE  Terms!TypeOK' /\ PanelInv'
  <1>t. /\ kind \in {"ssh", "shell"} /\ knownHosts \in Seq(HostKeys)
        /\ sess \in [TermIds -> WholeSess] /\ mapped \subseteq TermIds /\ endings \subseteq TermIds
        /\ hook \in WholeHook /\ unclaimed \in WholeExcuse
    BY TermsTypes
  <1>u. UNCHANGED <<kind, knownHosts>>
    BY DEF Terms!Unmount
  <1>s. sess' = sess
    BY DEF Terms!Unmount
  <1>b. hook' = [hook EXCEPT !.mounted = FALSE, !.shown = Null, !.ears = @ \ {hook.ear}]
    BY DEF Terms!Unmount
  <1>h. hook' \in WholeHook /\ hook'.ref = hook.ref /\ hook'.closing = hook.closing /\ hook'.mounted = FALSE
    BY <1>t, <1>b DEF WholeHook
  <1>r. /\ mapped' = mapped \ {hook.ref} /\ endings' = endings /\ unclaimed' \in WholeExcuse
        /\ unclaimed'.strays = unclaimed.strays \cup Terms!Underway
    BY <1>t DEF Terms!Unmount, Terms!ForgottenOnUnmount, WholeExcuse, Terms!Underway
  <1>g. \A t \in TermIds : sess[t].at \in Opening \cup {"heard", "listening"} => t \in Terms!Underway
    BY DEF Terms!Underway, Terms!At, Opening
  <1>y. Terms!TypeOK'
    BY <1>t, <1>u, <1>s, <1>h, <1>r, TermsTypesNext DEF WholeExcuse
  <1>1. ASSUME NEW t \in TermIds PROVE SessionFits(t)'
    BY <1>t, <1>u, <1>s, <1>h, <1>r, <1>g DEF PanelInv, HookFits, SessionFits, Opened, Opening
  <1>2. HookFits'
    BY <1>t, <1>s, <1>h, <1>r, <1>g, TerminalsAssumption DEF PanelInv, HookFits, SessionFits, Opened, Opening, WholeHook
  <1>3. Terms!NoStrays'
    BY <1>t, <1>s, <1>h, <1>r, <1>g, TerminalsAssumption DEF PanelInv, HookFits, SessionFits, Opened, Opening, Terms!NoStrays, Terms!At, WholeExcuse
  <1> QED BY <1>y, <1>1, <1>2, <1>3 DEF PanelInv

LEMMA PanelConnect ==
    ASSUME Terms!TypeOK, PanelInv, NEW s \in TermIds, Terms!Connect(s), Terms!Underway = {}
    PROVE  Terms!TypeOK' /\ PanelInv'
  <1>t. /\ kind \in {"ssh", "shell"} /\ knownHosts \in Seq(HostKeys)
        /\ sess \in [TermIds -> WholeSess] /\ mapped \subseteq TermIds /\ endings \subseteq TermIds
        /\ hook \in WholeHook /\ unclaimed \in WholeExcuse
    BY TermsTypes
  <1>u. UNCHANGED <<kind, knownHosts>>
    BY DEF Terms!Connect
  <1> DEFINE x == IF kind = "ssh" THEN "dialing" ELSE "up"
  <1>a. sess' = [sess EXCEPT ![s].at = x]
    BY DEF Terms!Connect
  <1>s. /\ sess' \in [TermIds -> WholeSess] /\ sess'[s].at = x /\ sess'[s].pump = sess[s].pump
        /\ \A t \in TermIds : t # s => sess'[t] = sess[t]
    BY <1>t, <1>a, SessMoves DEF SessPlaces
  <1>h. hook' = hook
    BY DEF Terms!Connect
  <1>r. UNCHANGED <<mapped, endings, unclaimed>>
    BY DEF Terms!Connect
  <1>g. hook.mounted /\ hook.ref = Null /\ sess[s].at = "idle" /\ (\A t \in TermIds : sess[t].at \notin Opening \cup {"heard", "listening"}) /\ x = (IF kind = "ssh" THEN "dialing" ELSE "up")
    BY DEF Terms!Connect, Terms!At, Terms!Underway, Opening
  <1>y. Terms!TypeOK'
    BY <1>t, <1>u, <1>s, <1>h, <1>r, TermsTypesNext DEF WholeExcuse
  <1>1. ASSUME NEW t \in TermIds PROVE SessionFits(t)'
    BY <1>t, <1>u, <1>s, <1>h, <1>r, <1>g DEF PanelInv, HookFits, SessionFits, Opened, Opening
  <1>2. HookFits'
    BY <1>t, <1>s, <1>h, <1>r, <1>g, TerminalsAssumption DEF PanelInv, HookFits, SessionFits, Opened, Opening, WholeHook
  <1>3. Terms!NoStrays'
    BY <1>t, <1>s, <1>h, <1>r, <1>g, TerminalsAssumption DEF PanelInv, HookFits, SessionFits, Opened, Opening, Terms!NoStrays, Terms!At, WholeExcuse
  <1> QED BY <1>y, <1>1, <1>2, <1>3 DEF PanelInv

LEMMA PanelConnectFails ==
    ASSUME Terms!TypeOK, PanelInv, NEW s \in TermIds, Terms!ConnectFails(s)
    PROVE  Terms!TypeOK' /\ PanelInv'
  <1>t. /\ kind \in {"ssh", "shell"} /\ knownHosts \in Seq(HostKeys)
        /\ sess \in [TermIds -> WholeSess] /\ mapped \subseteq TermIds /\ endings \subseteq TermIds
        /\ hook \in WholeHook /\ unclaimed \in WholeExcuse
    BY TermsTypes
  <1>u. UNCHANGED <<kind, knownHosts>>
    BY DEF Terms!ConnectFails
  <1>a. sess' = [sess EXCEPT ![s].at = "failed"]
    BY DEF Terms!ConnectFails
  <1>s. /\ sess' \in [TermIds -> WholeSess] /\ sess'[s].at = "failed" /\ sess'[s].pump = sess[s].pump
        /\ \A t \in TermIds : t # s => sess'[t] = sess[t]
    BY <1>t, <1>a, SessMoves DEF SessPlaces
  <1>h. hook' = hook
    BY DEF Terms!ConnectFails
  <1>r. UNCHANGED <<mapped, endings, unclaimed>>
    BY DEF Terms!ConnectFails
  <1>g. sess[s].at \in {"dialing", "keyed", "up"} /\ sess[s].pump = "none"
    BY DEF Terms!ConnectFails, Terms!At, PanelInv, SessionFits, Opened
  <1>y. Terms!TypeOK'
    BY <1>t, <1>u, <1>s, <1>h, <1>r, TermsTypesNext DEF WholeExcuse
  <1>1. ASSUME NEW t \in TermIds PROVE SessionFits(t)'
    BY <1>t, <1>u, <1>s, <1>h, <1>r, <1>g DEF PanelInv, HookFits, SessionFits, Opened, Opening
  <1>2. HookFits'
    BY <1>t, <1>s, <1>h, <1>r, <1>g, TerminalsAssumption DEF PanelInv, HookFits, SessionFits, Opened, Opening, WholeHook
  <1>3. Terms!NoStrays'
    BY <1>t, <1>s, <1>h, <1>r, <1>g, TerminalsAssumption DEF PanelInv, HookFits, SessionFits, Opened, Opening, Terms!NoStrays, Terms!At, WholeExcuse
  <1> QED BY <1>y, <1>1, <1>2, <1>3 DEF PanelInv

LEMMA PanelCheckKey ==
    ASSUME Terms!TypeOK, PanelInv, NEW s \in TermIds, NEW k \in HostKeys, knownHosts # <<>>, Terms!CheckKey(s, k)
    PROVE  Terms!TypeOK' /\ PanelInv'
  <1>t. /\ kind \in {"ssh", "shell"} /\ knownHosts \in Seq(HostKeys)
        /\ sess \in [TermIds -> WholeSess] /\ mapped \subseteq TermIds /\ endings \subseteq TermIds
        /\ hook \in WholeHook /\ unclaimed \in WholeExcuse
    BY TermsTypes
  <1>u. UNCHANGED <<kind, knownHosts>>
    BY DEF Terms!CheckKey, Terms!CheckKey
  <1> DEFINE x == IF Terms!Matching(k) THEN "keyed" ELSE "failed"
             n == [sess[s] EXCEPT !.key = k, !.at = x]
  <1>a. sess' = [sess EXCEPT ![s] = n]
    BY DEF Terms!CheckKey
  <1>n. n \in WholeSess /\ n.at \in {"keyed", "failed"} /\ n.pump = sess[s].pump
    BY <1>t DEF WholeSess, SessPlaces
  <1> HIDE DEF n
  <1>s. /\ sess' \in [TermIds -> WholeSess] /\ sess'[s].at \in {"keyed", "failed"} /\ sess'[s].pump = sess[s].pump
        /\ \A t \in TermIds : t # s => sess'[t] = sess[t]
    BY <1>t, <1>a, <1>n
  <1>h. hook' = hook
    BY DEF Terms!CheckKey
  <1>r. UNCHANGED <<mapped, endings, unclaimed>>
    BY DEF Terms!CheckKey
  <1>g. sess[s].at = "dialing"
    BY DEF Terms!CheckKey, Terms!At
  <1>y. Terms!TypeOK'
    BY <1>t, <1>u, <1>s, <1>h, <1>r, TermsTypesNext DEF WholeExcuse
  <1>1. ASSUME NEW t \in TermIds PROVE SessionFits(t)'
    BY <1>t, <1>u, <1>s, <1>h, <1>r, <1>g DEF PanelInv, HookFits, SessionFits, Opened, Opening
  <1>2. HookFits'
    BY <1>t, <1>s, <1>h, <1>r, <1>g, TerminalsAssumption DEF PanelInv, HookFits, SessionFits, Opened, Opening, WholeHook
  <1>3. Terms!NoStrays'
    BY <1>t, <1>s, <1>h, <1>r, <1>g, TerminalsAssumption DEF PanelInv, HookFits, SessionFits, Opened, Opening, Terms!NoStrays, Terms!At, WholeExcuse
  <1> QED BY <1>y, <1>1, <1>2, <1>3 DEF PanelInv

LEMMA PanelStep == Terms!TypeOK /\ PanelInv /\ Terms!PanelNext => Terms!TypeOK' /\ PanelInv'
  <1> SUFFICES ASSUME Terms!TypeOK, PanelInv, Terms!PanelNext PROVE Terms!TypeOK' /\ PanelInv'
    OBVIOUS
  <1>1. ASSUME NEW s \in TermIds, knownHosts # <<>> /\ Terms!CheckKey(s, knownHosts[1])
        PROVE  Terms!TypeOK' /\ PanelInv'
    <2>1. knownHosts[1] \in HostKeys
      BY <1>1, TermsTypes
    <2> QED BY <1>1, <2>1, PanelCheckKey
  <1>2. ASSUME NEW s \in TermIds, Terms!Connect(s) /\ Terms!Underway = {}
        PROVE  Terms!TypeOK' /\ PanelInv'
    BY <1>2, PanelConnect
  <1> QED BY <1>1, <1>2, PanelConnectFails, PanelStartPump, PanelStore, PanelOpenShell, PanelEnd, PanelCleanUp, PanelGotId,
        PanelListenForEnd, PanelShow, PanelDeliver, PanelSend, PanelSent, PanelSendFails, PanelDisconnect,
        PanelDisconnected, PanelUnmount DEF Terms!PanelNext

LEMMA TermsRest == TermsInv /\ UNCHANGED <<client, terminalVars>> => TermsInv'
  BY DEF TermsInv, terminalVars, Terms!TypeOK, KeysInv, PanelInv, HookFits, SessionFits, Terms!NoStrays, Terms!At

LEMMA TermsHold == TermsInv => /\ Terms!TypeOK /\ (client = "hostkeys" => Terms!KeyIsPinned)
                               /\ (client = "terminals" => Terms!NoStrays)
  <1> SUFFICES ASSUME TermsInv, client = "hostkeys" PROVE Terms!KeyIsPinned
    BY DEF TermsInv, PanelInv
  <1> QED BY DEF TermsInv, KeysInv, Terms!KeyIsPinned, Terms!At
-----------------------------------------------------------------------------
(* The bridge of the console and its reader of event streams.              *)

\* Whoever ends the operator's side says so first.
BridgeInv == (inp = "ended" => ended) /\ crash \in {"no", "write"}

LEMMA BridgeStart == Cons!BridgeInit => BridgeInv
  BY DEF Cons!BridgeInit, Cons!BridgeIdle, BridgeInv

LEMMA BridgeStep == BridgeInv /\ Cons!BridgeNext => BridgeInv'
  <1> SUFFICES ASSUME BridgeInv, Cons!BridgeNext PROVE BridgeInv'
    OBVIOUS
  <1>w. Cons!Written => crash' \in {"no", "write"}
    BY DEF Cons!Written, BridgeInv
  <1>1. CASE \/ \E S \in SUBSET SshKeys : Cons!EditKeys(S)
             \/ \E t \in Remotes : Cons!TermMoves(t)
             \/ \E k \in SshKeys : Cons!Connect(k)
             \/ Cons!AgentsScreen \/ Cons!List \/ Cons!Pick \/ Cons!PeerCloses
    <2>1. UNCHANGED <<inp, ended, crash>>
      BY <1>1 DEF Cons!EditKeys, Cons!TermMoves, Cons!Connect, Cons!AgentsScreen, Cons!List, Cons!Pick, Cons!PeerCloses
    <2> QED BY <2>1 DEF BridgeInv
  <1>2. CASE Cons!Dial
    BY <1>2 DEF Cons!Dial, BridgeInv
  <1>3. CASE Cons!SshToWs
    BY <1>3, <1>w DEF Cons!SshToWs, Cons!CloseDone, BridgeInv
  <1>4. CASE Cons!WsToSsh
    BY <1>4 DEF Cons!WsToSsh, Cons!CloseDone, BridgeInv
  <1>5. CASE Cons!Resize
    BY <1>5, <1>w DEF Cons!Resize, BridgeInv
  <1>6. CASE Cons!Own
    BY <1>6, <1>w DEF Cons!Own, BridgeInv
  <1> QED BY <1>1, <1>2, <1>3, <1>4, <1>5, <1>6 DEF Cons!BridgeNext

LEMMA BridgeRests == BridgeInv /\ UNCHANGED bridgeVars => BridgeInv'
  BY DEF bridgeVars, BridgeInv

LEMMA BridgeHolds == BridgeInv => Cons!BridgeEnds
  BY DEF BridgeInv, Cons!BridgeEnds
-----------------------------------------------------------------------------
\* The lines before the end mark among those that were scanned, and those of them that were handed on.
BeforeEnd == {i \in 1 .. scanned : \A j \in 1 .. i : ~Cons!Ends(arrived[j])}
HandedOn  == {i \in BeforeEnd : arrived[i].kind = "data"} \ (IF scanner = "send" THEN {scanned} ELSE {})

LineRecords == [n : Nat, kind : Cons!LineKinds]
StreamInv ==
    /\ arrived \in Seq(LineRecords) /\ \A i \in 1 .. Len(arrived) : arrived[i].n = i
    /\ scanned \in Nat /\ scanned <= Len(arrived) /\ scanner \in {"scan", "send", "closed"}
    /\ scanner # "closed" => \A j \in 1 .. scanned : ~Cons!Ends(arrived[j])
    /\ scanner = "send" => scanned > 0 /\ arrived[scanned].kind = "data"
    /\ fed \in Seq(Nat) /\ {fed[i] : i \in 1 .. Len(fed)} = HandedOn /\ Len(fed) = Cardinality(HandedOn)
    /\ \A i, j \in 1 .. Len(fed) : i < j => fed[i] < fed[j]

LEMMA StreamStart == Cons!StreamInit => StreamInv
  <1> SUFFICES ASSUME Cons!StreamInit PROVE StreamInv
    OBVIOUS
  <1>1. arrived = <<>> /\ scanned = 0 /\ fed = <<>> /\ scanner = "scan" /\ Len(<<>>) = 0
    BY DEF Cons!StreamInit
  <1>2. HandedOn = {}
    BY <1>1 DEF HandedOn, BeforeEnd
  <1>3. Cardinality({}) = 0
    BY FS_EmptySet
  <1> QED BY <1>1, <1>2, <1>3 DEF StreamInv

LEMMA HandedOnIsFinite == StreamInv => IsFiniteSet(HandedOn) /\ HandedOn \subseteq 1 .. scanned
  <1> SUFFICES ASSUME StreamInv PROVE IsFiniteSet(HandedOn) /\ HandedOn \subseteq 1 .. scanned
    OBVIOUS
  <1>1. HandedOn \subseteq 1 .. scanned
    BY DEF HandedOn, BeforeEnd
  <1>2. IsFiniteSet(1 .. scanned)
    BY FS_Interval DEF StreamInv
  <1> QED BY <1>1, <1>2, FS_Subset

LEMMA StreamStep == StreamInv /\ Cons!StreamNext => StreamInv'
  <1> SUFFICES ASSUME StreamInv, Cons!StreamNext PROVE StreamInv'
    OBVIOUS
  <1>0. /\ arrived \in Seq(LineRecords) /\ \A i \in 1 .. Len(arrived) : arrived[i].n = i /\ arrived[i] \in LineRecords
        /\ scanned \in Nat /\ scanned <= Len(arrived) /\ scanner \in {"scan", "send", "closed"} /\ Len(arrived) \in Nat
    BY DEF StreamInv
  <1>1. CASE Cons!Scan
    <2>1. /\ scanner = "scan" /\ scanned < Len(arrived) /\ scanned' = scanned + 1 /\ arrived' = arrived /\ fed' = fed
          /\ scanner' = CASE Cons!Ends(arrived[scanned + 1]) -> "closed" [] arrived[scanned + 1].kind = "data" -> "send" [] OTHER -> "scan"
      BY <1>1 DEF Cons!Scan
    <2>2. \A j \in 1 .. scanned : ~Cons!Ends(arrived[j])
      BY <2>1 DEF StreamInv
    <2>3. /\ scanner' = "closed" <=> Cons!Ends(arrived[scanned + 1])
          /\ scanner' = "send" <=> arrived[scanned + 1].kind = "data"
          /\ scanner' \in {"scan", "send", "closed"}
      BY <2>1 DEF Cons!Ends
    <2>4. BeforeEnd = 1 .. scanned /\ HandedOn = {i \in 1 .. scanned : arrived[i].kind = "data"}
      BY <1>0, <2>1, <2>2 DEF BeforeEnd, HandedOn
    <2>5. BeforeEnd' = IF scanner' = "closed" THEN 1 .. scanned ELSE 1 .. scanned + 1
      BY <1>0, <2>1, <2>2, <2>3 DEF BeforeEnd
    <2>6. HandedOn' = HandedOn
      BY <1>0, <2>1, <2>3, <2>4, <2>5 DEF HandedOn
    <2>7. scanner' # "closed" => \A j \in 1 .. scanned + 1 : ~Cons!Ends(arrived[j])
      BY <1>0, <2>2, <2>3
    <2> QED BY <1>0, <2>1, <2>3, <2>6, <2>7 DEF StreamInv
  <1>2. CASE Cons!Take
    <2>1. scanner = "send" /\ fed' = Append(fed, arrived[scanned].n) /\ scanner' = "scan" /\ UNCHANGED <<arrived, scanned>>
      BY <1>2 DEF Cons!Take
    <2>2. /\ scanned > 0 /\ arrived[scanned].kind = "data" /\ arrived[scanned].n = scanned
          /\ fed \in Seq(Nat) /\ \A j \in 1 .. scanned : ~Cons!Ends(arrived[j])
      BY <1>0, <2>1 DEF StreamInv
    <2>3. BeforeEnd = 1 .. scanned /\ BeforeEnd' = 1 .. scanned
      BY <1>0, <2>1, <2>2 DEF BeforeEnd
    <2>4. scanned \notin HandedOn /\ HandedOn' = HandedOn \cup {scanned}
      BY <1>0, <2>1, <2>2, <2>3 DEF HandedOn
    <2>5. Cardinality(HandedOn') = Cardinality(HandedOn) + 1
      BY <2>4, HandedOnIsFinite, FS_AddElement
    <2>6. /\ fed' \in Seq(Nat) /\ Len(fed') = Len(fed) + 1 /\ fed'[Len(fed) + 1] = scanned
          /\ \A i \in 1 .. Len(fed) : fed'[i] = fed[i]
      BY <1>0, <2>1, <2>2
    <2>7. \A i \in 1 .. Len(fed) : fed[i] \in HandedOn /\ fed[i] < scanned
      <3>1. \A i \in 1 .. Len(fed) : fed[i] \in HandedOn
        BY DEF StreamInv
      <3> QED BY <3>1, <1>0, <2>4, HandedOnIsFinite
    <2>8. {fed'[i] : i \in 1 .. Len(fed')} = HandedOn'
      <3>1. {fed[i] : i \in 1 .. Len(fed)} = HandedOn /\ Len(fed) \in Nat
        BY <2>2 DEF StreamInv
      <3> QED BY <2>4, <2>6, <3>1
    <2>9. \A i, j \in 1 .. Len(fed') : i < j => fed'[i] < fed'[j]
      <3>1. (\A i, j \in 1 .. Len(fed) : i < j => fed[i] < fed[j]) /\ Len(fed) \in Nat
        BY <2>2 DEF StreamInv
      <3> QED BY <2>6, <2>7, <3>1
    <2>10. Len(fed') = Cardinality(HandedOn')
      BY <2>5, <2>6 DEF StreamInv
    <2> QED BY <1>0, <2>1, <2>2, <2>6, <2>8, <2>9, <2>10 DEF StreamInv
  <1>3. CASE Cons!StreamEnds
    <2>1. scanner = "scan" /\ scanner' = "closed" /\ UNCHANGED <<arrived, scanned, fed>>
      BY <1>3 DEF Cons!StreamEnds
    <2>2. HandedOn' = HandedOn
      BY <2>1 DEF HandedOn, BeforeEnd
    <2> QED BY <2>1, <2>2 DEF StreamInv
  <1>4. ASSUME NEW kd \in Cons!LineKinds, Cons!Arrive(kd) PROVE StreamInv'
    <2> DEFINE l == [n |-> Len(arrived) + 1, kind |-> kd]
    <2>1. arrived' = Append(arrived, l) /\ UNCHANGED <<scanned, fed, scanner>>
      BY <1>4 DEF Cons!Arrive
    <2>2. l \in LineRecords /\ l.n = Len(arrived) + 1
      BY <1>0 DEF LineRecords
    <2> HIDE DEF l
    <2>3. /\ arrived' \in Seq(LineRecords) /\ Len(arrived') = Len(arrived) + 1 /\ arrived'[Len(arrived) + 1] = l
          /\ \A i \in 1 .. Len(arrived) : arrived'[i] = arrived[i]
      BY <1>0, <2>1, <2>2
    <2>4. \A i \in 1 .. scanned : arrived'[i] = arrived[i] /\ \A j \in 1 .. i : arrived'[j] = arrived[j]
      BY <1>0, <2>3
    <2>5. BeforeEnd' = BeforeEnd
      BY <2>1, <2>4 DEF BeforeEnd
    <2>6. HandedOn' = HandedOn
      BY <2>1, <2>4, <2>5 DEF HandedOn, BeforeEnd
    <2>7. \A i \in 1 .. Len(arrived') : arrived'[i].n = i
      BY <1>0, <2>2, <2>3
    <2>8. /\ scanner' # "closed" => \A j \in 1 .. scanned' : ~Cons!Ends(arrived'[j])
          /\ scanner' = "send" => scanned' > 0 /\ arrived'[scanned'].kind = "data"
      BY <1>0, <2>1, <2>4 DEF StreamInv
    <2> QED BY <1>0, <2>1, <2>3, <2>6, <2>7, <2>8 DEF StreamInv
  <1> QED BY <1>1, <1>2, <1>3, <1>4 DEF Cons!StreamNext

LEMMA StreamRests == StreamInv /\ UNCHANGED streamedVars => StreamInv'
  <1> SUFFICES ASSUME StreamInv, UNCHANGED streamedVars PROVE StreamInv'
    OBVIOUS
  <1>1. arrived' = arrived /\ scanned' = scanned /\ fed' = fed /\ scanner' = scanner
    BY DEF streamedVars
  <1>2. BeforeEnd' = BeforeEnd
    BY <1>1 DEF BeforeEnd
  <1>3. HandedOn' = HandedOn
    BY <1>1, <1>2 DEF HandedOn
  <1> QED BY <1>1, <1>3 DEF StreamInv

LEMMA LinesAreCounted == \A S : Cons!Cardinality(S) = Cardinality(S)
  BY DEF Cardinality, Cons!Cardinality

LEMMA StreamHolds == StreamInv => Cons!StreamIsFaithful
  <1> SUFFICES ASSUME StreamInv PROVE Cons!StreamIsFaithful
    OBVIOUS
  <1> DEFINE before == {i \in 1 .. scanned : \A j \in 1 .. i : ~Cons!Ends(arrived[j])}
             data == {i \in before : arrived[i].kind = "data"} \ (IF scanner = "send" THEN {scanned} ELSE {})
  <1>1. data = HandedOn
    BY DEF HandedOn, BeforeEnd
  <1>2. /\ Len(fed) = Cardinality(data) /\ {fed[i] : i \in 1 .. Len(fed)} = data
        /\ \A i, j \in 1 .. Len(fed) : i < j => fed[i] < fed[j]
    BY <1>1 DEF StreamInv
  <1>3. Len(fed) = Cons!Cardinality(data)
    BY <1>2, LinesAreCounted
  <1> HIDE DEF StreamInv
  <1> QED BY <1>2, <1>3, Zenon DEF Cons!StreamIsFaithful
-----------------------------------------------------------------------------
(* A call of DaemonClient.                                                 *)

Lines == [id : Requests \cup {Null}, kind : {"result", "error"}]
WholeSocket == [at : {"none", "connecting", "sent", "ending", "closed"}, written : {<<>>} \cup {<<l>> : l \in Lines},
                arrived : 0 .. 2, timer : BOOLEAN, quiet : BOOLEAN]

\* Nothing is written before there is a connection; one line is, a result when the request ran;
\* the first settlement is that of this line, until the call is closed.
CallInv(r) ==
    LET s == socket[r] IN
    /\ s.written # <<>> => s.written[1].id \in {r, Null} /\ (s.written[1].kind = "result" => s.written[1].id = r)
    /\ s.at \in {"none", "connecting"} => s.written = <<>>
    /\ served[r] = IF s.written # <<>> /\ s.written[1].kind = "result" THEN 1 ELSE 0
    /\ s.timer <=> s.at \in {"connecting", "sent", "ending"}
    /\ s.at \in {"none", "connecting", "sent"} => reply[r] = Null
    /\ s.at = "ending" => reply[r] # Null
    /\ s.at = "closed" /\ reply[r] = Null => s.quiet
    /\ reply[r] \in {"result", "error"} => s.written # <<>> /\ s.written[1] = Bridge!Line(r, reply[r])
    /\ reply[r] = "refused" => s.written = <<>>

CallsInv ==
    /\ socket \in [Requests -> WholeSocket]
    /\ reply \in [Requests -> {Null, "result", "error", "refused", "reset", "timeout"}]
    /\ served \in [Requests -> 0 .. 1]
    /\ \A r \in Requests : CallInv(r)
-----------------------------------------------------------------------------
(* The tools of the knowledge graph.                                       *)

Principal == Askers \cup {Null}
WholeTool == [at : {"none", "executor", "embedder", "query", "answer", "done"}, principal : Principal,
              timer : BOOLEAN, result : {Null, "missing", "unavailable", "timeout", "ok"}]

\* A call works for who asked, publishes once it has queried, and has its timer while it works.
ToolInv(t) ==
    LET k == kgTool[t] IN
    /\ k.at \in {"executor", "embedder", "query", "answer"} => k.principal = asked[t] /\ asked[t] # Null
    /\ k.at \in {"none", "executor", "embedder", "query"} => published[t] = <<>>
    /\ published[t] = <<>> \/ (asked[t] # Null /\ published[t] = <<asked[t]>>)
    /\ k.at = "answer" /\ t \in WritingCalls => published[t] # <<>>
    /\ k.result = "ok" => k.at = "done" /\ (t \in WritingCalls => published[t] # <<>>)
    /\ k.at \in {"none", "executor"} => k.result = Null
    /\ k.at = "done" => k.result # Null
    /\ k.at \in {"embedder", "query", "answer"} /\ k.result = Null => k.timer
    /\ k.timer => k.at \notin {"none", "executor", "done"}

ToolsInv ==
    /\ who \in Principal /\ kgTool \in [ToolCalls -> WholeTool] /\ asked \in [ToolCalls -> Principal]
    /\ published \in [ToolCalls -> Seq(Principal)] /\ pool \in BOOLEAN
    /\ \A t \in ToolCalls : ToolInv(t)
-----------------------------------------------------------------------------
(* A runtime and its loop.                                                 *)

LimitOf(r) == IF r.asks = Null THEN NoopLimit ELSE r.asks

\* A runtime that goes on counts no more than the daemon, while its loop is there.
RuntimeInv ==
    /\ guarded \in [limit : AskedLimits \cup {NoopLimit, Null}, idle : Nat, status : {"gone", "armed", "not_advancing"}]
    /\ guarded.status # "gone" => guarded.limit # Null
    /\ runtime.asks \in AskedLimits \cup {Null} /\ runtime.idle \in Nat /\ runtime.ticks \in Nat
    /\ runtime = [asks |-> runtime.asks, last |-> runtime.last, idle |-> runtime.idle, ticks |-> runtime.ticks, on |-> runtime.on]
    /\ runtime.on \in BOOLEAN
    /\ runtime.on =>
          /\ runtime.last.ok /\ ~runtime.last.stop
          /\ runtime.idle < LimitOf(runtime)
          /\ guarded.status # "gone" =>
                guarded.limit = LimitOf(runtime) /\ runtime.idle <= guarded.idle /\ guarded.idle < guarded.limit

-----------------------------------------------------------------------------
LEMMA CallsStart == Bridge!ClientInit => CallsInv
  BY BridgeAssumption DEF Bridge!ClientInit, Bridge!NoSocket, CallsInv, CallInv, WholeSocket, Lines

\* A step of one call leaves the others alone.
LEMMA OneCall ==
    ASSUME CallsInv, NEW r \in Requests, NEW s \in WholeSocket,
           socket' = [socket EXCEPT ![r] = s],
           reply'[r] \in {Null, "result", "error", "refused", "reset", "timeout"},
           reply' = [reply EXCEPT ![r] = reply'[r]],
           served'[r] \in 0 .. 1, served' = [served EXCEPT ![r] = served'[r]],
           CallInv(r)'
    PROVE  CallsInv'
  <1>1. \A q \in Requests : q # r => socket'[q] = socket[q] /\ reply'[q] = reply[q] /\ served'[q] = served[q]
    BY DEF CallsInv
  <1>2. \A q \in Requests : q # r => CallInv(q)'
    BY <1>1 DEF CallsInv, CallInv
  <1> QED BY <1>2 DEF CallsInv

LEMMA CallStep == CallsInv /\ Bridge!ClientNext => CallsInv'
  <1> SUFFICES ASSUME CallsInv, NEW r \in Requests,
                      \/ Bridge!Connect(r) \/ Bridge!Connected(r) \/ Bridge!SocketFails(r) \/ Bridge!Serve(r)
                      \/ Bridge!HangUp(r) \/ Bridge!SocketIdles(r) \/ \E n \in 1 .. 2 : Bridge!Arrive(r, n)
               PROVE  CallsInv'
    BY DEF Bridge!ClientNext
  <1> DEFINE s == socket[r]
  <1>1. /\ s \in WholeSocket /\ CallInv(r) /\ r # Null
        /\ reply[r] \in {Null, "result", "error", "refused", "reset", "timeout"} /\ served[r] \in 0 .. 1
    BY BridgeAssumption DEF CallsInv
  <1>a. s = [at |-> s.at, written |-> s.written, arrived |-> s.arrived, timer |-> s.timer, quiet |-> s.quiet]
    BY <1>1 DEF WholeSocket
  <1>b. s.written = <<>> \/ \E l \in Lines : s.written = <<l>>
    BY <1>1 DEF WholeSocket
  <1>2. CASE Bridge!Connect(r)
    <2> DEFINE n == [s EXCEPT !.at = "connecting", !.timer = TRUE]
    <2>1. socket' = [socket EXCEPT ![r] = n] /\ reply' = reply /\ served' = served /\ s.at = "none"
      BY <1>2 DEF Bridge!Connect, CallsInv
    <2>2. n \in WholeSocket /\ socket'[r] = n
      BY <1>1, <2>1 DEF WholeSocket, CallsInv
    <2>3. CallInv(r)'
      BY <1>1, <1>a, <2>1, <2>2 DEF CallInv
    <2> QED BY <1>1, <2>1, <2>2, <2>3, OneCall DEF CallsInv
  <1>3. CASE Bridge!Connected(r)
    <2> DEFINE n == [s EXCEPT !.at = "sent"]
    <2>1. socket' = [socket EXCEPT ![r] = n] /\ reply' = reply /\ served' = served /\ s.at = "connecting"
      BY <1>3 DEF Bridge!Connected, CallsInv
    <2>2. n \in WholeSocket /\ socket'[r] = n
      BY <1>1, <2>1 DEF WholeSocket, CallsInv
    <2>3. CallInv(r)'
      BY <1>1, <1>a, <2>1, <2>2 DEF CallInv
    <2> QED BY <1>1, <2>1, <2>2, <2>3, OneCall DEF CallsInv
  <1>4. CASE Bridge!SocketFails(r)
    <2> DEFINE n == [s EXCEPT !.at = "closed", !.timer = FALSE]
               how == IF s.at = "connecting" THEN "refused" ELSE "reset"
               w == IF reply[r] = Null THEN how ELSE reply[r]
    <2>1. /\ socket' = [socket EXCEPT ![r] = n] /\ served' = served /\ s.at \in {"connecting", "sent", "ending"}
          /\ reply' = [reply EXCEPT ![r] = w] /\ reply'[r] = w
      BY <1>4 DEF Bridge!SocketFails, Bridge!Settle, CallsInv
    <2>2. n \in WholeSocket /\ socket'[r] = n
      BY <1>1, <2>1 DEF WholeSocket, CallsInv
    <2>5. socket'[r].at = "closed" /\ socket'[r].written = s.written /\ ~socket'[r].timer
      BY <1>1, <1>a, <2>1, <2>2 DEF WholeSocket
    <2>6. \A q \in {Null, "result", "error", "refused", "reset", "timeout"} : Bridge!Line(r, q).kind = q
      BY DEF Bridge!Line
    <2>3. CallInv(r)'
      BY <1>1, <2>1, <2>5, <2>6, BridgeAssumption DEF CallInv
    <2>4. w \in {Null, "result", "error", "refused", "reset", "timeout"}
      BY <1>1
    <2> QED BY <1>1, <2>1, <2>2, <2>3, <2>4, OneCall DEF CallsInv
  <1>5. CASE Bridge!Serve(r)
    <2>1. PICK line \in {Bridge!Line(r, "result"), Bridge!Line(r, "error"), Bridge!Line(Null, "error")} :
             /\ socket' = [socket EXCEPT ![r].written = <<line>>]
             /\ served' = [served EXCEPT ![r] = IF line.kind = "result" THEN @ + 1 ELSE @]
      BY <1>5 DEF Bridge!Serve
    <2> DEFINE n == [at |-> s.at, written |-> <<line>>, arrived |-> s.arrived, timer |-> s.timer, quiet |-> s.quiet]
    <2>d. socket' = [socket EXCEPT ![r].written = <<line>>]
      BY <2>1
    <2>e. n = [s EXCEPT !.written = <<line>>]
      BY <1>a
    <2>a. socket' = [socket EXCEPT ![r] = n]
      BY <2>d, <2>e DEF CallsInv
    <2>b. s.at = "sent" /\ s.written = <<>> /\ reply' = reply
      BY <1>5 DEF Bridge!Serve
    <2>2. /\ s.at = "sent" /\ s.written = <<>> /\ reply' = reply
          /\ socket' = [socket EXCEPT ![r] = n] /\ served[r] = 0 /\ reply[r] = Null
      BY <1>1, <2>a, <2>b DEF CallInv
    <2>3. line \in Lines /\ line.id \in {r, Null} /\ line.kind \in {"result", "error"} /\ (line.kind = "result" => line.id = r)
      BY DEF Lines, Bridge!Line
    <2>4. n \in WholeSocket /\ socket'[r] = n
      BY <1>1, <2>2, <2>3 DEF WholeSocket, CallsInv
    <2>5. <<line>> # <<>> /\ <<line>>[1] = line
      OBVIOUS
    <2>6. served'[r] = IF line.kind = "result" THEN 1 ELSE 0
      BY <2>1, <2>2 DEF CallsInv
    <2>7. n.written = <<line>> /\ n.at = "sent" /\ n.timer = s.timer /\ n.quiet = s.quiet
      BY <2>2
    <2>9. socket'[r].written = <<line>> /\ socket'[r].at = "sent" /\ (socket'[r].timer <=> s.timer) /\ s.timer
      BY <1>1, <2>2, <2>4, <2>7 DEF CallInv
    <2>c. socket'[r].written # <<>> /\ socket'[r].written[1] = line
      BY <2>5, <2>9
    <2>f. reply'[r] = Null /\ Null \notin {"result", "error", "refused"}
      BY <2>2, BridgeAssumption
    <2>8. CallInv(r)'
      <3> DEFINE v == socket'[r]
      <3>1. v.written # <<>> /\ v.written[1] = line /\ v.at = "sent" /\ v.timer
        BY <2>9, <2>c
      <3>2. line.kind # "result" => line.kind = "error"
        BY <2>3
      <3> HIDE DEF v
      <3>3. /\ v.written # <<>> => v.written[1].id \in {r, Null} /\ (v.written[1].kind = "result" => v.written[1].id = r)
            /\ served'[r] = IF v.written # <<>> /\ v.written[1].kind = "result" THEN 1 ELSE 0
        BY <2>3, <2>6, <3>1
      <3> QED BY <2>f, <3>1, <3>3 DEF CallInv, v
    <2>g. /\ served' = [served EXCEPT ![r] = served'[r]] /\ served'[r] \in 0 .. 1
          /\ reply' = [reply EXCEPT ![r] = reply'[r]] /\ reply'[r] = Null
      BY <2>1, <2>2, <2>6, <2>f DEF CallsInv
    <2> QED BY <2>2, <2>4, <2>8, <2>g, OneCall
  <1>6. CASE Bridge!HangUp(r)
    <2>1. socket' = [socket EXCEPT ![r].at = "closed", ![r].timer = FALSE, ![r].quiet = (s.at = "sent")]
      BY <1>6 DEF Bridge!HangUp
    <2>2. ASSUME NEW quiet \in BOOLEAN, quiet <=> s.at = "sent" PROVE CallsInv'
      <3> DEFINE n == [at |-> "closed", written |-> s.written, arrived |-> s.arrived, timer |-> FALSE, quiet |-> quiet]
      <3>1. (s.at = "sent") = quiet
        BY <2>2, Zenon
      <3>2. socket' = [socket EXCEPT ![r].at = "closed", ![r].timer = FALSE, ![r].quiet = quiet]
        BY <2>1, <3>1, Zenon
      <3>3. socket' = [socket EXCEPT ![r] = n] /\ reply' = reply /\ served' = served /\ s.at \in {"sent", "ending"}
        BY <1>6, <1>a, <3>2 DEF Bridge!HangUp, CallsInv
      <3>4. n \in WholeSocket /\ socket'[r] = n
        BY <1>1, <2>2, <3>3 DEF WholeSocket, CallsInv
      <3>5. socket'[r].at = "closed" /\ socket'[r].written = s.written /\ ~socket'[r].timer /\ (socket'[r].quiet <=> quiet)
        BY <3>4
      <3>6. \A q \in {Null, "result", "error", "refused", "reset", "timeout"} : Bridge!Line(r, q).kind = q
        BY DEF Bridge!Line
      <3>7. CallInv(r)'
        BY <1>1, <2>2, <3>3, <3>5, <3>6, BridgeAssumption DEF CallInv
      <3> QED BY <1>1, <3>3, <3>4, <3>7, OneCall DEF CallsInv
    <2> QED BY <2>2
  <1>7. CASE Bridge!SocketIdles(r)
    <2> DEFINE n == [at |-> "closed", written |-> s.written, arrived |-> s.arrived, timer |-> FALSE, quiet |-> s.quiet]
               w == IF reply[r] = Null THEN "timeout" ELSE reply[r]
    <2>1. /\ socket' = [socket EXCEPT ![r] = n] /\ served' = served /\ s.timer
          /\ reply' = [reply EXCEPT ![r] = w] /\ reply'[r] = w
      BY <1>7, <1>a DEF Bridge!SocketIdles, Bridge!Settle, CallsInv
    <2>2. n \in WholeSocket /\ socket'[r] = n
      BY <1>1, <2>1 DEF WholeSocket, CallsInv
    <2>5. socket'[r].at = "closed" /\ socket'[r].written = s.written /\ ~socket'[r].timer
      BY <2>2
    <2>6. \A q \in {Null, "result", "error", "refused", "reset", "timeout"} : Bridge!Line(r, q).kind = q
      BY DEF Bridge!Line
    <2>3. CallInv(r)'
      BY <1>1, <2>1, <2>5, <2>6, BridgeAssumption DEF CallInv
    <2>4. w \in {Null, "result", "error", "refused", "reset", "timeout"}
      BY <1>1
    <2> QED BY <1>1, <2>1, <2>2, <2>3, <2>4, OneCall DEF CallsInv
  <1>8. ASSUME NEW m \in 1 .. 2, Bridge!Arrive(r, m) PROVE CallsInv'
    <2>1. s.at = "sent" /\ served' = served /\ reply[r] = Null
      BY <1>8, <1>1 DEF Bridge!Arrive, CallInv
    <2>2. CASE Bridge!Own(r, m) = {}
      <3> DEFINE n == [s EXCEPT !.arrived = m]
      <3>1. socket' = [socket EXCEPT ![r] = n] /\ reply' = reply
        BY <1>8, <2>2 DEF Bridge!Arrive, CallsInv
      <3>2. n \in WholeSocket /\ socket'[r] = n
        BY <1>1, <3>1 DEF WholeSocket, CallsInv
      <3>3. CallInv(r)'
        BY <1>1, <1>a, <2>1, <3>1, <3>2 DEF CallInv
      <3> QED BY <1>1, <2>1, <3>1, <3>2, <3>3, OneCall DEF CallsInv
    <2>3. CASE Bridge!Own(r, m) # {}
      <3>1. PICK l \in Lines : s.written = <<l>>
        BY <1>b, <2>3 DEF Bridge!Own, Bridge!Whole
      <3>2. Bridge!Own(r, m) = {1} /\ l.id = r
        BY <2>3, <3>1 DEF Bridge!Own, Bridge!Whole
      <3>3. (CHOOSE i \in Bridge!Own(r, m) : TRUE) = 1
        BY <3>2
      <3> DEFINE n == [at |-> "ending", written |-> s.written, arrived |-> m, timer |-> s.timer, quiet |-> s.quiet]
      <3>8. s.written[1] = l
        BY <3>1
      <3>4. socket' = [socket EXCEPT ![r] = n] /\ reply' = [reply EXCEPT ![r] = l.kind] /\ reply'[r] = l.kind
        BY <1>8, <1>a, <2>1, <2>3, <3>8, <3>3 DEF Bridge!Arrive, Bridge!Settle, CallsInv
      <3>5. n \in WholeSocket /\ socket'[r] = n
        BY <1>1, <3>4 DEF WholeSocket, CallsInv
      <3>6. l = Bridge!Line(r, l.kind) /\ l.kind \in {"result", "error"}
        BY <3>2 DEF Lines, Bridge!Line
      <3>9. /\ socket'[r].at = "ending" /\ socket'[r].written = s.written /\ (socket'[r].timer <=> s.timer)
            /\ s.written # <<>>
        BY <3>1, <3>5
      <3>7. CallInv(r)'
        BY <1>1, <2>1, <3>4, <3>6, <3>8, <3>9, BridgeAssumption DEF CallInv
      <3> QED BY <1>1, <2>1, <3>4, <3>5, <3>6, <3>7, OneCall DEF CallsInv
    <2> QED BY <2>2, <2>3
  <1> QED BY <1>2, <1>3, <1>4, <1>5, <1>6, <1>7, <1>8

LEMMA CallsRest == CallsInv /\ UNCHANGED clientVars => CallsInv'
  BY DEF clientVars, CallsInv, CallInv

LEMMA CallsHold == CallsInv => Bridge!ClientTypeOK /\ Bridge!CallsSettle
  <1> SUFFICES ASSUME CallsInv PROVE Bridge!ClientTypeOK /\ Bridge!CallsSettle
    OBVIOUS
  <1>1. ASSUME NEW r \in Requests
        PROVE  /\ socket[r].at \in {"none", "connecting", "sent", "ending", "closed"} /\ served[r] \in 0 .. 1
               /\ reply[r] \in {Null, "result", "error", "refused", "reset", "timeout"}
    BY DEF CallsInv, WholeSocket
  <1>2. \A r \in Requests : CallInv(r)
    BY DEF CallsInv
  <1>3. ASSUME NEW r \in Requests, reply[r] \in {"result", "error"}
        PROVE  socket[r].written[1] = Bridge!Line(r, reply[r]) /\ (reply[r] = "result" => served[r] = 1)
    BY <1>2, <1>3 DEF CallInv, Bridge!Line
  <1>4. ASSUME NEW r \in Requests
        PROVE  /\ reply[r] = "refused" => served[r] = 0
               /\ socket[r].at # "none" /\ reply[r] = Null => socket[r].timer \/ socket[r].quiet
    BY <1>1, <1>2 DEF CallInv
  <1> QED BY <1>1, <1>3, <1>4 DEF Bridge!ClientTypeOK, Bridge!CallsSettle, CallsInv
-----------------------------------------------------------------------------
LEMMA ToolsStart == Bridge!KgInit => ToolsInv
  <1> SUFFICES ASSUME Bridge!KgInit PROVE ToolsInv
    OBVIOUS
  <1>1. ASSUME NEW t \in ToolCalls
        PROVE  /\ kgTool[t].at = "none" /\ kgTool[t].result = Null /\ kgTool[t].timer = FALSE
               /\ published[t] = <<>> /\ asked[t] = Null
    BY DEF Bridge!KgInit, Bridge!NoTool
  <1>2. \A t \in ToolCalls : ToolInv(t)
    BY <1>1, BridgeAssumption DEF ToolInv
  <1>3. kgTool \in [ToolCalls -> WholeTool]
    BY DEF Bridge!KgInit, Bridge!NoTool, WholeTool, Principal
  <1>4. <<>> \in Seq(Principal)
    OBVIOUS
  <1> QED BY <1>2, <1>3, <1>4 DEF Bridge!KgInit, ToolsInv, Principal

\* A step of one call leaves the others alone.
LEMMA OneTool ==
    ASSUME ToolsInv, NEW t \in ToolCalls, NEW k \in WholeTool, kgTool' = [kgTool EXCEPT ![t] = k],
           who' \in Principal, pool' \in BOOLEAN,
           asked'[t] \in Principal, asked' = [asked EXCEPT ![t] = asked'[t]],
           published' = [published EXCEPT ![t] = published'[t]], published'[t] \in Seq(Principal),
           ToolInv(t)'
    PROVE  ToolsInv'
  <1>1. \A q \in ToolCalls : q # t => kgTool'[q] = kgTool[q] /\ asked'[q] = asked[q] /\ published'[q] = published[q]
    BY DEF ToolsInv
  <1>2. \A q \in ToolCalls : q # t => ToolInv(q)'
    BY <1>1 DEF ToolsInv, ToolInv
  <1> QED BY <1>2 DEF ToolsInv

LEMMA ToolStep == ToolsInv /\ Bridge!KgNext => ToolsInv'
  <1> SUFFICES ASSUME ToolsInv, Bridge!KgNext PROVE ToolsInv'
    OBVIOUS
  <1>1. ASSUME NEW i \in Principal, Bridge!ChangeIdentity(i) PROVE ToolsInv'
    BY <1>1 DEF Bridge!ChangeIdentity, ToolsInv, ToolInv
  <1>2. ASSUME NEW t \in ToolCalls,
               \/ Bridge!StartTool(t) \/ Bridge!Query(t) \/ Bridge!ToolTimeout(t)
               \/ \E ok \in BOOLEAN : Bridge!GetExecutor(t, ok)
               \/ \E found \in {"function", "null"} : Bridge!ResolveEmbedder(t, found)
               \/ \E how \in {"ok", "unavailable"} : Bridge!Finish(t, how)
        PROVE  ToolsInv'
    <2> DEFINE k == kgTool[t]
               works == IF t \in WritingCalls /\ embedder = "unset" THEN "embedder" ELSE "query"
    <2>1. k \in WholeTool /\ ToolInv(t) /\ asked[t] \in Principal /\ who \in Principal /\ published[t] \in Seq(Principal)
      BY DEF ToolsInv
    <2>2. k = [at |-> k.at, principal |-> k.principal, timer |-> k.timer, result |-> k.result]
      BY <2>1 DEF WholeTool
    <2>3. asked = [asked EXCEPT ![t] = asked[t]] /\ published = [published EXCEPT ![t] = published[t]]
      BY DEF ToolsInv
    <2>4. CASE Bridge!StartTool(t)
      <3>1. /\ k.at = "none" /\ asked' = [asked EXCEPT ![t] = who] /\ asked'[t] = who
            /\ UNCHANGED <<who, pool, published>>
        BY <2>4 DEF Bridge!StartTool, ToolsInv
      <3>2. published[t] = <<>> /\ k.result = Null /\ ~k.timer
        BY <2>1, <3>1 DEF ToolInv, WholeTool
      <3>a. kgTool' = [kgTool EXCEPT ![t] =
               IF who = Null THEN [k EXCEPT !.at = "done", !.result = "missing"]
               ELSE IF pool THEN [Bridge!Working(t) EXCEPT !.principal = who]
               ELSE [k EXCEPT !.at = "executor", !.principal = who]]
        BY <2>4 DEF Bridge!StartTool, ToolsInv
      <3>3. CASE who = Null
        <4> DEFINE n == [k EXCEPT !.at = "done", !.result = "missing"]
        <4>1. kgTool' = [kgTool EXCEPT ![t] = n]
          BY <3>a, <3>3
        <4>2. n \in WholeTool /\ kgTool'[t] = n
          BY <2>1, <4>1 DEF WholeTool, ToolsInv
        <4>c. kgTool'[t].at = "done" /\ kgTool'[t].principal = k.principal /\ (kgTool'[t].timer <=> k.timer) /\ kgTool'[t].result = "missing"
          BY <2>1, <4>2 DEF WholeTool
        <4>3. ToolInv(t)'
          BY <3>1, <3>2, <4>c, BridgeAssumption DEF ToolInv
        <4> QED BY <2>1, <2>3, <3>1, <4>1, <4>2, <4>3, OneTool DEF ToolsInv
      <3>4. CASE who # Null /\ pool
        <4> DEFINE n == [Bridge!Working(t) EXCEPT !.principal = who]
        <4>1. kgTool' = [kgTool EXCEPT ![t] = n]
          BY <3>a, <3>4
        <4>2. n \in WholeTool /\ kgTool'[t] = n
          BY <2>1, <4>1 DEF WholeTool, ToolsInv, Bridge!Working
        <4>c. kgTool'[t].at = works /\ kgTool'[t].principal = who /\ (kgTool'[t].timer <=> TRUE) /\ kgTool'[t].result = k.result
          BY <2>1, <4>2 DEF WholeTool, Bridge!Working
        <4>3. ToolInv(t)'
          BY <3>1, <3>2, <3>4, <4>c, BridgeAssumption DEF ToolInv
        <4> QED BY <2>1, <2>3, <3>1, <4>1, <4>2, <4>3, OneTool DEF ToolsInv
      <3>5. CASE who # Null /\ ~pool
        <4> DEFINE n == [k EXCEPT !.at = "executor", !.principal = who]
        <4>1. kgTool' = [kgTool EXCEPT ![t] = n]
          BY <3>a, <3>5
        <4>2. n \in WholeTool /\ kgTool'[t] = n
          BY <2>1, <4>1 DEF WholeTool, ToolsInv
        <4>c. kgTool'[t].at = "executor" /\ kgTool'[t].principal = who /\ (kgTool'[t].timer <=> k.timer) /\ kgTool'[t].result = k.result
          BY <2>1, <4>2 DEF WholeTool
        <4>3. ToolInv(t)'
          BY <3>1, <3>2, <3>5, <4>c, BridgeAssumption DEF ToolInv
        <4> QED BY <2>1, <2>3, <3>1, <4>1, <4>2, <4>3, OneTool DEF ToolsInv
      <3> QED BY <3>3, <3>4, <3>5
    <2>5. ASSUME NEW ok \in BOOLEAN, Bridge!GetExecutor(t, ok) PROVE ToolsInv'
      <3>1. k.at = "executor" /\ UNCHANGED <<who, asked, published>> /\ pool' \in BOOLEAN
        BY <2>5 DEF Bridge!GetExecutor, ToolsInv
      <3>2. published[t] = <<>> /\ k.result = Null /\ k.principal = asked[t] /\ asked[t] # Null /\ ~k.timer
        BY <2>1, <3>1 DEF ToolInv, WholeTool
      <3>3. CASE ok
        <4> DEFINE n == [at |-> works, principal |-> k.principal, timer |-> TRUE, result |-> k.result]
        <4>1. kgTool' = [kgTool EXCEPT ![t] = n]
          BY <2>5, <3>3 DEF Bridge!GetExecutor, Bridge!Working
        <4>2. n \in WholeTool /\ kgTool'[t] = n
          BY <2>1, <4>1 DEF WholeTool, ToolsInv
        <4>3. ToolInv(t)'
          BY <3>1, <3>2, <4>2, BridgeAssumption DEF ToolInv
        <4> QED BY <2>1, <2>3, <3>1, <4>1, <4>2, <4>3, OneTool DEF ToolsInv
      <3>4. CASE ~ok
        <4> DEFINE n == [at |-> "done", principal |-> k.principal, timer |-> k.timer, result |-> "unavailable"]
        <4>1. kgTool' = [kgTool EXCEPT ![t] = n]
          BY <2>5, <2>2, <3>4 DEF Bridge!GetExecutor, ToolsInv
        <4>2. n \in WholeTool /\ kgTool'[t] = n
          BY <2>1, <4>1 DEF WholeTool, ToolsInv
        <4>3. ToolInv(t)'
          BY <3>1, <3>2, <4>2, BridgeAssumption DEF ToolInv
        <4> QED BY <2>1, <2>3, <3>1, <4>1, <4>2, <4>3, OneTool DEF ToolsInv
      <3> QED BY <3>3, <3>4
    <2>6. ASSUME NEW found \in {"function", "null"}, Bridge!ResolveEmbedder(t, found) PROVE ToolsInv'
      <3> DEFINE n == [k EXCEPT !.at = "query"]
      <3>a. k.at = "embedder" /\ UNCHANGED <<who, asked, published, pool>> /\ kgTool' = [kgTool EXCEPT ![t].at = "query"]
        BY <2>6 DEF Bridge!ResolveEmbedder
      <3>1. k.at = "embedder" /\ UNCHANGED <<who, asked, published, pool>> /\ kgTool' = [kgTool EXCEPT ![t] = n]
        BY <3>a DEF ToolsInv
      <3>2. n \in WholeTool /\ kgTool'[t] = n
        BY <2>1, <3>1 DEF WholeTool, ToolsInv
      <3>c. kgTool'[t].at = "query" /\ kgTool'[t].principal = k.principal /\ (kgTool'[t].timer <=> k.timer) /\ kgTool'[t].result = k.result
        BY <2>1, <3>2 DEF WholeTool
      <3>3. ToolInv(t)'
        BY <2>1, <3>1, <3>c, BridgeAssumption DEF ToolInv
      <3> QED BY <2>1, <2>3, <3>1, <3>2, <3>3, OneTool DEF ToolsInv
    <2>7. CASE Bridge!Query(t)
      <3> DEFINE n == [k EXCEPT !.at = "answer"]
      <3>a. k.at = "query" /\ UNCHANGED <<who, asked, pool>> /\ kgTool' = [kgTool EXCEPT ![t].at = "answer"]
        BY <2>7 DEF Bridge!Query
      <3>1. k.at = "query" /\ UNCHANGED <<who, asked, pool>> /\ kgTool' = [kgTool EXCEPT ![t] = n]
        BY <3>a DEF ToolsInv
      <3>2. n \in WholeTool /\ kgTool'[t] = n
        BY <2>1, <3>1 DEF WholeTool, ToolsInv
      <3>3. published[t] = <<>> /\ k.principal = asked[t] /\ asked[t] # Null
        BY <2>1, <3>1 DEF ToolInv
      <3>4. /\ published'[t] \in Seq(Principal) /\ published' = [published EXCEPT ![t] = published'[t]]
            /\ published'[t] = IF t \in WritingCalls THEN <<asked[t]>> ELSE <<>>
        <4>1. CASE t \in WritingCalls
          <5>1. published' = [published EXCEPT ![t] = Append(published[t], k.principal)]
            BY <2>7, <4>1 DEF Bridge!Query
          <5>2. Append(<<>>, asked[t]) = <<asked[t]>>
            OBVIOUS
          <5>3. published' = [published EXCEPT ![t] = <<asked[t]>>]
            BY <3>3, <5>1, <5>2
          <5>4. <<asked[t]>> \in Seq(Principal)
            BY <2>1
          <5> QED BY <4>1, <5>3, <5>4 DEF ToolsInv
        <4>2. CASE t \notin WritingCalls
          BY <2>1, <2>3, <2>7, <3>3, <4>2 DEF Bridge!Query
        <4> QED BY <4>1, <4>2
      <3>5. <<asked[t]>> # <<>>
        OBVIOUS
      <3>c. kgTool'[t].at = "answer" /\ kgTool'[t].principal = k.principal /\ (kgTool'[t].timer <=> k.timer) /\ kgTool'[t].result = k.result
        BY <2>1, <3>2 DEF WholeTool
      <3>6. ToolInv(t)'
        BY <2>1, <3>1, <3>c, <3>3, <3>4, <3>5, BridgeAssumption DEF ToolInv
      <3> QED BY <2>1, <2>3, <3>1, <3>2, <3>4, <3>6, OneTool DEF ToolsInv
    <2>8. ASSUME NEW how \in {"ok", "unavailable"}, Bridge!Finish(t, how) PROVE ToolsInv'
      <3> DEFINE r == IF k.result = Null THEN how ELSE k.result
                 n == [k EXCEPT !.at = "done", !.timer = FALSE, !.result = r]
      <3>1. /\ k.at = "answer" \/ (k.at = "query" /\ how = "unavailable")
            /\ UNCHANGED <<who, asked, published, pool>>
            /\ kgTool' = [kgTool EXCEPT ![t].at = "done", ![t].timer = FALSE, ![t].result = r]
        BY <2>8 DEF Bridge!Finish
      <3>a. kgTool' = [kgTool EXCEPT ![t] = n]
        BY <3>1 DEF ToolsInv
      <3>2. n \in WholeTool /\ kgTool'[t] = n
        BY <2>1, <3>a DEF WholeTool, ToolsInv
      <3>c. kgTool'[t].at = "done" /\ kgTool'[t].principal = k.principal /\ (kgTool'[t].timer <=> FALSE) /\ kgTool'[t].result = r
        BY <2>1, <3>2 DEF WholeTool
      <3>3. ToolInv(t)'
        BY <2>1, <3>1, <3>c, BridgeAssumption DEF ToolInv
      <3> QED BY <2>1, <2>3, <3>1, <3>a, <3>2, <3>3, OneTool DEF ToolsInv
    <2>9. CASE Bridge!ToolTimeout(t)
      <3> DEFINE n == [k EXCEPT !.timer = FALSE, !.result = "timeout"]
      <3>a. /\ k.timer /\ k.result = Null /\ UNCHANGED <<who, asked, published, pool>>
            /\ kgTool' = [kgTool EXCEPT ![t].timer = FALSE, ![t].result = "timeout"]
        BY <2>9 DEF Bridge!ToolTimeout
      <3>1. k.timer /\ UNCHANGED <<who, asked, published, pool>> /\ kgTool' = [kgTool EXCEPT ![t] = n]
        BY <3>a DEF ToolsInv
      <3>2. n \in WholeTool /\ kgTool'[t] = n
        BY <2>1, <3>1 DEF WholeTool, ToolsInv
      <3>4. k.at \in {"none", "executor", "embedder", "query", "answer", "done"}
        BY <2>1 DEF WholeTool
      <3>5. k.at \notin {"none", "executor", "done"}
        BY <2>1, <3>a DEF ToolInv
      <3>c. kgTool'[t].at = k.at /\ kgTool'[t].principal = k.principal /\ (kgTool'[t].timer <=> FALSE) /\ kgTool'[t].result = "timeout"
        BY <2>1, <3>2 DEF WholeTool
      <3>3. ToolInv(t)'
        BY <2>1, <3>a, <3>c, <3>4, <3>5, BridgeAssumption DEF ToolInv
      <3> QED BY <2>1, <2>3, <3>1, <3>2, <3>3, OneTool DEF ToolsInv
    <2> QED BY <1>2, <2>4, <2>5, <2>6, <2>7, <2>8, <2>9
  <1> QED BY <1>1, <1>2 DEF Bridge!KgNext, Principal

LEMMA ToolsRest == ToolsInv /\ UNCHANGED kgVars => ToolsInv'
  BY DEF kgVars, ToolsInv, ToolInv

LEMMA ToolsHold == ToolsInv => Bridge!EpisodesAreOwn
  <1> SUFFICES ASSUME ToolsInv, NEW t \in ToolCalls
               PROVE  /\ \A i \in DOMAIN published[t] : published[t][i] = asked[t] /\ asked[t] # Null
                      /\ kgTool[t].result = "ok" /\ t \in WritingCalls => Len(published[t]) = 1
                      /\ Len(published[t]) <= 1
                      /\ kgTool[t].at # "none" /\ kgTool[t].result = Null
                            => kgTool[t].at = "executor" \/ kgTool[t].timer
    BY DEF Bridge!EpisodesAreOwn
  <1>1. ToolInv(t) /\ kgTool[t] \in WholeTool
    BY DEF ToolsInv
  <1>2. Len(<<>>) = 0 /\ Len(<<asked[t]>>) = 1 /\ DOMAIN <<asked[t]>> = {1} /\ <<asked[t]>>[1] = asked[t]
    OBVIOUS
  <1>3. kgTool[t].at # "none" /\ kgTool[t].result = Null => kgTool[t].at = "executor" \/ kgTool[t].timer
    BY <1>1 DEF ToolInv, WholeTool
  <1>4. kgTool[t].result = "ok" /\ t \in WritingCalls => published[t] # <<>>
    BY <1>1 DEF ToolInv
  <1>5. CASE published[t] = <<>>
    BY <1>2, <1>3, <1>4, <1>5
  <1>6. CASE asked[t] # Null /\ published[t] = <<asked[t]>>
    BY <1>2, <1>3, <1>6
  <1> QED BY <1>1, <1>5, <1>6 DEF ToolInv
-----------------------------------------------------------------------------
LEMMA RuntimeStarts == Bridge!LoopInit => RuntimeInv
  BY BridgeAssumption DEF Bridge!LoopInit, Bridge!NoLoop, Bridge!NotArmed, RuntimeInv

LEMMA RuntimeStep == RuntimeInv /\ Bridge!LoopNext => RuntimeInv'
  <1> SUFFICES ASSUME RuntimeInv, Bridge!LoopNext PROVE RuntimeInv'
    OBVIOUS
  <1> DEFINE g == guarded
             Answer == {"whole", "partial", "lost"}
  <1>a. /\ g.limit \in AskedLimits \cup {NoopLimit, Null} /\ g.idle \in Nat /\ g.status \in {"gone", "armed", "not_advancing"}
        /\ g = [limit |-> g.limit, idle |-> g.idle, status |-> g.status]
        /\ g.status # "gone" => g.limit \in Nat /\ g.limit \in AskedLimits \cup {NoopLimit}
    BY RuntimeAssumption DEF RuntimeInv
  <1>b. runtime.asks \in AskedLimits \cup {Null} /\ LimitOf(runtime) \in Nat /\ NoopLimit \in Nat
    BY RuntimeAssumption DEF RuntimeInv, LimitOf
  <1>1. ASSUME NEW asks \in AskedLimits \cup {Null}, NEW answer \in Answer, Bridge!Arm(asks, answer) PROVE RuntimeInv'
    <2> DEFINE h == IF g.status = "gone" THEN [limit |-> IF asks = Null THEN NoopLimit ELSE asks, idle |-> 0, status |-> "armed"]
                    ELSE [limit |-> IF asks = Null THEN g.limit ELSE asks, idle |-> g.idle, status |-> g.status]
               f == [limit |-> h.limit, idle |-> h.idle, status |-> IF h.idle >= h.limit THEN "not_advancing" ELSE h.status]
    <2>1. h.limit \in AskedLimits \cup {NoopLimit} /\ h.limit \in Nat /\ h.idle \in Nat /\ h.status \in {"armed", "not_advancing"}
      BY <1>a, <1>b, RuntimeAssumption
    <2>2. Bridge!Armed(asks) = f
      BY <1>a, <2>1 DEF Bridge!Armed
    <2>3. guarded' = f
      BY <1>1, <2>2 DEF Bridge!Arm
    <2>4. /\ guarded' \in [limit : AskedLimits \cup {NoopLimit, Null}, idle : Nat, status : {"gone", "armed", "not_advancing"}]
          /\ guarded'.status # "gone" /\ guarded'.limit # Null
          /\ guarded'.status # "not_advancing" => guarded'.idle < guarded'.limit
      <3>1. f.limit = h.limit /\ f.idle = h.idle /\ f.status \in {"armed", "not_advancing"} /\ (f.status # "not_advancing" => ~(h.idle >= h.limit))
        BY <2>1
      <3>2. f \in [limit : AskedLimits \cup {NoopLimit, Null}, idle : Nat, status : {"gone", "armed", "not_advancing"}]
        BY <2>1, <3>1
      <3>3. Null \notin Nat
        BY RuntimeAssumption
      <3> HIDE DEF f, h
      <3> QED BY <2>1, <2>3, <3>1, <3>2, <3>3
    <2> DEFINE read == IF asks = Null /\ guarded'.limit # NoopLimit THEN Bridge!Read("lost") ELSE Bridge!Read(answer)
    <2>5. runtime' = [asks |-> asks, last |-> read, idle |-> 0, ticks |-> 0, on |-> read.ok /\ ~read.stop]
      BY <1>1 DEF Bridge!Arm
    <2>6. read.ok \in BOOLEAN /\ read.stop \in BOOLEAN
      BY DEF Bridge!Read, Bridge!MustStop
    <2>7. ASSUME read.ok, ~read.stop
          PROVE  guarded'.limit = (IF asks = Null THEN NoopLimit ELSE asks) /\ guarded'.status # "not_advancing"
      <3>1. /\ ~(asks = Null /\ guarded'.limit # NoopLimit) /\ read = Bridge!Read(answer)
            /\ answer = "whole" /\ guarded'.status # "not_advancing"
        BY <2>7 DEF Bridge!Read, Bridge!MustStop
      <3>2. asks # Null => f.limit = asks
        OBVIOUS
      <3> QED BY <2>3, <3>1, <3>2
    <2>8. runtime'.on => read.ok /\ ~read.stop
      BY <2>5
    <2>9. /\ runtime'.asks = asks /\ runtime'.last = read /\ runtime'.idle = 0 /\ runtime'.ticks = 0 /\ runtime'.on \in BOOLEAN
          /\ runtime' = [asks |-> runtime'.asks, last |-> runtime'.last, idle |-> runtime'.idle, ticks |-> runtime'.ticks, on |-> runtime'.on]
      BY <2>5, <2>6
    <2>b. LimitOf(runtime)' = IF asks = Null THEN NoopLimit ELSE asks
      BY <2>9 DEF LimitOf
    <2> HIDE DEF f, h, read
    <2>c. runtime'.asks \in AskedLimits \cup {Null} /\ runtime'.idle \in Nat /\ runtime'.ticks \in Nat /\ guarded'.idle \in Nat
      BY <2>4, <2>9
    <2>d. ASSUME runtime'.on
          PROVE  /\ runtime'.last.ok /\ ~runtime'.last.stop /\ runtime'.idle < LimitOf(runtime)'
                 /\ guarded'.limit = LimitOf(runtime)' /\ runtime'.idle <= guarded'.idle /\ guarded'.idle < guarded'.limit
      <3>1. read.ok /\ ~read.stop
        BY <2>8, <2>d
      <3>2. guarded'.limit = LimitOf(runtime)' /\ guarded'.idle < guarded'.limit
        BY <2>4, <2>7, <2>b, <3>1
      <3>3. LimitOf(runtime)' \in Nat
        BY <1>b, <2>b, RuntimeAssumption
      <3> QED BY <2>9, <2>c, <3>1, <3>2, <3>3
    <2> QED BY <2>4, <2>9, <2>c, <2>d DEF RuntimeInv
  <1>2. ASSUME NEW advanced \in BOOLEAN, NEW answer \in Answer, Bridge!Tick(advanced, answer) PROVE RuntimeInv'
    <2> DEFINE idle == IF advanced THEN 0 ELSE g.idle + 1
               f == [limit |-> g.limit, idle |-> idle,
                     status |-> IF idle >= g.limit THEN "not_advancing" ELSE IF advanced THEN "armed" ELSE g.status]
               read == IF g.status = "gone" THEN Bridge!Read("lost") ELSE Bridge!Read(answer)
    <2>1. IF g.status = "gone" THEN guarded' = g ELSE guarded' = f
      BY <1>2, <1>a DEF Bridge!Tick, Bridge!Ticked
    <2>2. runtime.on /\ runtime' = [asks |-> runtime.asks, last |-> read, idle |-> IF advanced THEN 0 ELSE runtime.idle + 1,
                                    ticks |-> runtime.ticks + 1, on |-> read.ok /\ ~read.stop]
      BY <1>2 DEF Bridge!Tick, RuntimeInv
    <2>3. read.ok \in BOOLEAN /\ read.stop \in BOOLEAN
      BY DEF Bridge!Read, Bridge!MustStop
    <2>4. ASSUME read.ok, ~read.stop
          PROVE  g.status # "gone" /\ guarded' = f /\ guarded'.status # "not_advancing"
      BY <2>1, <2>4 DEF Bridge!Read, Bridge!MustStop
    <2>5. /\ guarded' \in [limit : AskedLimits \cup {NoopLimit, Null}, idle : Nat, status : {"gone", "armed", "not_advancing"}]
          /\ guarded'.status # "gone" => guarded'.limit # Null
      BY <1>a, <2>1 DEF RuntimeInv
    <2>6. /\ runtime'.asks = runtime.asks /\ runtime'.last = read /\ runtime'.on \in BOOLEAN
          /\ runtime'.idle = IF advanced THEN 0 ELSE runtime.idle + 1
          /\ runtime'.idle \in Nat /\ runtime'.ticks \in Nat
          /\ runtime' = [asks |-> runtime'.asks, last |-> runtime'.last, idle |-> runtime'.idle, ticks |-> runtime'.ticks, on |-> runtime'.on]
          /\ runtime'.on => read.ok /\ ~read.stop
      <3>1. runtime.idle \in Nat /\ runtime.ticks \in Nat /\ runtime.idle + 1 \in Nat /\ runtime.ticks + 1 \in Nat /\ 0 \in Nat
        BY DEF RuntimeInv
      <3> HIDE DEF read
      <3> QED BY <2>2, <2>3, <3>1
    <2>7. ASSUME read.ok, ~read.stop
          PROVE  /\ runtime'.idle < LimitOf(runtime) /\ guarded'.limit = LimitOf(runtime)
                 /\ runtime'.idle <= guarded'.idle /\ guarded'.idle < guarded'.limit
      <3>1. g.status # "gone" /\ guarded'.limit = g.limit /\ guarded'.idle = idle /\ g.limit \in Nat /\ idle < g.limit
        BY <2>4, <2>7, <1>a
      <3>2. g.limit = LimitOf(runtime) /\ runtime.idle <= g.idle
        BY <2>2, <3>1 DEF RuntimeInv
      <3>3. runtime'.idle <= idle
        BY <1>a, <2>6, <3>2 DEF RuntimeInv
      <3> QED BY <1>a, <1>b, <2>6, <3>1, <3>2, <3>3
    <2>8. LimitOf(runtime)' = LimitOf(runtime)
      BY <2>6 DEF LimitOf
    <2> HIDE DEF f, read, idle
    <2> QED BY <1>b, <2>5, <2>6, <2>7, <2>8 DEF RuntimeInv
  <1>3. ASSUME NEW answer \in Answer, Bridge!AskStatus(answer) PROVE RuntimeInv'
    <2> DEFINE read == IF g.status = "gone" THEN [ok |-> TRUE, stop |-> FALSE, limit |-> Null]
                       ELSE [ok |-> answer = "whole", stop |-> answer = "whole" /\ Bridge!MustStop(g.status),
                             limit |-> IF answer = "whole" THEN g.limit ELSE Null]
    <2>1. runtime.on /\ guarded' = guarded /\
          runtime' = [asks |-> runtime.asks, last |-> read, idle |-> runtime.idle, ticks |-> runtime.ticks,
                      on |-> read.ok /\ ~read.stop]
      BY <1>3 DEF Bridge!AskStatus, RuntimeInv
    <2>2. read.ok \in BOOLEAN /\ read.stop \in BOOLEAN
      BY DEF Bridge!MustStop
    <2> HIDE DEF read
    <2>3. /\ runtime'.asks = runtime.asks /\ runtime'.last = read /\ runtime'.idle = runtime.idle
          /\ runtime'.ticks = runtime.ticks /\ runtime'.on \in BOOLEAN /\ (runtime'.on => read.ok /\ ~read.stop)
          /\ runtime' = [asks |-> runtime'.asks, last |-> runtime'.last, idle |-> runtime'.idle, ticks |-> runtime'.ticks, on |-> runtime'.on]
      BY <2>1, <2>2
    <2>4. LimitOf(runtime)' = LimitOf(runtime)
      BY <2>3 DEF LimitOf
    <2> QED BY <2>1, <2>3, <2>4 DEF RuntimeInv
  <1>4. CASE Bridge!Reap
    <2>1. guarded' = [limit |-> Null, idle |-> 0, status |-> "gone"] /\ runtime' = runtime
      BY <1>4 DEF Bridge!Reap, Bridge!NoLoop
    <2> QED BY <2>1 DEF RuntimeInv, LimitOf
  <1> QED BY <1>1, <1>2, <1>3, <1>4 DEF Bridge!LoopNext, Bridge!Answers

LEMMA RuntimeRests == RuntimeInv /\ UNCHANGED runtimeVars => RuntimeInv'
  BY DEF runtimeVars, RuntimeInv, LimitOf

LEMMA RuntimeHolds == RuntimeInv => Bridge!RuntimeStops
  BY DEF RuntimeInv, Bridge!RuntimeStops, LimitOf
-----------------------------------------------------------------------------
(* Studio's calls of the daemon (StudioRpc).                               *)

\* Tries of a call whose request may have been sent, and those on their way.
Begun(c) == IF call[c].at \in {"sent", "over"} /\ call[c].try < MaxTries THEN call[c].try + 1 ELSE call[c].try
Tries(c) == {f.try : f \in {f \in frames : f.call = c}}

\* Each try sends one request, and a handler runs once for each request.
FramesDiffer == \A f, g \in frames : f.call = g.call /\ f.try = g.try => f = g
FramesAreBegun == \A f \in frames : f.try <= Begun(f.call)
RunsAreTries == \A c \in StudioCalls : ran[c] + Cardinality(Tries(c)) <= Begun(c)

\* A call that is not over has a try left.
TriesRemain == \A c \in StudioCalls : call[c].at # "over" => call[c].try < MaxTries

\* The envelope of a call is on record once a handler has it, which runs for it once.
EnvelopesAreOne ==
    /\ \A c \in SignedCalls : ran[c] <= 1 /\ (ran[c] = 1 => <<c, 1>> \in envelopes)
    /\ \A f \in frames : f.at = "handler" /\ f.call \in SignedCalls =>
          /\ ran[f.call] = 0 /\ <<f.call, 1>> \in envelopes
          /\ \A g \in frames : g.at = "handler" /\ g.call = f.call => g = f

\* An answer that a handler ran is one of a handler that ran.
AnswerRecords == [call : StudioCalls, try : 1 .. MaxTries, says : {"done", "replayed"}]
AnswersAreTrue ==
    /\ answers \in Seq(AnswerRecords)
    /\ \A i \in DOMAIN answers : answers[i].says = "done" => ran[answers[i].call] > 0

RpcInv == /\ Rpc!TypeOK /\ FramesDiffer /\ FramesAreBegun /\ RunsAreTries /\ TriesRemain
          /\ EnvelopesAreOne /\ AnswersAreTrue /\ Rpc!AnswersAreOwn

\* Nothing is or will be on the pipe of the relay.
Silent == answers = <<>> /\ \A f \in frames : ~f.heard

\* Who reads from the relay is alone, and what is on the pipe is for it.
PipeInv ==
    /\ \A c \in StudioCalls : call[c].at \in {"writing", "sent"} <=> holder = c
    /\ holder # Null =>
          /\ relay # Null
          /\ call[holder].at = "writing" => ~relay.stdin
          /\ call[holder].at = "sent" => ~relay.stdout
    /\ relay = Null => Silent
    /\ relay # Null => (relay.stdout /\ (relay.stdin \/ holder # Null) => Silent)
    /\ holder # Null => (call[holder].at = "sent" =>
          /\ \A f \in frames : f.heard => Rpc!Mine(holder, f) /\ answers = <<>>
          /\ \A i \in DOMAIN answers : Rpc!Mine(holder, answers[i])
          /\ Len(answers) <= 1)

\* A visit in its second round that will find no root is one that was upset.
VisitInv ==
    /\ Rpc!TypeOK
    /\ \A c \in StudioCalls :
          /\ visit[c].round = 2 =>
                /\ ~root /\ (visit[c].at \in {"opened", "call"} \/ (visit[c].at = "look" /\ cached)) => c \in upset
                /\ visit[c].at = "refused" => c \in upset
          /\ visit[c].at = "unknown" => c \in upset
          /\ visit[c].at = "idle" => visit[c].round = 1

CallerInv ==
    /\ client \in {"socket", "relay"} => RpcInv
    /\ client = "socket" => \A c \in StudioCalls : call[c].at # "writing"
    /\ client = "relay" => PipeInv
    /\ client = "repository" => VisitInv
-----------------------------------------------------------------------------
LEMMA TriesFinite ==
    ASSUME Rpc!TypeOK, NEW c \in StudioCalls
    PROVE  IsFiniteSet(Tries(c)) /\ Cardinality(Tries(c)) \in Nat
  <1>1. Tries(c) \subseteq 1 .. MaxTries
    BY DEF Tries, Rpc!TypeOK, Rpc!Frames
  <1>2. IsFiniteSet(1 .. MaxTries)
    BY RpcAssumption, FS_Interval
  <1> QED BY <1>1, <1>2, FS_Subset, FS_CardinalityType

\* What a step may do to calls and requests: tries begin and do not go back, a new request is
\* of a try that just began, and the others are as they were but for who listens.
Moves == \A c \in StudioCalls : Begun(c) <= Begun(c)'
Sends == \A g \in frames' :
            \/ \E f \in frames : f.call = g.call /\ f.try = g.try /\ f.at = g.at
            \/ g.at = "way" /\ g.try = Begun(g.call) + 1 /\ g.try <= Begun(g.call)'

LEMMA BegunType ==
    ASSUME Rpc!TypeOK, NEW c \in StudioCalls
    PROVE  Begun(c) \in 0 .. MaxTries
  BY RpcAssumption DEF Rpc!TypeOK, Begun

LEMMA SendStep ==
    ASSUME RpcInv, Rpc!TypeOK', Moves, Sends, FramesDiffer', ran' = ran, envelopes' = envelopes
    PROVE  FramesAreBegun' /\ RunsAreTries' /\ EnvelopesAreOne'
  <1>1. ASSUME NEW g \in frames'
        PROVE  g.call \in StudioCalls /\ g.try \in 1 .. MaxTries
    BY <1>1 DEF Rpc!TypeOK, Rpc!Frames
  <1>2. \A c \in StudioCalls : Begun(c) \in Nat /\ Begun(c)' \in Nat
    BY BegunType, RpcAssumption DEF RpcInv, Rpc!TypeOK, Begun
  <1>3. FramesAreBegun'
    <2> SUFFICES ASSUME NEW g \in frames' PROVE g.try <= Begun(g.call)'
      BY DEF FramesAreBegun
    <2>1. CASE \E f \in frames : f.call = g.call /\ f.try = g.try /\ f.at = g.at
      <3>1. g.try <= Begun(g.call)
        BY <2>1 DEF RpcInv, FramesAreBegun
      <3> QED BY <3>1, <1>1, <1>2 DEF Moves
    <2> QED BY <2>1 DEF Sends
  <1>4. ASSUME NEW c \in StudioCalls
        PROVE  ran'[c] + Cardinality(Tries(c)') <= Begun(c)'
    <2>1. ran[c] \in Nat /\ ran[c] + Cardinality(Tries(c)) <= Begun(c)
      BY <1>4, RpcAssumption DEF RpcInv, Rpc!TypeOK, RunsAreTries
    <2>2. IsFiniteSet(Tries(c)) /\ Cardinality(Tries(c)) \in Nat
      BY <1>4, TriesFinite DEF RpcInv
    <2>3. CASE Tries(c)' \subseteq Tries(c)
      <3>1. Cardinality(Tries(c)') <= Cardinality(Tries(c)) /\ Cardinality(Tries(c)') \in Nat
        BY <2>2, <2>3, FS_Subset, FS_CardinalityType
      <3> QED BY <2>1, <2>2, <3>1, <1>2, <1>4 DEF Moves
    <2>4. CASE ~(Tries(c)' \subseteq Tries(c))
      <3>1. PICK g \in frames' : g.call = c /\ g.try \notin Tries(c)
        BY <2>4 DEF Tries
      <3>2. Begun(c) + 1 <= Begun(c)'
        BY <3>1, <1>1 DEF Sends, Tries
      <3>3. Tries(c)' \subseteq Tries(c) \cup {Begun(c) + 1}
        BY DEF Tries, Sends
      <3>4. /\ IsFiniteSet(Tries(c) \cup {Begun(c) + 1})
            /\ Cardinality(Tries(c) \cup {Begun(c) + 1}) <= Cardinality(Tries(c)) + 1
            /\ Cardinality(Tries(c) \cup {Begun(c) + 1}) \in Nat
        <4>1. /\ IsFiniteSet(Tries(c) \cup {Begun(c) + 1})
              /\ Cardinality(Tries(c) \cup {Begun(c) + 1}) \in {Cardinality(Tries(c)), Cardinality(Tries(c)) + 1}
          BY <2>2, FS_AddElement
        <4> QED BY <2>2, <4>1
      <3>5. Cardinality(Tries(c)') <= Cardinality(Tries(c)) + 1 /\ Cardinality(Tries(c)') \in Nat
        BY <3>3, <3>4, <2>2, FS_Subset, FS_CardinalityType
      <3> QED BY <2>1, <2>2, <3>2, <3>5, <1>2, <1>4
    <2> QED BY <2>3, <2>4
  <1>5. EnvelopesAreOne'
    <2>1. \A c \in SignedCalls : ran'[c] <= 1 /\ (ran'[c] = 1 => <<c, 1>> \in envelopes')
      BY DEF RpcInv, EnvelopesAreOne
    <2>2. ASSUME NEW g \in frames', g.at = "handler", g.call \in SignedCalls
          PROVE  /\ ran'[g.call] = 0 /\ <<g.call, 1>> \in envelopes'
                 /\ \A h \in frames' : h.at = "handler" /\ h.call = g.call => h = g
      <3>1. PICK f \in frames : f.call = g.call /\ f.try = g.try /\ f.at = g.at
        BY <2>2 DEF Sends
      <3>2. ASSUME NEW h \in frames', h.at = "handler", h.call = g.call
            PROVE  h = g
        <4>1. PICK e \in frames : e.call = h.call /\ e.try = h.try /\ e.at = h.at
          BY <3>2 DEF Sends
        <4>2. e = f
          BY <4>1, <3>1, <3>2, <2>2 DEF RpcInv, EnvelopesAreOne
        <4> QED BY <4>1, <4>2, <3>1, <3>2 DEF FramesDiffer
      <3> QED BY <3>1, <3>2, <2>2 DEF RpcInv, EnvelopesAreOne
    <2> QED BY <2>1, <2>2 DEF EnvelopesAreOne
  <1> QED BY <1>3, <1>4, <1>5 DEF RunsAreTries


CallRecords == [at : {"idle", "ready", "writing", "sent", "paused", "over"},
                try : 0 .. MaxTries, outcome : Rpc!Outcomes, of : StudioCalls \cup {Null}]
Relays == {Null} \cup [stdin : BOOLEAN, stdout : BOOLEAN, joined : BOOLEAN]

LEMMA RpcTypes ==
    Rpc!TypeOK <=>
        /\ call \in [StudioCalls -> CallRecords] /\ frames \subseteq Rpc!Frames /\ envelopes \subseteq SignedCalls \X (1 .. MaxTries)
        /\ ran \in [StudioCalls -> 0 .. MaxTries] /\ up \in BOOLEAN /\ cooling \in BOOLEAN
        /\ \A i \in DOMAIN answers : answers[i].call \in StudioCalls /\ answers[i].says \in Rpc!Outcomes
        /\ relay \in Relays /\ holder \in StudioCalls \cup {Null}
        /\ visit \in [StudioCalls -> [at : Rpc!Places, round : {1, 2}]]
        /\ cached \in BOOLEAN /\ root \in BOOLEAN /\ upset \subseteq StudioCalls
  BY DEF Rpc!TypeOK, CallRecords, Relays

LEMMA RpcTypesNext ==
    Rpc!TypeOK' <=>
        /\ call' \in [StudioCalls -> CallRecords] /\ frames' \subseteq Rpc!Frames /\ envelopes' \subseteq SignedCalls \X (1 .. MaxTries)
        /\ ran' \in [StudioCalls -> 0 .. MaxTries] /\ up' \in BOOLEAN /\ cooling' \in BOOLEAN
        /\ \A i \in DOMAIN answers' : answers'[i].call \in StudioCalls /\ answers'[i].says \in Rpc!Outcomes
        /\ relay' \in Relays /\ holder' \in StudioCalls \cup {Null}
        /\ visit' \in [StudioCalls -> [at : Rpc!Places, round : {1, 2}]]
        /\ cached' \in BOOLEAN /\ root' \in BOOLEAN /\ upset' \subseteq StudioCalls
  BY DEF Rpc!TypeOK, CallRecords, Relays

\* Answers that were written before say what they said.
LEMMA AnswersRemain ==
    ASSUME RpcInv, \A c \in StudioCalls : ran[c] <= ran'[c], ran' \in [StudioCalls -> 0 .. MaxTries], answers' \in Seq(AnswerRecords),
           \A i \in DOMAIN answers' : \/ \E j \in DOMAIN answers : answers'[i] = answers[j]
                                      \/ answers'[i].says = "done" => ran'[answers'[i].call] > 0
    PROVE  AnswersAreTrue' /\ \A i \in DOMAIN answers' : answers'[i].call \in StudioCalls /\ answers'[i].says \in Rpc!Outcomes
  <1>1. ASSUME NEW i \in DOMAIN answers', answers'[i].says = "done"
        PROVE  ran'[answers'[i].call] > 0
    <2>1. answers'[i] \in AnswerRecords
      OBVIOUS
    <2>2. answers'[i].call \in StudioCalls
      BY <2>1 DEF AnswerRecords
    <2>3. CASE \E j \in DOMAIN answers : answers'[i] = answers[j]
      <3>1. ran[answers'[i].call] > 0
        BY <1>1, <2>3 DEF RpcInv, AnswersAreTrue
      <3>2. /\ ran[answers'[i].call] \in Int /\ ran'[answers'[i].call] \in Int
            /\ ran[answers'[i].call] <= ran'[answers'[i].call]
        BY <2>2, RpcAssumption, RpcTypes DEF RpcInv
      <3> QED BY <3>1, <3>2
    <2> QED BY <1>1, <2>3
  <1>2. \A i \in DOMAIN answers' : answers'[i] \in AnswerRecords
    OBVIOUS
  <1> QED BY <1>1, <1>2 DEF AnswersAreTrue, AnswerRecords, Rpc!Outcomes

LEMMA SomeRemoved ==
    ASSUME NEW S, NEW q \in Seq(S), NEW i \in DOMAIN q, NEW r, r = Rpc!RemoveAt(q, i)
    PROVE  r \in Seq(S) /\ Len(r) = Len(q) - 1 /\ \A k \in DOMAIN r : \E j \in DOMAIN q : r[k] = q[j]
  <1>1. i \in 1 .. Len(q) /\ Len(q) \in Nat
    OBVIOUS
  <1> DEFINE a == SubSeq(q, 1, i - 1)
             b == SubSeq(q, i + 1, Len(q))
  <1>2. a \in Seq(S) /\ Len(a) = i - 1 /\ \A k \in 1 .. i - 1 : a[k] = q[k]
    BY <1>1
  <1>3. b \in Seq(S) /\ Len(b) = Len(q) - i /\ \A k \in 1 .. Len(q) - i : b[k] = q[i + k]
    BY <1>1
  <1>4. r = a \o b
    BY DEF Rpc!RemoveAt
  <1> HIDE DEF a, b
  <1>5. r \in Seq(S) /\ Len(r) = Len(q) - 1
    BY <1>1, <1>2, <1>3, <1>4
  <1>6. ASSUME NEW k \in 1 .. Len(q) - 1 PROVE \E j \in DOMAIN q : r[k] = q[j]
    <2>1. CASE k <= i - 1
      <3>1. k \in 1 .. i - 1 /\ k \in DOMAIN q /\ k \in 1 .. Len(a)
        BY <1>1, <1>2, <2>1
      <3>2. r[k] = a[k]
        BY <1>2, <1>3, <1>4, <3>1
      <3> QED BY <1>2, <3>1, <3>2
    <2>2. CASE ~(k <= i - 1)
      <3>1. r[k] = b[k - (i - 1)] /\ k - (i - 1) \in 1 .. Len(q) - i
        BY <1>1, <1>2, <1>3, <1>4, <2>2
      <3>2. b[k - (i - 1)] = q[i + (k - (i - 1))] /\ i + (k - (i - 1)) \in DOMAIN q
        BY <1>1, <1>3, <3>1
      <3> QED BY <3>1, <3>2
    <2> QED BY <2>1, <2>2
  <1> QED BY <1>5, <1>6

\* The requests after a step that sends at most one.
LEMMA FramesStay == ASSUME RpcInv, frames' = frames PROVE Sends /\ FramesDiffer'
  BY DEF Sends, RpcInv, FramesDiffer

LEMMA NoFrames == ASSUME frames' = {} PROVE Sends /\ FramesDiffer' /\ frames' \subseteq Rpc!Frames
  BY DEF Sends, FramesDiffer

LEMMA FrameSent ==
    ASSUME RpcInv, NEW c \in StudioCalls, call[c].at \in {"ready", "writing"}, Begun(c)' = call[c].try + 1,
           frames' = frames \cup {Rpc!Frame(c, TRUE)}
    PROVE  Sends /\ FramesDiffer' /\ frames' \subseteq Rpc!Frames
  <1>0. call[c].try \in 0 .. MaxTries /\ call[c].try < MaxTries /\ MaxTries \in Nat /\ frames \subseteq Rpc!Frames
    BY RpcTypes, RpcAssumption DEF RpcInv, TriesRemain, CallRecords
  <1>f. PICK f \in Rpc!Frames : f = Rpc!Frame(c, TRUE) /\ f.call = c /\ f.try = call[c].try + 1 /\ f.at = "way"
    <2> DEFINE e == Rpc!Frame(c, TRUE)
    <2>1. e \in Rpc!Frames /\ e.call = c /\ e.try = call[c].try + 1 /\ e.at = "way"
      BY <1>0 DEF Rpc!Frame, Rpc!Frames
    <2> HIDE DEF e
    <2>2. e = Rpc!Frame(c, TRUE)
      BY DEF e
    <2> QED BY <2>1, <2>2
  <1>1. f.call = c /\ f.try = call[c].try + 1 /\ f.at = "way"
    BY <1>f
  <1>2. Begun(c) = call[c].try
    BY DEF Begun
  <1>3. \A g \in frames : g.call = c => g.try # f.try
    <2>1. ASSUME NEW g \in frames, g.call = c PROVE g.try # f.try
      <3>1. g.try <= call[c].try /\ g.try \in Nat
        BY <1>0, <1>2, <2>1, RpcAssumption DEF RpcInv, FramesAreBegun, Rpc!Frames
      <3> QED BY <1>0, <1>1, <3>1
    <2> QED BY <2>1
  <1>4. frames' = frames \cup {f}
    BY <1>f
  <1>5. FramesDiffer'
    BY <1>1, <1>3, <1>4 DEF RpcInv, FramesDiffer
  <1>6. Sends
    <2>1. f.try = Begun(f.call) + 1 /\ f.try <= Begun(f.call)' /\ f.at = "way"
      <3>1. Begun(f.call)' = Begun(c)' /\ Begun(f.call) = Begun(c)
        BY <1>1
      <3> QED BY <1>0, <1>1, <1>2, <3>1
    <2> QED BY <1>4, <2>1 DEF Sends
  <1> QED BY <1>0, <1>1, <1>4, <1>5, <1>6

LEMMA Unheard == ASSUME NEW f \in Rpc!Frames
                 PROVE  /\ [f EXCEPT !.heard = FALSE] \in Rpc!Frames /\ [f EXCEPT !.heard = FALSE].call = f.call
                        /\ [f EXCEPT !.heard = FALSE].try = f.try /\ [f EXCEPT !.heard = FALSE].at = f.at
                        /\ [f EXCEPT !.heard = FALSE].heard = FALSE
  BY DEF Rpc!Frames

LEMMA FramesDeaf ==
    ASSUME RpcInv, NEW c \in StudioCalls, frames' = {IF Rpc!Mine(c, f) THEN [f EXCEPT !.heard = FALSE] ELSE f : f \in frames}
    PROVE  Sends /\ FramesDiffer' /\ frames' \subseteq Rpc!Frames
  <1> DEFINE h(f) == IF Rpc!Mine(c, f) THEN [f EXCEPT !.heard = FALSE] ELSE f
  <1>1. ASSUME NEW f \in frames PROVE h(f) \in Rpc!Frames /\ h(f).call = f.call /\ h(f).try = f.try /\ h(f).at = f.at
    BY Unheard, RpcTypes DEF RpcInv
  <1>2. frames' = {h(f) : f \in frames}
    OBVIOUS
  <1> HIDE DEF h
  <1>3. FramesDiffer'
    BY <1>1, <1>2 DEF RpcInv, FramesDiffer
  <1>4. Sends
    BY <1>1, <1>2 DEF Sends
  <1> QED BY <1>1, <1>2, <1>3, <1>4

LEMMA AllDeaf ==
    ASSUME RpcInv, frames' = Rpc!Deaf
    PROVE  Sends /\ FramesDiffer' /\ frames' \subseteq Rpc!Frames /\ \A f \in frames' : ~f.heard
  <1>1. ASSUME NEW f \in frames
        PROVE  /\ [f EXCEPT !.heard = FALSE] \in Rpc!Frames /\ [f EXCEPT !.heard = FALSE].call = f.call
               /\ [f EXCEPT !.heard = FALSE].try = f.try /\ [f EXCEPT !.heard = FALSE].at = f.at
               /\ [f EXCEPT !.heard = FALSE].heard = FALSE
    BY Unheard, RpcTypes DEF RpcInv
  <1> DEFINE h(f) == [f EXCEPT !.heard = FALSE]
  <1>2. frames' = {h(f) : f \in frames}
    BY DEF Rpc!Deaf
  <1>a. \A f \in frames : h(f) \in Rpc!Frames /\ h(f).call = f.call /\ h(f).try = f.try /\ h(f).at = f.at /\ ~h(f).heard
    BY <1>1
  <1> HIDE DEF h
  <1>3. FramesDiffer'
    BY <1>a, <1>2 DEF RpcInv, FramesDiffer
  <1>4. Sends
    BY <1>a, <1>2 DEF Sends
  <1> QED BY <1>a, <1>2, <1>3, <1>4

\* A step of a caller: at most one request is sent, and the daemon does nothing.
LEMMA RpcSend ==
    ASSUME RpcInv, call' \in [StudioCalls -> CallRecords], frames' \subseteq Rpc!Frames, Moves, Sends, FramesDiffer', ran' = ran, envelopes' = envelopes,
           up' \in BOOLEAN, cooling' \in BOOLEAN, relay' \in Relays, holder' \in StudioCalls \cup {Null}, UNCHANGED repoVars, TriesRemain', Rpc!AnswersAreOwn',
           answers' \in Seq(AnswerRecords), \A i \in DOMAIN answers' : \E j \in DOMAIN answers : answers'[i] = answers[j]
    PROVE  RpcInv'
  <1>0. ran \in [StudioCalls -> 0 .. MaxTries]
    BY RpcTypes DEF RpcInv
  <1>1. AnswersAreTrue' /\ \A i \in DOMAIN answers' : answers'[i].call \in StudioCalls /\ answers'[i].says \in Rpc!Outcomes
    BY <1>0, AnswersRemain, RpcAssumption
  <1>2. Rpc!TypeOK'
    BY <1>1, RpcTypes, RpcTypesNext DEF repoVars, RpcInv
  <1> QED BY <1>1, <1>2, SendStep DEF RpcInv
-----------------------------------------------------------------------------
BegunOf(n) == IF n.at \in {"sent", "over"} /\ n.try < MaxTries THEN n.try + 1 ELSE n.try

\* A call that goes on, and the others that stay.
LEMMA CallGoes ==
    ASSUME RpcInv, NEW c \in StudioCalls, NEW n \in CallRecords, call' = [call EXCEPT ![c] = n], ran' = ran,
           n.at # "over" => n.try < MaxTries, Begun(c) <= BegunOf(n),
           n.of # Null => n.of = c /\ (n.outcome = "done" => ran[c] > 0)
    PROVE  /\ call' \in [StudioCalls -> CallRecords] /\ call'[c] = n /\ \A d \in StudioCalls : d # c => call'[d] = call[d]
           /\ Begun(c)' = BegunOf(n) /\ Moves /\ TriesRemain' /\ Rpc!AnswersAreOwn'
  <1>1. call \in [StudioCalls -> CallRecords]
    BY RpcTypes DEF RpcInv
  <1>2. call' \in [StudioCalls -> CallRecords] /\ call'[c] = n /\ \A d \in StudioCalls : d # c => call'[d] = call[d]
    BY <1>1
  <1>3. Begun(c)' = BegunOf(n)
    BY <1>2 DEF Begun, BegunOf
  <1>4. Moves
    <2>1. ASSUME NEW d \in StudioCalls, d # c PROVE Begun(d)' = Begun(d) /\ Begun(d) \in Nat
      <3>1. Begun(d)' = Begun(d)
        BY <1>2, <2>1 DEF Begun
      <3> QED BY <3>1, BegunType, RpcAssumption DEF RpcInv
    <2> QED BY <1>3, <2>1 DEF Moves
  <1>5. TriesRemain'
    BY <1>2 DEF TriesRemain, RpcInv
  <1>6. Rpc!AnswersAreOwn'
    BY <1>2 DEF Rpc!AnswersAreOwn, RpcInv
  <1> QED BY <1>2, <1>3, <1>4, <1>5, <1>6

\* A call that moves to another place with the try it has.
LEMMA CallMovesTo ==
    ASSUME RpcInv, NEW c \in StudioCalls, NEW p \in {"ready", "writing", "sent"}, call' = [call EXCEPT ![c].at = p], ran' = ran,
           call[c].at \in {"ready", "writing", "paused"}
    PROVE  /\ call' \in [StudioCalls -> CallRecords] /\ call'[c].at = p /\ call'[c].try = call[c].try
           /\ \A d \in StudioCalls : d # c => call'[d] = call[d]
           /\ Begun(c)' = (IF p = "sent" THEN call[c].try + 1 ELSE call[c].try) /\ Moves /\ TriesRemain' /\ Rpc!AnswersAreOwn'
  <1> DEFINE n == [call[c] EXCEPT !.at = p]
  <1>1. call[c] \in CallRecords /\ call[c].try < MaxTries /\ MaxTries \in Nat
    BY RpcTypes, RpcAssumption DEF RpcInv, TriesRemain
  <1>2. n \in CallRecords /\ n.at = p /\ n.try = call[c].try /\ n.of = call[c].of /\ n.outcome = call[c].outcome
    BY <1>1 DEF CallRecords
  <1>3. call' = [call EXCEPT ![c] = n]
    OBVIOUS
  <1> HIDE DEF n
  <1>4. Begun(c) = call[c].try /\ BegunOf(n) = (IF p = "sent" THEN call[c].try + 1 ELSE call[c].try) /\ call[c].try \in Nat
    BY <1>1, <1>2 DEF Begun, BegunOf, CallRecords
  <1>5. n.of # Null => n.of = c /\ (n.outcome = "done" => ran[c] > 0)
    BY <1>2 DEF RpcInv, Rpc!AnswersAreOwn
  <1>6. Begun(c) <= BegunOf(n)
    BY <1>4
  <1> QED BY <1>1, <1>2, <1>3, <1>4, <1>5, <1>6, CallGoes

LEMMA CallFails ==
    ASSUME RpcInv, NEW c \in StudioCalls, Rpc!Fail(c), ran' = ran, call[c].at \in {"ready", "writing", "sent"}
    PROVE  /\ call' \in [StudioCalls -> CallRecords] /\ call'[c].at \in {"paused", "over"}
           /\ \A d \in StudioCalls : d # c => call'[d] = call[d]
           /\ Begun(c)' = call[c].try + 1 /\ Moves /\ TriesRemain' /\ Rpc!AnswersAreOwn'
  <1> DEFINE at == IF Rpc!IsLast(c) THEN "over" ELSE "paused"
             o == IF Rpc!IsLast(c) THEN "failed" ELSE Null
             n == [call[c] EXCEPT !.try = @ + 1, !.at = at, !.outcome = o]
  <1>1. call[c] \in CallRecords /\ call[c].try < MaxTries /\ MaxTries \in Nat /\ call[c].try \in Nat
    BY RpcTypes, RpcAssumption DEF RpcInv, TriesRemain, CallRecords
  <1>a. /\ at = (IF call[c].try + 1 = MaxTries THEN "over" ELSE "paused")
        /\ o \in {"failed", Null}
    BY DEF Rpc!IsLast
  <1>3. call' = [call EXCEPT ![c] = n]
    BY DEF Rpc!Fail
  <1> HIDE DEF at, o
  <1>b. at \in {"over", "paused"} /\ call[c].try + 1 \in 0 .. MaxTries /\ o \in Rpc!Outcomes
    BY <1>1, <1>a DEF Rpc!Outcomes
  <1>2. n \in CallRecords /\ n.at = at /\ n.try = call[c].try + 1 /\ n.of = call[c].of /\ n.outcome = o
    BY <1>1, <1>b DEF CallRecords
  <1> HIDE DEF n
  <1>4. Begun(c) <= call[c].try + 1 /\ BegunOf(n) = call[c].try + 1
    BY <1>1, <1>2, <1>a DEF Begun, BegunOf
  <1>5. n.of # Null => n.of = c /\ (n.outcome = "done" => ran[c] > 0)
    BY <1>2, <1>a, RpcAssumption DEF RpcInv, Rpc!AnswersAreOwn
  <1>6. Begun(c) <= BegunOf(n)
    BY <1>4
  <1>7. n.at # "over" => n.try < MaxTries
    BY <1>1, <1>2, <1>a
  <1> QED BY <1>2, <1>3, <1>4, <1>5, <1>6, <1>7, <1>a, CallGoes

LEMMA CallReturns ==
    ASSUME RpcInv, NEW c \in StudioCalls, NEW o \in Rpc!Outcomes, NEW of \in {c, Null}, Rpc!Return(c, o, of), ran' = ran, call[c].at = "sent",
           of = c /\ o = "done" => ran[c] > 0
    PROVE  /\ call' \in [StudioCalls -> CallRecords] /\ call'[c].at = "over" /\ call'[c].try = call[c].try
           /\ \A d \in StudioCalls : d # c => call'[d] = call[d]
           /\ Begun(c)' = call[c].try + 1 /\ Moves /\ TriesRemain' /\ Rpc!AnswersAreOwn'
  <1> DEFINE n == [call[c] EXCEPT !.at = "over", !.outcome = o, !.of = of]
  <1>1. call[c] \in CallRecords /\ call[c].try < MaxTries /\ MaxTries \in Nat /\ call[c].try \in Nat
    BY RpcTypes, RpcAssumption DEF RpcInv, TriesRemain, CallRecords
  <1>3. call' = [call EXCEPT ![c] = n]
    BY DEF Rpc!Return
  <1>2. n \in CallRecords /\ n.at = "over" /\ n.try = call[c].try /\ n.of = of /\ n.outcome = o
    BY <1>1 DEF CallRecords
  <1> HIDE DEF n
  <1>4. Begun(c) = call[c].try + 1 /\ BegunOf(n) = call[c].try + 1
    BY <1>1, <1>2 DEF Begun, BegunOf
  <1>5. n.of # Null => n.of = c /\ (n.outcome = "done" => ran[c] > 0)
    BY <1>2
  <1>6. Begun(c) <= BegunOf(n)
    BY <1>1, <1>4
  <1> QED BY <1>2, <1>3, <1>4, <1>5, <1>6, CallGoes

LEMMA CallAsks ==
    ASSUME RpcInv, NEW c \in StudioCalls, Rpc!Ask(c)
    PROVE  /\ call' \in [StudioCalls -> CallRecords] /\ call'[c].at \in {"ready", "over"} /\ call[c].at = "idle"
           /\ \A d \in StudioCalls : d # c => call'[d] = call[d]
           /\ Moves /\ TriesRemain' /\ Rpc!AnswersAreOwn' /\ UNCHANGED <<frames, envelopes, ran, up, answers, relay, holder, cooling>>
  <1> DEFINE at == IF cooling THEN "over" ELSE "ready"
             o == IF cooling THEN "failed" ELSE Null
             n == [call[c] EXCEPT !.at = at, !.outcome = o]
  <1>1. call[c] \in CallRecords /\ call[c].try < MaxTries /\ MaxTries \in Nat /\ call[c].try \in Nat /\ call[c].at = "idle"
    BY RpcTypes, RpcAssumption DEF RpcInv, TriesRemain, CallRecords, Rpc!Ask
  <1>3. call' = [call EXCEPT ![c] = n] /\ UNCHANGED <<frames, envelopes, ran, up, answers, relay, holder, cooling>>
    BY DEF Rpc!Ask
  <1>a. at \in {"over", "ready"} /\ o \in {"failed", Null}
    OBVIOUS
  <1> HIDE DEF at, o
  <1>2. n \in CallRecords /\ n.at = at /\ n.try = call[c].try /\ n.of = call[c].of /\ n.outcome = o
    BY <1>1, <1>a DEF CallRecords, Rpc!Outcomes
  <1> HIDE DEF n
  <1>4. Begun(c) = call[c].try /\ BegunOf(n) \in {call[c].try, call[c].try + 1}
    BY <1>1, <1>2 DEF Begun, BegunOf
  <1>5. n.of # Null => n.of = c /\ (n.outcome = "done" => ran[c] > 0)
    BY <1>2, <1>a, RpcAssumption DEF RpcInv, Rpc!AnswersAreOwn
  <1>6. Begun(c) <= BegunOf(n)
    BY <1>1, <1>4
  <1>7. n.at # "over" => n.try < MaxTries
    BY <1>1, <1>2
  <1> QED BY <1>1, <1>2, <1>3, <1>5, <1>6, <1>7, <1>a, CallGoes

LEMMA SameAnswers ==
    ASSUME RpcInv, answers' = answers
    PROVE  answers' \in Seq(AnswerRecords) /\ \A i \in DOMAIN answers' : \E j \in DOMAIN answers : answers'[i] = answers[j]
  BY DEF RpcInv, AnswersAreTrue

LEMMA NoAnswers ==
    ASSUME RpcInv, answers' = <<>>
    PROVE  answers' \in Seq(AnswerRecords) /\ \A i \in DOMAIN answers' : \E j \in DOMAIN answers : answers'[i] = answers[j]
  OBVIOUS
-----------------------------------------------------------------------------
\* What each step of a caller does to the rest of the state.
Whole == /\ frames \subseteq Rpc!Frames /\ up \in BOOLEAN /\ cooling \in BOOLEAN /\ relay \in Relays /\ holder \in StudioCalls \cup {Null}
         /\ call \in [StudioCalls -> CallRecords] /\ ran \in [StudioCalls -> 0 .. MaxTries] /\ envelopes \subseteq SignedCalls \X (1 .. MaxTries)
         /\ answers \in Seq(AnswerRecords)

LEMMA RpcWhole == RpcInv => Whole
  BY RpcTypes DEF RpcInv, Whole, AnswersAreTrue

LEMMA SocketSends ==
    ASSUME RpcInv, UNCHANGED repoVars, NEW c \in StudioCalls,
           Rpc!Ask(c) \/ Rpc!Retry(c) \/ Rpc!Connect(c) \/ Rpc!ConnectFails(c)
    PROVE  RpcInv' /\ (call'[c].at = "writing" => call[c].at = "writing") /\ \A d \in StudioCalls : d # c => call'[d] = call[d]
  <1>w. Whole
    BY RpcWhole
  <1>1. CASE Rpc!Ask(c)
    <2>1. Sends /\ FramesDiffer'
      BY <1>1, FramesStay DEF Rpc!Ask
    <2> QED BY <1>1, <1>w, <2>1, CallAsks, SameAnswers, RpcSend DEF Whole
  <1>2. CASE Rpc!Retry(c)
    <2>1. UNCHANGED <<frames, envelopes, ran, up, answers, relay, holder, cooling>> /\ call[c].at = "paused" /\ call' = [call EXCEPT ![c].at = "ready"]
      BY <1>2 DEF Rpc!Retry
    <2>2. Sends /\ FramesDiffer'
      BY <2>1, FramesStay
    <2> QED BY <1>w, <2>1, <2>2, CallMovesTo, SameAnswers, RpcSend DEF Whole
  <1>3. CASE Rpc!Connect(c)
    <2>1. UNCHANGED <<envelopes, ran, up, answers, relay, holder, cooling>> /\ call[c].at = "ready" /\ call' = [call EXCEPT ![c].at = "sent"]
          /\ frames' = frames \cup {Rpc!Frame(c, TRUE)}
      BY <1>3 DEF Rpc!Connect
    <2>2. /\ call' \in [StudioCalls -> CallRecords] /\ call'[c].at = "sent"
          /\ \A d \in StudioCalls : d # c => call'[d] = call[d]
          /\ Begun(c)' = call[c].try + 1 /\ Moves /\ TriesRemain' /\ Rpc!AnswersAreOwn'
      BY <2>1, CallMovesTo
    <2>3. Sends /\ FramesDiffer' /\ frames' \subseteq Rpc!Frames
      BY <2>1, <2>2, FrameSent
    <2> QED BY <1>w, <2>1, <2>2, <2>3, SameAnswers, RpcSend DEF Whole
  <1>4. CASE Rpc!ConnectFails(c)
    <2>1. UNCHANGED <<frames, envelopes, ran, up, answers, relay, holder, cooling>> /\ call[c].at = "ready" /\ Rpc!Fail(c)
      BY <1>4 DEF Rpc!ConnectFails
    <2>2. Sends /\ FramesDiffer'
      BY <2>1, FramesStay
    <2> QED BY <1>w, <2>1, <2>2, CallFails, SameAnswers, RpcSend DEF Whole
  <1> QED BY <1>1, <1>2, <1>3, <1>4

LEMMA SocketReads ==
    ASSUME RpcInv, UNCHANGED repoVars, NEW c \in StudioCalls,
           Rpc!Read(c) \/ Rpc!TimeOut(c) \/ Rpc!Broken(c)
    PROVE  RpcInv' /\ (call'[c].at = "writing" => call[c].at = "writing") /\ \A d \in StudioCalls : d # c => call'[d] = call[d]
  <1>w. Whole
    BY RpcWhole
  <1>1. CASE Rpc!Read(c)
    <2>1. PICK i \in DOMAIN answers : /\ Rpc!Mine(c, answers[i]) /\ Rpc!Return(c, answers[i].says, answers[i].call)
                                      /\ answers' = Rpc!RemoveAt(answers, i)
      BY <1>1 DEF Rpc!Read
    <2>2. UNCHANGED <<frames, envelopes, ran, up, relay, holder, cooling>> /\ call[c].at = "sent"
      BY <1>1 DEF Rpc!Read
    <2>r. answers[i] \in AnswerRecords
      BY <1>w DEF Whole
    <2>3. answers[i] \in AnswerRecords /\ answers[i].call = c /\ answers[i].says \in Rpc!Outcomes
      BY <2>1, <2>r DEF Rpc!Mine, AnswerRecords, Rpc!Outcomes
    <2>4. answers[i].says = "done" => ran[c] > 0
      BY <2>3 DEF RpcInv, AnswersAreTrue
    <2>5. /\ call' \in [StudioCalls -> CallRecords] /\ call'[c].at = "over"
          /\ \A d \in StudioCalls : d # c => call'[d] = call[d]
          /\ Moves /\ TriesRemain' /\ Rpc!AnswersAreOwn'
      BY <2>1, <2>2, <2>3, <2>4, CallReturns
    <2>6. Sends /\ FramesDiffer'
      BY <2>2, FramesStay
    <2>7. answers' \in Seq(AnswerRecords) /\ \A k \in DOMAIN answers' : \E j \in DOMAIN answers : answers'[k] = answers[j]
      BY <1>w, <2>1, SomeRemoved DEF Whole
    <2> QED BY <1>w, <2>2, <2>5, <2>6, <2>7, RpcSend DEF Whole
  <1>2. CASE Rpc!TimeOut(c)
    <2>1. /\ UNCHANGED <<envelopes, ran, up, relay, holder, cooling>> /\ call[c].at = "sent" /\ Rpc!Fail(c)
          /\ frames' = {IF Rpc!Mine(c, f) THEN [f EXCEPT !.heard = FALSE] ELSE f : f \in frames}
          /\ answers' = answers \/ \E i \in DOMAIN answers : answers' = Rpc!RemoveAt(answers, i)
      BY <1>2 DEF Rpc!TimeOut, Rpc!Waiting
    <2>2. Sends /\ FramesDiffer' /\ frames' \subseteq Rpc!Frames
      BY <2>1, FramesDeaf
    <2>3. answers' \in Seq(AnswerRecords) /\ \A k \in DOMAIN answers' : \E j \in DOMAIN answers : answers'[k] = answers[j]
      BY <1>w, <2>1, SomeRemoved, SameAnswers DEF Whole
    <2>4. /\ call' \in [StudioCalls -> CallRecords] /\ call'[c].at \in {"paused", "over"}
          /\ \A d \in StudioCalls : d # c => call'[d] = call[d]
          /\ Moves /\ TriesRemain' /\ Rpc!AnswersAreOwn'
      BY <2>1, CallFails
    <2> QED BY <1>w, <2>1, <2>2, <2>3, <2>4, RpcSend DEF Whole
  <1>3. CASE Rpc!Broken(c)
    <2>1. UNCHANGED <<frames, envelopes, ran, up, answers, relay, holder, cooling>> /\ call[c].at = "sent" /\ (Rpc!Fail(c) \/ Rpc!Return(c, "unparsed", Null))
      BY <1>3 DEF Rpc!Broken
    <2>2. Sends /\ FramesDiffer'
      BY <2>1, FramesStay
    <2>3. /\ call' \in [StudioCalls -> CallRecords] /\ call'[c].at \in {"paused", "over"}
          /\ \A d \in StudioCalls : d # c => call'[d] = call[d]
          /\ Moves /\ TriesRemain' /\ Rpc!AnswersAreOwn'
      <3>1. "unparsed" \in Rpc!Outcomes /\ Null \in {c, Null} /\ "unparsed" # "done"
        BY DEF Rpc!Outcomes
      <3> QED BY <2>1, <3>1, CallFails, CallReturns
    <2> QED BY <1>w, <2>1, <2>2, <2>3, SameAnswers, RpcSend DEF Whole
  <1> QED BY <1>1, <1>2, <1>3

\* The relay for all calls: what the callers do to the calls, the requests and the answers.
LEMMA RelaySends ==
    ASSUME RpcInv, PipeInv, UNCHANGED repoVars, NEW c \in StudioCalls,
           Rpc!Ask(c) \/ Rpc!Retry(c) \/ Rpc!TakeRelay(c) \/ Rpc!SpawnFails(c) \/ Rpc!NoStdin(c) \/ Rpc!Write(c)
    PROVE  RpcInv'
  <1>w. Whole
    BY RpcWhole
  <1>1. CASE Rpc!Ask(c) \/ Rpc!Retry(c)
    BY <1>1, SocketSends
  <1>2. CASE Rpc!TakeRelay(c)
    <2>1. UNCHANGED <<frames, envelopes, ran, up, answers, cooling>> /\ call[c].at = "ready" /\ call' = [call EXCEPT ![c].at = "writing"] /\ holder' = c
      BY <1>2 DEF Rpc!TakeRelay
    <2>2. Sends /\ FramesDiffer'
      BY <2>1, FramesStay
    <2>3. relay' \in Relays
      BY <1>2, <1>w DEF Rpc!TakeRelay, Relays, Whole
    <2> QED BY <1>w, <2>1, <2>2, <2>3, CallMovesTo, SameAnswers, RpcSend DEF Whole
  <1>3. CASE Rpc!SpawnFails(c) \/ Rpc!NoStdin(c)
    <2>1. UNCHANGED <<frames, envelopes, ran, up, answers, relay, holder>> /\ call[c].at = "ready" /\ Rpc!Fail(c) /\ cooling' \in BOOLEAN
      BY <1>3, <1>w DEF Rpc!SpawnFails, Rpc!NoStdin, Rpc!FailDown, Rpc!FailRelay, Whole
    <2>2. Sends /\ FramesDiffer'
      BY <2>1, FramesStay
    <2> QED BY <1>w, <2>1, <2>2, CallFails, SameAnswers, RpcSend DEF Whole
  <1>4. CASE Rpc!Write(c)
    <2>1. /\ UNCHANGED <<envelopes, ran, up, answers>> /\ call[c].at = "writing"
          /\ frames' = IF relay.joined THEN frames \cup {Rpc!Frame(c, TRUE)} ELSE frames
          /\ cooling' \in BOOLEAN /\ holder' \in {holder, Null}
          /\ call' = [call EXCEPT ![c].at = "sent"] \/ Rpc!Fail(c)
      BY <1>4, <1>w DEF Rpc!Write, Rpc!FailRelay, Whole
    <2>n. relay # Null
      BY <2>1, RpcAssumption DEF PipeInv
    <2>m. relay' \in {[relay EXCEPT !.stdin = TRUE, !.stdout = FALSE], [relay EXCEPT !.stdin = TRUE]}
      BY <1>4 DEF Rpc!Write
    <2>2. relay' \in Relays
      BY <1>w, <2>n, <2>m DEF Relays, Whole
    <2>3. /\ call' \in [StudioCalls -> CallRecords] /\ Begun(c)' = call[c].try + 1 /\ Moves /\ TriesRemain' /\ Rpc!AnswersAreOwn'
      BY <2>1, CallMovesTo, CallFails
    <2>4. Sends /\ FramesDiffer' /\ frames' \subseteq Rpc!Frames
      BY <1>w, <2>1, <2>3, FramesStay, FrameSent DEF Whole
    <2> QED BY <1>w, <2>1, <2>2, <2>3, <2>4, SameAnswers, RpcSend DEF Whole
  <1> QED BY <1>1, <1>2, <1>3, <1>4

LEMMA RelayDrops ==
    ASSUME RpcInv, Rpc!DropRelay
    PROVE  /\ relay' = Null /\ answers' = <<>> /\ Sends /\ FramesDiffer' /\ frames' \subseteq Rpc!Frames /\ \A f \in frames' : ~f.heard
  BY AllDeaf DEF Rpc!DropRelay

LEMMA RelayReads ==
    ASSUME RpcInv, PipeInv, UNCHANGED repoVars, NEW c \in StudioCalls,
           Rpc!WriteFails(c) \/ Rpc!ReadLine(c) \/ Rpc!EndOfFile(c) \/ Rpc!TimeOutRelay(c)
    PROVE  RpcInv'
  <1>w. Whole
    BY RpcWhole
  <1>1. CASE Rpc!WriteFails(c) \/ Rpc!EndOfFile(c)
    <2>1. UNCHANGED <<envelopes, ran, up>> /\ call[c].at \in {"writing", "sent"} /\ Rpc!Fail(c) /\ holder' = Null /\ Rpc!DropRelay /\ cooling' \in BOOLEAN
      BY <1>1, <1>w DEF Rpc!WriteFails, Rpc!EndOfFile, Rpc!FailDown, Whole
    <2>2. Null \in Relays /\ Null \in StudioCalls \cup {Null}
      BY DEF Relays
    <2> QED BY <1>w, <2>1, <2>2, RelayDrops, NoAnswers, CallFails, RpcSend DEF Whole
  <1>2. CASE Rpc!ReadLine(c)
    <2>1. /\ UNCHANGED <<frames, envelopes, ran, up, cooling>> /\ call[c].at = "sent" /\ answers # <<>> /\ holder' = Null
          /\ Rpc!Return(c, Head(answers).says, Head(answers).call) /\ answers' = Tail(answers) /\ relay' = [relay EXCEPT !.stdout = TRUE]
      BY <1>2 DEF Rpc!ReadLine
    <2>2. holder = c /\ holder # Null /\ relay # Null
      BY <2>1, RpcAssumption DEF PipeInv
    <2>3. 1 \in DOMAIN answers /\ Head(answers) = answers[1] /\ Head(answers) \in AnswerRecords
      BY <1>w, <2>1 DEF Whole
    <2>4. Head(answers).call = c /\ Head(answers).says \in Rpc!Outcomes
      <3>1. Rpc!Mine(c, answers[1])
        BY <2>1, <2>2, <2>3 DEF PipeInv
      <3> QED BY <2>3, <3>1 DEF Rpc!Mine, AnswerRecords, Rpc!Outcomes
    <2>5. Head(answers).says = "done" => ran[c] > 0
      BY <2>3, <2>4 DEF RpcInv, AnswersAreTrue
    <2>6. /\ call' \in [StudioCalls -> CallRecords] /\ Moves /\ TriesRemain' /\ Rpc!AnswersAreOwn'
      BY <2>1, <2>4, <2>5, CallReturns
    <2>7. Sends /\ FramesDiffer'
      BY <2>1, FramesStay
    <2>8. answers' \in Seq(AnswerRecords) /\ \A k \in DOMAIN answers' : \E j \in DOMAIN answers : answers'[k] = answers[j]
      <3>1. answers' \in Seq(AnswerRecords) /\ Len(answers') = Len(answers) - 1 /\ Len(answers) \in Nat /\ \A k \in 1 .. Len(answers) - 1 : answers'[k] = answers[k + 1]
        BY <1>w, <2>1 DEF Whole
      <3>2. \A k \in 1 .. Len(answers) - 1 : k + 1 \in DOMAIN answers
        BY <1>w, <3>1 DEF Whole
      <3> QED BY <3>1, <3>2
    <2>9. relay' \in Relays
      BY <1>w, <2>1, <2>2 DEF Relays, Whole
    <2> QED BY <1>w, <2>1, <2>6, <2>7, <2>8, <2>9, RpcSend DEF Whole
  <1>3. CASE Rpc!TimeOutRelay(c)
    <2>1. /\ UNCHANGED <<envelopes, ran, up, answers, cooling>> /\ Rpc!Fail(c) /\ relay' = relay /\ holder' \in {holder, Null}
          /\ call[c].at \in {"ready", "writing", "sent"}
          /\ frames' = frames \/ (call[c].at = "writing" /\ frames' = frames \cup {Rpc!Frame(c, TRUE)})
      BY <1>3 DEF Rpc!TimeOutRelay, Rpc!AfterTimeOut
    <2>2. /\ call' \in [StudioCalls -> CallRecords] /\ Begun(c)' = call[c].try + 1 /\ Moves /\ TriesRemain' /\ Rpc!AnswersAreOwn'
      BY <2>1, CallFails
    <2>3. Sends /\ FramesDiffer' /\ frames' \subseteq Rpc!Frames
      BY <1>w, <2>1, <2>2, FramesStay, FrameSent DEF Whole
    <2> QED BY <1>w, <2>1, <2>2, <2>3, SameAnswers, RpcSend DEF Whole
  <1> QED BY <1>1, <1>2, <1>3

\* Steps nobody calls for: the relay is dropped or may be used again, the daemon starts or ends.
LEMMA NobodyMoves == ASSUME RpcInv, call' = call, ran' = ran PROVE Moves /\ TriesRemain' /\ Rpc!AnswersAreOwn'
  <1>1. \A c \in StudioCalls : Begun(c)' = Begun(c) /\ Begun(c) \in Nat
    BY BegunType, RpcAssumption DEF RpcInv, Begun
  <1>2. Moves
    BY <1>1 DEF Moves
  <1> QED BY <1>2 DEF TriesRemain, Rpc!AnswersAreOwn, RpcInv

LEMMA DaemonComesAndGoes ==
    ASSUME RpcInv, UNCHANGED repoVars, Rpc!Die \/ Rpc!Start
    PROVE  RpcInv'
  <1>w. Whole
    BY RpcWhole
  <1>1. UNCHANGED <<call, envelopes, ran, answers, holder, cooling>> /\ up' \in BOOLEAN /\ (frames' = frames \/ frames' = {}) /\ relay' \in Relays
    BY <1>w DEF Rpc!Die, Rpc!Start, Relays, Whole
  <1>2. Sends /\ FramesDiffer' /\ frames' \subseteq Rpc!Frames
    BY <1>w, <1>1, NoFrames, FramesStay DEF Whole
  <1> QED BY <1>w, <1>1, <1>2, NobodyMoves, SameAnswers, RpcSend DEF Whole

LEMMA RelayRests ==
    ASSUME RpcInv, UNCHANGED repoVars, Rpc!ResetRelay \/ Rpc!CoolDown
    PROVE  RpcInv'
  <1>w. Whole
    BY RpcWhole
  <1>1. CASE Rpc!ResetRelay
    <2>1. UNCHANGED <<call, envelopes, ran, up, holder>> /\ cooling' = FALSE /\ Rpc!DropRelay
      BY <1>1 DEF Rpc!ResetRelay
    <2>2. Null \in Relays
      BY DEF Relays
    <2> QED BY <1>w, <2>1, <2>2, RelayDrops, NobodyMoves, NoAnswers, RpcSend DEF Whole
  <1>2. CASE Rpc!CoolDown
    <2>1. UNCHANGED <<call, frames, envelopes, ran, up, answers, relay, holder>> /\ cooling' = FALSE
      BY <1>2 DEF Rpc!CoolDown
    <2> QED BY <1>w, <2>1, NobodyMoves, SameAnswers, FramesStay, RpcSend DEF Whole
  <1> QED BY <1>1, <1>2
-----------------------------------------------------------------------------
\* The daemon takes a request and runs its handler.
LEMMA AnswerWritten ==
    ASSUME RpcInv, NEW f \in frames, NEW says \in {"done", "replayed"}, Rpc!Answer(f, says), \A c \in StudioCalls : ran[c] <= ran'[c],
           ran' \in [StudioCalls -> 0 .. MaxTries], says = "done" => ran'[f.call] > 0
    PROVE  AnswersAreTrue' /\ \A i \in DOMAIN answers' : answers'[i].call \in StudioCalls /\ answers'[i].says \in Rpc!Outcomes
  <1>w. Whole
    BY RpcWhole
  <1>0. f.call \in StudioCalls /\ f.try \in 1 .. MaxTries
    BY <1>w DEF Whole, Rpc!Frames
  <1> DEFINE r == [call |-> f.call, try |-> f.try, says |-> says]
  <1>1. r \in AnswerRecords /\ r.says = says /\ r.call = f.call
    BY <1>0 DEF AnswerRecords
  <1>2. answers' = answers \/ answers' = Append(answers, r)
    BY DEF Rpc!Answer
  <1> HIDE DEF r
  <1>3. CASE answers' = answers
    BY <1>3, SameAnswers, AnswersRemain
  <1>4. CASE answers' = Append(answers, r)
    <2>1. /\ answers' \in Seq(AnswerRecords) /\ Len(answers') = Len(answers) + 1 /\ answers'[Len(answers) + 1] = r /\ Len(answers) \in Nat
          /\ \A i \in 1 .. Len(answers) : answers'[i] = answers[i]
      BY <1>w, <1>1, <1>4 DEF Whole
    <2>2. ASSUME NEW i \in DOMAIN answers'
          PROVE  \/ \E j \in DOMAIN answers : answers'[i] = answers[j]
                 \/ answers'[i].says = "done" => ran'[answers'[i].call] > 0
      <3>1. CASE i = Len(answers) + 1
        BY <1>1, <2>1, <3>1
      <3>2. CASE i # Len(answers) + 1
        <4>1. i \in 1 .. Len(answers) /\ i \in DOMAIN answers
          BY <1>w, <2>1, <3>2 DEF Whole
        <4> QED BY <2>1, <4>1
      <3> QED BY <3>1, <3>2
    <2> QED BY <2>1, <2>2, AnswersRemain
  <1> QED BY <1>2, <1>3, <1>4

LEMMA RequestTaken ==
    ASSUME RpcInv, UNCHANGED repoVars, NEW f \in frames, Rpc!Accept(f)
    PROVE  RpcInv'
  <1>w. Whole
    BY RpcWhole
  <1>0. f \in Rpc!Frames /\ f.call \in StudioCalls /\ f.try \in 1 .. MaxTries /\ f.at = "way"
    BY <1>w DEF Whole, Rpc!Frames, Rpc!Accept
  <1>1. UNCHANGED <<call, ran, up, relay, holder, cooling>>
    BY DEF Rpc!Accept
  <1>m. Moves /\ TriesRemain' /\ Rpc!AnswersAreOwn' /\ \A c \in StudioCalls : ran[c] \in Nat /\ ran[c] <= ran'[c]
    BY <1>1, <1>w, NobodyMoves, RpcAssumption DEF Whole
  <1>b. \A c \in StudioCalls : Begun(c)' = Begun(c)
    BY <1>1 DEF Begun
  <1>2. CASE f.call \in SignedCalls /\ <<f.call, 1>> \in envelopes
    <2>1. frames' = frames \ {f} /\ Rpc!Answer(f, "replayed") /\ envelopes' = envelopes
      BY <1>2 DEF Rpc!Accept, Rpc!Signs, Rpc!Envelope
    <2>2. AnswersAreTrue' /\ \A i \in DOMAIN answers' : answers'[i].call \in StudioCalls /\ answers'[i].says \in Rpc!Outcomes
      BY <1>w, <1>1, <1>m, <2>1, AnswerWritten DEF Whole
    <2>3. Sends /\ FramesDiffer'
      BY <2>1 DEF Sends, RpcInv, FramesDiffer
    <2>4. Rpc!TypeOK'
      BY <1>w, <1>1, <2>1, <2>2, RpcTypes, RpcTypesNext DEF repoVars, RpcInv, Whole
    <2>5. FramesAreBegun' /\ RunsAreTries' /\ EnvelopesAreOne'
      BY <1>1, <1>m, <2>1, <2>3, <2>4, SendStep
    <2> QED BY <1>m, <2>2, <2>3, <2>4, <2>5 DEF RpcInv
  <1>3. CASE ~(f.call \in SignedCalls /\ <<f.call, 1>> \in envelopes)
    <2> DEFINE g == [f EXCEPT !.at = "handler"]
    <2>1. /\ frames' = (frames \ {f}) \cup {g} /\ answers' = answers
          /\ envelopes' = IF f.call \in SignedCalls THEN envelopes \cup {<<f.call, 1>>} ELSE envelopes
      BY <1>3 DEF Rpc!Accept, Rpc!Signs, Rpc!Envelope
    <2>2. g \in Rpc!Frames /\ g.call = f.call /\ g.try = f.try /\ g.at = "handler" /\ (g.heard <=> f.heard)
      BY <1>0 DEF Rpc!Frames
    <2> HIDE DEF g
    <2>3. AnswersAreTrue' /\ \A i \in DOMAIN answers' : answers'[i].call \in StudioCalls /\ answers'[i].says \in Rpc!Outcomes
      BY <1>w, <1>1, <1>m, <2>1, SameAnswers, AnswersRemain DEF Whole
    <2>4. frames' \subseteq Rpc!Frames /\ envelopes' \subseteq SignedCalls \X (1 .. MaxTries)
      BY <1>w, <2>1, <2>2, RpcAssumption DEF Whole
    <2>5. Rpc!TypeOK'
      BY <1>w, <1>1, <2>3, <2>4, RpcTypes, RpcTypesNext DEF repoVars, RpcInv, Whole
    <2>6. FramesDiffer'
      BY <2>1, <2>2 DEF RpcInv, FramesDiffer
    <2>7. FramesAreBegun'
      BY <1>0, <1>b, <1>w, <2>1, <2>2, <2>4 DEF RpcInv, FramesAreBegun, Rpc!Frames
    <2>8. ASSUME NEW c \in StudioCalls PROVE Tries(c)' = Tries(c)
      BY <2>1, <2>2 DEF Tries
    <2>9. RunsAreTries'
      BY <1>1, <1>b, <2>8 DEF RunsAreTries, RpcInv
    <2>10. EnvelopesAreOne'
      <3>1. \A c \in SignedCalls : ran'[c] <= 1 /\ (ran'[c] = 1 => <<c, 1>> \in envelopes')
        BY <1>1, <2>1 DEF RpcInv, EnvelopesAreOne
      <3>2. f.call \in SignedCalls => ran[f.call] = 0 /\ <<f.call, 1>> \in envelopes' /\ \A h \in frames : h.call = f.call => h.at # "handler"
        BY <1>m, <1>3, <2>1, RpcAssumption DEF RpcInv, EnvelopesAreOne
      <3>3. envelopes \subseteq envelopes'
        BY <2>1
      <3>4. ASSUME NEW x \in frames', x.at = "handler", x.call \in SignedCalls
            PROVE  ran'[x.call] = 0 /\ <<x.call, 1>> \in envelopes' /\ \A y \in frames' : y.at = "handler" /\ y.call = x.call => y = x
        <4>1. CASE x = g
          BY <1>1, <2>1, <2>2, <3>2, <3>4, <4>1
        <4>2. CASE x # g
          <5>1. x \in frames /\ x.call # f.call
            BY <2>1, <3>2, <3>4, <4>2
          <5> QED BY <1>1, <2>1, <2>2, <3>3, <3>4, <5>1 DEF RpcInv, EnvelopesAreOne
        <4> QED BY <4>1, <4>2
      <3> QED BY <3>1, <3>4 DEF EnvelopesAreOne
    <2> QED BY <1>m, <2>3, <2>5, <2>6, <2>7, <2>9, <2>10 DEF RpcInv
  <1> QED BY <1>2, <1>3

LEMMA RequestRun ==
    ASSUME RpcInv, UNCHANGED repoVars, NEW f \in frames, Rpc!Run(f)
    PROVE  RpcInv'
  <1>w. Whole
    BY RpcWhole
  <1>0. f \in Rpc!Frames /\ f.call \in StudioCalls /\ f.try \in 1 .. MaxTries /\ f.at = "handler"
    BY <1>w DEF Whole, Rpc!Frames, Rpc!Run
  <1>1. UNCHANGED <<call, envelopes, up, relay, holder, cooling>> /\ frames' = frames \ {f} /\ Rpc!Answer(f, "done")
        /\ ran' = [ran EXCEPT ![f.call] = @ + 1]
    BY DEF Rpc!Run
  <1>b. \A c \in StudioCalls : Begun(c)' = Begun(c) /\ Begun(c) \in 0 .. MaxTries
    BY <1>1, BegunType DEF Begun, RpcInv
  <1>n. MaxTries \in Nat /\ \A c \in StudioCalls : ran[c] \in 0 .. MaxTries
    BY <1>w, RpcAssumption DEF Whole
  <1>2. ASSUME NEW c \in StudioCalls, c # f.call PROVE Tries(c)' = Tries(c) /\ ran'[c] = ran[c]
    BY <1>1, <1>2, <1>w DEF Tries, Whole
  <1>3. Tries(f.call)' = Tries(f.call) \ {f.try} /\ f.try \in Tries(f.call)
    <2>1. \A g \in frames : g.call = f.call /\ g.try = f.try => g = f
      BY DEF RpcInv, FramesDiffer
    <2> QED BY <1>1, <2>1 DEF Tries
  <1>4. IsFiniteSet(Tries(f.call)) /\ Cardinality(Tries(f.call)) \in Nat
    BY <1>0, TriesFinite DEF RpcInv
  <1>5. Cardinality(Tries(f.call) \ {f.try}) = Cardinality(Tries(f.call)) - 1 /\ Cardinality(Tries(f.call) \ {f.try}) \in Nat
    BY <1>3, <1>4, FS_RemoveElement, FS_CardinalityType
  <1>6. ran'[f.call] = ran[f.call] + 1 /\ ran[f.call] + Cardinality(Tries(f.call)) <= Begun(f.call)
    BY <1>0, <1>1, <1>w DEF Whole, RpcInv, RunsAreTries
  <1>7. RunsAreTries'
    <2>1. ASSUME NEW c \in StudioCalls PROVE ran'[c] + Cardinality(Tries(c)') <= Begun(c)'
      <3>1. CASE c = f.call
        <4>1. Cardinality(Tries(f.call)') = Cardinality(Tries(f.call)) - 1
          BY <1>3, <1>5
        <4>2. ran'[f.call] + Cardinality(Tries(f.call)') <= Begun(f.call)
          BY <1>0, <1>4, <1>6, <1>b, <1>n, <4>1
        <4>3. Tries(c)' = Tries(f.call)'
          BY <3>1 DEF Tries
        <4> QED BY <1>b, <3>1, <4>2, <4>3
      <3>2. CASE c # f.call
        BY <1>2, <1>b, <3>2 DEF RpcInv, RunsAreTries
      <3> QED BY <3>1, <3>2
    <2> QED BY <2>1 DEF RunsAreTries
  <1>8. ran' \in [StudioCalls -> 0 .. MaxTries] /\ \A c \in StudioCalls : ran[c] <= ran'[c]
    <2>1. ran[f.call] + 1 \in 0 .. MaxTries
      BY <1>0, <1>4, <1>5, <1>6, <1>b, <1>n
    <2> QED BY <1>0, <1>1, <1>n, <1>w, <2>1 DEF Whole
  <1>9. AnswersAreTrue' /\ \A i \in DOMAIN answers' : answers'[i].call \in StudioCalls /\ answers'[i].says \in Rpc!Outcomes
    <2>1. ran'[f.call] > 0
      BY <1>0, <1>6, <1>n
    <2> QED BY <1>1, <1>8, <2>1, AnswerWritten
  <1>10. Rpc!TypeOK'
    BY <1>w, <1>1, <1>8, <1>9, RpcTypes, RpcTypesNext DEF repoVars, RpcInv, Whole
  <1>11. FramesDiffer' /\ FramesAreBegun' /\ TriesRemain'
    BY <1>1, <1>b, <1>w DEF RpcInv, FramesDiffer, FramesAreBegun, TriesRemain, Whole, Rpc!Frames
  <1>12. Rpc!AnswersAreOwn'
    <2>1. ASSUME NEW c \in StudioCalls, call'[c].of # Null PROVE call'[c].of = c /\ (call'[c].outcome = "done" => ran'[c] > 0)
      <3>1. call[c].of = c /\ (call[c].outcome = "done" => ran[c] > 0)
        BY <1>1, <2>1 DEF RpcInv, Rpc!AnswersAreOwn
      <3>2. ran[c] \in Int /\ ran'[c] \in Int /\ ran[c] <= ran'[c]
        BY <1>8, <1>n
      <3> QED BY <1>1, <3>1, <3>2
    <2> QED BY <2>1 DEF Rpc!AnswersAreOwn
  <1>13. EnvelopesAreOne'
    <2>1. f.call \in SignedCalls => /\ ran[f.call] = 0 /\ <<f.call, 1>> \in envelopes
                                    /\ \A g \in frames : g.at = "handler" /\ g.call = f.call => g = f
      BY <1>0 DEF RpcInv, EnvelopesAreOne
    <2>2. ASSUME NEW c \in SignedCalls PROVE ran'[c] <= 1 /\ (ran'[c] = 1 => <<c, 1>> \in envelopes')
      <3>1. c \in StudioCalls
        BY RpcAssumption
      <3>2. CASE c = f.call
        BY <1>1, <1>6, <2>1, <3>2
      <3>3. CASE c # f.call
        BY <1>1, <1>2, <3>1, <3>3 DEF RpcInv, EnvelopesAreOne
      <3> QED BY <3>2, <3>3
    <2>3. ASSUME NEW x \in frames', x.at = "handler", x.call \in SignedCalls
          PROVE  ran'[x.call] = 0 /\ <<x.call, 1>> \in envelopes' /\ \A y \in frames' : y.at = "handler" /\ y.call = x.call => y = x
      <3>1. x \in frames /\ x # f
        BY <1>1
      <3>2. x.call # f.call /\ x.call \in StudioCalls
        BY <2>1, <2>3, <3>1, RpcAssumption
      <3>3. ran'[x.call] = ran[x.call]
        BY <1>2, <3>2
      <3> QED BY <1>1, <2>3, <3>1, <3>3 DEF RpcInv, EnvelopesAreOne
    <2> QED BY <2>2, <2>3 DEF EnvelopesAreOne
  <1> QED BY <1>7, <1>9, <1>10, <1>11, <1>12, <1>13 DEF RpcInv
-----------------------------------------------------------------------------
\* What the daemon does reaches the relay only for a request it still hears.
LEMMA PipeOfDaemon ==
    ASSUME RpcInv, PipeInv, Rpc!DaemonNext
    PROVE  PipeInv'
  <1>w. Whole
    BY RpcWhole
  <1>1. CASE Rpc!Die
    <2>1. /\ UNCHANGED <<call, answers, holder>> /\ frames' = {}
          /\ relay' = IF relay = Null THEN Null ELSE [relay EXCEPT !.joined = FALSE]
      BY <1>1 DEF Rpc!Die
    <2>2. /\ relay' = Null <=> relay = Null
          /\ relay # Null => (relay'.stdin <=> relay.stdin) /\ (relay'.stdout <=> relay.stdout)
      <3>1. CASE relay = Null
        BY <2>1, <3>1
      <3>2. CASE relay # Null
        <4>1. relay \in [stdin : BOOLEAN, stdout : BOOLEAN, joined : BOOLEAN] /\ relay' = [relay EXCEPT !.joined = FALSE]
          BY <1>w, <2>1, <3>2 DEF Whole, Relays
        <4>2. /\ relay' \in [stdin : BOOLEAN, stdout : BOOLEAN, joined : BOOLEAN]
              /\ (relay'.stdin <=> relay.stdin) /\ (relay'.stdout <=> relay.stdout)
          BY <4>1
        <4>3. relay' # Null
          BY <4>2, RpcAssumption
        <4> QED BY <3>2, <4>2, <4>3
      <3> QED BY <3>1, <3>2
    <2>3. Silent => Silent'
      BY <2>1 DEF Silent
    <2> QED BY <2>1, <2>2, <2>3 DEF PipeInv, Rpc!Mine
  <1>2. CASE Rpc!Start
    <2>1. UNCHANGED <<call, answers, holder, frames, relay>>
      BY <1>2 DEF Rpc!Start
    <2> QED BY <2>1 DEF PipeInv, Silent, Rpc!Mine
  <1>3. ASSUME NEW f \in frames, Rpc!Accept(f) \/ Rpc!Run(f) PROVE PipeInv'
    <2>0. f \in Rpc!Frames /\ f.call \in StudioCalls /\ f.try \in 1 .. MaxTries
      BY <1>w DEF Whole, Rpc!Frames
    <2>1. UNCHANGED <<call, holder, relay>>
      BY <1>3 DEF Rpc!Accept, Rpc!Run
    <2>2. CASE \E says \in {"done", "replayed"} : Rpc!Answer(f, says) /\ frames' = frames \ {f}
      <3>1. PICK says \in {"done", "replayed"} : Rpc!Answer(f, says)
        BY <2>2
      <3> DEFINE r == [call |-> f.call, try |-> f.try, says |-> says]
      <3>2. answers' = (IF f.heard THEN Append(answers, r) ELSE answers) /\ r.call = f.call /\ r.try = f.try
        BY <3>1 DEF Rpc!Answer
      <3> HIDE DEF r
      <3>3. frames' \subseteq frames
        BY <2>2
      <3>4. Silent => Silent'
        BY <3>2, <3>3 DEF Silent
      <3>5. CASE holder # Null /\ call[holder].at = "sent"
        <4>1. /\ \A g \in frames : g.heard => Rpc!Mine(holder, g) /\ answers = <<>>
              /\ \A i \in DOMAIN answers : Rpc!Mine(holder, answers[i])
              /\ Len(answers) <= 1
          BY <3>5 DEF PipeInv
        <4>2. CASE f.heard
          <5>1. answers' = Append(<<>>, r) /\ Rpc!Mine(holder, f)
            BY <3>2, <4>1, <4>2
          <5>2. answers' = <<r>> /\ Len(answers') = 1 /\ DOMAIN answers' = {1} /\ answers'[1] = r
            BY <5>1
          <5>3. Rpc!Mine(holder, r)'
            BY <2>1, <3>2, <5>1 DEF Rpc!Mine
          <5>4. \A g \in frames' : ~g.heard
            <6>1. ASSUME NEW g \in frames', g.heard PROVE FALSE
              <7>1. g \in frames /\ g # f /\ Rpc!Mine(holder, g)
                BY <2>2, <4>1, <6>1
              <7> QED BY <5>1, <7>1 DEF Rpc!Mine, RpcInv, FramesDiffer
            <6> QED BY <6>1
          <5>5. \A i \in DOMAIN answers' : Rpc!Mine(holder, answers[i])'
            BY <2>1, <5>2, <5>3 DEF Rpc!Mine
          <5> QED BY <2>1, <3>4, <3>5, <5>2, <5>4, <5>5 DEF PipeInv
        <4>3. CASE ~f.heard
          <5>1. answers' = answers
            BY <3>2, <4>3
          <5> QED BY <2>1, <3>3, <3>4, <3>5, <4>1, <5>1 DEF PipeInv, Rpc!Mine
        <4> QED BY <4>2, <4>3
      <3>6. CASE ~(holder # Null /\ call[holder].at = "sent")
        BY <2>1, <3>4, <3>6 DEF PipeInv
      <3> QED BY <3>5, <3>6
    <2>3. CASE answers' = answers /\ frames' = (frames \ {f}) \cup {[f EXCEPT !.at = "handler"]}
      <3> DEFINE g == [f EXCEPT !.at = "handler"]
      <3>1. g.call = f.call /\ g.try = f.try /\ (g.heard <=> f.heard)
        BY <2>0 DEF Rpc!Frames
      <3>2. frames' = (frames \ {f}) \cup {g}
        BY <2>3
      <3> HIDE DEF g
      <3>3. Silent => Silent'
        BY <2>3, <3>1, <3>2 DEF Silent
      <3> QED BY <2>1, <2>3, <3>1, <3>2, <3>3 DEF PipeInv, Rpc!Mine
    <2>4. CASE Rpc!Accept(f)
      BY <2>2, <2>3, <2>4 DEF Rpc!Accept
    <2> QED BY <1>3, <2>2, <2>4 DEF Rpc!Run
  <1> QED BY <1>1, <1>2, <1>3 DEF Rpc!DaemonNext

\* Of the callers it is the holder that writes and reads.
Nobody(c) == \A d \in StudioCalls : call'[d].at \in {"writing", "sent"} <=> d # c /\ call[d].at \in {"writing", "sent"}

LEMMA PipeOfSenders ==
    ASSUME RpcInv, PipeInv, NEW c \in StudioCalls,
           Rpc!Ask(c) \/ Rpc!Retry(c) \/ Rpc!TakeRelay(c) \/ Rpc!SpawnFails(c) \/ Rpc!NoStdin(c) \/ Rpc!Write(c)
    PROVE  PipeInv'
  <1>w. Whole
    BY RpcWhole
  <1>n. c # Null
    BY RpcAssumption
  <1>1. ASSUME call[c].at \notin {"writing", "sent"}, call'[c].at \notin {"writing", "sent"}, \A d \in StudioCalls : d # c => call'[d] = call[d],
               UNCHANGED <<frames, answers, relay, holder>>
        PROVE  PipeInv'
    <2>1. holder # c
      BY <1>1 DEF PipeInv
    <2>2. holder # Null => call'[holder] = call[holder]
      BY <1>1, <1>w, <2>1 DEF Whole
    <2> QED BY <1>1, <2>1, <2>2 DEF PipeInv, Silent, Rpc!Mine
  <1>2. CASE Rpc!Ask(c)
    BY <1>1, <1>2, CallAsks
  <1>3. CASE Rpc!Retry(c)
    <2>1. call[c].at = "paused" /\ call' = [call EXCEPT ![c].at = "ready"] /\ UNCHANGED <<frames, answers, relay, holder, ran>>
      BY <1>3 DEF Rpc!Retry
    <2>2. call'[c].at = "ready" /\ \A d \in StudioCalls : d # c => call'[d] = call[d]
      BY <2>1, CallMovesTo
    <2> QED BY <1>1, <2>1, <2>2
  <1>4. CASE Rpc!SpawnFails(c) \/ Rpc!NoStdin(c)
    <2>1. call[c].at = "ready" /\ Rpc!Fail(c) /\ UNCHANGED <<frames, answers, relay, holder, ran>>
      BY <1>4 DEF Rpc!SpawnFails, Rpc!NoStdin, Rpc!FailDown, Rpc!FailRelay
    <2>2. call'[c].at \in {"paused", "over"} /\ \A d \in StudioCalls : d # c => call'[d] = call[d]
      BY <2>1, CallFails
    <2> QED BY <1>1, <2>1, <2>2
  <1>5. CASE Rpc!TakeRelay(c)
    <2>1. /\ call[c].at = "ready" /\ holder = Null /\ (relay # Null => relay.stdin) /\ holder' = c
          /\ call' = [call EXCEPT ![c].at = "writing"] /\ UNCHANGED <<frames, answers, ran>>
          /\ relay' = IF relay = Null THEN [stdin |-> FALSE, stdout |-> TRUE, joined |-> up] ELSE [relay EXCEPT !.stdin = FALSE]
      BY <1>5 DEF Rpc!TakeRelay
    <2>2. call'[c].at = "writing" /\ \A d \in StudioCalls : d # c => call'[d] = call[d]
      BY <2>1, CallMovesTo
    <2>3. relay' # Null /\ ~relay'.stdin /\ (relay # Null => (relay'.stdout <=> relay.stdout))
      <3>1. CASE relay = Null
        <4>1. relay' = [stdin |-> FALSE, stdout |-> TRUE, joined |-> up] /\ up \in BOOLEAN
          BY <1>w, <2>1, <3>1 DEF Whole
        <4>2. relay' \in [stdin : BOOLEAN, stdout : BOOLEAN, joined : BOOLEAN] /\ ~relay'.stdin
          BY <4>1
        <4> QED BY <3>1, <4>2, RpcAssumption
      <3>2. CASE relay # Null
        <4>1. relay \in [stdin : BOOLEAN, stdout : BOOLEAN, joined : BOOLEAN] /\ relay' = [relay EXCEPT !.stdin = FALSE]
          BY <1>w, <2>1, <3>2 DEF Whole, Relays
        <4>2. /\ relay' \in [stdin : BOOLEAN, stdout : BOOLEAN, joined : BOOLEAN]
              /\ ~relay'.stdin /\ (relay'.stdout <=> relay.stdout)
          BY <4>1
        <4>3. relay' # Null
          BY <4>2, RpcAssumption
        <4> QED BY <4>2, <4>3
      <3> QED BY <3>1, <3>2
    <2>4. \A d \in StudioCalls : call'[d].at \in {"writing", "sent"} <=> holder' = d
      <3>1. ASSUME NEW d \in StudioCalls PROVE call'[d].at \in {"writing", "sent"} <=> holder' = d
        <4>0. d # Null
          BY RpcAssumption
        <4>1. call[d].at \notin {"writing", "sent"}
          BY <2>1, <4>0 DEF PipeInv
        <4> QED BY <2>1, <2>2, <4>1
      <3> QED BY <3>1
    <2>5. relay'.stdout => Silent
      BY <2>1, <2>3 DEF PipeInv
    <2>6. Silent => Silent'
      BY <2>1 DEF Silent
    <2> QED BY <1>n, <2>1, <2>2, <2>3, <2>4, <2>5, <2>6 DEF PipeInv
  <1>6. CASE Rpc!Write(c)
    <2>1. /\ call[c].at = "writing" /\ answers' = answers /\ ran' = ran
          /\ frames' = IF relay.joined THEN frames \cup {Rpc!Frame(c, TRUE)} ELSE frames
      BY <1>6 DEF Rpc!Write
    <2>2. holder = c /\ relay # Null /\ ~relay.stdin /\ relay \in [stdin : BOOLEAN, stdout : BOOLEAN, joined : BOOLEAN]
      BY <1>n, <1>w, <2>1 DEF PipeInv, Whole, Relays
    <2>3. CASE relay.stdout
      <3>1. relay' = [relay EXCEPT !.stdin = TRUE, !.stdout = FALSE] /\ call' = [call EXCEPT ![c].at = "sent"] /\ holder' = holder
        BY <1>6, <2>3 DEF Rpc!Write
      <3>2. call'[c].at = "sent" /\ call'[c].try = call[c].try /\ \A d \in StudioCalls : d # c => call'[d] = call[d]
        BY <2>1, <3>1, CallMovesTo
      <3>3. relay' \in [stdin : BOOLEAN, stdout : BOOLEAN, joined : BOOLEAN] /\ relay' # Null /\ relay'.stdin /\ ~relay'.stdout
        BY <2>2, <3>1, RpcAssumption
      <3>4. Silent
        BY <1>n, <2>2, <2>3 DEF PipeInv
      <3>5. answers' = <<>> /\ \A f \in frames' : f.heard => Rpc!Mine(c, f)'
        <4>1. Rpc!Frame(c, TRUE).call = c /\ Rpc!Frame(c, TRUE).try = call[c].try + 1
          BY DEF Rpc!Frame
        <4>2. Rpc!Mine(c, Rpc!Frame(c, TRUE))
          BY <4>1 DEF Rpc!Mine
        <4>3. \A f : Rpc!Mine(c, f) => Rpc!Mine(c, f)'
          BY <3>2 DEF Rpc!Mine
        <4>4. \A f \in frames' : f.heard => f = Rpc!Frame(c, TRUE)
          BY <2>1, <3>4 DEF Silent
        <4> QED BY <2>1, <3>4, <4>2, <4>3, <4>4 DEF Silent
      <3>6. \A d \in StudioCalls : call'[d].at \in {"writing", "sent"} <=> holder' = d
        BY <2>2, <3>1, <3>2 DEF PipeInv
      <3>7. /\ Len(answers') <= 1 /\ DOMAIN answers' = {}
        BY <3>5
      <3> QED BY <1>n, <2>2, <3>1, <3>2, <3>3, <3>5, <3>6, <3>7 DEF PipeInv
    <2>4. CASE ~relay.stdout
      <3>1. relay' = [relay EXCEPT !.stdin = TRUE] /\ Rpc!Fail(c) /\ holder' = Null
        BY <1>6, <2>4 DEF Rpc!Write, Rpc!FailRelay
      <3>2. call'[c].at \in {"paused", "over"} /\ \A d \in StudioCalls : d # c => call'[d] = call[d]
        BY <2>1, <3>1, CallFails
      <3>3. relay' # Null /\ ~relay'.stdout
        BY <2>2, <2>4, <3>1, RpcAssumption
      <3>4. \A d \in StudioCalls : call'[d].at \in {"writing", "sent"} <=> holder' = d
        BY <2>2, <3>1, <3>2, RpcAssumption DEF PipeInv
      <3> QED BY <3>1, <3>3, <3>4 DEF PipeInv
    <2> QED BY <2>3, <2>4
  <1> QED BY <1>2, <1>3, <1>4, <1>5, <1>6

LEMMA PipeOfReaders ==
    ASSUME RpcInv, PipeInv, NEW c \in StudioCalls,
           Rpc!WriteFails(c) \/ Rpc!ReadLine(c) \/ Rpc!EndOfFile(c) \/ Rpc!TimeOutRelay(c)
    PROVE  PipeInv'
  <1>w. Whole
    BY RpcWhole
  <1>n. c # Null
    BY RpcAssumption
  <1>1. CASE Rpc!WriteFails(c) \/ Rpc!EndOfFile(c)
    <2>1. call[c].at \in {"writing", "sent"} /\ Rpc!Fail(c) /\ holder' = Null /\ Rpc!DropRelay /\ ran' = ran
      BY <1>1 DEF Rpc!WriteFails, Rpc!EndOfFile, Rpc!FailDown
    <2>2. call'[c].at \in {"paused", "over"} /\ \A d \in StudioCalls : d # c => call'[d] = call[d]
      BY <2>1, CallFails
    <2>3. holder = c
      BY <2>1 DEF PipeInv
    <2>4. \A d \in StudioCalls : call'[d].at \in {"writing", "sent"} <=> holder' = d
      BY <2>1, <2>2, <2>3, RpcAssumption DEF PipeInv
    <2>5. relay' = Null /\ Silent'
      BY <2>1, RelayDrops DEF Silent
    <2> QED BY <2>1, <2>4, <2>5 DEF PipeInv
  <1>2. CASE Rpc!ReadLine(c)
    <2>1. /\ frames' = frames /\ ran' = ran /\ call[c].at = "sent" /\ answers # <<>> /\ holder' = Null
          /\ call' = [call EXCEPT ![c].at = "over", ![c].outcome = Head(answers).says, ![c].of = Head(answers).call]
          /\ answers' = Tail(answers) /\ relay' = [relay EXCEPT !.stdout = TRUE]
      BY <1>2 DEF Rpc!ReadLine, Rpc!Return
    <2>2. holder = c /\ relay # Null
      BY <1>n, <2>1 DEF PipeInv
    <2>3. call'[c].at = "over" /\ \A d \in StudioCalls : d # c => call'[d] = call[d]
      BY <1>w, <2>1 DEF Whole, CallRecords
    <2>4. \A d \in StudioCalls : call'[d].at \in {"writing", "sent"} <=> holder' = d
      BY <2>1, <2>2, <2>3, RpcAssumption DEF PipeInv
    <2>5. Len(answers) <= 1 /\ \A f \in frames : ~f.heard
      BY <1>n, <2>1, <2>2 DEF PipeInv
    <2>6. answers' = <<>>
      BY <1>w, <2>1, <2>5 DEF Whole
    <2>7. Silent'
      BY <2>1, <2>5, <2>6 DEF Silent
    <2> QED BY <2>1, <2>4, <2>7 DEF PipeInv
  <1>3. CASE Rpc!TimeOutRelay(c)
    <2>1. Rpc!Fail(c) /\ relay' = relay /\ answers' = answers /\ ran' = ran
      BY <1>3 DEF Rpc!TimeOutRelay, Rpc!AfterTimeOut
    <2>2. CASE call[c].at = "ready" /\ UNCHANGED <<frames, holder>>
      <3>1. call'[c].at \in {"paused", "over"} /\ \A d \in StudioCalls : d # c => call'[d] = call[d]
        BY <2>1, <2>2, CallFails
      <3>2. holder # c
        BY <2>2 DEF PipeInv
      <3>3. holder # Null => call'[holder] = call[holder]
        BY <1>w, <3>1, <3>2 DEF Whole
      <3> QED BY <2>1, <2>2, <3>1, <3>2, <3>3 DEF PipeInv, Silent, Rpc!Mine
    <2>3. CASE call[c].at \in {"writing", "sent"} /\ holder' = Null
      <3>1. call'[c].at \in {"paused", "over"} /\ \A d \in StudioCalls : d # c => call'[d] = call[d]
        BY <2>1, <2>3, CallFails
      <3>2. holder = c /\ relay # Null /\ (call[c].at = "writing" => ~relay.stdin) /\ (call[c].at = "sent" => ~relay.stdout)
        BY <1>n, <2>3 DEF PipeInv
      <3>3. \A d \in StudioCalls : call'[d].at \in {"writing", "sent"} <=> holder' = d
        BY <2>3, <3>1, <3>2, RpcAssumption DEF PipeInv
      <3>4. ~(relay'.stdout /\ relay'.stdin)
        BY <2>1, <2>3, <3>2
      <3> QED BY <2>1, <2>3, <3>2, <3>3, <3>4 DEF PipeInv
    <2> QED BY <1>3, <2>2, <2>3 DEF Rpc!TimeOutRelay
  <1> QED BY <1>1, <1>2, <1>3

LEMMA PipeOfRest ==
    ASSUME RpcInv, PipeInv, Rpc!ResetRelay \/ Rpc!CoolDown
    PROVE  PipeInv'
  <1>1. CASE Rpc!ResetRelay
    <2>1. call' = call /\ holder' = holder /\ holder = Null /\ Rpc!DropRelay
      BY <1>1 DEF Rpc!ResetRelay
    <2>2. relay' = Null /\ Silent'
      BY <2>1, RelayDrops DEF Silent
    <2> QED BY <2>1, <2>2 DEF PipeInv
  <1>2. CASE Rpc!CoolDown
    <2>1. UNCHANGED <<call, frames, answers, relay, holder>>
      BY <1>2 DEF Rpc!CoolDown
    <2> QED BY <2>1 DEF PipeInv, Silent, Rpc!Mine
  <1> QED BY <1>1, <1>2
-----------------------------------------------------------------------------
\* What the properties of a visit rest on.
VisitWhole == /\ visit \in [StudioCalls -> [at : Rpc!Places, round : {1, 2}]] /\ cached \in BOOLEAN /\ root \in BOOLEAN /\ upset \subseteq StudioCalls

LEMMA VisitTyped ==
    ASSUME Rpc!TypeOK, UNCHANGED rpcVars, VisitWhole'
    PROVE  Rpc!TypeOK'
  BY RpcTypes, RpcTypesNext DEF VisitWhole, rpcVars

\* A visitor that goes to another place in its round.
LEMMA VisitGoes ==
    ASSUME VisitWhole, NEW c \in StudioCalls, NEW p \in Rpc!Places, Rpc!To(c, p)
    PROVE  /\ visit' \in [StudioCalls -> [at : Rpc!Places, round : {1, 2}]]
           /\ visit'[c].at = p /\ visit'[c].round = visit[c].round
           /\ \A d \in StudioCalls : d # c => visit'[d] = visit[d]
  BY DEF Rpc!To, VisitWhole

LEMMA VisitStep ==
    ASSUME VisitInv, UNCHANGED rpcVars, Rpc!RepoNext
    PROVE  VisitInv'
  <1>t. VisitWhole /\ Rpc!TypeOK
    BY RpcTypes DEF VisitInv, VisitWhole
  <1>p. {"look", "open", "opened", "call", "answered", "refused", "done", "unknown", "failed"} \subseteq Rpc!Places
    BY DEF Rpc!Places
  <1>r. Rpc!InSecondRound \subseteq StudioCalls /\ \A c \in StudioCalls : visit[c].round = 2 => c \in Rpc!InSecondRound
    BY DEF Rpc!InSecondRound
  <1>1. CASE Rpc!LoseRoot
    <2>1. UNCHANGED <<visit, cached>> /\ root' = FALSE /\ upset' = upset \cup Rpc!InSecondRound
      BY <1>1 DEF Rpc!LoseRoot
    <2>2. VisitWhole'
      BY <1>t, <1>r, <2>1 DEF VisitWhole
    <2> QED BY <1>r, <1>t, <2>1, <2>2, VisitTyped DEF VisitInv
  <1>2. ASSUME NEW c \in StudioCalls, Rpc!Visit(c) \/ Rpc!CallFails(c) \/ Rpc!Answered(c) \/ Rpc!Look(c)
        PROVE  VisitInv'
    <2>1. PICK p \in {"look", "done", "failed", "call", "open"} : 
             /\ Rpc!To(c, p) /\ UNCHANGED <<cached, root, upset>>
             /\ p = "look" => visit[c].at = "idle"
             /\ p = "call" => visit[c].at = "look" /\ cached
      BY <1>2 DEF Rpc!Visit, Rpc!CallFails, Rpc!Answered, Rpc!Look
    <2>2. /\ visit' \in [StudioCalls -> [at : Rpc!Places, round : {1, 2}]] /\ visit'[c].at = p /\ visit'[c].round = visit[c].round
          /\ \A d \in StudioCalls : d # c => visit'[d] = visit[d]
      BY <1>t, <1>p, <2>1, VisitGoes
    <2>3. Rpc!TypeOK'
      BY <1>t, <2>1, <2>2, VisitTyped DEF VisitWhole
    <2> QED BY <2>1, <2>2, <2>3 DEF VisitInv
  <1>3. ASSUME NEW c \in StudioCalls, Rpc!OpenRoot(c)
        PROVE  VisitInv'
    <2>1. Rpc!To(c, "opened") /\ root' = TRUE /\ UNCHANGED <<cached, upset>>
      BY <1>3 DEF Rpc!OpenRoot
    <2>2. /\ visit' \in [StudioCalls -> [at : Rpc!Places, round : {1, 2}]] /\ visit'[c].at = "opened" /\ visit'[c].round = visit[c].round
          /\ \A d \in StudioCalls : d # c => visit'[d] = visit[d]
      BY <1>t, <1>p, <2>1, VisitGoes
    <2>3. Rpc!TypeOK'
      BY <1>t, <2>1, <2>2, VisitTyped DEF VisitWhole
    <2> QED BY <2>1, <2>2, <2>3 DEF VisitInv
  <1>4. ASSUME NEW c \in StudioCalls, Rpc!Opened(c)
        PROVE  VisitInv'
    <2>1. Rpc!To(c, "call") /\ cached' = TRUE /\ root' = root /\ upset' = IF root THEN upset ELSE upset \cup Rpc!InSecondRound
      BY <1>4 DEF Rpc!Opened
    <2>2. /\ visit' \in [StudioCalls -> [at : Rpc!Places, round : {1, 2}]] /\ visit'[c].at = "call" /\ visit'[c].round = visit[c].round
          /\ \A d \in StudioCalls : d # c => visit'[d] = visit[d]
      BY <1>t, <1>p, <2>1, VisitGoes
    <2>3. Rpc!TypeOK'
      BY <1>r, <1>t, <2>1, <2>2, VisitTyped DEF VisitWhole
    <2>4. upset \subseteq upset' /\ (~root' => \A d \in StudioCalls : visit'[d].round = 2 => d \in upset')
      <3>1. CASE root
        BY <2>1, <3>1
      <3>2. CASE ~root
        BY <1>r, <2>1, <2>2, <3>2
      <3> QED BY <3>1, <3>2
    <2> QED BY <2>2, <2>3, <2>4 DEF VisitInv
  <1>5. ASSUME NEW c \in StudioCalls, Rpc!CallRoot(c)
        PROVE  VisitInv'
    <2>1. /\ visit[c].at = "call" /\ Rpc!To(c, IF root THEN "answered" ELSE "refused") /\ UNCHANGED <<cached, root, upset>>
      BY <1>5 DEF Rpc!CallRoot
    <2>2. PICK p \in {"answered", "refused"} : p = (IF root THEN "answered" ELSE "refused") /\ Rpc!To(c, p)
      BY <2>1
    <2>3. /\ visit' \in [StudioCalls -> [at : Rpc!Places, round : {1, 2}]] /\ visit'[c].at = p /\ visit'[c].round = visit[c].round
          /\ \A d \in StudioCalls : d # c => visit'[d] = visit[d]
      BY <1>t, <1>p, <2>2, VisitGoes
    <2>4. Rpc!TypeOK'
      BY <1>t, <2>1, <2>3, VisitTyped DEF VisitWhole
    <2> QED BY <2>1, <2>2, <2>3, <2>4 DEF VisitInv
  <1>6. ASSUME NEW c \in StudioCalls, Rpc!Refused(c)
        PROVE  VisitInv'
    <2>1. visit[c].at = "refused" /\ UNCHANGED <<root, upset>>
      BY <1>6 DEF Rpc!Refused
    <2>2. CASE visit[c].round = 1
      <3>1. cached' = FALSE /\ visit' = [visit EXCEPT ![c] = [at |-> "look", round |-> 2]]
        BY <1>6, <2>2 DEF Rpc!Refused, Rpc!CacheAfterRefusal
      <3>2. /\ visit' \in [StudioCalls -> [at : Rpc!Places, round : {1, 2}]] /\ visit'[c].at = "look" /\ visit'[c].round = 2
            /\ \A d \in StudioCalls : d # c => visit'[d] = visit[d]
        BY <1>t, <1>p, <3>1 DEF VisitWhole
      <3>3. Rpc!TypeOK'
        BY <1>t, <2>1, <3>1, <3>2, VisitTyped DEF VisitWhole
      <3> QED BY <2>1, <3>1, <3>2, <3>3 DEF VisitInv
    <2>3. CASE visit[c].round # 1
      <3>1. Rpc!To(c, "unknown") /\ cached' = cached
        BY <1>6, <2>3 DEF Rpc!Refused
      <3>2. /\ visit' \in [StudioCalls -> [at : Rpc!Places, round : {1, 2}]] /\ visit'[c].at = "unknown" /\ visit'[c].round = visit[c].round
            /\ \A d \in StudioCalls : d # c => visit'[d] = visit[d]
        BY <1>t, <1>p, <3>1, VisitGoes
      <3>3. Rpc!TypeOK'
        BY <1>t, <2>1, <3>1, <3>2, VisitTyped DEF VisitWhole
      <3>4. visit[c].round = 2
        BY <1>t, <2>3 DEF VisitWhole
      <3> QED BY <2>1, <3>1, <3>2, <3>3, <3>4 DEF VisitInv
    <2> QED BY <2>2, <2>3
  <1> QED BY <1>1, <1>2, <1>3, <1>4, <1>5, <1>6 DEF Rpc!RepoNext
-----------------------------------------------------------------------------
LEMMA CallerStart ==
    ASSUME Rpc!Init
    PROVE  CallerInv
  <1>1. /\ call = [c \in StudioCalls |-> [at |-> "idle", try |-> 0, outcome |-> Null, of |-> Null]]
        /\ frames = {} /\ envelopes = {} /\ ran = [c \in StudioCalls |-> 0] /\ up = TRUE
        /\ answers = <<>> /\ relay = Null /\ holder = Null /\ cooling = FALSE
        /\ visit = [c \in StudioCalls |-> [at |-> "idle", round |-> 1]]
        /\ cached = FALSE /\ root \in BOOLEAN /\ upset = {}
    BY DEF Rpc!Init
  <1>2. Rpc!TypeOK
    <2>1. call \in [StudioCalls -> CallRecords] /\ ran \in [StudioCalls -> 0 .. MaxTries]
      BY <1>1, RpcAssumption DEF CallRecords, Rpc!Outcomes
    <2>2. visit \in [StudioCalls -> [at : Rpc!Places, round : {1, 2}]]
      BY <1>1 DEF Rpc!Places
    <2>3. relay \in Relays /\ holder \in StudioCalls \cup {Null} /\ frames \subseteq Rpc!Frames
          /\ envelopes \subseteq SignedCalls \X (1 .. MaxTries) /\ upset \subseteq StudioCalls
      BY <1>1 DEF Relays
    <2>4. \A i \in DOMAIN answers : answers[i].call \in StudioCalls /\ answers[i].says \in Rpc!Outcomes
      BY <1>1
    <2>5. up \in BOOLEAN /\ cooling \in BOOLEAN /\ cached \in BOOLEAN /\ root \in BOOLEAN
      BY <1>1
    <2> QED BY <2>1, <2>2, <2>3, <2>4, <2>5, RpcTypes
  <1>3. \A c \in StudioCalls : call[c].at = "idle" /\ call[c].try = 0 /\ call[c].of = Null /\ ran[c] = 0 /\ Begun(c) = 0 /\ Tries(c) = {}
    BY <1>1 DEF Begun, Tries
  <1>4. FramesDiffer /\ FramesAreBegun /\ TriesRemain /\ EnvelopesAreOne /\ AnswersAreTrue /\ Rpc!AnswersAreOwn
    BY <1>1, <1>3, RpcAssumption DEF FramesDiffer, FramesAreBegun, TriesRemain, EnvelopesAreOne, AnswersAreTrue, Rpc!AnswersAreOwn
  <1>5. RunsAreTries
    BY <1>3, FS_EmptySet DEF RunsAreTries
  <1>6. PipeInv
    BY <1>1, <1>3, RpcAssumption DEF PipeInv, Silent
  <1>7. VisitInv
    BY <1>1, <1>2 DEF VisitInv
  <1> QED BY <1>2, <1>3, <1>4, <1>5, <1>6, <1>7 DEF CallerInv, RpcInv

LEMMA SocketStep ==
    ASSUME RpcInv, \A c \in StudioCalls : call[c].at # "writing", Rpc!SocketNext, UNCHANGED repoVars
    PROVE  RpcInv' /\ \A c \in StudioCalls : call'[c].at # "writing"
  <1>1. CASE Rpc!Die \/ Rpc!Start
    BY <1>1, DaemonComesAndGoes DEF Rpc!Die, Rpc!Start
  <1>2. ASSUME NEW f \in frames, Rpc!Accept(f) \/ Rpc!Run(f) PROVE RpcInv' /\ call' = call
    BY <1>2, RequestTaken, RequestRun DEF Rpc!Accept, Rpc!Run
  <1>3. ASSUME NEW c \in StudioCalls, Rpc!Ask(c) \/ Rpc!Retry(c) \/ Rpc!Connect(c) \/ Rpc!ConnectFails(c)
        PROVE  RpcInv' /\ \A d \in StudioCalls : call'[d].at # "writing"
    <2>1. RpcInv' /\ (call'[c].at = "writing" => call[c].at = "writing") /\ \A d \in StudioCalls : d # c => call'[d] = call[d]
      BY <1>3, SocketSends
    <2> QED BY <2>1
  <1>4. ASSUME NEW c \in StudioCalls, Rpc!Read(c) \/ Rpc!TimeOut(c) \/ Rpc!Broken(c)
        PROVE  RpcInv' /\ \A d \in StudioCalls : call'[d].at # "writing"
    <2>1. RpcInv' /\ (call'[c].at = "writing" => call[c].at = "writing") /\ \A d \in StudioCalls : d # c => call'[d] = call[d]
      BY <1>4, SocketReads
    <2> QED BY <2>1
  <1> QED BY <1>1, <1>2, <1>3, <1>4 DEF Rpc!SocketNext, Rpc!DaemonNext

LEMMA RelayStep ==
    ASSUME RpcInv, PipeInv, Rpc!RelayNext, UNCHANGED repoVars
    PROVE  RpcInv' /\ PipeInv'
  <1>1. CASE Rpc!DaemonNext
    <2>1. RpcInv'
      BY <1>1, DaemonComesAndGoes, RequestTaken, RequestRun DEF Rpc!DaemonNext
    <2> QED BY <1>1, <2>1, PipeOfDaemon
  <1>2. CASE Rpc!ResetRelay \/ Rpc!CoolDown
    BY <1>2, RelayRests, PipeOfRest
  <1>3. ASSUME NEW c \in StudioCalls,
               Rpc!Ask(c) \/ Rpc!Retry(c) \/ Rpc!TakeRelay(c) \/ Rpc!SpawnFails(c) \/ Rpc!NoStdin(c) \/ Rpc!Write(c)
        PROVE  RpcInv' /\ PipeInv'
    BY <1>3, RelaySends, PipeOfSenders
  <1>4. ASSUME NEW c \in StudioCalls, Rpc!WriteFails(c) \/ Rpc!ReadLine(c) \/ Rpc!EndOfFile(c) \/ Rpc!TimeOutRelay(c)
        PROVE  RpcInv' /\ PipeInv'
    BY <1>4, RelayReads, PipeOfReaders
  <1> QED BY <1>1, <1>2, <1>3, <1>4 DEF Rpc!RelayNext

LEMMA CallerRest ==
    ASSUME CallerInv, UNCHANGED <<client, rpcVars, repoVars>>
    PROVE  CallerInv'
  <1>1. UNCHANGED <<client, call, frames, envelopes, ran, up, answers, relay, holder, cooling, visit, cached, root, upset>>
    BY DEF rpcVars, repoVars
  <1>2. (Rpc!TypeOK => Rpc!TypeOK') /\ \A c : Begun(c)' = Begun(c) /\ Tries(c)' = Tries(c)
    BY <1>1, RpcTypes, RpcTypesNext DEF Begun, Tries
  <1>3. RpcInv => RpcInv'
    BY <1>1, <1>2 DEF RpcInv, FramesDiffer, FramesAreBegun, RunsAreTries, TriesRemain, EnvelopesAreOne, AnswersAreTrue, Rpc!AnswersAreOwn
  <1>4. PipeInv => PipeInv'
    BY <1>1 DEF PipeInv, Silent, Rpc!Mine
  <1>5. VisitInv => VisitInv'
    BY <1>1, <1>2 DEF VisitInv
  <1> QED BY <1>1, <1>3, <1>4, <1>5 DEF CallerInv

\* What a step of the clients leaves of the callers' invariant.
LEMMA CallerStep ==
    ASSUME CallerInv, client' = client,
           \/ client = "socket" /\ Rpc!SocketNext /\ UNCHANGED repoVars
           \/ client = "relay" /\ Rpc!RelayNext /\ UNCHANGED repoVars
           \/ client = "repository" /\ Rpc!RepoNext /\ UNCHANGED rpcVars
    PROVE  CallerInv'
  BY SocketStep, RelayStep, VisitStep DEF CallerInv

LEMMA CallerHold ==
    ASSUME CallerInv
    PROVE  /\ client \in {"socket", "relay", "repository"} => Rpc!TypeOK
           /\ client \in {"socket", "relay"} => Rpc!SignedRunsOnce /\ Rpc!AnswersAreOwn
           /\ client = "repository" => Rpc!RetriesHeal
  BY DEF CallerInv, RpcInv, VisitInv, EnvelopesAreOne, Rpc!SignedRunsOnce, Rpc!RetriesHeal
-----------------------------------------------------------------------------
(* The clients as a whole.                                                  *)

\* Of a step of the clients the component in focus sees its own, and every other rests.
LEMMA ClientsStay ==
    ASSUME [ClientsNext]_clientsVars
    PROVE  /\ client' = client
           /\ client \in {"socket", "relay"} => UNCHANGED repoVars
           /\ client = "repository" => UNCHANGED rpcVars
           /\ client = "socket" => Rpc!SocketNext \/ UNCHANGED rpcVars
           /\ client = "relay" => Rpc!RelayNext \/ UNCHANGED rpcVars
           /\ client = "repository" => Rpc!RepoNext \/ UNCHANGED repoVars
           /\ client = "agents" => Local!Next \/ UNCHANGED agentVars
           /\ client = "hostkeys" => Terms!KeyNext \/ UNCHANGED terminalVars
           /\ client = "terminals" => Terms!PanelNext \/ UNCHANGED terminalVars
           /\ client = "bridge" => Cons!BridgeNext \/ UNCHANGED bridgeVars
           /\ client = "events" => Cons!StreamNext \/ UNCHANGED streamedVars
           /\ client = "sandbox" => Sandbox!SandboxNext \/ UNCHANGED confinedVars
           /\ client = "anchor" => Sandbox!AnchorNext \/ UNCHANGED anchorVars
           /\ client = "keysweep" => Sandbox!SweepNext \/ UNCHANGED sweepVars
           /\ client = "inspections" => Inspect!QueryNext \/ UNCHANGED inspectedVars
           /\ client = "bridgeclient" => Bridge!ClientNext \/ UNCHANGED clientVars
           /\ client = "kgtools" => Bridge!KgNext \/ UNCHANGED kgVars
           /\ client = "loopclient" => Bridge!LoopNext \/ UNCHANGED runtimeVars
  <1>1. CASE UNCHANGED clientsVars
    BY <1>1 DEF clientsVars
  <1>2. CASE ClientsNext
    <2>1. client' = client /\ ClientsRest /\ (client \in ClientFoci => ClientsStep)
      BY <1>2 DEF ClientsNext
    <2>2. client \in {"socket", "relay"} => UNCHANGED repoVars
      BY <2>1 DEF ClientsRest, Idles
    <2>3. client = "repository" => UNCHANGED rpcVars
      BY <2>1 DEF ClientsRest, Idles
    <2> HIDE DEF repoVars, rpcVars
    <2> QED BY <2>1, <2>2, <2>3 DEF ClientsStep, ClientFoci
  <1> QED BY <1>1, <1>2

\* What holds of each component while it is in focus.
ClientsInv ==
    /\ CallerInv
    /\ client = "agents" => AgentsInv
    /\ client \in {"hostkeys", "terminals"} => TermsInv
    /\ client = "bridge" => BridgeInv
    /\ client = "events" => StreamInv
    /\ client = "sandbox" => SandboxInv
    /\ client = "anchor" => AnchorInv
    /\ client = "keysweep" => SweepInv
    /\ client = "inspections" => InspectionInv
    /\ client = "bridgeclient" => CallsInv
    /\ client = "kgtools" => ToolsInv
    /\ client = "loopclient" => RuntimeInv

LEMMA ClientsStart == ClientsInit => ClientsInv
  <1> SUFFICES ASSUME ClientsInit PROVE ClientsInv
    OBVIOUS
  <1>1. CallerInv
    <2>1. client \in {"socket", "relay", "repository"} => Rpc!Init
      BY DEF ClientsInit
    <2>2. client \notin {"socket", "relay", "repository"} => CallerInv
      BY DEF CallerInv
    <2> QED BY <2>1, <2>2, CallerStart
  <1>2. /\ client = "agents" => Local!Init
        /\ client \in {"hostkeys", "terminals"} => Terms!Init
    BY DEF ClientsInit
  <1>3. client \in {"bridge", "events"} => Cons!BridgeInit /\ Cons!StreamInit
    <2>1. client \in {"bridge", "events"} => Cons!Init
      BY DEF ClientsInit
    <2> QED BY <2>1 DEF Cons!Init
  <1>4. /\ client = "sandbox" => Sandbox!SandboxInit
        /\ client = "anchor" => Sandbox!AnchorInit
        /\ client = "keysweep" => Sandbox!SweepInit
    BY DEF ClientsInit
  <1>5. /\ client = "inspections" => Inspect!QueryInit
        /\ client = "bridgeclient" => Bridge!ClientInit
        /\ client = "kgtools" => Bridge!KgInit
        /\ client = "loopclient" => Bridge!LoopInit
    BY DEF ClientsInit
  <1>6. client \in {"hostkeys", "terminals"} => TermsInv
    BY <1>2, TermsStart DEF TermsInv
  <1> QED BY <1>1, <1>2, <1>3, <1>4, <1>5, <1>6, AgentsStart, BridgeStart, StreamStart, SandboxStart, AnchorStarts,
             SweepStarts, InspectionStarts, CallsStart, ToolsStart, RuntimeStarts DEF ClientsInv

LEMMA ClientsKeep == ClientsInv /\ [ClientsNext]_clientsVars => ClientsInv'
  <1> SUFFICES ASSUME ClientsInv, [ClientsNext]_clientsVars PROVE ClientsInv'
    OBVIOUS
  <1>f. client' = client
    BY ClientsStay
  <1>1. CallerInv'
    <2>1. CASE client \in {"socket", "relay", "repository"}
      BY <1>f, <2>1, ClientsStay, CallerStep, CallerRest DEF ClientsInv
    <2>2. CASE client \notin {"socket", "relay", "repository"}
      BY <1>f, <2>2 DEF CallerInv
    <2> QED BY <2>1, <2>2
  <1>2. client = "agents" => AgentsInv'
    BY ClientsStay, AgentsStep, AgentsRest DEF ClientsInv
  <1>3. client \in {"hostkeys", "terminals"} => TermsInv'
    <2>1. CASE client = "hostkeys"
      <3>1. Terms!KeyNext => Terms!TypeOK' /\ KeysInv'
        BY <2>1, KeyStep DEF ClientsInv, TermsInv
      <3> QED BY <1>f, <2>1, <3>1, ClientsStay, TermsRest DEF ClientsInv, TermsInv
    <2>2. CASE client = "terminals"
      <3>1. Terms!PanelNext => Terms!TypeOK' /\ PanelInv'
        BY <2>2, PanelStep DEF ClientsInv, TermsInv
      <3> QED BY <1>f, <2>2, <3>1, ClientsStay, TermsRest DEF ClientsInv, TermsInv
    <2> QED BY <2>1, <2>2
  <1>4. (client = "bridge" => BridgeInv') /\ (client = "events" => StreamInv')
    BY ClientsStay, BridgeStep, BridgeRests, StreamStep, StreamRests DEF ClientsInv
  <1>5. /\ client = "sandbox" => SandboxInv'
        /\ client = "anchor" => AnchorInv'
        /\ client = "keysweep" => SweepInv'
    BY ClientsStay, SandboxStep, SandboxRest, AnchorStep, AnchorRests, SweepStep, SweepRests DEF ClientsInv
  <1>6. client = "inspections" => InspectionInv'
    BY ClientsStay, InspectionStep, InspectionRests DEF ClientsInv
  <1>7. /\ client = "bridgeclient" => CallsInv'
        /\ client = "kgtools" => ToolsInv'
        /\ client = "loopclient" => RuntimeInv'
    BY ClientsStay, CallStep, CallsRest, ToolStep, ToolsRest, RuntimeStep, RuntimeRests DEF ClientsInv
  <1> QED BY <1>f, <1>1, <1>2, <1>3, <1>4, <1>5, <1>6, <1>7 DEF ClientsInv

LEMMA ClientsHold == ClientsInv => ClientsAreExact
  <1> SUFFICES ASSUME ClientsInv PROVE ClientsAreExact
    OBVIOUS
  <1>1. /\ While({"socket", "relay", "repository"}, Rpc!TypeOK)
        /\ While({"socket", "relay"}, Rpc!SignedRunsOnce /\ Rpc!AnswersAreOwn)
        /\ While({"repository"}, Rpc!RetriesHeal)
    BY CallerHold DEF ClientsInv, While
  <1>2. While({"agents"}, Local!TypeOK /\ Local!ChildrenAreListed /\ Local!EndIsHonest /\ Local!SessionsFollowAgents)
    BY AgentsHold DEF ClientsInv, While
  <1>3. /\ While({"hostkeys", "terminals"}, Terms!TypeOK)
        /\ While({"hostkeys"}, Terms!KeyIsPinned)
        /\ While({"terminals"}, Terms!NoStrays)
    BY TermsHold DEF ClientsInv, While
  <1>4. While({"bridge"}, Cons!BridgeEnds) /\ While({"events"}, Cons!StreamIsFaithful)
    BY BridgeHolds, StreamHolds DEF ClientsInv, While
  <1>5. /\ While({"sandbox"}, Sandbox!TypeOK /\ Sandbox!SecretsStayHidden /\ Sandbox!WorkIsThere /\ Sandbox!ConfinedUnlessAsked)
        /\ While({"anchor"}, Sandbox!RootsFileIsRead)
        /\ While({"keysweep"}, Sandbox!DeadAreDead)
    BY SandboxHolds, AnchorHolds, SweepHolds DEF ClientsInv, While
  <1>6. While({"inspections"}, Inspect!TypeOK /\ Inspect!OneReceiptEach /\ Inspect!NoOpenTransaction)
    BY InspectionHolds DEF ClientsInv, While
  <1>7. /\ While({"bridgeclient"}, Bridge!ClientTypeOK /\ Bridge!CallsSettle)
        /\ While({"kgtools"}, Bridge!EpisodesAreOwn)
        /\ While({"loopclient"}, Bridge!RuntimeStops)
    BY CallsHold, ToolsHold, RuntimeHolds DEF ClientsInv, While
  <1> QED BY <1>1, <1>2, <1>3, <1>4, <1>5, <1>6, <1>7 DEF ClientsAreExact

\* Those who talk to a daemon or work beside it, whatever is lost, late or repeated between them
\* and whoever ends: signed calls run once and return their own answers, children stay listed, no
\* terminal strays, no secret shows in a sandbox, no inspection goes without its receipt.
THEOREM ClientsStayExact == ClientsSpec => []ClientsAreExact
  BY ClientsStart, ClientsKeep, ClientsHold, PTL DEF ClientsSpec
-----------------------------------------------------------------------------
(* The screens of the console.                                             *)

Plans == {"pro", "max", "enterprise"}
CallKinds == {"pricing", "lookup", "verify", "link", "checkout"}
ScreenTypes ==
    /\ view \in {"loading", "tiers", "checkout", "linkEmail", "linkOTP", "closed"}
    /\ plans \in {Cons!Fallback} \cup (LiveTiers \ {<<>>}) /\ planCursor \in Nat
    /\ {offline, loading, shownError, edited, left} \subseteq BOOLEAN
    /\ {plan, payUrl} \subseteq {Null} \cup Plans /\ signedIn \in {Null, "account"}
    /\ email \in {"", "bad"} \cup Addresses /\ otp \in {"", "short", "full"} /\ codesSent \subseteq Addresses
    /\ apiCalls \in [Cons!ScreenCalls -> Nat]

Awaits == \E k \in {"checkout", "link", "verify"} : Cons!Pending(k)
\* The built-in prices are flagged; whoever waits has a call on its way.
MenusFit ==
    /\ offline <=> plans = Cons!Fallback
    /\ view = "loading" => offline /\ Cons!Pending("pricing")
    /\ view # "loading" /\ loading => Awaits

\* Unless one was left, checkouts on their way are for the plan whose screen is open.
CheckoutsFit ==
    ~left => /\ view = "checkout" => payUrl \in {Null, plan}
             /\ \A c \in Cons!ScreenCalls : c.kind = "checkout" /\ apiCalls[c] > 0 => view = "checkout" /\ c.arg = plan

\* Unless the address was changed, codes on their way go to it.
LinksFit ==
    ~edited => /\ \A c \in Cons!ScreenCalls : c.kind = "link" /\ apiCalls[c] > 0 => c.arg = email
               /\ view = "linkOTP" => email \in codesSent

ScreenInv == ScreenTypes /\ MenusFit /\ CheckoutsFit /\ LinksFit

LEMMA ApiCallsAre ==
    ASSUME NEW c \in Cons!ScreenCalls
    PROVE  /\ c.kind \in CallKinds
           /\ c.kind = "link" => c.arg \in Addresses
           /\ c.kind = "checkout" => c.arg \in Plans
           /\ c = [kind |-> c.kind, arg |-> c.arg]
  BY DEF Cons!ScreenCalls, Plans, CallKinds

LEMMA ApiIsAsked ==
    ASSUME ScreenTypes, NEW k, NEW a, [kind |-> k, arg |-> a] \in Cons!ScreenCalls, Cons!Call(k, a)
    PROVE  /\ apiCalls' \in [Cons!ScreenCalls -> Nat]
           /\ \A c \in Cons!ScreenCalls : apiCalls'[c] > 0 => apiCalls[c] > 0 \/ (c.kind = k /\ c.arg = a)
           /\ \A j \in CallKinds : Cons!Pending(j) => \E c \in Cons!ScreenCalls : c.kind = j /\ apiCalls'[c] > 0
           /\ \E c \in Cons!ScreenCalls : c.kind = k /\ apiCalls'[c] > 0
  <1> DEFINE n == [kind |-> k, arg |-> a]
  <1>1. apiCalls' = [apiCalls EXCEPT ![n] = @ + 1] /\ apiCalls \in [Cons!ScreenCalls -> Nat]
    BY DEF Cons!Call, ScreenTypes
  <1>2. n \in Cons!ScreenCalls /\ n.kind = k /\ n.arg = a
    OBVIOUS
  <1> HIDE DEF n
  <1>3. apiCalls'[n] = apiCalls[n] + 1 /\ apiCalls[n] \in Nat
    BY <1>1, <1>2
  <1>4. \A c \in Cons!ScreenCalls : c # n => apiCalls'[c] = apiCalls[c]
    BY <1>1, <1>2
  <1>5. \A c \in Cons!ScreenCalls : apiCalls[c] > 0 => apiCalls'[c] > 0
    BY <1>3, <1>4
  <1> QED BY <1>1, <1>2, <1>3, <1>4, <1>5 DEF Cons!Pending

\* What waits for another kind of call goes on waiting.
OthersPend(settled) == \A j \in CallKinds : j # settled /\ Cons!Pending(j) => Cons!Pending(j)'

LEMMA ApiReturns ==
    ASSUME ScreenTypes, NEW c \in Cons!ScreenCalls, apiCalls[c] > 0, apiCalls' = [apiCalls EXCEPT ![c] = apiCalls[c] - 1]
    PROVE  /\ apiCalls' \in [Cons!ScreenCalls -> Nat]
           /\ \A d \in Cons!ScreenCalls : apiCalls'[d] > 0 => apiCalls[d] > 0
           /\ OthersPend(c.kind)
  <1>1. apiCalls \in [Cons!ScreenCalls -> Nat]
    BY DEF ScreenTypes
  <1>2. apiCalls'[c] = apiCalls[c] - 1 /\ apiCalls[c] \in Nat
    BY <1>1
  <1>3. \A d \in Cons!ScreenCalls : d # c => apiCalls'[d] = apiCalls[d]
    BY <1>1
  <1>4. apiCalls' \in [Cons!ScreenCalls -> Nat]
    BY <1>1, <1>2
  <1>5. \A d \in Cons!ScreenCalls : apiCalls'[d] > 0 => apiCalls[d] > 0
    BY <1>3
  <1>6. OthersPend(c.kind)
    <2> SUFFICES ASSUME NEW j \in CallKinds, j # c.kind, Cons!Pending(j)
                 PROVE  Cons!Pending(j)'
      BY DEF OthersPend
    <2>1. PICK d \in Cons!ScreenCalls : d.kind = j /\ apiCalls[d] > 0
      BY DEF Cons!Pending
    <2>2. d # c
      BY <2>1
    <2> QED BY <1>3, <2>1, <2>2 DEF Cons!Pending
  <1> QED BY <1>4, <1>5, <1>6

\* Nothing but a price list answers a call for prices, and so on.
LEMMA ApiAnswers ==
    ASSUME NEW c \in Cons!ScreenCalls, NEW status \in Cons!Statuses, NEW m \in Cons!Messages(c, status)
    PROVE  \/ m.type = "err"
           \/ m.type = "pricing" /\ c.kind = "pricing" /\ m.val \in LiveTiers
           \/ m.type = "lookup" /\ c.kind = "lookup" /\ m.val \in {Null, "account"}
           \/ m.type = "checkout" /\ c.kind = "checkout" /\ m.val \in {Null, c.arg}
           \/ m.type = "linkSent" /\ c.kind = "link" /\ status = 200
           \/ m.type = "verified" /\ c.kind = "verify" /\ m.val = "account"
  <1>1. PICK body \in Cons!Bodies, list \in IF c.kind = "pricing" THEN LiveTiers ELSE {<<>>} : m = Cons!Message(c, status, body, list)
    BY DEF Cons!Messages
  <1> USE ApiCallsAre DEF CallKinds,  Cons!Message, Cons!Msg, Cons!ErrMsg
  <1>2. CASE c.kind = "pricing"
    BY <1>1, <1>2 DEF Cons!PricingMsg
  <1>3. CASE c.kind = "lookup"
    BY <1>1, <1>3 DEF Cons!LookupMsg
  <1>4. CASE c.kind = "checkout"
    BY <1>1, <1>4 DEF Cons!CheckoutMsg
  <1>5. CASE c.kind = "link"
    BY <1>1, <1>5 DEF Cons!LinkMsg
  <1>6. CASE c.kind = "verify"
    BY <1>1, <1>6 DEF Cons!VerifyMsg
  <1> QED BY <1>2, <1>3, <1>4, <1>5, <1>6

LEMMA ScreenStart == Cons!ScreenInit => ScreenInv
  <1> SUFFICES ASSUME Cons!ScreenInit PROVE ScreenInv
    OBVIOUS
  <1>1. ScreenTypes
    BY DEF Cons!ScreenInit, ScreenTypes
  <1>2. [kind |-> "pricing", arg |-> Null] \in Cons!ScreenCalls
    BY DEF Cons!ScreenCalls
  <1> DEFINE p == [kind |-> "pricing", arg |-> Null]
  <1>0. p.kind = "pricing" /\ p \in Cons!ScreenCalls
    BY <1>2
  <1> HIDE DEF p
  <1>a. apiCalls = [c \in Cons!ScreenCalls |-> IF c.kind \in {"pricing", "lookup"} THEN 1 ELSE 0]
    BY DEF Cons!ScreenInit
  <1>b. apiCalls[p] = 1
    BY <1>0, <1>a
  <1>3. Cons!Pending("pricing")
    BY <1>0, <1>b DEF Cons!Pending
  <1>4. MenusFit
    BY <1>3 DEF Cons!ScreenInit, MenusFit
  <1>5. CheckoutsFit /\ LinksFit
    <2>1. ASSUME NEW c \in Cons!ScreenCalls, apiCalls[c] > 0 PROVE c.kind # "checkout" /\ c.kind # "link"
      BY <1>a, <2>1
    <2> QED BY <2>1 DEF Cons!ScreenInit, CheckoutsFit, LinksFit
  <1> QED BY <1>1, <1>4, <1>5 DEF ScreenInv

LEMMA ReturnKeeps ==
    ASSUME ScreenInv, NEW c \in Cons!ScreenCalls, Cons!Return(c)
    PROVE  ScreenInv'
  <1>t. ScreenTypes /\ MenusFit /\ CheckoutsFit /\ LinksFit
    BY DEF ScreenInv
  <1>0. PICK status \in Cons!Statuses : \E m \in Cons!Messages(c, status) :
          /\ apiCalls[c] > 0 /\ apiCalls' = [apiCalls EXCEPT ![c] = @ - 1]
          /\ \/ c.kind = "link" /\ status \in {0, 200} /\ codesSent' = codesSent \cup {c.arg}
             \/ (c.kind # "link" \/ status # 200) /\ UNCHANGED codesSent
          /\ \/ m.type = "pricing"  /\ Cons!OnPricing(m.val)
             \/ m.type = "lookup"   /\ Cons!OnLookup(m.val)
             \/ m.type = "checkout" /\ Cons!OnCheckout(m.val)
             \/ m.type = "linkSent" /\ Cons!OnLinkSent
             \/ m.type = "verified" /\ Cons!OnVerified(m.val)
             \/ m.type = "err"      /\ Cons!OnErr
    BY DEF Cons!Return
  <1>1. PICK m \in Cons!Messages(c, status) :
          /\ apiCalls[c] > 0 /\ apiCalls' = [apiCalls EXCEPT ![c] = @ - 1]
          /\ \/ c.kind = "link" /\ status \in {0, 200} /\ codesSent' = codesSent \cup {c.arg}
             \/ (c.kind # "link" \/ status # 200) /\ UNCHANGED codesSent
          /\ \/ m.type = "pricing"  /\ Cons!OnPricing(m.val)
             \/ m.type = "lookup"   /\ Cons!OnLookup(m.val)
             \/ m.type = "checkout" /\ Cons!OnCheckout(m.val)
             \/ m.type = "linkSent" /\ Cons!OnLinkSent
             \/ m.type = "verified" /\ Cons!OnVerified(m.val)
             \/ m.type = "err"      /\ Cons!OnErr
    BY <1>0
  <1>c. apiCalls[c] > 0 /\ apiCalls' = [apiCalls EXCEPT ![c] = @ - 1]
    BY <1>1
  <1>2. /\ apiCalls' \in [Cons!ScreenCalls -> Nat]
        /\ \A d \in Cons!ScreenCalls : apiCalls'[d] > 0 => apiCalls[d] > 0
        /\ OthersPend(c.kind)
    BY <1>t, <1>c, ApiReturns
  <1>p. /\ c.kind # "pricing" /\ Cons!Pending("pricing") => Cons!Pending("pricing")'
        /\ c.kind \in {"pricing", "lookup"} => (Awaits => Awaits')
    BY <1>2 DEF OthersPend, CallKinds, Awaits
  <1>s. codesSent' \subseteq Addresses /\ codesSent \subseteq codesSent'
    <2>1. c.kind = "link" => c.arg \in Addresses
      BY ApiCallsAre
    <2>2. codesSent' = codesSent \/ (c.kind = "link" /\ codesSent' = codesSent \cup {c.arg})
      BY <1>1
    <2> QED BY <1>t, <2>1, <2>2 DEF ScreenTypes
  <1>k. Cons!Pending(c.kind)
    BY <1>1 DEF Cons!Pending
  <1>3. CASE m.type = "pricing" /\ Cons!OnPricing(m.val)
    <2>1. c.kind = "pricing" /\ m.val \in LiveTiers
      BY <1>3, ApiAnswers
    <2>2. ScreenTypes' /\ (offline' <=> plans' = Cons!Fallback) /\ view' # "loading"
      BY <1>t, <1>2, <1>3, <1>s, <2>1, ConsoleAssumption DEF Cons!OnPricing, Cons!Goto, ScreenTypes, MenusFit
    <2>3. MenusFit'
      BY <1>t, <1>p, <1>3, <2>1, <2>2 DEF Cons!OnPricing, Cons!Goto, MenusFit
    <2>4. CheckoutsFit'
      BY <1>t, <1>2, <1>3, <1>p, <2>1 DEF Cons!OnPricing, Cons!Goto, CheckoutsFit, ScreenTypes
    <2>5. LinksFit'
      BY <1>t, <1>2, <1>3, <1>s DEF Cons!OnPricing, Cons!Goto, LinksFit
    <2> QED BY <2>2, <2>3, <2>4, <2>5 DEF ScreenInv
  <1>4. CASE m.type = "lookup" /\ Cons!OnLookup(m.val)
    <2>1. c.kind = "lookup" /\ m.val \in {Null, "account"}
      BY <1>4, ApiAnswers
    <2>2. ScreenTypes'
      BY <1>t, <1>2, <1>4, <1>s, <2>1 DEF Cons!OnLookup, ScreenTypes
    <2>3. MenusFit'
      BY <1>t, <1>p, <1>4, <2>1 DEF Cons!OnLookup, MenusFit
    <2>4. CheckoutsFit' /\ LinksFit'
      BY <1>t, <1>2, <1>4, <1>s DEF Cons!OnLookup, CheckoutsFit, LinksFit
    <2> QED BY <2>2, <2>3, <2>4 DEF ScreenInv
  <1>5. CASE m.type = "checkout" /\ Cons!OnCheckout(m.val)
    <2>1. c.kind = "checkout" /\ m.val \in {Null, c.arg} /\ c.arg \in Plans
      BY <1>5, ApiAnswers, ApiCallsAre
    <2>2. ScreenTypes'
      BY <1>t, <1>2, <1>5, <1>s, <2>1 DEF Cons!OnCheckout, ScreenTypes
    <2>3. MenusFit'
      BY <1>t, <1>p, <1>5, <2>1 DEF Cons!OnCheckout, MenusFit
    <2>4. CheckoutsFit'
      BY <1>t, <1>1, <1>2, <1>5, <2>1 DEF Cons!OnCheckout, CheckoutsFit
    <2>5. LinksFit'
      BY <1>t, <1>2, <1>5, <1>s DEF Cons!OnCheckout, LinksFit
    <2> QED BY <2>2, <2>3, <2>4, <2>5 DEF ScreenInv
  <1>6. CASE m.type = "linkSent" /\ Cons!OnLinkSent
    <2>1. c.kind = "link" /\ status = 200 /\ c.arg \in codesSent'
      BY <1>1, <1>6, ApiAnswers
    <2>2. ScreenTypes'
      BY <1>t, <1>2, <1>6, <1>s DEF Cons!OnLinkSent, Cons!Goto, ScreenTypes
    <2>3. MenusFit'
      BY <1>t, <1>6 DEF Cons!OnLinkSent, Cons!Goto, MenusFit
    <2>4. CheckoutsFit'
      BY <1>t, <1>2, <1>6 DEF Cons!OnLinkSent, Cons!Goto, CheckoutsFit, Cons!Pending, ScreenTypes
    <2>5. LinksFit'
      BY <1>t, <1>1, <1>2, <1>6, <2>1 DEF Cons!OnLinkSent, Cons!Goto, LinksFit
    <2> QED BY <2>2, <2>3, <2>4, <2>5 DEF ScreenInv
  <1>7. CASE m.type = "verified" /\ Cons!OnVerified(m.val)
    <2>1. c.kind = "verify" /\ m.val = "account"
      BY <1>7, ApiAnswers
    <2>2. ScreenTypes'
      BY <1>t, <1>2, <1>7, <1>s, <2>1 DEF Cons!OnVerified, Cons!Goto, Cons!Fill, ScreenTypes
    <2>3. MenusFit'
      BY <1>t, <1>7 DEF Cons!OnVerified, Cons!Goto, MenusFit
    <2>4. CheckoutsFit'
      BY <1>t, <1>2, <1>7 DEF Cons!OnVerified, Cons!Goto, CheckoutsFit, Cons!Pending, ScreenTypes
    <2>5. LinksFit'
      BY <1>t, <1>1, <1>2, <1>7, <2>1 DEF Cons!OnVerified, Cons!Goto, Cons!Fill, LinksFit, Cons!Pending
    <2> QED BY <2>2, <2>3, <2>4, <2>5 DEF ScreenInv
  <1>8. CASE m.type = "err" /\ Cons!OnErr
    <2>2. ScreenTypes'
      BY <1>t, <1>2, <1>8, <1>s DEF Cons!OnErr, Cons!Goto, ScreenTypes
    <2>3. MenusFit'
      BY <1>t, <1>8 DEF Cons!OnErr, Cons!Goto, MenusFit
    <2>4. CheckoutsFit'
      BY <1>t, <1>2, <1>8 DEF Cons!OnErr, Cons!Goto, CheckoutsFit, Cons!Pending, ScreenTypes
    <2>5. LinksFit'
      BY <1>t, <1>2, <1>8, <1>s DEF Cons!OnErr, Cons!Goto, LinksFit
    <2> QED BY <2>2, <2>3, <2>4, <2>5 DEF ScreenInv
  <1> QED BY <1>1, <1>3, <1>4, <1>5, <1>6, <1>7, <1>8

LEMMA BuyKeeps == ASSUME ScreenInv, Cons!Buy PROVE ScreenInv'
  <1>t. ScreenTypes /\ MenusFit /\ CheckoutsFit /\ LinksFit
    BY DEF ScreenInv
  <1>1. /\ view = "tiers" /\ view' = "checkout" /\ left' = left /\ plan' = plans[planCursor + 1]
        /\ loading' = TRUE /\ payUrl' = Null /\ Cons!Call("checkout", plan')
        /\ UNCHANGED <<plans, planCursor, offline, signedIn, shownError, email, otp, codesSent, edited>>
    BY <1>t DEF Cons!Buy, Cons!Goto, ScreenTypes
  <1>2. plan' \in Plans
    <2>1. Cons!Fallback \in Seq({"free", "pro", "max", "enterprise"})
      BY DEF Cons!Fallback
    <2>2. plans \in Seq({"free", "pro", "max", "enterprise"}) /\ planCursor \in Nat
      BY <1>t, <2>1, ConsoleAssumption DEF ScreenTypes
    <2>3. planCursor < Len(plans) /\ plans[planCursor + 1] # "free"
      BY DEF Cons!Buy
    <2>4. planCursor + 1 \in 1 .. Len(plans)
      BY <2>2, <2>3
    <2>5. plans[planCursor + 1] \in {"free", "pro", "max", "enterprise"}
      BY <2>2, <2>4, ElementOfSeq
    <2> QED BY <1>1, <2>3, <2>5 DEF Plans
  <1>3. [kind |-> "checkout", arg |-> plan'] \in Cons!ScreenCalls
    BY <1>2 DEF Cons!ScreenCalls, Plans
  <1>4. /\ apiCalls' \in [Cons!ScreenCalls -> Nat]
        /\ \A c \in Cons!ScreenCalls : apiCalls'[c] > 0 => apiCalls[c] > 0 \/ (c.kind = "checkout" /\ c.arg = plan')
        /\ \E c \in Cons!ScreenCalls : c.kind = "checkout" /\ apiCalls'[c] > 0
    <2>1. \A p : p = plan' => [kind |-> "checkout", arg |-> p] \in Cons!ScreenCalls /\ Cons!Call("checkout", p)
      BY <1>1, <1>3
    <2> QED BY <1>t, <2>1, ApiIsAsked
  <1>5. ScreenTypes'
    BY <1>t, <1>1, <1>2, <1>4 DEF ScreenTypes
  <1>6. MenusFit'
    BY <1>t, <1>1, <1>4 DEF MenusFit, Awaits, Cons!Pending
  <1>7. CheckoutsFit'
    BY <1>t, <1>1, <1>4 DEF CheckoutsFit
  <1>8. LinksFit'
    <2>1. \A c \in Cons!ScreenCalls : c.kind = "link" /\ apiCalls'[c] > 0 => apiCalls[c] > 0
      BY <1>4
    <2> QED BY <1>t, <1>1, <2>1 DEF LinksFit
  <1> QED BY <1>5, <1>6, <1>7, <1>8 DEF ScreenInv

LEMMA SubmitKeeps == ASSUME ScreenInv, Cons!Submit PROVE ScreenInv'
  <1>t. ScreenTypes /\ MenusFit /\ CheckoutsFit /\ LinksFit
    BY DEF ScreenInv
  <1>1. /\ view \in {"linkEmail", "linkOTP"} /\ loading' = TRUE /\ shownError' = FALSE
        /\ UNCHANGED <<view, plans, planCursor, offline, plan, payUrl, signedIn, email, otp, codesSent, edited, left>>
    BY DEF Cons!Submit
  <1>2. PICK k \in {"link", "verify"}, a \in Addresses \cup {Null} :
          /\ [kind |-> k, arg |-> a] \in Cons!ScreenCalls /\ Cons!Call(k, a) /\ (k = "link" => a = email)
    BY DEF Cons!Submit, Cons!Valid, Cons!ScreenCalls
  <1>3. /\ apiCalls' \in [Cons!ScreenCalls -> Nat]
        /\ \A c \in Cons!ScreenCalls : apiCalls'[c] > 0 => apiCalls[c] > 0 \/ (c.kind = k /\ c.arg = a)
        /\ \E c \in Cons!ScreenCalls : c.kind = k /\ apiCalls'[c] > 0
    BY <1>t, <1>2, ApiIsAsked
  <1>4. ScreenTypes'
    BY <1>t, <1>1, <1>3 DEF ScreenTypes
  <1>5. MenusFit'
    BY <1>t, <1>1, <1>3 DEF MenusFit, Awaits, Cons!Pending
  <1>6. CheckoutsFit'
    BY <1>t, <1>1, <1>3 DEF CheckoutsFit
  <1>7. LinksFit'
    BY <1>t, <1>1, <1>2, <1>3 DEF LinksFit
  <1> QED BY <1>4, <1>5, <1>6, <1>7 DEF ScreenInv

\* The keys that start no call.
Keystroke ==
    \/ Cons!ClearError \/ Cons!Move \/ Cons!LinkAccount \/ Cons!Back \/ Cons!Refuse \/ Cons!Cancel
    \/ \E e \in {"", "bad"} \cup Addresses : Cons!TypeEmail(e)
    \/ \E o \in {"", "short", "full"} : Cons!TypeCode(o)

LEMMA KeysKeep == ASSUME ScreenInv, Keystroke PROVE ScreenInv'
  <1>t. ScreenTypes /\ MenusFit /\ CheckoutsFit /\ LinksFit
    BY DEF ScreenInv
  <1>u. UNCHANGED <<plans, offline, codesSent, apiCalls>>
    BY DEF Keystroke, Cons!ClearError, Cons!Move, Cons!LinkAccount, Cons!Back, Cons!Refuse, Cons!Cancel, Cons!TypeEmail,
           Cons!TypeCode
  <1>0. /\ UNCHANGED <<plans, offline, codesSent, apiCalls>>
        /\ Cons!Pending("pricing")' <=> Cons!Pending("pricing")
        /\ Awaits' <=> Awaits
    BY <1>u DEF Cons!Pending, Awaits
  <1>m. UNCHANGED <<view, loading>> => MenusFit'
    BY <1>t, <1>0 DEF MenusFit
  <1>1. CASE Cons!ClearError \/ Cons!Move \/ Cons!Refuse \/ \E o \in {"", "short", "full"} : Cons!TypeCode(o)
    <2>1. UNCHANGED <<view, plan, payUrl, signedIn, loading, email, edited, left>>
      BY <1>1 DEF Cons!ClearError, Cons!Move, Cons!Refuse, Cons!TypeCode
    <2>a. planCursor' = planCursor \/ planCursor' = planCursor + 1 \/ (planCursor > 0 /\ planCursor' = planCursor - 1)
      BY <1>1 DEF Cons!ClearError, Cons!Move, Cons!Refuse, Cons!TypeCode
    <2>2. planCursor' \in Nat
      <3>1. planCursor \in Nat
        BY <1>t DEF ScreenTypes
      <3> QED BY <2>a, <3>1
    <2>3. shownError' \in BOOLEAN
      BY <1>t, <1>1 DEF Cons!ClearError, Cons!Move, Cons!Refuse, Cons!TypeCode, ScreenTypes
    <2>4. otp' \in {"", "short", "full"}
      BY <1>t, <1>1 DEF Cons!ClearError, Cons!Move, Cons!Refuse, Cons!TypeCode, ScreenTypes
    <2>5. ScreenTypes'
      BY <1>t, <1>0, <2>1, <2>2, <2>3, <2>4 DEF ScreenTypes
    <2>6. MenusFit'
      BY <1>m, <2>1
    <2>7. CheckoutsFit' /\ LinksFit'
      BY <1>t, <1>0, <2>1 DEF CheckoutsFit, LinksFit
    <2> QED BY <2>5, <2>6, <2>7 DEF ScreenInv
  <1>2. CASE Cons!LinkAccount
    <2>1. ScreenTypes'
      BY <1>t, <1>0, <1>2 DEF Cons!LinkAccount, Cons!Goto, Cons!Fill, ScreenTypes
    <2>2. MenusFit'
      <3>1. view = "tiers" /\ view' = "linkEmail" /\ UNCHANGED <<plans, offline, loading>>
        BY <1>0, <1>2 DEF Cons!LinkAccount, Cons!Goto
      <3> QED BY <1>t, <1>0, <3>1 DEF MenusFit
    <2>3. CheckoutsFit'
      BY <1>t, <1>0, <1>2 DEF Cons!LinkAccount, Cons!Goto, CheckoutsFit, ScreenTypes
    <2>4. LinksFit'
      BY <1>t, <1>0, <1>2 DEF Cons!LinkAccount, Cons!Goto, Cons!Fill, LinksFit, Cons!Pending, ScreenTypes
    <2> QED BY <2>1, <2>2, <2>3, <2>4 DEF ScreenInv
  <1>3. CASE Cons!Back
    <2>1. ScreenTypes'
      BY <1>t, <1>0, <1>3 DEF Cons!Back, Cons!Goto, ScreenTypes
    <2>2. MenusFit'
      BY <1>t, <1>3 DEF Cons!Back, Cons!Goto, MenusFit
    <2>3. CheckoutsFit'
      BY <1>t, <1>0, <1>3 DEF Cons!Back, Cons!Goto, CheckoutsFit, Cons!Pending, ScreenTypes
    <2>4. LinksFit'
      BY <1>t, <1>0, <1>3 DEF Cons!Back, Cons!Goto, LinksFit
    <2> QED BY <2>1, <2>2, <2>3, <2>4 DEF ScreenInv
  <1>4. CASE Cons!Cancel
    <2>1. ScreenTypes'
      BY <1>t, <1>0, <1>4 DEF Cons!Cancel, Cons!Goto, Cons!Fill, ScreenTypes
    <2>2. MenusFit'
      <3>1. view \notin {"loading", "tiers"} /\ view' = "tiers" /\ UNCHANGED <<plans, offline, loading>>
        BY <1>0, <1>4 DEF Cons!Cancel, Cons!InText, Cons!Goto
      <3> QED BY <1>t, <1>0, <3>1 DEF MenusFit
    <2>3. CheckoutsFit'
      BY <1>t, <1>0, <1>4 DEF Cons!Cancel, Cons!InText, Cons!Goto, CheckoutsFit, ScreenTypes
    <2>4. LinksFit'
      BY <1>t, <1>0, <1>4 DEF Cons!Cancel, Cons!Goto, Cons!Fill, LinksFit, Cons!Pending, ScreenTypes
    <2> QED BY <2>1, <2>2, <2>3, <2>4 DEF ScreenInv
  <1>5. ASSUME NEW e \in {"", "bad"} \cup Addresses, Cons!TypeEmail(e) PROVE ScreenInv'
    <2>1. ScreenTypes'
      BY <1>t, <1>0, <1>5 DEF Cons!TypeEmail, Cons!Fill, ScreenTypes
    <2>0. UNCHANGED <<view, plans, offline, loading, plan, payUrl, left, apiCalls>>
      BY <1>5 DEF Cons!TypeEmail
    <2>2. MenusFit'
      BY <1>m, <2>0
    <2>3. CheckoutsFit'
      BY <1>t, <2>0 DEF CheckoutsFit
    <2>4. LinksFit'
      BY <1>t, <1>0, <1>5 DEF Cons!TypeEmail, Cons!Fill, LinksFit, Cons!Pending, ScreenTypes
    <2> QED BY <2>1, <2>2, <2>3, <2>4 DEF ScreenInv
  <1> QED BY <1>1, <1>2, <1>3, <1>4, <1>5 DEF Keystroke

LEMMA QuitKeeps == ASSUME ScreenInv, Cons!Quit PROVE ScreenInv'
  <1>0. /\ view' = "closed" /\ plans' = Cons!Fallback /\ offline' = TRUE /\ loading' = FALSE
        /\ apiCalls' = [c \in Cons!ScreenCalls |-> 0]
    BY DEF Cons!Quit
  <1>1. ScreenTypes'
    BY DEF Cons!Quit, ScreenTypes, ScreenInv
  <1>2. MenusFit'
    BY <1>0 DEF MenusFit
  <1>3. \A c \in Cons!ScreenCalls : ~(apiCalls'[c] > 0)
    BY <1>0
  <1>4. CheckoutsFit' /\ LinksFit'
    BY <1>0, <1>3 DEF CheckoutsFit, LinksFit
  <1> QED BY <1>1, <1>2, <1>4 DEF ScreenInv

LEMMA ScreenStep == ScreenInv /\ Cons!ScreenNext => ScreenInv'
  BY ReturnKeeps, BuyKeeps, SubmitKeeps, KeysKeep, QuitKeeps DEF Cons!ScreenNext, Keystroke

LEMMA ScreenRests == ScreenInv /\ UNCHANGED screenVars => ScreenInv'
  <1> SUFFICES ASSUME ScreenInv, UNCHANGED screenVars PROVE ScreenInv'
    OBVIOUS
  <1>t. ScreenTypes /\ MenusFit /\ CheckoutsFit /\ LinksFit
    BY DEF ScreenInv
  <1>1. ScreenTypes'
    BY <1>t DEF screenVars, ScreenTypes
  <1>2. MenusFit'
    BY <1>t DEF screenVars, MenusFit, Awaits, Cons!Pending
  <1>3. CheckoutsFit' /\ LinksFit'
    BY <1>t DEF screenVars, CheckoutsFit, LinksFit
  <1> QED BY <1>1, <1>2, <1>3 DEF ScreenInv

LEMMA ScreenHolds ==
    ScreenInv => Cons!PricesAreFlagged /\ Cons!PayForSelected /\ Cons!CodeWentThere /\ Cons!LoadingHasCall
  BY DEF ScreenInv, ScreenTypes, MenusFit, Awaits, CheckoutsFit, LinksFit, Cons!PricesAreFlagged, Cons!PayForSelected,
         Cons!CodeWentThere, Cons!LoadingHasCall, Cons!ShowsWarning, Cons!ShowsUrl, Cons!ShowsAddress, Cons!ShowsLoading
-----------------------------------------------------------------------------
\* What the operator's side of a session is made of, and what its goroutines are.
SeatTypes ==
    /\ keyFile \subseteq SshKeys /\ admitted \subseteq SshKeys /\ sessionKey \in SshKeys \cup {Null}
    /\ seat \in {"none", "connected", "agents", "picking", "dialing", "bridged"}
    /\ remoteTerms \subseteq Remotes /\ offered \subseteq Remotes /\ picked \in Remotes \cup {Null}
PumpTypes ==
    /\ inp \in {"off", "reading", "writing", "ended"} /\ outp \in {"off", "select", "reading", "ended"}
    /\ rsz \in {"off", "idle", "writing"} /\ ownStep \in {"off", "resize", "await", "join"}
    /\ ended \in BOOLEAN /\ peer \in {"off", "open", "exited", "closed"} /\ crash \in {"no", "close", "write"}

BridgeTypes == SeatTypes /\ PumpTypes

LEMMA BridgeTypesStart == Cons!BridgeInit => BridgeTypes
  BY DEF Cons!BridgeInit, Cons!BridgeIdle, BridgeTypes, SeatTypes, PumpTypes

LEMMA PickChooses ==
    ASSUME SeatTypes, Cons!Pick
    PROVE  /\ seat = "picking" /\ seat' \in {"none", "dialing"} /\ picked' \in Remotes \cup {Null} /\ remoteTerms' \subseteq Remotes
           /\ UNCHANGED <<keyFile, admitted, sessionKey, offered, inp, outp, rsz, ownStep, ended, peer, crash>>
           /\ seat' = "dialing" => picked' \in offered \cup remoteTerms'
  <1>1. /\ seat = "picking"
        /\ UNCHANGED <<keyFile, admitted, sessionKey, offered, inp, outp, rsz, ownStep, ended, peer, crash>>
    BY DEF Cons!Pick
  <1>2. ASSUME NEW t \in offered, picked' = t /\ seat' = "dialing" /\ UNCHANGED remoteTerms
        PROVE  /\ seat' \in {"none", "dialing"} /\ picked' \in Remotes \cup {Null} /\ remoteTerms' \subseteq Remotes
               /\ seat' = "dialing" => picked' \in offered \cup remoteTerms'
    BY <1>2 DEF SeatTypes
  <1>3. ASSUME NEW status \in Cons!Statuses, NEW id \in (Remotes \ remoteTerms) \cup {Null},
               picked' = Cons!Spawned(status, id), seat' = (IF picked' = Null THEN "none" ELSE "dialing"),
               remoteTerms' = IF status = 200 THEN remoteTerms \cup ({id} \ {Null}) ELSE remoteTerms
        PROVE  /\ seat' \in {"none", "dialing"} /\ picked' \in Remotes \cup {Null} /\ remoteTerms' \subseteq Remotes
               /\ seat' = "dialing" => picked' \in offered \cup remoteTerms'
    BY <1>3 DEF SeatTypes, Cons!Spawned
  <1>4. CASE seat' = "none" /\ UNCHANGED <<picked, remoteTerms>>
    BY <1>1, <1>4 DEF SeatTypes
  <1> QED BY <1>1, <1>2, <1>3, <1>4 DEF Cons!Pick

LEMMA BridgeTypesStep == BridgeTypes /\ Cons!BridgeNext => BridgeTypes'
  <1> SUFFICES ASSUME SeatTypes, PumpTypes, Cons!BridgeNext PROVE SeatTypes' /\ PumpTypes'
    BY DEF BridgeTypes
  <1>w. Cons!Written => crash' \in {"no", "close", "write"}
    BY DEF Cons!Written, PumpTypes
  <1>p. UNCHANGED <<inp, outp, rsz, ownStep, ended, peer, crash>> => PumpTypes'
    BY DEF PumpTypes
  <1>s. UNCHANGED <<keyFile, admitted, sessionKey, remoteTerms, offered, picked>>
          /\ seat' \in {seat, "none", "agents", "bridged"} => SeatTypes'
    BY DEF SeatTypes
  <1>1. ASSUME NEW S \in SUBSET SshKeys, Cons!EditKeys(S) PROVE SeatTypes' /\ PumpTypes'
    BY <1>1, <1>p DEF Cons!EditKeys, SeatTypes
  <1>2. ASSUME NEW t \in Remotes, Cons!TermMoves(t) PROVE SeatTypes' /\ PumpTypes'
    BY <1>2, <1>p DEF Cons!TermMoves, SeatTypes
  <1>3. ASSUME NEW k \in SshKeys, Cons!Connect(k) PROVE SeatTypes' /\ PumpTypes'
    BY <1>3, <1>p DEF Cons!Connect, SeatTypes
  <1>4. CASE Cons!AgentsScreen
    BY <1>4, <1>p, <1>s DEF Cons!AgentsScreen
  <1>5. CASE Cons!List
    BY <1>5, <1>p DEF Cons!List, SeatTypes
  <1>6. CASE Cons!Pick
    BY <1>6, <1>p, PickChooses DEF SeatTypes
  <1>7. CASE Cons!Dial
    BY <1>7, <1>s DEF Cons!Dial, PumpTypes
  <1>8. CASE Cons!SshToWs
    BY <1>8, <1>s, <1>w DEF Cons!SshToWs, Cons!CloseDone, PumpTypes
  <1>9. CASE Cons!WsToSsh
    BY <1>9, <1>s DEF Cons!WsToSsh, Cons!CloseDone, PumpTypes
  <1>10. CASE Cons!Resize
    BY <1>10, <1>s, <1>w DEF Cons!Resize, PumpTypes
  <1>11. CASE Cons!Own
    BY <1>11, <1>s, <1>w DEF Cons!Own, PumpTypes
  <1>12. CASE Cons!PeerCloses
    BY <1>12, <1>s DEF Cons!PeerCloses, PumpTypes
  <1> QED BY <1>1, <1>2, <1>3, <1>4, <1>5, <1>6, <1>7, <1>8, <1>9, <1>10, <1>11, <1>12 DEF Cons!BridgeNext

LEMMA BridgeTypesRest == BridgeTypes /\ UNCHANGED bridgeVars => BridgeTypes'
  BY DEF bridgeVars, BridgeTypes, SeatTypes, PumpTypes

\* Only the look at the file lets a session on, and only a pick leads to a terminal.
LEMMA ListedReachStep == BridgeTypes /\ Cons!BridgeNext => Cons!ListedReach
  <1> SUFFICES ASSUME BridgeTypes, Cons!BridgeNext PROVE Cons!ListedReach
    OBVIOUS
  <1>1. CASE Cons!AgentsScreen
    BY <1>1 DEF Cons!AgentsScreen, Cons!KeyAuthorized, Cons!ListedReach
  <1>2. CASE Cons!Pick
    BY <1>2, PickChooses DEF Cons!ListedReach, BridgeTypes
  <1>3. CASE \/ \E S \in SUBSET SshKeys : Cons!EditKeys(S)
             \/ \E t \in Remotes : Cons!TermMoves(t)
             \/ Cons!SshToWs \/ Cons!WsToSsh \/ Cons!Resize \/ Cons!PeerCloses
    <2>1. seat' = seat
      BY <1>3 DEF Cons!EditKeys, Cons!TermMoves, Cons!SshToWs, Cons!WsToSsh, Cons!Resize, Cons!PeerCloses
    <2> QED BY <2>1 DEF Cons!ListedReach
  <1>4. CASE (\E k \in SshKeys : Cons!Connect(k)) \/ Cons!List \/ Cons!Dial \/ Cons!Own
    <2>1. seat \in {"none", "agents", "dialing"} \/ seat' \in {seat, "none"}
      BY <1>4 DEF Cons!Connect, Cons!List, Cons!Dial, Cons!Own
    <2> QED BY <2>1 DEF Cons!ListedReach
  <1> QED BY <1>1, <1>2, <1>3, <1>4 DEF Cons!BridgeNext

\* And what the reader of event streams keeps.
StreamTypes == Len(arrived) <= MaxLines /\ scanned \in 0 .. Len(arrived) /\ scanner \in {"scan", "send", "closed"}

LEMMA StreamTypesStart == Cons!StreamInit => StreamTypes
  <1> SUFFICES ASSUME Cons!StreamInit PROVE StreamTypes
    OBVIOUS
  <1>1. Len(arrived) = 0 /\ scanned = 0 /\ scanner = "scan"
    BY DEF Cons!StreamInit
  <1> QED BY <1>1, ConsoleAssumption DEF StreamTypes

LEMMA StreamTypesStep == StreamInv /\ StreamTypes /\ Cons!StreamNext => StreamTypes'
  <1> SUFFICES ASSUME StreamInv, StreamTypes, Cons!StreamNext PROVE StreamTypes'
    OBVIOUS
  <1>0. Len(arrived) \in Nat /\ Len(arrived) <= MaxLines /\ scanned \in 0 .. Len(arrived) /\ scanned \in Nat
        /\ arrived \in Seq(LineRecords) /\ MaxLines \in Nat
    BY ConsoleAssumption DEF StreamInv, StreamTypes
  <1>1. StreamInv'
    BY StreamStep
  <1>2. scanned' \in Nat /\ scanned' <= Len(arrived') /\ scanner' \in {"scan", "send", "closed"} /\ Len(arrived') \in Nat
    BY <1>1 DEF StreamInv
  <1>3. Len(arrived') <= MaxLines
    <2>1. CASE arrived' = arrived
      BY <1>0, <2>1
    <2>2. ASSUME NEW kd \in Cons!LineKinds, Cons!Arrive(kd) PROVE Len(arrived') <= MaxLines
      <3> DEFINE l == [n |-> Len(arrived) + 1, kind |-> kd]
      <3>1. Len(arrived) < MaxLines /\ arrived' = Append(arrived, l)
        BY <2>2 DEF Cons!Arrive
      <3>2. l \in LineRecords
        BY <1>0 DEF LineRecords
      <3> HIDE DEF l
      <3>3. Len(arrived') = Len(arrived) + 1
        BY <1>0, <3>1, <3>2
      <3> QED BY <1>0, <3>1, <3>3
    <2> QED BY <2>1, <2>2 DEF Cons!StreamNext, Cons!Scan, Cons!Take, Cons!StreamEnds
  <1> QED BY <1>2, <1>3 DEF StreamTypes

LEMMA StreamTypesRest == StreamTypes /\ UNCHANGED streamedVars => StreamTypes'
  BY DEF streamedVars, StreamTypes
-----------------------------------------------------------------------------
(* What the panel shows of its terminals.                                  *)

\* A session that answers, or whose end is on its way to the window or came before anyone listened.
Reachable(s) == Terms!Alive(s) \/ s \in endings \/ s \in unclaimed.unheard

\* On its way to the panel, a session stays reachable, and who waits for its number listens to it next.
ArrivesAlive(s) ==
    /\ sess[s].at = "up" /\ sess[s].pump # "none" => sess[s].pump = "running" \/ s \in endings \/ s \in unclaimed.unheard
    /\ sess[s].at = "returned" /\ hook.mounted => Reachable(s)
    /\ sess[s].at \in {"heard", "listening"} /\ hook.mounted /\ hook.ref = s => Reachable(s)
    /\ sess[s].at = "listening" /\ hook.mounted /\ hook.ref = s => hook.ears # {}

\* What is shown is what the hook refers and listens to.
ShowsWhatItHas ==
    /\ hook.shown # Null => hook.mounted
    /\ hook.shown # Null /\ hook.shown \notin unclaimed.unheard =>
          /\ hook.ref = hook.shown /\ sess[hook.shown].at = "shown" /\ hook.ears # {}
          /\ Reachable(hook.shown) \/ hook.closing = hook.shown

ShownInv == ShowsWhatItHas /\ \A s \in TermIds : ArrivesAlive(s)

PanelTypes ==
    /\ sess \in [TermIds -> WholeSess] /\ mapped \subseteq TermIds /\ endings \subseteq TermIds
    /\ hook \in WholeHook /\ unclaimed \in WholeExcuse /\ kind \in {"ssh", "shell"}

LEMMA PanelTyped == Terms!TypeOK => PanelTypes
  BY TermsTypes DEF PanelTypes

LEMMA ShownStart == Terms!Init => ShownInv
  <1> SUFFICES ASSUME Terms!Init PROVE ShownInv
    OBVIOUS
  <1>1. (\A s \in TermIds : sess[s].at = "idle") /\ hook.shown = Null
    BY DEF Terms!Init
  <1> QED BY <1>1 DEF ShownInv, ShowsWhatItHas, ArrivesAlive

LEMMA StillReachable ==
    ASSUME NEW s \in TermIds, Reachable(s), sess'[s].pump = sess[s].pump, s \in mapped => s \in mapped',
           s \in endings => s \in endings', s \in unclaimed.unheard => s \in unclaimed'.unheard
    PROVE  Reachable(s)'
  BY DEF Reachable, Terms!Alive

LEMMA ShowStays ==
    ASSUME PanelTypes, ShowsWhatItHas, hook'.shown = hook.shown, hook'.ref = hook.ref, hook'.mounted <=> hook.mounted,
           hook'.closing \in {hook.closing, hook.ref}, hook.ears # {} => hook'.ears # {},
           unclaimed.unheard \subseteq unclaimed'.unheard,
           \A t \in TermIds : t = hook.shown /\ t \notin unclaimed'.unheard /\ hook.ref = t /\ hook.ears # {} /\ sess[t].at = "shown"
              => sess'[t].at = "shown" /\ (Reachable(t) => Reachable(t)' \/ hook'.closing = t)
                 /\ (hook.closing = t => hook'.closing = t)
    PROVE  ShowsWhatItHas'
  <1>1. hook'.shown # Null => hook'.mounted
    BY DEF ShowsWhatItHas
  <1>2. ASSUME NEW t \in TermIds, hook.shown = t, t \notin unclaimed'.unheard, t # Null
        PROVE  hook'.ref = t /\ sess'[t].at = "shown" /\ hook'.ears # {} /\ (Reachable(t)' \/ hook'.closing = t)
    <2>1. t \notin unclaimed.unheard
      BY <1>2
    <2>2. hook.ref = t /\ sess[t].at = "shown" /\ hook.ears # {} /\ (Reachable(t) \/ hook.closing = t)
      BY <1>2, <2>1 DEF ShowsWhatItHas
    <2> QED BY <1>2, <2>2
  <1>3. hook.shown \in TermIds \cup {Null}
    BY DEF PanelTypes, WholeHook
  <1>4. ASSUME NEW t \in TermIds, hook'.shown = t PROVE Reachable(hook.shown)' <=> Reachable(t)'
    BY <1>4 DEF Reachable, Terms!Alive
  <1> QED BY <1>1, <1>2, <1>3, <1>4 DEF ShowsWhatItHas

\* An attempt that moves on, as long as nobody heard of it.
LEMMA AttemptMoves ==
    ASSUME PanelTypes, ShownInv, NEW s \in TermIds, UNCHANGED <<hook, endings>>, unclaimed'.unheard = unclaimed.unheard,
           mapped \subseteq mapped', \A t \in TermIds : t # s => sess'[t] = sess[t],
           sess[s].at # "shown", sess'[s].at \notin {"heard", "listening"},
           sess'[s].at = "up" /\ sess'[s].pump # "none" => sess'[s].pump = "running",
           sess'[s].at = "returned" => Reachable(s)'
    PROVE  ShownInv'
  <1>1. ASSUME NEW t \in TermIds PROVE ArrivesAlive(t)'
    <2>1. CASE t = s
      BY <2>1 DEF ArrivesAlive
    <2>2. CASE t # s
      <3>1. sess'[t] = sess[t] /\ ArrivesAlive(t) /\ (Reachable(t) => Reachable(t)')
        BY <2>2, StillReachable DEF ShownInv
      <3> QED BY <3>1 DEF ArrivesAlive
    <2> QED BY <2>1, <2>2
  <1>2. ShowsWhatItHas'
    <2>1. ASSUME NEW t \in TermIds, sess[t].at = "shown" PROVE sess'[t].at = "shown" /\ (Reachable(t) => Reachable(t)')
      <3>1. sess'[t] = sess[t]
        BY <2>1
      <3> QED BY <2>1, <3>1, StillReachable
    <2> QED BY <2>1, ShowStays DEF ShownInv
  <1> QED BY <1>1, <1>2 DEF ShownInv

LEMMA AttemptsStay ==
    ASSUME PanelTypes, PanelInv, ShownInv, NEW s \in TermIds,
           \/ Terms!Connect(s) \/ Terms!ConnectFails(s) \/ Terms!StartPump(s) \/ Terms!Store(s) \/ Terms!OpenShell(s)
           \/ \E k \in HostKeys : Terms!CheckKey(s, k)
    PROVE  ShownInv'
  <1>t. /\ sess \in [TermIds -> WholeSess] /\ kind \in {"ssh", "shell"} /\ unclaimed \in WholeExcuse
    BY DEF PanelTypes
  <1>f. SessionFits(s) /\ ArrivesAlive(s)
    BY DEF PanelInv, ShownInv
  <1>1. CASE Terms!Connect(s)
    <2>1. /\ sess' = [sess EXCEPT ![s].at = IF kind = "ssh" THEN "dialing" ELSE "up"] /\ sess[s].at = "idle"
          /\ UNCHANGED <<hook, endings, mapped, unclaimed>>
      BY <1>1 DEF Terms!Connect, Terms!At
    <2>2. /\ sess'[s].at \in {"dialing", "up"} /\ sess'[s].pump = sess[s].pump
          /\ \A t \in TermIds : t # s => sess'[t] = sess[t]
      BY <1>t, <2>1, SessMoves DEF SessPlaces
    <2>3. sess[s].pump = "none"
      BY <1>f, <2>1, <1>t DEF SessionFits, Opened
    <2> QED BY <2>1, <2>2, <2>3, AttemptMoves
  <1>2. CASE Terms!ConnectFails(s)
    <2>1. /\ sess' = [sess EXCEPT ![s].at = "failed"] /\ sess[s].at \in {"dialing", "keyed", "up"}
          /\ UNCHANGED <<hook, endings, mapped, unclaimed>>
      BY <1>2 DEF Terms!ConnectFails, Terms!At
    <2>2. sess'[s].at = "failed" /\ \A t \in TermIds : t # s => sess'[t] = sess[t]
      BY <1>t, <2>1, SessMoves DEF SessPlaces
    <2> QED BY <2>1, <2>2, AttemptMoves
  <1>3. CASE Terms!StartPump(s)
    <2>1. /\ sess' = [sess EXCEPT ![s].at = "up", ![s].pump = "running"] /\ sess[s].at = "keyed"
          /\ UNCHANGED <<hook, endings, mapped, unclaimed>>
      BY <1>3 DEF Terms!StartPump, Terms!At
    <2>2. sess'[s].at = "up" /\ sess'[s].pump = "running" /\ \A t \in TermIds : t # s => sess'[t] = sess[t]
      BY <1>t, <2>1, BothMove DEF SessPlaces
    <2> QED BY <2>1, <2>2, AttemptMoves
  <1>4. CASE Terms!Store(s)
    <2>1. /\ sess' = [sess EXCEPT ![s].at = "returned"] /\ sess[s].at = "up" /\ kind = "ssh"
          /\ UNCHANGED <<hook, endings, unclaimed>> /\ mapped' = mapped \cup {s}
      BY <1>4 DEF Terms!Store, Terms!At
    <2>2. /\ sess'[s].at = "returned" /\ sess'[s].pump = sess[s].pump
          /\ \A t \in TermIds : t # s => sess'[t] = sess[t]
      BY <1>t, <2>1, SessMoves DEF SessPlaces
    <2>3. sess[s].pump = "running" \/ s \in endings \/ s \in unclaimed.unheard
      BY <1>f, <2>1 DEF SessionFits, ArrivesAlive
    <2>4. Reachable(s)'
      BY <2>1, <2>2, <2>3 DEF Reachable, Terms!Alive
    <2> QED BY <2>1, <2>2, <2>4, AttemptMoves
  <1>5. CASE Terms!OpenShell(s)
    <2>1. /\ sess' = [sess EXCEPT ![s].at = "returned", ![s].pump = "running"] /\ sess[s].at = "up"
          /\ UNCHANGED <<hook, endings, unclaimed>> /\ mapped' = mapped \cup {s}
      BY <1>5 DEF Terms!OpenShell, Terms!At
    <2>2. sess'[s].at = "returned" /\ sess'[s].pump = "running" /\ \A t \in TermIds : t # s => sess'[t] = sess[t]
      BY <1>t, <2>1, BothMove DEF SessPlaces
    <2>4. Reachable(s)'
      BY <2>1, <2>2 DEF Reachable, Terms!Alive
    <2> QED BY <2>1, <2>2, <2>4, AttemptMoves
  <1>6. ASSUME NEW k \in HostKeys, Terms!CheckKey(s, k) PROVE ShownInv'
    <2> DEFINE at == IF knownHosts = <<>> THEN "unknown" ELSE IF Terms!Matching(k) THEN "keyed" ELSE "failed"
               n  == [sess[s] EXCEPT !.key = k, !.at = at]
    <2>1. sess' = [sess EXCEPT ![s] = n] /\ sess[s].at = "dialing" /\ UNCHANGED <<hook, endings, mapped>>
      BY <1>6 DEF Terms!CheckKey, Terms!At
    <2>2. n.at \in {"unknown", "keyed", "failed"}
      BY <1>t DEF WholeSess
    <2>3. unclaimed'.unheard = unclaimed.unheard
      BY <1>t, <1>6 DEF Terms!CheckKey, WholeExcuse
    <2> HIDE DEF n, at
    <2>4. sess'[s].at \in {"unknown", "keyed", "failed"} /\ \A t \in TermIds : t # s => sess'[t] = sess[t]
      BY <1>t, <2>1, <2>2
    <2> QED BY <2>1, <2>3, <2>4, AttemptMoves
  <1> QED BY <1>1, <1>2, <1>3, <1>4, <1>5, <1>6

LEMMA PumpsStay ==
    ASSUME PanelTypes, PanelInv, ShownInv, NEW s \in TermIds, Terms!End(s) \/ Terms!CleanUp(s)
    PROVE  ShownInv'
  <1>t. sess \in [TermIds -> WholeSess] /\ unclaimed \in WholeExcuse /\ hook \in WholeHook
    BY DEF PanelTypes
  <1>1. /\ sess[s].pump \in {"running", "ended"} /\ sess' = [sess EXCEPT ![s].pump = IF sess[s].pump = "running" THEN "ended" ELSE "gone"]
        /\ sess[s].pump = "running" => s \in endings'
        /\ endings \subseteq endings' /\ hook' = hook /\ mapped \ {s} \subseteq mapped'
        /\ unclaimed'.unheard = unclaimed.unheard
    BY <1>t DEF Terms!End, Terms!CleanUp, Terms!CleanedUp, WholeExcuse
  <1>2. /\ sess'[s].at = sess[s].at /\ sess'[s].pump \in {"ended", "gone"}
        /\ \A t \in TermIds : t # s => sess'[t] = sess[t]
    BY <1>t, <1>1, PumpMoves
  <1>3. ASSUME NEW t \in TermIds, Reachable(t) PROVE Reachable(t)'
    BY <1>1, <1>2, <1>3 DEF Reachable, Terms!Alive
  <1>4. ASSUME NEW t \in TermIds PROVE sess'[t].at = sess[t].at
    BY <1>2
  <1>5. ASSUME NEW t \in TermIds PROVE ArrivesAlive(t)'
    <2>1. ArrivesAlive(t)
      BY DEF ShownInv
    <2>2. sess'[t].at = "up" /\ sess'[t].pump # "none" => sess'[t].pump = "running" \/ t \in endings' \/ t \in unclaimed'.unheard
      BY <1>1, <1>2, <2>1 DEF ArrivesAlive
    <2> QED BY <1>1, <1>3, <1>4, <2>1, <2>2 DEF ArrivesAlive
  <1>6. ShowsWhatItHas'
    BY <1>1, <1>3, <1>4, ShowStays DEF ShownInv
  <1> QED BY <1>5, <1>6 DEF ShownInv

LEMMA NumberArrives ==
    ASSUME PanelTypes, PanelInv, ShownInv, NEW s \in TermIds, Terms!GotId(s)
    PROVE  ShownInv'
  <1>t. sess \in [TermIds -> WholeSess] /\ hook \in WholeHook
    BY DEF PanelTypes
  <1>1. /\ sess[s].at = "returned" /\ sess' = [sess EXCEPT ![s].at = "heard"] /\ hook' = [hook EXCEPT !.ref = s]
        /\ UNCHANGED <<mapped, endings, unclaimed>>
    BY DEF Terms!GotId, Terms!At
  <1>2. /\ sess'[s].at = "heard" /\ sess'[s].pump = sess[s].pump /\ \A t \in TermIds : t # s => sess'[t] = sess[t]
    BY <1>t, <1>1, SessMoves DEF SessPlaces
  <1>3. hook'.ref = s /\ hook'.shown = hook.shown /\ (hook'.mounted <=> hook.mounted)
    BY <1>t, <1>1 DEF WholeHook
  <1>4. hook.ref = Null
    BY <1>1 DEF PanelInv, SessionFits, Opening
  <1>5. ASSUME NEW t \in TermIds, Reachable(t) PROVE Reachable(t)'
    BY <1>1, <1>2, <1>5, StillReachable
  <1>6. ASSUME NEW t \in TermIds PROVE ArrivesAlive(t)'
    <2>1. ArrivesAlive(t)
      BY DEF ShownInv
    <2>2. CASE t = s
      BY <1>1, <1>2, <1>3, <1>5, <2>1, <2>2 DEF ArrivesAlive
    <2>3. CASE t # s
      <3>1. sess'[t] = sess[t] /\ hook'.ref # t
        BY <1>2, <1>3, <2>3
      <3> QED BY <1>1, <1>3, <1>5, <2>1, <3>1 DEF ArrivesAlive
    <2> QED BY <2>2, <2>3
  <1>7. ShowsWhatItHas'
    <2>1. hook.shown # Null => hook.mounted /\ hook.shown \in unclaimed.unheard
      BY <1>4 DEF ShownInv, ShowsWhatItHas
    <2> QED BY <1>1, <1>3, <2>1 DEF ShowsWhatItHas
  <1> QED BY <1>6, <1>7 DEF ShownInv

LEMMA EarsGrow ==
    ASSUME PanelTypes, PanelInv, ShownInv, NEW s \in TermIds, Terms!ListenForEnd(s)
    PROVE  ShownInv'
  <1>t. sess \in [TermIds -> WholeSess] /\ hook \in WholeHook
    BY DEF PanelTypes
  <1>1. /\ sess[s].at = "heard" /\ sess' = [sess EXCEPT ![s].at = "listening"]
        /\ hook' = [hook EXCEPT !.ears = @ \cup {s}, !.ear = s] /\ UNCHANGED <<mapped, endings, unclaimed>>
    BY DEF Terms!ListenForEnd, Terms!At
  <1>2. /\ sess'[s].at = "listening" /\ sess'[s].pump = sess[s].pump /\ \A t \in TermIds : t # s => sess'[t] = sess[t]
    BY <1>t, <1>1, SessMoves DEF SessPlaces
  <1>3. /\ hook'.ref = hook.ref /\ hook'.shown = hook.shown /\ (hook'.mounted <=> hook.mounted)
        /\ hook'.ears # {} /\ hook'.closing = hook.closing
    BY <1>t, <1>1 DEF WholeHook
  <1>5. ASSUME NEW t \in TermIds, Reachable(t) PROVE Reachable(t)'
    BY <1>1, <1>2, <1>5, StillReachable
  <1>6. ASSUME NEW t \in TermIds PROVE ArrivesAlive(t)'
    <2>1. ArrivesAlive(t)
      BY DEF ShownInv
    <2>2. CASE t = s
      BY <1>1, <1>2, <1>3, <1>5, <2>1, <2>2 DEF ArrivesAlive
    <2>3. CASE t # s
      <3>1. sess'[t] = sess[t]
        BY <1>2, <2>3
      <3> QED BY <1>1, <1>3, <1>5, <2>1, <3>1 DEF ArrivesAlive
    <2> QED BY <2>2, <2>3
  <1>7. ShowsWhatItHas'
    <2>1. ASSUME NEW t \in TermIds, sess[t].at = "shown" PROVE sess'[t].at = "shown"
      BY <1>1, <1>2, <2>1
    <2> QED BY <1>1, <1>3, <1>5, <2>1, ShowStays DEF ShownInv
  <1> QED BY <1>6, <1>7 DEF ShownInv

LEMMA SessionShows ==
    ASSUME PanelTypes, PanelInv, ShownInv, NEW s \in TermIds, Terms!Show(s)
    PROVE  ShownInv'
  <1>t. sess \in [TermIds -> WholeSess] /\ hook \in WholeHook /\ unclaimed \in WholeExcuse
    BY DEF PanelTypes
  <1>1. /\ sess[s].at = "listening" /\ sess' = [sess EXCEPT ![s].at = "shown"]
        /\ hook' = IF hook.mounted THEN [hook EXCEPT !.shown = s] ELSE hook
        /\ unclaimed' = IF hook.ref # s THEN [unclaimed EXCEPT !.unheard = @ \cup {s}] ELSE unclaimed
        /\ UNCHANGED <<mapped, endings>>
    BY DEF Terms!Show, Terms!At
  <1>2. /\ sess'[s].at = "shown" /\ sess'[s].pump = sess[s].pump /\ \A t \in TermIds : t # s => sess'[t] = sess[t]
    BY <1>t, <1>1, SessMoves DEF SessPlaces
  <1>3. /\ hook'.ref = hook.ref /\ hook'.ears = hook.ears /\ (hook'.mounted <=> hook.mounted)
        /\ hook'.shown = IF hook.mounted THEN s ELSE hook.shown
    BY <1>t, <1>1 DEF WholeHook
  <1>4. unclaimed.unheard \subseteq unclaimed'.unheard /\ (hook.ref # s => s \in unclaimed'.unheard)
    BY <1>t, <1>1 DEF WholeExcuse
  <1>5. ASSUME NEW t \in TermIds, Reachable(t) PROVE Reachable(t)'
    <2>1. sess'[t].pump = sess[t].pump
      BY <1>2
    <2> QED BY <1>1, <1>4, <1>5, <2>1, StillReachable
  <1>6. ASSUME NEW t \in TermIds PROVE ArrivesAlive(t)'
    <2>1. ArrivesAlive(t)
      BY DEF ShownInv
    <2>2. CASE t = s
      BY <1>2, <2>2 DEF ArrivesAlive
    <2>3. CASE t # s
      <3>1. sess'[t] = sess[t]
        BY <1>2, <2>3
      <3> QED BY <1>1, <1>3, <1>4, <1>5, <2>1, <3>1 DEF ArrivesAlive
    <2> QED BY <2>2, <2>3
  <1>7. ShowsWhatItHas'
    <2>1. CASE hook.mounted
      <3>1. hook'.shown = s /\ hook'.mounted
        BY <1>3, <2>1
      <3>2. s \notin unclaimed'.unheard => hook.ref = s /\ hook.ears # {} /\ Reachable(s)
        BY <1>1, <1>4, <2>1 DEF ShownInv, ArrivesAlive
      <3>3. Reachable(s)' <=> Reachable(hook.shown)'
        BY <3>1 DEF Reachable, Terms!Alive
      <3> QED BY <1>2, <1>3, <1>5, <3>1, <3>2, <3>3 DEF ShowsWhatItHas
    <2>2. CASE ~hook.mounted
      <3>1. hook'.shown = Null
        BY <1>3, <2>2 DEF ShownInv, ShowsWhatItHas
      <3> QED BY <3>1 DEF ShowsWhatItHas
    <2> QED BY <2>1, <2>2
  <1> QED BY <1>6, <1>7 DEF ShownInv

\* A hook that forgets its session shows nothing; who is on the way is none of those it referred to.
LEMMA HookForgets ==
    ASSUME PanelTypes, ShownInv, UNCHANGED sess, hook'.shown = Null,
           mapped \subseteq mapped' \/ \A t \in TermIds : sess[t].at # "returned",
           \A t \in TermIds : sess[t].at \in {"up", "returned"} /\ t \in endings => t \in endings',
           unclaimed.unheard \subseteq unclaimed'.unheard, hook'.mounted => hook.mounted /\ hook'.ref = Null
    PROVE  ShownInv'
  <1>1. ShowsWhatItHas'
    BY DEF ShowsWhatItHas
  <1>2. ASSUME NEW t \in TermIds PROVE ArrivesAlive(t)'
    <2>1. ArrivesAlive(t)
      BY DEF ShownInv
    <2>2. sess[t].at = "up" /\ sess[t].pump # "none" => sess[t].pump = "running" \/ t \in endings' \/ t \in unclaimed'.unheard
      BY <2>1 DEF ArrivesAlive
    <2>3. sess[t].at = "returned" /\ hook'.mounted => Reachable(t)'
      BY <2>1 DEF ArrivesAlive, Reachable, Terms!Alive
    <2>4. ~(hook'.mounted /\ hook'.ref = t)
      BY TerminalsAssumption
    <2> QED BY <2>2, <2>3, <2>4 DEF ArrivesAlive
  <1> QED BY <1>1, <1>2 DEF ShownInv

LEMMA ClearedShowsNothing ==
    ASSUME NEW h \in WholeHook, NEW x, x = Terms!Cleared(h) \/ x = [Terms!Cleared(h) EXCEPT !.sending = Null]
           \/ x = [Terms!Cleared(h) EXCEPT !.closing = Null]
    PROVE  x.shown = Null /\ x.ref = Null /\ (x.mounted <=> h.mounted)
  BY DEF Terms!Cleared, WholeHook

LEMMA EndIsHeard ==
    ASSUME PanelTypes, PanelInv, ShownInv, NEW s \in TermIds, Terms!Deliver(s)
    PROVE  ShownInv'
  <1>t. sess \in [TermIds -> WholeSess] /\ hook \in WholeHook /\ unclaimed \in WholeExcuse
    BY DEF PanelTypes
  <1>1. endings' = endings \ {s} /\ UNCHANGED <<sess, mapped>>
    BY DEF Terms!Deliver
  <1>2. CASE hook.ears # {} /\ hook.ref = s
    <2>1. hook' = Terms!Cleared(hook) /\ unclaimed' = unclaimed
      BY <1>2 DEF Terms!Deliver
    <2>2. hook'.shown = Null /\ hook'.ref = Null /\ (hook'.mounted <=> hook.mounted)
      BY <1>t, <2>1, ClearedShowsNothing
    <2>3. sess[s].at \in Opened
      BY <1>2, TerminalsAssumption DEF PanelInv, HookFits
    <2>4. \A t \in TermIds : sess[t].at \in {"up", "returned"} => t # s
      BY <2>3 DEF Opened
    <2> QED BY <1>1, <2>1, <2>2, <2>4, HookForgets
  <1>3. CASE ~(hook.ears # {} /\ hook.ref = s)
    <2>1. /\ unclaimed' = IF Terms!Underway # {} THEN [unclaimed EXCEPT !.unheard = @ \cup {s}] ELSE unclaimed
          /\ hook' = hook
      BY <1>3 DEF Terms!Deliver
    <2>2. unclaimed.unheard \subseteq unclaimed'.unheard /\ (Terms!Underway # {} => s \in unclaimed'.unheard)
      BY <1>t, <2>1 DEF WholeExcuse
    <2>3. ASSUME NEW t \in TermIds, Reachable(t), t # s \/ Terms!Underway # {} PROVE Reachable(t)'
      BY <1>1, <2>2, <2>3 DEF Reachable, Terms!Alive
    <2>4. ASSUME NEW t \in TermIds PROVE ArrivesAlive(t)'
      <3>1. ArrivesAlive(t)
        BY DEF ShownInv
      <3>2. sess[t].at \in {"up", "returned", "heard", "listening"} => Terms!Underway # {}
        BY DEF Terms!Underway, Terms!At
      <3>3. sess[t].at = "up" /\ sess[t].pump # "none" => sess[t].pump = "running" \/ t \in endings' \/ t \in unclaimed'.unheard
        BY <1>1, <2>2, <3>1, <3>2 DEF ArrivesAlive
      <3> QED BY <1>1, <2>1, <2>3, <3>1, <3>2, <3>3 DEF ArrivesAlive
    <2>5. ShowsWhatItHas'
      <3>1. ASSUME NEW t \in TermIds, hook.ref = t, hook.ears # {}, Reachable(t) PROVE Reachable(t)'
        BY <1>3, <2>3, <3>1
      <3> QED BY <1>1, <2>1, <2>2, <3>1, ShowStays DEF ShownInv
    <2> QED BY <2>4, <2>5 DEF ShownInv
  <1> QED BY <1>2, <1>3

LEMMA HookSends ==
    ASSUME PanelTypes, ShownInv, Terms!Send \/ Terms!Sent
    PROVE  ShownInv'
  <1>t. hook \in WholeHook
    BY DEF PanelTypes
  <1>1. (\E x : hook' = [hook EXCEPT !.sending = x]) /\ UNCHANGED <<sess, mapped, endings, unclaimed>>
    BY DEF Terms!Send, Terms!Sent
  <1>2. /\ hook'.ref = hook.ref /\ hook'.ears = hook.ears /\ hook'.mounted = hook.mounted
        /\ hook'.shown = hook.shown /\ hook'.closing = hook.closing
    BY <1>t, <1>1 DEF WholeHook
  <1>3. ASSUME NEW t \in TermIds PROVE Reachable(t)' <=> Reachable(t)
    BY <1>1 DEF Reachable, Terms!Alive
  <1>4. ASSUME NEW t \in TermIds PROVE ArrivesAlive(t)'
    <2>1. ArrivesAlive(t)
      BY DEF ShownInv
    <2> QED BY <1>1, <1>2, <1>3, <2>1 DEF ArrivesAlive
  <1>5. ShowsWhatItHas'
    BY <1>1, <1>2, <1>3, ShowStays DEF ShownInv
  <1> QED BY <1>4, <1>5 DEF ShownInv

LEMMA HookLets ==
    ASSUME PanelTypes, PanelInv, ShownInv, Terms!SendFails \/ Terms!Disconnected \/ Terms!Unmount
    PROVE  ShownInv'
  <1>t. hook \in WholeHook /\ unclaimed \in WholeExcuse
    BY DEF PanelTypes
  <1>1. CASE Terms!SendFails \/ Terms!Disconnected
    <2>1. /\ hook' = [Terms!Cleared(hook) EXCEPT !.sending = Null] \/ hook' = [Terms!Cleared(hook) EXCEPT !.closing = Null]
          /\ UNCHANGED <<sess, mapped, endings>>
          /\ unclaimed' = unclaimed \/ \E x : unclaimed' = [unclaimed EXCEPT !.strays = x]
      BY <1>1 DEF Terms!SendFails, Terms!Disconnected, Terms!LateFor
    <2>2. hook'.shown = Null /\ hook'.ref = Null /\ (hook'.mounted <=> hook.mounted)
      BY <1>t, <2>1, ClearedShowsNothing
    <2>3. unclaimed'.unheard = unclaimed.unheard
      BY <1>t, <2>1 DEF WholeExcuse
    <2> QED BY <2>1, <2>2, <2>3, HookForgets
  <1>2. CASE Terms!Unmount
    <2>1. /\ hook'.shown = Null /\ ~hook'.mounted /\ UNCHANGED <<sess, endings>>
          /\ unclaimed'.unheard = unclaimed.unheard
      BY <1>t, <1>2 DEF Terms!Unmount, WholeHook, WholeExcuse
    <2>2. ShowsWhatItHas'
      BY <2>1 DEF ShowsWhatItHas
    <2>3. ASSUME NEW t \in TermIds PROVE ArrivesAlive(t)'
      BY <2>1 DEF ShownInv, ArrivesAlive
    <2> QED BY <2>2, <2>3 DEF ShownInv
  <1> QED BY <1>1, <1>2

LEMMA HookCloses ==
    ASSUME PanelTypes, ShownInv, Terms!Disconnect
    PROVE  ShownInv'
  <1>t. hook \in WholeHook
    BY DEF PanelTypes
  <1>1. /\ hook' = [hook EXCEPT !.closing = hook.ref] /\ hook.closing = Null /\ UNCHANGED <<sess, endings, unclaimed>>
    BY DEF Terms!Disconnect
  <1>2. ASSUME NEW t \in TermIds PROVE ArrivesAlive(t)'
    <2>1. sess[t].at \notin {"up", "returned", "heard", "listening"}
      BY DEF Terms!Disconnect, Terms!Underway, Terms!At
    <2> QED BY <1>1, <2>1 DEF ArrivesAlive
  <1>3. /\ hook'.ref = hook.ref /\ hook'.ears = hook.ears /\ hook'.mounted = hook.mounted
        /\ hook'.shown = hook.shown /\ hook'.closing = hook.ref
    BY <1>t, <1>1 DEF WholeHook
  <1>4. ShowsWhatItHas'
    BY <1>1, <1>3, ShowStays DEF ShownInv
  <1> QED BY <1>2, <1>4 DEF ShownInv

LEMMA ShownStep == Terms!TypeOK /\ PanelInv /\ ShownInv /\ Terms!PanelNext => ShownInv'
  <1> SUFFICES ASSUME Terms!TypeOK, PanelInv, ShownInv, Terms!PanelNext PROVE ShownInv'
    OBVIOUS
  <1>t. PanelTypes
    BY PanelTyped
  <1>1. ASSUME NEW s \in TermIds, knownHosts # <<>> /\ Terms!CheckKey(s, knownHosts[1]) PROVE ShownInv'
    <2>1. knownHosts[1] \in HostKeys
      BY <1>1, TermsTypes
    <2> QED BY <1>1, <1>t, <2>1, AttemptsStay
  <1> QED BY <1>1, <1>t, AttemptsStay, PumpsStay, NumberArrives, EarsGrow, SessionShows, EndIsHeard, HookSends, HookLets,
             HookCloses DEF Terms!PanelNext

LEMMA ShownRests == ShownInv /\ UNCHANGED terminalVars => ShownInv'
  BY DEF terminalVars, ShownInv, ShowsWhatItHas, ArrivesAlive, Reachable, Terms!Alive

\* What was reported in time was heard: the next keystroke, the report or the answer will clear the rest.
LEMMA ShownHolds == ShownInv => Terms!ShownIsReal
  BY DEF ShownInv, ShowsWhatItHas, Reachable, Terms!ShownIsReal
-----------------------------------------------------------------------------
LEMMA ConsoleTyped == ScreenInv /\ BridgeTypes /\ StreamTypes => Cons!TypeOK
  BY DEF ScreenInv, ScreenTypes, Plans, BridgeTypes, SeatTypes, PumpTypes, StreamTypes, Cons!TypeOK

\* What holds, beside that, of the console and of what Studio shows.
ConsoleInv ==
    /\ client = "terminals" => ShownInv
    /\ client \in {"screens", "bridge", "events"} => ScreenInv /\ BridgeTypes /\ StreamTypes

LEMMA ConsoleStart == ClientsInit => ConsoleInv
  <1> SUFFICES ASSUME ClientsInit PROVE ConsoleInv
    OBVIOUS
  <1>1. client = "terminals" => ShownInv
    BY ShownStart DEF ClientsInit
  <1>2. client \in {"screens", "bridge", "events"} => Cons!ScreenInit /\ Cons!BridgeInit /\ Cons!StreamInit
    <2>1. client \in {"screens", "bridge", "events"} => Cons!Init
      BY DEF ClientsInit
    <2> QED BY <2>1 DEF Cons!Init
  <1> QED BY <1>1, <1>2, ScreenStart, BridgeTypesStart, StreamTypesStart DEF ConsoleInv

LEMMA ConsoleRests ==
    ASSUME [ClientsNext]_clientsVars
    PROVE  /\ client = "screens" => (Cons!ScreenNext \/ UNCHANGED screenVars) /\ UNCHANGED bridgeVars /\ UNCHANGED streamedVars
           /\ client = "bridge" => UNCHANGED screenVars /\ UNCHANGED streamedVars
           /\ client = "events" => UNCHANGED screenVars /\ UNCHANGED bridgeVars
  <1>1. CASE UNCHANGED clientsVars
    BY <1>1 DEF clientsVars
  <1>2. CASE ClientsNext
    <2>1. ClientsRest /\ (client = "screens" => ClientsStep)
      BY <1>2 DEF ClientsNext, ClientFoci
    <2>2. client # "screens" => UNCHANGED screenVars
      BY <2>1 DEF ClientsRest, Idles
    <2>3. client # "bridge" => UNCHANGED bridgeVars
      BY <2>1 DEF ClientsRest, Idles
    <2>4. client # "events" => UNCHANGED streamedVars
      BY <2>1 DEF ClientsRest, Idles
    <2>5. client = "screens" => Cons!ScreenNext
      BY <2>1 DEF ClientsStep
    <2> HIDE DEF screenVars, bridgeVars, streamedVars
    <2> QED BY <2>2, <2>3, <2>4, <2>5
  <1> QED BY <1>1, <1>2

LEMMA ConsoleKeeps == ClientsInv /\ ConsoleInv /\ [ClientsNext]_clientsVars => ConsoleInv'
  <1> SUFFICES ASSUME ClientsInv, ConsoleInv, [ClientsNext]_clientsVars PROVE ConsoleInv'
    OBVIOUS
  <1>f. client' = client
    BY ClientsStay
  <1>1. client = "terminals" => ShownInv'
    BY ClientsStay, ShownStep, ShownRests DEF ClientsInv, TermsInv, ConsoleInv
  <1>2. client \in {"screens", "bridge", "events"} => ScreenInv'
    BY ConsoleRests, ScreenStep, ScreenRests DEF ConsoleInv
  <1>3. client \in {"screens", "bridge", "events"} => BridgeTypes'
    BY ClientsStay, ConsoleRests, BridgeTypesStep, BridgeTypesRest DEF ConsoleInv
  <1>4. client \in {"screens", "bridge", "events"} => StreamTypes'
    BY ClientsStay, ConsoleRests, StreamTypesStep, StreamTypesRest DEF ClientsInv, ConsoleInv
  <1> QED BY <1>f, <1>1, <1>2, <1>3, <1>4 DEF ConsoleInv

\* Whatever order keys and answers come in, at whatever moment a terminal ends or a file is edited:
\* what the console and the panel of terminals show is so.
THEOREM ConsoleStaysTruthful == ClientsSpec => ConsoleIsTruthful
  <1>1. ClientsInit => ClientsInv /\ ConsoleInv
    BY ClientsStart, ConsoleStart
  <1>2. ClientsInv /\ ConsoleInv /\ [ClientsNext]_clientsVars => ClientsInv' /\ ConsoleInv'
    BY ClientsKeep, ConsoleKeeps
  <1>3. ConsoleInv => /\ While({"terminals"}, Terms!ShownIsReal)
                      /\ While({"screens", "bridge", "events"}, Cons!TypeOK)
                      /\ While({"screens"}, Cons!PricesAreFlagged /\ Cons!PayForSelected)
                      /\ While({"screens"}, Cons!CodeWentThere /\ Cons!LoadingHasCall)
    BY ShownHolds, ConsoleTyped, ScreenHolds DEF ConsoleInv, While
  <1>4. ConsoleInv /\ [ClientsNext]_clientsVars => [While({"bridge"}, Cons!ListedReach)]_bridgeVars
    <2> SUFFICES ASSUME ConsoleInv, [ClientsNext]_clientsVars, client = "bridge", ~UNCHANGED bridgeVars
                 PROVE  Cons!ListedReach
      BY DEF While
    <2>1. Cons!BridgeNext
      BY ClientsStay
    <2> QED BY <2>1, ListedReachStep DEF ConsoleInv
  <1> QED BY <1>1, <1>2, <1>3, <1>4, PTL DEF ClientsSpec, ConsoleIsTruthful
=============================================================================
