---------------------------- MODULE Daemon_proofs ----------------------------
(***************************************************************************)
(* What a daemon keeps for all its agents: one process serves, guards      *)
(* count for the sessions that live, files are reached where their owner   *)
(* opened them, processes are accounted for, a device is paired once, and  *)
(* the graph keeps what was pushed, pulled and derived.                    *)
(***************************************************************************)
EXTENDS Daemon, FiniteSetTheorems, TLAPS

-----------------------------------------------------------------------------
(* Least elements.                                                         *)

\* A set of naturals has a least element: the parts of it up to one of its members are
\* finite, and the smallest of them has one member.
LEMMA LeastOf ==
    ASSUME NEW S, S \subseteq Nat, S # {}
    PROVE  \E m \in S : \A k \in S : m <= k
  <1> DEFINE UpTo(k) == S \cap (0 .. k)
             Parts == {UpTo(k) : k \in S}
  <1>1. ASSUME NEW k \in S PROVE UpTo(k) \in FiniteSubsetsOf(Nat)
    <2>1. IsFiniteSet(0 .. k)
      BY FS_Interval
    <2>2. UpTo(k) \in SUBSET (0 .. k)
      OBVIOUS
    <2>3. IsFiniteSet(UpTo(k))
      BY <2>1, <2>2, FS_Subset, Zenon
    <2> QED BY <2>3 DEF FiniteSubsetsOf
  <1>2. Parts \subseteq FiniteSubsetsOf(Nat) /\ Parts # {}
    BY <1>1
  <1>3. PICK X \in Parts : \A Y \in Parts : <<Y, X>> \notin StrictSubsetOrdering(Nat)
    <2> HIDE DEF Parts
    <2> QED BY <1>2, FS_StrictSubsetOrderingWellFounded, WFMin, Zenon
  <1>4. PICK m \in S : X = UpTo(m)
    BY <1>3
  <1>5. ASSUME NEW k \in S, k < m PROVE FALSE
    <2>1. UpTo(k) \in SUBSET Nat /\ X \in SUBSET Nat /\ UpTo(k) \subseteq X /\ m \in X /\ m \notin UpTo(k)
      BY <1>4, <1>5
    <2>2. <<UpTo(k), X>> \in StrictSubsetOrdering(Nat)
      BY <2>1 DEF StrictSubsetOrdering
    <2> QED BY <1>3, <2>2
  <1> QED BY <1>5

-----------------------------------------------------------------------------
(* Starting and stopping.                                                  *)

\* A process that has not come to listen has no clients.
ClientsNeedASocket ==
    \A p \in Daemons : at[p] \in {"unborn", "spawned", "opening", "open"} => clients[p] = 0

\* Unless someone was about when the last start or clean-up began: of the processes alive and the
\* callers between their look at the pid file and their start there is one at most, and a process
\* that is alive is on file, or is about to write the file itself.
Claims(e) == ensure[e] # "idle"
Alone ==
    /\ \A e, f \in Callers : Claims(e) /\ Claims(f) => e = f
    /\ \A p, q \in Daemons : Startup!Alive(p) /\ Startup!Alive(q) => p = q
    /\ \A e \in Callers : Claims(e) => \A p \in Daemons : ~Startup!Alive(p)
    /\ \A p \in Daemons : Startup!Alive(p) => at[p] = "spawned" \/ pidFile = p
    /\ \A p \in Daemons : at[p] = "serving" => path = p

\* Unless two have worked on the data directory at once: the schema is that of some version, and
\* of the build that has opened it.
Migrated ==
    /\ \A p, q \in Daemons : Startup!AtWork(p) /\ Startup!AtWork(q) => p = q
    /\ \E n \in Nat : schema = 1 .. n
    /\ \A p \in Daemons : at[p] \in {"open", "serving"} => schema = 1 .. Latest[p]
    /\ \A v \in Startup!Versions : applied[v] = IF v \in schema THEN 1 ELSE 0

StartupInv ==
    /\ Startup!TypeOK /\ Startup!IdleIsTimed /\ ClientsNeedASocket
    /\ ~clashed => Alone
    /\ ~torn => Migrated

LEMMA VersionsOfBuilds ==
    /\ Startup!Versions \subseteq Nat
    /\ \A p \in Daemons : 1 .. Latest[p] \subseteq Startup!Versions
  <1> DEFINE B == {Latest[p] : p \in Daemons}
             Newest(n) == \A p \in Daemons : Latest[p] <= n
  <1>1. \E n \in B : Newest(n)
    BY DaemonsAssumption
  <1>2. (CHOOSE n \in B : Newest(n)) \in B /\ Newest(CHOOSE n \in B : Newest(n))
    BY <1>1
  <1> QED BY <1>2, DaemonsAssumption DEF Startup!Versions

LEMMA CurrentOfPrefix ==
    ASSUME NEW n \in Nat, schema = 1 .. n
    PROVE  Startup!CurrentVersion = n
  <1>1. CASE n = 0 BY <1>1 DEF Startup!CurrentVersion
  <1>2. CASE n > 0
    <2>1. n \in schema /\ \A w \in schema : w <= n
      BY <1>2
    <2>2. \A v \in schema : (\A w \in schema : w <= v) => v = n
      BY <2>1
    <2> QED BY <2>1, <2>2 DEF Startup!CurrentVersion
  <1> QED BY <1>1, <1>2

LEMMA StartupInit == Startup!Init => StartupInv
  <1> SUFFICES ASSUME Startup!Init PROVE StartupInv
    OBVIOUS
  <1>1. schema = 1 .. 0
    BY DEF Startup!Init
  <1>2. Startup!TypeOK
    <2>1. 0 \in 0 .. MaxClients /\ None \in Daemons \cup {None}
      BY DaemonsAssumption
    <2>3. timer \in [Daemons -> BOOLEAN] /\ clashed \in BOOLEAN /\ torn \in BOOLEAN
      BY DEF Startup!Init
    <2>4. at \in [Daemons -> {"unborn"}] /\ clients \in [Daemons -> {0}]
      BY DEF Startup!Init
    <2>5. applied \in [Startup!Versions -> {0}] /\ signalled \subseteq Daemons /\ schema \subseteq Startup!Versions
      BY DEF Startup!Init
    <2>6. ensure \in [Callers -> {"idle", "clean", "clear", "spawn"}]
      BY DEF Startup!Init
    <2>7. pidFile = None /\ path = None
      BY DEF Startup!Init
    <2> QED BY <2>1, <2>3, <2>4, <2>5, <2>6, <2>7 DEF Startup!TypeOK
  <1>3. Startup!IdleIsTimed /\ ClientsNeedASocket
    BY DEF Startup!Init, Startup!IdleIsTimed, ClientsNeedASocket
  <1>4. Alone
    BY DEF Startup!Init, Alone, Startup!Alive, Claims
  <1>5. Migrated
    BY <1>1 DEF Startup!Init, Migrated, Startup!AtWork
  <1> QED BY <1>2, <1>3, <1>4, <1>5 DEF StartupInv

LEMMA StartupTypes == Startup!TypeOK /\ Startup!Next => Startup!TypeOK'
  <1> SUFFICES ASSUME Startup!TypeOK, Startup!Next PROVE Startup!TypeOK'
    OBVIOUS
  <1> USE DaemonsAssumption DEF Startup!TypeOK, Startup!Go, Startup!CloseSteps, Startup!procState, Startup!files, Startup!database
  <1>0. Startup!Around \in BOOLEAN
    BY DEF Startup!Around
  <1>1. ASSUME NEW p \in Daemons, Startup!WritePid(p) PROVE Startup!TypeOK'
    <2>1. torn' \in BOOLEAN
      BY <1>1, Zenon DEF Startup!WritePid
    <2> QED BY <1>1, <2>1 DEF Startup!WritePid
  <1>18. ASSUME NEW p \in Daemons, Startup!Start(p) PROVE Startup!TypeOK'
    <2>1. clashed' \in BOOLEAN
      BY <1>0, <1>18, Zenon DEF Startup!Start
    <2> QED BY <1>18, <2>1 DEF Startup!Start
  <1>2. ASSUME NEW p \in Daemons, Startup!Migrate(p) PROVE Startup!TypeOK'
    BY <1>2, VersionsOfBuilds DEF Startup!Migrate, Startup!Pending
  <1>3. ASSUME NEW p \in Daemons, Startup!Migrated(p) PROVE Startup!TypeOK'
    BY <1>3 DEF Startup!Migrated
  <1>4. ASSUME NEW p \in Daemons, Startup!FailStart(p) PROVE Startup!TypeOK'
    BY <1>4 DEF Startup!FailStart
  <1>5. ASSUME NEW p \in Daemons, Startup!Listen(p) PROVE Startup!TypeOK'
    BY <1>5 DEF Startup!Listen
  <1>6. ASSUME NEW p \in Daemons, Startup!Connect(p) PROVE Startup!TypeOK'
    BY <1>6 DEF Startup!Connect
  <1>7. ASSUME NEW p \in Daemons, Startup!Disconnect(p) PROVE Startup!TypeOK'
    BY <1>7 DEF Startup!Disconnect
  <1>8. ASSUME NEW p \in Daemons, Startup!IdleFire(p) \/ Startup!Signal(p) PROVE Startup!TypeOK'
    BY <1>8 DEF Startup!IdleFire, Startup!Signal
  <1>9. ASSUME NEW p \in Daemons, Startup!Crash(p) PROVE Startup!TypeOK'
    BY <1>9 DEF Startup!Crash
  <1>10. ASSUME NEW p \in Daemons, Startup!BeginClose(p) PROVE Startup!TypeOK'
    BY <1>10 DEF Startup!BeginClose
  <1>11. ASSUME NEW p \in Daemons, Startup!CloseStep(p) PROVE Startup!TypeOK'
    BY <1>11 DEF Startup!CloseStep, Startup!After
  <1>12. ASSUME NEW p \in Daemons, NEW e \in Callers, Startup!Spawn(e, p) PROVE Startup!TypeOK'
    BY <1>12 DEF Startup!Spawn, Startup!To
  <1>13. ASSUME NEW e \in Callers, NEW step \in {"idle", "clean", "clear", "spawn"}, Startup!To(e, step)
         PROVE  ensure' \in [Callers -> {"idle", "clean", "clear", "spawn"}]
    BY <1>13 DEF Startup!To
  <1>16. ASSUME NEW e \in Callers, Startup!ReadPid(e) PROVE Startup!TypeOK'
    <2>1. clashed' \in BOOLEAN
      BY <1>0, <1>16, Zenon DEF Startup!ReadPid
    <2> QED BY <1>13, <1>16, <2>1 DEF Startup!ReadPid
  <1>17. ASSUME NEW e \in Callers, Startup!Clean(e) PROVE Startup!TypeOK'
    BY <1>13, <1>17 DEF Startup!Clean
  <1> QED BY <1>1, <1>2, <1>3, <1>4, <1>5, <1>6, <1>7, <1>8, <1>9, <1>10, <1>11, <1>12, <1>16, <1>17, <1>18
          DEF Startup!Next

LEMMA StartupTimed ==
    ASSUME StartupInv, Startup!Next
    PROVE  (Startup!IdleIsTimed /\ ClientsNeedASocket)'
  <1> DEFINE P == Startup!IdleIsTimed /\ ClientsNeedASocket
  <1> USE DEF StartupInv, Startup!TypeOK, Startup!IdleIsTimed, ClientsNeedASocket, Startup!Go, Startup!CloseSteps
  <1>1. ASSUME UNCHANGED <<at, clients, timer, signalled>> PROVE P'
    BY <1>1
  <1>2. ASSUME NEW p \in Daemons, NEW s, s # "serving", at' = [at EXCEPT ![p] = s],
               at[p] \in {"unborn", "spawned", "opening"} \/ s \notin {"unborn", "spawned", "opening", "open"},
               clients' \in {clients, [clients EXCEPT ![p] = 0]}, timer' \in {timer, [timer EXCEPT ![p] = FALSE]},
               signalled' \in {signalled, signalled \ {p}}
        PROVE  P'
    BY <1>2
  <1>3. ASSUME NEW p \in Daemons, Startup!Listen(p) PROVE P'
    BY <1>3 DEF Startup!Listen
  <1>4. ASSUME NEW p \in Daemons, Startup!Connect(p) PROVE P'
    BY <1>4, DaemonsAssumption DEF Startup!Connect
  <1>5. ASSUME NEW p \in Daemons, Startup!Disconnect(p) PROVE P'
    <2>1. /\ timer'[p] = (clients[p] = 1)
          /\ \A q \in Daemons : q # p => timer'[q] = timer[q]
      BY <1>5, Zenon DEF Startup!Disconnect
    <2>2. timer'[p] <=> clients[p] = 1
      BY <2>1, Zenon
    <2>3. /\ at[p] = "serving" /\ at' = at /\ signalled' = signalled
          /\ clients' = [clients EXCEPT ![p] = @ - 1] /\ clients[p] \in Nat
      BY <1>5, DaemonsAssumption DEF Startup!Disconnect
    <2> QED BY <2>1, <2>2, <2>3
  <1>6. ASSUME NEW p \in Daemons, Startup!IdleFire(p) \/ Startup!Signal(p) PROVE P'
    BY <1>6 DEF Startup!IdleFire, Startup!Signal
  <1>7. ASSUME NEW p \in Daemons, Startup!WritePid(p) \/ Startup!Migrated(p) PROVE P'
    BY <1>2, <1>7 DEF Startup!WritePid, Startup!Migrated
  <1>12. ASSUME NEW p \in Daemons, Startup!FailStart(p) PROVE P'
    BY <1>2, <1>12 DEF Startup!FailStart
  <1>13. ASSUME NEW p \in Daemons, Startup!Crash(p) PROVE P'
    BY <1>2, <1>13 DEF Startup!Crash, Startup!Alive
  <1>14. ASSUME NEW p \in Daemons, Startup!BeginClose(p) PROVE P'
    BY <1>2, <1>14 DEF Startup!BeginClose
  <1>8. ASSUME NEW p \in Daemons, Startup!CloseStep(p) PROVE P'
    <2>1. Startup!After(at[p]) \in {"drain", "unlink", "pid", "dead"}
      BY Zenon DEF Startup!After
    <2> QED BY <1>2, <1>8, <2>1 DEF Startup!CloseStep
  <1>9. ASSUME NEW p \in Daemons, Startup!Start(p) \/ \E e \in Callers : Startup!Spawn(e, p) PROVE P'
    BY <1>2, <1>9 DEF Startup!Start, Startup!Spawn
  <1>10. ASSUME NEW p \in Daemons, Startup!Migrate(p) PROVE P'
    BY <1>1, <1>10 DEF Startup!Migrate, Startup!procState
  <1>11. ASSUME NEW e \in Callers, Startup!ReadPid(e) \/ Startup!Clean(e) PROVE P'
    BY <1>1, <1>11 DEF Startup!ReadPid, Startup!Clean, Startup!procState
  <1> QED BY <1>3, <1>4, <1>5, <1>6, <1>7, <1>8, <1>9, <1>10, <1>11, <1>12, <1>13, <1>14 DEF Startup!Next

LEMMA StartupAlone ==
    ASSUME StartupInv, Startup!Next, ~clashed'
    PROVE  Alone'
  <1> USE DEF StartupInv, Startup!TypeOK, Alone, Claims, Startup!Alive, Startup!Go, Startup!To, Startup!CloseSteps,
        Startup!procState, Startup!files, Startup!database
  <1>1. ASSUME NEW p \in Daemons, Startup!WritePid(p) PROVE Alone'
    BY <1>1 DEF Startup!WritePid
  <1>2. ASSUME NEW p \in Daemons, Startup!Migrate(p) PROVE Alone'
    BY <1>2 DEF Startup!Migrate
  <1>3. ASSUME NEW p \in Daemons, Startup!Migrated(p) PROVE Alone'
    BY <1>3 DEF Startup!Migrated
  <1>4. ASSUME NEW p \in Daemons, Startup!FailStart(p) PROVE Alone'
    BY <1>4 DEF Startup!FailStart
  <1>5. ASSUME NEW p \in Daemons, Startup!Listen(p) PROVE Alone'
    BY <1>5 DEF Startup!Listen
  <1>6. ASSUME NEW p \in Daemons, Startup!Connect(p) \/ Startup!Disconnect(p) PROVE Alone'
    BY <1>6 DEF Startup!Connect, Startup!Disconnect
  <1>7. ASSUME NEW p \in Daemons, Startup!IdleFire(p) \/ Startup!Signal(p) PROVE Alone'
    BY <1>7 DEF Startup!IdleFire, Startup!Signal
  <1>8. ASSUME NEW p \in Daemons, Startup!Crash(p) PROVE Alone'
    BY <1>8 DEF Startup!Crash
  <1>9. ASSUME NEW p \in Daemons, Startup!BeginClose(p) PROVE Alone'
    BY <1>9 DEF Startup!BeginClose
  <1>10. ASSUME NEW p \in Daemons, Startup!CloseStep(p) PROVE Alone'
    <2>1. /\ Startup!After(at[p]) \in {"drain", "unlink", "pid", "dead"}
          /\ at[p] = "pid" => Startup!After(at[p]) = "dead"
      BY Zenon DEF Startup!After
    <2> QED BY <1>10, <2>1 DEF Startup!CloseStep
  <1>11. ASSUME NEW p \in Daemons, NEW e \in Callers, Startup!Spawn(e, p) PROVE Alone'
    BY <1>11 DEF Startup!Spawn
  <1>12. ASSUME NEW p \in Daemons, Startup!Start(p) PROVE Alone'
    <2>1. (\A q \in Daemons : ~Startup!Alive(q)) /\ (\A e \in Callers : ~Claims(e))
      BY <1>12 DEF Startup!Start, Startup!Around
    <2> QED BY <1>12, <2>1 DEF Startup!Start
  <1>14. ASSUME NEW e \in Callers, Startup!Clean(e) PROVE Alone'
    BY <1>14 DEF Startup!Clean
  <1>15. ASSUME NEW e \in Callers, Startup!ReadPid(e) PROVE Alone'
    <2>0. UNCHANGED <<at, pidFile, path>>
      BY <1>15 DEF Startup!ReadPid
    <2>1. PICK step \in {"clean", "clear"} : ensure' = [ensure EXCEPT ![e] = step] /\ ~Startup!Around
      BY <1>15 DEF Startup!ReadPid
    <2>2. (\A q \in Daemons : ~Startup!Alive(q)) /\ (\A f \in Callers : ~Claims(f))
      BY <2>1 DEF Startup!Around
    <2>3. \A f \in Callers : ensure'[f] # "idle" => f = e
      BY <2>1, <2>2
    <2> QED BY <2>0, <2>2, <2>3
  <1> QED BY <1>1, <1>2, <1>3, <1>4, <1>5, <1>6, <1>7, <1>8, <1>9, <1>10, <1>11, <1>12, <1>14, <1>15
          DEF Startup!Next

LEMMA StartupMigrated ==
    ASSUME StartupInv, Startup!Next, ~torn'
    PROVE  Migrated'
  <1>0. ~torn /\ Migrated
    <2>1. ~torn
      BY DEF Startup!Next, Startup!Start, Startup!WritePid, Startup!Migrate, Startup!Migrated, Startup!FailStart,
             Startup!Listen, Startup!Connect, Startup!Disconnect, Startup!IdleFire, Startup!Signal, Startup!Crash,
             Startup!BeginClose, Startup!CloseStep, Startup!Spawn, Startup!ReadPid, Startup!Clean
    <2> QED BY <2>1 DEF StartupInv
  <1>1. ASSUME UNCHANGED <<schema, applied>>,
               \A p \in Daemons : /\ at'[p] \in {"open", "serving"} => at[p] \in {"open", "serving"}
                                  /\ Startup!AtWork(p)' => Startup!AtWork(p)
        PROVE  Migrated'
    BY <1>0, <1>1 DEF Migrated
  <1>2. ASSUME UNCHANGED <<schema, applied>>, NEW p \in Daemons, NEW s, s \notin {"open", "serving"}, at' = [at EXCEPT ![p] = s],
               s \in {"stop", "drain"} => Startup!AtWork(p), s # "opening"
        PROVE  Migrated'
    BY <1>1, <1>2 DEF StartupInv, Startup!TypeOK, Startup!AtWork
  <1>3. ASSUME NEW p \in Daemons, Startup!Migrate(p) PROVE Migrated'
    <2>1. PICK n \in Nat : schema = 1 .. n
      BY <1>0 DEF Migrated
    <2>2. Startup!CurrentVersion = n
      BY <2>1, CurrentOfPrefix
    <2>3. PICK v \in Startup!Pending(p) :
             /\ \A w \in Startup!Pending(p) : v <= w
             /\ schema' = schema \cup {v}
             /\ applied' = [applied EXCEPT ![v] = IF @ < 2 THEN @ + 1 ELSE @]
      BY <1>3 DEF Startup!Migrate
    <2>4. v = n + 1 /\ v \in Startup!Versions
      <3>1. v \in Nat /\ v <= Latest[p] /\ v > n /\ Latest[p] \in Nat
        BY <2>2, VersionsOfBuilds, DaemonsAssumption DEF Startup!Pending
      <3>2. n + 1 \in Startup!Pending(p)
        BY <2>2, <3>1, VersionsOfBuilds DEF Startup!Pending
      <3> QED BY <2>3, <3>1, <3>2 DEF Startup!Pending
    <2>5. schema' = 1 .. (n + 1)
      BY <2>1, <2>3, <2>4
    <2>6. \A q \in Daemons : at'[q] \notin {"open", "serving"}
      BY <1>0, <1>3 DEF Startup!Migrate, Migrated, Startup!AtWork, Startup!procState
    <2>7. \A w \in Startup!Versions : applied'[w] = IF w \in schema' THEN 1 ELSE 0
      BY <1>0, <2>1, <2>3, <2>4 DEF Migrated, StartupInv, Startup!TypeOK
    <2>8. \A q, r \in Daemons : Startup!AtWork(q)' /\ Startup!AtWork(r)' => q = r
      BY <1>0, <1>3 DEF Startup!Migrate, Migrated, Startup!AtWork, Startup!procState
    <2> QED BY <2>5, <2>6, <2>7, <2>8 DEF Migrated
  <1>4. ASSUME NEW p \in Daemons, Startup!Migrated(p) PROVE Migrated'
    <2>1. PICK n \in Nat : schema = 1 .. n
      BY <1>0 DEF Migrated
    <2>2. schema = 1 .. Latest[p]
      BY <1>4, <2>1, CurrentOfPrefix DEF Startup!Migrated, Startup!Fits
    <2>3. at' = [at EXCEPT ![p] = "open"] /\ UNCHANGED <<schema, applied>>
      BY <1>4 DEF Startup!Migrated, Startup!Go, Startup!database
    <2>4. at[p] = "opening"
      BY <1>4 DEF Startup!Migrated
    <2> QED BY <1>0, <2>2, <2>3, <2>4 DEF Migrated, Startup!AtWork, StartupInv, Startup!TypeOK
  <1>5. ASSUME NEW p \in Daemons, Startup!WritePid(p) PROVE Migrated'
    <2>1. \A q \in Daemons : ~Startup!AtWork(q)
      BY <1>5 DEF Startup!WritePid
    <2>2. at' = [at EXCEPT ![p] = "opening"] /\ UNCHANGED <<schema, applied>>
      BY <1>5 DEF Startup!WritePid, Startup!Go, Startup!database
    <2>3. \A q \in Daemons : at'[q] \notin {"open", "serving"} /\ (Startup!AtWork(q)' => q = p)
      BY <2>1, <2>2 DEF StartupInv, Startup!TypeOK, Startup!AtWork
    <2> QED BY <1>0, <2>2, <2>3 DEF Migrated
  <1>12. ASSUME NEW p \in Daemons, Startup!FailStart(p) PROVE Migrated'
    BY <1>2, <1>12 DEF Startup!FailStart, Startup!Go, Startup!database
  <1>6. ASSUME NEW p \in Daemons, Startup!Listen(p) PROVE Migrated'
    BY <1>1, <1>6 DEF Startup!Listen, Startup!Go, Startup!database, StartupInv, Startup!TypeOK, Startup!AtWork
  <1>7. ASSUME NEW p \in Daemons, Startup!Crash(p) \/ Startup!BeginClose(p) PROVE Migrated'
    BY <1>2, <1>7 DEF Startup!Crash, Startup!BeginClose, Startup!Go, Startup!database, Startup!AtWork
  <1>8. ASSUME NEW p \in Daemons, Startup!CloseStep(p) PROVE Migrated'
    <2>1. Startup!After(at[p]) \in {"drain", "unlink", "pid", "dead"}
      BY Zenon DEF Startup!After
    <2>2. Startup!After(at[p]) = "drain" => at[p] = "stop"
      BY <1>8, Zenon DEF Startup!After, Startup!CloseStep, Startup!CloseSteps
    <2> QED BY <1>2, <1>8, <2>1, <2>2 DEF Startup!CloseStep, Startup!Go, Startup!database, Startup!AtWork
  <1>9. ASSUME NEW p \in Daemons, Startup!Start(p) \/ \E e \in Callers : Startup!Spawn(e, p) PROVE Migrated'
    BY <1>2, <1>9 DEF Startup!Start, Startup!Spawn, Startup!Go, Startup!database
  <1>10. ASSUME NEW p \in Daemons,
                Startup!Connect(p) \/ Startup!Disconnect(p) \/ Startup!IdleFire(p) \/ Startup!Signal(p)
         PROVE  Migrated'
    BY <1>1, <1>10 DEF Startup!Connect, Startup!Disconnect, Startup!IdleFire, Startup!Signal, Startup!database, Startup!AtWork
  <1>11. ASSUME NEW e \in Callers, Startup!ReadPid(e) \/ Startup!Clean(e) PROVE Migrated'
    BY <1>1, <1>11 DEF Startup!ReadPid, Startup!Clean, Startup!procState, Startup!database, Startup!AtWork
  <1> QED BY <1>3, <1>4, <1>5, <1>6, <1>7, <1>8, <1>9, <1>10, <1>11, <1>12 DEF Startup!Next

LEMMA StartupStep == StartupInv /\ Startup!Next => StartupInv'
  BY StartupTypes, StartupTimed, StartupAlone, StartupMigrated DEF StartupInv

LEMMA StartupServes ==
    ASSUME StartupInv
    PROVE  Startup!TypeOK /\ Startup!OneDaemon /\ Startup!ServingIsFound /\ Startup!SchemaFits /\ Startup!IdleIsTimed
  <1>1. Startup!OneDaemon
    BY DEF StartupInv, Alone, Startup!Alive, Startup!AtWork, Startup!OneDaemon
  <1>2. Startup!ServingIsFound
    BY DEF StartupInv, Alone, Startup!Alive, Startup!ServingIsFound
  <1>3. Startup!SchemaFits
    BY DEF StartupInv, Migrated, Startup!SchemaFits
  <1> QED BY <1>1, <1>2, <1>3 DEF StartupInv

-----------------------------------------------------------------------------
(* The loop guard.                                                         *)

LoopInv == LoopGuard!TypeOK /\ LoopGuard!LoopsAreLive

\* What a step that is neither progress nor a resume may do to a guard.
Kept(g, h) ==
    /\ g.status \notin {"absent", "stopped"} => h.streak >= g.streak /\ h.spent >= g.spent
    /\ g.status = "stopped" /\ h.status = "armed" => h.spent = 0
    /\ h.status = "armed" /\ LoopGuard!Exhausted(h) =>
          h.agent = g.agent /\ h.status = g.status /\ h.streak = g.streak /\ h.limit = g.limit

\* The guard of g's agent, whatever a step has done to it.
SameAgent(g, h) == h \in LoopGuard!Guard /\ h.agent = g.agent

LEMMA GuardChanges ==
    ASSUME NEW g \in LoopGuard!Guard
    PROVE  /\ \A n \in Nat : SameAgent(g, LoopGuard!Spent(g, n)) /\ (g.status # "stopped" => Kept(g, LoopGuard!Spent(g, n)))
           /\ \A n \in Nat : LoopGuard!Spent(g, n).status = g.status /\ LoopGuard!Spent(g, n).spent = g.spent + n
           /\ SameAgent(g, LoopGuard!TickedInVain(g)) /\ Kept(g, LoopGuard!TickedInVain(g))
           /\ \A n \in Limits \cup {None} : g.status # "stopped" =>
                 SameAgent(g, LoopGuard!Rearmed(g, n)) /\ Kept(g, LoopGuard!Rearmed(g, n))
           /\ \A s \in {"paused", "stopped"} : SameAgent(g, [g EXCEPT !.status = s]) /\ Kept(g, [g EXCEPT !.status = s])
  <1> USE LoopsAssumption DEF LoopGuard!Guard, SameAgent, Kept, LoopGuard!Exhausted
  <1>1. ASSUME NEW n \in Nat
        PROVE  /\ SameAgent(g, LoopGuard!Spent(g, n)) /\ (g.status # "stopped" => Kept(g, LoopGuard!Spent(g, n)))
               /\ LoopGuard!Spent(g, n).status = g.status /\ LoopGuard!Spent(g, n).spent = g.spent + n
    BY DEF LoopGuard!Spent
  <1>2. SameAgent(g, LoopGuard!TickedInVain(g)) /\ Kept(g, LoopGuard!TickedInVain(g))
    <2> DEFINE h == [g EXCEPT !.streak = @ + 1]
    <2>1. /\ h \in LoopGuard!Guard /\ h.agent = g.agent /\ h.status = g.status
          /\ h.streak = g.streak + 1 /\ h.limit = g.limit /\ h.spent = g.spent
      OBVIOUS
    <2>2. LoopGuard!TickedInVain(g) = IF LoopGuard!Exhausted(h) THEN [h EXCEPT !.status = "not_advancing"] ELSE h
      BY DEF LoopGuard!TickedInVain
    <2> HIDE DEF h
    <2> QED BY <2>1, <2>2
  <1>3. ASSUME NEW n \in Limits \cup {None}, g.status # "stopped"
        PROVE  SameAgent(g, LoopGuard!Rearmed(g, n)) /\ Kept(g, LoopGuard!Rearmed(g, n))
    <2> DEFINE h == [g EXCEPT !.limit = IF n = None THEN @ ELSE n]
    <2>1. /\ h \in LoopGuard!Guard /\ h.agent = g.agent /\ h.status = g.status
          /\ h.streak = g.streak /\ h.spent = g.spent
      OBVIOUS
    <2>2. LoopGuard!Rearmed(g, n) = IF h.status # "paused" /\ LoopGuard!Exhausted(h)
                                    THEN [h EXCEPT !.status = "not_advancing"] ELSE h
      BY DEF LoopGuard!Rearmed
    <2> HIDE DEF h
    <2> QED BY <1>3, <2>1, <2>2
  <1>4. ASSUME NEW s \in {"paused", "stopped"}
        PROVE  SameAgent(g, [g EXCEPT !.status = s]) /\ Kept(g, [g EXCEPT !.status = s])
    OBVIOUS
  <1> QED BY <1>1, <1>2, <1>3, <1>4

\* A loop that is not absent has a guard, of an agent whose session is live.
LEMMA OwnedGuard ==
    ASSUME LoopInv, NEW l \in LoopIds, loop[l].status # "absent" \/ loop[l].agent \in Agents
    PROVE  loop[l] \in LoopGuard!Guard /\ loop[l].agent \in Agents /\ session[loop[l].agent] = "live"
  BY LoopsAssumption DEF LoopInv, LoopGuard!TypeOK, LoopGuard!LoopsAreLive, LoopGuard!NoLoop, LoopGuard!Guard

LEMMA LoopInit == LoopGuard!Init => LoopInv
  BY DEF LoopGuard!Init, LoopInv, LoopGuard!TypeOK, LoopGuard!LoopsAreLive

\* The guard of an agent's loop is replaced by another guard of that agent.
LEMMA GuardReplaced ==
    ASSUME LoopInv, NEW l \in LoopIds, NEW g \in LoopGuard!Guard, session[g.agent] = "live",
           loop' = [loop EXCEPT ![l] = g], UNCHANGED session
    PROVE  LoopInv'
  BY DEF LoopInv, LoopGuard!TypeOK, LoopGuard!LoopsAreLive

LEMMA LoopReaped ==
    ASSUME LoopInv, NEW as, loop' = LoopGuard!Reap(as), session' \in [Agents -> {"none", "live", "ended"}],
           \A a \in Agents \ as : session[a] = "live" => session'[a] = "live"
    PROVE  LoopInv'
  <1>1. ASSUME NEW l \in LoopIds
        PROVE  loop'[l] = LoopGuard!NoLoop \/ (loop'[l] = loop[l] /\ loop[l].agent \notin as)
    BY <1>1 DEF LoopGuard!Reap
  <1>2. loop' \in [LoopIds -> LoopGuard!Guard \cup {LoopGuard!NoLoop}]
    BY DEF LoopGuard!Reap, LoopInv, LoopGuard!TypeOK
  <1>3. ASSUME NEW l \in LoopIds, loop'[l] # LoopGuard!NoLoop PROVE session'[loop'[l].agent] = "live"
    <2>1. loop'[l] = loop[l] /\ loop[l].agent \notin as /\ loop[l] \in LoopGuard!Guard
      BY <1>1, <1>3 DEF LoopInv, LoopGuard!TypeOK
    <2>2. loop[l].agent \in Agents /\ session[loop[l].agent] = "live"
      BY <1>3, <2>1 DEF LoopInv, LoopGuard!LoopsAreLive, LoopGuard!Guard
    <2> QED BY <2>1, <2>2
  <1> QED BY <1>2, <1>3 DEF LoopInv, LoopGuard!TypeOK, LoopGuard!LoopsAreLive

\* What an action does to the registry: guards are kept, reaped, armed afresh, or it is progress
\* or a resume.
LEMMA LoopActions ==
    ASSUME LoopInv, LoopGuard!Next
    PROVE  /\ LoopInv'
           /\ \/ \A l \in LoopIds : loop'[l] = loop[l] \/ loop'[l] = LoopGuard!NoLoop \/ Kept(loop[l], loop'[l])
              \/ \E a \in Agents, l \in LoopIds, n \in Amounts : LoopGuard!Tick(a, l, TRUE, n)
              \/ \E a \in Agents, l \in LoopIds : LoopGuard!Resume(a, l)
  <1> DEFINE Keeps == \A l \in LoopIds : loop'[l] = loop[l] \/ loop'[l] = LoopGuard!NoLoop \/ Kept(loop[l], loop'[l])
  <1>0. loop \in [LoopIds -> LoopGuard!Guard \cup {LoopGuard!NoLoop}] /\ session \in [Agents -> {"none", "live", "ended"}]
    BY DEF LoopInv, LoopGuard!TypeOK
  <1>1. ASSUME NEW a \in Agents, LoopGuard!Register(a) PROVE LoopInv' /\ Keeps
    BY <1>0, <1>1 DEF LoopGuard!Register, LoopInv, LoopGuard!TypeOK, LoopGuard!LoopsAreLive, LoopGuard!Guard
  <1>2. ASSUME NEW as, loop' = LoopGuard!Reap(as) PROVE Keeps
    BY <1>2 DEF LoopGuard!Reap
  <1>3. ASSUME NEW a \in Agents, LoopGuard!EndSession(a) PROVE LoopInv' /\ Keeps
    <2>1. session' \in [Agents -> {"none", "live", "ended"}] /\ \A b \in Agents \ {a} : session'[b] = session[b]
      BY <1>0, <1>3 DEF LoopGuard!EndSession
    <2> QED BY <1>2, <1>3, <2>1, LoopReaped DEF LoopGuard!EndSession
  <1>4. ASSUME LoopGuard!Prune PROVE LoopInv' /\ Keeps
    <2>1. PICK gone \in SUBSET {a \in Agents : session[a] = "live"}, old \in SUBSET {a \in Agents : session[a] = "ended"} :
             /\ session' = [a \in Agents |-> IF a \in gone THEN "ended" ELSE IF a \in old THEN "none" ELSE session[a]]
             /\ loop' = LoopGuard!Reap(gone)
      BY <1>4 DEF LoopGuard!Prune
    <2>2. session' \in [Agents -> {"none", "live", "ended"}]
      BY <1>0, <2>1
    <2>3. \A a \in Agents \ gone : session[a] = "live" => session'[a] = "live"
      BY <2>1
    <2> QED BY <1>2, <2>1, <2>2, <2>3, LoopReaped
  <1>5. ASSUME NEW l \in LoopIds, NEW g, Kept(loop[l], g), loop' = [loop EXCEPT ![l] = g] PROVE Keeps
    BY <1>0, <1>5
  <1>6. ASSUME NEW a \in Agents, NEW l \in LoopIds, NEW n \in Limits \cup {None}, LoopGuard!Arm(a, l, n)
        PROVE  LoopInv' /\ Keeps
    <2>1. CASE loop[l].status \in {"absent", "stopped"}
      <3> DEFINE g == [agent |-> a, status |-> "armed", streak |-> 0, limit |-> LoopGuard!NormalizedLimit(n), spent |-> 0]
      <3>1. g \in LoopGuard!Guard /\ session[g.agent] = "live" /\ Kept(loop[l], g) /\ loop' = [loop EXCEPT ![l] = g]
            /\ UNCHANGED session
        BY <1>6, <2>1, LoopsAssumption DEF LoopGuard!Arm, LoopGuard!SessionIsLive, LoopGuard!NormalizedLimit,
             LoopGuard!Guard, Kept, LoopGuard!Exhausted
      <3> HIDE DEF g
      <3> QED BY <1>5, <3>1, GuardReplaced
    <2>2. CASE loop[l].status \notin {"absent", "stopped"}
      <3> DEFINE g == LoopGuard!Rearmed(loop[l], n)
      <3>1. loop' = [loop EXCEPT ![l] = g] /\ UNCHANGED session
        BY <1>6, <2>2 DEF LoopGuard!Arm
      <3>2. loop[l] \in LoopGuard!Guard /\ session[loop[l].agent] = "live"
        BY <2>2, OwnedGuard
      <3>3. g \in LoopGuard!Guard /\ g.agent = loop[l].agent /\ Kept(loop[l], g)
        BY <2>2, <3>2, GuardChanges DEF SameAgent
      <3> HIDE DEF g
      <3> QED BY <1>5, <3>1, <3>2, <3>3, GuardReplaced
    <2> QED BY <2>1, <2>2
  <1>7. ASSUME NEW a \in Agents, NEW l \in LoopIds, NEW n \in Amounts, NEW advanced \in BOOLEAN,
               LoopGuard!Tick(a, l, advanced, n)
        PROVE  LoopInv' /\ (~advanced => Keeps)
    <2>1. loop[l] \in LoopGuard!Guard /\ session[loop[l].agent] = "live" /\ n \in Nat /\ loop[l].status # "stopped"
      BY <1>7, OwnedGuard, LoopsAssumption DEF LoopGuard!Tick, LoopGuard!Owns
    <2> DEFINE s == LoopGuard!Spent(loop[l], n)
    <2>2. /\ s \in LoopGuard!Guard /\ s.agent = loop[l].agent /\ Kept(loop[l], s)
          /\ s.status = loop[l].status /\ s.spent = loop[l].spent + n
      BY <2>1, GuardChanges DEF SameAgent
    <2>3. /\ loop' = [loop EXCEPT ![l] = IF advanced THEN [s EXCEPT !.streak = 0, !.status = "armed"]
                                          ELSE LoopGuard!TickedInVain(s)]
          /\ UNCHANGED session /\ loop[l].status \in {"armed", "not_advancing"}
      BY <1>7 DEF LoopGuard!Tick
    <2> HIDE DEF s
    <2>4. CASE advanced
      <3>1. [s EXCEPT !.streak = 0, !.status = "armed"] \in LoopGuard!Guard /\ [s EXCEPT !.streak = 0, !.status = "armed"].agent = s.agent
        BY <2>2 DEF LoopGuard!Guard
      <3> QED BY <2>1, <2>2, <2>3, <2>4, <3>1, GuardReplaced
    <2>5. CASE ~advanced
      <3> DEFINE g == LoopGuard!TickedInVain(s)
      <3>1. g \in LoopGuard!Guard /\ g.agent = s.agent /\ Kept(s, g) /\ loop' = [loop EXCEPT ![l] = g]
        BY <2>2, <2>3, <2>5, GuardChanges DEF SameAgent
      <3> HIDE DEF g
      <3>2. Kept(loop[l], g)
        BY <2>1, <2>2, <2>3, <3>1 DEF Kept, LoopGuard!Guard, LoopGuard!Exhausted
      <3>3. Keeps
        BY <1>5, <3>1, <3>2, Zenon
      <3>4. session[g.agent] = "live" /\ UNCHANGED session
        BY <2>1, <2>2, <2>3, <3>1
      <3>5. LoopInv'
        BY <3>1, <3>4, GuardReplaced
      <3> QED BY <3>3, <3>5
    <2> QED BY <2>4, <2>5
  <1>8. ASSUME NEW a \in Agents, NEW l \in LoopIds, NEW n \in Amounts, LoopGuard!RecordSpend(a, l, n)
        PROVE  LoopInv' /\ Keeps
    <2> DEFINE g == LoopGuard!Spent(loop[l], n)
    <2>1. loop[l] \in LoopGuard!Guard /\ session[loop[l].agent] = "live" /\ n \in Nat /\ loop[l].status # "stopped"
      BY <1>8, OwnedGuard, LoopsAssumption DEF LoopGuard!RecordSpend, LoopGuard!Owns
    <2>2. loop' = [loop EXCEPT ![l] = g] /\ UNCHANGED session
      BY <1>8 DEF LoopGuard!RecordSpend
    <2>3. g \in LoopGuard!Guard /\ g.agent = loop[l].agent /\ Kept(loop[l], g)
      BY <2>1, GuardChanges DEF SameAgent
    <2> HIDE DEF g
    <2> QED BY <1>5, <2>1, <2>2, <2>3, GuardReplaced
  <1>9. ASSUME NEW a \in Agents, NEW l \in LoopIds, NEW t \in {"paused", "stopped", "armed"},
               LoopGuard!Owns(a, l), loop' = [loop EXCEPT ![l].status = t], UNCHANGED session
        PROVE  LoopInv' /\ (t # "armed" => Keeps)
    <2> DEFINE g == [loop[l] EXCEPT !.status = t]
    <2>1. loop[l] \in LoopGuard!Guard /\ session[loop[l].agent] = "live"
      BY <1>9, OwnedGuard DEF LoopGuard!Owns
    <2>2. g \in LoopGuard!Guard /\ g.agent = loop[l].agent
      BY <2>1 DEF LoopGuard!Guard
    <2>3. t # "armed" => Kept(loop[l], g)
      BY <2>1, GuardChanges
    <2>4. loop' = [loop EXCEPT ![l] = g]
      BY <1>9
    <2> HIDE DEF g
    <2> QED BY <1>5, <1>9, <2>1, <2>2, <2>3, <2>4, GuardReplaced
  <1>10. ASSUME NEW a \in Agents, NEW l \in LoopIds, LoopGuard!Pause(a, l) \/ LoopGuard!Stop(a, l) PROVE LoopInv' /\ Keeps
    BY <1>9, <1>10 DEF LoopGuard!Pause, LoopGuard!Stop
  <1>11. ASSUME NEW a \in Agents, NEW l \in LoopIds, LoopGuard!Resume(a, l) PROVE LoopInv'
    BY <1>9, <1>11 DEF LoopGuard!Resume
  <1> HIDE DEF Keeps
  <1>12. ASSUME NEW a \in Agents, NEW l \in LoopIds, NEW n \in Amounts, NEW advanced \in BOOLEAN,
                LoopGuard!Tick(a, l, advanced, n)
         PROVE  LoopInv' /\ (Keeps \/ LoopGuard!Tick(a, l, TRUE, n))
    BY <1>7, <1>12
  <1>13. \/ \E a \in Agents : LoopGuard!Register(a) \/ LoopGuard!EndSession(a)
         \/ LoopGuard!Prune
         \/ \E a \in Agents, l \in LoopIds, n \in Limits \cup {None} : LoopGuard!Arm(a, l, n)
         \/ \E a \in Agents, l \in LoopIds, n \in Amounts, advanced \in BOOLEAN : LoopGuard!Tick(a, l, advanced, n)
         \/ \E a \in Agents, l \in LoopIds, n \in Amounts : LoopGuard!RecordSpend(a, l, n)
         \/ \E a \in Agents, l \in LoopIds : LoopGuard!Pause(a, l) \/ LoopGuard!Stop(a, l)
         \/ \E a \in Agents, l \in LoopIds : LoopGuard!Resume(a, l)
    BY Zenon DEF LoopGuard!Next
  <1>14. LoopInv'
    BY <1>13, <1>1, <1>3, <1>4, <1>6, <1>8, <1>10, <1>11, <1>12
  <1>15. \/ Keeps
         \/ \E a \in Agents, l \in LoopIds, n \in Amounts : LoopGuard!Tick(a, l, TRUE, n)
         \/ \E a \in Agents, l \in LoopIds : LoopGuard!Resume(a, l)
    BY <1>13, <1>1, <1>3, <1>4, <1>6, <1>8, <1>10, <1>12
  <1> QED BY <1>14, <1>15 DEF Keeps

LEMMA LoopKeeps ==
    ASSUME LoopInv, LoopGuard!Next
    PROVE  LoopGuard!ProgressClears /\ LoopGuard!ResumeOverrides /\ LoopGuard!SpendStays
  <1>0. /\ loop \in [LoopIds -> LoopGuard!Guard \cup {LoopGuard!NoLoop}]
        /\ loop' \in [LoopIds -> LoopGuard!Guard \cup {LoopGuard!NoLoop}]
    BY LoopActions DEF LoopInv, LoopGuard!TypeOK
  <1>1. ASSUME NEW l \in LoopIds, loop'[l] = loop[l] \/ loop'[l] = LoopGuard!NoLoop \/ Kept(loop[l], loop'[l])
        PROVE  /\ loop[l].status \notin {"absent", "stopped"} /\ loop'[l].status # "absent"
                     => loop'[l].streak >= loop[l].streak /\ loop'[l].spent >= loop[l].spent
               /\ loop[l].status = "stopped" /\ loop'[l].status = "armed" => loop'[l].spent = 0
               /\ loop'[l].status = "armed" /\ LoopGuard!Exhausted(loop'[l])
                     => /\ loop'[l].agent = loop[l].agent /\ loop'[l].status = loop[l].status
                        /\ loop'[l].streak = loop[l].streak /\ loop'[l].limit = loop[l].limit
    <2>1. CASE loop'[l] = loop[l]
      BY <1>0, <2>1 DEF LoopGuard!Guard, LoopGuard!NoLoop
    <2>2. CASE loop'[l] = LoopGuard!NoLoop
      BY <2>2 DEF LoopGuard!NoLoop
    <2>3. CASE Kept(loop[l], loop'[l])
      BY <2>3 DEF Kept
    <2> QED BY <1>1, <2>1, <2>2, <2>3
  <1>2. CASE \A l \in LoopIds : loop'[l] = loop[l] \/ loop'[l] = LoopGuard!NoLoop \/ Kept(loop[l], loop'[l])
    <2>1. LoopGuard!ProgressClears
      <3> SUFFICES ASSUME NEW l \in LoopIds, loop[l].status \notin {"absent", "stopped"}, loop'[l].status # "absent",
                          loop'[l].streak < loop[l].streak
                   PROVE  FALSE
        BY DEF LoopGuard!ProgressClears
      <3>1. loop[l].streak \in Nat /\ loop'[l].streak \in Nat
        BY <1>0 DEF LoopGuard!Guard, LoopGuard!NoLoop
      <3> QED BY <1>1, <1>2, <3>1
    <2>2. LoopGuard!SpendStays
      BY <1>1, <1>2 DEF LoopGuard!SpendStays
    <2>3. LoopGuard!ResumeOverrides
      BY <1>1, <1>2 DEF LoopGuard!ResumeOverrides
    <2> QED BY <2>1, <2>2, <2>3
  <1>3. ASSUME NEW a \in Agents, NEW l \in LoopIds, NEW n \in Amounts, LoopGuard!Tick(a, l, TRUE, n)
        PROVE  LoopGuard!ProgressClears /\ LoopGuard!ResumeOverrides /\ LoopGuard!SpendStays
    <2> DEFINE g == [LoopGuard!Spent(loop[l], n) EXCEPT !.streak = 0, !.status = "armed"]
    <2>1. loop' = [loop EXCEPT ![l] = g] /\ loop[l].status # "stopped" /\ n \in Nat /\ loop[l] \in LoopGuard!Guard
      BY <1>3, OwnedGuard, LoopsAssumption DEF LoopGuard!Tick, LoopGuard!Owns
    <2>2. LoopGuard!Spent(loop[l], n) \in LoopGuard!Guard /\ LoopGuard!Spent(loop[l], n).spent = loop[l].spent + n
      BY <2>1, GuardChanges DEF SameAgent
    <2>3. g.streak = 0 /\ g.limit \in Nat \ {0} /\ g.spent = loop[l].spent + n /\ loop[l].spent \in Nat
      BY <2>1, <2>2 DEF LoopGuard!Guard
    <2> HIDE DEF g
    <2>4. ~LoopGuard!Exhausted(loop'[l]) /\ loop'[l].spent >= loop[l].spent
      BY <1>0, <2>1, <2>3 DEF LoopGuard!Exhausted
    <2>5. \A k \in LoopIds : k # l => loop'[k] = loop[k]
      BY <1>0, <2>1
    <2>6. LoopGuard!ProgressClears
      <3> SUFFICES ASSUME NEW k \in LoopIds, k # l, loop[k].status \notin {"absent", "stopped"},
                          loop'[k].status # "absent", loop'[k].streak < loop[k].streak
                   PROVE  FALSE
        BY <1>3, Zenon DEF LoopGuard!ProgressClears
      <3>1. loop[k].streak \in Nat /\ loop'[k].streak \in Nat
        BY <1>0 DEF LoopGuard!Guard, LoopGuard!NoLoop
      <3> QED BY <1>1, <2>5, <3>1
    <2>7. LoopGuard!SpendStays
      BY <1>1, <2>1, <2>4, <2>5 DEF LoopGuard!SpendStays
    <2>8. LoopGuard!ResumeOverrides
      BY <1>1, <2>4, <2>5 DEF LoopGuard!ResumeOverrides
    <2> QED BY <2>6, <2>7, <2>8
  <1>4. ASSUME NEW a \in Agents, NEW l \in LoopIds, LoopGuard!Resume(a, l)
        PROVE  LoopGuard!ProgressClears /\ LoopGuard!ResumeOverrides /\ LoopGuard!SpendStays
    <2>1. loop' = [loop EXCEPT ![l].status = "armed"] /\ loop[l] \in LoopGuard!Guard /\ loop[l].status # "stopped"
      BY <1>4, OwnedGuard DEF LoopGuard!Resume, LoopGuard!Owns
    <2>2. loop'[l].streak = loop[l].streak /\ loop'[l].spent = loop[l].spent /\ loop[l].streak \in Nat /\ loop[l].spent \in Nat
      BY <1>0, <2>1 DEF LoopGuard!Guard
    <2>3. \A k \in LoopIds : k # l => loop'[k] = loop[k]
      BY <1>0, <2>1
    <2>4. LoopGuard!ProgressClears
      <3> SUFFICES ASSUME NEW k \in LoopIds, loop[k].status \notin {"absent", "stopped"}, loop'[k].status # "absent",
                          loop'[k].streak < loop[k].streak
                   PROVE  FALSE
        BY DEF LoopGuard!ProgressClears
      <3>1. loop[k].streak \in Nat /\ loop'[k].streak \in Nat
        BY <1>0 DEF LoopGuard!Guard, LoopGuard!NoLoop
      <3> QED BY <1>1, <2>2, <2>3, <3>1
    <2>5. LoopGuard!SpendStays
      BY <1>1, <2>1, <2>2, <2>3 DEF LoopGuard!SpendStays
    <2>6. LoopGuard!ResumeOverrides
      BY <1>1, <1>4, <2>3 DEF LoopGuard!ResumeOverrides
    <2> QED BY <2>4, <2>5, <2>6
  <1> QED BY <1>2, <1>3, <1>4, LoopActions

-----------------------------------------------------------------------------
(* Project roots.                                                          *)

\* The path of a call of project.open avoids the secrets from its check on.
OpeningsAvoid == \A a \in Agents : opening[a] # None => ProjectRoots!Avoids(opening[a], secrets)

RootsInv ==
    /\ ProjectRoots!TypeOK /\ ProjectRoots!RootsAreApart /\ ProjectRoots!RootsAreOwned
    /\ OpeningsAvoid

LEMMA RootsInit == ProjectRoots!Init => RootsInv
  <1> SUFFICES ASSUME ProjectRoots!Init PROVE RootsInv
    OBVIOUS
  <1>1. ProjectRoots!TypeOK
    BY RootsAssumption DEF ProjectRoots!Init, ProjectRoots!TypeOK
  <1>2. ProjectRoots!RootsAreApart /\ ProjectRoots!RootsAreOwned /\ OpeningsAvoid
    BY RootsAssumption DEF ProjectRoots!Init, ProjectRoots!RootsAreApart, ProjectRoots!RootsAreOwned,
         ProjectRoots!Registered, OpeningsAvoid
  <1> QED BY <1>1, <1>2 DEF RootsInv

LEMMA OpenedPath == RootsInv => ProjectRoots!AccessIsByOpenedPath
  BY RootsAssumption DEF RootsInv, ProjectRoots!TypeOK, ProjectRoots!RootsAreOwned, ProjectRoots!AccessIsByOpenedPath,
     ProjectRoots!MayUse, ProjectRoots!Owns, ProjectRoots!EntryAt, ProjectRoots!Registered,
     ProjectRoots!Root, ProjectRoots!Owner

LEMMA OverlapsAreMutual ==
    \A p, q : ProjectRoots!Overlap(p, q) <=> ProjectRoots!Overlap(q, p)
  BY DEF ProjectRoots!Overlap

\* Changing only what is granted on a root keeps the roots apart and owned.
LEMMA GrantsOnRoots ==
    ASSUME RootsInv, NEW i \in Inodes, roots[i] # None, NEW gs \in SUBSET Agents,
           roots' = [roots EXCEPT ![i].grants = gs],
           UNCHANGED <<live, dir, repo, secrets, rows, opening, signer, late, changes>>
    PROVE  RootsInv'
  <1> DEFINE r == [roots[i] EXCEPT !.grants = gs]
  <1>1. roots[i] \in ProjectRoots!Root /\ roots' = [roots EXCEPT ![i] = r]
    BY DEF RootsInv, ProjectRoots!TypeOK
  <1>2. r \in ProjectRoots!Root /\ r.real = roots[i].real /\ r.agent = roots[i].agent /\ r # None
    BY <1>1, RootsAssumption DEF ProjectRoots!Root
  <1> HIDE DEF r
  <1>3. /\ roots'[i] = r /\ \A j \in Inodes : j # i => roots'[j] = roots[j]
        /\ roots' \in [Inodes -> ProjectRoots!Root \cup {None}]
    BY <1>1, <1>2 DEF RootsInv, ProjectRoots!TypeOK
  <1>4. \A j \in Inodes : /\ roots'[j] = None <=> roots[j] = None
                          /\ roots[j] # None => roots'[j].real = roots[j].real /\ roots'[j].agent = roots[j].agent
    BY <1>2, <1>3
  <1>5. ProjectRoots!TypeOK'
    BY <1>3 DEF RootsInv, ProjectRoots!TypeOK
  <1>6. ProjectRoots!RootsAreApart'
    BY <1>4 DEF RootsInv, ProjectRoots!RootsAreApart, ProjectRoots!Registered
  <1>7. ProjectRoots!RootsAreOwned'
    BY <1>4 DEF RootsInv, ProjectRoots!RootsAreOwned, ProjectRoots!Registered
  <1> QED BY <1>5, <1>6, <1>7 DEF RootsInv, OpeningsAvoid

LEMMA RootRegistered ==
    ASSUME RootsInv, NEW a \in Agents, ProjectRoots!Register(a)
    PROVE  RootsInv'
  <1> DEFINE p == opening[a]
             i == dir[p]
             r == [real |-> p, agent |-> signer, grants |-> {}]
             o == [real |-> p, agent |-> signer]
  <1>1. /\ p \in Paths /\ ProjectRoots!Avoids(p, secrets) /\ signer \in Agents
        /\ opening' = [opening EXCEPT ![a] = None]
        /\ UNCHANGED <<live, dir, repo, secrets, signer, changes>>
    BY DEF RootsInv, ProjectRoots!TypeOK, ProjectRoots!Register, OpeningsAvoid
  <1>2. opening' \in [Agents -> Paths \cup {None}] /\ OpeningsAvoid'
    BY <1>1 DEF RootsInv, ProjectRoots!TypeOK, OpeningsAvoid
  <1>3. CASE UNCHANGED <<roots, rows, late>>
    BY <1>1, <1>2, <1>3 DEF RootsInv, ProjectRoots!TypeOK, ProjectRoots!RootsAreApart, ProjectRoots!RootsAreOwned,
       ProjectRoots!Registered
  <1>4. CASE ~UNCHANGED <<roots, rows, late>>
    <2>1. /\ i \in Inodes /\ ~ProjectRoots!Conflicts(p, signer)
          /\ roots' = [roots EXCEPT ![i] = r] /\ rows' = [rows EXCEPT ![i] = o]
          /\ late' \in SUBSET Agents /\ late \subseteq late' /\ signer \in live \cup late'
      BY <1>1, <1>4 DEF ProjectRoots!Register, RootsInv, ProjectRoots!TypeOK
    <2>2. r \in ProjectRoots!Root /\ o \in ProjectRoots!Owner /\ r.real = p /\ r.agent = signer
      BY <1>1 DEF ProjectRoots!Root, ProjectRoots!Owner
    <2>3. o = [real |-> r.real, agent |-> r.agent]
      OBVIOUS
    <2> HIDE DEF p, r, o, i
    <2>4. ProjectRoots!TypeOK'
      BY <1>1, <1>2, <2>1, <2>2 DEF RootsInv, ProjectRoots!TypeOK
    <2>5. /\ roots'[i] = r /\ rows'[i] = o
          /\ \A j \in Inodes : j # i => roots'[j] = roots[j] /\ rows'[j] = rows[j]
      BY <2>1 DEF RootsInv, ProjectRoots!TypeOK
    <2>6. ProjectRoots!RootsAreApart'
      <3>1. \A j \in Inodes : roots'[j] # None => ProjectRoots!Avoids(roots'[j].real, secrets)
        BY <1>1, <2>2, <2>5 DEF RootsInv, ProjectRoots!RootsAreApart, ProjectRoots!Registered
      <3>2. \A j \in Inodes : roots[j] # None /\ roots[j].agent # signer => ~ProjectRoots!Overlap(roots[j].real, p)
        BY <2>1 DEF ProjectRoots!Conflicts, ProjectRoots!Registered
      <3>3. ASSUME NEW j \in Inodes, NEW k \in Inodes, roots'[j] # None, roots'[k] # None, roots'[j].agent # roots'[k].agent
            PROVE  ~ProjectRoots!Overlap(roots'[j].real, roots'[k].real)
        <4>1. CASE j # i /\ k # i
          BY <2>5, <3>3, <4>1 DEF RootsInv, ProjectRoots!RootsAreApart, ProjectRoots!Registered
        <4>2. CASE j = i \/ k = i
          BY <2>2, <2>5, <3>2, <3>3, <4>2, OverlapsAreMutual
        <4> QED BY <4>1, <4>2
      <3> QED BY <1>1, <3>1, <3>3 DEF ProjectRoots!RootsAreApart, ProjectRoots!Registered
    <2>7. ProjectRoots!RootsAreOwned'
      BY <1>1, <2>1, <2>2, <2>3, <2>5, RootsAssumption DEF RootsInv, ProjectRoots!RootsAreOwned, ProjectRoots!Registered
    <2> QED BY <1>2, <2>4, <2>6, <2>7 DEF RootsInv
  <1> QED BY <1>3, <1>4

LEMMA RootsEvicted ==
    ASSUME RootsInv, NEW a \in Agents, ProjectRoots!EndSession(a)
    PROVE  RootsInv'
  <1>1. /\ live' = live \ {a} /\ late' = late \ {a}
        /\ UNCHANGED <<dir, repo, secrets, opening, signer, changes>>
    BY DEF ProjectRoots!EndSession, ProjectRoots!EvictRoots
  <1>2. ASSUME NEW i \in Inodes
        PROVE  /\ roots[i] = None \/ roots[i].agent = a => roots'[i] = None /\ rows'[i] = None
               /\ roots[i] # None /\ roots[i].agent # a =>
                     /\ roots'[i] \in ProjectRoots!Root /\ roots'[i].real = roots[i].real
                     /\ roots'[i].agent = roots[i].agent /\ rows'[i] = rows[i]
    <2>1. /\ roots'[i] = IF roots[i] = None \/ roots[i].agent = a THEN None
                         ELSE [roots[i] EXCEPT !.grants = roots[i].grants \ {a}]
          /\ rows'[i] = IF rows[i] # None /\ rows[i].agent = a THEN None ELSE rows[i]
      BY DEF ProjectRoots!EndSession, ProjectRoots!EvictRoots, ProjectRoots!Registered
    <2>2. IF roots[i] = None THEN rows[i] = None ELSE rows[i] = [real |-> roots[i].real, agent |-> roots[i].agent]
      BY DEF RootsInv, ProjectRoots!RootsAreOwned
    <2>3. roots[i] = None \/ roots[i] \in ProjectRoots!Root
      BY DEF RootsInv, ProjectRoots!TypeOK
    <2> QED BY <2>1, <2>2, <2>3, RootsAssumption DEF ProjectRoots!Root, ProjectRoots!Owner
  <1>3. ProjectRoots!TypeOK'
    <2>1. DOMAIN roots' = Inodes /\ DOMAIN rows' = Inodes
          /\ roots' = [i \in Inodes |-> roots'[i]] /\ rows' = [i \in Inodes |-> rows'[i]]
      BY DEF ProjectRoots!EndSession, ProjectRoots!EvictRoots
    <2>2. \A i \in Inodes : roots'[i] \in ProjectRoots!Root \cup {None} /\ rows'[i] \in ProjectRoots!Owner \cup {None}
      BY <1>2 DEF RootsInv, ProjectRoots!TypeOK
    <2> QED BY <1>1, <2>1, <2>2 DEF RootsInv, ProjectRoots!TypeOK
  <1>4. ProjectRoots!RootsAreApart' /\ ProjectRoots!RootsAreOwned'
    BY <1>1, <1>2, RootsAssumption DEF RootsInv, ProjectRoots!RootsAreApart, ProjectRoots!RootsAreOwned, ProjectRoots!Registered
  <1> QED BY <1>1, <1>3, <1>4 DEF RootsInv, OpeningsAvoid

LEMMA RootsRestored ==
    ASSUME RootsInv, ProjectRoots!RestartRoots
    PROVE  RootsInv'
  <1>1. /\ secrets' \subseteq MaxSecrets /\ opening' = [a \in Agents |-> None] /\ late' = {}
        /\ UNCHANGED <<live, dir, repo, signer, changes>>
    BY DEF ProjectRoots!RestartRoots
  <1>2. ASSUME NEW i \in Inodes
        PROVE  /\ rows'[i] = None => roots'[i] = None
               /\ rows'[i] # None =>
                     /\ rows'[i] = rows[i] /\ rows[i] = [real |-> roots[i].real, agent |-> roots[i].agent] /\ roots[i] # None
                     /\ roots'[i] \in ProjectRoots!Root /\ roots'[i].real = roots[i].real
                     /\ roots'[i].agent = roots[i].agent /\ roots[i].agent \in live
                     /\ ProjectRoots!Avoids(roots[i].real, secrets')
    <2>1. /\ rows'[i] = IF rows[i] # None /\ ProjectRoots!Restorable(rows[i], secrets') THEN rows[i] ELSE None
          /\ roots'[i] = IF rows'[i] = None THEN None
                         ELSE [real |-> rows[i].real, agent |-> rows[i].agent, grants |-> {}]
      BY DEF ProjectRoots!RestartRoots
    <2>2. IF roots[i] = None THEN rows[i] = None ELSE rows[i] = [real |-> roots[i].real, agent |-> roots[i].agent]
      BY DEF RootsInv, ProjectRoots!RootsAreOwned
    <2>3. roots[i] = None \/ roots[i] \in ProjectRoots!Root
      BY DEF RootsInv, ProjectRoots!TypeOK
    <2> QED BY <2>1, <2>2, <2>3 DEF ProjectRoots!Root, ProjectRoots!Restorable
  <1>3. ProjectRoots!TypeOK'
    <2>1. roots' = [i \in Inodes |-> roots'[i]] /\ rows' = [i \in Inodes |-> rows'[i]]
      BY DEF ProjectRoots!RestartRoots
    <2>2. \A i \in Inodes : roots'[i] \in ProjectRoots!Root \cup {None} /\ rows'[i] \in ProjectRoots!Owner \cup {None}
      BY <1>2 DEF RootsInv, ProjectRoots!TypeOK
    <2> QED BY <1>1, <2>1, <2>2 DEF RootsInv, ProjectRoots!TypeOK
  <1>4. ProjectRoots!RootsAreApart'
    BY <1>2 DEF RootsInv, ProjectRoots!RootsAreApart, ProjectRoots!Registered
  <1>5. ProjectRoots!RootsAreOwned'
    BY <1>1, <1>2, RootsAssumption DEF ProjectRoots!RootsAreOwned, ProjectRoots!Registered, ProjectRoots!Root
  <1> QED BY <1>1, <1>3, <1>4, <1>5 DEF RootsInv, OpeningsAvoid

LEMMA RootsStep == RootsInv /\ ProjectRoots!Next => RootsInv'
  <1> SUFFICES ASSUME RootsInv, ProjectRoots!Next PROVE RootsInv'
    OBVIOUS
  <1>1. ASSUME ProjectRoots!FileSystem PROVE RootsInv'
    <2>0. /\ UNCHANGED <<live, secrets, roots, rows, opening, signer, late>>
          /\ changes \in 0 .. MaxChanges /\ changes < MaxChanges /\ changes' = changes + 1
          /\ dir \in [Paths -> Inodes \cup {None}] /\ repo \subseteq Inodes
      BY <1>1 DEF ProjectRoots!FileSystem, RootsInv, ProjectRoots!TypeOK
    <2> DEFINE Entries == dir' \in [Paths -> Inodes \cup {None}] /\ repo' \subseteq Inodes
    <2>1. Entries
      <3>1. ASSUME NEW p \in Paths, NEW q \in Paths, ProjectRoots!Move(p, q) PROVE Entries
        BY <2>0, <3>1 DEF ProjectRoots!Move
      <3>2. ASSUME NEW p \in Paths, NEW i \in Inodes, ProjectRoots!Make(p, i) PROVE Entries
        BY <2>0, <3>2 DEF ProjectRoots!Make
      <3>3. ASSUME NEW p \in Paths, ProjectRoots!Delete(p) PROVE Entries
        BY <2>0, <3>3 DEF ProjectRoots!Delete
      <3>4. ASSUME NEW i \in Inodes, ProjectRoots!Reconfigure(i) PROVE Entries
        BY <2>0, <3>4 DEF ProjectRoots!Reconfigure
      <3> QED BY <1>1, <3>1, <3>2, <3>3, <3>4 DEF ProjectRoots!FileSystem
    <2> QED BY <2>0, <2>1, RootsAssumption
        DEF RootsInv, ProjectRoots!TypeOK, ProjectRoots!RootsAreApart, ProjectRoots!RootsAreOwned, ProjectRoots!Registered,
            OpeningsAvoid
  <1>2. ASSUME NEW a \in Agents, NEW p \in Paths, ProjectRoots!CheckRoot(a, p) PROVE RootsInv'
    <2>1. /\ opening' = [opening EXCEPT ![a] = p] /\ signer' = a /\ ProjectRoots!Avoids(p, secrets)
          /\ UNCHANGED <<live, dir, repo, secrets, roots, rows, late, changes>>
      BY <1>2 DEF ProjectRoots!CheckRoot
    <2> QED BY <2>1
        DEF RootsInv, ProjectRoots!TypeOK, ProjectRoots!RootsAreApart, ProjectRoots!RootsAreOwned, ProjectRoots!Registered,
            OpeningsAvoid
  <1>3. ASSUME NEW a \in Agents, NEW b \in Agents, NEW p \in Paths, ProjectRoots!Grant(a, p, b) \/ ProjectRoots!Revoke(a, p, b)
        PROVE  RootsInv'
    <2> DEFINE i == dir[p]
    <2>1. i \in Inodes /\ roots[i] # None /\ roots[i] \in ProjectRoots!Root
      BY <1>3 DEF RootsInv, ProjectRoots!TypeOK, ProjectRoots!Grant, ProjectRoots!Revoke, ProjectRoots!Owns,
           ProjectRoots!EntryAt, ProjectRoots!Registered
    <2>2. roots[i].grants \subseteq Agents
      BY <2>1 DEF ProjectRoots!Root
    <2>3. PICK gs \in SUBSET Agents : roots' = [roots EXCEPT ![i].grants = gs]
      BY <1>3, <2>2 DEF ProjectRoots!Grant, ProjectRoots!Revoke
    <2>4. UNCHANGED <<live, dir, repo, secrets, rows, opening, signer, late, changes>>
      BY <1>3 DEF ProjectRoots!Grant, ProjectRoots!Revoke
    <2> HIDE DEF i
    <2> QED BY <2>1, <2>3, <2>4, GrantsOnRoots
  <1>4. ASSUME NEW a \in Agents, ProjectRoots!BeginSession(a) PROVE RootsInv'
    <2>1. /\ live' = live \cup {a} /\ late' = late \ {a}
          /\ UNCHANGED <<dir, repo, secrets, roots, rows, opening, signer, changes>>
      BY <1>4 DEF ProjectRoots!BeginSession
    <2> QED BY <2>1
        DEF RootsInv, ProjectRoots!TypeOK, ProjectRoots!RootsAreApart, ProjectRoots!RootsAreOwned, ProjectRoots!Registered,
            OpeningsAvoid
  <1> QED BY <1>1, <1>2, <1>3, <1>4, RootRegistered, RootsEvicted, RootsRestored DEF ProjectRoots!Next, ProjectRoots!OwnNext

-----------------------------------------------------------------------------
(* Files and worktrees.                                                    *)

\* A call that will write or delete was let through for a place inside of the root, and what
\* it writes stands in that place.
FileCallsAreChecked ==
    \A c \in Calls : calls[c] \in Files!FileCall /\ calls[c].op # "read" =>
        calls[c].place = "in" /\ (calls[c].op = "write" => Parent[calls[c].name] = "in")

\* An agent holds the worktree its row names, until git has removed it, and the one that git
\* has added and no row names yet.
IsTree(e, a, ops) == e \in Files!TreeCall /\ e.agent = a /\ e.op \in ops
Removed(a, cs) == \E c \in Calls : IsTree(cs[c], a, {"removed"})
Added(a, b, cs) == \E c \in Calls : IsTree(cs[c], a, {"created"}) /\ cs[c].branch = b
ActiveRow(b) == [branch |-> b, status |-> "active"]
Holds(a, b, cs, wt) == \/ wt[a] = ActiveRow(b) /\ ~Removed(a, cs)
                       \/ Added(a, b, cs)
TreesAreHeld(cs, wt, di) ==
    /\ \A c, d \in Calls : cs[c] \in Files!TreeCall /\ cs[d] \in Files!TreeCall /\ cs[c].agent = cs[d].agent => c = d
    /\ \A c \in Calls, a \in Agents : IsTree(cs[c], a, {"remove", "removed"}) => wt[a] = ActiveRow(cs[c].branch)
    /\ \A a \in Agents, b \in Branches : Holds(a, b, cs, wt) => b \in di
    /\ \A a, o \in Agents, b \in Branches : Holds(a, b, cs, wt) /\ Holds(o, b, cs, wt) => a = o

\* A removal is of a worktree that was recorded, and rows are never deleted.
RemovalsHaveRows ==
    \A c \in Calls : calls[c] \in Files!TreeCall /\ calls[c].op \in {"remove", "removed"} => worktrees[calls[c].agent] # None

FilesInv ==
    /\ Files!TypeOK /\ FileCallsAreChecked /\ Files!FileCallsStayInside /\ RemovalsHaveRows
    /\ ~unsure => TreesAreHeld(calls, worktrees, disk)

LEMMA KindsOfCall ==
    \A e : ~(e \in Files!FileCall /\ e \in Files!TreeCall) /\ ~(e = None /\ (e \in Files!FileCall \/ e \in Files!TreeCall))
  BY FilesAssumption DEF Files!FileCall, Files!TreeCall

LEMMA FilesInit == Files!Init => FilesInv
  <1> SUFFICES ASSUME Files!Init PROVE FilesInv
    OBVIOUS
  <1>1. unsure \in BOOLEAN
    BY Zenon DEF Files!Init
  <1>2. Files!TypeOK
    BY <1>1, FilesAssumption DEF Files!Init, Files!TypeOK
  <1>3. FileCallsAreChecked /\ Files!FileCallsStayInside /\ RemovalsHaveRows
    BY KindsOfCall DEF Files!Init, FileCallsAreChecked, Files!FileCallsStayInside, RemovalsHaveRows
  <1>4. /\ \A c \in Calls : calls[c] = None
        /\ \A a \in Agents : worktrees[a] = None
    BY DEF Files!Init
  <1>5. \A b \in Branches : ActiveRow(b) # None
    BY FilesAssumption DEF ActiveRow
  <1>6. TreesAreHeld(calls, worktrees, disk)
    BY <1>4, <1>5, FilesAssumption DEF TreesAreHeld, IsTree, Holds, Added
  <1> QED BY <1>2, <1>3, <1>6 DEF FilesInv

LEMMA FilesHold == FilesInv => Files!TypeOK /\ Files!FileCallsStayInside /\ Files!WorktreesAreReal
  <1> SUFFICES ASSUME FilesInv PROVE Files!WorktreesAreReal
    BY DEF FilesInv
  <1> SUFFICES ASSUME NEW a \in Agents, ~unsure, worktrees[a] # None, worktrees[a].status = "active"
               PROVE  worktrees[a].branch \in disk \/ Files!Busy(a)
    BY DEF Files!WorktreesAreReal
  <1>1. worktrees[a] = ActiveRow(worktrees[a].branch) /\ worktrees[a].branch \in Branches
    BY DEF FilesInv, Files!TypeOK, ActiveRow
  <1>2. CASE Removed(a, calls)
    BY <1>2 DEF Removed, IsTree, Files!Busy
  <1>3. CASE ~Removed(a, calls)
    BY <1>1, <1>3 DEF FilesInv, TreesAreHeld, Holds
  <1> QED BY <1>2, <1>3

\* Steps of file.* leave every worktree call as it is.
LEMMA TreesUntouched ==
    ASSUME NEW cs, NEW ds, NEW wt, NEW di, TreesAreHeld(cs, wt, di),
           \A c \in Calls : ds[c] = cs[c] \/ (ds[c] \notin Files!TreeCall /\ cs[c] \notin Files!TreeCall)
    PROVE  TreesAreHeld(ds, wt, di)
  <1>1. \A c \in Calls, a \in Agents : \A ops : IsTree(ds[c], a, ops) => IsTree(cs[c], a, ops) /\ ds[c] = cs[c]
    BY DEF IsTree
  <1>2. \A c \in Calls, a \in Agents : \A ops : IsTree(cs[c], a, ops) => IsTree(ds[c], a, ops) /\ ds[c] = cs[c]
    BY DEF IsTree
  <1>3. \A a \in Agents : Removed(a, ds) <=> Removed(a, cs)
    BY <1>1, <1>2 DEF Removed
  <1>4. \A a \in Agents, b \in Branches : Added(a, b, ds) <=> Added(a, b, cs)
    BY <1>1, <1>2 DEF Added
  <1>5. \A a \in Agents, b \in Branches : Holds(a, b, ds, wt) <=> Holds(a, b, cs, wt)
    BY <1>3, <1>4 DEF Holds
  <1>6. \A c, d \in Calls : ds[c] \in Files!TreeCall /\ ds[d] \in Files!TreeCall /\ ds[c].agent = ds[d].agent => c = d
    BY DEF TreesAreHeld
  <1>7. \A c \in Calls, a \in Agents : IsTree(ds[c], a, {"remove", "removed"}) => wt[a] = ActiveRow(ds[c].branch)
    BY <1>1 DEF TreesAreHeld
  <1>8. \A a \in Agents, b \in Branches : Holds(a, b, ds, wt) => b \in di
    BY <1>5 DEF TreesAreHeld
  <1>9. \A a, o \in Agents, b \in Branches : Holds(a, b, ds, wt) /\ Holds(o, b, ds, wt) => a = o
    BY <1>5 DEF TreesAreHeld
  <1> QED BY <1>6, <1>7, <1>8, <1>9 DEF TreesAreHeld

LEMMA FilesStep == FilesInv /\ Files!FileNext => FilesInv'
  <1> SUFFICES ASSUME FilesInv, Files!FileNext PROVE FilesInv'
    OBVIOUS
  <1>1. ASSUME NEW c \in Calls, NEW e \in Files!FileCall \cup {None}, calls' = [calls EXCEPT ![c] = e],
               calls[c] \notin Files!TreeCall, UNCHANGED Files!TreeVars,
               leaf' \in [Names -> {"absent", "file", "link"}], touched' \subseteq {"in"},
               e \in Files!FileCall /\ e.op # "read" => e.place = "in" /\ (e.op = "write" => Parent[e.name] = "in")
        PROVE  FilesInv'
    <2>1. /\ calls' \in [Calls -> Files!FileCall \cup Files!TreeCall \cup {None}]
          /\ calls'[c] = e /\ \A d \in Calls : d # c => calls'[d] = calls[d]
          /\ UNCHANGED <<branches, disk, worktrees>> /\ (unsure' <=> unsure)
      BY <1>1 DEF FilesInv, Files!TypeOK, Files!TreeVars
    <2>2. unsure' \in BOOLEAN
      BY <1>1, Zenon DEF FilesInv, Files!TypeOK, Files!TreeVars
    <2>3. Files!TypeOK' /\ FileCallsAreChecked' /\ Files!FileCallsStayInside'
      BY <1>1, <2>1, <2>2 DEF FilesInv, Files!TypeOK, FileCallsAreChecked, Files!FileCallsStayInside, Files!Places
    <2>0. e \notin Files!TreeCall
      BY <1>1, KindsOfCall
    <2>5. RemovalsHaveRows'
      BY <2>0, <2>1 DEF FilesInv, RemovalsHaveRows
    <2>4. ~unsure => TreesAreHeld(calls', worktrees, disk)
      <3>1. \A d \in Calls : calls'[d] = calls[d] \/ (calls'[d] \notin Files!TreeCall /\ calls[d] \notin Files!TreeCall)
        BY <1>1, <2>0, <2>1
      <3>2. ~unsure => TreesAreHeld(calls, worktrees, disk)
        BY DEF FilesInv
      <3> QED BY <3>1, <3>2, TreesUntouched
    <2> QED BY <2>1, <2>3, <2>4, <2>5 DEF FilesInv
  <1>2. ASSUME NEW c \in Calls, NEW op \in {"read", "write", "delete"}, NEW n \in Names, Files!CheckPath(c, op, n)
        PROVE  FilesInv'
    <2> DEFINE e == [op |-> op, place |-> Files!Resolved(op, n), name |-> n]
    <2>1. /\ calls' = [calls EXCEPT ![c] = e] /\ calls[c] \notin Files!TreeCall
          /\ UNCHANGED <<leaf, touched, Files!TreeVars>>
          /\ Files!Resolved(op, n) \in {"in", "git"} /\ (op # "read" => Files!Resolved(op, n) = "in")
      BY <1>2, KindsOfCall DEF Files!CheckPath, Files!Confined, Files!AllowsPlace
    <2>2. e \in Files!FileCall /\ e.op = op /\ e.place = Files!Resolved(op, n) /\ e.name = n
      BY <2>1 DEF Files!FileCall, Files!Places
    <2>3. op = "write" => Parent[n] = "in"
      BY <2>1 DEF Files!Resolved
    <2> HIDE DEF e
    <2> QED BY <1>1, <2>1, <2>2, <2>3 DEF FilesInv, Files!TypeOK, Files!FileCallsStayInside
  <1>3. ASSUME NEW c \in Calls, Files!RefuseFile(c) \/ Files!ReadFile(c) PROVE FilesInv'
    BY <1>1, <1>3, KindsOfCall DEF Files!RefuseFile, Files!ReadFile, FilesInv, Files!TypeOK, Files!FileCallsStayInside
  <1>4. ASSUME NEW c \in Calls, Files!WriteFile(c) PROVE FilesInv'
    <2>1. /\ calls' = [calls EXCEPT ![c] = None] /\ UNCHANGED Files!TreeVars /\ calls[c] \in Files!FileCall
          /\ touched' \subseteq {"in"}
      BY <1>4 DEF Files!WriteFile, Files!Lands, FilesInv, FileCallsAreChecked, Files!FileCallsStayInside
    <2>2. leaf' \in [Names -> {"absent", "file", "link"}]
      BY <1>4 DEF Files!WriteFile, FilesInv, Files!TypeOK
    <2> QED BY <1>1, <2>1, <2>2, KindsOfCall
  <1>5. ASSUME NEW c \in Calls, Files!DeleteFile(c) PROVE FilesInv'
    <2>1. /\ calls' = [calls EXCEPT ![c] = None] /\ UNCHANGED Files!TreeVars /\ calls[c] \in Files!FileCall
          /\ touched' \subseteq {"in"}
      BY <1>5 DEF Files!DeleteFile, FilesInv, FileCallsAreChecked, Files!FileCallsStayInside
    <2>2. leaf' \in [Names -> {"absent", "file", "link"}]
      BY <1>5 DEF Files!DeleteFile, FilesInv, Files!TypeOK
    <2> QED BY <1>1, <2>1, <2>2, KindsOfCall
  <1>6. ASSUME NEW n \in Names, Files!Swap(n) PROVE FilesInv'
    <2>1. leaf' \in [Names -> {"absent", "file", "link"}] /\ UNCHANGED <<calls, touched, branches, disk, worktrees>>
          /\ (unsure' <=> unsure)
      BY <1>6 DEF Files!Swap, FilesInv, Files!TypeOK, Files!TreeVars
    <2>2. unsure' \in BOOLEAN
      BY <1>6, Zenon DEF Files!Swap, FilesInv, Files!TypeOK, Files!TreeVars
    <2>3. Files!TypeOK' /\ FileCallsAreChecked' /\ Files!FileCallsStayInside'
      BY <2>1, <2>2 DEF FilesInv, Files!TypeOK, FileCallsAreChecked, Files!FileCallsStayInside
    <2>4. ~unsure => TreesAreHeld(calls, worktrees, disk)
      BY DEF FilesInv
    <2> QED BY <2>1, <2>3, <2>4 DEF FilesInv, RemovalsHaveRows
  <1> QED BY <1>2, <1>3, <1>4, <1>5, <1>6 DEF Files!FileNext

\* A worktree call enters, moves or leaves without anything changing hands.
Quiet(e) == e \in Files!TreeCall => e.op \notin {"created", "removed"}

LEMMA QuietMoves ==
    ASSUME NEW cs, NEW ds, NEW wt, NEW di, NEW c \in Calls, TreesAreHeld(cs, wt, di),
           \A d \in Calls : d # c => ds[d] = cs[d],
           Quiet(cs[c]), Quiet(ds[c]),
           \A d \in Calls : ds[c] \in Files!TreeCall /\ cs[d] \in Files!TreeCall /\ cs[d].agent = ds[c].agent => c = d,
           \A a \in Agents : IsTree(ds[c], a, {"remove"}) => wt[a] = ActiveRow(ds[c].branch)
    PROVE  TreesAreHeld(ds, wt, di)
  <1>1. \A a \in Agents : Removed(a, ds) <=> Removed(a, cs)
    BY DEF Removed, IsTree, Quiet
  <1>2. \A a \in Agents, b \in Branches : Added(a, b, ds) <=> Added(a, b, cs)
    BY DEF Added, IsTree, Quiet
  <1>3. \A a \in Agents, b \in Branches : Holds(a, b, ds, wt) <=> Holds(a, b, cs, wt)
    BY <1>1, <1>2 DEF Holds
  <1>4. \A d, e \in Calls : ds[d] \in Files!TreeCall /\ ds[e] \in Files!TreeCall /\ ds[d].agent = ds[e].agent => d = e
    BY DEF TreesAreHeld
  <1>5. \A d \in Calls, a \in Agents : IsTree(ds[d], a, {"remove", "removed"}) => wt[a] = ActiveRow(ds[d].branch)
    <2> SUFFICES ASSUME NEW d \in Calls, NEW a \in Agents, IsTree(ds[d], a, {"remove", "removed"})
                 PROVE  wt[a] = ActiveRow(ds[d].branch)
      OBVIOUS
    <2>1. CASE d = c
      BY <2>1 DEF IsTree, Quiet
    <2>2. CASE d # c
      BY <2>2 DEF TreesAreHeld
    <2> QED BY <2>1, <2>2
  <1>6. \A a \in Agents, b \in Branches : Holds(a, b, ds, wt) => b \in di
    BY <1>3 DEF TreesAreHeld
  <1>7. \A a, o \in Agents, b \in Branches : Holds(a, b, ds, wt) /\ Holds(o, b, ds, wt) => a = o
    BY <1>3 DEF TreesAreHeld
  <1> QED BY <1>4, <1>5, <1>6, <1>7 DEF TreesAreHeld

\* git adds the worktree of a branch it did not have: nobody held it.
LEMMA WorktreeAdded ==
    ASSUME NEW cs, NEW ds, NEW wt, NEW di, NEW c \in Calls, NEW a \in Agents, NEW b \in Branches,
           TreesAreHeld(cs, wt, di), b \notin di,
           cs[c] = [op |-> "create", agent |-> a, branch |-> b],
           ds[c] = [op |-> "created", agent |-> a, branch |-> b],
           \A d \in Calls : d # c => ds[d] = cs[d]
    PROVE  TreesAreHeld(ds, wt, di \cup {b})
  <1>0. cs[c] \in Files!TreeCall /\ ds[c] \in Files!TreeCall
    BY DEF Files!TreeCall
  <1>1. \A x \in Agents : Removed(x, ds) <=> Removed(x, cs)
    BY DEF Removed, IsTree
  <1>2. \A x \in Agents, y \in Branches : Added(x, y, ds) <=> Added(x, y, cs) \/ (x = a /\ y = b)
    BY <1>0 DEF Added, IsTree
  <1>3. \A x \in Agents, y \in Branches : Holds(x, y, ds, wt) <=> Holds(x, y, cs, wt) \/ (x = a /\ y = b)
    BY <1>1, <1>2 DEF Holds
  <1>4. \A d, e \in Calls : ds[d] \in Files!TreeCall /\ ds[e] \in Files!TreeCall /\ ds[d].agent = ds[e].agent => d = e
    BY <1>0 DEF TreesAreHeld
  <1>5. \A d \in Calls, x \in Agents : IsTree(ds[d], x, {"remove", "removed"}) => wt[x] = ActiveRow(ds[d].branch)
    BY DEF TreesAreHeld, IsTree
  <1>6. \A x \in Agents, y \in Branches : Holds(x, y, ds, wt) => y \in di \cup {b}
    BY <1>3 DEF TreesAreHeld
  <1>7. \A x, o \in Agents, y \in Branches : Holds(x, y, ds, wt) /\ Holds(o, y, ds, wt) => x = o
    BY <1>3 DEF TreesAreHeld
  <1> QED BY <1>4, <1>5, <1>6, <1>7 DEF TreesAreHeld

\* The row takes over what git has added.
LEMMA WorktreeRecorded ==
    ASSUME NEW cs, NEW ds, NEW wt, NEW xt, NEW di, NEW c \in Calls, NEW a \in Agents, NEW b \in Branches,
           TreesAreHeld(cs, wt, di),
           cs[c] = [op |-> "created", agent |-> a, branch |-> b],
           ds[c] \notin Files!TreeCall,
           \A d \in Calls : d # c => ds[d] = cs[d],
           xt[a] = ActiveRow(b), \A x \in Agents : x # a => xt[x] = wt[x]
    PROVE  TreesAreHeld(ds, xt, di)
  <1>0. cs[c] \in Files!TreeCall /\ IsTree(cs[c], a, {"created"})
    BY DEF Files!TreeCall, IsTree
  <1>1. \A d \in Calls : ds[d] \in Files!TreeCall => d # c /\ cs[d] = ds[d] /\ ds[d].agent # a
    BY <1>0 DEF TreesAreHeld
  <1>2. \A x \in Agents, y \in Branches : Holds(x, y, ds, xt) => Holds(x, y, cs, wt)
    <2> SUFFICES ASSUME NEW x \in Agents, NEW y \in Branches, Holds(x, y, ds, xt) PROVE Holds(x, y, cs, wt)
      OBVIOUS
    <2>1. CASE x = a
      <3>1. ~Added(a, y, ds)
        BY <1>1 DEF Added, IsTree
      <3>2. y = b
        BY <2>1, <3>1 DEF Holds, ActiveRow
      <3> QED BY <1>0, <2>1, <3>2 DEF Holds, Added
    <2>2. CASE x # a
      <3>1. Removed(x, cs) => Removed(x, ds)
        BY <2>2 DEF Removed, IsTree
      <3>2. Added(x, y, ds) => Added(x, y, cs)
        BY <1>1, <2>2 DEF Added, IsTree
      <3> QED BY <2>2, <3>1, <3>2 DEF Holds
    <2> QED BY <2>1, <2>2
  <1>3. \A d, e \in Calls : ds[d] \in Files!TreeCall /\ ds[e] \in Files!TreeCall /\ ds[d].agent = ds[e].agent => d = e
    BY <1>1 DEF TreesAreHeld
  <1>4. \A d \in Calls, x \in Agents : IsTree(ds[d], x, {"remove", "removed"}) => xt[x] = ActiveRow(ds[d].branch)
    BY <1>1 DEF TreesAreHeld, IsTree
  <1>5. \A x \in Agents, y \in Branches : Holds(x, y, ds, xt) => y \in di
    BY <1>2 DEF TreesAreHeld
  <1>6. \A x, o \in Agents, y \in Branches : Holds(x, y, ds, xt) /\ Holds(o, y, ds, xt) => x = o
    BY <1>2 DEF TreesAreHeld
  <1> QED BY <1>3, <1>4, <1>5, <1>6 DEF TreesAreHeld

\* Once git has removed the worktree, its agent holds it no longer, and nobody else did.
LEMMA WorktreeRemoved ==
    ASSUME NEW cs, NEW ds, NEW wt, NEW di, NEW c \in Calls, NEW a \in Agents, NEW b \in Branches,
           TreesAreHeld(cs, wt, di),
           cs[c] = [op |-> "remove", agent |-> a, branch |-> b],
           ds[c] = [op |-> "removed", agent |-> a, branch |-> b],
           \A d \in Calls : d # c => ds[d] = cs[d]
    PROVE  TreesAreHeld(ds, wt, di \ {b})
  <1>0. /\ cs[c] \in Files!TreeCall /\ ds[c] \in Files!TreeCall
        /\ IsTree(ds[c], a, {"removed"}) /\ IsTree(cs[c], a, {"remove"})
    BY DEF Files!TreeCall, IsTree
  <1>1. \A d \in Calls : cs[d] \in Files!TreeCall /\ cs[d].agent = a => d = c
    BY <1>0 DEF TreesAreHeld
  <1>2. wt[a] = ActiveRow(b) /\ Holds(a, b, cs, wt)
    <2>1. wt[a] = ActiveRow(b)
      BY <1>0 DEF TreesAreHeld, IsTree
    <2>2. ~Removed(a, cs)
      BY <1>1 DEF Removed, IsTree
    <2> QED BY <2>1, <2>2 DEF Holds
  <1>3. \A x \in Agents, y \in Branches : Holds(x, y, ds, wt) => Holds(x, y, cs, wt) /\ x # a
    <2> SUFFICES ASSUME NEW x \in Agents, NEW y \in Branches, Holds(x, y, ds, wt) PROVE Holds(x, y, cs, wt) /\ x # a
      OBVIOUS
    <2>1. x # a
      <3>1. Removed(a, ds)
        BY <1>0 DEF Removed
      <3>2. ~Added(a, y, ds)
        BY <1>1 DEF Added, IsTree
      <3> QED BY <3>1, <3>2 DEF Holds
    <2>2. Removed(x, cs) => Removed(x, ds)
      BY <2>1 DEF Removed, IsTree
    <2>3. Added(x, y, ds) => Added(x, y, cs)
      BY <2>1 DEF Added, IsTree
    <2> QED BY <2>1, <2>2, <2>3 DEF Holds
  <1>4. \A d, e \in Calls : ds[d] \in Files!TreeCall /\ ds[e] \in Files!TreeCall /\ ds[d].agent = ds[e].agent => d = e
    BY <1>0 DEF TreesAreHeld
  <1>5. \A d \in Calls, x \in Agents : IsTree(ds[d], x, {"remove", "removed"}) => wt[x] = ActiveRow(ds[d].branch)
    BY <1>2 DEF TreesAreHeld, IsTree
  <1>6. \A x \in Agents, y \in Branches : Holds(x, y, ds, wt) => y \in di \ {b}
    BY <1>2, <1>3 DEF TreesAreHeld
  <1>7. \A x, o \in Agents, y \in Branches : Holds(x, y, ds, wt) /\ Holds(o, y, ds, wt) => x = o
    BY <1>3 DEF TreesAreHeld
  <1> QED BY <1>4, <1>5, <1>6, <1>7 DEF TreesAreHeld

\* The row of a worktree that was removed names it no longer.
LEMMA RemovalRecorded ==
    ASSUME NEW cs, NEW ds, NEW wt, NEW xt, NEW di, NEW c \in Calls, NEW a \in Agents,
           TreesAreHeld(cs, wt, di),
           cs[c] \in Files!TreeCall, cs[c].agent = a,
           ds[c] \notin Files!TreeCall,
           \A d \in Calls : d # c => ds[d] = cs[d],
           \A b \in Branches : xt[a] # ActiveRow(b), \A x \in Agents : x # a => xt[x] = wt[x]
    PROVE  TreesAreHeld(ds, xt, di)
  <1>1. \A d \in Calls : ds[d] \in Files!TreeCall => d # c /\ cs[d] = ds[d] /\ ds[d].agent # a
    BY DEF TreesAreHeld
  <1>2. \A x \in Agents, y \in Branches : Holds(x, y, ds, xt) => Holds(x, y, cs, wt)
    <2> SUFFICES ASSUME NEW x \in Agents, NEW y \in Branches, Holds(x, y, ds, xt) PROVE Holds(x, y, cs, wt)
      OBVIOUS
    <2>1. x # a
      <3>1. ~Added(a, y, ds)
        BY <1>1 DEF Added, IsTree
      <3> QED BY <3>1 DEF Holds
    <2>2. Removed(x, cs) => Removed(x, ds)
      BY <2>1 DEF Removed, IsTree
    <2>3. Added(x, y, ds) => Added(x, y, cs)
      BY <1>1 DEF Added, IsTree
    <2> QED BY <2>1, <2>2, <2>3 DEF Holds
  <1>3. \A d, e \in Calls : ds[d] \in Files!TreeCall /\ ds[e] \in Files!TreeCall /\ ds[d].agent = ds[e].agent => d = e
    BY <1>1 DEF TreesAreHeld
  <1>4. \A d \in Calls, x \in Agents : IsTree(ds[d], x, {"remove", "removed"}) => xt[x] = ActiveRow(ds[d].branch)
    BY <1>1 DEF TreesAreHeld, IsTree
  <1>5. \A x \in Agents, y \in Branches : Holds(x, y, ds, xt) => y \in di
    BY <1>2 DEF TreesAreHeld
  <1>6. \A x, o \in Agents, y \in Branches : Holds(x, y, ds, xt) /\ Holds(o, y, ds, xt) => x = o
    BY <1>2 DEF TreesAreHeld
  <1> QED BY <1>3, <1>4, <1>5, <1>6 DEF TreesAreHeld

LEMMA OpMoves ==
    ASSUME NEW r, NEW o, NEW p, NEW a, NEW b, r = [op |-> o, agent |-> a, branch |-> b]
    PROVE  [r EXCEPT !.op = p] = [op |-> p, agent |-> a, branch |-> b]
  OBVIOUS

LEMMA TreesStep == FilesInv /\ Files!TreeNext => FilesInv'
  <1> SUFFICES ASSUME FilesInv, Files!TreeNext PROVE FilesInv'
    OBVIOUS
  <1> DEFINE Row == [branch : Branches, status : {"active", "removed"}]
  <1>0. /\ calls \in [Calls -> Files!FileCall \cup Files!TreeCall \cup {None}]
        /\ worktrees \in [Agents -> Row \cup {None}]
        /\ branches \subseteq Branches /\ disk \subseteq branches /\ unsure \in BOOLEAN
        /\ (~unsure => TreesAreHeld(calls, worktrees, disk))
    BY DEF FilesInv, Files!TypeOK
  <1>1. ASSUME NEW c \in Calls, NEW e \in Files!TreeCall \cup {None}, calls' = [calls EXCEPT ![c] = e],
               UNCHANGED <<leaf, touched>>, branches' \subseteq Branches, disk' \subseteq branches',
               worktrees' \in [Agents -> Row \cup {None}], unsure' \in BOOLEAN,
               \A a \in Agents : worktrees[a] # None => worktrees'[a] # None,
               e \in Files!TreeCall /\ e.op \in {"remove", "removed"} => worktrees[e.agent] # None,
               ~unsure' => TreesAreHeld(calls', worktrees', disk')
        PROVE  FilesInv'
    <2>1. calls'[c] = e /\ \A d \in Calls : d # c => calls'[d] = calls[d]
      BY <1>0, <1>1
    <2>2. e \notin Files!FileCall
      BY <1>1, KindsOfCall
    <2>3. FileCallsAreChecked' /\ Files!FileCallsStayInside'
      BY <1>1, <2>1, <2>2 DEF FilesInv, FileCallsAreChecked, Files!FileCallsStayInside
    <2>4. Files!TypeOK'
      BY <1>0, <1>1 DEF FilesInv, Files!TypeOK
    <2>5. \A d \in Files!TreeCall : d.agent \in Agents
      BY DEF Files!TreeCall
    <2>6. RemovalsHaveRows'
      BY <1>1, <2>1, <2>5 DEF FilesInv, RemovalsHaveRows
    <2> QED BY <1>1, <2>3, <2>4, <2>6 DEF FilesInv
  <1>2. ASSUME UNCHANGED unsure PROVE unsure' \in BOOLEAN
    BY <1>0, <1>2, Zenon
  <1>3. ASSUME NEW b \in Branches, Files!CreateBranch(b) \/ Files!DeleteBranch(b) PROVE FilesInv'
    <2>1. /\ UNCHANGED <<leaf, calls, touched, disk, worktrees, unsure>>
          /\ branches' \subseteq Branches /\ disk' \subseteq branches'
      BY <1>0, <1>3 DEF Files!CreateBranch, Files!DeleteBranch
    <2>2. unsure' \in BOOLEAN /\ (unsure' <=> unsure)
      BY <1>2, <2>1
    <2> QED BY <1>0, <2>1, <2>2 DEF FilesInv, Files!TypeOK, FileCallsAreChecked, Files!FileCallsStayInside,
           RemovalsHaveRows
  <1>4. ASSUME NEW c \in Calls, NEW a \in Agents, NEW op \in {"create", "remove"}, NEW b \in Branches, Files!Start(c, a, op, b),
               op = "remove" => worktrees[a] = ActiveRow(b),
               UNCHANGED <<leaf, touched, branches, disk, worktrees>>
        PROVE  FilesInv'
    <2> DEFINE e == [op |-> op, agent |-> a, branch |-> b]
    <2>1. /\ calls[c] = None /\ calls' = [calls EXCEPT ![c] = e]
          /\ unsure' = (unsure \/ Files!Busy(a))
      BY <1>4 DEF Files!Start
    <2>2. e \in Files!TreeCall /\ e.op = op /\ e.agent = a /\ e.branch = b
      BY DEF Files!TreeCall
    <2>3. unsure' \in BOOLEAN
      BY <2>1, Zenon
    <2>4. calls'[c] = e /\ \A d \in Calls : d # c => calls'[d] = calls[d]
      BY <1>0, <2>1
    <2> HIDE DEF e
    <2>5. ASSUME ~unsure' PROVE TreesAreHeld(calls', worktrees, disk)
      <3>1. ~unsure /\ ~Files!Busy(a)
        BY <2>1, <2>5, Zenon
      <3>2. \A d \in Calls : ~(calls[d] \in Files!TreeCall /\ calls[d].agent = a)
        BY <3>1 DEF Files!Busy
      <3>3. Quiet(calls[c]) /\ Quiet(calls'[c])
        BY <2>1, <2>2, <2>4, KindsOfCall DEF Quiet
      <3>4. \A x \in Agents : IsTree(calls'[c], x, {"remove"}) => worktrees[x] = ActiveRow(calls'[c].branch)
        BY <1>4, <2>2, <2>4 DEF IsTree
      <3> QED BY <1>0, <2>2, <2>4, <3>1, <3>2, <3>3, <3>4, QuietMoves
    <2>6. op = "remove" => worktrees[a] # None
      BY <1>4, FilesAssumption DEF ActiveRow
    <2> QED BY <1>0, <1>1, <1>4, <2>1, <2>2, <2>3, <2>5, <2>6
  <1>5. ASSUME NEW c \in Calls, NEW a \in Agents, NEW b \in Branches, Files!StartCreate(c, a, b) \/ Files!StartRemove(c, a, b)
        PROVE  FilesInv'
    BY <1>4, <1>5 DEF Files!StartCreate, Files!StartRemove, ActiveRow
  <1>6. ASSUME NEW c \in Calls, NEW op \in {"create", "remove"}, calls[c] \in Files!TreeCall, calls[c].op = op,
               calls' = [calls EXCEPT ![c] = None], UNCHANGED <<leaf, touched, disk, worktrees, unsure>>,
               branches' \subseteq Branches, branches \subseteq branches'
        PROVE  FilesInv'
    <2>1. calls'[c] = None /\ \A d \in Calls : d # c => calls'[d] = calls[d]
      BY <1>0, <1>6
    <2>2. unsure' \in BOOLEAN /\ (unsure' <=> unsure)
      BY <1>2, <1>6
    <2>3. Quiet(calls[c]) /\ Quiet(calls'[c]) /\ calls'[c] \notin Files!TreeCall
      BY <1>6, <2>1, KindsOfCall DEF Quiet
    <2>4. ~unsure' => TreesAreHeld(calls', worktrees, disk)
      BY <1>0, <2>1, <2>2, <2>3, QuietMoves DEF IsTree
    <2> QED BY <1>0, <1>1, <1>6, <2>2, <2>3, <2>4, KindsOfCall
  <1>7. ASSUME NEW c \in Calls, Files!AddWorktree(c) PROVE FilesInv'
    <2> DEFINE a == calls[c].agent
               b == calls[c].branch
               e == [op |-> "created", agent |-> a, branch |-> b]
    <2>1. /\ calls[c] \in Files!TreeCall /\ calls[c] = [op |-> "create", agent |-> a, branch |-> b]
          /\ a \in Agents /\ b \in Branches /\ branches' = branches \cup {b} /\ UNCHANGED <<leaf, touched, worktrees, unsure>>
      BY <1>7 DEF Files!AddWorktree, Files!TreeCall
    <2>2. CASE b \in branches
      BY <1>0, <1>6, <1>7, <2>1, <2>2 DEF Files!AddWorktree, Files!Records, Files!GitAdds
    <2>3. CASE b \notin branches
      <3>1. calls' = [calls EXCEPT ![c].op = "created"] /\ disk' = disk \cup {b}
        BY <1>7, <2>3 DEF Files!AddWorktree, Files!Records, Files!GitAdds
      <3>1a. e = [calls[c] EXCEPT !.op = "created"]
        BY <2>1, OpMoves
      <3>2. calls' = [calls EXCEPT ![c] = e]
        BY <3>1, <3>1a
      <3>3. e \in Files!TreeCall
        BY <2>1 DEF Files!TreeCall
      <3>4. calls'[c] = e /\ \A d \in Calls : d # c => calls'[d] = calls[d]
        BY <1>0, <3>2
      <3>5. unsure' \in BOOLEAN /\ (unsure' <=> unsure)
        BY <1>2, <2>1
      <3>6. ~unsure' => TreesAreHeld(calls', worktrees, disk \cup {b})
        BY <1>0, <2>1, <2>3, <3>4, <3>5, WorktreeAdded
      <3>7. e.op = "created"
        OBVIOUS
      <3> HIDE DEF e
      <3> QED BY <1>0, <1>1, <2>1, <3>1, <3>2, <3>3, <3>5, <3>6, <3>7
    <2> QED BY <2>2, <2>3
  <1>8. ASSUME NEW c \in Calls, Files!RecordWorktree(c) PROVE FilesInv'
    <2> DEFINE a == calls[c].agent
               b == calls[c].branch
    <2>1. /\ calls[c] \in Files!TreeCall /\ calls[c] = [op |-> "created", agent |-> a, branch |-> b]
          /\ a \in Agents /\ b \in Branches /\ worktrees' = [worktrees EXCEPT ![a] = ActiveRow(b)]
          /\ calls' = [calls EXCEPT ![c] = None] /\ UNCHANGED <<leaf, touched, branches, disk, unsure>>
      BY <1>8 DEF Files!RecordWorktree, Files!TreeCall, ActiveRow
    <2>2. unsure' \in BOOLEAN /\ (unsure' <=> unsure)
      BY <1>2, <2>1
    <2>3. /\ calls'[c] = None /\ \A d \in Calls : d # c => calls'[d] = calls[d]
          /\ worktrees'[a] = ActiveRow(b) /\ \A x \in Agents : x # a => worktrees'[x] = worktrees[x]
      BY <1>0, <2>1
    <2>4. ActiveRow(b) \in Row
      BY <2>1 DEF ActiveRow
    <2>5. worktrees' \in [Agents -> Row \cup {None}]
      BY <1>0, <2>1, <2>4
    <2>6. ~unsure' => TreesAreHeld(calls', worktrees', disk)
      <3>1. calls'[c] \notin Files!TreeCall
        BY <2>3, KindsOfCall
      <3>2. calls[c] = [op |-> "created", agent |-> a, branch |-> b] /\ a \in Agents /\ b \in Branches
        BY <2>1
      <3>3. ~unsure' => TreesAreHeld(calls, worktrees, disk)
        BY <1>0, <2>2
      <3> HIDE DEF a, b
      <3> QED BY <2>3, <3>1, <3>2, <3>3, WorktreeRecorded
    <2>7. \A x \in Agents : worktrees[x] # None => worktrees'[x] # None
      BY <2>3, <2>4, FilesAssumption
    <2> QED BY <1>0, <1>1, <2>1, <2>2, <2>5, <2>6, <2>7, KindsOfCall
  <1>9. ASSUME NEW c \in Calls, Files!RemoveWorktree(c) PROVE FilesInv'
    <2> DEFINE a == calls[c].agent
               b == calls[c].branch
               e == [op |-> "removed", agent |-> a, branch |-> b]
    <2>1. /\ calls[c] \in Files!TreeCall /\ calls[c] = [op |-> "remove", agent |-> a, branch |-> b] /\ calls[c].op = "remove"
          /\ a \in Agents /\ b \in Branches /\ UNCHANGED <<leaf, touched, branches, worktrees, unsure>>
      BY <1>9 DEF Files!RemoveWorktree, Files!TreeCall
    <2>2. CASE calls' = [calls EXCEPT ![c] = None] /\ UNCHANGED disk
      BY <1>0, <1>6, <2>1, <2>2
    <2>3. CASE calls' = [calls EXCEPT ![c].op = "removed"] /\ disk' = disk \ {b}
      <3>1a. e = [calls[c] EXCEPT !.op = "removed"]
        BY <2>1, OpMoves
      <3>2. calls' = [calls EXCEPT ![c] = e]
        BY <2>3, <3>1a
      <3>3. e \in Files!TreeCall
        BY <2>1 DEF Files!TreeCall
      <3>4. calls'[c] = e /\ \A d \in Calls : d # c => calls'[d] = calls[d]
        BY <1>0, <3>2
      <3>5. unsure' \in BOOLEAN /\ (unsure' <=> unsure)
        BY <1>2, <2>1
      <3>6. ~unsure' => TreesAreHeld(calls', worktrees, disk \ {b})
        BY <1>0, <2>1, <3>4, <3>5, WorktreeRemoved
      <3>7. worktrees[a] # None /\ e.agent = a
        BY <2>1 DEF FilesInv, RemovalsHaveRows
      <3> HIDE DEF e
      <3> QED BY <1>0, <1>1, <2>1, <2>3, <3>2, <3>3, <3>5, <3>6, <3>7
    <2> QED BY <1>9, <2>2, <2>3 DEF Files!RemoveWorktree
  <1>10. ASSUME NEW c \in Calls, Files!RecordRemoval(c) PROVE FilesInv'
    <2> DEFINE a == calls[c].agent
               b == calls[c].branch
               w == worktrees[a]
    <2>1. /\ calls[c] \in Files!TreeCall /\ calls[c] = [op |-> "removed", agent |-> a, branch |-> b]
          /\ a \in Agents /\ b \in Branches
          /\ worktrees' = [worktrees EXCEPT ![a] = IF w.branch = b THEN [w EXCEPT !.status = "removed"] ELSE w]
          /\ calls' = [calls EXCEPT ![c] = None] /\ UNCHANGED <<leaf, touched, branches, disk, unsure>>
      BY <1>10 DEF Files!RecordRemoval, Files!TreeCall
    <2>2. unsure' \in BOOLEAN /\ (unsure' <=> unsure)
      BY <1>2, <2>1
    <2>3. calls'[c] = None /\ \A d \in Calls : d # c => calls'[d] = calls[d]
      BY <1>0, <2>1
    <2>4. w \in Row
      BY <1>0, <2>1 DEF FilesInv, RemovalsHaveRows
    <2> DEFINE x == IF w.branch = b THEN [w EXCEPT !.status = "removed"] ELSE w
    <2>5. x \in Row /\ (~unsure => \A y \in Branches : x # ActiveRow(y))
      <3>1. x \in Row
        BY <2>4
      <3>2. ~unsure => w = ActiveRow(b)
        BY <1>0, <2>1 DEF TreesAreHeld, IsTree
      <3>3. ~unsure => x.status = "removed"
        BY <2>4, <3>2 DEF ActiveRow
      <3> HIDE DEF x
      <3> QED BY <3>1, <3>3 DEF ActiveRow
    <2>6. worktrees' = [worktrees EXCEPT ![a] = x]
      BY <2>1
    <2> HIDE DEF x
    <2>7. worktrees' \in [Agents -> Row \cup {None}]
      BY <1>0, <2>1, <2>5, <2>6
    <2>8. worktrees'[a] = x /\ \A y \in Agents : y # a => worktrees'[y] = worktrees[y]
      BY <1>0, <2>1, <2>6
    <2>9. ~unsure' => TreesAreHeld(calls', worktrees', disk)
      <3>1. calls'[c] \notin Files!TreeCall
        BY <2>3, KindsOfCall
      <3>2. calls[c] \in Files!TreeCall /\ calls[c].agent = a /\ a \in Agents
        BY <2>1
      <3>3. ~unsure' => TreesAreHeld(calls, worktrees, disk) /\ \A y \in Branches : worktrees'[a] # ActiveRow(y)
        BY <1>0, <2>2, <2>5, <2>8
      <3> HIDE DEF a, b, w
      <3> QED BY <2>3, <2>8, <3>1, <3>2, <3>3, RemovalRecorded
    <2>10. \A y \in Agents : worktrees[y] # None => worktrees'[y] # None
      BY <2>5, <2>8, FilesAssumption
    <2> QED BY <1>0, <1>1, <2>1, <2>2, <2>7, <2>9, <2>10, KindsOfCall
  <1>11. ASSUME Files!CrashFiles PROVE FilesInv'
    <2>1. /\ calls' = [c \in Calls |-> None] /\ unsure' = (unsure \/ \E a \in Agents : Files!Busy(a))
          /\ UNCHANGED <<leaf, touched, branches, disk, worktrees>>
      BY <1>11 DEF Files!CrashFiles
    <2>2. unsure' \in BOOLEAN
      BY <2>1, Zenon
    <2>3. \A c \in Calls : calls'[c] = None /\ calls'[c] \notin Files!FileCall /\ calls'[c] \notin Files!TreeCall
      BY <2>1, KindsOfCall
    <2>4. ASSUME ~unsure' PROVE TreesAreHeld(calls', worktrees, disk)
      <3>1. ~unsure /\ \A a \in Agents : ~Files!Busy(a)
        BY <2>1, <2>4, Zenon
      <3>2. \A c \in Calls : calls[c] \notin Files!TreeCall
        BY <3>1 DEF Files!Busy, Files!TreeCall
      <3>3. TreesAreHeld(calls, worktrees, disk)
        BY <1>0, <3>1
      <3> QED BY <2>3, <3>2, <3>3, TreesUntouched
    <2>5. Files!TypeOK'
      BY <2>1, <2>2 DEF FilesInv, Files!TypeOK
    <2> QED BY <2>1, <2>3, <2>4, <2>5 DEF FilesInv, FileCallsAreChecked, Files!FileCallsStayInside, RemovalsHaveRows
  <1>12. ASSUME NEW c \in Calls,
                Files!AddWorktree(c) \/ Files!RecordWorktree(c) \/ Files!RemoveWorktree(c) \/ Files!RecordRemoval(c)
         PROVE  FilesInv'
    BY <1>7, <1>8, <1>9, <1>10, <1>12
  <1> QED BY <1>3, <1>5, <1>11, <1>12 DEF Files!TreeNext

-----------------------------------------------------------------------------
(* Agent processes.                                                        *)

\* Nothing runs before its fork, what is forked runs or was not heard to exit, and the
\* registry lists what may still be stopped.
Placed(p) ==
    /\ spawn[p] # "unused" => parent[p] \in Supervisors
    /\ spawn[p] \notin {"forked", "done"} => row[p] = "absent" /\ pty[p] = "none"
    /\ spawn[p] = "forked" => row[p] = "running" /\ pty[p] \in {"alive", "unheard"}
    /\ p \in registry => spawn[p] = "done" /\ pty[p] \in {"alive", "unheard"}

\* A final status stays until the row goes, and there is no output after it.
ReadUp(p) ==
    /\ row[p] \in Processes!Final => spawn[p] = "done" /\ p \notin registry
    /\ poll[p].cursor <= stored[p]
    /\ poll[p].at = "chunks" /\ poll[p].status \in Processes!Final => row[p] \in Processes!Final
    /\ poll[p].done => row[p] \in Processes!Final /\ poll[p].cursor = stored[p]

ProcessesInv ==
    /\ Processes!TypeOK /\ Processes!RunningRowsAreAccountedFor /\ Processes!CapHolds
    /\ \A p \in ProcIds : Placed(p) /\ ReadUp(p)

LEMMA SameCardinality == \A S : Processes!Cardinality(S) = Cardinality(S)
  BY DEF Cardinality, Processes!Cardinality

LEMMA ProcessesStart == Processes!Init => ProcessesInv
  <1> SUFFICES ASSUME Processes!Init PROVE ProcessesInv
    OBVIOUS
  <1>1. Processes!TypeOK
    BY ProcessesAssumption DEF Processes!Init, Processes!TypeOK, Processes!InProgress, Processes!Final, Processes!NoPoll
  <1>2. ASSUME NEW a PROVE {p \in ProcIds : parent[p] = a /\ (p \in registry \/ spawn[p] \in Processes!InProgress)} = {}
    BY DEF Processes!Init, Processes!InProgress
  <1>3. Processes!CapHolds
    BY <1>2, SameCardinality, FS_EmptySet, ProcessesAssumption DEF Processes!CapHolds
  <1> QED BY <1>1, <1>3, ProcessesAssumption
          DEF ProcessesInv, Processes!Init, Processes!RunningRowsAreAccountedFor, Placed, ReadUp, Processes!NoPoll, Processes!Final

LEMMA ProcessesHold == ProcessesInv => Processes!DoneMeansAllRead
  BY DEF ProcessesInv, ReadUp, Processes!DoneMeansAllRead

\* The processes a supervisor is answerable for.
Held(a) == {p \in ProcIds : parent[p] = a /\ (p \in registry \/ spawn[p] \in Processes!InProgress)}

LEMMA CapOf == Processes!CapHolds <=> \A a \in Supervisors \ overlapped : Cardinality(Held(a)) <= MaxPerAgent
  BY SameCardinality DEF Processes!CapHolds, Held

\* A step that starts no process for a supervisor leaves it within its cap.
LEMMA FewerHeld ==
    ASSUME Processes!CapHolds, overlapped \subseteq overlapped', \A a \in Supervisors : Held(a)' \subseteq Held(a)
    PROVE  Processes!CapHolds'
  <1>1. ASSUME NEW a \in Supervisors \ overlapped' PROVE Cardinality(Held(a)') <= MaxPerAgent
    <2>1. Held(a)' \subseteq Held(a) /\ Cardinality(Held(a)) <= MaxPerAgent
      BY <1>1, CapOf
    <2>2. IsFiniteSet(Held(a))
      BY ProcessesAssumption, FS_Subset DEF Held
    <2>3. Cardinality(Held(a)') <= Cardinality(Held(a)) /\ Cardinality(Held(a)') \in Nat /\ Cardinality(Held(a)) \in Nat
      BY <2>1, <2>2, FS_Subset, FS_CardinalityType
    <2> QED BY <2>1, <2>3, ProcessesAssumption
  <1> QED BY <1>1, SameCardinality DEF Processes!CapHolds, Held

LEMMA SpawnStep ==
    ASSUME ProcessesInv, NEW p \in ProcIds,
           (\E a \in Supervisors : Processes!AskSpawn(a, p)) \/ Processes!RefuseSpawn(p) \/ Processes!Fork(p) \/ Processes!Register(p)
    PROVE  ProcessesInv'
  <1> USE DEF ProcessesInv, Processes!AskSpawn, Processes!RefuseSpawn, Processes!Fork, Processes!Register
  <1>1. Processes!TypeOK'
    <2>1. UNCHANGED <<stored, poll, stale, overlapped>>
      OBVIOUS
    <2>2. spawn' \in [ProcIds -> {"unused", "asked", "done", "refused"} \cup Processes!InProgress]
      BY DEF Processes!TypeOK, Processes!InProgress
    <2>3. parent' \in [ProcIds -> Supervisors \cup {None}]
      BY DEF Processes!TypeOK
    <2>4. /\ pty' \in [ProcIds -> {"none", "alive", "doomed", "dead", "unheard"}]
          /\ row' \in [ProcIds -> {"absent", "running"} \cup Processes!Final] /\ registry' \subseteq ProcIds
      BY DEF Processes!TypeOK
    <2> QED BY <2>1, <2>2, <2>3, <2>4 DEF Processes!TypeOK
  <1>2. \A q \in ProcIds : Placed(q)'
    BY DEF Processes!TypeOK, Placed
  <1>3. \A q \in ProcIds : ReadUp(q)'
    BY DEF Processes!TypeOK, Placed, ReadUp, Processes!Final
  <1>4. Processes!RunningRowsAreAccountedFor'
    BY DEF Processes!TypeOK, Placed, Processes!RunningRowsAreAccountedFor
  <1>5. Processes!CapHolds'
    <2>1. \A a \in Supervisors : Held(a)' \subseteq Held(a)
      BY DEF Held, Processes!TypeOK, Placed, Processes!InProgress
    <2> QED BY <2>1, FewerHeld
  <1> QED BY <1>1, <1>2, <1>3, <1>4, <1>5

\* One process more, of a supervisor that has fewer than the cap, or that had two calls past the check.
LEMMA CheckCapStep ==
    ASSUME ProcessesInv, NEW p \in ProcIds, Processes!CheckCap(p)
    PROVE  ProcessesInv'
  <1> DEFINE a == parent[p]
  <1>0. Processes!TypeOK /\ Placed(p) /\ spawn[p] = "asked" /\ a \in Supervisors
    BY DEF ProcessesInv, Placed, Processes!CheckCap
  <1>1. /\ UNCHANGED <<parent, pty, registry, row, stored, poll, stale>>
        /\ spawn' \in {[spawn EXCEPT ![p] = s] : s \in {"refused", "minting"}}
    BY DEF Processes!CheckCap
  <1>2. overlapped' \in {overlapped, overlapped \cup {a}}
    BY Zenon DEF Processes!CheckCap
  <1>3. Processes!TypeOK'
    BY <1>0, <1>1, <1>2 DEF Processes!TypeOK, Processes!InProgress
  <1>4. \A q \in ProcIds : Placed(q)' /\ ReadUp(q)'
    BY <1>0, <1>1 DEF ProcessesInv, Processes!TypeOK, Placed, ReadUp, Processes!Final
  <1>5. Processes!RunningRowsAreAccountedFor'
    BY <1>0, <1>1 DEF ProcessesInv, Processes!TypeOK, Processes!RunningRowsAreAccountedFor
  <1>6. Processes!CapHolds'
    <2>1. CASE Processes!LiveCount(a) >= MaxPerAgent
      <3>1. spawn' = [spawn EXCEPT ![p] = "refused"] /\ overlapped' = overlapped
        BY <2>1 DEF Processes!CheckCap
      <3>2. \A b \in Supervisors : Held(b)' \subseteq Held(b)
        BY <1>0, <1>1, <3>1 DEF Held, Processes!TypeOK, Processes!InProgress
      <3> QED BY <3>1, <3>2, FewerHeld DEF ProcessesInv
    <2>2. CASE ~(Processes!LiveCount(a) >= MaxPerAgent)
      <3>1. /\ spawn' = [spawn EXCEPT ![p] = "minting"]
            /\ overlapped' = IF \E q \in ProcIds : parent[q] = a /\ spawn[q] \in Processes!InProgress
                             THEN overlapped \cup {a} ELSE overlapped
        BY <2>2, Zenon DEF Processes!CheckCap
      <3>2. ASSUME NEW b \in Supervisors \ overlapped' PROVE Cardinality(Held(b)') <= MaxPerAgent
        <4>1. b \notin overlapped
          BY <1>2, <3>2
        <4>2. CASE b # a
          <5>1. Held(b)' = Held(b)
            BY <1>0, <1>1, <3>1, <4>2 DEF Held, Processes!TypeOK
          <5> QED BY <4>1, <5>1, CapOf DEF ProcessesInv
        <4>3. CASE b = a
          <5> DEFINE L == {q \in registry : parent[q] = a \/ q = a}
          <5>1. \A q \in ProcIds : ~(parent[q] = a /\ spawn[q] \in Processes!InProgress)
            BY <3>1, <3>2, <4>3, Zenon
          <5>2. Held(b)' \subseteq L \cup {p}
            BY <1>0, <1>1, <3>1, <4>3, <5>1 DEF Held, Processes!TypeOK
          <5>3. IsFiniteSet(L) /\ Cardinality(L) \in Nat
            <6>1. L \in SUBSET ProcIds
              BY <1>0 DEF Processes!TypeOK
            <6> HIDE DEF L
            <6> QED BY <6>1, ProcessesAssumption, FS_Subset, FS_CardinalityType
          <5>4. Cardinality(L) < MaxPerAgent
            <6>1. Processes!LiveCount(a) = Cardinality(L)
              BY SameCardinality DEF Processes!LiveCount
            <6> HIDE DEF L, a
            <6> QED BY <2>2, <5>3, <6>1, ProcessesAssumption
          <5> HIDE DEF L
          <5>5. Cardinality(L \cup {p}) <= Cardinality(L) + 1 /\ IsFiniteSet(L \cup {p}) /\ Cardinality(L \cup {p}) \in Nat
            <6>1. IsFiniteSet(L \cup {p}) /\ Cardinality(L \cup {p}) = IF p \in L THEN Cardinality(L) ELSE Cardinality(L) + 1
              BY <5>3, FS_AddElement
            <6> QED BY <5>3, <6>1, FS_CardinalityType
          <5>6. Cardinality(Held(b)') <= Cardinality(L \cup {p}) /\ Cardinality(Held(b)') \in Nat
            BY <5>2, <5>5, FS_Subset, FS_CardinalityType
          <5> QED BY <5>3, <5>4, <5>5, <5>6, ProcessesAssumption
        <4> QED BY <4>2, <4>3
      <3> QED BY <3>2, SameCardinality DEF Processes!CapHolds, Held
    <2> QED BY <2>1, <2>2
  <1> QED BY <1>3, <1>4, <1>5, <1>6 DEF ProcessesInv

\* What a client that polls has come to know.
Polls == [at : {"idle", "chunks"}, status : {"running"} \cup Processes!Final, cursor : 0 .. MaxChunks, done : BOOLEAN]
UpToDate(p, x) ==
    /\ x.cursor <= stored[p]
    /\ x.at = "chunks" /\ x.status \in Processes!Final => row[p] \in Processes!Final
    /\ x.done => row[p] \in Processes!Final /\ x.cursor = stored[p]

LEMMA RunStep ==
    ASSUME ProcessesInv, NEW p \in ProcIds,
           Processes!Exit(p) \/ Processes!Output(p) \/ Processes!PollStatus(p) \/ Processes!PollChunks(p)
    PROVE  ProcessesInv'
  <1>0. Processes!TypeOK /\ \A q \in ProcIds : Placed(q) /\ ReadUp(q)
    BY DEF ProcessesInv
  <1>1. overlapped' = overlapped /\ spawn' = spawn /\ parent' = parent /\ registry' \subseteq registry
    BY DEF Processes!Exit, Processes!Output, Processes!PollStatus, Processes!PollChunks
  <1>2. Processes!CapHolds'
    <2>1. \A a \in Supervisors : Held(a)' \subseteq Held(a)
      BY <1>1 DEF Held
    <2> QED BY <1>1, <2>1, FewerHeld DEF ProcessesInv
  <1>3. CASE Processes!Exit(p)
    <2>1. Processes!TypeOK'
      BY <1>0, <1>3 DEF Processes!TypeOK, Processes!Exit, Processes!Final
    <2>2. \A q \in ProcIds : Placed(q)' /\ ReadUp(q)'
      BY <1>0, <1>3 DEF Processes!TypeOK, Processes!Exit, Processes!ExitUpdates, Processes!Final, Placed, ReadUp
    <2>3. Processes!RunningRowsAreAccountedFor'
      BY <1>0, <1>3 DEF ProcessesInv, Processes!TypeOK, Processes!Exit, Processes!ExitUpdates, Processes!RunningRowsAreAccountedFor
    <2> QED BY <1>2, <2>1, <2>2, <2>3 DEF ProcessesInv
  <1>4. CASE Processes!Output(p)
    <2>1. Processes!TypeOK'
      BY <1>0, <1>4, ProcessesAssumption DEF Processes!TypeOK, Processes!Output
    <2>2. \A q \in ProcIds : Placed(q)' /\ ReadUp(q)'
      BY <1>0, <1>4, ProcessesAssumption DEF Processes!TypeOK, Processes!Output, Processes!BuffersOf, Processes!Final, Placed, ReadUp
    <2> QED BY <1>2, <1>4, <2>1, <2>2 DEF ProcessesInv, Processes!Output, Processes!RunningRowsAreAccountedFor
  <1>5. CASE Processes!PollStatus(p) \/ Processes!PollChunks(p)
    <2>1. UNCHANGED <<spawn, parent, pty, registry, row, stored, stale, overlapped>>
      BY <1>5 DEF Processes!PollStatus, Processes!PollChunks
    <2>2. \E x \in Polls : poll' = [poll EXCEPT ![p] = x] /\ UpToDate(p, x)
      <3>1. /\ poll[p] \in Polls /\ stored[p] \in 0 .. MaxChunks
            /\ row[p] \in {"absent", "running"} \cup Processes!Final /\ ReadUp(p)
        BY <1>0 DEF Processes!TypeOK, Polls
      <3>2. CASE Processes!PollStatus(p)
        <4> DEFINE y == [poll[p] EXCEPT !.at = "chunks"]
                   x == [y EXCEPT !.status = row[p]]
        <4>1. y = [at |-> "chunks", status |-> poll[p].status, cursor |-> poll[p].cursor, done |-> poll[p].done]
          BY <3>1 DEF Polls
        <4>2. row[p] # "absent" /\ ~poll[p].done /\ poll' = [poll EXCEPT ![p] = x]
          BY <3>2 DEF Processes!PollStatus
        <4> HIDE DEF y
        <4>3. x = [at |-> "chunks", status |-> row[p], cursor |-> poll[p].cursor, done |-> poll[p].done]
          BY <4>1
        <4> HIDE DEF x
        <4>4. x \in Polls /\ UpToDate(p, x)
          BY <3>1, <4>2, <4>3 DEF Polls, UpToDate, ReadUp
        <4> QED BY <4>2, <4>4
      <3>3. CASE Processes!PollChunks(p)
        <4> DEFINE left == stored[p] - poll[p].cursor
                   some == IF left < Page THEN left ELSE Page
                   end  == poll[p].status \in Processes!Final /\ some < Page
                   x    == [at |-> "idle", status |-> poll[p].status, cursor |-> poll[p].cursor + some, done |-> end]
        <4>1. poll[p].at = "chunks" /\ poll' = [poll EXCEPT ![p] = x]
          BY <3>3 DEF Processes!PollChunks
        <4>2. /\ poll[p].cursor + some \in 0 .. MaxChunks /\ poll[p].cursor + some <= stored[p]
              /\ some < Page => poll[p].cursor + some = stored[p]
          BY <3>1, ProcessesAssumption DEF Polls, ReadUp
        <4>3. end \in BOOLEAN
          BY Zenon
        <4>4. x.at = "idle" /\ x.status = poll[p].status /\ x.cursor = poll[p].cursor + some /\ x.done = end
          OBVIOUS
        <4>5. x \in Polls
          BY <3>1, <4>2, <4>3 DEF Polls
        <4>6. end => row[p] \in Processes!Final /\ poll[p].cursor + some = stored[p]
          BY <3>1, <4>1, <4>2 DEF ReadUp
        <4> HIDE DEF x, end, some
        <4>7. UpToDate(p, x)
          BY <4>2, <4>4, <4>6 DEF UpToDate
        <4> QED BY <4>1, <4>5, <4>7
      <3> QED BY <1>5, <3>2, <3>3
    <2>3. PICK x \in Polls : poll' = [poll EXCEPT ![p] = x] /\ UpToDate(p, x)
      BY <2>2
    <2>4. Processes!TypeOK'
      BY <1>0, <2>1, <2>3 DEF Processes!TypeOK, Polls
    <2>5. \A q \in ProcIds : poll'[q] = IF q = p THEN x ELSE poll[q]
      BY <1>0, <2>3 DEF Processes!TypeOK
    <2>6. \A q \in ProcIds : Placed(q)' /\ ReadUp(q)'
      BY <1>0, <2>1, <2>3, <2>5 DEF Placed, ReadUp, UpToDate
    <2> QED BY <1>2, <2>1, <2>4, <2>6 DEF ProcessesInv, Processes!RunningRowsAreAccountedFor
  <1> QED BY <1>3, <1>4, <1>5

LEMMA EndStep ==
    ASSUME ProcessesInv,
           (\E p \in ProcIds, x \in Processes!Principals : Processes!Stop(p, x) \/ Processes!Remove(p, x))
           \/ (\E x \in Processes!Principals : Processes!EvictProcesses(x))
    PROVE  ProcessesInv'
  <1>0. Processes!TypeOK /\ \A q \in ProcIds : Placed(q) /\ ReadUp(q)
    BY DEF ProcessesInv
  <1>1. overlapped' = overlapped /\ spawn' = spawn /\ parent' = parent /\ registry' \subseteq registry
    BY DEF Processes!Stop, Processes!Remove, Processes!EvictProcesses
  <1>2. Processes!CapHolds'
    <2>1. \A a \in Supervisors : Held(a)' \subseteq Held(a)
      BY <1>1 DEF Held
    <2> QED BY <1>1, <2>1, FewerHeld DEF ProcessesInv
  <1>3. ASSUME NEW p \in ProcIds, NEW x, Processes!Stop(p, x) PROVE ProcessesInv'
    <2>1. Processes!TypeOK'
      BY <1>0, <1>3 DEF Processes!TypeOK, Processes!Stop, Processes!Doomed, Processes!Final
    <2>2. \A q \in ProcIds : Placed(q)' /\ ReadUp(q)'
      BY <1>0, <1>3 DEF Processes!TypeOK, Processes!Stop, Processes!Doomed, Processes!Final, Placed, ReadUp
    <2>3. Processes!RunningRowsAreAccountedFor'
      BY <1>0, <1>3 DEF ProcessesInv, Processes!TypeOK, Processes!Stop, Processes!Doomed, Processes!RunningRowsAreAccountedFor
    <2> QED BY <1>2, <2>1, <2>2, <2>3 DEF ProcessesInv
  <1>4. ASSUME NEW p \in ProcIds, NEW x, Processes!Remove(p, x) PROVE ProcessesInv'
    <2>1. /\ spawn[p] = "done" /\ registry' = registry \ {p}
          /\ row' = [row EXCEPT ![p] = "absent"] /\ stored' = [stored EXCEPT ![p] = 0]
          /\ poll' = [poll EXCEPT ![p] = Processes!NoPoll] /\ UNCHANGED <<spawn, parent, stale, overlapped>>
      BY <1>4 DEF Processes!Remove
    <2>2. pty' \in {pty, Processes!Doomed({p})} /\ (p \notin registry => pty' = pty)
      BY <1>4 DEF Processes!Remove
    <2>3. Processes!NoPoll \in Polls /\ UpToDate(p, Processes!NoPoll)'
      BY <1>0, <2>1, ProcessesAssumption DEF Processes!NoPoll, Polls, UpToDate, Processes!TypeOK, Processes!Final
    <2>4. Processes!TypeOK'
      BY <1>0, <2>1, <2>2, <2>3, ProcessesAssumption DEF Processes!TypeOK, Processes!Doomed, Polls
    <2>5. \A q \in ProcIds : Placed(q)' /\ ReadUp(q)'
      BY <1>0, <2>1, <2>2 DEF Processes!TypeOK, Processes!Doomed, Processes!Final, Processes!NoPoll, Placed, ReadUp
    <2>6. Processes!RunningRowsAreAccountedFor'
      BY <1>0, <2>1, <2>2 DEF ProcessesInv, Processes!TypeOK, Processes!Doomed, Processes!RunningRowsAreAccountedFor
    <2> QED BY <1>2, <2>4, <2>5, <2>6 DEF ProcessesInv
  <1>5. ASSUME NEW x, Processes!EvictProcesses(x) PROVE ProcessesInv'
    <2>1. Processes!TypeOK'
      BY <1>0, <1>5 DEF Processes!TypeOK, Processes!EvictProcesses, Processes!Doomed
    <2>2. \A q \in ProcIds : Placed(q)' /\ ReadUp(q)'
      BY <1>0, <1>5 DEF Processes!TypeOK, Processes!EvictProcesses, Processes!Doomed, Placed, ReadUp
    <2>3. Processes!RunningRowsAreAccountedFor'
      BY <1>0, <1>5 DEF ProcessesInv, Processes!TypeOK, Processes!EvictProcesses, Processes!Doomed, Placed,
                        Processes!RunningRowsAreAccountedFor
    <2> QED BY <1>2, <2>1, <2>2, <2>3 DEF ProcessesInv
  <1> QED BY <1>3, <1>4, <1>5

LEMMA ProcessesRestart == ProcessesInv /\ Processes!RestartProcesses => ProcessesInv'
  <1> SUFFICES ASSUME ProcessesInv, Processes!RestartProcesses PROVE ProcessesInv'
    OBVIOUS
  <1>0. Processes!TypeOK /\ \A q \in ProcIds : Placed(q) /\ ReadUp(q)
    BY DEF ProcessesInv
  <1> DEFINE y(p) == [poll[p] EXCEPT !.at = "idle"]
  <1>1. /\ spawn' = [p \in ProcIds |-> IF spawn[p] \in {"unused", "done"} THEN spawn[p]
                                       ELSE IF spawn[p] = "forked" THEN "done" ELSE "refused"]
        /\ pty' = [p \in ProcIds |-> IF pty[p] \in {"alive", "doomed"} THEN "dead" ELSE pty[p]]
        /\ registry' = {} /\ stale' = stale \cup {p \in ProcIds : row[p] = "running"}
        /\ poll' = [p \in ProcIds |-> y(p)] /\ UNCHANGED <<parent, row, stored, overlapped>>
    BY DEF Processes!RestartProcesses
  <1>2. \A p \in ProcIds : /\ y(p) \in Polls /\ y(p).at = "idle" /\ y(p).status = poll[p].status
                           /\ y(p).cursor = poll[p].cursor /\ y(p).done = poll[p].done
    BY <1>0 DEF Processes!TypeOK, Polls
  <1> HIDE DEF y
  <1>3. \A p \in ProcIds : spawn'[p] \in {"unused", "done", "refused"} /\ (spawn[p] = "done" => spawn'[p] = "done")
                           /\ (spawn'[p] = "done" => spawn[p] \in {"done", "forked"})
                           /\ (spawn[p] = "unused" <=> spawn'[p] = "unused")
    BY <1>0, <1>1
  <1>4. Processes!TypeOK'
    BY <1>0, <1>1, <1>2 DEF Processes!TypeOK, Polls, Processes!InProgress
  <1>5. \A p \in ProcIds : Placed(p)' /\ ReadUp(p)'
    BY <1>0, <1>1, <1>2, <1>3 DEF Placed, ReadUp, Processes!Final
  <1>6. Processes!RunningRowsAreAccountedFor'
    BY <1>0, <1>1 DEF Processes!RunningRowsAreAccountedFor
  <1>7. Processes!CapHolds'
    <2>1. \A a \in Supervisors : Held(a)' \subseteq Held(a)
      BY <1>1, <1>3 DEF Held, Processes!InProgress
    <2> QED BY <1>1, <2>1, FewerHeld DEF ProcessesInv
  <1> QED BY <1>4, <1>5, <1>6, <1>7 DEF ProcessesInv

LEMMA ProcessesStep == ProcessesInv /\ Processes!Next => ProcessesInv'
  BY SpawnStep, CheckCapStep, RunStep, EndStep, ProcessesRestart DEF Processes!Next, Processes!OwnNext, Processes!ProcessStep

LEMMA ProcessesRest == ProcessesInv /\ UNCHANGED procVars => ProcessesInv'
  BY DEF procVars, ProcessesInv, Processes!TypeOK, Processes!RunningRowsAreAccountedFor, Processes!CapHolds, Placed, ReadUp

-----------------------------------------------------------------------------
(* The gateway's secret and its pairings.                                  *)

\* A secret that is still to be recorded finds no other on record.
SecretIsFirst == starting # None => key = None /\ recorded = None

Attempts == {c \in Conns : conns[c] # None}
Busy     == Cardinality(Attempts)
All      == Cardinality(Conns)

\* Who has failed, or may fail with the attempts admitted, k rounds of the connections
\* beyond the threshold has waited for k locks, and a failure locks for one more.
RoundsAreWaited ==
    /\ \A k \in Nat \ {0} : limiter.failures + Busy >= Threshold + k * All => clock >= k * BaseLock
    /\ \A k \in Nat : limiter.failures >= Threshold + k * All => limiter.locked >= (k + 1) * BaseLock

PairInv ==
    /\ Gateway!PairTypeOK /\ Gateway!KeyIsOnRecord /\ SecretIsFirst /\ RoundsAreWaited

\* The module's count is the one of finite sets.
LEMMA SameCount == \A S : Gateway!Cardinality(S) = Cardinality(S)
  BY DEF Cardinality, Gateway!Cardinality

LEMMA Connections == All \in Nat /\ Busy \in Nat /\ Busy <= All
  BY GatewayAssumption, FS_Subset, FS_CardinalityType DEF All, Busy, Attempts

LEMMA PairStarts == Gateway!PairInit => PairInv
  <1> SUFFICES ASSUME Gateway!PairInit PROVE PairInv
    OBVIOUS
  <1>1. Gateway!PairTypeOK
    BY GatewayAssumption DEF Gateway!PairInit, Gateway!PairTypeOK
  <1>2. Busy = 0
    <2>1. Attempts = {}
      BY DEF Attempts, Gateway!PairInit
    <2> QED BY <2>1, FS_EmptySet DEF Busy
  <1>3. ASSUME NEW k \in Nat \ {0} PROVE 0 < Threshold + k * All
    BY Connections, GatewayAssumption
  <1>4. RoundsAreWaited
    BY <1>2, <1>3, Connections, GatewayAssumption DEF RoundsAreWaited, Gateway!PairInit
  <1> QED BY <1>1, <1>4 DEF PairInv, Gateway!PairInit, Gateway!KeyIsOnRecord, SecretIsFirst

\* The lock grows with the failures, from the base lock on.
LEMMA LockGrows ==
    ASSUME NEW n \in 0 .. MaxFailures, n >= Threshold
    PROVE  Gateway!LockTime(n) \in Nat /\ Gateway!LockTime(n) >= BaseLock
  <1> DEFINE p == 2 ^ (n - Threshold)
  <1>1. p \in Nat /\ p >= 1
    BY PowersOfTwo, GatewayAssumption
  <1> HIDE DEF p
  <1>2. BaseLock * p \in Nat /\ BaseLock * p >= BaseLock
    BY <1>1, GatewayAssumption
  <1> QED BY <1>2, GatewayAssumption DEF Gateway!LockTime, p

LEMMA FailureCounts ==
    ASSUME PairInv, limiter.failures < MaxFailures
    PROVE  LET l == Gateway!RecordFailure(limiter, clock) IN
           /\ l \in [failures : 0 .. MaxFailures, locked : Nat, all : 0 .. Ceiling, allLocked : Nat]
           /\ l.failures = limiter.failures + 1
           /\ l.failures >= Threshold => l.locked >= clock + BaseLock
  <1> DEFINE n == limiter.failures + 1
  <1>1. /\ n \in 0 .. MaxFailures /\ limiter.locked \in Nat /\ limiter.all \in 0 .. Ceiling
        /\ limiter.allLocked \in Nat /\ clock \in Nat
    BY GatewayAssumption DEF PairInv, Gateway!PairTypeOK
  <1>2. n >= Threshold => Gateway!LockTime(n) \in Nat /\ Gateway!LockTime(n) >= BaseLock
    BY <1>1, LockGrows
  <1> QED BY <1>1, <1>2, GatewayAssumption DEF Gateway!RecordFailure

LEMMA SecretSteps ==
    ASSUME PairInv, Gateway!InitAuth \/ Gateway!RecordSecret \/ Gateway!TouchFile
    PROVE  PairInv'
  <1> USE DEF PairInv, Gateway!PairTypeOK, Gateway!KeyIsOnRecord, SecretIsFirst, Gateway!pairVars
  <1>1. UNCHANGED <<nonces, conns, limiter, clock, tokens, minted>>
    BY DEF Gateway!InitAuth, Gateway!RecordSecret, Gateway!TouchFile
  <1>2. RoundsAreWaited'
    BY <1>1 DEF RoundsAreWaited, Busy, Attempts
  <1>3. ASSUME Gateway!InitAuth PROVE PairInv'
    BY <1>1, <1>2, <1>3, GatewayAssumption DEF Gateway!InitAuth, Gateway!Usable
  <1>4. ASSUME Gateway!RecordSecret PROVE PairInv'
    BY <1>1, <1>2, <1>4 DEF Gateway!RecordSecret
  <1>5. ASSUME Gateway!TouchFile PROVE PairInv'
    BY <1>1, <1>2, <1>5 DEF Gateway!TouchFile
  <1> QED BY <1>3, <1>4, <1>5

LEMMA RoundsGoOn ==
    ASSUME PairInv, UNCHANGED limiter, clock' \in Nat, clock' >= clock, UNCHANGED conns
    PROVE  RoundsAreWaited'
  <1>1. Busy' = Busy
    BY DEF Busy, Attempts
  <1>2. \A k \in Nat : k * BaseLock \in Nat
    BY GatewayAssumption
  <1>3. clock \in Nat
    BY GatewayAssumption DEF PairInv, Gateway!PairTypeOK
  <1> QED BY <1>1, <1>2, <1>3 DEF PairInv, RoundsAreWaited

LEMMA AttemptAdmitted ==
    ASSUME PairInv, NEW c \in Conns, Gateway!AdmitPair(c)
    PROVE  PairInv'
  <1> USE DEF PairInv, Gateway!PairTypeOK
  <1> PICK a \in Gateway!Attempt : conns' = [conns EXCEPT ![c] = a]
    BY DEF Gateway!AdmitPair
  <1>1. Attempts' = Attempts \cup {c} /\ c \notin Attempts
    BY GatewayAssumption DEF Gateway!AdmitPair, Attempts
  <1>2. Busy' = Busy + 1 /\ Busy' <= All
    <2>1. IsFiniteSet(Attempts) /\ Attempts' \subseteq Conns
      BY GatewayAssumption, FS_Subset, <1>1 DEF Attempts
    <2> QED BY <1>1, <2>1, GatewayAssumption, FS_AddElement, FS_Subset, FS_CardinalityType DEF Busy, All
  <1>3. clock \in Nat /\ limiter.locked <= clock /\ limiter.locked \in Nat /\ limiter.failures \in Nat
    BY GatewayAssumption DEF Gateway!AdmitPair, Gateway!Locked
  <1>4. ASSUME NEW k \in Nat \ {0}, limiter.failures + Busy' >= Threshold + k * All
        PROVE  clock >= k * BaseLock
    <2>1. limiter.failures >= Threshold + (k - 1) * All
      BY <1>2, <1>3, <1>4, Connections, GatewayAssumption
    <2>2. limiter.locked >= ((k - 1) + 1) * BaseLock
      BY <2>1 DEF RoundsAreWaited
    <2>3. (k - 1) + 1 = k /\ k * BaseLock \in Nat
      BY GatewayAssumption
    <2> QED BY <1>3, <2>2, <2>3
  <1>5. RoundsAreWaited'
    BY <1>4 DEF RoundsAreWaited, Gateway!AdmitPair
  <1> QED BY <1>5 DEF Gateway!AdmitPair, Gateway!keyVars, Gateway!KeyIsOnRecord, SecretIsFirst

\* The attempts that are done no longer count as admitted.
LEMMA AttemptDone ==
    ASSUME PairInv, NEW c \in Conns, conns[c] # None, conns' = [conns EXCEPT ![c] = None]
    PROVE  Busy' = Busy - 1 /\ Busy' \in Nat /\ conns' \in [Conns -> Gateway!Attempt \cup {None}]
  <1>1. Attempts' = Attempts \ {c} /\ c \in Attempts
    BY DEF Attempts, PairInv, Gateway!PairTypeOK
  <1>2. IsFiniteSet(Attempts)
    BY GatewayAssumption, FS_Subset DEF Attempts
  <1> QED BY <1>1, <1>2, FS_RemoveElement, FS_CardinalityType DEF Busy, PairInv, Gateway!PairTypeOK

LEMMA AttemptCompletes ==
    ASSUME PairInv, NEW c \in Conns, Gateway!CompletePair(c)
    PROVE  PairInv'
  <1> USE DEF PairInv, Gateway!PairTypeOK
  <1>1. conns[c] # None /\ conns' = [conns EXCEPT ![c] = None] /\ conns[c].nonce \in Nonces
    BY DEF Gateway!CompletePair, Gateway!Attempt
  <1>2. Busy' = Busy - 1 /\ Busy' \in Nat /\ Busy \in Nat /\ Busy <= All /\ All \in Nat
        /\ conns' \in [Conns -> Gateway!Attempt \cup {None}]
    BY <1>1, AttemptDone, Connections
  <1>3. clock \in Nat /\ limiter.locked \in Nat /\ limiter.failures \in 0 .. MaxFailures
    BY GatewayAssumption
  <1>4. UNCHANGED <<clock, file, recorded, key, starting>>
    BY DEF Gateway!CompletePair, Gateway!keyVars
  <1>5. nonces' \subseteq Nonces /\ tokens' \subseteq Nonces /\ minted' \subseteq Nonces
    BY <1>1 DEF Gateway!CompletePair, Gateway!NoncesLeft
  <1>6. ASSUME UNCHANGED limiter PROVE PairInv'
    <2>1. RoundsAreWaited'
      BY <1>2, <1>3, <1>4, <1>6, GatewayAssumption DEF RoundsAreWaited
    <2> QED BY <1>2, <1>4, <1>5, <1>6, <2>1 DEF Gateway!KeyIsOnRecord, SecretIsFirst
  <1>7. ASSUME limiter' = [limiter EXCEPT !.failures = 0, !.locked = 0] PROVE PairInv'
    <2> DEFINE L == [failures : 0 .. MaxFailures, locked : Nat, all : 0 .. Ceiling, allLocked : Nat]
               l == [limiter EXCEPT !.failures = 0]
    <2>6. l \in L /\ l.failures = 0
      BY GatewayAssumption
    <2>7. limiter' = [l EXCEPT !.locked = 0]
      BY <1>7, Zenon
    <2> HIDE DEF l
    <2>1. limiter' \in L
      BY <2>6, <2>7
    <2>2. limiter'.failures = 0
      BY <2>6, <2>7
    <2>3. ASSUME NEW k \in Nat \ {0} PROVE ~(limiter'.failures + Busy' >= Threshold + k * All)
      BY <1>2, <2>2, GatewayAssumption
    <2>4. ASSUME NEW k \in Nat PROVE ~(limiter'.failures >= Threshold + k * All)
      BY <1>2, <2>2, GatewayAssumption
    <2>5. RoundsAreWaited'
      BY <2>3, <2>4 DEF RoundsAreWaited
    <2> QED BY <1>2, <1>4, <1>5, <2>1, <2>5 DEF Gateway!KeyIsOnRecord, SecretIsFirst
  <1>8. ASSUME limiter.failures < MaxFailures, limiter' = Gateway!RecordFailure(limiter, clock) PROVE PairInv'
    <2>1. /\ limiter' \in [failures : 0 .. MaxFailures, locked : Nat, all : 0 .. Ceiling, allLocked : Nat]
          /\ limiter'.failures = limiter.failures + 1
          /\ limiter'.failures >= Threshold => limiter'.locked >= clock + BaseLock
      BY <1>8, FailureCounts
    <2>2. \A k \in Nat \ {0} : limiter'.failures + Busy' >= Threshold + k * All => clock' >= k * BaseLock
      BY <1>2, <1>3, <1>4, <2>1 DEF RoundsAreWaited
    <2>3. ASSUME NEW k \in Nat, limiter'.failures >= Threshold + k * All
          PROVE  limiter'.locked >= (k + 1) * BaseLock
      <3>1. k * All \in Nat /\ k * BaseLock \in Nat /\ (k + 1) * BaseLock = k * BaseLock + BaseLock
        BY <1>2, GatewayAssumption
      <3>2. limiter'.locked >= clock + BaseLock /\ limiter'.locked \in Nat
        BY <2>1, <2>3, <3>1, GatewayAssumption
      <3>3. clock >= k * BaseLock
        <4>1. CASE k = 0 BY <1>3, <4>1, GatewayAssumption
        <4>2. CASE k # 0 BY <1>2, <1>3, <1>4, <2>1, <2>2, <2>3, <3>1, <4>2, GatewayAssumption
        <4> QED BY <4>1, <4>2
      <3> QED BY <1>3, <3>1, <3>2, <3>3, GatewayAssumption
    <2>4. RoundsAreWaited'
      BY <2>2, <2>3 DEF RoundsAreWaited
    <2> QED BY <1>2, <1>4, <1>5, <2>1, <2>4 DEF Gateway!KeyIsOnRecord, SecretIsFirst
  <1> QED BY <1>6, <1>7, <1>8 DEF Gateway!CompletePair

LEMMA PairStep == PairInv /\ Gateway!PairNext => PairInv'
  <1> SUFFICES ASSUME PairInv, Gateway!PairNext PROVE PairInv'
    OBVIOUS
  <1>1. ASSUME Gateway!Tick PROVE PairInv'
    <2>1. clock' \in 0 .. Horizon /\ clock' \in Nat /\ clock' >= clock
      BY <1>1, GatewayAssumption DEF Gateway!Tick, PairInv, Gateway!PairTypeOK
    <2>2. RoundsAreWaited'
      BY <1>1, <2>1, RoundsGoOn DEF Gateway!Tick
    <2> QED BY <1>1, <2>1, <2>2
            DEF Gateway!Tick, Gateway!keyVars, PairInv, Gateway!PairTypeOK, Gateway!KeyIsOnRecord, SecretIsFirst
  <1>2. ASSUME Gateway!Restart PROVE PairInv'
    <2>1. Attempts' = {}
      BY <1>2 DEF Gateway!Restart, Attempts
    <2>2. Busy' = 0
      BY <2>1, FS_EmptySet DEF Busy
    <2>3. \A k \in Nat : 0 < Threshold + k * All
      BY Connections, GatewayAssumption
    <2>4. limiter'.failures = 0
      BY <1>2 DEF Gateway!Restart
    <2>5. RoundsAreWaited'
      BY <2>2, <2>3, <2>4, Connections, GatewayAssumption DEF RoundsAreWaited
    <2> QED BY <1>2, <2>5, GatewayAssumption
            DEF Gateway!Restart, PairInv, Gateway!PairTypeOK, Gateway!KeyIsOnRecord, SecretIsFirst
  <1>3. ASSUME NEW n \in Nonces, Gateway!IssueNonce(n) \/ Gateway!ExpireNonce(n) \/ Gateway!DropToken(n) PROVE PairInv'
    <2>1. UNCHANGED <<limiter, clock, conns, minted, file, recorded, key, starting>>
          /\ nonces' \subseteq Nonces /\ tokens' \subseteq Nonces
      BY <1>3 DEF Gateway!IssueNonce, Gateway!ExpireNonce, Gateway!DropToken, Gateway!keyVars, PairInv, Gateway!PairTypeOK
    <2>2. RoundsAreWaited'
      BY <2>1, RoundsGoOn, GatewayAssumption DEF PairInv, Gateway!PairTypeOK
    <2> QED BY <2>1, <2>2 DEF PairInv, Gateway!PairTypeOK, Gateway!KeyIsOnRecord, SecretIsFirst
  <1> QED BY <1>1, <1>2, <1>3, SecretSteps, AttemptAdmitted, AttemptCompletes DEF Gateway!PairNext

LEMMA GuessesSlowed == PairInv => Gateway!GuessesAreSlowed
  <1> SUFFICES ASSUME PairInv PROVE Gateway!GuessesAreSlowed
    OBVIOUS
  <1>1. clock \in Nat /\ limiter.failures \in Nat
    BY GatewayAssumption DEF PairInv, Gateway!PairTypeOK
  <1>2. ASSUME NEW k \in 0 .. MaxFailures, limiter.failures >= Threshold + k * All
        PROVE  clock >= k * BaseLock
    <2>1. CASE k = 0 BY <1>1, <2>1, GatewayAssumption
    <2>2. CASE k # 0
      <3>1. k \in Nat \ {0} /\ k * All \in Nat
        BY <2>2, Connections
      <3>2. limiter.failures + Busy >= Threshold + k * All
        BY <1>1, <1>2, <3>1, Connections, GatewayAssumption
      <3> QED BY <3>1, <3>2 DEF PairInv, RoundsAreWaited
    <2> QED BY <2>1, <2>2
  <1> QED BY <1>2, SameCount DEF Gateway!GuessesAreSlowed, All

\* Every step on the nonces is one of a one-time credential.
LEMMA NoncesAreOneTime == PairInv /\ Gateway!PairNext => Gateway!PairsOnce
  <1> SUFFICES ASSUME PairInv, Gateway!PairNext PROVE Gateway!PairsOnce
    OBVIOUS
  <1> USE DEF Gateway!PairsOnce, Gateway!Pairing!Next
  <1>1. ASSUME nonces' \subseteq nonces, UNCHANGED minted PROVE Gateway!PairsOnce
    <2>1. nonces' = nonces \ (nonces \ nonces')
      BY <1>1
    <2> QED BY <1>1, <2>1 DEF Gateway!Pairing!Void
  <1>2. ASSUME NEW n \in Nonces, Gateway!IssueNonce(n) PROVE Gateway!PairsOnce
    BY <1>2 DEF Gateway!IssueNonce, Gateway!Pairing!Issue
  <1>3. ASSUME NEW c \in Conns, Gateway!CompletePair(c) PROVE Gateway!PairsOnce
    <2>1. conns[c].nonce \in Nonces
      BY <1>3 DEF Gateway!CompletePair, PairInv, Gateway!PairTypeOK, Gateway!Attempt
    <2>2. CASE key # None /\ conns[c].nonce \in nonces /\ conns[c].with = key
      BY <1>3, <2>1, <2>2 DEF Gateway!CompletePair, Gateway!NoncesLeft, Gateway!Pairing!Use
    <2>3. CASE ~(key # None /\ conns[c].nonce \in nonces /\ conns[c].with = key)
      BY <1>1, <1>3, <2>3 DEF Gateway!CompletePair, Gateway!NoncesLeft
    <2> QED BY <2>2, <2>3
  <1> QED BY <1>1, <1>2, <1>3
          DEF Gateway!PairNext, Gateway!InitAuth, Gateway!RecordSecret, Gateway!TouchFile, Gateway!Tick, Gateway!Restart,
              Gateway!ExpireNonce, Gateway!DropToken, Gateway!AdmitPair, Gateway!pairVars

-----------------------------------------------------------------------------
(* The gateway's streams.                                                  *)

Tabled  == Gateway!Ticketed(pending)
Running == {x \in StreamIds : streams[x] # None}

TicketsDiffer == \A i, j \in 1 .. Len(pending) : pending[i].ticket = pending[j].ticket => i = j

StreamInv ==
    /\ Gateway!StreamTypeOK /\ TicketsDiffer
    /\ active = Cardinality(Running) /\ active <= MaxStreams

LEMMA StreamStarts == Gateway!StreamInit => StreamInv
  <1> SUFFICES ASSUME Gateway!StreamInit PROVE StreamInv
    OBVIOUS
  <1>1. Running = {}
    BY DEF Running, Gateway!StreamInit
  <1> QED BY <1>1, FS_EmptySet, GatewayAssumption
          DEF Gateway!StreamInit, StreamInv, Gateway!StreamTypeOK, TicketsDiffer

\* The tickets of a table, and what is left of them when the first or another goes.
LEMMA TicketsOf ==
    ASSUME NEW seq \in Seq(Gateway!Ticket)
    PROVE  Gateway!Ticketed(seq) = {seq[i].ticket : i \in 1 .. Len(seq)} /\ Gateway!Ticketed(seq) \subseteq Tickets
  <1>1. DOMAIN seq = 1 .. Len(seq) /\ \A i \in 1 .. Len(seq) : seq[i] \in Gateway!Ticket
    OBVIOUS
  <1>2. Gateway!Ticketed(seq) = {seq[i].ticket : i \in 1 .. Len(seq)}
    BY <1>1, Zenon DEF Gateway!Ticketed
  <1>3. \A i \in 1 .. Len(seq) : seq[i].ticket \in Tickets
    BY <1>1 DEF Gateway!Ticket
  <1> QED BY <1>2, <1>3

LEMMA FirstGoes ==
    ASSUME StreamInv, pending # <<>>
    PROVE  /\ Tail(pending) \in Seq(Gateway!Ticket) /\ Len(Tail(pending)) = Len(pending) - 1
           /\ \A i \in 1 .. Len(Tail(pending)) : Tail(pending)[i] = pending[i + 1]
           /\ Gateway!Ticketed(Tail(pending)) \subseteq Tabled
  <1>1. pending \in Seq(Gateway!Ticket)
    BY DEF StreamInv, Gateway!StreamTypeOK
  <1>2. /\ Tail(pending) \in Seq(Gateway!Ticket) /\ Len(Tail(pending)) = Len(pending) - 1 /\ Len(pending) \in Nat
        /\ \A i \in 1 .. Len(Tail(pending)) : Tail(pending)[i] = pending[i + 1]
    BY <1>1
  <1>3. \A i \in 1 .. Len(Tail(pending)) : i + 1 \in 1 .. Len(pending)
    BY <1>2
  <1>4. Tabled = {pending[i].ticket : i \in 1 .. Len(pending)}
    BY <1>1, TicketsOf DEF Tabled
  <1>5. Gateway!Ticketed(Tail(pending)) = {Tail(pending)[i].ticket : i \in 1 .. Len(Tail(pending))}
    BY <1>2, TicketsOf
  <1> QED BY <1>2, <1>3, <1>4, <1>5

LEMMA EntryGoes ==
    ASSUME StreamInv, NEW i \in 1 .. Len(pending)
    PROVE  LET rest == Gateway!Burn(pending, i) IN
           /\ rest \in Seq(Gateway!Ticket) /\ Len(rest) = Len(pending) - 1
           /\ \A j \in 1 .. Len(rest) : rest[j] = IF j < i THEN pending[j] ELSE pending[j + 1]
           /\ Gateway!Ticketed(rest) = Tabled \ {pending[i].ticket}
  <1> DEFINE n == Len(pending)
             rest == Gateway!Burn(pending, i)
  <1>1. pending \in Seq(Gateway!Ticket) /\ n \in Nat /\ n >= 1 /\ \A j \in 1 .. n : pending[j] \in Gateway!Ticket
    BY DEF StreamInv, Gateway!StreamTypeOK
  <1>2. rest = [j \in 1 .. n - 1 |-> IF j < i THEN pending[j] ELSE pending[j + 1]]
    BY DEF Gateway!Burn
  <1>3. \A j \in 1 .. n - 1 : rest[j] \in Gateway!Ticket
    BY <1>1, <1>2
  <1>4. rest \in Seq(Gateway!Ticket) /\ Len(rest) = n - 1
    BY <1>1, <1>2, <1>3
  <1>5. \A j \in 1 .. n - 1 : rest[j] = IF j < i THEN pending[j] ELSE pending[j + 1]
    BY <1>2
  <1> HIDE DEF rest
  <1>6. Gateway!Ticketed(rest) = {rest[j].ticket : j \in 1 .. n - 1} /\ Tabled = {pending[j].ticket : j \in 1 .. n}
    BY <1>1, <1>4, TicketsOf DEF Tabled
  <1>7. ASSUME NEW j \in 1 .. n - 1
        PROVE  \E k \in 1 .. n : rest[j].ticket = pending[k].ticket /\ k # i
    <2>1. CASE j < i BY <1>1, <1>5, <2>1
    <2>2. CASE ~(j < i)
      <3>1. j + 1 \in 1 .. n /\ j + 1 # i /\ rest[j] = pending[j + 1]
        BY <1>1, <1>5, <2>2
      <3> QED BY <3>1
    <2> QED BY <2>1, <2>2
  <1>8. ASSUME NEW k \in 1 .. n, k # i PROVE \E j \in 1 .. n - 1 : rest[j].ticket = pending[k].ticket
    <2>1. CASE k < i BY <1>1, <1>5, <2>1
    <2>2. CASE k > i
      <3>1. k - 1 \in 1 .. n - 1 /\ ~(k - 1 < i) /\ (k - 1) + 1 = k
        BY <1>1, <2>2
      <3> QED BY <1>5, <3>1
    <2> QED BY <1>1, <1>8, <2>1, <2>2
  <1>9. \A k \in 1 .. n : pending[k].ticket = pending[i].ticket => k = i
    BY DEF StreamInv, TicketsDiffer
  <1>10. Gateway!Ticketed(rest) \subseteq Tabled \ {pending[i].ticket}
    BY <1>6, <1>7, <1>9
  <1>11. Tabled \ {pending[i].ticket} \subseteq Gateway!Ticketed(rest)
    BY <1>6, <1>8
  <1> QED BY <1>4, <1>5, <1>10, <1>11 DEF rest

LEMMA StreamTypes == StreamInv => active \in Nat /\ IsFiniteSet(Running) /\ \A s \in StreamIds : s \in Running <=> streams[s] # None
  BY GatewayAssumption, FS_Subset DEF StreamInv, Gateway!StreamTypeOK, Running

LEMMA TicketIssued ==
    ASSUME StreamInv, NEW t \in Tickets, NEW p \in Pids, Gateway!IssueTicket(t, p)
    PROVE  StreamInv' /\ Gateway!StreamsOnce
  <1> DEFINE room == IF Len(pending) >= MaxTickets THEN Tail(pending) ELSE pending
             e == [ticket |-> t, proc |-> p]
  <1>1. pending \in Seq(Gateway!Ticket) /\ Len(pending) \in Nat /\ Len(pending) <= MaxTickets /\ MaxTickets \in Nat \ {0}
    BY GatewayAssumption DEF StreamInv, Gateway!StreamTypeOK
  <1>2. /\ room \in Seq(Gateway!Ticket) /\ Len(room) < MaxTickets /\ Len(room) \in Nat
        /\ \A i, j \in 1 .. Len(room) : room[i].ticket = room[j].ticket => i = j
        /\ Gateway!Ticketed(room) \subseteq Tabled
    <2>1. CASE Len(pending) >= MaxTickets
      <3>1. pending # <<>> /\ room = Tail(pending)
        BY <1>1, <2>1
      <3> HIDE DEF room
      <3>2. \A i \in 1 .. Len(room) : i + 1 \in 1 .. Len(pending) /\ room[i] = pending[i + 1]
        BY <1>1, <3>1, FirstGoes
      <3>3. ASSUME NEW i \in 1 .. Len(room), NEW j \in 1 .. Len(room), room[i].ticket = room[j].ticket
            PROVE  i = j
        <4>1. i + 1 = j + 1
          BY <3>2, <3>3 DEF StreamInv, TicketsDiffer
        <4> QED BY <4>1
      <3> QED BY <1>1, <3>1, <3>3, FirstGoes
    <2>2. CASE ~(Len(pending) >= MaxTickets)
      BY <1>1, <2>2 DEF StreamInv, TicketsDiffer, Tabled
    <2> QED BY <2>1, <2>2
  <1>3. t \notin Tabled /\ t \notin opened /\ pending' = Append(room, e) /\ UNCHANGED <<streams, active, opened>>
    BY DEF Gateway!IssueTicket, Tabled
  <1> HIDE DEF room
  <1>4. e \in Gateway!Ticket /\ e.ticket = t
    BY DEF Gateway!Ticket
  <1> HIDE DEF e
  <1>5. /\ pending' \in Seq(Gateway!Ticket) /\ Len(pending') = Len(room) + 1
        /\ \A i \in 1 .. Len(pending') : pending'[i] = IF i = Len(room) + 1 THEN e ELSE room[i]
    BY <1>2, <1>3, <1>4
  <1>6. Gateway!Ticketed(room) = {room[i].ticket : i \in 1 .. Len(room)}
    BY <1>2, TicketsOf
  <1>7. \A i \in 1 .. Len(room) : room[i].ticket # t
    BY <1>2, <1>3, <1>6
  <1>8. TicketsDiffer'
    <2>1. ASSUME NEW i \in 1 .. Len(pending'), NEW j \in 1 .. Len(pending'), pending'[i].ticket = pending'[j].ticket
          PROVE  i = j
      BY <1>2, <1>4, <1>5, <1>7, <2>1
    <2> QED BY <2>1 DEF TicketsDiffer
  <1>9. StreamInv'
    <2>1. Gateway!StreamTypeOK'
      BY <1>1, <1>2, <1>3, <1>5 DEF StreamInv, Gateway!StreamTypeOK
    <2>2. Running' = Running /\ active' = active
      BY <1>3 DEF Running
    <2> QED BY <1>8, <2>1, <2>2 DEF StreamInv
  <1>10. Gateway!Ticketed(pending') = Gateway!Ticketed(room) \cup {t}
    <2>1. Gateway!Ticketed(pending') = {pending'[i].ticket : i \in 1 .. Len(pending')}
      BY <1>5, TicketsOf
    <2>2. \A i \in 1 .. Len(pending') : pending'[i].ticket \in Gateway!Ticketed(room) \cup {t}
      BY <1>2, <1>4, <1>5, <1>6
    <2>3. \A i \in 1 .. Len(room) : i \in 1 .. Len(pending') /\ pending'[i] = room[i]
      BY <1>2, <1>5
    <2>4. Len(room) + 1 \in 1 .. Len(pending') /\ pending'[Len(room) + 1] = e
      BY <1>2, <1>5
    <2> QED BY <1>4, <1>6, <2>1, <2>2, <2>3, <2>4
  <1>11. Gateway!StreamsOnce
    <2> DEFINE V == Tabled \ Gateway!Ticketed(room)
    <2>1. Gateway!Ticketed(pending)' = (Tabled \ V) \cup {t} /\ V \in SUBSET Tabled
      BY <1>2, <1>10 DEF Gateway!Ticketed
    <2>2. Gateway!Streaming!IssueAndVoid(t)
      BY <1>3, <2>1 DEF Gateway!Streaming!IssueAndVoid, Tabled
    <2> QED BY <2>2 DEF Gateway!StreamsOnce, Gateway!Streaming!Next
  <1> QED BY <1>9, <1>11

\* A table that only loses tickets voids them.
LEMMA TicketsVoided ==
    ASSUME Gateway!Ticketed(pending)' \subseteq Tabled, UNCHANGED opened
    PROVE  Gateway!StreamsOnce
  <1> DEFINE V == Tabled \ Gateway!Ticketed(pending)'
  <1>1. Gateway!Ticketed(pending)' = Tabled \ V /\ V \in SUBSET Tabled
    OBVIOUS
  <1> QED BY <1>1 DEF Gateway!StreamsOnce, Gateway!Streaming!Next, Gateway!Streaming!Void, Tabled

LEMMA StreamOpens ==
    ASSUME StreamInv, NEW s \in StreamIds, NEW t \in Tickets, NEW p \in Pids, Gateway!OpenStream(s, t, p)
    PROVE  StreamInv' /\ Gateway!StreamsOnce
  <1>1. pending \in Seq(Gateway!Ticket) /\ DOMAIN pending = 1 .. Len(pending) /\ Len(pending) \in Nat /\ Len(pending) <= MaxTickets
    BY DEF StreamInv, Gateway!StreamTypeOK
  <1> PICK i \in 1 .. Len(pending) :
         /\ pending[i].ticket = t /\ pending' = Gateway!Burn(pending, i)
         /\ IF pending[i].proc = p /\ Gateway!HasRoom
            THEN /\ streams' = [streams EXCEPT ![s] = p] /\ active' = active + 1 /\ opened' = opened \cup {t}
            ELSE UNCHANGED <<streams, active, opened>>
    BY <1>1 DEF Gateway!OpenStream
  <1>2. /\ pending' \in Seq(Gateway!Ticket) /\ Len(pending') = Len(pending) - 1
        /\ \A j \in 1 .. Len(pending') : pending'[j] = IF j < i THEN pending[j] ELSE pending[j + 1]
        /\ Gateway!Ticketed(pending') = Tabled \ {t}
    BY EntryGoes
  <1>3. Gateway!Ticketed(pending)' = Tabled \ {t} /\ t \in Tabled
    <2>1. t \in Tabled
      BY <1>1, TicketsOf DEF Tabled
    <2> QED BY <1>2, <2>1 DEF Gateway!Ticketed
  <1>4. TicketsDiffer'
    <2>1. \A j \in 1 .. Len(pending') : j \in 1 .. Len(pending) /\ j + 1 \in 1 .. Len(pending)
      BY <1>1, <1>2
    <2>2. ASSUME NEW j \in 1 .. Len(pending'), NEW k \in 1 .. Len(pending'), pending'[j].ticket = pending'[k].ticket
          PROVE  j = k
      <3> DEFINE m == IF j < i THEN j ELSE j + 1
                 n == IF k < i THEN k ELSE k + 1
      <3>1. m \in 1 .. Len(pending) /\ n \in 1 .. Len(pending) /\ pending'[j] = pending[m] /\ pending'[k] = pending[n]
        BY <1>2, <2>1
      <3>2. m = n
        BY <2>2, <3>1 DEF StreamInv, TicketsDiffer
      <3> QED BY <3>2
    <2> QED BY <2>2 DEF TicketsDiffer
  <1>5. CASE ~(pending[i].proc = p /\ Gateway!HasRoom)
    <2>1. UNCHANGED <<streams, active, opened>>
      BY <1>5
    <2>2. Gateway!StreamsOnce
      BY <1>3, <2>1, TicketsVoided
    <2> QED BY <1>1, <1>2, <1>4, <2>1, <2>2, GatewayAssumption DEF StreamInv, Gateway!StreamTypeOK, Running
  <1>6. CASE pending[i].proc = p /\ Gateway!HasRoom
    <2>1. streams' = [streams EXCEPT ![s] = p] /\ active' = active + 1 /\ opened' = opened \cup {t} /\ active < MaxStreams
      BY <1>6 DEF Gateway!HasRoom
    <2>2. Gateway!StreamsOnce
      BY <1>3, <2>1 DEF Gateway!StreamsOnce, Gateway!Streaming!Next, Gateway!Streaming!Use, Tabled
    <2>3. Running' = Running \cup {s} /\ s \notin Running
      BY <2>1, GatewayAssumption DEF Running, Gateway!OpenStream, StreamInv, Gateway!StreamTypeOK
    <2>4. Cardinality(Running') = Cardinality(Running) + 1
      BY <2>3, StreamTypes, FS_AddElement
    <2>5. active' \in Nat /\ active' <= MaxStreams /\ active' = Cardinality(Running)'
      BY <2>1, <2>4, StreamTypes, GatewayAssumption DEF StreamInv
    <2>6. streams' \in [StreamIds -> Pids \cup {None}] /\ opened' \subseteq Tickets
      BY <2>1 DEF StreamInv, Gateway!StreamTypeOK
    <2>7. Len(pending') <= MaxTickets
      BY <1>1, <1>2, GatewayAssumption
    <2>8. Gateway!StreamTypeOK'
      BY <1>2, <2>5, <2>6, <2>7 DEF Gateway!StreamTypeOK
    <2> QED BY <1>4, <2>2, <2>5, <2>8 DEF StreamInv
  <1> QED BY <1>5, <1>6

LEMMA StreamStep == StreamInv /\ Gateway!StreamNext => StreamInv' /\ Gateway!StreamsOnce
  <1> SUFFICES ASSUME StreamInv, Gateway!StreamNext PROVE StreamInv' /\ Gateway!StreamsOnce
    OBVIOUS
  <1>1. ASSUME Gateway!ExpireTicket PROVE StreamInv' /\ Gateway!StreamsOnce
    <2>1. pending # <<>> /\ pending' = Tail(pending) /\ UNCHANGED <<streams, active, opened>>
      BY <1>1 DEF Gateway!ExpireTicket
    <2>2. Len(pending) \in Nat /\ Len(pending) <= MaxTickets /\ MaxTickets \in Nat
      BY GatewayAssumption DEF StreamInv, Gateway!StreamTypeOK
    <2>3. \A i \in 1 .. Len(pending') : i + 1 \in 1 .. Len(pending) /\ pending'[i] = pending[i + 1]
      BY <2>1, <2>2, FirstGoes
    <2>4. TicketsDiffer'
      BY <2>3 DEF StreamInv, TicketsDiffer
    <2>5. Gateway!Ticketed(pending)' \subseteq Tabled
      BY <2>1, FirstGoes DEF Gateway!Ticketed
    <2> QED BY <2>1, <2>2, <2>4, <2>5, FirstGoes, TicketsVoided DEF StreamInv, Gateway!StreamTypeOK, Running
  <1>2. ASSUME Gateway!RestartStreams PROVE StreamInv' /\ Gateway!StreamsOnce
    <2>1. Running' = {}
      BY <1>2 DEF Gateway!RestartStreams, Running
    <2>2. Gateway!Ticketed(pending)' = {}
      BY <1>2 DEF Gateway!RestartStreams, Gateway!Ticketed
    <2> QED BY <1>2, <2>1, <2>2, FS_EmptySet, TicketsVoided, GatewayAssumption
            DEF Gateway!RestartStreams, StreamInv, Gateway!StreamTypeOK, TicketsDiffer
  <1>3. ASSUME NEW s \in StreamIds, Gateway!CloseStream(s) PROVE StreamInv' /\ Gateway!StreamsOnce
    <2>1. Running' = Running \ {s} /\ s \in Running
      BY <1>3 DEF Gateway!CloseStream, Running, StreamInv, Gateway!StreamTypeOK
    <2>2. Cardinality(Running') = Cardinality(Running) - 1 /\ Cardinality(Running') \in Nat
      BY <2>1, StreamTypes, FS_RemoveElement, FS_CardinalityType
    <2>3. Gateway!Ticketed(pending)' \subseteq Tabled
      BY <1>3 DEF Gateway!CloseStream, Tabled, Gateway!Ticketed
    <2>4. Gateway!StreamsOnce
      BY <1>3, <2>3, TicketsVoided DEF Gateway!CloseStream
    <2>5. active' = Cardinality(Running)' /\ active' \in Nat /\ active' <= MaxStreams
      BY <1>3, <2>2, StreamTypes, GatewayAssumption DEF Gateway!CloseStream, StreamInv
    <2> QED BY <1>3, <2>4, <2>5 DEF Gateway!CloseStream, StreamInv, Gateway!StreamTypeOK, TicketsDiffer
  <1> QED BY <1>1, <1>2, <1>3, TicketIssued, StreamOpens DEF Gateway!StreamNext

LEMMA StreamsHold == StreamInv => Gateway!StreamTypeOK /\ Gateway!StreamsAreCounted
  BY SameCount DEF StreamInv, Gateway!StreamsAreCounted, Running

-----------------------------------------------------------------------------
(* The replica of the graph.                                               *)

OnHub(i) == hub[outbox[i].op.row] >= outbox[i].op.level
Here(i)  == shape[i] \in missed \/ replica[shape[i].row] >= shape[i].level

InBounds == Len(shape) <= MaxLog /\ Len(outbox) <= MaxOutbox /\ cursor <= Len(shape)

\* A push has something left to push, and what it marks next is on the hub.
PushesFollow ==
    \A p \in Pushes : pushes[p] # None =>
        /\ pushes[p].todo # {} /\ pushes[p].todo \subseteq 1 .. Len(outbox)
        /\ pushes[p].applied => OnHub(Replica!Oldest(p))

\* Of the changes up to the end of a page, those that are not here yet are on the page.
PullsFollow ==
    \A p \in Pulls : pulls[p] # None /\ ~pulls[p].snapshot =>
        /\ pulls[p].page \in Seq(Replica!Op) /\ pulls[p].upTo <= Len(shape)
        /\ \A i \in 1 .. pulls[p].upTo : Here(i) \/ \E k \in 1 .. Len(pulls[p].page) : pulls[p].page[k] = shape[i]

ReplicaInv ==
    /\ Replica!TypeOK /\ InBounds /\ PushesFollow /\ PullsFollow
    /\ Replica!PushedIsOnHub /\ Replica!CursorIsBehindReplica

LEMMA ReplicaStarts == Replica!Init => ReplicaInv
  <1> SUFFICES ASSUME Replica!Init PROVE ReplicaInv
    OBVIOUS
  <1>1. Replica!TypeOK
    BY GraphAssumption DEF Replica!Init, Replica!TypeOK
  <1>2. InBounds /\ PushesFollow /\ PullsFollow
    BY GraphAssumption DEF Replica!Init, InBounds, PushesFollow, PullsFollow
  <1>3. Replica!PushedIsOnHub /\ Replica!CursorIsBehindReplica
    BY DEF Replica!Init, Replica!PushedIsOnHub, Replica!CursorIsBehindReplica
  <1> QED BY <1>1, <1>2, <1>3 DEF ReplicaInv

LEMMA ReplicaTypes ==
    ASSUME ReplicaInv
    PROVE  /\ replica \in [Rows -> Levels \cup {0}] /\ hub \in [Rows -> Levels \cup {0}] /\ Levels \subseteq Nat \ {0}
           /\ shape \in Seq(Replica!Op) /\ Len(shape) \in Nat /\ MaxLog \in Nat /\ cursor \in Nat
           /\ outbox \in Seq([op : Replica!Op, pushed : BOOLEAN]) /\ Len(outbox) \in Nat /\ MaxOutbox \in Nat
           /\ pushes \in [Pushes -> Replica!Push \cup {None}] /\ pulls \in [Pulls -> Replica!Pull \cup {None}]
           /\ None \notin Replica!Push /\ None \notin Replica!Pull
           /\ \A i \in 1 .. Len(shape) : shape[i] \in Replica!Op
           /\ \A i \in 1 .. Len(outbox) : outbox[i] \in [op : Replica!Op, pushed : BOOLEAN]
  <1> DEFINE M == [op : Replica!Op, pushed : BOOLEAN]
  <1>1. outbox \in Seq(M) /\ shape \in Seq(Replica!Op)
    BY DEF ReplicaInv, Replica!TypeOK
  <1>2. \A i \in 1 .. Len(outbox) : outbox[i] \in M
    <2> HIDE DEF M
    <2> QED BY <1>1
  <1> QED BY <1>1, <1>2, GraphAssumption DEF ReplicaInv, Replica!TypeOK

LEMMA OpTypes ==
    ASSUME ReplicaInv
    PROVE  /\ \A i \in 1 .. Len(shape) : shape[i].row \in Rows /\ shape[i].level \in Levels /\ shape[i].level \in Nat
           /\ \A i \in 1 .. Len(outbox) : outbox[i].op.row \in Rows /\ outbox[i].op.level \in Levels /\ outbox[i].op.level \in Nat
           /\ \A r \in Rows : replica[r] \in Nat /\ hub[r] \in Nat
  BY ReplicaTypes DEF Replica!Op

\* The merge never lowers a row, and raises its row to the level of the operation.
LEMMA MergeRaises ==
    ASSUME NEW rs \in [Rows -> Levels \cup {0}], Levels \subseteq Nat \ {0},
           NEW op \in [row : Rows, level : Levels \cup {0}]
    PROVE  /\ Replica!Merged(rs, op) \in [Rows -> Levels \cup {0}]
           /\ \A r \in Rows : Replica!Merged(rs, op)[r] >= rs[r]
           /\ Replica!Merged(rs, op)[op.row] >= op.level
           /\ Replica!Merged(rs, op) # rs => Replica!Merged(rs, op)[op.row] = op.level /\ op.level \in Levels
  <1> DEFINE m == Replica!Merged(rs, op)
             v == IF op.level > rs[op.row] THEN op.level ELSE rs[op.row]
  <1>0. \A l \in Levels \cup {0} : l \in Nat /\ (l \in Levels \/ l = 0)
    OBVIOUS
  <1>1. m = [rs EXCEPT ![op.row] = v]
    BY DEF Replica!Merged
  <1>2. op.row \in Rows /\ op.level \in Levels \cup {0} /\ rs[op.row] \in Levels \cup {0}
    OBVIOUS
  <1>3. v \in Levels \cup {0} /\ v >= rs[op.row] /\ v >= op.level /\ (v # rs[op.row] => v = op.level /\ op.level \in Levels)
    <2>1. op.level \in Nat /\ rs[op.row] \in Nat /\ (op.level \in Levels \/ op.level = 0)
      BY <1>0, <1>2
    <2>2. op.level > rs[op.row] => op.level \in Levels
      BY <2>1
    <2> QED BY <1>2, <2>1, <2>2
  <1> HIDE DEF v, m
  <1>4. m[op.row] = v /\ \A r \in Rows : r # op.row => m[r] = rs[r]
    BY <1>1, <1>2
  <1>5. m \in [Rows -> Levels \cup {0}]
    BY <1>1, <1>2, <1>3
  <1>6. \A r \in Rows : m[r] >= rs[r]
    <2> SUFFICES ASSUME NEW r \in Rows PROVE m[r] >= rs[r]
      OBVIOUS
    <2>1. rs[r] \in Levels \cup {0}
      OBVIOUS
    <2>2. rs[r] \in Nat
      BY <1>0, <2>1
    <2> QED BY <1>3, <1>4, <2>2
  <1>7. m # rs => v # rs[op.row]
    BY <1>1, <1>2
  <1> QED BY <1>2, <1>3, <1>4, <1>5, <1>6, <1>7 DEF m

LEMMA OldestIsPushed ==
    ASSUME ReplicaInv, NEW p \in Pushes, pushes[p] # None
    PROVE  Replica!Oldest(p) \in pushes[p].todo /\ Replica!Oldest(p) \in 1 .. Len(outbox)
  <1> DEFINE S == pushes[p].todo
  <1>1. S # {} /\ S \subseteq 1 .. Len(outbox) /\ S \subseteq Nat
    BY ReplicaTypes DEF ReplicaInv, PushesFollow
  <1> HIDE DEF S
  <1>2. \E m \in S : \A k \in S : m <= k
    BY <1>1, LeastOf
  <1> USE DEF S
  <1> QED BY <1>1, <1>2 DEF Replica!Oldest, Replica!Min

\* What holds here stays as the replica grows and the stream gets longer.
LEMMA PullsStay ==
    ASSUME ReplicaInv, UNCHANGED <<pulls, missed, cursor>>,
           Len(shape)' \in Nat, Len(shape) <= Len(shape)', \A i \in 1 .. Len(shape) : shape'[i] = shape[i],
           replica' \in [Rows -> Levels \cup {0}], \A r \in Rows : replica'[r] >= replica[r]
    PROVE  PullsFollow' /\ Replica!CursorIsBehindReplica'
  <1>1. ASSUME NEW i \in 1 .. Len(shape), Here(i) PROVE Here(i)'
    <2>1. shape[i].row \in Rows /\ shape[i].level \in Nat /\ replica'[shape[i].row] \in Nat /\ replica[shape[i].row] \in Nat
      BY OpTypes, ReplicaTypes
    <2> QED BY <1>1, <2>1 DEF Here
  <1>2. PullsFollow'
    <2> SUFFICES ASSUME NEW p \in Pulls, pulls[p] # None, ~pulls[p].snapshot
                 PROVE  /\ pulls[p].page \in Seq(Replica!Op) /\ pulls[p].upTo <= Len(shape)'
                        /\ \A i \in 1 .. pulls[p].upTo : Here(i)' \/ \E k \in 1 .. Len(pulls[p].page) : pulls[p].page[k] = shape'[i]
      BY Zenon DEF PullsFollow
    <2>1. pulls[p].upTo \in Nat
      BY ReplicaTypes DEF Replica!Pull
    <2>2. /\ pulls[p].page \in Seq(Replica!Op) /\ pulls[p].upTo <= Len(shape)
          /\ \A i \in 1 .. pulls[p].upTo : Here(i) \/ \E k \in 1 .. Len(pulls[p].page) : pulls[p].page[k] = shape[i]
      BY DEF ReplicaInv, PullsFollow
    <2>3. \A i \in 1 .. pulls[p].upTo : i \in 1 .. Len(shape)
      BY <2>1, <2>2, ReplicaTypes
    <2> QED BY <1>1, <2>1, <2>2, <2>3, ReplicaTypes
  <1>3. \A i \in 1 .. cursor : i \in 1 .. Len(shape) /\ Here(i)
    BY ReplicaTypes DEF ReplicaInv, InBounds, Here, Replica!CursorIsBehindReplica
  <1> QED BY <1>1, <1>2, <1>3 DEF Here, Replica!CursorIsBehindReplica

LEMMA AddEpisodeStep ==
    ASSUME ReplicaInv, NEW op \in Replica!Op, Replica!AddEpisode(op)
    PROVE  ReplicaInv' /\ Replica!NeverBack
  <1> DEFINE e == [op |-> op, pushed |-> FALSE]
  <1>0. /\ Len(outbox) < MaxOutbox /\ replica' = Replica!Merged(replica, op) /\ outbox' = Append(outbox, e)
        /\ UNCHANGED <<hub, shape, cursor, pushes, pulls, missed>>
    BY DEF Replica!AddEpisode
  <1>1. op \in [row : Rows, level : Levels \cup {0}]
    BY DEF Replica!Op
  <1>2. replica' \in [Rows -> Levels \cup {0}] /\ \A r \in Rows : replica'[r] >= replica[r]
    BY <1>0, <1>1, ReplicaTypes, MergeRaises
  <1>3. e \in [op : Replica!Op, pushed : BOOLEAN] /\ e.pushed = FALSE
    OBVIOUS
  <1> HIDE DEF e
  <1>4. /\ outbox' \in Seq([op : Replica!Op, pushed : BOOLEAN]) /\ Len(outbox') = Len(outbox) + 1
        /\ \A i \in 1 .. Len(outbox) : outbox'[i] = outbox[i]
        /\ outbox'[Len(outbox) + 1] = e
    BY <1>0, <1>3, ReplicaTypes
  <1>5. Replica!TypeOK' /\ InBounds'
    BY <1>0, <1>2, <1>4, ReplicaTypes DEF ReplicaInv, InBounds, Replica!TypeOK
  <1>6. PullsFollow' /\ Replica!CursorIsBehindReplica'
    BY <1>0, <1>2, ReplicaTypes, PullsStay
  <1>7. \A i \in 1 .. Len(outbox) : OnHub(i)' <=> OnHub(i)
    BY <1>0, <1>4 DEF OnHub
  <1>8. PushesFollow'
    <2> SUFFICES ASSUME NEW p \in Pushes, pushes[p] # None
                 PROVE  /\ pushes[p].todo # {} /\ pushes[p].todo \subseteq 1 .. Len(outbox')
                        /\ pushes[p].applied => OnHub(Replica!Oldest(p))'
      BY <1>0, Zenon DEF PushesFollow
    <2>1. Replica!Oldest(p) \in 1 .. Len(outbox) /\ Replica!Oldest(p)' = Replica!Oldest(p)
      BY <1>0, OldestIsPushed DEF Replica!Oldest
    <2>2. OnHub(Replica!Oldest(p)') <=> OnHub(Replica!Oldest(p))
      BY <2>1
    <2> QED BY <1>0, <1>4, <1>7, <2>1, ReplicaTypes DEF ReplicaInv, PushesFollow, OnHub
  <1>9. Replica!PushedIsOnHub'
    BY <1>0, <1>3, <1>4, ReplicaTypes DEF ReplicaInv, Replica!PushedIsOnHub
  <1>10. Replica!NeverBack
    BY <1>0, <1>2, OpTypes DEF Replica!NeverBack
  <1> QED BY <1>5, <1>6, <1>8, <1>9, <1>10 DEF ReplicaInv

\* The hub takes an operation: its row is at that level, and the stream may carry one change more.
LEMMA HubTakesStep ==
    ASSUME ReplicaInv, NEW op \in Replica!Op, Len(shape) < MaxLog, Replica!HubTakes(op),
           UNCHANGED <<replica, cursor, outbox, pulls, missed>>
    PROVE  /\ hub' \in [Rows -> Levels \cup {0}] /\ (\A r \in Rows : hub'[r] >= hub[r]) /\ hub'[op.row] >= op.level
           /\ shape' \in Seq(Replica!Op) /\ InBounds' /\ PullsFollow' /\ Replica!CursorIsBehindReplica'
           /\ Replica!PushedIsOnHub' /\ Replica!NeverBack
           /\ \A i \in 1 .. Len(outbox) : OnHub(i) => OnHub(i)'
  <1>0. /\ hub' = Replica!Merged(hub, op)
        /\ shape' = IF hub' = hub THEN shape ELSE Append(shape, [row |-> op.row, level |-> hub'[op.row]])
    BY DEF Replica!HubTakes
  <1>1. op \in [row : Rows, level : Levels \cup {0}] /\ op.row \in Rows
    BY DEF Replica!Op
  <1>2. /\ hub' \in [Rows -> Levels \cup {0}] /\ (\A r \in Rows : hub'[r] >= hub[r]) /\ hub'[op.row] >= op.level
        /\ hub' # hub => hub'[op.row] \in Levels
    BY <1>0, <1>1, ReplicaTypes, MergeRaises
  <1> DEFINE x == [row |-> op.row, level |-> hub'[op.row]]
  <1>3. hub' # hub => x \in Replica!Op
    BY <1>1, <1>2 DEF Replica!Op
  <1> HIDE DEF x
  <1>4. /\ shape' \in Seq(Replica!Op) /\ Len(shape') \in {Len(shape), Len(shape) + 1}
        /\ \A i \in 1 .. Len(shape) : shape'[i] = shape[i]
    <2>1. shape' = IF hub' = hub THEN shape ELSE Append(shape, x)
      BY <1>0 DEF x
    <2> QED BY <1>3, <2>1, ReplicaTypes
  <1>5. InBounds'
    BY <1>4, ReplicaTypes DEF ReplicaInv, InBounds
  <1>6. PullsFollow' /\ Replica!CursorIsBehindReplica'
    <2>1. Len(shape)' \in Nat /\ Len(shape) <= Len(shape)' /\ replica' \in [Rows -> Levels \cup {0}]
          /\ \A r \in Rows : replica'[r] >= replica[r]
      BY <1>4, ReplicaTypes, OpTypes
    <2> QED BY <1>4, <2>1, PullsStay
  <1>7. \A i \in 1 .. Len(outbox) : OnHub(i) => OnHub(i)'
    <2> SUFFICES ASSUME NEW i \in 1 .. Len(outbox), OnHub(i) PROVE OnHub(i)'
      OBVIOUS
    <2>1. outbox[i].op.row \in Rows /\ outbox[i].op.level \in Nat
      BY OpTypes
    <2>2. hub[outbox[i].op.row] \in Nat /\ hub'[outbox[i].op.row] \in Nat
      BY <1>2, <2>1, ReplicaTypes
    <2> QED BY <1>2, <2>1, <2>2 DEF OnHub
  <1>8. Replica!PushedIsOnHub'
    <2>1. \A i \in 1 .. Len(outbox) : outbox[i].pushed => OnHub(i)
      BY ReplicaTypes DEF ReplicaInv, Replica!PushedIsOnHub, OnHub
    <2> QED BY <1>7, <2>1, ReplicaTypes DEF Replica!PushedIsOnHub, OnHub
  <1>9. Replica!NeverBack
    BY <1>2, OpTypes DEF Replica!NeverBack
  <1> QED BY <1>2, <1>4, <1>5, <1>6, <1>7, <1>8, <1>9

LEMMA RemoteWriteStep ==
    ASSUME ReplicaInv, NEW op \in Replica!Op, Replica!RemoteWrite(op)
    PROVE  ReplicaInv' /\ Replica!NeverBack
  <1>0. Len(shape) < MaxLog /\ Replica!HubTakes(op) /\ UNCHANGED <<replica, cursor, outbox, pushes, pulls, missed>>
    BY DEF Replica!RemoteWrite
  <1>1. /\ hub' \in [Rows -> Levels \cup {0}] /\ shape' \in Seq(Replica!Op) /\ InBounds' /\ PullsFollow'
        /\ Replica!CursorIsBehindReplica' /\ Replica!PushedIsOnHub' /\ Replica!NeverBack
        /\ \A i \in 1 .. Len(outbox) : OnHub(i) => OnHub(i)'
    BY <1>0, HubTakesStep
  <1>2. Replica!TypeOK'
    BY <1>0, <1>1 DEF ReplicaInv, Replica!TypeOK
  <1>3. PushesFollow'
    <2> SUFFICES ASSUME NEW p \in Pushes, pushes[p] # None
                 PROVE  /\ pushes[p].todo # {} /\ pushes[p].todo \subseteq 1 .. Len(outbox)
                        /\ pushes[p].applied => OnHub(Replica!Oldest(p))'
      BY <1>0, Zenon DEF PushesFollow
    <2>1. Replica!Oldest(p) \in 1 .. Len(outbox) /\ Replica!Oldest(p)' = Replica!Oldest(p)
      BY <1>0, OldestIsPushed DEF Replica!Oldest
    <2> QED BY <1>0, <1>1, <2>1 DEF ReplicaInv, PushesFollow, OnHub
  <1> QED BY <1>1, <1>2, <1>3 DEF ReplicaInv

LEMMA StartPushStep ==
    ASSUME ReplicaInv, NEW p \in Pushes, Replica!StartPush(p) \/ Replica!StopPush(p)
    PROVE  ReplicaInv' /\ Replica!NeverBack
  <1> DEFINE x == IF Replica!StopPush(p) THEN None ELSE [todo |-> Replica!Pending, applied |-> FALSE]
  <1>0. pushes' = [pushes EXCEPT ![p] = x] /\ UNCHANGED <<replica, hub, shape, cursor, outbox, pulls, missed>>
    BY DEF Replica!StartPush, Replica!StopPush
  <1>1. Replica!Pending \subseteq 1 .. Len(outbox) /\ Replica!Pending \subseteq 1 .. MaxOutbox
    BY ReplicaTypes DEF Replica!Pending, ReplicaInv, InBounds
  <1>2. /\ x \in Replica!Push \cup {None}
        /\ x # None => x.todo # {} /\ x.todo \subseteq 1 .. Len(outbox) /\ ~x.applied
    <2>1. CASE Replica!StopPush(p)
      BY <2>1
    <2>2. CASE ~Replica!StopPush(p)
      <3>1. Replica!Pending # {} /\ x = [todo |-> Replica!Pending, applied |-> FALSE]
        BY <2>2 DEF Replica!StartPush
      <3> HIDE DEF x
      <3> QED BY <1>1, <3>1 DEF Replica!Push
    <2> QED BY <2>1, <2>2
  <1> HIDE DEF x
  <1>3. Replica!TypeOK' /\ InBounds' /\ PullsFollow' /\ Replica!CursorIsBehindReplica' /\ Replica!PushedIsOnHub'
    BY <1>0, <1>2 DEF ReplicaInv, Replica!TypeOK, InBounds, PullsFollow, Here, Replica!CursorIsBehindReplica, Replica!PushedIsOnHub
  <1>4. PushesFollow'
    BY <1>0, <1>2, ReplicaTypes DEF ReplicaInv, PushesFollow, OnHub, Replica!Oldest
  <1>5. Replica!NeverBack
    BY <1>0, OpTypes DEF Replica!NeverBack
  <1> QED BY <1>3, <1>4, <1>5 DEF ReplicaInv

LEMMA ApplyOnHubStep ==
    ASSUME ReplicaInv, NEW p \in Pushes, Replica!ApplyOnHub(p)
    PROVE  ReplicaInv' /\ Replica!NeverBack
  <1> DEFINE i == Replica!Oldest(p)
             x == [pushes[p] EXCEPT !.applied = TRUE]
             op == outbox[i].op
  <1>0. /\ pushes[p] # None /\ Len(shape) < MaxLog /\ Replica!HubTakes(op) /\ pushes' = [pushes EXCEPT ![p] = x]
        /\ UNCHANGED <<replica, cursor, outbox, pulls, missed>>
    BY DEF Replica!ApplyOnHub
  <1>1. i \in 1 .. Len(outbox) /\ i \in pushes[p].todo /\ pushes[p] \in Replica!Push
    BY <1>0, OldestIsPushed, ReplicaTypes
  <1>2. op \in Replica!Op
    BY <1>1, ReplicaTypes
  <1>3. x \in Replica!Push /\ x.todo = pushes[p].todo
    BY <1>1 DEF Replica!Push
  <1> HIDE DEF x
  <1>4. /\ hub' \in [Rows -> Levels \cup {0}] /\ shape' \in Seq(Replica!Op) /\ InBounds' /\ PullsFollow'
        /\ hub'[op.row] >= op.level
        /\ Replica!CursorIsBehindReplica' /\ Replica!PushedIsOnHub' /\ Replica!NeverBack
        /\ \A j \in 1 .. Len(outbox) : OnHub(j) => OnHub(j)'
    <2> HIDE DEF op
    <2> QED BY <1>0, <1>2, HubTakesStep
  <1>5. Replica!TypeOK'
    BY <1>0, <1>3, <1>4 DEF ReplicaInv, Replica!TypeOK
  <1>6. PushesFollow'
    <2> SUFFICES ASSUME NEW q \in Pushes, pushes'[q] # None
                 PROVE  /\ pushes'[q].todo # {} /\ pushes'[q].todo \subseteq 1 .. Len(outbox)
                        /\ pushes'[q].applied => OnHub(Replica!Oldest(q))'
      BY <1>0, Zenon DEF PushesFollow
    <2>1. pushes[q] # None /\ pushes'[q].todo = pushes[q].todo /\ (q # p => pushes'[q] = pushes[q])
      BY <1>0, <1>3, ReplicaTypes
    <2>2. Replica!Oldest(q)' = Replica!Oldest(q) /\ Replica!Oldest(q) \in 1 .. Len(outbox)
      BY <2>1, OldestIsPushed DEF Replica!Oldest
    <2>3. pushes'[q].applied => hub'[outbox[Replica!Oldest(q)].op.row] >= outbox[Replica!Oldest(q)].op.level
      <3>1. CASE q = p
        BY <1>4, <3>1
      <3>2. CASE q # p
        BY <1>0, <1>4, <2>1, <2>2, <3>2 DEF ReplicaInv, PushesFollow, OnHub
      <3> QED BY <3>1, <3>2
    <2> QED BY <1>0, <2>1, <2>2, <2>3 DEF ReplicaInv, PushesFollow, OnHub
  <1> QED BY <1>4, <1>5, <1>6 DEF ReplicaInv

LEMMA MarkPushedStep ==
    ASSUME ReplicaInv, NEW p \in Pushes, Replica!MarkPushed(p)
    PROVE  ReplicaInv' /\ Replica!NeverBack
  <1> DEFINE i == Replica!Oldest(p)
             todo == pushes[p].todo
             y == [outbox[i] EXCEPT !.pushed = TRUE]
             x == IF todo = {i} THEN None ELSE [todo |-> todo \ {i}, applied |-> FALSE]
  <1>0. /\ pushes[p] # None /\ pushes[p].applied /\ outbox' = [outbox EXCEPT ![i] = y] /\ pushes' = [pushes EXCEPT ![p] = x]
        /\ UNCHANGED <<replica, hub, shape, cursor, pulls, missed>>
    BY DEF Replica!MarkPushed, Replica!MayMark
  <1>1. i \in 1 .. Len(outbox) /\ i \in todo /\ pushes[p] \in Replica!Push
    BY <1>0, OldestIsPushed, ReplicaTypes
  <1>2. OnHub(i) /\ todo \subseteq 1 .. Len(outbox)
    BY <1>0 DEF ReplicaInv, PushesFollow
  <1>3. y \in [op : Replica!Op, pushed : BOOLEAN] /\ y.op = outbox[i].op
    BY <1>1, ReplicaTypes
  <1>4. /\ x \in Replica!Push \cup {None}
        /\ x # None => x.todo # {} /\ x.todo \subseteq 1 .. Len(outbox) /\ ~x.applied
    <2>1. todo \subseteq 1 .. MaxOutbox
      BY <1>1 DEF Replica!Push
    <2>2. CASE todo = {i}
      BY <2>2
    <2>3. CASE todo # {i}
      <3>1. x = [todo |-> todo \ {i}, applied |-> FALSE] /\ todo \ {i} # {}
        BY <1>1, <2>3
      <3> HIDE DEF x, todo, i
      <3> QED BY <1>2, <2>1, <3>1 DEF Replica!Push
    <2> QED BY <2>2, <2>3
  <1> HIDE DEF x, y, todo, i
  <1>5. /\ outbox' \in Seq([op : Replica!Op, pushed : BOOLEAN]) /\ Len(outbox') = Len(outbox)
        /\ \A j \in 1 .. Len(outbox) : outbox'[j] = IF j = i THEN y ELSE outbox[j]
    BY <1>0, <1>1, <1>3, ReplicaTypes
  <1>6. Replica!TypeOK' /\ InBounds' /\ PullsFollow' /\ Replica!CursorIsBehindReplica'
    BY <1>0, <1>4, <1>5 DEF ReplicaInv, Replica!TypeOK, InBounds, PullsFollow, Here, Replica!CursorIsBehindReplica
  <1>7. \A j \in 1 .. Len(outbox) : outbox'[j].op = outbox[j].op /\ (OnHub(j)' <=> OnHub(j))
    BY <1>0, <1>3, <1>5 DEF OnHub
  <1>8. Replica!PushedIsOnHub'
    <2> SUFFICES ASSUME NEW j \in 1 .. Len(outbox), outbox'[j].pushed PROVE OnHub(j)'
      BY <1>5, ReplicaTypes DEF Replica!PushedIsOnHub, OnHub
    <2>1. OnHub(j)
      BY <1>2, <1>5, ReplicaTypes DEF ReplicaInv, Replica!PushedIsOnHub, OnHub
    <2> QED BY <1>7, <2>1
  <1>9. PushesFollow'
    <2> SUFFICES ASSUME NEW q \in Pushes, pushes'[q] # None
                 PROVE  /\ pushes'[q].todo # {} /\ pushes'[q].todo \subseteq 1 .. Len(outbox')
                        /\ pushes'[q].applied => OnHub(Replica!Oldest(q))'
      BY Zenon DEF PushesFollow
    <2>1. CASE q = p
      BY <1>0, <1>4, <1>5, <2>1, ReplicaTypes
    <2>2. CASE q # p
      <3>1. pushes'[q] = pushes[q] /\ pushes[q] # None
        BY <1>0, <2>2, ReplicaTypes
      <3>2. Replica!Oldest(q)' = Replica!Oldest(q) /\ Replica!Oldest(q) \in 1 .. Len(outbox)
        BY <3>1, OldestIsPushed DEF Replica!Oldest
      <3> QED BY <1>0, <1>5, <1>7, <3>1, <3>2 DEF ReplicaInv, PushesFollow, OnHub
    <2> QED BY <2>1, <2>2
  <1>10. Replica!NeverBack
    BY <1>0, OpTypes DEF Replica!NeverBack
  <1> QED BY <1>6, <1>8, <1>9, <1>10 DEF ReplicaInv

\* Beginning and ending a pull: the rows stay, and the cursor moves to the end of a page that is done.
LEMMA TurnPullStep ==
    ASSUME ReplicaInv, NEW p \in Pulls, NEW x \in Replica!Pull \cup {None}, pulls' = [pulls EXCEPT ![p] = x],
           UNCHANGED <<replica, hub, shape, outbox, pushes, missed>>,
           x # None => \/ x.snapshot
                       \/ /\ x.page \in Seq(Replica!Op) /\ x.upTo <= Len(shape)
                          /\ \A i \in 1 .. x.upTo : Here(i) \/ \E k \in 1 .. Len(x.page) : x.page[k] = shape[i],
           cursor' \in 0 .. Len(shape), \A i \in 1 .. cursor' : Here(i)
    PROVE  ReplicaInv' /\ Replica!NeverBack
  <1>1. Replica!TypeOK'
    BY ReplicaTypes DEF ReplicaInv, Replica!TypeOK, InBounds
  <1>2. InBounds' /\ PushesFollow' /\ Replica!PushedIsOnHub'
    BY ReplicaTypes DEF ReplicaInv, InBounds, PushesFollow, Replica!PushedIsOnHub, OnHub, Replica!Oldest
  <1>3. PullsFollow'
    <2> SUFFICES ASSUME NEW q \in Pulls, pulls'[q] # None, ~pulls'[q].snapshot
                 PROVE  /\ pulls'[q].page \in Seq(Replica!Op) /\ pulls'[q].upTo <= Len(shape)
                        /\ \A i \in 1 .. pulls'[q].upTo : Here(i) \/ \E k \in 1 .. Len(pulls'[q].page) : pulls'[q].page[k] = shape[i]
      BY DEF PullsFollow, Here
    <2>1. CASE q = p
      <3>1. pulls'[q] = x
        BY <2>1, ReplicaTypes
      <3> QED BY <3>1
    <2>2. CASE q # p
      <3>1. pulls'[q] = pulls[q]
        BY <2>2, ReplicaTypes
      <3> QED BY <3>1 DEF ReplicaInv, PullsFollow
    <2> QED BY <2>1, <2>2
  <1>4. Replica!CursorIsBehindReplica'
    BY DEF Here, Replica!CursorIsBehindReplica
  <1>5. Replica!NeverBack
    BY OpTypes DEF Replica!NeverBack
  <1> QED BY <1>1, <1>2, <1>3, <1>4, <1>5 DEF ReplicaInv

LEMMA CursorIsHere == ReplicaInv => cursor \in 0 .. Len(shape) /\ \A i \in 1 .. cursor : Here(i)
  BY ReplicaTypes DEF ReplicaInv, InBounds, Here, Replica!CursorIsBehindReplica

LEMMA FetchPageStep ==
    ASSUME ReplicaInv, NEW p \in Pulls, Replica!FetchPage(p)
    PROVE  ReplicaInv' /\ Replica!NeverBack
  <1> DEFINE page == SubSeq(shape, cursor + 1, Len(shape))
             x == [page |-> page, upTo |-> Len(shape), snapshot |-> FALSE]
  <1>0. pulls' = [pulls EXCEPT ![p] = x] /\ UNCHANGED <<replica, hub, shape, cursor, outbox, pushes, missed>>
    BY DEF Replica!FetchPage
  <1>1. cursor \in 0 .. Len(shape) /\ \A i \in 1 .. cursor : Here(i)
    BY CursorIsHere
  <1>2. /\ page \in Seq(Replica!Op) /\ Len(page) = Len(shape) - cursor
        /\ \A k \in 1 .. Len(page) : page[k] = shape[cursor + k]
    <2>1. shape \in Seq(Replica!Op) /\ Len(shape) \in Nat /\ cursor \in Nat /\ cursor <= Len(shape)
      BY <1>1, ReplicaTypes
    <2>2. Len(page) = Len(shape) - cursor
      BY <2>1
    <2>3. page \in Seq(Replica!Op)
      BY <2>1
    <2>4. \A k \in 1 .. Len(page) : page[k] = shape[cursor + k]
      BY <2>1, <2>2
    <2> QED BY <2>2, <2>3, <2>4
  <1> HIDE DEF page
  <1>3. page \in Seq([row : Rows, level : Levels \cup {0}])
    <2>1. Replica!Op \subseteq [row : Rows, level : Levels \cup {0}]
      BY DEF Replica!Op
    <2> DEFINE M == [row : Rows, level : Levels \cup {0}]
    <2>2. Replica!Op \subseteq M
      BY <2>1
    <2> HIDE DEF M
    <2>3. page \in Seq(M)
      BY <1>2, <2>2
    <2> QED BY <2>3 DEF M
  <1>4. x \in Replica!Pull
    BY <1>3, ReplicaTypes DEF ReplicaInv, InBounds, Replica!Pull
  <1>5. x.page = page /\ x.upTo = Len(shape)
    OBVIOUS
  <1> HIDE DEF x
  <1>6. \A i \in 1 .. Len(shape) : Here(i) \/ \E k \in 1 .. Len(page) : page[k] = shape[i]
    <2> SUFFICES ASSUME NEW i \in 1 .. Len(shape), i > cursor PROVE \E k \in 1 .. Len(page) : page[k] = shape[i]
      BY <1>1, ReplicaTypes
    <2>1. i - cursor \in 1 .. Len(page) /\ cursor + (i - cursor) = i
      BY <1>1, <1>2, ReplicaTypes
    <2> QED BY <1>2, <2>1
  <1>7. x.upTo <= Len(shape)
    BY <1>5, ReplicaTypes
  <1> QED BY <1>0, <1>1, <1>2, <1>4, <1>5, <1>6, <1>7, TurnPullStep

LEMMA RowsAreCounted == Replica!Cardinality(Rows) = Cardinality(Rows)
  BY DEF Cardinality, Replica!Cardinality

LEMMA FetchSnapshotStep ==
    ASSUME ReplicaInv, NEW p \in Pulls, Replica!FetchSnapshot(p)
    PROVE  ReplicaInv' /\ Replica!NeverBack
  <1>1. PICK order \in [1 .. Cardinality(Rows) -> Rows] :
            pulls' = [pulls EXCEPT ![p] =
                [page |-> [i \in DOMAIN order |-> [row |-> order[i], level |-> hub[order[i]]]],
                 upTo |-> 0, snapshot |-> TRUE]]
    BY RowsAreCounted DEF Replica!FetchSnapshot
  <1> DEFINE page == [i \in DOMAIN order |-> [row |-> order[i], level |-> hub[order[i]]]]
             x == [page |-> page, upTo |-> 0, snapshot |-> TRUE]
             M == [row : Rows, level : Levels \cup {0}]
             n == Cardinality(Rows)
  <1>2. n \in Nat
    BY GraphAssumption, FS_CardinalityType
  <1>3. page \in [1 .. n -> M]
    BY ReplicaTypes
  <1> HIDE DEF page, M, n
  <1>4. page \in Seq(M)
    BY <1>2, <1>3
  <1>5. x \in Replica!Pull /\ x.snapshot
    BY <1>4, ReplicaTypes DEF Replica!Pull, M
  <1>6. pulls' = [pulls EXCEPT ![p] = x]
    BY <1>1 DEF page
  <1> HIDE DEF x
  <1>7. UNCHANGED <<replica, hub, shape, cursor, outbox, pushes, missed>>
    BY DEF Replica!FetchSnapshot
  <1> QED BY <1>5, <1>6, <1>7, CursorIsHere, TurnPullStep

LEMMA FinishPageStep ==
    ASSUME ReplicaInv, NEW p \in Pulls, Replica!FinishPage(p) \/ Replica!StopPull(p)
    PROVE  ReplicaInv' /\ Replica!NeverBack
  <1>1. pulls[p] # None /\ pulls' = [pulls EXCEPT ![p] = None] /\ UNCHANGED <<replica, hub, shape, outbox, pushes, missed>>
    BY DEF Replica!FinishPage, Replica!StopPull
  <1>2. cursor' \in 0 .. Len(shape) /\ \A i \in 1 .. cursor' : Here(i)
    <2>1. CASE cursor' = cursor
      BY <2>1, CursorIsHere
    <2>2. CASE cursor' # cursor
      <3>1. ~pulls[p].snapshot /\ cursor' = pulls[p].upTo /\ pulls[p].page = <<>>
        BY <2>2 DEF Replica!FinishPage, Replica!PageDone, Replica!StopPull
      <3>2. pulls[p].upTo \in Nat
        BY <1>1, ReplicaTypes DEF Replica!Pull
      <3> QED BY <1>1, <3>1, <3>2, ReplicaTypes DEF ReplicaInv, PullsFollow
    <2> QED BY <2>1, <2>2
  <1> QED BY <1>1, <1>2, TurnPullStep

LEMMA ApplyRowStep ==
    ASSUME ReplicaInv, NEW p \in Pulls, Replica!ApplyRow(p)
    PROVE  ReplicaInv' /\ Replica!NeverBack
  <1> DEFINE page == pulls[p].page
             op == Head(page)
             x == [pulls[p] EXCEPT !.page = Tail(page)]
             M == [row : Rows, level : Levels \cup {0}]
  <1>0. /\ pulls[p] # None /\ page # <<>> /\ pulls' = [pulls EXCEPT ![p] = x] /\ UNCHANGED <<hub, shape, cursor, outbox, pushes>>
        /\ \/ replica' = Replica!Merged(replica, op) /\ missed' = {m \in missed : m.row # op.row \/ m.level > op.level}
           \/ missed' = (IF pulls[p].snapshot THEN missed ELSE missed \cup {op}) /\ UNCHANGED replica
    BY DEF Replica!ApplyRow
  <1>1. pulls[p] \in Replica!Pull /\ page \in Seq(M)
    BY <1>0, ReplicaTypes DEF Replica!Pull
  <1>2. op \in M /\ Tail(page) \in Seq(M) /\ Len(page) \in Nat /\ Len(page) > 0 /\ op = page[1]
        /\ Len(Tail(page)) = Len(page) - 1 /\ \A k \in 1 .. Len(Tail(page)) : Tail(page)[k] = page[k + 1]
    <2> HIDE DEF M
    <2> QED BY <1>0, <1>1
  <1>3. x \in Replica!Pull /\ x.page = Tail(page) /\ x.upTo = pulls[p].upTo /\ x.snapshot = pulls[p].snapshot
    <2> HIDE DEF op
    <2> QED BY <1>1, <1>2 DEF Replica!Pull
  <1>4. ~pulls[p].snapshot =>
            /\ page \in Seq(Replica!Op) /\ pulls[p].upTo <= Len(shape) /\ pulls[p].upTo \in Nat
            /\ \A i \in 1 .. pulls[p].upTo : Here(i) \/ \E k \in 1 .. Len(page) : page[k] = shape[i]
    BY <1>0, <1>1 DEF ReplicaInv, PullsFollow, Replica!Pull
  <1>5. ~pulls[p].snapshot => op \in Replica!Op /\ Tail(page) \in Seq(Replica!Op)
    BY <1>2, <1>4
  <1>6. op.row \in Rows /\ op.level \in Levels \cup {0} /\ op.level \in Nat
    BY <1>2, ReplicaTypes
  <1> HIDE DEF x, op
  <1>7. /\ replica' \in [Rows -> Levels \cup {0}] /\ \A r \in Rows : replica'[r] >= replica[r]
        /\ \/ missed' = {m \in missed : m.row # op.row \/ m.level > op.level} /\ replica'[op.row] >= op.level
           \/ missed \subseteq missed'
        /\ missed' \subseteq Replica!Op
    <2>1. missed \subseteq Replica!Op
      BY DEF ReplicaInv, Replica!TypeOK
    <2>2. CASE /\ replica' = Replica!Merged(replica, op)
               /\ missed' = {m \in missed : m.row # op.row \/ m.level > op.level}
      <3>1. /\ replica' \in [Rows -> Levels \cup {0}] /\ \A r \in Rows : replica'[r] >= replica[r]
            /\ replica'[op.row] >= op.level
        BY <1>2, <2>2, ReplicaTypes, MergeRaises
      <3> QED BY <2>1, <2>2, <3>1
    <2>3. CASE missed' = (IF pulls[p].snapshot THEN missed ELSE missed \cup {op}) /\ UNCHANGED replica
      BY <1>5, <2>1, <2>3, ReplicaTypes, OpTypes
    <2> QED BY <1>0, <2>2, <2>3
  <1>8. ~pulls[p].snapshot => op \in missed' \/ replica'[op.row] >= op.level
    BY <1>0, <1>2, <1>7, ReplicaTypes, MergeRaises
  <1>9. ASSUME NEW i \in 1 .. Len(shape), Here(i) PROVE Here(i)'
    <2>1. /\ shape[i] \in Replica!Op /\ shape[i].row \in Rows /\ shape[i].level \in Nat
          /\ replica[shape[i].row] \in Nat /\ replica'[shape[i].row] \in Nat /\ replica'[shape[i].row] >= replica[shape[i].row]
      BY <1>7, OpTypes, ReplicaTypes
    <2>2. CASE replica[shape[i].row] >= shape[i].level
      BY <1>0, <2>1, <2>2 DEF Here
    <2>3. CASE shape[i] \in missed
      <3>1. CASE shape[i] \in missed'
        BY <1>0, <3>1 DEF Here
      <3>2. CASE shape[i] \notin missed'
        <4>1. shape[i].row = op.row /\ ~(shape[i].level > op.level) /\ replica'[op.row] >= op.level
          BY <1>7, <2>3, <3>2
        <4>2. replica'[op.row] >= shape[i].level
          BY <1>6, <2>1, <4>1
        <4> QED BY <1>0, <4>1, <4>2 DEF Here
      <3> QED BY <3>1, <3>2
    <2> QED BY <1>9, <2>2, <2>3 DEF Here
  <1>10. Replica!TypeOK'
    BY <1>0, <1>3, <1>7, ReplicaTypes DEF ReplicaInv, Replica!TypeOK
  <1>11. InBounds' /\ PushesFollow' /\ Replica!PushedIsOnHub'
    BY <1>0, ReplicaTypes DEF ReplicaInv, InBounds, PushesFollow, Replica!PushedIsOnHub, OnHub, Replica!Oldest
  <1>12. PullsFollow'
    <2> SUFFICES ASSUME NEW q \in Pulls, pulls'[q] # None, ~pulls'[q].snapshot
                 PROVE  /\ pulls'[q].page \in Seq(Replica!Op) /\ pulls'[q].upTo <= Len(shape)
                        /\ \A i \in 1 .. pulls'[q].upTo : Here(i)' \/ \E k \in 1 .. Len(pulls'[q].page) : pulls'[q].page[k] = shape[i]
      BY <1>0 DEF PullsFollow, Here
    <2>1. CASE q = p
      <3>1. pulls'[q] = x /\ ~pulls[p].snapshot /\ x.page = Tail(page) /\ x.upTo = pulls[p].upTo
        BY <1>0, <1>3, <2>1, ReplicaTypes
      <3>2. ASSUME NEW i \in 1 .. pulls[p].upTo PROVE Here(i)' \/ \E k \in 1 .. Len(Tail(page)) : Tail(page)[k] = shape[i]
        <4>0. i \in 1 .. Len(shape)
          BY <1>4, <3>1, ReplicaTypes
        <4>1. CASE Here(i)
          BY <1>9, <4>0, <4>1
        <4>2. CASE ~Here(i)
          <5>1. PICK k \in 1 .. Len(page) : page[k] = shape[i]
            BY <1>4, <3>1, <4>2
          <5>2. CASE k = 1
            <6>1. shape[i] = op
              BY <1>2, <5>1, <5>2
            <6> QED BY <1>0, <1>8, <3>1, <6>1 DEF Here
          <5>3. CASE k # 1
            <6>1. k - 1 \in 1 .. Len(Tail(page)) /\ (k - 1) + 1 = k
              BY <1>2, <5>3
            <6> QED BY <1>2, <5>1, <6>1
          <5> QED BY <5>2, <5>3
        <4> QED BY <4>1, <4>2
      <3> QED BY <1>4, <1>5, <3>1, <3>2
    <2>2. CASE q # p
      <3>1. pulls'[q] = pulls[q] /\ pulls[q] # None
        BY <1>0, <2>2, ReplicaTypes
      <3>2. /\ pulls[q].page \in Seq(Replica!Op) /\ pulls[q].upTo <= Len(shape) /\ pulls[q].upTo \in Nat
            /\ \A i \in 1 .. pulls[q].upTo : Here(i) \/ \E k \in 1 .. Len(pulls[q].page) : pulls[q].page[k] = shape[i]
        BY <3>1, ReplicaTypes DEF ReplicaInv, PullsFollow, Replica!Pull
      <3>3. \A i \in 1 .. pulls[q].upTo : i \in 1 .. Len(shape)
        BY <3>2, ReplicaTypes
      <3> QED BY <1>9, <3>1, <3>2, <3>3
    <2> QED BY <2>1, <2>2
  <1>13. Replica!CursorIsBehindReplica'
    <2>1. \A i \in 1 .. cursor : i \in 1 .. Len(shape) /\ Here(i)
      BY CursorIsHere, ReplicaTypes
    <2>2. \A i \in 1 .. cursor : Here(i)'
      BY <1>9, <2>1
    <2> QED BY <1>0, <2>2 DEF Here, Replica!CursorIsBehindReplica
  <1>14. Replica!NeverBack
    BY <1>0, <1>7, OpTypes DEF Replica!NeverBack
  <1> QED BY <1>10, <1>11, <1>12, <1>13, <1>14 DEF ReplicaInv

LEMMA ReplicaStep == ReplicaInv /\ Replica!Next => ReplicaInv' /\ Replica!NeverBack
  BY AddEpisodeStep, RemoteWriteStep, StartPushStep, ApplyOnHubStep, MarkPushedStep, FetchPageStep, FetchSnapshotStep,
     ApplyRowStep, FinishPageStep DEF Replica!Next

LEMMA ReplicaRests == ReplicaInv /\ UNCHANGED replicaVars => ReplicaInv' /\ Replica!NeverBack
  <1> SUFFICES ASSUME ReplicaInv, UNCHANGED replicaVars PROVE ReplicaInv' /\ Replica!NeverBack
    OBVIOUS
  <1>1. Replica!NeverBack
    BY OpTypes DEF replicaVars, Replica!NeverBack
  <1>2. ReplicaInv'
    BY DEF replicaVars, ReplicaInv, Replica!TypeOK, InBounds, PushesFollow, PullsFollow, Replica!PushedIsOnHub,
           Replica!CursorIsBehindReplica, OnHub, Here, Replica!Oldest
  <1> QED BY <1>1, <1>2

-----------------------------------------------------------------------------
(* What is derived into the graph.                                         *)

Facts == Knowledge!Facts
Shared(n) == \A f \in 1 .. n : facts[f] # "none"
Ingested(f) == facts[f] = "active" => Knowledge!HasEpisode(f)

NoGaps == \A f \in Facts : facts[f] # "none" => Shared(f)

\* A reconciliation leaves out no active fact up to the last of its batch but those it jumps over.
BatchesFollow ==
    \A w \in Workers : workers[w] # None =>
        /\ Shared(workers[w].last)
        /\ \A f \in 1 .. workers[w].last :
              Ingested(f) \/ f \in UNION workers[w].todo \/ f \in workers[w].over \/ f \in jumped

\* The group that was looked up is still the next one, and is the first to be ingested.
ChecksHold ==
    \A w \in Workers : workers[w] # None /\ workers[w].checked =>
        /\ workers[w].todo # {}
        /\ ~crowded => Knowledge!FirstGroup(workers[w].todo) \notin episodes

\* The sources in progress and those on record have no facts in common but some that were
\* fetched under a second source.
SourcesAreApart == \A S, T \in Knowledge!Known : S # T => S \cap T \subseteq regrouped

OneAtATime ==
    ~crowded => \A w, x \in Workers : /\ workers[w] # None /\ workers[x] # None => w = x
                                      /\ clustering[w] # None /\ clustering[x] # None => w = x

Apart(Cs) == \A S, T \in Cs : S # T => S \cap T = {}

\* What a computation has found does not overlap, nor with what it has inserted.
FindsAreApart ==
    \A w \in Workers : clustering[w] # None =>
        /\ Apart(clustering[w].found)
        /\ clustering[w].cleared /\ ~crowded => Apart(communities \cup clustering[w].found)

OnceEach == ~crowded => ~doubled

ReconcileInv ==
    /\ NoGaps /\ Shared(passed) /\ BatchesFollow /\ ChecksHold /\ SourcesAreApart
    /\ Knowledge!FactsAreIngested /\ OnceEach
KnowledgeInv ==
    /\ Knowledge!TypeOK /\ OneAtATime /\ ReconcileInv
    /\ FindsAreApart /\ Knowledge!CommunitiesAreDisjoint

LEMMA KnowledgeTypes ==
    ASSUME KnowledgeInv
    PROVE  /\ Facts = 1 .. MaxFact /\ Knowledge!Facts = 1 .. MaxFact /\ MaxFact \in Nat /\ Limit \in Nat
           /\ facts \in [Facts -> {"none", "active", "superseded"}] /\ passed \in 0 .. MaxFact /\ passed \in Nat
           /\ episodes \subseteq Knowledge!Sources /\ doubled \in BOOLEAN /\ workers \in [Workers -> Knowledge!Worker \cup {None}]
           /\ regrouped \subseteq Facts /\ jumped \subseteq Facts
           /\ clustering \in [Workers -> Knowledge!Clustering \cup {None}] /\ crowded \in BOOLEAN
           /\ graph \subseteq Pairs /\ communities \subseteq SUBSET Nodes
           /\ None \notin Knowledge!Worker /\ None \notin Knowledge!Clustering
           /\ \A w \in Workers : /\ workers[w] # None => /\ workers[w] \in Knowledge!Worker
                                                         /\ workers[w].todo \subseteq Knowledge!Sources
                                                         /\ workers[w].last \in 0 .. MaxFact
                                                         /\ workers[w].over \subseteq Facts
                                                         /\ workers[w].checked \in BOOLEAN
                                 /\ clustering[w] # None => clustering[w] \in Knowledge!Clustering
  <1>1. Facts = 1 .. MaxFact /\ Knowledge!Facts = 1 .. MaxFact
    BY DEF Facts, Knowledge!Facts
  <1>2. Knowledge!TypeOK /\ Knowledge!Facts = Facts
    BY <1>1 DEF KnowledgeInv
  <1>3. /\ workers \in [Workers -> Knowledge!Worker \cup {None}]
        /\ clustering \in [Workers -> Knowledge!Clustering \cup {None}] /\ crowded \in BOOLEAN
        /\ facts \in [Facts -> {"none", "active", "superseded"}] /\ passed \in 0 .. MaxFact
        /\ episodes \subseteq Knowledge!Sources /\ doubled \in BOOLEAN
        /\ regrouped \subseteq Facts /\ jumped \subseteq Facts
        /\ graph \subseteq Pairs /\ communities \subseteq SUBSET Nodes
    BY <1>2, Zenon DEF Knowledge!TypeOK
  <1>4. \A x \in Knowledge!Worker : /\ x.todo \subseteq Knowledge!Sources /\ x.last \in 0 .. MaxFact
                                    /\ x.over \subseteq Facts /\ x.checked \in BOOLEAN
    BY <1>2 DEF Knowledge!Worker
  <1>5. \A w \in Workers : /\ workers[w] # None => workers[w] \in Knowledge!Worker
                           /\ clustering[w] # None => clustering[w] \in Knowledge!Clustering
    BY <1>3
  <1>6. MaxFact \in Nat /\ Limit \in Nat /\ passed \in Nat /\ None \notin Knowledge!Worker /\ None \notin Knowledge!Clustering
    BY <1>3, GraphAssumption
  <1>7. \A w \in Workers : workers[w] # None =>
            /\ workers[w] \in Knowledge!Worker /\ workers[w].todo \subseteq Knowledge!Sources
            /\ workers[w].last \in 0 .. MaxFact /\ workers[w].over \subseteq Facts /\ workers[w].checked \in BOOLEAN
    BY <1>4, <1>5, Zenon
  <1> QED BY <1>1, <1>3, <1>5, <1>6, <1>7, Zenon

LEMMA SourcesAreSets == \A S : S \in Knowledge!Sources <=> S \subseteq Facts /\ S # {}
  BY DEF Knowledge!Sources, Facts

LEMMA KnowledgeStarts == Knowledge!Init => KnowledgeInv
  <1> SUFFICES ASSUME Knowledge!Init PROVE KnowledgeInv
    OBVIOUS
  <1>1. crowded = FALSE /\ crowded \in BOOLEAN /\ doubled \in BOOLEAN
    BY DEF Knowledge!Init
  <1>2. Knowledge!TypeOK
    BY <1>1, GraphAssumption DEF Knowledge!Init, Knowledge!TypeOK, Knowledge!Facts
  <1>3. NoGaps /\ Shared(passed) /\ Knowledge!FactsAreIngested
    BY GraphAssumption DEF Knowledge!Init, NoGaps, Shared, Facts, Knowledge!FactsAreIngested
  <1>4. BatchesFollow /\ ChecksHold /\ SourcesAreApart /\ OnceEach
    BY DEF Knowledge!Init, BatchesFollow, ChecksHold, SourcesAreApart, Knowledge!Known, OnceEach
  <1>5. OneAtATime /\ FindsAreApart /\ Knowledge!CommunitiesAreDisjoint
    BY DEF Knowledge!Init, OneAtATime, FindsAreApart, Knowledge!CommunitiesAreDisjoint
  <1> QED BY <1>2, <1>3, <1>4, <1>5 DEF KnowledgeInv, ReconcileInv

LEMMA EpisodesFollow == KnowledgeInv => Knowledge!EpisodesAreOnce
  BY DEF KnowledgeInv, ReconcileInv, OnceEach, SourcesAreApart, Knowledge!Known, Knowledge!EpisodesAreOnce

LEMMA LowestFact ==
    ASSUME NEW S, S \subseteq 1 .. MaxFact, S # {}
    PROVE  Knowledge!Min(S) \in S
  <1>1. S \subseteq Nat
    OBVIOUS
  <1>2. \E m \in S : \A k \in S : m <= k
    BY <1>1, LeastOf
  <1> QED BY <1>2 DEF Knowledge!Min

LEMMA HighestFact ==
    ASSUME NEW S, S \subseteq 1 .. MaxFact, S # {}
    PROVE  Knowledge!Max(S) \in S /\ \A k \in S : k <= Knowledge!Max(S)
  <1> DEFINE U == {n \in Nat : \A k \in S : k <= n}
  <1>0. MaxFact \in Nat
    BY GraphAssumption
  <1>1. U \subseteq Nat /\ MaxFact \in U
    BY <1>0
  <1>2. PICK m \in U : \A n \in U : m <= n
    <2> HIDE DEF U
    <2> QED BY <1>1, LeastOf
  <1>3. m \in S
    <2> SUFFICES ASSUME m \notin S PROVE FALSE
      OBVIOUS
    <2>1. \A k \in S : k \in Nat /\ k >= 1 /\ k <= m /\ k # m
      BY <1>2
    <2>2. m \in Nat /\ m - 1 \in Nat
      <3>1. PICK k \in S : k \in Nat /\ k >= 1 /\ k <= m
        BY <2>1
      <3>2. m \in Nat
        BY <1>2
      <3> QED BY <3>1, <3>2
    <2>3. m - 1 \in U
      BY <2>1, <2>2
    <2> QED BY <1>2, <2>2, <2>3
  <1>4. \A k \in S : k <= m
    BY <1>2
  <1>5. \E x \in S : \A y \in S : x >= y
    BY <1>3, <1>4
  <1>6. Knowledge!Max(S) \in S /\ \A y \in S : Knowledge!Max(S) >= y
    BY <1>5 DEF Knowledge!Max
  <1> QED BY <1>6

\* The sets of nodes with one root each do not overlap, whatever the roots are.
LEMMA ComponentsAreApart == ASSUME NEW edges PROVE Apart(Knowledge!Components(edges))
  <1> SUFFICES ASSUME NEW S \in Knowledge!Components(edges), NEW T \in Knowledge!Components(edges), S # T
               PROVE  S \cap T = {}
    BY DEF Apart
  <1> DEFINE forest == Knowledge!FoldSeq(LAMBDA e, f : Knowledge!Union(f, e), [n \in Nodes |-> n], Knowledge!SetToSeq(edges))
             Tree(r) == {n \in Nodes : Knowledge!Root(forest, n) = r}
  <1>1. Knowledge!Components(edges) = {Tree(r) : r \in {Knowledge!Root(forest, n) : n \in Nodes}}
    BY Zenon DEF Knowledge!Components
  <1> HIDE DEF forest
  <1>2. PICK r : S = Tree(r)
    BY <1>1
  <1>3. PICK q : T = Tree(q)
    BY <1>1
  <1> QED BY <1>2, <1>3

\* The group of the first fact that is left is there.
LEMMA FirstGroupIsThere ==
    ASSUME NEW todo, todo \subseteq Knowledge!Sources, todo # {}, MaxFact \in Nat
    PROVE  Knowledge!FirstGroup(todo) \in todo
  <1>1. UNION todo \subseteq 1 .. MaxFact /\ UNION todo # {}
    BY SourcesAreSets DEF Facts, Knowledge!Facts
  <1>2. Knowledge!Min(UNION todo) \in UNION todo
    BY <1>1, LowestFact
  <1>3. \E G \in todo : Knowledge!Min(UNION todo) \in G
    BY <1>2
  <1> QED BY <1>3 DEF Knowledge!FirstGroup

\* A step of a reconciliation leaves the communities alone, and one of a computation the facts.
LEMMA CommunitiesStay ==
    ASSUME KnowledgeInv, UNCHANGED <<communities, clustering>>, ~crowded' => ~crowded
    PROVE  FindsAreApart' /\ Knowledge!CommunitiesAreDisjoint'
  BY DEF KnowledgeInv, FindsAreApart, Knowledge!CommunitiesAreDisjoint

LEMMA ReconciliationStays ==
    ASSUME KnowledgeInv, UNCHANGED <<facts, passed, episodes, doubled, workers, regrouped, jumped>>, ~crowded' => ~crowded
    PROVE  ReconcileInv'
  <1>1. (NoGaps /\ Shared(passed) /\ Knowledge!FactsAreIngested)'
    BY DEF KnowledgeInv, ReconcileInv, NoGaps, Shared, Facts, Knowledge!FactsAreIngested, Knowledge!HasEpisode
  <1>2. (BatchesFollow /\ ChecksHold)'
    BY DEF KnowledgeInv, ReconcileInv, Shared, Ingested, BatchesFollow, ChecksHold, Knowledge!HasEpisode
  <1>3. (SourcesAreApart /\ OnceEach)'
    BY DEF KnowledgeInv, ReconcileInv, SourcesAreApart, Knowledge!Known, OnceEach
  <1> QED BY <1>1, <1>2, <1>3 DEF ReconcileInv

LEMMA FactStep ==
    ASSUME KnowledgeInv, NEW f \in Knowledge!Facts, Knowledge!ShareFact(f) \/ Knowledge!SupersedeFact(f)
    PROVE  KnowledgeInv'
  <1> DEFINE x == IF facts[f] = "none" THEN "active" ELSE "superseded"
  <1>0. /\ facts' = [facts EXCEPT ![f] = x] /\ (facts[f] = "none" => Shared(f - 1)) /\ facts[f] \in {"none", "active"}
        /\ UNCHANGED <<passed, episodes, doubled, workers, regrouped, jumped, communities, graph, clustering, crowded>>
    BY DEF Knowledge!ShareFact, Knowledge!SupersedeFact, Knowledge!communityVars, Shared
  <1>1. x \in {"active", "superseded"} /\ (x = "active" => facts[f] = "none")
    BY <1>0
  <1> HIDE DEF x
  <1>2. f \in 1 .. MaxFact /\ \A g \in 1 .. MaxFact : facts'[g] = IF g = f THEN x ELSE facts[g]
    BY <1>0, KnowledgeTypes
  <1>3. Knowledge!TypeOK'
    BY <1>0, <1>1, KnowledgeTypes DEF KnowledgeInv, Knowledge!TypeOK
  <1>4. OneAtATime' /\ FindsAreApart' /\ Knowledge!CommunitiesAreDisjoint'
    BY <1>0, CommunitiesStay DEF KnowledgeInv, OneAtATime
  <1>5. ASSUME NEW n \in 0 .. MaxFact, Shared(n)
        PROVE  Shared(n)' /\ \A g \in 1 .. n : Ingested(g) => Ingested(g)'
    <2>1. \A g \in 1 .. n : g \in 1 .. MaxFact
      BY KnowledgeTypes
    <2>2. \A g \in 1 .. n : facts'[g] # "none" /\ (facts'[g] = "active" => facts[g] = "active")
      BY <1>1, <1>2, <1>5, <2>1 DEF Shared
    <2> QED BY <1>0, <2>2 DEF Shared, Ingested, Knowledge!HasEpisode
  <1>6. NoGaps'
    <2> SUFFICES ASSUME NEW g \in 1 .. MaxFact, facts'[g] # "none" PROVE Shared(g)'
      BY KnowledgeTypes DEF NoGaps, Facts
    <2>1. CASE facts[g] # "none"
      BY <1>5, <2>1, KnowledgeTypes DEF KnowledgeInv, ReconcileInv, NoGaps
    <2>2. CASE facts[g] = "none"
      <3>1. g = f /\ Shared(f - 1)
        BY <1>0, <1>2, <2>2
      <3>2. \A h \in 1 .. g : h = f \/ (h \in 1 .. (f - 1) /\ h \in 1 .. MaxFact)
        BY <1>2, <3>1, KnowledgeTypes
      <3>3. \A h \in 1 .. g : facts'[h] # "none"
        BY <1>1, <1>2, <3>1, <3>2 DEF Shared
      <3> QED BY <3>3 DEF Shared
    <2> QED BY <2>1, <2>2
  <1>7. Shared(passed)' /\ Knowledge!FactsAreIngested'
    <2>1. Shared(passed) /\ \A g \in 1 .. passed : Ingested(g) \/ g \in jumped
      BY DEF KnowledgeInv, ReconcileInv, Ingested, Knowledge!FactsAreIngested
    <2>2. Shared(passed)' /\ \A g \in 1 .. passed : Ingested(g)' \/ g \in jumped
      BY <1>0, <1>5, <2>1, KnowledgeTypes DEF Shared
    <2> QED BY <1>0, <2>2 DEF Ingested, Knowledge!FactsAreIngested
  <1>8. BatchesFollow'
    <2> SUFFICES ASSUME NEW w \in Workers, workers[w] # None
                 PROVE  /\ Shared(workers[w].last)'
                        /\ \A g \in 1 .. workers[w].last :
                              Ingested(g)' \/ g \in UNION workers[w].todo \/ g \in workers[w].over \/ g \in jumped
      BY <1>0 DEF BatchesFollow, Shared
    <2>1. /\ Shared(workers[w].last) /\ workers[w].last \in 0 .. MaxFact
          /\ \A g \in 1 .. workers[w].last :
                Ingested(g) \/ g \in UNION workers[w].todo \/ g \in workers[w].over \/ g \in jumped
      BY KnowledgeTypes DEF KnowledgeInv, ReconcileInv, BatchesFollow
    <2>2. Shared(workers[w].last)' /\ \A g \in 1 .. workers[w].last : Ingested(g) => Ingested(g)'
      BY <1>0, <1>5, <2>1 DEF Shared
    <2> QED BY <2>1, <2>2
  <1>9. ChecksHold' /\ SourcesAreApart' /\ OnceEach'
    BY <1>0 DEF KnowledgeInv, ReconcileInv, ChecksHold, SourcesAreApart, Knowledge!Known, OnceEach
  <1> QED BY <1>3, <1>4, <1>6, <1>7, <1>8, <1>9 DEF KnowledgeInv, ReconcileInv

LEMMA BatchesAreCounted == \A S : Knowledge!Cardinality(S) = Cardinality(S)
  BY DEF Cardinality, Knowledge!Cardinality

\* A batch leaves out nothing of its session, or of all, up to its last fact.
LEMMA BatchIsPrefix ==
    ASSUME KnowledgeInv, NEW scope, NEW limit \in Nat, NEW last \in Knowledge!Batch(scope, limit), NEW f \in Knowledge!Facts,
           f <= last, f > passed, facts[f] # "none", scope = None \/ SessionOf[f] = scope
    PROVE  f \in Knowledge!Batch(scope, limit)
  <1> DEFINE B == Knowledge!Beyond(scope)
             UpTo(g) == {h \in B : h <= g}
  <1>1. B \subseteq 1 .. MaxFact /\ f \in B /\ last \in B /\ Cardinality(UpTo(last)) <= limit
    BY BatchesAreCounted, KnowledgeTypes DEF Knowledge!Batch, Knowledge!Beyond
  <1> HIDE DEF B
  <1>2. IsFiniteSet(UpTo(last)) /\ UpTo(f) \subseteq UpTo(last)
    <2>0. 1 \in Int /\ MaxFact \in Int
      BY GraphAssumption
    <2>1. IsFiniteSet(1 .. MaxFact)
      BY <2>0, FS_Interval
    <2>2. UpTo(last) \subseteq 1 .. MaxFact
      BY <1>1
    <2>3. f \in Nat /\ last \in Nat /\ \A h \in B : h \in Nat
      BY <1>1, KnowledgeTypes
    <2>4. IsFiniteSet(UpTo(last))
      BY <2>1, <2>2, FS_Subset, Zenon
    <2>5. UpTo(f) \subseteq UpTo(last)
      BY <2>3
    <2> QED BY <2>4, <2>5
  <1>3. Cardinality(UpTo(f)) <= Cardinality(UpTo(last)) /\ Cardinality(UpTo(f)) \in Nat /\ Cardinality(UpTo(last)) \in Nat
    BY <1>2, FS_Subset, FS_CardinalityType
  <1>4. Cardinality(UpTo(f)) <= limit
    BY <1>1, <1>3
  <1> QED BY <1>1, <1>4, BatchesAreCounted DEF Knowledge!Batch, B

LEMMA FetchFactsStep ==
    ASSUME KnowledgeInv, NEW w \in Workers, NEW scope, NEW limit \in 1 .. Limit, Knowledge!FetchFacts(w, scope, limit)
    PROVE  KnowledgeInv'
  <1> DEFINE batch == Knowledge!Batch(scope, limit)
             last == IF batch = {} THEN 0 ELSE Knowledge!Max(batch)
             actives == {f \in batch : facts[f] = "active"}
             group(f) == Knowledge!Group(f, actives)
             todo == {group(f) : f \in actives}
             over == IF scope = None THEN {} ELSE {f \in Knowledge!Facts : passed < f /\ f < last /\ SessionOf[f] # scope}
             x == [todo |-> todo, last |-> last, checked |-> FALSE, over |-> over]
  <1>0. /\ workers[w] = None /\ workers' = [workers EXCEPT ![w] = x] /\ Knowledge!Overlaps(workers)
        /\ UNCHANGED <<facts, passed, episodes, doubled, jumped, graph, communities, clustering>>
        /\ regrouped' = regrouped \cup {f \in actives : \E S \in Knowledge!Known \ {group(f)} : f \in S}
    BY DEF Knowledge!FetchFacts, Knowledge!communityVars
  <1>1. /\ crowded' \in BOOLEAN /\ (~crowded' => ~crowded)
        /\ ~crowded' => \A v \in Workers : workers[v] = None
    BY <1>0, Zenon DEF Knowledge!Overlaps
  <1>2. batch \subseteq 1 .. MaxFact /\ (\A f \in batch : facts[f] # "none") /\ actives \subseteq 1 .. MaxFact /\ limit \in Nat
    BY KnowledgeTypes DEF Knowledge!Batch, Knowledge!Beyond
  <1>3. /\ \A f \in actives : f \in group(f) /\ group(f) \in Knowledge!Sources
        /\ \A f, g \in actives : g \in group(f) => group(g) = group(f)
    <2>1. \A f \in actives : f \in group(f) /\ group(f) \subseteq actives
      BY DEF Knowledge!Group
    <2>2. actives \subseteq Facts
      BY <1>2, KnowledgeTypes
    <2>3. \A f, g \in actives : g \in group(f) => group(g) = group(f)
      BY DEF Knowledge!Group
    <2> HIDE DEF actives, group
    <2> QED BY <2>1, <2>2, <2>3, SourcesAreSets
  <1>4. todo \subseteq Knowledge!Sources /\ actives \subseteq UNION todo /\ UNION todo \subseteq actives
    <2>1. \A f \in actives : group(f) \subseteq actives
      BY DEF Knowledge!Group
    <2> HIDE DEF actives, group
    <2> QED BY <1>3, <2>1
  <1>5. over \subseteq Facts
    BY DEF Facts
  <1>6. /\ last \in 0 .. MaxFact /\ Shared(last)
        /\ \A f \in 1 .. last : Ingested(f) \/ f \in actives \/ f \in over \/ f \in jumped
    <2>1. CASE batch = {}
      BY <2>1, KnowledgeTypes DEF Shared
    <2>2. CASE batch # {}
      <3>1. last \in batch /\ last \in 1 .. MaxFact
        <4>1. last = Knowledge!Max(batch)
          BY <2>2
        <4> HIDE DEF last, batch
        <4> QED BY <1>2, <2>2, <4>1, HighestFact
      <3>2. Shared(last)
        BY <1>2, <3>1, KnowledgeTypes DEF KnowledgeInv, ReconcileInv, NoGaps
      <3> HIDE DEF last
      <3>3. ASSUME NEW f \in 1 .. last, ~Ingested(f), f \notin jumped PROVE f \in actives \/ f \in over
        <4>1. f \in 1 .. MaxFact /\ f <= last /\ facts[f] = "active" /\ f \in Nat
          BY <3>1, <3>3, KnowledgeTypes DEF Ingested
        <4>2. f > passed
          BY <3>3, <4>1, KnowledgeTypes DEF KnowledgeInv, ReconcileInv, Knowledge!FactsAreIngested, Ingested
        <4>3. CASE scope = None \/ SessionOf[f] = scope
          <5>1. f \in batch
            BY <1>2, <3>1, <4>1, <4>2, <4>3, BatchIsPrefix, KnowledgeTypes
          <5> QED BY <4>1, <5>1
        <4>4. CASE scope # None /\ SessionOf[f] # scope
          <5>1. f # last
            BY <3>1, <4>4 DEF Knowledge!Batch, Knowledge!Beyond
          <5>2. passed < f /\ f < last
            BY <3>1, <4>1, <4>2, <5>1, KnowledgeTypes
          <5> QED BY <4>1, <4>4, <5>2, KnowledgeTypes
        <4> QED BY <4>3, <4>4
      <3>4. last \in 0 .. MaxFact
        BY <3>1, KnowledgeTypes
      <3> QED BY <3>2, <3>3, <3>4
    <2> QED BY <2>1, <2>2
  <1>7. regrouped' \subseteq Facts /\ regrouped \subseteq regrouped'
    BY <1>0, <1>2, KnowledgeTypes
  <1>8. ASSUME NEW S \in todo, NEW T \in todo \cup Knowledge!Known, NEW f \in S \cap T, S # T PROVE f \in regrouped'
    <2>1. f \in actives /\ group(f) = S
      <3>1. PICK g \in actives : S = group(g)
        OBVIOUS
      <3>2. f \in actives
        BY <3>1 DEF Knowledge!Group
      <3> HIDE DEF actives, group
      <3> QED BY <1>3, <3>1, <3>2
    <2>2. CASE T \in todo
      <3>1. PICK g \in actives : T = group(g)
        BY <2>2
      <3> HIDE DEF actives, group
      <3> QED BY <1>3, <1>8, <2>1, <3>1
    <2>3. CASE T \in Knowledge!Known
      <3> HIDE DEF actives, group
      <3> QED BY <1>0, <1>8, <2>1, <2>3
    <2> QED BY <2>2, <2>3
  <1> HIDE DEF todo, last, batch, actives, over, group
  <1>10. x \in Knowledge!Worker /\ x.last = last /\ x.todo = todo /\ ~x.checked /\ x.over = over
    BY <1>4, <1>5, <1>6, KnowledgeTypes DEF Knowledge!Worker
  <1> HIDE DEF x
  <1>11. \A v \in Workers : workers'[v] = IF v = w THEN x ELSE workers[v]
    BY <1>0, KnowledgeTypes
  <1>12. Knowledge!TypeOK'
    <2>1. workers' \in [Workers -> Knowledge!Worker \cup {None}]
      BY <1>0, <1>10, KnowledgeTypes
    <2> QED BY <1>0, <1>1, <1>7, <2>1, KnowledgeTypes DEF KnowledgeInv, Knowledge!TypeOK
  <1>13. OneAtATime'
    BY <1>0, <1>1, <1>11 DEF KnowledgeInv, OneAtATime
  <1>14. FindsAreApart' /\ Knowledge!CommunitiesAreDisjoint'
    BY <1>0, <1>1, CommunitiesStay
  <1>15. NoGaps' /\ Shared(passed)' /\ Knowledge!FactsAreIngested' /\ OnceEach'
    BY <1>0, <1>1 DEF KnowledgeInv, ReconcileInv, NoGaps, Shared, Facts, Knowledge!FactsAreIngested, Knowledge!HasEpisode, OnceEach
  <1>16. BatchesFollow'
    <2>1. \A f : Ingested(f) => Ingested(f)'
      BY <1>0 DEF Ingested, Knowledge!HasEpisode
    <2> SUFFICES ASSUME NEW v \in Workers, workers'[v] # None
                 PROVE  /\ Shared(workers'[v].last)
                        /\ \A g \in 1 .. workers'[v].last :
                              Ingested(g)' \/ g \in UNION workers'[v].todo \/ g \in workers'[v].over \/ g \in jumped
      BY <1>0 DEF BatchesFollow, Shared
    <2>2. CASE v = w
      BY <1>4, <1>6, <1>10, <1>11, <2>1, <2>2
    <2>3. CASE v # w
      BY <1>11, <2>1, <2>3 DEF KnowledgeInv, ReconcileInv, BatchesFollow
    <2> QED BY <2>2, <2>3
  <1>17. ChecksHold'
    BY <1>0, <1>1, <1>10, <1>11 DEF KnowledgeInv, ReconcileInv, ChecksHold
  <1>18. SourcesAreApart'
    <2>1. \A S \in Knowledge!Known' : S \in todo \/ S \in Knowledge!Known
      BY <1>0, <1>10, <1>11 DEF Knowledge!Known
    <2> SUFFICES ASSUME NEW S \in Knowledge!Known', NEW T \in Knowledge!Known', S # T, NEW f \in S \cap T
                 PROVE  f \in regrouped'
      BY DEF SourcesAreApart
    <2>2. CASE S \in todo
      BY <1>8, <2>1, <2>2
    <2>3. CASE T \in todo
      BY <1>8, <2>1, <2>3
    <2>4. CASE S \in Knowledge!Known /\ T \in Knowledge!Known
      BY <1>7, <2>4 DEF KnowledgeInv, ReconcileInv, SourcesAreApart
    <2> QED BY <2>1, <2>2, <2>3, <2>4
  <1> QED BY <1>12, <1>13, <1>14, <1>15, <1>16, <1>17, <1>18 DEF KnowledgeInv, ReconcileInv

\* A reconciliation that is done with a group, or has looked it up.
LEMMA WorkerStep ==
    ASSUME KnowledgeInv, NEW w \in Workers, NEW x \in Knowledge!Worker, workers[w] # None,
           workers' = [workers EXCEPT ![w] = x], UNCHANGED <<facts, passed, regrouped, jumped, graph, communities,
                                                            clustering, crowded>>,
           episodes \subseteq episodes', episodes' \subseteq episodes \cup workers[w].todo,
           x.last = workers[w].last, x.over = workers[w].over, x.todo \subseteq workers[w].todo,
           \A G \in workers[w].todo : G \in x.todo \/ G \in episodes',
           x.checked => x.todo # {} /\ (~crowded => Knowledge!FirstGroup(x.todo) \notin episodes'),
           doubled' \in BOOLEAN, ~crowded => ~doubled',
           episodes' = episodes \/ crowded \/ \A v \in Workers : workers[v] # None => v = w
    PROVE  KnowledgeInv'
  <1>1. x # None /\ \A v \in Workers : workers'[v] = IF v = w THEN x ELSE workers[v]
    BY KnowledgeTypes
  <1>2. Knowledge!TypeOK'
    BY KnowledgeTypes DEF KnowledgeInv, Knowledge!TypeOK
  <1>3. OneAtATime'
    BY <1>1 DEF KnowledgeInv, OneAtATime
  <1>4. FindsAreApart' /\ Knowledge!CommunitiesAreDisjoint'
    BY CommunitiesStay
  <1>5. \A f : Ingested(f) => Ingested(f)'
    BY DEF Ingested, Knowledge!HasEpisode
  <1>6. NoGaps' /\ Shared(passed)' /\ Knowledge!FactsAreIngested' /\ OnceEach'
    <2>1. \A f \in 1 .. passed : Ingested(f) \/ f \in jumped
      BY DEF KnowledgeInv, ReconcileInv, Knowledge!FactsAreIngested, Ingested
    <2>2. Knowledge!FactsAreIngested'
      BY <1>5, <2>1 DEF Knowledge!FactsAreIngested, Ingested
    <2> QED BY <2>2 DEF KnowledgeInv, ReconcileInv, NoGaps, Shared, Facts, OnceEach
  <1>7. BatchesFollow'
    <2> SUFFICES ASSUME NEW v \in Workers, workers'[v] # None
                 PROVE  /\ Shared(workers'[v].last)
                        /\ \A g \in 1 .. workers'[v].last :
                              Ingested(g)' \/ g \in UNION workers'[v].todo \/ g \in workers'[v].over \/ g \in jumped
      BY DEF BatchesFollow, Shared
    <2>1. CASE v = w
      <3>1. workers'[v] = x
        BY <1>1, <2>1
      <3>2. /\ Shared(x.last)
            /\ \A g \in 1 .. x.last : Ingested(g) \/ g \in UNION workers[w].todo \/ g \in x.over \/ g \in jumped
        BY DEF KnowledgeInv, ReconcileInv, BatchesFollow
      <3>3. ASSUME NEW g \in UNION workers[w].todo PROVE Ingested(g)' \/ g \in UNION x.todo
        <4>1. PICK G \in workers[w].todo : g \in G
          OBVIOUS
        <4>2. G \in Knowledge!Sources
          BY KnowledgeTypes
        <4> QED BY <4>1, <4>2 DEF Ingested, Knowledge!HasEpisode
      <3> QED BY <1>5, <3>1, <3>2, <3>3
    <2>2. CASE v # w
      BY <1>1, <1>5, <2>2 DEF KnowledgeInv, ReconcileInv, BatchesFollow
    <2> QED BY <2>1, <2>2
  <1>8. ChecksHold'
    <2> SUFFICES ASSUME NEW v \in Workers, workers'[v] # None, workers'[v].checked
                 PROVE  /\ workers'[v].todo # {}
                        /\ ~crowded => Knowledge!FirstGroup(workers'[v].todo) \notin episodes'
      BY DEF ChecksHold
    <2>1. CASE v = w
      BY <1>1, <2>1
    <2>2. CASE v # w
      <3>1. workers'[v] = workers[v]
        BY <1>1, <2>2
      <3>2. crowded \/ episodes' = episodes
        BY <2>2, <3>1
      <3> QED BY <3>1, <3>2 DEF KnowledgeInv, ReconcileInv, ChecksHold
    <2> QED BY <2>1, <2>2
  <1>9. SourcesAreApart'
    <2>1. Knowledge!Known' \subseteq Knowledge!Known
      BY <1>1 DEF Knowledge!Known
    <2> QED BY <2>1 DEF KnowledgeInv, ReconcileInv, SourcesAreApart
  <1> QED BY <1>2, <1>3, <1>4, <1>6, <1>7, <1>8, <1>9 DEF KnowledgeInv, ReconcileInv

\* What is left of a reconciliation that is done with a group.
LEMMA DoneWith ==
    ASSUME KnowledgeInv, NEW w \in Workers, workers[w] # None, NEW G
    PROVE  LET x == Knowledge!Done(w, G)
           IN /\ x \in Knowledge!Worker /\ x.last = workers[w].last /\ x.over = workers[w].over
              /\ x.todo = workers[w].todo \ {G} /\ ~x.checked
  <1> DEFINE y == workers[w]
  <1>1. y \in Knowledge!Worker
    BY KnowledgeTypes
  <1>2. Knowledge!Done(w, G) = [y EXCEPT !.todo = @ \ {G}, !.checked = FALSE]
    BY DEF Knowledge!Done
  <1> HIDE DEF y
  <1>3. Knowledge!Done(w, G) = [todo |-> y.todo \ {G}, last |-> y.last, over |-> y.over, checked |-> FALSE]
    BY <1>1, <1>2 DEF Knowledge!Worker
  <1>4. Knowledge!Done(w, G) \in Knowledge!Worker
    BY <1>1, <1>3 DEF Knowledge!Worker
  <1> QED BY <1>3, <1>4 DEF y

LEMMA CheckFactStep ==
    ASSUME KnowledgeInv, NEW w \in Workers, Knowledge!CheckFact(w)
    PROVE  KnowledgeInv'
  <1> DEFINE y == workers[w]
             G == Knowledge!FirstGroup(y.todo)
             x == IF G \in episodes THEN Knowledge!Done(w, G) ELSE [y EXCEPT !.checked = TRUE]
  <1>0. /\ y # None /\ y.todo # {} /\ workers' = [workers EXCEPT ![w] = x]
        /\ UNCHANGED <<facts, passed, episodes, doubled, regrouped, jumped, graph, communities, clustering, crowded>>
    BY KnowledgeTypes DEF Knowledge!CheckFact, Knowledge!communityVars
  <1>1. G \in y.todo /\ y \in Knowledge!Worker
    BY <1>0, FirstGroupIsThere, KnowledgeTypes
  <1>2. /\ x \in Knowledge!Worker /\ x.last = y.last /\ x.over = y.over /\ x.todo \subseteq y.todo
        /\ \A H \in y.todo : H \in x.todo \/ H \in episodes
        /\ x.checked => x.todo # {} /\ Knowledge!FirstGroup(x.todo) \notin episodes
    <2>1. CASE G \in episodes
      <3>1. x = Knowledge!Done(w, G)
        BY <2>1
      <3> HIDE DEF x, G
      <3> QED BY <1>0, <2>1, <3>1, DoneWith
    <2>2. CASE G \notin episodes
      <3>1. x = [y EXCEPT !.checked = TRUE]
        BY <2>2
      <3>5. G \notin episodes
        BY <2>2
      <3> HIDE DEF x, G, y
      <3>2. x = [todo |-> y.todo, last |-> y.last, over |-> y.over, checked |-> TRUE]
        BY <1>1, <3>1 DEF Knowledge!Worker
      <3>3. x.todo = y.todo /\ x.last = y.last /\ x.over = y.over /\ x.checked
        BY <3>2
      <3>4. x \in Knowledge!Worker
        BY <1>1, <3>2 DEF Knowledge!Worker
      <3> USE DEF G
      <3> QED BY <1>0, <3>3, <3>4, <3>5
    <2> QED BY <2>1, <2>2
  <1>3. ~crowded => ~doubled
    BY DEF KnowledgeInv, ReconcileInv, OnceEach
  <1>4. doubled \in BOOLEAN
    BY KnowledgeTypes
  <1> HIDE DEF x, G
  <1> QED BY <1>0, <1>2, <1>3, <1>4, WorkerStep

LEMMA IngestFactStep ==
    ASSUME KnowledgeInv, NEW w \in Workers, Knowledge!IngestFact(w)
    PROVE  KnowledgeInv'
  <1> DEFINE y == workers[w]
             G == Knowledge!FirstGroup(y.todo)
             x == Knowledge!Done(w, G)
  <1>0. /\ y # None /\ y.checked /\ episodes' = episodes \cup {G} /\ workers' = [workers EXCEPT ![w] = x]
        /\ doubled' = (doubled \/ G \in episodes)
        /\ UNCHANGED <<facts, passed, regrouped, jumped, graph, communities, clustering, crowded>>
    BY DEF Knowledge!IngestFact, Knowledge!communityVars
  <1>1. y.todo # {} /\ (~crowded => G \notin episodes)
    BY <1>0 DEF KnowledgeInv, ReconcileInv, ChecksHold
  <1>2. G \in y.todo
    BY <1>0, <1>1, FirstGroupIsThere, KnowledgeTypes
  <1>3. x \in Knowledge!Worker /\ x.last = y.last /\ x.over = y.over /\ x.todo = y.todo \ {G} /\ ~x.checked
    <2> HIDE DEF G
    <2> QED BY <1>0, DoneWith
  <1> HIDE DEF x, G
  <1>4. episodes \subseteq episodes' /\ episodes' \subseteq episodes \cup y.todo
    BY <1>0, <1>2
  <1>5. doubled' \in BOOLEAN
    BY <1>0, Zenon
  <1>6. ~crowded => ~doubled'
    BY <1>0, <1>1 DEF KnowledgeInv, ReconcileInv, OnceEach
  <1>7. crowded \/ \A v \in Workers : workers[v] # None => v = w
    BY <1>0 DEF KnowledgeInv, OneAtATime
  <1>8. x.todo \subseteq y.todo /\ \A H \in y.todo : H \in x.todo \/ H \in episodes'
    BY <1>0, <1>3
  <1> QED BY <1>0, <1>3, <1>4, <1>5, <1>6, <1>7, <1>8, WorkerStep

LEMMA MoveCursorStep ==
    ASSUME KnowledgeInv, NEW w \in Workers, Knowledge!MoveCursor(w) \/ Knowledge!Abandon(w)
    PROVE  KnowledgeInv'
  <1>0. /\ workers' = [workers EXCEPT ![w] = None]
        /\ UNCHANGED <<facts, episodes, doubled, regrouped, graph, communities, crowded>>
        /\ clustering' \in {clustering, [clustering EXCEPT ![w] = None]}
    BY DEF Knowledge!MoveCursor, Knowledge!Abandon, Knowledge!communityVars
  <1>1. /\ \A v \in Workers : workers'[v] # None => workers'[v] = workers[v] /\ workers[v] # None
        /\ \A v \in Workers : clustering'[v] # None => clustering'[v] = clustering[v] /\ clustering[v] # None
        /\ workers' \in [Workers -> Knowledge!Worker \cup {None}]
        /\ clustering' \in [Workers -> Knowledge!Clustering \cup {None}]
    BY <1>0, KnowledgeTypes
  <1>2. /\ passed' \in 0 .. MaxFact /\ jumped' \subseteq Facts /\ jumped \subseteq jumped'
        /\ Shared(passed') /\ \A f \in 1 .. passed' : Ingested(f) \/ f \in jumped'
    <2>1. CASE Knowledge!Abandon(w)
      <3>1. passed' = passed /\ jumped' = jumped
        BY <2>1 DEF Knowledge!Abandon
      <3> QED BY <3>1, KnowledgeTypes DEF KnowledgeInv, ReconcileInv, Knowledge!FactsAreIngested, Ingested
    <2>2. CASE Knowledge!MoveCursor(w)
      <3>1. /\ workers[w] # None /\ workers[w].todo = {} /\ passed' \in {passed, workers[w].last}
            /\ jumped' = jumped \cup workers[w].over
        BY <2>2 DEF Knowledge!MoveCursor, Knowledge!Ready
      <3>2. Shared(passed) /\ \A f \in 1 .. passed : Ingested(f) \/ f \in jumped
        BY DEF KnowledgeInv, ReconcileInv, Knowledge!FactsAreIngested, Ingested
      <3>3. /\ Shared(workers[w].last)
            /\ \A f \in 1 .. workers[w].last : Ingested(f) \/ f \in workers[w].over \/ f \in jumped
        BY <3>1 DEF KnowledgeInv, ReconcileInv, BatchesFollow
      <3>4. passed' \in 0 .. MaxFact /\ jumped' \subseteq Facts
        BY <3>1, KnowledgeTypes
      <3>5. CASE passed' = passed
        BY <3>1, <3>2, <3>4, <3>5
      <3>6. CASE passed' = workers[w].last
        BY <3>1, <3>3, <3>4, <3>6
      <3> QED BY <3>1, <3>5, <3>6
    <2> QED BY <2>1, <2>2
  <1>3. Knowledge!TypeOK'
    BY <1>0, <1>1, <1>2, KnowledgeTypes DEF KnowledgeInv, Knowledge!TypeOK
  <1>4. OneAtATime'
    BY <1>0, <1>1 DEF KnowledgeInv, OneAtATime
  <1>5. Shared(passed)' /\ Knowledge!FactsAreIngested'
    BY <1>0, <1>2 DEF Shared, Ingested, Knowledge!FactsAreIngested, Knowledge!HasEpisode
  <1>6. NoGaps' /\ OnceEach'
    BY <1>0 DEF KnowledgeInv, ReconcileInv, NoGaps, Shared, Facts, OnceEach
  <1>7. ChecksHold' /\ SourcesAreApart'
    BY <1>0, <1>1 DEF KnowledgeInv, ReconcileInv, ChecksHold, SourcesAreApart, Knowledge!Known
  <1>8. BatchesFollow'
    <2>1. \A f : Ingested(f) => Ingested(f)'
      BY <1>0 DEF Ingested, Knowledge!HasEpisode
    <2> QED BY <1>0, <1>1, <1>2, <2>1 DEF KnowledgeInv, ReconcileInv, BatchesFollow, Shared
  <1>9. FindsAreApart' /\ Knowledge!CommunitiesAreDisjoint'
    BY <1>0, <1>1 DEF KnowledgeInv, FindsAreApart, Knowledge!CommunitiesAreDisjoint
  <1> QED BY <1>3, <1>4, <1>5, <1>6, <1>7, <1>8, <1>9 DEF KnowledgeInv, ReconcileInv

\* A computation that takes another step over what it has found.
LEMMA ClusteringStep ==
    ASSUME KnowledgeInv, NEW w \in Workers, NEW x \in Knowledge!Clustering \cup {None},
           clustering' = [clustering EXCEPT ![w] = x], UNCHANGED <<facts, passed, episodes, doubled, workers, regrouped, jumped, graph>>,
           communities' \subseteq SUBSET Nodes, crowded' \in BOOLEAN, ~crowded' => ~crowded,
           ~crowded' => \A v \in Workers \ {w} : clustering[v] = None,
           x # None => Apart(x.found),
           ~crowded' => Apart(communities'),
           x # None /\ x.cleared /\ ~crowded' => Apart(communities' \cup x.found)
    PROVE  KnowledgeInv'
  <1>1. \A v \in Workers : clustering'[v] = IF v = w THEN x ELSE clustering[v]
    BY KnowledgeTypes
  <1>2. Knowledge!TypeOK'
    BY KnowledgeTypes DEF KnowledgeInv, Knowledge!TypeOK
  <1>3. OneAtATime'
    BY <1>1 DEF KnowledgeInv, OneAtATime
  <1>4. ReconcileInv'
    BY ReconciliationStays
  <1>5. FindsAreApart'
    <2> SUFFICES ASSUME NEW v \in Workers, clustering'[v] # None
                 PROVE  /\ Apart(clustering'[v].found)
                        /\ clustering'[v].cleared /\ ~crowded' => Apart(communities' \cup clustering'[v].found)
      BY DEF FindsAreApart, Apart
    <2>1. CASE v = w
      BY <1>1, <2>1
    <2>2. CASE v # w
      <3>1. clustering'[v] = clustering[v] /\ crowded'
        BY <1>1, <2>2
      <3> QED BY <3>1 DEF KnowledgeInv, FindsAreApart
    <2> QED BY <2>1, <2>2
  <1>6. Knowledge!CommunitiesAreDisjoint'
    BY DEF Apart, Knowledge!CommunitiesAreDisjoint
  <1> QED BY <1>2, <1>3, <1>4, <1>5, <1>6 DEF KnowledgeInv

LEMMA ComputeCommunitiesStep ==
    ASSUME KnowledgeInv, NEW w \in Workers, Knowledge!ComputeCommunities(w)
    PROVE  KnowledgeInv'
  <1> DEFINE found == Knowledge!Components(graph)
             x == [found |-> found, of |-> graph, cleared |-> FALSE]
  <1>0. /\ clustering' = [clustering EXCEPT ![w] = x] /\ Knowledge!Overlaps(clustering)
        /\ UNCHANGED <<graph, communities, facts, passed, episodes, doubled, workers, regrouped, jumped>>
    BY DEF Knowledge!ComputeCommunities, Knowledge!reconcileVars
  <1>1. /\ crowded' \in BOOLEAN /\ (~crowded' => ~crowded)
        /\ ~crowded' => \A v \in Workers : clustering[v] = None
    BY <1>0, Zenon DEF Knowledge!Overlaps
  <1>2. found \in SUBSET SUBSET Nodes
    <2> SUFFICES ASSUME NEW S \in found PROVE S \subseteq Nodes
      OBVIOUS
    <2>1. \E r : S \subseteq Nodes
      BY Zenon DEF Knowledge!Components
    <2> QED BY <2>1
  <1>3. Apart(found)
    BY ComponentsAreApart
  <1> HIDE DEF found
  <1>4. x \in Knowledge!Clustering /\ x.found = found /\ ~x.cleared
    BY <1>2, KnowledgeTypes DEF Knowledge!Clustering
  <1>5. ~crowded' => Apart(communities')
    BY <1>0, <1>1 DEF KnowledgeInv, Knowledge!CommunitiesAreDisjoint, Apart
  <1>6. communities' \subseteq SUBSET Nodes
    BY <1>0, KnowledgeTypes
  <1> HIDE DEF x
  <1> QED BY <1>0, <1>1, <1>3, <1>4, <1>5, <1>6, ClusteringStep

LEMMA InvalidatePriorStep ==
    ASSUME KnowledgeInv, NEW w \in Workers, Knowledge!InvalidatePrior(w)
    PROVE  KnowledgeInv'
  <1> DEFINE y == clustering[w]
             x == [y EXCEPT !.cleared = TRUE]
  <1>0. /\ y # None /\ communities' = {} /\ clustering' = [clustering EXCEPT ![w] = x]
        /\ UNCHANGED <<graph, facts, passed, episodes, doubled, workers, regrouped, jumped, crowded>>
    BY DEF Knowledge!InvalidatePrior, Knowledge!Clear, Knowledge!reconcileVars
  <1>1. y \in Knowledge!Clustering /\ Apart(y.found) /\ (~crowded => \A v \in Workers \ {w} : clustering[v] = None)
    BY <1>0, KnowledgeTypes DEF KnowledgeInv, FindsAreApart, OneAtATime
  <1> HIDE DEF y
  <1>2. x \in Knowledge!Clustering /\ x.found = y.found
    BY <1>1 DEF Knowledge!Clustering
  <1>3. Apart(communities') /\ Apart(communities' \cup x.found) /\ communities' \subseteq SUBSET Nodes
    BY <1>0, <1>1, <1>2 DEF Apart
  <1>4. crowded' \in BOOLEAN /\ (~crowded' => ~crowded) /\ (~crowded' => \A v \in Workers \ {w} : clustering[v] = None)
    BY <1>0, <1>1, KnowledgeTypes
  <1>5. x # None => Apart(x.found)
    BY <1>1, <1>2
  <1>6. UNCHANGED <<facts, passed, episodes, doubled, workers, regrouped, jumped, graph>>
    BY <1>0
  <1> HIDE DEF x
  <1> QED BY <1>0, <1>2, <1>3, <1>4, <1>5, <1>6, ClusteringStep

LEMMA InsertCommunityStep ==
    ASSUME KnowledgeInv, NEW w \in Workers, Knowledge!InsertCommunity(w)
    PROVE  KnowledgeInv'
  <1>1. PICK c \in clustering[w].found :
            /\ communities' = communities \cup {c}
            /\ clustering' = [clustering EXCEPT ![w] =
                 IF clustering[w].found = {c} THEN None
                 ELSE [found |-> clustering[w].found \ {c}, of |-> clustering[w].of, cleared |-> TRUE]]
    BY DEF Knowledge!InsertCommunity
  <1> DEFINE y == clustering[w]
             x == IF y.found = {c} THEN None ELSE [found |-> y.found \ {c}, of |-> y.of, cleared |-> TRUE]
  <1>0. /\ y # None /\ y.cleared /\ clustering' = [clustering EXCEPT ![w] = x]
        /\ UNCHANGED <<graph, facts, passed, episodes, doubled, workers, regrouped, jumped, crowded>>
    BY <1>1 DEF Knowledge!InsertCommunity, Knowledge!reconcileVars
  <1>2. /\ y \in Knowledge!Clustering /\ Apart(y.found) /\ (~crowded => Apart(communities \cup y.found))
        /\ ~crowded => \A v \in Workers \ {w} : clustering[v] = None
    BY <1>0, KnowledgeTypes DEF KnowledgeInv, FindsAreApart, OneAtATime
  <1>3. y.found \subseteq SUBSET Nodes /\ y.of \subseteq Pairs /\ c \in y.found
    BY <1>1, <1>2 DEF Knowledge!Clustering
  <1> HIDE DEF y
  <1>4. x \in Knowledge!Clustering \cup {None} /\ (x # None => x.found = y.found \ {c})
    <2>1. CASE y.found = {c}
      BY <2>1
    <2>2. CASE y.found # {c}
      <3>1. x = [found |-> y.found \ {c}, of |-> y.of, cleared |-> TRUE]
        BY <2>2
      <3> HIDE DEF x
      <3> QED BY <1>3, <3>1 DEF Knowledge!Clustering
    <2> QED BY <2>1, <2>2
  <1> HIDE DEF x
  <1>5. /\ x # None => Apart(x.found)
        /\ ~crowded => Apart(communities')
        /\ x # None /\ ~crowded => Apart(communities' \cup x.found)
    BY <1>1, <1>2, <1>3, <1>4 DEF Apart
  <1>6. communities' \subseteq SUBSET Nodes
    BY <1>1, <1>3, KnowledgeTypes
  <1>7. crowded' \in BOOLEAN /\ (~crowded' => ~crowded) /\ (~crowded' => \A v \in Workers \ {w} : clustering[v] = None)
    BY <1>0, <1>2, KnowledgeTypes
  <1>8. UNCHANGED <<facts, passed, episodes, doubled, workers, regrouped, jumped, graph>>
    BY <1>0
  <1> QED BY <1>0, <1>4, <1>5, <1>6, <1>7, <1>8, ClusteringStep

LEMMA ChangeGraphStep ==
    ASSUME KnowledgeInv, Knowledge!ChangeGraph
    PROVE  KnowledgeInv'
  <1>0. graph' \subseteq Pairs /\ UNCHANGED <<communities, clustering, facts, passed, episodes, doubled, workers, regrouped, jumped, crowded>>
    BY KnowledgeTypes DEF Knowledge!ChangeGraph, Knowledge!reconcileVars
  <1>1. Knowledge!TypeOK' /\ OneAtATime'
    BY <1>0 DEF KnowledgeInv, Knowledge!TypeOK, OneAtATime
  <1> QED BY <1>0, <1>1, CommunitiesStay, ReconciliationStays DEF KnowledgeInv

LEMMA ReconcileStep == KnowledgeInv /\ Knowledge!ReconcileNext => KnowledgeInv'
  BY FactStep, FetchFactsStep, CheckFactStep, IngestFactStep, MoveCursorStep DEF Knowledge!ReconcileNext

LEMMA CommunityStep == KnowledgeInv /\ Knowledge!CommunityNext => KnowledgeInv'
  BY ChangeGraphStep, ComputeCommunitiesStep, InvalidatePriorStep, InsertCommunityStep, MoveCursorStep DEF Knowledge!CommunityNext

LEMMA KnowledgeRests == KnowledgeInv /\ UNCHANGED knowledgeVars => KnowledgeInv'
  <1> SUFFICES ASSUME KnowledgeInv, UNCHANGED knowledgeVars PROVE KnowledgeInv'
    OBVIOUS
  <1>1. UNCHANGED <<facts, passed, episodes, doubled, workers, regrouped, jumped, crowded, graph, communities, clustering>>
    BY DEF knowledgeVars
  <1>2. Knowledge!TypeOK' /\ OneAtATime'
    BY <1>1 DEF KnowledgeInv, Knowledge!TypeOK, OneAtATime
  <1> QED BY <1>1, <1>2, CommunitiesStay, ReconciliationStays DEF KnowledgeInv

-----------------------------------------------------------------------------
(* The daemon.                                                             *)

\* The focus never moves, and the component in focus takes the steps.
LEMMA FocusStays ==
    ASSUME [DaemonNext]_daemonVars
    PROVE  /\ focus' = focus
           /\ focus = "startup" => Startup!Next \/ UNCHANGED startupVars
           /\ focus = "loops" => LoopGuard!Next \/ UNCHANGED loopVars
           /\ focus = "roots" => ProjectRoots!Next \/ UNCHANGED rootVars
           /\ focus = "processes" => Processes!Next \/ UNCHANGED procVars
           /\ focus = "gateway" => Gateway!PairNext \/ UNCHANGED pairVars
           /\ focus = "streams" => Gateway!StreamNext \/ UNCHANGED streamVars
           /\ focus \in {"files", "trees"} => Files!FileNext \/ Files!TreeNext \/ UNCHANGED fileVars
  BY DEF DaemonNext, DaemonStep, Foci, daemonVars

LEMMA StartupRests == StartupInv /\ UNCHANGED startupVars => StartupInv'
  BY DEF startupVars, StartupInv, Startup!TypeOK, Startup!IdleIsTimed, ClientsNeedASocket,
         Alone, Claims, Migrated, Startup!Alive, Startup!AtWork

LEMMA LoopRests == LoopInv /\ UNCHANGED loopVars => LoopInv'
  BY DEF loopVars, LoopInv, LoopGuard!TypeOK, LoopGuard!LoopsAreLive

LEMMA RootsRest == RootsInv /\ UNCHANGED rootVars => RootsInv'
  BY DEF rootVars, RootsInv, ProjectRoots!TypeOK, ProjectRoots!RootsAreApart, ProjectRoots!RootsAreOwned,
         ProjectRoots!Registered, OpeningsAvoid

LEMMA FilesRest == FilesInv /\ UNCHANGED fileVars => FilesInv'
  <1> SUFFICES ASSUME FilesInv, UNCHANGED fileVars PROVE FilesInv'
    OBVIOUS
  <1>1. unsure' \in BOOLEAN
    BY Zenon DEF fileVars, FilesInv, Files!TypeOK
  <1>2. UNCHANGED <<leaf, calls, touched, branches, disk, worktrees>> /\ (unsure' <=> unsure)
    BY DEF fileVars
  <1> QED BY <1>1, <1>2 DEF FilesInv, Files!TypeOK, FileCallsAreChecked, Files!FileCallsStayInside, RemovalsHaveRows

LEMMA PairRests == PairInv /\ UNCHANGED pairVars => PairInv'
  BY DEF pairVars, PairInv, Gateway!PairTypeOK, Gateway!KeyIsOnRecord, SecretIsFirst, RoundsAreWaited, Busy, Attempts

LEMMA StreamsRest == StreamInv /\ UNCHANGED streamVars => StreamInv'
  BY DEF streamVars, StreamInv, Gateway!StreamTypeOK, TicketsDiffer, Running

\* Starts by --ensure, by --detach or at once, crashes, signals, failed starts and closes in
\* progress (cli.ts, server.ts): while starts and clean-ups come one at a time, and again once all
\* that overlapped have gone, one process works on the data directory and serves on the pid file
\* and the socket that name it; unless two worked there at once, with the schema of its build.
THEOREM DaemonIsServed == DaemonSpec => []OneDaemonServes
  <1> DEFINE Inv == focus = "startup" => StartupInv
  <1>1. DaemonInit => Inv
    BY StartupInit DEF DaemonInit
  <1>2. Inv /\ [DaemonNext]_daemonVars => Inv'
    BY FocusStays, StartupStep, StartupRests
  <1>3. Inv => OneDaemonServes
    BY StartupServes DEF OneDaemonServes, Of
  <1> QED BY <1>1, <1>2, <1>3, PTL DEF DaemonSpec

\* loop.tick, loop.record_spend and the calls of the operator: guards are of live sessions,
\* only progress clears a streak, only a resume overrides an exhausted guard, and what was
\* spent is never forgotten.
THEOREM LoopGuardHolds == DaemonSpec => LoopsAreGuarded
  <1> DEFINE Inv == focus = "loops" => LoopInv
             Live == Of({"loops"}, LoopGuard!TypeOK /\ LoopGuard!LoopsAreLive)
             Steps == Of({"loops"}, LoopGuard!ProgressClears /\ LoopGuard!ResumeOverrides /\ LoopGuard!SpendStays)
  <1>1. DaemonInit => Inv
    BY LoopInit DEF DaemonInit
  <1>2. Inv /\ [DaemonNext]_daemonVars => Inv'
    BY FocusStays, LoopActions, LoopRests
  <1>3. Inv => Live
    BY DEF LoopInv, Of
  <1>4. Inv /\ [DaemonNext]_daemonVars => [Steps]_loopVars
    BY FocusStays, LoopKeeps DEF Of
  <1> HIDE DEF Inv, Live, Steps
  <1>5. DaemonSpec => []Live /\ [][Steps]_loopVars
    BY <1>1, <1>2, <1>3, <1>4, PTL DEF DaemonSpec
  <1> QED BY <1>5 DEF LoopsAreGuarded, Live, Steps

\* project.open against a file system that moves, replaces and reconfigures directories, and
\* file.* and worktree.* against names that are swapped between check and use: roots of two
\* agents stay apart and away from secrets, access is by the path that was opened, and file.*
\* changes nothing outside of the root.
THEOREM AccessStaysConfined == DaemonSpec => []AccessIsConfined
  <1> DEFINE Inv == /\ focus = "roots" => RootsInv
                    /\ focus \in {"files", "trees"} => FilesInv
  <1>1. DaemonInit => Inv
    BY RootsInit, FilesInit DEF DaemonInit
  <1>2. Inv /\ [DaemonNext]_daemonVars => Inv'
    BY FocusStays, RootsStep, RootsRest, FilesStep, TreesStep, FilesRest
  <1>3. Inv => AccessIsConfined
    BY OpenedPath, FilesHold DEF AccessIsConfined, Of, RootsInv
  <1> QED BY <1>1, <1>2, <1>3, PTL DEF DaemonSpec

\* spawn.ts, with starts that overlap, exits before the row is written and restarts of the
\* daemon: a row says running only of a process that can be accounted for, a supervisor that
\* starts one process at a time stays within its cap, and a client that is done has read all.
THEOREM ProcessesStayAccounted == DaemonSpec => []ProcessesAreAccounted
  <1> DEFINE Inv == focus = "processes" => ProcessesInv
  <1>1. DaemonInit => Inv
    BY ProcessesStart DEF DaemonInit
  <1>2. Inv /\ [DaemonNext]_daemonVars => Inv'
    BY FocusStays, ProcessesStep, ProcessesRest
  <1>3. Inv => ProcessesAreAccounted
    BY ProcessesHold DEF ProcessesInv, ProcessesAreAccounted, Of
  <1> QED BY <1>1, <1>2, <1>3, PTL DEF DaemonSpec

\* The HTTP gateway, with overlapping attempts, restarts and a secret file that others touch:
\* nonces and tickets are one-time credentials, only the secret on record pairs, who guesses
\* waits for a lock per round, and streams are counted and capped.
THEOREM GatewayStaysGuarded == DaemonSpec => GatewayIsGuarded
  <1> DEFINE Inv == /\ focus = "gateway" => PairInv
                    /\ focus = "streams" => StreamInv
             Start == Of({"gateway"}, Gateway!PairingStarts) /\ Of({"streams"}, Gateway!StreamingStarts)
             PairGood == Of({"gateway"}, Gateway!PairTypeOK /\ Gateway!KeyIsOnRecord /\ Gateway!GuessesAreSlowed)
             StreamGood == Of({"streams"}, Gateway!StreamTypeOK /\ Gateway!StreamsAreCounted)
             PairSteps == Of({"gateway"}, Gateway!PairsOnce)
             StreamSteps == Of({"streams"}, Gateway!StreamsOnce)
  <1>1. DaemonInit => Inv
    BY PairStarts, StreamStarts DEF DaemonInit
  <1>2. DaemonInit => Start
    BY DEF DaemonInit, Gateway!PairInit, Gateway!StreamInit, Gateway!PairingStarts, Gateway!StreamingStarts, Of,
           Gateway!Pairing!Init, Gateway!Streaming!Init, Gateway!Ticketed
  <1>3. Inv /\ [DaemonNext]_daemonVars => Inv'
    BY FocusStays, PairStep, PairRests, StreamStep, StreamsRest
  <1>4. Inv => PairGood /\ StreamGood
    BY GuessesSlowed, StreamsHold DEF PairInv, Of
  <1>5. Inv /\ [DaemonNext]_daemonVars => [PairSteps]_pairVars /\ [StreamSteps]_streamVars
    BY FocusStays, NoncesAreOneTime, StreamStep DEF Of
  <1> HIDE DEF Inv, Start, PairGood, StreamGood, PairSteps, StreamSteps
  <1>6. DaemonSpec => Start /\ []PairGood /\ []StreamGood /\ [][PairSteps]_pairVars /\ [][StreamSteps]_streamVars
    BY <1>1, <1>2, <1>3, <1>4, <1>5, PTL DEF DaemonSpec
  <1> QED BY <1>6 DEF GatewayIsGuarded, Start, PairGood, StreamGood, PairSteps, StreamSteps

\* The focus never moves, and the component in focus takes the steps.
LEMMA GraphFocus ==
    ASSUME [DaemonNext]_daemonVars
    PROVE  /\ focus' = focus
           /\ focus = "replica" => Replica!Next \/ UNCHANGED replicaVars
           /\ focus = "facts" => Knowledge!ReconcileNext \/ UNCHANGED knowledgeVars
           /\ focus = "communities" => Knowledge!CommunityNext \/ UNCHANGED knowledgeVars
  BY DEF DaemonNext, DaemonStep, Foci, daemonVars

\* graph-sync.ts, graph-reconcile.ts and graph-communities.ts, with pushes, pulls, reconciliations
\* of all facts or of one session, and clusterings that overlap: what counts as pushed is on the
\* hub, the cursor is not ahead of the replica and no row falls back; an active fact that the cursor
\* has passed is in an episode unless a reconciliation of another session jumped over it; a fact is
\* in the episode of one source unless it was fetched again under another, and as long as none
\* overlap a source has one episode and communities are disjoint.
THEOREM GraphStaysFaithful == DaemonSpec => GraphIsFaithful
  <1> DEFINE Inv == /\ focus = "replica" => ReplicaInv
                    /\ focus \in {"facts", "communities"} => KnowledgeInv
             Copied == Of({"replica"}, Replica!TypeOK /\ Replica!PushedIsOnHub /\ Replica!CursorIsBehindReplica)
             Forward == Of({"replica"}, Replica!NeverBack)
             Typed == Of({"facts", "communities"}, Knowledge!TypeOK)
             Derived == Of({"facts"}, Knowledge!FactsAreIngested /\ Knowledge!EpisodesAreOnce)
             Disjoint == Of({"communities"}, Knowledge!CommunitiesAreDisjoint)
  <1>1. DaemonInit => Inv
    BY ReplicaStarts, KnowledgeStarts DEF DaemonInit
  <1>2. Inv /\ [DaemonNext]_daemonVars => Inv'
    BY GraphFocus, ReplicaStep, ReplicaRests, ReconcileStep, CommunityStep, KnowledgeRests
  <1>3. Inv => Copied /\ Typed /\ Derived /\ Disjoint
    BY EpisodesFollow DEF ReplicaInv, KnowledgeInv, ReconcileInv, Of
  <1>4. Inv /\ [DaemonNext]_daemonVars => [Forward]_replicaVars
    BY GraphFocus, ReplicaStep DEF Of
  <1> HIDE DEF Inv, Copied, Forward, Typed, Derived, Disjoint
  <1>5. DaemonSpec => []Copied /\ []Typed /\ []Derived /\ []Disjoint /\ [][Forward]_replicaVars
    BY <1>1, <1>2, <1>3, <1>4, PTL DEF DaemonSpec
  <1> QED BY <1>5 DEF GraphIsFaithful, Copied, Forward, Typed, Derived, Disjoint
=============================================================================
