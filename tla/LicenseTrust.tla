----------------------------- MODULE LicenseTrust ---------------------------
(***************************************************************************)
(* The licence check in front of every paid method: guardRpcMethod         *)
(* (guard.ts) over fetchLicenseTrustSet and verifyRegisteredLicense        *)
(* (license-authority.ts).                                                 *)
(*                                                                         *)
(* A check makes two calls to the hosted authority.  While they are on     *)
(* their way the issuer may rotate its keys, the credential may be         *)
(* replaced, revoked or expire, other checks start and settle, and the     *)
(* daemon may start a new lifecycle.                                       *)
(***************************************************************************)
EXTENDS Naturals, TLAPS

CONSTANTS
    Requests,    \* paid requests; each is checked once
    KeyIds,      \* signing keys of the issuer
    Manifests,   \* trust sets the issuer publishes in turn, each a set of KeyIds
    Licenses,    \* license tokens
    SignedBy,    \* the signing key of each token
    None,
    MaxGen,      \* bound on the lifecycles of a run
    Turbulent    \* may calls fail and credentials and trust sets change, for a time?

ASSUME LicenseTrustAssumption ==
    /\ Manifests \subseteq SUBSET KeyIds
    /\ None \notin Manifests \cup Licenses
    /\ SignedBy \in [Licenses -> KeyIds]
    /\ MaxGen \in Nat /\ Turbulent \in BOOLEAN

VARIABLES
    \* the hosted authority and the files of the host
    hosted,      \* the trust set now published
    registered,  \* tokens the authority vouches for
    refused,     \* tokens expired or in the local revocation list
    disk,        \* the token in the licence file, or None
    calm,        \* calls no longer fail, and nothing is rotated, replaced or revoked
    \* module state of license-authority.ts
    requestGen,  \* trustRequestGeneration
    acceptedGen, \* acceptedTrustGeneration
    accepted,    \* digest of acceptedTrustSnapshot, or None
    \* the checks
    check,
    \* history
    acceptedBy,  \* request generation of the fetch that set accepted
    started,     \* requestGen when this lifecycle began
    upset        \* checks whose snapshot was replaced or dropped since they took it

worldVars   == <<hosted, registered, refused, disk, calm>>
trustVars   == <<requestGen, acceptedGen, accepted>>
historyVars == <<acceptedBy, started, upset>>
vars        == <<worldVars, trustVars, check, historyVars>>

\* A snapshot's digest stands for its keys; a verdict quotes the set it was made under.
NoVerdict == [digest |-> None, valid |-> FALSE]
Check == [at : {"new", "trust", "authority", "allowed", "denied"}, token : Licenses \cup {None},
          gen : Nat, manifest : Manifests \cup {None}, snapGen : Nat,
          verdict : [digest : Manifests \cup {None}, valid : BOOLEAN]]

TypeOK ==
    /\ hosted \in Manifests
    /\ registered \subseteq Licenses
    /\ refused \subseteq Licenses
    /\ disk \in Licenses \cup {None}
    /\ calm \in BOOLEAN
    /\ requestGen \in Nat /\ acceptedGen \in Nat
    /\ accepted \in Manifests \cup {None}
    /\ check \in [Requests -> Check]
    /\ acceptedBy \in Nat /\ started \in Nat
    /\ upset \subseteq Requests

Init ==
    /\ hosted \in Manifests
    /\ registered = Licenses
    /\ refused = {}
    /\ disk \in Licenses
    /\ calm \in BOOLEAN /\ (Turbulent \/ calm)
    /\ requestGen = 1 /\ acceptedGen = 1 /\ accepted = None
    /\ check = [r \in Requests |-> [at |-> "new", token |-> None, gen |-> 0, manifest |-> None,
                                    snapGen |-> 0, verdict |-> NoVerdict]]
    /\ acceptedBy = 0 /\ started = 1 /\ upset = {}

-----------------------------------------------------------------------------
Holding == {r \in Requests : check[r].at = "authority"}

Settle(r, outcome) == check' = [check EXCEPT ![r].at = outcome]

\* The accepted snapshot becomes m (None: it is dropped).
TrustRollsBackTo(m) ==
    /\ accepted' = m
    /\ acceptedGen' = acceptedGen - 1
    /\ upset' = upset \cup Holding
TrustChangesTo(m) ==
    /\ accepted' = m
    /\ acceptedGen' = acceptedGen + 1
    /\ upset' = upset \cup Holding

\* rejectLatestTrustRequest: only the newest request may drop the snapshot.
RejectLatest(r) ==
    IF check[r].gen = requestGen
    THEN TrustChangesTo(None)
    ELSE UNCHANGED <<accepted, acceptedGen, upset>>

\* isCurrentLicenseTrustSet on the snapshot the check holds.
IsCurrentByDigest(r) == accepted = check[r].manifest
IsCurrentByRequest(r) == accepted = check[r].manifest /\ check[r].snapGen = requestGen
IsCurrent(r) == accepted = check[r].manifest /\ check[r].snapGen = acceptedGen

\* verifyLicenseJWT: signature under the set's keys, expiry, local revocation.
VerifiesLocally(token, m) == SignedBy[token] \in m /\ token \notin refused

-----------------------------------------------------------------------------
(* One check.                                                              *)

FetchTrust(r) ==
    /\ check[r].at = "new"
    /\ disk # None
    /\ requestGen' = requestGen + 1
    /\ check' = [check EXCEPT ![r] = [@ EXCEPT !.at = "trust", !.token = disk, !.gen = requestGen']]
    /\ UNCHANGED <<worldVars, acceptedGen, accepted, historyVars>>

Unlicensed(r) ==
    /\ check[r].at = "new"
    /\ disk = None
    /\ Settle(r, "denied")
    /\ UNCHANGED <<worldVars, trustVars, historyVars>>

\* The authority's answer to either call; the daemon reads it some time later.
AnswerTrust(r) ==
    /\ check[r].at = "trust" /\ check[r].manifest = None
    /\ check' = [check EXCEPT ![r].manifest = hosted]
    /\ UNCHANGED <<worldVars, trustVars, historyVars>>

AnswerVerify(r) ==
    /\ check[r].at = "authority" /\ check[r].verdict = NoVerdict
    /\ check' = [check EXCEPT ![r].verdict =
                    [digest |-> hosted, valid |-> check[r].token \in registered]]
    /\ UNCHANGED <<worldVars, trustVars, historyVars>>

NewestNotRequired(r) == TRUE
NewestOffByOne(r) == check[r].gen = requestGen - 1
IsNewest(r) == check[r].gen = requestGen

\* An answer to an overtaken fetch is dropped, and its request denied.
ReceiveTrust(r) ==
    LET m == check[r].manifest IN
    /\ check[r].at = "trust" /\ m # None
    /\ IF IsNewest(r)
       THEN /\ IF accepted # m THEN TrustChangesTo(m) ELSE UNCHANGED <<accepted, acceptedGen, upset>>
            /\ acceptedBy' = check[r].gen
            /\ check' = [check EXCEPT
                   ![r].at = IF VerifiesLocally(check[r].token, m) THEN "authority" ELSE "denied",
                   ![r].snapGen = acceptedGen']
       ELSE Settle(r, "denied") /\ UNCHANGED <<accepted, acceptedGen, acceptedBy, upset>>
    /\ UNCHANGED <<worldVars, requestGen, started>>

\* The call fails, times out or brings no valid manifest.
TrustFails(r) ==
    /\ ~calm
    /\ check[r].at = "trust"
    /\ RejectLatest(r)
    /\ Settle(r, "denied")
    /\ UNCHANGED <<worldVars, requestGen, acceptedBy, started>>

\* verifyRegisteredLicense's own conditions and the rechecks behind it.
StillGood(r) ==
    /\ IsCurrent(r)
    /\ disk = check[r].token
    /\ VerifiesLocally(check[r].token, check[r].manifest)

ReceiveVerdict(r) ==
    /\ check[r].at = "authority" /\ check[r].verdict # NoVerdict
    /\ Settle(r, IF /\ check[r].verdict.valid
                    /\ check[r].verdict.digest = check[r].manifest
                    /\ StillGood(r)
                 THEN "allowed" ELSE "denied")
    /\ UNCHANGED <<worldVars, trustVars, historyVars>>

VerifyFails(r) ==
    /\ ~calm
    /\ check[r].at = "authority"
    /\ Settle(r, "denied")
    /\ UNCHANGED <<worldVars, trustVars, historyVars>>

-----------------------------------------------------------------------------
(* What changes around the checks.                                         *)

RotateKeys ==
    /\ ~calm
    /\ hosted' \in Manifests \ {hosted}
    /\ UNCHANGED <<registered, refused, disk, calm, trustVars, check, historyVars>>

Unregister(l) ==
    /\ ~calm
    /\ registered' = registered \ {l}
    /\ UNCHANGED <<hosted, refused, disk, calm, trustVars, check, historyVars>>

Refuse(l) ==
    /\ ~calm
    /\ refused' = refused \cup {l}
    /\ UNCHANGED <<hosted, registered, disk, calm, trustVars, check, historyVars>>

InstallLicense(l) ==
    /\ ~calm
    /\ disk' = l
    /\ UNCHANGED <<hosted, registered, refused, calm, trustVars, check, historyVars>>

\* Outages and changes come to an end.
Subside ==
    /\ ~calm
    /\ calm' = TRUE
    /\ UNCHANGED <<hosted, registered, refused, disk, trustVars, check, historyVars>>

ForgetTrustKeepsFetches == UNCHANGED requestGen
ForgetTrust == requestGen' = requestGen + 1

\* beginLicenseTrustLifecycle, called by startDaemon.
BeginLifecycle ==
    /\ ~calm
    /\ requestGen < MaxGen
    /\ ForgetTrust
    /\ TrustChangesTo(None)
    /\ started' = requestGen
    /\ UNCHANGED <<worldVars, check, acceptedBy>>

-----------------------------------------------------------------------------
Step(r) ==
    \/ FetchTrust(r) \/ Unlicensed(r)
    \/ AnswerTrust(r) \/ ReceiveTrust(r) \/ TrustFails(r)
    \/ AnswerVerify(r) \/ ReceiveVerdict(r) \/ VerifyFails(r)

World ==
    \/ RotateKeys \/ BeginLifecycle \/ Subside
    \/ \E l \in Licenses : Unregister(l) \/ Refuse(l)
    \/ \E l \in Licenses \cup {None} : InstallLicense(l)

Next == World \/ \E r \in Requests : Step(r)

Spec == Init /\ [][Next]_vars

\* Both calls carry a five-second deadline, so a check that began always moves on.
Proceed(r) == check[r].at # "new" /\ Step(r)
LiveSpec   == Spec /\ \A r \in Requests : WF_vars(Proceed(r))
-----------------------------------------------------------------------------
(* Properties.                                                             *)

\* A request is allowed only under the very acceptance it fetched: had any
\* other acceptance, failed fetch or restart come between, even one that
\* restored the same keys, the generation would have moved.
AllowedUnderOneTrust ==
    [][\A r \in Requests : check[r].at = "authority" /\ check'[r].at = "allowed"
            => r \notin upset]_vars

\* The answer of an older overlapping fetch never replaces that of a newer one.
NewerTrustWins == [][acceptedBy' >= acceptedBy]_vars

\* What is trusted was fetched in the current lifecycle of the daemon.
TrustIsOfThisLifecycle == accepted # None => acceptedBy > started

\* With an authority that is healthy all along and a good licence, checks may
\* overtake and deny one another, but some check is always allowed in the end.
SomeCheckSucceeds ==
    []calm =>
    (\E r \in Requests : check[r].at = "trust") ~> (\E r \in Requests : check[r].at = "allowed")

\* A check that sets out when the authority is well again, under a licence it
\* vouches for and has signed under a key it publishes.
SetsOutWell(r) ==
    /\ calm /\ disk = check[r].token
    /\ disk \in registered \ refused /\ SignedBy[disk] \in hosted
    /\ check[r].at = "trust" /\ check[r].gen = requestGen /\ check[r].manifest = None

\* No outage, restart or change that is over keeps a good licence out: of such a
\* check and those that overtake it one is allowed, whatever answers of earlier
\* fetches and snapshots of earlier checks are still about.
TrustRecovers ==
    \A r \in Requests :
        SetsOutWell(r) ~> \E q \in Requests : check[q].at = "allowed" /\ check[q].gen >= check[r].gen
-----------------------------------------------------------------------------
(* Theorems about LicenseTrust.  The generations of license-authority.ts    *)
(* are what makes a check safe over everything that may happen during its   *)
(* two calls; the invariant below says what they stand for.                 *)

\* No fetch is newer than the newest, and the newest belongs to this lifecycle.
FetchesOrdered ==
    /\ started <= requestGen
    /\ \A r \in Requests : check[r].gen <= requestGen
    /\ \A r \in Requests : check[r].at = "trust" /\ check[r].gen = requestGen
            => check[r].gen > started

\* What is accepted came from a fetch, none newer than the newest.
AcceptanceOrdered == acceptedBy <= requestGen /\ TrustIsOfThisLifecycle

\* The accepted generation moves whenever a snapshot is replaced: a check that
\* was upset holds an older one.
SnapshotsOrdered ==
    \A r \in Requests :
        /\ r \in upset => check[r].at \in {"authority", "allowed", "denied"}
        /\ check[r].at = "authority" => check[r].snapGen <= acceptedGen
        /\ check[r].at = "authority" /\ r \in upset => check[r].snapGen < acceptedGen

TrustInv == TypeOK /\ FetchesOrdered /\ AcceptanceOrdered /\ SnapshotsOrdered

\* A fresh lifecycle has no snapshot and no check.
LEMMA TrustInit == Init => TrustInv
  BY LicenseTrustAssumption DEF Init, TrustInv, TypeOK, FetchesOrdered, AcceptanceOrdered,
     TrustIsOfThisLifecycle, SnapshotsOrdered, Check, NoVerdict

\* Replacing or dropping the snapshot upsets exactly the checks that hold it.
LEMMA ChangeOK ==
    ASSUME TrustInv, NEW m \in Manifests \cup {None}, TrustChangesTo(m)
    PROVE  /\ accepted' \in Manifests \cup {None} /\ acceptedGen' \in Nat /\ upset' \subseteq Requests
           /\ acceptedGen' = acceptedGen + 1 /\ accepted' = m
           /\ \A r \in Requests : r \in upset' <=> r \in upset \/ check[r].at = "authority"
  BY DEF TrustInv, TypeOK, TrustChangesTo, Holding

\* The checks: a step of one check preserves the invariant.
LEMMA StepOK == ASSUME TrustInv, NEW q \in Requests, Step(q) PROVE TrustInv'
  <1> USE LicenseTrustAssumption DEF TrustInv
  <1>0. check[q] \in Check BY DEF TypeOK
  <1>1. CASE FetchTrust(q)
    <2>0. /\ requestGen' = requestGen + 1 /\ requestGen' \in Nat
          /\ check' = [check EXCEPT ![q] = [@ EXCEPT !.at = "trust", !.token = disk, !.gen = requestGen']]
          /\ UNCHANGED <<worldVars, acceptedGen, accepted, historyVars>>
      BY <1>1 DEF TypeOK, FetchTrust
    <2>1. TypeOK'
      <3>1. disk \in Licenses BY <1>1 DEF TypeOK, FetchTrust
      <3>2. [check[q] EXCEPT !.at = "trust", !.token = disk, !.gen = requestGen'] \in Check
        BY <1>0, <2>0, <3>1 DEF Check
      <3> QED BY <2>0, <3>2 DEF TypeOK, worldVars, historyVars
    <2> QED BY <1>0, <1>1, <2>0, <2>1 DEF TypeOK, FetchTrust, worldVars, historyVars, Check,
              FetchesOrdered, AcceptanceOrdered, TrustIsOfThisLifecycle, SnapshotsOrdered
  <1>2. CASE Unlicensed(q) \/ VerifyFails(q) \/ ReceiveVerdict(q)
    <2>1. PICK o \in {"allowed", "denied"} : Settle(q, o)
      BY <1>2 DEF Unlicensed, VerifyFails, ReceiveVerdict
    <2>2. UNCHANGED <<worldVars, trustVars, historyVars>>
      BY <1>2 DEF Unlicensed, VerifyFails, ReceiveVerdict
    <2>3. TypeOK'
      BY <1>0, <2>1, <2>2 DEF TypeOK, Settle, worldVars, trustVars, historyVars, Check
    <2> QED BY <1>0, <2>1, <2>2, <2>3 DEF TypeOK, Settle, worldVars, trustVars, historyVars, Check,
              FetchesOrdered, AcceptanceOrdered, TrustIsOfThisLifecycle, SnapshotsOrdered
  <1>3. CASE AnswerTrust(q) \/ AnswerVerify(q)
    <2>1. TypeOK'
      <3>1. CASE AnswerTrust(q)
        BY <1>0, <3>1 DEF TypeOK, AnswerTrust, worldVars, trustVars, historyVars, Check
      <3>2. CASE AnswerVerify(q)
        <4> DEFINE v == [digest |-> hosted, valid |-> check[q].token \in registered]
        <4>1. v \in [digest : Manifests \cup {None}, valid : BOOLEAN]
          BY DEF TypeOK
        <4> HIDE DEF v
        <4>2. check' = [check EXCEPT ![q].verdict = v] BY <3>2 DEF AnswerVerify, v
        <4>3. [check[q] EXCEPT !.verdict = v] \in Check BY <1>0, <4>1 DEF Check
        <4>4. check' = [check EXCEPT ![q] = [check[q] EXCEPT !.verdict = v]]
          BY <4>2 DEF TypeOK
        <4> QED BY <3>2, <4>3, <4>4 DEF TypeOK, AnswerVerify, worldVars, trustVars, historyVars
      <3> QED BY <1>3, <3>1, <3>2
    <2>2. \A r \in Requests : /\ check'[r].at = check[r].at
                              /\ check'[r].gen = check[r].gen
                              /\ check'[r].snapGen = check[r].snapGen
      BY <1>0, <1>3 DEF TypeOK, AnswerTrust, AnswerVerify, Check
    <2>3. UNCHANGED <<trustVars, historyVars>>
      BY <1>3 DEF AnswerTrust, AnswerVerify
    <2> QED BY <2>1, <2>2, <2>3 DEF trustVars, historyVars, FetchesOrdered, AcceptanceOrdered,
              TrustIsOfThisLifecycle, SnapshotsOrdered
  <1>4. CASE ReceiveTrust(q) /\ IsNewest(q)
    <2> DEFINE m == check[q].manifest
    <2>1. m \in Manifests BY <1>0, <1>4 DEF ReceiveTrust, Check
    <2>2. \/ TrustChangesTo(m)
          \/ accepted = m /\ UNCHANGED <<accepted, acceptedGen, upset>>
      BY <1>4 DEF ReceiveTrust
    <2>3. /\ accepted' = m /\ acceptedGen' \in Nat /\ upset' \subseteq Requests
          /\ \/ acceptedGen' = acceptedGen /\ upset' = upset
             \/ /\ acceptedGen' = acceptedGen + 1
                /\ \A r \in Requests : r \in upset' <=> r \in upset \/ check[r].at = "authority"
      BY <2>1, <2>2, ChangeOK DEF TypeOK
    <2>4. PICK o \in {"authority", "denied"} :
             check' = [check EXCEPT ![q].at = o, ![q].snapGen = acceptedGen']
      BY <1>4 DEF ReceiveTrust
    <2>5. /\ acceptedBy' = check[q].gen /\ check[q].gen = requestGen /\ check[q].at = "trust"
          /\ UNCHANGED <<worldVars, requestGen, started>>
      BY <1>4 DEF ReceiveTrust, IsNewest
    <2>6. TypeOK'
      BY <1>0, <2>1, <2>3, <2>4, <2>5 DEF TypeOK, Check, worldVars
    <2>7. FetchesOrdered'
      BY <1>0, <2>4, <2>5 DEF TypeOK, Check, FetchesOrdered
    <2>8. AcceptanceOrdered'
      BY <1>0, <2>5 DEF TypeOK, Check, FetchesOrdered, AcceptanceOrdered, TrustIsOfThisLifecycle
    <2>9. SnapshotsOrdered'
      <3> SUFFICES ASSUME NEW r \in Requests
                   PROVE  /\ r \in upset' => check'[r].at \in {"authority", "allowed", "denied"}
                          /\ check'[r].at = "authority" => check'[r].snapGen <= acceptedGen'
                          /\ check'[r].at = "authority" /\ r \in upset'
                                => check'[r].snapGen < acceptedGen'
        BY DEF SnapshotsOrdered
      <3>1. CASE r = q
        <4>1. r \notin upset' BY <3>1, <2>3, <2>5 DEF SnapshotsOrdered
        <4>2. check'[r].at \in {"authority", "denied"} /\ check'[r].snapGen = acceptedGen'
          BY <1>0, <3>1, <2>4 DEF TypeOK, Check
        <4> QED BY <4>1, <4>2, <2>3
      <3>2. CASE r # q
        <4>1. check'[r] = check[r] BY <2>4, <3>2 DEF TypeOK
        <4>2. check[r].snapGen \in Nat /\ acceptedGen \in Nat BY DEF TypeOK, Check
        <4> QED BY <4>1, <4>2, <2>3 DEF SnapshotsOrdered
      <3> QED BY <3>1, <3>2
    <2> QED BY <2>6, <2>7, <2>8, <2>9
  <1>5. CASE \/ ReceiveTrust(q) /\ ~IsNewest(q)
             \/ TrustFails(q) /\ check[q].gen # requestGen
    <2>1. /\ Settle(q, "denied")
          /\ UNCHANGED <<worldVars, trustVars, historyVars>>
      BY <1>5 DEF ReceiveTrust, TrustFails, RejectLatest, trustVars, historyVars
    <2>2. TypeOK'
      BY <1>0, <2>1 DEF TypeOK, Settle, worldVars, trustVars, historyVars, Check
    <2> QED BY <1>0, <2>1, <2>2 DEF TypeOK, Settle, worldVars, trustVars, historyVars, Check,
              FetchesOrdered, AcceptanceOrdered, TrustIsOfThisLifecycle, SnapshotsOrdered
  <1>6. CASE TrustFails(q) /\ check[q].gen = requestGen
    <2>1. /\ TrustChangesTo(None) /\ Settle(q, "denied") /\ check[q].at = "trust"
          /\ UNCHANGED <<worldVars, requestGen, acceptedBy, started>>
      BY <1>6 DEF TrustFails, RejectLatest
    <2>2. /\ accepted' = None /\ acceptedGen' \in Nat /\ upset' \subseteq Requests
          /\ acceptedGen' = acceptedGen + 1
          /\ \A r \in Requests : r \in upset' <=> r \in upset \/ check[r].at = "authority"
      BY <2>1, ChangeOK
    <2>3. TypeOK'
      BY <1>0, <2>1, <2>2 DEF TypeOK, Settle, worldVars, Check
    <2>4. FetchesOrdered' /\ AcceptanceOrdered'
      BY <1>0, <2>1, <2>2 DEF TypeOK, Settle, Check, FetchesOrdered, AcceptanceOrdered,
                              TrustIsOfThisLifecycle
    <2>5. SnapshotsOrdered'
      BY <1>0, <2>1, <2>2 DEF TypeOK, Settle, Check, SnapshotsOrdered
    <2> QED BY <2>3, <2>4, <2>5
  <1> QED BY <1>1, <1>2, <1>3, <1>4, <1>5, <1>6 DEF Step

\* The world around the checks: only a new lifecycle touches the generations.
LEMMA WorldOK == ASSUME TrustInv, World PROVE TrustInv'
  <1> USE LicenseTrustAssumption DEF TrustInv
  <1>1. CASE BeginLifecycle
    <2>1. /\ TrustChangesTo(None) /\ requestGen' = requestGen + 1 /\ started' = requestGen
          /\ UNCHANGED <<worldVars, check, acceptedBy>>
      BY <1>1 DEF BeginLifecycle, ForgetTrust
    <2>2. /\ accepted' = None /\ acceptedGen' \in Nat /\ upset' \subseteq Requests
          /\ acceptedGen' = acceptedGen + 1
          /\ \A r \in Requests : r \in upset' <=> r \in upset \/ check[r].at = "authority"
      BY <2>1, ChangeOK
    <2>3. TypeOK' BY <2>1, <2>2 DEF TypeOK, worldVars
    <2>4. \A r \in Requests : check[r].gen \in Nat /\ check[r].snapGen \in Nat
      BY DEF TypeOK, Check
    <2>5. FetchesOrdered' /\ AcceptanceOrdered'
      BY <2>1, <2>2, <2>4 DEF TypeOK, FetchesOrdered, AcceptanceOrdered, TrustIsOfThisLifecycle
    <2>6. SnapshotsOrdered'
      BY <2>1, <2>2, <2>4 DEF TypeOK, SnapshotsOrdered
    <2> QED BY <2>3, <2>5, <2>6
  <1>2. CASE \/ RotateKeys \/ Subside
             \/ \E l \in Licenses : Unregister(l) \/ Refuse(l)
             \/ \E l \in Licenses \cup {None} : InstallLicense(l)
    <2>1. UNCHANGED <<trustVars, check, historyVars>>
      BY <1>2 DEF RotateKeys, Subside, Unregister, Refuse, InstallLicense
    <2>2. TypeOK'
      BY <1>2, <2>1 DEF TypeOK, RotateKeys, Subside, Unregister, Refuse, InstallLicense, trustVars, historyVars
    <2> QED BY <2>1, <2>2 DEF trustVars, historyVars, FetchesOrdered, AcceptanceOrdered,
                             TrustIsOfThisLifecycle, SnapshotsOrdered
  <1> QED BY <1>1, <1>2 DEF World

\* Checks and world together preserve the invariant.
LEMMA TrustStep == TrustInv /\ [Next]_vars => TrustInv'
  <1>1. TrustInv /\ UNCHANGED vars => TrustInv'
    BY DEF vars, worldVars, trustVars, historyVars, TrustInv, TypeOK, FetchesOrdered,
           AcceptanceOrdered, TrustIsOfThisLifecycle, SnapshotsOrdered
  <1> QED BY <1>1, StepOK, WorldOK DEF Next

\* The generations are ordered in every reachable state.
LEMMA TrustAlways == Spec => []TrustInv
  BY TrustInit, TrustStep, PTL DEF Spec

\* The trust state and every check stay well-typed, whatever the authority,
\* the issuer and the operator do.
THEOREM TypeCorrect == Spec => []TypeOK
  BY TrustAlways, PTL DEF TrustInv

\* A trust set fetched before a restart is never accepted after it.
THEOREM TrustNeverOutlivesLifecycle == Spec => []TrustIsOfThisLifecycle
  BY TrustAlways, PTL DEF TrustInv, AcceptanceOrdered

\* Answers that overlap and arrive out of order never roll the trust back.
THEOREM NewestTrustStays == Spec => NewerTrustWins
  <1>1. TrustInv /\ [Next]_vars => [acceptedBy' >= acceptedBy]_vars
    <2> SUFFICES ASSUME TrustInv, Next PROVE acceptedBy' >= acceptedBy
      OBVIOUS
    <2>0. acceptedBy \in Nat /\ acceptedBy <= requestGen /\ requestGen \in Nat
      BY DEF TrustInv, TypeOK, AcceptanceOrdered
    <2>1. ASSUME NEW r \in Requests, ReceiveTrust(r) PROVE acceptedBy' >= acceptedBy
      BY <2>0, <2>1 DEF ReceiveTrust, IsNewest
    <2>2. World => acceptedBy' = acceptedBy
      BY DEF World, RotateKeys, Unregister, Refuse, InstallLicense, BeginLifecycle, Subside, historyVars
    <2>3. ASSUME NEW r \in Requests, Step(r), ~ReceiveTrust(r) PROVE acceptedBy' = acceptedBy
      BY <2>3 DEF Step, FetchTrust, Unlicensed, AnswerTrust, TrustFails, AnswerVerify,
                  ReceiveVerdict, VerifyFails, historyVars
    <2> QED BY <2>0, <2>1, <2>2, <2>3 DEF Next
  <1> QED BY <1>1, TrustAlways, PTL DEF Spec, NewerTrustWins

\* Only the verdict of the authority allows a request, and only past the rechecks.
LEMMA AllowedByVerdict ==
    ASSUME TrustInv, Next, NEW r \in Requests, check[r].at = "authority", check'[r].at = "allowed"
    PROVE  StillGood(r)
  <1>1. ASSUME World PROVE FALSE
    BY <1>1 DEF World, RotateKeys, Unregister, Refuse, InstallLicense, BeginLifecycle, Subside
  <1>2. PICK q \in Requests : Step(q) BY <1>1 DEF Next
  <1>3. q = r
    BY <1>2 DEF TrustInv, TypeOK, Step, FetchTrust, Unlicensed, AnswerTrust, ReceiveTrust, TrustFails,
                AnswerVerify, ReceiveVerdict, VerifyFails, Settle
  <1>4. check[r] \in Check BY DEF TrustInv, TypeOK
  <1>5. CASE ReceiveVerdict(r)
    BY <1>4, <1>5 DEF ReceiveVerdict, Settle, TrustInv, TypeOK, Check
  <1>6. CASE AnswerVerify(r) \/ VerifyFails(r)
    BY <1>4, <1>6 DEF AnswerVerify, VerifyFails, Settle, TrustInv, TypeOK, Check
  <1> QED BY <1>2, <1>3, <1>5, <1>6 DEF Step, FetchTrust, Unlicensed, AnswerTrust, ReceiveTrust,
                                        TrustFails

\* A request is allowed only under the acceptance its check fetched, with no
\* other acceptance, failure or restart in between.
THEOREM OneTrustPerCheck == Spec => AllowedUnderOneTrust
  <1>1. ASSUME TrustInv, Next, NEW r \in Requests, check[r].at = "authority", check'[r].at = "allowed"
        PROVE  r \notin upset
    <2>1. check[r].snapGen = acceptedGen
      BY <1>1, AllowedByVerdict DEF StillGood, IsCurrent
    <2> QED BY <1>1, <2>1 DEF TrustInv, TypeOK, SnapshotsOrdered
  <1>2. TrustInv /\ [Next]_vars =>
            [\A r \in Requests : check[r].at = "authority" /\ check'[r].at = "allowed"
                => r \notin upset]_vars
    BY <1>1
  <1> QED BY <1>2, TrustAlways, PTL DEF Spec, AllowedUnderOneTrust
=============================================================================
