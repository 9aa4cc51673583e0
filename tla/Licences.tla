------------------------------- MODULE Licences ------------------------------
(***************************************************************************)
(* Issuing and rotating a licence (scripts/issue-license.ts,               *)
(* rotate-license.ts): a hosted operation, named by a UUID its operator    *)
(* keeps across retries, followed by a conditional write of the vault; and *)
(* the local denylist of licence tokens (revoked-jtis.ts), shared by every *)
(* process of the machine: a lock file, a rewrite by rename, and readers   *)
(* that refuse while the lock file exists.                                 *)
(*                                                                         *)
(* The hosted authority and the vault are modelled from how the scripts    *)
(* use them.  The token an operation issues is named by the operation.     *)
(***************************************************************************)
CONSTANTS
    Operations,  \* operation UUIDs
    Rotations,   \* those of rotate-license.ts
    Runs,        \* processes running a script
    Old,         \* the token that may be in the vault already
    Jtis, Writers, Readers,
    None

VARIABLES
    receipts,    \* the hosted operations: what each expects in the vault, None before it commits
    registered,  \* tokens the authority takes
    vault,       \* the licence in the vault
    promoted,    \* operations the vault has committed
    runs,        \* each process: its operation, its step, the prior it prepared with
    list,        \* contents of the denylist
    lock,        \* whether the lock file exists
    writers,     \* revokeJti in progress: its token, its step, the list it loaded
    readers,     \* isRevokedJti in progress, or its verdict
    revoked,     \* tokens whose revokeJti returned
    unsettled    \* tokens whose revokeJti took the lock and has neither returned nor been settled by the operator

promotionVars  == <<receipts, registered, vault, promoted, runs>>
revocationVars == <<list, lock, writers, readers, revoked, unsettled>>

NoReceipt == [committed |-> FALSE, expected |-> None]
Tokens    == Operations \cup {Old}
Run       == [op : Operations, step : {"recover", "prepare", "generate", "confirm", "set"}, prior : Tokens \cup {None}]

PromotionTypeOK ==
    /\ receipts \in [Operations -> [committed : BOOLEAN, expected : Tokens \cup {None}]]
    /\ registered \subseteq Tokens /\ promoted \subseteq Operations
    /\ vault \in Tokens \cup {None}
    /\ runs \in [Runs -> Run \cup {None}]

PromotionInit ==
    /\ receipts = [o \in Operations |-> NoReceipt]
    /\ vault \in {Old, None} /\ registered = {Old} /\ promoted = {}
    /\ runs = [r \in Runs |-> None]

Writing == [jti : Jtis, step : {"load", "save", "unlock"}, loaded : SUBSET Jtis]
Reading == [jti : Jtis, step : {"look", "read", "valid", "refused"}, bound : BOOLEAN]

RevocationTypeOK ==
    /\ list \subseteq Jtis /\ lock \in BOOLEAN
    /\ writers \in [Writers -> Writing \cup {None}]
    /\ readers \in [Readers -> Reading \cup {None}]
    /\ revoked \subseteq Jtis /\ unsettled \subseteq Jtis

RevocationInit ==
    /\ list = {} /\ lock = FALSE /\ revoked = {} /\ unsettled = {}
    /\ writers = [w \in Writers |-> None] /\ readers = [r \in Readers |-> None]

-----------------------------------------------------------------------------
(* Promotion.                                                              *)

At(r, step)   == runs[r] # None /\ runs[r].step = step
GoTo(r, step) == runs' = [runs EXCEPT ![r].step = step]
Stop(r)       == runs' = [runs EXCEPT ![r] = None]
Receipt(r)    == receipts[runs[r].op]

\* An answer counts once its token was verified against the current registration.
Accept(r, token) == IF token \in registered THEN GoTo(r, "set") ELSE Stop(r)

Start(r, o) ==
    /\ runs[r] = None
    /\ runs' = [runs EXCEPT ![r] = [op |-> o, step |-> "recover", prior |-> None]]
    /\ UNCHANGED <<receipts, registered, vault, promoted>>

\* The look-up that mints nothing, before the vault is read and after a request
\* whose answer did not come.
Recover(r) ==
    /\ At(r, "recover") \/ At(r, "confirm")
    /\ IF Receipt(r).committed THEN Accept(r, runs[r].op)
       ELSE IF At(r, "recover") THEN GoTo(r, "prepare")
       ELSE Stop(r)
    /\ UNCHANGED <<receipts, registered, vault, promoted>>

\* An issue expects an empty vault unread; a rotation expects what it reads.
Prepare(r) ==
    /\ At(r, "prepare")
    /\ IF runs[r].op \notin Rotations THEN GoTo(r, "generate")
       ELSE \/ vault # None
               /\ runs' = [runs EXCEPT ![r].step = "generate", ![r].prior = vault]
            \/ Stop(r)     \* not due, or no licence that verifies
    /\ UNCHANGED <<receipts, registered, vault, promoted>>

\* POST /api/license/generate.  The authority commits an operation once, and a
\* rotation only against a registered prior, which it contains.
Commits(r) ==
    /\ ~Receipt(r).committed
    /\ runs[r].op \in Rotations => runs[r].prior \in registered
Generate(r) ==
    LET o == runs[r].op IN
    /\ At(r, "generate")
    /\ \/ /\ Commits(r)
          /\ receipts' = [receipts EXCEPT ![o] = [committed |-> TRUE, expected |-> runs[r].prior]]
          /\ registered' = (registered \ {runs[r].prior}) \cup {o}
          /\ GoTo(r, "set") \/ GoTo(r, "confirm")
       \/ GoTo(r, "confirm") /\ UNCHANGED <<receipts, registered>>
    /\ UNCHANGED <<vault, promoted>>

\* revvaultSet: the expectation is the one the operation was committed with.
MatchesAny(expected) == TRUE
Matches(expected) == vault = expected
Promote(r) ==
    LET o == runs[r].op IN
    /\ At(r, "set")
    /\ IF o \notin promoted /\ Matches(Receipt(r).expected)
       THEN vault' = o /\ promoted' = promoted \cup {o}
       ELSE UNCHANGED <<vault, promoted>>
    /\ Stop(r)
    /\ UNCHANGED <<receipts, registered>>

\* A process dies, or a call of it fails.
Die(r) ==
    /\ runs[r] # None /\ Stop(r)
    /\ UNCHANGED <<receipts, registered, vault, promoted>>

PromotionNext ==
    \E r \in Runs : Recover(r) \/ Prepare(r) \/ Generate(r) \/ Promote(r) \/ Die(r)
                    \/ \E o \in Operations : Start(r, o)

-----------------------------------------------------------------------------
(* revokeJti; a writer that finds the lock file fails.                     *)

MayLock == ~lock
OpenLock(w, j) ==
    /\ writers[w] = None /\ MayLock
    /\ lock' = TRUE
    /\ writers' = [writers EXCEPT ![w] = [jti |-> j, step |-> "load", loaded |-> {}]]
    /\ unsettled' = unsettled \cup {j}
    /\ UNCHANGED <<list, readers, revoked>>

Load(w) ==
    /\ writers[w] # None /\ writers[w].step = "load"
    /\ writers' = [writers EXCEPT ![w].step = "save", ![w].loaded = list]
    /\ UNCHANGED <<list, lock, readers, revoked, unsettled>>

\* The temporary file takes the place of the list in one step.
Save(w) ==
    /\ writers[w] # None /\ writers[w].step = "save"
    /\ list' = writers[w].loaded \cup {writers[w].jti}
    /\ writers' = [writers EXCEPT ![w].step = "unlock"]
    /\ UNCHANGED <<lock, readers, revoked, unsettled>>

Unlock(w) ==
    /\ writers[w] # None /\ writers[w].step = "unlock"
    /\ lock' = FALSE
    /\ revoked' = revoked \cup {writers[w].jti}
    /\ unsettled' = unsettled \ {writers[w].jti}
    /\ writers' = [writers EXCEPT ![w] = None]
    /\ UNCHANGED <<list, readers>>

\* A revocation that failed, or that the operator has settled, binds no check.
Unbind(doubted) ==
    readers' = [r \in Readers |->
        IF readers[r] # None /\ readers[r].jti \in doubted \ revoked
        THEN [readers[r] EXCEPT !.bound = FALSE] ELSE readers[r]]

\* A failed write gives the lock up and throws.
FailWrite(w) ==
    /\ writers[w] # None /\ writers[w].step \in {"load", "save"}
    /\ lock' = FALSE
    /\ unsettled' = unsettled \ {writers[w].jti} /\ Unbind({writers[w].jti})
    /\ writers' = [writers EXCEPT ![w] = None]
    /\ UNCHANGED <<list, revoked>>

\* The process dies: its lock file stays, until the operator has dealt with it.
DieWriting(w) ==
    /\ writers[w] # None
    /\ writers' = [writers EXCEPT ![w] = None]
    /\ UNCHANGED <<list, lock, readers, revoked, unsettled>>

RecoverLock ==
    /\ lock /\ \A w \in Writers : writers[w] = None
    /\ lock' = FALSE /\ unsettled' = {} /\ Unbind(unsettled)
    /\ UNCHANGED <<list, writers, revoked>>

-----------------------------------------------------------------------------
(* isRevokedJti looks for the lock file, then reads the list.              *)

\* bound: when the check began the token was revoked, or its revocation in doubt.
StartCheck(r, j) ==
    /\ readers' = [readers EXCEPT ![r] = [jti |-> j, step |-> "look", bound |-> j \in revoked \cup unsettled]]
    /\ UNCHANGED <<list, lock, writers, revoked, unsettled>>

Pending == lock
LookForLock(r) ==
    /\ readers[r] # None /\ readers[r].step = "look"
    /\ readers' = [readers EXCEPT ![r].step = IF Pending THEN "refused" ELSE "read"]
    /\ UNCHANGED <<list, lock, writers, revoked, unsettled>>

ReadList(r) ==
    /\ readers[r] # None /\ readers[r].step = "read"
    /\ readers' = [readers EXCEPT ![r].step = IF readers[r].jti \in list THEN "refused" ELSE "valid"]
    /\ UNCHANGED <<list, lock, writers, revoked, unsettled>>

RevocationNext ==
    \/ RecoverLock
    \/ \E w \in Writers : Load(w) \/ Save(w) \/ Unlock(w) \/ FailWrite(w) \/ DieWriting(w) \/ \E j \in Jtis : OpenLock(w, j)
    \/ \E r \in Readers : LookForLock(r) \/ ReadList(r) \/ \E j \in Jtis : StartCheck(r, j)

PromotionSpec  == PromotionInit /\ [][PromotionNext]_promotionVars
RevocationSpec == RevocationInit /\ [][RevocationNext]_revocationVars
-----------------------------------------------------------------------------
(* Properties.                                                             *)

\* A licence that still counts is never overwritten, whatever two operators,
\* retries and lost answers do.
LiveStays == vault # None /\ vault' # vault => vault \notin registered'

\* The replacement of a contained licence is in the vault, or can still be put
\* there by repeating its operation.
ContainmentIsRecoverable ==
    \A o \in Rotations : receipts[o].committed => o \in promoted \/ vault = receipts[o].expected

\* A revocation that returned stays recorded, over the rewrites of other
\* processes, their failures and their crashes.
RevocationsStay == revoked \subseteq list

\* A token passes no check that began after its revocation returned, or while
\* that was cut off and not yet settled.
RevokedIsRefused ==
    \A r \in Readers : readers[r] # None /\ readers[r].step = "valid" => ~readers[r].bound
=============================================================================
