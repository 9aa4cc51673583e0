----------------------------- MODULE StudioAuth ------------------------------
(* Studio's sign-in (use-auth.ts) and the licence it keeps on the machine for  *)
(* the account (license-provision.ts), against the account service.  Every call *)
(* of the service takes effect there in one step and is heard in a later one.   *)
CONSTANTS Tokens, None

VARIABLES
    token,    \* at the service: what has become of each token
    licence,  \* at the service: the licence of the account
    ref,      \* tokenRef
    stored,   \* the token in the vault
    step,     \* stepRef
    leaving,  \* signingOutRef
    refresh, out,   \* performRefresh and signOut in progress
    pass,     \* runLicenseProvision in progress
    disk,     \* license.jwt, who wrote it, and its marker
    robbed,   \* when sign-outs fell whose revoked token made a pass wipe the licence
    upset,    \* a refresh was in progress when the user signed out
    cut       \* Studio ended within a sign-out, or between the two files of a licence

authVars == <<token, licence, ref, stored, step, leaving, refresh, out, pass, disk, robbed, upset, cut>>
jobs     == <<refresh, out, pass>>
session  == <<ref, stored, step, leaving>>

Ends   == {"expired", "killed", "replaced", "revoked"}
Idle   == [at |-> "idle", token |-> None, says |-> None, slipped |-> FALSE]
Slips  == {"in the last question", "before it"}
Jobs   == [at : {"idle", "asked", "told", "retry", "denied", "status", "refresh", "write", "mark", "wipe", "unmark", "clear"},
           token : Tokens \cup {None}, says : Tokens \cup Ends \cup {None, "valid", "active", "none", "401"},
           slipped : BOOLEAN]   \* the user signed out while the last question was under way

TypeOK ==
    /\ token \in [Tokens -> {"unissued", "valid"} \cup Ends]
    /\ licence \in {"active", "none"}
    /\ ref \in Tokens \cup {None} /\ stored \in Tokens \cup {None}
    /\ step \in {"idle", "email", "authenticated"} /\ leaving \in BOOLEAN
    /\ refresh \in Jobs /\ out \in Jobs /\ pass \in Jobs
    /\ disk \in [jwt : {None, "studio", "operator"}, marker : BOOLEAN]
    /\ robbed \subseteq Slips /\ upset \in BOOLEAN /\ cut \in BOOLEAN

Init ==
    /\ token = [t \in Tokens |-> "unissued"] /\ licence = "active"
    /\ ref = None /\ stored = None /\ step = "email" /\ leaving = FALSE
    /\ refresh = Idle /\ out = Idle /\ pass = Idle
    /\ disk = [jwt |-> None, marker |-> FALSE]
    /\ robbed = {} /\ upset = FALSE /\ cut = FALSE
-----------------------------------------------------------------------------
(* The service                                                              *)

Lapse(t) ==
    /\ token[t] = "valid"
    /\ token' \in {[token EXCEPT ![t] = "expired"], [token EXCEPT ![t] = "killed"]}
    /\ UNCHANGED <<licence, session, jobs, disk, robbed, upset, cut>>

Withdraw ==
    /\ licence = "active" /\ licence' = "none"
    /\ UNCHANGED <<token, session, jobs, disk, robbed, upset, cut>>

Fresh(t) == token[t] = "unissued" /\ t = CHOOSE u \in Tokens : token[u] = "unissued"

\* the caller gets a new token for a valid or expired one
Replaced(t, u) ==
    /\ token[t] \in {"valid", "expired"} /\ Fresh(u)
    /\ token' = [token EXCEPT ![t] = "replaced", ![u] = "valid"]

Denied(t) == token[t] \notin {"valid", "expired"}
-----------------------------------------------------------------------------
(* Signing in and out                                                       *)

\* submitOtp
SignIn(t) ==
    /\ step = "email" /\ out = Idle /\ Fresh(t)
    /\ token' = [token EXCEPT ![t] = "valid"]
    /\ ref' = t /\ stored' = t /\ step' = "authenticated"
    /\ upset' = FALSE
    /\ UNCHANGED <<licence, leaving, jobs, disk, robbed, cut>>

Dropped == ref' = None /\ stored' = None /\ step' = "email"

\* the references change before the first await: a pass in progress sees it at its next look,
\* of which there is none after the last question
BeginSignOut ==
    /\ step = "authenticated" /\ out = Idle
    /\ leaving' = TRUE /\ step' = "email" /\ ref' = None
    /\ out' = [Idle EXCEPT !.at = IF ref = None THEN "clear" ELSE "asked", !.token = ref]
    /\ pass' = IF pass.at = "status" THEN [pass EXCEPT !.slipped = TRUE] ELSE pass
    /\ upset' = (refresh # Idle)
    /\ UNCHANGED <<token, licence, stored, refresh, disk, robbed, cut>>

\* the revocation arrives or does not
Revoke ==
    /\ out.at = "asked"
    /\ token' \in {token, [token EXCEPT ![out.token] = IF @ = "valid" THEN "revoked" ELSE @]}
    /\ out' = [out EXCEPT !.at = "clear"]
    /\ UNCHANGED <<licence, session, refresh, pass, disk, robbed, upset, cut>>

EndSignOut ==
    /\ out.at = "clear" /\ out' = Idle
    /\ stored' = None /\ leaving' = FALSE
    /\ UNCHANGED <<token, licence, ref, step, refresh, pass, disk, robbed, upset, cut>>

\* performRefresh
BeginRefresh ==
    /\ refresh = Idle /\ step = "authenticated" /\ ref # None
    /\ refresh' = [Idle EXCEPT !.at = "asked", !.token = ref]
    /\ UNCHANGED <<token, licence, session, out, pass, disk, robbed, upset, cut>>

AnswerRefresh ==
    /\ refresh.at = "asked"
    /\ \/ \E u \in Tokens : Replaced(refresh.token, u)
                         /\ refresh' \in {Idle, [refresh EXCEPT !.at = "told", !.says = u]}
       \/ Denied(refresh.token) /\ refresh' = [refresh EXCEPT !.at = "told"] /\ UNCHANGED token
       \/ refresh' = Idle /\ UNCHANGED token
    /\ UNCHANGED <<licence, session, out, pass, disk, robbed, upset, cut>>

EndRefresh ==
    /\ refresh.at = "told" /\ refresh' = Idle
    /\ IF refresh.says # None
       THEN ref' = refresh.says /\ stored' = refresh.says /\ UNCHANGED step
       ELSE Dropped
    /\ UNCHANGED <<token, licence, leaving, out, pass, disk, robbed, upset, cut>>

\* Studio ends, and starts again with the token in the vault; it believes it if the
\* service cannot be asked (one interruption within something is enough)
Restart ==
    /\ ~cut
    /\ refresh' = Idle /\ out' = Idle /\ pass' = Idle
    /\ leaving' = FALSE
    /\ IF stored = None THEN Dropped
       ELSE \/ token[stored] = "valid" /\ ref' = stored /\ step' = "authenticated" /\ UNCHANGED stored
            \/ token[stored] # "valid" /\ Dropped
            \/ ref' = stored /\ step' = "authenticated" /\ UNCHANGED stored
    /\ cut' = (cut \/ pass.at = "mark" \/ out # Idle)
    /\ UNCHANGED <<token, licence, disk, robbed, upset>>
-----------------------------------------------------------------------------
(* A provisioning pass                                                      *)

passed == <<licence, session, refresh, out, robbed, upset, cut>>
At(place) == pass' = [pass EXCEPT !.at = place]
Skip      == pass' = Idle

BeginPass ==
    /\ pass = Idle /\ step = "authenticated" /\ ~leaving /\ ref # None
    /\ pass' = [Idle EXCEPT !.at = "asked", !.token = ref]
    /\ UNCHANGED <<token, disk, passed>>

AnswerCurrent ==
    /\ pass.at = "asked"
    /\ pass' \in {Idle, [pass EXCEPT !.at = "told", !.says = IF token[pass.token] = "valid" THEN licence ELSE "401"]}
    /\ UNCHANGED <<token, disk, passed>>

\* the session of the pass is over, or ends
Left == leaving \/ step # "authenticated" \/ ref = None

HandleCurrent ==
    /\ pass.at = "told"
    /\ CASE pass.says = "active" -> At("write")
         [] pass.says = "none"   -> At("wipe")
         [] pass.says = "401"    -> IF Left \/ ref # pass.token THEN Skip ELSE At("refresh")
    /\ UNCHANGED <<token, disk, passed>>

\* the daemon's own check of the new licence says no
VerifyFails ==
    /\ pass.at = "told" /\ pass.says = "active" /\ Skip
    /\ UNCHANGED <<token, disk, passed>>

\* the new token is used for one more question; Studio goes on with the old one
AnswerPassRefresh ==
    /\ pass.at = "refresh"
    /\ \/ \E u \in Tokens : /\ Replaced(pass.token, u)
                            /\ \/ pass' = [pass EXCEPT !.at = "retry", !.token = u]
                               \/ At("denied")
       \/ At("denied") /\ UNCHANGED token
    /\ UNCHANGED <<disk, passed>>

AnswerRetry ==
    /\ pass.at = "retry"
    /\ \/ Skip
       \/ token[pass.token] = "valid" /\ pass' = [pass EXCEPT !.at = "told", !.says = licence]
       \/ token[pass.token] # "valid" /\ At("denied")
    /\ UNCHANGED <<token, disk, passed>>

AskStatus ==
    /\ pass.at = "denied"
    /\ IF Left THEN Skip
       ELSE pass' = [pass EXCEPT !.at = "status", !.token = ref, !.says = None]
    /\ UNCHANGED <<token, disk, passed>>

\* the references are not looked at again
AnswerStatus ==
    /\ pass.at = "status"
    /\ \/ Skip
       \/ token[pass.token] # "valid" /\ pass' = [pass EXCEPT !.at = "wipe", !.says = token[pass.token]]
    /\ UNCHANGED <<token, disk, passed>>

\* each file is published whole or left as it was
WriteJwt ==
    /\ pass.at = "write"
    /\ disk' = [disk EXCEPT !.jwt = "studio"] /\ At("mark")
    /\ UNCHANGED <<token, passed>>

WriteMarker ==
    /\ pass.at = "mark"
    /\ disk' = [disk EXCEPT !.marker = TRUE] /\ Skip
    /\ UNCHANGED <<token, passed>>

WriteFails ==
    /\ pass.at \in {"write", "mark"} /\ Skip
    /\ cut' = (cut \/ pass.at = "mark")
    /\ UNCHANGED <<token, licence, session, refresh, out, disk, robbed, upset>>

\* license_wipe_managed: only what carries the marker, the licence before the marker
MayWipeAny(d) == TRUE
MayWipe(d) == d.marker

WipeJwt ==
    /\ pass.at = "wipe"
    /\ IF MayWipe(disk)
       THEN disk' = [disk EXCEPT !.jwt = None] /\ At("unmark")
            /\ robbed' = IF pass.says # "revoked" THEN robbed
                         ELSE robbed \cup {IF pass.slipped THEN "in the last question" ELSE "before it"}
       ELSE Skip /\ UNCHANGED <<disk, robbed>>
    /\ UNCHANGED <<token, licence, session, refresh, out, upset, cut>>

WipeMarker ==
    /\ pass.at = "unmark"
    /\ disk' = [disk EXCEPT !.marker = FALSE] /\ Skip
    /\ UNCHANGED <<token, passed>>

\* an operator installs a licence of their own
Install ==
    /\ disk = [jwt |-> None, marker |-> FALSE]
    /\ disk' = [disk EXCEPT !.jwt = "operator"]
    /\ UNCHANGED <<token, licence, session, jobs, robbed, upset, cut>>

\* nothing is claimed once a refresh and a sign-out have overlapped
Next == ~upset /\
  ( \/ Withdraw \/ BeginSignOut \/ Revoke \/ EndSignOut \/ BeginRefresh \/ AnswerRefresh \/ EndRefresh
    \/ Restart
    \/ BeginPass \/ AnswerCurrent \/ HandleCurrent \/ VerifyFails \/ AnswerPassRefresh \/ AnswerRetry \/ AskStatus
    \/ AnswerStatus \/ WriteJwt \/ WriteMarker \/ WriteFails \/ WipeJwt \/ WipeMarker \/ Install
    \/ \E t \in Tokens : Lapse(t) \/ SignIn(t) )

Spec == Init /\ [][Next]_authVars
-----------------------------------------------------------------------------
\* A sign-out that falls before the last question of a pass does not cost the machine its
\* licence, over all the questions before it and all that may interrupt them, unless Studio
\* ended within the sign-out: handleUnauthorized finds the references changed.  One that falls
\* into the last question does: the answer to checkStatus is acted on without another look.
WipeIsEarned == robbed \subseteq {"in the last question"} \/ cut

\* Only what Studio wrote is wiped: an operator's licence never carries the marker
\* (write_managed writes the licence first, wipe_managed removes it first).
OperatorStays == disk.jwt = "operator" => disk'.jwt # None
OperatorLicenceStays == [][OperatorStays]_authVars

\* What Studio wrote can be wiped again: it carries the marker, unless Studio ended or failed
\* between the two files.
ManagedIsMarked == disk.jwt = "studio" => disk.marker \/ cut \/ pass.at = "mark"

\* Signed out means that no token is left, unless a refresh was under way.
SignedOutIsGone ==
    step = "email" /\ out = Idle /\ ~upset => ref = None /\ stored = None
=============================================================================
