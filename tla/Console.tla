-------------------------------- MODULE Console --------------------------------
(* The SSH console: the payment screens of one session (tui/model.go over    *)
(* api/client.go), the bridge of an agents session to a remote terminal      *)
(* (main.go, proxy/proxy.go), and the reader of event streams                *)
(* (api/agents.go).  Every session has a key: the server admits nothing      *)
(* else, so the fingerprint of the screens is never empty.                   *)
EXTENDS Naturals, Sequences, FiniteSets, Functions

CONSTANTS
    Mails, LiveTiers, MaxCalls,  \* addresses; the price lists the API may answer; calls in flight
    Keys, Remotes, MaxLines,       \* SSH keys; remote terminals; lines of a stream
    None

VARIABLES
    view, tiers, cursor, offline, selected, url, user, loading, err, email, otp,
    calls, sent, edited, left,   \* calls in flight; addresses a code went to; the address was changed
                                 \* under a link call; a checkout was left under its call
    listed, allowed, key, seat,  \* the authorized_keys file, what was read of it at start; this session
    running, offered, target,    \* terminals that run; those offered; the one picked
    inp, outp, rsz, own, done, peer, crash, \* the goroutines of the bridge and its own; the far end
    lines, pos, fed, scan        \* a stream, how far it was scanned, what was sent on

screenVars == <<view, tiers, cursor, offline, selected, url, user, loading, err, email, otp,
                calls, sent, edited, left>>
bridgeVars == <<listed, allowed, key, seat, running, offered, target,
                inp, outp, rsz, own, done, peer, crash>>
streamVars == <<lines, pos, fed, scan>>
-----------------------------------------------------------------------------
(* The payment screens                                                      *)

Fallback == <<"free", "pro", "max", "enterprise">>
Statuses == {0, 200, 404, 500}   \* 0: no answer within the client's 30 s
Valid(e) == e \in Mails
ScreenCalls == [kind : {"pricing", "lookup", "verify"}, arg : {None}] \cup [kind : {"link"}, arg : Mails]
            \cup [kind : {"checkout"}, arg : {"pro", "max", "enterprise"}]
Pending(k) == \E c \in ScreenCalls : c.kind = k /\ calls[c] > 0

\* What a call turns into: a message for Update, "err" when the client refuses the answer.
Msg(t, v)  == [type |-> t, val |-> v]
ErrMsg     == Msg("err", None)
PricingMsg(status, body, list) == IF status = 200 /\ body = "list" THEN Msg("pricing", list) ELSE ErrMsg
LookupMsg(status, body)  == IF status = 404 THEN Msg("lookup", None)
                              ELSE IF status = 200 /\ body = "account" THEN Msg("lookup", "account") ELSE ErrMsg
CheckoutMsg(c, status, body) ==   \* whatever the status says
    IF status = 0 \/ body = "refused" THEN ErrMsg
    ELSE Msg("checkout", IF body = "url" THEN c.arg ELSE None)
LinkMsg(status)          == IF status = 200 THEN Msg("linkSent", None) ELSE ErrMsg
VerifyMsg(status, body)  == IF status = 200 /\ body = "account" THEN Msg("verified", "account") ELSE ErrMsg
Bodies == {"list", "account", "url", "refused", "other"}
Message(c, status, body, list) ==
    CASE c.kind = "pricing" -> PricingMsg(status, body, list) [] c.kind = "lookup" -> LookupMsg(status, body)
      [] c.kind = "checkout" -> CheckoutMsg(c, status, body) [] c.kind = "link" -> LinkMsg(status)
      [] OTHER -> VerifyMsg(status, body)
Messages(c, status) ==
    {Message(c, status, body, list) : body \in Bodies, list \in IF c.kind = "pricing" THEN LiveTiers ELSE {<<>>}}

Call(k, a) ==
    /\ FoldFunction(+, 0, calls) < MaxCalls
    /\ calls' = [calls EXCEPT ![[kind |-> k, arg |-> a]] = @ + 1]
Goto(v) ==
    /\ view' = v
    /\ left' = (left \/ (view = "checkout" /\ v # "checkout" /\ Pending("checkout")))
Fill(e) ==
    /\ email' = e
    /\ edited' = (edited \/ (e # email /\ Pending("link")))

\* Update on each message; none of them asks which screen is shown, but for the first load.
OnPricing(list) ==
    /\ IF list # <<>> THEN tiers' = list /\ offline' = FALSE ELSE UNCHANGED <<tiers, offline>>
    /\ IF view = "loading" THEN Goto("tiers") /\ loading' = FALSE ELSE UNCHANGED <<view, left, loading>>
    /\ UNCHANGED <<cursor, selected, url, user, err, email, otp, edited>>
OnLookup(u) ==
    /\ user' = u
    /\ UNCHANGED <<view, tiers, cursor, offline, selected, url, loading, err, email, otp, edited, left>>
OnCheckout(u) ==
    /\ loading' = FALSE /\ url' = u
    /\ UNCHANGED <<view, tiers, cursor, offline, selected, user, err, email, otp, edited, left>>
OnLinkSent ==
    /\ loading' = FALSE /\ otp' = "" /\ Goto("linkOTP")
    /\ UNCHANGED <<tiers, cursor, offline, selected, url, user, err, email, edited>>
OnVerified(u) ==
    /\ loading' = FALSE /\ user' = u /\ otp' = "" /\ Fill("") /\ Goto("tiers")
    /\ UNCHANGED <<tiers, cursor, offline, selected, url, err>>
OnErr ==
    /\ loading' = FALSE /\ err' = TRUE
    /\ IF view = "loading" THEN offline' = TRUE /\ Goto("tiers") ELSE UNCHANGED <<offline, view, left>>
    /\ UNCHANGED <<tiers, cursor, selected, url, user, email, otp, edited>>

\* The API handles the call, and its answer or the failure reaches the loop, in any order.
Return(c) ==
    \E status \in Statuses : \E m \in Messages(c, status) :
       /\ calls[c] > 0 /\ calls' = [calls EXCEPT ![c] = @ - 1]
       /\ \/ c.kind = "link" /\ status \in {0, 200} /\ sent' = sent \cup {c.arg}
          \/ (c.kind # "link" \/ status # 200) /\ UNCHANGED sent
       /\ \/ m.type = "pricing"  /\ OnPricing(m.val)
          \/ m.type = "lookup"   /\ OnLookup(m.val)
          \/ m.type = "checkout" /\ OnCheckout(m.val)
          \/ m.type = "linkSent" /\ OnLinkSent
          \/ m.type = "verified" /\ OnVerified(m.val)
          \/ m.type = "err"      /\ OnErr

\* Keys outside the two text screens; any of them first clears an error.
InMenu == view \in {"loading", "tiers", "checkout"}
ClearError ==
    /\ InMenu /\ err /\ err' = FALSE
    /\ UNCHANGED <<view, tiers, cursor, offline, selected, url, user, loading, email, otp, calls, sent,
                   edited, left>>
Move ==
    /\ view = "tiers" /\ ~err
    /\ \/ cursor > 0 /\ cursor' = cursor - 1
       \/ cursor + 1 < Len(tiers) /\ cursor' = cursor + 1
    /\ UNCHANGED <<view, tiers, offline, selected, url, user, loading, err, email, otp, calls, sent,
                   edited, left>>
LinkAccount ==
    /\ view = "tiers" /\ ~err /\ user = None
    /\ Goto("linkEmail") /\ Fill("")
    /\ UNCHANGED <<tiers, cursor, offline, selected, url, user, loading, err, otp, calls, sent>>
Buy ==
    /\ view = "tiers" /\ ~err /\ cursor < Len(tiers) /\ tiers[cursor + 1] # "free"
    /\ selected' = tiers[cursor + 1] /\ Goto("checkout")
    /\ loading' = TRUE /\ url' = None
    /\ Call("checkout", selected')
    /\ UNCHANGED <<tiers, cursor, offline, user, err, email, otp, sent, edited>>
Back ==
    /\ view \in {"loading", "checkout"} /\ ~err
    /\ Goto("tiers") /\ selected' = None /\ loading' = FALSE /\ url' = None
    /\ UNCHANGED <<tiers, cursor, offline, user, err, email, otp, calls, sent, edited>>

\* updateLinkEmail and updateLinkOTP, which do not ask whether a call is in flight
InText == view \in {"linkEmail", "linkOTP"}
TypeEmail(e) ==
    /\ view = "linkEmail" /\ Fill(e)
    /\ UNCHANGED <<view, tiers, cursor, offline, selected, url, user, loading, err, otp, calls, sent, left>>
TypeCode(o) ==
    /\ view = "linkOTP" /\ otp' = o
    /\ UNCHANGED <<view, tiers, cursor, offline, selected, url, user, loading, err, email, calls, sent,
                   edited, left>>
Submit ==
    /\ \/ view = "linkEmail" /\ Valid(email) /\ Call("link", email)
       \/ view = "linkOTP" /\ otp = "full" /\ Call("verify", None)
    /\ loading' = TRUE /\ err' = FALSE
    /\ UNCHANGED <<view, tiers, cursor, offline, selected, url, user, email, otp, sent, edited, left>>
Refuse ==
    /\ \/ view = "linkEmail" /\ ~Valid(email)
       \/ view = "linkOTP" /\ otp # "full"
    /\ err' = TRUE
    /\ UNCHANGED <<view, tiers, cursor, offline, selected, url, user, loading, email, otp, calls, sent,
                   edited, left>>
Cancel ==
    /\ InText /\ Goto("tiers") /\ Fill("") /\ err' = FALSE
    /\ otp' = IF view = "linkOTP" THEN "" ELSE otp
    /\ UNCHANGED <<tiers, cursor, offline, selected, url, user, loading, calls, sent>>
Quit ==
    /\ view' = "closed" /\ tiers' = Fallback /\ cursor' = 0 /\ offline' = TRUE
    /\ selected' = None /\ url' = None /\ user' = None /\ loading' = FALSE /\ err' = FALSE
    /\ email' = "" /\ otp' = "" /\ sent' = {} /\ edited' = FALSE /\ left' = FALSE
    /\ calls' = [c \in ScreenCalls |-> 0]

\* What the views say, of the state they are drawn from.
ShowsWarning == view = "tiers" /\ offline
ShowsUrl     == view = "checkout" /\ selected # None /\ ~loading /\ url # None
ShowsAddress == view = "linkOTP"
ShowsLoading == view = "loading" \/ (view \in {"checkout", "linkEmail", "linkOTP"} /\ loading)

ScreenInit ==
    /\ view = "loading" /\ tiers = Fallback /\ cursor = 0 /\ offline = TRUE
    /\ selected = None /\ url = None /\ user = None /\ loading = TRUE /\ err = FALSE
    /\ email = "" /\ otp = "" /\ sent = {} /\ edited = FALSE /\ left = FALSE
    /\ calls = [c \in ScreenCalls |-> IF c.kind \in {"pricing", "lookup"} THEN 1 ELSE 0]
ScreenNext ==
    /\ view # "closed" /\ ~(edited /\ left)
    /\ \/ \E c \in ScreenCalls : Return(c)
       \/ ClearError \/ Move \/ LinkAccount \/ Buy \/ Back \/ Submit \/ Refuse \/ Cancel \/ Quit
       \/ \E e \in {"", "bad"} \cup Mails : TypeEmail(e)
       \/ \E o \in {"", "short", "full"} : TypeCode(o)
-----------------------------------------------------------------------------
(* An agents session                                                        *)

KeyAuthorized(k, S) == k \in S
BridgeIdle == inp = "off" /\ outp = "off" /\ rsz = "off" /\ own = "off" /\ done = FALSE /\ peer = "off"

\* The operator edits the file; a terminal of the API starts or exits.
EditKeys(S) ==
    /\ listed' = S
    /\ UNCHANGED <<allowed, key, seat, running, offered, target, inp, outp, rsz, own, done, peer, crash>>
TermMoves(t) ==
    /\ running' = IF t \in running THEN running \ {t} ELSE running \cup {t}
    /\ UNCHANGED <<listed, allowed, key, seat, offered, target, inp, outp, rsz, own, done, peer, crash>>

\* The handshake looks at the keys read at start, an agents session at the file again.
Connect(k) ==
    /\ seat = "none" /\ BridgeIdle /\ KeyAuthorized(k, allowed)
    /\ key' = k /\ seat' = "connected"
    /\ UNCHANGED <<listed, allowed, running, offered, target, inp, outp, rsz, own, done, peer, crash>>
AgentsScreen ==
    /\ seat = "connected"
    /\ seat' = IF KeyAuthorized(key, listed) THEN "agents" ELSE "none"
    /\ UNCHANGED <<listed, allowed, key, running, offered, target, inp, outp, rsz, own, done, peer, crash>>

\* Handle: a failed listing ends the session
List ==
    /\ seat = "agents"
    /\ \/ seat' = "picking" /\ offered' = running
       \/ seat' = "none" /\ UNCHANGED offered
    /\ UNCHANGED <<listed, allowed, key, running, target, inp, outp, rsz, own, done, peer, crash>>
\* spawnSession: what the API answers, if anything, is looked at before it is used
Spawned(status, id) == IF status = 200 THEN id ELSE None
Pick ==
    /\ seat = "picking"
    /\ \/ \E t \in offered : target' = t /\ seat' = "dialing" /\ UNCHANGED running
       \/ \E status \in Statuses, id \in (Remotes \ running) \cup {None} :
             /\ target' = Spawned(status, id)
             /\ seat' = IF target' = None THEN "none" ELSE "dialing"
             /\ running' = IF status = 200 THEN running \cup ({id} \ {None}) ELSE running
       \/ seat' = "none" /\ UNCHANGED <<target, running>>
    /\ UNCHANGED <<listed, allowed, key, offered, inp, outp, rsz, own, done, peer, crash>>
Dial ==
    /\ seat = "dialing"
    /\ \/ /\ target \in running /\ seat' = "bridged" /\ peer' = "open"
          /\ inp' = "reading" /\ outp' = "select" /\ own' \in {"resize", "await"}   \* without a pty: await
       \/ seat' = "none" /\ UNCHANGED <<peer, inp, outp, own>>
    /\ UNCHANGED <<listed, allowed, key, running, offered, target, rsz, done, crash>>

\* Closing `done` twice would end the whole process; closeOnce sees to that.
CloseDone == done' = TRUE /\ UNCHANGED crash
\* Two goroutines inside WriteJSON at once may trip the check of the WebSocket library.
WritersNow == {x \in {<<"inp", inp>>, <<"rsz", rsz>>, <<"own", own>>} : x[2] \in {"writing", "resize"}}
Written == crash' \in IF Cardinality(WritersNow) > 1 THEN {crash, "write"} ELSE {crash}

SshToWs ==
    /\ \/ /\ inp = "reading"
          /\ \/ inp' = "writing" /\ UNCHANGED <<done, crash>>
             \/ inp' = "ended" /\ CloseDone                 \* end of input, or Ctrl+]
       \/ /\ inp = "writing"
          /\ \/ peer # "closed" /\ inp' = "reading" /\ Written /\ UNCHANGED done
             \/ peer # "open" /\ inp' = "ended" /\ CloseDone
    /\ UNCHANGED <<listed, allowed, key, seat, running, offered, target, outp, rsz, own, peer>>
WsToSsh ==
    /\ \/ /\ outp = "select" /\ outp' = (IF done THEN "ended" ELSE "reading")
          /\ UNCHANGED <<done, crash, peer>>
       \/ /\ outp = "reading"
          /\ \/ peer = "open" /\ outp' = "select" /\ UNCHANGED <<done, crash, peer>>      \* output, error
             \/ peer = "open" /\ outp' = "ended" /\ peer' = "exited" /\ UNCHANGED <<done, crash>>
             \/ peer = "closed" /\ outp' = "ended" /\ CloseDone /\ UNCHANGED peer
    /\ UNCHANGED <<listed, allowed, key, seat, running, offered, target, inp, rsz, own>>
Resize ==
    /\ \/ rsz = "idle" /\ rsz' = (IF done THEN "off" ELSE "writing") /\ UNCHANGED crash
       \/ rsz = "writing" /\ rsz' = "idle" /\ Written
    /\ UNCHANGED <<listed, allowed, key, seat, running, offered, target, inp, outp, own, done, peer>>
Own ==
    /\ \/ own = "resize" /\ own' = "await" /\ rsz' = "idle" /\ Written /\ UNCHANGED <<seat, inp, outp, peer, done>>
       \/ own = "await" /\ done /\ own' = "join" /\ UNCHANGED <<rsz, crash, seat, inp, outp, peer, done>>
       \/ /\ own = "join" /\ inp = "ended" /\ outp = "ended"
          /\ own' = "off" /\ inp' = "off" /\ outp' = "off" /\ peer' = "off" /\ done' = FALSE
          /\ rsz' = "off" /\ seat' = "none" /\ UNCHANGED crash
    /\ UNCHANGED <<listed, allowed, key, running, offered, target>>
PeerCloses ==
    /\ peer \in {"open", "exited"} /\ peer' = "closed"
    /\ UNCHANGED <<listed, allowed, key, seat, running, offered, target, inp, outp, rsz, own, done, crash>>

BridgeInit ==
    /\ allowed \in (SUBSET Keys) \ {{}} /\ listed = allowed
    /\ key = None /\ seat = "none" /\ running = {} /\ offered = {} /\ target = None
    /\ BridgeIdle /\ crash = "no"
BridgeNext ==
    /\ crash = "no"
    /\ \/ \E S \in SUBSET Keys : EditKeys(S)
       \/ \E t \in Remotes : TermMoves(t)
       \/ \E k \in Keys : Connect(k)
       \/ AgentsScreen \/ List \/ Pick \/ Dial \/ SshToWs \/ WsToSsh \/ Resize \/ Own \/ PeerCloses
-----------------------------------------------------------------------------
(* ParseSSEEvents: one line at a time, over a channel nothing is kept in     *)

LineKinds == {"data", "comment", "broken", "done", "long"}   \* long: more than the scanner holds
Ends(l) == l.kind \in {"done", "long"}
Arrive(kd) ==
    /\ Len(lines) < MaxLines
    /\ lines' = Append(lines, [n |-> Len(lines) + 1, kind |-> kd])
    /\ UNCHANGED <<pos, fed, scan>>
Scan ==
    /\ scan = "scan" /\ pos < Len(lines) /\ pos' = pos + 1
    /\ scan' = CASE Ends(lines[pos']) -> "closed" [] lines[pos'].kind = "data" -> "send" [] OTHER -> "scan"
    /\ UNCHANGED <<lines, fed>>
Take ==
    /\ scan = "send" /\ fed' = Append(fed, lines[pos].n) /\ scan' = "scan"
    /\ UNCHANGED <<lines, pos>>
StreamEnds ==
    /\ scan = "scan" /\ pos = Len(lines) /\ scan' = "closed"
    /\ UNCHANGED <<lines, pos, fed>>
StreamInit == lines = <<>> /\ pos = 0 /\ fed = <<>> /\ scan = "scan"
StreamNext == Scan \/ Take \/ StreamEnds \/ \E kd \in LineKinds : Arrive(kd)

Init == ScreenInit /\ BridgeInit /\ StreamInit
-----------------------------------------------------------------------------
(* Properties                                                               *)

TypeOK ==
    /\ view \in {"loading", "tiers", "checkout", "linkEmail", "linkOTP", "closed"}
    /\ tiers \in {Fallback} \cup (LiveTiers \ {<<>>}) /\ cursor \in Nat
    /\ {offline, loading, err, edited, left, done} \subseteq BOOLEAN
    /\ {selected, url} \subseteq {None, "pro", "max", "enterprise"} /\ user \in {None, "account"}
    /\ email \in {"", "bad"} \cup Mails /\ otp \in {"", "short", "full"} /\ sent \subseteq Mails
    /\ calls \in [ScreenCalls -> Nat]
    /\ listed \subseteq Keys /\ allowed \subseteq Keys /\ key \in Keys \cup {None}
    /\ seat \in {"none", "connected", "agents", "picking", "dialing", "bridged"}
    /\ running \subseteq Remotes /\ offered \subseteq Remotes /\ target \in Remotes \cup {None}
    /\ inp \in {"off", "reading", "writing", "ended"} /\ outp \in {"off", "select", "reading", "ended"}
    /\ rsz \in {"off", "idle", "writing"} /\ own \in {"off", "resize", "await", "join"}
    /\ peer \in {"off", "open", "exited", "closed"} /\ crash \in {"no", "close", "write"}
    /\ Len(lines) <= MaxLines /\ pos \in 0 .. Len(lines) /\ scan \in {"scan", "send", "closed"}

\* The warning about old prices is shown exactly as long as the built-in prices
\* are: neither a failed lookup nor a failed checkout that comes before or after
\* the live prices can bring it up or take it away (model.go:73-76, 203-213).
PricesAreFlagged == view = "tiers" => (ShowsWarning <=> tiers = Fallback)

\* A payment address on the screen is for the plan the screen names, although
\* answers apply whatever was selected since; unless a checkout was left while
\* its call was in flight (esc, or an answer that changes the screen).
PayForSelected == ShowsUrl /\ ~left => url = selected

\* The screen that asks for the code names an address a code was sent to, unless
\* the address was changed while the call was in flight.
CodeWentThere == ShowsAddress /\ ~edited => email \in sent

\* A screen that says "loading" waits for a call that is still in flight: no
\* order of answers and keys leaves it waiting for nothing.
LoadingHasCall ==
    ShowsLoading =>
       IF view = "loading" THEN Pending("pricing") ELSE \E k \in {"checkout", "link", "verify"} : Pending(k)

\* A bridge that both readers have left has been told to end: no path out of
\* them leaves the session waiting on `done` for ever, and no second close of
\* it crashes the server (proxy.go:245-248).
BridgeEnds ==
    /\ inp = "ended" /\ outp = "ended" => done
    /\ crash # "close"

\* A session that reaches a remote terminal is one whose key the file listed
\* when it asked, whatever was read at start, and the terminal is a real one:
\* an answer with a failed status or without an id opens nothing.
ListedReach ==
    /\ seat = "connected" /\ seat' = "agents" => key \in listed
    /\ seat = "picking" /\ seat' = "dialing" => target' \in offered \cup running'
OnlyListedReach == [][ListedReach]_bridgeVars

\* What the consumer of a stream got is each event that arrived before the end
\* mark, once and in order; nothing after it, nothing that did not parse.
StreamIsFaithful ==
    LET IsData(l) == l.kind = "data"
        Before == {i \in 1 .. pos : \A j \in 1 .. i : ~Ends(lines[j])}
        Data   == {i \in Before : IsData(lines[i])} \ (IF scan = "send" THEN {pos} ELSE {})
    IN /\ Len(fed) = Cardinality(Data) /\ {fed[i] : i \in 1 .. Len(fed)} = Data
       /\ \A i, j \in 1 .. Len(fed) : i < j => fed[i] < fed[j]
================================================================================
