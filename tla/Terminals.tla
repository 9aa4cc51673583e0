------------------------------ MODULE Terminals ------------------------------
(* The terminals of the desktop application: SSH sessions with their host    *)
(* keys and local shells, the backend's map of sessions, the task that pumps *)
(* the output of each, and the hook that shows one of them.                  *)
EXTENDS Naturals, Sequences, FiniteSets

CONSTANTS Sessions, Keys, None

VARIABLES
    kind,     \* what the panel shows: "ssh" or "shell"
    known,    \* known_hosts, the lines of the one host
    sess,     \* connect, open: where each session is, its host key, its pump
    entry,    \* the sessions in the map of SshState or LocalShellState
    events,   \* ssh_disconnect and shell_exit events on their way to the window
    hook,     \* useSsh, useLocalShell
    excused   \* what the properties leave out, by reason

terminalVars == <<kind, known, sess, entry, events, hook, excused>>

TypeOK ==
    /\ kind \in {"ssh", "shell"} /\ known \in Seq(Keys)
    /\ sess \in [Sessions -> [at : {"idle", "dialing", "unknown", "keyed", "up", "returned",
                                    "heard", "listening", "shown", "failed"},
                              key : Keys \cup {None}, pump : {"none", "running", "ended", "gone"}]]
    /\ entry \subseteq Sessions /\ events \subseteq Sessions
    /\ hook \in [ref : Sessions \cup {None}, shown : Sessions \cup {None}, ears : SUBSET Sessions,
                 ear : Sessions \cup {None}, closing : Sessions \cup {None},
                 sending : Sessions \cup {None}, mounted : BOOLEAN]
    /\ excused \in [keys : SUBSET Sessions, strays : SUBSET Sessions, unheard : SUBSET Sessions]

Init ==
    /\ kind \in {"ssh", "shell"} /\ known \in {<<>>} \cup {<<k>> : k \in Keys}
    /\ sess = [s \in Sessions |-> [at |-> "idle", key |-> None, pump |-> "none"]]
    /\ entry = {} /\ events = {}
    /\ hook = [ref |-> None, shown |-> None, ears |-> {}, ear |-> None,
               closing |-> None, sending |-> None, mounted |-> TRUE]
    /\ excused = [keys |-> {}, strays |-> {}, unheard |-> {}]

At(s, states) == sess[s].at \in states
Underway == {s \in Sessions : At(s, {"dialing", "unknown", "keyed", "up", "returned", "heard", "listening"})}
-----------------------------------------------------------------------------
(* The host key of an SSH session                                           *)

\* From the form, a bookmark, Reconnect or Restart, once the hook refers to nothing.
Connect(s) ==
    /\ At(s, {"idle"}) /\ hook.mounted /\ hook.ref = None
    /\ sess' = [sess EXCEPT ![s].at = IF kind = "ssh" THEN "dialing" ELSE "up"]
    /\ UNCHANGED <<kind, known, entry, events, hook, excused>>

Matching(k) == known # <<>> /\ known[1] = k

\* check_known_hosts_file: the first line of the host decides
CheckKey(s, k) ==
    /\ At(s, {"dialing"})
    /\ sess' = [sess EXCEPT ![s] = [@ EXCEPT !.key = k,
                    !.at = IF known = <<>> THEN "unknown" ELSE IF Matching(k) THEN "keyed" ELSE "failed"]]
    /\ excused' = IF known = <<>> /\ \E t \in Sessions : At(t, {"unknown"})
                  THEN [excused EXCEPT !.keys = @ \cup {s} \cup {t \in Sessions : At(t, {"unknown"})}]
                  ELSE excused
    /\ UNCHANGED <<kind, known, entry, events, hook>>

\* learn_known_host; an error is ignored
Learn(s) ==
    /\ At(s, {"unknown"})
    /\ sess' = [sess EXCEPT ![s].at = "keyed"]
    /\ \/ known' = Append(known, sess[s].key) /\ UNCHANGED excused
       \/ excused' = [excused EXCEPT !.keys = @ \cup {s}] /\ UNCHANGED known
    /\ UNCHANGED <<kind, entry, events, hook>>

\* no connection, wrong credentials, no channel, no shell
ConnectFails(s) ==
    /\ IF kind = "ssh" THEN At(s, {"dialing", "keyed"}) ELSE At(s, {"up"}) /\ sess[s].pump = "none"
    /\ sess' = [sess EXCEPT ![s].at = "failed"]
    /\ UNCHANGED <<kind, known, entry, events, hook, excused>>
-----------------------------------------------------------------------------
(* The backend's session                                                    *)

\* the task is started before the session is stored
StartPump(s) ==
    /\ kind = "ssh" /\ At(s, {"keyed"})
    /\ sess' = [sess EXCEPT ![s].at = "up", ![s].pump = "running"]
    /\ UNCHANGED <<kind, known, entry, events, hook, excused>>

Store(s) ==
    /\ kind = "ssh" /\ At(s, {"up"})
    /\ sess' = [sess EXCEPT ![s].at = "returned"]
    /\ entry' = entry \cup {s}
    /\ UNCHANGED <<kind, known, events, hook, excused>>

\* a shell is stored before its reader starts
OpenShell(s) ==
    /\ kind = "shell" /\ At(s, {"up"})
    /\ sess' = [sess EXCEPT ![s].at = "returned", ![s].pump = "running"]
    /\ entry' = entry \cup {s}
    /\ UNCHANGED <<kind, known, events, hook, excused>>

\* the other side closed the channel, or the shell exited
End(s) ==
    /\ sess[s].pump = "running"
    /\ sess' = [sess EXCEPT ![s].pump = "ended"]
    /\ events' = events \cup {s}
    /\ UNCHANGED <<kind, known, entry, hook, excused>>

CleanedUp(s) == entry \ {s}

\* a session that ends before it is stored stays in the map
CleanUp(s) ==
    /\ sess[s].pump = "ended"
    /\ sess' = [sess EXCEPT ![s].pump = "gone"]
    /\ entry' = CleanedUp(s)
    /\ excused' = IF At(s, {"up"}) THEN [excused EXCEPT !.strays = @ \cup {s}] ELSE excused
    /\ UNCHANGED <<kind, known, events, hook>>
-----------------------------------------------------------------------------
(* The hook                                                                 *)

GotId(s) ==
    /\ At(s, {"returned"})
    /\ sess' = [sess EXCEPT ![s].at = "heard"]
    /\ hook' = [hook EXCEPT !.ref = s]
    /\ UNCHANGED <<kind, known, entry, events, excused>>

ListenForEnd(s) ==
    /\ At(s, {"heard"})
    /\ sess' = [sess EXCEPT ![s].at = "listening"]
    /\ hook' = [hook EXCEPT !.ears = @ \cup {s}, !.ear = s]
    /\ UNCHANGED <<kind, known, entry, events, excused>>

\* the state is set to connected, whatever happened since
Show(s) ==
    /\ At(s, {"listening"})
    /\ sess' = [sess EXCEPT ![s].at = "shown"]
    /\ hook' = IF hook.mounted THEN [hook EXCEPT !.shown = s] ELSE hook
    /\ excused' = IF hook.ref # s THEN [excused EXCEPT !.unheard = @ \cup {s}] ELSE excused
    /\ UNCHANGED <<kind, known, entry, events>>

\* handleSessionLost, and the end of disconnect() and close(): the reference is cleared,
\* the last listeners are removed and nothing is shown
Cleared(h) == [h EXCEPT !.ref = None, !.shown = None, !.ears = @ \ {h.ear}, !.ear = None]

\* an answer for s that clears a later session
LateFor(s) ==
    IF hook.ref \in {None, s} THEN excused ELSE [excused EXCEPT !.strays = @ \cup {hook.ref}]

\* Every listener compares the event with the session the hook refers to by now.
Deliver(s) ==
    /\ s \in events
    /\ events' = events \ {s}
    /\ IF hook.ears # {} /\ hook.ref = s
       THEN hook' = Cleared(hook) /\ UNCHANGED excused
       ELSE /\ excused' = IF Underway # {} THEN [excused EXCEPT !.unheard = @ \cup {s}] ELSE excused
            /\ UNCHANGED hook
    /\ UNCHANGED <<kind, known, sess, entry>>

Alive(s) == s \in entry /\ sess[s].pump = "running"

\* send and resize
Send ==
    /\ hook.mounted /\ hook.ref # None /\ hook.sending = None
    /\ hook' = [hook EXCEPT !.sending = hook.ref]
    /\ UNCHANGED <<kind, known, sess, entry, events, excused>>

Sent ==
    /\ hook.sending # None /\ Alive(hook.sending)
    /\ hook' = [hook EXCEPT !.sending = None]
    /\ UNCHANGED <<kind, known, sess, entry, events, excused>>

\* an error clears the session the hook refers to by now
SendFails ==
    /\ hook.sending # None /\ ~Alive(hook.sending)
    /\ hook' = [Cleared(hook) EXCEPT !.sending = None]
    /\ excused' = LateFor(hook.sending)
    /\ UNCHANGED <<kind, known, sess, entry, events>>

\* disconnect, close: the backend forgets the session, its pump comes to an end
Disconnect ==
    /\ hook.mounted /\ hook.ref # None /\ hook.closing = None /\ Underway = {}
    /\ hook' = [hook EXCEPT !.closing = hook.ref]
    /\ entry' = entry \ {hook.ref}
    /\ UNCHANGED <<kind, known, sess, events, excused>>

Disconnected ==
    /\ hook.closing # None
    /\ hook' = [Cleared(hook) EXCEPT !.closing = None]
    /\ excused' = LateFor(hook.closing)
    /\ UNCHANGED <<kind, known, sess, entry, events>>

ForgottenOnUnmount == entry \ {hook.ref}

\* an attempt under way is not stopped, and nothing will refer to its session
Unmount ==
    /\ hook.mounted
    /\ hook' = [hook EXCEPT !.mounted = FALSE, !.shown = None, !.ears = @ \ {hook.ear}]
    /\ entry' = ForgottenOnUnmount
    /\ excused' = [excused EXCEPT !.strays = @ \cup Underway]
    /\ UNCHANGED <<kind, known, sess, events>>

\* any number of attempts at once, up to their host keys
KeyNext ==
    \E s \in Sessions :
       \/ Connect(s) \/ Learn(s) \/ ConnectFails(s) \/ \E k \in Keys : CheckKey(s, k)

\* One attempt at a time, at a known host.  A bookmark that is clicked during an attempt starts
\* another, and the hook loses the session of one of them; that is not claimed.
PanelNext ==
    \/ \E s \in Sessions :
          \/ Connect(s) /\ Underway = {}
          \/ known # <<>> /\ CheckKey(s, known[1])
          \/ ConnectFails(s) \/ StartPump(s) \/ Store(s) \/ OpenShell(s)
          \/ End(s) \/ CleanUp(s) \/ GotId(s) \/ ListenForEnd(s) \/ Show(s) \/ Deliver(s)
    \/ Send \/ Sent \/ SendFails \/ Disconnect \/ Disconnected \/ Unmount

KeySpec   == Init /\ [][KeyNext]_terminalVars
PanelSpec == Init /\ [][PanelNext]_terminalVars
-----------------------------------------------------------------------------
\* Whatever keys a host presents over many connections, all that got as far as credentials
\* met one and the same key, unless the key could not be recorded or two first connections
\* overlapped (check_server_key).
KeyIsPinned ==
    LET trusted == {s \in Sessions : sess[s].key # None /\ ~At(s, {"failed", "unknown"})}
    IN excused.keys = {} => \A s, t \in trusted : sess[s].key = sess[t].key

\* A session that runs in the backend is the one the panel refers to, or its number is still
\* on its way there; otherwise nobody could end it.  A panel closed during an attempt and a
\* late answer for an earlier session are left out, and so is the map entry of a session that
\* ended before it was stored (ssh.rs connect, useSsh, useLocalShell).
NoStrays ==
    \A s \in entry \ excused.strays :
        \/ hook.mounted /\ s = hook.ref
        \/ At(s, {"returned"})
        \/ sess[s].pump = "ended"

\* A panel that shows a session as connected can still reach it, or its end is about to be
\* reported, or the next keystroke will find out; an end that was reported before the
\* listeners were there is left out (useSsh, useLocalShell).
ShownIsReal ==
    hook.shown # None /\ hook.shown \notin excused.unheard =>
        /\ hook.ref = hook.shown
        /\ Alive(hook.shown) \/ hook.closing = hook.shown \/ hook.shown \in events
=============================================================================
