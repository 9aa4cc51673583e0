--------------------------------- MODULE Mail ---------------------------------
(***************************************************************************)
(* What agents tell one another: mail and its copy in Neon (server.ts, the *)
(* mail handlers; neon.ts), where a handler writes its local rows and      *)
(* then, in statements of their own, the copies; and the event feed        *)
(* (server.ts events.log and events.wait, work-events.ts,                  *)
(* design-pack-events.ts).  The two share no state.                        *)
(***************************************************************************)
EXTENDS Naturals, Sequences, FiniteSetsExt

CONSTANTS
    Agents,
    Mails,    \* message ids
    Calls,    \* handlers in progress
    Waiters,
    Types,    \* event types
    Hot,      \* the types announced on the bus once their row is written
    Early,    \* the types announced on it before
    Wants,    \* the type each waiter asks for
    MaxLog,   \* bound on the rows
    MaxPolls, \* bound on the polls of one waiter that are under way
    None

VARIABLES
    open,      \* the agents whose session is open
    mail,      \* agent_messages
    posted,    \* coordination_mail
    calls,
    lost,      \* mails whose copy was never made, or marked before it was
    log,       \* the type of each row, by id
    announced, \* whether a hot row is still to be announced on the bus
    wait,      \* each waiter's request: where it is, and the row it has found
    polls,     \* its queries that have run and whose answers are still to be handled
    since,     \* the sinceId its client asks with
    got        \* the rows its client was given

mailVars == <<open, mail, posted, calls, lost>>
feedVars == <<log, announced, wait, polls, since, got>>

-----------------------------------------------------------------------------
(* Mail.                                                                   *)

Message == [to : Agents, read : BOOLEAN] \cup {None}
Handler == [op : {"cast", "post", "mark"}, agent : Agents, to : SUBSET Agents, mails : SUBSET Mails]

TypeOK ==
    /\ open \subseteq Agents
    /\ {mail, posted} \subseteq [Mails -> Message]
    /\ calls \in [Calls -> Handler \cup {None}]
    /\ lost \subseteq Mails

Init ==
    /\ open = {}
    /\ mail = [m \in Mails |-> None] /\ posted = [m \in Mails |-> None]
    /\ calls = [c \in Calls |-> None]
    /\ lost = {}

At(c, op) == calls[c] # None /\ calls[c].op = op
Leave(c)  == calls' = [calls EXCEPT ![c] = None]
Begin(c, op, a, to, mails) ==
    /\ calls[c] = None
    /\ calls' = [calls EXCEPT ![c] = [op |-> op, agent |-> a, to |-> to, mails |-> mails]]

OpenSession(a) ==
    /\ open' = (open \ {a}) \cup ({a} \ open)
    /\ UNCHANGED <<mail, posted, calls, lost>>

\* mail.send has one recipient, of which nothing is asked; mail.broadcast takes
\* the sessions that are open now.
BeginMail(c, a, to) ==
    /\ to = open \ {a} \/ \E b \in Agents : to = {b}
    /\ to # {} /\ Begin(c, "cast", a, to, {})
    /\ UNCHANGED <<open, mail, posted, lost>>

\* One row for each recipient, then the copies.
Deliver(c, b, m) ==
    /\ At(c, "cast") /\ b \in calls[c].to /\ mail[m] = None
    /\ mail' = [mail EXCEPT ![m] = [to |-> b, read |-> FALSE]]
    /\ calls' = [calls EXCEPT ![c].to = @ \ {b}, ![c].mails = @ \cup {m},
                              ![c].op = IF calls[c].to = {b} THEN "post" ELSE "cast"]
    /\ UNCHANGED <<open, posted, lost>>

Post(c, m) ==
    /\ At(c, "post") /\ m \in calls[c].mails
    /\ posted' = [posted EXCEPT ![m] = [to |-> mail[m].to, read |-> FALSE]]
    /\ calls' = [calls EXCEPT ![c] = IF calls[c].mails = {m} THEN None
                                       ELSE [calls[c] EXCEPT !.mails = @ \ {m}]]
    /\ UNCHANGED <<open, mail, lost>>

\* The first copy that fails ends the copying; a crash or a failing local
\* statement ends the handler.
FailMail(c) ==
    /\ calls[c] # None
    /\ lost' = lost \cup calls[c].mails
    /\ Leave(c) /\ UNCHANGED <<open, mail, posted>>

\* UPDATE ... WHERE to_agent = a AND id = ANY(ms).
Own(a, ms, box) == {m \in ms : box[m] # None /\ box[m].to = a}
MarkRead(a, ms, box) ==
    [m \in Mails |-> IF m \in Own(a, ms, box) THEN [box[m] EXCEPT !.read = TRUE] ELSE box[m]]

BeginMark(c, a, m) ==
    /\ Begin(c, "mark", a, {}, {m}) /\ mail[m] # None
    /\ mail' = MarkRead(a, {m}, mail)
    /\ UNCHANGED <<open, posted, lost>>

\* A copy that is not there yet is not marked, and is posted unread later.
CopyMark(c) ==
    /\ At(c, "mark")
    /\ posted' = MarkRead(calls[c].agent, calls[c].mails, posted)
    /\ lost' = lost \cup {m \in calls[c].mails : posted[m] = None}
    /\ Leave(c) /\ UNCHANGED <<open, mail>>

Next ==
    \/ \E a \in Agents : OpenSession(a)
    \/ \E c \in Calls :
          \/ \E a \in Agents, to \in SUBSET Agents : BeginMail(c, a, to)
          \/ \E a \in Agents, m \in Mails : Deliver(c, a, m) \/ BeginMark(c, a, m)
          \/ \E m \in Mails : Post(c, m)
          \/ FailMail(c) \/ CopyMark(c)

Spec == Init /\ [][Next]_mailVars

\* The fleet has no mail that is not local and none read that is unread
\* locally, and of mail that was copied undisturbed it has the same.
FleetMailIsLocal ==
    \A m \in Mails :
        /\ posted[m] # None => mail[m] # None /\ posted[m].to = mail[m].to
                               /\ (posted[m].read => mail[m].read)
        /\ m \notin lost /\ (\A c \in Calls : calls[c] # None => m \notin calls[c].mails)
              => posted[m] = mail[m]

\* Mail is marked as read by nobody but the agent it is addressed to.
MarkedByOwner ==
    \A m \in Mails : mail[m] # None /\ mail'[m] # mail[m] =>
        \E c \in Calls : calls'[c] # None /\ calls'[c].op = "mark" /\ calls'[c].agent = mail[m].to
MailIsOwn == [][MarkedByOwner]_mailVars
-----------------------------------------------------------------------------
(* The event feed: rows of the events table, the in-process bus that wakes *)
(* waiters, their polls, and clients that wait again from the last row     *)
(* they were given.                                                        *)

Ids == 1 .. MaxLog

FeedTypeOK ==
    /\ log \in Seq(Types) /\ Len(log) <= MaxLog
    /\ announced \in [Hot -> {"none", "due"}]
    /\ wait \in [Waiters -> [at : {"idle", "first", "waiting", "settled"}, row : {0} \cup Ids]]
    /\ polls \in [Waiters -> Seq({0} \cup Ids)] /\ \A w \in Waiters : Len(polls[w]) <= MaxPolls
    /\ since \in [Waiters -> {0} \cup Ids] /\ got \in [Waiters -> Seq(Ids)]

FeedInit ==
    /\ log = <<>> /\ announced = [t \in Hot |-> "none"]
    /\ wait = [w \in Waiters |-> [at |-> "idle", row |-> 0]]
    /\ polls = [w \in Waiters |-> <<>>]
    /\ since = [w \in Waiters |-> 0] /\ got = [w \in Waiters |-> <<>>]

\* INSERT INTO events.
LogEvent(t) ==
    /\ Len(log) < MaxLog /\ log' = Append(log, t)
    /\ announced' = IF t \in Hot THEN [announced EXCEPT ![t] = "due"] ELSE announced
    /\ UNCHANGED <<wait, polls, since, got>>

RowsFor(w) == {i \in DOMAIN log : log[i] = Wants[w]}

\* pollOnce: the first row of the type after sinceId.
PolledLast(w) == IF \E i \in RowsFor(w) : i > since[w] THEN Max(RowsFor(w)) ELSE 0
Polled(w) == IF \E i \in RowsFor(w) : i > since[w] THEN Min({i \in RowsFor(w) : i > since[w]}) ELSE 0
CanPoll(w) == Len(polls[w]) < MaxPolls
Poll(w) == polls' = [polls EXCEPT ![w] = Append(@, Polled(w))]

Ask(w) ==
    /\ wait[w].at = "idle" /\ wait' = [wait EXCEPT ![w] = [at |-> "first", row |-> 0]]
    /\ polls' = [polls EXCEPT ![w] = <<Polled(w)>>]
    /\ UNCHANGED <<log, announced, since, got>>

\* The bus wakes the waiters that have subscribed; design.pack.moved is
\* announced while its row is still to come.
Announce(t) ==
    LET woken == {w \in Waiters : wait[w].at = "waiting" /\ Wants[w] = t} IN
    /\ IF t \in Hot THEN announced[t] = "due" ELSE Len(log) < MaxLog
    /\ \A w \in woken : CanPoll(w)
    /\ announced' = [u \in Hot |-> IF u = t THEN "none" ELSE announced[u]]
    /\ polls' = [w \in Waiters |-> IF w \in woken THEN Append(polls[w], Polled(w)) ELSE polls[w]]
    /\ UNCHANGED <<log, wait, since, got>>

\* The timer, before the deadline and at it.
TimerPoll(w) ==
    /\ wait[w].at = "waiting" /\ CanPoll(w) /\ Poll(w)
    /\ UNCHANGED <<log, announced, wait, since, got>>

Deadline(w) ==
    /\ wait[w].at = "waiting" /\ wait' = [wait EXCEPT ![w].at = "settled"]
    /\ UNCHANGED <<log, announced, polls, since, got>>

\* The answer of a poll: the first decides between returning and subscribing,
\* a later one sets the row, and the first row settles the promise.
Answer(w) ==
    LET row == Head(polls[w])
        at  == wait[w].at
    IN /\ at # "idle" /\ polls[w] # <<>>
       /\ polls' = [polls EXCEPT ![w] = Tail(@)]
       /\ wait' = [wait EXCEPT ![w] =
                     IF row # 0 THEN [at |-> "settled", row |-> row]
                     ELSE [at |-> IF at = "first" THEN "waiting" ELSE at, row |-> @.row]]
       /\ UNCHANGED <<log, announced, since, got>>

\* The reply.  A row that only answers after it is dropped; the client asks
\* again from the last row it was given.
Reply(w) ==
    LET row == wait[w].row IN
    /\ wait[w].at = "settled"
    /\ wait' = [wait EXCEPT ![w] = [at |-> "idle", row |-> 0]]
    /\ polls' = [polls EXCEPT ![w] = <<>>]
    /\ since' = [since EXCEPT ![w] = IF row = 0 THEN @ ELSE row]
    /\ got' = [got EXCEPT ![w] = IF row = 0 THEN @ ELSE Append(@, row)]
    /\ UNCHANGED <<log, announced>>

FeedNext ==
    \/ \E t \in Types : LogEvent(t)
    \/ \E t \in Hot \cup Early : Announce(t)
    \/ \E w \in Waiters : Ask(w) \/ TimerPoll(w) \/ Deadline(w) \/ Answer(w) \/ Reply(w)

FeedSpec == FeedInit /\ [][FeedNext]_feedVars

\* A client that asks again from the last row it was given gets every row of
\* its type in order, once, over timeouts that race late answers.
FeedIsComplete ==
    \A w \in Waiters :
        /\ {got[w][k] : k \in DOMAIN got[w]} = {i \in RowsFor(w) : i <= since[w]}
        /\ \A j, k \in DOMAIN got[w] : j < k => got[w][j] < got[w][k]
=============================================================================
