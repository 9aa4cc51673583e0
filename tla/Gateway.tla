------------------------------- MODULE Gateway -------------------------------
(***************************************************************************)
(* The HTTP gateway (http-gateway.ts, gateway-store.ts, gateway-rpc.ts):   *)
(* the pairing secret, pairing with its nonces and lockouts, and bearer    *)
(* tokens; and the streams of a process's output with the tickets that     *)
(* open them (spawn-events.ts).                                            *)
(***************************************************************************)
EXTENDS Naturals, FiniteSets, Sequences

CONSTANTS
    Secrets,     \* contents a secret file may have
    Nonces,      \* pairing nonces, and the bearer tokens minted for them
    Conns,       \* connections with a POST /api/pair
    MaxNonces,   \* MAX_PENDING_NONCES
    Threshold,   \* lockoutThreshold
    BaseLock,    \* baseLockoutMs
    MaxLock,     \* maxLockoutMs
    Ceiling,     \* globalFailureCeiling
    Horizon,     \* bound: the clock of the limiter
    MaxFailures, \* bound: failures of the one source that is modelled
    Tickets, Streams, Procs,
    MaxTickets,  \* MAX_PENDING_TICKETS
    MaxStreams,  \* MAX_SSE_CONNECTIONS
    None

VARIABLES
    file,      \* the secret file: contents, None (missing), or "unsafe" (link, mode, empty)
    recorded,  \* gateway_bootstrap.secret_hash
    key,       \* bootstrapSecret
    starting,  \* initAuth: the secret it wrote, or found, and has to record
    nonces,    \* outstanding pairing nonces
    conns,     \* what an admitted attempt presents: a nonce and the key of its response
    limiter,   \* failures and lock of the source, and of the gateway
    clock,
    tokens,    \* bearer tokens by the nonce they were minted for
    minted,    \* nonces for which a token was minted
    pending,   \* stream tickets in the order of issue
    streams,   \* the process of each open stream
    active,    \* activeStreamCount
    opened     \* tickets that opened a stream

keyVars  == <<file, recorded, key, starting>>
pairVars == <<nonces, conns, limiter, clock, tokens, minted>>
gatewayVars == <<keyVars, pairVars>>
streamVars == <<pending, streams, active, opened>>

Attempt == [nonce : Nonces, with : Secrets]
Ticket  == [ticket : Tickets, proc : Procs]
Ticketed(seq) == {seq[i].ticket : i \in DOMAIN seq}

PairTypeOK ==
    /\ file \in Secrets \cup {None, "unsafe"}
    /\ {recorded, key, starting} \subseteq Secrets \cup {None}
    /\ nonces \subseteq Nonces
    /\ conns \in [Conns -> Attempt \cup {None}]
    /\ limiter \in [failures : 0..MaxFailures, locked : Nat, all : 0..Ceiling, allLocked : Nat]
    /\ clock \in 0..Horizon
    /\ tokens \subseteq Nonces /\ minted \subseteq Nonces

StreamTypeOK ==
    /\ pending \in Seq(Ticket) /\ Len(pending) <= MaxTickets
    /\ streams \in [Streams -> Procs \cup {None}]
    /\ active \in Nat
    /\ opened \subseteq Tickets

PairInit ==
    /\ file \in Secrets \cup {None, "unsafe"}
    /\ recorded = None /\ key = None /\ starting = None
    /\ nonces = {} /\ conns = [c \in Conns |-> None] /\ clock = 0
    /\ limiter = [failures |-> 0, locked |-> 0, all |-> 0, allLocked |-> 0]
    /\ tokens = {} /\ minted = {}

StreamInit == pending = <<>> /\ streams = [s \in Streams |-> None] /\ active = 0 /\ opened = {}

-----------------------------------------------------------------------------
(* initAuth.                                                               *)

\* A secret is only used if its hash is, or now becomes, the one on record.
Usable(hash, contents) == contents \in Secrets /\ hash \in {None, contents}

\* Reads the hash and the file, creates the file where both are missing.
InitAuth ==
    /\ key = None /\ starting = None
    /\ IF file = None /\ recorded = None
       THEN \E s \in Secrets : file' = s /\ starting' = s /\ UNCHANGED key
       ELSE /\ IF ~Usable(recorded, file) THEN UNCHANGED <<key, starting>>
               ELSE IF recorded = None THEN starting' = file /\ UNCHANGED key
               ELSE key' = file /\ UNCHANGED starting
            /\ UNCHANGED file
    /\ UNCHANGED <<recorded, pairVars>>

\* putBootstrapSecretHash, and the rest of initAuth.
RecordSecret ==
    /\ starting # None
    /\ recorded' = starting /\ key' = starting /\ starting' = None
    /\ UNCHANGED <<file, pairVars>>

\* The operator, or somebody else, replaces or removes the file.
TouchFile ==
    /\ file' \in Secrets \cup {None, "unsafe"}
    /\ UNCHANGED <<recorded, key, starting, pairVars>>

-----------------------------------------------------------------------------
(* Pairing.                                                                *)

\* GET /api/pair
IssueNonce(n) ==
    /\ n \notin nonces /\ n \notin minted
    /\ Cardinality(nonces) < MaxNonces
    /\ nonces' = nonces \cup {n}
    /\ UNCHANGED <<conns, limiter, clock, tokens, minted, keyVars>>

ExpireNonce(n) ==
    /\ n \in nonces
    /\ nonces' = nonces \ {n}
    /\ UNCHANGED <<conns, limiter, clock, tokens, minted, keyVars>>

Locked == clock < limiter.locked \/ clock < limiter.allLocked

\* POST /api/pair: the lock is consulted when the headers arrive, the body is
\* read later.
AdmitPair(c) ==
    /\ conns[c] = None /\ ~Locked
    /\ \E a \in Attempt : conns' = [conns EXCEPT ![c] = a]
    /\ UNCHANGED <<nonces, limiter, clock, tokens, minted, keyVars>>

\* The lock doubles with every failure beyond the threshold.
LockTime(failures) ==
    LET doubled == BaseLock * 2 ^ (failures - Threshold)
    IN IF doubled < MaxLock THEN doubled ELSE MaxLock
RecordFailure(l, now) ==
    LET failures == l.failures + 1
        trips    == l.all + 1 >= Ceiling
    IN [failures  |-> failures,
        locked    |-> IF failures >= Threshold THEN now + LockTime(failures) ELSE l.locked,
        all       |-> IF trips THEN 0 ELSE l.all + 1,
        allLocked |-> IF trips THEN now + BaseLock ELSE l.allLocked]

\* The nonce is consumed whatever comes of it; a response is right if it was
\* made with the secret.
NoncesLeftUnlessGood(n, good) == IF good THEN nonces ELSE nonces \ {n}
NoncesLeft(n, good) == nonces \ {n}
CompletePair(c) ==
    LET n == conns[c].nonce IN
    /\ conns[c] # None
    /\ conns' = [conns EXCEPT ![c] = None]
    /\ IF key = None THEN UNCHANGED <<nonces, limiter, tokens, minted>>
       ELSE /\ nonces' = NoncesLeft(n, conns[c].with = key)
            /\ IF n \in nonces /\ conns[c].with = key
               THEN /\ tokens' = tokens \cup {n} /\ minted' = minted \cup {n}
                    /\ limiter' = [limiter EXCEPT !.failures = 0, !.locked = 0]
               ELSE /\ limiter.failures < MaxFailures
                    /\ limiter' = RecordFailure(limiter, clock)
                    /\ UNCHANGED <<tokens, minted>>
    /\ UNCHANGED <<clock, keyVars>>

\* gateway.revokeToken, expiry and pruneExpiredTokens.
DropToken(n) ==
    /\ n \in tokens
    /\ tokens' = tokens \ {n}
    /\ UNCHANGED <<nonces, conns, limiter, clock, minted, keyVars>>

Tick ==
    /\ clock < Horizon
    /\ clock' = clock + 1
    /\ UNCHANGED <<nonces, conns, limiter, tokens, minted, keyVars>>

-----------------------------------------------------------------------------
\* Memory goes; the file, the record and the tokens stay.
Restart ==
    /\ key' = None /\ starting' = None
    /\ nonces' = {} /\ conns' = [c \in Conns |-> None]
    /\ limiter' = [failures |-> 0, locked |-> 0, all |-> 0, allLocked |-> 0]
    /\ UNCHANGED <<file, recorded, clock, tokens, minted>>

PairNext ==
    \/ InitAuth \/ RecordSecret \/ TouchFile \/ Tick \/ Restart
    \/ \E n \in Nonces : IssueNonce(n) \/ ExpireNonce(n) \/ DropToken(n)
    \/ \E c \in Conns : AdmitPair(c) \/ CompletePair(c)

-----------------------------------------------------------------------------
(* Streams.                                                                *)

\* agent.streamTicket, for a controller of the process.  A full table loses
\* its oldest ticket.
IssueTicket(t, p) ==
    LET room == IF Len(pending) >= MaxTickets THEN Tail(pending) ELSE pending IN
    /\ t \notin Ticketed(pending) \cup opened
    /\ pending' = Append(room, [ticket |-> t, proc |-> p])
    /\ UNCHANGED <<streams, active, opened>>

ExpireTicket ==
    /\ pending # <<>>
    /\ pending' = Tail(pending)
    /\ UNCHANGED <<streams, active, opened>>

\* The table without its i-th entry.
Burn(seq, i) == [j \in 1 .. (Len(seq) - 1) |-> IF j < i THEN seq[j] ELSE seq[j + 1]]
HasRoom == active < MaxStreams

\* GET /api/stream/p?ticket=t with a bearer token.  The ticket is burnt before
\* it is compared and before the cap is.
OpenStream(s, t, p) ==
    /\ streams[s] = None
    /\ \E i \in DOMAIN pending :
          /\ pending[i].ticket = t
          /\ pending' = Burn(pending, i)
          /\ IF pending[i].proc = p /\ HasRoom
             THEN /\ streams' = [streams EXCEPT ![s] = p]
                  /\ active' = active + 1
                  /\ opened' = opened \cup {t}
             ELSE UNCHANGED <<streams, active, opened>>

CloseStream(s) ==
    /\ streams[s] # None
    /\ streams' = [streams EXCEPT ![s] = None]
    /\ active' = active - 1
    /\ UNCHANGED <<pending, opened>>

\* A restart closes every stream and forgets every ticket.
RestartStreams ==
    /\ pending' = <<>> /\ streams' = [s \in Streams |-> None] /\ active' = 0
    /\ UNCHANGED opened

StreamNext ==
    \/ ExpireTicket \/ RestartStreams
    \/ \E t \in Tickets, p \in Procs : IssueTicket(t, p) \/ \E s \in Streams : OpenStream(s, t, p)
    \/ \E s \in Streams : CloseStream(s)

PairSpec   == PairInit /\ [][PairNext]_gatewayVars
StreamSpec == StreamInit /\ [][StreamNext]_streamVars
-----------------------------------------------------------------------------
(* Properties.                                                             *)

\* A pairing nonce buys one bearer token, over expiry, wrong responses and restarts.
Pairing == INSTANCE Once WITH Credentials <- Nonces, valid <- nonces, used <- minted
PairingStarts    == Pairing!Init
PairsOnce        == Pairing!Next

\* The record of the secret is the only key that pairs, whatever happens to the
\* file between two starts or between its creation and its record.
KeyIsOnRecord == key # None => key = recorded

\* However the attempts overlap, a source that fails waits for a base lock per
\* round of its connections once it has reached the threshold.
GuessesAreSlowed ==
    \A k \in 0..MaxFailures : limiter.failures >= Threshold + k * Cardinality(Conns)
                              => clock >= k * BaseLock

\* A ticket opens one stream, over expiry, wrong processes, full tables and restarts.
Streaming == INSTANCE Once WITH Credentials <- Tickets, valid <- Ticketed(pending), used <- opened
StreamingStarts    == Streaming!Init
StreamsOnce        == Streaming!Next

\* The counter of the streams is their number, and never beyond the cap.
StreamsAreCounted ==
    /\ active = Cardinality({s \in Streams : streams[s] # None})
    /\ active <= MaxStreams
=============================================================================
