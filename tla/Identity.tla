------------------------------- MODULE Identity -------------------------------
(***************************************************************************)
(* Agent identities and their signing keys (server.ts): session.register,  *)
(* which mints a key or enrols the client's, and identity.rotate.  Each    *)
(* SQL statement is a step: the handlers use no transaction.               *)
(***************************************************************************)
EXTENDS Naturals

CONSTANTS
    Agents,
    Keys,         \* fingerprints
    Provisioned,  \* the (agent, fingerprint) pairs of the trust anchor
    Calls,        \* requests in progress
    None

VARIABLES
    row,       \* agent_identity: the key and the origin of each agent
    keys,      \* agent_identity_keys: each fingerprint's agent, and whether it was superseded
    requests,
    minted,    \* keys the daemon generated
    broken     \* agents one of whose enrolments or rotations was cut off or overlapped another

identityVars == <<row, keys, requests, minted, broken>>

Row     == [key : Keys, origin : {"client", "daemon"}]
Key     == [agent : Agents, status : {"active", "superseded"}]
Request == [step : {"identity", "key", "supersede", "rotated", "point"}, agent : Agents, key : Keys,
            origin : {"client", "daemon"}]

TypeOK ==
    /\ row \in [Agents -> Row \cup {None}]
    /\ keys \in [Keys -> Key \cup {None}]
    /\ requests \in [Calls -> Request \cup {None}]
    /\ minted \subseteq Keys /\ broken \subseteq Agents

Init ==
    /\ row = [a \in Agents |-> None] /\ keys = [k \in Keys |-> None]
    /\ requests = [c \in Calls |-> None]
    /\ minted = {} /\ broken = {}

\* The agent's keys that verify a signature (verifyOrWarn).
Active(a) == {k \in Keys : keys[k] = [agent |-> a, status |-> "active"]}

Busy(a) == \E c \in Calls : requests[c] # None /\ requests[c].agent = a
Enter(c, step, a, k, origin) ==
    /\ requests[c] = None
    /\ requests' = [requests EXCEPT ![c] = [step |-> step, agent |-> a, key |-> k, origin |-> origin]]
    /\ broken' = IF Busy(a) THEN broken \cup {a} ELSE broken
GoTo(c, step) == requests' = [requests EXCEPT ![c].step = step]
Leave(c)      == requests' = [requests EXCEPT ![c] = None]
Fail(c)       == Leave(c) /\ broken' = broken \cup {requests[c].agent}

-----------------------------------------------------------------------------
\* The reads of session.register.  An agent with a row keeps it, whatever the
\* client offers.
MintKey(c, a, k) ==
    /\ row[a] = None /\ k \notin minted /\ keys[k] = None
    /\ \A b \in Agents : <<b, k>> \notin Provisioned
    /\ minted' = minted \cup {k}
    /\ Enter(c, "identity", a, k, "daemon")
    /\ UNCHANGED <<row, keys>>

Trusted(a, k) == <<a, k>> \in Provisioned
EnrolKey(c, a, k) ==
    /\ Trusted(a, k) /\ row[a] = None
    /\ Enter(c, "identity", a, k, "client")
    /\ UNCHANGED <<row, keys, minted>>

\* The two inserts; each of them fails if its primary key is taken.
InsertIdentity(c) ==
    LET r == requests[c] IN
    /\ r # None /\ r.step = "identity"
    /\ IF row[r.agent] = None
       THEN /\ row' = [row EXCEPT ![r.agent] = [key |-> r.key, origin |-> r.origin]]
            /\ GoTo(c, "key") /\ UNCHANGED broken
       ELSE Fail(c) /\ UNCHANGED row
    /\ UNCHANGED <<keys, minted>>

InsertKey(c) ==
    LET r == requests[c] IN
    /\ r # None /\ r.step \in {"key", "rotated"}
    /\ IF keys[r.key] = None
       THEN /\ keys' = [keys EXCEPT ![r.key] = [agent |-> r.agent, status |-> "active"]]
            /\ IF r.step = "key" THEN Leave(c) ELSE GoTo(c, "point")
            /\ UNCHANGED broken
       ELSE Fail(c) /\ UNCHANGED keys
    /\ UNCHANGED <<row, minted>>

\* identity.rotate, for a request that an active key of the agent signed.
Rotate(c, a, k) ==
    /\ Active(a) # {} /\ Trusted(a, k)
    /\ Enter(c, "supersede", a, k, "client")
    /\ UNCHANGED <<row, keys, minted>>

Superseded(a, k) == keys[k] # None /\ keys[k].agent = a
Supersede(c) ==
    LET r == requests[c] IN
    /\ r # None /\ r.step = "supersede"
    /\ keys' = [k \in Keys |-> IF Superseded(r.agent, k) THEN [keys[k] EXCEPT !.status = "superseded"]
                               ELSE keys[k]]
    /\ GoTo(c, "rotated")
    /\ UNCHANGED <<row, minted, broken>>

PointIdentity(c) ==
    LET r == requests[c] IN
    /\ r # None /\ r.step = "point"
    /\ row' = [row EXCEPT ![r.agent] = [key |-> r.key, origin |-> "client"]]
    /\ Leave(c)
    /\ UNCHANGED <<keys, minted, broken>>

\* The daemon stops, or a statement fails.
Interrupt(c) ==
    /\ requests[c] # None
    /\ Fail(c)
    /\ UNCHANGED <<row, keys, minted>>

Next ==
    \E c \in Calls :
        \/ InsertIdentity(c) \/ InsertKey(c) \/ Supersede(c) \/ PointIdentity(c) \/ Interrupt(c)
        \/ \E a \in Agents, k \in Keys : MintKey(c, a, k) \/ EnrolKey(c, a, k) \/ Rotate(c, a, k)

Spec == Init /\ [][Next]_identityVars
-----------------------------------------------------------------------------
(* Properties.                                                             *)

\* Between requests an agent has one key that signs, the one of its identity
\* row, unless its enrolment or rotation was cut off or overlapped another.
OneKeySigns ==
    \A a \in Agents \ broken :
        ~Busy(a) => Active(a) = IF row[a] = None THEN {} ELSE {row[a].key}

\* However the statements of enrolments and rotations interleave or stop, what
\* signs for an agent its client owns came from the trust anchor.
ClientKeysAreTrusted ==
    \A a \in Agents : row[a] # None /\ row[a].origin = "client" => \A k \in Active(a) : Trusted(a, k)

\* A key never signs again once it was superseded, nor for another agent.
Retired == \A k \in Keys : keys[k] # None => keys'[k] \in {keys[k], [keys[k] EXCEPT !.status = "superseded"]}
KeysStayRetired == [][Retired]_identityVars
=============================================================================
