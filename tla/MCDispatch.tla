----------------------------- MODULE MCDispatch -----------------------------
(***************************************************************************)
(* Instances of Dispatch for TLC: a client-owned agent (studio), a         *)
(* daemon-minted one (hook), and the calls that tell the gates apart.      *)
(***************************************************************************)
EXTENDS Dispatch, TLC

CONSTANTS studio, hook

Unsigned(m, a)    == [method |-> m, actor |-> a, signer |-> None, good |-> FALSE, nonce |-> None]
Signed(m, a, n)   == [method |-> m, actor |-> None, signer |-> a, good |-> TRUE, nonce |-> n]
Tampered(m, a, n) == [method |-> m, actor |-> None, signer |-> a, good |-> FALSE, nonce |-> n]

MCAgents      == {studio, hook}
MCClientOwned == {studio}

\* One connection, clients of both kinds, a tampered envelope and a replay.
IdentityCalls ==
    {Unsigned("register", hook), Unsigned("reserve", None), Unsigned("reserve", studio),
     Signed("reserve", studio, 1), Signed("end", hook, 2), Tampered("write", studio, 3)}

\* The kinds of handler shutdown has to deal with.
ShutdownCalls ==
    {Unsigned("attach", hook), Unsigned("reserve", hook), Unsigned("snapshot", None),
     Signed("write", studio, 1)}

RequestSymmetry == Permutations(Requests)
=============================================================================
