SPECIFICATION Spec
CONSTANTS
    studio = studio
    hook = hook
    None = None
    Agents <- MCAgents
    ClientOwned <- MCClientOwned
    Sockets = {s1, s2}
    Requests = {r1, r2, r3}
    Calls <- IdentityCalls
    Pipelined = FALSE
    GraceMayExpire = TRUE
SYMMETRY RequestSymmetry
INVARIANTS TypeOK EnvelopeAcceptedOnce PrincipalIsProven SnapshotIsConnectionLevel
CHECK_DEADLOCK FALSE
