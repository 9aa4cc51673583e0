SPECIFICATION Spec
CONSTANTS
    studio = studio
    hook = hook
    None = None
    Agents <- MCAgents
    ClientOwned <- MCClientOwned
    Sockets = {s1}
    Requests = {r1, r2}
    Calls <- IdentityCalls
    Pipelined = TRUE
    GraceMayExpire = TRUE
INVARIANT SnapshotIsConnectionLevel
CHECK_DEADLOCK FALSE
