SPECIFICATION Spec
CONSTANTS
    studio = studio
    hook = hook
    None = None
    Agents <- MCAgents
    ClientOwned <- MCClientOwned
    Sockets = {s1}
    Requests = {r1, r2}
    Calls <- ShutdownCalls
    Pipelined = TRUE
    GraceMayExpire = FALSE
INVARIANT HandlersHaveDatabase
CHECK_DEADLOCK FALSE
