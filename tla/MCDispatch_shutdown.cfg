SPECIFICATION LiveSpec
CONSTANTS
    studio = studio
    hook = hook
    None = None
    Agents <- MCAgents
    ClientOwned <- MCClientOwned
    Sockets = {s1, s2}
    Requests = {r1, r2}
    Calls <- ShutdownCalls
    Pipelined = TRUE
    GraceMayExpire = FALSE
INVARIANTS ActiveIsExact ClosedDatabaseIsQuiet
PROPERTIES EveryRequestSettles CloseTerminates
CHECK_DEADLOCK FALSE
