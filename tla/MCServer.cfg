\* Two sessions, both of which may wait for the server in their handlers; a
\* shutdown caller, a call user; the actor may be aborted.
CONSTANTS
    c1 = c1  c2 = c2  k1 = k1  k2 = k2  u1 = u1
    Conns = {c1, c2}
    Callers = {k1}
    Users = {u1}
    CallWithSessions = {c1, c2}
    MayAbort = TRUE
    NoOne = NoOne
SPECIFICATION FairSpec
INVARIANTS ActiveSessionsCount AckMeansDrained
PROPERTIES
    DisconnectOnceAfterEnd ImplementsShutdown
    ShutdownReturns CallWithReturns DisconnectsDelivered ConnectionsLeaveQueue
CHECK_DEADLOCK FALSE
