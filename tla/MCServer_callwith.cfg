\* A session handler that awaits Server::call_with when the shutdown comes.
CONSTANTS
    c1 = c1  c2 = c2  k1 = k1  k2 = k2  u1 = u1
    Conns = {c1}
    Callers = {k1, k2}
    Users = {u1}
    CallWithSessions = {c1}
    MayAbort = FALSE
    NoOne = NoOne
SPECIFICATION FairSpec
PROPERTY ShutdownResolves
CHECK_DEADLOCK FALSE
