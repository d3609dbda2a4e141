\* Two concurrent callers of graceful_shutdown.
CONSTANTS
    c1 = c1  c2 = c2  k1 = k1  k2 = k2  u1 = u1
    Conns = {c1}
    Callers = {k1, k2}
    Users = {u1}
    CallWithSessions = {}
    MayAbort = FALSE
    NoOne = NoOne
SPECIFICATION Spec
INVARIANT EveryCallerAcknowledged
CHECK_DEADLOCK FALSE
