\* A message and a Close over two connections, with a peer that hangs up in
\* the end.  An initial maximum of 0 still makes one attempt.
CONSTANTS
    m1 = m1  z = z
    Messages = {m1, z}
    Closes = {z}
    max_initial_connect_attempts = 0
    max_reconnect_attempts = 2
    MaxConnections = 2
    MaxInbound = 1
    MaxCalls = 1
SPECIFICATION PeerSpec
INVARIANTS ClientSignalsAccounted NotAcrossReconnects CloseIsFinal AttemptsWithinMaximum
PROPERTIES UsesSockets LossNoticed CloseEndsClient OrphanEnds
CHECK_DEADLOCK FALSE
