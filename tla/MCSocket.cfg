\* A message and a Close, with any peer.
CONSTANTS
    m1 = m1  z = z
    Messages = {m1, z}
    Closes = {z}
    MaxPings = 1
    MaxInbound = 1
    NoFrame = NoFrame
SPECIFICATION TaskSpec
INVARIANTS SignalsAccounted
PROPERTIES ImplementsDelivery KeepsPromise StreamEndStopsTasks SignalsSettle CloseCompletes
CHECK_DEADLOCK FALSE
