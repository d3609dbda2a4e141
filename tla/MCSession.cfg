\* A message and a Close through both queues, with any peer.
CONSTANTS
    m1 = m1  z = z
    Messages = {m1, z}
    Closes = {z}
    MaxPings = 1
    MaxInbound = 1
    MaxCalls = 1
    NoFrame = NoFrame
SPECIFICATION FairSpec
INVARIANTS SessionSignalsAccounted CloseOvertakenOnce NothingBehindClose
PROPERTIES
    EndToEndDelivery
    CloseEndsSession StreamEndEndsSession ClosedSessionReleasesSocket
CHECK_DEADLOCK FALSE
