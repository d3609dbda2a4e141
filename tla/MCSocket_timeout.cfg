\* A peer that does nothing.
CONSTANTS
    m1 = m1  z = z
    Messages = {z}
    Closes = {z}
    MaxPings = 1
    MaxInbound = 1
    NoFrame = NoFrame
SPECIFICATION TaskSpec
PROPERTY TimeoutEndsConnection
CHECK_DEADLOCK FALSE
