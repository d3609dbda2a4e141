\* A client that ends with messages in its queue.
CONSTANTS
    m1 = m1  z = z
    Messages = {m1, z}
    Closes = {z}
    max_initial_connect_attempts = 1
    max_reconnect_attempts = 1
    MaxConnections = 2
    MaxInbound = 1
    MaxCalls = 1
SPECIFICATION PeerSpec
PROPERTY SignalsReport
CHECK_DEADLOCK FALSE
