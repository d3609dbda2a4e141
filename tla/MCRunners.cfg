\* Each runner, three connections, one fault.
CONSTANTS
    c1 = c1  c2 = c2  c3 = c3
    Conns = {c1, c2, c3}
    Acceptors = {"Plain", "Tls", "Axum"}
    Faults = {"InvalidWebSocketVersionHeader"}
SPECIFICATION FairSpec
INVARIANTS HandedAsAnswered HandedInOrder
PROPERTIES PolitePeersServed
CHECK_DEADLOCK FALSE
