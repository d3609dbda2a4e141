\* Three sessions for two ids, so that an id is used again; one more room.
CONSTANTS
    c1 = c1  c2 = c2  c3 = c3
    Conns = {c1, c2, c3}
    MaxID = 1
    Rooms = {"lounge"}
    MaxTexts = 2
SPECIFICATION Spec
INVARIANTS RoomsMatchSessions AssertionsHold
SYMMETRY Symmetry
CHECK_DEADLOCK FALSE
