SPECIFICATION FairSpec
CONSTANTS
    Sessions = {s1, s2}
    Rooms = {lobby, den}
    Blank = {den}
    Asks = {"p2p"}
    Nil = Nil
    Hasty = {s1, s2}
    MaxForwards = 1
    MaxResets = 1
CHECK_DEADLOCK FALSE
INVARIANTS
    TypeOK
    RoomIsolation
PROPERTIES
    SessionEnds
    JoinerAnnounced
