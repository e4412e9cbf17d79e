SPECIFICATION ChatSpec
CONSTANTS
    Sessions = {s1, s2}
    Rooms = {lobby}
    Blank = {}
    Asks = {"p2p"}
    Nil = Nil
    Hasty = {s1}
    Moz = {s1}
    MaxForwards = 1
    MaxResets = 1
CHECK_DEADLOCK FALSE
INVARIANTS
    ChatTypeOK
    RolesDiffer
    CommandsFit
PROPERTIES
    DescriptionsFit
    PairSettles
    RoomIsFreed
