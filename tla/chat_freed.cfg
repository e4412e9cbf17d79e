SPECIFICATION ChatSpec
CONSTANTS
    Sessions = {s1, s2}
    Rooms = {lobby}
    Blank = {}
    Asks = {"p2p"}
    Nil = Nil
    Hasty = {}
    Moz = {}
    MaxForwards = 1
    MaxResets = 0
CHECK_DEADLOCK FALSE
PROPERTY EveryRoomIsFreed
