SPECIFICATION FairSpec
CONSTANTS
    Sessions = {s1, s2}
    Rooms = {lobby}
    Blank = {}
    Asks = {"relayed"}
    Nil = Nil
    Hasty = {}
    MaxForwards = 0
    MaxResets = 0
CHECK_DEADLOCK FALSE
PROPERTY TabsConnect
