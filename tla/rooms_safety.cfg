SPECIFICATION Spec
CONSTANTS
    Sessions = {s1, s2, s3}
    Rooms = {lobby}
    Blank = {}
    Asks = {"p2p", "relayed"}
    Nil = Nil
    Hasty = {}
    MaxForwards = 1
    MaxResets = 1
SYMMETRY Alike
ACTION_CONSTRAINT InTurns
CHECK_DEADLOCK FALSE
INVARIANTS
    UsersCounted
    LinkAgreement
    ForwardHasPeer
PROPERTIES
    OfflineIsTrue
    RoomsKeepPromise
