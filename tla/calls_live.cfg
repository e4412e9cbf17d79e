SPECIFICATION FairSpec
CONSTANTS
    Pages = {p1}
    Conns = {c1}
    Keys = {k1}
    Callers = {x1}
    Sessions = {s1, s2}
    Names = {"auto", "guest", "quoted"}
    Nil = Nil
CHECK_DEADLOCK FALSE
PROPERTIES
    HangupStopsRing
    CallIsOffered
    OfflineUnmapped
