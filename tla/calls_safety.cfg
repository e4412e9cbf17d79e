SPECIFICATION Spec
CONSTANTS
    Pages = {p1, p2}
    Conns = {c1, c2}
    Keys = {k1, k2}
    Callers = {x1}
    Sessions = {s1}
    Names = {"auto", "guest", "quoted"}
    Nil = Nil
SYMMETRY Alike
CHECK_DEADLOCK FALSE
INVARIANTS
    TypeOK
    OnlineAreMapped
    OnlyDialedRings
