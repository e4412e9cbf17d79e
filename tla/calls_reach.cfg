SPECIFICATION Spec
CONSTANTS
    Pages = {p1}
    Conns = {c1, c2}
    Keys = {k1}
    Callers = {x1}
    Sessions = {s1}
    Names = {"auto", "guest", "quoted"}
    Nil = Nil
CHECK_DEADLOCK FALSE
INVARIANT ReachableWhenTold
