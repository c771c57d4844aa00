SPECIFICATION Spec
CONSTANTS
    Sessions = {s1}
    Turns = {t1, t2}
    Calls = {c1, c2}
    Grants = {g1, g2}
    Execs = {x1, x2}
    Keys = {k1, k2}
    MaxBoots = 1
INVARIANTS HandoffIsVisible UnsafeIsHandedOff
PROPERTIES UserCloseIsFinal ExecutionsEnd
