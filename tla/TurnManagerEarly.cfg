SPECIFICATION Spec
CONSTANTS
    Sessions = {s1, s2}
    Turns = {t1, t2, t3}
    e1 = e1
    Endpoints = {e1, e2}
    MaxConcurrent <- MCMaxConcurrentOne
    Keep = 1
    EarlyNames = TRUE
    None = None
SYMMETRY MCSymmetry
INVARIANTS
    CapacityNeverExceeded
CHECK_DEADLOCK FALSE
