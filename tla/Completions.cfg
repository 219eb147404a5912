SPECIFICATION SafeSpec
CONSTANTS
    Ids = {i1, i2, i3}
    Routes = {r1, r2}
    Procs = {p1, p2}
    Slots = 1
    MaxStarts = 2
    MaxRepeats = 1
    MaxFaults = 1
    None = None
SYMMETRY MCSymmetry
INVARIANTS
    TypeOK
    ExactlyOnce
    ArrivalOrder
PROPERTIES
    NoResurrection
    NotLost
CHECK_DEADLOCK FALSE
