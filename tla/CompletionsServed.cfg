SPECIFICATION Spec
CONSTANTS
    Ids = {i1, i2}
    Routes = {r1, r2}
    Procs = {p1, p2}
    Slots = 1
    MaxStarts = 2
    MaxRepeats = 0
    MaxFaults = 1
    None = None
PROPERTIES
    Served
CHECK_DEADLOCK FALSE
