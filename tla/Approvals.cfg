SPECIFICATION Spec
CONSTANTS
    Ids = {i1, i2}
    Turns = {t1, t2}
    Requests = {q1, q2}
    Smart = {q2}
    Views = {v1}
    MaxOpens = 1
    None = None
SYMMETRY Symmetry
INVARIANTS
    TypeOK
    Releasable
    NoOrphans
    PollFinds
CHECK_DEADLOCK FALSE
