SPECIFICATION Spec
CONSTANTS
    Sessions = {s1, s2, s3}
    Turns = {t1, t2}
    e1 = e1
    Endpoints = {e1, e2}
    MaxConcurrent <- MCMaxConcurrent
    Keep = 1
    EarlyNames = TRUE
    None = None
SYMMETRY MCSymmetry
INVARIANTS
    TypeOK
    RunningIsLive
    EndpointCapacity
    RouteIntegrity
    TombstonesAreIdle
CHECK_DEADLOCK FALSE
