SPECIFICATION Spec
CONSTANTS
    Sessions = {s1, s2, s3}
    Turns = {t1, t2}
    e1 = e1
    Endpoints = {e1, e2}
    MaxConcurrent <- MCMaxConcurrent
    Keep = 1
    EarlyNames = FALSE
    None = None
SYMMETRY MCSymmetry
INVARIANTS
    OneReplyPerConversation
CHECK_DEADLOCK FALSE
