SPECIFICATION Spec
CONSTANTS
    Readers = {r1}
    Backlog = 2
    MaxSeq = 6
    MaxCuts = 2
    MaxReloads = 1
INVARIANTS TypeOK ToldLast HonestGap
PROPERTIES Delivers EveryReaderTold
CHECK_DEADLOCK FALSE
