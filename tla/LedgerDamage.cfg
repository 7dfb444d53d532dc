SPECIFICATION FairSpec
CONSTANTS
    Workers = {w1}
    Readers = {}
    w1 = w1
    MaxEvents = 3
    MaxAppends = 3
    MaxBatch = 2
    Damages = {"alter", "rehash", "repair", "tail", "row", "checkpoint"}
    Absent = Absent
    Idle = Idle
INVARIANTS
    ScanFindsFirstBreak
PROPERTIES
    CheckpointsExtend
    IncrementalAgreesWithFull
    SealsOnWholeChain
    AuditsCatchUp
