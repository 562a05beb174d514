SPECIFICATION FairSpec
CONSTANTS
    Ids <- MCIds
    Writers <- MCWriters
    MaxSeq = 4
    MaxFailures = 2
INVARIANTS
    NoLostMark
PROPERTIES
    KeepsPromise
    EveryChangeIsRecomputed
CHECK_DEADLOCK FALSE
