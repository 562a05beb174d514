SPECIFICATION FairSpec
CONSTANTS
    Items = {1, 2, 3}
    Workers = {w1, w2}
    CommitEvery = 2
    Threshold = 2
    MaxRetries = 2
    MaxErrors = 4
    MaxStops = 1
INVARIANTS
    TypeOK
    OneThreadOnConnection
    RecordedIsAnswered
    ReturnedIsComplete
    LossIsBounded
PROPERTIES
    NoRequestOnceTripped
    EveryItemIsSettled
CHECK_DEADLOCK FALSE
