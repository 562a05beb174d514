SPECIFICATION FairSpec
CONSTANTS
    Window <- OneDocument
    Docs = {d1, d2}
    Contents = {a, bad}
    Refused = {bad}
    Long = {}
    AtCap = {}
    Absent = Absent
    None = None
    MaxChanges = 2
    MaxErrors = 1
PROPERTIES
    QueuedAreNormalized
    WithdrawnRecordsLeave
CHECK_DEADLOCK FALSE
INVARIANTS
    NoPayloadLost
