SPECIFICATION CompletionSpec
CONSTANTS
    Window <- WholeWindow
    Docs = {d1, d2}
    Contents = {short, long, atcap}
    Long = {long}
    AtCap = {atcap}
    Refused = {}
    Absent = Absent
    None = None
    MaxChanges = 1
    MaxErrors = 1
INVARIANTS
    TypeOK
    ContentReachesRecord
PROPERTIES
    TruncatedAreCompleted
CHECK_DEADLOCK FALSE
