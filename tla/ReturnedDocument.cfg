SPECIFICATION Spec
CONSTANTS
    Window <- WholeWindow
    Docs = {d1}
    Contents = {a}
    Refused = {}
    Long = {}
    AtCap = {}
    Absent = Absent
    None = None
    MaxChanges = 2
    MaxErrors = 1
INVARIANT ReturnedAreInTheirRecord
CHECK_DEADLOCK FALSE
