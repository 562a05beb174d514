CONSTANTS
    Records = {"a", "b", "c"}
    Dois = {"10.1/book", "10.2/data"}
    Deposits = {"hal", "tel"}
    Dissertations = {"tel"}
    DoiKind <- MCDoiKind
    Registrant <- MCRegistrant
    Serials = {"s"}
    Titles = {"t", "t long", "u"}
    Names = {"n", "m"}
    Alike <- MCAlike
    Distant <- MCDistant
    Paratext = {}
    None = None
    Unset = Unset
    Stocks <- MCStocks
    MaxChanges = 3
    SettlingRuns = 3
SPECIFICATION Spec
INVARIANTS
    TypeOK
    RawIsKept
    Settles
    WorksApart
PROPERTIES
    KeyChangesAreMarked
