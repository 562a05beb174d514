SPECIFICATION Spec
CONSTANTS
    Launches = {p1, p2}
    hal = hal
    other = other
    crossref = crossref
    datacite = datacite
    relations = relations
    Tasks <- MCTasks
    Blocks <- MCBlocks
    Extra = {3}
    Reads <- MCReads
    Writes <- MCWrites
    SourceOf <- MCSourceOf
    Hal = hal
    FullOnly = {other}
    Docs = {d}
    Options <- MCOptions
    Fallback = 0
    None = None
    MaxDay = 1
    MaxStops = 3
SYMMETRY Symmetry
INVARIANTS
    TypeOK
    OneRunAtATime
    EarlierPhasesAreDone
    ChangesAreAhead
