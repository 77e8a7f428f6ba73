SPECIFICATION Spec
CONSTANTS
    gold = gold
    mode = mode
    Cells <- MCCells
    Canonical <- MCCanonical
    ModeCell = mode
    Values = {v1}
    Absent = Absent
    NoSave = NoSave
    Facts <- MCFacts
    Requests <- OutboundRequests
    MaxRequests = 1
    MaxCommands = 2
    MaxSteps = 2
    PumpLimit = 2
    DeferredCapacity = 1
    Callers = {"host", "lua"}
    SourceShows = FALSE
CHECK_DEADLOCK FALSE
INVARIANT CleanBetweenCommands
INVARIANT ModeFactsMatchState
INVARIANT RequestsOfCommitted
PROPERTY CommandsAreAtomic
