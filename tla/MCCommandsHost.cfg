SPECIFICATION FairSpec
CONSTANTS
    gold = gold
    mode = mode
    Cells <- MCCells
    Canonical <- MCCanonical
    ModeCell = mode
    Values = {v1}
    Absent = Absent
    NoSave = NoSave
    Facts <- MCFacts
    Requests <- OutboundRequests
    MaxRequests = 1
    MaxCommands = 2
    MaxSteps = 2
    PumpLimit = 2
    DeferredCapacity = 1
    Callers = {"host"}
    SourceShows = TRUE
CHECK_DEADLOCK FALSE
INVARIANT ReadyWhenQuiet
INVARIANT DocumentShowsState
PROPERTY DispatchReturns
