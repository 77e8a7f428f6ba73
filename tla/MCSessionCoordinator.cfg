CONSTANTS
    Descriptors <- MCDescriptors
    MaxOps = 4
    MaxRetainedOutcomes = 2
    Contents = {r1, r2}
    NoContent = none
    SinkCalls <- SafeCalls
    Faults <- AllFaults
    DocRevisions = {1, 2}
    MaxInputs = 3
    QueueCapacity = 2
    MaxDepth = 3
SPECIFICATION Spec
INVARIANTS
    PolicyConsistent
    ReadyIsWhole
    QueueBelongsToSession
    PendingHasItsContext
    RunningStartIsActive
    AtRestNothingRuns
PROPERTIES
    CommittedNotCancelled
    LedgerRefined
    CompletedMeansReady
    SaveIsOfItsSession
