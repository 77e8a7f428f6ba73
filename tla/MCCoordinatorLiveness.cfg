CONSTANTS
    Descriptors <- MCDescriptors
    MaxOps = 3
    MaxRetainedOutcomes = 2
    Contents = {r1}
    NoContent = none
    SinkCalls <- SafeCalls
    Faults <- StartFaults
    DocRevisions = {1, 2}
    MaxInputs = 2
    QueueCapacity = 1
    MaxDepth = 3
SPECIFICATION FairSpec
PROPERTIES
    OperationsResolve
