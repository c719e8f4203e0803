SPECIFICATION FairSpec
CONSTANTS
    Requests      <- MCRequests
    RequestPad    <- MCRequestPad
    MinDurationMs <- MCMinDurationMs
    MaxDurationMs <- MCMaxDurationMs
    WaitMs        <- MCWaitMs
    Int32Max      <- MCInt32Max
INVARIANTS
    HintMatchesState
    AbortIsForTheCurrentWait
    DescriptorsOpen
PROPERTIES
    HeldLongEnough
    ImplementsLease
    LeaseEnds
    ExitCompletes
