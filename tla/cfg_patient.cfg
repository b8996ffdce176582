SPECIFICATION Spec
CONSTANTS
    Requests <- HandlerNames
    Patient = TRUE
    RestoreAlone = TRUE
    ResetInLoad = FALSE
    MaxReq = 2
    MaxReset = 1
    MaxFault = 0
INVARIANTS
    IInv
    SavesAreKept
    NoErasedSettings
PROPERTIES
    EventuallySaved
    ImplementsStore
    MainReturns
