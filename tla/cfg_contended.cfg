SPECIFICATION Spec
CONSTANTS
    Requests <- BusRequests
    Patient = FALSE
    RestoreAlone = FALSE
    ResetInLoad = TRUE
    MaxReq = 2
    MaxReset = 0
    MaxFault = 1
INVARIANTS
    TypeOK
PROPERTIES
    MainReturns
    HeaderStaysValid
    RestoreIsDurable
