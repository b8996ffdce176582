SPECIFICATION Spec
CONSTANTS
    Requests = {"setSNMP"}
    Patient = TRUE
    RestoreAlone = FALSE
    ResetInLoad = TRUE
    MaxReq = 0
    MaxReset = 1
    MaxFault = 0
INVARIANT NoErasedSettings
