SPECIFICATION Spec
CONSTANTS
    Requests = {"setStationProfile", "setPassword"}
    Patient = FALSE
    RestoreAlone = FALSE
    ResetInLoad = FALSE
    MaxReq = 2
    MaxReset = 0
    MaxFault = 0
INVARIANT SavesAreKept
