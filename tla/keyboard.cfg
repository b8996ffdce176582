SPECIFICATION PanelSpec
CONSTANTS
    ToShort = 3
    ToLong = 12
    ToMax = 255
    Keys = 3
    Capacity = 5
    MaxLag = 3
    NoEvent = NoEvent
INVARIANTS
    TypeOK
    ReportCountsPresses
    LongIffHeld
    NoKeyLost
PROPERTIES
    EventsApart
    EveryPressIsReported
