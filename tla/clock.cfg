SPECIFICATION Spec
CONSTANTS
    Calendar <- MCCalendar
    Moments <- MCMoments
    Zones <- MCZones
    After <- MCAfter
    Word = 65536
    MaxSet = 1
    MaxRace = 1
    MaxTick = 1
INVARIANTS
    TypeOK
    OneWriter
    ReadIsOneInstant
    UndisturbedSetIsExact
PROPERTIES
    
    ClockRecovers
