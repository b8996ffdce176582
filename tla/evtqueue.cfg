SPECIFICATION Spec
CONSTANTS
    QDepth = 4
    QWidth = 2
    Byte = {0, 1}
    NoEvent = NoEvent
INVARIANTS
    TypeOK
    CopyIsIntact
PROPERTIES
    ImplementsFifo
    EveryEventIsTaken
