SPECIFICATION Spec
CONSTANTS
    PageSize = 3
    MemSize = 6
    MaxSize = 4
    Byte = {0, 1}
INVARIANTS
    OnlyItsCell
    OkIsComplete
PROPERTIES
    ImplementsCellWrite
    CallsReturn
