SPECIFICATION Spec
CONSTANTS
    MaxPieces = 5
    MaxPlugs = 3
INVARIANTS
    TypeOK
    FillsTheOtherHalf
PROPERTIES
    PlaysInOrder
    OnlyLastPieceCut
    PlaybackEnds
