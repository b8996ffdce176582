SPECIFICATION Spec
CONSTANTS
    MaxPieces = 3
    MaxPlugs = 2
PROPERTIES
    StartPlays
