SPECIFICATION Spec
CONSTANTS
    Pool = 3
    MaxPub = 2
    MaxCmd = 1
    MaxFault = 1
INVARIANT OneConnection
