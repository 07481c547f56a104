SPECIFICATION Spec
CONSTANTS
    MaxText = 3
    MaxScanTokenSize = 12
    Inputs <- MCInputs
    Programs <- MCPrograms
CHECK_DEADLOCK FALSE
INVARIANTS
    ReadAsWritten
    LoadComplete
    BoundariesKept
