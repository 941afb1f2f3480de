CONSTANTS
    BufSize = 2
    PipeSize = 2
    Limits <- MCLimits
    Inputs <- MCInputs
    MaxSize = 4
SPECIFICATION Spec
CHECK_DEADLOCK FALSE
INVARIANTS
    TypeOK
    Verbatim
    DiffBounded
    UnchangedBounded
    TotalBounded
PROPERTY Stops
