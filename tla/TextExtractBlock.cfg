CONSTANTS
    Rules <- MCRules
    Nul = "nul"
    Newlines <- MCNewlines
    Block = 4
    BufSize = 4
    Inputs <- MCInputs
    Starts = {0, 3}
    Seekable = TRUE
    Options <- MCOptions
    WritesFail = TRUE
SPECIFICATION Spec
CHECK_DEADLOCK FALSE
INVARIANT BlockScoreAtBoundaries
