\* The first device from an offset; no errors; one interrupt and resumption.
SPECIFICATION Spec
CONSTANTS
    DevLen <- MCOneBlockEach
    BufSize = 6
    Overlap = 2
    Reach = 1
    MinRead = 4
    Offset <- MCOffset
    AllowOverlap <- MCAllowOverlap
    Contents <- MCContents
    Starts = {2}
    OutSizes = {1, 7}
    LeavesAt = {2}
    Faulty = {}
    MaxKills = 1
INVARIANT ResumeLosesNothing
