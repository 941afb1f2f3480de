\* No errors, no interrupt; scanner 2 has an offset.
SPECIFICATION Spec
CONSTANTS
    DevLen <- MCDevLen
    BufSize = 6
    Overlap = 2
    Reach = 1
    MinRead = 4
    Offset <- MCOffset
    AllowOverlap <- MCAllowOverlap
    Contents <- MCContents
    Starts = {0}
    OutSizes = {1, 7}
    LeavesAt = {2}
    Faulty = {}
    MaxKills = 0
INVARIANT EveryCandidateSettled
