\* No errors, no interrupt, allow_overlap at its default.
SPECIFICATION Spec
CONSTANTS
    DevLen <- MCDevLen
    BufSize = 6
    Overlap = 2
    Reach = 1
    MinRead = 4
    Offset <- MCOffset
    AllowOverlap <- MCDefaultOverlap
    Contents <- MCContents
    Starts = {0}
    OutSizes = {1, 7}
    LeavesAt = {2}
    Faulty = {}
    MaxKills = 0
INVARIANT ClaimsDisjoint
