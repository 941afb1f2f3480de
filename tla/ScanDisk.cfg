\* The scanning loop with short reads, an interrupt, and errors on the last device.
SPECIFICATION FairSpec
CONSTANTS
    DevLen <- MCDevLen
    BufSize = 6
    Overlap = 2
    Reach = 1
    MinRead = 4
    Offset <- MCOffset
    AllowOverlap <- MCAllowOverlap
    Contents <- MCContents
    Starts = {0}
    OutSizes = {1, 7}
    LeavesAt = {2}
    Faulty = {2}
    MaxKills = 1
INVARIANTS
    TypeOK
    BufferCoherent
    SweptFromOrigin
    NoStaleRange
    LiveClaimsKept
    ResumeLosesLittle
PROPERTIES
    NoClaimReentered
    OnlyTheMarginIsBlind
    Terminates
    ImplementsSweep
