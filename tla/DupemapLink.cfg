\* One run of delete over a directory with a file and a symbolic link to it.
SPECIFICATION Spec
CONSTANTS
    Nodes <- MCNodes
    NoNode <- Root
    Parent <- MCParent
    Kind <- MCKind
    Target <- MCLinkWithin
    Locked = {"sealed"}
    MaxDepth = 2
    LongNames <- MCLongNames
    Sums = {"same", "other"}
    Sum <- MCSum
    InSize <- MCNodes
    Commands <- MCDelete
    TakenDirs = 1
    Faults = FALSE
    MaxRuns = 1
    MaxRemovals = 0
INVARIANT RecordedFileStays
