\* Commands over paths apart from each other, with faults, signals and a removal by others.
SPECIFICATION FairSpec
CONSTANTS
    Nodes <- MCNodes
    NoNode <- Root
    Parent <- MCParent
    Kind <- MCKind
    Target <- MCTarget
    Locked = {"sealed"}
    MaxDepth = 2
    LongNames <- MCLongNames
    Sums = {"same", "other"}
    Sum <- MCSum
    InSize <- MCNodes
    Commands <- MCCommands
    TakenDirs = 1
    Faults = TRUE
    MaxRuns = 2
    MaxRemovals = 1
INVARIANTS
    TypeOK
    PrefixNamesTheStack
    NothingMissed
    RecordedFileStays
    OneOfEachRemains
    NoTempDirLeft
PROPERTIES
    NeverTwice
    RunsEnd
