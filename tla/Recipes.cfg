CONSTANTS
    CommandLines <- MCCommandLines
    Files <- MCFiles
    Meaning <- MCMeaning
    ScoreTable <- MCScoreTable
    WordSize = 4
    WindowLen = 5
    Windows <- MCWindows
    Positions = {0, 3, 6}
SPECIFICATION Spec
CHECK_DEADLOCK FALSE
INVARIANTS
    TypeOK
    OverlapCovers
    EachRecipeOnce
    MatchesFound
