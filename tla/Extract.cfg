CONSTANTS
    Scans = {"disk", "list"}
    NameMode <- MCNameMode
    Basename <- MCBasename
    Offsets = {7}
    Recipes <- MCRecipes
    Proposals = {"tar", "a/b", "long"}
    LongNames = {"long"}
    SlashNames = {"a/b"}
    Sizes = {0, 1}
    Leftovers <- MCLeftovers
    MaxExtractions = 2
SPECIFICATION Spec
CHECK_DEADLOCK FALSE
INVARIANTS
    TypeOK
    ReportedIsThere
    ExtractedIsKept
PROPERTIES
    NothingOverwritten
    ExtractionReturns
