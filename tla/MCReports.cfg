SPECIFICATION Spec
CONSTANTS
    Symbols <- MCSymbols
    Literals <- MCLiterals
    Others <- MCOthers
    Separators = {" ", "-"}
    Gaps <- MCGaps
    MaxTokens = 2
    Unset = Unset
    Malformed = Malformed
    NaN = NaN
    Postgres = Postgres
    MySQL = MySQL
    MaxInt = 2047
    Second = 10
    Hour = 10
    Megabyte = 4
    Limit = 2
    LogUnit = 1000
    Log2 <- MCLog2
    Environments <- MCEnvironments
    Rows <- MCRows
    Object = {o1, o2, o3}
INVARIANTS
    LiteralsAreMasked
    CutTextLeaksNothing
    ConfigurationIsUsable
    WorseStaysReported
    NothingCrowdedOut
CHECK_DEADLOCK FALSE
