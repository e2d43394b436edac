CONSTANTS
    Client = {c1}
    Request = {r1, r2}
    Threshold = 2
    BanLength = 1
    Burst = 1
    CountBound = 4
    None = None

SPECIFICATION FairSpec

INVARIANTS
    GuessesBounded
    FirstBanIsEarned

PROPERTIES
    BanServedInFull
    BansEnd
