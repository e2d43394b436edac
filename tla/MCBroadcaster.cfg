CONSTANTS
    Client = {c1, c2}
    Capacity = 2
    LastEvent = 4
    None = None

SPECIFICATION FairSpec

INVARIANTS
    NoSendOnClosed
    BacklogConsecutive
    LatestReachesEveryClient

PROPERTIES
    BroadcastReturns

