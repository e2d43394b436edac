CONSTANTS
    Request = {r1, r2}
    Poller = Poller
    MaxConns = 2
    Queries = 2

SPECIFICATION FairSpec

PROPERTIES
    StoppingEnds
    PollerIsServed
    RequestsAnswered

CHECK_DEADLOCK FALSE
