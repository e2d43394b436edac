CONSTANTS
    Retention = 1
    MaxIncidents = 2
    MaxPages = 1
    BatchSize = 1
    MaxPerWindow = 2
    Window = 2
    LastId = 4
    LastTime = 2

SPECIFICATION Spec

INVARIANTS
    WindowBoundedUnlessRaced

PROPERTIES
    KeepsWhatIsRetained
    ShrinksOnlyAsNeeded
    ExpiredEventuallyPruned
    SizeEventuallyUnderCap
