CONSTANTS
    Timer = {t1, t2}
    None = None
    Minutes <- MCMinutes
    MinuteLength = 3
    MaxDuration = 7
    Session = {s1, s2}
    Durations <- MCDurations
    MaxSessions = 1
    RecordInterval = 1

SPECIFICATION FairSpec

INVARIANTS
    TypeOK
    FullCutOnlyByStaleCallback
    BlockRecordedUnlessAppendFails
    OneLateSnapshot

PROPERTIES
    PeriodicKeepsCadence
    GateSpec
    HistoryKeepsGrowing
    TimedMonitoringEnds
    PollerReturns
