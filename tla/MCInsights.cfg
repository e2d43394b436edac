CONSTANTS
    Request = {q1}
    Table = {t1, t2}
    MinStatsAge = 2
    MaxScans = 1
    MaxTime = 4
    MaxWrites = 1
    Never = Never

SPECIFICATION Spec

PROPERTIES
    UnusedForLong
    RatesNeverNegative
    RatesOverTheirOwnInterval
