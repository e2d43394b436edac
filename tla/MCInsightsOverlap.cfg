CONSTANTS
    Request = {q1, q2}
    Table = {t1}
    MinStatsAge = 2
    MaxScans = 1
    MaxTime = 3
    MaxWrites = 1
    Never = Never

SPECIFICATION Spec

PROPERTY RatesNeverNegative
