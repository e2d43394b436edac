CONSTANT
    MaxCount = 3

SPECIFICATION StatsSpec

PROPERTIES
    EveryCommitCountedOnce
