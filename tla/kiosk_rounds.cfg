CONSTANTS
    MaxSession = 2
    MaxRound = 2
    MaxBoot = 2
    AbsentReads = 1
    MaxPoll = 1
    MaxAttempt = 2
    MaxLate = 1
SPECIFICATION FairSpec
INVARIANTS
    NoOldRound
    VerdictIsTrue
PROPERTIES
    SpawnSettled
CHECK_DEADLOCK FALSE
