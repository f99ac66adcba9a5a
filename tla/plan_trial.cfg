SPECIFICATION FairSpec
CONSTANTS
    MaxAge = 2
    TailHold = 3
    ReadyHold = 3
    StillConfirm = 2
    DecelTimeout = 3
    MaxCorrections = 3
INVARIANTS
    PlanPassIsEarned
PROPERTIES
    PlanEnds
CHECK_DEADLOCK FALSE
