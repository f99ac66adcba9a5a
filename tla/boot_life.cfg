SPECIFICATION FairSpec
CONSTANTS
    Hold = 3
    Fresh = 1
    Stall = 1
    MaxApart = 2
    StreamsSplit = FALSE
    MaxBoots = 3
INVARIANTS
    ReadyWasHeld
    RestartTellsItsBoot
PROPERTIES
    ImplementsGate
    FallClosesGate
CHECK_DEADLOCK FALSE
