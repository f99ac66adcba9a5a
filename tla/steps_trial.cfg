SPECIFICATION FairSpec
CONSTANTS
  Programs <- MCPrograms
  ApplyTicks = 2
  CorrectionTicks = 1
  MaxCorrections = 1
  StepDeadline = 6
  StallLimit = 2
  RestHold = 2
  JogDeadline = 4
  ObsLostAbort = 1
  HbGrace = 2
  Window = 1
  StableFor = 1
  HoldFor = 2
  SettleBudget = 4
  HoldBudget = 5

CHECK_DEADLOCK FALSE
INVARIANTS HoldWasWatched PassIsEarned
PROPERTIES CompletedAtRest ImplementsOrder RunEnds
