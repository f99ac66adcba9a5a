SPECIFICATION Spec
CONSTANTS
  MaxSwings = 2
  MaxSeq = 3
  MaxInput = 3
  MaxAsk = 1

CHECK_DEADLOCK FALSE
INVARIANTS TypeOK OneStrikeAhead NoSwingAfterEnd FaultIsShown
PROPERTIES DecidedNeverBegins NoLateInterpretation NoReplay
