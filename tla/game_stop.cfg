SPECIFICATION Spec
CONSTANTS
  MaxSwings = 1
  MaxSeq = 2
  MaxInput = 3
  MaxAsk = 1

CHECK_DEADLOCK FALSE
INVARIANTS StopCancelsStrike
