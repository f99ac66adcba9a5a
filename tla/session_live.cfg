SPECIFICATION FairSpec
CONSTANTS
  Session = {s1, s2}
  Plan = {p1}
  Run = {r1}
  None = None
  Env = {"cold"}
  MaxRound = 2
  MaxBoot = 2
  MaxCall = 1

CHECK_DEADLOCK FALSE
PROPERTIES LockReleased ResetEnds
