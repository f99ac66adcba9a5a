SPECIFICATION Spec
CONSTANTS
  Session = {s1, s2}
  Plan = {p1}
  Run = {r1, r2}
  None = None
  Env = {"pause"}
  MaxRound = 2
  MaxBoot = 2
  MaxCall = 1

CHECK_DEADLOCK FALSE
INVARIANTS OneActuator
