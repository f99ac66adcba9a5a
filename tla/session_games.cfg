SPECIFICATION Spec
CONSTANTS
  Session = {s1, s2}
  Plan = {}
  Run = {r1, r2}
  None = None
  Env = {"pause", "overlap", "docker_timeout"}
  MaxRound = 2
  MaxBoot = 2
  MaxCall = 1
SYMMETRY Symmetry
CHECK_DEADLOCK FALSE
INVARIANTS TypeOK ResultBelongsToRound DisplayIsTargetInPlay
PROPERTIES BootNeverGoesBack
