SPECIFICATION Spec
CONSTANTS
  Session = {s1, s2}
  Plan = {p1}
  Run = {r1, r2}
  None = None
  Env = {"kiosk", "fall"}
  MaxRound = 2
  MaxBoot = 2
  MaxCall = 1
SYMMETRY Symmetry
CHECK_DEADLOCK FALSE
INVARIANTS SingleRun LockHasOwner ActuatorIsOwned OneActuator ClosedIsQuiet PlanRunsOnce KioskHoldQuiet
PROPERTIES ImplementsLease
