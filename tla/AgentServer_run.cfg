SPECIFICATION Spec
CONSTANTS
  r1 = r1
  r2 = r2
  r3 = r3
  Reqs = {r1, r2}
  MaxActions = 3
  MaxBatch = 2
  MaxIter = 2
  MaxCrashes = 1
  HookInstalled = TRUE
  Policies = {"risky", "never"}
  NoConfirm = {"never"}
SYMMETRY Symmetry
INVARIANTS TypeOK GatedHeld WaitingMeansPending VetoHolds
PROPERTIES NeverRunAgain GateSpec
CHECK_DEADLOCK FALSE
