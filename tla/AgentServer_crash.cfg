SPECIFICATION Spec
CONSTANTS
  r1 = r1
  r2 = r2
  r3 = r3
  Reqs = {r1, r2}
  MaxActions = 2
  MaxBatch = 2
  MaxIter = 2
  MaxCrashes = 1
  HookInstalled = FALSE
  Policies = {"risky", "never"}
  NoConfirm = {"never"}
SYMMETRY Symmetry
PROPERTIES InterruptedSurfaced
CHECK_DEADLOCK FALSE
