SPECIFICATION SurfaceSpec
CONSTANTS
  r1 = r1
  r2 = r2
  r3 = r3
  p1 = p1
  Reqs = {r1, r2}
  Polls = {p1}
  Controls = {"start", "send", "approve", "reject", "policy", "pause", "stop"}
  MaxFaults = 0
  MaxActions = 1
  MaxBatch = 1
  MaxIter = 1
  MaxCrashes = 0
  HookInstalled = FALSE
  Policies = {"risky", "never"}
  NoConfirm = {"never"}
  DefaultStop = "risky"
SYMMETRY Symmetry
INVARIANTS DialHolds
PROPERTIES NeedsOperator
CHECK_DEADLOCK FALSE
