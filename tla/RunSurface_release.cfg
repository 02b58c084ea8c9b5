SPECIFICATION SurfaceSpec
CONSTANTS
  r1 = r1
  r2 = r2
  r3 = r3
  p1 = p1
  Reqs = {r1, r2}
  Polls = {p1}
  Controls = {"start", "send"}
  MaxFaults = 0
  MaxActions = 1
  MaxBatch = 1
  MaxIter = 2
  MaxCrashes = 0
  HookInstalled = FALSE
  Policies = {"risky", "never"}
  NoConfirm = {"never"}
  DefaultStop = "risky"
PROPERTIES OnlyApprovalReleases
CHECK_DEADLOCK FALSE
