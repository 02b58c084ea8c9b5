SPECIFICATION FairSpec
CONSTANTS
  p1 = p1
  p2 = p2
  p3 = p3
  Procs = {p1, p2}
  Ttl = 1
  Faults = {{"late"}, {"delete"}}
  MaxEvents = 3
  MaxClaims = 3
  MaxBatch = 1
  None = none
INVARIANTS TypeOK Fenced OneHistory AnsweredOnce
PROPERTIES DeadOwnerReplaced
CHECK_DEADLOCK FALSE
