SPECIFICATION Spec
CONSTANTS
  f1 = f1
  f2 = f2
  blank = blank
  padded = padded
  Files = {f1, f2}
  Contents = {blank, padded}
  Absent = absent
  Texts = {"", "a", " a"}
  Empty = ""
  Stripped <- StrippedOf
  Rejoined <- RejoinedOf
  Layouts = {"feature", "worktree", "main", "alone"}
  Loads = {1}
  MaxOps = 1
INVARIANTS DeletedHasDiff
CHECK_DEADLOCK FALSE
