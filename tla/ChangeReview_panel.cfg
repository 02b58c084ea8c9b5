SPECIFICATION FairSpec
CONSTANTS
  f1 = f1
  f2 = f2
  blank = blank
  padded = padded
  Files = {f1}
  Contents = {blank, padded}
  Absent = absent
  Texts = {"", "a", " a"}
  Empty = ""
  Stripped <- StrippedOf
  Rejoined <- RejoinedOf
  Layouts = {"feature", "main", "alone"}
  Loads = {1, 2}
  MaxOps = 1
INVARIANTS TypeOK DiffOnce DiffAfterRefresh 
PROPERTIES PanelSettles
CHECK_DEADLOCK FALSE
