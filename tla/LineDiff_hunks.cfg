SPECIFICATION Spec
CONSTANTS
  x = x
  y = y
  Lines = {x, y}
  Context = 1
  MaxLines = 5
SYMMETRY Symmetry
INVARIANTS Rebuilds Shortest SkipsAddUp HunksShowChanges
CHECK_DEADLOCK FALSE
