SPECIFICATION FairSpec
CONSTANTS
  Calls = {1, 2, 3}
  Keys = {1, 2}
  Needs = {{}, {2}, {1, 2}}
  Locks = {11, 12, 13}
  Workers = 2
  None = 0
INVARIANTS TypeOK TableExact NoCircle
PROPERTIES FirstComeFirstServed ExclusionSpec BatchEnds
