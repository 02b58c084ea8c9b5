SPECIFICATION Spec
CONSTANTS
  a1 = a1
  a2 = a2
  a3 = a3
  c1 = c1
  c2 = c2
  Ids = {a1, a2, a3}
  Calls = {c1, c2}
  MaxEvents = 6
  PageLimit = 4
SYMMETRY Symmetry
INVARIANTS ScanFindsOpen CardsStopAtPage StaleHidesNothing
           PostureAgreesWithCards AbandonedHasCard
PROPERTIES AnsweredForGood
CHECK_DEADLOCK FALSE
