SPECIFICATION Spec
CONSTANTS
  h1 = h1
  h2 = h2
  h3 = h3
  Handles = {h1, h2}
  Key <- DistinctKeys
  Rank <- ReadOrder
  Piers = {p1, p2}
  MaxEdits = 3
  Absent = Absent
SYMMETRY Symmetry
INVARIANTS
  TypeOK
  RunsAsConfigured
  WholeBundles
  EngageResets
PROPERTIES
  SleepersSleep
  OthersUntouched
CHECK_DEADLOCK FALSE
