SPECIFICATION Spec
CONSTANTS
  h1 = h1
  h2 = h2
  h3 = h3
  Handles = {h1, h2}
  Key <- SharedKeys
  Rank <- ReadOrder
  Piers = {p1}
  MaxEdits = 2
  Absent = Absent
INVARIANT
  EngageResets
CHECK_DEADLOCK FALSE
