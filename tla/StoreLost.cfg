SPECIFICATION Spec
CONSTANTS
  Contexts = {c1, c2}
  Piers = {me}
  Names = {n1, n2}
  MaxWrites = 3
  MaxAccidents = 0
  Nobody = Nobody
  Absent = Absent
  Torn = Torn
  Blank = Blank
INVARIANT
  NoLostUpdate
CHECK_DEADLOCK FALSE
