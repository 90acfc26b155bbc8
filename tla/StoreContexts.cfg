SPECIFICATION Spec
CONSTANTS
  Contexts = {c1, c2}
  Piers = {me, you}
  Names = {n1, n2}
  MaxWrites = 3
  MaxAccidents = 1
  Nobody = Nobody
  Absent = Absent
  Torn = Torn
  Blank = Blank
SYMMETRY Symmetry
INVARIANTS
  TypeOK
  AgreesWithDisk
  SoundWritesLoseNothing
PROPERTIES
  Implements
CHECK_DEADLOCK FALSE
