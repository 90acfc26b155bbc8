SPECIFICATION Spec
CONSTANTS
  Own = Own
  Piers = {p, q}
  Certs = {c1, c2}
  Offered = {c1, c2}
  Spoilt = {c2}
  Names = {n1, n2}
  Values = {v, Blank}
  Blank = Blank
  Obscure = {v}
  Fates = {"fine", "del", "add"}
  MaxShelf = 2
  MaxActs = 3
  NoName = NoName
  Absent = Absent
SYMMETRY Symmetry
INVARIANTS
  TypeOK
  MemoryTellsDisk
  ScreenTellsDisk
  BackendTellsDisk
PROPERTIES
  ImportTouchesOnePier
  ImportSettles
CHECK_DEADLOCK FALSE
