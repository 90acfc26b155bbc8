SPECIFICATION Spec
CONSTANTS
  Handles = {h1}
  Exports = {h1}
  Autos = {h1}
  Width = 2
  Unknown = Unknown
  Absent = Absent
INVARIANTS
  TypeOK
  NoticesMatch
PROPERTIES
  ClicksFitIcons
  ClicksTurnOver
  LastingIsTold
CHECK_DEADLOCK FALSE
