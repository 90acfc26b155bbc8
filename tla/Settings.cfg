SPECIFICATION Spec
CONSTANTS
  Stuns = {stun}
  Mediators = {dht}
  Relays = {rico}
  Entry = entry
  Matched = {entry}
  Lines = {entry, job}
  Pipe = 2
  MaxLines = 3
  MaxTests = 3
  MaxOthers = 2
INVARIANTS
  TypeOK
  ButtonsTell
PROPERTIES
  TestsEnd
  ToggleTurns
CHECK_DEADLOCK FALSE
