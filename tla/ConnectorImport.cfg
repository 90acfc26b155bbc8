SPECIFICATION FairSpec
CONSTANTS
  Local = FALSE
  Pids = {1, 2, 3, 4}
  MaxRestarts = 4
  MaxInbox = 4
INVARIANTS
  TypeOK
  NoSilentOutage
  EveryFailureRetried
  OwnContracts
  BatonsBounded
PROPERTIES
  TunnelsSurvive
  Implements
CHECK_DEADLOCK FALSE
