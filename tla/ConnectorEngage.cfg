SPECIFICATION Spec
CONSTANTS
  Local = FALSE
  Pids = {1, 2}
  MaxRestarts = 2
  MaxInbox = 2
PROPERTY
  EngageRestarts
CHECK_DEADLOCK FALSE
