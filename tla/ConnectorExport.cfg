SPECIFICATION FairSpec
CONSTANTS
  Local = TRUE
  Pids = {1, 2}
  MaxRestarts = 2
  MaxInbox = 3
PROPERTIES
  ServesAgain
  Implements
CHECK_DEADLOCK FALSE
