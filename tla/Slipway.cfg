SPECIFICATION FairSpec
CONSTANTS
  Procs = {p1, p2, p3}
  Clients = {c1, c2}
  MAX_ATTEMPTS = 2
  MaxRequests = 2
  Nobody = Nobody
  Stale = Stale
INVARIANTS
  TypeOK
  SocketIsOwn
  ReplyMatches
PROPERTIES
  StopsWithLastSession
  LeavesAfterClients
  SessionsEnd
CHECK_DEADLOCK FALSE
