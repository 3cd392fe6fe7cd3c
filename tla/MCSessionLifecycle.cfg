SPECIFICATION FairSpec
CONSTANTS
  AcceptEvents = {e1}
  Sessions = {s1, s2}
  NoSession = NoSession
  Workers = 2
  Handled = {"login", "other"}
  Faults = {"start", "register", "accept", "peer", "recv", "send", "disconnect"}
  StackDepth = 2
CHECK_DEADLOCK FALSE
INVARIANTS TypeOK OutstandingPinned PortExact PendingAcceptIsFresh ServiceExact SessionsAccounted
PROPERTIES ImplementsLife ClosedIsDestroyed AcceptsResume
