SPECIFICATION Spec
CONSTANTS
  AcceptEvents = {e1}
  Sessions = {s1, s2}
  NoSession = NoSession
  Workers = 2
  Handled = {}
  Faults = {}
  StackDepth = 2
CHECK_DEADLOCK FALSE
PROPERTIES LoginIsHandled
