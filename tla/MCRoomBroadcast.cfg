SPECIFICATION FairSpec
CONSTANTS
  Users = {1, 2, 3}
  Nobody = Nobody
  Capacity = 2
  MaxRequests = 3
CHECK_DEADLOCK FALSE
INVARIANTS TypeOK NoticesInOrder ViewExact
PROPERTIES OperationsEnd
