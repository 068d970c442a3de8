SPECIFICATION Spec
CONSTANTS
  b1 = b1
  b2 = b2
  b3 = b3
  b4 = b4
  b5 = b5
  b6 = b6
  b7 = b7
  d1 = d1
  None = None
  Requests <- MCRequests
  MaxMessages = 3
CHECK_DEADLOCK FALSE
INVARIANTS TypeOK Findable NothingElseStays
PROPERTY EveryRequestAnswered
