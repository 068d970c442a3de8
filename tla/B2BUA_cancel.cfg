SPECIFICATION Safety
CONSTANTS
  Cancels = {"c1"}
  HangUps = {}
  Kind <- MCKind
  MaxTx = 2
CHECK_DEADLOCK FALSE
INVARIANTS Inv NeverConnectedToNobody NoPhoneLeftRinging
PROPERTY BridgesCall
