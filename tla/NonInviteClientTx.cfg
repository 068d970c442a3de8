SPECIFICATION Spec
CONSTANTS
  r100 = r100
  r200 = r200
  Timeout = r408
  Unavailable = r503
  d1 = d1
  d2 = d2
  None = None
  Dispatchers = {d1, d2}
  Prov = {r100}
  Final = {r200}
  WriteMayFail = TRUE
  MaxResend = 2
CHECK_DEADLOCK FALSE
INVARIANT Inv
PROPERTIES QuietOnceCompleted NobodyWaits KeepsContract
