SPECIFICATION Spec
CONSTANTS
  r180 = r180
  r200 = r200
  r486 = r486
  Timeout = r408
  Unavailable = r503
  d1 = d1
  d2 = d2
  None = None
  Dispatchers = {d1, d2}
  Prov = {r180}
  Ok = {r200}
  Fail = {r486}
  WriteMayFail = TRUE
  MaxResend = 2
CHECK_DEADLOCK FALSE
INVARIANT Inv
PROPERTIES QuietOnceAnswered TUAnswered Ends KeepsContract
