SPECIFICATION Spec
CONSTANTS
  mediate = mediate
  cancel = cancel
  r180 = r180
  r200 = r200
  r486 = r486
  r487 = r487
  d1 = d1
  d2 = d2
  None = None
  TUs = {mediate, cancel}
  Dispatchers = {d1, d2}
  Prov = {r180}
  Ok = {r200}
  Fail = {r486, r487}
  Offers <- MCOffers
  WriteMayFail = TRUE
CHECK_DEADLOCK FALSE
INVARIANTS Inv TimersMatchState
PROPERTIES SilentOnceTerminated RespondReturns FinalResponseEnds KeepsContract
