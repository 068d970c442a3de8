SPECIFICATION Spec
CONSTANTS
  u1 = u1
  u2 = u2
  r100 = r100
  r200 = r200
  r500 = r500
  d1 = d1
  d2 = d2
  None = None
  TUs = {u1, u2}
  Dispatchers = {d1, d2}
  Prov = {r100}
  Final = {r200, r500}
  WriteMayFail = TRUE
CHECK_DEADLOCK FALSE
INVARIANT Inv
PROPERTIES FirstFinalStands NobodyWaits KeepsContract
