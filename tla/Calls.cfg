SPECIFICATION Spec
CONSTANTS
  call1 = call1
  call2 = call2
  invite1 = invite1
  invite2 = invite2
  None = None
  Calls = {call1, call2}
  Invites = {invite1, invite2}
  Searches = {search1}
SYMMETRY Symmetry
CHECK_DEADLOCK FALSE
INVARIANTS Inv SearchIsFaithful SessionIsTimed
