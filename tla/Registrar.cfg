SPECIFICATION Spec
CONSTANTS
  u1 = u1
  c1 = c1
  c2 = c2
  p1 = p1
  p2 = p2
  l1 = l1
  l2 = l2
  n1 = n1
  n2 = n2
  n3 = n3
  Star = Star
  None = None
  Users = {u1}
  Contacts = {c1, c2}
  ContactLists <- MCContactLists
  Ttls = {0, 1}
  Registrants = {p1, p2}
  Lookups = {l1, l2}
  Nonces = {n1, n2, n3}
  NonceTtl = 1
  MaxTime = 2
SYMMETRY Symmetry
CHECK_DEADLOCK FALSE
INVARIANTS Inv ConfirmedStays
PROPERTY LookupSound
