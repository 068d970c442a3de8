SPECIFICATION GuidanceSpec
CONSTANTS
  announcement = announcement
  other = other
  f1 = f1
  f2 = f2
  Blank = Blank
  Uris = {announcement, other}
  Files = {f1, f2}
  DefaultUri = announcement
  DefaultFile = f1
  Forms <- MCForms
  Submitters = {p1, p2}
  Apps = {a1}
  MaxConnects = 2
INVARIANT GuidanceInv
PROPERTIES RestartKeepsSettings GuidanceEnds
