CONSTANTS
  s1 = s1
  e1 = e1
  h1 = h1
  d1 = d1
  g1 = g1
  p1 = p1
  Unset = Unset
  Owners = {s1, e1, h1, d1, g1, p1}
  KindOf <- MCKindOf
  Inside <- MCInside
  Names = {a}
  Clerks = {k1, k2}
  MaxRequests = 3
SYMMETRY MCSymmetry
SPECIFICATION AttachSpec

  
PROPERTIES
  EntriesKept
CHECK_DEADLOCK FALSE
