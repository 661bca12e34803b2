CONSTANTS
  o1 = o1
  o2 = o2
  o3 = o3
  n1 = n1
  n2 = n2
  a1 = a1
  m1 = m1
  m2 = m2
  u1 = u1
  None = None
  Orders = {o1, o2, o3}
  NoObd = {o2}
  NumberOf <- MCNumberOf
  Materials = {m1, m2}
  OrderOf <- MCOrderOf
  CodeOf <- MCCodeOf
  Users = {u1}
  Clerks = {k1, k2}
  MaxRequests = 2
  InitialRows <- MCInitialRows
SYMMETRY MCSymmetry
SPECIFICATION WorkSpec
INVARIANTS
  WorkTypeOK
  StepperAgrees
PROPERTIES
  DispatchedKept
  OnlyAskedChanges
  CountsFallOnlyStale
  CompletionSeen
CHECK_DEADLOCK FALSE
