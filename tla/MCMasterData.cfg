CONSTANTS
  A = A
  a = a
  B = B
  None = None
  Kinds <- MCKinds
  Names = {A, a, B}
  WordOf <- MCWordOf
  Orders = {o1}
  Files <- MCFiles
  Clerks = {k1, k2}
  MaxRows = 4
  MaxRequests = 3
SPECIFICATION Spec
INVARIANTS
  NamesDistinct
  AdminRemains
PROPERTIES
  BulkStoresNames
CHECK_DEADLOCK FALSE
