CONSTANTS
  o1 = o1
  o2 = o2
  n1 = n1
  n2 = n2
  v1 = v1
  None = None
  Orders = {o1, o2}
  Dispatches = {1, 2}
  Entries = {1, 2}
  VehicleOf <- MCVehicleOf
  NumberOf <- MCNumberOf
  Requests = {r1}
  Jobs = {j1}
  Sweep = j0
SPECIFICATION ArchiveSpec
INVARIANTS
  ArchiveTypeOK
  StepperAgrees
  EntryKept
PROPERTIES
  UnloadedUnlessLate
  ArchivedLinksResolve
