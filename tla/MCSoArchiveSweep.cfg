CONSTANTS
  o1 = o1
  o2 = o2
  n1 = n1
  n2 = n2
  v1 = v1
  None = None
  Orders = {o1, o2}
  Dispatches = {1}
  Entries = {1}
  VehicleOf <- MCVehicleOf
  NumberOf <- MCNumberOf
  Requests = {r1}
  Jobs = {sweep, j1, j2}
  Sweep = sweep
SPECIFICATION FairArchiveSpec
PROPERTIES
  DispatchedIsArchived
