CONSTANTS
  o1 = o1
  c1 = c1
  g1 = g1
  None = None
  Orders = {o1}
  Materials = {1, 2}
  OrderOf <- MCOrderOf
  CodeOf <- MCCodeOf
  GroupOf <- MCGroupOf
  Required <- MCRequired
  PackerAssigned = {o1}
  Measured <- MCMeasured
  Quantities <- MCQuantities
  Requests = {r1, r2}
  Dispatchable = {o1}
SYMMETRY Symmetry
SPECIFICATION Spec
INVARIANTS
  TypeOK
  OverrunBounded
  CompletionSeen
  StatusHasItsSteps
