CONSTANTS
  a1 = a1
  L1 = L1
  L2 = L2
  e1 = e1
  e2 = e2
  u2 = u2
  t1 = t1
  t2 = t2
  None = None
  Audits = {a1}
  Locations = {L1, L2}
  Lines = {e1, e2, u2}
  ExpectedLines = {e1, e2}
  ExpectedQty <- MCExpectedQty
  LocationsOf <- MCLocationsOf
  LocationOf <- MCLocationOf
  Operators = {o1, o2}
  Requests = {r1, r2}
  Admins = {w1}
  SubmissionIds = {s1, s2}
  Stamps = {t1, t2}
  Payloads <- MCPayloads
  Decisions = {d1, d2}
SPECIFICATION Spec
INVARIANTS
  TypeOK
  StatusMatchesUploads
  ClosedIsSettled
  OneCountPerLocation
PROPERTIES
  UploadedLocked
  TakenStaysWithOperator
  LifecycleSpec
