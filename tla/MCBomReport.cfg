CONSTANTS
  a1 = a1
  L1 = L1
  L2 = L2
  n1 = n1
  None = None
  Audits = {a1}
  Locations = {L1, L2}
  Lines = {n1}
  Operators = {o1, o2}
  LocationsOf <- MCLocationsOf
  LocationOf <- MCLocationOf
  MaxAttempts = 3
  BatchSize = 1
  MaxFaults = 2
  Closable = {a1}
SPECIFICATION FairReportSpec
INVARIANTS
  ReportTypeOK
  FinalReportUnlessOverlap
PROPERTIES
  ReportSavedOrGivenUp
CHECK_DEADLOCK FALSE
