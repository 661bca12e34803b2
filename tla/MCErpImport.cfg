CONSTANTS
  o1 = o1
  o2 = o2
  n1 = n1
  d1 = d1
  d2 = d2
  f1 = f1
  f2 = f2
  c1 = c1
  a1 = a1
  None = None
  Orders = {o1, o2}
  NumberOf <- MCNumberOf
  Obds = {d1, d2, NoObd}
  NoObd = NoObd
  Files = {f1, f2}
  NameOf <- MCNameOf
  SaysOf <- MCSaysOf
  CustomerOf <- MCCustomerOf
  Sweeps = {s1, s2}
  Timers = {s1}
  Clerks = {k1}
  Overrides = {d1}
  MaxFaults = 1
  MaxTries = 1
SPECIFICATION FairImportSpec
INVARIANTS
  ImportTypeOK
  LockedByOne
  ArchivedWasStored
  CustomersBounded
PROPERTIES
  SweepKeepsImported
  WaitingFileHandled
