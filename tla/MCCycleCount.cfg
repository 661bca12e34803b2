CONSTANTS
  f1 = f1
  None = None
  Bins = {1, 2, 3}
  Uploads = {f1}
  RowsOf <- MCRowsOf
  ColumnsOf <- MCColumnsOf
  Criteria <- MCCriteria
  Picks = {{1, 2, 3}, {3}}
  Operators = {o1, o2}
  Clerks = {k1, k2}
  Months = 2
  MaxPerMonth = 2
  Legacy = 1
SYMMETRY MCSymmetry
SPECIFICATION CountSpec
INVARIANTS
  CountTypeOK
  NumbersAccounted
PROPERTIES
  BookSpec
