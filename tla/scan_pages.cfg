SPECIFICATION ScanSpec
CONSTANTS
  Modulus = 128
  DefaultPageSize = 3
  MaxPageSize = 8
  Panic = Panic
  Rejected = Rejected
  Items = {i1, i2, i3, i4, i5}
  ScanSize = 2
SYMMETRY Symmetric
INVARIANTS InsertionsHideNothing PagesPartition
