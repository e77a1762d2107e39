SPECIFICATION Spec
CONSTANTS
  Requests = {r1, r2, r3}
  Concurrency = 2
  Files = {f1, f2}
  f1 = f1
  f2 = f2
  Faulty = {f2}
  RowsOf <- ThreeRows
  Books = {b1, b2}
  Members = {alice}
  alice = alice
  wallet = wallet
  bank = bank
  food = food
  Self = Self
  NoName = NoName
  NoBatch = NoBatch
  MayFail = TRUE
INVARIANTS OneBatchPerFile AppliedIsComplete ImportedOnce NoDuplicateReferences
CHECK_DEADLOCK FALSE
