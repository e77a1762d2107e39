SPECIFICATION FairSpec
CONSTANTS
  Writes = {w1, w2}
  Calls = {c1, c2}
  Nobody = Nobody
  NoFile = NoFile
INVARIANTS AlwaysLoads AckedAreStored
PROPERTIES ImplementsDurable CallsReturn
