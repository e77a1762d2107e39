SPECIFICATION FairSpec
CONSTANTS
  Cats = {c1, c2}
  Root = Root
  Unchanged = Unchanged
  NoCategory = NoCategory
  Reqs = {r1, r2}
PROPERTY RequestsEnd
