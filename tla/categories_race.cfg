SPECIFICATION Spec
CONSTANTS
  Cats = {c1, c2, c3}
  Root = Root
  Unchanged = Unchanged
  NoCategory = NoCategory
  Reqs = {r1, r2}
SYMMETRY Symmetric
INVARIANTS CycleOnlyByRace
