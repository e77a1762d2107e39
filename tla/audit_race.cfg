SPECIFICATION Spec
CONSTANTS
  Recorders = {r1, r2}
  Drivers = {"memory", "file", "sql"}
  Texts = {x1, x2}
  MaxEvents = 4
SYMMETRY Symmetric
INVARIANTS BrokenOnlyByRaceOrCut EventsContinueEarlier AlterationDetected
