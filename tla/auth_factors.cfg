SPECIFICATION Spec
CONSTANTS
  s1 = s1
  s2 = s2
  k1 = k1
  f1 = f1
  f2 = f2
  Secrets = {s1, s2}
  Browsers = {b1}
  Keys = {k1}
  Flows = {f1, f2}
  Reqs = {r1, r2}
  Absent = Absent
  Starts <- MCStarts
  Period = 1
  Skew = 1
  ReplayCache = 1
  SetupTTL = 2
  FlowTTL = 2
  MaxFailures = 1
  MaxTime = 2
  MaxCalls = 3
SYMMETRY Symmetric
INVARIANTS CodesAcceptedOnce GuessesBounded FactorLostOnlyByRace CeremonyUsedOnce
PROPERTIES PasskeysMoveForward
CHECK_DEADLOCK FALSE
