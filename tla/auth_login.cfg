SPECIFICATION Spec
CONSTANTS
  own = own
  s1 = s1
  s2 = s2
  mail = mail
  p1 = p1
  p2 = p2
  c1 = c1
  c2 = c2
  Ids = {own, s1, s2}
  Subjects = {s1, s2}
  Emails = {mail}
  Passwords = {p1, p2}
  Codes = {c1, c2}
  Reqs = {r1, r2}
  Absent = Absent
  Starts <- MCStarts
  CodeTTL = 2
  SessionTTL = 2
  FreeFailures = 1
  LockBase = 1
  LockMax = 2
  MaxAttempts = 2
  VerificationRequired = TRUE
  AutoProvision = TRUE
  TurnstileAfterFailure = TRUE
  MaxTime = 2
  MaxCalls = 3
SYMMETRY Symmetric
INVARIANTS UserEditsLostOnlyByRace OneUserPerEmail ThrottleCountsFailures CodesAreSpent ResetRevokesSessions SSOSessionsMatchBinding
PROPERTIES VerifiedStaysVerified
CHECK_DEADLOCK FALSE
