SPECIFICATION Spec
CONSTANTS
  Users = {1, 2}
  PlainRoles = {"viewer"}
  Books = {b1}
  Fields = {"reportingCurrency"}
  Values = {v1}
  NoBook = NoBook
  Keep = Keep
  Reqs = {r1, r2}
  Driver = "sql"
SYMMETRY Handlers
INVARIANTS OwnerlessOnlyByRace PrimaryLostOnlyByRace
