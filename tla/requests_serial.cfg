SPECIFICATION Spec
CONSTANTS
  Users = {1, 2, 3}
  PlainRoles = {"member", "viewer"}
  Books = {b1}
  Fields = {"reportingCurrency"}
  Values = {v1, v2}
  NoBook = NoBook
  Keep = Keep
  Reqs = {r1}
  Driver = "memory"
PROPERTIES ImplementsCalls
