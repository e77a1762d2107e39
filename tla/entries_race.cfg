SPECIFICATION Spec
CONSTANTS
  Modulus = 64
  USD = USD
  EUR = EUR
  CNY = CNY
  Currencies = {USD, EUR, CNY}
  NoText = NoText
  Unknown = Unknown
  ann = ann
  bob = bob
  home = home
  trip = trip
  wallet = wallet
  bank = bank
  food = food
  e1 = e1
  e2 = e2
  main = main
  extra = extra
  Users = {ann, bob}
  Books = {home, trip}
  Home = home
  Accounts = {wallet, bank}
  Groups = {main, extra}
  Cats = {food}
  EntryIds = {e1, e2}
  Reqs = {r1, r2}
  Drivers = {"memory", "sql"}
  Absent = Absent
  Words <- MCWords
  Drafts <- MCDrafts
  Patches <- MCPatches
  GroupPatches <- MCGroupPatches
  AccountDrafts <- MCAccountDrafts
  StartAccounts <- MCAccounts
  StartGroups <- MCGroups
  StartEntries <- MCEntries1
  StartRoles <- MCRoles
  MaxChanges = 1
SYMMETRY Symmetric
INVARIANTS EditsLostOnlyByRace RemovedSharesStayRemoved EntriesStayValid
PROPERTIES DeletedStaysDeleted MutationsArePermitted
CHECK_DEADLOCK FALSE
