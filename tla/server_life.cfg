SPECIFICATION ServerSpec
CONSTANTS
  Modulus = 256
  USD = USD
  EUR = EUR
  CNY = CNY
  GBP = GBP
  r1 = r1
  c1 = c1
  s1 = s1
  Currencies = {USD, EUR, CNY}
  NoText = NoText
  Unknown = Unknown
  Precision = 20
  Scale = 10
  DayLength = 2
  DefaultRates <- MCDefaultRates
  Limit = 2
  Window = 4
  NoSubject = NoSubject
  Callers <- MCCallers
  Reqs = {r1, r2}
  Starts <- MCStarts
  Feeds <- MCFeeds
  Books <- MCBooks
  Queries <- MCQueries
  NoTable = NoTable
  MaxLag = 2
INVARIANTS AdmittedBounded RatesFromOneFetch SummaryIsNear
PROPERTIES BlockedClientsReturn UpdaterKeepsTrying ShutdownEnds
CHECK_DEADLOCK FALSE
