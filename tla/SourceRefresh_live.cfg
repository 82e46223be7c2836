SPECIFICATION Spec
CONSTANTS
  shop = shop
  mall = mall
  save = save
  bogus = bogus
  q1 = q1
  q2 = q2
  NoEntry = NoEntry
  NoJob = NoJob
  Scheduler = Scheduler
  Domains <- MCDomains
  Codes = {save, bogus}
  DomainOrder <- MCOrder
  Queries = {}
  Requests = {q1}
  Answers <- NewlyListed
  Interval = 2
  TTL = 2
  Timeout = 1
  Horizon = 2
  MaxRows = 1
  Faults = {"gate", "cache", "import"}
  Starts <- BothStart
  Edits <- MCEdits
  MaxEdits = 0
  MaxCrashes = 1
PROPERTY
  EventuallyImported
