SPECIFICATION Spec
CONSTANTS
  shop = shop
  mall = mall
  save = save
  bogus = bogus
  q1 = q1
  q2 = q2
  NoEntry = NoEntry
  NoJob = NoJob
  Scheduler = Scheduler
  Domains <- MCDomains
  Codes = {save, bogus}
  DomainOrder <- MCOrder
  Queries = {}
  Requests = {q1}
  Answers <- MCAnswers
  Interval = 3
  TTL = 3
  Timeout = 1
  Horizon = 3
  MaxRows = 1
  Faults = {}
  Starts <- AnyStart
  Edits <- MCEdits
  MaxEdits = 1
  MaxCrashes = 1
PROPERTY
  KillSwitchHolds
