SPECIFICATION Spec
CONSTANTS
  shop = shop
  mall = mall
  save = save
  bogus = bogus
  q1 = q1
  q2 = q2
  NoEntry = NoEntry
  NoJob = NoJob
  Scheduler = Scheduler
  Domains <- MCDomains
  Codes = {save, bogus}
  DomainOrder <- MCOrder
  Queries = {}
  Requests = {q1, q2}
  Answers <- MCAnswers
  Interval = 2
  TTL = 2
  Timeout = 1
  Horizon = 7
  MaxRows = 1
  Faults = {"cache", "import", "audit"}
  Starts <- OneStart
  Edits = {{}}
  MaxEdits = 1
  MaxCrashes = 1
INVARIANTS
  TypeOK
  KeepsWarm
PROPERTIES
  ImplementsPool
  SchedulerSpacing
  StaysForgotten
SYMMETRY
  Alike
