SPECIFICATION Spec
CONSTANTS
  NoRun = NoRun
  MaxPopups = 2
  Pages <- MCPages
  ServerTotals = {0, 2}
  MockTotal = 1
  MaxTotal = 2
  MaxTested = 2
  MaxAttempts = 1
  MaxClicks = 1
  MaxVisits = 1
INVARIANTS
  TypeOK
  QuietMeansStored
PROPERTIES
  StatusFollowsRun
  ButtonComesBack
CHECK_DEADLOCK FALSE
