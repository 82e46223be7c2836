SPECIFICATION Spec
CONSTANTS
  r1 = r1
  r2 = r2
  save1 = save1
  save10 = save10
  bogus = bogus
  NoTotal = NoTotal
  NoWinner = NoWinner
  Runs = {r1}
  Codes <- MCCodes
  Contains <- MCContains
  Lists <- Lists3
  Sites <- AllSites
  StartCarts <- AnyDiscount
INVARIANTS
  TypeOK
  WinnerIsLowestVerified
  WarnsOfLostReports
  ReportsTellTheTruth
  ShopperKeepsTheBest
PROPERTY
  Terminates
CHECK_DEADLOCK FALSE
