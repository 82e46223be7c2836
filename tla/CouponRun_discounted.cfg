SPECIFICATION Spec
CONSTANTS
  r1 = r1
  r2 = r2
  save1 = save1
  save10 = save10
  bogus = bogus
  NoTotal = NoTotal
  NoWinner = NoWinner
  Runs = {r1}
  Codes <- MCCodes
  Contains <- MCContains
  Lists <- Lists3
  Sites <- CleanSites
  StartCarts <- AnyDiscount
INVARIANT
  NeverWorseOff
CHECK_DEADLOCK FALSE
