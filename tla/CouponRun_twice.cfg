SPECIFICATION Spec
CONSTANTS
  r1 = r1
  r2 = r2
  save1 = save1
  save10 = save10
  bogus = bogus
  NoTotal = NoTotal
  NoWinner = NoWinner
  Runs = {r1, r2}
  Codes <- MCCodes
  Contains <- MCContains
  Lists <- Lists1
  Sites <- PlainSites
  StartCarts <- NoDiscount
INVARIANT
  EveryAnswerHolds
CHECK_DEADLOCK FALSE
