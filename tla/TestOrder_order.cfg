SPECIFICATION Spec
CONSTANTS
  a = a
  b = b
  c = c
  Codes <- MCCodes
  Providers = {"awin"}
  Weight <- MCWeight
  Savings = {1, 2}
  Lists <- MCLists
  Offers <- MCOffers
  Histories <- MCHistories
  SeedList <- MCSeedList
  Never = Never
  FreshnessMax = 10
  Days = {0, 6, 12}
  MaxWrites = 3
INVARIANTS
  TypeOK
  AnswersTheList
  TwoSortsAreOne
PROPERTIES
  OthersKeepOrder
  NewSourceNeverDemotes
  TimeOnlyFades
