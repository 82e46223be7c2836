SPECIFICATION Spec
CONSTANTS
  shop = shop
  padded = padded
  www = www
  a = a
  b = b
  aPadded = aPadded
  hit = hit
  miss = miss
  Domains <- MCDomains
  Texts <- MCTexts
  Reports = {hit, miss}
  Trim <- MCTrim
  Lookup <- MCLookup
  Lists <- MCLists
  Histories <- MCHistories
  Seed <- MCSeed
  SeedHistory <- MCSeedHistory
  MaxResults = 1
  MaxWrites = 3
INVARIANTS
  TypeOK
  CodesAreClaimed
  VerifyPasses
  RestoreGivesBack
  AgainIsNothing
PROPERTIES
  ListsAndHistoryApart
  BootKeepsRows
