SPECIFICATION Spec
CONSTANTS
  NoLimit = NoLimit
  Threshold = 3
  Absent = Absent
  Null = Null
  Other = Other
  NotARow = NotARow
  Words = {"", "shop", "mall", "http:shop", "http:localhost", "save", "nice", "long", "junk", "2026", "code", "coupon", "other"}
  Blank = ""
  Hosts <- MCHosts
  HostIn <- MCHostIn
  NoHost = NoHost
  CodeWords = {"save", "shop"}
  LabelWords = {"nice", "save"}
  DateWords = {"2026"}
  UrlWords = {"http:shop"}
  CodeTypes <- MCCodeTypes
  Unset = Unset
  NoWord = ""
  ValueOf <- MCValueOf
  TTL = 2
  MaxSafe = 6
  MaxDelay = 4
  Missing = Missing
  Blanks = Blanks
  NoProfile = NoProfile
  GoodIds = {"local", "store", "other"}
  Tainted = {"token"}
  Nothing = Nothing
  TypeOf <- MCTypeOf
  TypePriority <- MCTypePriority
  MaxConfidence = 2
  CodeCap = 2
  Carts <- MCCarts
  CouponLists <- MCCouponLists
  Categories <- MCCategories
  Bodies <- MCBodies
  Environments <- MCEnvironments
  Ids = {"awin", "impact", "other"}
  ProfileLists <- MCProfileLists
  FixtureSources <- MCFixtureSources
  FixtureExpectations <- MCExpectations
  CodeLists <- MCCodeLists
  ClaimLists <- MCClaimLists
  Caches <- MCCaches
  Now = 2
INVARIANTS
  TwoBestsAgree
  SuggestionsPay
  CacheGivesBack
  CandidatesAreTheOffers
  OneMindOnSettings
  VettedProfilesServe
  OneStoryOfSources
