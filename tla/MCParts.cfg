SPECIFICATION PartsSpec
CONSTANTS
  MetaStates <- TwoStates
  MetaProfiles <- TwoMetas
  MetaPlaces <- TwoPlaces
  MetaCallDepth = 1
  MetaInterval = 2
  MetaSamples = 2
  MetaGenerations = {1, 2, 3, 4, 5}
  MetaNesting = 4
  Profiles <- TwoProfiles
  NamedProfiles <- OneNamed
  Sparse <- OneNamed
  StorageFaults <- TwoFaults
  Route <- ShortRoute
  RouteModes <- AllModes
  RoutePlaces <- Towns
  RetryTicks = 1
  ResultTicks = 1
  UnansweredTicks = 2
  Disturbances = 1
  CastsInHand = 2
  Vendors <- OneVendor
  BailTicks = 3
  SettleTicks = 2
  SplitTicks = 1
  LockTicks = 2
  RunsStarted = 3
  Corpses <- OneCorpse
  CorpseItems <- TwoPeas
  ItemRanks <- PeaRanks
  LimitedItems <- BothPeas
  KeepCount = 1
  PickupAttempts = 2
INVARIANTS
  PartsTypeOK
  MetaCallsBounded
  ProfilesApart
  SettingsKept
  VendorHolds
  VendorNeverStalls
  KeptUpTo
PROPERTIES
  MetaLoadEndsPass
  MetaWatchdogWaits
  MetaEdgesHeard
  PickCarriedOut
  RecallNotTwice
  RecallEarned
  OnceConsumes
  RecallCarriedOut
  VendorAnswersOwn
  TakenHasArrived
  PullsUnderReceipt
