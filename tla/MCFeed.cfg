CONSTANTS
  Threads = {t1, t2}
  FailureThreshold = 2
  WindowSize = 1
  RateNum = 1
  RateDen = 2
  OpenSeconds = 1
  AnswersNothing = TRUE
  Chain <- MCChain
  Guarded = "upstox"
  Composite = "composite"
  Members <- MCMembers
  MinProviders = 3
  Last <- MCLast
  Bad = "bad"
  BadLasts <- MCBadLasts
  RealTime <- MCRealTime
  Rich <- MCRich
  ShortTTL = 1
  LongTTL = 1
  EnforceFresh = {t1}
  EnforceRealTime = {t2}
  MaxPrimes = 1
SPECIFICATION FairFeedSpec
INVARIANTS
  CauseStands
  NoLaundering
  FreshFills
  
PROPERTIES
  AlwaysRetried
