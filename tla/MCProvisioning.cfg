SPECIFICATION FairSpec
CONSTANTS
  MIN_INTERVAL = 2
  MAX_INTERVAL = 5
  DefaultInterval = 3
  ShortSpan = 9
  CountSpan = 3
  RetryLimit = 4
  Requested <- MCRequested
INVARIANTS
    RouterHasCredentials
    IntervalAgrees
PROPERTIES
    NeverBackToSmartConfig
    SettlesDown
