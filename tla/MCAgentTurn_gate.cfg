CONSTANTS
  Valve = 3
  MaxTools = 2
SPECIFICATION FairSpec
INVARIANTS AdviceAudited ShippedFlaggedAfterRetry
PROPERTIES HandoffIsFresh EveryTurnEnds
