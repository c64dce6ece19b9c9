CONSTANTS
  NumTasks <- MCNumTasks
  NoProfile = NoProfile
  Profiles = {p1}
  OptedIn = {p1}
  Marked <- MCMarked
  Verified <- MCVerified
  Bridged <- MCBridged
  Switched <- MCSwitched
  Windowed <- MCWindowed
  Global <- MCGlobal
  Unasked <- MCUnasked
  Narrowed <- MCNarrowed
  Home = p1
  Cooldown <- MCCooldown
  Overrides = {0}
  MaxFailures = 2
  PoolSize = 2
  Horizon = 1
SPECIFICATION FairSpec
INVARIANTS LockMatchesRun RetryStormBounded OneAlertPerPause MarkedMeansProduced
PROPERTY EveryEngineConsidered
