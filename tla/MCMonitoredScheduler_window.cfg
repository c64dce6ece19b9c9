CONSTANTS
  NumTasks <- MCNumTasks
  NoProfile = NoProfile
  Profiles = {p1}
  OptedIn = {p1}
  Marked <- MCMarked
  Verified <- MCVerified
  Bridged <- MCBridged
  Switched <- MCSwitched
  Windowed <- MCWindowed
  Global <- MCGlobal
  Unasked <- MCUnasked
  Narrowed <- MCNarrowed
  Home = p1
  Cooldown <- MCCooldown
  Overrides = {}
  MaxFailures = 1
  PoolSize = 1
  Horizon = 0
  Instrumented <- MCInstrumented
  InThread <- MCInThread
  IdleThreshold = 1
  Silent = FALSE
SPECIFICATION MonitorSpec
INVARIANT WindowMatchesRun
