CONSTANTS
  Metrics = {SPY}
  SPY = SPY
  Boundaries <- MCBoundaries
  Margin = 1
  Values = {0, 3, 4, 7}
  Rungs = {3, 7}
  Reset = 0
  Holdings = {h1}
  Crosses = {dc}
SPECIFICATION SentinelSpec
INVARIANTS SentinelInv NoRefire
PROPERTY NothingConsumed
