CONSTANTS
  Callers = {c1}
  Keys = {k1, k2}
  NoKey = NoKey
  NoFile = NoFile
  MaxRecords = 2
  MaxAlerts = 3
SPECIFICATION AlertsSpec
INVARIANT ReportsHold
PROPERTY ImplementsInbox
