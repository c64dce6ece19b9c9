SPECIFICATION ObservationsFairSpec
CONSTANTS
    Turns = {u1}
    Scheduled = engine
    Forced = click
    Gate = 2
    MinCitations = 2
    MaxEvidence = 2
    LogCap = 2
    MaxRows = 4
    MaxFaults = 1
INVARIANTS
    LogInv
    VerdictOnce
PROPERTIES
    BacklogDrains
