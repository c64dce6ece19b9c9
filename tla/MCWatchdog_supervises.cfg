CONSTANTS
  DownConfirmations = 2
  MaxTries = 2
  MaxRestarts = 2
  MaxFaults = 1
  Toggles <- DefaultAndAdopting
SPECIFICATION FairSpec
INVARIANT ReviveEarned
PROPERTY Noticed
