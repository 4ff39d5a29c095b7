CONSTANTS
  Calls = {c1, c2}
  c1 = c1
  c2 = c2
  object = object
  Dest <- OnePath
  Stem <- OneStem
  Hashed = {c1, c2}
  Sources = 2
  Batches <- OneRacesOrTwins
  Size = 3
  Attempts = 2
  MaxLength = 5
  NoRange = {1, 2}
  MaxStopped = 1
  Faults = {"refuse", "cut"}
  None = none
SPECIFICATION FairSpec
INVARIANTS TypeOK InstalledIsWhole FailsForCause
PROPERTIES DownloadReturns
CHECK_DEADLOCK FALSE
