SPECIFICATION FairReads
CONSTANTS
  Readers = {d1, d2}
  Turns = 1
  ReadAhead = 1
  PageSize = 1
  Cids = {1, 2}
  MaxRev = 2
  MaxFaults = 1
  Collections = {0, 1, 2}
  Wanted = 1
  Rkeys = {1, 2, 3}
  Naming = {1, 2}
  Del = 4
  Blobs = {1, 2, 3}
  Dids = {1, 2, 3}
  Limit = 1
  Fine = 2
  MaxWrites = 2
  MaxClock = 2
  None = None
CHECK_DEADLOCK FALSE
INVARIANTS TurnsAreKept SentIsOneRevision ListedOnceInOrder NothingSteadyIsMissed
PROPERTIES EveryDownloadGetsATurn
