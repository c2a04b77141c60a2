SPECIFICATION AccessSpec
CONSTANTS
  r1 = r1
  r2 = r2
  l1 = l1
  MaxIds = 5
  Apps = {p}
  Privileged = {p}
  Refreshes = {r1, r2}
  Logins = {l1}
  ServerOf <- TwoServers
  Grace = 2
  Lifetime = 3
  AccessLifetime = 2
  Second = 2
  MaxNow = 2
  MaxEnded = 1
  MaxChanges = 1
  None = None
INVARIANTS OneSuccessor  RevokedRunsOut HoldersCanClose
PROPERTIES NeverLengthened EveryRefreshEnds
CHECK_DEADLOCK FALSE
