SPECIFICATION FairSpec
CONSTANTS
  s1 = s1
  s2 = s2
  c1 = c1
  Servers = {s1, s2}
  Commands = {c1}
  Known <- Versions
  Databases = 2
  Newest = 2
  Accounts = {a, b}
  MaxStarts = 3
  MaxFaults = 1
  None = None
CHECK_DEADLOCK FALSE
INVARIANTS MigratedOnceInOrder 
PROPERTIES EveryAccountIsWalked
