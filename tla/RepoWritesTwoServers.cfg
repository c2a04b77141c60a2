SPECIFICATION FairSpec
CONSTANTS
  s1 = s1
  s2 = s2
  r1 = r1
  r2 = r2
  r3 = r3
  Servers = {s1, s2}
  Requests = {r1, r2, r3}
  ServerOf <- TwoProcesses
  Leavers = {r2}
  MICROS = 3
  ATTEMPTS = 2
  MaxFaults = 0
  MaxCrashes = 0
  None = None
INVARIANTS CommitsTakeTurns AnswersAreTrue
PROPERTIES RootMovesOn EveryCallAnswered
