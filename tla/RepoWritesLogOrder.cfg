SPECIFICATION Spec
CONSTANTS
  s1 = s1
  s2 = s2
  r1 = r1
  r2 = r2
  r3 = r3
  Servers = {s1}
  Requests = {r1, r2}
  ServerOf <- OneProcess
  Leavers = {r1}
  MICROS = 4
  ATTEMPTS = 2
  MaxFaults = 0
  MaxCrashes = 0
  None = None

INVARIANTS LogInOrder
