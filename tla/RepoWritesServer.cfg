SPECIFICATION Spec
CONSTANTS
  s1 = s1
  s2 = s2
  r1 = r1
  r2 = r2
  r3 = r3
  Servers = {s1}
  Requests = {r1, r2, r3}
  ServerOf <- OneProcess
  Leavers = {}
  MICROS = 5
  ATTEMPTS = 2
  MaxFaults = 1
  MaxCrashes = 1
  None = None
SYMMETRY Symmetric
INVARIANTS TypeOK LogInOrder OneServerNeverStartsOver
PROPERTIES MirrorNeverRetreats OneRevisionAtATime
