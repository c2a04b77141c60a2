SPECIFICATION Spec
CONSTANTS
  x = x
  Cids = {x}
  Uploads = {u1, u2}
  CidOf <- SameBytes
  Rkeys = {a, b}
  Writes = {w1, w2, w3}
  Leavers = {w1, w2, w3}
  Reconciler = {}
  MaxNow = 0
  MaxFaults = 1
  None = None
SYMMETRY Alike
CHECK_DEADLOCK FALSE
INVARIANTS ClaimsAreTheRecords
PROPERTY OnlyLeaversCross
