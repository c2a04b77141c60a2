SPECIFICATION Spec
CONSTANTS
  x = x
  Cids = {x}
  Uploads = {u1, u2}
  CidOf <- SameBytes
  Rkeys = {a}
  Writes = {w1, w2}
  Leavers = {}
  Reconciler = {r}
  MaxNow = 1
  MaxFaults = 0
  None = None
SYMMETRY Alike
CHECK_DEADLOCK FALSE
INVARIANT UploadsAreThere
PROPERTIES FreshRowsStay OnlyStrayFilesAreTaken
