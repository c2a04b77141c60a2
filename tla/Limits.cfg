SPECIFICATION Spec
CONSTANTS
  Threads = {t1, t2}
  Callers = {c1, c2, c3}
  Mixes <- Mixed
  Points <- SmallPoints
  Window <- SmallWindows
  KEYS = 2
  U32MAX = 3
  MaxNow = 3
  MaxStall = 1
SYMMETRY Same
INVARIANTS  KeysAreLetGo 
PROPERTY WaitsOutTheWindow
