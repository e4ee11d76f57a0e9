SPECIFICATION FairSpec
CONSTANTS
  a = a
  b = b
  None = None
  Writers = {w1, w2}
  Readers = {r1}
  Mounts = {a, b}
  Scripts <- AllScripts
  Backing <- BOnA
INVARIANTS Balanced UnloadClean
PROPERTIES WriteReturns TimerThaws
CHECK_DEADLOCK FALSE
