SPECIFICATION Spec
CONSTANTS
  None = None
  Threads = {t1, t2}
  Objects = {o1, o2}
  Vmas = {v1, v2}
  Sizes = {1, 2, 3}
  MaxSmall = 1
  BufSize = 2
  NumBufs = 1
  MaxFails = 1
  MaxRefs = 2
SYMMETRY Symmetric
CHECK_DEADLOCK FALSE
INVARIANTS RangesSound HostMapsLive BuffersOwned 
