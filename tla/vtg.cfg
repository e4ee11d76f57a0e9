SPECIFICATION Spec
CONSTANTS
  None = None
  Threads = {t1, t2}
  Files = {f1, f2}
  Ids = {i1, i2}
  Entries = {e1, e2}
  Bufs = {b1, b2, b3}
  Ctxs = {c1}
  MaxCtx = 2
SYMMETRY Symmetric
CHECK_DEADLOCK FALSE
INVARIANTS BuffersCounted OnlyOvertaken Placed ContextsNoted
