SPECIFICATION Spec
CONSTANTS
  None = None
  Threads = {t1, t2}
  Reqs = {r1, r2}
  Areas = {a1, a2}
  Fbs = {1, 2}
  Aperture = TRUE
SYMMETRY Symmetric
CHECK_DEADLOCK FALSE
INVARIANTS  PendingLive  ModeKnown
