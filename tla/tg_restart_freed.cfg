SPECIFICATION Spec
CONSTANTS
  Reqs = {r1}
  Async = {r1}
  Restart = {r1}
  CanTimeout = FALSE
  Suspends = TRUE
INVARIANTS RestartFreedNotHeld
