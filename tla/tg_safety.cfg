SPECIFICATION Spec
CONSTANTS
  Reqs = {r1, r2}
  Async = {r2}
  Restart = {r2}
  CanTimeout = TRUE
  Suspends = TRUE
INVARIANTS TypeOK FreedUnlisted FreedNotHeld CompletedOnce InterruptNotLost
