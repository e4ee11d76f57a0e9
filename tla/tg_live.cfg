SPECIFICATION FairSpec
CONSTANTS
  Reqs = {r1}
  Async = {}
  Restart = {}
  CanTimeout = TRUE
  Suspends = TRUE
PROPERTIES CallReturns ImplementsContract
