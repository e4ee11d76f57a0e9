SPECIFICATION Spec
CONSTANTS
  None = None
  Flusher = flusher
  Procs = {p1, p2}
  Statters = {s1}
  Truncators = {t1}
  Page = 1
  MaxSize = 2
  MaxHandle = 2
SYMMETRY Symmetric
INVARIANTS Counted HandleIsOpen NoneForgotten DirtyHasFile  
