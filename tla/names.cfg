SPECIFICATION Spec
CONSTANTS
  None = None
  Threads = {t1, t2}
  Names = {a, b}
  Dentries = {d1, d2, d3}
  Files = {f1, f2, f3}
  Asks = {{"mode", "gid"}}
  Plain = TRUE
  MaxEvents = 2
SYMMETRY Symmetric
INVARIANTS  FreshAgrees  NamesAgree
