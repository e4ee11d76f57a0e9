SPECIFICATION ImgSpec
CONSTANTS
  Nil = Nil
  Files = {f1, f2, f3}
  Objects = {o1}
  Handles = {h1, h2}
  Geos = {g1, g2}
  Formats = {x1, x2}
  MaxOwner = 2
  Buffers = {b1, b2}
  MaxPlace = 3
  MaxOver = 1
SYMMETRY Symmetric
INVARIANTS OwnersCounted PbuffersLive NothingKept
