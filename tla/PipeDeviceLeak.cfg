CONSTANTS
  Size = 2
  Word = 64
  MaxRequest = 1
  MaxRefs = 3
  MaxWrites = 1
  short = short
  other = other
  long = long
  Names <- MCNames
  Cut <- MCCut
  Blocks = {b1, b2}
  Handles = {h1, h2}
  Null = Null
SPECIFICATION Spec
SYMMETRY Symmetry
INVARIANTS LastCloseDeletes
CHECK_DEADLOCK FALSE
