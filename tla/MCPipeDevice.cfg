CONSTANTS
  Size = 3
  Word = 64
  MaxRequest = 2
  MaxRefs = 3
  MaxWrites = 3
  short = short
  other = other
  long = long
  Names <- MCNames
  Cut <- MCCut
  Blocks = {b1, b2, b3}
  Handles = {h1, h2, h3}
  Null = Null
SPECIFICATION Spec
SYMMETRY Symmetry
CONSTRAINT WrittenFocus
INVARIANTS TypeOK HandlesOnLive RefCountExact OneContextPerName NoForeignBytes
CHECK_DEADLOCK FALSE
