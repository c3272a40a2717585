CONSTANTS
  Size = 4
  Word = 64
  MaxRequest = 4
  MaxBytes = 9
SPECIFICATION Spec
PROPERTIES OnlyWritesMoveStop
