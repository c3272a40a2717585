CONSTANTS
  Size = 4
  Word = 64
  MaxRequest = 4
  MaxBytes = 9
  ReplySize = 1
  MaxMessage = 4
  MaxOutput = 1
SPECIFICATION ControlSpec
INVARIANTS TypeOK NoJunkReadable FirstLapFifo
PROPERTIES WriteKeepsUnread FullIsNotEmpty
