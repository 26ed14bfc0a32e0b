SPECIFICATION FairSpec
CONSTANTS
  Putters = {}
  Poppers = {p1}
  Getters = {g1}
  Telems = {t1}
  NoThread = NoThread
  Entries = 4
  SizeMod = 64
  MaxMsgs = 5
  MaxHead = 4
INVARIANTS CursorNearTail PushMatchesPop NoSleepOverMessage LentSlotIsFree PushBehindByOne
PROPERTIES CallsReturn
