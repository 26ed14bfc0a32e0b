SPECIFICATION Spec
CONSTANTS
  Putters = {p1, p2}
  Poppers = {}
  Getters = {g1, g2}
  Telems = {t1, t2}
  NoThread = NoThread
  Entries = 2
  SizeMod = 64
  MaxMsgs = 4
  MaxHead = 4
SYMMETRY Symmetry
INVARIANTS NoSleepOverMessage TelemBehindByOne
PROPERTIES ImplementsLog
