SPECIFICATION Spec
CONSTANTS
  Putters = {}
  Poppers = {p1}
  Getters = {g1}
  Telems = {}
  NoThread = NoThread
  Entries = 2
  SizeMod = 64
  MaxMsgs = 4
  MaxHead = 4
PROPERTIES GetsNewest
