SPECIFICATION FairSpec
CONSTANTS
  Putters = {p1}
  Poppers = {}
  Getters = {g1}
  Telems = {t1}
  NoThread = NoThread
  Entries = 4
  SizeMod = 64
  MaxMsgs = 7
  MaxHead = 8
INVARIANTS TypeOK PutInv WindowInRing UnreadIntact MissFlagExact BufferGrace
PROPERTIES GetsNewest TelemInOrder CallsReturn
