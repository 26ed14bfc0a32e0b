SPECIFICATION FairSpec
CONSTANTS
  Clients = {c1, c2}
  Telems = {c2}
  Entries = 2
  MaxAdrift = 3
  SizeMod = 8
  Mortal = {}
CHECK_DEADLOCK FALSE
PROPERTIES ClosesAfterWaiting
