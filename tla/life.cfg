SPECIFICATION FairSpec
CONSTANTS
  Clients = {c1, c2}
  Telems = {c2}
  Entries = 2
  MaxAdrift = 3
  SizeMod = 8
  Mortal = {c1}
CHECK_DEADLOCK FALSE
INVARIANTS TypeOK ReadersExact OnlyRacersAreCaught
PROPERTIES RunsAwayForGood ClientsLeave DestroyEnds
