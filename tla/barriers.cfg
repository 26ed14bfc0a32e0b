SPECIFICATION FairSpec
CONSTANTS
  t1 = t1
  t2 = t2
  t3 = t3
  Threads = {t1, t2, t3}
  Mod = 8
  Setups <- MCSetups
CHECK_DEADLOCK FALSE
INVARIANTS TypeOK ExactUsersNeverMix NobodyStranded
PROPERTIES DestroyReturns ImplementsBarrier
