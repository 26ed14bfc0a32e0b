---------------------------- MODULE MCFutexCond ----------------------------
EXTENDS FutexCond, TLC

\* Each operation, the broadcast both with and without a value.
MCMenu ==
  {<<"wait", NoValue>>, <<"timedwait", 0>>, <<"signal", 1>>, <<"broadcast", 1>>,
   <<"broadcast", NoValue>>, <<"setvalue", 1>>,
   <<"trylock", NoValue>>, <<"timedlock", NoValue>>}

Symmetry == Permutations(Threads)
=============================================================================
