---------------------------- MODULE MCFirstQueue ----------------------------
(* FirstQueue on a small instance.                                         *)
EXTENDS FirstQueue, TLC

\* Messages of one length that everybody takes; two lengths that everybody
\* takes; consumers that take only the short one, and ones that take both.
MCWorkloads ==
  { [lengths |-> {1}, maxes |-> {1}],
    [lengths |-> {1, 2}, maxes |-> {2}],
    [lengths |-> {0, 2}, maxes |-> {0, 2}] }

Symmetry == Permutations(Producers) \cup Permutations(Consumers)
=============================================================================
