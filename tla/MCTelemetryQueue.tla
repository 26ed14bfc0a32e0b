-------------------------- MODULE MCTelemetryQueue --------------------------
(* Model-checking instances of TelemetryQueue; the constants are in the     *)
(* configurations.                                                          *)
EXTENDS TelemetryQueue, TLC

\* Threads of one kind run the same code and are compared only for equality.
Symmetry == Permutations(Putters) \cup Permutations(Getters)
              \cup Permutations(Telems)
=============================================================================
