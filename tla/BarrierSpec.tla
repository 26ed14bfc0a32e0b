---------------------------- MODULE BarrierSpec ----------------------------
(***************************************************************************)
(* What the barriers of mutex.h promise: threads are let through in groups *)
(* of `total' that have arrived, and a barrier is destroyed when nobody is *)
(* left in it.                                                             *)
(***************************************************************************)
EXTENDS Naturals, FiniteSets

CONSTANTS Threads, Counts

VARIABLES
  total,    \* how many threads make a group
  inside,   \* threads that have arrived and are not let through
  free,     \* threads that are let through and have yet to leave
  closed    \* the barrier is destroyed

vars == <<total, inside, free, closed>>

Init == total \in Counts /\ inside = {} /\ free = {} /\ closed = FALSE

Arrive(t) ==
  /\ ~closed /\ t \notin inside \cup free
  /\ inside' = inside \cup {t}
  /\ UNCHANGED <<total, free, closed>>

Release ==
  \E group \in SUBSET inside :
    /\ Cardinality(group) = total
    /\ inside' = inside \ group
    /\ free' = free \cup group
    /\ UNCHANGED <<total, closed>>

Depart(t) ==
  /\ t \in free /\ free' = free \ {t}
  /\ UNCHANGED <<total, inside, closed>>

Close ==
  /\ inside = {} /\ free = {}
  /\ closed' = TRUE
  /\ UNCHANGED <<total, inside, free>>

Next == Release \/ Close \/ \E t \in Threads : Arrive(t) \/ Depart(t)

Spec == Init /\ [][Next]_vars
=============================================================================
