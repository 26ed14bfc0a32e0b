--------------------------- MODULE TicketBarrier ---------------------------
(***************************************************************************)
(* The ticket barrier of mutex.h.  A thread takes a ticket from count_in   *)
(* and waits for count_next, the last ticket that may go, to reach it; the *)
(* thread whose ticket is `total' past count_next moves it on.  count_out  *)
(* counts those who have left.  All three are unsigned words that wrap     *)
(* around, at Mod here.                                                    *)
(***************************************************************************)
EXTENDS Integers, FiniteSets

CONSTANTS Threads, Mod

VARIABLES
  count_next, count_in, count_out,   \* the barrier
  pc,       \* thread -> where it is
  mine,     \* thread -> its ticket
  seen,     \* thread -> what it last read of count_next, or of count_out
  calls,    \* thread -> calls of barrier_wait it has made
  setup     \* for how many threads the barrier is

words  == <<count_next, count_in, count_out>>
locals == <<mine, seen, calls>>

Total == setup.count

Minus(a, b) == (a - b) % Mod

Init == count_next = Mod - 1 /\ count_in = 0 /\ count_out = 0

Goto(t, from, to) == pc[t] = from /\ pc' = [pc EXCEPT ![t] = to]

Enter(t) ==
  /\ Goto(t, "idle", "look")
  /\ mine' = [mine EXCEPT ![t] = count_in]
  /\ count_in' = (count_in + 1) % Mod
  /\ calls' = [calls EXCEPT ![t] = @ + 1]
  /\ UNCHANGED <<count_next, count_out, seen>>

\* wait - next >= (1UL << 31): the ticket is not after next.
Passed(t, next) == Minus(mine[t], next) >= Mod \div 2

Look(t) ==
  /\ Goto(t, "look", IF Minus(mine[t], count_next) = Total THEN "last"
                     ELSE IF Passed(t, count_next) THEN "leave" ELSE "sleep")
  /\ seen' = [seen EXCEPT ![t] = count_next]
  /\ UNCHANGED <<words, mine, calls>>

Sleep(t) ==
  /\ Goto(t, "sleep", IF count_next = seen[t] THEN "asleep" ELSE "look")
  /\ UNCHANGED <<words, locals>>

\* Mutant: the next ticket may go, not the next group.
LastOne(t) ==
  /\ Goto(t, "last", "wake")
  /\ count_next' = (count_next + 1) % Mod
  /\ UNCHANGED <<count_in, count_out, locals>>

Last(t) ==
  /\ Goto(t, "last", "wake")
  /\ count_next' = (count_next + Total) % Mod
  /\ UNCHANGED <<count_in, count_out, locals>>

WakeAll(t) ==
  /\ pc[t] = "wake"
  /\ pc' = [s \in Threads |-> CASE s = t -> "leave"
                                [] pc[s] = "asleep" -> "look"
                                [] OTHER -> pc[s]]
  /\ UNCHANGED <<words, locals>>

\* count_out is incremented, and both counts read, in one 64 bit addition.
Leave(t) ==
  /\ Goto(t, "leave", IF count_out = count_in THEN "notify" ELSE "idle")
  /\ count_out' = (count_out + 1) % Mod
  /\ UNCHANGED <<count_next, count_in, locals>>

Notify(t) ==
  /\ pc[t] = "notify"
  /\ pc' = [s \in Threads |-> CASE s = t -> "idle"
                                [] pc[s] = "ended" -> "await"
                                [] OTHER -> pc[s]]
  /\ UNCHANGED <<words, locals>>

-----------------------------------------------------------------------------
(* ticket_barrier_destroy.                                                 *)

Destroy(t) ==
  /\ Goto(t, "idle", "await")
  /\ count_in' = (count_in - 1) % Mod
  /\ UNCHANGED <<count_next, count_out, locals>>

Await(t) ==
  /\ Goto(t, "await", IF count_out = (count_in + 1) % Mod THEN "destroyed" ELSE "ending")
  /\ seen' = [seen EXCEPT ![t] = count_out]
  /\ UNCHANGED <<words, mine, calls>>

AwaitSleep(t) ==
  /\ Goto(t, "ending", IF count_out = seen[t] THEN "ended" ELSE "await")
  /\ UNCHANGED <<words, locals>>

-----------------------------------------------------------------------------
\* Let through: the ticket is not after count_next.
Released(t) ==
  \/ pc[t] \in {"wake", "leave"}
  \/ pc[t] \in {"look", "sleep", "asleep"} /\ Passed(t, count_next)

Step(t) ==
  \/ Look(t) \/ Sleep(t) \/ Last(t) \/ WakeAll(t) \/ Leave(t) \/ Notify(t)
  \/ Await(t) \/ AwaitSleep(t)
=============================================================================
