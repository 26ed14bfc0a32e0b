------------------------------ MODULE Barriers ------------------------------
(***************************************************************************)
(* The three barriers of mutex.h under the threads that use them: each     *)
(* calls barrier_wait so many times, and one thread destroys the barrier   *)
(* when everybody has been let through for the last time, and others may   *)
(* still be on their way out.  setup, chosen in Init, says which barrier   *)
(* it is, who uses it and how often.                                       *)
(***************************************************************************)
EXTENDS Integers, FiniteSets

CONSTANTS
  Threads,
  Mod,       \* one more than the largest unsigned
  Setups     \* [kind, count, users, rounds]: the barrier and its use

ASSUME BarrierAssumption ==
  /\ IsFiniteSet(Threads) /\ 2 * Cardinality(Threads) < Mod
  /\ Mod \in Nat /\ Mod % 2 = 0
  /\ \A s \in Setups : /\ s.kind \in {"pool", "fast", "ticket"} /\ s.count \in Nat \ {0}
                       /\ s.users \subseteq Threads /\ s.rounds \in Nat

VARIABLES
  seq, flag, count, refcount,        \* pool_barrier_t, fast_barrier_t
  count_next, count_in, count_out,   \* ticket_barrier_t
  pc, mine, seen, calls, setup, mixed

seqWords    == <<seq, flag, count, refcount, mixed>>
ticketWords == <<count_next, count_in, count_out, seen>>
vars        == <<seqWords, ticketWords, pc, mine, calls, setup>>

S == INSTANCE SeqBarrier
T == INSTANCE TicketBarrier

Ticket == setup.kind = "ticket"

Init ==
  /\ setup \in Setups
  /\ S!Init /\ T!Init
  /\ pc = [t \in Threads |-> "idle"]
  /\ mine = [t \in Threads |-> 0]
  /\ seen = [t \in Threads |-> 0]
  /\ calls = [t \in Threads |-> 0]

Released(t) == IF Ticket THEN T!Released(t) ELSE S!Released(t)

\* Between calls; what "notify" still does needs only the address.
Outside(t) == pc[t] \in {"idle", "notify", "await", "ending", "ended", "destroyed"}

Enter(t) ==
  /\ t \in setup.users /\ calls[t] < setup.rounds
  /\ IF Ticket THEN T!Enter(t) /\ UNCHANGED seqWords
     ELSE S!Enter(t) /\ UNCHANGED ticketWords
  /\ UNCHANGED setup

\* A program destroys a barrier once, when nobody will wait on it any more.
Destroy(t) ==
  /\ t \in setup.users
  /\ \A s \in setup.users : /\ calls[s] = setup.rounds
                            /\ Outside(s) \/ Released(s)
                            /\ pc[s] \notin {"await", "ending", "ended", "destroyed"}
  /\ IF Ticket THEN T!Destroy(t) /\ UNCHANGED seqWords
     ELSE S!Destroy(t) /\ UNCHANGED ticketWords
  /\ UNCHANGED setup

Step(t) ==
  /\ \/ Ticket /\ T!Step(t) /\ UNCHANGED seqWords
     \/ ~Ticket /\ S!Step(t) /\ UNCHANGED ticketWords
  /\ UNCHANGED setup

Next == \E t \in Threads : Enter(t) \/ Step(t) \/ Destroy(t)

Spec     == Init /\ [][Next]_vars
FairSpec == Spec /\ \A t \in Threads : WF_vars(Step(t))

-----------------------------------------------------------------------------
(* Properties.                                                             *)

Places == {"idle", "read", "count", "gate", "mark", "sleep", "asleep", "slow",
           "slowsleep", "slowasleep", "last", "wake", "leave", "notify", "look",
           "await", "ending", "ended", "destroyed"}

\* The types of the variables: in particular the counters that are decremented
\* do not wrap.
TypeOK ==
  /\ setup \in Setups
  /\ seq \in 0..(Mod - 1) /\ flag \in {0, 1} /\ count \in Nat
  /\ refcount \in 0..(Cardinality(Threads) + 1)
  /\ {count_next, count_in, count_out} \subseteq 0..(Mod - 1)
  /\ pc \in [Threads -> Places]
  /\ mine \in [Threads -> 0..(Mod - 1)] /\ seen \in [Threads -> 0..(Mod - 1)]
  /\ calls \in [Threads -> Nat] /\ mixed \in BOOLEAN

Inside == {t \in Threads : ~Outside(t) /\ ~Released(t)}
Free   == {t \in Threads : ~Outside(t) /\ Released(t)}
Closed == \E t \in Threads : pc[t] = "destroyed"

\* A barrier that exactly as many threads use as a group has never has a thread that joins a
\* group with an old seq: the pool and fast barriers are sound for them.
ExactUsersNeverMix == Cardinality(setup.users) = setup.count => ~mixed

Asleep(t) == pc[t] \in {"asleep", "slowasleep", "ended"}

\* No lost wakeup.  When everyone is asleep or between calls, those asleep are
\* too few for a group, nobody who was let through is among them, and no
\* destroyer is: the flag of the fast barrier, cleared by one group and set
\* late by another's sleeper, never hides a sleeper.
NobodyStranded ==
  (\A t \in Threads : Asleep(t) \/ pc[t] \in {"idle", "destroyed"}) /\ ~mixed =>
    /\ Free = {} /\ Cardinality(Inside) < setup.count
    /\ \A t \in Threads : pc[t] # "ended"

\* A destroyer returns, although the threads it waits for wake it only if they
\* find themselves the last.
DestroyReturns == \A t \in Threads : (pc[t] = "await") ~> (pc[t] = "destroyed")

\* Threads go through in full groups that have all arrived, in every round
\* and with more threads around than a group needs, and the barrier is
\* destroyed when the last has left; until, in the pool and fast barriers, a
\* thread joins a group with an old seq.
Abstract == INSTANCE BarrierSpec WITH
  Counts <- {s.count : s \in Setups}, total <- setup.count,
  inside <- Inside, free <- Free, closed <- Closed

ImplementsBarrier ==
  Abstract!Init /\ [][mixed' \/ Abstract!Next]_<<Inside, Free, Closed>>
=============================================================================
