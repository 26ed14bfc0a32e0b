----------------------------- MODULE SeqBarrier -----------------------------
(***************************************************************************)
(* The pool barrier and the fast barrier of mutex.h.  A thread reads seq,  *)
(* adds itself to count, and waits for seq to change; the one that makes   *)
(* the group full resets count and moves seq on in one 64 bit store.  The  *)
(* fast barrier spins first and keeps a flag in the low byte of seq that   *)
(* says that somebody sleeps: seq stands here for the other bytes.         *)
(*                                                                         *)
(* refcount, 1 plus the threads inside, lets pool_barrier_destroy wait     *)
(* for the last of them to leave.                                          *)
(***************************************************************************)
EXTENDS Integers, FiniteSets

CONSTANTS Threads, Mod

VARIABLES
  seq, flag, count, refcount,   \* the barrier
  pc,       \* thread -> where it is
  mine,     \* thread -> what it last read of seq, or of refcount
  calls,    \* thread -> calls of barrier_wait it has made
  setup,    \* which barrier it is, and for how many threads
  mixed     \* history: a thread joined a group after seq had left what it read

words  == <<seq, flag, count, refcount>>
locals == <<mine, calls>>

Fast  == setup.kind = "fast"

\* Mutant: one thread too few.
TotalOneLess == setup.count - 2

\* One less than the threads that make a group.
Total == setup.count - 1

Init ==
  /\ seq = 0 /\ flag = 0 /\ count = 0 /\ refcount = 1
  /\ mixed = FALSE

Goto(t, from, to) == pc[t] = from /\ pc' = [pc EXCEPT ![t] = to]

\* Mutant: the reference is forgotten.
EnterUncounted(t) ==
  /\ Goto(t, "idle", "read")
  /\ calls' = [calls EXCEPT ![t] = @ + 1]
  /\ UNCHANGED <<words, mine, mixed>>

Enter(t) ==
  /\ Goto(t, "idle", "read")
  /\ refcount' = refcount + 1
  /\ calls' = [calls EXCEPT ![t] = @ + 1]
  /\ UNCHANGED <<seq, flag, count, mine, mixed>>

ReadSeq(t) ==
  /\ Goto(t, "read", "count")
  /\ mine' = [mine EXCEPT ![t] = seq]
  /\ UNCHANGED <<words, calls, mixed>>

\* atomic_xadd(&b->count, 1)
CountIn(t) ==
  /\ Goto(t, "count", IF count < Total THEN "gate" ELSE IF count = Total THEN "last" ELSE "slow")
  /\ count' = count + 1
  /\ mixed' = (mixed \/ (count < Total /\ seq # mine[t]))
  /\ UNCHANGED <<seq, flag, refcount, locals>>

Gate(t) ==
  /\ Goto(t, "gate", IF seq # mine[t] THEN "leave" ELSE IF Fast THEN "mark" ELSE "sleep")
  /\ UNCHANGED <<words, locals, mixed>>

\* Too slow: the group was full before t was counted.  It waits for the next.
Slow(t) ==
  /\ Goto(t, "slow", "slowsleep")
  /\ flag' = IF Fast THEN 1 ELSE flag
  /\ UNCHANGED <<seq, count, refcount, locals, mixed>>

\* The fast barrier says that somebody is going to sleep.
Mark(t) ==
  /\ Goto(t, "mark", "sleep")
  /\ flag' = 1
  /\ UNCHANGED <<seq, count, refcount, locals, mixed>>

\* FUTEX_WAIT on seq, as t has read it, with the flag set in the fast barrier.
SeqIsMine(t) == seq = mine[t] /\ (Fast => flag = 1)

Sleep(t) ==
  /\ \/ Goto(t, "sleep", IF SeqIsMine(t) THEN "asleep" ELSE "gate")
     \/ Goto(t, "slowsleep", IF SeqIsMine(t) THEN "slowasleep" ELSE "read")
  /\ UNCHANGED <<words, locals, mixed>>

\* Mutant: the pool barrier, too, wakes only those the flag speaks of.
LastByFlag(t) ==
  /\ Goto(t, "last", IF flag = 0 THEN "leave" ELSE "wake")
  /\ seq' = (seq + 1) % Mod /\ count' = 0 /\ flag' = 0
  /\ UNCHANGED <<refcount, locals, mixed>>

\* b->reset: count is 0 again and seq is the next one.
Last(t) ==
  /\ Goto(t, "last", IF Fast /\ flag = 0 THEN "leave" ELSE "wake")
  /\ seq' = (seq + 1) % Mod /\ count' = 0 /\ flag' = 0
  /\ UNCHANGED <<refcount, locals, mixed>>

WakeAll(t) ==
  /\ pc[t] = "wake"
  /\ pc' = [s \in Threads |-> CASE s = t -> "leave"
                                [] pc[s] = "asleep" -> "gate"
                                [] pc[s] = "slowasleep" -> "read"
                                [] OTHER -> pc[s]]
  /\ UNCHANGED <<words, locals, mixed>>

\* Mutant: the value after the subtraction is compared.
LeaveUnnoticed(t) ==
  /\ Goto(t, "leave", IF refcount = 2 THEN "notify" ELSE "idle")
  /\ refcount' = refcount - 1
  /\ UNCHANGED <<seq, flag, count, locals, mixed>>

Leave(t) ==
  /\ Goto(t, "leave", IF refcount = 1 THEN "notify" ELSE "idle")
  /\ refcount' = refcount - 1
  /\ UNCHANGED <<seq, flag, count, locals, mixed>>

\* FUTEX_WAKE of the destroying thread.
Notify(t) ==
  /\ pc[t] = "notify"
  /\ pc' = [s \in Threads |-> CASE s = t -> "idle"
                                [] pc[s] = "ended" -> "await"
                                [] OTHER -> pc[s]]
  /\ UNCHANGED <<words, locals, mixed>>

-----------------------------------------------------------------------------
(* pool_barrier_destroy and fast_barrier_destroy.                          *)

Destroy(t) ==
  /\ Goto(t, "idle", "await")
  /\ refcount' = refcount - 1
  /\ UNCHANGED <<seq, flag, count, locals, mixed>>

Await(t) ==
  /\ Goto(t, "await", IF refcount = 0 THEN "destroyed" ELSE "ending")
  /\ mine' = [mine EXCEPT ![t] = refcount]
  /\ UNCHANGED <<words, calls, mixed>>

AwaitSleep(t) ==
  /\ Goto(t, "ending", IF refcount = mine[t] THEN "ended" ELSE "await")
  /\ UNCHANGED <<words, locals, mixed>>

-----------------------------------------------------------------------------
\* Let through: counted into a group whose seq has passed.
Released(t) ==
  \/ pc[t] \in {"wake", "leave"}
  \/ pc[t] \in {"gate", "mark", "sleep", "asleep"} /\ seq # mine[t]

Step(t) ==
  \/ ReadSeq(t) \/ CountIn(t) \/ Gate(t) \/ Slow(t) \/ Mark(t) \/ Sleep(t) \/ Last(t)
  \/ WakeAll(t) \/ Leave(t) \/ Notify(t) \/ Await(t) \/ AwaitSleep(t)
=============================================================================
