----------------------------- MODULE FutexMutex -----------------------------
(***************************************************************************)
(* The futex mutex of mutex.h that is built when neither POSIXMUTEX nor    *)
(* OPTMUTEX is defined (version 1).  The word u is 0 when the mutex is     *)
(* free, 1 when it is locked, 2 when it is locked and threads may sleep on *)
(* it.  pc[t] is where thread t is in its call; "out" and "held" are       *)
(* between calls, without and with the lock.                               *)
(*                                                                         *)
(* FUTEX_WAIT compares and sleeps in one step of the kernel; FUTEX_WAKE    *)
(* picks any sleeper; no signal handler ends a wait.  A bounded spin is    *)
(* the two ways out of it: an attempt succeeds, or the last one fails.     *)
(***************************************************************************)
EXTENDS Integers

CONSTANT Threads

VARIABLES
  u,        \* the futex word
  pc,       \* thread -> where it is in a call of the mutex
  timed,    \* threads that are in mutex_timedlock
  retval,   \* thread -> what the last futex call of its wait returned
  leaked    \* history: a thread took the lock in a call that then failed

mutexVars == <<u, pc, timed, retval, leaked>>

Results == {"0", "-1", "ETIMEDOUT"}

MutexInit ==
  /\ u = 0
  /\ pc = [t \in Threads |-> "out"]
  /\ timed = {}
  /\ retval = [t \in Threads |-> "0"]
  /\ leaked = FALSE

Goto(t, from, to) == pc[t] = from /\ pc' = [pc EXCEPT ![t] = to]

Sleepers == {t \in Threads : pc[t] = "asleep"}

\* FUTEX_WAKE of one thread, by t whose call ends with it.
WakeOne(t) ==
  \/ /\ Sleepers = {}
     /\ pc' = [pc EXCEPT ![t] = "out"]
     /\ UNCHANGED retval
  \/ \E s \in Sleepers :
       /\ pc' = [pc EXCEPT ![t] = "out", ![s] = "retake"]
       /\ retval' = [retval EXCEPT ![s] = "0"]

-----------------------------------------------------------------------------
(* mutex_lock and mutex_timedlock.                                         *)

Lock(t, isTimed) ==
  /\ Goto(t, "out", "lock")
  /\ timed' = IF isTimed THEN timed \cup {t} ELSE timed
  /\ retval' = [retval EXCEPT ![t] = "0"]
  /\ UNCHANGED <<u, leaked>>

LockFast(t) ==
  /\ Goto(t, "lock", "held")
  /\ u = 0 /\ u' = 1
  /\ timed' = timed \ {t}
  /\ UNCHANGED <<retval, leaked>>

\* The last attempt failed: c is what it saw.
LockContended(t) ==
  /\ Goto(t, "lock", IF u = 1 THEN "retake" ELSE "wait")
  /\ u # 0
  /\ UNCHANGED <<u, timed, retval, leaked>>

\* FUTEX_WAIT: EAGAIN when the word is not what is waited on.  `looks' tells
\* whether the caller looks at what it returned.
Sleep(t, looks) ==
  /\ Goto(t, "wait", IF u = 2 THEN "asleep" ELSE "retake")
  /\ retval' = [retval EXCEPT ![t] = IF u # 2 /\ looks THEN "-1" ELSE "0"]
  /\ UNCHANGED <<u, timed, leaked>>

TimedOut(t) ==
  /\ Goto(t, "asleep", "retake")
  /\ retval' = [retval EXCEPT ![t] = "ETIMEDOUT"]
  /\ UNCHANGED <<u, timed, leaked>>

\* mutex_timedlock leaves its loop when the wait failed, whatever the
\* exchange that comes after the wait did.
Fails(t) == t \in timed /\ retval[t] # "0"

\* c = xchg_32(&m->m.u, 2)
Retake(t) ==
  /\ u' = 2
  /\ Goto(t, "retake", IF Fails(t) THEN "out" ELSE IF u = 0 THEN "held" ELSE "wait")
  /\ leaked' = (leaked \/ (Fails(t) /\ u = 0))
  /\ timed' = IF Fails(t) \/ u = 0 THEN timed \ {t} ELSE timed
  /\ UNCHANGED retval

TryLock(t) ==
  /\ Goto(t, "out", IF u = 0 THEN "held" ELSE "out")
  /\ u' = IF u = 0 THEN 1 ELSE u
  /\ UNCHANGED <<timed, retval, leaked>>

-----------------------------------------------------------------------------
(* mutex_unlock.                                                           *)

Unlock(t) ==
  /\ Goto(t, "held", IF u = 1 THEN "out" ELSE "handoff")
  /\ u' = 0
  /\ UNCHANGED <<timed, retval, leaked>>

\* Mutant: the new holder is not told of sleepers.
HandedOffUnmarked(t) ==
  /\ Goto(t, "handoff", "out")
  /\ u # 0
  /\ UNCHANGED <<u, timed, retval, leaked>>

\* Somebody took the lock while the caller spun: it is marked contended,
\* because there may be sleepers nobody else knows of.
HandedOff(t) ==
  /\ Goto(t, "handoff", "out")
  /\ u # 0 /\ u' = 2
  /\ UNCHANGED <<timed, retval, leaked>>

SpunOut(t) ==
  /\ Goto(t, "handoff", "wake")
  /\ u = 0
  /\ UNCHANGED <<u, timed, retval, leaked>>

Wake(t) ==
  /\ pc[t] = "wake"
  /\ WakeOne(t)
  /\ UNCHANGED <<u, timed, leaked>>

\* What a thread inside a call of the mutex does next.
MutexStep(t, looks) ==
  \/ LockFast(t) \/ LockContended(t) \/ Sleep(t, looks) \/ Retake(t)
  \/ HandedOff(t) \/ SpunOut(t) \/ Wake(t)
=============================================================================
