--------------------------- MODULE FutexMutexOpt ---------------------------
(***************************************************************************)
(* The futex mutex of mutex.h that is built when OPTMUTEX is defined       *)
(* (version 2): the one the first version of the queue is built with.  The *)
(* word u holds two bytes that are also accessed one by one: `locked', its *)
(* value modulo 256, and `contended', 256 when some thread may sleep.      *)
(* Variables and places are those of FutexMutex; the kernel and the        *)
(* bounded spins are modelled as there.                                    *)
(***************************************************************************)
EXTENDS Integers

CONSTANT Threads

VARIABLES u, pc, timed, retval, leaked

V1 == INSTANCE FutexMutex

Goto(t, from, to) == V1!Goto(t, from, to)

Locked    == u % 256
Contended == u - Locked

LockFast(t) ==
  /\ Goto(t, "lock", "held")
  /\ Locked = 0 /\ u' = Contended + 1
  /\ timed' = timed \ {t}
  /\ UNCHANGED <<retval, leaked>>

LockContended(t) ==
  /\ Goto(t, "lock", "retake")
  /\ Locked = 1
  /\ UNCHANGED <<u, timed, retval, leaked>>

Sleep(t, looks) ==
  /\ Goto(t, "wait", IF u = 257 THEN "asleep" ELSE "retake")
  /\ retval' = [retval EXCEPT ![t] = IF u # 257 /\ looks THEN "-1" ELSE "0"]
  /\ UNCHANGED <<u, timed, leaked>>

\* xchg_32(&m->m.u, 257) & 1
Retake(t) ==
  LET takes == Locked = 0
      fails == V1!Fails(t)
  IN /\ u' = 257
     /\ Goto(t, "retake", IF fails THEN "out" ELSE IF takes THEN "held" ELSE "wait")
     /\ leaked' = (leaked \/ (fails /\ takes))
     /\ timed' = IF fails \/ takes THEN timed \ {t} ELSE timed
     /\ UNCHANGED retval

TryLock(t) ==
  /\ Goto(t, "out", IF Locked = 0 THEN "held" ELSE "out")
  /\ u' = Contended + 1
  /\ UNCHANGED <<timed, retval, leaked>>

\* Locked and not contended is one exchange; otherwise `locked' alone is
\* cleared, in a step of its own.
Unlock(t) ==
  /\ Goto(t, "held", IF u = 1 THEN "out" ELSE "release")
  /\ u' = IF u = 1 THEN 0 ELSE u
  /\ UNCHANGED <<timed, retval, leaked>>

Release(t) ==
  /\ Goto(t, "release", "handoff")
  /\ u' = Contended
  /\ UNCHANGED <<timed, retval, leaked>>

HandedOff(t) ==
  /\ Goto(t, "handoff", "out")
  /\ Locked = 1
  /\ UNCHANGED <<u, timed, retval, leaked>>

SpunOut(t) ==
  /\ Goto(t, "handoff", "clear")
  /\ Locked = 0
  /\ UNCHANGED <<u, timed, retval, leaked>>

\* Mutant: the bit is subtracted, as if nobody else cleared it.
ClearContendedTwice(t) ==
  /\ Goto(t, "clear", "wake")
  /\ u' = u - 256
  /\ UNCHANGED <<timed, retval, leaked>>

\* Mutant: the whole word is stored, not the byte.
ClearWord(t) ==
  /\ Goto(t, "clear", "wake")
  /\ u' = 0
  /\ UNCHANGED <<timed, retval, leaked>>

\* By now the lock may have a new holder, and new sleepers.
ClearContended(t) ==
  /\ Goto(t, "clear", "wake")
  /\ u' = Locked
  /\ UNCHANGED <<timed, retval, leaked>>

Wake(t) ==
  /\ pc[t] = "wake"
  /\ V1!WakeOne(t)
  /\ UNCHANGED <<u, timed, leaked>>

MutexStep(t, looks) ==
  \/ LockFast(t) \/ LockContended(t) \/ Sleep(t, looks) \/ Retake(t) \/ Release(t)
  \/ HandedOff(t) \/ SpunOut(t) \/ ClearContended(t) \/ Wake(t)
=============================================================================
