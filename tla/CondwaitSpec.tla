---------------------------- MODULE CondwaitSpec ----------------------------
(***************************************************************************)
(* What a darc_condwait promises: a value under a mutex and a condition    *)
(* variable, written over the mutex and the condition variable POSIX       *)
(* describes, as mutex.h does when POSIXCONDWAIT is defined.  Releasing    *)
(* the mutex and beginning to wait is one step, a broadcast lets out       *)
(* everyone who waits, a wait may also end for no reason.                  *)
(***************************************************************************)
EXTENDS Integers

CONSTANTS Threads, Values, Initial, NoValue, NoOne

VARIABLES
  value,    \* what the callers wait to see changed
  owner,    \* who holds the mutex
  place,    \* thread -> where it is in its call
  op, arg   \* thread -> which call it is in, and for which value

vars == <<value, owner, place, op, arg>>

Waiting == {t \in Threads : place[t] = "waiting"}

Waits == {"wait", "timedwait"}
Posts == {"signal", "broadcast"}

Init ==
  /\ value = Initial
  /\ owner = NoOne
  /\ place = [t \in Threads |-> "idle"]
  /\ op = [t \in Threads |-> "none"]
  /\ arg = [t \in Threads |-> NoValue]

Goto(t, from, to) == place[t] = from /\ place' = [place EXCEPT ![t] = to]

\* darc_condwait_signal and darc_condwait_broadcast, which leave the value
\* alone, do not take the mutex.
NoLock(o, v) == o \in Posts /\ v = NoValue

Call(t, o, v) ==
  /\ op[t] = "none" /\ op' = [op EXCEPT ![t] = o]
  /\ arg' = [arg EXCEPT ![t] = v]
  /\ Goto(t, "idle", IF NoLock(o, v) THEN "posting" ELSE "entering")
  /\ UNCHANGED <<value, owner>>

Acquire(t) ==
  /\ owner = NoOne /\ owner' = t
  /\ place[t] \in {"idle", "entering", "woken"}
  /\ UNCHANGED <<value, place, op, arg>>

BeginWait(t) ==
  /\ owner = t /\ owner' = NoOne
  /\ op[t] \in Waits /\ arg[t] \in {NoValue, value}
  /\ Goto(t, "entering", "waiting")
  /\ UNCHANGED <<value, op, arg>>

NoWait(t) ==
  /\ op[t] \in Waits /\ arg[t] \notin {NoValue, value}
  /\ owner = t
  /\ Goto(t, "entering", "leaving")
  /\ UNCHANGED <<value, owner, op, arg>>

\* Signalled, out of time, or for no reason, some of them at once.
Woken(S) ==
  /\ S \subseteq Waiting
  /\ place' = [s \in Threads |-> IF s \in S THEN "woken" ELSE place[s]]
  /\ UNCHANGED <<value, owner, op, arg>>

WakeAll(t, to) ==
  place' = [s \in Threads |->
              IF s = t THEN to ELSE IF s \in Waiting THEN "woken" ELSE place[s]]

Post(t) ==
  /\ op[t] \in Posts
  /\ \/ place[t] = "posting"
     \/ place[t] = "entering" /\ owner = t
  /\ \/ op[t] = "signal" /\ Goto(t, place[t], "leaving")
     \/ op[t] = "signal" /\ \E s \in Waiting :
          place' = [place EXCEPT ![t] = "leaving", ![s] = "woken"]
     \/ op[t] = "broadcast" /\ WakeAll(t, "leaving")
  /\ value' = IF arg[t] = NoValue THEN value ELSE arg[t]
  /\ UNCHANGED <<owner, op, arg>>

SetValue(t) ==
  /\ op[t] = "setvalue" /\ owner = t
  /\ Goto(t, "entering", "leaving")
  /\ value' = arg[t]
  /\ UNCHANGED <<owner, op, arg>>

Resume(t) ==
  /\ op[t] \in Waits /\ owner = t
  /\ Goto(t, "woken", "leaving")
  /\ UNCHANGED <<value, owner, op, arg>>

Release(t) ==
  /\ owner = t /\ owner' = NoOne
  /\ place[t] \in {"idle", "leaving"}
  /\ UNCHANGED <<value, place, op, arg>>

Return(t) ==
  /\ op[t] # "none" /\ op' = [op EXCEPT ![t] = "none"]
  /\ arg' = [arg EXCEPT ![t] = NoValue]
  /\ owner # t
  /\ Goto(t, "leaving", "idle")
  /\ UNCHANGED <<value, owner>>

Step(t) ==
  \/ Acquire(t) \/ BeginWait(t) \/ NoWait(t) \/ Post(t)
  \/ SetValue(t) \/ Resume(t) \/ Release(t) \/ Return(t)

Next ==
  \/ \E S \in SUBSET Threads : Woken(S)
  \/ \E t \in Threads :
       \/ Step(t)
       \/ \E o \in Waits \cup Posts \cup {"setvalue"}, v \in Values \cup {NoValue} : Call(t, o, v)

Spec == Init /\ [][Next]_vars
=============================================================================
