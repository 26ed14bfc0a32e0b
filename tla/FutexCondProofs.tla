--------------------------- MODULE FutexCondProofs ---------------------------
(***************************************************************************)
(* The variables of FutexCond keep their types, and both builds of the     *)
(* futex mutex exclude, for any threads and any calls: also while          *)
(* condition waiters time out, are woken and are moved to the mutex.       *)
(* No wakeup is lost: not one of the mutex, not a broadcast of version 1,  *)
(* not a signal given under the mutex.                                     *)
(***************************************************************************)
EXTENDS FutexCond, TLAPS

Locking   == {"lock", "wait", "asleep", "retake"}
Unlocking == {"held", "release", "handoff", "clear", "wake", "out"}

\* Where a thread can be in the mutex, given where it is in the calls above.
CallShapeOf(t) ==
  /\ at[t] = "idle" => op[t] = "none" /\ arg[t] = NoValue /\ pc[t] = "out"
  /\ at[t] = "enter" =>
       /\ op[t] \in Waits \cup Posts \cup {"setvalue"}
       /\ op[t] \notin Waits => arg[t] # NoValue
       /\ pc[t] \in {"lock", "wait", "asleep", "retake", "held"}
  /\ at[t] \in {"parting", "cvsleep", "relock", "requeue", "cmprequeue"} => op[t] \in Waits
  /\ at[t] = "parting" => pc[t] \in Unlocking
  /\ at[t] = "cvsleep" => pc[t] = "out"
  /\ at[t] = "relock" => pc[t] \in {"wait", "asleep", "retake", "held"}
  /\ at[t] \in {"requeue", "cmprequeue"} => pc[t] = "held"
  /\ at[t] = "post" => op[t] \in Posts /\ arg[t] = NoValue /\ pc[t] = "out"
  /\ at[t] \in {"flag", "cvwake"} => op[t] \in Posts /\ pc[t] \in {"out", "held"}
  /\ at[t] = "leave" =>
       /\ op[t] # "none"
       /\ op[t] \in Direct => arg[t] = NoValue
       /\ op[t] \notin Direct => pc[t] \in Unlocking
  /\ t \in timed => op[t] = "timedlock" /\ at[t] = "leave" /\ pc[t] \in Locking
  /\ at[t] = "parting" /\ HasLock(t) => arg[t] \in {NoValue, value}
  /\ t \in due \cup owed => Blocked(t) \/ at[t] = "relock"
  /\ op[t] \in Direct => at[t] = "leave"
  /\ pc[t] \in {"release", "clear"} => version = 2

CallShape == \A t \in Threads : CallShapeOf(t)

ExclusiveInv == TypeOK /\ Exclusive /\ CallShape

MutexTypes ==
  /\ u \in (IF version = 1 THEN {0, 1, 2} ELSE {0, 1, 256, 257})
  /\ pc \in [Threads -> PcPlaces]
  /\ timed \subseteq Threads /\ leaked \in BOOLEAN
  /\ retval \in [Threads -> V1!Results]

\* What a step of thread t inside the mutex does, seen from above it.
MutexMove(t) ==
  /\ MutexTypes' /\ Exclusive' /\ timed' \subseteq timed
  /\ \A s \in Threads \ {t} :
       pc'[s] = pc[s] \/ (pc[s] = "asleep" /\ pc'[s] = "retake")
  /\ pc[t] # "out"
  /\ pc[t] \in Locking =>
       pc'[t] \in {"wait", "asleep", "retake", "held"} \/ (t \in timed /\ pc'[t] = "out")
  /\ pc[t] \in Locking /\ t \in timed' => pc'[t] \in Locking
  /\ pc[t] \notin Locking => pc'[t] \in Unlocking \ {"held"}
  /\ pc'[t] \in {"release", "clear"} => version = 2
  /\ pc'[t] = "release" => pc[t] = "held"

-----------------------------------------------------------------------------
LEMMA MutexStepMoves ==
  ASSUME TypeOK, Exclusive, NEW t \in Threads, MutexStep(t)
  PROVE  MutexMove(t) /\ pc[t] # "held"
<1> DEFINE looks == t \in timed \/ Careless(t)
<1>0. version' = version
  BY DEF MutexStep, callVars
<1> USE <1>0 DEF TypeOK, MutexTypes, MutexMove, Exclusive, Taken, HasLock, PcPlaces, Locking, Unlocking, V1!Results
<1> DEFINE Moved == MutexMove(t) /\ pc[t] # "held"
<1> HIDE DEF looks
<1>1. CASE version = 1
  <2>1. ASSUME V1!LockFast(t) PROVE Moved
    BY <1>1, <2>1 DEF V1!LockFast, V1!Goto
  <2>2. ASSUME V1!LockContended(t) PROVE Moved
    BY <1>1, <2>2 DEF V1!LockContended, V1!Goto
  <2>3. ASSUME V1!Sleep(t, looks) PROVE Moved
    BY <1>1, <2>3 DEF V1!Sleep, V1!Goto
  <2>4. ASSUME V1!Retake(t) PROVE Moved
    <3>1. ASSUME V1!Fails(t), u = 0 PROVE Moved
      <4>1. leaked' = TRUE /\ u' = 2 /\ pc' = [pc EXCEPT ![t] = "out"]
        BY <2>4, <3>1 DEF V1!Retake, V1!Goto
      <4>2. t \in timed /\ timed' = timed \ {t} /\ pc[t] = "retake" /\ retval' = retval
        BY <2>4, <3>1 DEF V1!Retake, V1!Goto, V1!Fails
      <4> QED BY <1>1, <3>1, <4>1, <4>2
    <3>3. ASSUME V1!Fails(t), u # 0 PROVE Moved
      <4>1. leaked' = leaked /\ u' = 2 /\ pc' = [pc EXCEPT ![t] = "out"]
        BY <2>4, <3>3 DEF V1!Retake, V1!Goto
      <4>2. t \in timed /\ timed' = timed \ {t} /\ pc[t] = "retake" /\ retval' = retval
        BY <2>4, <3>3 DEF V1!Retake, V1!Goto, V1!Fails
      <4> QED BY <1>1, <3>3, <4>1, <4>2
    <3>2. CASE ~V1!Fails(t)
      BY <1>1, <2>4, <3>2 DEF V1!Retake, V1!Goto
    <3> QED BY <3>1, <3>2, <3>3
  <2>5. ASSUME V1!HandedOff(t) PROVE Moved
    BY <1>1, <2>5 DEF V1!HandedOff, V1!Goto
  <2>6. ASSUME V1!SpunOut(t) PROVE Moved
    BY <1>1, <2>6 DEF V1!SpunOut, V1!Goto
  <2>7. ASSUME V1!Wake(t) PROVE Moved
    BY <1>1, <2>7 DEF V1!Wake, V1!Goto, V1!WakeOne, V1!Sleepers
  <2>8. V1!MutexStep(t, looks)
    BY <1>1 DEF MutexStep, looks
  <2> HIDE DEF Moved
  <2>9. Moved
    BY <2>1, <2>2, <2>3, <2>4, <2>5, <2>6, <2>7, <2>8 DEF V1!MutexStep
  <2> QED BY <2>9 DEF Moved
<1>2. CASE version = 2
  <2>1. ASSUME V2!LockFast(t) PROVE Moved
    BY <1>2, <2>1 DEF V2!LockFast, V2!Locked, V2!Contended, V2!Goto, V2!V1!Goto
  <2>2. ASSUME V2!LockContended(t) PROVE Moved
    BY <1>2, <2>2 DEF V2!LockContended, V2!Locked, V2!Contended, V2!Goto, V2!V1!Goto
  <2>3. ASSUME V2!Sleep(t, looks) PROVE Moved
    BY <1>2, <2>3 DEF V2!Sleep, V2!Locked, V2!Contended, V2!Goto, V2!V1!Goto
  <2>4. ASSUME V2!Retake(t) PROVE Moved
    <3>1. ASSUME V2!V1!Fails(t), u % 256 = 0 PROVE Moved
      <4>1. leaked' = TRUE /\ u' = 257 /\ pc' = [pc EXCEPT ![t] = "out"]
        BY <2>4, <3>1 DEF V2!Retake, V2!Goto, V2!V1!Goto, V2!Locked
      <4>2. t \in timed /\ timed' = timed \ {t} /\ pc[t] = "retake" /\ retval' = retval
        BY <2>4, <3>1 DEF V2!Retake, V2!Goto, V2!V1!Goto, V2!V1!Fails
      <4> QED BY <1>2, <3>1, <4>1, <4>2
    <3>3. ASSUME V2!V1!Fails(t), u % 256 # 0 PROVE Moved
      <4>1. leaked' = leaked /\ u' = 257 /\ pc' = [pc EXCEPT ![t] = "out"]
        BY <2>4, <3>3 DEF V2!Retake, V2!Goto, V2!V1!Goto, V2!Locked
      <4>2. t \in timed /\ timed' = timed \ {t} /\ pc[t] = "retake" /\ retval' = retval
        BY <2>4, <3>3 DEF V2!Retake, V2!Goto, V2!V1!Goto, V2!V1!Fails
      <4> QED BY <1>2, <3>3, <4>1, <4>2
    <3>2. CASE ~V2!V1!Fails(t)
      BY <1>2, <2>4, <3>2 DEF V2!Retake, V2!Locked, V2!Contended, V2!Goto, V2!V1!Goto
    <3> QED BY <3>1, <3>2, <3>3
  <2>5. ASSUME V2!Release(t) PROVE Moved
    BY <1>2, <2>5 DEF V2!Release, V2!Locked, V2!Contended, V2!Goto, V2!V1!Goto
  <2>6. ASSUME V2!HandedOff(t) PROVE Moved
    BY <1>2, <2>6 DEF V2!HandedOff, V2!Locked, V2!Contended, V2!Goto, V2!V1!Goto
  <2>7. ASSUME V2!SpunOut(t) PROVE Moved
    BY <1>2, <2>7 DEF V2!SpunOut, V2!Locked, V2!Contended, V2!Goto, V2!V1!Goto
  <2>8. ASSUME V2!ClearContended(t) PROVE Moved
    BY <1>2, <2>8 DEF V2!ClearContended, V2!Locked, V2!Contended, V2!Goto, V2!V1!Goto
  <2>9. ASSUME V2!Wake(t) PROVE Moved
    BY <1>2, <2>9 DEF V2!Wake, V2!Locked, V2!Contended, V2!Goto, V2!V1!Goto, V2!V1!WakeOne, V2!V1!Sleepers
  <2>10. V2!MutexStep(t, looks)
    BY <1>2 DEF MutexStep, looks
  <2> HIDE DEF Moved
  <2>11. Moved
    BY <2>1, <2>2, <2>3, <2>4, <2>5, <2>6, <2>7, <2>8, <2>9, <2>10 DEF V2!MutexStep
  <2> QED BY <2>11 DEF Moved
<1> QED BY <1>1, <1>2 DEF TypeOK

LEMMA UnlockMoves ==
  ASSUME TypeOK, Exclusive, NEW t \in Threads, Unlock(t), version' = version
  PROVE  MutexMove(t) /\ pc[t] = "held"
<1> USE DEF TypeOK, MutexTypes, MutexMove, Exclusive, Taken, HasLock, PcPlaces, Locking, Unlocking, V1!Results
<1>1. CASE version = 1
  BY <1>1 DEF Unlock, V1!Unlock, V1!Goto
<1>2. CASE version = 2
  BY <1>2 DEF Unlock, V2!Unlock, V2!Goto, V2!V1!Goto
<1> QED BY <1>1, <1>2

LEMMA TimedOutMoves ==
  ASSUME TypeOK, Exclusive, NEW t \in Threads, V1!TimedOut(t), version' = version
  PROVE  MutexMove(t) /\ pc[t] = "asleep"
BY DEF TypeOK, MutexTypes, MutexMove, Exclusive, Taken, HasLock, PcPlaces, Locking, Unlocking,
       V1!Results, V1!TimedOut, V1!Goto

\* Steps of the mutex alone.
LEMMA MoveKeeps ==
  ASSUME ExclusiveInv, NEW t \in Threads, MutexMove(t),
         pc[t] = "held" => at[t] \in {"parting", "leave"}, requeued' \subseteq requeued,
         UNCHANGED <<bcast, value, at, fresh, callVars, ghosts>>
  PROVE  ExclusiveInv'
<1>1. TypeOK'
  BY DEF ExclusiveInv, TypeOK, MutexMove, MutexTypes, callVars, ghosts
<1>2. CallShape'
  <2> SUFFICES ASSUME NEW s \in Threads
               PROVE  CallShapeOf(s)'
    BY DEF CallShape
  <2>1. CASE s = t
    BY <2>1 DEF ExclusiveInv, CallShape, CallShapeOf, MutexMove, Locking, Unlocking, HasLock, Blocked, callVars, ghosts, TypeOK, PcPlaces
  <2>2. CASE s # t
    BY <2>2 DEF ExclusiveInv, CallShape, CallShapeOf, MutexMove, Locking, Unlocking, HasLock, Blocked, callVars, ghosts, TypeOK
  <2> QED BY <2>1, <2>2
<1> QED BY <1>1, <1>2 DEF ExclusiveInv, MutexMove

-----------------------------------------------------------------------------
(* The other steps: none of them lets a thread into the mutex, but that a    *)
(* call may begin with an attempt to lock it.                                *)

LEMMA ReturnKeeps ==
  ASSUME ExclusiveInv, NEW t \in Threads, Return(t)
  PROVE  ExclusiveInv'
<1> USE DEF Return, Goto, mutexVars, callVars, ghosts
<1>1. TypeOK'
  BY DEF ExclusiveInv, CallShape, CallShapeOf, TypeOK, PcPlaces, AtPlaces, V1!Results, Waits, Posts
<1>2. Exclusive'
  BY DEF ExclusiveInv, CallShape, CallShapeOf, TypeOK, Exclusive, Taken, HasLock
<1>3. ASSUME NEW s \in Threads PROVE CallShapeOf(s)'
  BY DEF ExclusiveInv, CallShape, CallShapeOf, TypeOK, Exclusive, HasLock, Blocked, Locking, Unlocking, Waits, Posts, Direct
<1> QED BY <1>1, <1>2, <1>3 DEF ExclusiveInv, CallShape

LEMMA BeginWaitKeeps ==
  ASSUME ExclusiveInv, NEW t \in Threads, BeginWait(t)
  PROVE  ExclusiveInv'
<1> USE DEF BeginWait, Goto, mutexVars, callVars, ghosts
<1>1. TypeOK'
  BY DEF ExclusiveInv, CallShape, CallShapeOf, TypeOK, PcPlaces, AtPlaces, V1!Results, Waits, Posts
<1>2. Exclusive'
  BY DEF ExclusiveInv, CallShape, CallShapeOf, TypeOK, Exclusive, Taken, HasLock
<1>3. ASSUME NEW s \in Threads PROVE CallShapeOf(s)'
  BY DEF ExclusiveInv, CallShape, CallShapeOf, TypeOK, Exclusive, HasLock, Blocked, Locking, Unlocking, Waits, Posts, Direct
<1> QED BY <1>1, <1>2, <1>3 DEF ExclusiveInv, CallShape

LEMMA CvSleepKeeps ==
  ASSUME ExclusiveInv, NEW t \in Threads, CvSleep(t)
  PROVE  ExclusiveInv'
<1> USE DEF CvSleep, Goto, mutexVars, callVars, ghosts
<1>1. TypeOK'
  BY DEF ExclusiveInv, CallShape, CallShapeOf, TypeOK, PcPlaces, AtPlaces, V1!Results, Waits, Posts
<1>2. Exclusive'
  BY DEF ExclusiveInv, CallShape, CallShapeOf, TypeOK, Exclusive, Taken, HasLock
<1>3. ASSUME NEW s \in Threads PROVE CallShapeOf(s)'
  BY DEF ExclusiveInv, CallShape, CallShapeOf, TypeOK, Exclusive, HasLock, Blocked, Locking, Unlocking, Waits, Posts, Direct
<1> QED BY <1>1, <1>2, <1>3 DEF ExclusiveInv, CallShape

LEMMA CvAgainKeeps ==
  ASSUME ExclusiveInv, NEW t \in Threads, CvAgain(t)
  PROVE  ExclusiveInv'
<1> USE DEF CvAgain, CvReturn, Goto, mutexVars, callVars, ghosts
<1>1. TypeOK'
  BY DEF ExclusiveInv, CallShape, CallShapeOf, TypeOK, PcPlaces, AtPlaces, V1!Results, Waits, Posts
<1>2. Exclusive'
  BY DEF ExclusiveInv, CallShape, CallShapeOf, TypeOK, Exclusive, Taken, HasLock
<1>3. ASSUME NEW s \in Threads PROVE CallShapeOf(s)'
  BY DEF ExclusiveInv, CallShape, CallShapeOf, TypeOK, Exclusive, HasLock, Blocked, Locking, Unlocking, Waits, Posts, Direct
<1> QED BY <1>1, <1>2, <1>3 DEF ExclusiveInv, CallShape

LEMMA CvTimedOutKeeps ==
  ASSUME ExclusiveInv, NEW t \in Threads, CvTimedOut(t)
  PROVE  ExclusiveInv'
<1> USE DEF CvTimedOut, CvReturn, Goto, mutexVars, callVars, ghosts
<1>1. TypeOK'
  BY DEF ExclusiveInv, CallShape, CallShapeOf, TypeOK, PcPlaces, AtPlaces, V1!Results, Waits, Posts
<1>2. Exclusive'
  BY DEF ExclusiveInv, CallShape, CallShapeOf, TypeOK, Exclusive, Taken, HasLock
<1>3. ASSUME NEW s \in Threads PROVE CallShapeOf(s)'
  BY DEF ExclusiveInv, CallShape, CallShapeOf, TypeOK, Exclusive, HasLock, Blocked, Locking, Unlocking, Waits, Posts, Direct
<1> QED BY <1>1, <1>2, <1>3 DEF ExclusiveInv, CallShape

LEMMA RelockedKeeps ==
  ASSUME ExclusiveInv, NEW t \in Threads, Relocked(t)
  PROVE  ExclusiveInv'
<1> USE DEF Relocked, Goto, mutexVars, callVars, ghosts
<1>1. TypeOK'
  BY DEF ExclusiveInv, CallShape, CallShapeOf, TypeOK, PcPlaces, AtPlaces, V1!Results, Waits, Posts
<1>2. Exclusive'
  BY DEF ExclusiveInv, CallShape, CallShapeOf, TypeOK, Exclusive, Taken, HasLock
<1>3. ASSUME NEW s \in Threads PROVE CallShapeOf(s)'
  BY DEF ExclusiveInv, CallShape, CallShapeOf, TypeOK, Exclusive, HasLock, Blocked, Locking, Unlocking, Waits, Posts, Direct
<1> QED BY <1>1, <1>2, <1>3 DEF ExclusiveInv, CallShape

LEMMA RequeueKeeps ==
  ASSUME ExclusiveInv, NEW t \in Threads, Requeue(t)
  PROVE  ExclusiveInv'
<1> USE DEF Requeue, MoveSleepers, CvSleepers, Goto, mutexVars, callVars, ghosts
<1>1. TypeOK'
  BY DEF ExclusiveInv, CallShape, CallShapeOf, TypeOK, PcPlaces, AtPlaces, V1!Results, Waits, Posts
<1>2. Exclusive'
  BY DEF ExclusiveInv, CallShape, CallShapeOf, TypeOK, Exclusive, Taken, HasLock
<1>3. ASSUME NEW s \in Threads PROVE CallShapeOf(s)'
  BY DEF ExclusiveInv, CallShape, CallShapeOf, TypeOK, Exclusive, HasLock, Blocked, Locking, Unlocking, Waits, Posts, Direct
<1> QED BY <1>1, <1>2, <1>3 DEF ExclusiveInv, CallShape

LEMMA ReadSeqKeeps ==
  ASSUME ExclusiveInv, NEW t \in Threads, ReadSeq(t)
  PROVE  ExclusiveInv'
<1> USE DEF ReadSeq, Goto, mutexVars, callVars, ghosts
<1>1. TypeOK'
  BY DEF ExclusiveInv, CallShape, CallShapeOf, TypeOK, PcPlaces, AtPlaces, V1!Results, Waits, Posts
<1>2. Exclusive'
  BY DEF ExclusiveInv, CallShape, CallShapeOf, TypeOK, Exclusive, Taken, HasLock
<1>3. ASSUME NEW s \in Threads PROVE CallShapeOf(s)'
  BY DEF ExclusiveInv, CallShape, CallShapeOf, TypeOK, Exclusive, HasLock, Blocked, Locking, Unlocking, Waits, Posts, Direct
<1> QED BY <1>1, <1>2, <1>3 DEF ExclusiveInv, CallShape

LEMMA CmpRequeueKeeps ==
  ASSUME ExclusiveInv, NEW t \in Threads, CmpRequeue(t)
  PROVE  ExclusiveInv'
<1> USE DEF CmpRequeue, MoveSleepers, CvSleepers, Goto, mutexVars, callVars, ghosts
<1>1. TypeOK'
  <2>1. CASE t \in fresh
    BY <2>1 DEF ExclusiveInv, TypeOK, PcPlaces, AtPlaces
  <2>2. CASE t \notin fresh
    BY <2>2 DEF ExclusiveInv, TypeOK, PcPlaces, AtPlaces
  <2> QED BY <2>1, <2>2
<1>2. Exclusive'
  BY DEF ExclusiveInv, CallShape, CallShapeOf, TypeOK, Exclusive, Taken, HasLock
<1>3. ASSUME NEW s \in Threads PROVE CallShapeOf(s)'
  BY DEF ExclusiveInv, CallShape, CallShapeOf, TypeOK, Exclusive, HasLock, Blocked, Locking, Unlocking, Waits, Posts, Direct
<1> QED BY <1>1, <1>2, <1>3 DEF ExclusiveInv, CallShape

LEMMA PostKeeps ==
  ASSUME ExclusiveInv, NEW t \in Threads, Post(t)
  PROVE  ExclusiveInv'
<1> USE DEF Post, Waiting, Goto, mutexVars, callVars, ghosts
<1>1. TypeOK'
  BY DEF ExclusiveInv, CallShape, CallShapeOf, TypeOK, PcPlaces, AtPlaces, V1!Results, Waits, Posts
<1>2. Exclusive'
  BY DEF ExclusiveInv, CallShape, CallShapeOf, TypeOK, Exclusive, Taken, HasLock
<1>3. ASSUME NEW s \in Threads PROVE CallShapeOf(s)'
  BY DEF ExclusiveInv, CallShape, CallShapeOf, TypeOK, Exclusive, HasLock, Blocked, Locking, Unlocking, Waits, Posts, Direct
<1> QED BY <1>1, <1>2, <1>3 DEF ExclusiveInv, CallShape

LEMMA SetBcastKeeps ==
  ASSUME ExclusiveInv, NEW t \in Threads, SetBcast(t)
  PROVE  ExclusiveInv'
<1> USE DEF SetBcast, Goto, mutexVars, callVars, ghosts
<1>1. TypeOK'
  BY DEF ExclusiveInv, CallShape, CallShapeOf, TypeOK, PcPlaces, AtPlaces, V1!Results, Waits, Posts
<1>2. Exclusive'
  BY DEF ExclusiveInv, CallShape, CallShapeOf, TypeOK, Exclusive, Taken, HasLock
<1>3. ASSUME NEW s \in Threads PROVE CallShapeOf(s)'
  BY DEF ExclusiveInv, CallShape, CallShapeOf, TypeOK, Exclusive, HasLock, Blocked, Locking, Unlocking, Waits, Posts, Direct
<1> QED BY <1>1, <1>2, <1>3 DEF ExclusiveInv, CallShape

LEMMA CvWakeKeeps ==
  ASSUME ExclusiveInv, NEW t \in Threads, CvWake(t)
  PROVE  ExclusiveInv'
<1> USE DEF CvWake, CvReturn, CvSleepers, Goto, mutexVars, callVars, ghosts
<1>1. TypeOK'
  BY DEF ExclusiveInv, CallShape, CallShapeOf, TypeOK, PcPlaces, AtPlaces, V1!Results, Waits, Posts
<1>2. Exclusive'
  BY DEF ExclusiveInv, CallShape, CallShapeOf, TypeOK, Exclusive, Taken, HasLock
<1>3. ASSUME NEW s \in Threads PROVE CallShapeOf(s)'
  BY DEF ExclusiveInv, CallShape, CallShapeOf, TypeOK, Exclusive, HasLock, Blocked, Locking, Unlocking, Waits, Posts, Direct
<1> QED BY <1>1, <1>2, <1>3 DEF ExclusiveInv, CallShape

LEMMA SetValueKeeps ==
  ASSUME ExclusiveInv, NEW t \in Threads, SetValue(t)
  PROVE  ExclusiveInv'
<1> USE DEF SetValue, Goto, mutexVars, callVars, ghosts
<1>1. TypeOK'
  BY DEF ExclusiveInv, CallShape, CallShapeOf, TypeOK, PcPlaces, AtPlaces, V1!Results, Waits, Posts
<1>2. Exclusive'
  BY DEF ExclusiveInv, CallShape, CallShapeOf, TypeOK, Exclusive, Taken, HasLock
<1>3. ASSUME NEW s \in Threads PROVE CallShapeOf(s)'
  BY DEF ExclusiveInv, CallShape, CallShapeOf, TypeOK, Exclusive, HasLock, Blocked, Locking, Unlocking, Waits, Posts, Direct
<1> QED BY <1>1, <1>2, <1>3 DEF ExclusiveInv, CallShape

LEMMA EnterKeeps ==
  ASSUME ExclusiveInv, NEW t \in Threads,
         NEW o \in Waits \cup Posts \cup {"setvalue"}, NEW v \in Values \cup {NoValue},
         Enter(t, o, v)
  PROVE  ExclusiveInv'
<1> USE CondAssumption DEF Enter, Begin, V1!Lock, V1!Goto, Goto, mutexVars, callVars, ghosts
<1>1. TypeOK'
  BY DEF ExclusiveInv, TypeOK, PcPlaces, AtPlaces, V1!Results
<1>2. Exclusive'
  BY DEF ExclusiveInv, TypeOK, Exclusive, Taken, HasLock
<1>3. ASSUME NEW s \in Threads PROVE CallShapeOf(s)'
  BY DEF ExclusiveInv, CallShape, CallShapeOf, TypeOK, HasLock, Blocked, Locking, Unlocking, Waits, Posts, Direct
<1> QED BY <1>1, <1>2, <1>3 DEF ExclusiveInv, CallShape

LEMMA PostUnlockedKeeps ==
  ASSUME ExclusiveInv, NEW t \in Threads, NEW o \in Posts, PostUnlocked(t, o)
  PROVE  ExclusiveInv'
<1> USE CondAssumption DEF PostUnlocked, Begin, Goto, mutexVars, callVars, ghosts
<1>1. TypeOK'
  BY DEF ExclusiveInv, TypeOK, PcPlaces, AtPlaces, V1!Results
<1>2. Exclusive'
  BY DEF ExclusiveInv, TypeOK, Exclusive, Taken, HasLock
<1>3. ASSUME NEW s \in Threads PROVE CallShapeOf(s)'
  BY DEF ExclusiveInv, CallShape, CallShapeOf, TypeOK, HasLock, Blocked, Locking, Unlocking, Waits, Posts, Direct
<1> QED BY <1>1, <1>2, <1>3 DEF ExclusiveInv, CallShape

LEMMA UseMutexKeeps ==
  ASSUME ExclusiveInv, NEW t \in Threads, NEW o \in Direct, UseMutex(t, o)
  PROVE  ExclusiveInv'
<1> USE DEF UseMutex, Begin, Goto, callVars, ghosts
<1>1. CASE o = "trylock"
  <2>1. version' = version /\ MutexTypes' /\ Exclusive' /\ timed' = timed
    <3>1. CASE version = 1
      BY <1>1, <3>1 DEF ExclusiveInv, TypeOK, MutexTypes, PcPlaces, V1!Results, Exclusive, Taken, HasLock,
         TryLock, V1!TryLock, V1!Goto
    <3>2. CASE version = 2
      BY <1>1, <3>2 DEF ExclusiveInv, TypeOK, MutexTypes, PcPlaces, V1!Results, Exclusive, Taken, HasLock,
         TryLock, V2!TryLock, V2!Locked, V2!Contended, V2!Goto, V2!V1!Goto
    <3> QED BY <3>1, <3>2 DEF ExclusiveInv, TypeOK
  <2>2. /\ \A s \in Threads \ {t} : pc'[s] = pc[s]
        /\ pc'[t] \in {"out", "held"} /\ pc[t] = "out"
    BY <1>1 DEF ExclusiveInv, TypeOK, TryLock, V1!TryLock, V1!Goto, V2!TryLock, V2!Goto, V2!V1!Goto
  <2>3. TypeOK'
    <3>1. /\ at' = [at EXCEPT ![t] = "leave"] /\ op' = [op EXCEPT ![t] = o]
          /\ arg' = [arg EXCEPT ![t] = NoValue] /\ calls' = calls + 1
      OBVIOUS
    <3>2. UNCHANGED <<requeued, bcast, value, fresh, version, due, owed, moved>>
      OBVIOUS
    <3> HIDE DEF UseMutex, Begin
    <3> QED BY <2>1, <3>1, <3>2 DEF ExclusiveInv, TypeOK, AtPlaces, MutexTypes
  <2>4. ASSUME NEW s \in Threads PROVE CallShapeOf(s)'
    <3>1. at' = [at EXCEPT ![t] = "leave"] /\ op' = [op EXCEPT ![t] = o] /\ arg' = [arg EXCEPT ![t] = NoValue]
      OBVIOUS
    <3>2. at[t] = "idle" /\ UNCHANGED <<value, due, owed, version>>
      OBVIOUS
    <3> HIDE DEF UseMutex, Begin
    <3> QED BY <1>1, <3>1, <3>2, <2>1, <2>2 DEF ExclusiveInv, CallShape, CallShapeOf, TypeOK, HasLock, Blocked, Locking, Unlocking, Waits, Posts, Direct
  <2> QED BY <2>1, <2>3, <2>4 DEF ExclusiveInv, CallShape
<1>2. CASE o = "timedlock"
  <2> USE <1>2 DEF V1!Lock, V1!Goto
  <2>1. TypeOK'
    BY DEF ExclusiveInv, TypeOK, PcPlaces, AtPlaces, V1!Results, Direct
  <2>2. Exclusive'
    BY DEF ExclusiveInv, TypeOK, Exclusive, Taken, HasLock
  <2>3. ASSUME NEW s \in Threads PROVE CallShapeOf(s)'
    BY DEF ExclusiveInv, CallShape, CallShapeOf, TypeOK, HasLock, Blocked, Locking, Unlocking, Waits, Posts, Direct
  <2> QED BY <2>1, <2>2, <2>3 DEF ExclusiveInv, CallShape
<1> QED BY <1>1, <1>2 DEF Direct

-----------------------------------------------------------------------------
LEMMA InitExclusive == Init => ExclusiveInv
<1> SUFFICES ASSUME Init PROVE ExclusiveInv
  OBVIOUS
<1> USE CondAssumption DEF Init, V1!MutexInit
<1>1. TypeOK
  BY DEF TypeOK, PcPlaces, AtPlaces, V1!Results
<1>2. Exclusive
  BY DEF Exclusive, Taken, HasLock
<1>3. CallShape
  BY DEF CallShape, CallShapeOf, HasLock, Direct
<1> QED BY <1>1, <1>2, <1>3 DEF ExclusiveInv

LEMMA StepExclusive == ExclusiveInv /\ [Next]_vars => ExclusiveInv'
<1> SUFFICES ASSUME ExclusiveInv, [Next]_vars PROVE ExclusiveInv'
  OBVIOUS
<1>1. ASSUME NEW t \in Threads, MutexStep(t) PROVE ExclusiveInv'
  <2>1. MutexMove(t) /\ pc[t] # "held"
    BY <1>1, MutexStepMoves DEF ExclusiveInv
  <2> QED BY <1>1, <2>1, MoveKeeps DEF MutexStep
<1>2. ASSUME NEW t \in Threads, Leave(t) \/ Part(t) PROVE ExclusiveInv'
  <2>1. /\ Unlock(t) /\ at[t] \in {"parting", "leave"}
        /\ UNCHANGED <<requeued, bcast, value, at, fresh, callVars, ghosts>>
    BY <1>2 DEF Leave, Part
  <2>2. MutexMove(t)
    BY <2>1, UnlockMoves DEF ExclusiveInv, callVars
  <2> QED BY <2>1, <2>2, MoveKeeps
<1>3. ASSUME NEW t \in Threads, MutexTimedOut(t) PROVE ExclusiveInv'
  <2>1. MutexMove(t) /\ pc[t] = "asleep"
    BY <1>3, TimedOutMoves DEF ExclusiveInv, MutexTimedOut, callVars
  <2> QED BY <1>3, <2>1, MoveKeeps DEF MutexTimedOut
<1>4. ASSUME NEW t \in Threads, Step(t) PROVE ExclusiveInv'
  BY <1>1, <1>2, <1>4, ReturnKeeps, BeginWaitKeeps, CvSleepKeeps, CvAgainKeeps, RelockedKeeps, RequeueKeeps,
     ReadSeqKeeps, CmpRequeueKeeps, PostKeeps, SetBcastKeeps, CvWakeKeeps, SetValueKeeps DEF Step
<1>5. ASSUME NEW t \in Threads, NewCall(t) PROVE ExclusiveInv'
  BY <1>5, EnterKeeps, PostUnlockedKeeps, UseMutexKeeps DEF NewCall
<1>6. CASE UNCHANGED vars
  BY <1>6 DEF vars, mutexVars, callVars, ghosts, ExclusiveInv, TypeOK, Exclusive, Taken, HasLock,
     CallShape, CallShapeOf, Blocked
<1> QED BY <1>3, <1>4, <1>5, <1>6, CvTimedOutKeeps DEF Next

\* The variables keep their types, for any threads and calls, in both builds.
THEOREM CondTypeCorrect == Spec => []TypeOK
<1>1. ExclusiveInv => TypeOK
  BY DEF ExclusiveInv
<1> QED BY <1>1, InitExclusive, StepExclusive, PTL DEF Spec

\* Both builds of the mutex exclude, for any threads and calls.
THEOREM FutexExcludes == Spec => []Exclusive
<1>1. ExclusiveInv => Exclusive
  BY DEF ExclusiveInv
<1> QED BY <1>1, InitExclusive, StepExclusive, PTL DEF Spec

-----------------------------------------------------------------------------
(* No lost wakeup of the mutex.                                            *)

\* Somebody will wake a sleeper of the mutex: the word tells the holder to, or
\* a thread is on its way to do it or to mark the word.
SomeWaker ==
  IF version = 1
  THEN u = 2 \/ \E s \in Threads : pc[s] \in {"handoff", "wake", "retake"}
  ELSE \/ u = 257
       \/ u = 256 /\ \E s \in Threads : pc[s] = "handoff"
       \/ \E s \in Threads : pc[s] \in {"clear", "wake", "retake"}

SleepersHaveWaker ==
  ~leaked /\ (version = 1 \/ ~moved) /\ (\E s \in Threads : pc[s] = "asleep") => SomeWaker

\* Who moves sleepers to the mutex of version 1 holds it as contended.
MovesUnderMark ==
  version = 1 =>
    \A t \in Threads : at[t] \in {"relock", "requeue", "cmprequeue"} /\ pc[t] = "held" => u = 2

WakerInv == SleepersHaveWaker /\ MovesUnderMark

LEMMA Version1Wakes ==
  ASSUME ExclusiveInv, WakerInv, NEW t \in Threads, version = 1, MutexStep(t)
  PROVE  WakerInv'
<1> DEFINE looks == t \in timed \/ Careless(t)
<1>0. /\ version' = 1 /\ at' = at /\ moved' = moved /\ u \in {0, 1, 2} /\ pc \in [Threads -> PcPlaces]
      /\ SleepersHaveWaker /\ MovesUnderMark
  BY DEF MutexStep, callVars, ghosts, ExclusiveInv, TypeOK, WakerInv
<1>1. V1!MutexStep(t, looks)
  BY DEF MutexStep
<1> HIDE DEF looks
<1>2. \A s \in Threads : at[s] \in {"relock", "requeue", "cmprequeue"} => pc[s] \in {"wait", "asleep", "retake", "held"}
  BY DEF ExclusiveInv, CallShape, CallShapeOf
<1>3. \A s \in Threads : pc[s] = "held" => u # 0
  BY DEF ExclusiveInv, Exclusive, Taken, HasLock
<1> USE DEF SleepersHaveWaker, MovesUnderMark, SomeWaker, V1!Goto
<1>4. CASE V1!LockFast(t) \/ V1!LockContended(t)
  BY <1>0, <1>2, <1>3, <1>4 DEF V1!LockFast, V1!LockContended, WakerInv
<1>5. CASE V1!Sleep(t, looks)
  BY <1>0, <1>2, <1>3, <1>5 DEF V1!Sleep, WakerInv
<1>6. CASE V1!Retake(t)
  BY <1>0, <1>2, <1>3, <1>6 DEF V1!Retake, WakerInv
<1>7. CASE V1!HandedOff(t)
  BY <1>0, <1>2, <1>3, <1>7 DEF V1!HandedOff, WakerInv
<1>8. CASE V1!SpunOut(t)
  BY <1>0, <1>2, <1>3, <1>8 DEF V1!SpunOut, WakerInv
<1>9. CASE V1!Wake(t)
  BY <1>0, <1>2, <1>3, <1>9 DEF V1!Wake, V1!WakeOne, V1!Sleepers, WakerInv
<1> QED
  BY <1>1, <1>4, <1>5, <1>6, <1>7, <1>8, <1>9 DEF V1!MutexStep

LEMMA Version2Wakes ==
  ASSUME ExclusiveInv, WakerInv, NEW t \in Threads, version = 2, MutexStep(t)
  PROVE  WakerInv'
<1> DEFINE looks == t \in timed \/ Careless(t)
<1>0. /\ version' = 2 /\ moved' = moved /\ u \in {0, 1, 256, 257} /\ pc \in [Threads -> PcPlaces]
      /\ SleepersHaveWaker
  BY DEF MutexStep, callVars, ghosts, ExclusiveInv, TypeOK, WakerInv
<1>1. V2!MutexStep(t, looks)
  BY <1>0 DEF MutexStep
<1> HIDE DEF looks
<1> USE DEF SleepersHaveWaker, SomeWaker, V2!Goto, V2!V1!Goto, V2!Locked, V2!Contended
<1>4. CASE V2!LockFast(t) \/ V2!LockContended(t)
  BY <1>0, <1>4 DEF V2!LockFast, V2!LockContended, WakerInv, MovesUnderMark
<1>5. CASE V2!Sleep(t, looks)
  BY <1>0, <1>5 DEF V2!Sleep, WakerInv, MovesUnderMark
<1>6. CASE V2!Retake(t)
  BY <1>0, <1>6 DEF V2!Retake, WakerInv, MovesUnderMark
<1>7. CASE V2!Release(t)
  BY <1>0, <1>7 DEF V2!Release, WakerInv, MovesUnderMark
<1>8. CASE V2!HandedOff(t)
  BY <1>0, <1>8 DEF V2!HandedOff, WakerInv, MovesUnderMark
<1>9. CASE V2!SpunOut(t) \/ V2!ClearContended(t)
  BY <1>0, <1>9 DEF V2!SpunOut, V2!ClearContended, WakerInv, MovesUnderMark
<1>10. CASE V2!Wake(t)
  BY <1>0, <1>10 DEF V2!Wake, V2!V1!WakeOne, V2!V1!Sleepers, WakerInv, MovesUnderMark
<1> QED
  BY <1>1, <1>4, <1>5, <1>6, <1>7, <1>8, <1>9, <1>10 DEF V2!MutexStep

LEMMA UnlockWakes ==
  ASSUME ExclusiveInv, WakerInv, NEW t \in Threads, Unlock(t),
         UNCHANGED <<version, at, moved>>
  PROVE  WakerInv'
<1>0. /\ u \in (IF version = 1 THEN {0, 1, 2} ELSE {0, 1, 256, 257})
      /\ pc \in [Threads -> PcPlaces] /\ version \in {1, 2}
      /\ SleepersHaveWaker /\ MovesUnderMark
      /\ \A s, r \in Threads : HasLock(s) /\ HasLock(r) => s = r
  BY DEF ExclusiveInv, Exclusive, TypeOK, WakerInv
<1> USE DEF SleepersHaveWaker, SomeWaker
<1>1. CASE version = 1
  <2>1. /\ pc[t] = "held" /\ u' = 0 /\ leaked' = leaked
        /\ pc' = [pc EXCEPT ![t] = IF u = 1 THEN "out" ELSE "handoff"]
    BY <1>1 DEF Unlock, V1!Unlock, V1!Goto
  <2>2. SleepersHaveWaker'
    BY <1>0, <1>1, <2>1
  <2>3. \A s \in Threads : pc'[s] # "held"
    BY <1>0, <2>1 DEF HasLock
  <2> QED
    BY <2>2, <2>3 DEF WakerInv, MovesUnderMark
<1>2. CASE version = 2
  <2>1. /\ pc[t] = "held" /\ leaked' = leaked /\ u' = IF u = 1 THEN 0 ELSE u
        /\ pc' = [pc EXCEPT ![t] = IF u = 1 THEN "out" ELSE "release"]
    BY <1>2 DEF Unlock, V2!Unlock, V2!Goto, V2!V1!Goto
  <2> QED
    BY <1>0, <1>2, <2>1 DEF WakerInv, MovesUnderMark
<1> QED
  BY <1>0, <1>1, <1>2

LEMMA TimedOutWakes ==
  ASSUME ExclusiveInv, WakerInv, NEW t \in Threads, V1!TimedOut(t),
         UNCHANGED <<version, at, moved>>
  PROVE  WakerInv'
<1>1. /\ pc' = [pc EXCEPT ![t] = "retake"] /\ UNCHANGED <<u, leaked>>
      /\ pc \in [Threads -> PcPlaces]
  BY DEF V1!TimedOut, V1!Goto, ExclusiveInv, TypeOK
<1> QED
  BY <1>1 DEF WakerInv, SleepersHaveWaker, MovesUnderMark, SomeWaker

\* Steps above the mutex: they send threads to it that were outside.
LEMMA OthersWake ==
  ASSUME WakerInv, UNCHANGED <<u, version, leaked, moved>>,
         \A s \in Threads : \/ pc'[s] = pc[s]
                            \/ pc[s] = "out" /\ pc'[s] \in {"lock", "retake"},
         \A s \in Threads : at'[s] \in {"relock", "requeue", "cmprequeue"} /\ pc'[s] = "held" =>
                              at[s] \in {"relock", "requeue", "cmprequeue"} /\ pc[s] = "held"
  PROVE  WakerInv'
<1>1. SleepersHaveWaker'
  <2> SUFFICES ASSUME ~leaked, version = 1 \/ ~moved, \E s \in Threads : pc'[s] = "asleep"
               PROVE  SomeWaker'
    BY DEF SleepersHaveWaker
  <2>1. SomeWaker
    BY DEF WakerInv, SleepersHaveWaker
  <2> QED
    BY <2>1 DEF SomeWaker
<1>2. MovesUnderMark'
  BY DEF WakerInv, MovesUnderMark
<1> QED
  BY <1>1, <1>2 DEF WakerInv

\* Whoever moves sleepers to the mutex of version 1 has marked it.
LEMMA MoveSleepersWakes ==
  ASSUME ExclusiveInv, WakerInv, NEW t \in Threads, MoveSleepers(t),
         at[t] \in {"requeue", "cmprequeue"}, version' = version
  PROVE  WakerInv'
<1>0. /\ pc \in [Threads -> PcPlaces] /\ at \in [Threads -> AtPlaces] /\ pc[t] = "held"
      /\ SleepersHaveWaker /\ MovesUnderMark
      /\ \A s \in Threads : at[s] = "cvsleep" => pc[s] = "out"
      /\ version \in {1, 2}
  BY DEF ExclusiveInv, TypeOK, WakerInv, CallShape, CallShapeOf
<1>1. /\ u' = u /\ leaked' = leaked /\ moved' = (moved \/ CvSleepers # {})
      /\ \A s \in Threads : pc'[s] = IF s \in CvSleepers THEN "asleep" ELSE pc[s]
  BY DEF MoveSleepers
<1>2. CASE version = 1
  <2>1. u = 2
    BY <1>0, <1>2 DEF MovesUnderMark
  <2>2. SomeWaker' /\ MovesUnderMark'
    BY <1>1, <1>2, <2>1 DEF MovesUnderMark, SomeWaker
  <2> QED
    BY <2>2 DEF WakerInv, SleepersHaveWaker
<1>3. CASE version = 2
  <2>1. MovesUnderMark'
    BY <1>3 DEF MovesUnderMark
  <2>2. SleepersHaveWaker'
    <3>1. CASE CvSleepers = {}
      <4>1. (moved' <=> moved) /\ \A s \in Threads : pc'[s] = pc[s]
        BY <1>1, <3>1
      <4> SUFFICES ASSUME ~leaked, ~moved, NEW s \in Threads, pc[s] = "asleep"
                   PROVE  SomeWaker'
        BY <1>1, <1>3, <4>1 DEF SleepersHaveWaker
      <4>2. SomeWaker
        BY <1>0 DEF SleepersHaveWaker
      <4> QED
        BY <1>1, <1>3, <4>1, <4>2 DEF SomeWaker
    <3>2. CASE CvSleepers # {}
      <4>1. moved' /\ version' = 2
        BY <1>1, <1>3, <3>2
      <4> QED
        BY <4>1 DEF SleepersHaveWaker
    <3> QED
      BY <3>1, <3>2
  <2> QED
    BY <2>1, <2>2 DEF WakerInv
<1> QED
  BY <1>0, <1>2, <1>3

LEMMA TryLockWakes ==
  ASSUME ExclusiveInv, WakerInv, NEW t \in Threads, TryLock(t), version' = version,
         moved' = moved, at' = [at EXCEPT ![t] = "leave"]
  PROVE  WakerInv'
<1>0. /\ pc \in [Threads -> PcPlaces] /\ at \in [Threads -> AtPlaces] /\ version \in {1, 2}
      /\ u \in (IF version = 1 THEN {0, 1, 2} ELSE {0, 1, 256, 257})
      /\ SleepersHaveWaker /\ MovesUnderMark
  BY DEF ExclusiveInv, TypeOK, WakerInv
<1>1. CASE version = 1
  <2>1. /\ pc[t] = "out" /\ u' = (IF u = 0 THEN 1 ELSE u) /\ leaked' = leaked
        /\ pc' = [pc EXCEPT ![t] = IF u = 0 THEN "held" ELSE "out"]
    BY <1>1 DEF TryLock, V1!TryLock, V1!Goto
  <2>2. SleepersHaveWaker'
    BY <1>0, <1>1, <2>1 DEF SleepersHaveWaker, SomeWaker
  <2>3. MovesUnderMark'
    BY <1>0, <1>1, <2>1 DEF MovesUnderMark
  <2> QED
    BY <2>2, <2>3 DEF WakerInv
<1>2. CASE version = 2
  <2>1. /\ pc[t] = "out" /\ u' = (IF u \in {0, 256} THEN u + 1 ELSE u) /\ leaked' = leaked
        /\ pc' = [pc EXCEPT ![t] = IF u \in {0, 256} THEN "held" ELSE "out"]
    BY <1>0, <1>2 DEF TryLock, V2!TryLock, V2!Goto, V2!V1!Goto, V2!Locked, V2!Contended
  <2> QED
    BY <1>0, <1>2, <2>1 DEF WakerInv, SleepersHaveWaker, MovesUnderMark, SomeWaker
<1> QED
  BY <1>0, <1>1, <1>2

LEMMA InitWakes == Init => WakerInv
BY DEF Init, V1!MutexInit, WakerInv, SleepersHaveWaker, MovesUnderMark

\* What the calls above the mutex do to a thread's place in it.
LEMMA CallsWake ==
  ASSUME ExclusiveInv, WakerInv, NEW t \in Threads,
         \/ Return(t) \/ BeginWait(t) \/ CvSleep(t) \/ CvAgain(t) \/ CvTimedOut(t)
         \/ Relocked(t) \/ ReadSeq(t) \/ Post(t) \/ SetBcast(t) \/ SetValue(t)
         \/ \E o \in Posts : PostUnlocked(t, o)
         \/ \E o \in Waits \cup Posts \cup {"setvalue"}, v \in Values \cup {NoValue} : Enter(t, o, v)
         \/ UseMutex(t, "timedlock")
  PROVE  WakerInv'
<1>0. /\ pc \in [Threads -> PcPlaces] /\ at \in [Threads -> AtPlaces]
      /\ \A s \in Threads : at[s] \in {"cvsleep", "idle", "post"} => pc[s] = "out"
  BY DEF ExclusiveInv, TypeOK, CallShape, CallShapeOf
<1>1. UNCHANGED <<u, version, leaked, moved>>
  BY DEF Return, BeginWait, CvSleep, CvAgain, CvTimedOut, CvReturn, Relocked, ReadSeq, Post,
         SetBcast, SetValue, PostUnlocked, Enter, UseMutex, V1!Lock, Begin, mutexVars, callVars, ghosts
<1>2. \A s \in Threads : \/ pc'[s] = pc[s]
                         \/ pc[s] = "out" /\ pc'[s] \in {"lock", "retake"}
  BY <1>0 DEF Return, BeginWait, CvSleep, CvAgain, CvTimedOut, CvReturn, Relocked, ReadSeq, Post,
         SetBcast, SetValue, PostUnlocked, Enter, UseMutex, V1!Lock, V1!Goto, Goto, mutexVars
<1>3. PICK to \in AtPlaces : at' = [at EXCEPT ![t] = to]
  BY <1>0 DEF Return, BeginWait, CvSleep, CvAgain, CvTimedOut, Relocked, ReadSeq, Post,
         SetBcast, SetValue, PostUnlocked, Enter, UseMutex, Goto, AtPlaces
<1>4. to \in {"relock", "requeue", "cmprequeue"} /\ pc'[t] = "held" =>
        at[t] \in {"relock", "requeue", "cmprequeue"} /\ pc[t] = "held"
  BY <1>0, <1>2, <1>3 DEF Return, BeginWait, CvSleep, CvAgain, CvTimedOut, CvReturn, Relocked, ReadSeq, Post,
         SetBcast, SetValue, PostUnlocked, Enter, UseMutex, Goto
<1>5. \A s \in Threads : at'[s] \in {"relock", "requeue", "cmprequeue"} /\ pc'[s] = "held" =>
                           at[s] \in {"relock", "requeue", "cmprequeue"} /\ pc[s] = "held"
  BY <1>0, <1>2, <1>3, <1>4
<1> QED
  BY <1>1, <1>2, <1>5, OthersWake

LEMMA CvWakeWakes ==
  ASSUME ExclusiveInv, WakerInv, NEW t \in Threads, CvWake(t)
  PROVE  WakerInv'
<1>0. /\ pc \in [Threads -> PcPlaces] /\ at \in [Threads -> AtPlaces]
      /\ \A s \in Threads : at[s] = "cvsleep" => pc[s] = "out"
  BY DEF ExclusiveInv, TypeOK, CallShape, CallShapeOf
<1>1. UNCHANGED <<u, version, leaked, moved>>
  BY DEF CvWake, CvReturn, mutexVars, callVars, ghosts
<1>2. CASE at' = [at EXCEPT ![t] = "leave"] /\ pc' = pc
  BY <1>0, <1>1, <1>2, OthersWake
<1>3. ASSUME NEW s \in CvSleepers, at' = [at EXCEPT ![t] = "leave", ![s] = "relock"],
             pc' = [pc EXCEPT ![s] = "retake"]
      PROVE  WakerInv'
  <2>1. s \in Threads /\ pc[s] = "out"
    BY <1>0 DEF CvSleepers
  <2> QED
    BY <1>0, <1>1, <1>3, <2>1, OthersWake
<1> QED
  BY <1>2, <1>3 DEF CvWake, CvReturn, Goto, mutexVars

LEMMA StepWakes == ExclusiveInv /\ WakerInv /\ [Next]_vars => WakerInv'
<1> SUFFICES ASSUME ExclusiveInv, WakerInv, [Next]_vars PROVE WakerInv'
  OBVIOUS
<1>1. ASSUME NEW t \in Threads, MutexStep(t) PROVE WakerInv'
  <2>1. version \in {1, 2}
    BY DEF ExclusiveInv, TypeOK
  <2> QED
    BY <1>1, <2>1, Version1Wakes, Version2Wakes
<1>2. ASSUME NEW t \in Threads, Leave(t) \/ Part(t) PROVE WakerInv'
  <2>1. Unlock(t) /\ UNCHANGED <<version, at, moved>>
    BY <1>2 DEF Leave, Part, callVars, ghosts
  <2> QED
    BY <2>1, UnlockWakes
<1>3. ASSUME NEW t \in Threads, MutexTimedOut(t) PROVE WakerInv'
  BY <1>3, TimedOutWakes DEF MutexTimedOut, callVars, ghosts
<1>4. ASSUME NEW t \in Threads, Requeue(t) PROVE WakerInv'
  BY <1>4, MoveSleepersWakes DEF Requeue, callVars
<1>5. ASSUME NEW t \in Threads, CmpRequeue(t) PROVE WakerInv'
  <2>1. CASE t \in fresh
    BY <1>5, <2>1, MoveSleepersWakes DEF CmpRequeue, callVars
  <2>2. CASE t \notin fresh
    <3>1. UNCHANGED <<u, version, leaked, moved, pc>> /\ at' = [at EXCEPT ![t] = "leave"]
      BY <1>5, <2>2 DEF CmpRequeue, Goto, mutexVars, callVars
    <3>2. at \in [Threads -> AtPlaces]
      BY DEF ExclusiveInv, TypeOK
    <3> QED
      BY <3>1, <3>2, OthersWake
  <2> QED
    BY <2>1, <2>2
<1>6. ASSUME NEW t \in Threads, Step(t) PROVE WakerInv'
  BY <1>1, <1>2, <1>4, <1>5, <1>6, CallsWake, CvWakeWakes DEF Step
<1>7. ASSUME NEW t \in Threads, UseMutex(t, "trylock") PROVE WakerInv'
  BY <1>7, TryLockWakes DEF UseMutex, Begin, Goto, ghosts
<1>8. ASSUME NEW t \in Threads, NewCall(t) PROVE WakerInv'
  BY <1>7, <1>8, CallsWake DEF NewCall, Direct
<1>9. CASE UNCHANGED vars
  BY <1>9 DEF vars, mutexVars, callVars, ghosts, WakerInv, SleepersHaveWaker, MovesUnderMark, SomeWaker
<1> QED
  BY <1>3, <1>6, <1>8, <1>9, CallsWake DEF Next

\* No wakeup of the mutex is lost, for any threads and calls: when every call
\* of mutex.h has come to rest, nobody sleeps on a free mutex.
THEOREM CondNobodyStranded == Spec => []NobodyStranded
<1>1. ExclusiveInv /\ WakerInv => NobodyStranded
  <2> SUFFICES ASSUME ExclusiveInv, WakerInv, Quiet, ~leaked, version = 1 \/ ~moved,
                      NEW t \in Threads, pc[t] = "asleep"
               PROVE  FALSE
    BY DEF NobodyStranded
  <2>1. SomeWaker
    BY DEF WakerInv, SleepersHaveWaker
  <2>2. \A s \in Threads : pc[s] \in {"out", "asleep"}
    BY DEF Quiet, Asleep, ExclusiveInv, CallShape, CallShapeOf
  <2>3. u = 2 \/ u = 257
    BY <2>1, <2>2 DEF SomeWaker
  <2>4. Taken
    BY <2>1, <2>2, <2>3 DEF Taken, SomeWaker
  <2> QED
    BY <2>2, <2>4 DEF ExclusiveInv, Exclusive, HasLock
<1> QED
  BY <1>1, InitExclusive, StepExclusive, InitWakes, StepWakes, PTL DEF Spec

-----------------------------------------------------------------------------
(* No broadcast and no signal is lost.                                     *)

\* Whoever was waiting when a broadcast or a signal began and is not asleep
\* yet will find that seq has changed.
ConcernedStale == \A t \in due \cup owed : at[t] = "parting" => t \notin fresh

\* While one of those a broadcast concerns sleeps on seq, somebody has yet to
\* move the sleepers: the broadcaster has still to say so in bcast, or has said
\* so and somebody is about to look, or is moving them.
BcastInv ==
  version = 1 /\ due \cap CvSleepers # {} =>
    \/ \E s \in Threads : at[s] \in {"flag", "requeue"}
    \/ bcast = 1 /\ \E s \in Threads : at[s] \in {"cvwake", "relock"}

\* The one a signal under the mutex is for stays the only one waiting until the
\* signaller has woken it.
SignalInv ==
  \A w \in owed \cap CvSleepers :
    Waiting = {w} /\ \E s \in Threads : at[s] = "cvwake" /\ pc[s] = "held"

ConcernInv == ConcernedStale /\ BcastInv /\ SignalInv

LEMMA StaleKept ==
  ASSUME ConcernedStale, due' \subseteq due, owed' \subseteq owed,
         \A x \in due \cup owed : at'[x] = "parting" => at[x] = "parting",
         \A x \in due \cup owed : at[x] = "parting" /\ x \in fresh' => x \in fresh
  PROVE  ConcernedStale'
BY DEF ConcernedStale

LEMMA BcastKept ==
  ASSUME BcastInv, due' \subseteq due, version' = version,
         \A x \in due : at'[x] = "cvsleep" => at[x] = "cvsleep",
         version = 1 => /\ bcast' = bcast
                        /\ \A s \in Threads : at[s] \in {"flag", "requeue", "cvwake", "relock"}
                                                => at'[s] = at[s]
  PROVE  BcastInv'
<1> SUFFICES ASSUME version = 1, NEW x \in due, x \in Threads, at[x] = "cvsleep"
             PROVE  \/ \E s \in Threads : at'[s] \in {"flag", "requeue"}
                    \/ bcast' = 1 /\ \E s \in Threads : at'[s] \in {"cvwake", "relock"}
  BY DEF BcastInv, CvSleepers
<1>1. due \cap CvSleepers # {}
  BY DEF CvSleepers
<1> QED
  BY <1>1 DEF BcastInv

LEMMA SignalKept ==
  ASSUME ExclusiveInv, SignalInv, owed' \subseteq owed,
         \A x \in owed : at'[x] = "cvsleep" => at[x] = "cvsleep",
         \A x \in Threads : at'[x] \in {"parting", "cvsleep"} =>
           at[x] \in {"parting", "cvsleep"} \/ (at[x] = "enter" /\ pc[x] = "held"),
         \A s \in Threads : at[s] = "cvwake" /\ pc[s] = "held" =>
                              at'[s] = "cvwake" /\ pc'[s] = "held"
  PROVE  SignalInv'
<1> SUFFICES ASSUME NEW w \in owed, w \in Threads, at'[w] = "cvsleep"
             PROVE  Waiting' = {w} /\ \E s \in Threads : at'[s] = "cvwake" /\ pc'[s] = "held"
  BY DEF SignalInv, CvSleepers
<1>1. at[w] = "cvsleep" /\ w \in owed \cap CvSleepers
  BY DEF CvSleepers
<1>2. Waiting = {w}
  BY <1>1 DEF SignalInv
<1>3. PICK s \in Threads : at[s] = "cvwake" /\ pc[s] = "held"
  BY <1>1 DEF SignalInv
<1>4. \A x \in Threads : HasLock(x) => x = s
  BY <1>3 DEF ExclusiveInv, Exclusive, HasLock
<1>5. ASSUME NEW x \in Threads, Blocked(x)' PROVE x = w
  <2>1. at[x] \in {"parting", "cvsleep"} \/ (at[x] = "enter" /\ pc[x] = "held")
    BY <1>5 DEF Blocked
  <2>2. Blocked(x)
    BY <1>3, <1>4, <2>1 DEF Blocked, HasLock
  <2> QED
    BY <1>2, <2>2 DEF Waiting
<1>6. Blocked(w)'
  BY DEF Blocked
<1> QED
  BY <1>3, <1>5, <1>6 DEF Waiting

\* A step that moves one thread, and not to or from the places that matter.
LEMMA ConcernKept ==
  ASSUME ExclusiveInv, ConcernInv,
         UNCHANGED <<bcast, version, due, owed>>,
         \A x \in due \cup owed : at'[x] \in {"parting", "cvsleep"} => at'[x] = at[x],
         \A x \in due \cup owed : at[x] = "parting" /\ x \in fresh' => x \in fresh,
         \A x \in Threads : at'[x] \in {"parting", "cvsleep"} =>
           at[x] \in {"parting", "cvsleep"} \/ (at[x] = "enter" /\ pc[x] = "held"),
         \A s \in Threads : at[s] = "cvwake" /\ pc[s] = "held" =>
                              at'[s] = "cvwake" /\ pc'[s] = "held",
         version = 1 => \A s \in Threads : at[s] \in {"flag", "requeue", "cvwake", "relock"}
                                             => at'[s] = at[s]
  PROVE  ConcernInv'
<1>1. ConcernedStale'
  BY StaleKept DEF ConcernInv
<1>2. BcastInv'
  BY BcastKept DEF ConcernInv
<1>3. SignalInv'
  BY SignalKept DEF ConcernInv
<1> QED
  BY <1>1, <1>2, <1>3 DEF ConcernInv

LEMMA MutexStepConcerns ==
  ASSUME ExclusiveInv, ConcernInv, NEW t \in Threads,
         MutexStep(t) \/ Leave(t) \/ Part(t) \/ MutexTimedOut(t)
  PROVE  ConcernInv'
<1>1. UNCHANGED <<bcast, at, fresh, version, due, owed>>
  BY DEF MutexStep, Leave, Part, MutexTimedOut, callVars, ghosts
<1>2. /\ MutexMove(t)
      /\ pc[t] = "held" => at[t] \in {"parting", "leave"}
  <2>1. ASSUME MutexStep(t) PROVE MutexMove(t) /\ pc[t] # "held"
    BY <2>1, MutexStepMoves DEF ExclusiveInv
  <2>2. ASSUME Leave(t) \/ Part(t) PROVE MutexMove(t) /\ at[t] \in {"parting", "leave"}
    BY <1>1, <2>2, UnlockMoves DEF ExclusiveInv, Leave, Part
  <2>3. ASSUME MutexTimedOut(t) PROVE MutexMove(t) /\ pc[t] # "held"
    BY <1>1, <2>3, TimedOutMoves DEF ExclusiveInv, MutexTimedOut
  <2> QED
    BY <2>1, <2>2, <2>3
<1>3. \A s \in Threads : at[s] = "cvwake" /\ pc[s] = "held" => pc'[s] = "held"
  BY <1>2 DEF MutexMove
<1> QED
  BY <1>1, <1>3, ConcernKept

\* Steps that leave the waiting alone.
LEMMA CalmConcerns ==
  ASSUME ExclusiveInv, ConcernInv, NEW t \in Threads,
         \/ Return(t) \/ BeginWait(t) \/ SetValue(t) \/ CvSleep(t) \/ CvAgain(t) \/ CvTimedOut(t)
         \/ ReadSeq(t) \/ NewCall(t)
  PROVE  ConcernInv'
<1>0. /\ at \in [Threads -> AtPlaces] /\ pc \in [Threads -> PcPlaces]
      /\ due \subseteq Threads /\ owed \subseteq Threads
      /\ \A x \in due \cup owed : at[x] \in {"parting", "cvsleep", "relock"}
      /\ \A x \in due \cup owed : at[x] = "parting" => x \notin fresh
  BY DEF ExclusiveInv, TypeOK, CallShape, CallShapeOf, Blocked, ConcernInv, ConcernedStale
<1>1. UNCHANGED <<bcast, version, due, owed>>
  BY DEF Return, BeginWait, SetValue, CvSleep, CvAgain, CvTimedOut, ReadSeq, NewCall, Enter, PostUnlocked,
         UseMutex, Begin, callVars, ghosts
<1>2. PICK to : /\ at' = [at EXCEPT ![t] = to]
                /\ \/ at[t] \in {"idle", "leave"} /\ to \in {"idle", "leave", "enter", "post"}
                   \/ at[t] = "enter" /\ pc[t] = "held" /\ to \in {"parting", "leave"}
                   \/ at[t] = "parting" /\ t \in fresh /\ to = "cvsleep"
                   \/ at[t] \in {"parting", "cvsleep"} /\ to = "relock"
                   \/ version = 2 /\ at[t] = "requeue" /\ to = "cmprequeue"
  <2>1. CASE NewCall(t)
    BY <2>1 DEF NewCall, Enter, PostUnlocked, UseMutex, Goto
  <2>2. CASE Return(t) \/ BeginWait(t) \/ SetValue(t)
    BY <2>2 DEF Return, BeginWait, SetValue, Goto
  <2>3. CASE CvSleep(t) \/ CvAgain(t) \/ CvTimedOut(t) \/ ReadSeq(t)
    BY <2>3 DEF CvSleep, CvAgain, CvTimedOut, ReadSeq, Goto
  <2> QED
    BY <2>1, <2>2, <2>3
<1>3. \A x \in Threads \ {t} : at'[x] = at[x] /\ pc'[x] = pc[x]
  BY <1>0, <1>2 DEF Return, BeginWait, SetValue, CvSleep, CvAgain, CvTimedOut, CvReturn, ReadSeq, NewCall, Enter,
         PostUnlocked, UseMutex, TryLock, V1!TryLock, V2!TryLock, V2!Goto, V2!V1!Goto, V1!Lock, V1!Goto, mutexVars
<1>4. fresh' \subseteq fresh \cup (IF at[t] \in {"enter", "requeue"} THEN {t} ELSE {})
  BY DEF Return, BeginWait, SetValue, CvSleep, CvAgain, CvTimedOut, ReadSeq, NewCall, Enter, PostUnlocked,
         UseMutex, Begin, Goto
<1>5. \A x \in due \cup owed : at'[x] \in {"parting", "cvsleep"} => at'[x] = at[x]
  BY <1>0, <1>2
<1>6. \A x \in due \cup owed : at[x] = "parting" /\ x \in fresh' => x \in fresh
  BY <1>4
<1>7. \A x \in Threads : at'[x] \in {"parting", "cvsleep"} =>
           at[x] \in {"parting", "cvsleep"} \/ (at[x] = "enter" /\ pc[x] = "held")
  BY <1>0, <1>2
<1>8. \A s \in Threads : at[s] \in {"flag", "cvwake", "relock"} => s # t
  <2> SUFFICES at[t] \notin {"flag", "cvwake", "relock"}
    OBVIOUS
  <2> QED
    BY <1>2
<1>9. version = 1 => \A s \in Threads : at[s] \in {"flag", "requeue", "cvwake", "relock"} => s # t
  BY <1>2, <1>8
<1> QED
  BY <1>1, <1>3, <1>5, <1>6, <1>7, <1>8, <1>9, ConcernKept

LEMMA RelockedConcerns ==
  ASSUME ExclusiveInv, ConcernInv, NEW t \in Threads, Relocked(t)
  PROVE  ConcernInv'
<1>0. /\ at \in [Threads -> AtPlaces] /\ pc \in [Threads -> PcPlaces] /\ bcast \in {0, 1}
      /\ due \subseteq Threads /\ owed \subseteq Threads
  BY DEF ExclusiveInv, TypeOK
<1>1. /\ pc' = pc /\ fresh' = fresh /\ version' = version
      /\ due' \subseteq due /\ owed' \subseteq owed /\ at[t] = "relock"
      /\ at' = [at EXCEPT ![t] = IF LooksAtBcast(t) /\ bcast = 1 THEN "requeue" ELSE "leave"]
      /\ bcast' = IF LooksAtBcast(t) THEN 0 ELSE bcast
  BY DEF Relocked, Goto, mutexVars, callVars
<1>2. ConcernedStale'
  BY <1>0, <1>1, StaleKept DEF ConcernInv
<1>3. SignalInv'
  BY <1>0, <1>1, SignalKept DEF ConcernInv
<1>4. BcastInv'
  <2> SUFFICES ASSUME version = 1, NEW x \in due, x \in Threads, at'[x] = "cvsleep"
               PROVE  \E s \in Threads : at'[s] \in {"flag", "requeue"}
    BY <1>1 DEF BcastInv, CvSleepers
  <2>1. LooksAtBcast(t)
    BY DEF LooksAtBcast, Careless
  <2>2. x \in due \cap CvSleepers
    BY <1>0, <1>1 DEF CvSleepers
  <2>3. CASE bcast = 1
    BY <1>0, <1>1, <2>1, <2>3
  <2>4. CASE bcast = 0
    <3>1. PICK s \in Threads : at[s] \in {"flag", "requeue"}
      BY <2>2, <2>4 DEF ConcernInv, BcastInv
    <3> QED
      BY <1>0, <1>1, <3>1
  <2> QED
    BY <1>0, <2>3, <2>4
<1> QED
  BY <1>2, <1>3, <1>4 DEF ConcernInv

\* Once the sleepers are moved nobody sleeps on seq.
LEMMA MoveSleepersConcerns ==
  ASSUME ExclusiveInv, ConcernInv, NEW t \in Threads, MoveSleepers(t),
         at[t] \in {"requeue", "cmprequeue"},
         UNCHANGED <<due, owed>>, fresh' \subseteq fresh
  PROVE  ConcernInv'
<1>1. \A x \in Threads : at'[x] # "cvsleep" /\ (at'[x] = "parting" => at[x] = "parting")
  BY DEF MoveSleepers, CvSleepers
<1>2. due \subseteq Threads /\ owed \subseteq Threads
  BY DEF ExclusiveInv, TypeOK
<1>3. ConcernedStale'
  BY <1>1, <1>2, StaleKept DEF ConcernInv
<1>4. CvSleepers' = {}
  BY <1>1 DEF CvSleepers
<1> QED
  BY <1>3, <1>4 DEF ConcernInv, BcastInv, SignalInv

LEMMA CmpRequeueConcerns ==
  ASSUME ExclusiveInv, ConcernInv, NEW t \in Threads, CmpRequeue(t)
  PROVE  ConcernInv'
<1>0. at \in [Threads -> AtPlaces]
  BY DEF ExclusiveInv, TypeOK
<1>1. CASE t \in fresh
  BY <1>1, MoveSleepersConcerns DEF CmpRequeue
<1>2. CASE t \notin fresh
  <2>1. /\ UNCHANGED <<pc, bcast, version, due, owed>> /\ fresh' \subseteq fresh
        /\ at' = [at EXCEPT ![t] = "leave"] /\ at[t] = "cmprequeue"
    BY <1>2 DEF CmpRequeue, Goto, mutexVars, callVars
  <2>2. due \subseteq Threads /\ owed \subseteq Threads
    BY DEF ExclusiveInv, TypeOK
  <2> QED
    BY <1>0, <2>1, <2>2, ConcernKept
<1> QED
  BY <1>1, <1>2

LEMMA PostConcerns ==
  ASSUME ExclusiveInv, ConcernInv, NEW t \in Threads, Post(t)
  PROVE  ConcernInv'
<1>0. /\ at \in [Threads -> AtPlaces] /\ due \subseteq Threads /\ owed \subseteq Threads
      /\ op[t] \in Posts
  BY DEF ExclusiveInv, TypeOK, Post
<1>1. /\ pc' = pc /\ fresh' = {} /\ version' = version /\ bcast' = bcast
      /\ at[t] = "post" \/ (at[t] = "enter" /\ pc[t] = "held")
      /\ at' = [at EXCEPT ![t] = IF op[t] = "signal" THEN "cvwake" ELSE "flag"]
  BY DEF Post, Goto, mutexVars, callVars
<1>2. ConcernedStale'
  BY <1>1 DEF ConcernedStale
<1>3. BcastInv'
  <2>1. CASE op[t] = "broadcast"
    BY <1>0, <1>1, <2>1 DEF BcastInv
  <2>2. CASE op[t] # "broadcast"
    <3>1. due' = due
      BY <2>2 DEF Post
    <3> QED
      BY <1>0, <1>1, <3>1, BcastKept DEF ConcernInv
  <2> QED
    BY <2>1, <2>2
<1>4. SignalInv'
  <2>1. CASE op[t] = "signal" /\ HasLock(t) /\ \E w \in Threads : Waiting = {w}
    <3>1. PICK w \in Threads : Waiting = {w}
      BY <2>1
    <3>2. pc[t] = "held" /\ owed' = owed \cup {w}
      <4>1. pc[t] = "held"
        BY <1>1, <2>1 DEF HasLock, ExclusiveInv, CallShape, CallShapeOf
      <4> QED
        BY <2>1, <3>1, <4>1 DEF Post
    <3>3. at'[t] = "cvwake" /\ pc'[t] = "held"
      BY <1>0, <1>1, <2>1, <3>2
    <3>4. Waiting' = Waiting
      BY <1>0, <1>1 DEF Waiting, Blocked, HasLock
    <3>5. \A x \in CvSleepers' : x = w
      BY <1>0, <1>1, <3>1, <3>4 DEF CvSleepers, Waiting, Blocked
    <3> QED
      BY <3>1, <3>3, <3>4, <3>5 DEF SignalInv
  <2>2. CASE ~(op[t] = "signal" /\ HasLock(t) /\ \E w \in Threads : Waiting = {w})
    <3>1. owed' = owed
      BY <2>2 DEF Post
    <3>2. \A s \in Threads : at[s] = "cvwake" /\ pc[s] = "held" =>
                              at'[s] = "cvwake" /\ pc'[s] = "held"
      BY <1>0, <1>1
    <3>3. \A x \in Threads : at'[x] \in {"parting", "cvsleep"} => at'[x] = at[x]
      BY <1>0, <1>1
    <3> QED
      BY <1>0, <3>1, <3>2, <3>3, SignalKept DEF ConcernInv
  <2> QED
    BY <2>1, <2>2
<1> QED
  BY <1>2, <1>3, <1>4 DEF ConcernInv

LEMMA SetBcastConcerns ==
  ASSUME ExclusiveInv, ConcernInv, NEW t \in Threads, SetBcast(t)
  PROVE  ConcernInv'
<1>0. /\ at \in [Threads -> AtPlaces] /\ due \subseteq Threads /\ owed \subseteq Threads
  BY DEF ExclusiveInv, TypeOK
<1>1. /\ pc' = pc /\ fresh' = fresh /\ version' = version /\ bcast' = 1
      /\ due' = due /\ owed' = owed /\ at[t] = "flag" /\ at' = [at EXCEPT ![t] = "cvwake"]
  BY DEF SetBcast, Goto, mutexVars, callVars, ghosts
<1>2. ConcernedStale'
  BY <1>0, <1>1, StaleKept DEF ConcernInv
<1>3. SignalInv'
  BY <1>0, <1>1, SignalKept DEF ConcernInv
<1>4. at'[t] = "cvwake"
  BY <1>0, <1>1
<1>5. BcastInv'
  BY <1>1, <1>4 DEF BcastInv
<1> QED
  BY <1>2, <1>3, <1>5 DEF ConcernInv

LEMMA CvWakeConcerns ==
  ASSUME ExclusiveInv, ConcernInv, NEW t \in Threads, CvWake(t)
  PROVE  ConcernInv'
<1>0. /\ at \in [Threads -> AtPlaces] /\ pc \in [Threads -> PcPlaces]
      /\ due \subseteq Threads /\ owed \subseteq Threads
      /\ \A s \in Threads : at[s] = "cvsleep" => pc[s] = "out"
  BY DEF ExclusiveInv, TypeOK, CallShape, CallShapeOf
<1>1. UNCHANGED <<bcast, version, due, owed, fresh>> /\ at[t] = "cvwake"
  BY DEF CvWake, callVars, ghosts
<1>2. CASE CvSleepers = {} /\ at' = [at EXCEPT ![t] = "leave"]
  <2>1. \A x \in Threads : at'[x] # "cvsleep" /\ (at'[x] = "parting" => at[x] = "parting")
    BY <1>0, <1>2 DEF CvSleepers
  <2>2. CvSleepers' = {}
    BY <2>1 DEF CvSleepers
  <2>3. ConcernedStale'
    BY <1>0, <1>1, <2>1, StaleKept DEF ConcernInv
  <2> QED
    BY <2>2, <2>3 DEF ConcernInv, BcastInv, SignalInv
<1>3. ASSUME NEW s \in CvSleepers, at' = [at EXCEPT ![t] = "leave", ![s] = "relock"],
             pc' = [pc EXCEPT ![s] = "retake"]
      PROVE  ConcernInv'
  <2>1. s \in Threads /\ at[s] = "cvsleep" /\ s # t
    BY <1>1 DEF CvSleepers
  <2>2. /\ at'[s] = "relock" /\ at'[t] = "leave"
        /\ \A x \in Threads \ {s, t} : at'[x] = at[x]
    BY <1>0, <1>3, <2>1
  <2>3. ConcernedStale'
    BY <1>0, <1>1, <2>1, <2>2, StaleKept DEF ConcernInv
  <2>4. BcastInv'
    <3> SUFFICES ASSUME version = 1, NEW x \in due, x \in Threads, at'[x] = "cvsleep"
                 PROVE  \/ \E r \in Threads : at'[r] \in {"flag", "requeue"}
                        \/ bcast = 1 /\ \E r \in Threads : at'[r] \in {"cvwake", "relock"}
      BY <1>1 DEF BcastInv, CvSleepers
    <3>1. x \in due \cap CvSleepers
      BY <2>1, <2>2 DEF CvSleepers
    <3>2. \/ \E r \in Threads : at[r] \in {"flag", "requeue"}
          \/ bcast = 1
      BY <3>1 DEF ConcernInv, BcastInv
    <3>3. ASSUME NEW r \in Threads, at[r] \in {"flag", "requeue"}
          PROVE  at'[r] = at[r]
      BY <1>1, <2>1, <2>2, <3>3
    <3> QED
      BY <2>1, <2>2, <3>2, <3>3
  <2>5. SignalInv'
    <3> SUFFICES ASSUME NEW w \in owed, w \in Threads, at'[w] = "cvsleep"
                 PROVE  FALSE
      BY <1>1 DEF SignalInv, CvSleepers
    <3>1. w \in owed \cap CvSleepers /\ w # s
      BY <2>1, <2>2 DEF CvSleepers
    <3>2. Waiting = {w} /\ s \in Waiting
      BY <2>1, <3>1 DEF ConcernInv, SignalInv, Waiting, Blocked
    <3> QED
      BY <3>1, <3>2
  <2> QED
    BY <2>3, <2>4, <2>5 DEF ConcernInv
<1> QED
  BY <1>2, <1>3 DEF CvWake, CvReturn, Goto

LEMMA InitConcerns == Init => ConcernInv
BY DEF Init, ConcernInv, ConcernedStale, BcastInv, SignalInv

LEMMA StepConcerns == ExclusiveInv /\ ConcernInv /\ [Next]_vars => ConcernInv'
<1> SUFFICES ASSUME ExclusiveInv, ConcernInv, [Next]_vars PROVE ConcernInv'
  OBVIOUS
<1>1. ASSUME NEW t \in Threads, Requeue(t) PROVE ConcernInv'
  BY <1>1, MoveSleepersConcerns DEF Requeue
<1>2. ASSUME NEW t \in Threads, Step(t) PROVE ConcernInv'
  BY <1>1, <1>2, MutexStepConcerns, CalmConcerns, RelockedConcerns, CmpRequeueConcerns, PostConcerns,
     SetBcastConcerns, CvWakeConcerns DEF Step
<1>3. CASE UNCHANGED vars
  BY <1>3 DEF vars, mutexVars, callVars, ghosts, ConcernInv, ConcernedStale, BcastInv, SignalInv,
     CvSleepers, Waiting, Blocked, HasLock
<1> QED
  BY <1>2, <1>3, MutexStepConcerns, CalmConcerns DEF Next

\* When every call has come to rest, who is still concerned by a broadcast or
\* a signal sleeps on seq, and so does everybody who is in a call.
LEMMA ConcernedAtRest ==
  ASSUME ExclusiveInv, NobodyStranded, Quiet, ~leaked, version = 1 \/ ~moved,
         NEW t \in due \cup owed
  PROVE  /\ t \in CvSleepers
         /\ \A s \in Threads : at[s] \in {"idle", "cvsleep"}
<1>1. \A s \in Threads : at[s] = "idle" \/ at[s] = "cvsleep"
  BY DEF NobodyStranded, Quiet, Asleep
<1>2. t \in Threads /\ at[t] \in {"parting", "cvsleep", "relock"}
  BY DEF ExclusiveInv, TypeOK, CallShape, CallShapeOf, Blocked
<1> QED
  BY <1>1, <1>2 DEF CvSleepers

\* In version 1 a broadcast reaches everyone who was waiting when it began,
\* for any threads and calls.
THEOREM CondBroadcastReachesAll == Spec => []BroadcastReachesAll
<1>1. ExclusiveInv /\ NobodyStranded /\ ConcernInv => BroadcastReachesAll
  <2> SUFFICES ASSUME ExclusiveInv, NobodyStranded, BcastInv, version = 1, Quiet, ~leaked,
                      NEW t \in due
               PROVE  FALSE
    BY DEF BroadcastReachesAll, ConcernInv
  <2>1. t \in CvSleepers /\ \A s \in Threads : at[s] \in {"idle", "cvsleep"}
    BY ConcernedAtRest
  <2> QED
    BY <2>1 DEF BcastInv
<1> QED
  BY <1>1, InitExclusive, StepExclusive, InitConcerns, StepConcerns,
     CondNobodyStranded, PTL DEF Spec

\* A signal given with the mutex held reaches the only thread that was
\* waiting, for any threads and calls.
THEOREM CondSignalReachesWaiter == Spec => []SignalReachesWaiter
<1>1. ExclusiveInv /\ NobodyStranded /\ ConcernInv => SignalReachesWaiter
  <2> SUFFICES ASSUME ExclusiveInv, NobodyStranded, SignalInv, Quiet, ~leaked, version = 1 \/ ~moved,
                      NEW t \in owed
               PROVE  FALSE
    BY DEF SignalReachesWaiter, ConcernInv
  <2>1. t \in CvSleepers /\ \A s \in Threads : at[s] \in {"idle", "cvsleep"}
    BY ConcernedAtRest
  <2> QED
    BY <2>1 DEF SignalInv
<1> QED
  BY <1>1, InitExclusive, StepExclusive, InitConcerns, StepConcerns,
     CondNobodyStranded, PTL DEF Spec
=============================================================================
