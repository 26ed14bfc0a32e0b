------------------------------ MODULE FutexCond ------------------------------
(***************************************************************************)
(* The futex condition variable of mutex.h on the futex mutex, used the    *)
(* way the darc_condwait calls use them when MUTEXCONDWAIT is defined, and *)
(* threads that call the mutex directly.  The two builds of the mutex and  *)
(* the condition variable are two versions of one machine: version is      *)
(* chosen in Init.                                                         *)
(*                                                                         *)
(* A wait reads seq, releases the mutex and sleeps in the kernel unless    *)
(* seq has changed.  A broadcast wakes one sleeper and sets bcast: whoever *)
(* next gets the mutex back from a wait moves the other sleepers to the    *)
(* futex of the mutex, so that unlocking it wakes them one by one.         *)
(*                                                                         *)
(* All callers use one mutex, so that mid, read and written under it, is   *)
(* -1 or that mutex and never makes a wait fail.                           *)
(***************************************************************************)
EXTENDS Integers

CONSTANTS
  Threads,
  Values,     \* what `value' may be
  Initial,    \* what it is initialised to
  NoValue,    \* no value: the calls without one
  Menu,       \* the calls that are made, <<operation, value>>
  NoOne,      \* no thread
  MaxCalls    \* bound: calls made by all threads together

Waits   == {"wait", "timedwait"}
Posts   == {"signal", "broadcast"}
Direct  == {"trylock", "timedlock"}

ASSUME CondAssumption ==
  /\ Menu \subseteq ((Waits \cup Posts) \X (Values \cup {NoValue}))
                     \cup ({"setvalue"} \X Values) \cup (Direct \X {NoValue})
  /\ Initial \in Values /\ NoValue \notin Values
  /\ NoOne \notin Threads /\ MaxCalls \in Nat

VARIABLES
  u, pc, timed, retval, leaked,   \* the mutex
  requeued,     \* threads whose wait for seq was moved to the mutex
  bcast,        \* of cv_t
  value,        \* darc_condwait_t
  at,           \* thread -> where it is in the calls above the mutex's
  op, arg,      \* thread -> its call, and the value it is for
  fresh,        \* threads that have read seq, of cv_t, and still find it so
  version,      \* which build
  calls,        \* calls made so far
  due,          \* history: waiting when a broadcast began, and not yet out
  owed,         \* history: the only one waiting when a signal began under the
                \* mutex, and not yet out
  moved         \* history: sleepers were moved from seq to the mutex

V1 == INSTANCE FutexMutex
V2 == INSTANCE FutexMutexOpt

mutexVars == <<u, pc, timed, retval, leaked, requeued>>
callVars  == <<op, arg, calls, version>>
ghosts    == <<due, owed, moved>>
vars      == <<mutexVars, bcast, value, at, fresh, callVars, ghosts>>

HasLock(t) == pc[t] \in {"held", "release"}

\* Blocked as POSIX has it: the mutex released, seq read, not yet woken.
Blocked(t) == at[t] = "cvsleep" \/ (at[t] = "parting" /\ ~HasLock(t))
Waiting    == {t \in Threads : Blocked(t)}
CvSleepers == {t \in Threads : at[t] = "cvsleep"}

Init ==
  /\ version \in {1, 2}
  /\ V1!MutexInit /\ requeued = {}
  /\ bcast = 0
  /\ value = Initial
  /\ at = [t \in Threads |-> "idle"]
  /\ op = [t \in Threads |-> "none"]
  /\ arg = [t \in Threads |-> NoValue]
  /\ fresh = {}
  /\ calls = 0
  /\ due = {} /\ owed = {} /\ moved = FALSE

\* cond_timedwait of version 2 takes the result of its wait for the mutex for
\* that of its wait for seq, and looks at bcast only when that is 0.
Careless(t) == version = 2 /\ op[t] = "timedwait" /\ at[t] = "relock"

MutexStep(t) ==
  /\ LET looks == t \in timed \/ Careless(t)
     IN IF version = 1 THEN V1!MutexStep(t, looks) ELSE V2!MutexStep(t, looks)
  /\ requeued' = requeued \ {t}
  /\ UNCHANGED <<bcast, value, at, fresh, callVars, ghosts>>

Unlock(t)  == IF version = 1 THEN V1!Unlock(t) ELSE V2!Unlock(t)
TryLock(t) == IF version = 1 THEN V1!TryLock(t) ELSE V2!TryLock(t)

\* The time of mutex_timedlock is up, or that of a cond_timedwait whose sleeper
\* was moved to the mutex and has not been woken there.
MutexTimedOut(t) ==
  /\ t \in timed \/ (t \in requeued /\ op[t] = "timedwait")
  /\ V1!TimedOut(t)
  /\ UNCHANGED <<requeued, bcast, value, at, fresh, callVars, ghosts>>

Goto(t, from, to) == at[t] = from /\ at' = [at EXCEPT ![t] = to]

-----------------------------------------------------------------------------
(* Calls begin and end.                                                    *)

Begin(t, o, v) ==
  /\ <<o, v>> \in Menu
  /\ calls < MaxCalls /\ calls' = calls + 1
  /\ op' = [op EXCEPT ![t] = o]
  /\ arg' = [arg EXCEPT ![t] = v]
  /\ UNCHANGED <<bcast, value, fresh, version, ghosts>>

\* The calls that take the mutex first.
Enter(t, o, v) ==
  /\ o \in Waits \/ (o \in Posts \cup {"setvalue"} /\ v # NoValue)
  /\ Goto(t, "idle", "enter")
  /\ V1!Lock(t, FALSE) /\ UNCHANGED requeued
  /\ Begin(t, o, v)

\* darc_condwait_signal and darc_condwait_broadcast.
PostUnlocked(t, o) ==
  /\ Goto(t, "idle", "post")
  /\ Begin(t, o, NoValue)
  /\ UNCHANGED mutexVars

\* A user of the mutex: mutex_trylock or mutex_timedlock, then mutex_unlock
\* when that succeeded.
UseMutex(t, o) ==
  /\ Goto(t, "idle", "leave")
  /\ IF o = "trylock" THEN TryLock(t) ELSE V1!Lock(t, TRUE)
  /\ UNCHANGED requeued
  /\ Begin(t, o, NoValue)

Leave(t) ==
  /\ at[t] = "leave" /\ Unlock(t)
  /\ UNCHANGED <<requeued, bcast, value, at, fresh, callVars, ghosts>>

Return(t) ==
  /\ pc[t] = "out" /\ Goto(t, "leave", "idle")
  /\ op' = [op EXCEPT ![t] = "none"]
  /\ arg' = [arg EXCEPT ![t] = NoValue]
  /\ retval' = [retval EXCEPT ![t] = "0"]
  /\ UNCHANGED <<u, pc, timed, leaked, requeued, bcast, value, fresh, calls, version, ghosts>>

-----------------------------------------------------------------------------
(* cond_wait and cond_timedwait.                                           *)

\* Mutant: the value is not compared.
BeginWaitAnyway(t) ==
  /\ op[t] \in Waits /\ pc[t] = "held"
  /\ Goto(t, "enter", "parting")
  /\ fresh' = fresh \cup {t}
  /\ UNCHANGED <<mutexVars, bcast, value, callVars, ghosts>>

\* The value is compared, and seq read, with the mutex held.
BeginWait(t) ==
  /\ op[t] \in Waits /\ pc[t] = "held"
  /\ Goto(t, "enter", IF arg[t] \in {NoValue, value} THEN "parting" ELSE "leave")
  /\ fresh' = IF arg[t] \in {NoValue, value} THEN fresh \cup {t} ELSE fresh
  /\ UNCHANGED <<mutexVars, bcast, value, callVars, ghosts>>

Part(t) ==
  /\ at[t] = "parting" /\ Unlock(t)
  /\ UNCHANGED <<requeued, bcast, value, at, fresh, callVars, ghosts>>

\* FUTEX_WAIT on seq.
CvSleep(t) ==
  /\ pc[t] = "out" /\ t \in fresh
  /\ Goto(t, "parting", "cvsleep")
  /\ fresh' = fresh \ {t}
  /\ UNCHANGED <<mutexVars, bcast, value, callVars, ghosts>>

\* FUTEX_WAIT returned to thread t: it goes for the mutex.
CvReturn(t, r) ==
  /\ pc' = [pc EXCEPT ![t] = "retake"]
  /\ retval' = [retval EXCEPT ![t] = r]
  /\ UNCHANGED <<u, timed, leaked, requeued>>

CvAgain(t) ==
  /\ pc[t] = "out" /\ t \notin fresh
  /\ Goto(t, "parting", "relock")
  /\ CvReturn(t, IF op[t] = "timedwait" THEN "-1" ELSE "0")
  /\ UNCHANGED <<bcast, value, fresh, callVars, ghosts>>

CvTimedOut(t) ==
  /\ op[t] = "timedwait" /\ Goto(t, "cvsleep", "relock")
  /\ CvReturn(t, "ETIMEDOUT")
  /\ UNCHANGED <<bcast, value, fresh, callVars, ghosts>>

LooksAtBcast(t) == Careless(t) => retval[t] = "0"

Relocked(t) ==
  /\ pc[t] = "held"
  /\ Goto(t, "relock", IF LooksAtBcast(t) /\ bcast = 1 THEN "requeue" ELSE "leave")
  /\ bcast' = IF LooksAtBcast(t) THEN 0 ELSE bcast
  /\ due' = due \ {t} /\ owed' = owed \ {t} /\ UNCHANGED moved
  /\ UNCHANGED <<mutexVars, value, fresh, callVars>>

\* The sleepers of seq become sleepers of the mutex.
MoveSleepers(t) ==
  /\ at' = [s \in Threads |-> IF s = t THEN "leave"
                              ELSE IF s \in CvSleepers THEN "relock" ELSE at[s]]
  /\ pc' = [s \in Threads |-> IF s \in CvSleepers THEN "asleep" ELSE pc[s]]
  /\ requeued' = requeued \cup CvSleepers
  /\ moved' = (moved \/ CvSleepers # {})
  /\ UNCHANGED <<u, timed, retval, leaked>>

Requeue(t) ==
  /\ version = 1 /\ at[t] = "requeue"
  /\ MoveSleepers(t)
  /\ UNCHANGED <<bcast, value, fresh, callVars, due, owed>>

ReadSeq(t) ==
  /\ version = 2 /\ Goto(t, "requeue", "cmprequeue")
  /\ fresh' = fresh \cup {t}
  /\ UNCHANGED <<mutexVars, bcast, value, callVars, ghosts>>

\* FUTEX_CMP_REQUEUE does nothing when seq is not what was read of it.
CmpRequeue(t) ==
  /\ at[t] = "cmprequeue"
  /\ IF t \in fresh THEN MoveSleepers(t)
     ELSE Goto(t, "cmprequeue", "leave") /\ UNCHANGED <<mutexVars, moved>>
  /\ fresh' = fresh \ {t}
  /\ UNCHANGED <<bcast, value, callVars, due, owed>>

-----------------------------------------------------------------------------
(* cond_signal, cond_broadcast, darc_condwait_setvalue.                    *)

\* Mutant: seq stays as it was.
PostSameSeq(t) ==
  /\ op[t] \in Posts
  /\ at[t] = "post" \/ (at[t] = "enter" /\ pc[t] = "held")
  /\ Goto(t, at[t], IF op[t] = "signal" THEN "cvwake" ELSE "flag")
  /\ value' = IF arg[t] = NoValue THEN value ELSE arg[t]
  /\ due' = IF op[t] = "broadcast" THEN due \cup Waiting ELSE due
  /\ owed' = IF op[t] = "signal" /\ HasLock(t) /\ (\E w \in Threads : Waiting = {w})
             THEN owed \cup Waiting ELSE owed
  /\ UNCHANGED <<mutexVars, bcast, fresh, callVars, moved>>

\* The value is stored and seq incremented: nobody's copy of seq is good now.
Post(t) ==
  /\ op[t] \in Posts
  /\ at[t] = "post" \/ (at[t] = "enter" /\ pc[t] = "held")
  /\ Goto(t, at[t], IF op[t] = "signal" THEN "cvwake" ELSE "flag")
  /\ value' = IF arg[t] = NoValue THEN value ELSE arg[t]
  /\ fresh' = {}
  /\ due' = IF op[t] = "broadcast" THEN due \cup Waiting ELSE due
  /\ owed' = IF op[t] = "signal" /\ HasLock(t) /\ (\E w \in Threads : Waiting = {w})
             THEN owed \cup Waiting ELSE owed
  /\ UNCHANGED <<mutexVars, bcast, callVars, moved>>

\* Mutant: one sleeper is woken, and nobody told to move the others.
SetBcastNever(t) ==
  /\ Goto(t, "flag", "cvwake")
  /\ UNCHANGED <<mutexVars, bcast, value, fresh, callVars, ghosts>>

SetBcast(t) ==
  /\ Goto(t, "flag", "cvwake")
  /\ bcast' = 1
  /\ UNCHANGED <<mutexVars, value, fresh, callVars, ghosts>>

CvWake(t) ==
  /\ at[t] = "cvwake"
  /\ \/ CvSleepers = {} /\ Goto(t, "cvwake", "leave") /\ UNCHANGED mutexVars
     \/ \E s \in CvSleepers : /\ at' = [at EXCEPT ![t] = "leave", ![s] = "relock"]
                              /\ CvReturn(s, "0")
  /\ UNCHANGED <<bcast, value, fresh, callVars, ghosts>>

SetValue(t) ==
  /\ op[t] = "setvalue" /\ pc[t] = "held" /\ Goto(t, "enter", "leave")
  /\ value' = arg[t]
  /\ UNCHANGED <<mutexVars, bcast, fresh, callVars, ghosts>>

-----------------------------------------------------------------------------
Step(t) ==
  \/ MutexStep(t) \/ Leave(t) \/ Return(t)
  \/ BeginWait(t) \/ Part(t) \/ CvSleep(t) \/ CvAgain(t) \/ Relocked(t)
  \/ Requeue(t) \/ ReadSeq(t) \/ CmpRequeue(t)
  \/ Post(t) \/ SetBcast(t) \/ CvWake(t) \/ SetValue(t)

NewCall(t) ==
  \/ \E o \in Waits \cup Posts \cup {"setvalue"}, v \in Values \cup {NoValue} : Enter(t, o, v)
  \/ \E o \in Posts : PostUnlocked(t, o)
  \/ \E o \in Direct : UseMutex(t, o)

Next == \E t \in Threads : Step(t) \/ NewCall(t) \/ MutexTimedOut(t) \/ CvTimedOut(t)

Spec == Init /\ [][Next]_vars
-----------------------------------------------------------------------------
(* Properties.                                                             *)

PcPlaces == {"out", "lock", "wait", "asleep", "retake", "held", "release",
             "handoff", "clear", "wake"}
AtPlaces == {"idle", "enter", "parting", "cvsleep", "relock", "requeue", "cmprequeue",
             "post", "flag", "cvwake", "leave"}

\* The types of the variables.
TypeOK ==
  /\ version \in {1, 2}
  /\ u \in (IF version = 1 THEN {0, 1, 2} ELSE {0, 1, 256, 257})
  /\ pc \in [Threads -> PcPlaces] /\ at \in [Threads -> AtPlaces]
  /\ timed \subseteq Threads /\ leaked \in BOOLEAN /\ requeued \subseteq Threads
  /\ retval \in [Threads -> V1!Results]
  /\ bcast \in {0, 1} /\ value \in Values
  /\ op \in [Threads -> Waits \cup Posts \cup Direct \cup {"setvalue", "none"}]
  /\ arg \in [Threads -> Values \cup {NoValue}]
  /\ fresh \subseteq Threads /\ calls \in Nat
  /\ due \subseteq Threads /\ owed \subseteq Threads /\ moved \in BOOLEAN

Taken == IF version = 1 THEN u # 0 ELSE u % 256 = 1

\* The word says that the mutex is taken exactly when one thread has it, or a
\* mutex_timedlock took it in a call it then reported as failed: no thread
\* enters while another is between its lock and its unlock, requeued waiters
\* included, and no late clearing of `contended' frees a held mutex.
Exclusive ==
  /\ \A s, t \in Threads : HasLock(s) /\ HasLock(t) => s = t
  /\ Taken <=> leaked \/ \E t \in Threads : HasLock(t)
  /\ leaked => \A t \in Threads : ~HasLock(t)

Asleep(t) == pc[t] = "asleep" \/ at[t] = "cvsleep"

\* Nobody is running inside a call: only a new call, a time-out or a signal
\* handler can wake a sleeper now.
Quiet == \A t \in Threads : at[t] = "idle" \/ Asleep(t)

\* No lost wakeup of the mutex: a thread sleeps on it only while somebody has
\* yet to unlock it.  In version 2 that is so until sleepers of seq are moved
\* to it.
NobodyStranded ==
  Quiet /\ ~leaked /\ (version = 1 \/ ~moved) =>
    \A t \in Threads : pc[t] # "asleep"

\* A broadcast reaches everyone who was waiting when it began, also those who
\* were about to sleep, and those a timed-out waiter requeued (version 1).
BroadcastReachesAll == version = 1 /\ Quiet /\ ~leaked => due = {}

\* A signal given with the mutex held reaches the thread that was waiting.
SignalReachesWaiter == Quiet /\ ~leaked /\ (version = 1 \/ ~moved) => owed = {}

\* cond_broadcast says "We are waking everyone up".
BroadcastWakesEveryone == Quiet /\ ~leaked => due = {}

\* What both versions implement: darc_condwait on a POSIX mutex and
\* condition variable.
Place(t) ==
  CASE op[t] \in Direct \/ at[t] = "idle" -> "idle"
    [] at[t] = "post" -> "posting"
    [] at[t] = "enter" \/ (at[t] = "parting" /\ HasLock(t)) -> "entering"
    [] Blocked(t) /\ t \notin due \cup owed -> "waiting"
    [] (Blocked(t) /\ t \in due \cup owed) \/ at[t] = "relock" -> "woken"
    [] OTHER -> "leaving"

Only(H)  == IF H = {} THEN NoOne ELSE CHOOSE t \in H : TRUE
Holders  == {t \in Threads : HasLock(t)}
Holder   == Only(Holders)
Places   == [t \in Threads |-> Place(t)]
Ops      == [t \in Threads |-> IF op[t] \in Direct THEN "none" ELSE op[t]]

Abstract == INSTANCE CondwaitSpec WITH owner <- Holder, place <- Places, op <- Ops

ImplementsCondwait == Abstract!Spec
=============================================================================
