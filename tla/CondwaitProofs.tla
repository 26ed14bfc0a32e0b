--------------------------- MODULE CondwaitProofs ---------------------------
(***************************************************************************)
(* Every step of FutexCond, in both versions, is a step of CondwaitSpec or *)
(* changes nothing in it, for any threads, values and calls.               *)
(***************************************************************************)
EXTENDS FutexCondProofs

-----------------------------------------------------------------------------
(* Who holds the mutex, and where threads are, before and after a step.      *)

LEMMA OnlyOne == (\A x : Only({x}) = x) /\ Only({}) = NoOne
BY DEF Only

LEMMA HolderIs ==
  ASSUME Exclusive
  PROVE  /\ \A t \in Threads : HasLock(t) => Holder = t
         /\ (\A t \in Threads : ~HasLock(t)) => Holder = NoOne
<1>1. ASSUME NEW t \in Threads, HasLock(t) PROVE Holders = {t}
  BY <1>1 DEF Exclusive, Holders
<1>2. ASSUME \A t \in Threads : ~HasLock(t) PROVE Holders = {}
  BY <1>2 DEF Holders
<1> QED BY <1>1, <1>2, OnlyOne DEF Holder

LEMMA HolderIsNext ==
  ASSUME Exclusive'
  PROVE  /\ \A t \in Threads : HasLock(t)' => Holder' = t
         /\ (\A t \in Threads : ~HasLock(t)') => Holder' = NoOne
<1>1. ASSUME NEW t \in Threads, HasLock(t)' PROVE Holders' = {t}
  BY <1>1 DEF Exclusive, Holders
<1>2. ASSUME \A t \in Threads : ~HasLock(t)' PROVE Holders' = {}
  BY <1>2 DEF Holders
<1> QED BY <1>1, <1>2, OnlyOne DEF Holder

LEMMA HolderKept ==
  ASSUME \A t \in Threads : HasLock(t)' <=> HasLock(t)
  PROVE  Holder' = Holder
<1>1. Holders' = Holders
  BY DEF Holders
<1> QED BY <1>1 DEF Holder

LEMMA PlaceKept ==
  ASSUME NEW s \in Threads, at'[s] = at[s], op'[s] = op[s], HasLock(s)' <=> HasLock(s),
         s \in due' <=> s \in due, s \in owed' <=> s \in owed
  PROVE  Place(s)' = Place(s)
BY DEF Place, Blocked

LEMMA PlacesKept ==
  ASSUME \A s \in Threads : Place(s)' = Place(s)
  PROVE  Places' = Places
BY DEF Places

Maps == [Abstract!Next]_(Abstract!vars)

-----------------------------------------------------------------------------
LEMMA MoveMaps ==
  ASSUME ExclusiveInv, NEW t \in Threads, MutexMove(t),
         pc[t] = "held" => at[t] \in {"parting", "leave"},
         UNCHANGED <<bcast, value, at, fresh, callVars, ghosts>>
  PROVE  Maps
<1> USE DEF Maps, callVars, ghosts
<1>0. Exclusive /\ Exclusive' /\ CallShapeOf(t) /\ at[t] \in AtPlaces
  BY DEF ExclusiveInv, MutexMove, CallShape, TypeOK
<1>1. \A s \in Threads \ {t} : HasLock(s)' <=> HasLock(s)
  BY DEF MutexMove, HasLock
<1>2. \A s \in Threads \ {t} : Place(s)' = Place(s)
  BY <1>1, PlaceKept
<1>3. Ops' = Ops
  BY DEF Ops
<1>4. CASE HasLock(t)' <=> HasLock(t)
  <2>1. Place(t)' = Place(t)
    BY <1>4, PlaceKept
  <2>2. Places' = Places
    BY <1>2, <2>1, PlacesKept
  <2>3. Holder' = Holder
    BY <1>1, <1>4, HolderKept
  <2> QED BY <1>3, <2>2, <2>3 DEF Abstract!vars
<1>5. CASE HasLock(t)' /\ ~HasLock(t)
  <2>1. Holder' = t /\ Holder = NoOne
    BY <1>0, <1>1, <1>5, HolderIs, HolderIsNext DEF Exclusive
  <2>2. pc[t] \in Locking
    BY <1>5 DEF MutexMove, HasLock, Unlocking
  <2>3. Place(t)' = Place(t) /\ Place(t) \in {"idle", "entering", "woken"}
    <3>1. at[t] \in {"enter", "relock"} \/ op[t] \in Direct
      BY <1>0, <2>2 DEF CallShapeOf, AtPlaces, Locking, Unlocking
    <3>2. at'[t] = at[t] /\ op'[t] = op[t]
      OBVIOUS
    <3>3. op[t] \in Direct => at[t] = "leave"
      BY <1>0 DEF CallShapeOf
    <3> QED BY <3>1, <3>2, <3>3 DEF Place, Blocked
  <2>4. Places' = Places /\ Places[t] = Place(t)
    BY <1>2, <2>3, PlacesKept DEF Places
  <2>5. Abstract!Acquire(t)
    BY <1>3, <2>1, <2>3, <2>4 DEF Abstract!Acquire
  <2> QED BY <2>5 DEF Abstract!Next, Abstract!Step
<1>6. CASE ~HasLock(t)' /\ HasLock(t)
  <2>1. Holder' = NoOne /\ Holder = t
    BY <1>0, <1>1, <1>6, HolderIs, HolderIsNext DEF Exclusive
  <2>2. CASE at[t] = "leave"
    <3>1. Place(t)' = Place(t) /\ Place(t) \in {"idle", "leaving"}
      BY <1>0, <2>2 DEF CallShapeOf, Place, Blocked, HasLock
    <3>2. Places' = Places /\ Places[t] = Place(t)
      BY <1>2, <3>1, PlacesKept DEF Places
    <3>3. Abstract!Release(t)
      BY <1>3, <2>1, <3>1, <3>2 DEF Abstract!Release
    <3> QED BY <3>3 DEF Abstract!Next, Abstract!Step
  <2>3. CASE at[t] = "parting"
    <3>1. Place(t) = "entering" /\ Place(t)' = "waiting"
      BY <1>0, <1>6, <2>3 DEF CallShapeOf, Place, Blocked, HasLock, Waits, Direct
    <3>2. Places' = [Places EXCEPT ![t] = "waiting"] /\ Places[t] = "entering"
      BY <1>2, <3>1 DEF Places
    <3>3. arg[t] \in {NoValue, value} /\ Ops[t] \in Waits
      BY <1>0, <1>6, <2>3 DEF CallShapeOf, Ops, Waits, Direct
    <3>4. Abstract!BeginWait(t)
      BY <1>3, <2>1, <3>2, <3>3 DEF Abstract!BeginWait, Abstract!Goto, Abstract!Waits, Waits
    <3> QED BY <3>4 DEF Abstract!Next, Abstract!Step
  <2>4. at[t] \in {"parting", "leave"}
    BY <1>0, <1>6 DEF CallShapeOf, HasLock, AtPlaces, Unlocking
  <2> QED BY <2>2, <2>3, <2>4
<1> QED BY <1>4, <1>5, <1>6

\* A step that leaves the mutex and the calls alone, and moves threads from
\* waiting to woken at most.
LEMMA WokenMaps ==
  ASSUME \A s \in Threads : HasLock(s)' <=> HasLock(s),
         \A s \in Threads : Place(s)' = Place(s) \/ (Place(s) = "waiting" /\ Place(s)' = "woken"),
         UNCHANGED <<value, op, arg>>
  PROVE  Maps
<1> DEFINE S == {s \in Threads : Place(s) = "waiting" /\ Place(s)' = "woken"}
<1>1. Holder' = Holder
  BY HolderKept
<1>2. Ops' = Ops
  BY DEF Ops
<1>3. Places' = [s \in Threads |-> IF s \in S THEN "woken" ELSE Places[s]]
  BY DEF Places
<1>4. S \in SUBSET Threads /\ S \subseteq Abstract!Waiting
  BY DEF Places, Abstract!Waiting
<1> HIDE DEF S
<1>5. Abstract!Woken(S)
  BY <1>1, <1>2, <1>3, <1>4 DEF Abstract!Woken
<1> QED BY <1>4, <1>5 DEF Maps, Abstract!Next

LEMMA OnePlace ==
  ASSUME NEW t \in Threads, NEW to, Place(t)' = to,
         \A s \in Threads \ {t} : Place(s)' = Place(s)
  PROVE  Places' = [Places EXCEPT ![t] = to] /\ Places[t] = Place(t)
BY DEF Places

LEMMA NotHolder ==
  ASSUME Exclusive, NEW t \in Threads, ~HasLock(t)
  PROVE  Holder # t
BY HolderIs, CondAssumption

-----------------------------------------------------------------------------
(* The steps of the condition variable, one by one.                          *)

LEMMA ReturnMaps ==
  ASSUME ExclusiveInv, NEW t \in Threads, Return(t)
  PROVE  Maps
<1> USE DEF Return, Goto
<1>0. Exclusive /\ CallShapeOf(t) /\ TypeOK
  BY DEF ExclusiveInv, CallShape
<1>1. \A s \in Threads : HasLock(s)' <=> HasLock(s)
  BY DEF HasLock
<1>2. \A s \in Threads \ {t} : Place(s)' = Place(s)
  BY <1>0, <1>1, PlaceKept DEF TypeOK, ghosts
<1>3. op' = [op EXCEPT ![t] = "none"] /\ at'[t] = "idle" /\ at[t] = "leave"
  BY <1>0 DEF TypeOK
<1>4. Place(t)' = "idle"
  BY <1>0, <1>3 DEF Place, Blocked, TypeOK, Direct
<1>5. CASE op[t] \in Direct
  <2>1. Ops' = Ops
    BY <1>0, <1>3, <1>5 DEF Ops, TypeOK, Direct
  <2>2. arg' = arg
    BY <1>0, <1>3, <1>5 DEF CallShapeOf, TypeOK
  <2>3. Place(t) = "idle"
    BY <1>3, <1>5 DEF Place, Blocked
  <2>4. Places' = Places
    BY <1>2, <1>4, <2>3, PlacesKept
  <2> QED BY <1>1, <2>1, <2>2, <2>4, HolderKept DEF Maps, Abstract!vars
<1>6. CASE op[t] \notin Direct
  <2>1. Ops' = [Ops EXCEPT ![t] = "none"] /\ Ops[t] # "none"
    BY <1>0, <1>3, <1>6 DEF Ops, TypeOK, CallShapeOf, Direct
  <2>2. Place(t) = "leaving"
    BY <1>3, <1>6 DEF Place, Blocked
  <2>3. Holder # t /\ Holder' = Holder
    BY <1>0, <1>1, NotHolder, HolderKept DEF HasLock
  <2>4. Abstract!Return(t)
    BY <1>2, <1>4, <2>1, <2>2, <2>3, OnePlace DEF Abstract!Return, Abstract!Goto
  <2> QED BY <2>4 DEF Maps, Abstract!Next, Abstract!Step
<1> QED BY <1>5, <1>6

LEMMA BeginWaitMaps ==
  ASSUME ExclusiveInv, NEW t \in Threads, BeginWait(t)
  PROVE  Maps
<1> USE DEF BeginWait, Goto, mutexVars, callVars, ghosts
<1>0. Exclusive /\ CallShapeOf(t) /\ TypeOK
  BY DEF ExclusiveInv, CallShape
<1>1. \A s \in Threads : HasLock(s)' <=> HasLock(s)
  BY DEF HasLock
<1>2. \A s \in Threads \ {t} : Place(s)' = Place(s)
  BY <1>0, <1>1, PlaceKept DEF TypeOK
<1>3. HasLock(t) /\ op[t] \notin Direct /\ op'[t] = op[t]
  BY DEF HasLock, Waits, Direct
<1>4. Place(t) = "entering"
  BY <1>3 DEF Place, Blocked
<1>5. CASE arg[t] \in {NoValue, value}
  <2>1. at'[t] = "parting"
    BY <1>0, <1>5 DEF TypeOK
  <2>2. Place(t)' = "entering"
    BY <1>1, <1>3, <2>1 DEF Place, Blocked
  <2> QED BY <1>1, <1>2, <1>4, <2>2, WokenMaps
<1>6. CASE arg[t] \notin {NoValue, value}
  <2>1. at'[t] = "leave"
    BY <1>0, <1>6 DEF TypeOK
  <2>2. Place(t)' = "leaving"
    BY <1>3, <2>1 DEF Place, Blocked
  <2>3. Ops' = Ops /\ Ops[t] \in Waits
    BY <1>3 DEF Ops
  <2>4. Holder = t /\ Holder' = t
    BY <1>0, <1>1, <1>3, HolderIs, HolderKept
  <2>5. Abstract!NoWait(t)
    BY <1>2, <1>4, <1>6, <2>2, <2>3, <2>4, OnePlace DEF Abstract!NoWait, Abstract!Goto, Abstract!Waits, Waits
  <2> QED BY <2>5 DEF Maps, Abstract!Next, Abstract!Step
<1> QED BY <1>5, <1>6

LEMMA CvSleepMaps ==
  ASSUME ExclusiveInv, NEW t \in Threads, CvSleep(t)
  PROVE  Maps
<1> USE DEF CvSleep, Goto, mutexVars, callVars, ghosts
<1>1. \A s \in Threads : HasLock(s)' <=> HasLock(s)
  BY DEF HasLock
<1>2. \A s \in Threads \ {t} : Place(s)' = Place(s)
  BY <1>1, PlaceKept DEF ExclusiveInv, TypeOK
<1>3. at[t] = "parting" /\ at'[t] = "cvsleep" /\ ~HasLock(t)
  BY DEF ExclusiveInv, TypeOK, HasLock
<1>4. op[t] \notin Direct
  BY <1>3 DEF ExclusiveInv, CallShape, CallShapeOf
<1>5. Place(t)' = Place(t)
  BY <1>1, <1>3, <1>4 DEF Place, Blocked
<1> QED BY <1>1, <1>2, <1>5, WokenMaps

LEMMA ReadSeqMaps ==
  ASSUME ExclusiveInv, NEW t \in Threads, ReadSeq(t) \/ SetBcast(t)
  PROVE  Maps
<1> USE DEF ReadSeq, SetBcast, Goto, mutexVars, callVars, ghosts
<1>1. \A s \in Threads : HasLock(s)' <=> HasLock(s)
  BY DEF HasLock
<1>2. \A s \in Threads \ {t} : Place(s)' = Place(s)
  BY <1>1, PlaceKept DEF ExclusiveInv, TypeOK
<1>3. at[t] \in {"requeue", "flag"} /\ at'[t] \in {"cmprequeue", "cvwake"}
  BY DEF ExclusiveInv, TypeOK
<1>4. op[t] \notin Direct /\ op'[t] = op[t]
  BY <1>3 DEF ExclusiveInv, CallShape, CallShapeOf
<1>5. Place(t)' = "leaving" /\ Place(t) = "leaving"
  BY <1>3, <1>4 DEF Place, Blocked
<1> QED BY <1>1, <1>2, <1>5, WokenMaps

LEMMA CvEndsMaps ==
  ASSUME ExclusiveInv, NEW t \in Threads, CvAgain(t) \/ CvTimedOut(t)
  PROVE  Maps
<1> USE DEF CvAgain, CvTimedOut, CvReturn, Goto, callVars, ghosts
<1>0. CallShapeOf(t) /\ TypeOK
  BY DEF ExclusiveInv, CallShape
<1>1. /\ at[t] \in {"parting", "cvsleep"} /\ at'[t] = "relock" /\ pc[t] = "out"
      /\ pc' = [pc EXCEPT ![t] = "retake"] /\ UNCHANGED <<value, op, arg, due, owed>>
  BY <1>0 DEF TypeOK, CallShapeOf
<1>2. \A s \in Threads : HasLock(s)' <=> HasLock(s)
  BY <1>0, <1>1 DEF HasLock, TypeOK
<1>3. \A s \in Threads \ {t} : Place(s)' = Place(s)
  BY <1>0, <1>1, <1>2, PlaceKept DEF TypeOK
<1>4. op[t] \notin Direct /\ ~HasLock(t)
  BY <1>0, <1>1 DEF CallShapeOf, HasLock
<1>5. Place(t) \in {"waiting", "woken"} /\ Place(t)' = "woken"
  BY <1>1, <1>4 DEF Place, Blocked
<1> QED BY <1>1, <1>2, <1>3, <1>5, WokenMaps

LEMMA RelockedMaps ==
  ASSUME ExclusiveInv, NEW t \in Threads, Relocked(t)
  PROVE  Maps
<1> USE DEF Relocked, Goto, mutexVars, callVars, ghosts
<1>0. Exclusive /\ CallShapeOf(t) /\ TypeOK
  BY DEF ExclusiveInv, CallShape
<1>1. \A s \in Threads : HasLock(s)' <=> HasLock(s)
  BY DEF HasLock
<1>2. \A s \in Threads \ {t} : Place(s)' = Place(s)
  BY <1>0, <1>1, PlaceKept DEF TypeOK
<1>3. at[t] = "relock" /\ at'[t] \in {"requeue", "leave"} /\ HasLock(t)
  BY <1>0 DEF TypeOK, HasLock
<1>4. op[t] \in Waits /\ op[t] \notin Direct /\ op'[t] = op[t]
  BY <1>0, <1>3 DEF CallShapeOf
<1>5. Place(t) = "woken" /\ Place(t)' = "leaving"
  BY <1>3, <1>4 DEF Place, Blocked
<1>6. Ops' = Ops /\ Ops[t] \in Waits
  BY <1>4 DEF Ops
<1>7. Holder = t /\ Holder' = t
  BY <1>0, <1>1, <1>3, HolderIs, HolderKept
<1>8. Abstract!Resume(t)
  BY <1>2, <1>5, <1>6, <1>7, OnePlace DEF Abstract!Resume, Abstract!Goto, Abstract!Waits, Waits
<1> QED BY <1>8 DEF Maps, Abstract!Next, Abstract!Step

LEMMA RequeueMaps ==
  ASSUME ExclusiveInv, NEW t \in Threads, Requeue(t) \/ CmpRequeue(t)
  PROVE  Maps
<1> USE DEF Requeue, CmpRequeue, Goto, mutexVars, callVars, ghosts
<1>0. CallShape /\ TypeOK
  BY DEF ExclusiveInv
<1>1. /\ at[t] \in {"requeue", "cmprequeue"} /\ at'[t] = "leave"
      /\ UNCHANGED <<value, op, arg, due, owed>>
  BY <1>0 DEF TypeOK, MoveSleepers
<1>2. op[t] \notin Direct
  BY <1>0, <1>1 DEF CallShape, CallShapeOf
<1>3. Place(t)' = "leaving" /\ Place(t) = "leaving"
  BY <1>1, <1>2 DEF Place, Blocked
<1>4. CASE MoveSleepers(t)
  <2>1. ASSUME NEW s \in Threads
        PROVE  HasLock(s)' <=> HasLock(s)
    BY <1>0, <1>4, <2>1 DEF MoveSleepers, CvSleepers, HasLock, CallShape, CallShapeOf, TypeOK
  <2>2. ASSUME NEW s \in CvSleepers
        PROVE  Place(s) \in {"waiting", "woken"} /\ Place(s)' = "woken"
    <3>1. at[s] = "cvsleep" /\ at'[s] = "relock" /\ op[s] \notin Direct
      BY <1>0, <1>1, <1>4, <2>2 DEF MoveSleepers, CvSleepers, CallShape, CallShapeOf
    <3> QED BY <1>1, <3>1 DEF Place, Blocked
  <2>3. ASSUME NEW s \in Threads \ {t}, s \notin CvSleepers
        PROVE  Place(s)' = Place(s)
    <3>1. at'[s] = at[s]
      BY <1>4, <2>3 DEF MoveSleepers
    <3> QED BY <1>1, <2>1, <3>1, PlaceKept
  <2> QED BY <1>1, <1>3, <2>1, <2>2, <2>3, WokenMaps DEF CvSleepers
<1>5. CASE at' = [at EXCEPT ![t] = "leave"] /\ UNCHANGED pc
  <2>1. \A s \in Threads : HasLock(s)' <=> HasLock(s)
    BY <1>5 DEF HasLock
  <2>2. \A s \in Threads \ {t} : Place(s)' = Place(s)
    BY <1>0, <1>1, <1>5, <2>1, PlaceKept DEF TypeOK
  <2> QED BY <1>1, <1>3, <2>1, <2>2, WokenMaps
<1> QED BY <1>4, <1>5

LEMMA CvWakeMaps ==
  ASSUME ExclusiveInv, NEW t \in Threads, CvWake(t)
  PROVE  Maps
<1> USE DEF CvWake, CvReturn, Goto, mutexVars, callVars, ghosts
<1>0. CallShape /\ TypeOK
  BY DEF ExclusiveInv
<1>1. /\ at[t] = "cvwake" /\ op[t] \notin Direct /\ UNCHANGED <<value, op, arg, due, owed>>
  BY <1>0 DEF CallShape, CallShapeOf
<1>2. Place(t) = "leaving"
  BY <1>1 DEF Place, Blocked
<1>3. CASE at' = [at EXCEPT ![t] = "leave"] /\ UNCHANGED pc
  <2>1. \A s \in Threads : HasLock(s)' <=> HasLock(s)
    BY <1>3 DEF HasLock
  <2>2. \A s \in Threads \ {t} : Place(s)' = Place(s)
    BY <1>0, <1>1, <1>3, <2>1, PlaceKept DEF TypeOK
  <2>3. Place(t)' = "leaving"
    BY <1>0, <1>1, <1>3 DEF Place, Blocked, TypeOK
  <2> QED BY <1>1, <1>2, <2>1, <2>2, <2>3, WokenMaps
<1>4. ASSUME NEW w \in CvSleepers, pc' = [pc EXCEPT ![w] = "retake"],
             at' = [at EXCEPT ![t] = "leave", ![w] = "relock"]
      PROVE  Maps
  <2>1. w \in Threads /\ at[w] = "cvsleep" /\ op[w] \notin Direct /\ pc[w] = "out" /\ w # t
    BY <1>0, <1>1 DEF CvSleepers, CallShape, CallShapeOf
  <2>2. at'[w] = "relock" /\ at'[t] = "leave" /\ \A s \in Threads \ {t, w} : at'[s] = at[s]
    BY <1>0, <1>4, <2>1 DEF TypeOK
  <2>3. \A s \in Threads : HasLock(s)' <=> HasLock(s)
    BY <1>0, <1>4, <2>1 DEF HasLock, TypeOK
  <2>4. \A s \in Threads \ {t, w} : Place(s)' = Place(s)
    BY <1>1, <2>2, <2>3, PlaceKept
  <2>5. Place(t)' = "leaving"
    BY <1>1, <2>2 DEF Place, Blocked
  <2>6. Place(w) \in {"waiting", "woken"} /\ Place(w)' = "woken"
    BY <1>1, <2>1, <2>2 DEF Place, Blocked
  <2> QED BY <1>1, <1>2, <2>3, <2>4, <2>5, <2>6, WokenMaps
<1> QED BY <1>3, <1>4

LEMMA PostMaps ==
  ASSUME ExclusiveInv, NEW t \in Threads, Post(t)
  PROVE  Maps
<1> USE DEF Post, Goto, mutexVars, callVars
<1>0. Exclusive /\ CallShape /\ TypeOK
  BY DEF ExclusiveInv
<1>1. \A s \in Threads : HasLock(s)' <=> HasLock(s)
  BY DEF HasLock
<1>2. /\ op[t] \in Posts /\ op[t] \notin Direct /\ op' = op /\ arg' = arg
      /\ at[t] \in {"post", "enter"} /\ at'[t] \in {"cvwake", "flag"}
      /\ \A s \in Threads \ {t} : at'[s] = at[s]
  BY <1>0 DEF TypeOK, Posts, Direct
<1>3. Place(t) \in {"posting", "entering"} /\ Place(t)' = "leaving"
  BY <1>2 DEF Place, Blocked
<1>4. Place(t) = "posting" \/ (Place(t) = "entering" /\ Holder = t)
  <2>1. CASE at[t] = "post"
    BY <1>2, <2>1 DEF Place, Blocked
  <2>2. CASE at[t] = "enter"
    BY <1>0, <1>3, <2>2, HolderIs DEF HasLock, Place
  <2> QED BY <1>2, <2>1, <2>2
<1>5. Holder' = Holder /\ Ops' = Ops /\ Ops[t] = op[t]
  BY <1>1, <1>2, HolderKept DEF Ops
<1>6. ~Blocked(t)
  BY <1>2 DEF Blocked
<1>7. ASSUME NEW s \in Threads \ {t} PROVE Blocked(s)' <=> Blocked(s)
  BY <1>1, <1>2 DEF Blocked
<1>8. CASE op[t] = "broadcast"
  <2>1. due' = due \cup Waiting /\ owed' = owed
    BY <1>8
  <2>2. ASSUME NEW s \in Threads \ {t}, Blocked(s)
        PROVE  Place(s)' = "woken" /\ Place(s) \in {"waiting", "woken"}
    <3>1. op[s] \notin Direct /\ at[s] \in {"parting", "cvsleep"}
      BY <1>0, <2>2 DEF CallShape, CallShapeOf, Blocked
    <3>2. s \in due'
      BY <2>1, <2>2 DEF Waiting
    <3> QED BY <1>1, <1>2, <2>2, <3>1, <3>2 DEF Place, Blocked
  <2>3. ASSUME NEW s \in Threads \ {t}, ~Blocked(s)
        PROVE  Place(s)' = Place(s) /\ Place(s) # "waiting"
    <3>1. s \in due' <=> s \in due
      BY <2>1, <2>3 DEF Waiting
    <3>2. Place(s)' = Place(s)
      BY <1>1, <1>2, <2>1, <3>1, PlaceKept
    <3>3. Place(s) # "waiting"
      BY <2>3 DEF Place
    <3> QED BY <3>2, <3>3
  <2>4. Places' = [s \in Threads |-> IF s = t THEN "leaving"
                                     ELSE IF s \in Abstract!Waiting THEN "woken" ELSE Places[s]]
    BY <1>3, <2>2, <2>3 DEF Places, Abstract!Waiting
  <2>5. Abstract!Post(t)
    BY <1>2, <1>4, <1>5, <1>8, <2>4 DEF Abstract!Post, Abstract!Posts, Posts, Abstract!WakeAll, Places
  <2> QED BY <2>5 DEF Maps, Abstract!Next, Abstract!Step
<1>9. CASE op[t] = "signal"
  <2>0. due' = due
    BY <1>9
  <2>1. CASE owed' = owed
    <3>1. \A s \in Threads \ {t} : Place(s)' = Place(s)
      BY <1>1, <1>2, <2>0, <2>1, PlaceKept
    <3>2. Places' = [Places EXCEPT ![t] = "leaving"] /\ Places[t] = Place(t)
      BY <1>3, <3>1, OnePlace
    <3>3. Abstract!Post(t)
      BY <1>2, <1>4, <1>5, <1>9, <3>2 DEF Abstract!Post, Abstract!Posts, Posts, Abstract!Goto
    <3> QED BY <3>3 DEF Maps, Abstract!Next, Abstract!Step
  <2>2. ASSUME NEW w \in Threads, Waiting = {w}, owed' = owed \cup Waiting, w \notin due \cup owed
        PROVE  Maps
    <3>1. Blocked(w) /\ w # t
      BY <1>6, <2>2 DEF Waiting
    <3>2. op[w] \notin Direct /\ at[w] \in {"parting", "cvsleep"} /\ w \in owed'
      BY <1>0, <2>2, <3>1 DEF CallShape, CallShapeOf, Blocked
    <3>3. Place(w) = "waiting" /\ Place(w)' = "woken"
      BY <1>1, <1>2, <2>2, <3>1, <3>2 DEF Place, Blocked
    <3>4. \A s \in Threads \ {t, w} : Place(s)' = Place(s)
      BY <1>1, <1>2, <2>0, <2>2, PlaceKept
    <3>5. Places' = [Places EXCEPT ![t] = "leaving", ![w] = "woken"]
      BY <1>3, <3>1, <3>3, <3>4 DEF Places
    <3>6. w \in Abstract!Waiting /\ Places[t] = Place(t)
      BY <3>3 DEF Places, Abstract!Waiting
    <3>7. Abstract!Post(t)
      BY <1>2, <1>4, <1>5, <1>9, <3>5, <3>6 DEF Abstract!Post, Abstract!Posts, Posts
    <3> QED BY <3>7 DEF Maps, Abstract!Next, Abstract!Step
  <2>3. ASSUME NEW w \in Threads, Waiting = {w}, owed' = owed \cup Waiting, w \in owed
        PROVE  owed' = owed
    BY <2>3
  <2>4. ASSUME NEW w \in Threads, Waiting = {w}, owed' = owed \cup Waiting, w \in due
        PROVE  Maps
    <3>1. \A s \in Threads \ {t} : Place(s)' = Place(s)
      <4>1. ASSUME NEW s \in Threads \ {t} PROVE s \in (due \cup owed)' <=> s \in due \cup owed
        BY <2>0, <2>4
      <4> QED BY <1>1, <1>2, <4>1 DEF Place, Blocked
    <3>2. Places' = [Places EXCEPT ![t] = "leaving"] /\ Places[t] = Place(t)
      BY <1>3, <3>1, OnePlace
    <3>3. Abstract!Post(t)
      BY <1>2, <1>4, <1>5, <1>9, <3>2 DEF Abstract!Post, Abstract!Posts, Posts, Abstract!Goto
    <3> QED BY <3>3 DEF Maps, Abstract!Next, Abstract!Step
  <2>5. owed' = owed \/ \E w \in Threads : Waiting = {w} /\ owed' = owed \cup Waiting
    BY DEF Post
  <2> QED BY <2>1, <2>2, <2>3, <2>4, <2>5
<1> QED BY <1>2, <1>8, <1>9 DEF Posts

LEMMA SetValueMaps ==
  ASSUME ExclusiveInv, NEW t \in Threads, SetValue(t)
  PROVE  Maps
<1> USE DEF SetValue, Goto, mutexVars, callVars, ghosts
<1>0. Exclusive /\ TypeOK
  BY DEF ExclusiveInv
<1>1. \A s \in Threads : HasLock(s)' <=> HasLock(s)
  BY DEF HasLock
<1>2. \A s \in Threads \ {t} : Place(s)' = Place(s)
  BY <1>0, <1>1, PlaceKept DEF TypeOK
<1>3. /\ at[t] = "enter" /\ at'[t] = "leave" /\ op'[t] = "setvalue" /\ op[t] = "setvalue"
      /\ "setvalue" \notin Direct
  BY <1>0 DEF TypeOK, Direct
<1>4. Place(t) = "entering" /\ Place(t)' = "leaving"
  BY <1>3 DEF Place, Blocked
<1>5. Holder = t /\ Holder' = t /\ Ops' = Ops /\ Ops[t] = "setvalue"
  BY <1>0, <1>1, <1>3, HolderIs, HolderKept DEF HasLock, Ops
<1>6. Abstract!SetValue(t)
  BY <1>2, <1>4, <1>5, OnePlace DEF Abstract!SetValue, Abstract!Goto
<1> QED BY <1>6 DEF Maps, Abstract!Next, Abstract!Step

-----------------------------------------------------------------------------
(* New calls, the initial states, and the theorem.                           *)

LEMMA CallMaps ==
  ASSUME ExclusiveInv, NEW t \in Threads,
         NEW o \in Waits \cup Posts \cup {"setvalue"}, NEW v \in Values \cup {NoValue},
         Enter(t, o, v) \/ (o \in Posts /\ v = NoValue /\ PostUnlocked(t, o))
  PROVE  Maps
<1> DEFINE to == IF Abstract!NoLock(o, v) THEN "posting" ELSE "entering"
<1>0. CallShapeOf(t) /\ TypeOK
  BY DEF ExclusiveInv, CallShape
<1>1. /\ at[t] = "idle" /\ at' = [at EXCEPT ![t] = IF Abstract!NoLock(o, v) THEN "post" ELSE "enter"]
      /\ op' = [op EXCEPT ![t] = o] /\ arg' = [arg EXCEPT ![t] = v]
      /\ UNCHANGED <<value, due, owed>>
  BY DEF Enter, PostUnlocked, Begin, Goto, ghosts, Abstract!NoLock, Abstract!Posts, Waits, Posts
<1>2. pc' = [pc EXCEPT ![t] = "lock"] \/ pc' = pc
  BY DEF Enter, PostUnlocked, V1!Lock, V1!Goto, mutexVars
<1>3. op[t] = "none" /\ pc[t] = "out"
  BY <1>0, <1>1 DEF CallShapeOf
<1>4. \A s \in Threads : HasLock(s)' <=> HasLock(s)
  BY <1>0, <1>2, <1>3 DEF HasLock, TypeOK
<1>5. \A s \in Threads \ {t} : Place(s)' = Place(s)
  BY <1>0, <1>1, <1>4, PlaceKept DEF TypeOK
<1>6. /\ at'[t] = (IF Abstract!NoLock(o, v) THEN "post" ELSE "enter")
      /\ op'[t] \notin Direct
  BY <1>0, <1>1 DEF TypeOK, Waits, Posts, Direct
<1>7. Place(t) = "idle" /\ Place(t)' = to
  BY <1>1, <1>6 DEF Place, Blocked
<1>8. Ops' = [Ops EXCEPT ![t] = o] /\ Ops[t] = "none"
  BY <1>0, <1>1, <1>3 DEF Ops, TypeOK, Waits, Posts, Direct
<1>9. Abstract!Call(t, o, v)
  BY <1>1, <1>4, <1>5, <1>7, <1>8, OnePlace, HolderKept DEF Abstract!Call, Abstract!Goto
<1> QED BY <1>9 DEF Maps, Abstract!Next, Abstract!Waits, Abstract!Posts, Waits, Posts

LEMMA UseMutexMaps ==
  ASSUME ExclusiveInv, ExclusiveInv', NEW t \in Threads, NEW o \in Direct, UseMutex(t, o)
  PROVE  Maps
<1>0. Exclusive /\ Exclusive' /\ CallShapeOf(t) /\ TypeOK
  BY DEF ExclusiveInv, CallShape
<1>1. /\ at[t] = "idle" /\ at' = [at EXCEPT ![t] = "leave"]
      /\ op' = [op EXCEPT ![t] = o] /\ arg' = [arg EXCEPT ![t] = NoValue]
      /\ UNCHANGED <<value, due, owed>>
  BY DEF UseMutex, Begin, Goto, ghosts
<1>2. op[t] = "none" /\ pc[t] = "out" /\ arg[t] = NoValue
  BY <1>0, <1>1 DEF CallShapeOf
<1>3. \A s \in Threads \ {t} : pc'[s] = pc[s]
  BY <1>0 DEF UseMutex, TypeOK, V1!Lock, V1!Goto, TryLock, V1!TryLock, V2!TryLock, V2!Goto, V2!V1!Goto
<1>4. \A s \in Threads \ {t} : HasLock(s)' <=> HasLock(s)
  BY <1>3 DEF HasLock
<1>5. \A s \in Threads \ {t} : Place(s)' = Place(s)
  BY <1>0, <1>1, <1>4, PlaceKept DEF TypeOK
<1>6. Place(t) = "idle" /\ Place(t)' = "idle"
  BY <1>0, <1>1 DEF Place, Blocked, TypeOK
<1>7. Places' = Places /\ Places[t] = "idle"
  BY <1>5, <1>6 DEF Places
<1>8. Ops' = Ops /\ arg' = arg
  BY <1>0, <1>1, <1>2 DEF Ops, TypeOK, Direct
<1>9. CASE HasLock(t)'
  <2>1. Holder' = t /\ Holder = NoOne
    BY <1>0, <1>2, <1>4, <1>9, HolderIs, HolderIsNext DEF Exclusive, HasLock
  <2>2. Abstract!Acquire(t)
    BY <1>1, <1>7, <1>8, <2>1 DEF Abstract!Acquire
  <2> QED BY <2>2 DEF Maps, Abstract!Next, Abstract!Step
<1>10. CASE ~HasLock(t)'
  <2>1. Holder' = Holder
    BY <1>2, <1>4, <1>10, HolderKept DEF HasLock
  <2> QED BY <1>1, <1>7, <1>8, <2>1 DEF Maps, Abstract!vars
<1> QED BY <1>9, <1>10

LEMMA InitMaps == Init => Abstract!Init
<1> SUFFICES ASSUME Init PROVE Abstract!Init
  OBVIOUS
<1>1. \A t \in Threads : ~HasLock(t) /\ op[t] = "none" /\ at[t] = "idle"
  BY DEF Init, V1!MutexInit, HasLock
<1>2. Holder = NoOne
  BY <1>1, OnlyOne DEF Holder, Holders
<1>3. Places = [t \in Threads |-> "idle"]
  BY <1>1 DEF Places, Place, Blocked
<1>4. Ops = [t \in Threads |-> "none"]
  BY <1>1 DEF Ops, Direct
<1> QED BY <1>2, <1>3, <1>4 DEF Init, Abstract!Init

LEMMA StepMaps == ExclusiveInv /\ ExclusiveInv' /\ [Next]_vars => Maps
<1> SUFFICES ASSUME ExclusiveInv, ExclusiveInv', [Next]_vars PROVE Maps
  OBVIOUS
<1>1. ASSUME NEW t \in Threads, MutexStep(t) PROVE Maps
  <2>1. MutexMove(t) /\ pc[t] # "held"
    BY <1>1, MutexStepMoves DEF ExclusiveInv
  <2> QED BY <1>1, <2>1, MoveMaps DEF MutexStep
<1>2. ASSUME NEW t \in Threads, Leave(t) \/ Part(t) PROVE Maps
  <2>1. /\ Unlock(t) /\ at[t] \in {"parting", "leave"}
        /\ UNCHANGED <<bcast, value, at, fresh, callVars, ghosts>>
    BY <1>2 DEF Leave, Part
  <2>2. MutexMove(t)
    BY <2>1, UnlockMoves DEF ExclusiveInv, callVars
  <2> QED BY <2>1, <2>2, MoveMaps
<1>3. ASSUME NEW t \in Threads, MutexTimedOut(t) PROVE Maps
  <2>1. MutexMove(t) /\ pc[t] = "asleep"
    BY <1>3, TimedOutMoves DEF ExclusiveInv, MutexTimedOut, callVars
  <2> QED BY <1>3, <2>1, MoveMaps DEF MutexTimedOut
<1>4. ASSUME NEW t \in Threads, Step(t) PROVE Maps
  BY <1>1, <1>2, <1>4, ReturnMaps, BeginWaitMaps, CvSleepMaps, CvEndsMaps, RelockedMaps, RequeueMaps,
     ReadSeqMaps, PostMaps, CvWakeMaps, SetValueMaps DEF Step
<1>5. ASSUME NEW t \in Threads, NewCall(t) PROVE Maps
  <2>1. ASSUME NEW o \in Posts, PostUnlocked(t, o) PROVE Maps
    BY <2>1, CallMaps
  <2> QED BY <1>5, <2>1, CallMaps, UseMutexMaps DEF NewCall
<1>6. CASE UNCHANGED vars
  <2>1. Holder' = Holder
    BY <1>6, HolderKept DEF vars, mutexVars, HasLock
  <2>2. Places' = Places /\ Ops' = Ops
    BY <1>6 DEF vars, mutexVars, callVars, ghosts, Places, Place, Blocked, HasLock, Ops
  <2> QED BY <1>6, <2>1, <2>2 DEF Maps, Abstract!vars, vars, callVars
<1> QED BY <1>3, <1>4, <1>5, <1>6, CvEndsMaps DEF Next

\* Whatever its callers do, and in both builds of the mutex and the condition
\* variable, the darc_condwait made of them does nothing that one made of a
\* POSIX mutex and condition variable could not do.
THEOREM FutexImplementsCondwait == Spec => ImplementsCondwait
<1>1. Spec => []ExclusiveInv
  BY InitExclusive, StepExclusive, PTL DEF Spec
<1>2. ExclusiveInv /\ ExclusiveInv' /\ [Next]_vars => [Abstract!Next]_(Abstract!vars)
  BY StepMaps DEF Maps
<1> QED BY <1>1, <1>2, InitMaps, PTL DEF Spec, ImplementsCondwait, Abstract!Spec
=============================================================================
