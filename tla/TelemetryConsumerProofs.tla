----------------------- MODULE TelemetryConsumerProofs -----------------------
(* What the two kinds of consumer are given by a queue with queue_put        *)
(* publishers: theorems for every number of threads and slots.               *)
EXTENDS TelemetryQueueProofs, FunctionTheorems, FiniteSetTheorems

\* What StepWindow and StepContent add to the types, as one invariant.
PutState == TypeOK /\ WindowInv /\ ContentInv

LEMMA InitPutState == Init => PutState
BY InitType, InitWindow, InitContent DEF PutState

LEMMA StepPutState ==
  ASSUME Poppers = {}, PutState, [Next]_vars
  PROVE  PutState'
BY StepType, StepWindow, StepContent DEF PutState

\* No publisher is inside queue_put.
Quiet == \A p \in Putters : pc[p] \notin PutPlaces

\* The newest message is published and queue_get has not taken it.
Fresh == Behind /\ Quiet

-----------------------------------------------------------------------------
(* The steps a consumer's view depends on, reduced to what they do to the    *)
(* unread messages.                                                          *)

\* While nobody is inside queue_put, the newest message is whole, and newer
\* than every unread one.
LEMMA FreshMessage ==
  ASSUME PutState, Fresh
  PROVE  /\ tail_seq - 1 \in Nat /\ tail - head < Entries
         /\ header[Slot(tail)] = [len |-> 1, seq |-> tail_seq - 1, miss |-> 0]
         /\ body[Slot(tail)] = tail_seq - 1
         /\ UnreadBefore(tail_seq - 1)
<1>1. tail_seq - 1 \in Nat
  BY DEF PutState, TypeOK, Fresh, Behind
<1>2. tail - head < Entries
  BY DEF PutState, WindowInv, SlotReserved, Fresh, Quiet, PutPlaces
<1> QED
  BY <1>1, <1>2 DEF PutState, ContentInv, NewestInPlace, Fresh, Quiet

\* A thread that finds write_mutex free finds nobody inside queue_put.
LEMMA FreeIsQuiet ==
  ASSUME PutState, write_mutex = NoThread
  PROVE  Quiet
BY ThreadAssumption DEF PutState, WindowInv, MutexHeld, Quiet, Threads,
  Publishers

\* Only one thread at a time is inside queue_put.
LEMMA OnePutter ==
  ASSUME PutState, NEW p \in Putters, pc[p] \in PutPlaces
  PROVE  \A q \in Putters : pc[q] \in PutPlaces => q = p
BY DEF PutState, WindowInv, MutexHeld

\* The next publisher's queue_put retires the fresh message, or finds none.
LEMMA PutLockEffect ==
  ASSUME Poppers = {}, PutState, NEW p \in Putters, PutLock(p)
  PROVE  /\ UNCHANGED <<head, head_seq, tail_seq, last_tail_seq, body, ptr, m,
                        delivered, read_cond, write_cond, read_mutex>>
         /\ Quiet /\ pc' = [pc EXCEPT ![p] = "put_room"]
         /\ ~Behind => UNCHANGED <<header, tail>>
         /\ Behind => /\ Fresh
                      /\ tail' = tail + 1 /\ Unread' = Unread \cup {tail}
                      /\ tail \notin Unread
                      /\ header'[Slot(tail)] =
                           [len |-> 1, seq |-> tail_seq - 1, miss |-> 1]
                      /\ \A i \in Unread : header'[Slot(i)] = header[Slot(i)]
<1>a. /\ head \in Nat /\ tail \in Nat /\ header \in [Slots -> Header]
      /\ Slot(tail) \in Slots /\ head <= tail
  BY SlotInSlots DEF PutState, TypeOK, WindowInv, WindowInRing
<1>1. Quiet
  BY FreeIsQuiet DEF PutLock, TakeWrite
<1>2. ASSUME Behind
      PROVE  /\ Fresh /\ tail' = tail + 1 /\ Unread' = Unread \cup {tail}
             /\ tail \notin Unread
             /\ header'[Slot(tail)] =
                  [len |-> 1, seq |-> tail_seq - 1, miss |-> 1]
             /\ \A i \in Unread : header'[Slot(i)] = header[Slot(i)]
  <2>1. Fresh
    BY <1>1, <1>2 DEF Fresh
  <2>2. /\ header' = [header EXCEPT ![Slot(tail)] = Flagged(header[Slot(tail)])]
        /\ tail' = tail + 1 /\ head' = head
    BY <1>2 DEF PutLock, PassMissed
  <2>3. Unread' = Unread \cup {tail} /\ tail \notin Unread
    BY <2>2, <1>a DEF Unread
  <2>4. \A i \in Unread : i \in Nat /\ Slot(i) \in Slots /\ Slot(i) # Slot(tail)
    BY <2>1, <1>a, FreshMessage, TailSlotFree, SlotInSlots
    DEF Unread, PutState
  <2>5. header'[Slot(tail)] = [len |-> 1, seq |-> tail_seq - 1, miss |-> 1]
    BY <2>1, <2>2, <1>a, FreshMessage DEF Flagged
  <2> QED
    BY <2>1, <2>2, <2>3, <2>4, <2>5, <1>a
<1> QED
  BY <1>1, <1>2 DEF PutLock, PassMissed, Goto, locals

\* queue_put drops the oldest unread message exactly if the ring is full.
LEMMA PutRoomEffect ==
  ASSUME Poppers = {}, PutState, NEW p \in Putters, PutRoom(p)
  PROVE  /\ UNCHANGED <<tail, tail_seq, last_tail_seq, header, body, ptr, m,
                        delivered, read_cond, write_mutex, read_mutex>>
         /\ write_cond' \in SignalOne(write_cond) /\ read_mutex = NoThread
         /\ pc[p] = "put_room" /\ pc' = [pc EXCEPT ![p] = "put_header"]
         /\ IF tail - head = Entries
            THEN /\ head \in Unread /\ head' = head + 1
                 /\ Unread' = Unread \ {head}
            ELSE head' = head /\ Unread' = Unread
<1>a. head \in Nat /\ tail \in Nat /\ head <= tail /\ tail - head <= Entries
  BY DEF PutState, TypeOK, WindowInv, WindowInRing
<1>1. CASE tail - head = Entries
  <2>1. head' = head + 1 /\ tail' = tail
    BY <1>1, <1>a DEF PutRoom, MakeRoom, Full, Minus
  <2>2. head \in Unread /\ Unread' = Unread \ {head}
    BY <1>1, <2>1, <1>a, SizeAssumption DEF Unread
  <2> QED
    BY <1>1, <2>1, <2>2 DEF PutRoom, Goto, locals
<1>2. CASE tail - head # Entries
  <2>1. head' = head /\ tail' = tail
    BY <1>2, <1>a, SizeAssumption DEF PutRoom, MakeRoom, Full, Minus
  <2> QED
    BY <1>2, <2>1 DEF PutRoom, Goto, locals, Unread
<1> QED
  BY <1>1, <1>2

\* The header of a new message goes where no unread message is.
LEMMA PutHeaderEffect ==
  ASSUME Poppers = {}, PutState, NEW p \in Putters, PutHeader(p)
  PROVE  /\ UNCHANGED <<head, tail, last_tail_seq, body, ptr, delivered,
                        read_cond, write_cond, write_mutex, read_mutex>>
         /\ pc[p] = "put_header" /\ pc' = [pc EXCEPT ![p] = "put_body"]
         /\ tail_seq' = tail_seq + 1 /\ last_tail_seq <= tail_seq
         /\ m' = [m EXCEPT ![p] = NewHeader]
         /\ Unread' = Unread /\ tail - head < Entries
         /\ \A i \in Unread : header'[Slot(i)] = header[Slot(i)]
<1>a. /\ head \in Nat /\ tail \in Nat /\ header \in [Slots -> Header]
      /\ Slot(tail) \in Slots /\ head <= tail
  BY SlotInSlots DEF PutState, TypeOK, WindowInv, WindowInRing
<1>1. pc[p] = "put_header" /\ header' = [header EXCEPT ![Slot(tail)] = NewHeader]
  BY DEF PutHeader, Goto
<1>2. tail - head < Entries /\ last_tail_seq <= tail_seq
  BY <1>1 DEF PutState, WindowInv, SlotReserved
<1>3. \A i \in Unread : i \in Nat /\ Slot(i) \in Slots /\ Slot(i) # Slot(tail)
  BY <1>2, <1>a, TailSlotFree, SlotInSlots DEF Unread, PutState
<1>4. \A i \in Unread : header'[Slot(i)] = header[Slot(i)]
  BY <1>1, <1>3, <1>a
<1> QED
  BY <1>1, <1>2, <1>4 DEF PutHeader, Goto, sync, Unread

\* The payload follows its header, and the message is then fresh.
LEMMA PutBodyEffect ==
  ASSUME Poppers = {}, PutState, NEW p \in Putters, PutBody(p)
  PROVE  /\ UNCHANGED <<head, tail, tail_seq, last_tail_seq, header, ptr, m,
                        delivered, write_cond, read_mutex>>
         /\ pc[p] = "put_body" /\ pc' = [pc EXCEPT ![p] = "idle"]
         /\ read_cond' \in SignalOne(read_cond) /\ write_mutex' = NoThread
         /\ Behind /\ Fresh' /\ tail - head < Entries /\ Unread' = Unread
         /\ tail_seq - 1 \in Nat
         /\ body' = [body EXCEPT ![Slot(tail)] = tail_seq - 1]
         /\ \A i \in Unread : body'[Slot(i)] = body[Slot(i)]
<1>a. /\ head \in Nat /\ tail \in Nat /\ body \in [Slots -> Nat]
      /\ Slot(tail) \in Slots /\ head <= tail /\ tail_seq \in Nat
      /\ pc = [t \in Threads |-> pc[t]]
  BY SlotInSlots DEF PutState, TypeOK, WindowInv, WindowInRing
<1>1. pc[p] = "put_body" /\ body' = [body EXCEPT ![Slot(tail)] = m[p].seq]
  BY DEF PutBody, Goto
<1>2. tail - head < Entries
  BY <1>1 DEF PutState, WindowInv, SlotReserved
<1>3. /\ tail_seq > 0 /\ last_tail_seq < tail_seq
      /\ m[p] = [len |-> 1, seq |-> tail_seq - 1, miss |-> 0]
  BY <1>1 DEF PutState, ContentInv, NewestInPlace
<1>4. tail_seq - 1 \in Nat /\ m[p].seq = tail_seq - 1 /\ Behind
  BY <1>3, <1>a DEF Behind
<1>5. \A i \in Unread : i \in Nat /\ Slot(i) \in Slots /\ Slot(i) # Slot(tail)
  BY <1>2, <1>a, TailSlotFree, SlotInSlots DEF Unread, PutState
<1>6. \A i \in Unread : body'[Slot(i)] = body[Slot(i)]
  BY <1>1, <1>5, <1>a
<1>7. Quiet'
  <2>1. \A q \in Putters : pc[q] \in PutPlaces => q = p
    BY <1>1, OnePutter DEF PutPlaces
  <2> QED
    BY <2>1, <1>a DEF PutBody, Goto, Quiet, PutPlaces, Threads, Publishers
<1>8. Behind'
  BY <1>4 DEF PutBody, Behind, indices
<1> QED
  BY <1>1, <1>2, <1>4, <1>6, <1>7, <1>8
  DEF PutBody, Goto, indices, locals, Unread, Fresh

\* queue_get is given the fresh message, which becomes the last unread one.
LEMMA GetTakeEffect ==
  ASSUME Poppers = {}, PutState, NEW g \in Getters, GetTake(g)
  PROVE  /\ UNCHANGED <<head, tail_seq, header, body, read_cond, write_cond,
                        write_mutex, read_mutex>>
         /\ pc' = [pc EXCEPT ![g] = "get_use"] /\ Fresh /\ ~Behind'
         /\ pc[g] \in {"idle", "get_wait"}
         /\ write_mutex = NoThread
         /\ tail_seq = last_tail_seq + 1 /\ last_tail_seq' = tail_seq
         /\ tail' = tail + 1 /\ Unread' = Unread \cup {tail}
         /\ tail \notin Unread
         /\ m' = [m EXCEPT ![g] =
                    [len |-> 1, seq |-> tail_seq - 1, miss |-> 0]]
         /\ ptr' = [ptr EXCEPT ![g] = Slot(tail)]
         /\ delivered' = delivered \cup {tail_seq - 1}
<1>a. /\ head \in Nat /\ tail \in Nat /\ head <= tail
      /\ tail_seq \in Nat /\ last_tail_seq \in Nat
  BY DEF PutState, TypeOK, WindowInv, WindowInRing
<1>1. Quiet
  BY FreeIsQuiet DEF GetTake, GetChecks
<1>2. /\ tail_seq = last_tail_seq + 1 /\ last_tail_seq' = tail_seq
      /\ tail' = tail + 1 /\ UNCHANGED <<head, tail_seq>>
  BY DEF GetTake
<1>3. Fresh /\ ~Behind'
  BY <1>1, <1>2, <1>a DEF Fresh, Behind
<1>4. header[Slot(tail)] = [len |-> 1, seq |-> tail_seq - 1, miss |-> 0]
  BY <1>3, FreshMessage
<1>5. Unread' = Unread \cup {tail} /\ tail \notin Unread
  BY <1>2, <1>a DEF Unread
<1>6. header[Slot(tail)].seq = tail_seq - 1
  BY <1>4
<1> QED
  BY <1>2, <1>3, <1>4, <1>5, <1>6 DEF GetTake, GetChecks, sync

\* queue_get that gives up moves nothing but last_tail_seq.
LEMMA GetMissedEffect ==
  ASSUME Poppers = {}, PutState, NEW g \in Getters, GetMissed(g)
  PROVE  /\ UNCHANGED <<head, tail, tail_seq, header, body, ptr, m, delivered,
                        read_cond, write_cond, write_mutex, read_mutex>>
         /\ pc' = [pc EXCEPT ![g] = "idle"] /\ Fresh /\ ~Behind'
         /\ write_mutex = NoThread /\ Unread' = Unread
         /\ tail_seq > last_tail_seq + 1 /\ last_tail_seq' = tail_seq
<1>1. Quiet
  BY FreeIsQuiet DEF GetMissed, GetChecks
<1>2. tail_seq > last_tail_seq + 1
  BY DEF GetMissed, PutState, TypeOK, WindowInv, SlotReserved
<1>3. Fresh /\ ~Behind'
  BY <1>1, <1>2 DEF Fresh, Behind, GetMissed, PutState, TypeOK
<1> QED
  BY <1>2, <1>3 DEF GetMissed, GetChecks, sync, locals, Unread

\* queue_get_last is given the oldest unread message, whole.
LEMMA LastTakeEffect ==
  ASSUME Poppers = {}, PutState, NEW t \in Telems, LastTake(t)
  PROVE  /\ UNCHANGED <<tail, tail_seq, last_tail_seq, header, body, delivered,
                        read_cond, write_cond, write_mutex>>
         /\ pc[t] = "last_read" /\ pc' = [pc EXCEPT ![t] = "last_use"]
         /\ head < tail /\ head' = head + 1 /\ read_mutex' = NoThread
         /\ head \in Unread /\ Unread' = Unread \ {head}
         /\ m' = [m EXCEPT ![t] = header[Slot(head)]]
         /\ ptr' = [ptr EXCEPT ![t] = Slot(head)]
         /\ header[Slot(head)].len = 1
         /\ body[Slot(head)] = header[Slot(head)].seq
<1>a. head \in Nat /\ tail \in Nat
  BY DEF PutState, TypeOK
<1>1. pc[t] = "last_read" /\ head' = head + 1 /\ tail' = tail
  BY DEF LastTake, Goto
<1>2. head < tail
  BY <1>1 DEF PutState, WindowInv, ReadSomething
<1>3. head \in Unread /\ Unread' = Unread \ {head}
  BY <1>1, <1>2, <1>a DEF Unread
<1> QED
  BY <1>1, <1>2, <1>3 DEF LastTake, Goto, PutState, ContentInv, UnreadIntact

\* A step that hands nothing out, and leaves the ring and the publishers alone.
Aside ==
  /\ UNCHANGED <<indices, header, body, locals, delivered>>
  /\ \A p \in Putters : pc'[p] = pc[p]
  /\ \A c \in Consumers :
       pc'[c] \in {"get_use", "last_use"} => pc'[c] = pc[c]

\* Every step is one of these.
LEMMA StepCases ==
  ASSUME Poppers = {}, PutState, [Next]_vars
  PROVE  \/ \E p \in Putters :
              PutLock(p) \/ PutRoom(p) \/ PutHeader(p) \/ PutBody(p)
         \/ \E g \in Getters : GetMissed(g) \/ GetTake(g)
         \/ \E t \in Telems : LastTake(t)
         \/ Aside
<1> USE ThreadAssumption DEF Threads, Publishers, Consumers
<1>a. pc = [t \in Threads |-> pc[t]]
  BY DEF PutState, TypeOK
<1>1. ASSUME NEW g \in Getters,
             GetWait(g) \/ GetTimeout(g) \/ GetTimeoutReturn(g)
      PROVE  Aside
  BY <1>1, <1>a DEF GetWait, GetTimeout, GetTimeoutReturn, Goto, Aside, sync
<1>2. ASSUME NEW t \in Telems,
             LastLock(t) \/ LastWait(t) \/ LastTimeout(t) \/ LastTimeoutReturn(t)
      PROVE  Aside
  BY <1>2, <1>a DEF LastLock, LastWait, LastTimeout, LastTimeoutReturn, Goto,
    Aside, sync
<1>3. ASSUME NEW c \in Consumers, Release(c) \/ SpuriousWakeup(c)
      PROVE  Aside
  BY <1>3, <1>a DEF Release, SpuriousWakeup, Aside, sync
<1>4. CASE UNCHANGED vars
  BY <1>4 DEF vars, Aside
<1> QED
  BY <1>1, <1>2, <1>3, <1>4 DEF Next, Put, Get, GetLast

-----------------------------------------------------------------------------
(* The miss flag.                                                            *)

\* queue_get is past everything it returned, so that a publisher can only
\* retire what queue_get never returned.
FlagInv ==
  /\ MissFlagExact
  /\ \A n \in delivered : n < last_tail_seq

LEMMA InitFlag == Init => FlagInv
BY DEF Init, FlagInv, MissFlagExact, Unread

\* The headers of the unread messages keep their types.
LEMMA UnreadTyped ==
  ASSUME TypeOK
  PROVE  \A i \in Unread : /\ i \in Nat /\ Slot(i) \in Slots
                           /\ header[Slot(i)] \in Header
                           /\ header[Slot(i)].seq \in Nat
<1>1. \A i \in Unread : i \in Nat
  BY DEF Unread, TypeOK
<1> QED
  BY <1>1, SlotInSlots DEF TypeOK, Header

\* Every step keeps the miss flags exact.
LEMMA StepFlag ==
  ASSUME Poppers = {}, PutState, FlagInv, [Next]_vars
  PROVE  FlagInv'
<1> USE DEF FlagInv, MissFlagExact
<1>a. /\ tail_seq \in Nat /\ last_tail_seq \in Nat /\ delivered \subseteq Nat
      /\ last_tail_seq <= tail_seq
  BY DEF PutState, TypeOK, WindowInv, SlotReserved
<1>b. ASSUME UNCHANGED <<body, header, delivered, last_tail_seq>>,
             Unread' \subseteq Unread
      PROVE  FlagInv'
  BY <1>b DEF Slot
<1>1. ASSUME NEW p \in Putters, PutLock(p) PROVE FlagInv'
  <2>1. CASE ~Behind
    BY <1>1, <1>b, <2>1, PutLockEffect DEF Unread
  <2>2. CASE Behind
    <3>1. tail_seq - 1 \notin delivered
      BY <2>2, <1>a DEF Behind
    <3>2. /\ UNCHANGED <<delivered, last_tail_seq>>
          /\ Unread' = Unread \cup {tail}
          /\ header'[Slot(tail)] = [len |-> 1, seq |-> tail_seq - 1, miss |-> 1]
          /\ \A i \in Unread : header'[Slot(i)] = header[Slot(i)]
      BY <1>1, <2>2, PutLockEffect
    <3>3. \A i \in Unread' : header'[Slot(i)].miss = 1
                               <=> header'[Slot(i)].seq \notin delivered
      BY <3>1, <3>2
    <3> QED
      BY <3>2, <3>3 DEF Slot
  <2> QED
    BY <2>1, <2>2
<1>2. ASSUME NEW p \in Putters, PutRoom(p) PROVE FlagInv'
  <2>1. UNCHANGED <<body, header, delivered, last_tail_seq>>
    BY <1>2, PutRoomEffect
  <2>2. Unread' \subseteq Unread
    BY <1>2, PutRoomEffect
  <2> QED
    BY <2>1, <2>2, <1>b
<1>3. ASSUME NEW p \in Putters, PutHeader(p) PROVE FlagInv'
  BY <1>3, PutHeaderEffect DEF Slot
<1>4. ASSUME NEW p \in Putters, PutBody(p) PROVE FlagInv'
  BY <1>4, PutBodyEffect DEF Slot
<1>5. ASSUME NEW g \in Getters, GetMissed(g) PROVE FlagInv'
  <2>1. /\ UNCHANGED <<header, delivered>> /\ Unread' = Unread
        /\ last_tail_seq' = tail_seq /\ tail_seq > last_tail_seq
    BY <1>5, <1>a, GetMissedEffect
  <2> QED
    BY <2>1, <1>a DEF Slot
<1>6. ASSUME NEW g \in Getters, GetTake(g) PROVE FlagInv'
  <2>1. /\ UNCHANGED header /\ Unread' = Unread \cup {tail}
        /\ delivered' = delivered \cup {tail_seq - 1}
        /\ last_tail_seq' = tail_seq /\ tail_seq = last_tail_seq + 1
    BY <1>6, GetTakeEffect
  <2>2. /\ header[Slot(tail)].seq = tail_seq - 1 /\ header[Slot(tail)].miss = 0
        /\ \A i \in Unread : header[Slot(i)].seq < tail_seq - 1
    BY <1>6, GetTakeEffect, FreshMessage DEF UnreadBefore
  <2>3. \A i \in Unread : header[Slot(i)].seq # tail_seq - 1
    BY <2>2, <1>a, UnreadTyped DEF PutState
  <2>4. \A i \in Unread : header[Slot(i)].miss = 1
                            <=> header[Slot(i)].seq \notin delivered'
    BY <2>1, <2>3
  <2>5. header[Slot(tail)].seq \in delivered' /\ header[Slot(tail)].miss # 1
    BY <2>1, <2>2
  <2>6. MissFlagExact'
    BY <2>1, <2>4, <2>5 DEF Slot
  <2> QED
    BY <2>1, <2>6, <1>a
<1>7. ASSUME NEW t \in Telems, LastTake(t) PROVE FlagInv'
  BY <1>7, <1>b, LastTakeEffect
<1>8. CASE Aside
  BY <1>8, <1>b DEF Aside, indices, Unread
<1> QED
  BY <1>1, <1>2, <1>3, <1>4, <1>5, <1>6, <1>7, <1>8, StepCases

\* What the steps and FlagInv need of the types and the ring, at all times.
LEMMA PutStateAlways ==
  ASSUME Poppers = {}
  PROVE  Spec => []PutState
<1>1. Init => PutState
  BY InitPutState
<1>2. PutState /\ [Next]_vars => PutState'
  BY StepPutState
<1> QED
  BY <1>1, <1>2, PTL DEF Spec

\* For queue_put publishers, whatever their number: the miss flag that
\* queue_get_last hands on is set on the messages queue_get never returned and
\* on no other.
THEOREM PutMissFlagExact ==
  ASSUME Poppers = {}
  PROVE  Spec => []MissFlagExact
<1>1. Init => FlagInv
  BY InitFlag
<1>2. PutState /\ FlagInv /\ [Next]_vars => FlagInv'
  BY StepFlag
<1>3. FlagInv => MissFlagExact
  BY DEF FlagInv
<1> QED
  BY <1>1, <1>2, <1>3, PutStateAlways, PTL DEF Spec

-----------------------------------------------------------------------------
(* The order in which telemetry consumers are given messages.                *)

\* The number of the first message that is not among the unread ones yet:
\* whatever tail moves past from now on is at least that new.
NextUnread == IF Fresh \/ PutHalfWritten THEN tail_seq - 1 ELSE tail_seq

LEMMA NextUnreadType ==
  ASSUME PutState
  PROVE  /\ NextUnread \in Nat /\ NextUnread <= tail_seq
         /\ UnreadBefore(NextUnread)
<1>1. CASE Fresh
  BY <1>1, FreshMessage DEF NextUnread, PutState, TypeOK
<1>2. CASE PutHalfWritten
  BY <1>2 DEF PutHalfWritten, NextUnread, PutState, TypeOK, ContentInv,
    NewestInPlace
<1>3. CASE ~Fresh /\ ~PutHalfWritten
  BY <1>3 DEF NextUnread, PutState, TypeOK, ContentInv, NewestInPlace
<1> QED
  BY <1>1, <1>2, <1>3

\* Nobody is inside queue_put while the newest message is fresh.
LEMMA FreshIsWhole ==
  ASSUME Quiet
  PROVE  ~PutHalfWritten
BY DEF Quiet, PutHalfWritten, PutPlaces

\* When tail moves, what was next is now unread; otherwise what is next can
\* only move on, which it does when queue_get gives the fresh message up.
LEMMA NextUnreadMoves ==
  ASSUME Poppers = {}, PutState, [Next]_vars
  PROVE  \/ NextUnread' \in {NextUnread, NextUnread + 1} /\ tail' = tail
         \/ /\ NextUnread' = NextUnread + 1 /\ tail' = tail + 1
            /\ Fresh /\ header'[Slot(tail)].seq = NextUnread
<1> USE ThreadAssumption DEF Threads, Publishers, Consumers
<1>a. /\ tail_seq \in Nat /\ last_tail_seq \in Nat
      /\ pc = [t \in Threads |-> pc[t]]
  BY DEF PutState, TypeOK
<1>1. ASSUME NEW p \in Putters, PutLock(p)
      PROVE  \/ NextUnread' = NextUnread /\ tail' = tail
             \/ /\ NextUnread' = NextUnread + 1 /\ tail' = tail + 1
                /\ Fresh /\ header'[Slot(tail)].seq = NextUnread
  <2>1. /\ Quiet /\ pc' = [pc EXCEPT ![p] = "put_room"] /\ tail_seq' = tail_seq
    BY <1>1, PutLockEffect
  <2>2. pc'[p] = "put_room" /\ ~PutHalfWritten /\ ~PutHalfWritten'
    BY <2>1, <1>a, FreshIsWhole DEF PutHalfWritten, Quiet, PutPlaces
  <2>3. ~Fresh'
    BY <2>2 DEF Fresh, Quiet, PutPlaces
  <2>4. NextUnread' = tail_seq
    BY <2>1, <2>2, <2>3 DEF NextUnread
  <2>5. CASE Behind
    <3>1. Fresh /\ tail' = tail + 1 /\ header'[Slot(tail)].seq = tail_seq - 1
      BY <1>1, <2>5, PutLockEffect
    <3>2. NextUnread = tail_seq - 1
      BY <3>1 DEF NextUnread
    <3> QED
      BY <2>4, <3>1, <3>2, <1>a
  <2>6. CASE ~Behind
    <3>1. NextUnread = tail_seq
      BY <2>2, <2>6 DEF NextUnread, Fresh
    <3> QED
      BY <2>4, <3>1, <1>1, <2>6, PutLockEffect
  <2> QED
    BY <2>5, <2>6
<1>2. ASSUME NEW p \in Putters, PutRoom(p)
      PROVE  NextUnread' = NextUnread /\ tail' = tail
  <2>1. /\ pc[p] = "put_room" /\ pc' = [pc EXCEPT ![p] = "put_header"]
        /\ UNCHANGED <<tail, tail_seq>>
    BY <1>2, PutRoomEffect
  <2>2. \A q \in Putters : pc[q] \in PutPlaces => q = p
    BY <2>1, OnePutter DEF PutPlaces
  <2>3. /\ pc'[p] = "put_header" /\ ~Fresh /\ ~Fresh'
        /\ ~PutHalfWritten /\ ~PutHalfWritten'
    BY <2>1, <2>2, <1>a DEF Fresh, Quiet, PutHalfWritten, PutPlaces
  <2> QED
    BY <2>1, <2>3 DEF NextUnread
<1>3. ASSUME NEW p \in Putters, PutHeader(p)
      PROVE  NextUnread' = NextUnread /\ tail' = tail
  <2>1. /\ pc[p] = "put_header" /\ pc' = [pc EXCEPT ![p] = "put_body"]
        /\ tail_seq' = tail_seq + 1 /\ tail' = tail
    BY <1>3, PutHeaderEffect
  <2>2. \A q \in Putters : pc[q] \in PutPlaces => q = p
    BY <2>1, OnePutter DEF PutPlaces
  <2>3. ~Fresh /\ ~PutHalfWritten /\ PutHalfWritten'
    BY <2>1, <2>2, <1>a DEF Fresh, Quiet, PutHalfWritten, PutPlaces
  <2> QED
    BY <2>1, <2>3, <1>a DEF NextUnread
<1>4. ASSUME NEW p \in Putters, PutBody(p)
      PROVE  NextUnread' = NextUnread /\ tail' = tail
  <2>1. /\ pc[p] = "put_body" /\ Fresh' /\ UNCHANGED <<tail, tail_seq>>
    BY <1>4, PutBodyEffect
  <2>2. PutHalfWritten
    BY <2>1 DEF PutHalfWritten
  <2> QED
    BY <2>1, <2>2 DEF NextUnread
<1>5. ASSUME NEW g \in Getters, GetTake(g)
      PROVE  /\ NextUnread' = NextUnread + 1 /\ tail' = tail + 1
             /\ Fresh /\ header'[Slot(tail)].seq = NextUnread
  <2>1. /\ pc' = [pc EXCEPT ![g] = "get_use"] /\ Fresh /\ ~Behind'
        /\ tail' = tail + 1 /\ UNCHANGED <<tail_seq, header>>
    BY <1>5, GetTakeEffect
  <2>2. Quiet' /\ ~Fresh'
    BY <2>1, <1>a DEF Fresh, Quiet, PutPlaces
  <2>3. NextUnread' = tail_seq /\ NextUnread = tail_seq - 1
    BY <2>1, <2>2, FreshIsWhole DEF NextUnread, Quiet, PutHalfWritten,
      PutPlaces
  <2>4. header[Slot(tail)].seq = tail_seq - 1
    BY <2>1, FreshMessage
  <2> QED
    BY <2>1, <2>3, <2>4, <1>a
<1>6. ASSUME NEW g \in Getters, GetMissed(g)
      PROVE  NextUnread' = NextUnread + 1 /\ tail' = tail
  <2>1. /\ pc' = [pc EXCEPT ![g] = "idle"] /\ Fresh /\ ~Behind'
        /\ UNCHANGED <<tail, tail_seq>>
    BY <1>6, GetMissedEffect
  <2>2. Quiet' /\ ~Fresh'
    BY <2>1, <1>a DEF Fresh, Quiet, PutPlaces
  <2>3. NextUnread' = tail_seq /\ NextUnread = tail_seq - 1
    BY <2>1, <2>2, FreshIsWhole DEF NextUnread, Quiet, PutHalfWritten,
      PutPlaces
  <2> QED
    BY <2>1, <2>3, <1>a
<1>7. ASSUME NEW t \in Telems, LastTake(t)
      PROVE  NextUnread' = NextUnread /\ tail' = tail
  <2>1. /\ pc' = [pc EXCEPT ![t] = "last_use"]
        /\ UNCHANGED <<tail, tail_seq, last_tail_seq>>
    BY <1>7, LastTakeEffect
  <2>2. \A p \in Putters : pc'[p] = pc[p]
    BY <2>1, <1>a
  <2> QED
    BY <2>1, <2>2 DEF NextUnread, Fresh, Behind, Quiet, PutHalfWritten
<1>8. ASSUME Aside PROVE NextUnread' = NextUnread /\ tail' = tail
  BY <1>8 DEF Aside, indices, NextUnread, Fresh, Behind, Quiet, PutHalfWritten
<1> QED
  BY <1>1, <1>2, <1>3, <1>4, <1>5, <1>6, <1>7, <1>8, StepCases

\* Everything a telemetry thread may still be given is newer than what it has.
ReadInv ==
  \A t \in Telems : m[t].len = 1 =>
    /\ m[t].seq < NextUnread
    /\ \A i \in Unread : m[t].seq < header[Slot(i)].seq

LEMMA InitRead == Init => ReadInv
<1>1. ASSUME Init, NEW t \in Telems PROVE m[t].len = 0
  BY <1>1 DEF Init, ZeroHeader, Threads, Consumers
<1> QED
  BY <1>1 DEF ReadInv

\* An unread message was unread before the step, with the same number, or it
\* is the one tail has just moved past.
LEMMA UnreadMoves ==
  ASSUME Poppers = {}, PutState, [Next]_vars, NEW i \in Unread'
  PROVE  \/ i \in Unread /\ header'[Slot(i)].seq = header[Slot(i)].seq
         \/ i = tail /\ tail' = tail + 1
<1>1. ASSUME NEW p \in Putters, PutLock(p)
      PROVE  \/ i \in Unread /\ header'[Slot(i)].seq = header[Slot(i)].seq
             \/ i = tail /\ tail' = tail + 1
  <2>1. CASE Behind
    BY <1>1, <2>1, PutLockEffect
  <2>2. CASE ~Behind
    BY <1>1, <2>2, PutLockEffect DEF Unread
  <2> QED
    BY <2>1, <2>2
<1>2. ASSUME NEW p \in Putters, PutRoom(p)
      PROVE  i \in Unread /\ header'[Slot(i)].seq = header[Slot(i)].seq
  BY <1>2, PutRoomEffect
<1>3. ASSUME NEW p \in Putters, PutHeader(p)
      PROVE  i \in Unread /\ header'[Slot(i)].seq = header[Slot(i)].seq
  BY <1>3, PutHeaderEffect
<1>4. ASSUME NEW p \in Putters, PutBody(p)
      PROVE  i \in Unread /\ header'[Slot(i)].seq = header[Slot(i)].seq
  BY <1>4, PutBodyEffect
<1>5. ASSUME NEW g \in Getters, GetMissed(g)
      PROVE  i \in Unread /\ header'[Slot(i)].seq = header[Slot(i)].seq
  BY <1>5, GetMissedEffect
<1>6. ASSUME NEW g \in Getters, GetTake(g)
      PROVE  \/ i \in Unread /\ header'[Slot(i)].seq = header[Slot(i)].seq
             \/ i = tail /\ tail' = tail + 1
  BY <1>6, GetTakeEffect
<1>7. ASSUME NEW t \in Telems, LastTake(t)
      PROVE  i \in Unread /\ header'[Slot(i)].seq = header[Slot(i)].seq
  BY <1>7, LastTakeEffect
<1>8. ASSUME Aside
      PROVE  i \in Unread /\ header'[Slot(i)].seq = header[Slot(i)].seq
  BY <1>8 DEF Aside, indices, Unread
<1> QED
  BY <1>1, <1>2, <1>3, <1>4, <1>5, <1>6, <1>7, <1>8, StepCases

\* Only LastTake gives a thread that calls queue_get_last a message or a buffer.
LEMMA OnlyLastTakeGives ==
  ASSUME Poppers = {}, PutState, [Next]_vars, NEW t \in Telems, ~LastTake(t)
  PROVE  m'[t] = m[t] /\ ptr'[t] = ptr[t] /\ (pc'[t] = "last_use" => pc[t] = "last_use")
<1> USE ThreadAssumption DEF Threads, Publishers, Consumers
<1>a. /\ pc = [u \in Threads |-> pc[u]] /\ m = [u \in Threads |-> m[u]]
      /\ ptr = [u \in Threads |-> ptr[u]]
  BY DEF PutState, TypeOK
<1> DEFINE Same == /\ m'[t] = m[t] /\ ptr'[t] = ptr[t]
                   /\ (pc'[t] = "last_use" => pc[t] = "last_use")
<1>1. ASSUME NEW p \in Putters, PutLock(p) PROVE Same
  BY <1>1, <1>a, PutLockEffect
<1>2. ASSUME NEW p \in Putters, PutRoom(p) PROVE Same
  BY <1>2, <1>a, PutRoomEffect
<1>3. ASSUME NEW p \in Putters, PutHeader(p) PROVE Same
  BY <1>3, <1>a, PutHeaderEffect
<1>4. ASSUME NEW p \in Putters, PutBody(p) PROVE Same
  BY <1>4, <1>a, PutBodyEffect
<1>5. ASSUME NEW g \in Getters, GetMissed(g) PROVE Same
  BY <1>5, <1>a, GetMissedEffect
<1>6. ASSUME NEW g \in Getters, GetTake(g) PROVE Same
  BY <1>6, <1>a, GetTakeEffect
<1>7. ASSUME NEW u \in Telems, LastTake(u) PROVE Same
  <2>1. u # t
    BY <1>7
  <2>2. /\ pc' = [pc EXCEPT ![u] = "last_use"]
        /\ m' = [m EXCEPT ![u] = header[Slot(head)]]
        /\ ptr' = [ptr EXCEPT ![u] = Slot(head)]
    BY <1>7, LastTakeEffect
  <2>3. m'[t] = m[t]
    BY <2>1, <2>2
  <2>4. ptr'[t] = ptr[t] /\ pc'[t] = pc[t]
    BY <2>1, <2>2
  <2> QED
    BY <2>3, <2>4
<1>8. ASSUME Aside PROVE Same
  BY <1>8 DEF Aside, locals
<1> QED
  BY <1>1, <1>2, <1>3, <1>4, <1>5, <1>6, <1>7, <1>8, StepCases

\* Every step keeps what may still be read newer than what was read.
LEMMA StepRead ==
  ASSUME Poppers = {}, PutState, ReadInv, [Next]_vars
  PROVE  ReadInv'
<1> SUFFICES ASSUME NEW t \in Telems, m'[t].len = 1
             PROVE  /\ m'[t].seq < NextUnread'
                    /\ \A i \in Unread' : m'[t].seq < header'[Slot(i)].seq
  BY DEF ReadInv, Slot
<1>a. /\ NextUnread \in Nat /\ UnreadBefore(NextUnread)
      /\ \A i \in Unread : header[Slot(i)].seq \in Nat
  BY NextUnreadType, UnreadTyped DEF PutState
<1>b. /\ NextUnread' \in {NextUnread, NextUnread + 1}
      /\ tail' # tail => header'[Slot(tail)].seq = NextUnread
  BY <1>a, NextUnreadMoves
<1>c. \A i \in Unread' :
        \/ i \in Unread /\ header'[Slot(i)].seq = header[Slot(i)].seq
        \/ i = tail /\ tail' = tail + 1
  BY UnreadMoves
<1>1. CASE LastTake(t)
  <2>1. /\ head \in Unread /\ Unread' = Unread \ {head} /\ header' = header
        /\ m' = [m EXCEPT ![t] = header[Slot(head)]]
    BY <1>1, LastTakeEffect
  <2>2. m'[t].seq = header[Slot(head)].seq
    BY <2>1, ThreadAssumption DEF PutState, TypeOK, Threads, Consumers
  <2>3. \A i \in Unread' : head < i
    <3>1. head \in Nat /\ tail \in Nat
      BY DEF PutState, TypeOK
    <3>2. \A i \in Unread : i \in Nat /\ head <= i
      BY <3>1 DEF Unread
    <3> QED
      BY <2>1, <3>1, <3>2
  <2>4. \A i \in Unread' : header[Slot(head)].seq < header[Slot(i)].seq
    BY <2>1, <2>3 DEF PutState, ContentInv, UnreadIntact
  <2>5. header[Slot(head)].seq < NextUnread
    BY <2>1, <1>a DEF UnreadBefore
  <2> QED
    BY <2>1, <2>2, <2>4, <2>5, <1>a, <1>b
<1>2. CASE ~LastTake(t)
  <2>1. m'[t] = m[t]
    BY <1>2, OnlyLastTakeGives
  <2>2. m[t].seq < NextUnread /\ \A i \in Unread : m[t].seq < header[Slot(i)].seq
    BY <2>1 DEF ReadInv
  <2>3. m[t].seq \in Nat
    BY DEF PutState, TypeOK, Header, Threads, Consumers
  <2>4. m'[t].seq < NextUnread'
    BY <2>1, <2>2, <2>3, <1>a, <1>b
  <2>5. ASSUME NEW i \in Unread' PROVE m'[t].seq < header'[Slot(i)].seq
    <3>1. CASE i \in Unread /\ header'[Slot(i)].seq = header[Slot(i)].seq
      BY <3>1, <2>1, <2>2
    <3>2. CASE i = tail /\ tail' = tail + 1
      <4>1. tail' # tail
        BY <3>2 DEF PutState, TypeOK
      <4> QED
        BY <4>1, <3>2, <2>1, <2>2, <1>b
    <3> QED
      BY <3>1, <3>2, <1>c
  <2> QED
    BY <2>4, <2>5
<1> QED
  BY <1>1, <1>2

\* For queue_put publishers, whatever their number and that of the consumers:
\* queue_get_last returns a whole message each time, and each thread that calls
\* it is given later messages with every call.
THEOREM PutTelemInOrder ==
  ASSUME Poppers = {}
  PROVE  Spec => TelemInOrder
<1> DEFINE A == \A t \in Telems :
                  pc'[t] = "last_use" /\ pc[t] # "last_use" =>
                    /\ m'[t].len = 1
                    /\ m[t].len = 1 => m[t].seq < m'[t].seq
<1>1. ASSUME PutState, ReadInv, [Next]_vars PROVE [A]_vars
  <2> SUFFICES ASSUME NEW t \in Telems, pc'[t] = "last_use", pc[t] # "last_use"
               PROVE  /\ m'[t].len = 1
                      /\ m[t].len = 1 => m[t].seq < m'[t].seq
    OBVIOUS
  <2>1. LastTake(t)
    BY <1>1, OnlyLastTakeGives
  <2>2. m'[t] = header[Slot(head)] /\ head \in Unread /\ m'[t].len = 1
    BY <2>1, <1>1, LastTakeEffect
    DEF PutState, TypeOK, Threads, Consumers
  <2> QED
    BY <2>2, <1>1 DEF ReadInv
<1>2. Init => ReadInv
  BY InitRead
<1>3. PutState /\ ReadInv /\ [Next]_vars => ReadInv'
  BY StepRead
<1> QED
  BY <1>1, <1>2, <1>3, PutStateAlways, PTL DEF Spec, TelemInOrder

-----------------------------------------------------------------------------
(* The buffer a real-time consumer is using.                                 *)

\* Message number m[g].seq sits at index i, and tail has moved on from there by
\* at most one index per message published since.
UsedAt(g, i) ==
  /\ ptr[g] = Slot(i) /\ i < tail
  /\ tail - i <= NextUnread - m[g].seq
  /\ tail_seq <= m[g].seq + Entries => body[Slot(i)] = m[g].seq

UseInv ==
  \A g \in Getters : pc[g] = "get_use" => \E i \in Nat : UsedAt(g, i)

LEMMA InitUse == Init => UseInv
<1>1. ASSUME Init, NEW g \in Getters PROVE pc[g] = "idle"
  BY <1>1 DEF Init, Threads, Consumers
<1> QED
  BY <1>1 DEF UseInv

\* Only GetTake gives a thread that calls queue_get a message or a buffer.
LEMMA OnlyTakeGives ==
  ASSUME Poppers = {}, PutState, [Next]_vars, NEW g \in Getters, ~GetTake(g)
  PROVE  m'[g] = m[g] /\ ptr'[g] = ptr[g] /\ (pc'[g] = "get_use" => pc[g] = "get_use")
<1> USE ThreadAssumption DEF Threads, Publishers, Consumers
<1>a. /\ pc = [u \in Threads |-> pc[u]] /\ m = [u \in Threads |-> m[u]]
      /\ ptr = [u \in Threads |-> ptr[u]]
  BY DEF PutState, TypeOK
<1> DEFINE Same == /\ m'[g] = m[g] /\ ptr'[g] = ptr[g]
                   /\ (pc'[g] = "get_use" => pc[g] = "get_use")
<1>1. ASSUME NEW p \in Putters, PutLock(p) PROVE Same
  BY <1>1, <1>a, PutLockEffect
<1>2. ASSUME NEW p \in Putters, PutRoom(p) PROVE Same
  BY <1>2, <1>a, PutRoomEffect
<1>3. ASSUME NEW p \in Putters, PutHeader(p) PROVE Same
  BY <1>3, <1>a, PutHeaderEffect
<1>4. ASSUME NEW p \in Putters, PutBody(p) PROVE Same
  BY <1>4, <1>a, PutBodyEffect
<1>5. ASSUME NEW h \in Getters, GetMissed(h) PROVE Same
  BY <1>5, <1>a, GetMissedEffect
<1>6. ASSUME NEW h \in Getters, GetTake(h) PROVE Same
  <2>1. h # g
    BY <1>6
  <2>2. /\ pc' = [pc EXCEPT ![h] = "get_use"]
        /\ m' = [m EXCEPT ![h] = [len |-> 1, seq |-> tail_seq - 1, miss |-> 0]]
        /\ ptr' = [ptr EXCEPT ![h] = Slot(tail)]
    BY <1>6, GetTakeEffect
  <2>3. m'[g] = m[g]
    BY <2>1, <2>2
  <2>4. ptr'[g] = ptr[g] /\ pc'[g] = pc[g]
    BY <2>1, <2>2
  <2> QED
    BY <2>3, <2>4
<1>7. ASSUME NEW t \in Telems, LastTake(t) PROVE Same
  <2>1. t # g
    OBVIOUS
  <2>2. /\ pc' = [pc EXCEPT ![t] = "last_use"]
        /\ m' = [m EXCEPT ![t] = header[Slot(head)]]
        /\ ptr' = [ptr EXCEPT ![t] = Slot(head)]
    BY <1>7, LastTakeEffect
  <2>3. m'[g] = m[g]
    BY <2>1, <2>2, <1>a
  <2>4. ptr'[g] = ptr[g] /\ pc'[g] = pc[g]
    BY <2>1, <2>2, <1>a
  <2> QED
    BY <2>3, <2>4
<1>8. ASSUME Aside PROVE Same
  BY <1>8 DEF Aside, locals
<1> QED
  BY <1>1, <1>2, <1>3, <1>4, <1>5, <1>6, <1>7, <1>8, StepCases

\* Payloads are written in PutBody only, and messages are numbered upwards.
LEMMA OnlyPutBodyWrites ==
  ASSUME Poppers = {}, PutState, [Next]_vars,
         ~ \E p \in Putters : PutBody(p)
  PROVE  body' = body /\ tail_seq' \in {tail_seq, tail_seq + 1}
<1>1. ASSUME NEW p \in Putters, PutLock(p)
      PROVE  body' = body /\ tail_seq' = tail_seq
  BY <1>1, PutLockEffect
<1>2. ASSUME NEW p \in Putters, PutRoom(p)
      PROVE  body' = body /\ tail_seq' = tail_seq
  BY <1>2, PutRoomEffect
<1>3. ASSUME NEW p \in Putters, PutHeader(p)
      PROVE  body' = body /\ tail_seq' = tail_seq + 1
  BY <1>3, PutHeaderEffect
<1>4. ASSUME NEW g \in Getters, GetMissed(g) \/ GetTake(g)
      PROVE  body' = body /\ tail_seq' = tail_seq
  BY <1>4, GetMissedEffect, GetTakeEffect
<1>5. ASSUME NEW t \in Telems, LastTake(t)
      PROVE  body' = body /\ tail_seq' = tail_seq
  BY <1>5, LastTakeEffect
<1>6. ASSUME Aside PROVE body' = body /\ tail_seq' = tail_seq
  BY <1>6 DEF Aside, indices
<1> QED
  BY <1>1, <1>2, <1>3, <1>4, <1>5, <1>6, StepCases

\* A buffer that is being used stays within reach of its message's number.
LEMMA StepUse ==
  ASSUME Poppers = {}, PutState, UseInv, [Next]_vars
  PROVE  UseInv'
<1> USE ThreadAssumption, SizeAssumption
<1> SUFFICES ASSUME NEW g \in Getters, pc'[g] = "get_use"
             PROVE  \E i \in Nat : UsedAt(g, i)'
  BY DEF UseInv
<1>a. /\ tail \in Nat /\ tail_seq \in Nat /\ Entries \in Nat
      /\ NextUnread \in Nat /\ m[g].seq \in Nat /\ Slot(tail) \in Slots
      /\ body \in [Slots -> Nat]
  BY NextUnreadType, SlotInSlots
  DEF PutState, TypeOK, Header, Threads, Consumers
<1>b. \/ NextUnread' \in {NextUnread, NextUnread + 1} /\ tail' = tail
      \/ NextUnread' = NextUnread + 1 /\ tail' = tail + 1
  BY NextUnreadMoves
<1>1. CASE GetTake(g)
  <2>1. /\ Fresh /\ tail' = tail + 1 /\ UNCHANGED <<tail_seq, body>>
        /\ m' = [m EXCEPT ![g] =
                   [len |-> 1, seq |-> tail_seq - 1, miss |-> 0]]
        /\ ptr' = [ptr EXCEPT ![g] = Slot(tail)]
    BY <1>1, GetTakeEffect
  <2>2. m'[g].seq = tail_seq - 1 /\ ptr'[g] = Slot(tail)
    BY <2>1 DEF PutState, TypeOK, Threads, Consumers
  <2>3. NextUnread = tail_seq - 1 /\ body[Slot(tail)] = tail_seq - 1
    BY <2>1, FreshMessage DEF NextUnread
  <2>4. NextUnread' = tail_seq
    BY <2>1, <2>3, <1>a, <1>b
  <2>5. PICK i \in Nat : i = tail
    BY <1>a
  <2>6. UsedAt(g, i)'
    BY <1>a, <2>1, <2>2, <2>3, <2>4, <2>5 DEF UsedAt, Slot
  <2> QED
    BY <2>6
<1>2. CASE ~GetTake(g)
  <2>1. m'[g] = m[g] /\ ptr'[g] = ptr[g] /\ pc[g] = "get_use"
    BY <1>2, OnlyTakeGives
  <2>2. PICK i \in Nat : UsedAt(g, i)
    BY <2>1 DEF UseInv
  <2>3. /\ ptr[g] = Slot(i) /\ i < tail /\ tail - i <= NextUnread - m[g].seq
        /\ tail_seq <= m[g].seq + Entries => body[Slot(i)] = m[g].seq
    BY <2>2 DEF UsedAt
  <2>4. i < tail' /\ tail' - i <= NextUnread' - m[g].seq
    BY <2>3, <1>a, <1>b
  <2>5. tail_seq' <= m[g].seq + Entries => body'[Slot(i)] = m[g].seq
    <3>1. CASE \E p \in Putters : PutBody(p)
      <4>1. PICK p \in Putters : PutBody(p)
        BY <3>1
      <4>2. /\ pc[p] = "put_body" /\ tail_seq' = tail_seq
            /\ body' = [body EXCEPT ![Slot(tail)] = tail_seq - 1]
        BY <4>1, PutBodyEffect
      <4>3. NextUnread = tail_seq - 1
        BY <4>2 DEF NextUnread, PutHalfWritten
      <4>4. ASSUME tail_seq <= m[g].seq + Entries PROVE Slot(i) # Slot(tail)
        BY <4>3, <4>4, <2>3, <1>a, SlotsDistinct
      <4>5. Slot(i) \in Slots
        BY SlotInSlots
      <4> QED
        BY <4>2, <4>4, <4>5, <2>3, <1>a
    <3>2. CASE ~ \E p \in Putters : PutBody(p)
      BY <3>2, <2>3, <1>a, OnlyPutBodyWrites
    <3> QED
      BY <3>1, <3>2
  <2>6. UsedAt(g, i)'
    BY <2>1, <2>3, <2>4, <2>5 DEF UsedAt, Slot
  <2> QED
    BY <2>6
<1> QED
  BY <1>1, <1>2

\* For queue_put publishers, whatever the size of the ring: a consumer may go
\* on using the buffer queue_get gave it while fewer than Entries further
\* messages are published, and finds in it the message it was given.
THEOREM PutBufferGrace ==
  ASSUME Poppers = {}
  PROVE  Spec => []BufferGrace
<1>1. Init => UseInv
  BY InitUse
<1>2. PutState /\ UseInv /\ [Next]_vars => UseInv'
  BY StepUse
<1>3. UseInv => BufferGrace
  <2> SUFFICES ASSUME UseInv, NEW g \in Getters, pc[g] = "get_use",
                      tail_seq <= m[g].seq + Entries
               PROVE  body[ptr[g]] = m[g].seq
    BY DEF BufferGrace
  <2>1. PICK i \in Nat : UsedAt(g, i)
    BY DEF UseInv
  <2> QED
    BY <2>1 DEF UsedAt
<1> QED
  BY <1>1, <1>2, <1>3, PutStateAlways, PTL DEF Spec

-----------------------------------------------------------------------------
(* The queue as a log: what the ring stands for.                             *)

LogUnread == {Entry(i) : i \in Unread}

\* An entry that is kept carries its payload's number, and entries differ.
LEMMA EntriesDiffer ==
  ASSUME PutState
  PROVE  /\ \A i \in Unread : Entry(i).seq = header[Slot(i)].seq
         /\ \A i, j \in Unread : i < j => Entry(i).seq < Entry(j).seq
         /\ \A i, j \in Unread : Entry(i) = Entry(j) => i = j
<1>1. \A i \in Unread : Entry(i).seq = header[Slot(i)].seq
  BY DEF PutState, ContentInv, UnreadIntact, Entry
<1>2. \A i, j \in Unread : i < j => Entry(i).seq < Entry(j).seq
  BY <1>1 DEF PutState, ContentInv, UnreadIntact
<1>3. ASSUME NEW i \in Unread, NEW j \in Unread, Entry(i) = Entry(j)
      PROVE  i = j
  <2>1. i \in Nat /\ j \in Nat /\ Entry(i).seq \in Nat
    BY <1>1, UnreadTyped DEF PutState
  <2>2. ~(i < j) /\ ~(j < i)
    BY <1>2, <1>3, <2>1
  <2> QED
    BY <2>1, <2>2
<1> QED
  BY <1>1, <1>2, <1>3

\* The log counts its entries as this module does.
LEMMA LogCounts == \A S : Log!Cardinality(S) = Cardinality(S)
BY DEF Log!Cardinality, Cardinality

\* The log has one entry for each index between head and tail.
LEMMA LogSize ==
  ASSUME PutState
  PROVE  Cardinality(LogUnread) = tail - head
<1>a. head \in Nat /\ tail \in Nat /\ head <= tail
  BY DEF PutState, TypeOK, WindowInv, WindowInRing
<1> DEFINE F == [i \in Unread |-> Entry(i)]
<1>1. F \in [Unread -> LogUnread]
  BY DEF LogUnread
<1>2. \A i, j \in Unread : F[i] = F[j] => i = j
  BY EntriesDiffer
<1>3. \A e \in LogUnread : \E i \in Unread : F[i] = e
  BY DEF LogUnread
<1>4. F \in Bijection(Unread, LogUnread)
  BY <1>1, <1>2, <1>3, Fun_IsBij
<1>5. ExistsBijection(Unread, LogUnread)
  BY <1>4 DEF ExistsBijection
<1>6. IsFiniteSet(Unread) /\ Cardinality(Unread) = tail - head
  <2>1. tail - 1 \in Int /\ head \in Int
    BY <1>a
  <2>2. /\ IsFiniteSet(Unread)
        /\ Cardinality(Unread) =
             IF head > tail - 1 THEN 0 ELSE (tail - 1) - head + 1
    BY <2>1, FS_Interval DEF Unread
  <2> QED
    BY <2>2, <1>a
<1> QED
  BY <1>5, <1>6, FS_Bijection

\* Unless they are rewritten, entries stay.
LEMMA EntriesKept ==
  ASSUME Unread' = Unread,
         \A i \in Unread : /\ header'[Slot(i)] = header[Slot(i)]
                           /\ body'[Slot(i)] = body[Slot(i)]
  PROVE  LogUnread' = LogUnread
BY DEF LogUnread, Entry

\* Moving tail past the newest message adds it to the log.
LEMMA EntryAdded ==
  ASSUME Unread' = Unread \cup {tail}, UNCHANGED body,
         \A i \in Unread : header'[Slot(i)] = header[Slot(i)],
         NEW flag, NEW n,
         header'[Slot(tail)].miss = flag, body[Slot(tail)] = n
  PROVE  LogUnread' = LogUnread \cup {[seq |-> n, miss |-> flag]}
<1>1. \A i \in Unread : Entry(i)' = Entry(i)
  BY DEF Entry
<1>2. PICK k : k = tail
  OBVIOUS
<1>3. Entry(k)' = [seq |-> n, miss |-> flag]
  BY <1>2 DEF Entry, Slot
<1>4. LogUnread' = {Entry(i)' : i \in Unread \cup {k}}
  BY <1>2 DEF LogUnread
<1> QED
  BY <1>1, <1>3, <1>4 DEF LogUnread

\* Moving head past the oldest message removes it from the log.
LEMMA EntryRemoved ==
  ASSUME PutState, UNCHANGED <<header, body>>, head \in Unread,
         Unread' = Unread \ {head}
  PROVE  /\ LogUnread' = LogUnread \ {Entry(head)}
         /\ Log!IsOldest(Entry(head))
<1>a. /\ head \in Nat /\ tail \in Nat
      /\ \A i \in Unread : i \in Nat /\ head <= i
      /\ \A i \in Unread : Entry(i).seq \in Nat
  <2>1. \A i \in Unread : Entry(i).seq \in Nat
    BY EntriesDiffer, UnreadTyped DEF PutState
  <2> QED
    BY <2>1 DEF PutState, TypeOK, Unread
<1>1. \A i \in Unread : Entry(i)' = Entry(i)
  BY DEF Entry
<1>2. LogUnread' = {Entry(i) : i \in Unread \ {head}}
  BY <1>1 DEF LogUnread
<1>3. LogUnread' = LogUnread \ {Entry(head)}
  BY <1>2, EntriesDiffer DEF LogUnread
<1>4. \A i \in Unread : Entry(head).seq <= Entry(i).seq
  <2>1. ASSUME NEW i \in Unread PROVE Entry(head).seq <= Entry(i).seq
    <3>1. CASE i = head
      BY <3>1, <1>a
    <3>2. CASE head < i
      BY <3>2, <1>a, EntriesDiffer
    <3> QED
      BY <3>1, <3>2, <1>a
  <2> QED
    BY <2>1
<1>5. Log!IsOldest(Entry(head))
  BY <1>4 DEF Log!IsOldest
<1> QED
  BY <1>3, <1>5

\* The variables of the log, named as in this module.
LogPublished == IF PutHalfWritten THEN tail_seq - 1 ELSE tail_seq
LogGot  == [g \in Getters |-> HandedOut(g)]
LogRead == [t \in Telems |-> HandedOut(t)]

LEMMA FreshIsLogs == Fresh <=> Behind /\ ~PutInProgress
BY DEF Fresh, Quiet, PutInProgress

LogStep == [Log!Next]_(Log!vars)

\* What a thread was handed stays while its message_t does.
LEMMA HandedKept ==
  ASSUME \A c \in Consumers : m'[c] = m[c]
  PROVE  LogGot' = LogGot /\ LogRead' = LogRead
BY DEF LogGot, LogRead, HandedOut, Consumers

LEMMA Stutters ==
  ASSUME LogPublished' = LogPublished, Fresh' <=> Fresh,
         last_tail_seq' = last_tail_seq, LogUnread' = LogUnread,
         LogGot' = LogGot, LogRead' = LogRead
  PROVE  LogStep
<1>1. (Behind /\ ~PutInProgress)' = (Behind /\ ~PutInProgress)
  BY FreshIsLogs DEF Fresh, Quiet, PutInProgress
<1> QED
  BY <1>1 DEF LogStep, Log!vars, LogPublished, LogUnread, LogGot, LogRead

\* A publisher that finds the newest message fresh retires it.
LEMMA PutLockMaps ==
  ASSUME Poppers = {}, PutState, NEW p \in Putters, PutLock(p)
  PROVE  LogStep
<1> USE ThreadAssumption DEF Threads, Publishers, Consumers
<1>a. pc = [t \in Threads |-> pc[t]]
  BY DEF PutState, TypeOK
<1>1. /\ UNCHANGED <<tail_seq, last_tail_seq, body, m>> /\ Quiet
      /\ pc' = [pc EXCEPT ![p] = "put_room"]
  BY PutLockEffect
<1>2. ~PutHalfWritten /\ ~PutHalfWritten' /\ PutInProgress' /\ ~PutInProgress
  BY <1>1, <1>a, FreshIsWhole
  DEF PutHalfWritten, PutInProgress, Quiet, PutPlaces
<1>3. LogPublished' = LogPublished /\ LogPublished = tail_seq
  BY <1>1, <1>2 DEF LogPublished
<1>4. LogGot' = LogGot /\ LogRead' = LogRead
  BY <1>1, HandedKept
<1>5. CASE ~Behind
  <2>1. UNCHANGED <<header, tail, head>>
    BY <1>5, PutLockEffect
  <2>2. LogUnread' = LogUnread
    BY <1>1, <2>1, EntriesKept DEF Unread
  <2>3. ~Fresh /\ ~Fresh'
    BY <1>2, <1>5 DEF Fresh, Quiet, PutInProgress
  <2> QED
    BY <1>1, <1>3, <1>4, <2>2, <2>3, Stutters
<1>6. CASE Behind
  <2>1. LogUnread' = LogUnread \cup {[seq |-> tail_seq - 1, miss |-> 1]}
    <3>1. /\ Unread' = Unread \cup {tail} /\ Fresh
          /\ header'[Slot(tail)] = [len |-> 1, seq |-> tail_seq - 1, miss |-> 1]
          /\ \A i \in Unread : header'[Slot(i)] = header[Slot(i)]
      BY <1>6, PutLockEffect
    <3>2. header'[Slot(tail)].miss = 1 /\ body[Slot(tail)] = tail_seq - 1
      BY <3>1, FreshMessage
    <3> QED
      BY <1>1, <3>1, <3>2, EntryAdded
  <2>2. Log!Retire
    BY <1>1, <1>2, <1>3, <1>4, <1>6, <2>1
    DEF Log!Retire, Log!Message, Log!Newest, LogPublished, LogUnread, LogGot,
      LogRead
  <2> QED
    BY <2>2 DEF LogStep, Log!Next
<1> QED
  BY <1>5, <1>6

\* A publisher that needs the room discards the oldest entry.
LEMMA PutRoomMaps ==
  ASSUME Poppers = {}, PutState, NEW p \in Putters, PutRoom(p)
  PROVE  LogStep
<1> USE ThreadAssumption DEF Threads, Publishers, Consumers
<1>a. pc = [t \in Threads |-> pc[t]]
  BY DEF PutState, TypeOK
<1>1. /\ UNCHANGED <<tail, tail_seq, last_tail_seq, header, body, m>>
      /\ pc[p] = "put_room" /\ pc' = [pc EXCEPT ![p] = "put_header"]
  BY PutRoomEffect
<1>2. \A q \in Putters : pc[q] \in PutPlaces => q = p
  BY <1>1, OnePutter DEF PutPlaces
<1>3. ~PutHalfWritten /\ ~PutHalfWritten' /\ PutInProgress /\ PutInProgress'
  BY <1>1, <1>2, <1>a DEF PutHalfWritten, PutInProgress, PutPlaces
<1>4. LogPublished' = LogPublished /\ ~Fresh /\ ~Fresh'
  BY <1>1, <1>3 DEF LogPublished, Fresh, Quiet, PutInProgress
<1>5. LogGot' = LogGot /\ LogRead' = LogRead
  BY <1>1, HandedKept
<1>6. CASE tail - head = Entries
  <2>1. head \in Unread /\ Unread' = Unread \ {head}
    BY <1>6, PutRoomEffect
  <2>2. /\ LogUnread' = LogUnread \ {Entry(head)}
        /\ Log!IsOldest(Entry(head)) /\ Entry(head) \in LogUnread
    BY <1>1, <2>1, EntryRemoved DEF LogUnread
  <2>3. Log!Cardinality({Entry(i) : i \in Unread}) = Entries
    BY <1>6, LogSize, LogCounts DEF LogUnread
  <2>4. (Behind /\ ~PutInProgress)' = (Behind /\ ~PutInProgress)
    BY <1>3
  <2>5. \E e \in {Entry(i) : i \in Unread} :
          /\ Log!IsOldest(e)
          /\ {Entry(i) : i \in Unread}' = {Entry(i) : i \in Unread} \ {e}
    BY <2>2 DEF LogUnread
  <2>6. Log!Discard
    BY <1>1, <1>4, <1>5, <2>3, <2>4, <2>5
    DEF Log!Discard, LogPublished, LogGot, LogRead
  <2> QED
    BY <2>6 DEF LogStep, Log!Next
<1>7. CASE tail - head # Entries
  <2>1. Unread' = Unread
    BY <1>7, PutRoomEffect
  <2>2. LogUnread' = LogUnread
    BY <1>1, <2>1, EntriesKept
  <2> QED
    BY <1>1, <1>4, <1>5, <2>2, Stutters
<1> QED
  BY <1>6, <1>7

\* A header alone publishes nothing.
LEMMA PutHeaderMaps ==
  ASSUME Poppers = {}, PutState, NEW p \in Putters, PutHeader(p)
  PROVE  LogStep
<1> USE ThreadAssumption DEF Threads, Publishers, Consumers
<1>a. /\ pc = [t \in Threads |-> pc[t]] /\ m = [t \in Threads |-> m[t]]
      /\ tail_seq \in Nat
  BY DEF PutState, TypeOK
<1>1. /\ UNCHANGED <<last_tail_seq, body>> /\ tail_seq' = tail_seq + 1
      /\ pc[p] = "put_header" /\ pc' = [pc EXCEPT ![p] = "put_body"]
      /\ m' = [m EXCEPT ![p] = NewHeader] /\ Unread' = Unread
      /\ \A i \in Unread : header'[Slot(i)] = header[Slot(i)]
  BY PutHeaderEffect
<1>2. \A q \in Putters : pc[q] \in PutPlaces => q = p
  BY <1>1, OnePutter DEF PutPlaces
<1>3. ~PutHalfWritten /\ PutHalfWritten' /\ PutInProgress /\ PutInProgress'
  BY <1>1, <1>2, <1>a DEF PutHalfWritten, PutInProgress, PutPlaces
<1>4. LogPublished' = LogPublished /\ ~Fresh /\ ~Fresh'
  BY <1>1, <1>3, <1>a DEF LogPublished, Fresh, Quiet, PutInProgress
<1>5. LogGot' = LogGot /\ LogRead' = LogRead
  BY <1>1, <1>a, HandedKept
<1>6. LogUnread' = LogUnread
  BY <1>1, EntriesKept
<1> QED
  BY <1>1, <1>4, <1>5, <1>6, Stutters

\* The payload publishes the message.
LEMMA PutBodyMaps ==
  ASSUME Poppers = {}, PutState, NEW p \in Putters, PutBody(p)
  PROVE  LogStep
<1> USE ThreadAssumption DEF Threads, Publishers, Consumers
<1>1. /\ UNCHANGED <<tail_seq, last_tail_seq, header, m>> /\ Unread' = Unread
      /\ pc[p] = "put_body" /\ Fresh' /\ tail - head < Entries
      /\ tail_seq - 1 \in Nat
      /\ \A i \in Unread : body'[Slot(i)] = body[Slot(i)]
  BY PutBodyEffect
<1>2. PutHalfWritten /\ PutInProgress
  BY <1>1 DEF PutHalfWritten, PutInProgress, PutPlaces
<1>3. ~PutHalfWritten' /\ ~PutInProgress' /\ Behind'
  BY <1>1 DEF Fresh, Quiet, PutHalfWritten, PutInProgress, PutPlaces
<1>4. LogPublished' = LogPublished + 1
  BY <1>1, <1>2, <1>3 DEF LogPublished, PutState, TypeOK
<1>5. LogGot' = LogGot /\ LogRead' = LogRead
  BY <1>1, HandedKept
<1>6. LogUnread' = LogUnread
  BY <1>1, EntriesKept
<1>7. Log!Cardinality({Entry(i) : i \in Unread}) < Entries
  BY <1>1, LogSize, LogCounts DEF LogUnread
<1>8. Log!Publish
  BY <1>1, <1>2, <1>3, <1>4, <1>5, <1>6, <1>7
  DEF Log!Publish, LogPublished, LogUnread, LogGot, LogRead
<1> QED
  BY <1>8 DEF LogStep, Log!Next

\* queue_get takes the fresh message.
LEMMA GetTakeMaps ==
  ASSUME Poppers = {}, PutState, NEW g \in Getters, GetTake(g)
  PROVE  LogStep
<1> USE ThreadAssumption DEF Threads, Publishers, Consumers
<1>a. /\ pc = [t \in Threads |-> pc[t]] /\ m = [t \in Threads |-> m[t]]
      /\ tail_seq \in Nat
  BY DEF PutState, TypeOK
<1>1. /\ UNCHANGED <<tail_seq, header, body>> /\ Fresh /\ ~Behind'
      /\ pc' = [pc EXCEPT ![g] = "get_use"]
      /\ tail_seq = last_tail_seq + 1 /\ last_tail_seq' = tail_seq
      /\ Unread' = Unread \cup {tail}
      /\ m' = [m EXCEPT ![g] =
                 [len |-> 1, seq |-> tail_seq - 1, miss |-> 0]]
  BY GetTakeEffect
<1>2. Behind /\ ~PutInProgress /\ ~PutHalfWritten /\ ~PutHalfWritten'
  <2>1. Quiet /\ Quiet'
    BY <1>1, <1>a DEF Fresh, Quiet, PutPlaces
  <2> QED
    BY <1>1, <2>1 DEF Fresh, Quiet, PutInProgress, PutHalfWritten, PutPlaces
<1>3. LogPublished = tail_seq /\ LogPublished' = tail_seq
  BY <1>1, <1>2 DEF LogPublished
<1>4. LogUnread' = LogUnread \cup {[seq |-> tail_seq - 1, miss |-> 0]}
  <2>1. header[Slot(tail)].miss = 0 /\ body[Slot(tail)] = tail_seq - 1
    BY <1>1, FreshMessage
  <2> QED
    BY <1>1, <2>1, EntryAdded
<1>5. LogRead' = LogRead
  <2>1. \A t \in Telems : m'[t] = m[t]
    BY <1>1, <1>a
  <2> QED
    BY <2>1 DEF LogRead, HandedOut
<1>6. LogGot' = [LogGot EXCEPT ![g] =
                   [seq |-> tail_seq - 1, miss |-> 0, given |-> TRUE]]
  <2>1. ASSUME NEW h \in Getters
        PROVE  HandedOut(h)' =
                 IF h = g
                 THEN [seq |-> tail_seq - 1, miss |-> 0, given |-> TRUE]
                 ELSE HandedOut(h)
    <3>1. CASE h = g
      <4>1. m'[h] = [len |-> 1, seq |-> tail_seq - 1, miss |-> 0]
        BY <1>1, <1>a, <3>1
      <4>2. m'[h].len = 1 /\ m'[h].seq = tail_seq - 1 /\ m'[h].miss = 0
        BY <4>1
      <4> QED
        BY <3>1, <4>2 DEF HandedOut
    <3>2. CASE h # g
      <4>1. m'[h] = m[h]
        BY <1>1, <1>a, <3>2
      <4> QED
        BY <3>2, <4>1 DEF HandedOut
    <3> QED
      BY <3>1, <3>2
  <2> QED
    BY <2>1 DEF LogGot
<1>7. Log!Take(g)
  BY <1>1, <1>2, <1>3, <1>4, <1>5, <1>6
  DEF Log!Take, Log!Given, Log!Message, Log!Newest, LogPublished, LogUnread,
    LogGot, LogRead
<1> QED
  BY <1>7 DEF LogStep, Log!Next

\* queue_get gives the fresh message up.
LEMMA GetMissedMaps ==
  ASSUME Poppers = {}, PutState, NEW g \in Getters, GetMissed(g)
  PROVE  LogStep
<1> USE ThreadAssumption DEF Threads, Publishers, Consumers
<1>a. pc = [t \in Threads |-> pc[t]]
  BY DEF PutState, TypeOK
<1>1. /\ UNCHANGED <<tail_seq, header, body, m>> /\ Fresh /\ ~Behind'
      /\ pc' = [pc EXCEPT ![g] = "idle"] /\ Unread' = Unread
      /\ tail_seq > last_tail_seq + 1 /\ last_tail_seq' = tail_seq
  BY GetMissedEffect
<1>2. Behind /\ ~PutInProgress /\ ~PutHalfWritten /\ ~PutHalfWritten'
  <2>1. Quiet /\ Quiet'
    BY <1>1, <1>a DEF Fresh, Quiet, PutPlaces
  <2> QED
    BY <1>1, <2>1 DEF Fresh, Quiet, PutInProgress, PutHalfWritten, PutPlaces
<1>3. LogPublished = tail_seq /\ LogPublished' = tail_seq
  BY <1>1, <1>2 DEF LogPublished
<1>4. LogUnread' = LogUnread
  BY <1>1, EntriesKept
<1>5. LogGot' = LogGot /\ LogRead' = LogRead
  BY <1>1, HandedKept
<1>6. Log!GiveUp
  BY <1>1, <1>2, <1>3, <1>4, <1>5
  DEF Log!GiveUp, LogPublished, LogUnread, LogGot, LogRead
<1> QED
  BY <1>6 DEF LogStep, Log!Next

\* queue_get_last reads the oldest entry.
LEMMA LastTakeMaps ==
  ASSUME Poppers = {}, PutState, NEW t \in Telems, LastTake(t)
  PROVE  LogStep
<1> USE ThreadAssumption DEF Threads, Publishers, Consumers
<1>a. pc = [u \in Threads |-> pc[u]] /\ m = [u \in Threads |-> m[u]]
  BY DEF PutState, TypeOK
<1>1. /\ UNCHANGED <<tail_seq, last_tail_seq, header, body>>
      /\ pc' = [pc EXCEPT ![t] = "last_use"]
      /\ head \in Unread /\ Unread' = Unread \ {head}
      /\ m' = [m EXCEPT ![t] = header[Slot(head)]]
      /\ header[Slot(head)].len = 1
      /\ body[Slot(head)] = header[Slot(head)].seq
  BY LastTakeEffect
<1>2. \A p \in Putters : pc'[p] = pc[p]
  BY <1>1, <1>a
<1>3. /\ LogPublished' = LogPublished
      /\ (Behind /\ ~PutInProgress)' = (Behind /\ ~PutInProgress)
  BY <1>1, <1>2 DEF LogPublished, PutHalfWritten, PutInProgress, Behind
<1>4. /\ LogUnread' = LogUnread \ {Entry(head)}
      /\ Log!IsOldest(Entry(head)) /\ Entry(head) \in LogUnread
  BY <1>1, EntryRemoved DEF LogUnread
<1>5. LogGot' = LogGot
  <2>1. \A g \in Getters : m'[g] = m[g]
    BY <1>1, <1>a
  <2> QED
    BY <2>1 DEF LogGot, HandedOut
<1>6. LogRead' = [LogRead EXCEPT ![t] = Log!Given(Entry(head))]
  <2>1. ASSUME NEW u \in Telems
        PROVE  HandedOut(u)' =
                 IF u = t THEN Log!Given(Entry(head)) ELSE HandedOut(u)
    <3>1. CASE u = t
      <4>1. m'[u] = header[Slot(head)]
        BY <1>1, <1>a, <3>1
      <4> QED
        BY <1>1, <3>1, <4>1 DEF HandedOut, Log!Given, Entry
    <3>2. CASE u # t
      <4>1. m'[u] = m[u]
        BY <1>1, <1>a, <3>2
      <4> QED
        BY <3>2, <4>1 DEF HandedOut
    <3> QED
      BY <3>1, <3>2
  <2> QED
    BY <2>1 DEF LogRead
<1>7. \E e \in {Entry(i) : i \in Unread} :
        /\ Log!IsOldest(e)
        /\ {Entry(i) : i \in Unread}' = {Entry(i) : i \in Unread} \ {e}
        /\ LogRead' = [LogRead EXCEPT ![t] = Log!Given(e)]
  BY <1>4, <1>6 DEF LogUnread
<1>8. Log!Read(t)
  BY <1>1, <1>3, <1>5, <1>7 DEF Log!Read, LogPublished, LogGot, LogRead
<1> QED
  BY <1>8 DEF LogStep, Log!Next

LEMMA AsideMaps ==
  ASSUME Aside
  PROVE  LogStep
<1>1. /\ UNCHANGED <<tail_seq, last_tail_seq, header, body, m>>
      /\ Unread' = Unread /\ \A p \in Putters : pc'[p] = pc[p]
  BY DEF Aside, indices, locals, Unread
<1>2. LogPublished' = LogPublished /\ (Fresh' <=> Fresh)
  BY <1>1 DEF LogPublished, Fresh, Quiet, Behind, PutHalfWritten
<1>3. LogUnread' = LogUnread
  BY <1>1, EntriesKept
<1>4. LogGot' = LogGot /\ LogRead' = LogRead
  BY <1>1, HandedKept
<1> QED
  BY <1>1, <1>2, <1>3, <1>4, Stutters

LEMMA InitMaps == Init => Log!Init
<1> USE DEF Threads, Publishers, Consumers
<1> SUFFICES ASSUME Init PROVE Log!Init
  OBVIOUS
<1>1. /\ tail_seq = 0 /\ last_tail_seq = 0 /\ Unread = {} /\ ~Behind
      /\ pc = [t \in Threads |-> "idle"] /\ m = [t \in Threads |-> ZeroHeader]
  BY DEF Init, Unread, Behind
<1>2. ~PutHalfWritten
  BY <1>1 DEF PutHalfWritten
<1>3. ASSUME NEW c \in Consumers PROVE HandedOut(c) = Log!NoMessage
  <2>1. m[c].seq = 0 /\ m[c].miss = 0 /\ ~(m[c].len = 1)
    BY <1>1 DEF ZeroHeader
  <2> QED
    BY <2>1 DEF HandedOut, Log!NoMessage
<1> QED
  BY <1>1, <1>2, <1>3 DEF Log!Init

\* The queue implements the log: for queue_put publishers, whatever the number
\* of threads and slots, each step of queue_put, queue_get and queue_get_last
\* does what one operation of TelemetryLog does, or nothing.
THEOREM PutImplementsLog ==
  ASSUME Poppers = {}
  PROVE  Spec => ImplementsLog
<1>1. PutState /\ [Next]_vars => [Log!Next]_(Log!vars)
  BY StepCases, PutLockMaps, PutRoomMaps, PutHeaderMaps, PutBodyMaps,
    GetTakeMaps, GetMissedMaps, LastTakeMaps, AsideMaps DEF LogStep
<1> QED
  BY <1>1, InitMaps, PutStateAlways, PTL DEF Spec, ImplementsLog, Log!Spec

-----------------------------------------------------------------------------
(* Sleeping in queue_get_last.                                               *)

\* The threads in queue_get_last that are about to look or to take a message.
Woken == {t \in Telems : \/ pc[t] = "last_read"
                         \/ pc[t] = "last_wait" /\ t \notin write_cond}

\* A thread sleeps in queue_get_last, or is on its way to.
Drowsy == write_cond # {} \/ \E t \in Telems : pc[t] = "last_empty"

\* write_cond has been signalled since tail last moved.
Signalled ==
  Fresh \/ \E p \in Putters : pc[p] \in {"put_header", "put_body"}

\* There is a woken thread for every message but the one tail has just moved
\* past: queue_get and the first half of queue_put move it without a signal,
\* and before it moves again the second half of a queue_put signals.
SleepInv ==
  /\ \A t \in write_cond : pc[t] = "last_wait"
  /\ IsFiniteSet(Woken)
  /\ Drowsy => tail - head <= Cardinality(Woken) + (IF Signalled THEN 0 ELSE 1)

LEMMA InitSleep == Init => SleepInv
<1> SUFFICES ASSUME Init PROVE SleepInv
  OBVIOUS
<1>1. write_cond = {} /\ \A t \in Telems : pc[t] = "idle"
  BY DEF Init, Threads, Consumers
<1>2. Woken = {}
  BY <1>1 DEF Woken
<1> QED
  BY <1>1, <1>2, FS_EmptySet DEF SleepInv, Drowsy

LEMMA WokenSize ==
  ASSUME SleepInv
  PROVE  Cardinality(Woken) \in Nat
BY FS_CardinalityType DEF SleepInv

\* A step that is no telemetry thread's, and signals none.
LEMMA TelemsKept ==
  ASSUME \A t \in Telems : pc'[t] = pc[t], write_cond' = write_cond
  PROVE  Woken' = Woken /\ (Drowsy' <=> Drowsy)
BY DEF Woken, Drowsy

\* A step that is no publisher's, and leaves the newest message what it is.
LEMMA SignalKept ==
  ASSUME \A p \in Putters : pc'[p] = pc[p],
         UNCHANGED <<tail_seq, last_tail_seq>>
  PROVE  Signalled' <=> Signalled
BY DEF Signalled, Fresh, Quiet, Behind

\* What to show of a step that neither wakes a thread nor lets one sleep.
LEMMA SleepFollows ==
  ASSUME SleepInv, Woken' = Woken, Drowsy' => Drowsy,
         \A t \in write_cond' : pc'[t] = "last_wait",
         Drowsy => tail' - head'
                     <= Cardinality(Woken) + (IF Signalled' THEN 0 ELSE 1)
  PROVE  SleepInv'
BY DEF SleepInv

\* One thread more has been woken.
LEMMA OneWoken ==
  ASSUME SleepInv, NEW t, t \notin Woken, Woken' = Woken \cup {t}
  PROVE  IsFiniteSet(Woken') /\ Cardinality(Woken') = Cardinality(Woken) + 1
BY FS_AddElement DEF SleepInv

\* A woken thread has done its work.
LEMMA OneLess ==
  ASSUME SleepInv, NEW t, t \in Woken, Woken' = Woken \ {t}
  PROVE  IsFiniteSet(Woken') /\ Cardinality(Woken') = Cardinality(Woken) - 1
BY FS_RemoveElement DEF SleepInv

\* Steps of publishers keep SleepInv.
LEMMA PutSleep ==
  ASSUME Poppers = {}, PutState, SleepInv, NEW p \in Putters, Put(p)
  PROVE  SleepInv'
<1> USE ThreadAssumption DEF Threads, Publishers, Consumers
<1>a. /\ pc = [t \in Threads |-> pc[t]] /\ write_cond \subseteq Telems
      /\ head \in Nat /\ tail \in Nat /\ Cardinality(Woken) \in Nat
  BY WokenSize DEF PutState, TypeOK
<1>1. CASE PutLock(p)
  <2>1. /\ Quiet /\ pc' = [pc EXCEPT ![p] = "put_room"]
        /\ UNCHANGED <<head, write_cond>>
    BY <1>1, PutLockEffect
  <2>2. Woken' = Woken /\ (Drowsy' <=> Drowsy)
    BY <2>1, <1>a, TelemsKept
  <2>3. ~Signalled'
    BY <2>1, <1>a DEF Signalled, Fresh, Quiet, PutPlaces
  <2>4. CASE Behind
    <3>1. tail' = tail + 1 /\ Signalled
      BY <1>1, <2>4, PutLockEffect DEF Signalled
    <3>2. Drowsy => tail' - head <= Cardinality(Woken) + 1
      BY <3>1, <1>a DEF SleepInv
    <3> QED
      BY <2>1, <2>2, <2>3, <3>2, <1>a, SleepFollows DEF SleepInv
  <2>5. CASE ~Behind
    <3>1. tail' = tail
      BY <1>1, <2>5, PutLockEffect
    <3>2. Drowsy => tail' - head <= Cardinality(Woken) + 1
      BY <3>1, <1>a DEF SleepInv
    <3> QED
      BY <2>1, <2>2, <2>3, <3>2, <1>a, SleepFollows DEF SleepInv
  <2> QED
    BY <2>4, <2>5
<1>2. CASE PutRoom(p)
  <2>1. /\ pc[p] = "put_room" /\ pc' = [pc EXCEPT ![p] = "put_header"]
        /\ write_cond' \in SignalOne(write_cond) /\ read_mutex = NoThread
        /\ tail' = tail /\ head' \in {head, head + 1}
    BY <1>2, PutRoomEffect
  <2>2. \A t \in Telems : pc[t] \notin {"last_empty", "last_read"}
    BY <2>1 DEF PutState, WindowInv, MutexHeld
  <2>3. pc'[p] = "put_header" /\ \A t \in Telems : pc'[t] = pc[t]
    BY <2>1, <1>a
  <2>4. Signalled'
    BY <2>3 DEF Signalled
  <2>5. \A t \in write_cond' : pc'[t] = "last_wait"
    BY <2>1, <2>3, <1>a, SignalOneReleases DEF SleepInv
  <2>6. CASE write_cond = {}
    <3>1. write_cond' = write_cond
      BY <2>1, <2>6 DEF SignalOne
    <3>2. Woken' = Woken /\ (Drowsy' <=> Drowsy)
      BY <2>3, <3>1, TelemsKept
    <3>3. ~Drowsy
      BY <2>2, <2>6 DEF Drowsy
    <3> QED
      BY <2>5, <3>2, <3>3 DEF SleepInv
  <2>7. CASE write_cond # {}
    <3>1. PICK t \in write_cond : write_cond' = write_cond \ {t}
      BY <2>1, <2>7 DEF SignalOne
    <3>2. t \in Telems /\ pc[t] = "last_wait" /\ t \notin Woken
      BY <3>1, <1>a DEF SleepInv, Woken
    <3>3. Woken' = Woken \cup {t}
      BY <2>3, <3>1, <3>2 DEF Woken
    <3>4. IsFiniteSet(Woken') /\ Cardinality(Woken') = Cardinality(Woken) + 1
      BY <3>2, <3>3, OneWoken
    <3>5. tail - head <= Cardinality(Woken) + 1
      BY <2>7, <1>a DEF SleepInv, Drowsy
    <3>6. tail' - head' <= Cardinality(Woken')
      BY <2>1, <3>4, <3>5, <1>a
    <3> QED
      BY <2>4, <2>5, <3>4, <3>6, <1>a DEF SleepInv
  <2> QED
    BY <2>6, <2>7
<1>3. CASE PutHeader(p)
  <2>1. /\ pc[p] = "put_header" /\ pc' = [pc EXCEPT ![p] = "put_body"]
        /\ UNCHANGED <<head, tail, write_cond>>
    BY <1>3, PutHeaderEffect
  <2>2. Signalled /\ Signalled'
    BY <2>1, <1>a DEF Signalled
  <2>3. Woken' = Woken /\ (Drowsy' <=> Drowsy)
    BY <2>1, <1>a, TelemsKept
  <2> QED
    BY <2>1, <2>2, <2>3, <1>a DEF SleepInv
<1>4. CASE PutBody(p)
  <2>1. /\ pc[p] = "put_body" /\ pc' = [pc EXCEPT ![p] = "idle"] /\ Fresh'
        /\ UNCHANGED <<head, tail, write_cond>>
    BY <1>4, PutBodyEffect
  <2>2. Signalled /\ Signalled'
    BY <2>1 DEF Signalled
  <2>3. Woken' = Woken /\ (Drowsy' <=> Drowsy)
    BY <2>1, <1>a, TelemsKept
  <2> QED
    BY <2>1, <2>2, <2>3, <1>a DEF SleepInv
<1> QED
  BY <1>1, <1>2, <1>3, <1>4 DEF Put

\* Steps of queue_get keep SleepInv.
LEMMA GetSleep ==
  ASSUME Poppers = {}, PutState, SleepInv, NEW g \in Getters, Get(g)
  PROVE  SleepInv'
<1> USE ThreadAssumption DEF Threads, Publishers, Consumers
<1>a. /\ pc = [t \in Threads |-> pc[t]] /\ write_cond \subseteq Telems
      /\ head \in Nat /\ tail \in Nat /\ Cardinality(Woken) \in Nat
  BY WokenSize DEF PutState, TypeOK
<1>1. /\ UNCHANGED <<head, write_cond>> /\ \A t \in Telems : pc'[t] = pc[t]
  BY <1>a DEF Get, GetWait, GetMissed, GetTake, GetTimeout, GetTimeoutReturn,
    Goto, indices, sync
<1>2. Woken' = Woken /\ (Drowsy' <=> Drowsy)
  BY <1>1, TelemsKept
<1>3. CASE GetTake(g)
  <2>1. /\ Fresh /\ ~Behind' /\ tail' = tail + 1
        /\ pc' = [pc EXCEPT ![g] = "get_use"]
    BY <1>3, GetTakeEffect
  <2>2. Signalled /\ ~Signalled'
    BY <2>1, <1>a DEF Signalled, Fresh, Quiet, PutPlaces
  <2>3. Drowsy => tail' - head <= Cardinality(Woken) + 1
    BY <2>1, <2>2, <1>a DEF SleepInv
  <2> QED
    BY <1>1, <1>2, <2>2, <2>3, <1>a, SleepFollows DEF SleepInv
<1>4. CASE GetMissed(g)
  <2>1. /\ Fresh /\ tail' = tail
    BY <1>4, GetMissedEffect
  <2>2. Signalled
    BY <2>1 DEF Signalled
  <2> QED
    BY <1>1, <1>2, <2>1, <2>2, <1>a DEF SleepInv
<1>5. CASE GetWait(g) \/ GetTimeout(g) \/ GetTimeoutReturn(g)
  <2>1. /\ UNCHANGED indices /\ \A p \in Putters : pc'[p] = pc[p]
    BY <1>5, <1>a DEF GetWait, GetTimeout, GetTimeoutReturn, Goto
  <2>2. tail' = tail /\ (Signalled' <=> Signalled)
    BY <2>1, SignalKept DEF indices
  <2> QED
    BY <1>1, <1>2, <2>2, <1>a DEF SleepInv
<1> QED
  BY <1>3, <1>4, <1>5 DEF Get

\* Steps of queue_get_last keep SleepInv.
LEMMA LastSleep ==
  ASSUME Poppers = {}, PutState, SleepInv, NEW t \in Telems, GetLast(t)
  PROVE  SleepInv'
<1> USE ThreadAssumption DEF Threads, Publishers, Consumers
<1>a. /\ pc = [u \in Threads |-> pc[u]] /\ write_cond \subseteq Telems
      /\ head \in Nat /\ tail \in Nat /\ Cardinality(Woken) \in Nat
      /\ head <= tail
  BY WokenSize DEF PutState, TypeOK, WindowInv, WindowInRing
<1>1. UNCHANGED <<tail, tail_seq, last_tail_seq>>
  BY DEF GetLast, LastLock, LastWait, LastTake, LastTimeout,
    LastTimeoutReturn, indices
<1>2. Signalled' <=> Signalled
  <2>1. \A p \in Putters : pc'[p] = pc[p]
    BY <1>a DEF GetLast, LastLock, LastWait, LastTake, LastTimeout,
      LastTimeoutReturn, Goto
  <2> QED
    BY <1>1, <2>1, SignalKept
<1>3. CASE LastLock(t)
  <2>1. /\ UNCHANGED <<head, write_cond>> /\ read_mutex = NoThread
        /\ pc' = [pc EXCEPT ![t] = IF Minus(tail, head) = 0 THEN "last_empty"
                                                            ELSE "last_read"]
        /\ pc[t] = "idle" \/ (pc[t] = "last_wait" /\ t \notin write_cond)
    BY <1>3 DEF LastLock, indices
  <2>2. \A u \in write_cond' : pc'[u] = "last_wait"
    BY <2>1, <1>a DEF SleepInv
  <2>3. CASE Minus(tail, head) = 0
    <3>1. tail = head /\ pc' = [pc EXCEPT ![t] = "last_empty"]
      BY <2>1, <2>3, <1>a DEF Minus
    <3>2. Woken' = Woken \ {t}
      BY <2>1, <3>1, <1>a DEF Woken
    <3>3. IsFiniteSet(Woken') /\ Cardinality(Woken') \in Nat
      BY <3>2, FS_RemoveElement, FS_CardinalityType DEF SleepInv
    <3>4. tail' - head' = 0
      BY <2>1, <3>1, <1>1, <1>a
    <3> QED
      BY <2>2, <3>3, <3>4 DEF SleepInv
  <2>4. CASE Minus(tail, head) # 0
    <3>1. pc' = [pc EXCEPT ![t] = "last_read"]
      BY <2>1, <2>4
    <3>2. Drowsy' => Drowsy
      BY <2>1, <3>1, <1>a DEF Drowsy
    <3>3. CASE t \in Woken
      <4>1. Woken' = Woken
        BY <2>1, <3>1, <3>3, <1>a DEF Woken
      <4>2. Drowsy => tail' - head'
                        <= Cardinality(Woken) + (IF Signalled' THEN 0 ELSE 1)
        BY <2>1, <1>1, <1>2 DEF SleepInv
      <4> QED
        BY <2>2, <3>2, <4>1, <4>2, SleepFollows
    <3>4. CASE t \notin Woken
      <4>1. Woken' = Woken \cup {t}
        BY <2>1, <3>1, <1>a DEF Woken
      <4>2. IsFiniteSet(Woken') /\ Cardinality(Woken') = Cardinality(Woken) + 1
        BY <3>4, <4>1, OneWoken
      <4>3. Drowsy' => tail' - head'
                         <= Cardinality(Woken') + (IF Signalled' THEN 0 ELSE 1)
        BY <2>1, <3>2, <4>2, <1>1, <1>2, <1>a DEF SleepInv
      <4> QED
        BY <2>2, <4>2, <4>3 DEF SleepInv
    <3> QED
      BY <3>3, <3>4
  <2> QED
    BY <2>3, <2>4
<1>4. CASE LastWait(t)
  <2>1. /\ head' = head /\ pc[t] = "last_empty"
        /\ pc' = [pc EXCEPT ![t] = "last_wait"]
        /\ write_cond' = write_cond \cup {t}
    BY <1>4 DEF LastWait, Goto, indices
  <2>2. \A u \in write_cond' : pc'[u] = "last_wait"
    BY <2>1, <1>a DEF SleepInv
  <2>3. Woken' = Woken
    BY <2>1, <1>a DEF Woken
  <2>4. Drowsy
    BY <2>1 DEF Drowsy
  <2>5. tail' - head' <= Cardinality(Woken) + (IF Signalled' THEN 0 ELSE 1)
    BY <2>1, <2>4, <1>1, <1>2 DEF SleepInv
  <2> QED
    BY <2>2, <2>3, <2>4, <2>5, SleepFollows
<1>5. CASE LastTake(t)
  <2>1. /\ write_cond' = write_cond /\ pc[t] = "last_read" /\ head' = head + 1
        /\ pc' = [pc EXCEPT ![t] = "last_use"]
    BY <1>5 DEF LastTake, Goto
  <2>2. \A u \in write_cond' : pc'[u] = "last_wait"
    BY <2>1, <1>a DEF SleepInv
  <2>3. t \in Woken /\ Woken' = Woken \ {t}
    BY <2>1, <1>a DEF Woken
  <2>4. IsFiniteSet(Woken') /\ Cardinality(Woken') = Cardinality(Woken) - 1
    BY <2>3, OneLess
  <2>5. Drowsy' => Drowsy
    BY <2>1, <1>a DEF Drowsy
  <2>6. Drowsy' => tail' - head'
                     <= Cardinality(Woken') + (IF Signalled' THEN 0 ELSE 1)
    BY <2>1, <2>4, <2>5, <1>1, <1>2, <1>a DEF SleepInv
  <2> QED
    BY <2>2, <2>4, <2>6 DEF SleepInv
<1>6. CASE LastTimeout(t) \/ LastTimeoutReturn(t)
  <2>1. /\ head' = head /\ pc[t] \in {"last_wait", "last_timeout"}
        /\ pc[t] = "last_wait" => t \in write_cond
        /\ pc'[t] \in {"last_timeout", "idle"}
        /\ \A u \in Telems : u # t => pc'[u] = pc[u]
        /\ write_cond' = write_cond \ {t}
    <3>1. CASE LastTimeout(t)
      BY <3>1, <1>a DEF LastTimeout, Goto, indices
    <3>2. CASE LastTimeoutReturn(t)
      <4>1. t \notin write_cond
        BY <3>2 DEF LastTimeoutReturn, Goto, SleepInv
      <4> QED
        BY <3>2, <4>1, <1>a DEF LastTimeoutReturn, Goto, indices, sync
    <3> QED
      BY <1>6, <3>1, <3>2
  <2>2. \A u \in write_cond' : pc'[u] = "last_wait"
    BY <2>1, <1>a DEF SleepInv
  <2>3. Woken' = Woken
    BY <2>1 DEF Woken
  <2>4. Drowsy' => Drowsy
    BY <2>1 DEF Drowsy
  <2>5. Drowsy => tail' - head'
                    <= Cardinality(Woken) + (IF Signalled' THEN 0 ELSE 1)
    BY <2>1, <1>1, <1>2 DEF SleepInv
  <2> QED
    BY <2>2, <2>3, <2>4, <2>5, SleepFollows
<1> QED
  BY <1>3, <1>4, <1>5, <1>6 DEF GetLast

\* So does every other step.
LEMMA StepSleep ==
  ASSUME Poppers = {}, PutState, SleepInv, [Next]_vars
  PROVE  SleepInv'
<1> USE ThreadAssumption DEF Threads, Publishers, Consumers
<1>a. /\ pc = [u \in Threads |-> pc[u]] /\ write_cond \subseteq Telems
      /\ read_cond \subseteq Getters
      /\ head \in Nat /\ tail \in Nat /\ Cardinality(Woken) \in Nat
  BY WokenSize DEF PutState, TypeOK
<1>1. ASSUME NEW c \in Consumers, Release(c) PROVE SleepInv'
  <2>1. /\ UNCHANGED <<indices, sync>> /\ pc' = [pc EXCEPT ![c] = "idle"]
        /\ pc[c] \in {"get_use", "last_use"}
    BY <1>1 DEF Release
  <2>2. \A p \in Putters : pc'[p] = pc[p]
    BY <2>1, <1>a
  <2>3. Woken' = Woken /\ (Drowsy' => Drowsy)
    BY <2>1, <1>a DEF Woken, Drowsy, sync
  <2>4. \A u \in write_cond' : pc'[u] = "last_wait"
    BY <2>1, <1>a DEF SleepInv, sync
  <2>5. Signalled' <=> Signalled
    BY <2>1, <2>2, SignalKept DEF indices
  <2> QED
    BY <2>1, <2>3, <2>4, <2>5, SleepFollows DEF SleepInv, indices
<1>2. ASSUME NEW c \in Consumers, SpuriousWakeup(c) PROVE SleepInv'
  <2>1. /\ UNCHANGED <<indices, pc>> /\ c \in read_cond \cup write_cond
        /\ write_cond' = write_cond \ {c}
    BY <1>2 DEF SpuriousWakeup
  <2>2. Signalled' <=> Signalled
    BY <2>1, SignalKept DEF indices
  <2>3. /\ \A u \in write_cond' : pc'[u] = "last_wait"
        /\ Drowsy' => Drowsy
    BY <2>1 DEF SleepInv, Drowsy
  <2>4. CASE c \in write_cond
    <3>1. c \notin Woken /\ Woken' = Woken \cup {c}
      BY <2>1, <2>4, <1>a DEF Woken, SleepInv
    <3>2. IsFiniteSet(Woken') /\ Cardinality(Woken') = Cardinality(Woken) + 1
      BY <3>1, OneWoken
    <3>3. Drowsy' => tail' - head'
                       <= Cardinality(Woken') + (IF Signalled' THEN 0 ELSE 1)
      BY <2>1, <2>2, <2>3, <3>2, <1>a DEF SleepInv, indices
    <3> QED
      BY <2>3, <3>2, <3>3 DEF SleepInv
  <2>5. CASE c \notin write_cond
    <3>1. Woken' = Woken
      BY <2>1, <2>5 DEF Woken
    <3> QED
      BY <2>1, <2>2, <2>3, <3>1, SleepFollows DEF SleepInv, indices
  <2> QED
    BY <2>4, <2>5
<1>3. CASE UNCHANGED vars
  <2>1. UNCHANGED <<indices, pc, write_cond>>
    BY <1>3 DEF vars, sync
  <2>2. Woken' = Woken /\ (Drowsy' <=> Drowsy) /\ (Signalled' <=> Signalled)
    BY <2>1, TelemsKept, SignalKept DEF indices
  <2> QED
    BY <2>1, <2>2, SleepFollows DEF SleepInv, indices
<1> QED
  BY <1>1, <1>2, <1>3, PutSleep, GetSleep, LastSleep DEF Next

\* For queue_put publishers, whatever the number of threads: once the mutexes
\* are free and every woken thread has had its turn, a telemetry thread that
\* still sleeps has at most one message to catch up with.
THEOREM PutTelemBehindByOne ==
  ASSUME Poppers = {}
  PROVE  Spec => []TelemBehindByOne
<1>1. PutState /\ SleepInv => TelemBehindByOne
  <2> SUFFICES ASSUME PutState, SleepInv,
                      read_mutex = NoThread, write_cond # {},
                      \A t \in Telems : pc[t] = "last_wait" => t \in write_cond
               PROVE  Minus(tail, head) <= 1
    BY DEF TelemBehindByOne
  <2>1. \A t \in Telems : pc[t] # "last_read"
    BY ThreadAssumption
    DEF PutState, WindowInv, MutexHeld, Threads, Consumers
  <2>2. Woken = {}
    BY <2>1 DEF Woken
  <2>3. tail - head <= 1
    BY <2>2, FS_EmptySet DEF SleepInv, Drowsy, PutState, TypeOK
  <2> QED
    BY <2>3 DEF Minus, PutState, TypeOK, WindowInv, WindowInRing
<1>2. PutState /\ SleepInv /\ [Next]_vars => SleepInv'
  BY StepSleep
<1> QED
  BY <1>1, <1>2, InitSleep, PutStateAlways, PTL DEF Spec
=============================================================================
