------------------------ MODULE TelemetryQueueProofs ------------------------
(* Theorems about TelemetryQueue for every number of threads and slots.     *)
EXTENDS TelemetryQueue, TLAPS

\* An index always names a slot.
LEMMA SlotInSlots == \A i \in Nat : Slot(i) \in Slots
BY SizeAssumption DEF Slot, Slots

\* pthread_cond_signal adds no waiter.
LEMMA SignalOneReleases ==
  ASSUME NEW cond, NEW rest \in SignalOne(cond)
  PROVE  rest \subseteq cond
BY DEF SignalOne

\* Init of queue_init gives every variable its type.
LEMMA InitType == Init => TypeOK
<1> SUFFICES ASSUME Init PROVE TypeOK
  OBVIOUS
<1>1. 0 \in Slots
  BY SizeAssumption DEF Slots
<1>2. ZeroHeader \in Header
  BY DEF ZeroHeader, Header
<1>3. pc \in [Threads -> {"idle"}]
  BY DEF Init
<1> QED
  BY <1>1, <1>2, <1>3
  DEF Init, TypeOK, Threads, Publishers, Consumers

\* Flagging the missed message keeps the types.
LEMMA PassMissedType ==
  TypeOK /\ PassMissed => header' \in [Slots -> Header] /\ tail' \in Nat
<1> SUFFICES ASSUME TypeOK, PassMissed
             PROVE  header' \in [Slots -> Header] /\ tail' \in Nat
  OBVIOUS
<1>1. header[Slot(tail)] \in Header
  BY SlotInSlots DEF TypeOK
<1>2. Flagged(header[Slot(tail)]) \in Header
  BY <1>1 DEF Flagged, Header
<1> QED
  BY <1>2, SlotInSlots DEF PassMissed, TypeOK

\* Every step of every call keeps the types.
LEMMA StepType == TypeOK /\ [Next]_vars => TypeOK'
<1> SUFFICES ASSUME TypeOK, [Next]_vars PROVE TypeOK'
  OBVIOUS
<1> USE ThreadAssumption, SlotInSlots
<1> USE DEF TypeOK, Threads, Publishers, Consumers
<1>1. ASSUME NEW p \in Putters, PutLock(p) PROVE TypeOK'
  BY <1>1, PassMissedType DEF PutLock, Goto, TakeWrite, PutPlaces, locals
<1>2. ASSUME NEW p \in Putters, PutRoom(p) PROVE TypeOK'
  BY <1>2, SignalOneReleases DEF PutRoom, Goto, MakeRoom, PutPlaces, locals
<1>3. ASSUME NEW p \in Putters, PutHeader(p) PROVE TypeOK'
  BY <1>3 DEF PutHeader, Goto, NewHeader, Header, PutPlaces, sync
<1>4. ASSUME NEW p \in Putters, PutBody(p) PROVE TypeOK'
  BY <1>4, SignalOneReleases DEF PutBody, Goto, Header, indices, locals
<1>5. ASSUME NEW p \in Poppers, PopLock(p) PROVE TypeOK'
  BY <1>5 DEF PopLock, Goto, TakeWrite, WriteIndex, PopPlaces, locals
<1>6. ASSUME NEW p \in Poppers, PopRoom(p) PROVE TypeOK'
  BY <1>6 DEF PopRoom, Goto, MakeRoom, Borrowed, PopPlaces
<1>7. ASSUME NEW p \in Poppers, Fill(p) PROVE TypeOK'
  BY <1>7 DEF Fill, Goto, PopPlaces, indices, sync, locals
<1>8. ASSUME NEW p \in Poppers, PushLock(p) PROVE TypeOK'
  BY <1>8, PassMissedType DEF PushLock, Goto, TakeWrite, PopPlaces, locals
<1>9. ASSUME NEW p \in Poppers, PushWrite(p) PROVE TypeOK'
  BY <1>9, SignalOneReleases DEF PushWrite, Goto, IndexAfterPush, NewHeader,
    Header
<1>10. ASSUME NEW g \in Getters, GetWait(g) PROVE TypeOK'
  BY <1>10 DEF GetWait, GetPlaces, indices, locals
<1>11. ASSUME NEW g \in Getters, GetMissed(g) PROVE TypeOK'
  BY <1>11 DEF GetMissed, sync, locals
<1>12. ASSUME NEW g \in Getters, GetTake(g) PROVE TypeOK'
  <2>1. header[Slot(tail)] \in Header
    OBVIOUS
  <2>2. header[Slot(tail)].seq \in Nat
    BY <2>1 DEF Header
  <2>3. m' \in [Threads -> Header]
    BY <1>12, <2>1 DEF GetTake
  <2>4. delivered' = delivered \cup {header[Slot(tail)].seq}
    BY <1>12 DEF GetTake
  <2>5. delivered' \subseteq Nat
    BY <2>2, <2>4
  <2> QED
    BY <1>12, <2>3, <2>5 DEF GetTake, GetPlaces, sync
<1>13. ASSUME NEW g \in Getters, GetTimeout(g) PROVE TypeOK'
  BY <1>13 DEF GetTimeout, Goto, GetPlaces, indices, locals
<1>14. ASSUME NEW g \in Getters, GetTimeoutReturn(g) PROVE TypeOK'
  BY <1>14 DEF GetTimeoutReturn, Goto, indices, sync, locals
<1>15. ASSUME NEW t \in Telems, LastLock(t) PROVE TypeOK'
  BY <1>15 DEF LastLock, LastPlaces, indices, locals
<1>16. ASSUME NEW t \in Telems, LastWait(t) PROVE TypeOK'
  BY <1>16 DEF LastWait, Goto, LastPlaces, indices, locals
<1>17. ASSUME NEW t \in Telems, LastTake(t) PROVE TypeOK'
  BY <1>17 DEF LastTake, Goto, LastPlaces
<1>18. ASSUME NEW t \in Telems, LastTimeout(t) PROVE TypeOK'
  BY <1>18 DEF LastTimeout, Goto, LastPlaces, indices, locals
<1>19. ASSUME NEW t \in Telems, LastTimeoutReturn(t) PROVE TypeOK'
  BY <1>19 DEF LastTimeoutReturn, Goto, indices, sync, locals
<1>20. ASSUME NEW c \in Consumers, Release(c) PROVE TypeOK'
  BY <1>20 DEF Release, indices, sync, locals
<1>21. ASSUME NEW c \in Consumers, SpuriousWakeup(c) PROVE TypeOK'
  BY <1>21 DEF SpuriousWakeup, indices, locals
<1>22. CASE UNCHANGED vars
  BY <1>22 DEF vars, indices, sync, locals
<1> QED
  BY <1>1, <1>2, <1>3, <1>4, <1>5, <1>6, <1>7, <1>8, <1>9, <1>10, <1>11,
     <1>12, <1>13, <1>14, <1>15, <1>16, <1>17, <1>18, <1>19, <1>20, <1>21,
     <1>22 DEF Next, Put, PopPush, Get, GetLast

\* TypeOK holds in every reachable state, for any threads and any ring.
THEOREM TypeCorrect == Spec => []TypeOK
BY InitType, StepType, PTL DEF Spec

-----------------------------------------------------------------------------
(* Queues whose publishers call queue_put.                                  *)

\* The part of PutInv that concerns indices and mutexes.
WindowInv == MutexHeld /\ WindowInRing /\ SlotReserved /\ ReadSomething

LEMMA InitWindow == Init => WindowInv
BY SizeAssumption DEF Init, WindowInv, MutexHeld, WindowInRing, SlotReserved,
  ReadSomething, Behind, PutPlaces, Threads, Publishers, Consumers

\* A step that leaves the indices alone, moves no publisher, and lets a
\* telemetry thread get hold of read_mutex only when it is free.
LEMMA QuietWindow ==
  ASSUME WindowInv, TypeOK, UNCHANGED <<indices, write_mutex>>,
         \A p \in Putters : pc'[p] = pc[p],
         MutexHeld', ReadSomething'
  PROVE  WindowInv'
BY DEF WindowInv, MutexHeld, WindowInRing, SlotReserved, Behind, indices

\* Every step keeps the window within the ring.
LEMMA StepWindow ==
  ASSUME Poppers = {}, TypeOK, WindowInv, [Next]_vars
  PROVE  WindowInv'
<1> USE ThreadAssumption, SizeAssumption
<1> USE DEF Threads, Publishers, Consumers, WindowInv
<1>a. /\ head \in Nat /\ tail \in Nat /\ tail_seq \in Nat
      /\ last_tail_seq \in Nat /\ pc = [t \in Threads |-> pc[t]]
  BY DEF TypeOK
<1>1. ASSUME NEW p \in Putters, PutLock(p) PROVE WindowInv'
  <2>1. \A q \in Putters : pc[q] \notin PutPlaces
    BY <1>1 DEF PutLock, TakeWrite, MutexHeld
  <2>2. tail' = IF Behind THEN tail + 1 ELSE tail
    BY <1>1 DEF PutLock, PassMissed
  <2>3. /\ UNCHANGED <<head, tail_seq, last_tail_seq, read_mutex>>
        /\ pc' = [pc EXCEPT ![p] = "put_room"]
        /\ write_mutex' = p
    BY <1>1 DEF PutLock, Goto, TakeWrite
  <2>4. MutexHeld'
    BY <2>1, <2>3, <1>a DEF MutexHeld
  <2>5. WindowInRing'
    BY <2>1, <2>2, <2>3, <1>a DEF WindowInRing, SlotReserved, PutPlaces
  <2>6. SlotReserved'
    BY <2>1, <2>3, <1>a DEF SlotReserved, PutPlaces, Behind
  <2>7. ReadSomething'
    BY <2>2, <2>3, <1>a DEF ReadSomething
  <2> QED
    BY <2>4, <2>5, <2>6, <2>7
<1>2. ASSUME NEW p \in Putters, PutRoom(p) PROVE WindowInv'
  <2>1. \A q \in Putters : pc[q] \in PutPlaces => q = p
    BY <1>2 DEF PutRoom, Goto, MutexHeld, PutPlaces
  <2>2. \A t \in Telems : pc[t] \notin {"last_empty", "last_read"}
    BY <1>2 DEF PutRoom, MutexHeld
  <2>3. /\ UNCHANGED <<tail, tail_seq, last_tail_seq, read_mutex, write_mutex>>
        /\ pc' = [pc EXCEPT ![p] = "put_header"]
    BY <1>2 DEF PutRoom, Goto
  <2>4. /\ head' \in Nat /\ head' <= tail /\ tail - head' < Entries
    BY <1>2, <1>a DEF PutRoom, MakeRoom, Full, Minus, WindowInRing
  <2>5. MutexHeld'
    BY <1>2, <2>3, <1>a DEF MutexHeld, PutRoom, Goto, PutPlaces
  <2>6. WindowInRing'
    BY <2>3, <2>4, <1>a DEF WindowInRing
  <2>7. SlotReserved'
    BY <2>3, <2>4, <1>a DEF SlotReserved, Behind
  <2>8. ReadSomething'
    BY <2>2, <2>3, <1>a DEF ReadSomething
  <2> QED
    BY <2>5, <2>6, <2>7, <2>8
<1>3. ASSUME NEW p \in Putters, PutHeader(p) PROVE WindowInv'
  <2>1. /\ UNCHANGED <<head, tail, last_tail_seq, read_mutex, write_mutex>>
        /\ pc[p] = "put_header" /\ pc' = [pc EXCEPT ![p] = "put_body"]
        /\ tail_seq' = tail_seq + 1
    BY <1>3 DEF PutHeader, Goto, sync
  <2>2. tail - head < Entries
    BY <2>1 DEF SlotReserved
  <2> QED
    BY <2>1, <2>2, <1>a DEF MutexHeld, WindowInRing, SlotReserved,
      ReadSomething, Behind, PutPlaces
<1>4. ASSUME NEW p \in Putters, PutBody(p) PROVE WindowInv'
  <2>1. \A q \in Putters : pc[q] \in PutPlaces => q = p
    BY <1>4 DEF PutBody, Goto, MutexHeld, PutPlaces
  <2>2. /\ UNCHANGED <<head, tail, tail_seq, last_tail_seq, read_mutex>>
        /\ pc[p] = "put_body" /\ pc' = [pc EXCEPT ![p] = "idle"]
    BY <1>4 DEF PutBody, Goto, indices
  <2>3. tail - head < Entries
    BY <2>2 DEF SlotReserved
  <2> QED
    BY <2>1, <2>2, <2>3, <1>a DEF MutexHeld, WindowInRing, SlotReserved,
      ReadSomething, Behind, PutPlaces
<1>5. ASSUME NEW g \in Getters, GetWait(g) PROVE WindowInv'
  BY <1>5, <1>a, QuietWindow DEF GetWait, MutexHeld, ReadSomething, PutPlaces,
    indices
<1>6. ASSUME NEW g \in Getters, GetMissed(g) PROVE WindowInv'
  BY <1>6, <1>a DEF GetMissed, MutexHeld, WindowInRing, SlotReserved,
    ReadSomething, Behind, sync
<1>7. ASSUME NEW g \in Getters, GetTake(g) PROVE WindowInv'
  <2>1. \A q \in Putters : pc[q] \notin PutPlaces
    BY <1>7 DEF GetTake, GetChecks, MutexHeld
  <2>2. Behind
    BY <1>7, <1>a DEF GetTake, Behind
  <2>3. tail - head < Entries
    BY <2>1, <2>2 DEF SlotReserved, PutPlaces
  <2>4. /\ UNCHANGED <<head, tail_seq, read_mutex, write_mutex>>
        /\ pc' = [pc EXCEPT ![g] = "get_use"]
        /\ tail' = tail + 1 /\ last_tail_seq' = tail_seq
    BY <1>7 DEF GetTake, sync
  <2> QED
    BY <2>1, <2>3, <2>4, <1>a DEF MutexHeld, WindowInRing, SlotReserved,
      ReadSomething, Behind, PutPlaces
<1>8. ASSUME NEW g \in Getters, GetTimeout(g) PROVE WindowInv'
  BY <1>8, <1>a, QuietWindow DEF GetTimeout, Goto, MutexHeld, ReadSomething,
    indices
<1>9. ASSUME NEW g \in Getters, GetTimeoutReturn(g) PROVE WindowInv'
  BY <1>9, <1>a, QuietWindow DEF GetTimeoutReturn, Goto, MutexHeld,
    ReadSomething, indices, sync
<1>10. ASSUME NEW t \in Telems, LastLock(t) PROVE WindowInv'
  <2>1. \A u \in Telems : pc[u] \notin {"last_empty", "last_read"}
    BY <1>10 DEF LastLock, MutexHeld
  <2>2. /\ UNCHANGED <<indices, write_mutex>>
        /\ read_mutex' = t
        /\ pc' = [pc EXCEPT ![t] = IF Minus(tail, head) = 0 THEN "last_empty"
                                                            ELSE "last_read"]
    BY <1>10 DEF LastLock
  <2>3. MutexHeld'
    BY <2>1, <2>2, <1>a DEF MutexHeld
  <2>4. ReadSomething'
    BY <2>1, <2>2, <1>a DEF ReadSomething, Minus, WindowInRing, indices
  <2> QED
    BY <2>2, <2>3, <2>4, <1>a, QuietWindow
<1>11. ASSUME NEW t \in Telems, LastWait(t) PROVE WindowInv'
  BY <1>11, <1>a, QuietWindow DEF LastWait, Goto, MutexHeld, ReadSomething,
    indices
<1>12. ASSUME NEW t \in Telems, LastTake(t) PROVE WindowInv'
  <2>1. \A u \in Telems : u # t => pc[u] \notin {"last_empty", "last_read"}
    BY <1>12 DEF LastTake, Goto, MutexHeld
  <2>2. /\ UNCHANGED <<tail, tail_seq, last_tail_seq, write_mutex>>
        /\ pc[t] = "last_read" /\ pc' = [pc EXCEPT ![t] = "last_use"]
        /\ head' = head + 1
    BY <1>12 DEF LastTake, Goto
  <2>3. head < tail
    BY <2>2 DEF ReadSomething
  <2> QED
    BY <2>1, <2>2, <2>3, <1>a DEF MutexHeld, WindowInRing, SlotReserved,
      ReadSomething, Behind
<1>13. ASSUME NEW t \in Telems, LastTimeout(t) PROVE WindowInv'
  BY <1>13, <1>a, QuietWindow DEF LastTimeout, Goto, MutexHeld, ReadSomething,
    indices
<1>14. ASSUME NEW t \in Telems, LastTimeoutReturn(t) PROVE WindowInv'
  BY <1>14, <1>a, QuietWindow DEF LastTimeoutReturn, Goto, MutexHeld,
    ReadSomething, indices, sync
<1>15. ASSUME NEW c \in Consumers, Release(c) PROVE WindowInv'
  BY <1>15, <1>a, QuietWindow DEF Release, MutexHeld, ReadSomething, indices,
    sync
<1>16. ASSUME NEW c \in Consumers, SpuriousWakeup(c) PROVE WindowInv'
  BY <1>16, <1>a, QuietWindow DEF SpuriousWakeup, MutexHeld, ReadSomething,
    indices
<1>17. CASE UNCHANGED vars
  BY <1>17, QuietWindow DEF vars, indices, sync, MutexHeld, ReadSomething
<1> QED
  BY <1>1, <1>2, <1>3, <1>4, <1>5, <1>6, <1>7, <1>8, <1>9, <1>10, <1>11,
     <1>12, <1>13, <1>14, <1>15, <1>16, <1>17 DEF Next, Put, Get, GetLast

\* For queue_put publishers the unread messages always fit the ring, whatever
\* the threads and the entries: no size_t subtraction of the queue wraps.
THEOREM PutWindow ==
  ASSUME Poppers = {}
  PROVE  Spec => []WindowInRing
<1>1. Init => TypeOK /\ WindowInv
  BY InitType, InitWindow
<1>2. TypeOK /\ WindowInv /\ [Next]_vars => TypeOK' /\ WindowInv'
  BY StepType, StepWindow
<1>3. WindowInv => WindowInRing
  BY DEF WindowInv
<1> QED
  BY <1>1, <1>2, <1>3, PTL DEF Spec

-----------------------------------------------------------------------------
(* Which slots hold what.                                                   *)

\* Division with remainder.
LEMMA DivMod ==
  ASSUME NEW i \in Nat, NEW N \in Nat \ {0}
  PROVE  /\ i \div N \in Nat
         /\ i % N \in 0 .. N - 1
         /\ i = (i \div N) * N + (i % N)
<1>1. i \div N \in Nat
  OBVIOUS
<1>2. i % N \in 0 .. N - 1
  OBVIOUS
<1>3. i = (i \div N) * N + (i % N)
  OBVIOUS
<1> QED
  BY <1>1, <1>2, <1>3

\* Multiples of N are at least N apart.
LEMMA MultiplesApart ==
  ASSUME NEW N \in Nat \ {0}, NEW a \in Nat, NEW b \in Nat, a < b
  PROVE  a * N + N <= b * N
<1>1. (b - a) * N >= N
  OBVIOUS
<1>2. b * N = a * N + (b - a) * N
  OBVIOUS
<1> QED
  BY <1>1, <1>2

\* Indices less than entries apart have different slots.
LEMMA SlotsDistinct ==
  ASSUME NEW i \in Nat, NEW j \in Nat, i < j, j - i < Entries
  PROVE  Slot(i) # Slot(j)
<1> SUFFICES ASSUME Slot(i) = Slot(j) PROVE FALSE
  OBVIOUS
<1> DEFINE a == i \div Entries
           b == j \div Entries
<1>a. \A k \in Nat : /\ k \div Entries \in Nat /\ Slot(k) \in Nat
                     /\ k = (k \div Entries) * Entries + Slot(k)
  BY DivMod, SizeAssumption DEF Slot
<1>1. /\ a \in Nat /\ b \in Nat /\ Slot(i) \in Nat
      /\ i = a * Entries + Slot(i) /\ j = b * Entries + Slot(i)
  BY <1>a
<1> HIDE DEF a, b
<1>2. CASE a < b
  BY <1>1, <1>2, MultiplesApart, SizeAssumption
<1>3. CASE b < a
  BY <1>1, <1>3, MultiplesApart, SizeAssumption
<1>4. CASE a = b
  BY <1>1, <1>4
<1> QED
  BY <1>1, <1>2, <1>3, <1>4

\* While the unread messages do not fill the ring, the slot at tail is none
\* of theirs.
LEMMA TailSlotFree ==
  ASSUME TypeOK, head <= tail, tail - head < Entries, NEW i \in Unread
  PROVE  Slot(i) # Slot(tail)
<1>1. i \in Nat /\ i < tail /\ tail - i < Entries /\ tail \in Nat
  BY SizeAssumption DEF Unread, TypeOK
<1> QED
  BY <1>1, SlotsDistinct

\* Reading or dropping the oldest message disturbs no other.
LEMMA ShrinkUnread ==
  ASSUME TypeOK, UNCHANGED <<header, body>>, Unread' \subseteq Unread,
         UnreadIntact
  PROVE  /\ UnreadIntact'
         /\ \A n \in Nat : UnreadBefore(n) => UnreadBefore(n)'
BY DEF UnreadIntact, UnreadBefore

\* Moving tail past the newest message makes it the last unread one.
LEMMA GrowUnread ==
  ASSUME TypeOK, head <= tail, tail - head < Entries, UnreadIntact,
         NEW n \in Nat, UnreadBefore(n),
         head' = head, tail' = tail + 1, UNCHANGED body,
         header' \in [Slots -> Header],
         \A i \in Unread : header'[Slot(i)] = header[Slot(i)],
         header'[Slot(tail)].len = 1, header'[Slot(tail)].seq = n,
         body[Slot(tail)] = n
  PROVE  UnreadIntact' /\ UnreadBefore(n + 1)'
<1>1. Unread' = Unread \cup {tail} /\ \A i \in Unread : i < tail
  BY DEF Unread, TypeOK
<1>2. tail \in Nat /\ \A i \in Unread : i \in Nat
  BY DEF Unread, TypeOK
<1>3. \A i \in Unread : header'[Slot(i)].seq \in Nat
  BY <1>2, SlotInSlots DEF Header
<1>4. \A i \in Unread : header'[Slot(i)].seq < n
  BY DEF UnreadBefore
<1>5. ASSUME NEW i \in Unread'
      PROVE  /\ header'[Slot(i)].len = 1
             /\ body'[Slot(i)] = header'[Slot(i)].seq
             /\ header'[Slot(i)].seq < n + 1
  <2>1. CASE i = tail
    BY <2>1
  <2>2. CASE i \in Unread
    BY <2>2, <1>3, <1>4 DEF UnreadIntact
  <2> QED
    BY <1>1, <2>1, <2>2
<1>6. ASSUME NEW i \in Unread', NEW j \in Unread', i < j
      PROVE  header'[Slot(i)].seq < header'[Slot(j)].seq
  <2>1. i \in Unread
    BY <1>1, <1>2, <1>6
  <2>2. CASE j = tail
    BY <2>1, <2>2, <1>4
  <2>3. CASE j \in Unread
    BY <2>1, <2>3, <1>6 DEF UnreadIntact
  <2> QED
    BY <1>1, <2>2, <2>3
<1> QED
  BY <1>5, <1>6 DEF UnreadIntact, UnreadBefore, Slot

\* The part of PutInv that concerns the contents of the slots.
ContentInv == UnreadIntact /\ NewestInPlace

LEMMA InitContent == Init => ContentInv
BY DEF Init, ContentInv, UnreadIntact, NewestInPlace, UnreadBefore, Unread,
  Behind, PutPlaces, Threads, Publishers, Consumers

\* A step that touches neither the slots, nor what tells them apart, nor what
\* a publisher is doing.
LEMMA QuietContent ==
  ASSUME ContentInv,
         UNCHANGED <<head, tail, tail_seq, last_tail_seq, header, body>>,
         \A p \in Putters : pc'[p] = pc[p] /\ m'[p] = m[p]
  PROVE  ContentInv'
BY DEF ContentInv, UnreadIntact, NewestInPlace, UnreadBefore, Unread, Behind

\* Every step keeps whole messages in the slots that will be read.
LEMMA StepContent ==
  ASSUME Poppers = {}, TypeOK, TypeOK', WindowInv, ContentInv, [Next]_vars
  PROVE  ContentInv'
<1> USE ThreadAssumption
<1> USE DEF Threads, Publishers, Consumers, ContentInv
<1>a. /\ head \in Nat /\ tail \in Nat /\ tail_seq \in Nat
      /\ last_tail_seq \in Nat /\ pc = [t \in Threads |-> pc[t]]
      /\ m = [t \in Threads |-> m[t]] /\ Slot(tail) \in Slots
      /\ header \in [Slots -> Header] /\ body \in [Slots -> Nat]
  BY SlotInSlots DEF TypeOK
<1>b. head <= tail
  BY DEF WindowInv, WindowInRing
<1>c. ASSUME tail - head < Entries, NEW i \in Unread
      PROVE  Slot(i) \in Slots /\ Slot(i) # Slot(tail)
  BY <1>a, <1>b, <1>c, TailSlotFree, SlotInSlots DEF Unread
<1>1. ASSUME NEW p \in Putters, PutLock(p) PROVE ContentInv'
  <2>1. \A q \in Putters : pc[q] \notin PutPlaces
    BY <1>1 DEF PutLock, TakeWrite, WindowInv, MutexHeld
  <2>2. /\ UNCHANGED <<head, tail_seq, last_tail_seq, body>>
        /\ pc' = [pc EXCEPT ![p] = "put_room"] /\ PassMissed
    BY <1>1 DEF PutLock, Goto
  <2>3. /\ pc'[p] = "put_room"
        /\ \A q \in Putters : pc'[q] # "put_body"
    BY <2>1, <2>2, <1>a DEF PutPlaces
  <2>4. CASE ~Behind
    BY <2>2, <2>3, <2>4 DEF PassMissed, UnreadIntact, NewestInPlace,
      UnreadBefore, Unread, PutPlaces
  <2>5. CASE Behind
    <3>1. /\ header[Slot(tail)] = [len |-> 1, seq |-> tail_seq - 1, miss |-> 0]
          /\ body[Slot(tail)] = tail_seq - 1
          /\ UnreadBefore(tail_seq - 1)
      BY <2>1, <2>5 DEF NewestInPlace
    <3>2. tail - head < Entries /\ tail_seq - 1 \in Nat
      BY <2>1, <2>5, <1>a DEF WindowInv, SlotReserved, PutPlaces, Behind
    <3>3. /\ header' = [header EXCEPT ![Slot(tail)] = Flagged(header[Slot(tail)])]
          /\ tail' = tail + 1
      BY <2>2, <2>5 DEF PassMissed
    <3>4. /\ header'[Slot(tail)] = Flagged(header[Slot(tail)])
          /\ \A i \in Unread : header'[Slot(i)] = header[Slot(i)]
      BY <3>2, <3>3, <1>a, <1>c
    <3>5. header'[Slot(tail)].len = 1 /\ header'[Slot(tail)].seq = tail_seq - 1
      BY <3>1, <3>4 DEF Flagged
    <3>6. header' \in [Slots -> Header]
      BY DEF TypeOK
    <3>7. UnreadIntact' /\ UnreadBefore((tail_seq - 1) + 1)'
      BY <2>2, <3>1, <3>2, <3>3, <3>4, <3>5, <3>6, <1>b, GrowUnread
    <3>8. UnreadBefore(tail_seq)'
      BY <3>7, <2>2, <1>a DEF UnreadBefore
    <3> QED
      BY <3>7, <3>8, <2>3 DEF NewestInPlace, PutPlaces
  <2> QED
    BY <2>4, <2>5
<1>2. ASSUME NEW p \in Putters, PutRoom(p) PROVE ContentInv'
  <2>1. \A q \in Putters : pc[q] \in PutPlaces => q = p
    BY <1>2 DEF PutRoom, Goto, WindowInv, MutexHeld, PutPlaces
  <2>2. /\ UNCHANGED <<tail, tail_seq, last_tail_seq, header, body>>
        /\ pc' = [pc EXCEPT ![p] = "put_header"]
        /\ head' \in {head, head + 1}
    BY <1>2 DEF PutRoom, Goto, MakeRoom
  <2>3. /\ pc'[p] = "put_header"
        /\ \A q \in Putters : pc'[q] # "put_body"
    BY <2>1, <2>2, <1>a DEF PutPlaces
  <2>4. Unread' \subseteq Unread
    BY <2>2, <1>a DEF Unread
  <2>5. UnreadIntact' /\ UnreadBefore(tail_seq)'
    BY <2>2, <2>4, <1>a, ShrinkUnread DEF NewestInPlace, UnreadBefore
  <2> QED
    BY <2>3, <2>5 DEF NewestInPlace, PutPlaces
<1>3. ASSUME NEW p \in Putters, PutHeader(p) PROVE ContentInv'
  <2>1. \A q \in Putters : pc[q] \in PutPlaces => q = p
    BY <1>3 DEF PutHeader, Goto, WindowInv, MutexHeld, PutPlaces
  <2>2. /\ UNCHANGED <<head, tail, last_tail_seq, body>>
        /\ pc[p] = "put_header" /\ pc' = [pc EXCEPT ![p] = "put_body"]
        /\ m' = [m EXCEPT ![p] = NewHeader]
        /\ header' = [header EXCEPT ![Slot(tail)] = NewHeader]
        /\ tail_seq' = tail_seq + 1
    BY <1>3 DEF PutHeader, Goto
  <2>3. tail - head < Entries /\ last_tail_seq <= tail_seq
    BY <2>2 DEF WindowInv, SlotReserved
  <2>4. \A i \in Unread : header'[Slot(i)] = header[Slot(i)]
    BY <2>2, <2>3, <1>a, <1>c
  <2>5. Unread' = Unread
    BY <2>2 DEF Unread
  <2>6. UnreadIntact'
    BY <2>2, <2>4, <2>5 DEF UnreadIntact
  <2>7. \A i \in Unread : header'[Slot(i)].seq < tail_seq
    BY <2>4 DEF NewestInPlace, UnreadBefore
  <2>8. UnreadBefore(tail_seq)' /\ UnreadBefore(tail_seq - 1)'
    <3>1. \A i \in Unread : header'[Slot(i)].seq \in Nat
      <4>1. \A i \in Unread : i \in Nat
        BY <1>a DEF Unread
      <4> QED
        BY <4>1, SlotInSlots DEF TypeOK, Header
    <3>2. tail_seq' - 1 = tail_seq
      BY <2>2, <1>a
    <3> QED
      BY <2>2, <2>5, <2>7, <3>1, <3>2, <1>a DEF UnreadBefore
  <2>9. /\ m'[p] = [len |-> 1, seq |-> tail_seq' - 1, miss |-> 0]
        /\ header'[Slot(tail)] = m'[p]
    BY <2>2, <1>a DEF NewHeader
  <2>10. \A q \in Putters : pc'[q] = "put_body" => q = p
    BY <2>1, <2>2, <1>a DEF PutPlaces
  <2>11. pc'[p] = "put_body" /\ tail_seq' > 0 /\ last_tail_seq' < tail_seq'
    BY <2>2, <2>3, <1>a
  <2>12. Slot(tail)' = Slot(tail)
    BY <2>2 DEF Slot
  <2> QED
    BY <2>6, <2>8, <2>9, <2>10, <2>11, <2>12 DEF NewestInPlace, PutPlaces
<1>4. ASSUME NEW p \in Putters, PutBody(p) PROVE ContentInv'
  <2>1. \A q \in Putters : pc[q] \in PutPlaces => q = p
    BY <1>4 DEF PutBody, Goto, WindowInv, MutexHeld, PutPlaces
  <2>2. /\ UNCHANGED <<head, tail, tail_seq, last_tail_seq, header, m>>
        /\ pc[p] = "put_body" /\ pc' = [pc EXCEPT ![p] = "idle"]
        /\ body' = [body EXCEPT ![Slot(tail)] = m[p].seq]
    BY <1>4 DEF PutBody, Goto, indices, locals
  <2>3. tail - head < Entries
    BY <2>2 DEF WindowInv, SlotReserved
  <2>4. /\ m[p] = [len |-> 1, seq |-> tail_seq - 1, miss |-> 0]
        /\ header[Slot(tail)] = m[p]
        /\ UnreadBefore(tail_seq - 1)
    BY <2>2 DEF NewestInPlace
  <2>5. \A i \in Unread : body'[Slot(i)] = body[Slot(i)]
    BY <2>2, <2>3, <1>a, <1>c
  <2>6. Unread' = Unread
    BY <2>2 DEF Unread
  <2>7. UnreadIntact'
    BY <2>2, <2>5, <2>6 DEF UnreadIntact
  <2>8. body'[Slot(tail)] = tail_seq - 1
    BY <2>2, <2>4, <1>a
  <2>9. UnreadBefore(tail_seq)' /\ UnreadBefore(tail_seq - 1)'
    BY <2>2, <2>4, <2>6 DEF NewestInPlace, UnreadBefore
  <2>10. \A q \in Putters : pc'[q] # "put_body"
    BY <2>1, <2>2, <1>a DEF PutPlaces
  <2>11. Slot(tail)' = Slot(tail)
    BY <2>2 DEF Slot
  <2> QED
    BY <2>2, <2>4, <2>7, <2>8, <2>9, <2>10, <2>11 DEF NewestInPlace
<1>5. ASSUME NEW g \in Getters, GetMissed(g) PROVE ContentInv'
  <2>1. /\ UNCHANGED <<head, tail, tail_seq, header, body, m>>
        /\ pc' = [pc EXCEPT ![g] = "idle"] /\ last_tail_seq' = tail_seq
    BY <1>5 DEF GetMissed, locals
  <2>2. \A q \in Putters : pc[q] \notin PutPlaces
    BY <1>5 DEF GetMissed, GetChecks, WindowInv, MutexHeld
  <2> QED
    BY <2>1, <2>2, <1>a DEF NewestInPlace, UnreadIntact, UnreadBefore, Unread,
      Behind, PutPlaces
<1>6. ASSUME NEW g \in Getters, GetTake(g) PROVE ContentInv'
  <2>1. \A q \in Putters : pc[q] \notin PutPlaces
    BY <1>6 DEF GetTake, GetChecks, WindowInv, MutexHeld
  <2>2. /\ UNCHANGED <<head, tail_seq, header, body>>
        /\ pc' = [pc EXCEPT ![g] = "get_use"]
        /\ tail' = tail + 1 /\ last_tail_seq' = tail_seq
        /\ tail_seq = last_tail_seq + 1
    BY <1>6 DEF GetTake
  <2>3. Behind /\ ~Behind' /\ tail_seq - 1 \in Nat
    BY <2>2, <1>a DEF Behind
  <2>4. tail - head < Entries
    BY <2>1, <2>3 DEF WindowInv, SlotReserved, PutPlaces
  <2>5. /\ header[Slot(tail)] = [len |-> 1, seq |-> tail_seq - 1, miss |-> 0]
        /\ body[Slot(tail)] = tail_seq - 1
        /\ UnreadBefore(tail_seq - 1)
    BY <2>1, <2>3 DEF NewestInPlace
  <2>6. UnreadIntact' /\ UnreadBefore((tail_seq - 1) + 1)'
    BY <2>2, <2>3, <2>4, <2>5, <1>a, <1>b, GrowUnread
  <2>7. UnreadBefore(tail_seq)'
    BY <2>6, <2>2, <1>a DEF UnreadBefore
  <2>8. \A q \in Putters : pc'[q] \notin PutPlaces
    BY <2>1, <2>2, <1>a DEF PutPlaces
  <2> QED
    BY <2>3, <2>6, <2>7, <2>8 DEF NewestInPlace, PutPlaces
<1>7. ASSUME NEW t \in Telems, LastTake(t) PROVE ContentInv'
  <2>1. /\ UNCHANGED <<tail, tail_seq, last_tail_seq, header, body>>
        /\ head' = head + 1
        /\ \A p \in Putters : pc'[p] = pc[p] /\ m'[p] = m[p]
    BY <1>7, <1>a DEF LastTake, Goto
  <2>2. Unread' \subseteq Unread
    BY <2>1, <1>a DEF Unread
  <2>3. UnreadIntact' /\ UnreadBefore(tail_seq)'
        /\ (UnreadBefore(tail_seq - 1) => UnreadBefore(tail_seq - 1)')
    BY <2>1, <2>2, <1>a, ShrinkUnread DEF NewestInPlace, UnreadBefore
  <2>4. Slot(tail)' = Slot(tail)
    BY <2>1 DEF Slot
  <2> QED
    BY <2>1, <2>3, <2>4 DEF NewestInPlace, Behind
<1>8. ASSUME NEW g \in Getters,
             GetWait(g) \/ GetTimeout(g) \/ GetTimeoutReturn(g)
      PROVE  ContentInv'
  BY <1>8, <1>a, QuietContent DEF GetWait, GetTimeout, GetTimeoutReturn, Goto,
    indices, locals
<1>9. ASSUME NEW t \in Telems,
             LastLock(t) \/ LastWait(t) \/ LastTimeout(t) \/ LastTimeoutReturn(t)
      PROVE  ContentInv'
  BY <1>9, <1>a, QuietContent DEF LastLock, LastWait, LastTimeout,
    LastTimeoutReturn, Goto, indices, locals
<1>10. ASSUME NEW c \in Consumers, Release(c) \/ SpuriousWakeup(c)
       PROVE  ContentInv'
  BY <1>10, <1>a, QuietContent DEF Release, SpuriousWakeup, indices, locals
<1>11. CASE UNCHANGED vars
  BY <1>11, QuietContent DEF vars, indices, locals
<1> QED
  BY <1>1, <1>2, <1>3, <1>4, <1>5, <1>6, <1>7, <1>8, <1>9, <1>10, <1>11
  DEF Next, Put, Get, GetLast

\* PutInv holds in every reachable state of a queue with queue_put publishers.
THEOREM PutInductive ==
  ASSUME Poppers = {}
  PROVE  Spec => []PutInv
<1>1. Init => TypeOK /\ WindowInv /\ ContentInv
  BY InitType, InitWindow, InitContent
<1>2. TypeOK /\ WindowInv /\ ContentInv /\ [Next]_vars
        => TypeOK' /\ WindowInv' /\ ContentInv'
  BY StepType, StepWindow, StepContent
<1>3. WindowInv /\ ContentInv => PutInv
  BY DEF WindowInv, ContentInv, PutInv
<1> QED
  BY <1>1, <1>2, <1>3, PTL DEF Spec

\* No publisher that calls queue_put ever touches a message queue_get_last has
\* yet to read.
THEOREM PutUnreadIntact ==
  ASSUME Poppers = {}
  PROVE  Spec => []UnreadIntact
<1>1. PutInv => UnreadIntact
  BY DEF PutInv
<1> QED
  BY <1>1, PutInductive, PTL

\* Only GetTake hands a buffer to a thread that calls queue_get.
LEMMA OnlyTakeHandsOut ==
  ASSUME Poppers = {}, TypeOK, Next, NEW g \in Getters,
         pc'[g] = "get_use", pc[g] # "get_use"
  PROVE  GetTake(g)
<1> USE ThreadAssumption
<1> USE DEF Threads, Publishers, Consumers, Goto
<1>a. pc = [t \in Threads |-> pc[t]]
  BY DEF TypeOK
<1>1. ASSUME NEW p \in Putters, Put(p) PROVE FALSE
  BY <1>1, <1>a DEF Put, PutLock, PutRoom, PutHeader, PutBody
<1>2. ASSUME NEW t \in Telems, GetLast(t) PROVE FALSE
  BY <1>2, <1>a DEF GetLast, LastLock, LastWait, LastTake, LastTimeout,
    LastTimeoutReturn
<1>3. ASSUME NEW c \in Consumers, Release(c) \/ SpuriousWakeup(c) PROVE FALSE
  BY <1>3, <1>a DEF Release, SpuriousWakeup
<1>4. ASSUME NEW h \in Getters, Get(h) PROVE GetTake(g)
  <2>1. ASSUME ~GetTake(h) PROVE FALSE
    BY <1>4, <1>a, <2>1 DEF Get, GetWait, GetMissed, GetTimeout,
      GetTimeoutReturn
  <2>2. ASSUME GetTake(h), g # h PROVE FALSE
    BY <1>a, <2>2 DEF GetTake
  <2> QED
    BY <2>1, <2>2
<1> QED
  BY <1>1, <1>2, <1>3, <1>4 DEF Next

\* What queue_get returns is the newest message queue_put has published, its
\* header and its payload, never an older or a half-written one.
THEOREM PutGetsNewest ==
  ASSUME Poppers = {}
  PROVE  Spec => GetsNewest
<1> DEFINE A == \A g \in Getters :
                  pc'[g] = "get_use" /\ pc[g] # "get_use" =>
                    /\ m'[g] = [len |-> 1, seq |-> tail_seq - 1, miss |-> 0]
                    /\ body[ptr'[g]] = tail_seq - 1
<1>1. ASSUME TypeOK, PutInv, [Next]_vars PROVE [A]_vars
  <2> SUFFICES ASSUME Next, NEW g \in Getters,
                      pc'[g] = "get_use", pc[g] # "get_use"
               PROVE  /\ m'[g] = [len |-> 1, seq |-> tail_seq - 1, miss |-> 0]
                      /\ body[ptr'[g]] = tail_seq - 1
    BY <1>1
  <2>1. GetTake(g)
    BY <1>1, OnlyTakeHandsOut
  <2>2. /\ write_mutex = NoThread /\ tail_seq = last_tail_seq + 1
        /\ m'[g] = header[Slot(tail)] /\ ptr'[g] = Slot(tail)
    BY <2>1, <1>1 DEF GetTake, GetChecks, TypeOK, Threads, Consumers
  <2>3. \A p \in Putters : pc[p] \notin PutPlaces
    BY <2>2, <1>1, ThreadAssumption
    DEF PutInv, MutexHeld, Threads, Publishers
  <2>4. Behind
    BY <2>2, <1>1 DEF Behind, TypeOK
  <2> QED
    BY <2>2, <2>3, <2>4, <1>1 DEF PutInv, NewestInPlace
<1>2. Spec => []TypeOK
  BY TypeCorrect
<1>3. Spec => []PutInv
  BY PutInductive
<1> QED
  BY <1>1, <1>2, <1>3, PTL DEF Spec, GetsNewest
=============================================================================
