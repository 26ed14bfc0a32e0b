------------------------- MODULE TelemetryPopProofs -------------------------
(* Theorems about TelemetryQueue for a publisher that borrows slots with     *)
(* queue_pop and queue_push, and for both kinds of publisher.                *)
EXTENDS TelemetryQueueProofs

-----------------------------------------------------------------------------
(* Both kinds of publisher: who holds write_mutex, and who waits.            *)

\* A publisher that is at work under write_mutex holds it.
WriteHeld ==
  \A p \in Publishers :
    pc[p] \in PutPlaces \cup {"pop_room", "push_write"} => write_mutex = p

\* Only threads in queue_get's wait are on read_cond, and once a message is
\* published, its publisher out of the way, one of them has been released.
WakeInv ==
  /\ WriteHeld
  /\ \A g \in read_cond : pc[g] = "get_wait"
  /\ Behind /\ ~PutHalfWritten /\ read_cond # {}
       => \E g \in Getters : pc[g] = "get_wait" /\ g \notin read_cond

LEMMA InitWake == Init => WakeInv
BY DEF Init, WakeInv, WriteHeld, PutPlaces, Threads, Publishers

\* A publisher that borrows slots is the only publisher.
LEMMA PopperAlone ==
  ASSUME NEW p \in Poppers
  PROVE  Publishers = {p} /\ Putters = {} /\ Poppers = {p}
BY ThreadAssumption, PopperAssumption DEF Publishers

\* A step that leaves the readers' condition and what they wait for alone.
LEMMA WakeKept ==
  ASSUME WakeInv, WriteHeld', read_cond' = read_cond,
         UNCHANGED <<tail_seq, last_tail_seq>>,
         \A g \in Getters : pc'[g] = pc[g], read_cond \subseteq Getters,
         PutHalfWritten => PutHalfWritten'
  PROVE  WakeInv'
BY DEF WakeInv, Behind

\* pthread_cond_signal on read_cond.
LEMMA WakeSignalled ==
  ASSUME WakeInv, WriteHeld', read_cond' \in SignalOne(read_cond),
         \A g \in Getters : pc'[g] = pc[g], read_cond \subseteq Getters
  PROVE  WakeInv'
<1>1. CASE read_cond = {}
  <2>1. read_cond' = {}
    BY <1>1 DEF SignalOne
  <2> QED
    BY <2>1 DEF WakeInv
<1>2. CASE read_cond # {}
  <2>1. PICK g \in read_cond : read_cond' = read_cond \ {g}
    BY <1>2 DEF SignalOne
  <2>2. g \in Getters /\ pc'[g] = "get_wait" /\ g \notin read_cond'
    BY <2>1 DEF WakeInv
  <2>3. \A h \in read_cond' : pc'[h] = "get_wait"
    BY <2>1 DEF WakeInv
  <2> QED
    BY <2>2, <2>3 DEF WakeInv
<1> QED
  BY <1>1, <1>2

\* Steps of publishers keep WakeInv.
LEMMA PutWake ==
  ASSUME TypeOK, WakeInv, NEW p \in Putters, Put(p)
  PROVE  WakeInv'
<1> USE ThreadAssumption DEF Threads, Publishers, Consumers
<1>a. /\ pc = [t \in Threads |-> pc[t]] /\ read_cond \subseteq Getters
      /\ \A q \in Poppers : FALSE
  BY PopperAlone DEF TypeOK
<1>1. \A g \in Getters : pc'[g] = pc[g]
  BY <1>a DEF Put, PutLock, PutRoom, PutHeader, PutBody, Goto
<1>2. CASE PutLock(p)
  <2>1. \A q \in Publishers : pc[q] \notin PutPlaces \cup {"pop_room", "push_write"}
    BY <1>2 DEF PutLock, TakeWrite, WakeInv, WriteHeld
  <2>2. WriteHeld'
    BY <1>2, <2>1, <1>a DEF PutLock, TakeWrite, Goto, WriteHeld
  <2>3. PutHalfWritten => PutHalfWritten'
    BY <2>1 DEF PutHalfWritten, PutPlaces
  <2> QED
    BY <1>2, <2>2, <2>3, <1>1, <1>a, WakeKept DEF PutLock
<1>3. CASE PutRoom(p)
  <2>1. WriteHeld'
    BY <1>3, <1>a DEF PutRoom, Goto, WakeInv, WriteHeld, PutPlaces
  <2>2. PutHalfWritten => PutHalfWritten'
    BY <1>3, <1>a DEF PutRoom, Goto, PutHalfWritten
  <2> QED
    BY <1>3, <2>1, <2>2, <1>1, <1>a, WakeKept DEF PutRoom
<1>4. CASE PutHeader(p)
  <2>1. WriteHeld'
    BY <1>4, <1>a DEF PutHeader, Goto, WakeInv, WriteHeld, PutPlaces, sync
  <2>2. PutHalfWritten'
    BY <1>4, <1>a DEF PutHeader, Goto, PutHalfWritten
  <2> QED
    BY <1>4, <2>1, <2>2, <1>1, <1>a DEF PutHeader, sync, WakeInv
<1>5. CASE PutBody(p)
  <2>1. \A q \in Publishers :
          pc[q] \in PutPlaces \cup {"pop_room", "push_write"} => q = p
    BY <1>5 DEF PutBody, Goto, WakeInv, WriteHeld, PutPlaces
  <2>2. WriteHeld'
    BY <1>5, <2>1, <1>a DEF PutBody, Goto, WriteHeld, PutPlaces
  <2> QED
    BY <1>5, <2>2, <1>1, <1>a, WakeSignalled DEF PutBody
<1> QED
  BY <1>2, <1>3, <1>4, <1>5 DEF Put

LEMMA PopWake ==
  ASSUME TypeOK, WakeInv, NEW p \in Poppers, PopPush(p)
  PROVE  WakeInv'
<1> USE ThreadAssumption DEF Threads, Publishers, Consumers
<1>a. /\ pc = [t \in Threads |-> pc[t]] /\ read_cond \subseteq Getters
  BY DEF TypeOK
<1>b. Publishers = {p} /\ Putters = {} /\ Poppers = {p}
  BY PopperAlone
<1>c. ~PutHalfWritten /\ ~PutHalfWritten'
  BY <1>b DEF PutHalfWritten
<1>1. \A g \in Getters : pc'[g] = pc[g]
  BY <1>a DEF PopPush, PopLock, PopRoom, Fill, PushLock, PushWrite, Goto
<1>2. WriteHeld'
  <2>1. CASE PopLock(p) \/ PushLock(p)
    BY <2>1, <1>b DEF PopLock, PushLock, TakeWrite, WriteHeld
  <2>2. CASE PopRoom(p) \/ Fill(p) \/ PushWrite(p)
    <3>1. pc'[p] \in {"fill", "filled", "idle"}
      BY <2>2, <1>a DEF PopRoom, Fill, PushWrite, Goto
    <3> QED
      BY <3>1, <1>b DEF WriteHeld, PutPlaces
  <2> QED
    BY <2>1, <2>2 DEF PopPush
<1>3. CASE PopLock(p) \/ PopRoom(p) \/ Fill(p) \/ PushLock(p)
  <2>1. UNCHANGED <<tail_seq, last_tail_seq, read_cond>>
    BY <1>3 DEF PopLock, PopRoom, Fill, PushLock, indices, sync
  <2> QED
    BY <2>1, <1>1, <1>2, <1>a, <1>c, WakeKept
<1>4. CASE PushWrite(p)
  BY <1>4, <1>1, <1>2, <1>a, WakeSignalled DEF PushWrite
<1> QED
  BY <1>3, <1>4 DEF PopPush

\* Every step keeps WakeInv.
LEMMA StepWake ==
  ASSUME TypeOK, WakeInv, [Next]_vars
  PROVE  WakeInv'
<1> USE ThreadAssumption DEF Threads, Publishers, Consumers
<1>a. /\ pc = [t \in Threads |-> pc[t]]
      /\ read_cond \subseteq Getters /\ write_cond \subseteq Telems
      /\ tail_seq \in Nat /\ last_tail_seq \in Nat
  BY DEF TypeOK
<1>b. ASSUME \A p \in Publishers : pc'[p] = pc[p], write_mutex' = write_mutex
      PROVE  WriteHeld' /\ (PutHalfWritten => PutHalfWritten')
  BY <1>b DEF WakeInv, WriteHeld, PutHalfWritten
<1>1. ASSUME NEW g \in Getters, GetWait(g) \/ GetMissed(g) \/ GetTake(g)
      PROVE  WakeInv'
  <2>1. ~Behind'
    BY <1>1, <1>a DEF GetWait, GetMissed, GetTake, indices, Behind
  <2>2. /\ \A p \in Publishers : pc'[p] = pc[p]
        /\ write_mutex' = write_mutex /\ read_cond' \in {read_cond, read_cond \cup {g}}
        /\ \A h \in Getters : h # g => pc'[h] = pc[h]
        /\ g \in read_cond' \ read_cond => pc'[g] = "get_wait"
    BY <1>1, <1>a DEF GetWait, GetMissed, GetTake, sync
  <2>3. g \in read_cond => pc'[g] = "get_wait"
    BY <1>1, <1>a DEF GetWait, GetMissed, GetTake, GetChecks, WakeInv
  <2>4. \A h \in read_cond' : pc'[h] = "get_wait"
    BY <2>2, <2>3, <1>a DEF WakeInv
  <2> QED
    BY <2>1, <2>2, <2>4, <1>b DEF WakeInv
<1>2. ASSUME NEW g \in Getters, GetTimeout(g) PROVE WakeInv'
  <2>1. /\ pc' = [pc EXCEPT ![g] = "get_timeout"] /\ g \in read_cond
        /\ read_cond' = read_cond \ {g}
        /\ UNCHANGED <<tail_seq, last_tail_seq, write_mutex>>
    BY <1>2 DEF GetTimeout, Goto, indices
  <2>2. WriteHeld' /\ (PutHalfWritten => PutHalfWritten')
    BY <2>1, <1>a, <1>b
  <2>3. \A h \in read_cond' : pc'[h] = "get_wait"
    BY <2>1, <1>a DEF WakeInv
  <2>4. ASSUME Behind', ~PutHalfWritten', read_cond' # {}
        PROVE  \E h \in Getters : pc'[h] = "get_wait" /\ h \notin read_cond'
    <3>1. PICK h \in Getters : pc[h] = "get_wait" /\ h \notin read_cond
      BY <2>1, <2>2, <2>4 DEF WakeInv, Behind
    <3> QED
      BY <2>1, <3>1, <1>a
  <2> QED
    BY <2>2, <2>3, <2>4 DEF WakeInv
<1>3. ASSUME NEW g \in Getters, GetTimeoutReturn(g) PROVE WakeInv'
  <2>1. /\ pc' = [pc EXCEPT ![g] = "idle"] /\ pc[g] = "get_timeout"
        /\ UNCHANGED <<tail_seq, last_tail_seq, write_mutex, read_cond>>
    BY <1>3 DEF GetTimeoutReturn, Goto, indices, sync
  <2>2. WriteHeld' /\ (PutHalfWritten => PutHalfWritten')
    BY <2>1, <1>a, <1>b
  <2>3. \A h \in Getters : pc[h] = "get_wait" => pc'[h] = "get_wait"
    BY <2>1, <1>a
  <2> QED
    BY <2>1, <2>2, <2>3, <1>a DEF WakeInv, Behind
<1>4. ASSUME NEW t \in Telems, GetLast(t) PROVE WakeInv'
  <2>1. /\ \A p \in Publishers : pc'[p] = pc[p]
        /\ \A g \in Getters : pc'[g] = pc[g]
        /\ UNCHANGED <<tail_seq, last_tail_seq, write_mutex, read_cond>>
    BY <1>4, <1>a DEF GetLast, LastLock, LastWait, LastTake, LastTimeout,
      LastTimeoutReturn, Goto, indices, sync
  <2> QED
    BY <2>1, <1>a, <1>b, WakeKept
<1>5. ASSUME NEW c \in Consumers, Release(c) PROVE WakeInv'
  <2>1. /\ pc' = [pc EXCEPT ![c] = "idle"] /\ pc[c] # "get_wait"
        /\ UNCHANGED <<tail_seq, last_tail_seq, write_mutex, read_cond>>
    BY <1>5 DEF Release, indices, sync
  <2>2. WriteHeld' /\ (PutHalfWritten => PutHalfWritten')
    BY <2>1, <1>a, <1>b
  <2>3. \A h \in Getters : pc[h] = "get_wait" => pc'[h] = "get_wait"
    BY <2>1, <1>a
  <2> QED
    BY <2>1, <2>2, <2>3, <1>a DEF WakeInv, Behind
<1>6. ASSUME NEW c \in Consumers, SpuriousWakeup(c) PROVE WakeInv'
  <2>1. /\ UNCHANGED <<pc, tail_seq, last_tail_seq, write_mutex>>
        /\ read_cond' = read_cond \ {c}
    BY <1>6 DEF SpuriousWakeup, indices
  <2>2. WriteHeld' /\ (PutHalfWritten => PutHalfWritten')
    BY <2>1, <1>b
  <2> QED
    BY <2>1, <2>2 DEF WakeInv, Behind
<1>7. CASE UNCHANGED vars
  <2>1. UNCHANGED <<pc, tail_seq, last_tail_seq, write_mutex, read_cond>>
    BY <1>7 DEF vars, indices, sync
  <2> QED
    BY <2>1, <1>a, <1>b, WakeKept
<1> QED
  BY <1>1, <1>2, <1>3, <1>4, <1>5, <1>6, <1>7, PutWake, PopWake DEF Next, Get

\* Whoever publishes, and however many threads there are: no thread sleeps in
\* queue_get over a message, unless another one has been released to take it.
THEOREM NobodySleepsOverMessage == Spec => []NoSleepOverMessage
<1>1. TypeOK /\ WakeInv => NoSleepOverMessage
  <2> SUFFICES ASSUME TypeOK, WakeInv, write_mutex = NoThread
               PROVE  ~PutHalfWritten
    BY DEF WakeInv, NoSleepOverMessage
  <2> QED
    BY ThreadAssumption
    DEF WakeInv, WriteHeld, PutHalfWritten, PutPlaces, Threads, Publishers
<1>2. TypeOK /\ WakeInv /\ [Next]_vars => WakeInv'
  BY StepWake
<1> QED
  BY <1>1, <1>2, InitWake, TypeCorrect, PTL DEF Spec

-----------------------------------------------------------------------------
(* Where a publisher that borrows slots writes.                              *)

\* A consumer's step leaves the publishers' indices and buffers alone.
LEMMA ConsumerStep ==
  ASSUME TypeOK,
         \/ \E g \in Getters : Get(g)
         \/ \E t \in Telems : GetLast(t)
         \/ \E c \in Consumers : Release(c) \/ SpuriousWakeup(c)
         \/ UNCHANGED vars
  PROVE  /\ UNCHANGED <<last_tail, tail_seq, header, body, write_mutex>>
         /\ \A p \in Publishers : pc'[p] = pc[p] /\ ptr'[p] = ptr[p]
<1> USE ThreadAssumption DEF Threads, Publishers, Consumers
<1>a. pc = [t \in Threads |-> pc[t]] /\ ptr = [t \in Threads |-> ptr[t]]
  BY DEF TypeOK
<1> DEFINE Kept == /\ UNCHANGED <<last_tail, tail_seq, header, body, write_mutex>>
                   /\ \A p \in Publishers : pc'[p] = pc[p] /\ ptr'[p] = ptr[p]
<1>1. ASSUME NEW g \in Getters, Get(g) PROVE Kept
  BY <1>1, <1>a DEF Get, GetWait, GetMissed, GetTake, GetTimeout,
    GetTimeoutReturn, Goto, indices, sync, locals
<1>2. ASSUME NEW t \in Telems, GetLast(t) PROVE Kept
  BY <1>2, <1>a DEF GetLast, LastLock, LastWait, LastTake, LastTimeout,
    LastTimeoutReturn, Goto, indices, sync, locals
<1>3. ASSUME NEW c \in Consumers, Release(c) \/ SpuriousWakeup(c) PROVE Kept
  BY <1>3, <1>a DEF Release, SpuriousWakeup, indices, sync, locals
<1>4. CASE UNCHANGED vars
  BY <1>4 DEF vars, indices, sync, locals
<1> QED
  BY <1>1, <1>2, <1>3, <1>4

LEMMA StepPushMatches ==
  ASSUME TypeOK, PushMatchesPop, [Next]_vars
  PROVE  PushMatchesPop'
<1> USE ThreadAssumption DEF Threads, Publishers, Consumers
<1>a. pc = [t \in Threads |-> pc[t]] /\ ptr = [t \in Threads |-> ptr[t]]
  BY DEF TypeOK
<1>1. ASSUME NEW p \in Putters PROVE PushMatchesPop'
  BY PopperAlone DEF PushMatchesPop
<1>2. ASSUME NEW p \in Poppers, PopPush(p) PROVE PushMatchesPop'
  <2>1. Poppers = {p}
    BY PopperAlone
  <2>2. CASE PopLock(p) \/ PushWrite(p)
    BY <2>1, <2>2, <1>a DEF PopLock, PushWrite, Goto, PushMatchesPop
  <2>3. CASE PopRoom(p)
    BY <2>1, <2>3, <1>a DEF PopRoom, Goto, PushMatchesPop, Borrowed, Slot
  <2>4. CASE Fill(p) \/ PushLock(p)
    BY <2>1, <2>4, <1>a DEF Fill, PushLock, Goto, PushMatchesPop, indices,
      locals, Slot
  <2> QED
    BY <1>2, <2>2, <2>3, <2>4 DEF PopPush
<1>3. CASE \/ \E g \in Getters : Get(g)
           \/ \E t \in Telems : GetLast(t)
           \/ \E c \in Consumers : Release(c) \/ SpuriousWakeup(c)
           \/ UNCHANGED vars
  BY <1>3, ConsumerStep DEF PushMatchesPop, Slot
<1> QED
  BY <1>1, <1>2, <1>3 DEF Next

\* Whatever the consumers do between queue_pop and queue_push, and for any ring:
\* the payload and its header go to the same slot.
THEOREM PopPushMatches == Spec => []PushMatchesPop
<1>1. Init => PushMatchesPop
  BY DEF Init, PushMatchesPop, Threads, Publishers
<1>2. TypeOK /\ PushMatchesPop /\ [Next]_vars => PushMatchesPop'
  BY StepPushMatches
<1> QED
  BY <1>1, <1>2, TypeCorrect, PTL DEF Spec

\* While a fresh message waits, its slot is not behind the publisher's index,
\* so that taking it moves tail by no more than CursorNearTail allows.
CursorInv ==
  /\ CursorNearTail
  /\ Behind /\ (\A p \in Poppers : pc[p] # "push_write") => tail <= last_tail

LEMMA StepCursor ==
  ASSUME Putters = {}, TypeOK, WriteHeld, CursorInv, [Next]_vars
  PROVE  CursorInv'
<1> USE ThreadAssumption DEF Threads, Publishers, Consumers
<1>a. /\ pc = [t \in Threads |-> pc[t]] /\ tail \in Nat /\ last_tail \in Nat
      /\ tail_seq \in Nat /\ last_tail_seq \in Nat
  BY DEF TypeOK
<1>1. ASSUME NEW p \in Poppers, PopPush(p) PROVE CursorInv'
  <2>1. Poppers = {p}
    BY PopperAlone
  <2>2. CASE PopLock(p)
    BY <2>1, <2>2, <1>a DEF PopLock, Goto, WriteIndex, CursorInv,
      CursorNearTail, Behind
  <2>3. CASE PopRoom(p) \/ Fill(p)
    <3>1. /\ UNCHANGED <<tail, last_tail, tail_seq, last_tail_seq>>
          /\ pc[p] # "push_write"
      BY <2>3 DEF PopRoom, Fill, Goto, indices
    <3> QED
      BY <2>1, <3>1 DEF CursorInv, CursorNearTail, Behind
  <2>4. CASE PushLock(p)
    <3>1. /\ pc[p] = "filled" /\ pc'[p] = "push_write"
          /\ tail' = IF Behind THEN tail + 1 ELSE tail
          /\ last_tail' = last_tail
      BY <2>4, <1>a DEF PushLock, PassMissed, Goto
    <3> QED
      BY <2>1, <3>1, <1>a DEF CursorInv, CursorNearTail
  <2>5. CASE PushWrite(p)
    <3>1. last_tail' = tail /\ tail' = tail
      BY <2>5 DEF PushWrite, IndexAfterPush
    <3> QED
      BY <3>1, <1>a DEF CursorInv, CursorNearTail
  <2> QED
    BY <1>1, <2>2, <2>3, <2>4, <2>5 DEF PopPush
<1>2. ASSUME NEW g \in Getters, GetTake(g) PROVE CursorInv'
  <2>1. /\ Behind /\ ~Behind' /\ tail' = tail + 1 /\ last_tail' = last_tail
        /\ write_mutex = NoThread
    BY <1>2, <1>a DEF GetTake, GetChecks, Behind
  <2>2. \A p \in Poppers : pc[p] # "push_write"
    BY <2>1 DEF WriteHeld
  <2> QED
    BY <2>1, <2>2, <1>a DEF CursorInv, CursorNearTail
<1>3. ASSUME NEW g \in Getters, GetMissed(g) PROVE CursorInv'
  BY <1>3, <1>a DEF GetMissed, CursorInv, CursorNearTail, Behind
<1>4. ASSUME UNCHANGED <<tail, last_tail, tail_seq, last_tail_seq>>,
             \A p \in Poppers : pc'[p] = pc[p]
      PROVE  CursorInv'
  BY <1>4 DEF CursorInv, CursorNearTail, Behind
<1>5. ASSUME NEW g \in Getters,
             GetWait(g) \/ GetTimeout(g) \/ GetTimeoutReturn(g)
      PROVE  CursorInv'
  BY <1>4, <1>5, <1>a DEF GetWait, GetTimeout, GetTimeoutReturn, Goto, indices
<1>6. ASSUME NEW t \in Telems, GetLast(t) PROVE CursorInv'
  BY <1>4, <1>6, <1>a DEF GetLast, LastLock, LastWait, LastTake, LastTimeout,
    LastTimeoutReturn, Goto, indices
<1>7. ASSUME NEW c \in Consumers, Release(c) \/ SpuriousWakeup(c)
      PROVE  CursorInv'
  BY <1>4, <1>7, <1>a DEF Release, SpuriousWakeup, indices
<1>8. CASE UNCHANGED vars
  BY <1>4, <1>8 DEF vars, indices
<1> QED
  BY <1>1, <1>2, <1>3, <1>5, <1>6, <1>7, <1>8 DEF Next, Get

LEMMA WakeAlways == Spec => [](TypeOK /\ WakeInv)
<1>1. TypeOK /\ WakeInv /\ [Next]_vars => WakeInv'
  BY StepWake
<1> QED
  BY <1>1, InitWake, TypeCorrect, PTL DEF Spec

\* For a publisher that borrows slots, and any ring: the slot it writes is
\* never more than one away from the one queue_get reads next.
THEOREM PopCursorNearTail ==
  ASSUME Putters = {}
  PROVE  Spec => []CursorNearTail
<1>1. Init => CursorInv
  BY DEF Init, CursorInv, CursorNearTail, Behind
<1>2. TypeOK /\ WakeInv /\ CursorInv /\ [Next]_vars => CursorInv'
  BY StepCursor DEF WakeInv
<1>3. CursorInv => CursorNearTail
  BY DEF CursorInv
<1> QED
  BY <1>1, <1>2, <1>3, WakeAlways, PTL DEF Spec

-----------------------------------------------------------------------------
(* A publisher that borrows slots, as long as queue_get takes nothing.       *)

\* A thread that looks at head in queue_get_last holds read_mutex.
ReadHeld ==
  \A t \in Telems : pc[t] \in {"last_empty", "last_read"} => read_mutex = t

\* The slot of index i holds one complete message, newer than the unread ones.
Whole(i) ==
  /\ header[Slot(i)].len = 1 /\ body[Slot(i)] = header[Slot(i)].seq
  /\ header[Slot(i)].seq < tail_seq /\ UnreadBefore(header[Slot(i)].seq)

\* The index of a borrowed slot is tail or, if a message sits at tail, the one
\* behind it; the ring has room for both.
Lent(p) ==
  /\ pc[p] = "idle" => last_tail = tail
  /\ pc[p] # "push_write" /\ Behind => Whole(tail)
  /\ pc[p] \in PopPlaces /\ last_tail = tail + 1 => Whole(tail)
  /\ pc[p] \in {"pop_room", "fill", "filled"} /\ last_tail = tail => ~Behind
  /\ pc[p] \in {"fill", "filled", "push_write"} => last_tail - head < Entries
  /\ pc[p] \in {"filled", "push_write"} => body[Slot(last_tail)] = tail_seq

RingInv ==
  /\ UnreadIntact /\ UnreadBefore(tail_seq) /\ ReadSomething
  /\ head <= tail /\ tail - head < Entries
  /\ last_tail \in {tail, tail + 1} /\ last_tail_seq <= tail_seq

LentInv == ReadHeld /\ (delivered = {} => RingInv /\ \A p \in Poppers : Lent(p))

LEMMA InitLent == Init => LentInv
BY SizeAssumption DEF Init, LentInv, ReadHeld, RingInv, UnreadIntact,
  UnreadBefore, Unread, ReadSomething, Lent, Behind, PopPlaces, Threads,
  Publishers, Consumers

\* Reading or dropping the oldest message leaves every other one whole.
LEMMA WholeKept ==
  ASSUME UNCHANGED <<header, body, tail_seq>>, Unread' \subseteq Unread,
         NEW i, Whole(i)
  PROVE  Whole(i)'
BY DEF Whole, UnreadBefore, Slot

\* The slot that is lent is none of the unread ones, nor the one at tail if it
\* is behind it.
LEMMA LentApart ==
  ASSUME TypeOK, head <= tail, last_tail \in {tail, tail + 1},
         last_tail - head < Entries
  PROVE  /\ \A i \in Unread : Slot(i) \in Slots /\ Slot(i) # Slot(last_tail)
         /\ last_tail # tail /\ Entries > 1 => Slot(tail) # Slot(last_tail)
<1>a. /\ head \in Nat /\ tail \in Nat /\ last_tail \in Nat /\ Entries \in Nat
      /\ \A i \in Unread : i \in Nat /\ head <= i /\ i < tail
  BY SizeAssumption DEF TypeOK, Unread
<1>1. ASSUME NEW i \in Unread PROVE Slot(i) # Slot(last_tail)
  <2>1. i \in Nat /\ i < last_tail /\ last_tail - i < Entries
    BY <1>a
  <2> QED
    BY <2>1, <1>a, SlotsDistinct
<1>2. ASSUME last_tail # tail, Entries > 1 PROVE Slot(tail) # Slot(last_tail)
  <2>1. tail < last_tail /\ last_tail - tail < Entries
    BY <1>a, <1>2
  <2> QED
    BY <2>1, <1>a, SlotsDistinct
<1> QED
  BY <1>1, <1>2, <1>a, SlotInSlots

\* queue_pop and queue_push keep to slots that are free.
LEMMA PopLent ==
  ASSUME Entries > 1, TypeOK, TypeOK', WakeInv, PushMatchesPop, RingInv,
         ReadHeld, NEW p \in Poppers, Lent(p), PopPush(p)
  PROVE  RingInv' /\ Lent(p)'
<1> USE ThreadAssumption, SizeAssumption
<1> USE DEF Threads, Publishers, Consumers
<1>a. /\ pc = [t \in Threads |-> pc[t]] /\ ptr = [t \in Threads |-> ptr[t]]
      /\ head \in Nat /\ tail \in Nat /\ last_tail \in Nat
      /\ tail_seq \in Nat /\ last_tail_seq \in Nat
      /\ header \in [Slots -> Header] /\ body \in [Slots -> Nat]
      /\ Slot(tail) \in Slots /\ Slot(last_tail) \in Slots
      /\ \A i \in Unread : /\ i \in Nat /\ Slot(i) \in Slots
                           /\ header[Slot(i)].seq \in Nat
  <2>1. \A i \in Unread : i \in Nat
    BY DEF TypeOK, Unread
  <2> QED
    BY <2>1, SlotInSlots DEF TypeOK, Header
<1>b. /\ head <= tail /\ tail - head < Entries /\ last_tail \in {tail, tail + 1}
      /\ last_tail_seq <= tail_seq
  BY DEF RingInv
<1>c. \A t \in Telems : pc'[t] = pc[t]
  BY <1>a DEF PopPush, PopLock, PopRoom, Fill, PushLock, PushWrite, Goto
<1>1. CASE PopLock(p)
  <2>1. /\ pc[p] = "idle" /\ pc'[p] = "pop_room"
        /\ last_tail' = IF Behind THEN tail + 1 ELSE last_tail
        /\ UNCHANGED <<head, tail, tail_seq, last_tail_seq, header, body>>
    BY <1>1, <1>a DEF PopLock, Goto, WriteIndex
  <2>2. last_tail = tail
    BY <2>1 DEF Lent
  <2>3. Unread' = Unread /\ (Behind' <=> Behind)
    BY <2>1 DEF Unread, Behind
  <2>4. RingInv'
    BY <2>1, <2>2, <2>3, <1>a, <1>b, <1>c DEF RingInv, UnreadIntact,
      UnreadBefore, ReadSomething
  <2>5. Behind => Whole(tail)
    BY <2>1 DEF Lent
  <2>6. Whole(tail) => Whole(tail)'
    BY <2>1, <2>3 DEF Whole, UnreadBefore, Slot
  <2> QED
    BY <2>1, <2>2, <2>3, <2>4, <2>5, <2>6, <1>a DEF Lent
<1>2. CASE PopRoom(p)
  <2>1. /\ pc[p] = "pop_room" /\ pc'[p] = "fill" /\ read_mutex = NoThread
        /\ UNCHANGED <<tail, tail_seq, last_tail, last_tail_seq, header, body>>
        /\ MakeRoom(last_tail)
    BY <1>2, <1>a DEF PopRoom, Goto
  <2>2. /\ head' \in {head, head + 1} /\ head' <= tail
        /\ last_tail - head' < Entries
    <3>1. CASE last_tail - head >= Entries
      BY <2>1, <3>1, <1>a, <1>b DEF MakeRoom, Full, Minus
    <3>2. CASE last_tail - head < Entries
      BY <2>1, <3>2, <1>a, <1>b DEF MakeRoom, Full, Minus
    <3> QED
      BY <3>1, <3>2, <1>a
  <2>3. \A t \in Telems : pc[t] # "last_read"
    BY <2>1 DEF ReadHeld
  <2>4. Unread' \subseteq Unread
    BY <2>1, <2>2, <1>a DEF Unread
  <2>5. UnreadIntact' /\ UnreadBefore(tail_seq)'
    BY <2>1, <2>4, <1>a, ShrinkUnread DEF RingInv, UnreadBefore
  <2>6. RingInv'
    BY <2>1, <2>2, <2>3, <2>5, <1>a, <1>b, <1>c DEF RingInv, ReadSomething
  <2>7. Whole(tail) => Whole(tail)'
    BY <2>1, <2>4 DEF Whole, UnreadBefore, Slot
  <2>8. Behind' <=> Behind
    BY <2>1 DEF Behind
  <2> QED
    BY <2>1, <2>2, <2>6, <2>7, <2>8 DEF Lent, PopPlaces
<1>3. CASE Fill(p)
  <2>1. /\ pc[p] = "fill" /\ pc'[p] = "filled"
        /\ body' = [body EXCEPT ![ptr[p]] = tail_seq]
        /\ UNCHANGED <<head, tail, tail_seq, last_tail, last_tail_seq, header>>
    BY <1>3, <1>a DEF Fill, Goto, indices
  <2>2. ptr[p] = Slot(last_tail)
    BY <2>1 DEF PushMatchesPop
  <2>3. last_tail - head < Entries
    BY <2>1 DEF Lent
  <2>4. /\ \A i \in Unread : Slot(i) # Slot(last_tail)
        /\ last_tail # tail => Slot(tail) # Slot(last_tail)
    BY <2>3, <1>b, LentApart
  <2>5. \A i \in Unread : body'[Slot(i)] = body[Slot(i)]
    BY <2>1, <2>2, <2>4, <1>a
  <2>6. Unread' = Unread /\ (Behind' <=> Behind)
    BY <2>1 DEF Unread, Behind
  <2>7. RingInv'
    BY <2>1, <2>5, <2>6, <1>c DEF RingInv, UnreadIntact, UnreadBefore,
      ReadSomething
  <2>8. body'[Slot(last_tail)] = tail_seq
    BY <2>1, <2>2, <1>a
  <2>9. ASSUME last_tail # tail, Whole(tail) PROVE Whole(tail)'
    <3>1. body'[Slot(tail)] = body[Slot(tail)]
      BY <2>1, <2>2, <2>4, <2>9, <1>a
    <3> QED
      BY <2>1, <2>6, <2>9, <3>1 DEF Whole, UnreadBefore, Slot
  <2>10. last_tail = tail => ~Behind
    BY <2>1 DEF Lent
  <2>11. Slot(last_tail)' = Slot(last_tail)
    BY <2>1 DEF Slot
  <2>12. Behind => Whole(tail)
    BY <2>1 DEF Lent
  <2>13. last_tail = tail + 1 => Whole(tail) /\ last_tail # tail
    BY <2>1, <1>a DEF Lent, PopPlaces
  <2> QED
    BY <2>1, <2>3, <2>6, <2>7, <2>8, <2>9, <2>10, <2>11, <2>12, <2>13 DEF Lent
<1>4. CASE PushLock(p)
  <2>1. /\ pc[p] = "filled" /\ pc'[p] = "push_write"
        /\ UNCHANGED <<head, tail_seq, last_tail, last_tail_seq, body>>
        /\ PassMissed
    BY <1>4, <1>a DEF PushLock, Goto
  <2>2. last_tail - head < Entries /\ body[Slot(last_tail)] = tail_seq
    BY <2>1 DEF Lent
  <2>3. CASE ~Behind
    <3>1. UNCHANGED <<header, tail>>
      BY <2>1, <2>3 DEF PassMissed
    <3>2. Unread' = Unread
      BY <2>1, <3>1 DEF Unread
    <3>3. RingInv'
      BY <2>1, <3>1, <3>2, <1>c DEF RingInv, UnreadIntact, UnreadBefore,
        ReadSomething
    <3>4. Whole(tail) => Whole(tail)'
      BY <2>1, <3>1, <3>2 DEF Whole, UnreadBefore, Slot
    <3>5. last_tail' = tail' + 1 => Whole(tail)
      BY <2>1, <3>1 DEF Lent, PopPlaces
    <3> QED
      BY <2>1, <2>2, <3>1, <3>3, <3>4, <3>5 DEF Lent, Slot
  <2>4. CASE Behind
    <3>1. /\ header' = [header EXCEPT ![Slot(tail)] = Flagged(header[Slot(tail)])]
          /\ tail' = tail + 1
      BY <2>1, <2>4 DEF PassMissed
    <3>2. last_tail = tail + 1 /\ Whole(tail)
      BY <2>1, <2>4, <1>b DEF Lent
    <3>3. \A i \in Unread : Slot(i) # Slot(tail)
      BY <1>b, TailSlotFree
    <3>4. \A i \in Unread : header'[Slot(i)] = header[Slot(i)]
      BY <3>1, <3>3, <1>a
    <3>5. header'[Slot(tail)] = Flagged(header[Slot(tail)])
      BY <3>1, <1>a
    <3>6. PICK n \in Nat : n = header[Slot(tail)].seq
      BY <1>a DEF Header
    <3>7. /\ header'[Slot(tail)].len = 1 /\ header'[Slot(tail)].seq = n
          /\ body[Slot(tail)] = n /\ UnreadBefore(n) /\ n < tail_seq
      BY <3>2, <3>5, <3>6 DEF Whole, Flagged
    <3>8. header' \in [Slots -> Header]
      BY DEF TypeOK
    <3>9. UnreadIntact' /\ UnreadBefore(n + 1)'
      BY <2>1, <3>1, <3>4, <3>7, <3>8, <1>b, GrowUnread DEF RingInv
    <3>10. UnreadBefore(tail_seq)'
      <4>1. \A i \in Unread' : header'[Slot(i)].seq \in Nat
        <5>1. \A i \in Unread' : i \in Nat
          BY <2>1, <3>1, <1>a DEF Unread
        <5> QED
          BY <5>1, <3>8, SlotInSlots DEF Header
      <4>2. \A i \in Unread' : header'[Slot(i)].seq < n + 1
        BY <3>9 DEF UnreadBefore, Slot
      <4>3. \A i \in Unread' : header'[Slot(i)].seq < tail_seq
        BY <4>1, <4>2, <3>6, <3>7, <1>a
      <4> QED
        BY <4>3, <2>1 DEF UnreadBefore, Slot
    <3>11. ReadSomething'
      BY <2>1, <3>1, <1>a, <1>c DEF RingInv, ReadSomething
    <3>12. RingInv'
      BY <2>1, <2>2, <3>1, <3>2, <3>9, <3>10, <3>11, <1>a, <1>b DEF RingInv
    <3> QED
      BY <2>1, <2>2, <3>1, <3>2, <3>12, <1>a DEF Lent, Slot
  <2> QED
    BY <2>3, <2>4
<1>5. CASE PushWrite(p)
  <2>1. /\ pc[p] = "push_write" /\ pc'[p] = "idle" /\ last_tail' = tail
        /\ header' = [header EXCEPT ![Slot(last_tail)] = NewHeader]
        /\ tail_seq' = tail_seq + 1
        /\ UNCHANGED <<head, tail, last_tail_seq, body>>
    BY <1>5, <1>a DEF PushWrite, Goto, IndexAfterPush
  <2>2. last_tail - head < Entries /\ body[Slot(last_tail)] = tail_seq
    BY <2>1 DEF Lent
  <2>3. /\ \A i \in Unread : Slot(i) # Slot(last_tail)
        /\ last_tail # tail => Slot(tail) # Slot(last_tail)
    BY <2>2, <1>b, LentApart
  <2>4. \A i \in Unread : header'[Slot(i)] = header[Slot(i)]
    BY <2>1, <2>3, <1>a
  <2>5. Unread' = Unread
    BY <2>1 DEF Unread
  <2>6. \A i \in Unread : header[Slot(i)].seq < tail_seq
    BY DEF RingInv, UnreadBefore
  <2>7. \A i \in Unread : header[Slot(i)].seq < tail_seq'
    BY <2>1, <2>6, <1>a
  <2>8. RingInv'
    BY <2>1, <2>4, <2>5, <2>7, <1>a, <1>b, <1>c
    DEF RingInv, UnreadIntact, UnreadBefore, ReadSomething, Slot
  <2>9. Whole(tail)'
    <3>1. CASE last_tail = tail
      <4>1. header'[Slot(tail)] = NewHeader
        BY <2>1, <3>1, <1>a
      <4>2. header'[Slot(tail)].len = 1 /\ header'[Slot(tail)].seq = tail_seq
        BY <4>1 DEF NewHeader
      <4> QED
        BY <2>1, <2>2, <2>4, <2>5, <2>6, <3>1, <4>2, <1>a
        DEF Whole, UnreadBefore, Slot
    <3>2. CASE last_tail # tail
      <4>1. Whole(tail)
        BY <2>1, <3>2, <1>b DEF Lent, PopPlaces
      <4>2. header'[Slot(tail)] = header[Slot(tail)]
        BY <2>1, <2>3, <3>2, <1>a
      <4>3. header[Slot(tail)].seq \in Nat
        BY <1>a DEF Header
      <4>4. header[Slot(tail)].seq < tail_seq'
        BY <2>1, <4>1, <4>3, <1>a DEF Whole
      <4> QED
        BY <2>1, <2>4, <2>5, <4>1, <4>2, <4>4 DEF Whole, UnreadBefore, Slot
    <3> QED
      BY <3>1, <3>2
  <2> QED
    BY <2>1, <2>8, <2>9 DEF Lent, PopPlaces
<1> QED
  BY <1>1, <1>2, <1>3, <1>4, <1>5 DEF PopPush

\* A step that leaves the ring alone.
LEMMA LentKept ==
  ASSUME RingInv, \A p \in Poppers : Lent(p),
         UNCHANGED <<head, tail, tail_seq, last_tail, last_tail_seq, header,
                     body>>,
         \A p \in Poppers : pc'[p] = pc[p], ReadSomething'
  PROVE  RingInv' /\ \A p \in Poppers : Lent(p)'
<1>1. Unread' = Unread /\ (Behind' <=> Behind)
  BY DEF Unread, Behind
<1>2. Whole(tail) => Whole(tail)'
  BY <1>1 DEF Whole, UnreadBefore, Slot
<1>3. RingInv'
  BY <1>1 DEF RingInv, UnreadIntact, UnreadBefore, Slot
<1>4. ASSUME NEW p \in Poppers PROVE Lent(p)'
  BY <1>1, <1>2 DEF Lent, Slot
<1> QED
  BY <1>3, <1>4

\* Consumers leave the slots that will be read, and that are lent, alone.
LEMMA StepLent ==
  ASSUME Putters = {}, Entries > 1, TypeOK, TypeOK', WakeInv, PushMatchesPop,
         LentInv, [Next]_vars
  PROVE  LentInv'
<1> USE ThreadAssumption DEF Threads, Publishers, Consumers
<1>a. /\ pc = [t \in Threads |-> pc[t]]
      /\ head \in Nat /\ tail \in Nat /\ last_tail \in Nat
      /\ tail_seq \in Nat /\ last_tail_seq \in Nat
  BY DEF TypeOK
<1>1. ASSUME NEW p \in Poppers, PopPush(p) PROVE LentInv'
  <2>1. ReadHeld'
    BY <1>1, <1>a DEF LentInv, ReadHeld, PopPush, PopLock, PopRoom, Fill,
      PushLock, PushWrite, Goto, sync
  <2>2. delivered' = delivered
    BY <1>1 DEF PopPush, PopLock, PopRoom, Fill, PushLock, PushWrite
  <2>3. Poppers = {p}
    BY PopperAlone
  <2>4. delivered = {} => RingInv' /\ Lent(p)'
    BY <1>1, PopLent DEF LentInv
  <2> QED
    BY <2>1, <2>2, <2>3, <2>4 DEF LentInv
<1>2. ASSUME NEW g \in Getters, GetTake(g) PROVE LentInv'
  <2>1. ReadHeld'
    BY <1>2, <1>a DEF LentInv, ReadHeld, GetTake, sync
  <2>2. delivered' # {}
    BY <1>2 DEF GetTake
  <2> QED
    BY <2>1, <2>2 DEF LentInv
<1>3. ASSUME NEW g \in Getters, GetMissed(g) PROVE LentInv'
  <2>1. ReadHeld'
    BY <1>3, <1>a DEF LentInv, ReadHeld, GetMissed, sync
  <2>2. /\ UNCHANGED <<head, tail, tail_seq, last_tail, header, body, delivered>>
        /\ last_tail_seq' = tail_seq /\ write_mutex = NoThread
        /\ pc' = [pc EXCEPT ![g] = "idle"]
    BY <1>3 DEF GetMissed, GetChecks
  <2>3. ~Behind' /\ Unread' = Unread
    BY <2>2, <1>a DEF Behind, Unread
  <2>4. ASSUME RingInv PROVE RingInv'
    BY <2>2, <2>3, <2>4, <1>a DEF RingInv, UnreadIntact, UnreadBefore,
      ReadSomething, Slot
  <2>5. ASSUME NEW p \in Poppers, Lent(p) PROVE Lent(p)'
    <3>1. pc'[p] = pc[p]
      BY <2>2, <1>a
    <3>2. Whole(tail) => Whole(tail)'
      BY <2>2, <2>3 DEF Whole, UnreadBefore, Slot
    <3> QED
      BY <2>2, <2>3, <2>5, <3>1, <3>2 DEF Lent, Slot
  <2> QED
    BY <2>1, <2>2, <2>4, <2>5 DEF LentInv
<1>4. ASSUME NEW t \in Telems, LastTake(t) PROVE LentInv'
  <2>1. /\ UNCHANGED <<tail, tail_seq, last_tail, last_tail_seq, header, body,
                       delivered>>
        /\ head' = head + 1 /\ pc[t] = "last_read"
        /\ pc' = [pc EXCEPT ![t] = "last_use"]
    BY <1>4 DEF LastTake, Goto
  <2>2. \A u \in Telems : u # t => pc[u] \notin {"last_empty", "last_read"}
    BY <2>1 DEF LentInv, ReadHeld
  <2>3. ReadHeld' /\ ReadSomething'
    BY <2>1, <2>2, <1>a DEF ReadHeld, ReadSomething
  <2>4. Unread' \subseteq Unread /\ (Behind' <=> Behind)
    BY <2>1, <1>a DEF Unread, Behind
  <2>5. ASSUME RingInv PROVE RingInv'
    <3>1. head < tail
      BY <2>1, <2>5 DEF RingInv, ReadSomething
    <3>2. UnreadIntact' /\ UnreadBefore(tail_seq)'
      BY <2>1, <2>4, <2>5, <1>a, ShrinkUnread DEF RingInv, UnreadBefore
    <3> QED
      BY <2>1, <2>3, <2>5, <3>1, <3>2, <1>a, SizeAssumption DEF RingInv
  <2>6. ASSUME NEW p \in Poppers, Lent(p) PROVE Lent(p)'
    <3>1. pc'[p] = pc[p]
      BY <2>1, <1>a
    <3>2. Whole(tail) => Whole(tail)'
      BY <2>1, <2>4 DEF Whole, UnreadBefore, Slot
    <3>3. last_tail - head < Entries => last_tail' - head' < Entries
      BY <2>1, <1>a, SizeAssumption
    <3> QED
      BY <2>1, <2>4, <2>6, <3>1, <3>2, <3>3 DEF Lent, Slot
  <2> QED
    BY <2>1, <2>3, <2>5, <2>6 DEF LentInv
<1>5. ASSUME NEW t \in Telems, LastLock(t) PROVE LentInv'
  <2>1. /\ UNCHANGED <<indices, header, body, delivered>>
        /\ read_mutex = NoThread /\ read_mutex' = t
        /\ pc' = [pc EXCEPT ![t] = IF Minus(tail, head) = 0 THEN "last_empty"
                                                            ELSE "last_read"]
    BY <1>5 DEF LastLock
  <2>2. \A u \in Telems : pc[u] \notin {"last_empty", "last_read"}
    BY <2>1 DEF LentInv, ReadHeld
  <2>3. ReadHeld'
    BY <2>1, <2>2, <1>a DEF ReadHeld
  <2>4. ASSUME RingInv PROVE ReadSomething'
    BY <2>1, <2>2, <2>4, <1>a DEF RingInv, ReadSomething, Minus, indices
  <2>5. \A p \in Poppers : pc'[p] = pc[p]
    BY <2>1, <1>a
  <2> QED
    BY <2>1, <2>3, <2>4, <2>5, LentKept DEF LentInv, indices
<1>6. ASSUME UNCHANGED <<indices, header, body, delivered>>, ReadHeld',
             \A t \in Telems : pc'[t] = "last_read" => pc[t] = "last_read",
             \A p \in Poppers : pc'[p] = pc[p]
      PROVE  LentInv'
  <2>1. RingInv => ReadSomething'
    BY <1>6 DEF RingInv, ReadSomething, indices
  <2> QED
    BY <1>6, <2>1, LentKept DEF LentInv, indices
<1>7. ASSUME NEW t \in Telems,
             LastWait(t) \/ LastTimeout(t) \/ LastTimeoutReturn(t)
      PROVE  LentInv'
  <2>1. ReadHeld'
    BY <1>7, <1>a DEF LastWait, LastTimeout, LastTimeoutReturn, Goto, LentInv,
      ReadHeld, sync
  <2> QED
    BY <1>6, <1>7, <2>1, <1>a DEF LastWait, LastTimeout, LastTimeoutReturn,
      Goto
<1>8. ASSUME NEW g \in Getters,
             GetWait(g) \/ GetTimeout(g) \/ GetTimeoutReturn(g)
      PROVE  LentInv'
  <2>1. ReadHeld'
    BY <1>8, <1>a DEF GetWait, GetTimeout, GetTimeoutReturn, Goto, LentInv,
      ReadHeld, sync
  <2> QED
    BY <1>6, <1>8, <2>1, <1>a DEF GetWait, GetTimeout, GetTimeoutReturn, Goto
<1>9. ASSUME NEW c \in Consumers, Release(c) \/ SpuriousWakeup(c)
      PROVE  LentInv'
  <2>1. ReadHeld'
    BY <1>9, <1>a DEF Release, SpuriousWakeup, LentInv, ReadHeld, sync
  <2> QED
    BY <1>6, <1>9, <2>1, <1>a DEF Release, SpuriousWakeup
<1>10. CASE UNCHANGED vars
  <2>1. ReadHeld'
    BY <1>10 DEF vars, sync, LentInv, ReadHeld
  <2> QED
    BY <1>6, <1>10, <2>1 DEF vars
<1> QED
  BY <1>1, <1>2, <1>3, <1>4, <1>5, <1>7, <1>8, <1>9, <1>10
  DEF Next, Get, GetLast

\* For a publisher that borrows slots of a ring of at least two: as long as
\* queue_get has handed out nothing, queue_pop lends no slot that is still to be
\* read.  (In a ring of one slot queue_pop moves head past tail.)
THEOREM PopLentSlotIsFree ==
  ASSUME Putters = {}, Entries > 1
  PROVE  Spec => []LentSlotIsFree
<1>1. TypeOK /\ TypeOK' /\ WakeInv /\ PushMatchesPop /\ LentInv /\ [Next]_vars
        => LentInv'
  BY StepLent
<1>2. TypeOK /\ LentInv => LentSlotIsFree
  <2> SUFFICES ASSUME TypeOK, RingInv PROVE WindowInRing /\ UnreadIntact
    BY DEF LentInv, LentSlotIsFree
  <2>1. tail - head < Entries /\ head \in Nat /\ tail \in Nat
    BY DEF RingInv, TypeOK
  <2> QED
    BY <2>1, SizeAssumption DEF RingInv, WindowInRing
<1> QED
  BY <1>1, <1>2, InitLent, WakeAlways, PopPushMatches, PTL DEF Spec
=============================================================================
