--------------------------- MODULE TelemetryQueue ---------------------------
(***************************************************************************)
(* The shared-memory telemetry queue of queue.c, with the default build    *)
(* (POSIXMUTEX).  A ring of Entries slots is filled by publishers and read *)
(* by two kinds of consumer:                                               *)
(*                                                                         *)
(*   queue_put              one call copies a message into the ring;       *)
(*   queue_pop/queue_push   the publisher borrows a slot, fills it without *)
(*                          any lock, and publishes it;                    *)
(*   queue_get              the real-time consumer: the newest message, or *)
(*                          nothing if more than one has gone by;          *)
(*   queue_get_last         the telemetry consumer: every message between  *)
(*                          head and tail, oldest first.                   *)
(*                                                                         *)
(* write_mutex guards tail, tail_seq, last_tail, last_tail_seq; read_mutex *)
(* guards head.  queue_get_last reads tail while it holds only read_mutex, *)
(* and signals of write_cond are not always sent under read_mutex.  A step *)
(* of the model is a stretch of code that no other thread can observe in   *)
(* the middle.                                                             *)
(***************************************************************************)
EXTENDS Integers, FiniteSets

CONSTANTS
  Putters,      \* publisher threads that call queue_put
  Poppers,      \* publisher threads that call queue_pop, then queue_push
  Getters,      \* consumer threads that call queue_get
  Telems,       \* consumer threads that call queue_get_last
  NoThread,     \* the owner of a free mutex
  Entries,      \* slots of the ring: a power of two, made so by queue_init
  SizeMod,      \* one more than the largest size_t
  MaxMsgs,      \* bound: messages published in a run
  MaxHead       \* bound: no queue_get_last starts once head has passed it

Publishers == Putters \cup Poppers
Consumers  == Getters \cup Telems
Threads    == Publishers \cup Consumers

ASSUME ThreadAssumption ==
  /\ Putters \cap Poppers = {} /\ Getters \cap Telems = {}
  /\ Publishers \cap Consumers = {}
  /\ NoThread \notin Threads

\* A publisher that borrows slots is the only publisher, as in test.c.
ASSUME PopperAssumption == \A p \in Poppers : Publishers = {p}

ASSUME SizeAssumption ==
  /\ Entries \in Nat \ {0} /\ SizeMod \in Nat
  /\ MaxMsgs \in Nat /\ MaxHead \in Nat
  /\ Entries < SizeMod

VARIABLES
  head, tail, head_seq, tail_seq, last_tail, last_tail_seq,  \* shared_t
  header,       \* slot -> the message_t at its start
  body,         \* slot -> its payload, named by the number of the message
  write_mutex, read_mutex,  \* the thread that holds it, or NoThread
  read_cond, write_cond,    \* threads waiting and not yet signalled
  pc,           \* thread -> where it is in its call
  ptr,          \* thread -> slot its *buffer points to
  m,            \* thread -> its local message_t
  delivered     \* history: sequence numbers queue_get has returned

indices == <<head, tail, head_seq, tail_seq, last_tail, last_tail_seq>>
sync    == <<write_mutex, read_mutex, read_cond, write_cond>>
locals  == <<ptr, m>>
vars    == <<indices, header, body, sync, pc, locals, delivered>>

-----------------------------------------------------------------------------
\* size_t subtraction: wraps around below zero.
Minus(a, b) == IF a >= b THEN a - b ELSE SizeMod - (b - a)

\* The slot of an index: index & entry_mask.
SlotMaskOffByOne(i) == i % (Entries - 1)
Slot(i) == i % Entries

Slots  == 0 .. Entries - 1
Header == [len : {0, 1}, seq : Nat, miss : {0, 1}]

\* A fresh shared-memory segment reads as zero; len 1 stands for the size
\* every publisher passes, so len = 0 marks a slot never published.
ZeroHeader == [len |-> 0, seq |-> 0, miss |-> 0]
HeaderPreIncrement == [len |-> 1, seq |-> tail_seq + 1, miss |-> 0]
NewHeader  == [len |-> 1, seq |-> tail_seq, miss |-> 0]

\* The newest message has not been taken by queue_get.
Behind == last_tail_seq < tail_seq

\* pthread_cond_signal: one waiter, any of them, is released.
SignalNobody(cond) == {cond}
SignalOne(cond) == IF cond = {} THEN {cond} ELSE {cond \ {t} : t \in cond}

Goto(t, from, to) == pc[t] = from /\ pc' = [pc EXCEPT ![t] = to]

Init ==
  /\ head = 0 /\ tail = 0 /\ head_seq = 0 /\ tail_seq = 0
  /\ last_tail = 0 /\ last_tail_seq = 0
  /\ header = [s \in Slots |-> ZeroHeader]
  /\ body = [s \in Slots |-> 0]
  /\ write_mutex = NoThread /\ read_mutex = NoThread
  /\ read_cond = {} /\ write_cond = {}
  /\ pc = [t \in Threads |-> "idle"]
  /\ ptr = [t \in Threads |-> 0]
  /\ m = [t \in Threads |-> ZeroHeader]
  /\ delivered = {}

-----------------------------------------------------------------------------
(* Steps that queue_put, queue_pop and queue_push share.                   *)

Flagged(h) == [h EXCEPT !.miss = 1]

\* The newest message was not taken in time: flag it and move past it.
PassMissedUnflagged ==
  /\ tail' = IF Behind THEN tail + 1 ELSE tail
  /\ UNCHANGED header
PassMissed ==
  IF Behind
  THEN /\ header' = [header EXCEPT ![Slot(tail)] = Flagged(header[Slot(tail)])]
       /\ tail' = tail + 1
  ELSE UNCHANGED <<header, tail>>

\* The ring holds as many messages up to index i as there are slots.
FullOneLate(i) == Minus(i, head) > Entries
Full(i) == Minus(i, head) >= Entries

\* Drop the oldest unread message if the ring is full up to index i.
MakeRoom(i) ==
  IF Full(i)
  THEN head' = head + 1 /\ head_seq' = head_seq + 1
  ELSE UNCHANGED <<head, head_seq>>

TakeWrite(t) == write_mutex = NoThread /\ write_mutex' = t

-----------------------------------------------------------------------------
(* queue_put                                                               *)

PutLock(p) ==
  /\ tail_seq < MaxMsgs
  /\ Goto(p, "idle", "put_room")
  /\ TakeWrite(p)
  /\ PassMissed
  /\ UNCHANGED <<head, head_seq, tail_seq, last_tail, last_tail_seq, body,
                 read_mutex, read_cond, write_cond, locals, delivered>>

\* read_mutex is taken and released within the step.
PutRoom(p) ==
  /\ Goto(p, "put_room", "put_header")
  /\ read_mutex = NoThread
  /\ write_cond' \in SignalOne(write_cond)
  /\ MakeRoom(tail)
  /\ UNCHANGED <<tail, tail_seq, last_tail, last_tail_seq, header, body,
                 write_mutex, read_mutex, read_cond, locals, delivered>>

PutHeader(p) ==
  /\ Goto(p, "put_header", "put_body")
  /\ m' = [m EXCEPT ![p] = NewHeader]
  /\ header' = [header EXCEPT ![Slot(tail)] = NewHeader]
  /\ tail_seq' = tail_seq + 1
  /\ UNCHANGED <<head, tail, head_seq, last_tail, last_tail_seq, body, sync,
                 ptr, delivered>>

PutBody(p) ==
  /\ Goto(p, "put_body", "idle")
  /\ body' = [body EXCEPT ![Slot(tail)] = m[p].seq]
  /\ read_cond' \in SignalOne(read_cond)
  /\ write_mutex' = NoThread
  /\ UNCHANGED <<indices, header, read_mutex, write_cond, locals, delivered>>

-----------------------------------------------------------------------------
(* queue_pop, the publisher's own writing, queue_push                      *)

\* Where the next push will go: behind the newest message, unless it has been
\* taken, which leaves the index as the last push set it.
WriteIndex == IF Behind THEN tail + 1 ELSE last_tail

PopLock(p) ==
  /\ tail_seq < MaxMsgs
  /\ Goto(p, "idle", "pop_room")
  /\ TakeWrite(p)
  /\ last_tail' = WriteIndex
  /\ UNCHANGED <<head, tail, head_seq, tail_seq, last_tail_seq, header, body,
                 read_mutex, read_cond, write_cond, locals, delivered>>

BorrowedAtTail == Slot(tail)
Borrowed == Slot(last_tail)

PopRoom(p) ==
  /\ Goto(p, "pop_room", "fill")
  /\ read_mutex = NoThread
  /\ MakeRoom(last_tail)
  /\ ptr' = [ptr EXCEPT ![p] = Borrowed]
  /\ write_mutex' = NoThread
  /\ UNCHANGED <<tail, tail_seq, last_tail, last_tail_seq, header, body,
                 read_mutex, read_cond, write_cond, m, delivered>>

\* publisher_loop copies its running count, which numbers the message it is
\* about to push, into the borrowed slot.  No lock is held.
Fill(p) ==
  /\ Goto(p, "fill", "filled")
  /\ body' = [body EXCEPT ![ptr[p]] = tail_seq]
  /\ UNCHANGED <<indices, header, sync, locals, delivered>>

PushLock(p) ==
  /\ Goto(p, "filled", "push_write")
  /\ TakeWrite(p)
  /\ PassMissed
  /\ UNCHANGED <<head, head_seq, tail_seq, last_tail, last_tail_seq, body,
                 read_mutex, read_cond, write_cond, locals, delivered>>

\* Where the push after this one will go unless the index is set anew.
IndexAfterPushStays == last_tail
IndexAfterPush == tail

\* write_cond is signalled without read_mutex.
PushWrite(p) ==
  /\ Goto(p, "push_write", "idle")
  /\ write_cond' \in SignalOne(write_cond)
  /\ m' = [m EXCEPT ![p] = NewHeader]
  /\ header' = [header EXCEPT ![Slot(last_tail)] = NewHeader]
  /\ tail_seq' = tail_seq + 1
  /\ last_tail' = IndexAfterPush
  /\ read_cond' \in SignalOne(read_cond)
  /\ write_mutex' = NoThread
  /\ UNCHANGED <<head, tail, head_seq, last_tail_seq, body, read_mutex, ptr,
                 delivered>>

-----------------------------------------------------------------------------
(* queue_get.  All it reads is guarded by write_mutex, so each pass through *)
(* its loop, from taking the mutex to waiting or returning, is one step.   *)

\* At the loop's condition: called just now, or released from the wait.
GetChecks(g) ==
  /\ write_mutex = NoThread
  /\ pc[g] = "idle" \/ (pc[g] = "get_wait" /\ g \notin read_cond)

GetWait(g) ==
  /\ GetChecks(g)
  /\ last_tail_seq = tail_seq
  /\ pc' = [pc EXCEPT ![g] = "get_wait"]
  /\ read_cond' = read_cond \cup {g}
  /\ UNCHANGED <<indices, header, body, write_mutex, read_mutex, write_cond,
                 locals, delivered>>

\* More than one message since the last call: skip them and return 0.
GetMissed(g) ==
  /\ GetChecks(g)
  /\ last_tail_seq # tail_seq
  /\ tail_seq # last_tail_seq + 1
  /\ pc' = [pc EXCEPT ![g] = "idle"]
  /\ last_tail_seq' = tail_seq
  /\ UNCHANGED <<head, tail, head_seq, tail_seq, last_tail, header, body,
                 sync, locals, delivered>>

GetTake(g) ==
  /\ GetChecks(g)
  /\ tail_seq = last_tail_seq + 1
  /\ pc' = [pc EXCEPT ![g] = "get_use"]
  /\ m' = [m EXCEPT ![g] = header[Slot(tail)]]
  /\ ptr' = [ptr EXCEPT ![g] = Slot(tail)]
  /\ last_tail_seq' = tail_seq
  /\ tail' = tail + 1
  /\ delivered' = delivered \cup {header[Slot(tail)].seq}
  /\ UNCHANGED <<head, head_seq, tail_seq, last_tail, header, body, sync>>

GetTimeout(g) ==
  /\ g \in read_cond
  /\ Goto(g, "get_wait", "get_timeout")
  /\ read_cond' = read_cond \ {g}
  /\ UNCHANGED <<indices, header, body, write_mutex, read_mutex, write_cond,
                 locals, delivered>>

\* ETIMEDOUT is returned with the mutex held again; 0 without a new look.
GetTimeoutKeepsMutex(g) ==
  /\ write_mutex = NoThread
  /\ Goto(g, "get_timeout", "idle")
  /\ write_mutex' = g
  /\ UNCHANGED <<indices, header, body, read_mutex, read_cond, write_cond,
                 locals, delivered>>
GetTimeoutReturn(g) ==
  /\ write_mutex = NoThread
  /\ Goto(g, "get_timeout", "idle")
  /\ UNCHANGED <<indices, header, body, sync, locals, delivered>>

-----------------------------------------------------------------------------
(* queue_get_last.  tail may move between its test and its wait.           *)

LastLock(t) ==
  /\ read_mutex = NoThread
  /\ \/ pc[t] = "idle" /\ head <= MaxHead
     \/ pc[t] = "last_wait" /\ t \notin write_cond
  /\ pc' = [pc EXCEPT ![t] = IF Minus(tail, head) = 0 THEN "last_empty"
                                                      ELSE "last_read"]
  /\ read_mutex' = t
  /\ UNCHANGED <<indices, header, body, write_mutex, read_cond, write_cond,
                 locals, delivered>>

LastWaitWrongCond(t) ==
  /\ Goto(t, "last_empty", "last_wait")
  /\ read_cond' = read_cond \cup {t}
  /\ read_mutex' = NoThread
  /\ UNCHANGED <<indices, header, body, write_mutex, write_cond, locals,
                 delivered>>
LastWait(t) ==
  /\ Goto(t, "last_empty", "last_wait")
  /\ write_cond' = write_cond \cup {t}
  /\ read_mutex' = NoThread
  /\ UNCHANGED <<indices, header, body, write_mutex, read_cond, locals,
                 delivered>>

LastTake(t) ==
  /\ Goto(t, "last_read", "last_use")
  /\ m' = [m EXCEPT ![t] = header[Slot(head)]]
  /\ ptr' = [ptr EXCEPT ![t] = Slot(head)]
  /\ head' = head + 1
  /\ head_seq' = head_seq + 1
  /\ read_mutex' = NoThread
  /\ UNCHANGED <<tail, tail_seq, last_tail, last_tail_seq, header, body,
                 write_mutex, read_cond, write_cond, delivered>>

LastTimeout(t) ==
  /\ t \in write_cond
  /\ Goto(t, "last_wait", "last_timeout")
  /\ write_cond' = write_cond \ {t}
  /\ UNCHANGED <<indices, header, body, write_mutex, read_mutex, read_cond,
                 locals, delivered>>

LastTimeoutKeepsMutex(t) ==
  /\ read_mutex = NoThread
  /\ Goto(t, "last_timeout", "idle")
  /\ read_mutex' = t
  /\ UNCHANGED <<indices, header, body, write_mutex, read_cond, write_cond,
                 locals, delivered>>
LastTimeoutReturn(t) ==
  /\ read_mutex = NoThread
  /\ Goto(t, "last_timeout", "idle")
  /\ UNCHANGED <<indices, header, body, sync, locals, delivered>>

-----------------------------------------------------------------------------
\* A consumer is done with the buffer it was given, and may call again.
Release(c) ==
  /\ pc[c] \in {"get_use", "last_use"}
  /\ pc' = [pc EXCEPT ![c] = "idle"]
  /\ UNCHANGED <<indices, header, body, sync, locals, delivered>>

\* POSIX lets a condition wait return with no signal.
SpuriousWakeup(c) ==
  /\ c \in read_cond \cup write_cond
  /\ read_cond' = read_cond \ {c}
  /\ write_cond' = write_cond \ {c}
  /\ UNCHANGED <<indices, header, body, write_mutex, read_mutex, pc, locals,
                 delivered>>

Put(p)     == PutLock(p) \/ PutRoom(p) \/ PutHeader(p) \/ PutBody(p)
PopPush(p) == PopLock(p) \/ PopRoom(p) \/ Fill(p) \/ PushLock(p) \/ PushWrite(p)
Get(g)     == \/ GetWait(g) \/ GetMissed(g) \/ GetTake(g)
              \/ GetTimeout(g) \/ GetTimeoutReturn(g)
GetLast(t) == \/ LastLock(t) \/ LastWait(t) \/ LastTake(t)
              \/ LastTimeout(t) \/ LastTimeoutReturn(t)

Next ==
  \/ \E p \in Putters : Put(p)
  \/ \E p \in Poppers : PopPush(p)
  \/ \E g \in Getters : Get(g)
  \/ \E t \in Telems : GetLast(t)
  \/ \E c \in Consumers : Release(c) \/ SpuriousWakeup(c)

Spec == Init /\ [][Next]_vars

\* Every call in progress goes on: a thread that wants a mutex others release
\* over and over gets it in the end (hence strong fairness), and the deadline,
\* which a call fixes once before it takes its mutex, ends its waits however
\* often they are interrupted.  Calling is up to the client: no call must begin.
Fairness ==
  /\ \A p \in Putters : SF_vars(pc[p] # "idle" /\ Put(p))
  /\ \A p \in Poppers : SF_vars(pc[p] # "idle" /\ PopPush(p))
  /\ \A g \in Getters :
       /\ SF_vars(pc[g] # "idle" /\ (Get(g) \/ Release(g)))
       /\ SF_vars(GetTimeout(g))
  /\ \A t \in Telems :
       /\ SF_vars(pc[t] # "idle" /\ (GetLast(t) \/ Release(t)))
       /\ SF_vars(LastTimeout(t))

FairSpec == Spec /\ Fairness

-----------------------------------------------------------------------------
(* Properties.                                                             *)

PutPlaces   == {"put_room", "put_header", "put_body"}
PopPlaces   == {"pop_room", "fill", "filled", "push_write"}
GetPlaces   == {"get_wait", "get_timeout", "get_use"}
LastPlaces  == {"last_empty", "last_read", "last_wait", "last_timeout",
                "last_use"}

\* Every variable of the queue and of the threads keeps its type, and a
\* thread is only where its own calls can take it.
TypeOK ==
  /\ head \in Nat /\ tail \in Nat /\ head_seq \in Nat /\ tail_seq \in Nat
  /\ last_tail \in Nat /\ last_tail_seq \in Nat
  /\ header \in [Slots -> Header]
  /\ body \in [Slots -> Nat]
  /\ write_mutex \in Threads \cup {NoThread}
  /\ read_mutex \in Threads \cup {NoThread}
  /\ read_cond \subseteq Getters
  /\ write_cond \subseteq Telems
  /\ pc \in [Threads -> {"idle"} \cup PutPlaces \cup PopPlaces
                                 \cup GetPlaces \cup LastPlaces]
  /\ \A p \in Putters : pc[p] \in {"idle"} \cup PutPlaces
  /\ \A p \in Poppers : pc[p] \in {"idle"} \cup PopPlaces
  /\ \A g \in Getters : pc[g] \in {"idle"} \cup GetPlaces
  /\ \A t \in Telems : pc[t] \in {"idle"} \cup LastPlaces
  /\ ptr \in [Threads -> Slots]
  /\ m \in [Threads -> Header]
  /\ delivered \subseteq Nat

Unread == head .. tail - 1

\* The unread messages fit the ring: tail - head never wraps below zero and
\* never exceeds entries, although tail moves under write_mutex and head under
\* read_mutex.  (queue_put publishers.)
WindowInRing == head <= tail /\ tail - head <= Entries

\* Every slot queue_get_last may still read holds one complete message, its
\* payload with its own header, and later slots hold later messages: no
\* publisher touches a slot before head has left it.
UnreadIntact ==
  \A i \in Unread :
    /\ header[Slot(i)].len = 1
    /\ body[Slot(i)] = header[Slot(i)].seq
    /\ \A j \in Unread :
         i < j => header[Slot(i)].seq < header[Slot(j)].seq

\* The miss flag the telemetry consumer prints is exact: it is set on the
\* messages queue_get never returned, and on no other.
MissFlagExact ==
  \A i \in Unread :
    header[Slot(i)].miss = 1 <=> header[Slot(i)].seq \notin delivered

\* queue_get returns the newest message published, with its payload in place.
GetsNewest ==
  [][\A g \in Getters :
       pc'[g] = "get_use" /\ pc[g] # "get_use" =>
         /\ m'[g] = [len |-> 1, seq |-> tail_seq - 1, miss |-> 0]
         /\ body[ptr'[g]] = tail_seq - 1]_vars

\* A telemetry thread that calls in a loop is given ever later messages.
TelemInOrder ==
  [][\A t \in Telems :
       pc'[t] = "last_use" /\ pc[t] # "last_use" =>
         /\ m'[t].len = 1
         /\ m[t].len = 1 => m[t].seq < m'[t].seq]_vars

\* The buffer queue_get handed out stays as it was while fewer than Entries
\* further messages are published: that is all the time its user has.
BufferGrace ==
  \A g \in Getters :
    pc[g] = "get_use" /\ tail_seq <= m[g].seq + Entries
      => body[ptr[g]] = m[g].seq

\* No thread sleeps in queue_get while a message waits for it and the queue
\* is at rest, unless another one has been released to take it.
NoSleepOverMessage ==
  write_mutex = NoThread /\ Behind /\ read_cond # {}
    => \E g \in Getters : pc[g] = "get_wait" /\ g \notin read_cond

\* queue_get moves tail without signalling write_cond, and queue_push signals it
\* without read_mutex, so queue_get_last may sleep on although there is a
\* message: but, while the mutexes are free and no thread has been released,
\* never on more than one.
TelemBehindByOne ==
  /\ write_mutex = NoThread /\ read_mutex = NoThread
  /\ \A t \in Telems : pc[t] = "last_wait" => t \in write_cond
  /\ write_cond # {}
  => Minus(tail, head) <= 1

\* The same for queue_push, as long as queue_get has handed out nothing: of the
\* signals it gives without read_mutex, those that are lost leave queue_get_last
\* asleep over one message, until the next one is pushed.
PushBehindByOne == delivered = {} => TelemBehindByOne

\* Every call returns: no path leaves a mutex locked or a wait without end.
CallsReturn == \A t \in Threads : pc[t] # "idle" ~> pc[t] = "idle"

\* With queue_pop and queue_push: the slot a publisher writes is never more
\* than one away from the slot queue_get reads next.
CursorNearTail == tail - 1 <= last_tail /\ last_tail <= tail + 1

\* The payload a publisher fills in and the header queue_push writes go to the
\* same slot, whatever the consumers do in between.
PushMatchesPop ==
  \A p \in Poppers :
    pc[p] \in {"fill", "filled", "push_write"} => ptr[p] = Slot(last_tail)

\* As long as queue_get has handed out nothing, queue_pop never lends a slot
\* that is still to be read.
LentSlotIsFree == delivered = {} => WindowInRing /\ UnreadIntact

-----------------------------------------------------------------------------
(* Why WindowInRing, UnreadIntact and GetsNewest hold for queue_put: the    *)
(* facts below, together, are preserved by every step.                     *)

\* A call that is in the middle of its work holds the mutex it took.
MutexHeld ==
  /\ \A p \in Putters : pc[p] \in PutPlaces => write_mutex = p
  /\ \A t \in Telems : pc[t] \in {"last_empty", "last_read"} => read_mutex = t

\* The message at tail, published or being written, has a slot of its own
\* behind the unread ones; only between PutLock and PutRoom it may lack one.
SlotReserved ==
  /\ last_tail_seq <= tail_seq
  /\ Behind /\ (\A p \in Putters : pc[p] # "put_room") => tail - head < Entries
  /\ \A p \in Putters :
       pc[p] \in {"put_header", "put_body"} => tail - head < Entries

\* queue_get_last found a message, and no publisher can drop it before it is
\* read, because that takes read_mutex.
ReadSomething == \A t \in Telems : pc[t] = "last_read" => head < tail

UnreadBefore(n) == \A i \in Unread : header[Slot(i)].seq < n

\* Where the newest message is, and that it is newer than the unread ones.
NewestInPlace ==
  /\ UnreadBefore(tail_seq)
  /\ Behind /\ (\A p \in Putters : pc[p] \notin PutPlaces) =>
       /\ header[Slot(tail)] = [len |-> 1, seq |-> tail_seq - 1, miss |-> 0]
       /\ body[Slot(tail)] = tail_seq - 1
       /\ UnreadBefore(tail_seq - 1)
  /\ \A p \in Putters : pc[p] = "put_body" =>
       /\ tail_seq > 0 /\ last_tail_seq < tail_seq
       /\ m[p] = [len |-> 1, seq |-> tail_seq - 1, miss |-> 0]
       /\ header[Slot(tail)] = m[p]
       /\ UnreadBefore(tail_seq - 1)

\* (queue_put publishers.)
PutInv ==
  /\ MutexHeld /\ WindowInRing /\ SlotReserved /\ ReadSomething
  /\ UnreadIntact /\ NewestInPlace

-----------------------------------------------------------------------------
(* What the queue does for publishers that call queue_put, seen as a log.  A *)
(* message is published when PutBody has written it; entries are read from  *)
(* the ring itself, the flag from the header and the rest from the payload. *)

PutInProgress == \E p \in Putters : pc[p] \in PutPlaces
PutHalfWritten == \E p \in Putters : pc[p] = "put_body"

Entry(i) == [seq |-> body[Slot(i)], miss |-> header[Slot(i)].miss]
HandedOut(c) == [seq |-> m[c].seq, miss |-> m[c].miss, given |-> m[c].len = 1]

Log == INSTANCE TelemetryLog WITH
  Capacity  <- Entries,
  published <- IF PutHalfWritten THEN tail_seq - 1 ELSE tail_seq,
  fresh     <- Behind /\ ~PutInProgress,
  seen      <- last_tail_seq,
  unread    <- {Entry(i) : i \in Unread},
  got       <- [g \in Getters |-> HandedOut(g)],
  read      <- [t \in Telems |-> HandedOut(t)]

\* Every behaviour of queue_put, queue_get and queue_get_last is one of the
\* log: each step does what one operation of the log does, or nothing.
ImplementsLog == Log!Spec

=============================================================================
