----------------------------- MODULE FirstQueue -----------------------------
(***************************************************************************)
(* The first version of the queue, first_test/queue.c: a ring of bytes in  *)
(* which messages of different lengths follow one another, each behind a   *)
(* header, with one mutex and two condition variables.  Producers wait on  *)
(* `writeable' for room.  Consumers wait on `readable' for a message, and  *)
(* on `writeable' while the next message is longer than they can take.     *)
(*                                                                         *)
(* Everything happens with the mutex held, so that a step is what a thread *)
(* does from getting the mutex to giving it up, in cond_wait or at the end *)
(* of its call.  The condition variables are those of FutexCond, on which  *)
(* nothing is ever broadcast: a signal wakes any one waiter, and a waiter  *)
(* may wake for no reason.  Lengths count cells of the buffer.             *)
(***************************************************************************)
EXTENDS Integers, FiniteSets, Sequences

CONSTANTS
  Producers, Consumers,
  Size,        \* cells of the buffer
  Header,      \* cells of a header
  Workloads,   \* [lengths, maxes]: of the messages, and that consumers take
  MaxPuts,     \* bound: messages put
  NoMessage    \* nothing, or bytes that are not one message

ASSUME FirstAssumption ==
  /\ IsFiniteSet(Producers \cup Consumers)
  /\ Size \in Nat \ {0} /\ Header \in Nat \ {0} /\ MaxPuts \in Nat
  /\ Producers \cap Consumers = {}
  /\ \A w \in Workloads : /\ \A l \in w.lengths : l \in Nat /\ l + Header <= Size
                          /\ w.maxes \subseteq Nat

VARIABLES
  head, tail, head_seq, tail_seq,   \* shared_t
  buffer,    \* cell -> [seq, len, part]: part of which message it holds
  pc,        \* thread -> where it is: "put" and "get" retry a wait's condition
  arg,       \* thread -> the size or max of its call
  skipped,   \* consumer -> the message too long for it
  got,       \* consumer -> the message it got last
  workload,  \* which lengths are in use
  log        \* history: lengths of all messages put

Threads == Producers \cup Consumers
indices == <<head, tail, head_seq, tail_seq>>
vars    == <<indices, buffer, pc, arg, skipped, got, workload, log>>

Init ==
  /\ head = 0 /\ tail = 0 /\ head_seq = 0 /\ tail_seq = 0
  /\ buffer = [i \in 0..(Size - 1) |-> NoMessage]
  /\ pc = [t \in Threads |-> "idle"]
  /\ arg = [t \in Threads |-> 0]
  /\ skipped = [c \in Consumers |-> 0]
  /\ got = [c \in Consumers |-> NoMessage]
  /\ workload \in Workloads
  /\ log = <<>>

\* The buffer is mapped twice in a row.
Cell(i) == i % Size

WaitsOn(cv) == {t \in Threads : pc[t] = cv}

\* Where a thread that waited on cv goes on: the loop around the wait.
Woken(t, cv) == IF t \in Producers THEN "put" ELSE IF cv = "readable" THEN "get" ELSE "recheck"

SignalReadable(t, cv) ==
  IF WaitsOn("readable") = {} THEN pc' = [pc EXCEPT ![t] = "idle"]
  ELSE \E s \in WaitsOn("readable") : pc' = [pc EXCEPT ![t] = "idle", ![s] = Woken(s, cv)]

\* t ends its call with a signal of cv.
SignalAndReturn(t, cv) ==
  IF WaitsOn(cv) = {} THEN pc' = [pc EXCEPT ![t] = "idle"]
  ELSE \E s \in WaitsOn(cv) : pc' = [pc EXCEPT ![t] = "idle", ![s] = Woken(s, cv)]

Wait(t, cv) == pc' = [pc EXCEPT ![t] = cv]

-----------------------------------------------------------------------------
(* queue_put.                                                              *)

CallPut(t) ==
  /\ t \in Producers /\ pc[t] = "idle" /\ tail_seq < MaxPuts
  /\ pc' = [pc EXCEPT ![t] = "put"]
  /\ \E len \in workload.lengths : arg' = [arg EXCEPT ![t] = len]
  /\ UNCHANGED <<indices, buffer, skipped, got, workload, log>>

RoomForBody(len) == Size - (tail - head) >= len

Room(len) == Size - (tail - head) >= len + Header

PutWaits(t) ==
  /\ pc[t] = "put" /\ ~Room(arg[t])
  /\ Wait(t, "writeable")
  /\ UNCHANGED <<indices, buffer, arg, skipped, got, workload, log>>

\* Where the parts of a message written at tail go.
Written(i, len) == (i - tail) % Size < len + Header

Put(t) ==
  LET len == arg[t]
  IN /\ pc[t] = "put" /\ Room(len)
     /\ buffer' = [i \in DOMAIN buffer |->
                     IF Written(i, len)
                     THEN [seq |-> tail_seq, len |-> len, part |-> (i - tail) % Size]
                     ELSE buffer[i]]
     /\ tail_seq' = tail_seq + 1
     /\ tail' = tail + len + Header
     /\ log' = Append(log, len)
     /\ SignalAndReturn(t, "readable")
     /\ UNCHANGED <<head, head_seq, arg, skipped, got, workload>>

-----------------------------------------------------------------------------
(* queue_get.                                                              *)

CallGet(t) ==
  /\ t \in Consumers /\ pc[t] = "idle"
  /\ pc' = [pc EXCEPT ![t] = "get"]
  /\ \E max \in workload.maxes : arg' = [arg EXCEPT ![t] = max]
  /\ UNCHANGED <<indices, buffer, skipped, got, workload, log>>

First == buffer[Cell(head)]

\* At the top of the loop: on entry, after a wait for any message, or once the
\* message that was too long has gone.
Looks(t) == pc[t] = "get" \/ (pc[t] = "recheck" /\ head_seq # skipped[t])

GetWaits(t) ==
  /\ Looks(t) /\ tail - head = 0
  /\ Wait(t, "readable")
  /\ UNCHANGED <<indices, buffer, arg, skipped, got, workload, log>>

\* Too long: wait for somebody else to take it.
TooLong(t) ==
  /\ Looks(t) /\ tail - head # 0 /\ First.len > arg[t] /\ head_seq = First.seq
  /\ skipped' = [skipped EXCEPT ![t] = First.seq]
  /\ Wait(t, "writeable")
  /\ UNCHANGED <<indices, buffer, arg, got, workload, log>>

StillThere(t) ==
  /\ pc[t] = "recheck" /\ head_seq = skipped[t]
  /\ Wait(t, "writeable")
  /\ UNCHANGED <<indices, buffer, arg, skipped, got, workload, log>>

\* What the bytes from head on are, when they are one message.
Taken ==
  LET m == First
  IN IF \A k \in 0..(m.len + Header - 1) :
          buffer[Cell(head + k)] = [seq |-> m.seq, len |-> m.len, part |-> k]
     THEN [seq |-> m.seq, len |-> m.len] ELSE NoMessage

BackLate(next) == IF next > Size THEN Size ELSE 0

\* Both indices go back once head is in the second mapping.
Back(next) == IF next >= Size THEN Size ELSE 0

Get(t) ==
  /\ Looks(t) /\ tail - head # 0 /\ First.len <= arg[t]
  /\ got' = [got EXCEPT ![t] = Taken]
  /\ LET next == head + First.len + Header
     IN head' = next - Back(next) /\ tail' = tail - Back(next)
  /\ head_seq' = head_seq + 1
  /\ SignalAndReturn(t, "writeable")
  /\ UNCHANGED <<tail_seq, buffer, arg, skipped, workload, log>>

-----------------------------------------------------------------------------
SpuriousWakeup(t) ==
  /\ pc[t] \in {"readable", "writeable"}
  /\ pc' = [pc EXCEPT ![t] = Woken(t, pc[t])]
  /\ UNCHANGED <<indices, buffer, arg, skipped, got, workload, log>>

Step(t) ==
  PutWaits(t) \/ Put(t) \/ GetWaits(t) \/ TooLong(t) \/ StillThere(t) \/ Get(t)

Next == \E t \in Threads : Step(t) \/ CallPut(t) \/ CallGet(t) \/ SpuriousWakeup(t)

Spec == Init /\ [][Next]_vars

-----------------------------------------------------------------------------
(* Properties.                                                             *)

\* The types of the variables.  A message starts in the first mapping and ends
\* in the second at the latest.
TypeOK ==
  /\ head \in 0..(Size - 1) /\ tail \in head..(head + Size)
  /\ head_seq \in Nat /\ tail_seq \in 0..(MaxPuts + Cardinality(Producers))
  /\ pc \in [Threads -> {"idle", "put", "get", "recheck", "readable", "writeable"}]
  /\ arg \in [Threads -> Nat] /\ skipped \in [Consumers -> Nat]

Asleep(t) == pc[t] \in {"readable", "writeable"}
Quiet     == \A t \in Threads : pc[t] = "idle" \/ Asleep(t)

Empty == tail = head

EveryoneTakesAll == \A len \in workload.lengths, max \in workload.maxes : len <= max

\* One signal for each message put or taken is enough when every consumer can
\* take every message: with nobody running, a consumer sleeps only over an
\* empty buffer and, if all messages are as long, a producer only over a full
\* one.
NobodySleepsOver ==
  Quiet /\ EveryoneTakesAll => \A t \in Threads : Asleep(t) =>
    IF t \in Consumers THEN Empty
    ELSE Cardinality(workload.lengths) = 1 => ~Room(arg[t])

\* queue.h: queue_put "Blocks until sufficient space is available in the
\* queue", queue_get "Blocks until a message of no more than *max* bytes is
\* available".
BlocksOnlyAsDocumented ==
  Quiet => \A t \in Threads : Asleep(t) =>
    IF t \in Producers THEN ~Room(arg[t]) ELSE Empty \/ First.len > arg[t]

\* The bytes in the ring are the messages in the order they were put, each is
\* delivered once and whole, and one that is not taken is not overwritten.
Fifo == INSTANCE BoundedFifo WITH
  Lengths <- UNION {w.lengths : w \in Workloads},
  queue <- [i \in 1..(tail_seq - head_seq) |-> [seq |-> head_seq + i - 1, len |-> log[head_seq + i]]],
  used <- tail - head, put <- tail_seq

ImplementsFifo == Fifo!Spec
=============================================================================
