--------------------------- MODULE FirstQueueProofs ---------------------------
(***************************************************************************)
(* The first version of the queue, for any producers and consumers, any    *)
(* size of the buffer and any lengths: it is a bounded FIFO, and nobody    *)
(* sleeps over what they could do.                                         *)
(***************************************************************************)
EXTENDS FirstQueue, FiniteSetTheorems, SequenceTheorems, TLAPS

Places == {"idle", "put", "get", "recheck", "readable", "writeable"}

Putting == {p \in Producers : pc[p] # "idle"}

\* Where each kind of thread can be, and what it calls with.
CallsOK ==
  /\ \A p \in Producers : /\ pc[p] \in {"idle", "put", "writeable"}
                          /\ pc[p] # "idle" => arg[p] \in workload.lengths
  /\ \A c \in Consumers : /\ pc[c] \in Places \ {"put"}
                          /\ pc[c] # "idle" => arg[c] \in workload.maxes

\* All types but those of the indices into the buffer.
ShapeInv ==
  /\ pc \in [Threads -> Places] /\ arg \in [Threads -> Nat]
  /\ skipped \in [Consumers -> Nat] /\ got = [c \in Consumers |-> got[c]]
  /\ buffer = [i \in 0..(Size - 1) |-> buffer[i]]
  /\ workload \in Workloads /\ log \in Seq(workload.lengths) /\ Len(log) = tail_seq
  /\ head_seq \in Nat /\ tail_seq \in Nat
  /\ tail_seq + Cardinality(Putting) <= MaxPuts + Cardinality(Producers)
  /\ CallsOK

\* at tells where each message in the buffer begins; they follow one another
\* from head to tail, each in one piece.
Chain(at) ==
  /\ at \in [head_seq..tail_seq -> head..tail]
  /\ at[head_seq] = head /\ at[tail_seq] = tail
  /\ \A j, k \in head_seq..tail_seq : j < k => at[j] < at[k]
  /\ \A k \in head_seq..(tail_seq - 1) :
       /\ at[k + 1] = at[k] + log[k + 1] + Header
       /\ \A i \in 0..(log[k + 1] + Header - 1) :
            buffer[Cell(at[k] + i)] = [seq |-> k, len |-> log[k + 1], part |-> i]

RingInv ==
  /\ head \in 0..(Size - 1) /\ tail \in head..(head + Size) /\ head_seq <= tail_seq
  /\ \E at : Chain(at)

-----------------------------------------------------------------------------
(* What a step does to the places of the threads.                          *)

LEMMA ThreadsFinite ==
  /\ IsFiniteSet(Producers) /\ IsFiniteSet(Consumers)
  /\ Cardinality(Producers) \in Nat /\ Cardinality(Consumers) \in Nat
<1>1. IsFiniteSet(Producers) /\ IsFiniteSet(Consumers)
  BY FS_Subset, FirstAssumption
<1> QED
  BY <1>1, FS_CardinalityType

\* Lengths and maxima of any workload are sizes that fit the buffer.
LEMMA WorkloadIs ==
  ASSUME workload \in Workloads
  PROVE  /\ \A len \in workload.lengths : len \in Nat /\ len + Header <= Size
         /\ workload.maxes \subseteq Nat
BY FirstAssumption

\* Whoever a signal wakes goes on where a thread of its kind may go on.
LEMMA WokenIs ==
  ASSUME CallsOK, NEW cv \in {"readable", "writeable"}, NEW s \in WaitsOn(cv)
  PROVE  /\ s \in Threads /\ pc[s] = cv
         /\ Woken(s, cv) = IF s \in Producers THEN "put"
                           ELSE IF cv = "readable" THEN "get" ELSE "recheck"
         /\ s \in Producers => cv = "writeable"
BY DEF CallsOK, WaitsOn, Woken, Threads

\* A call ends, and may wake one thread that waits.
Ends(t, cv) ==
  \/ WaitsOn(cv) = {} /\ pc' = [pc EXCEPT ![t] = "idle"]
  \/ \E s \in WaitsOn(cv) : pc' = [[pc EXCEPT ![t] = "idle"] EXCEPT ![s] = Woken(s, cv)]

LEMMA ReturnEnds ==
  ASSUME NEW t, NEW cv, SignalAndReturn(t, cv)
  PROVE  Ends(t, cv)
<1>1. CASE WaitsOn(cv) = {}
  BY <1>1 DEF SignalAndReturn, Ends
<1>2. CASE WaitsOn(cv) # {}
  <2>1. PICK s \in WaitsOn(cv) : pc' = [pc EXCEPT ![t] = "idle", ![s] = Woken(s, cv)]
    BY <1>2 DEF SignalAndReturn
  <2>2. pc' = [[pc EXCEPT ![t] = "idle"] EXCEPT ![s] = Woken(s, cv)]
    BY <2>1
  <2> QED
    BY <2>2 DEF Ends
<1> QED
  BY <1>1, <1>2

\* One thread is at x instead of where it was.
Moves(t, x) == pc' = [pc EXCEPT ![t] = x]

LEMMA MoveKeepsCalls ==
  ASSUME ShapeInv, NEW t \in Threads, NEW x \in Places, Moves(t, x),
         UNCHANGED <<arg, workload>>,
         t \in Producers => x \in {"idle", "put", "writeable"},
         t \in Consumers => x # "put",
         x # "idle" => pc[t] # "idle"
  PROVE  CallsOK' /\ pc' \in [Threads -> Places] /\ Putting' \subseteq Putting
BY DEF ShapeInv, CallsOK, Moves, Threads, Putting

LEMMA EndKeepsCalls ==
  ASSUME ShapeInv, NEW t \in Threads, NEW cv \in {"readable", "writeable"}, Ends(t, cv),
         pc[t] # cv, UNCHANGED <<arg, workload>>
  PROVE  /\ CallsOK' /\ pc' \in [Threads -> Places] /\ pc'[t] = "idle"
         /\ Putting' = Putting \ {t}
<1>a. CallsOK /\ pc \in [Threads -> Places]
  BY DEF ShapeInv
<1>1. CASE WaitsOn(cv) = {} /\ pc' = [pc EXCEPT ![t] = "idle"]
  <2>1. Putting' = Putting \ {t}
    BY <1>1, <1>a DEF Putting, Threads
  <2> QED
    BY <1>1, <1>a, <2>1 DEF CallsOK, Places, Threads
<1>2. ASSUME NEW s \in WaitsOn(cv), pc' = [[pc EXCEPT ![t] = "idle"] EXCEPT ![s] = Woken(s, cv)]
      PROVE  /\ CallsOK' /\ pc' \in [Threads -> Places] /\ pc'[t] = "idle"
             /\ Putting' = Putting \ {t}
  <2>1. /\ s \in Threads /\ pc[s] = cv /\ s # t
        /\ Woken(s, cv) \in Places \ {"idle"}
        /\ s \in Producers => Woken(s, cv) = "put"
        /\ s \notin Producers => Woken(s, cv) # "put"
    BY <1>a, <1>2, WokenIs DEF Places
  <2>2. /\ pc' \in [Threads -> Places] /\ pc'[t] = "idle" /\ pc'[s] = Woken(s, cv)
        /\ \A u \in Threads : u # s /\ u # t => pc'[u] = pc[u]
    BY <1>a, <1>2, <2>1 DEF Places
  <2>3. Putting' = Putting \ {t}
    BY <2>1, <2>2 DEF Putting, Threads
  <2>4. CallsOK'
    <3>1. \A p \in Producers : /\ pc'[p] \in {"idle", "put", "writeable"}
                               /\ pc'[p] # "idle" => arg[p] \in workload.lengths
      BY <1>a, <2>1, <2>2 DEF CallsOK, Threads
    <3>2. \A c \in Consumers : /\ pc'[c] \in Places \ {"put"}
                               /\ pc'[c] # "idle" => arg[c] \in workload.maxes
      BY <1>a, <2>1, <2>2, FirstAssumption DEF CallsOK, Threads
    <3> QED
      BY <3>1, <3>2 DEF CallsOK
  <2> QED
    BY <2>2, <2>3, <2>4
<1> QED
  BY <1>1, <1>2 DEF Ends

LEMMA PuttingFinite ==
  /\ IsFiniteSet(Putting) /\ Cardinality(Putting) \in Nat
  /\ Cardinality(Putting) <= Cardinality(Producers)
<1>1. Putting \subseteq Producers
  BY DEF Putting
<1> QED
  BY <1>1, FS_Subset, FS_CardinalityType, ThreadsFinite

-----------------------------------------------------------------------------
(* The calls keep their shape.                                             *)

LEMMA InitShape == Init => ShapeInv
<1> SUFFICES ASSUME Init PROVE ShapeInv
  OBVIOUS
<1>1. /\ pc = [t \in Threads |-> "idle"] /\ arg = [t \in Threads |-> 0]
      /\ skipped = [c \in Consumers |-> 0] /\ got = [c \in Consumers |-> NoMessage]
      /\ head_seq = 0 /\ tail_seq = 0 /\ workload \in Workloads /\ log = <<>>
      /\ buffer = [i \in 0..(Size - 1) |-> NoMessage]
  BY DEF Init
<1>2. Putting = {}
  BY <1>1 DEF Putting, Threads
<1>3. Cardinality(Putting) = 0
  BY <1>2, FS_EmptySet
<1>4. CallsOK
  BY <1>1 DEF CallsOK, Places, Threads
<1>5. log \in Seq(workload.lengths) /\ Len(log) = tail_seq
  BY <1>1, EmptySeq
<1>6. tail_seq + Cardinality(Putting) <= MaxPuts + Cardinality(Producers)
  BY <1>1, <1>3, ThreadsFinite, FirstAssumption
<1>7. pc \in [Threads -> Places] /\ arg \in [Threads -> Nat] /\ skipped \in [Consumers -> Nat]
  BY <1>1 DEF Places
<1>8. got = [c \in Consumers |-> got[c]] /\ buffer = [i \in 0..(Size - 1) |-> buffer[i]]
  BY <1>1
<1> QED
  BY <1>1, <1>4, <1>5, <1>6, <1>7, <1>8 DEF ShapeInv

\* Nobody puts anything: the number of puts stays within its bound.
LEMMA PutsStillFit ==
  ASSUME ShapeInv, Putting' \subseteq Putting, tail_seq' = tail_seq
  PROVE  (tail_seq + Cardinality(Putting) <= MaxPuts + Cardinality(Producers))'
<1>1. Cardinality(Putting') <= Cardinality(Putting) /\ Cardinality(Putting') \in Nat
  BY PuttingFinite, FS_Subset, FS_CardinalityType
<1> QED
  BY <1>1, PuttingFinite, ThreadsFinite, FirstAssumption DEF ShapeInv

LEMMA WaitShape ==
  ASSUME ShapeInv, NEW t \in Threads, NEW x \in Places, Moves(t, x),
         UNCHANGED <<indices, buffer, arg, got, workload, log>>,
         skipped' \in [Consumers -> Nat],
         t \in Producers => x \in {"idle", "put", "writeable"},
         t \in Consumers => x # "put", x # "idle" => pc[t] # "idle"
  PROVE  ShapeInv'
<1>1. UNCHANGED <<arg, workload, head_seq, tail_seq, got, buffer, log>>
  BY DEF indices
<1>2. CallsOK' /\ pc' \in [Threads -> Places] /\ Putting' \subseteq Putting
  BY <1>1, MoveKeepsCalls
<1>3. (tail_seq + Cardinality(Putting) <= MaxPuts + Cardinality(Producers))'
  BY <1>1, <1>2, PutsStillFit
<1> QED
  BY <1>1, <1>2, <1>3 DEF ShapeInv

LEMMA CallPutShape ==
  ASSUME ShapeInv, NEW t \in Threads, CallPut(t)
  PROVE  ShapeInv'
<1>1. /\ t \in Producers /\ pc[t] = "idle" /\ tail_seq < MaxPuts /\ pc' = [pc EXCEPT ![t] = "put"]
      /\ UNCHANGED <<head_seq, tail_seq, buffer, skipped, got, workload, log>>
  BY DEF CallPut, indices
<1>2. PICK len \in workload.lengths : arg' = [arg EXCEPT ![t] = len]
  BY DEF CallPut
<1>3. len \in Nat
  BY <1>2, WorkloadIs DEF ShapeInv
<1>4. pc' \in [Threads -> Places] /\ arg' \in [Threads -> Nat]
  BY <1>1, <1>2, <1>3 DEF ShapeInv, Places
<1>5. CallsOK'
  <2>1. \A u \in Threads : u # t => pc'[u] = pc[u] /\ arg'[u] = arg[u]
    BY <1>1, <1>2 DEF ShapeInv
  <2>2. pc'[t] = "put" /\ arg'[t] = len
    BY <1>1, <1>2 DEF ShapeInv, Threads
  <2>3. t \notin Consumers
    BY <1>1, FirstAssumption
  <2> QED
    BY <1>1, <2>1, <2>2, <2>3 DEF ShapeInv, CallsOK, Threads
<1>6. Putting' = Putting \cup {t}
  BY <1>1, <1>4 DEF Putting, ShapeInv, Threads
<1>7. (tail_seq + Cardinality(Putting) <= MaxPuts + Cardinality(Producers))'
  <2>1. Cardinality(Putting') <= Cardinality(Producers) /\ Cardinality(Putting') \in Nat
    <3>1. Putting' \subseteq Producers
      BY DEF Putting
    <3> QED
      BY <3>1, FS_Subset, FS_CardinalityType, ThreadsFinite
  <2>2. tail_seq' \in Nat /\ tail_seq' < MaxPuts
    BY <1>1 DEF ShapeInv
  <2> QED
    BY <2>1, <2>2, ThreadsFinite, FirstAssumption
<1> QED
  BY <1>1, <1>4, <1>5, <1>7 DEF ShapeInv

LEMMA CallGetShape ==
  ASSUME ShapeInv, NEW t \in Threads, CallGet(t)
  PROVE  ShapeInv'
<1>1. /\ t \in Consumers /\ pc[t] = "idle" /\ pc' = [pc EXCEPT ![t] = "get"]
      /\ UNCHANGED <<head_seq, tail_seq, buffer, skipped, got, workload, log>>
  BY DEF CallGet, indices
<1>2. PICK max \in workload.maxes : arg' = [arg EXCEPT ![t] = max]
  BY DEF CallGet
<1>3. max \in Nat
  BY <1>2, WorkloadIs DEF ShapeInv
<1>4. pc' \in [Threads -> Places] /\ arg' \in [Threads -> Nat]
  BY <1>1, <1>2, <1>3 DEF ShapeInv, Places
<1>a. t \notin Producers
  BY <1>1, FirstAssumption
<1>5. CallsOK'
  <2>1. \A u \in Threads : u # t => pc'[u] = pc[u] /\ arg'[u] = arg[u]
    BY <1>1, <1>2 DEF ShapeInv
  <2>2. pc'[t] = "get" /\ arg'[t] = max
    BY <1>1, <1>2 DEF ShapeInv, Threads
  <2> QED
    BY <1>1, <1>a, <2>1, <2>2 DEF ShapeInv, CallsOK, Threads, Places
<1>6. Putting' = Putting
  BY <1>1, <1>a, <1>4 DEF Putting, ShapeInv, Threads
<1>7. (tail_seq + Cardinality(Putting) <= MaxPuts + Cardinality(Producers))'
  BY <1>1, <1>6, PutsStillFit
<1> QED
  BY <1>1, <1>4, <1>5, <1>7 DEF ShapeInv

LEMMA PutShape ==
  ASSUME ShapeInv, NEW t \in Threads, Put(t)
  PROVE  ShapeInv' /\ t \in Producers /\ arg[t] \in workload.lengths
<1>1. /\ pc[t] = "put" /\ Ends(t, "readable")
      /\ tail_seq' = tail_seq + 1 /\ log' = Append(log, arg[t])
      /\ buffer' = [i \in DOMAIN buffer |->
                      IF Written(i, arg[t])
                      THEN [seq |-> tail_seq, len |-> arg[t], part |-> (i - tail) % Size]
                      ELSE buffer[i]]
      /\ UNCHANGED <<head_seq, arg, skipped, got, workload>>
  BY ReturnEnds DEF Put
<1>2. t \in Producers /\ arg[t] \in workload.lengths
  BY <1>1 DEF ShapeInv, CallsOK, Threads
<1>3. /\ CallsOK' /\ pc' \in [Threads -> Places] /\ Putting' = Putting \ {t}
  BY <1>1, EndKeepsCalls
<1>4. (tail_seq + Cardinality(Putting) <= MaxPuts + Cardinality(Producers))'
  <2>1. t \in Putting
    BY <1>1, <1>2 DEF Putting
  <2>2. Cardinality(Putting') = Cardinality(Putting) - 1
    BY <1>3, <2>1, PuttingFinite, FS_RemoveElement
  <2> QED
    BY <1>1, <2>2, PuttingFinite, ThreadsFinite, FirstAssumption DEF ShapeInv
<1>5. log' \in Seq(workload'.lengths) /\ Len(log') = tail_seq' /\ tail_seq' \in Nat
  BY <1>1, <1>2 DEF ShapeInv
<1>6. buffer' = [i \in 0..(Size - 1) |-> buffer'[i]]
  BY <1>1 DEF ShapeInv
<1> QED
  BY <1>1, <1>2, <1>3, <1>4, <1>5, <1>6 DEF ShapeInv

LEMMA GetShape ==
  ASSUME ShapeInv, NEW t \in Threads, Get(t)
  PROVE  ShapeInv' /\ t \in Consumers /\ arg[t] \in workload.maxes
<1>1. /\ pc[t] \in {"get", "recheck"} /\ Ends(t, "writeable")
      /\ head_seq' = head_seq + 1 /\ got' = [got EXCEPT ![t] = Taken]
      /\ UNCHANGED <<tail_seq, buffer, arg, skipped, workload, log>>
  BY ReturnEnds DEF Get, Looks
<1>2. t \in Consumers /\ arg[t] \in workload.maxes
  BY <1>1 DEF ShapeInv, CallsOK, Threads
<1>3. /\ CallsOK' /\ pc' \in [Threads -> Places] /\ Putting' \subseteq Putting
  BY <1>1, EndKeepsCalls
<1>4. (tail_seq + Cardinality(Putting) <= MaxPuts + Cardinality(Producers))'
  BY <1>1, <1>3, PutsStillFit
<1>5. got' = [c \in Consumers |-> got'[c]]
  BY <1>1 DEF ShapeInv
<1> QED
  BY <1>1, <1>2, <1>3, <1>4, <1>5 DEF ShapeInv

\* The steps that leave the queue alone: a wait, or the end of one.
Rests(t) == PutWaits(t) \/ GetWaits(t) \/ TooLong(t) \/ StillThere(t) \/ SpuriousWakeup(t)

LEMMA RestShape ==
  ASSUME ShapeInv, NEW t \in Threads, Rests(t),
         TooLong(t) => First.seq \in Nat
  PROVE  ShapeInv' /\ UNCHANGED <<indices, buffer, arg, got, workload, log>>
<1>a. /\ pc \in [Threads -> Places] /\ CallsOK /\ Producers \cap Consumers = {}
      /\ skipped \in [Consumers -> Nat]
  BY FirstAssumption DEF ShapeInv
<1>1. CASE PutWaits(t)
  <2>1. /\ pc[t] = "put" /\ Moves(t, "writeable")
        /\ UNCHANGED <<indices, buffer, arg, skipped, got, workload, log>>
    BY <1>1 DEF PutWaits, Wait, Moves
  <2> QED
    BY <1>a, <2>1, WaitShape DEF Places
<1>2. CASE GetWaits(t) \/ TooLong(t) \/ StillThere(t)
  <2>1. /\ pc[t] \in {"get", "recheck"} /\ (Moves(t, "readable") \/ Moves(t, "writeable"))
        /\ UNCHANGED <<indices, buffer, arg, got, workload, log>>
    BY <1>2 DEF GetWaits, TooLong, StillThere, Looks, Wait, Moves
  <2>2. t \in Consumers /\ t \notin Producers
    BY <1>a, <2>1 DEF CallsOK, Threads
  <2>3. skipped' \in [Consumers -> Nat]
    BY <1>a, <1>2 DEF GetWaits, TooLong, StillThere
  <2> QED
    BY <2>1, <2>2, <2>3, WaitShape DEF Places
<1>3. CASE SpuriousWakeup(t)
  <2>1. /\ pc[t] \in {"readable", "writeable"} /\ Moves(t, Woken(t, pc[t]))
        /\ UNCHANGED <<indices, buffer, arg, skipped, got, workload, log>>
    BY <1>3 DEF SpuriousWakeup, Moves
  <2>2. t \in WaitsOn(pc[t])
    BY DEF WaitsOn
  <2>3. /\ Woken(t, pc[t]) \in Places
        /\ t \in Producers => Woken(t, pc[t]) = "put"
        /\ t \in Consumers => Woken(t, pc[t]) # "put"
    BY <1>a, <2>1, <2>2, WokenIs DEF Places
  <2> QED
    BY <1>a, <2>1, <2>3, WaitShape
<1> QED
  BY <1>1, <1>2, <1>3 DEF Rests

-----------------------------------------------------------------------------
(* Cells of the buffer.                                                    *)

LEMMA CellIs ==
  ASSUME NEW x \in 0..(2 * Size - 1)
  PROVE  Cell(x) = IF x < Size THEN x ELSE x - Size
<1>0. Size \in Nat \ {0}
  BY FirstAssumption
<1>1. CASE x < Size
  BY <1>0, <1>1 DEF Cell
<1>2. CASE x >= Size
  <2>1. x - Size \in 0..(Size - 1)
    BY <1>0, <1>2
  <2>2. x = 1 * Size + (x - Size)
    BY <1>0
  <2> QED
    BY <1>0, <1>2, <2>1, <2>2 DEF Cell
<1> QED
  BY <1>0, <1>1, <1>2

LEMMA RestIs ==
  ASSUME NEW d \in (-2 * Size)..(Size - 1)
  PROVE  d % Size = IF d >= 0 THEN d ELSE IF d + Size >= 0 THEN d + Size ELSE d + 2 * Size
<1>0. Size \in Nat \ {0} /\ d \in Int
  BY FirstAssumption
<1>1. CASE d >= 0
  BY <1>0, <1>1
<1>2. CASE d < 0 /\ d + Size >= 0
  <2>1. d + Size \in 0..(Size - 1) /\ d = (-1) * Size + (d + Size)
    BY <1>0, <1>2
  <2> QED
    BY <1>0, <1>2, <2>1
<1>3. CASE d + Size < 0
  <2>1. d + 2 * Size \in 0..(Size - 1) /\ d = (-2) * Size + (d + 2 * Size)
    BY <1>0, <1>3
  <2> QED
    BY <1>0, <1>3, <2>1
<1> QED
  BY <1>0, <1>1, <1>2, <1>3

\* How far the cell of x is behind that of y, for x and y less than a buffer
\* apart.
LEMMA DistanceIs ==
  ASSUME NEW x \in 0..(2 * Size - 1), NEW y \in 0..(2 * Size - 1),
         x - y \in (-Size)..(Size - 1)
  PROVE  (Cell(x) - y) % Size = IF x >= y THEN x - y ELSE x - y + Size
<1>0. Size \in Nat \ {0}
  BY FirstAssumption
<1>1. Cell(x) - y = IF x < Size THEN x - y ELSE x - y - Size
  BY <1>0, CellIs
<1>2. Cell(x) - y \in (-2 * Size)..(Size - 1)
  BY <1>0, <1>1
<1> DEFINE d == Cell(x) - y
<1>3. d % Size = IF d >= 0 THEN d ELSE IF d + Size >= 0 THEN d + Size ELSE d + 2 * Size
  BY <1>2, RestIs
<1> HIDE DEF d
<1>4. d = IF x < Size THEN x - y ELSE x - y - Size
  BY <1>1 DEF d
<1>5. d % Size = IF x >= y THEN x - y ELSE x - y + Size
  BY <1>0, <1>3, <1>4
<1> QED
  BY <1>5 DEF d

-----------------------------------------------------------------------------
(* The chain of messages.                                                  *)

LEMMA InitRing == Init => RingInv
<1> SUFFICES ASSUME Init PROVE RingInv
  OBVIOUS
<1>1. head = 0 /\ tail = 0 /\ head_seq = 0 /\ tail_seq = 0
  BY DEF Init
<1> DEFINE at == [k \in 0..0 |-> 0]
<1>2. Chain(at)
  BY <1>1 DEF Chain
<1> QED
  BY <1>1, <1>2, FirstAssumption DEF RingInv

\* What a consumer finds in the buffer: nothing, or the oldest message, whole.
LEMMA FirstIs ==
  ASSUME ShapeInv, RingInv
  PROVE  /\ tail = head <=> tail_seq = head_seq
         /\ tail # head =>
              /\ head_seq < tail_seq
              /\ First = [seq |-> head_seq, len |-> log[head_seq + 1], part |-> 0]
              /\ Taken = [seq |-> head_seq, len |-> log[head_seq + 1]]
              /\ log[head_seq + 1] \in workload.lengths
              /\ log[head_seq + 1] \in Nat /\ log[head_seq + 1] + Header <= Size
              /\ head + log[head_seq + 1] + Header <= tail
<1>a. /\ head \in Nat /\ tail \in Nat /\ head <= tail
      /\ head_seq \in Nat /\ tail_seq \in Nat /\ head_seq <= tail_seq
      /\ Header \in Nat \ {0} /\ Size \in Nat \ {0}
  BY FirstAssumption DEF ShapeInv, RingInv
<1>1. PICK at : Chain(at)
  BY DEF RingInv
<1>2. at[head_seq] = head /\ at[tail_seq] = tail
  BY <1>1 DEF Chain
<1>3. tail_seq = head_seq => tail = head
  BY <1>2
<1>4. ASSUME head_seq # tail_seq
      PROVE  /\ tail # head /\ head_seq < tail_seq
             /\ First = [seq |-> head_seq, len |-> log[head_seq + 1], part |-> 0]
             /\ Taken = [seq |-> head_seq, len |-> log[head_seq + 1]]
             /\ log[head_seq + 1] \in workload.lengths
             /\ log[head_seq + 1] \in Nat /\ log[head_seq + 1] + Header <= Size
             /\ head + log[head_seq + 1] + Header <= tail
  <2>1. head_seq < tail_seq /\ head_seq \in head_seq..(tail_seq - 1)
    BY <1>a, <1>4
  <2>2. head < tail
    BY <1>a, <1>1, <1>2, <2>1 DEF Chain
  <2>3. /\ at[head_seq + 1] = at[head_seq] + log[head_seq + 1] + Header
        /\ \A i \in 0..(log[head_seq + 1] + Header - 1) :
             buffer[Cell(at[head_seq] + i)] =
               [seq |-> head_seq, len |-> log[head_seq + 1], part |-> i]
    BY <1>1, <2>1 DEF Chain
  <2>4. log[head_seq + 1] \in workload.lengths
    BY <1>a, <2>1 DEF ShapeInv
  <2>5. log[head_seq + 1] \in Nat /\ log[head_seq + 1] + Header <= Size
    BY <2>4, WorkloadIs DEF ShapeInv
  <2>6. head + log[head_seq + 1] + Header <= tail
    <3>1. at[head_seq + 1] \in head..tail
      BY <1>a, <1>1, <2>1 DEF Chain
    <3> QED
      BY <1>a, <1>2, <2>3, <2>5, <3>1
  <2>7. First = [seq |-> head_seq, len |-> log[head_seq + 1], part |-> 0]
    <3>1. 0 \in 0..(log[head_seq + 1] + Header - 1) /\ head + 0 = head
      BY <1>a, <2>5
    <3> QED
      BY <1>2, <2>3, <3>1 DEF First
  <2>8. Taken = [seq |-> head_seq, len |-> log[head_seq + 1]]
    <3>1. First.seq = head_seq /\ First.len = log[head_seq + 1]
      BY <2>7
    <3>2. \A i \in 0..(First.len + Header - 1) :
            buffer[Cell(head + i)] = [seq |-> First.seq, len |-> First.len, part |-> i]
      BY <1>2, <2>3, <3>1
    <3> QED
      BY <3>1, <3>2 DEF Taken
  <2> QED
    BY <1>a, <2>1, <2>2, <2>4, <2>5, <2>6, <2>7, <2>8
<1> QED
  BY <1>3, <1>4

\* The message put goes behind the others and is written over none of them.
LEMMA PutRing ==
  ASSUME ShapeInv, RingInv, NEW t \in Threads, Put(t)
  PROVE  RingInv'
<1> DEFINE len == arg[t]
           m == [i \in 0..(Size - 1) |->
                  IF Written(i, len)
                  THEN [seq |-> tail_seq, len |-> len, part |-> (i - tail) % Size]
                  ELSE buffer[i]]
<1>1. len \in Nat /\ len + Header <= Size /\ ShapeInv'
  BY PutShape, WorkloadIs DEF ShapeInv
<1>2. /\ Size - (tail - head) >= len + Header
      /\ tail_seq' = tail_seq + 1 /\ tail' = tail + len + Header
      /\ log' = Append(log, len) /\ head' = head /\ head_seq' = head_seq
  BY DEF Put, Room
<1>3. buffer' = m
  BY DEF Put, ShapeInv
<1>a. /\ head \in 0..(Size - 1) /\ tail \in head..(head + Size)
      /\ head_seq \in Nat /\ tail_seq \in Nat /\ head_seq <= tail_seq
      /\ Header \in Nat \ {0} /\ Size \in Nat \ {0}
      /\ log \in Seq(workload.lengths) /\ Len(log) = tail_seq
  BY FirstAssumption DEF ShapeInv, RingInv
<1>4. PICK at : Chain(at)
  BY DEF RingInv
<1> HIDE DEF len, m
<1>5. /\ \A k \in head_seq..(tail_seq - 1) : log'[k + 1] = log[k + 1]
      /\ log'[tail_seq + 1] = len
  BY <1>a, <1>1, <1>2
<1>n. PICK new : new = [k \in head_seq..(tail_seq + 1) |->
                         IF k <= tail_seq THEN at[k] ELSE tail + len + Header]
  OBVIOUS
<1>6. \A k \in head_seq..tail_seq : at[k] \in head..tail
  BY <1>4 DEF Chain
<1>7. /\ \A k \in head_seq..tail_seq : new[k] = at[k]
      /\ new[tail_seq + 1] = tail + len + Header
      /\ new[head_seq] = head /\ new[tail_seq] = tail
  BY <1>a, <1>4, <1>n DEF Chain
<1>8. new \in [head_seq..(tail_seq + 1) -> head..tail']
  BY <1>a, <1>1, <1>2, <1>6, <1>n
<1>9. \A j, k \in head_seq..(tail_seq + 1) : j < k => new[j] < new[k]
  <2> TAKE j, k \in head_seq..(tail_seq + 1)
  <2> HAVE j < k
  <2>1. CASE k <= tail_seq
    BY <1>a, <1>4, <1>7, <2>1 DEF Chain
  <2>2. CASE k = tail_seq + 1
    <3>1. j \in head_seq..tail_seq
      BY <1>a, <2>2
    <3>2. new[j] \in head..tail
      BY <1>6, <1>7, <3>1
    <3> QED
      BY <1>a, <1>1, <1>7, <2>2, <3>2
  <2> QED
    BY <1>a, <2>1, <2>2
<1>10. ASSUME NEW k \in head_seq..tail_seq
       PROVE  /\ new[k + 1] = new[k] + log'[k + 1] + Header
              /\ \A i \in 0..(log'[k + 1] + Header - 1) :
                   buffer'[Cell(new[k] + i)] = [seq |-> k, len |-> log'[k + 1], part |-> i]
  <2>1. CASE k = tail_seq
    <3>1. new[k + 1] = new[k] + log'[k + 1] + Header
      BY <1>5, <1>7, <2>1
    <3>2. ASSUME NEW i \in 0..(len + Header - 1)
          PROVE  buffer'[Cell(tail + i)] = [seq |-> tail_seq, len |-> len, part |-> i]
      <4>1. tail + i \in 0..(2 * Size - 1) /\ tail \in 0..(2 * Size - 1)
            /\ (tail + i) - tail \in (-Size)..(Size - 1) /\ (tail + i) - tail = i
            /\ tail + i >= tail
        BY <1>a, <1>1, <1>2
      <4>2. (Cell(tail + i) - tail) % Size = i
        BY <4>1, DistanceIs
      <4>3. Cell(tail + i) \in 0..(Size - 1)
        BY <1>a, <4>1, CellIs
      <4>4. i < len + Header
        BY <1>a, <1>1
      <4>5. m[Cell(tail + i)] = [seq |-> tail_seq, len |-> len, part |-> i]
        BY <4>2, <4>3, <4>4 DEF m, Written
      <4> QED
        BY <1>3, <4>5
    <3> QED
      BY <1>5, <1>7, <2>1, <3>1, <3>2
  <2>2. CASE k # tail_seq
    <3>1. k \in head_seq..(tail_seq - 1) /\ k + 1 \in head_seq..tail_seq
      BY <1>a, <2>2
    <3>2. /\ at[k + 1] = at[k] + log[k + 1] + Header
          /\ \A i \in 0..(log[k + 1] + Header - 1) :
               buffer[Cell(at[k] + i)] = [seq |-> k, len |-> log[k + 1], part |-> i]
      BY <1>4, <3>1 DEF Chain
    <3>3. new[k + 1] = new[k] + log'[k + 1] + Header
      BY <1>5, <1>7, <3>1, <3>2
    <3>4. at[k] \in head..tail /\ at[k + 1] \in head..tail /\ log[k + 1] \in Nat
      <4>1. log[k + 1] \in workload.lengths
        BY <1>a, <3>1
      <4> QED
        BY <1>6, <3>1, <4>1, WorkloadIs DEF ShapeInv
    <3>5. ASSUME NEW i \in 0..(log[k + 1] + Header - 1)
          PROVE  buffer'[Cell(at[k] + i)] = [seq |-> k, len |-> log[k + 1], part |-> i]
      <4>1. /\ at[k] + i \in 0..(2 * Size - 1)
            /\ at[k] + i < tail /\ head <= at[k] + i
        <5>1. i \in Nat /\ i < log[k + 1] + Header
          BY <1>a, <3>4
        <5>2. at[k] + log[k + 1] + Header <= tail
          BY <1>a, <3>2, <3>4
        <5>3. at[k] \in Nat /\ head <= at[k]
          BY <1>a, <3>4
        <5>4. at[k] + i < tail
          BY <1>a, <3>4, <5>1, <5>2, <5>3
        <5>5. head <= at[k] + i /\ at[k] + i \in Nat /\ tail <= 2 * Size
          BY <1>a, <5>1, <5>3
        <5> QED
          BY <1>a, <5>4, <5>5
      <4> DEFINE x == at[k] + i
      <4>2. buffer[Cell(x)] = [seq |-> k, len |-> log[k + 1], part |-> i]
        BY <3>2
      <4> HIDE DEF x
      <4>3. x \in 0..(2 * Size - 1) /\ x < tail /\ head <= x
        BY <4>1 DEF x
      <4>4. CASE tail <= 2 * Size - 1
        <5>1. tail \in 0..(2 * Size - 1) /\ x - tail \in (-Size)..(Size - 1)
          BY <1>a, <4>3, <4>4
        <5>2. (Cell(x) - tail) % Size = x - tail + Size
          BY <1>a, <4>3, <5>1, DistanceIs
        <5>3. ~((Cell(x) - tail) % Size < len + Header)
          BY <1>a, <1>1, <1>2, <4>3, <5>2
        <5>4. Cell(x) \in 0..(Size - 1)
          BY <1>a, <4>3, CellIs
        <5>5. m[Cell(x)] = buffer[Cell(x)]
          BY <5>3, <5>4 DEF m, Written
        <5> QED
          BY <1>3, <4>2, <5>5 DEF x
      <4>5. tail <= 2 * Size - 1
        BY <1>a, <1>1, <1>2
      <4> QED
        BY <4>4, <4>5
    <3> QED
      BY <1>5, <1>7, <3>1, <3>3, <3>5
  <2> QED
    BY <2>1, <2>2
<1>11. Chain(new)'
  <2>1. head_seq'..tail_seq' = head_seq..(tail_seq + 1) /\ head_seq'..(tail_seq' - 1) = head_seq..tail_seq
    BY <1>a, <1>2
  <2>2. new \in [head_seq'..tail_seq' -> head'..tail']
    BY <1>2, <1>8, <2>1
  <2>3. new[head_seq'] = head' /\ new[tail_seq'] = tail'
    BY <1>2, <1>7
  <2>4. \A j, k \in head_seq'..tail_seq' : j < k => new[j] < new[k]
    BY <1>9, <2>1
  <2>5. \A k \in head_seq'..(tail_seq' - 1) :
         /\ new[k + 1] = new[k] + log'[k + 1] + Header
         /\ \A i \in 0..(log'[k + 1] + Header - 1) :
              buffer'[Cell(new[k] + i)] = [seq |-> k, len |-> log'[k + 1], part |-> i]
    BY <1>10, <2>1
  <2> QED
    BY <2>2, <2>3, <2>4, <2>5 DEF Chain, Cell
<1>12. /\ head' \in 0..(Size - 1) /\ tail' \in head'..(head' + Size)
       /\ head_seq' <= tail_seq'
  BY <1>a, <1>1, <1>2
<1> QED
  BY <1>11, <1>12 DEF RingInv

\* The message taken leaves the others where they are; when the indices go
\* back by the size of the buffer, the cells they stand for stay the same.
LEMMA GetRing ==
  ASSUME ShapeInv, RingInv, NEW t \in Threads, Get(t)
  PROVE  RingInv'
<1> DEFINE len  == log[head_seq + 1]
           next == head + len + Header
           b    == Back(next)
<1>a. /\ head \in 0..(Size - 1) /\ tail \in head..(head + Size)
      /\ head_seq \in Nat /\ tail_seq \in Nat /\ head_seq <= tail_seq
      /\ Header \in Nat \ {0} /\ Size \in Nat \ {0}
  BY FirstAssumption DEF ShapeInv, RingInv
<1>1. tail # head
  BY <1>a DEF Get
<1>2. /\ head_seq < tail_seq /\ First.len = len
      /\ len \in Nat /\ len + Header <= Size /\ next <= tail
  BY <1>1, FirstIs
<1>3. /\ head' = next - b /\ tail' = tail - b /\ head_seq' = head_seq + 1
      /\ tail_seq' = tail_seq /\ buffer' = buffer /\ log' = log
  BY <1>2 DEF Get
<1>4. PICK at : Chain(at)
  BY DEF RingInv
<1>5. at[head_seq + 1] = next
  <2>1. head_seq \in head_seq..(tail_seq - 1)
    BY <1>a, <1>2
  <2> QED
    BY <1>4, <2>1 DEF Chain
<1>6. b \in {0, Size} /\ (b = Size <=> next >= Size) /\ next \in Nat /\ next < 2 * Size
  BY <1>a, <1>2 DEF Back
<1> HIDE DEF len, next, b
<1>n. PICK new : new = [k \in (head_seq + 1)..tail_seq |-> at[k] - b]
  OBVIOUS
<1>7. \A k \in (head_seq + 1)..tail_seq : new[k] = at[k] - b
  BY <1>n
<1>8. \A k \in (head_seq + 1)..tail_seq : at[k] \in next..tail
  <2> TAKE k \in (head_seq + 1)..tail_seq
  <2>1. k \in head_seq..tail_seq /\ head_seq + 1 \in head_seq..tail_seq
    BY <1>a, <1>2
  <2>2. at[k] \in head..tail
    BY <1>4, <2>1 DEF Chain
  <2>3. CASE k = head_seq + 1
    BY <1>a, <1>5, <1>6, <2>2, <2>3
  <2>4. CASE k # head_seq + 1
    <3>1. head_seq + 1 < k
      BY <1>a, <2>4
    <3>2. at[head_seq + 1] < at[k]
      BY <1>4, <2>1, <3>1 DEF Chain
    <3> QED
      BY <1>a, <1>5, <1>6, <2>2, <3>2
  <2> QED
    BY <2>3, <2>4
<1>9. /\ head' \in 0..(Size - 1) /\ tail' \in head'..(head' + Size)
      /\ head_seq' <= tail_seq'
  <2>1. next \in (head + 1)..tail
    BY <1>a, <1>2, <1>6 DEF next
  <2>2. CASE b = Size
    BY <1>a, <1>2, <1>3, <1>6, <2>1, <2>2
  <2>3. CASE b = 0
    BY <1>a, <1>2, <1>3, <1>6, <2>1, <2>3
  <2> QED
    BY <1>6, <2>2, <2>3
<1>10. Chain(new)'
  <2>1. head_seq'..tail_seq' = (head_seq + 1)..tail_seq
        /\ head_seq'..(tail_seq' - 1) = (head_seq + 1)..(tail_seq - 1)
    BY <1>a, <1>3
  <2>2. new \in [head_seq'..tail_seq' -> head'..tail']
    <3>1. \A k \in (head_seq + 1)..tail_seq : at[k] - b \in (next - b)..(tail - b)
      <4> TAKE k \in (head_seq + 1)..tail_seq
      <4>1. at[k] \in next..tail
        BY <1>8
      <4> QED
        BY <1>a, <1>6, <4>1
    <3> QED
      BY <1>3, <1>n, <2>1, <3>1
  <2>3. new[head_seq'] = head' /\ new[tail_seq'] = tail'
    <3>1. {head_seq + 1, tail_seq} \subseteq (head_seq + 1)..tail_seq
      BY <1>a, <1>2
    <3>2. at[tail_seq] = tail
      BY <1>4 DEF Chain
    <3> QED
      BY <1>3, <1>5, <1>7, <3>1, <3>2
  <2>4. \A j, k \in head_seq'..tail_seq' : j < k => new[j] < new[k]
    <3> TAKE j, k \in head_seq'..tail_seq'
    <3> HAVE j < k
    <3>1. /\ j \in (head_seq + 1)..tail_seq /\ k \in (head_seq + 1)..tail_seq
          /\ j \in head_seq..tail_seq /\ k \in head_seq..tail_seq
      <4>1. j \in (head_seq + 1)..tail_seq /\ k \in (head_seq + 1)..tail_seq
        BY <2>1
      <4> QED
        BY <1>a, <4>1
    <3>2. at[j] < at[k] /\ at[j] \in next..tail /\ at[k] \in next..tail
      BY <1>4, <1>8, <3>1 DEF Chain
    <3>3. at[j] - b < at[k] - b
      BY <1>a, <1>6, <3>2
    <3> QED
      BY <1>7, <3>1, <3>3
  <2>5. ASSUME NEW k \in (head_seq + 1)..(tail_seq - 1)
        PROVE  /\ new[k + 1] = new[k] + log[k + 1] + Header
               /\ \A i \in 0..(log[k + 1] + Header - 1) :
                    buffer[Cell(new[k] + i)] = [seq |-> k, len |-> log[k + 1], part |-> i]
    <3>1. /\ k \in head_seq..(tail_seq - 1) /\ k \in (head_seq + 1)..tail_seq
          /\ k + 1 \in (head_seq + 1)..tail_seq
      BY <1>a
    <3>2. /\ at[k + 1] = at[k] + log[k + 1] + Header
          /\ \A i \in 0..(log[k + 1] + Header - 1) :
               buffer[Cell(at[k] + i)] = [seq |-> k, len |-> log[k + 1], part |-> i]
      BY <1>4, <3>1 DEF Chain
    <3>3. at[k] \in next..tail /\ at[k + 1] \in next..tail /\ log[k + 1] \in Nat
      <4>1. log[k + 1] \in workload.lengths
        BY <1>a, <3>1 DEF ShapeInv
      <4> QED
        BY <1>8, <3>1, <4>1, WorkloadIs DEF ShapeInv
    <3>4. new[k + 1] = new[k] + log[k + 1] + Header
      <4>1. at[k + 1] - b = (at[k] - b) + log[k + 1] + Header
        BY <1>a, <1>6, <3>2, <3>3
      <4> QED
        BY <1>7, <3>1, <4>1
    <3>5. ASSUME NEW i \in 0..(log[k + 1] + Header - 1)
          PROVE  buffer[Cell(new[k] + i)] = [seq |-> k, len |-> log[k + 1], part |-> i]
      <4> DEFINE x == at[k] + i
      <4>1. i \in Nat /\ i < log[k + 1] + Header /\ at[k] \in Nat /\ next <= at[k]
        BY <1>a, <1>6, <3>3
      <4>2. at[k] + log[k + 1] + Header <= tail
        BY <1>a, <1>6, <3>2, <3>3
      <4>3. x \in Nat /\ next <= x /\ x < tail
        BY <1>a, <1>6, <3>3, <4>1, <4>2
      <4>4. new[k] + i = x - b
        BY <1>6, <1>7, <1>a, <3>1, <4>1
      <4>5. buffer[Cell(x)] = [seq |-> k, len |-> log[k + 1], part |-> i]
        BY <3>2
      <4> HIDE DEF x
      <4>6. x \in 0..(2 * Size - 1) /\ x - b \in 0..(2 * Size - 1)
        BY <1>a, <1>6, <4>3
      <4>7. Cell(x - b) = Cell(x)
        <5>1. CASE b = 0
          BY <4>6, <5>1
        <5>2. CASE b = Size
          <6>1. x >= Size /\ x - b < Size
            BY <1>a, <1>6, <4>3, <4>6, <5>2
          <6> QED
            BY <1>a, <4>6, <5>2, <6>1, CellIs
        <5> QED
          BY <1>6, <5>1, <5>2
      <4> QED
        BY <4>4, <4>5, <4>7
    <3> QED
      BY <3>4, <3>5
  <2>6. \A k \in head_seq'..(tail_seq' - 1) :
         /\ new[k + 1] = new[k] + log'[k + 1] + Header
         /\ \A i \in 0..(log'[k + 1] + Header - 1) :
              buffer'[Cell(new[k] + i)] = [seq |-> k, len |-> log'[k + 1], part |-> i]
    BY <1>3, <2>1, <2>5
  <2> QED
    BY <2>2, <2>3, <2>4, <2>6 DEF Chain, Cell
<1> QED
  BY <1>9, <1>10 DEF RingInv

LEMMA RingStays ==
  ASSUME RingInv, UNCHANGED <<indices, buffer, log>>
  PROVE  RingInv'
<1>1. UNCHANGED <<head, tail, head_seq, tail_seq, buffer, log>>
  BY DEF indices
<1>2. PICK at : Chain(at)
  BY DEF RingInv
<1>3. Chain(at)'
  BY <1>1, <1>2 DEF Chain
<1> QED
  BY <1>1, <1>3 DEF RingInv

-----------------------------------------------------------------------------
(* Both hold always.                                                       *)

FirstInv == ShapeInv /\ RingInv

LEMMA TooLongIs ==
  ASSUME FirstInv, NEW t \in Threads, TooLong(t)
  PROVE  First.seq \in Nat
BY FirstIs DEF FirstInv, TooLong, ShapeInv, RingInv

LEMMA FirstStep == FirstInv /\ [Next]_vars => FirstInv'
<1> SUFFICES ASSUME FirstInv, [Next]_vars PROVE FirstInv'
  OBVIOUS
<1>a. ShapeInv /\ RingInv
  BY DEF FirstInv
<1>1. ASSUME NEW t \in Threads, Put(t) PROVE FirstInv'
  BY <1>a, <1>1, PutShape, PutRing DEF FirstInv
<1>2. ASSUME NEW t \in Threads, Get(t) PROVE FirstInv'
  BY <1>a, <1>2, GetShape, GetRing DEF FirstInv
<1>3. ASSUME NEW t \in Threads, Rests(t) PROVE FirstInv'
  BY <1>a, <1>3, RestShape, RingStays, TooLongIs DEF FirstInv
<1>4. ASSUME NEW t \in Threads, CallPut(t) PROVE FirstInv'
  <2>1. UNCHANGED <<indices, buffer, log>>
    BY <1>4 DEF CallPut
  <2> QED
    BY <1>a, <1>4, <2>1, CallPutShape, RingStays DEF FirstInv
<1>5. ASSUME NEW t \in Threads, CallGet(t) PROVE FirstInv'
  <2>1. UNCHANGED <<indices, buffer, log>>
    BY <1>5 DEF CallGet
  <2> QED
    BY <1>a, <1>5, <2>1, CallGetShape, RingStays DEF FirstInv
<1>6. CASE UNCHANGED vars
  <2>1. UNCHANGED <<indices, buffer, pc, arg, skipped, got, workload, log>>
    BY <1>6 DEF vars
  <2>2. ShapeInv'
    BY <1>a, <2>1 DEF ShapeInv, CallsOK, Putting, indices
  <2> QED
    BY <1>a, <2>1, <2>2, RingStays DEF FirstInv
<1>7. Next \/ UNCHANGED vars
  OBVIOUS
<1>8. CASE Next
  BY <1>1, <1>2, <1>3, <1>4, <1>5, <1>8 DEF Next, Step, Rests
<1> QED
  BY <1>6, <1>7, <1>8

LEMMA FirstAlways == Spec => []FirstInv
<1>1. Init => FirstInv
  BY InitShape, InitRing DEF FirstInv
<1> QED
  BY <1>1, FirstStep, PTL DEF Spec

\* The variables of the first queue keep their types: a message begins in the
\* first mapping of the buffer and ends in the second at the latest.
THEOREM FirstTypeCorrect == Spec => []TypeOK
<1>1. ASSUME FirstInv PROVE TypeOK
  <2>1. ShapeInv /\ RingInv
    BY <1>1 DEF FirstInv
  <2>2. tail_seq \in 0..(MaxPuts + Cardinality(Producers))
    BY <2>1, PuttingFinite, ThreadsFinite, FirstAssumption DEF ShapeInv
  <2> QED
    BY <2>1, <2>2 DEF ShapeInv, RingInv, TypeOK, Places
<1>2. FirstInv => TypeOK
  BY <1>1
<1> QED
  BY <1>2, FirstAlways, PTL

-----------------------------------------------------------------------------
(* The bounded FIFO.                                                       *)

\* The messages in the buffer as the FIFO sees them.
Message(k) == [seq |-> k, len |-> log[k + 1]]

Pending ==
  [i \in 1..(tail_seq - head_seq) |-> [seq |-> head_seq + i - 1, len |-> log[head_seq + i]]]

Messages == [seq : Nat, len : Nat]

LEMMA SeqIsFunction ==
  ASSUME NEW S, NEW s \in Seq(S)
  PROVE  s = [i \in 1..Len(s) |-> s[i]]
BY LenProperties

LEMMA PendingIs ==
  ASSUME FirstInv
  PROVE  /\ Pending \in Seq(Messages) /\ Len(Pending) = tail_seq - head_seq
         /\ \A i \in 1..(tail_seq - head_seq) : Pending[i] = Message(head_seq + i - 1)
<1>1. /\ head_seq \in Nat /\ tail_seq \in Nat /\ head_seq <= tail_seq
      /\ log \in Seq(workload.lengths) /\ Len(log) = tail_seq /\ workload \in Workloads
  BY DEF FirstInv, ShapeInv, RingInv
<1>2. ASSUME NEW i \in 1..(tail_seq - head_seq)
      PROVE  /\ head_seq + i \in 1..tail_seq /\ head_seq + i - 1 \in Nat
             /\ (head_seq + i - 1) + 1 = head_seq + i /\ log[head_seq + i] \in Nat
  <2>1. head_seq + i \in 1..tail_seq
    BY <1>1
  <2>2. log[head_seq + i] \in workload.lengths
    BY <1>1, <2>1
  <2> QED
    BY <1>1, <2>1, <2>2, WorkloadIs
<1>3. Pending \in [1..(tail_seq - head_seq) -> Messages]
  BY <1>2 DEF Pending, Messages
<1>4. tail_seq - head_seq \in Nat
  BY <1>1
<1>5. Pending \in Seq(Messages) /\ Len(Pending) = tail_seq - head_seq
  <2> DEFINE n == tail_seq - head_seq
  <2>1. n \in Nat /\ Pending \in [1..n -> Messages]
    BY <1>3, <1>4
  <2> HIDE DEF n
  <2>2. Pending \in Seq(Messages) /\ Len(Pending) = n
    BY <2>1
  <2> QED
    BY <2>2 DEF n
<1> QED
  BY <1>2, <1>5 DEF Pending, Message

\* A message put is the last of those pending.
LEMMA PutPending ==
  ASSUME FirstInv, FirstInv', NEW t \in Threads, Put(t)
  PROVE  Pending' = Append(Pending, [seq |-> tail_seq, len |-> arg[t]])
<1> DEFINE n == tail_seq - head_seq
           m == [seq |-> tail_seq, len |-> arg[t]]
<1>1. /\ head_seq \in Nat /\ tail_seq \in Nat /\ head_seq <= tail_seq
      /\ log \in Seq(workload.lengths) /\ Len(log) = tail_seq
      /\ tail_seq' = tail_seq + 1 /\ head_seq' = head_seq /\ log' = Append(log, arg[t])
  BY DEF FirstInv, ShapeInv, RingInv, Put
<1>2. arg[t] \in workload.lengths /\ arg[t] \in Nat
  BY PutShape, WorkloadIs DEF FirstInv, ShapeInv
<1>3. /\ \A i \in 1..tail_seq : log'[i] = log[i]
      /\ log'[tail_seq + 1] = arg[t]
  BY <1>1, <1>2
<1>4. /\ Pending \in Seq(Messages) /\ Len(Pending) = n
      /\ \A i \in 1..n : Pending[i] = [seq |-> head_seq + i - 1, len |-> log[head_seq + i]]
      /\ n \in Nat
  BY <1>1, PendingIs DEF Pending
<1>5. Pending' = [i \in 1..(n + 1) |-> [seq |-> head_seq + i - 1, len |-> log'[head_seq + i]]]
  BY <1>1 DEF Pending
<1>6. m \in Messages
  BY <1>1, <1>2 DEF Messages
<1>7. ASSUME NEW i \in 1..(n + 1)
      PROVE  Pending'[i] = IF i <= n THEN Pending[i] ELSE m
  <2>1. Pending'[i] = [seq |-> head_seq + i - 1, len |-> log'[head_seq + i]]
    BY <1>5
  <2>2. CASE i <= n
    <3>1. i \in 1..n /\ head_seq + i \in 1..tail_seq
      BY <1>1, <1>4, <2>2
    <3> QED
      BY <1>3, <1>4, <2>1, <2>2, <3>1
  <2>3. CASE ~(i <= n)
    <3>1. head_seq + i = tail_seq + 1 /\ head_seq + i - 1 = tail_seq
      BY <1>1, <1>4, <2>3
    <3> QED
      BY <1>3, <2>1, <2>3, <3>1
  <2> QED
    BY <2>2, <2>3
<1> HIDE DEF m, n
<1>8. /\ Append(Pending, m) \in Seq(Messages) /\ Len(Append(Pending, m)) = n + 1
      /\ \A i \in 1..(n + 1) : Append(Pending, m)[i] = IF i <= n THEN Pending[i] ELSE m
  BY <1>4, <1>6
<1>9. Append(Pending, m) = [i \in 1..(n + 1) |-> Append(Pending, m)[i]]
  BY <1>8, SeqIsFunction
<1>10. Pending' = [i \in 1..(n + 1) |-> Pending'[i]]
  BY <1>5
<1>11. Pending' = Append(Pending, m)
  BY <1>7, <1>8, <1>9, <1>10
<1> QED
  BY <1>11 DEF m

\* A message taken is the first of those pending.
LEMMA GetPending ==
  ASSUME FirstInv, NEW t \in Threads, Get(t)
  PROVE  /\ Pending # <<>> /\ Head(Pending) = Taken /\ Pending' = Tail(Pending)
         /\ tail' - head' = tail - head - Taken.len - Header
<1> DEFINE n == tail_seq - head_seq
<1>a. ShapeInv /\ RingInv
  BY DEF FirstInv
<1>1. tail # head
  BY <1>a DEF Get, RingInv
<1>2. /\ head_seq \in Nat /\ tail_seq \in Nat /\ head_seq < tail_seq
      /\ Taken = [seq |-> head_seq, len |-> log[head_seq + 1]]
      /\ First.len = log[head_seq + 1] /\ log[head_seq + 1] \in Nat
      /\ head \in Nat /\ tail \in Nat /\ Header \in Nat /\ Size \in Nat
  <2>1. head_seq \in Nat /\ tail_seq \in Nat
    BY <1>a DEF ShapeInv
  <2>2. head \in Nat /\ tail \in Nat /\ Header \in Nat /\ Size \in Nat
    BY <1>a, FirstAssumption DEF RingInv
  <2>3. /\ head_seq < tail_seq /\ log[head_seq + 1] \in Nat
        /\ First = [seq |-> head_seq, len |-> log[head_seq + 1], part |-> 0]
        /\ Taken = [seq |-> head_seq, len |-> log[head_seq + 1]]
    BY <1>a, <1>1, FirstIs
  <2>4. First.len = log[head_seq + 1]
    BY <2>3
  <2> QED
    BY <2>1, <2>2, <2>3, <2>4
<1> DEFINE len  == log[head_seq + 1]
           next == head + len + Header
           b    == Back(next)
<1>3. /\ tail_seq' = tail_seq /\ head_seq' = head_seq + 1 /\ log' = log
      /\ head' = next - b /\ tail' = tail - b
  BY <1>2 DEF Get
<1>4. tail' - head' = tail - head - Taken.len - Header
  <2>1. b \in Nat
    BY <1>2 DEF Back
  <2>2. Taken.len = len /\ next = head + len + Header
    BY <1>2
  <2> HIDE DEF b, len, next
  <2>3. len \in Nat
    BY <1>2 DEF len
  <2> QED
    BY <1>2, <1>3, <2>1, <2>2, <2>3
<1>5. /\ Pending \in Seq(Messages) /\ Len(Pending) = n
      /\ \A i \in 1..n : Pending[i] = [seq |-> head_seq + i - 1, len |-> log[head_seq + i]]
      /\ n \in Nat \ {0}
  BY <1>2, PendingIs DEF Pending
<1>6. Pending' = [i \in 1..(n - 1) |-> [seq |-> head_seq + 1 + i - 1, len |-> log[head_seq + 1 + i]]]
  <2>1. tail_seq' - head_seq' = n - 1
    BY <1>2, <1>3
  <2> QED
    BY <1>3, <2>1 DEF Pending
<1>7. Head(Pending) = Taken
  <2>1. Pending[1] = [seq |-> head_seq, len |-> log[head_seq + 1]]
    <3>1. 1 \in 1..n /\ head_seq + 1 - 1 = head_seq
      BY <1>2, <1>5
    <3> QED
      BY <1>5, <3>1
  <2> QED
    BY <1>2, <1>5, <2>1
<1> HIDE DEF n
<1>8. Pending # <<>>
  BY <1>5
<1>9. /\ Tail(Pending) \in Seq(Messages) /\ Len(Tail(Pending)) = n - 1
      /\ \A i \in 1..(n - 1) : Tail(Pending)[i] = Pending[i + 1]
  BY <1>5, <1>8, HeadTailProperties
<1>10. \A i \in 1..(n - 1) : Pending'[i] = Tail(Pending)[i]
  <2> TAKE i \in 1..(n - 1)
  <2>1. i + 1 \in 1..n /\ head_seq + 1 + i - 1 = head_seq + (i + 1) - 1
        /\ head_seq + 1 + i = head_seq + (i + 1)
    BY <1>2, <1>5
  <2>2. Pending'[i] = [seq |-> head_seq + (i + 1) - 1, len |-> log[head_seq + (i + 1)]]
    BY <1>6, <2>1
  <2> QED
    BY <1>5, <1>9, <2>1, <2>2
<1>11. Tail(Pending) = [i \in 1..(n - 1) |-> Tail(Pending)[i]]
  BY <1>9, SeqIsFunction
<1>12. Pending' = [i \in 1..(n - 1) |-> Pending'[i]]
  BY <1>6
<1>13. Pending' = Tail(Pending)
  BY <1>10, <1>11, <1>12
<1> QED
  BY <1>4, <1>7, <1>8, <1>13

FifoStep == [Fifo!Next]_(Fifo!vars)

LEMMA FifoMaps ==
  /\ \A len : Fifo!Put(len) <=>
       /\ tail - head + len + Header <= Size
       /\ Pending' = Append(Pending, [seq |-> tail_seq, len |-> len])
       /\ tail' - head' = tail - head + len + Header
       /\ tail_seq' = tail_seq + 1 /\ UNCHANGED got
  /\ \A c : Fifo!Get(c) <=>
       /\ Pending # <<>> /\ Pending' = Tail(Pending)
       /\ tail' - head' = tail - head - Head(Pending).len - Header
       /\ got' = [got EXCEPT ![c] = Head(Pending)] /\ UNCHANGED tail_seq
BY DEF Pending, Fifo!Put, Fifo!Get

LEMMA FifoSteps == FirstInv /\ FirstInv' /\ [Next]_vars => FifoStep
<1> SUFFICES ASSUME FirstInv, FirstInv', [Next]_vars PROVE FifoStep
  OBVIOUS
<1>a. /\ ShapeInv /\ RingInv /\ Header \in Nat /\ Size \in Nat
      /\ head \in Nat /\ tail \in Nat
  BY FirstAssumption DEF FirstInv, RingInv
<1>1. ASSUME NEW t \in Threads, Put(t) PROVE FifoStep
  <2>1. arg[t] \in workload.lengths /\ arg[t] \in Nat /\ workload \in Workloads
    BY <1>a, <1>1, PutShape, WorkloadIs DEF ShapeInv
  <2>2. PICK len \in UNION {w.lengths : w \in Workloads} : len = arg[t]
    BY <2>1
  <2>3. /\ Size - (tail - head) >= len + Header
        /\ tail_seq' = tail_seq + 1 /\ got' = got
        /\ tail' = tail + len + Header /\ head' = head
    BY <1>1, <2>2 DEF Put, Room
  <2>4. /\ tail - head + len + Header <= Size
        /\ tail' - head' = tail - head + len + Header
    BY <1>a, <2>1, <2>2, <2>3
  <2>5. Pending' = Append(Pending, [seq |-> tail_seq, len |-> len])
    BY <1>1, <2>2, PutPending
  <2>6. Fifo!Put(len)
    BY <2>3, <2>4, <2>5, FifoMaps
  <2> QED
    BY <2>6 DEF FifoStep, Fifo!Next
<1>2. ASSUME NEW t \in Threads, Get(t) PROVE FifoStep
  <2>1. t \in Consumers
    BY <1>a, <1>2, GetShape
  <2>2. got' = [got EXCEPT ![t] = Taken] /\ tail_seq' = tail_seq
    BY <1>2 DEF Get
  <2>3. Fifo!Get(t)
    BY <1>2, <2>2, GetPending, FifoMaps
  <2> QED
    BY <2>1, <2>3 DEF FifoStep, Fifo!Next
<1>3. ASSUME UNCHANGED <<indices, got, log>> PROVE FifoStep
  BY <1>3 DEF FifoStep, Fifo!vars, indices
<1>4. ASSUME NEW t \in Threads, Rests(t) PROVE FifoStep
  <2>1. UNCHANGED <<indices, got, log>>
    BY <1>a, <1>4, RestShape, TooLongIs
  <2> QED
    BY <1>3, <2>1
<1>5. ASSUME NEW t \in Threads, CallPut(t) \/ CallGet(t) PROVE FifoStep
  BY <1>3, <1>5 DEF CallPut, CallGet
<1>6. CASE UNCHANGED vars
  BY <1>3, <1>6 DEF vars
<1>7. Next \/ UNCHANGED vars
  OBVIOUS
<1>8. CASE Next
  BY <1>1, <1>2, <1>4, <1>5, <1>8 DEF Next, Step, Rests
<1> QED
  BY <1>6, <1>7, <1>8

LEMMA FifoInit == Init => Fifo!Init
<1> SUFFICES ASSUME Init PROVE Fifo!Init
  OBVIOUS
<1>1. FirstInv /\ head = 0 /\ tail = 0 /\ head_seq = 0 /\ tail_seq = 0
      /\ got = [c \in Consumers |-> NoMessage]
  BY InitShape, InitRing DEF Init, FirstInv
<1>2. Pending \in Seq(Messages) /\ Len(Pending) = 0
  BY <1>1, PendingIs
<1>3. Pending = <<>>
  BY <1>2, EmptySeq
<1>4. tail - head = 0
  BY <1>1
<1> QED
  BY <1>1, <1>3, <1>4 DEF Fifo!Init, Pending

\* The first queue is a bounded FIFO: every message put is delivered once,
\* whole and in order, and none is written over one that is still to be taken.
THEOREM FirstImplementsFifo == Spec => ImplementsFifo
<1>1. FirstInv /\ FirstInv' /\ [Next]_vars => [Fifo!Next]_(Fifo!vars)
  BY FifoSteps DEF FifoStep
<1> QED
  BY <1>1, FifoInit, FirstAlways, PTL DEF Spec, ImplementsFifo, Fifo!Spec

-----------------------------------------------------------------------------
(* Nobody sleeps over what they could do.                                  *)

Getters == {c \in Consumers : pc[c] = "get"}
Putters == {p \in Producers : pc[p] = "put"}

\* Consumers wait for any message, never for a longer one to go.
NobodySkips == \A c \in Consumers : pc[c] \notin {"recheck", "writeable"}

\* While a consumer sleeps, others are on their way to every message there is.
EnoughGetters ==
  (\E c \in Consumers : pc[c] = "readable") => tail_seq - head_seq <= Cardinality(Getters)

\* While a producer sleeps, others are on their way to all the room there is
\* for messages of this length.
EnoughPutters(len) ==
  (\E p \in Producers : pc[p] = "writeable") =>
    Size - (tail - head) < (Cardinality(Putters) + 1) * (len + Header)

SleepInv ==
  EveryoneTakesAll =>
    /\ NobodySkips /\ EnoughGetters
    /\ \A len \in Nat : workload.lengths = {len} => EnoughPutters(len)

LEMMA TimesIs ==
  ASSUME NEW n \in Nat, NEW k \in Nat
  PROVE  n * k \in Nat /\ (n + 1) * k = n * k + k
OBVIOUS

LEMMA CallersFinite ==
  /\ IsFiniteSet(Getters) /\ Cardinality(Getters) \in Nat
  /\ IsFiniteSet(Putters) /\ Cardinality(Putters) \in Nat
  /\ IsFiniteSet(Getters') /\ Cardinality(Getters') \in Nat
  /\ IsFiniteSet(Putters') /\ Cardinality(Putters') \in Nat
<1>1. /\ Getters \subseteq Consumers /\ Putters \subseteq Producers
      /\ Getters' \subseteq Consumers /\ Putters' \subseteq Producers
  BY DEF Getters, Putters
<1> QED
  BY <1>1, FS_Subset, FS_CardinalityType, ThreadsFinite

\* What is known of a state in which everyone takes all.
LEMMA SleepFacts ==
  ASSUME FirstInv
  PROVE  /\ ShapeInv /\ RingInv /\ CallsOK /\ pc \in [Threads -> Places]
         /\ Producers \cap Consumers = {}
         /\ head \in Nat /\ tail \in Nat /\ head <= tail /\ tail - head <= Size
         /\ head_seq \in Nat /\ tail_seq \in Nat /\ head_seq <= tail_seq
         /\ Size \in Nat \ {0} /\ Header \in Nat \ {0}
BY FirstAssumption DEF FirstInv, ShapeInv, RingInv

LEMMA PutSleep ==
  ASSUME FirstInv, EveryoneTakesAll, SleepInv, NEW t \in Threads, Put(t)
  PROVE  SleepInv'
<1>a. /\ CallsOK /\ pc \in [Threads -> Places] /\ Producers \cap Consumers = {}
      /\ head \in Nat /\ tail \in Nat /\ head <= tail /\ tail - head <= Size
      /\ head_seq \in Nat /\ tail_seq \in Nat /\ head_seq <= tail_seq
      /\ Size \in Nat \ {0} /\ Header \in Nat \ {0}
  BY SleepFacts
<1>b. /\ NobodySkips /\ EnoughGetters
      /\ \A len \in Nat : workload.lengths = {len} => EnoughPutters(len)
  BY DEF SleepInv
<1>1. /\ pc[t] = "put" /\ Ends(t, "readable")
      /\ tail_seq' = tail_seq + 1 /\ tail' = tail + arg[t] + Header
      /\ UNCHANGED <<head, head_seq, workload>>
  BY ReturnEnds DEF Put
<1>2. t \in Producers /\ t \notin Consumers /\ arg[t] \in workload.lengths /\ t \in Putters
  BY <1>a, <1>1, PutShape DEF FirstInv, Putters
<1>3. /\ pc'[t] = "idle"
      /\ \A p \in Producers : p # t => pc'[p] = pc[p]
      /\ \/ WaitsOn("readable") = {} /\ \A c \in Consumers : pc'[c] = pc[c]
         \/ \E s \in Consumers : /\ pc[s] = "readable" /\ pc'[s] = "get"
                                 /\ \A c \in Consumers : c # s => pc'[c] = pc[c]
  <2>1. CASE WaitsOn("readable") = {} /\ pc' = [pc EXCEPT ![t] = "idle"]
    BY <1>a, <1>2, <2>1 DEF Threads
  <2>2. ASSUME NEW s \in WaitsOn("readable"),
               pc' = [[pc EXCEPT ![t] = "idle"] EXCEPT ![s] = Woken(s, "readable")]
        PROVE  <1>3!1 /\ <1>3!2 /\ <1>3!3
    <3>1. /\ s \in Threads /\ pc[s] = "readable" /\ s \notin Producers /\ s \in Consumers
          /\ Woken(s, "readable") = "get" /\ s # t
      BY <1>a, <1>1, <2>2, WokenIs DEF Threads
    <3>2. /\ pc'[t] = "idle" /\ pc'[s] = "get"
          /\ \A u \in Threads : u # s /\ u # t => pc'[u] = pc[u]
      BY <1>a, <2>2, <3>1
    <3> QED
      BY <1>2, <3>1, <3>2 DEF Threads
  <2> QED
    BY <1>1, <2>1, <2>2 DEF Ends
<1>4. NobodySkips'
  BY <1>b, <1>3 DEF NobodySkips
<1>5. EnoughGetters'
  <2> SUFFICES ASSUME \E c \in Consumers : pc'[c] = "readable"
               PROVE  tail_seq' - head_seq' <= Cardinality(Getters')
    BY DEF EnoughGetters
  <2>1. WaitsOn("readable") # {} /\ \E c \in Consumers : pc[c] = "readable"
    BY <1>3 DEF WaitsOn, Threads
  <2>2. PICK s \in Consumers : /\ pc[s] = "readable" /\ pc'[s] = "get"
                               /\ \A c \in Consumers : c # s => pc'[c] = pc[c]
    BY <1>3, <2>1
  <2>3. Getters' = Getters \cup {s} /\ s \notin Getters
    BY <2>2 DEF Getters
  <2>4. Cardinality(Getters') = Cardinality(Getters) + 1
    BY <2>3, CallersFinite, FS_AddElement
  <2>5. tail_seq - head_seq <= Cardinality(Getters)
    BY <1>b, <2>1 DEF EnoughGetters
  <2> QED
    BY <1>a, <1>1, <2>4, <2>5, CallersFinite
<1>6. ASSUME NEW len \in Nat, workload.lengths = {len},
             \E p \in Producers : pc'[p] = "writeable"
      PROVE  Size - (tail' - head') < (Cardinality(Putters') + 1) * (len + Header)
  <2>1. \E p \in Producers : pc[p] = "writeable"
    BY <1>3, <1>6
  <2>2. Size - (tail - head) < (Cardinality(Putters) + 1) * (len + Header)
    BY <1>b, <1>6, <2>1 DEF EnoughPutters
  <2>3. Putters' = Putters \ {t}
    BY <1>3 DEF Putters
  <2>4. Cardinality(Putters') = Cardinality(Putters) - 1
    BY <1>2, <2>3, CallersFinite, FS_RemoveElement
  <2>5. arg[t] = len
    BY <1>2, <1>6
  <2> DEFINE n == Cardinality(Putters')
             k == len + Header
  <2>6. n \in Nat /\ k \in Nat /\ n + 1 \in Nat
    BY <1>a, CallersFinite
  <2>7. Size - (tail - head) < ((n + 1) + 1) * k
    <3>1. Cardinality(Putters) = n + 1
      BY <2>4, CallersFinite
    <3> QED
      BY <2>2, <3>1
  <2>8. tail' = tail + k
    BY <1>1, <1>a, <2>5
  <2> HIDE DEF n, k
  <2>9. ((n + 1) + 1) * k = (n + 1) * k + k /\ (n + 1) * k \in Nat
    BY <2>6, TimesIs
  <2>10. Size - (tail' - head') < (n + 1) * k
    <3> DEFINE y == (n + 1) * k
    <3>1. y \in Nat /\ Size - (tail - head) < y + k
      BY <2>7, <2>9
    <3> HIDE DEF y
    <3>2. Size - (tail' - head') < y
      BY <1>a, <1>1, <2>6, <2>8, <3>1
    <3> QED
      BY <3>2 DEF y
  <2> QED
    BY <2>10 DEF n, k
<1>7. \A len \in Nat : workload'.lengths = {len} => EnoughPutters(len)'
  BY <1>1, <1>6 DEF EnoughPutters
<1> QED
  BY <1>4, <1>5, <1>7 DEF SleepInv

LEMMA GetSleep ==
  ASSUME FirstInv, EveryoneTakesAll, SleepInv, NEW t \in Threads, Get(t)
  PROVE  SleepInv'
<1>a. /\ CallsOK /\ pc \in [Threads -> Places] /\ Producers \cap Consumers = {}
      /\ head \in Nat /\ tail \in Nat /\ head <= tail /\ tail - head <= Size
      /\ head_seq \in Nat /\ tail_seq \in Nat /\ head_seq <= tail_seq
      /\ Size \in Nat \ {0} /\ Header \in Nat \ {0} /\ ShapeInv /\ RingInv
  BY SleepFacts
<1>b. /\ NobodySkips /\ EnoughGetters
      /\ \A len \in Nat : workload.lengths = {len} => EnoughPutters(len)
  BY DEF SleepInv
<1>1. /\ pc[t] \in {"get", "recheck"} /\ Ends(t, "writeable")
      /\ head_seq' = head_seq + 1 /\ tail_seq' = tail_seq /\ workload' = workload
  BY ReturnEnds DEF Get, Looks
<1>2. t \in Consumers /\ t \notin Producers /\ pc[t] = "get" /\ t \in Getters
  BY <1>a, <1>b, <1>1, GetShape DEF NobodySkips, Getters
<1>c. \A s \in WaitsOn("writeable") : s \in Producers
  BY <1>b DEF WaitsOn, Threads, NobodySkips
<1>3. /\ pc'[t] = "idle"
      /\ \A c \in Consumers : c # t => pc'[c] = pc[c]
      /\ \/ WaitsOn("writeable") = {} /\ \A p \in Producers : pc'[p] = pc[p]
         \/ \E s \in Producers : /\ pc[s] = "writeable" /\ pc'[s] = "put"
                                 /\ \A p \in Producers : p # s => pc'[p] = pc[p]
  <2>1. CASE WaitsOn("writeable") = {} /\ pc' = [pc EXCEPT ![t] = "idle"]
    BY <1>a, <1>2, <2>1 DEF Threads
  <2>2. ASSUME NEW s \in WaitsOn("writeable"),
               pc' = [[pc EXCEPT ![t] = "idle"] EXCEPT ![s] = Woken(s, "writeable")]
        PROVE  <1>3!1 /\ <1>3!2 /\ <1>3!3
    <3>1. /\ s \in Threads /\ pc[s] = "writeable" /\ s \in Producers /\ s \notin Consumers
          /\ Woken(s, "writeable") = "put" /\ s # t
      BY <1>a, <1>c, <1>2, <2>2, WokenIs
    <3>2. /\ pc'[t] = "idle" /\ pc'[s] = "put"
          /\ \A u \in Threads : u # s /\ u # t => pc'[u] = pc[u]
      BY <1>a, <2>2, <3>1
    <3> QED
      BY <1>2, <3>1, <3>2 DEF Threads
  <2> QED
    BY <1>1, <2>1, <2>2 DEF Ends
<1>4. NobodySkips'
  BY <1>b, <1>3 DEF NobodySkips
<1>5. EnoughGetters'
  <2> SUFFICES ASSUME \E c \in Consumers : pc'[c] = "readable"
               PROVE  tail_seq' - head_seq' <= Cardinality(Getters')
    BY DEF EnoughGetters
  <2>1. \E c \in Consumers : pc[c] = "readable"
    BY <1>3
  <2>2. Getters' = Getters \ {t}
    BY <1>3 DEF Getters
  <2>3. Cardinality(Getters') = Cardinality(Getters) - 1
    BY <1>2, <2>2, CallersFinite, FS_RemoveElement
  <2>4. tail_seq - head_seq <= Cardinality(Getters)
    BY <1>b, <2>1 DEF EnoughGetters
  <2> QED
    BY <1>a, <1>1, <2>3, <2>4, CallersFinite
<1>6. ASSUME NEW len \in Nat, workload.lengths = {len},
             \E p \in Producers : pc'[p] = "writeable"
      PROVE  Size - (tail' - head') < (Cardinality(Putters') + 1) * (len + Header)
  <2>1. WaitsOn("writeable") # {} /\ \E p \in Producers : pc[p] = "writeable"
    BY <1>3, <1>6 DEF WaitsOn, Threads
  <2>2. Size - (tail - head) < (Cardinality(Putters) + 1) * (len + Header)
    BY <1>b, <1>6, <2>1 DEF EnoughPutters
  <2>3. PICK s \in Producers : /\ pc[s] = "writeable" /\ pc'[s] = "put"
                               /\ \A p \in Producers : p # s => pc'[p] = pc[p]
    BY <1>3, <2>1
  <2>4. Putters' = Putters \cup {s} /\ s \notin Putters
    BY <2>3 DEF Putters
  <2>5. Cardinality(Putters') = Cardinality(Putters) + 1
    BY <2>4, CallersFinite, FS_AddElement
  <2>6. Taken.len = len /\ tail' - head' = tail - head - Taken.len - Header
    <3>1. tail # head
      BY <1>a DEF Get
    <3>2. Taken = [seq |-> head_seq, len |-> log[head_seq + 1]] /\ log[head_seq + 1] \in {len}
      BY <1>a, <1>6, <3>1, FirstIs
    <3> QED
      BY <3>2, GetPending
  <2> DEFINE n == Cardinality(Putters)
             k == len + Header
             y == (n + 1) * k
  <2>7. n \in Nat /\ k \in Nat /\ n + 1 \in Nat
    BY <1>a, CallersFinite
  <2>8. ((n + 1) + 1) * k = y + k /\ y \in Nat
    <3> HIDE DEF n, k
    <3> QED
      BY <2>7, TimesIs
  <2>9. Size - (tail - head) < y /\ tail' - head' = tail - head - k
    BY <1>a, <2>2, <2>6
  <2>10. Size - (tail' - head') < y + k
    <3> HIDE DEF y, k
    <3> QED
      BY <1>a, <2>7, <2>8, <2>9
  <2> QED
    BY <2>5, <2>8, <2>10
<1>7. \A len \in Nat : workload'.lengths = {len} => EnoughPutters(len)'
  BY <1>1, <1>6 DEF EnoughPutters
<1> QED
  BY <1>4, <1>5, <1>7 DEF SleepInv

\* A producer that waits has found no room for a message; one that calls, or
\* wakes, is one more on the way.
LEMMA PutWaitsSleep ==
  ASSUME FirstInv, EveryoneTakesAll, SleepInv, NEW t \in Threads, PutWaits(t)
  PROVE  SleepInv'
<1>a. /\ CallsOK /\ pc \in [Threads -> Places] /\ Producers \cap Consumers = {}
      /\ head \in Nat /\ tail \in Nat /\ head <= tail /\ tail - head <= Size
      /\ Size \in Nat \ {0} /\ Header \in Nat \ {0}
  BY SleepFacts
<1>b. /\ NobodySkips /\ EnoughGetters
      /\ \A len \in Nat : workload.lengths = {len} => EnoughPutters(len)
  BY DEF SleepInv
<1>1. /\ pc[t] = "put" /\ ~Room(arg[t]) /\ pc' = [pc EXCEPT ![t] = "writeable"]
      /\ UNCHANGED <<head, tail, head_seq, tail_seq, workload>>
  BY DEF PutWaits, Wait, indices
<1>2. t \in Producers /\ t \notin Consumers /\ arg[t] \in workload.lengths
  BY <1>a, <1>1 DEF CallsOK, Threads
<1>3. \A c \in Consumers : pc'[c] = pc[c]
  BY <1>a, <1>1, <1>2 DEF Threads
<1>4. NobodySkips' /\ EnoughGetters'
  BY <1>b, <1>1, <1>3 DEF NobodySkips, EnoughGetters, Getters
<1>5. ASSUME NEW len \in Nat, workload.lengths = {len}
      PROVE  Size - (tail - head) < (Cardinality(Putters') + 1) * (len + Header)
  <2>1. arg[t] = len
    BY <1>2, <1>5
  <2> DEFINE n == Cardinality(Putters')
             k == len + Header
  <2>2. n \in Nat /\ k \in Nat
    BY <1>a, CallersFinite
  <2>3. Size - (tail - head) < k
    BY <1>a, <1>1, <2>1 DEF Room
  <2> HIDE DEF n, k
  <2>4. (n + 1) * k = n * k + k /\ n * k \in Nat
    BY <2>2, TimesIs
  <2> DEFINE y == n * k
  <2>5. y \in Nat /\ (n + 1) * k = y + k
    BY <2>4
  <2> HIDE DEF y
  <2>6. Size - (tail - head) < y + k
    BY <1>a, <2>2, <2>3, <2>5
  <2>7. Size - (tail - head) < (n + 1) * k
    BY <2>5, <2>6
  <2> QED
    BY <2>7 DEF n, k
<1>6. \A len \in Nat : workload'.lengths = {len} => EnoughPutters(len)'
  BY <1>1, <1>5 DEF EnoughPutters
<1> QED
  BY <1>4, <1>6 DEF SleepInv

\* Steps that add to those on their way, and leave the queue and the sleepers.
LEMMA MoreSleep ==
  ASSUME FirstInv, EveryoneTakesAll, SleepInv,
         UNCHANGED <<head, tail, head_seq, tail_seq, workload>>, NobodySkips',
         \A c \in Consumers : pc'[c] = "readable" => pc[c] = "readable",
         \A p \in Producers : pc'[p] = "writeable" => pc[p] = "writeable",
         Getters \subseteq Getters', Putters \subseteq Putters'
  PROVE  SleepInv'
<1>a. /\ head \in Nat /\ tail \in Nat /\ head_seq \in Nat /\ tail_seq \in Nat
      /\ Size \in Nat \ {0} /\ Header \in Nat \ {0}
  BY SleepFacts
<1>b. /\ NobodySkips /\ EnoughGetters
      /\ \A len \in Nat : workload.lengths = {len} => EnoughPutters(len)
  BY DEF SleepInv
<1>1. /\ Cardinality(Getters) <= Cardinality(Getters')
      /\ Cardinality(Putters) <= Cardinality(Putters')
  BY CallersFinite, FS_Subset
<1>2. EnoughGetters'
  <2> SUFFICES ASSUME \E c \in Consumers : pc'[c] = "readable"
               PROVE  tail_seq' - head_seq' <= Cardinality(Getters')
    BY DEF EnoughGetters
  <2>1. tail_seq - head_seq <= Cardinality(Getters)
    BY <1>b DEF EnoughGetters
  <2> QED
    BY <1>a, <1>1, <2>1, CallersFinite
<1>3. ASSUME NEW len \in Nat, workload.lengths = {len},
             \E p \in Producers : pc'[p] = "writeable"
      PROVE  Size - (tail - head) < (Cardinality(Putters') + 1) * (len + Header)
  <2> DEFINE n == Cardinality(Putters)
             m == Cardinality(Putters')
             k == len + Header
  <2>1. n \in Nat /\ m \in Nat /\ k \in Nat /\ n <= m
    BY <1>a, <1>1, CallersFinite
  <2>2. Size - (tail - head) < (n + 1) * k
    BY <1>b, <1>3 DEF EnoughPutters
  <2> HIDE DEF n, m, k
  <2>3. (n + 1) * k <= (m + 1) * k
    <3>1. PICK d \in Nat : m + 1 = d + (n + 1)
      <4>1. m - n \in Nat /\ m + 1 = (m - n) + (n + 1)
        BY <2>1
      <4> QED
        BY <4>1
    <3>2. (d + (n + 1)) * k = d * k + (n + 1) * k
      BY <2>1, <3>1
    <3>3. d * k \in Nat /\ (n + 1) * k \in Nat
      BY <2>1, <3>1, TimesIs
    <3> QED
      BY <3>1, <3>2, <3>3
  <2>4. (n + 1) * k \in Nat /\ (m + 1) * k \in Nat
    BY <2>1, TimesIs
  <2>5. Size - (tail - head) < (m + 1) * k
    BY <1>a, <2>2, <2>3, <2>4
  <2> QED
    BY <2>5 DEF m, k
<1>4. \A len \in Nat : workload'.lengths = {len} => EnoughPutters(len)'
  BY <1>3 DEF EnoughPutters
<1> QED
  BY <1>2, <1>4 DEF SleepInv

LEMMA CallSleep ==
  ASSUME FirstInv, EveryoneTakesAll, SleepInv, NEW t \in Threads, CallPut(t) \/ CallGet(t)
  PROVE  SleepInv'
<1>a. pc \in [Threads -> Places] /\ Producers \cap Consumers = {} /\ NobodySkips
  BY SleepFacts DEF SleepInv
<1>1. /\ UNCHANGED <<head, tail, head_seq, tail_seq, workload>> /\ pc[t] = "idle"
      /\ pc' = [pc EXCEPT ![t] = "put"] \/ pc' = [pc EXCEPT ![t] = "get"]
  BY DEF CallPut, CallGet, indices
<1>2. /\ pc'[t] \in {"put", "get"}
      /\ \A s \in Threads : s # t => pc'[s] = pc[s]
  BY <1>a, <1>1
<1>3. /\ NobodySkips' /\ Getters \subseteq Getters' /\ Putters \subseteq Putters'
      /\ \A c \in Consumers : pc'[c] = "readable" => pc[c] = "readable"
      /\ \A p \in Producers : pc'[p] = "writeable" => pc[p] = "writeable"
  BY <1>a, <1>1, <1>2 DEF NobodySkips, Getters, Putters, Threads
<1> QED
  BY <1>1, <1>3, MoreSleep

LEMMA WakeupSleep ==
  ASSUME FirstInv, EveryoneTakesAll, SleepInv, NEW t \in Threads, SpuriousWakeup(t)
  PROVE  SleepInv'
<1>a. /\ CallsOK /\ pc \in [Threads -> Places] /\ Producers \cap Consumers = {} /\ NobodySkips
  BY SleepFacts DEF SleepInv
<1>1. /\ UNCHANGED <<head, tail, head_seq, tail_seq, workload>>
      /\ pc[t] \in {"readable", "writeable"} /\ pc' = [pc EXCEPT ![t] = Woken(t, pc[t])]
  BY DEF SpuriousWakeup, indices
<1>2. Woken(t, pc[t]) = IF t \in Producers THEN "put" ELSE "get"
  BY <1>a, <1>1 DEF Woken, NobodySkips, Threads
<1>3. /\ pc'[t] = IF t \in Producers THEN "put" ELSE "get"
      /\ \A s \in Threads : s # t => pc'[s] = pc[s]
  BY <1>a, <1>1, <1>2
<1>4. /\ NobodySkips' /\ Getters \subseteq Getters' /\ Putters \subseteq Putters'
      /\ \A c \in Consumers : pc'[c] = "readable" => pc[c] = "readable"
      /\ \A p \in Producers : pc'[p] = "writeable" => pc[p] = "writeable"
  BY <1>a, <1>1, <1>3 DEF NobodySkips, Getters, Putters, Threads
<1> QED
  BY <1>1, <1>4, MoreSleep

LEMMA GetWaitsSleep ==
  ASSUME FirstInv, EveryoneTakesAll, SleepInv, NEW t \in Threads, GetWaits(t)
  PROVE  SleepInv'
<1>a. /\ CallsOK /\ pc \in [Threads -> Places] /\ Producers \cap Consumers = {}
      /\ head \in Nat /\ tail \in Nat /\ head_seq \in Nat /\ tail_seq \in Nat
      /\ ShapeInv /\ RingInv
  BY SleepFacts
<1>b. /\ NobodySkips
      /\ \A len \in Nat : workload.lengths = {len} => EnoughPutters(len)
  BY DEF SleepInv
<1>1. /\ pc[t] \in {"get", "recheck"} /\ tail - head = 0
      /\ pc' = [pc EXCEPT ![t] = "readable"]
      /\ UNCHANGED <<head, tail, head_seq, tail_seq, workload>>
  BY DEF GetWaits, Looks, Wait, indices
<1>2. t \in Consumers /\ t \notin Producers
  BY <1>a, <1>1 DEF CallsOK, Threads
<1>3. /\ \A p \in Producers : pc'[p] = pc[p]
      /\ pc'[t] = "readable" /\ \A c \in Consumers : c # t => pc'[c] = pc[c]
  BY <1>a, <1>1, <1>2 DEF Threads
<1>4. NobodySkips'
  BY <1>b, <1>3 DEF NobodySkips
<1>5. EnoughGetters'
  <2>1. tail_seq = head_seq
    BY <1>a, <1>1, FirstIs
  <2>2. tail_seq' - head_seq' <= Cardinality(Getters')
    BY <1>a, <1>1, <2>1, CallersFinite
  <2> QED
    BY <2>2 DEF EnoughGetters
<1>6. \A len \in Nat : workload'.lengths = {len} => EnoughPutters(len)'
  BY <1>b, <1>1, <1>3 DEF EnoughPutters, Putters
<1> QED
  BY <1>4, <1>5, <1>6 DEF SleepInv

\* No message is too long for anybody.
LEMMA NoneTooLong ==
  ASSUME FirstInv, EveryoneTakesAll, SleepInv, NEW t \in Threads
  PROVE  ~TooLong(t) /\ ~StillThere(t)
<1>a. /\ CallsOK /\ NobodySkips /\ head \in Nat /\ tail \in Nat
      /\ ShapeInv /\ RingInv /\ workload \in Workloads
  BY SleepFacts DEF SleepInv, ShapeInv
<1>1. ASSUME pc[t] \in {"get", "recheck"}
      PROVE  t \in Consumers /\ arg[t] \in workload.maxes
  BY <1>a, <1>1 DEF CallsOK, Threads
<1>2. ~StillThere(t)
  BY <1>a, <1>1 DEF StillThere, NobodySkips
<1>3. ~TooLong(t)
  <2> SUFFICES ASSUME TooLong(t) PROVE FALSE
    OBVIOUS
  <2>1. pc[t] \in {"get", "recheck"} /\ tail # head /\ First.len > arg[t]
    BY <1>a DEF TooLong, Looks
  <2>2. First.len \in workload.lengths /\ First.len \in Nat
    BY <1>a, <2>1, FirstIs
  <2>3. arg[t] \in workload.maxes /\ arg[t] \in Nat
    BY <1>a, <1>1, <2>1, WorkloadIs
  <2> QED
    BY <2>1, <2>2, <2>3 DEF EveryoneTakesAll
<1> QED
  BY <1>2, <1>3

LEMMA InitSleep == Init => SleepInv
<1> SUFFICES ASSUME Init PROVE SleepInv
  OBVIOUS
<1>1. \A t \in Producers \cup Consumers : pc[t] = "idle"
  BY DEF Init, Threads
<1> QED
  BY <1>1 DEF SleepInv, NobodySkips, EnoughGetters, EnoughPutters

LEMMA SleepStep == FirstInv /\ SleepInv /\ [Next]_vars => SleepInv'
<1> SUFFICES ASSUME FirstInv, SleepInv, [Next]_vars, EveryoneTakesAll' PROVE SleepInv'
  BY DEF SleepInv
<1>1. workload' = workload
  BY DEF Next, Step, Put, Get, PutWaits, GetWaits, TooLong, StillThere, CallPut, CallGet,
         SpuriousWakeup, vars
<1>2. EveryoneTakesAll
  BY <1>1 DEF EveryoneTakesAll
<1>3. CASE UNCHANGED vars
  <2>1. UNCHANGED <<head, tail, head_seq, tail_seq, workload, pc>>
    BY <1>3 DEF vars, indices
  <2> QED
    BY <2>1 DEF SleepInv, NobodySkips, EnoughGetters, EnoughPutters, Getters, Putters,
                EveryoneTakesAll
<1>4. Next \/ UNCHANGED vars
  OBVIOUS
<1>5. CASE Next
  BY <1>2, <1>5, PutSleep, GetSleep, PutWaitsSleep, GetWaitsSleep, CallSleep, WakeupSleep,
     NoneTooLong DEF Next, Step
<1> QED
  BY <1>3, <1>4, <1>5

\* When nobody runs and every consumer takes every message, a consumer sleeps
\* only over an empty buffer and, if all messages are as long, a producer only
\* over one without room: one signal for each message put or taken is enough.
THEOREM FirstNobodySleepsOver == Spec => []NobodySleepsOver
<1>1. ASSUME FirstInv, SleepInv PROVE NobodySleepsOver
  <2> SUFFICES ASSUME Quiet, EveryoneTakesAll, NEW t \in Threads, Asleep(t)
               PROVE  IF t \in Consumers THEN Empty
                      ELSE Cardinality(workload.lengths) = 1 => ~Room(arg[t])
    BY DEF NobodySleepsOver
  <2>a. /\ CallsOK /\ ShapeInv /\ RingInv /\ Producers \cap Consumers = {}
        /\ head \in Nat /\ tail \in Nat /\ head <= tail /\ tail - head <= Size
        /\ head_seq \in Nat /\ tail_seq \in Nat /\ head_seq <= tail_seq
        /\ Size \in Nat \ {0} /\ Header \in Nat \ {0}
    BY <1>1, SleepFacts
  <2>b. /\ NobodySkips /\ EnoughGetters
        /\ \A len \in Nat : workload.lengths = {len} => EnoughPutters(len)
    BY <1>1 DEF SleepInv
  <2>1. Getters = {} /\ Putters = {}
    BY DEF Getters, Putters, Quiet, Asleep, Threads
  <2>2. Cardinality(Getters) = 0 /\ Cardinality(Putters) = 0
    BY <2>1, FS_EmptySet
  <2>3. CASE t \in Consumers
    <3>1. pc[t] = "readable"
      BY <2>b, <2>3 DEF Asleep, NobodySkips
    <3>2. tail_seq - head_seq <= 0
      BY <2>b, <2>2, <2>3, <3>1 DEF EnoughGetters
    <3>3. tail_seq = head_seq
      BY <2>a, <3>2
    <3> QED
      BY <2>a, <2>3, <3>3, FirstIs DEF Empty
  <2>4. CASE t \notin Consumers
    <3> SUFFICES ASSUME Cardinality(workload.lengths) = 1 PROVE ~Room(arg[t])
      BY <2>4
    <3>1. t \in Producers /\ pc[t] = "writeable" /\ arg[t] \in workload.lengths
      BY <2>a, <2>4 DEF Threads, CallsOK, Asleep
    <3>2. \A len \in workload.lengths : len \in Nat /\ len <= Size
      BY <2>a, WorkloadIs DEF ShapeInv
    <3>3. IsFiniteSet(workload.lengths)
      <4>1. workload.lengths \subseteq 0..Size
        BY <2>a, <3>2
      <4>2. IsFiniteSet(0..Size)
        BY <2>a, FS_Interval
      <4> QED
        BY <4>1, <4>2, FS_Subset
    <3>4. PICK len : workload.lengths = {len}
      BY <3>3, FS_Singleton
    <3>5. arg[t] = len /\ len \in Nat
      BY <3>1, <3>2, <3>4
    <3>6. Size - (tail - head) < (0 + 1) * (len + Header)
      BY <2>b, <2>2, <3>1, <3>4, <3>5 DEF EnoughPutters
    <3> QED
      BY <2>a, <3>5, <3>6 DEF Room
  <2> QED
    BY <2>3, <2>4
<1>2. FirstInv /\ SleepInv => NobodySleepsOver
  BY <1>1
<1> QED
  BY <1>2, FirstAlways, InitSleep, SleepStep, PTL DEF Spec
=============================================================================
