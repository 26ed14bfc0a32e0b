---------------------------- MODULE BarrierProofs ----------------------------
(***************************************************************************)
(* The barriers, for any number of threads: their counters do not wrap,    *)
(* and for as many users as a group has they let nobody through early,     *)
(* leave nobody asleep, and are destroyed only when everybody is out.      *)
(***************************************************************************)
EXTENDS Barriers, FiniteSetTheorems, TLAPS

Outsiders  == {"idle", "notify", "await", "ending", "ended", "destroyed"}
Destroyers == {"await", "ending", "ended", "destroyed"}

\* A thread is destroying the barrier, or has destroyed it.
Doomed == \E t \in Threads : pc[t] \in Destroyers

\* The threads that hold a reference: from their arrival until they leave.
Present == {t \in Threads : pc[t] \notin Outsiders}

SeqPlaces == Places \ {"look"}

TicketPlaces ==
  {"idle", "sleep", "asleep", "last", "wake", "leave", "notify", "look"} \cup Destroyers

\* One destroyer at most, and when everybody has made the last call.
OneDestroyer ==
  /\ \A t \in Threads : pc[t] # "idle" => t \in setup.users
  /\ Doomed => \A s \in setup.users : calls[s] = setup.rounds
  /\ \A s, t \in Threads : {pc[s], pc[t]} \subseteq Destroyers => s = t

\* refcount counts those present, and one more until the barrier is destroyed.
RefExact ==
  IF Ticket
  THEN refcount = 1 /\ ~mixed /\ pc \in [Threads -> TicketPlaces]
  ELSE /\ refcount = Cardinality(Present) + (IF Doomed THEN 0 ELSE 1)
       /\ pc \in [Threads -> SeqPlaces]

TypeInv == TypeOK /\ OneDestroyer /\ RefExact

\* Nobody arrives, leaves or begins to destroy the barrier.
Stays ==
  \A t \in Threads : /\ pc'[t] \in Outsiders <=> pc[t] \in Outsiders
                     /\ pc'[t] \in Destroyers <=> pc[t] \in Destroyers
                     /\ pc'[t] # "idle" => pc[t] # "idle"

-----------------------------------------------------------------------------
(* Words that wrap around, and the sets the invariants count.              *)

LEMMA ModIs ==
  ASSUME NEW x \in 0..(2 * Mod - 1)
  PROVE  x % Mod = IF x < Mod THEN x ELSE x - Mod
<1>0. Mod \in Nat \ {0}
  BY FS_CardinalityType, BarrierAssumption
<1>1. CASE x < Mod
  BY <1>0, <1>1
<1>2. CASE x >= Mod
  <2>1. x - Mod \in 0..(Mod - 1)
    BY <1>0, <1>2
  <2>2. x = 1 * Mod + (x - Mod)
    BY <1>0
  <2> QED
    BY <1>0, <1>2, <2>1, <2>2
<1> QED
  BY <1>0, <1>1, <1>2

LEMMA ModRange ==
  ASSUME NEW x \in Int
  PROVE  x % Mod \in 0..(Mod - 1)
<1>0. Mod \in Nat \ {0}
  BY FS_CardinalityType, BarrierAssumption
<1> QED
  BY <1>0

LEMMA PresentSize ==
  /\ IsFiniteSet(Present) /\ Cardinality(Present) \in 0..Cardinality(Threads)
  /\ Cardinality(Threads) \in Nat
<1>1. Present \subseteq Threads
  BY DEF Present
<1>2. Cardinality(Threads) \in Nat
  BY FS_CardinalityType, BarrierAssumption
<1>3. IsFiniteSet(Present) /\ Cardinality(Present) <= Cardinality(Threads)
  BY <1>1, FS_Subset, BarrierAssumption
<1>4. Cardinality(Present) \in Nat
  BY <1>3, FS_CardinalityType
<1> QED
  BY <1>2, <1>3, <1>4

LEMMA SomeThread ==
  ASSUME NEW t \in Threads
  PROVE  Cardinality(Threads) + 1 < Mod /\ Mod \in Nat
<1>1. Cardinality(Threads) # 0
  BY FS_EmptySet, BarrierAssumption
<1> QED
  BY <1>1, PresentSize, BarrierAssumption

LEMMA StaysInside ==
  ASSUME Stays
  PROVE  Present' = Present /\ Doomed' = Doomed
BY DEF Stays, Present, Doomed

LEMMA InitType == Init => TypeInv
<1> SUFFICES ASSUME Init PROVE TypeInv
  OBVIOUS
<1>1. Mod \in Nat \ {0} /\ Cardinality(Threads) \in Nat
  BY FS_CardinalityType, BarrierAssumption
<1>2. /\ pc = [t \in Threads |-> "idle"] /\ mine = [t \in Threads |-> 0]
      /\ seen = [t \in Threads |-> 0] /\ calls = [t \in Threads |-> 0]
      /\ setup \in Setups
      /\ seq = 0 /\ flag = 0 /\ count = 0 /\ refcount = 1 /\ mixed = FALSE
      /\ count_next = Mod - 1 /\ count_in = 0 /\ count_out = 0
  BY DEF Init, S!Init, T!Init
<1>3. TypeOK
  <2>1. {count_next, count_in, count_out} \subseteq 0..(Mod - 1)
    BY <1>1, <1>2
  <2>2. refcount \in 0..(Cardinality(Threads) + 1)
    BY <1>1, <1>2
  <2>3. /\ pc \in [Threads -> Places]
        /\ mine \in [Threads -> 0..(Mod - 1)] /\ seen \in [Threads -> 0..(Mod - 1)]
    BY <1>1, <1>2 DEF Places
  <2> QED
    BY <1>1, <1>2, <2>1, <2>2, <2>3 DEF TypeOK
<1>4. Present = {} /\ ~Doomed
  BY <1>2 DEF Present, Doomed, Outsiders, Destroyers
<1>5. Cardinality(Present) = 0
  BY <1>4, FS_EmptySet
<1>6. pc \in [Threads -> SeqPlaces] /\ pc \in [Threads -> TicketPlaces]
  BY <1>2 DEF SeqPlaces, TicketPlaces, Places
<1>7. RefExact
  BY <1>2, <1>4, <1>5, <1>6 DEF RefExact
<1>8. OneDestroyer
  BY <1>2, <1>4 DEF OneDestroyer, Destroyers
<1> QED
  BY <1>3, <1>7, <1>8 DEF TypeInv

-----------------------------------------------------------------------------
(* The pool barrier and the fast barrier.                                  *)

SeqTypes ==
  /\ seq \in 0..(Mod - 1) /\ flag \in {0, 1} /\ count \in Nat
  /\ mine \in [Threads -> 0..(Mod - 1)] /\ mixed \in BOOLEAN
  /\ pc \in [Threads -> SeqPlaces]

\* Nobody is counted or forgotten by a step inside a call, but for Leave.
LEMMA SeqStepStays ==
  ASSUME TypeInv, ~Ticket, NEW t \in Threads, S!Step(t), ~S!Leave(t)
  PROVE  SeqTypes' /\ Stays /\ refcount' = refcount /\ calls' = calls
<1> USE DEF S!Goto, S!words, S!locals, SeqTypes, Stays, Outsiders, Destroyers
<1>a. /\ pc \in [Threads -> SeqPlaces] /\ seq \in 0..(Mod - 1) /\ flag \in {0, 1}
      /\ count \in Nat /\ mine \in [Threads -> 0..(Mod - 1)] /\ mixed \in BOOLEAN
  BY DEF TypeInv, TypeOK, RefExact
<1>b. refcount \in 0..(Cardinality(Threads) + 1) /\ Cardinality(Threads) \in Nat
      /\ 2 * Cardinality(Threads) < Mod /\ Mod \in Nat
  BY PresentSize, BarrierAssumption DEF TypeInv, TypeOK
<1>c. (seq + 1) % Mod \in 0..(Mod - 1)
  BY <1>a, ModRange
<1>1. CASE S!ReadSeq(t)
  BY <1>1, <1>a DEF S!ReadSeq, SeqPlaces, Places
<1>2. CASE S!CountIn(t)
  BY <1>2, <1>a DEF S!CountIn, SeqPlaces, Places
<1>3. CASE S!Gate(t)
  BY <1>3, <1>a DEF S!Gate, SeqPlaces, Places
<1>4. CASE S!Slow(t)
  BY <1>4, <1>a DEF S!Slow, SeqPlaces, Places
<1>5. CASE S!Mark(t)
  BY <1>5, <1>a DEF S!Mark, SeqPlaces, Places
<1>6. CASE S!Sleep(t)
  BY <1>6, <1>a DEF S!Sleep, SeqPlaces, Places
<1>7. CASE S!Last(t)
  BY <1>7, <1>a, <1>c DEF S!Last, SeqPlaces, Places
<1>8. CASE S!WakeAll(t)
  BY <1>8, <1>a DEF S!WakeAll, SeqPlaces, Places
<1>9. CASE S!Notify(t)
  BY <1>9, <1>a DEF S!Notify, SeqPlaces, Places
<1>10. CASE S!Await(t)
  <2>1. refcount \in 0..(Mod - 1)
    BY <1>b, SomeThread
  <2> QED
    BY <1>10, <1>a, <2>1 DEF S!Await, SeqPlaces, Places
<1>11. CASE S!AwaitSleep(t)
  BY <1>11, <1>a DEF S!AwaitSleep, SeqPlaces, Places
<1> QED
  BY <1>1, <1>2, <1>3, <1>4, <1>5, <1>6, <1>7, <1>8, <1>9, <1>10, <1>11 DEF S!Step

-----------------------------------------------------------------------------
(* The ticket barrier.                                                     *)

TicketTypes ==
  /\ {count_next, count_in, count_out} \subseteq 0..(Mod - 1)
  /\ mine \in [Threads -> 0..(Mod - 1)] /\ seen \in [Threads -> 0..(Mod - 1)]
  /\ pc \in [Threads -> TicketPlaces]

LEMMA TicketStepStays ==
  ASSUME TypeInv, Ticket, NEW t \in Threads, T!Step(t), ~T!Leave(t)
  PROVE  TicketTypes' /\ Stays /\ calls' = calls
<1> USE DEF T!Goto, T!words, T!locals, TicketTypes, Stays, Outsiders, Destroyers,
      TicketPlaces
<1>a. TicketTypes
  BY DEF TypeInv, TypeOK, RefExact
<1>b. (count_next + T!Total) % Mod \in 0..(Mod - 1)
  <2>1. setup.count \in Int
    BY BarrierAssumption DEF TypeInv, TypeOK
  <2>2. count_next + T!Total \in Int
    BY <1>a, <2>1 DEF T!Total
  <2> QED
    BY <2>2, ModRange
<1>1. CASE T!Look(t)
  BY <1>1, <1>a DEF T!Look
<1>2. CASE T!Sleep(t)
  BY <1>2, <1>a DEF T!Sleep
<1>3. CASE T!Last(t)
  <2>1. {count_next, count_in, count_out}' \subseteq 0..(Mod - 1)
    BY <1>3, <1>a, <1>b DEF T!Last
  <2> QED
    BY <1>3, <1>a, <2>1 DEF T!Last
<1>4. CASE T!WakeAll(t)
  BY <1>4, <1>a DEF T!WakeAll
<1>5. CASE T!Notify(t)
  BY <1>5, <1>a DEF T!Notify
<1>6. CASE T!Await(t)
  BY <1>6, <1>a DEF T!Await
<1>7. CASE T!AwaitSleep(t)
  BY <1>7, <1>a DEF T!AwaitSleep
<1> QED
  BY <1>1, <1>2, <1>3, <1>4, <1>5, <1>6, <1>7 DEF T!Step

-----------------------------------------------------------------------------
(* Arriving, leaving and destroying.                                       *)

\* Every user has made its last call, and none has begun to destroy.
LEMMA DestroyIsFirst ==
  ASSUME TypeInv, NEW t \in Threads, Destroy(t)
  PROVE  /\ t \in setup.users /\ pc[t] = "idle" /\ ~Doomed
         /\ pc' = [pc EXCEPT ![t] = "await"] /\ setup' = setup /\ calls' = calls
         /\ \A s \in setup.users : calls[s] = setup.rounds
         /\ \A s \in Present : Released(s)
<1> USE DEF S!Goto, T!Goto, S!words, S!locals, T!words, T!locals
<1>1. /\ t \in setup.users
      /\ \A s \in setup.users : /\ calls[s] = setup.rounds
                                /\ Outside(s) \/ Released(s)
                                /\ pc[s] \notin {"await", "ending", "ended", "destroyed"}
      /\ setup' = setup
  BY DEF Destroy
<1>2. pc[t] = "idle" /\ pc' = [pc EXCEPT ![t] = "await"] /\ calls' = calls
  BY DEF Destroy, S!Destroy, T!Destroy
<1>3. \A s \in Threads : pc[s] # "idle" => s \in setup.users
  BY DEF TypeInv, OneDestroyer
<1>4. ~Doomed
  BY <1>1, <1>3 DEF Doomed, Destroyers
<1>5. \A s \in Present : Released(s)
  BY <1>1, <1>3 DEF Present, Outside, Outsiders
<1> QED
  BY <1>1, <1>2, <1>4, <1>5

LEMMA DestroyType ==
  ASSUME TypeInv, NEW t \in Threads, Destroy(t)
  PROVE  TypeInv' /\ Present' = Present /\ Doomed'
<1>a. TypeOK /\ OneDestroyer /\ RefExact /\ pc = [s \in Threads |-> pc[s]]
  BY DEF TypeInv, TypeOK
<1>b. /\ t \in setup.users /\ pc[t] = "idle" /\ ~Doomed
      /\ pc' = [pc EXCEPT ![t] = "await"] /\ setup' = setup /\ calls' = calls
      /\ \A s \in setup.users : calls[s] = setup.rounds
  BY DestroyIsFirst
<1>c. Present' = Present
  BY <1>a, <1>b DEF Present, Outsiders
<1>d. Doomed'
  BY <1>a, <1>b DEF Doomed, Destroyers
<1>1. OneDestroyer'
  BY <1>a, <1>b, <1>d DEF OneDestroyer, Doomed, Destroyers
<1>2. pc' \in [Threads -> Places]
  BY <1>a, <1>b DEF TypeOK, Places
<1>3. CASE Ticket
  <2>1. /\ T!Destroy(t) /\ UNCHANGED seqWords /\ Ticket'
    BY <1>3, <1>b DEF Destroy, Ticket
  <2>2. count_in' \in 0..(Mod - 1)
    BY <2>1, <1>a, ModRange DEF T!Destroy, TypeOK
  <2>3. {count_next, count_in, count_out}' \subseteq 0..(Mod - 1)
    BY <2>1, <2>2, <1>a DEF T!Destroy, TypeOK
  <2>4. TypeOK'
    BY <2>1, <2>3, <1>2, <1>a, <1>b DEF T!Destroy, T!locals, TypeOK, seqWords
  <2>5. RefExact'
    <3>1. pc \in [Threads -> TicketPlaces]
      BY <1>3, <1>a DEF RefExact
    <3>2. pc' \in [Threads -> TicketPlaces]
      BY <3>1, <1>b DEF TicketPlaces, Destroyers
    <3> QED
      BY <1>3, <1>a, <2>1, <3>2 DEF RefExact, seqWords
  <2> QED
    BY <1>c, <1>d, <1>1, <2>4, <2>5 DEF TypeInv
<1>4. CASE ~Ticket
  <2>1. /\ S!Destroy(t) /\ UNCHANGED ticketWords /\ ~Ticket'
    BY <1>4, <1>b DEF Destroy, Ticket
  <2>2. refcount = Cardinality(Present) + 1 /\ refcount' = refcount - 1
    BY <1>4, <1>a, <1>b, <2>1 DEF RefExact, S!Destroy
  <2>3. refcount' \in 0..(Cardinality(Threads) + 1)
    BY <2>2, PresentSize
  <2>4. TypeOK'
    BY <2>1, <2>3, <1>2, <1>a, <1>b DEF S!Destroy, S!locals, TypeOK, ticketWords
  <2>5. RefExact'
    <3>1. pc \in [Threads -> SeqPlaces]
      BY <1>4, <1>a DEF RefExact
    <3>2. pc' \in [Threads -> SeqPlaces]
      BY <3>1, <1>b DEF SeqPlaces, Places
    <3>3. refcount' = Cardinality(Present)' + 0
      BY <2>2, <1>c, PresentSize
    <3> QED
      BY <1>d, <2>1, <3>2, <3>3 DEF RefExact
  <2> QED
    BY <1>c, <1>d, <1>1, <2>4, <2>5 DEF TypeInv
<1> QED
  BY <1>3, <1>4

\* A thread that arrives does so before anybody destroys the barrier.
LEMMA EnterType ==
  ASSUME TypeInv, NEW t \in Threads, Enter(t)
  PROVE  /\ TypeInv' /\ t \notin Present /\ Present' = Present \cup {t}
         /\ ~Doomed /\ ~Doomed'
         /\ pc[t] = "idle" /\ pc' = [pc EXCEPT ![t] = IF Ticket THEN "look" ELSE "read"]
<1> USE DEF S!Goto, T!Goto, S!words, S!locals, T!words, T!locals
<1>a. TypeOK /\ OneDestroyer /\ RefExact /\ pc = [s \in Threads |-> pc[s]]
  BY DEF TypeInv, TypeOK
<1>b. /\ t \in setup.users /\ calls[t] < setup.rounds /\ setup' = setup
      /\ pc[t] = "idle" /\ pc' = [pc EXCEPT ![t] = IF Ticket THEN "look" ELSE "read"]
      /\ calls' = [calls EXCEPT ![t] = @ + 1]
  BY DEF Enter, S!Enter, T!Enter
<1>r. setup.rounds \in Nat
  BY <1>a, BarrierAssumption DEF TypeOK
<1>c. ~Doomed
  BY <1>a, <1>b, <1>r DEF OneDestroyer, TypeOK
<1>d. ~Doomed'
  BY <1>a, <1>b, <1>c DEF Doomed, Destroyers
<1>e. t \notin Present /\ Present' = Present \cup {t}
  BY <1>a, <1>b DEF Present, Outsiders
<1>f. Cardinality(Present') = Cardinality(Present) + 1
  BY <1>e, PresentSize, FS_AddElement
<1>g. Present' \subseteq Threads
  BY <1>e DEF Present
<1>h. Cardinality(Present') <= Cardinality(Threads)
  BY <1>g, FS_Subset, BarrierAssumption
<1>1. OneDestroyer'
  BY <1>a, <1>b, <1>c, <1>d DEF OneDestroyer, Doomed, Destroyers
<1>2. pc' \in [Threads -> Places] /\ calls' \in [Threads -> Nat]
  BY <1>a, <1>b DEF TypeOK, Places
<1>3. CASE Ticket
  <2>1. /\ T!Enter(t) /\ UNCHANGED seqWords /\ Ticket'
    BY <1>3, <1>b DEF Enter, Ticket
  <2>2. count_in' \in 0..(Mod - 1)
    BY <2>1, <1>a, ModRange DEF T!Enter, TypeOK
  <2>3. {count_next, count_in, count_out}' \subseteq 0..(Mod - 1)
    BY <2>1, <2>2, <1>a DEF T!Enter, TypeOK
  <2>4. TypeOK'
    BY <2>1, <2>3, <1>2, <1>a, <1>b DEF T!Enter, TypeOK, seqWords
  <2>5. RefExact'
    <3>1. pc \in [Threads -> TicketPlaces]
      BY <1>3, <1>a DEF RefExact
    <3>2. pc' \in [Threads -> TicketPlaces]
      BY <3>1, <1>3, <1>b DEF TicketPlaces, Destroyers
    <3> QED
      BY <1>3, <1>a, <2>1, <3>2 DEF RefExact, seqWords
  <2> QED
    BY <1>b, <1>c, <1>d, <1>e, <1>1, <2>4, <2>5 DEF TypeInv
<1>4. CASE ~Ticket
  <2>1. /\ S!Enter(t) /\ UNCHANGED ticketWords /\ ~Ticket'
    BY <1>4, <1>b DEF Enter, Ticket
  <2>2. refcount = Cardinality(Present) + 1 /\ refcount' = refcount + 1
    BY <1>4, <1>a, <1>c, <2>1 DEF RefExact, S!Enter
  <2>3. refcount' \in 0..(Cardinality(Threads) + 1)
    BY <2>2, <1>f, <1>h, PresentSize
  <2>4. TypeOK'
    BY <2>1, <2>3, <1>2, <1>a, <1>b DEF S!Enter, TypeOK, ticketWords
  <2>5. RefExact'
    <3>1. pc \in [Threads -> SeqPlaces]
      BY <1>4, <1>a DEF RefExact
    <3>2. pc' \in [Threads -> SeqPlaces]
      BY <3>1, <1>4, <1>b DEF SeqPlaces, Places
    <3>3. refcount' = Cardinality(Present)' + 1
      BY <2>2, <1>f, PresentSize
    <3> QED
      BY <1>d, <2>1, <3>2, <3>3 DEF RefExact
  <2> QED
    BY <1>b, <1>c, <1>d, <1>e, <1>1, <2>4, <2>5 DEF TypeInv
<1> QED
  BY <1>3, <1>4

\* Leaving a barrier, of any kind.
Leaves(t) ==
  \/ ~Ticket /\ S!Leave(t) /\ UNCHANGED ticketWords
  \/ Ticket /\ T!Leave(t) /\ UNCHANGED seqWords

LEMMA LeaveType ==
  ASSUME TypeInv, NEW t \in Threads, Leaves(t), setup' = setup
  PROVE  /\ TypeInv' /\ t \in Present /\ Present' = Present \ {t} /\ Doomed' = Doomed
         /\ \E x \in {"idle", "notify"} : pc' = [pc EXCEPT ![t] = x]
<1> USE DEF S!Goto, T!Goto, S!locals, T!locals
<1>a. TypeOK /\ OneDestroyer /\ RefExact /\ pc = [s \in Threads |-> pc[s]]
  BY DEF TypeInv, TypeOK
<1>b. pc[t] = "leave" /\ calls' = calls /\ \E x \in {"idle", "notify"} : pc' = [pc EXCEPT ![t] = x]
  BY DEF Leaves, S!Leave, T!Leave
<1>c. t \in Present /\ Present' = Present \ {t}
  BY <1>a, <1>b DEF Present, Outsiders
<1>d. Doomed' = Doomed
  BY <1>a, <1>b DEF Doomed, Destroyers
<1>e. Cardinality(Present') = Cardinality(Present) - 1 /\ Cardinality(Present) # 0
  BY <1>c, PresentSize, FS_RemoveElement, FS_EmptySet
<1>1. OneDestroyer'
  BY <1>a, <1>b, <1>d DEF OneDestroyer, Destroyers
<1>2. pc' \in [Threads -> Places]
  BY <1>a, <1>b DEF TypeOK, Places
<1>3. CASE Ticket
  <2>1. /\ T!Leave(t) /\ UNCHANGED seqWords /\ Ticket'
    BY <1>3 DEF Leaves, Ticket
  <2>2. count_out' \in 0..(Mod - 1)
    BY <2>1, <1>a, ModRange DEF T!Leave, TypeOK
  <2>3. {count_next, count_in, count_out}' \subseteq 0..(Mod - 1)
    BY <2>1, <2>2, <1>a DEF T!Leave, TypeOK
  <2>4. TypeOK'
    BY <2>1, <2>3, <1>2, <1>a, <1>b DEF T!Leave, TypeOK, seqWords
  <2>5. RefExact'
    <3>1. pc \in [Threads -> TicketPlaces]
      BY <1>3, <1>a DEF RefExact
    <3>2. pc' \in [Threads -> TicketPlaces]
      BY <3>1, <1>b DEF TicketPlaces, Destroyers
    <3> QED
      BY <1>3, <1>a, <2>1, <3>2 DEF RefExact, seqWords
  <2> QED
    BY <1>b, <1>c, <1>d, <1>1, <2>4, <2>5 DEF TypeInv
<1>4. CASE ~Ticket
  <2>1. /\ S!Leave(t) /\ UNCHANGED ticketWords /\ ~Ticket'
    BY <1>4 DEF Leaves, Ticket
  <2>2. /\ refcount = Cardinality(Present) + (IF Doomed THEN 0 ELSE 1)
        /\ refcount' = refcount - 1
    BY <1>4, <1>a, <2>1 DEF RefExact, S!Leave
  <2>3. refcount' = Cardinality(Present)' + (IF Doomed' THEN 0 ELSE 1)
    BY <2>2, <1>d, <1>e, PresentSize
  <2>4. refcount' \in 0..(Cardinality(Threads) + 1)
    BY <2>2, <1>e, PresentSize
  <2>5. TypeOK'
    BY <2>1, <2>4, <1>2, <1>a, <1>b DEF S!Leave, TypeOK, ticketWords
  <2>6. RefExact'
    <3>1. pc \in [Threads -> SeqPlaces]
      BY <1>4, <1>a DEF RefExact
    <3>2. pc' \in [Threads -> SeqPlaces]
      BY <3>1, <1>4, <1>b DEF SeqPlaces, Places
    <3> QED
      BY <2>1, <2>3, <3>2 DEF RefExact
  <2> QED
    BY <1>b, <1>c, <1>d, <1>1, <2>5, <2>6 DEF TypeInv
<1> QED
  BY <1>3, <1>4

\* The other steps inside a call, of any barrier.
LEMMA InnerType ==
  ASSUME TypeInv, NEW t \in Threads, Step(t), ~Leaves(t)
  PROVE  /\ TypeInv' /\ Stays /\ Present' = Present /\ Doomed' = Doomed
         /\ setup' = setup /\ calls' = calls
<1>a. TypeOK /\ OneDestroyer /\ RefExact /\ setup' = setup
  BY DEF TypeInv, Step
<1>1. CASE Ticket
  <2>1. T!Step(t) /\ ~T!Leave(t) /\ UNCHANGED seqWords /\ Ticket'
    BY <1>1, <1>a DEF Step, Leaves, Ticket
  <2>2. TicketTypes' /\ Stays /\ calls' = calls
    BY <2>1, <1>1, TicketStepStays
  <2>3. pc' \in [Threads -> Places]
    BY <2>2 DEF TicketTypes, TicketPlaces, Destroyers, Places
  <2>4. TypeOK'
    BY <1>a, <2>1, <2>2, <2>3 DEF TypeOK, TicketTypes, seqWords
  <2>5. RefExact'
    BY <1>1, <1>a, <2>1, <2>2 DEF RefExact, seqWords, TicketTypes
  <2>6. OneDestroyer'
    BY <1>a, <2>2, StaysInside DEF OneDestroyer, Stays
  <2> QED
    BY <1>a, <2>2, <2>4, <2>5, <2>6, StaysInside DEF TypeInv
<1>2. CASE ~Ticket
  <2>0. S!Step(t) /\ UNCHANGED ticketWords
    BY <1>2 DEF Step
  <2>1. ~S!Leave(t) /\ ~Ticket'
    <3>1. ~Ticket'
      BY <1>2, <1>a DEF Ticket
    <3> QED
      BY <2>0, <1>2, <3>1 DEF Leaves
  <2>2. SeqTypes' /\ Stays /\ refcount' = refcount /\ calls' = calls
    BY <2>0, <2>1, <1>2, SeqStepStays
  <2>3. pc' \in [Threads -> Places]
    BY <2>2 DEF SeqTypes, SeqPlaces
  <2>4. TypeOK'
    BY <1>a, <2>0, <2>1, <2>2, <2>3 DEF TypeOK, SeqTypes, ticketWords
  <2>5. RefExact'
    BY <1>2, <1>a, <2>1, <2>2, StaysInside DEF RefExact, SeqTypes
  <2>6. OneDestroyer'
    BY <1>a, <2>2, StaysInside DEF OneDestroyer, Stays
  <2> QED
    BY <1>a, <2>2, <2>4, <2>5, <2>6, StaysInside DEF TypeInv
<1> QED
  BY <1>1, <1>2

LEMMA StepType == TypeInv /\ [Next]_vars => TypeInv'
<1> SUFFICES ASSUME TypeInv, [Next]_vars PROVE TypeInv'
  OBVIOUS
<1>1. ASSUME NEW t \in Threads, Enter(t) PROVE TypeInv'
  BY <1>1, EnterType
<1>2. ASSUME NEW t \in Threads, Step(t), Leaves(t) PROVE TypeInv'
  BY <1>2, LeaveType DEF Step
<1>3. ASSUME NEW t \in Threads, Step(t), ~Leaves(t) PROVE TypeInv'
  BY <1>3, InnerType
<1>4. ASSUME NEW t \in Threads, Destroy(t) PROVE TypeInv'
  BY <1>4, DestroyType
<1>5. CASE UNCHANGED vars
  BY <1>5 DEF vars, seqWords, ticketWords, TypeInv, TypeOK, OneDestroyer, RefExact,
    Present, Doomed, Ticket
<1> QED
  BY <1>1, <1>2, <1>3, <1>4, <1>5 DEF Next

\* For any barrier, any users and any number of rounds: the variables keep
\* their types.  In particular refcount never falls below zero, for it counts
\* those who are inside and the thread that may still destroy the barrier.
THEOREM BarrierTypeCorrect == Spec => [](TypeOK /\ TypeInv)
<1>1. TypeInv => TypeOK
  BY DEF TypeInv
<1> QED
  BY <1>1, InitType, StepType, PTL DEF Spec

-----------------------------------------------------------------------------
(* The pool barrier and the fast barrier, with as many users as a group    *)
(* has.                                                                    *)

Exact == Cardinality(setup.users) = setup.count

\* Counted into the group that is forming.
Members ==
  {t \in Threads : \/ pc[t] = "last"
                   \/ pc[t] \in {"gate", "mark", "sleep", "asleep"} /\ mine[t] = seq}

\* No group passes while a user is outside of it, so a thread that has read seq
\* finds it unchanged when it is counted, and never finds the group full.
SeqExact ==
  /\ ~mixed
  /\ count = Cardinality(Members)
  /\ \A t \in Threads : /\ pc[t] = "count" => mine[t] = seq
                        /\ pc[t] \notin {"slow", "slowsleep", "slowasleep"}
                        /\ pc[t] = "last" => count = setup.count
  /\ \A s, t \in Threads : pc[s] = "last" /\ pc[t] = "last" => s = t
  /\ count = setup.count => \E t \in Threads : pc[t] = "last"

ExactInv == Exact /\ ~Ticket => SeqExact

LEMMA InitExact == Init => ExactInv
<1> SUFFICES ASSUME Init PROVE SeqExact
  BY DEF ExactInv
<1>1. /\ \A t \in Threads : pc[t] = "idle"
      /\ setup.count \in Nat \ {0} /\ count = 0 /\ ~mixed
  BY BarrierAssumption DEF Init, S!Init
<1>2. Members = {}
  BY <1>1 DEF Members
<1> QED
  BY <1>1, <1>2, FS_EmptySet DEF SeqExact

LEMMA UserSets ==
  ASSUME TypeInv
  PROVE  /\ IsFiniteSet(setup.users) /\ setup.count \in Nat \ {0}
         /\ setup.users \subseteq Threads
         /\ Cardinality(setup.users) \in 0..Cardinality(Threads)
         /\ \A t \in Threads : pc[t] # "idle" => t \in setup.users
         /\ Members \subseteq setup.users /\ IsFiniteSet(Members)
<1>1. setup \in Setups /\ \A t \in Threads : pc[t] # "idle" => t \in setup.users
  BY DEF TypeInv, TypeOK, OneDestroyer
<1>2. setup.users \subseteq Threads /\ setup.count \in Nat \ {0}
  BY <1>1, BarrierAssumption
<1>3. /\ IsFiniteSet(setup.users)
      /\ Cardinality(setup.users) <= Cardinality(Threads)
  BY <1>2, FS_Subset, BarrierAssumption
<1>4. Cardinality(setup.users) \in Nat /\ Cardinality(Threads) \in Nat
  BY <1>3, FS_CardinalityType, BarrierAssumption
<1>5. Members \subseteq setup.users
  BY <1>1 DEF Members
<1>6. IsFiniteSet(Members)
  BY <1>3, <1>5, FS_Subset
<1> QED
  BY <1>1, <1>2, <1>3, <1>4, <1>5, <1>6

\* A set of users that is as large as the group is all of them; one that lacks
\* a user is smaller.
LEMMA AllUsers ==
  ASSUME TypeInv, Exact, NEW Q, Q \subseteq setup.users
  PROVE  /\ IsFiniteSet(Q) /\ Cardinality(Q) \in 0..setup.count
         /\ Cardinality(Q) = setup.count <=> Q = setup.users
<1>1. /\ IsFiniteSet(setup.users) /\ setup.count \in Nat
      /\ Cardinality(setup.users) = setup.count
  BY UserSets DEF Exact
<1>2. IsFiniteSet(Q) /\ Cardinality(Q) <= setup.count
  BY <1>1, FS_Subset
<1>3. Cardinality(Q) = setup.count => Q = setup.users
  BY <1>1, FS_Subset
<1>4. Cardinality(Q) \in Nat
  BY <1>2, FS_CardinalityType
<1> QED
  BY <1>1, <1>2, <1>3, <1>4

LEMMA SeqExactKept ==
  ASSUME SeqExact, UNCHANGED <<count, mixed, setup>>, Members' = Members,
         \A s \in Threads : /\ pc'[s] = "last" <=> pc[s] = "last"
                            /\ pc'[s] = "count" => mine'[s] = seq'
                            /\ pc'[s] \notin {"slow", "slowsleep", "slowasleep"}
  PROVE  SeqExact'
BY DEF SeqExact

\* What a step does to the group that is forming.
LEMMA SeqStepExact ==
  ASSUME TypeInv, Exact, ~Ticket, SeqExact, NEW t \in Threads, S!Step(t), setup' = setup
  PROVE  SeqExact'
<1> USE DEF S!Goto, S!words, S!locals
<1>a. /\ pc \in [Threads -> SeqPlaces] /\ pc = [s \in Threads |-> pc[s]]
      /\ seq \in 0..(Mod - 1) /\ count \in Nat
      /\ mine \in [Threads -> 0..(Mod - 1)] /\ mine = [s \in Threads |-> mine[s]]
  BY DEF TypeInv, TypeOK, RefExact
<1>b. /\ ~mixed /\ count = Cardinality(Members)
      /\ \A s \in Threads : /\ pc[s] = "count" => mine[s] = seq
                            /\ pc[s] \notin {"slow", "slowsleep", "slowasleep"}
                            /\ pc[s] = "last" => count = setup.count
      /\ \A s, u \in Threads : pc[s] = "last" /\ pc[u] = "last" => s = u
      /\ count = setup.count => \E s \in Threads : pc[s] = "last"
  BY DEF SeqExact
<1>u. /\ setup.count \in Nat \ {0} /\ Members \subseteq setup.users
      /\ setup.users \subseteq Threads
      /\ \A s \in Threads : pc[s] # "idle" => s \in setup.users
  BY UserSets
<1>1. CASE S!ReadSeq(t)
  <2>1. Members' = Members
    BY <1>1, <1>a DEF S!ReadSeq, Members
  <2> QED
    BY <1>1, <1>a, <1>b, <2>1, SeqExactKept DEF S!ReadSeq
<1>2. CASE S!CountIn(t)
  <2>1. t \notin Members /\ t \in setup.users /\ pc[t] = "count" /\ mine[t] = seq
    BY <1>2, <1>b, <1>u DEF S!CountIn, Members
  <2>2. count < setup.count
    BY <2>1, <1>b, <1>u, AllUsers
  <2>3. count' = count + 1 /\ seq' = seq /\ mine' = mine
    BY <1>2 DEF S!CountIn
  <2>4. ~mixed'
    BY <1>2, <1>b, <2>1 DEF S!CountIn
  <2>5. CASE count < S!Total
    <3>1. pc' = [pc EXCEPT ![t] = "gate"]
      BY <1>2, <2>5 DEF S!CountIn
    <3>2. Members' = Members \cup {t}
      BY <1>a, <2>1, <2>3, <3>1 DEF Members
    <3>3. Cardinality(Members') = count + 1
      BY <1>b, <2>1, <3>2, UserSets, FS_AddElement
    <3>4. count' # setup.count
      BY <1>a, <1>u, <2>3, <2>5 DEF S!Total
    <3>5. \A s \in Threads : pc[s] # "last"
      BY <1>a, <1>b, <2>2, <1>u
    <3> QED
      BY <1>a, <1>b, <2>3, <2>4, <3>1, <3>3, <3>4, <3>5 DEF SeqExact
  <2>6. CASE count = S!Total
    <3>0. ~(count < S!Total)
      BY <1>a, <2>6
    <3>1. pc' = [pc EXCEPT ![t] = "last"]
      BY <1>2, <2>6, <3>0 DEF S!CountIn
    <3>2. Members' = Members \cup {t}
      BY <1>a, <2>1, <2>3, <3>1 DEF Members
    <3>3. Cardinality(Members') = count + 1
      BY <1>b, <2>1, <3>2, UserSets, FS_AddElement
    <3>4. count' = setup.count
      BY <1>a, <1>u, <2>3, <2>6 DEF S!Total
    <3>5. \A s \in Threads : pc[s] # "last"
      BY <1>a, <1>b, <2>2, <1>u
    <3> QED
      BY <1>a, <1>b, <2>3, <2>4, <3>1, <3>3, <3>4, <3>5 DEF SeqExact
  <2> QED
    BY <1>a, <1>u, <2>2, <2>5, <2>6 DEF S!Total
<1>3. CASE S!Gate(t)
  <2>1. Members' = Members
    BY <1>3, <1>a DEF S!Gate, Members
  <2> QED
    BY <1>3, <1>a, <1>b, <2>1, SeqExactKept DEF S!Gate
<1>4. CASE S!Slow(t)
  BY <1>4, <1>b DEF S!Slow
<1>5. CASE S!Mark(t)
  <2>1. Members' = Members
    BY <1>5, <1>a DEF S!Mark, Members
  <2> QED
    BY <1>5, <1>a, <1>b, <2>1, SeqExactKept DEF S!Mark
<1>6. CASE S!Sleep(t)
  <2>1. pc[t] = "sleep" /\ pc' = [pc EXCEPT ![t] = IF S!SeqIsMine(t) THEN "asleep" ELSE "gate"]
    BY <1>6, <1>b DEF S!Sleep
  <2>2. Members' = Members
    BY <1>6, <1>a, <2>1 DEF S!Sleep, Members
  <2> QED
    BY <1>6, <1>a, <1>b, <2>1, <2>2, SeqExactKept DEF S!Sleep
<1>7. CASE S!Last(t)
  <2>1. /\ pc[t] = "last" /\ \E x \in {"leave", "wake"} : pc' = [pc EXCEPT ![t] = x]
        /\ seq' = (seq + 1) % Mod /\ count' = 0 /\ UNCHANGED <<mine, mixed>>
    BY <1>7 DEF S!Last
  <2>2. Members = setup.users
    BY <2>1, <1>b, <1>u, AllUsers
  <2>3. seq' # seq
    <3>1. 2 < Mod /\ Mod \in Nat
      BY SomeThread, PresentSize, FS_EmptySet, BarrierAssumption
    <3>2. (seq + 1) % Mod = IF seq + 1 < Mod THEN seq + 1 ELSE seq + 1 - Mod
      BY <3>1, <1>a, ModIs
    <3> QED
      BY <3>1, <3>2, <2>1, <1>a
  <2>4. \A s \in Threads : /\ pc'[s] # "last"
                           /\ pc'[s] \notin {"count", "slow", "slowsleep", "slowasleep"}
                           /\ pc'[s] \in {"gate", "mark", "sleep", "asleep"} => mine[s] = seq
    BY <2>1, <2>2, <1>a, <1>b, <1>u DEF Members
  <2>5. Members' = {}
    BY <2>1, <2>3, <2>4 DEF Members
  <2>6. Cardinality(Members') = 0
    BY <2>5, FS_EmptySet
  <2> QED
    BY <1>b, <1>u, <2>1, <2>4, <2>6 DEF SeqExact
<1>8. CASE S!WakeAll(t)
  <2>1. Members' = Members
    BY <1>8, <1>a DEF S!WakeAll, Members
  <2> QED
    BY <1>8, <1>a, <1>b, <2>1, SeqExactKept DEF S!WakeAll
<1>9. CASE S!Leave(t)
  <2>1. Members' = Members
    BY <1>9, <1>a DEF S!Leave, Members
  <2> QED
    BY <1>9, <1>a, <1>b, <2>1, SeqExactKept DEF S!Leave
<1>10. CASE S!Notify(t)
  <2>1. Members' = Members
    BY <1>10, <1>a DEF S!Notify, Members
  <2> QED
    BY <1>10, <1>a, <1>b, <2>1, SeqExactKept DEF S!Notify
<1>11. CASE S!Await(t)
  <2>1. Members' = Members
    BY <1>11, <1>a DEF S!Await, Members
  <2> QED
    BY <1>11, <1>a, <1>b, <2>1, SeqExactKept DEF S!Await
<1>12. CASE S!AwaitSleep(t)
  <2>1. Members' = Members
    BY <1>12, <1>a DEF S!AwaitSleep, Members
  <2> QED
    BY <1>12, <1>a, <1>b, <2>1, SeqExactKept DEF S!AwaitSleep
<1> QED
  BY <1>1, <1>2, <1>3, <1>4, <1>5, <1>6, <1>7, <1>8, <1>9, <1>10, <1>11, <1>12 DEF S!Step

LEMMA StepExact == TypeInv /\ ExactInv /\ [Next]_vars => ExactInv'
<1> SUFFICES ASSUME TypeInv, ExactInv, [Next]_vars PROVE ExactInv'
  OBVIOUS
<1>a. pc = [s \in Threads |-> pc[s]]
  BY DEF TypeInv, TypeOK
<1>b. setup' = setup
  BY DEF Next, Enter, Step, Destroy, vars
<1> SUFFICES ASSUME Exact, ~Ticket, SeqExact PROVE SeqExact'
  BY <1>b DEF ExactInv, Exact, Ticket
<1>1. ASSUME NEW t \in Threads, Enter(t) PROVE SeqExact'
  <2>1. pc[t] = "idle" /\ pc' = [pc EXCEPT ![t] = "read"]
    BY <1>1, EnterType
  <2>2. UNCHANGED <<seq, count, mine, mixed>>
    BY <1>1 DEF Enter, S!Enter
  <2>3. Members' = Members
    BY <1>a, <2>1, <2>2 DEF Members
  <2>4. \A s \in Threads : /\ pc'[s] = "last" <=> pc[s] = "last"
                           /\ pc'[s] = "count" <=> pc[s] = "count"
                           /\ pc'[s] = pc[s] \/ pc'[s] = "read"
    BY <1>a, <2>1
  <2>5. \A s \in Threads : /\ pc[s] = "count" => mine[s] = seq
                           /\ pc[s] \notin {"slow", "slowsleep", "slowasleep"}
    BY DEF SeqExact
  <2> QED
    BY <1>b, <2>2, <2>3, <2>4, <2>5, SeqExactKept
<1>2. ASSUME NEW t \in Threads, Step(t) PROVE SeqExact'
  BY <1>2, <1>b, SeqStepExact DEF Step
<1>3. ASSUME NEW t \in Threads, Destroy(t) PROVE SeqExact'
  <2>1. pc[t] = "idle" /\ pc' = [pc EXCEPT ![t] = "await"]
    BY <1>3, DestroyIsFirst
  <2>2. UNCHANGED <<seq, count, mine, mixed>>
    BY <1>3 DEF Destroy, S!Destroy, S!locals
  <2>3. Members' = Members
    BY <1>a, <2>1, <2>2 DEF Members
  <2>4. \A s \in Threads : /\ pc'[s] = "last" <=> pc[s] = "last"
                           /\ pc'[s] = "count" <=> pc[s] = "count"
                           /\ pc'[s] = pc[s] \/ pc'[s] = "await"
    BY <1>a, <2>1
  <2>5. \A s \in Threads : /\ pc[s] = "count" => mine[s] = seq
                           /\ pc[s] \notin {"slow", "slowsleep", "slowasleep"}
    BY DEF SeqExact
  <2> QED
    BY <1>b, <2>2, <2>3, <2>4, <2>5, SeqExactKept
<1>4. CASE UNCHANGED vars
  BY <1>4 DEF vars, seqWords, SeqExact, Members
<1> QED
  BY <1>1, <1>2, <1>3, <1>4 DEF Next

\* For any number of rounds and, in each of them, any order of the threads: if
\* as many threads use a pool or fast barrier as make a group, none joins a
\* group with the seq of another.
THEOREM ExactUsersSound == Spec => []ExactUsersNeverMix
<1>1. TypeInv /\ ExactInv => ExactUsersNeverMix
  BY DEF TypeInv, RefExact, ExactInv, Exact, SeqExact, ExactUsersNeverMix
<1> QED
  BY <1>1, InitExact, StepExact, BarrierTypeCorrect, PTL DEF Spec

-----------------------------------------------------------------------------
(* Who sleeps in the pool barrier or the fast barrier, and who wakes it.   *)

\* A sleeper has the present seq and, in the fast barrier, has announced
\* itself, or somebody is about to wake it.  So it is with the destroyer while
\* somebody is inside.
SeqAwake ==
  \A t \in Threads :
    /\ pc[t] = "asleep" =>
         \/ mine[t] = seq /\ (S!Fast => flag = 1)
         \/ \E s \in Threads : pc[s] = "wake"
    /\ pc[t] = "ending" => mine[t] # 0
    /\ pc[t] = "ended" => refcount # 0 \/ \E s \in Threads : pc[s] = "notify"

SeqAwakeInv == ~Ticket => SeqAwake

LEMMA SeqStepAwake ==
  ASSUME TypeInv, ~Ticket, SeqAwake, NEW t \in Threads, S!Step(t), setup' = setup
  PROVE  SeqAwake'
<1> USE DEF S!Goto, S!words, S!locals, S!Fast
<1>a. /\ pc \in [Threads -> SeqPlaces] /\ pc = [s \in Threads |-> pc[s]]
      /\ seq \in 0..(Mod - 1) /\ count \in Nat /\ flag \in {0, 1}
      /\ mine \in [Threads -> 0..(Mod - 1)] /\ mine = [s \in Threads |-> mine[s]]
      /\ refcount \in Nat
  BY PresentSize DEF TypeInv, TypeOK, RefExact
<1>1. CASE S!ReadSeq(t)
  BY <1>1, <1>a DEF S!ReadSeq, SeqAwake
<1>2. CASE S!CountIn(t)
  BY <1>2, <1>a DEF S!CountIn, SeqAwake
<1>3. CASE S!Gate(t)
  BY <1>3, <1>a DEF S!Gate, SeqAwake
<1>4. CASE S!Slow(t)
  BY <1>4, <1>a DEF S!Slow, SeqAwake
<1>5. CASE S!Mark(t)
  BY <1>5, <1>a DEF S!Mark, SeqAwake
<1>6. CASE S!Sleep(t)
  BY <1>6, <1>a DEF S!Sleep, S!SeqIsMine, SeqAwake
<1>7. CASE S!Last(t)
  <2>1. CASE S!Fast /\ flag = 0
    BY <1>7, <1>a, <2>1 DEF S!Last, SeqAwake
  <2>2. CASE ~(S!Fast /\ flag = 0)
    <3>1. pc' = [pc EXCEPT ![t] = "wake"] /\ UNCHANGED <<mine, refcount>> /\ pc[t] = "last"
      BY <1>7, <2>2 DEF S!Last
    <3>2. pc'[t] = "wake"
      BY <1>a, <3>1
    <3> QED
      BY <1>a, <3>1, <3>2 DEF SeqAwake
  <2> QED
    BY <2>1, <2>2
<1>8. CASE S!WakeAll(t)
  BY <1>8, <1>a DEF S!WakeAll, SeqAwake
<1>9. CASE S!Leave(t)
  <2>1. /\ pc[t] = "leave" /\ refcount' = refcount - 1 /\ UNCHANGED <<seq, flag, mine>>
        /\ pc' = [pc EXCEPT ![t] = IF refcount = 1 THEN "notify" ELSE "idle"]
    BY <1>9 DEF S!Leave
  <2>2. CASE refcount = 1
    <3>1. pc'[t] = "notify"
      BY <1>a, <2>1, <2>2
    <3> QED
      BY <1>a, <2>1, <2>2, <3>1 DEF SeqAwake
  <2>3. CASE refcount # 1
    <3>1. refcount' # 0
      BY <1>a, <2>1, <2>3
    <3> QED
      BY <1>a, <2>1, <2>3, <3>1 DEF SeqAwake
  <2> QED
    BY <2>2, <2>3
<1>10. CASE S!Notify(t)
  BY <1>10, <1>a DEF S!Notify, SeqAwake
<1>11. CASE S!Await(t)
  BY <1>11, <1>a DEF S!Await, SeqAwake
<1>12. CASE S!AwaitSleep(t)
  BY <1>12, <1>a DEF S!AwaitSleep, SeqAwake
<1> QED
  BY <1>1, <1>2, <1>3, <1>4, <1>5, <1>6, <1>7, <1>8, <1>9, <1>10, <1>11, <1>12 DEF S!Step

LEMMA StepSeqAwake == TypeInv /\ SeqAwakeInv /\ [Next]_vars => SeqAwakeInv'
<1> SUFFICES ASSUME TypeInv, SeqAwakeInv, [Next]_vars PROVE SeqAwakeInv'
  OBVIOUS
<1>a. pc = [s \in Threads |-> pc[s]] /\ refcount \in Nat
  BY PresentSize DEF TypeInv, TypeOK
<1>b. setup' = setup
  BY DEF Next, Enter, Step, Destroy, vars
<1> SUFFICES ASSUME ~Ticket, SeqAwake PROVE SeqAwake'
  BY <1>b DEF SeqAwakeInv, Ticket
<1>1. ASSUME NEW t \in Threads, Enter(t) PROVE SeqAwake'
  <2>1. pc[t] = "idle" /\ pc' = [pc EXCEPT ![t] = "read"]
    BY <1>1, EnterType
  <2>2. UNCHANGED <<seq, flag, mine>> /\ refcount' = refcount + 1
    BY <1>1 DEF Enter, S!Enter
  <2> QED
    BY <1>a, <1>b, <2>1, <2>2 DEF SeqAwake, S!Fast
<1>2. ASSUME NEW t \in Threads, Step(t) PROVE SeqAwake'
  BY <1>2, <1>b, SeqStepAwake DEF Step
<1>3. ASSUME NEW t \in Threads, Destroy(t) PROVE SeqAwake'
  <2>1. pc[t] = "idle" /\ pc' = [pc EXCEPT ![t] = "await"] /\ ~Doomed
    BY <1>3, DestroyIsFirst
  <2>2. UNCHANGED <<seq, flag, mine>>
    BY <1>3 DEF Destroy, S!Destroy, S!locals
  <2>3. \A s \in Threads : pc[s] \notin Destroyers
    BY <2>1 DEF Doomed
  <2> QED
    BY <1>a, <1>b, <2>1, <2>2, <2>3 DEF SeqAwake, S!Fast, Destroyers
<1>4. CASE UNCHANGED vars
  BY <1>4 DEF vars, seqWords, SeqAwake, S!Fast
<1> QED
  BY <1>1, <1>2, <1>3, <1>4 DEF Next

LEMMA InitSeqAwake == Init => SeqAwakeInv
<1> SUFFICES ASSUME Init PROVE SeqAwake
  BY DEF SeqAwakeInv
<1>1. \A t \in Threads : pc[t] = "idle"
  BY DEF Init
<1> QED
  BY <1>1 DEF SeqAwake

-----------------------------------------------------------------------------
(* The ticket barrier, with as many users as a group has.                  *)

\* How far the ticket of t is after the last that may go.
Ahead(t) == T!Minus(mine[t], count_next)

Ticketed == {"look", "sleep", "asleep", "last"}

\* The threads whose group is forming.
Queued == {t \in Threads : pc[t] \in Ticketed /\ Ahead(t) \in 1..setup.count}

Gone == IF Doomed THEN 1 ELSE 0

\* The group that is forming has the tickets after count_next, without a gap;
\* other tickets in use are those of the group before, but for its last.
TicketExact ==
  /\ \A t \in Threads : pc[t] \in Ticketed =>
       Ahead(t) \in 1..setup.count \/ Ahead(t) > Mod - setup.count
  /\ \A t \in Threads : pc[t] = "last" => Ahead(t) = setup.count
  /\ \A t \in Queued : Ahead(t) <= Cardinality(Queued)
  /\ \A s, t \in Queued : Ahead(s) = Ahead(t) => s = t
  /\ \A d \in 1..Cardinality(Queued) : \E t \in Queued : Ahead(t) = d
  /\ count_in = (count_next + 1 + Cardinality(Queued) - Gone) % Mod

TicketInv == Exact /\ Ticket => TicketExact

\* A difference or a sum of two words and a little more.
LEMMA WrapIs ==
  ASSUME NEW x \in Int, -Mod <= x, x < 2 * Mod
  PROVE  x % Mod = IF x < 0 THEN x + Mod ELSE IF x < Mod THEN x ELSE x - Mod
<1>0. Mod \in Nat \ {0}
  BY FS_CardinalityType, BarrierAssumption
<1>1. CASE x < 0
  <2>1. x + Mod \in 0..(Mod - 1)
    BY <1>0, <1>1
  <2>2. x = (-1) * Mod + (x + Mod)
    BY <1>0
  <2> QED
    BY <1>0, <1>1, <2>1, <2>2
<1>2. CASE x >= 0
  BY <1>0, <1>2, ModIs
<1> QED
  BY <1>0, <1>1, <1>2

LEMMA NextIs ==
  ASSUME NEW x \in 0..(Mod - 1)
  PROVE  (x + 1) % Mod = IF x + 1 < Mod THEN x + 1 ELSE x + 1 - Mod
<1>0. Mod \in Nat \ {0}
  BY FS_CardinalityType, BarrierAssumption
<1> QED
  BY <1>0, WrapIs

LEMMA OneMore ==
  ASSUME NEW x \in 0..(Mod - 1), NEW y \in Nat, y + 2 <= Mod
  PROVE  (((x + 1 + y) % Mod) + 1) % Mod = (x + 1 + (y + 1)) % Mod
<1> DEFINE s == x + 1 + y
           r == s % Mod
           z == x + 1 + (y + 1)
<1>0. Mod \in Nat \ {0}
  BY FS_CardinalityType, BarrierAssumption
<1>1. s \in 0..(2 * Mod - 1) /\ z \in 0..(2 * Mod - 1) /\ z = s + 1
  BY <1>0
<1> HIDE DEF s, z
<1>2. r = IF s < Mod THEN s ELSE s - Mod
  BY <1>1, ModIs
<1>3. z % Mod = IF z < Mod THEN z ELSE z - Mod
  BY <1>1, ModIs
<1> HIDE DEF r
<1>4. r \in 0..(Mod - 1)
  BY <1>0, <1>1, <1>2
<1>5. (r + 1) % Mod = IF r + 1 < Mod THEN r + 1 ELSE r + 1 - Mod
  BY <1>4, NextIs
<1>6. (r + 1) % Mod = z % Mod
  BY <1>0, <1>1, <1>2, <1>3, <1>5
<1> QED
  BY <1>6 DEF r, s, z

LEMMA BeforeIs ==
  ASSUME NEW x \in 0..(Mod - 1)
  PROVE  (x - 1) % Mod = IF x = 0 THEN Mod - 1 ELSE x - 1
<1> DEFINE z == x - 1
<1>0. Mod \in Nat \ {0}
  BY FS_CardinalityType, BarrierAssumption
<1>1. z \in Int /\ -Mod <= z /\ z < Mod
  BY <1>0
<1>2. z % Mod = IF z < 0 THEN z + Mod ELSE z
  <2> HIDE DEF z
  <2> QED
    BY <1>0, <1>1, WrapIs
<1> QED
  BY <1>0, <1>2

\* How far count_out is behind, when g are destroying.
LEMMA DiffIs ==
  ASSUME NEW a \in 0..(Mod - 1), NEW b \in 0..(Mod - 1), NEW g \in {0, 1}
  PROVE  (a + g - b) % Mod = IF a + g < b THEN a + g - b + Mod
                             ELSE IF a + g - b < Mod THEN a + g - b ELSE 0
<1> DEFINE z == a + g - b
<1>0. Mod \in Nat \ {0}
  BY FS_CardinalityType, BarrierAssumption
<1>1. z \in Int /\ -Mod <= z /\ z <= Mod
  BY <1>0
<1>2. z % Mod = IF z < 0 THEN z + Mod ELSE IF z < Mod THEN z ELSE z - Mod
  <2> HIDE DEF z
  <2> QED
    BY <1>0, <1>1, WrapIs
<1> QED
  BY <1>0, <1>1, <1>2

LEMMA OutIsNext ==
  ASSUME NEW a \in 0..(Mod - 1), NEW b \in 0..(Mod - 1)
  PROVE  (a + 1 - b) % Mod = 0 <=> b = (a + 1) % Mod
<1> DEFINE d == (a + 1 - b) % Mod
           e == (a + 1) % Mod
<1>0. Mod \in Nat \ {0}
  BY FS_CardinalityType, BarrierAssumption
<1>1. d = IF a + 1 < b THEN a + 1 - b + Mod
          ELSE IF a + 1 - b < Mod THEN a + 1 - b ELSE 0
  BY DiffIs
<1>2. e = IF a + 1 < Mod THEN a + 1 ELSE a + 1 - Mod
  BY NextIs
<1> HIDE DEF d, e
<1>3. d = 0 <=> b = e
  BY <1>0, <1>1, <1>2
<1> QED
  BY <1>3 DEF d, e

\* A group is less than half of the numbers a word can hold.
LEMMA GroupIsSmall ==
  ASSUME TypeInv, Exact
  PROVE  /\ setup.count \in Nat \ {0} /\ Mod \in Nat /\ Mod \div 2 \in Nat
         /\ Mod = 2 * (Mod \div 2) /\ setup.count < Mod \div 2
<1>1. /\ setup.count \in Nat \ {0} /\ setup.count <= Cardinality(Threads)
      /\ Cardinality(Threads) \in Nat
  BY UserSets, PresentSize DEF Exact
<1>2. Mod \in Nat /\ Mod % 2 = 0 /\ 2 * Cardinality(Threads) < Mod
  BY BarrierAssumption
<1>3. Mod = 2 * (Mod \div 2) /\ Mod \div 2 \in Nat
  BY <1>2
<1> QED
  BY <1>1, <1>2, <1>3

LEMMA QueuedSets ==
  ASSUME TypeInv
  PROVE  /\ Queued \subseteq setup.users /\ IsFiniteSet(Queued) /\ Cardinality(Queued) \in Nat
         /\ \A t \in Threads : Ahead(t) \in 0..(Mod - 1)
<1>1. Queued \subseteq setup.users
  BY UserSets DEF Queued, Ticketed
<1>2. IsFiniteSet(Queued) /\ Cardinality(Queued) \in Nat
  BY <1>1, UserSets, FS_Subset, FS_CardinalityType
<1>3. \A t \in Threads : mine[t] \in Int /\ count_next \in Int
  BY DEF TypeInv, TypeOK
<1>4. \A t \in Threads : Ahead(t) \in 0..(Mod - 1)
  BY <1>3, ModRange DEF Ahead, T!Minus
<1> QED
  BY <1>1, <1>2, <1>4

LEMMA InitTicket == Init => TicketInv
<1> SUFFICES ASSUME Init PROVE TicketExact
  BY DEF TicketInv
<1>1. /\ \A t \in Threads : pc[t] = "idle"
      /\ count_next = Mod - 1 /\ count_in = 0
  BY DEF Init, T!Init
<1>2. Queued = {} /\ Gone = 0
  BY <1>1 DEF Queued, Ticketed, Gone, Doomed, Destroyers
<1>3. Cardinality(Queued) = 0
  BY <1>2, FS_EmptySet
<1>4. Mod \in Nat \ {0}
  BY FS_CardinalityType, BarrierAssumption
<1>5. (count_next + 1 + Cardinality(Queued) - Gone) % Mod = 0
  <2>1. count_next + 1 + Cardinality(Queued) - Gone = Mod
    BY <1>1, <1>2, <1>3, <1>4
  <2> QED
    BY <2>1, <1>4, WrapIs
<1> QED
  BY <1>1, <1>2, <1>3, <1>5 DEF TicketExact, Ticketed

\* Steps that leave the tickets alone.
LEMMA TicketExactKept ==
  ASSUME TicketExact, UNCHANGED <<count_next, count_in, mine, setup>>, Doomed' = Doomed,
         \A s \in Threads : /\ pc'[s] \in Ticketed => pc[s] \in Ticketed
                            /\ s \in Queued => pc'[s] \in Ticketed
                            /\ pc'[s] = "last" => Ahead(s) = setup.count
  PROVE  TicketExact'
<1>1. \A s \in Threads : Ahead(s)' = Ahead(s)
  BY DEF Ahead, T!Minus
<1>2. Queued' = Queued
  BY <1>1 DEF Queued
<1>3. Gone' = Gone
  BY DEF Gone
<1>4. \A s \in Threads : pc'[s] \in Ticketed =>
        Ahead(s)' \in 1..setup.count \/ Ahead(s)' > Mod - setup.count
  BY <1>1 DEF TicketExact
<1>5. \A s \in Queued' : Ahead(s)' <= Cardinality(Queued')
  BY <1>1, <1>2 DEF TicketExact, Queued
<1>6. \A s, t \in Queued' : Ahead(s)' = Ahead(t)' => s = t
  BY <1>1, <1>2 DEF TicketExact, Queued
<1>7. \A d \in 1..Cardinality(Queued') : \E t \in Queued' : Ahead(t)' = d
  BY <1>1, <1>2 DEF TicketExact, Queued
<1>8. count_in' = (count_next' + 1 + Cardinality(Queued') - Gone') % Mod
  BY <1>2, <1>3 DEF TicketExact
<1> QED
  BY <1>1, <1>4, <1>5, <1>6, <1>7, <1>8 DEF TicketExact

LEMMA TicketLast ==
  ASSUME TypeInv, Exact, TicketExact, NEW t \in Threads, T!Last(t), setup' = setup
  PROVE  /\ TicketExact' /\ Queued = setup.users /\ Queued' = {}
         /\ \A s \in Queued \ {t} : Ahead(s)' > Mod - setup.count
<1> DEFINE C == setup.count
<1>a. /\ pc[t] = "last" /\ pc' = [pc EXCEPT ![t] = "wake"]
      /\ count_next' = (count_next + C) % Mod /\ UNCHANGED <<count_in, mine>>
  BY DEF T!Last, T!Goto, T!locals, T!Total
<1>b. /\ pc = [s \in Threads |-> pc[s]] /\ count_next \in 0..(Mod - 1)
      /\ count_in \in 0..(Mod - 1) /\ \A s \in Threads : mine[s] \in 0..(Mod - 1)
  BY DEF TypeInv, TypeOK
<1>c. C \in Nat \ {0} /\ Mod \in Nat /\ 2 * C < Mod
  BY GroupIsSmall
<1>1. Ahead(t) = C /\ t \in Queued
  BY <1>a, <1>c DEF TicketExact, Queued, Ticketed
<1>2. Queued = setup.users
  <2>1. Cardinality(Queued) >= C
    BY <1>1 DEF TicketExact
  <2> QED
    BY <2>1, <1>c, QueuedSets, AllUsers
<1>3. Cardinality(Queued) = C
  BY <1>2 DEF Exact
<1>4. ~Doomed
  BY <1>2, UserSets DEF Doomed, Destroyers, Queued, Ticketed
<1>5. count_next' = IF count_next + C < Mod THEN count_next + C ELSE count_next + C - Mod
  BY <1>a, <1>b, <1>c, WrapIs
<1>6. \A s \in Queued \ {t} : Ahead(s)' > Mod - C
  <2> TAKE s \in Queued \ {t}
  <2>1. s \in Threads /\ Ahead(s) \in 1..C /\ Ahead(s) # C
    BY <1>1 DEF Queued, TicketExact
  <2>2. Ahead(s) = IF mine[s] >= count_next THEN mine[s] - count_next
                   ELSE mine[s] - count_next + Mod
    <3>1. mine[s] - count_next \in Int /\ -Mod <= mine[s] - count_next
          /\ mine[s] - count_next < Mod
      BY <1>b, <1>c, <2>1
    <3> QED
      BY <3>1, <1>b, <1>c, <2>1, WrapIs DEF Ahead, T!Minus
  <2>3. Ahead(s)' = IF mine[s] >= count_next' THEN mine[s] - count_next'
                    ELSE mine[s] - count_next' + Mod
    <3>0. count_next' \in 0..(Mod - 1)
      BY <1>5, <1>b, <1>c
    <3>1. mine[s] - count_next' \in Int /\ -Mod <= mine[s] - count_next'
          /\ mine[s] - count_next' < Mod
      BY <3>0, <1>b, <1>c, <2>1
    <3>2. Ahead(s)' = (mine[s] - count_next') % Mod
      BY <1>a DEF Ahead, T!Minus
    <3> QED
      BY <3>0, <3>1, <3>2, <1>b, <1>c, <2>1, WrapIs
  <2> QED
    BY <1>b, <1>c, <1>5, <2>1, <2>2, <2>3
<1>7. \A s \in Threads : pc'[s] \in Ticketed => s \in Queued \ {t}
  BY <1>a, <1>b, <1>2, UserSets DEF Ticketed
<1>8. Queued' = {}
  BY <1>6, <1>7, <1>a, <1>c DEF Queued
<1>9. Cardinality(Queued') = 0 /\ Gone' = 0 /\ Gone = 0
  <2>1. ~Doomed'
    BY <1>4, <1>a, <1>b DEF Doomed, Destroyers
  <2> QED
    BY <2>1, <1>4, <1>8, FS_EmptySet DEF Gone
<1>10. count_in' = (count_next' + 1 + Cardinality(Queued') - Gone') % Mod
  <2>1. count_in = (count_next + 1 + C) % Mod
    BY <1>3, <1>9, <1>b, <1>c DEF TicketExact
  <2>2. (count_next + 1 + C) % Mod =
           IF count_next + 1 + C < Mod THEN count_next + 1 + C ELSE count_next + 1 + C - Mod
    BY <1>b, <1>c, WrapIs
  <2>3. (count_next' + 1) % Mod = IF count_next' + 1 < Mod THEN count_next' + 1 ELSE count_next' + 1 - Mod
    <3>1. count_next' \in 0..(Mod - 1)
      BY <1>5, <1>b, <1>c
    <3> QED
      BY <3>1, NextIs
  <2>4. count_next' + 1 + Cardinality(Queued') - Gone' = count_next' + 1
    BY <1>5, <1>9, <1>b, <1>c
  <2> QED
    BY <1>a, <1>b, <1>c, <1>5, <2>1, <2>2, <2>3, <2>4
<1>11. \A s \in Threads : pc'[s] # "last"
  BY <1>a, <1>b, <1>1, <1>7 DEF Ticketed, TicketExact, Queued
<1> QED
  BY <1>2, <1>6, <1>7, <1>8, <1>9, <1>10, <1>11, <1>a DEF TicketExact

LEMMA TicketEnter ==
  ASSUME TypeInv, Exact, Ticket, TicketExact, NEW t \in Threads, Enter(t)
  PROVE  TicketExact' /\ Ahead(t)' \in 1..setup.count /\ \A s \in Threads \ {t} : Ahead(s)' = Ahead(s)
<1> DEFINE C == setup.count
           k == Cardinality(Queued)
<1>a. /\ pc[t] = "idle" /\ pc' = [pc EXCEPT ![t] = "look"] /\ ~Doomed /\ ~Doomed'
      /\ t \in setup.users
  BY EnterType DEF Enter
<1>b. /\ mine' = [mine EXCEPT ![t] = count_in] /\ count_in' = (count_in + 1) % Mod
      /\ count_next' = count_next /\ setup' = setup
  BY DEF Enter, T!Enter
<1>c. C \in Nat \ {0} /\ Mod \in Nat /\ 2 * C < Mod
  BY GroupIsSmall
<1>d. /\ pc = [s \in Threads |-> pc[s]] /\ mine = [s \in Threads |-> mine[s]]
      /\ count_next \in 0..(Mod - 1) /\ count_in \in 0..(Mod - 1)
  BY DEF TypeInv, TypeOK
<1>1. k \in 0..(C - 1)
  <2>1. t \notin Queued
    BY <1>a DEF Queued, Ticketed
  <2>2. Queued # setup.users
    BY <2>1, <1>a
  <2> QED
    BY <2>2, <1>c, QueuedSets, AllUsers
<1>2. \A s \in Threads \ {t} : Ahead(s)' = Ahead(s)
  BY <1>b, <1>d DEF Ahead, T!Minus
<1>3. count_in = (count_next + 1 + k) % Mod
  BY <1>a, <1>1, <1>d, <1>c DEF TicketExact, Gone
<1>4. count_in = IF count_next + 1 + k < Mod THEN count_next + 1 + k
                 ELSE count_next + 1 + k - Mod
  BY <1>1, <1>3, <1>c, <1>d, WrapIs
<1>5. Ahead(t)' = k + 1
  <2>1. Ahead(t)' = (count_in - count_next) % Mod
    BY <1>b, <1>d DEF Ahead, T!Minus
  <2>2. count_in - count_next \in Int /\ -Mod <= count_in - count_next
        /\ count_in - count_next < Mod
    BY <1>c, <1>d
  <2>3. Ahead(t)' = IF count_in - count_next < 0 THEN count_in - count_next + Mod
                    ELSE count_in - count_next
    BY <2>1, <2>2, <1>c, WrapIs
  <2> QED
    BY <2>3, <1>1, <1>4, <1>c, <1>d
<1>6. t \notin Queued /\ Queued' = Queued \cup {t}
  BY <1>a, <1>b, <1>d, <1>1, <1>2, <1>5, <1>c DEF Queued, Ticketed
<1>7. Cardinality(Queued') = k + 1
  BY <1>6, QueuedSets, FS_AddElement
<1>8. count_in' = (count_next' + 1 + Cardinality(Queued') - Gone') % Mod
  <2>3. count_in' = (count_next + 1 + (k + 1)) % Mod
    BY <1>b, <1>c, <1>d, <1>1, <1>3, OneMore
  <2>4. Gone' = 0
    BY <1>a DEF Gone
  <2>5. count_next' + 1 + Cardinality(Queued') - Gone' = count_next + 1 + (k + 1)
    BY <2>4, <1>1, <1>7, <1>b, <1>c, <1>d
  <2> QED
    BY <2>3, <2>5
<1>9. \A s \in Threads : pc'[s] \in Ticketed =>
        Ahead(s)' \in 1..setup'.count \/ Ahead(s)' > Mod - setup'.count
  <2> TAKE s \in Threads
  <2>1. CASE s = t
    BY <2>1, <1>1, <1>5, <1>b, <1>c
  <2>2. CASE s # t
    BY <2>2, <1>2, <1>a, <1>b, <1>d DEF TicketExact
  <2> QED
    BY <2>1, <2>2
<1>10. \A s \in Threads : pc'[s] = "last" => Ahead(s)' = setup'.count
  BY <1>2, <1>a, <1>b, <1>d DEF TicketExact
<1>11. \A s \in Queued : s \in Threads \ {t} /\ Ahead(s)' = Ahead(s) /\ Ahead(s) <= k
  BY <1>2, <1>6 DEF Queued, TicketExact
<1>12. \A s \in Queued' : Ahead(s)' <= Cardinality(Queued')
  <2>1. \A s \in Queued : Ahead(s) \in Nat
    BY DEF Queued
  <2> QED
    BY <2>1, <1>1, <1>5, <1>6, <1>7, <1>11
<1>13. \A s, u \in Queued' : Ahead(s)' = Ahead(u)' => s = u
  <2>1. \A s \in Queued : Ahead(s)' # Ahead(t)'
    <3>1. \A s \in Queued : Ahead(s) \in Nat
      BY DEF Queued
    <3> QED
      BY <3>1, <1>1, <1>5, <1>11
  <2> QED
    BY <2>1, <1>6, <1>11 DEF TicketExact
<1>14. \A d \in 1..Cardinality(Queued') : \E s \in Queued' : Ahead(s)' = d
  <2> TAKE d \in 1..Cardinality(Queued')
  <2>1. CASE d = k + 1
    BY <2>1, <1>5, <1>6
  <2>2. CASE d # k + 1
    <3>1. d \in 1..k
      BY <2>2, <1>1, <1>7
    <3>2. PICK s \in Queued : Ahead(s) = d
      BY <3>1 DEF TicketExact
    <3> QED
      BY <3>2, <1>6, <1>11
  <2> QED
    BY <2>1, <2>2
<1> QED
  BY <1>1, <1>2, <1>5, <1>8, <1>9, <1>10, <1>12, <1>13, <1>14, <1>b, <1>c DEF TicketExact

\* The thread that finds the group gone was in it; the one that finds it full
\* has its last ticket.
LEMMA LookFinds ==
  ASSUME TypeInv, Exact, TicketExact, NEW t \in Threads, T!Look(t)
  PROVE  \/ Ahead(t) = setup.count /\ pc' = [pc EXCEPT ![t] = "last"]
         \/ /\ Ahead(t) > Mod - setup.count /\ t \notin Queued
            /\ T!Passed(t, count_next) /\ pc' = [pc EXCEPT ![t] = "leave"]
         \/ /\ Ahead(t) \in 1..(setup.count - 1) /\ t \in Queued
            /\ ~T!Passed(t, count_next) /\ pc' = [pc EXCEPT ![t] = "sleep"]
<1>a. /\ setup.count \in Nat \ {0} /\ Mod \in Nat /\ Mod \div 2 \in Nat
      /\ Mod = 2 * (Mod \div 2) /\ setup.count < Mod \div 2
  BY GroupIsSmall
<1>b. /\ pc[t] = "look"
      /\ pc' = [pc EXCEPT ![t] = IF Ahead(t) = setup.count THEN "last"
                                 ELSE IF T!Passed(t, count_next) THEN "leave" ELSE "sleep"]
  BY DEF T!Look, T!Goto, Ahead, T!Total
<1>c. T!Passed(t, count_next) <=> Ahead(t) >= Mod \div 2
  BY DEF T!Passed, Ahead
<1>d. Ahead(t) \in 1..setup.count \/ Ahead(t) > Mod - setup.count
  BY <1>b DEF TicketExact, Ticketed
<1>e. Ahead(t) \in 0..(Mod - 1)
  BY QueuedSets
<1>1. CASE Ahead(t) = setup.count
  BY <1>1, <1>b
<1>2. CASE Ahead(t) > Mod - setup.count
  <2>1. Ahead(t) # setup.count /\ Ahead(t) >= Mod \div 2 /\ Ahead(t) \notin 1..setup.count
    BY <1>2, <1>a, <1>e
  <2> QED
    BY <2>1, <1>2, <1>b, <1>c DEF Queued
<1>3. CASE Ahead(t) \in 1..setup.count /\ Ahead(t) # setup.count
  <2>1. Ahead(t) \in 1..(setup.count - 1) /\ ~(Ahead(t) >= Mod \div 2)
    BY <1>3, <1>a
  <2> QED
    BY <2>1, <1>3, <1>b, <1>c DEF Queued, Ticketed
<1> QED
  BY <1>1, <1>2, <1>3, <1>d

LEMMA TicketStep ==
  ASSUME TypeInv, Exact, Ticket, TicketExact, NEW t \in Threads, Step(t)
  PROVE  TicketExact'
<1> USE DEF T!Goto, T!words, T!locals, Ticketed
<1>a. /\ pc = [s \in Threads |-> pc[s]]
      /\ \A s \in Threads : pc[s] = "last" => Ahead(s) = setup.count
      /\ \A s \in Threads : s \in Queued => pc[s] \in Ticketed
  BY DEF TypeInv, TypeOK, TicketExact, Queued
<1>b. setup' = setup /\ T!Step(t) /\ UNCHANGED seqWords
  BY DEF Step
<1>c. T!Leave(t) <=> Leaves(t)
  BY <1>b DEF Leaves
<1>d. Doomed' = Doomed
  BY <1>b, <1>c, LeaveType, InnerType
<1>1. CASE T!Look(t)
  <2>1. UNCHANGED <<count_next, count_in, mine>>
    BY <1>1 DEF T!Look
  <2>2. PICK x \in {"last", "leave", "sleep"} :
          /\ pc' = [pc EXCEPT ![t] = x]
          /\ x = "last" => Ahead(t) = setup.count
          /\ x = "leave" => t \notin Queued
    BY <1>1, LookFinds
  <2> QED
    BY <1>1, <1>a, <1>b, <1>d, <2>1, <2>2, TicketExactKept DEF T!Look
<1>2. CASE T!Sleep(t)
  BY <1>2, <1>a, <1>b, <1>d, TicketExactKept DEF T!Sleep
<1>3. CASE T!Last(t)
  BY <1>3, <1>b, TicketLast
<1>4. CASE T!WakeAll(t)
  BY <1>4, <1>a, <1>b, <1>d, TicketExactKept DEF T!WakeAll
<1>5. CASE T!Leave(t)
  BY <1>5, <1>a, <1>b, <1>d, TicketExactKept DEF T!Leave
<1>6. CASE T!Notify(t)
  BY <1>6, <1>a, <1>b, <1>d, TicketExactKept DEF T!Notify
<1>7. CASE T!Await(t)
  BY <1>7, <1>a, <1>b, <1>d, TicketExactKept DEF T!Await
<1>8. CASE T!AwaitSleep(t)
  BY <1>8, <1>a, <1>b, <1>d, TicketExactKept DEF T!AwaitSleep
<1> QED
  BY <1>b, <1>1, <1>2, <1>3, <1>4, <1>5, <1>6, <1>7, <1>8 DEF T!Step

\* Nobody waits any more when the barrier is about to be destroyed.
LEMMA TicketDestroy ==
  ASSUME TypeInv, Exact, Ticket, TicketExact, NEW t \in Threads, Destroy(t)
  PROVE  TicketExact'
<1> DEFINE C == setup.count
<1>a. /\ pc[t] = "idle" /\ pc' = [pc EXCEPT ![t] = "await"] /\ ~Doomed /\ Doomed'
      /\ setup' = setup /\ \A s \in Present : Released(s)
  BY DestroyIsFirst, DestroyType
<1>b. /\ count_in' = (count_in - 1) % Mod /\ UNCHANGED <<count_next, mine>>
  BY DEF Destroy, T!Destroy, T!locals
<1>c. /\ C \in Nat \ {0} /\ Mod \in Nat /\ Mod \div 2 \in Nat
      /\ Mod = 2 * (Mod \div 2) /\ C < Mod \div 2
  BY GroupIsSmall
<1>d. /\ pc = [s \in Threads |-> pc[s]]
      /\ count_next \in 0..(Mod - 1) /\ count_in \in 0..(Mod - 1)
  BY DEF TypeInv, TypeOK
<1>1. Queued = {}
  <2> SUFFICES ASSUME NEW s \in Queued PROVE FALSE
    OBVIOUS
  <2>1. s \in Threads /\ pc[s] \in Ticketed /\ Ahead(s) \in 1..C
    BY DEF Queued
  <2>2. T!Released(s)
    BY <2>1, <1>a DEF Present, Outsiders, Ticketed, Released
  <2>3. Ahead(s) >= Mod \div 2
    BY <2>1, <2>2 DEF T!Released, T!Passed, Ticketed, Ahead
  <2> QED
    BY <2>1, <2>3, <1>c
<1>2. \A s \in Threads : Ahead(s)' = Ahead(s)
  BY <1>b DEF Ahead, T!Minus
<1>3. Queued' = {}
  BY <1>1, <1>2, <1>a, <1>d DEF Queued, Ticketed
<1>4. Cardinality(Queued) = 0 /\ Cardinality(Queued') = 0 /\ Gone = 0 /\ Gone' = 1
  BY <1>1, <1>3, <1>a, FS_EmptySet DEF Gone
<1>5. count_in = (count_next + 1) % Mod
  <2>1. count_next + 1 + Cardinality(Queued) - Gone = count_next + 1
    BY <1>4, <1>d, <1>c
  <2> QED
    BY <2>1 DEF TicketExact
<1>6. count_in = IF count_next + 1 < Mod THEN count_next + 1 ELSE count_next + 1 - Mod
  BY <1>5, <1>d, NextIs
<1>7. count_in' = IF count_in = 0 THEN Mod - 1 ELSE count_in - 1
  <2>1. count_in - 1 \in Int /\ -Mod <= count_in - 1 /\ count_in - 1 < Mod
    BY <1>c, <1>d
  <2>2. (count_in - 1) % Mod = IF count_in - 1 < 0 THEN count_in - 1 + Mod ELSE count_in - 1
    BY <2>1, <1>c, WrapIs
  <2> QED
    BY <2>2, <1>b, <1>c, <1>d
<1>8. count_in' = count_next
  BY <1>6, <1>7, <1>c, <1>d
<1>9. count_in' = (count_next' + 1 + Cardinality(Queued') - Gone') % Mod
  <2>1. count_next' + 1 + Cardinality(Queued') - Gone' = count_next
    BY <1>4, <1>b, <1>c, <1>d
  <2>2. count_next % Mod = count_next
    <3>1. count_next \in 0..(2 * Mod - 1) /\ count_next < Mod
      BY <1>c, <1>d
    <3> QED
      BY <3>1, ModIs
  <2> QED
    BY <2>1, <2>2, <1>8
<1>10. \A s \in Threads : /\ pc'[s] \in Ticketed => pc[s] \in Ticketed
                          /\ pc'[s] = "last" => pc[s] = "last"
  BY <1>a, <1>d DEF Ticketed
<1> QED
  BY <1>2, <1>3, <1>4, <1>9, <1>10, <1>a DEF TicketExact

LEMMA StepTicket == TypeInv /\ TicketInv /\ [Next]_vars => TicketInv'
<1> SUFFICES ASSUME TypeInv, TicketInv, [Next]_vars PROVE TicketInv'
  OBVIOUS
<1>a. setup' = setup
  BY DEF Next, Enter, Step, Destroy, vars
<1> SUFFICES ASSUME Exact, Ticket, TicketExact PROVE TicketExact'
  BY <1>a DEF TicketInv, Exact, Ticket
<1>1. CASE UNCHANGED vars
  <2>1. \A s \in Threads : s \in Queued => pc[s] \in Ticketed
    BY DEF Queued
  <2>2. \A s \in Threads : pc[s] = "last" => Ahead(s) = setup.count
    BY DEF TicketExact
  <2>3. Doomed' = Doomed
    BY <1>1 DEF vars, Doomed
  <2> QED
    BY <1>1, <2>1, <2>2, <2>3, TicketExactKept DEF vars, ticketWords
<1> QED
  BY <1>1, TicketEnter, TicketStep, TicketDestroy DEF Next

-----------------------------------------------------------------------------
(* Who is inside a ticket barrier, who sleeps in it, and who wakes it.     *)

\* count_out is behind count_in by those present.
OutExact == Ticket => (count_in + Gone - count_out) % Mod = Cardinality(Present)

LEMMA InitOut == Init => OutExact
<1> SUFFICES ASSUME Init PROVE (count_in + Gone - count_out) % Mod = Cardinality(Present)
  BY DEF OutExact
<1>1. \A t \in Threads : pc[t] = "idle"
  BY DEF Init
<1>2. count_in = 0 /\ count_out = 0 /\ Gone = 0
  BY <1>1 DEF Init, T!Init, Gone, Doomed, Destroyers
<1>3. Present = {}
  BY <1>1 DEF Present, Outsiders
<1>4. Mod \in Nat \ {0}
  BY FS_CardinalityType, BarrierAssumption
<1>5. (count_in + Gone - count_out) % Mod = 0
  BY <1>2, <1>4, DiffIs
<1> QED
  BY <1>3, <1>5, FS_EmptySet

LEMMA StepOut == TypeInv /\ OutExact /\ [Next]_vars => OutExact'
<1> SUFFICES ASSUME TypeInv, OutExact, [Next]_vars PROVE OutExact'
  OBVIOUS
<1>a. setup' = setup
  BY DEF Next, Enter, Step, Destroy, vars
<1> SUFFICES ASSUME Ticket, (count_in + Gone - count_out) % Mod = Cardinality(Present)
             PROVE  (count_in' + Gone' - count_out') % Mod = Cardinality(Present')
  BY <1>a DEF OutExact, Ticket
<1> DEFINE n == Cardinality(Present)
<1>b. /\ count_in \in 0..(Mod - 1) /\ count_out \in 0..(Mod - 1) /\ Gone \in {0, 1}
      /\ n \in Nat /\ IsFiniteSet(Present)
  BY PresentSize DEF TypeInv, TypeOK, Gone
<1>c. n = IF count_in + Gone < count_out THEN count_in + Gone - count_out + Mod
          ELSE IF count_in + Gone - count_out < Mod THEN count_in + Gone - count_out ELSE 0
  BY <1>b, DiffIs
<1>d. /\ count_in' \in 0..(Mod - 1) /\ count_out' \in 0..(Mod - 1) /\ Gone' \in {0, 1}
      /\ Mod \in Nat \ {0}
  BY StepType, FS_CardinalityType, BarrierAssumption DEF TypeInv, TypeOK, Gone
<1>e. (count_in' + Gone' - count_out') % Mod =
        IF count_in' + Gone' < count_out' THEN count_in' + Gone' - count_out' + Mod
        ELSE IF count_in' + Gone' - count_out' < Mod THEN count_in' + Gone' - count_out' ELSE 0
  BY <1>d, DiffIs
<1>1. ASSUME NEW t \in Threads, Enter(t)
      PROVE  (count_in' + Gone' - count_out') % Mod = Cardinality(Present')
  <2>1. t \notin Present /\ Present' = Present \cup {t} /\ Gone = 0 /\ Gone' = 0
    BY <1>1, EnterType DEF Gone
  <2>2. Cardinality(Present') = n + 1
    BY <2>1, <1>b, FS_AddElement
  <2>3. n + 1 < Mod
    <3>1. Cardinality(Threads) + 1 < Mod /\ n <= Cardinality(Threads) /\ Cardinality(Threads) \in Nat
      BY SomeThread, PresentSize
    <3> QED
      BY <3>1, <1>b, <1>d
  <2>4. count_in' = (count_in + 1) % Mod /\ count_out' = count_out
    BY <1>1 DEF Enter, T!Enter
  <2>5. count_in' = IF count_in + 1 < Mod THEN count_in + 1 ELSE count_in + 1 - Mod
    BY <2>4, <1>b, NextIs
  <2> HIDE DEF n
  <2> QED
    BY <1>b, <1>c, <1>d, <1>e, <2>1, <2>2, <2>3, <2>4, <2>5
<1>2. ASSUME NEW t \in Threads, Step(t), Leaves(t)
      PROVE  (count_in' + Gone' - count_out') % Mod = Cardinality(Present')
  <2>1. t \in Present /\ Present' = Present \ {t} /\ Gone' = Gone
    BY <1>2, LeaveType DEF Step, Gone
  <2>2. Cardinality(Present') = n - 1 /\ n # 0
    BY <2>1, <1>b, FS_RemoveElement, FS_EmptySet
  <2>4. count_out' = (count_out + 1) % Mod /\ count_in' = count_in
    BY <1>2 DEF Leaves, T!Leave
  <2>5. count_out' = IF count_out + 1 < Mod THEN count_out + 1 ELSE count_out + 1 - Mod
    BY <2>4, <1>b, NextIs
  <2> HIDE DEF n
  <2> QED
    BY <1>b, <1>c, <1>d, <1>e, <2>1, <2>2, <2>4, <2>5
<1>3. ASSUME NEW t \in Threads, Step(t), ~Leaves(t)
      PROVE  (count_in' + Gone' - count_out') % Mod = Cardinality(Present')
  <2>1. Present' = Present /\ Gone' = Gone
    BY <1>3, InnerType DEF Gone
  <2>2. T!Step(t) /\ ~T!Leave(t)
    BY <1>3 DEF Step, Leaves
  <2>3. count_in' = count_in /\ count_out' = count_out
    BY <2>2 DEF T!Step, T!Look, T!Sleep, T!Last, T!WakeAll, T!Notify, T!Await,
      T!AwaitSleep, T!words
  <2> QED
    BY <2>1, <2>3
<1>4. ASSUME NEW t \in Threads, Destroy(t)
      PROVE  (count_in' + Gone' - count_out') % Mod = Cardinality(Present')
  <2>1. Present' = Present /\ Gone = 0 /\ Gone' = 1
    BY <1>4, DestroyIsFirst, DestroyType DEF Gone
  <2>2. n < Mod
    BY <1>b, <1>c, <1>d
  <2>4. count_in' = (count_in - 1) % Mod /\ count_out' = count_out
    BY <1>4 DEF Destroy, T!Destroy
  <2>5. count_in' = IF count_in = 0 THEN Mod - 1 ELSE count_in - 1
    BY <2>4, <1>b, BeforeIs
  <2> HIDE DEF n
  <2>6. (count_in' + Gone' - count_out') % Mod = n
    BY <1>b, <1>c, <1>d, <1>e, <2>1, <2>2, <2>4, <2>5
  <2> QED
    BY <2>1, <2>6 DEF n
<1>5. CASE UNCHANGED vars
  BY <1>5 DEF vars, ticketWords, Present, Gone, Doomed
<1> QED
  BY <1>1, <1>2, <1>3, <1>4, <1>5 DEF Next

\* A sleeper in a forming group, not its last, waits for count_next to move;
\* otherwise somebody is about to wake it.
TicketAwake ==
  \A t \in Threads :
    /\ pc[t] = "sleep" => T!Minus(mine[t], seen[t]) \in 1..(setup.count - 1)
    /\ pc[t] = "asleep" => \/ Ahead(t) \in 1..(setup.count - 1)
                           \/ \E s \in Threads : pc[s] = "wake"
    /\ pc[t] = "ending" => seen[t] # (count_in + 1) % Mod
    /\ pc[t] = "ended" => Present # {} \/ \E s \in Threads : pc[s] = "notify"

TicketAwakeInv == Exact /\ Ticket => TicketAwake

LEMMA InitTicketAwake == Init => TicketAwakeInv
<1> SUFFICES ASSUME Init PROVE TicketAwake
  BY DEF TicketAwakeInv
<1>1. \A t \in Threads : pc[t] = "idle"
  BY DEF Init
<1> QED
  BY <1>1 DEF TicketAwake

LEMMA TicketStepAwake ==
  ASSUME TypeInv, Exact, Ticket, TicketExact, OutExact, TicketAwake,
         NEW t \in Threads, Step(t)
  PROVE  TicketAwake'
<1> USE DEF T!Goto, T!words, T!locals, Ahead, T!Minus
<1>a. /\ pc = [s \in Threads |-> pc[s]] /\ seen = [s \in Threads |-> seen[s]]
      /\ count_in \in 0..(Mod - 1) /\ count_out \in 0..(Mod - 1)
  BY DEF TypeInv, TypeOK
<1>b. setup' = setup /\ T!Step(t) /\ UNCHANGED seqWords
  BY DEF Step
<1>c. T!Leave(t) <=> Leaves(t)
  BY <1>b DEF Leaves
<1>d. ~T!Leave(t) => Present' = Present
  BY <1>b, <1>c, InnerType
<1>1. CASE T!Look(t)
  <2>1. UNCHANGED <<count_next, count_in, mine>> /\ seen' = [seen EXCEPT ![t] = count_next]
    BY <1>1 DEF T!Look
  <2>2. PICK x \in {"last", "leave", "sleep"} :
          /\ pc' = [pc EXCEPT ![t] = x]
          /\ x = "sleep" => Ahead(t) \in 1..(setup.count - 1)
    BY <1>1, LookFinds
  <2>3. pc[t] = "look" /\ Present' = Present
    BY <1>1, <1>d DEF T!Look, T!Leave
  <2>4. \A s \in Threads : pc[s] = "wake" => pc'[s] = "wake"
    BY <2>2, <2>3, <1>a
  <2>5. \A s \in Threads : pc[s] = "notify" => pc'[s] = "notify"
    BY <2>2, <2>3, <1>a
  <2>6. \A s \in Threads : s # t => pc'[s] = pc[s] /\ seen'[s] = seen[s]
    BY <2>1, <2>2, <1>a
  <2>7. /\ pc'[t] = x /\ seen'[t] = count_next /\ x # "asleep" /\ x # "ending" /\ x # "ended"
    BY <2>1, <2>2, <1>a
  <2> QED
    BY <1>b, <2>1, <2>2, <2>3, <2>4, <2>5, <2>6, <2>7 DEF TicketAwake
<1>2. CASE T!Sleep(t)
  BY <1>2, <1>a, <1>b, <1>d DEF T!Sleep, T!Leave, TicketAwake
<1>3. CASE T!Last(t)
  <2>1. /\ pc[t] = "last" /\ pc' = [pc EXCEPT ![t] = "wake"]
        /\ UNCHANGED <<count_in, mine, seen>> /\ Present' = Present
    BY <1>3, <1>d DEF T!Last, T!Leave
  <2>2. pc'[t] = "wake"
    BY <2>1, <1>a
  <2> QED
    BY <1>a, <1>b, <2>1, <2>2 DEF TicketAwake
<1>4. CASE T!WakeAll(t)
  BY <1>4, <1>a, <1>b, <1>d DEF T!WakeAll, T!Leave, TicketAwake
<1>5. CASE T!Leave(t)
  <2>1. /\ pc[t] = "leave" /\ UNCHANGED <<count_next, count_in, mine, seen>>
        /\ pc' = [pc EXCEPT ![t] = IF count_out = count_in THEN "notify" ELSE "idle"]
    BY <1>5 DEF T!Leave
  <2>2. \A s \in Threads : pc[s] = "ended" => Present' # {} \/ pc'[t] = "notify"
    <3> SUFFICES ASSUME NEW s \in Threads, pc[s] = "ended", Present' = {}
                 PROVE  count_out = count_in
      BY <2>1, <1>a
    <3>1. t \in Present /\ Present' = Present \ {t}
      BY <1>5, <1>b, <1>c, LeaveType
    <3>2. Cardinality(Present) = 1
      BY <3>1, PresentSize, FS_Singleton
    <3>3. Gone = 1
      BY DEF Gone, Doomed, Destroyers
    <3>4. (count_in + 1 - count_out) % Mod = 1
      BY <3>2, <3>3 DEF OutExact
    <3>5. Mod \in Nat /\ Mod > 1
      BY SomeThread, PresentSize
    <3> QED
      BY <3>4, <3>5, <1>a, DiffIs
  <2> QED
    BY <1>a, <1>b, <2>1, <2>2 DEF TicketAwake
<1>6. CASE T!Notify(t)
  BY <1>6, <1>a, <1>b, <1>d DEF T!Notify, T!Leave, TicketAwake
<1>7. CASE T!Await(t)
  BY <1>7, <1>a, <1>b, <1>d DEF T!Await, T!Leave, TicketAwake
<1>8. CASE T!AwaitSleep(t)
  <2>1. /\ pc[t] = "ending" /\ UNCHANGED <<count_next, count_in, mine, seen>>
        /\ pc' = [pc EXCEPT ![t] = IF count_out = seen[t] THEN "ended" ELSE "await"]
        /\ Present' = Present
    BY <1>8, <1>d DEF T!AwaitSleep, T!Leave
  <2>2. pc'[t] = "ended" => Present # {}
    <3> SUFFICES ASSUME count_out = seen[t], Present = {} PROVE FALSE
      BY <2>1, <1>a
    <3>1. Gone = 1
      BY <2>1 DEF Gone, Doomed, Destroyers
    <3>2. (count_in + 1 - count_out) % Mod = 0
      BY <3>1, FS_EmptySet DEF OutExact
    <3>3. count_out # (count_in + 1) % Mod
      BY <2>1 DEF TicketAwake
    <3> QED
      BY <3>2, <3>3, <1>a, OutIsNext
  <2> QED
    BY <1>a, <1>b, <2>1, <2>2 DEF TicketAwake
<1> QED
  BY <1>b, <1>1, <1>2, <1>3, <1>4, <1>5, <1>6, <1>7, <1>8 DEF T!Step

LEMMA StepTicketAwake ==
  TypeInv /\ TicketInv /\ OutExact /\ TicketAwakeInv /\ [Next]_vars => TicketAwakeInv'
<1> SUFFICES ASSUME TypeInv, TicketInv, OutExact, TicketAwakeInv, [Next]_vars
             PROVE  TicketAwakeInv'
  OBVIOUS
<1>a. setup' = setup
  BY DEF Next, Enter, Step, Destroy, vars
<1> SUFFICES ASSUME Exact, Ticket, TicketExact, TicketAwake PROVE TicketAwake'
  BY <1>a DEF TicketInv, TicketAwakeInv, Exact, Ticket
<1>b. pc = [s \in Threads |-> pc[s]] /\ mine = [s \in Threads |-> mine[s]]
  BY DEF TypeInv, TypeOK
<1>1. ASSUME NEW t \in Threads, Enter(t) PROVE TicketAwake'
  <2>1. /\ pc[t] = "idle" /\ pc' = [pc EXCEPT ![t] = "look"] /\ ~Doomed
        /\ \A s \in Threads \ {t} : Ahead(s)' = Ahead(s)
    BY <1>1, EnterType, TicketEnter
  <2>2. seen' = seen /\ mine' = [mine EXCEPT ![t] = count_in]
    BY <1>1 DEF Enter, T!Enter
  <2>3. \A s \in Threads : pc[s] \notin Destroyers
    BY <2>1 DEF Doomed
  <2>4. /\ pc'[t] = "look"
        /\ \A s \in Threads \ {t} : pc'[s] = pc[s] /\ mine'[s] = mine[s]
    BY <1>b, <2>1, <2>2
  <2>5. \A s \in Threads : pc[s] = "wake" => pc'[s] = "wake"
    BY <2>1, <2>4
  <2> QED
    BY <1>a, <2>1, <2>2, <2>3, <2>4, <2>5 DEF TicketAwake, Destroyers, T!Minus
<1>2. ASSUME NEW t \in Threads, Step(t) PROVE TicketAwake'
  BY <1>2, TicketStepAwake
<1>3. ASSUME NEW t \in Threads, Destroy(t) PROVE TicketAwake'
  <2>1. pc[t] = "idle" /\ pc' = [pc EXCEPT ![t] = "await"] /\ ~Doomed
    BY <1>3, DestroyIsFirst
  <2>2. UNCHANGED <<count_next, mine, seen>>
    BY <1>3 DEF Destroy, T!Destroy, T!locals
  <2>3. \A s \in Threads : pc[s] \notin Destroyers
    BY <2>1 DEF Doomed
  <2> QED
    BY <1>a, <1>b, <2>1, <2>2, <2>3 DEF TicketAwake, Destroyers, Ahead, T!Minus
<1>4. CASE UNCHANGED vars
  BY <1>4 DEF vars, ticketWords, TicketAwake, Ahead, T!Minus, Present
<1> QED
  BY <1>1, <1>2, <1>3, <1>4 DEF Next

-----------------------------------------------------------------------------
(* A barrier that is being destroyed lets everybody leave.                 *)

LeavingInv ==
  Doomed /\ (Ticket => Exact) => \A s \in Present : Released(s)

LEMMA InitLeaving == Init => LeavingInv
BY DEF Init, LeavingInv, Doomed, Destroyers

LEMMA SeqStepLeaving ==
  ASSUME TypeInv, ~Ticket, \A s \in Present : S!Released(s),
         NEW t \in Threads, Step(t), ~Leaves(t)
  PROVE  \A s \in Present : S!Released(s)'
<1> USE DEF S!Goto, S!words, S!locals, S!Released
<1>a. /\ pc = [s \in Threads |-> pc[s]] /\ mine = [s \in Threads |-> mine[s]]
      /\ S!Step(t) /\ ~S!Leave(t)
  BY DEF TypeInv, TypeOK, Step, Leaves
<1>b. /\ pc[t] \notin Outsiders => pc[t] \in {"wake", "leave", "gate", "mark", "sleep", "asleep"}
      /\ pc[t] \in {"gate", "mark", "sleep", "asleep"} => seq # mine[t]
  BY DEF Present, Outsiders
<1>c. \A s \in Present : /\ s \in Threads /\ pc[s] \notin Outsiders
                         /\ \/ pc[s] \in {"wake", "leave"}
                            \/ pc[s] \in {"gate", "mark", "sleep", "asleep"} /\ seq # mine[s]
  BY DEF Present
<1> USE DEF Outsiders
<1>1. CASE S!ReadSeq(t)
  BY <1>1, <1>b DEF S!ReadSeq
<1>2. CASE S!CountIn(t)
  BY <1>2, <1>b DEF S!CountIn
<1>3. CASE S!Gate(t)
  BY <1>3, <1>a, <1>b, <1>c DEF S!Gate
<1>4. CASE S!Slow(t)
  BY <1>4, <1>b DEF S!Slow
<1>5. CASE S!Mark(t)
  BY <1>5, <1>a, <1>b, <1>c DEF S!Mark
<1>6. CASE S!Sleep(t)
  BY <1>6, <1>a, <1>b, <1>c DEF S!Sleep, S!SeqIsMine
<1>7. CASE S!Last(t)
  BY <1>7, <1>b DEF S!Last
<1>8. CASE S!WakeAll(t)
  BY <1>8, <1>a, <1>b, <1>c DEF S!WakeAll
<1>9. CASE S!Notify(t)
  BY <1>9, <1>a, <1>b, <1>c DEF S!Notify
<1>10. CASE S!Await(t)
  BY <1>10, <1>a, <1>b, <1>c DEF S!Await
<1>11. CASE S!AwaitSleep(t)
  BY <1>11, <1>a, <1>b, <1>c DEF S!AwaitSleep
<1> QED
  BY <1>a, <1>1, <1>2, <1>3, <1>4, <1>5, <1>6, <1>7, <1>8, <1>9, <1>10, <1>11 DEF S!Step

LEMMA TicketStepLeaving ==
  ASSUME TypeInv, Exact, Ticket, TicketExact, \A s \in Present : T!Released(s),
         NEW t \in Threads, Step(t), ~Leaves(t)
  PROVE  \A s \in Present : T!Released(s)'
<1> USE DEF T!Goto, T!words, T!locals, T!Released
<1>a. /\ pc = [s \in Threads |-> pc[s]] /\ T!Step(t) /\ ~T!Leave(t)
  BY DEF TypeInv, TypeOK, Step, Leaves
<1>b. \A s \in Present : /\ s \in Threads /\ pc[s] \notin Outsiders
                         /\ \/ pc[s] \in {"wake", "leave"}
                            \/ pc[s] \in {"look", "sleep", "asleep"} /\ T!Passed(s, count_next)
  BY DEF Present
<1>c. pc[t] \notin Outsiders => t \in Present
  BY DEF Present
<1>p. UNCHANGED <<mine, count_next>> =>
        \A s \in Threads : T!Passed(s, count_next)' <=> T!Passed(s, count_next)
  BY DEF T!Passed, T!Minus
<1> USE DEF Outsiders
<1>1. CASE T!Look(t)
  <2>1. T!Passed(t, count_next)
    BY <1>1, <1>b, <1>c DEF T!Look
  <2>2. Ahead(t) # setup.count
    BY <2>1, GroupIsSmall DEF T!Passed, Ahead
  <2>3. pc' = [pc EXCEPT ![t] = "leave"] /\ UNCHANGED <<mine, count_next>>
    BY <1>1, <2>1, <2>2 DEF T!Look, Ahead, T!Total
  <2> QED
    BY <2>3, <1>a, <1>b, <1>p
<1>2. CASE T!Sleep(t)
  BY <1>2, <1>a, <1>b, <1>c, <1>p DEF T!Sleep
<1>3. CASE T!Last(t)
  BY <1>3, <1>b, <1>c DEF T!Last
<1>4. CASE T!WakeAll(t)
  BY <1>4, <1>a, <1>b, <1>c, <1>p DEF T!WakeAll
<1>5. CASE T!Notify(t)
  BY <1>5, <1>a, <1>b, <1>c, <1>p DEF T!Notify
<1>6. CASE T!Await(t)
  BY <1>6, <1>a, <1>b, <1>c, <1>p DEF T!Await
<1>7. CASE T!AwaitSleep(t)
  BY <1>7, <1>a, <1>b, <1>c, <1>p DEF T!AwaitSleep
<1> QED
  BY <1>a, <1>1, <1>2, <1>3, <1>4, <1>5, <1>6, <1>7 DEF T!Step

LEMMA StepLeaving == TypeInv /\ TicketInv /\ LeavingInv /\ [Next]_vars => LeavingInv'
<1> SUFFICES ASSUME TypeInv, TicketInv, LeavingInv, [Next]_vars,
                    Doomed', Ticket => Exact
             PROVE  \A s \in Present' : Released(s)'
  BY DEF LeavingInv, Ticket, Exact, Next, Enter, Step, Destroy, vars
<1>a. setup' = setup /\ (Ticket <=> Ticket')
  BY DEF Next, Enter, Step, Destroy, vars, Ticket
<1>b. pc = [s \in Threads |-> pc[s]] /\ \A s \in Present : s \in Threads
  BY DEF TypeInv, TypeOK, Present
<1>1. ASSUME NEW t \in Threads, Enter(t) PROVE FALSE
  BY <1>1, EnterType
<1>2. ASSUME NEW t \in Threads, Step(t), Leaves(t)
      PROVE  \A s \in Present' : Released(s)'
  <2>1. /\ Present' = Present \ {t} /\ Doomed
        /\ \E x \in {"idle", "notify"} : pc' = [pc EXCEPT ![t] = x]
    BY <1>2, LeaveType DEF Step
  <2>2. UNCHANGED <<seq, mine, count_next>>
    BY <1>2 DEF Leaves, S!Leave, T!Leave, S!locals, T!locals, seqWords, ticketWords
  <2>3. \A s \in Present : Released(s)
    BY <2>1 DEF LeavingInv
  <2>4. \A s \in Present' : s \in Present /\ pc'[s] = pc[s]
    BY <2>1, <1>b
  <2> QED
    BY <2>2, <2>3, <2>4, <1>a DEF Released, S!Released, T!Released, T!Passed, T!Minus
<1>3. ASSUME NEW t \in Threads, Step(t), ~Leaves(t)
      PROVE  \A s \in Present' : Released(s)'
  <2>1. Present' = Present /\ Doomed
    BY <1>3, InnerType
  <2>2. \A s \in Present : Released(s)
    BY <2>1 DEF LeavingInv
  <2>3. CASE Ticket
    BY <1>3, <1>a, <2>1, <2>2, <2>3, TicketStepLeaving DEF Released, TicketInv
  <2>4. CASE ~Ticket
    BY <1>3, <1>a, <2>1, <2>2, <2>4, SeqStepLeaving DEF Released
  <2> QED
    BY <2>3, <2>4
<1>4. ASSUME NEW t \in Threads, Destroy(t)
      PROVE  \A s \in Present' : Released(s)'
  <2>1. /\ Present' = Present /\ pc[t] = "idle" /\ pc' = [pc EXCEPT ![t] = "await"]
        /\ \A s \in Present : Released(s)
    BY <1>4, DestroyIsFirst, DestroyType
  <2>2. UNCHANGED <<seq, mine, count_next>>
    BY <1>4 DEF Destroy, S!Destroy, T!Destroy, S!locals, T!locals, seqWords, ticketWords
  <2>3. \A s \in Present : pc'[s] = pc[s]
    BY <2>1, <1>b DEF Present, Outsiders
  <2> QED
    BY <2>1, <2>2, <2>3, <1>a DEF Released, S!Released, T!Released, T!Passed, T!Minus
<1>5. CASE UNCHANGED vars
  <2>1. Present' = Present /\ Doomed
    BY <1>5 DEF vars, Present, Doomed
  <2> QED
    BY <1>5, <1>a, <2>1 DEF LeavingInv, vars, seqWords, ticketWords, Released,
      S!Released, T!Released, T!Passed, T!Minus
<1> QED
  BY <1>1, <1>2, <1>3, <1>4, <1>5 DEF Next

-----------------------------------------------------------------------------
(* Everything together.                                                    *)

BarrierInv ==
  /\ TypeInv /\ ExactInv /\ SeqAwakeInv
  /\ TicketInv /\ OutExact /\ TicketAwakeInv /\ LeavingInv

LEMMA BarrierAlways == Spec => []BarrierInv
<1>1. Init => BarrierInv
  BY InitType, InitExact, InitSeqAwake, InitTicket, InitOut, InitTicketAwake, InitLeaving
    DEF BarrierInv
<1>2. BarrierInv /\ [Next]_vars => BarrierInv'
  BY StepType, StepExact, StepSeqAwake, StepTicket, StepOut, StepTicketAwake, StepLeaving
    DEF BarrierInv
<1> QED
  BY <1>1, <1>2, PTL DEF Spec

\* The setup is what it was.
LEMMA ExactAlways == Spec /\ Exact => []Exact
<1>1. Exact /\ [Next]_vars => Exact'
  BY DEF Next, Enter, Step, Destroy, vars, Exact
<1> QED
  BY <1>1, PTL DEF Spec

LEMMA SeqNobodyStranded ==
  ASSUME BarrierInv, Exact, ~Ticket,
         \A t \in Threads : Asleep(t) \/ pc[t] \in {"idle", "destroyed"}
  PROVE  /\ Free = {} /\ Cardinality(Inside) < setup.count
         /\ \A t \in Threads : pc[t] # "ended"
<1>a. TypeInv /\ SeqExact /\ SeqAwake /\ LeavingInv
  BY DEF BarrierInv, ExactInv, SeqAwakeInv
<1>b. \A t \in Threads : pc[t] \in {"asleep", "ended", "idle", "destroyed"}
  BY <1>a DEF Asleep, SeqExact
<1>1. \A t \in Threads : pc[t] = "asleep" => mine[t] = seq
  BY <1>a, <1>b DEF SeqAwake
<1>2. Free = {}
  BY <1>b, <1>1 DEF Free, Outside, Released, S!Released
<1>3. Inside = Members
  BY <1>b, <1>1 DEF Inside, Members, Outside, Released, S!Released
<1>4. Cardinality(Inside) < setup.count
  <2>1. count # setup.count
    BY <1>a, <1>b DEF SeqExact
  <2>2. Cardinality(Members) # setup.count
    BY <2>1, <1>a DEF SeqExact
  <2>3. Cardinality(Members) \in 0..setup.count /\ setup.count \in Nat
    BY <1>a, UserSets, AllUsers
  <2> QED
    BY <2>2, <2>3, <1>3
<1>5. ASSUME NEW t \in Threads, pc[t] = "ended" PROVE FALSE
  <2>1. Doomed
    BY <1>5 DEF Doomed, Destroyers
  <2>2. Present = {}
    BY <1>a, <1>b, <1>1, <2>1 DEF LeavingInv, Present, Outsiders, Released, S!Released
  <2>3. refcount = 0
    BY <1>a, <2>1, <2>2, FS_EmptySet DEF TypeInv, RefExact
  <2> QED
    BY <1>5, <1>a, <1>b, <2>3 DEF SeqAwake
<1> QED
  BY <1>2, <1>4, <1>5

LEMMA TicketNobodyStranded ==
  ASSUME BarrierInv, Exact, Ticket,
         \A t \in Threads : Asleep(t) \/ pc[t] \in {"idle", "destroyed"}
  PROVE  /\ Free = {} /\ Cardinality(Inside) < setup.count
         /\ \A t \in Threads : pc[t] # "ended"
<1>a. TypeInv /\ TicketExact /\ TicketAwake /\ LeavingInv
  BY DEF BarrierInv, TicketInv, TicketAwakeInv
<1>b. \A t \in Threads : pc[t] \in {"asleep", "ended", "idle", "destroyed"}
  BY <1>a DEF Asleep, TypeInv, RefExact, TicketPlaces, Destroyers
<1>c. /\ setup.count \in Nat \ {0} /\ Mod \in Nat /\ Mod \div 2 \in Nat
      /\ Mod = 2 * (Mod \div 2) /\ setup.count < Mod \div 2
  BY <1>a, GroupIsSmall
<1>1. \A t \in Threads : pc[t] = "asleep" => Ahead(t) \in 1..(setup.count - 1)
  BY <1>a, <1>b DEF TicketAwake
<1>2. \A t \in Threads : pc[t] = "asleep" => ~Released(t)
  <2> TAKE t \in Threads
  <2> SUFFICES ASSUME pc[t] = "asleep", T!Passed(t, count_next) PROVE FALSE
    BY DEF Released, T!Released
  <2>1. Ahead(t) >= Mod \div 2
    BY DEF T!Passed, Ahead
  <2> QED
    BY <2>1, <1>1, <1>c
<1>3. Free = {}
  BY <1>b, <1>2 DEF Free, Outside
<1>4. Inside = Queued
  BY <1>b, <1>1, <1>2, <1>c DEF Inside, Queued, Outside, Ticketed
<1>5. Cardinality(Inside) < setup.count
  <2>1. \A t \in Queued : Ahead(t) \in 1..(setup.count - 1)
    BY <1>b, <1>1 DEF Queued, Ticketed
  <2>2. Cardinality(Queued) # setup.count
    BY <2>1, <1>a, <1>c DEF TicketExact
  <2>3. Cardinality(Queued) \in 0..setup.count
    BY <1>a, QueuedSets, AllUsers
  <2> QED
    BY <2>2, <2>3, <1>4, <1>c
<1>6. ASSUME NEW t \in Threads, pc[t] = "ended" PROVE FALSE
  <2>1. Doomed
    BY <1>6 DEF Doomed, Destroyers
  <2>2. Present = {}
    BY <1>a, <1>b, <1>2, <2>1 DEF LeavingInv, Present, Outsiders
  <2> QED
    BY <1>6, <1>a, <1>b, <2>2 DEF TicketAwake
<1> QED
  BY <1>3, <1>5, <1>6

\* For as many users as a group has, of any barrier and for any number of
\* rounds: no wakeup is lost.  Whoever sleeps when nobody runs waits for a group
\* that is not complete, and the thread that destroys the barrier is not among
\* them.
THEOREM ExactUsersNotStranded == Spec /\ Exact => []NobodyStranded
<1>1. BarrierInv /\ Exact => NobodyStranded
  BY SeqNobodyStranded, TicketNobodyStranded DEF NobodyStranded
<1> QED
  BY <1>1, BarrierAlways, ExactAlways, PTL

-----------------------------------------------------------------------------
(* The barriers do what BarrierSpec says.                                  *)

LEMMA InsideFree ==
  /\ Inside = {t \in Present : ~Released(t)} /\ Free = {t \in Present : Released(t)}
  /\ Inside' = {t \in Present' : ~Released(t)'} /\ Free' = {t \in Present' : Released(t)'}
BY DEF Inside, Free, Present, Outside, Outsiders

LEMMA SeqStepStill ==
  ASSUME TypeInv, ~Ticket, SeqExact, NEW t \in Threads, Step(t), ~Leaves(t), ~S!Last(t)
  PROVE  \A s \in Present : S!Released(s)' <=> S!Released(s)
<1> USE DEF S!Goto, S!words, S!locals, S!Released, Outsiders
<1>a. /\ pc = [s \in Threads |-> pc[s]] /\ mine = [s \in Threads |-> mine[s]]
      /\ S!Step(t) /\ ~S!Leave(t)
  BY DEF TypeInv, TypeOK, Step, Leaves
<1>b. \A s \in Present : s \in Threads /\ pc[s] \notin Outsiders
  BY DEF Present
<1>1. CASE S!ReadSeq(t)
  BY <1>1, <1>a, <1>b DEF S!ReadSeq
<1>2. CASE S!CountIn(t)
  <2>1. mine[t] = seq
    BY <1>2 DEF S!CountIn, SeqExact
  <2> QED
    BY <1>2, <1>a, <1>b, <2>1 DEF S!CountIn
<1>3. CASE S!Gate(t)
  BY <1>3, <1>a, <1>b DEF S!Gate
<1>4. CASE S!Slow(t)
  BY <1>4, <1>a, <1>b DEF S!Slow
<1>5. CASE S!Mark(t)
  BY <1>5, <1>a, <1>b DEF S!Mark
<1>6. CASE S!Sleep(t)
  BY <1>6, <1>a, <1>b DEF S!Sleep, S!SeqIsMine
<1>8. CASE S!WakeAll(t)
  BY <1>8, <1>a, <1>b DEF S!WakeAll
<1>9. CASE S!Notify(t)
  BY <1>9, <1>a, <1>b DEF S!Notify
<1>10. CASE S!Await(t)
  BY <1>10, <1>a, <1>b DEF S!Await
<1>11. CASE S!AwaitSleep(t)
  BY <1>11, <1>a, <1>b DEF S!AwaitSleep
<1> QED
  BY <1>a, <1>1, <1>2, <1>3, <1>4, <1>5, <1>6, <1>8, <1>9, <1>10, <1>11 DEF S!Step

LEMMA TicketStepStill ==
  ASSUME TypeInv, Exact, Ticket, TicketExact, NEW t \in Threads, Step(t), ~Leaves(t), ~T!Last(t)
  PROVE  \A s \in Present : T!Released(s)' <=> T!Released(s)
<1> USE DEF T!Goto, T!words, T!locals, T!Released, Outsiders
<1>a. /\ pc = [s \in Threads |-> pc[s]] /\ T!Step(t) /\ ~T!Leave(t)
  BY DEF TypeInv, TypeOK, Step, Leaves
<1>b. \A s \in Present : s \in Threads /\ pc[s] \notin Outsiders
  BY DEF Present
<1>p. UNCHANGED <<mine, count_next>> =>
        \A s \in Threads : T!Passed(s, count_next)' <=> T!Passed(s, count_next)
  BY DEF T!Passed, T!Minus
<1>1. CASE T!Look(t)
  <2>1. pc[t] = "look" /\ UNCHANGED <<mine, count_next>>
    BY <1>1 DEF T!Look
  <2>2. PICK x \in {"last", "leave", "sleep"} :
          /\ pc' = [pc EXCEPT ![t] = x]
          /\ x = "leave" <=> T!Passed(t, count_next)
    <3>1. Ahead(t) = setup.count => ~T!Passed(t, count_next)
      BY GroupIsSmall DEF T!Passed, Ahead
    <3> QED
      BY <1>1, <3>1, LookFinds
  <2> QED
    BY <2>1, <2>2, <1>a, <1>b, <1>p
<1>2. CASE T!Sleep(t)
  BY <1>2, <1>a, <1>b, <1>p DEF T!Sleep
<1>4. CASE T!WakeAll(t)
  BY <1>4, <1>a, <1>b, <1>p DEF T!WakeAll
<1>5. CASE T!Notify(t)
  BY <1>5, <1>a, <1>b, <1>p DEF T!Notify
<1>6. CASE T!Await(t)
  BY <1>6, <1>a, <1>b, <1>p DEF T!Await
<1>7. CASE T!AwaitSleep(t)
  BY <1>7, <1>a, <1>b, <1>p DEF T!AwaitSleep
<1> QED
  BY <1>a, <1>1, <1>2, <1>4, <1>5, <1>6, <1>7 DEF T!Step

\* When a group passes, all of its users are in it, and all go at once.
LEMMA SeqLastReleases ==
  ASSUME TypeInv, Exact, ~Ticket, SeqExact, NEW t \in Threads, Step(t), S!Last(t)
  PROVE  Inside = setup.users /\ Inside' = {} /\ Free' = Free \cup Inside
<1> USE DEF S!Goto, S!locals
<1>a. /\ pc = [s \in Threads |-> pc[s]] /\ seq \in 0..(Mod - 1)
      /\ pc[t] = "last" /\ \E x \in {"leave", "wake"} : pc' = [pc EXCEPT ![t] = x]
      /\ seq' = (seq + 1) % Mod /\ mine' = mine /\ setup' = setup
  BY DEF S!Last, TypeInv, TypeOK, Step
<1>b. \A s \in Threads : pc[s] # "idle" => s \in setup.users
  BY UserSets
<1>1. Members = setup.users
  <2>1. count = setup.count
    BY <1>a DEF SeqExact
  <2>2. Cardinality(Members) = setup.count
    BY <2>1 DEF SeqExact
  <2> QED
    BY <2>2, UserSets, AllUsers
<1>2. seq' # seq
  <2>1. 2 < Mod /\ Mod \in Nat
    BY SomeThread, PresentSize, FS_EmptySet, BarrierAssumption
  <2> QED
    BY <2>1, <1>a, NextIs
<1>3. \A s \in Present : /\ s \in Members /\ s \in Threads
                         /\ pc[s] \in {"last", "gate", "mark", "sleep", "asleep"}
                         /\ pc[s] = "last" <=> s = t
                         /\ pc[s] # "last" => mine[s] = seq
  BY <1>1, <1>a, <1>b DEF Present, Outsiders, Members, SeqExact
<1>4. \A s \in Members : s \in Present
  BY DEF Members, Present, Outsiders
<1>5. \A s \in Present : ~Released(s)
  BY <1>3 DEF Released, S!Released
<1>6. Present' = Present
  BY <1>a DEF Present, Outsiders
<1>t. ~Ticket'
  BY <1>a DEF Ticket
<1>7. \A s \in Present : Released(s)'
  <2> TAKE s \in Present
  <2>1. CASE s = t
    BY <2>1, <1>a, <1>t DEF Released, S!Released
  <2>2. CASE s # t
    <3>1. pc'[s] = pc[s] /\ pc[s] \in {"gate", "mark", "sleep", "asleep"} /\ mine'[s] = seq
      BY <2>2, <1>3, <1>a
    <3> QED
      BY <3>1, <1>2, <1>t DEF Released, S!Released
  <2> QED
    BY <2>1, <2>2
<1> QED
  BY <1>1, <1>3, <1>4, <1>5, <1>6, <1>7, InsideFree

LEMMA TicketLastReleases ==
  ASSUME TypeInv, Exact, Ticket, TicketExact, NEW t \in Threads, Step(t), T!Last(t)
  PROVE  Inside = setup.users /\ Inside' = {} /\ Free' = Free \cup Inside
<1>a. /\ pc = [s \in Threads |-> pc[s]] /\ setup' = setup
      /\ pc[t] = "last" /\ pc' = [pc EXCEPT ![t] = "wake"]
  BY DEF T!Last, T!Goto, TypeInv, TypeOK, Step
<1>b. \A s \in Threads : pc[s] # "idle" => s \in setup.users
  BY UserSets
<1>c. /\ setup.count \in Nat \ {0} /\ Mod \in Nat /\ Mod \div 2 \in Nat
      /\ Mod = 2 * (Mod \div 2) /\ setup.count < Mod \div 2
  BY GroupIsSmall
<1>1. /\ Queued = setup.users
      /\ \A s \in Queued \ {t} : Ahead(s)' > Mod - setup.count
  BY <1>a, TicketLast
<1>2. \A s \in Present : s \in Queued
  BY <1>1, <1>b DEF Present, Outsiders
<1>3. \A s \in Queued : /\ s \in Present /\ pc[s] \in Ticketed /\ Ahead(s) \in 1..setup.count
                        /\ s # t => pc[s] # "last"
  <2>1. t \in Queued /\ Ahead(t) = setup.count
    BY <1>a, <1>c DEF Queued, Ticketed, TicketExact
  <2> QED
    BY <2>1 DEF Queued, Present, Outsiders, Ticketed, TicketExact
<1>4. \A s \in Present : ~Released(s)
  <2> TAKE s \in Present
  <2>1. ~T!Passed(s, count_next)
    BY <1>2, <1>3, <1>c DEF T!Passed, Ahead
  <2> QED
    BY <2>1, <1>2, <1>3 DEF Released, T!Released, Ticketed
<1>5. Present' = Present
  BY <1>a DEF Present, Outsiders
<1>t. Ticket'
  BY <1>a DEF Ticket
<1>6. \A s \in Present : Released(s)'
  <2> TAKE s \in Present
  <2>1. CASE s = t
    BY <2>1, <1>a, <1>t DEF Released, T!Released
  <2>2. CASE s # t
    <3>1. pc'[s] = pc[s] /\ pc[s] \in {"look", "sleep", "asleep"}
      BY <2>2, <1>2, <1>3, <1>a DEF Ticketed, Present
    <3>2. Ahead(s)' > Mod - setup.count
      BY <1>1, <1>2, <2>2
    <3>3. Ahead(s)' \in Int
      <4>1. mine'[s] \in Int /\ count_next' \in Int
        BY StepType, <1>a DEF Next, TypeInv, TypeOK, Present
      <4> QED
        BY <4>1, ModRange DEF Ahead, T!Minus
    <3>4. Ahead(s)' >= Mod \div 2
      BY <3>2, <3>3, <1>c
    <3>5. T!Passed(s, count_next)'
      BY <3>4 DEF T!Passed, Ahead
    <3> QED
      BY <3>1, <3>5, <1>t DEF Released, T!Released
  <2> QED
    BY <2>1, <2>2
<1> QED
  BY <1>1, <1>2, <1>3, <1>4, <1>5, <1>6, InsideFree

\* BarrierSpec counts its groups as this module does.
LEMMA GroupCounts == \A Q : Abstract!Cardinality(Q) = Cardinality(Q)
BY DEF Abstract!Cardinality, Cardinality

SpecStep == [Abstract!Next]_<<Inside, Free, Closed>>

LEMMA EnterMaps ==
  ASSUME BarrierInv, Exact, NEW t \in Threads, Enter(t)
  PROVE  Abstract!Arrive(t)
<1>a. TypeInv /\ pc = [s \in Threads |-> pc[s]] /\ mine = [s \in Threads |-> mine[s]]
  BY DEF BarrierInv, TypeInv, TypeOK
<1>b. /\ t \notin Present /\ Present' = Present \cup {t} /\ ~Doomed /\ ~Doomed'
      /\ pc[t] = "idle" /\ pc' = [pc EXCEPT ![t] = IF Ticket THEN "look" ELSE "read"]
  BY <1>a, EnterType
<1>c. setup' = setup /\ (Ticket' <=> Ticket)
  BY DEF Enter, Ticket
<1>1. ~Closed /\ ~Closed'
  BY <1>b DEF Closed, Doomed, Destroyers
<1>2. ~Released(t)'
  <2>1. CASE Ticket
    <3>1. Ahead(t)' \in 1..setup.count
      BY <1>a, <2>1, TicketEnter DEF BarrierInv, TicketInv
    <3>2. ~(Ahead(t)' >= Mod \div 2)
      BY <1>a, <3>1, GroupIsSmall
    <3>3. ~T!Passed(t, count_next)'
      BY <3>2 DEF T!Passed, Ahead
    <3> QED
      BY <2>1, <3>3, <1>a, <1>b, <1>c DEF Released, T!Released
  <2>2. CASE ~Ticket
    BY <2>2, <1>a, <1>b, <1>c DEF Released, S!Released
  <2> QED
    BY <2>1, <2>2
<1>3. \A s \in Present : Released(s)' <=> Released(s)
  <2> TAKE s \in Present
  <2>1. s \in Threads /\ s # t /\ pc'[s] = pc[s]
    BY <1>a, <1>b DEF Present
  <2>2. CASE Ticket
    <3>1. Ahead(s)' = Ahead(s)
      BY <1>a, <2>1, <2>2, TicketEnter DEF BarrierInv, TicketInv
    <3>2. T!Passed(s, count_next)' <=> T!Passed(s, count_next)
      BY <3>1 DEF T!Passed, Ahead
    <3> QED
      BY <2>1, <2>2, <3>2, <1>c DEF Released, T!Released
  <2>3. CASE ~Ticket
    <3>1. UNCHANGED <<seq, mine>>
      BY <2>3 DEF Enter, S!Enter
    <3> QED
      BY <2>1, <2>3, <3>1, <1>c DEF Released, S!Released
  <2> QED
    BY <2>2, <2>3
<1>4. Inside' = Inside \cup {t} /\ Free' = Free
  BY <1>b, <1>2, <1>3, InsideFree
<1>5. t \notin Inside \cup Free
  BY <1>b, InsideFree
<1>6. Closed' = Closed
  <2>1. pc'[t] # "destroyed" /\ pc[t] # "destroyed"
    BY <1>a, <1>b
  <2>2. \A s \in Threads : pc'[s] = "destroyed" <=> pc[s] = "destroyed"
    BY <1>a, <1>b, <2>1
  <2> QED
    BY <2>2 DEF Closed
<1>7. ~Closed
  BY <1>1
<1> HIDE DEF Inside, Free, Closed
<1> QED
  BY <1>4, <1>5, <1>6, <1>7, <1>c DEF Abstract!Arrive

LEMMA LeaveMaps ==
  ASSUME BarrierInv, NEW t \in Threads, Step(t), Leaves(t)
  PROVE  Abstract!Depart(t)
<1>a. TypeInv /\ pc = [s \in Threads |-> pc[s]] /\ setup' = setup /\ (Ticket' <=> Ticket)
  BY DEF BarrierInv, TypeInv, TypeOK, Step, Ticket
<1>b. /\ t \in Present /\ Present' = Present \ {t}
      /\ \E x \in {"idle", "notify"} : pc' = [pc EXCEPT ![t] = x]
  BY <1>a, LeaveType
<1>c. /\ UNCHANGED <<seq, mine, count_next>> /\ pc[t] = "leave"
  BY DEF Leaves, S!Leave, T!Leave, S!Goto, T!Goto, S!locals, T!locals, seqWords, ticketWords
<1>1. Released(t)
  BY <1>c DEF Released, S!Released, T!Released
<1>2. \A s \in Present' : Released(s)' <=> Released(s)
  <2>1. \A s \in Present' : pc'[s] = pc[s]
    BY <1>a, <1>b DEF Present
  <2> QED
    BY <2>1, <1>a, <1>c DEF Released, S!Released, T!Released, T!Passed, T!Minus
<1>3. Inside' = Inside /\ Free' = Free \ {t} /\ t \in Free
  BY <1>b, <1>1, <1>2, InsideFree
<1>4. Closed' = Closed
  BY <1>a, <1>b, <1>c DEF Closed
<1> QED
  BY <1>3, <1>4, <1>a DEF Abstract!Depart

LEMMA LastMaps ==
  ASSUME BarrierInv, Exact, NEW t \in Threads, Step(t),
         (~Ticket /\ S!Last(t)) \/ (Ticket /\ T!Last(t))
  PROVE  Abstract!Release
<1>a. TypeInv /\ pc = [s \in Threads |-> pc[s]] /\ setup' = setup
  BY DEF BarrierInv, TypeInv, TypeOK, Step
<1>1. Inside = setup.users /\ Inside' = {} /\ Free' = Free \cup Inside
  BY <1>a, SeqLastReleases, TicketLastReleases DEF BarrierInv, ExactInv, TicketInv
<1>2. Abstract!Cardinality(Inside) = setup.count
  BY <1>1, GroupCounts DEF Exact
<1>3. Closed' = Closed
  BY <1>a DEF Closed, S!Last, T!Last, S!Goto, T!Goto
<1>4. Inside' = Inside \ Inside /\ Inside \in SUBSET Inside
  BY <1>1
<1> QED
  BY <1>1, <1>2, <1>3, <1>4, <1>a DEF Abstract!Release

\* A destroyer that finds the counters as they were at first finds nobody inside.
LEMMA AwaitMaps ==
  ASSUME BarrierInv, NEW t \in Threads, Step(t), (~Ticket /\ S!Await(t)) \/ (Ticket /\ T!Await(t)),
         Inside' = Inside, Free' = Free
  PROVE  Abstract!Close \/ Closed' = Closed
<1>a. /\ TypeInv /\ pc = [s \in Threads |-> pc[s]] /\ setup' = setup /\ pc[t] = "await"
      /\ count_in \in 0..(Mod - 1) /\ count_out \in 0..(Mod - 1)
  BY DEF BarrierInv, TypeInv, TypeOK, Step, S!Await, T!Await, S!Goto, T!Goto
<1>b. Doomed
  BY <1>a DEF Doomed, Destroyers
<1>1. CASE pc'[t] = "destroyed"
  <2>1. Cardinality(Present) = 0
    <3>1. CASE ~Ticket
      <4>1. refcount = 0
        BY <1>1, <1>a, <3>1 DEF S!Await, S!Goto
      <4> QED
        BY <4>1, <3>1, <1>a, <1>b, PresentSize DEF TypeInv, RefExact
    <3>2. CASE Ticket
      <4>1. count_out = (count_in + 1) % Mod
        BY <1>1, <1>a, <3>2 DEF T!Await, T!Goto
      <4>2. (count_in + 1 - count_out) % Mod = 0
        BY <4>1, <1>a, OutIsNext
      <4> QED
        BY <4>2, <3>2, <1>b DEF BarrierInv, OutExact, Gone
    <3> QED
      BY <3>1, <3>2
  <2>2. Present = {}
    BY <2>1, PresentSize, FS_EmptySet
  <2>3. Inside = {} /\ Free = {}
    BY <2>2, InsideFree
  <2>4. Closed'
    BY <1>1 DEF Closed
  <2> QED
    BY <2>3, <2>4, <1>a DEF Abstract!Close
<1>2. CASE pc'[t] # "destroyed"
  <2>1. pc' = [pc EXCEPT ![t] = "ending"]
    BY <1>2, <1>a DEF S!Await, T!Await, S!Goto, T!Goto
  <2>2. Closed' = Closed
    BY <2>1, <1>a DEF Closed
  <2> QED
    BY <2>2
<1> QED
  BY <1>1, <1>2

LEMMA InnerMaps ==
  ASSUME BarrierInv, Exact, NEW t \in Threads, Step(t), ~Leaves(t),
         ~(~Ticket /\ S!Last(t)), ~(Ticket /\ T!Last(t))
  PROVE  SpecStep
<1>a. TypeInv /\ pc = [s \in Threads |-> pc[s]] /\ setup' = setup /\ (Ticket' <=> Ticket)
  BY DEF BarrierInv, TypeInv, TypeOK, Step, Ticket
<1>b. Present' = Present
  BY <1>a, InnerType
<1>1. \A s \in Present : Released(s)' <=> Released(s)
  <2>1. CASE Ticket
    BY <2>1, <1>a, TicketStepStill DEF BarrierInv, TicketInv, Released
  <2>2. CASE ~Ticket
    BY <2>2, <1>a, SeqStepStill DEF BarrierInv, ExactInv, Released
  <2> QED
    BY <2>1, <2>2
<1>2. Inside' = Inside /\ Free' = Free
  BY <1>b, <1>1, InsideFree
<1>3. CASE (~Ticket /\ S!Await(t)) \/ (Ticket /\ T!Await(t))
  BY <1>2, <1>3, AwaitMaps DEF SpecStep, Abstract!Next
<1>4. CASE ~((~Ticket /\ S!Await(t)) \/ (Ticket /\ T!Await(t)))
  <2> USE DEF S!Goto, T!Goto
  <2>1. \A s \in Threads : pc'[s] = "destroyed" <=> pc[s] = "destroyed"
    <3>1. CASE Ticket
      <4>1. \/ T!Look(t) \/ T!Sleep(t) \/ T!WakeAll(t) \/ T!Notify(t) \/ T!AwaitSleep(t)
        BY <3>1, <1>4 DEF Step, T!Step, Leaves
      <4>2. CASE T!Look(t)
        BY <4>2, <1>a DEF T!Look
      <4>3. CASE T!Sleep(t)
        BY <4>3, <1>a DEF T!Sleep
      <4>4. CASE T!WakeAll(t)
        BY <4>4, <1>a DEF T!WakeAll
      <4>5. CASE T!Notify(t)
        BY <4>5, <1>a DEF T!Notify
      <4>6. CASE T!AwaitSleep(t)
        BY <4>6, <1>a DEF T!AwaitSleep
      <4> QED
        BY <4>1, <4>2, <4>3, <4>4, <4>5, <4>6
    <3>2. CASE ~Ticket
      <4>a. S!Step(t) /\ ~S!Leave(t)
        BY <3>2 DEF Step, Leaves
      <4>b. ~S!Last(t) /\ ~S!Await(t)
        BY <3>2, <1>4
      <4>1. \/ S!ReadSeq(t) \/ S!CountIn(t) \/ S!Gate(t) \/ S!Slow(t) \/ S!Mark(t)
            \/ S!Sleep(t) \/ S!WakeAll(t) \/ S!Notify(t) \/ S!AwaitSleep(t)
        BY <4>a, <4>b DEF S!Step
      <4>2. CASE S!ReadSeq(t) \/ S!CountIn(t)
        BY <4>2, <1>a DEF S!ReadSeq, S!CountIn
      <4>3. CASE S!Gate(t) \/ S!Slow(t) \/ S!Mark(t)
        BY <4>3, <1>a DEF S!Gate, S!Slow, S!Mark
      <4>4. CASE S!Sleep(t)
        BY <4>4, <1>a DEF S!Sleep
      <4>5. CASE S!WakeAll(t)
        BY <4>5, <1>a DEF S!WakeAll
      <4>6. CASE S!Notify(t) \/ S!AwaitSleep(t)
        BY <4>6, <1>a DEF S!Notify, S!AwaitSleep
      <4> QED
        BY <4>1, <4>2, <4>3, <4>4, <4>5, <4>6
    <3> QED
      BY <3>1, <3>2
  <2>2. Closed' = Closed
    BY <2>1 DEF Closed
  <2> QED
    BY <1>2, <2>2 DEF SpecStep
<1> QED
  BY <1>3, <1>4

LEMMA DestroyMaps ==
  ASSUME BarrierInv, NEW t \in Threads, Destroy(t)
  PROVE  SpecStep
<1>a. TypeInv /\ pc = [s \in Threads |-> pc[s]] /\ setup' = setup /\ (Ticket' <=> Ticket)
  BY DEF BarrierInv, TypeInv, TypeOK, Destroy, Ticket
<1>1. Present' = Present /\ pc[t] = "idle" /\ pc' = [pc EXCEPT ![t] = "await"]
  BY <1>a, DestroyIsFirst, DestroyType
<1>2. UNCHANGED <<seq, mine, count_next>>
  BY DEF Destroy, S!Destroy, T!Destroy, S!locals, T!locals, seqWords, ticketWords
<1>3. \A s \in Present : pc'[s] = pc[s]
  BY <1>1, <1>a DEF Present, Outsiders
<1>4. \A s \in Present : Released(s)' <=> Released(s)
  BY <1>2, <1>3, <1>a DEF Released, S!Released, T!Released, T!Passed, T!Minus
<1>5. Inside' = Inside /\ Free' = Free
  BY <1>1, <1>4, InsideFree
<1>6. Closed' = Closed
  BY <1>1, <1>a DEF Closed
<1> QED
  BY <1>5, <1>6 DEF SpecStep

LEMMA StepMaps == BarrierInv /\ Exact /\ [Next]_vars => SpecStep
<1> SUFFICES ASSUME BarrierInv, Exact, [Next]_vars PROVE SpecStep
  OBVIOUS
<1>1. ASSUME NEW t \in Threads, Enter(t) PROVE SpecStep
  BY <1>1, EnterMaps DEF SpecStep, Abstract!Next
<1>2. ASSUME NEW t \in Threads, Step(t), Leaves(t) PROVE SpecStep
  BY <1>2, LeaveMaps DEF SpecStep, Abstract!Next
<1>3. ASSUME NEW t \in Threads, Step(t), (~Ticket /\ S!Last(t)) \/ (Ticket /\ T!Last(t))
      PROVE  SpecStep
  BY <1>3, LastMaps DEF SpecStep, Abstract!Next
<1>4. ASSUME NEW t \in Threads, Destroy(t) PROVE SpecStep
  BY <1>4, DestroyMaps
<1>5. CASE UNCHANGED vars
  <2>1. UNCHANGED <<pc, setup, seq, mine, count_next>>
    BY <1>5 DEF vars, seqWords, ticketWords
  <2>2. Present' = Present /\ \A s \in Present : Released(s)' <=> Released(s)
    BY <2>1 DEF Present, Released, S!Released, T!Released, T!Passed, T!Minus, Ticket
  <2>3. Inside' = Inside /\ Free' = Free /\ Closed' = Closed
    BY <2>1, <2>2, InsideFree DEF Closed
  <2> QED
    BY <2>3 DEF SpecStep
<1>6. ASSUME NEW t \in Threads, Step(t) PROVE SpecStep
  <2>1. CASE Leaves(t)
    BY <1>2, <1>6, <2>1
  <2>2. CASE (~Ticket /\ S!Last(t)) \/ (Ticket /\ T!Last(t))
    BY <1>3, <1>6, <2>2
  <2>3. CASE ~Leaves(t) /\ ~(~Ticket /\ S!Last(t)) /\ ~(Ticket /\ T!Last(t))
    BY <1>6, <2>3, InnerMaps
  <2> QED
    BY <2>1, <2>2, <2>3
<1>7. Next \/ UNCHANGED vars
  OBVIOUS
<1> QED
  BY <1>1, <1>4, <1>5, <1>6, <1>7 DEF Next

LEMMA InitMaps == Init => Abstract!Init
<1> SUFFICES ASSUME Init PROVE Abstract!Init
  OBVIOUS
<1>1. setup \in Setups /\ \A t \in Threads : pc[t] = "idle"
  BY DEF Init
<1>2. Inside = {} /\ Free = {} /\ Closed = FALSE
  BY <1>1 DEF Inside, Free, Closed, Outside
<1> QED
  BY <1>1, <1>2 DEF Abstract!Init

\* For as many users as a group has, each barrier, in every round, lets its
\* users through together and when all have arrived, and is destroyed only when
\* the last has left.
THEOREM ExactUsersImplementBarrier == Spec /\ Exact => ImplementsBarrier
<1>1. SpecStep => [mixed' \/ Abstract!Next]_<<Inside, Free, Closed>>
  BY DEF SpecStep
<1>2. Spec /\ Exact => [][mixed' \/ Abstract!Next]_<<Inside, Free, Closed>>
  BY <1>1, StepMaps, BarrierAlways, ExactAlways, PTL DEF Spec
<1> QED
  BY <1>2, InitMaps, PTL DEF Spec, ImplementsBarrier
=============================================================================
