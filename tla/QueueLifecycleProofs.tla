------------------------ MODULE QueueLifecycleProofs ------------------------
(* Theorems about QueueLifecycle for every number of clients and slots.     *)
EXTENDS QueueLifecycle, FiniteSetTheorems, TLAPS

Ended == {"no_readers", "sync_gone", "failed", "unlinked"}

\* Clients that queue_init forgot and that have closed the queue since.
ForgottenClosed == {c \in forgotten : pc[c] = "gone"}

LEMMA InitType == Init => TypeOK
<1>1. NewRing \in Ring
  BY LifeAssumption DEF NewRing, Ring, Slots
<1> QED
  BY <1>1, LifeAssumption DEF Init, TypeOK, OpenPlaces, AttachedPlaces

\* What the operations leave behind is a ring again.
LEMMA RingType ==
  ASSUME ring \in Ring
  PROVE  /\ \A by \in Int : Moved(ring.lag, by) \in Int
         /\ \A i \in Slots : NextSlot(i) \in Slots
         /\ (ring.tail + ring.ahead) % Entries \in Slots
BY LifeAssumption DEF Ring, Moved, NextSlot, Slots

LEMMA PopType ==
  ASSUME ring \in Ring, Pop
  PROVE  ring' \in Ring
<1> DEFINE a == IF Behind THEN 1 ELSE ring.ahead
           full == ring.lag + a \notin 0 .. Entries - 1
           l == IF full THEN Moved(ring.lag, -1) ELSE ring.lag
           h == IF full THEN NextSlot(ring.head) ELSE ring.head
<1>1. a \in Int
  BY DEF Ring
<1>2. ring' = [ring EXCEPT !.ahead = a, !.lag = l, !.head = h]
  BY DEF Pop
<1> HIDE DEF a, full
<1>3. l \in Int /\ h \in Slots
  BY RingType DEF Ring
<1> HIDE DEF l, h
<1> QED
  BY <1>1, <1>2, <1>3 DEF Ring

LEMMA PushType ==
  ASSUME ring \in Ring, Push
  PROVE  ring' \in Ring
<1> DEFINE u == IF Behind THEN 2 ELSE 1
           w == ring.written \cup {(ring.tail + ring.ahead) % Entries}
           l == IF Behind THEN Moved(ring.lag, 1) ELSE ring.lag
           t == IF Behind THEN NextSlot(ring.tail) ELSE ring.tail
           z == 0
<1>1. u \in 0 .. 2 /\ z \in Int
  OBVIOUS
<1>2. w \in SUBSET Slots
  BY RingType DEF Ring
<1>3. l \in Int /\ t \in Slots
  BY RingType DEF Ring
<1>4. ring' = [ring EXCEPT !.ahead = z, !.unseen = u, !.written = w,
                           !.lag = l, !.tail = t]
  BY DEF Push
<1> HIDE DEF u, w, l, t, z
<1> QED
  BY <1>1, <1>2, <1>3, <1>4 DEF Ring

LEMMA TakeType ==
  ASSUME ring \in Ring, NEW c \in Clients,
         GetTakes(c) \/ GetMissed(c) \/ LastTakes(c)
  PROVE  ring' \in Ring
<1>1. CASE GetTakes(c)
  <2> DEFINE u == 0
             l == Moved(ring.lag, 1)
             a == ring.ahead - 1
             t == NextSlot(ring.tail)
  <2>1. u \in 0 .. 2 /\ l \in Int /\ a \in Int /\ t \in Slots
    BY RingType DEF Ring
  <2>2. ring' = [ring EXCEPT !.unseen = u, !.lag = l, !.ahead = a, !.tail = t]
    BY <1>1 DEF GetTakes
  <2> HIDE DEF u, l, a, t
  <2> QED
    BY <2>1, <2>2 DEF Ring
<1>2. CASE GetMissed(c)
  BY <1>2 DEF GetMissed, Ring
<1>3. CASE LastTakes(c)
  <2>1. Moved(ring.lag, -1) \in Int /\ NextSlot(ring.head) \in Slots
    BY RingType DEF Ring
  <2> QED
    BY <1>3, <2>1 DEF LastTakes, Ring
<1> QED
  BY <1>1, <1>2, <1>3

\* Every step keeps the types.
LEMMA StepType == TypeOK /\ [Next]_vars => TypeOK'
<1> SUFFICES ASSUME TypeOK, [Next]_vars PROVE TypeOK'
  OBVIOUS
<1> USE LifeAssumption DEF TypeOK, history, Serve, Goto, OpenPlaces,
        AttachedPlaces
<1>1. ASSUME Server PROVE TypeOK'
  <2>1. Counted \subseteq Clients
    BY DEF Counted
  <2>2. CASE Push
    BY <2>2, PushType DEF Push
  <2> QED
    BY <1>1, <2>1, <2>2 DEF Server, InitCreate, InitSize, InitFields,
      InitReaders, DestroyCheck, EndWait, DestroySync, DestroyFails, Unlink
<1>2. ASSUME Pop PROVE TypeOK'
  BY <1>2, PopType DEF Pop
<1>3. ASSUME DestroyMark PROVE TypeOK'
  BY <1>3 DEF DestroyMark, EndWait
<1>4. ASSUME NEW c \in Clients, OpenFails(c) \/ OpenInfo(c) PROVE TypeOK'
  BY <1>4 DEF OpenFails, OpenInfo
<1>5. ASSUME NEW c \in Clients, OpenReadsEntries(c) PROVE TypeOK'
  BY <1>5 DEF OpenReadsEntries
<1>6. ASSUME NEW c \in Clients, OpenCounts(c) PROVE TypeOK'
  BY <1>6 DEF OpenCounts
<1>7. ASSUME NEW c \in Clients, OpenMaps(c) PROVE TypeOK'
  BY <1>7 DEF OpenMaps
<1>8. ASSUME NEW c \in Clients, GetTakes(c) \/ GetMissed(c) \/ LastTakes(c)
      PROVE  TypeOK'
  BY <1>8, TakeType DEF GetTakes, GetMissed, LastTakes, Returns
<1>12. ASSUME NEW c \in Clients, FallsAsleep(c) \/ TimesOut(c) \/ CheckEntries(c)
       PROVE  TypeOK'
  BY <1>12 DEF FallsAsleep, TimesOut, CheckEntries
<1>9. ASSUME NEW c \in Clients, Close(c) PROVE TypeOK'
  BY <1>9 DEF Close
<1>10. ASSUME NEW c \in Clients, Interrupt(c) \/ Killed(c) PROVE TypeOK'
  BY <1>10 DEF Interrupt, Killed
<1>11. CASE UNCHANGED vars
  BY <1>11 DEF vars
<1> QED
  BY <1>1, <1>2, <1>3, <1>4, <1>5, <1>6, <1>7, <1>8, <1>9, <1>10, <1>11, <1>12
  DEF Next, Opening, Consume

\* TypeOK holds in every reachable state, for any clients and any ring.
THEOREM LifeTypeCorrect == Spec => []TypeOK
BY InitType, StepType, PTL DEF Spec

-----------------------------------------------------------------------------
(* The count of readers.                                                    *)

\* Sums of two numbers below S, reduced as size_t values are.
LEMMA SizeT ==
  ASSUME NEW S \in Nat \ {0}, NEW x \in 0 .. 2 * S - 1
  PROVE  x % S = IF x < S THEN x ELSE x - S
<1>1. CASE x < S
  BY <1>1
<1>2. CASE x >= S
  <2>1. x - S \in 0 .. S - 1
    BY <1>2
  <2>2. x = 1 * S + (x - S)
    OBVIOUS
  <2> QED
    BY <1>2, <2>1, <2>2
<1> QED
  BY <1>1, <1>2

\* What has to be known besides ReadersExact: no client is forgotten that was
\* not counted.
ForgottenWereCounted == forgotten \subseteq Counted \cup ForgottenClosed

CountInv == ForgottenWereCounted /\ ReadersExact

\* Counting one more or one less in size_t arithmetic.
LEMMA CountOneMore ==
  ASSUME NEW S \in Nat \ {0}, NEW x \in 0 .. 2 * S - 1,
         NEW y \in 0 .. 2 * S - 1, y = x + 1
  PROVE  ((x % S) + 1) % S = y % S
<1> DEFINE r == x % S
           z == r + 1
<1>1. r = IF x < S THEN x ELSE x - S
  BY SizeT
<1>2. y % S = IF y < S THEN y ELSE y - S
  BY SizeT
<1> HIDE DEF r
<1>3. z \in 0 .. 2 * S - 1
  BY <1>1
<1> HIDE DEF z
<1>4. z % S = IF z < S THEN z ELSE z - S
  BY <1>3, SizeT
<1> QED
  BY <1>1, <1>2, <1>4 DEF r, z

LEMMA CountOneLess ==
  ASSUME NEW S \in Nat \ {0}, NEW x \in 0 .. 2 * S - 1,
         NEW y \in 0 .. 2 * S - 1, x = y + 1
  PROVE  ((x % S) + S - 1) % S = y % S
<1> DEFINE r == x % S
           z == r + S - 1
<1>1. r = IF x < S THEN x ELSE x - S
  BY SizeT
<1>2. y % S = IF y < S THEN y ELSE y - S
  BY SizeT
<1> HIDE DEF r
<1>3. z \in 0 .. 2 * S - 1
  BY <1>1
<1> HIDE DEF z
<1>4. z % S = IF z < S THEN z ELSE z - S
  BY <1>3, SizeT
<1> QED
  BY <1>1, <1>2, <1>4 DEF r, z

\* Any number of clients fits a size_t.
LEMMA ClientSets ==
  ASSUME NEW T \in SUBSET Clients
  PROVE  IsFiniteSet(T) /\ Cardinality(T) \in 0 .. SizeMod - 1
<1>1. Cardinality(Clients) \in Nat
  BY LifeAssumption, FS_CardinalityType
<1> QED
  BY <1>1, LifeAssumption, FS_Subset, FS_CardinalityType

\* The sets that ReadersExact counts hold clients.
LEMMA CountedClients ==
  TypeOK => /\ Counted \ forgotten \in SUBSET Clients
            /\ ForgottenClosed \in SUBSET Clients
BY DEF Counted, ForgottenClosed, TypeOK

LEMMA InitCount == Init => CountInv
<1> SUFFICES ASSUME Init PROVE CountInv
  OBVIOUS
<1>1. Counted = {} /\ forgotten = {} /\ ForgottenClosed = {}
  BY DEF Init, Counted, AttachedPlaces, ForgottenClosed
<1>2. (0 + SizeMod - 0) % SizeMod = 0
  BY SizeT, LifeAssumption
<1> QED
  BY <1>1, <1>2, FS_EmptySet
  DEF Init, CountInv, ForgottenWereCounted, ReadersExact, ForgottenClosed

\* A step that counts nobody in or out.
LEMMA SameCount ==
  ASSUME CountInv, UNCHANGED <<readers, forgotten>>, Counted' = Counted,
         \A c \in forgotten : pc'[c] = "gone" <=> pc[c] = "gone"
  PROVE  CountInv'
<1>1. ForgottenClosed' = ForgottenClosed
  BY DEF ForgottenClosed
<1>2. readers' = (Cardinality(Counted' \ forgotten') + SizeMod
                    - Cardinality(ForgottenClosed')) % SizeMod
  BY <1>1 DEF CountInv, ReadersExact, ForgottenClosed
<1>3. ReadersExact'
  BY <1>2 DEF ReadersExact, ForgottenClosed
<1> QED
  BY <1>1, <1>3 DEF CountInv, ForgottenWereCounted

\* The same for a step of one client, from one place to another.
LEMMA SameCountStep ==
  ASSUME TypeOK, CountInv, UNCHANGED <<readers, forgotten>>,
         NEW c \in Clients, NEW from, NEW to, Goto(c, from, to),
         from \in {"mapping", "lost"} \cup AttachedPlaces
           <=> to \in {"mapping", "lost"} \cup AttachedPlaces,
         to = "gone" => c \notin forgotten,
         from # "gone"
  PROVE  CountInv'
<1>1. \A d \in Clients : d # c => pc'[d] = pc[d]
  BY DEF Goto, TypeOK
<1>2. pc[c] = from /\ pc'[c] = to
  BY DEF Goto, TypeOK
<1>3. Counted' = Counted
  BY <1>1, <1>2 DEF Counted
<1>4. \A d \in forgotten : pc'[d] = "gone" <=> pc[d] = "gone"
  BY <1>1, <1>2 DEF TypeOK
<1> QED
  BY <1>3, <1>4, SameCount

\* queue_open counts the client in.
LEMMA CountedIn ==
  ASSUME TypeOK, CountInv, NEW c \in Clients, OpenCounts(c)
  PROVE  CountInv'
<1> USE LifeAssumption
<1>1. /\ pc[c] = "counting" /\ pc'[c] = "mapping"
      /\ \A d \in Clients : d # c => pc'[d] = pc[d]
      /\ readers' = (readers + 1) % SizeMod /\ forgotten' = forgotten
  BY DEF OpenCounts, Goto, TypeOK, history
<1>2. c \notin forgotten /\ c \notin Counted
  BY <1>1 DEF CountInv, ForgottenWereCounted, ForgottenClosed, Counted,
    AttachedPlaces
<1>3. Counted' = Counted \cup {c}
  BY <1>1 DEF Counted, AttachedPlaces
<1>4. ForgottenClosed' = ForgottenClosed
  BY <1>1, <1>2 DEF ForgottenClosed, TypeOK
<1> DEFINE a == Cardinality(Counted \ forgotten)
           b == Cardinality(ForgottenClosed)
           a1 == Cardinality(Counted' \ forgotten')
<1>5. a1 = a + 1
  <2>1. Counted' \ forgotten' = (Counted \ forgotten) \cup {c}
    BY <1>1, <1>2, <1>3
  <2>2. IsFiniteSet(Counted \ forgotten) /\ a \in Nat
    BY CountedClients, ClientSets
  <2> QED
    BY <1>2, <2>1, <2>2, FS_AddElement
<1>6. a \in 0 .. SizeMod - 1 /\ b \in 0 .. SizeMod - 1
  BY CountedClients, ClientSets
<1>7. a1 \in 0 .. SizeMod - 1
  <2>1. Counted' \ forgotten' \in SUBSET Clients
    BY DEF Counted
  <2> QED
    BY <2>1, ClientSets
<1> DEFINE x == a + SizeMod - b
           y == a1 + SizeMod - b
<1>8. readers = x % SizeMod
  BY DEF CountInv, ReadersExact, ForgottenClosed
<1> HIDE DEF a, b, a1
<1>9. /\ x \in 0 .. 2 * SizeMod - 1 /\ y \in 0 .. 2 * SizeMod - 1
      /\ y = x + 1
  BY <1>5, <1>6, <1>7
<1> HIDE DEF x, y
<1>10. readers' = y % SizeMod
  BY <1>1, <1>8, <1>9, CountOneMore
<1>11. ReadersExact'
  BY <1>4, <1>10 DEF ReadersExact, ForgottenClosed, y, a1, b
<1> QED
  BY <1>1, <1>3, <1>4, <1>11 DEF CountInv, ForgottenWereCounted

\* queue_close takes it out again, or takes out one too many.
LEMMA CountedOut ==
  ASSUME TypeOK, CountInv, NEW c \in Clients, Close(c)
  PROVE  CountInv'
<1> USE LifeAssumption
<1>1. /\ pc[c] = "closing" /\ pc'[c] = "gone"
      /\ \A d \in Clients : d # c => pc'[d] = pc[d]
      /\ readers' = (readers + SizeMod - 1) % SizeMod
      /\ forgotten' = forgotten
  BY DEF Close, Goto, TypeOK, history
<1>2. c \in Counted /\ c \notin ForgottenClosed
  BY <1>1 DEF Counted, AttachedPlaces, ForgottenClosed
<1>3. Counted' = Counted \ {c}
  BY <1>1 DEF Counted, AttachedPlaces
<1>4. ForgottenClosed'
        = IF c \in forgotten THEN ForgottenClosed \cup {c} ELSE ForgottenClosed
  BY <1>1 DEF ForgottenClosed, TypeOK
<1> DEFINE a == Cardinality(Counted \ forgotten)
           b == Cardinality(ForgottenClosed)
           a1 == Cardinality(Counted' \ forgotten')
           b1 == Cardinality(ForgottenClosed')
<1>5. /\ a \in 0 .. SizeMod - 1 /\ b \in 0 .. SizeMod - 1
      /\ IsFiniteSet(Counted \ forgotten) /\ IsFiniteSet(ForgottenClosed)
  BY CountedClients, ClientSets
<1>6. a1 \in 0 .. SizeMod - 1 /\ b1 \in 0 .. SizeMod - 1
  <2>1. Counted' \ forgotten' \in SUBSET Clients
    BY DEF Counted
  <2>2. ForgottenClosed' \in SUBSET Clients
    BY <1>4, CountedClients
  <2> QED
    BY <2>1, <2>2, ClientSets
<1>7. a - b = a1 - b1 + 1
  <2>1. CASE c \in forgotten
    <3>1. Counted' \ forgotten' = Counted \ forgotten
      BY <1>1, <1>3, <2>1
    <3>2. b1 = b + 1
      BY <1>2, <1>4, <1>5, <2>1, FS_AddElement
    <3> QED
      BY <1>5, <3>1, <3>2
  <2>2. CASE c \notin forgotten
    <3>1. Counted' \ forgotten' = (Counted \ forgotten) \ {c}
      BY <1>1, <1>3
    <3>2. a1 = a - 1
      BY <1>2, <1>5, <2>2, <3>1, FS_RemoveElement
    <3>3. b1 = b
      BY <1>4, <2>2
    <3> QED
      BY <1>5, <3>2, <3>3
  <2> QED
    BY <2>1, <2>2
<1> DEFINE x == a + SizeMod - b
           y == a1 + SizeMod - b1
<1>8. readers = x % SizeMod
  BY DEF CountInv, ReadersExact, ForgottenClosed
<1> HIDE DEF a, b, a1, b1
<1>9. /\ x \in 0 .. 2 * SizeMod - 1 /\ y \in 0 .. 2 * SizeMod - 1
      /\ x = y + 1
  BY <1>5, <1>6, <1>7
<1> HIDE DEF x, y
<1>10. readers' = y % SizeMod
  BY <1>1, <1>8, <1>9, CountOneLess
<1>11. ReadersExact'
  BY <1>10 DEF ReadersExact, ForgottenClosed, y, a1, b1
<1>12. ForgottenWereCounted'
  BY <1>1, <1>3, <1>4 DEF CountInv, ForgottenWereCounted
<1> QED
  BY <1>11, <1>12 DEF CountInv

\* queue_init forgets whoever was counted before it is done.
LEMMA CountForgotten ==
  ASSUME CountInv, InitReaders
  PROVE  CountInv'
<1>1. Counted' = Counted /\ forgotten' = Counted /\ readers' = 0
  BY DEF InitReaders, Counted
<1>2. ForgottenClosed' = {} /\ Counted' \ forgotten' = {}
  BY <1>1 DEF ForgottenClosed, Counted, AttachedPlaces, InitReaders
<1>3. (0 + SizeMod - 0) % SizeMod = 0
  BY SizeT, LifeAssumption
<1> QED
  BY <1>1, <1>2, <1>3, FS_EmptySet
  DEF CountInv, ForgottenWereCounted, ReadersExact, ForgottenClosed

\* Every step counts right.
LEMMA StepCount == TypeOK /\ CountInv /\ [Next]_vars => CountInv'
<1> SUFFICES ASSUME TypeOK, CountInv, [Next]_vars PROVE CountInv'
  OBVIOUS
<1> USE DEF OpenPlaces, AttachedPlaces, history
<1>1. ASSUME Server PROVE CountInv'
  <2>1. CASE InitReaders
    BY <2>1, CountForgotten
  <2>2. CASE Server /\ ~InitReaders
    <3>1. UNCHANGED <<readers, forgotten, pc>>
      BY <2>2 DEF Server, InitCreate, InitSize, InitFields, DestroyCheck,
        EndWait, DestroySync, DestroyFails, Unlink, Push
    <3>2. Counted' = Counted
      BY <3>1 DEF Counted
    <3> QED
      BY <3>1, <3>2, SameCount
  <2> QED
    BY <1>1, <2>1, <2>2
<1>2. CASE Pop \/ DestroyMark \/ UNCHANGED vars
  <2>1. UNCHANGED <<readers, forgotten, pc>>
    BY <1>2 DEF Pop, DestroyMark, EndWait, vars
  <2>2. Counted' = Counted
    BY <2>1 DEF Counted
  <2> QED
    BY <2>1, <2>2, SameCount
<1>3. ASSUME NEW c \in Clients, OpenFails(c) PROVE CountInv'
  <2>1. c \notin forgotten
    BY <1>3 DEF OpenFails, Goto, CountInv, ForgottenWereCounted, Counted,
      ForgottenClosed
  <2> QED
    BY <1>3, <2>1, SameCountStep DEF OpenFails
<1>4. ASSUME NEW c \in Clients, OpenInfo(c) PROVE CountInv'
  BY <1>4, SameCountStep DEF OpenInfo
<1>5. ASSUME NEW c \in Clients, OpenReadsEntries(c) PROVE CountInv'
  BY <1>5, SameCountStep DEF OpenReadsEntries
<1>6. ASSUME NEW c \in Clients, OpenMaps(c) PROVE CountInv'
  BY <1>6, SameCountStep DEF OpenMaps
<1>7. ASSUME NEW c \in Clients, GetTakes(c) \/ GetMissed(c) \/ LastTakes(c)
      PROVE  CountInv'
  <2>1. PICK from \in AttachedPlaces, to \in AttachedPlaces : Goto(c, from, to)
    BY <1>7 DEF GetTakes, GetMissed, LastTakes, Returns, Calling, Goto
  <2>2. UNCHANGED <<readers, forgotten>>
    BY <1>7 DEF GetTakes, GetMissed, LastTakes
  <2> QED
    BY <2>1, <2>2, SameCountStep
<1>8. ASSUME NEW c \in Clients, FallsAsleep(c) \/ TimesOut(c) PROVE CountInv'
  BY <1>8, SameCountStep DEF FallsAsleep, TimesOut
<1>9. ASSUME NEW c \in Clients, CheckEntries(c) PROVE CountInv'
  BY <1>9, SameCountStep DEF CheckEntries
<1>10. ASSUME NEW c \in Clients, Interrupt(c) PROVE CountInv'
  BY <1>10, SameCountStep DEF Interrupt
<1>11. ASSUME NEW c \in Clients, Killed(c) PROVE CountInv'
  <2>1. PICK from \in AttachedPlaces : Goto(c, from, "lost")
    BY <1>11 DEF Killed, Goto
  <2> QED
    BY <1>11, <2>1, SameCountStep DEF Killed
<1> QED
  BY <1>1, <1>2, <1>3, <1>4, <1>5, <1>6, <1>7, <1>8, <1>9, <1>10, <1>11,
     CountedIn, CountedOut DEF Next, Opening, Consume

\* readers counts the clients that are attached, except those queue_init
\* forgot, for any number of clients (ReadersExact).
THEOREM LifeReadersExact == Spec => []ReadersExact
<1>1. Init => TypeOK /\ CountInv
  BY InitType, InitCount
<1>2. TypeOK /\ CountInv /\ [Next]_vars => (TypeOK /\ CountInv)'
  BY StepType, StepCount
<1>3. CountInv => ReadersExact
  BY DEF CountInv
<1> QED
  BY <1>1, <1>2, <1>3, PTL DEF Spec

-----------------------------------------------------------------------------
(* Whom queue_destroy catches.                                              *)

\* Clients that have seen a live queue and are, or will be, attached to it.
Holding(c) ==
  seen[c] # 0 /\ pc[c] \in {"counting", "mapping"} \cup AttachedPlaces

\* entries stays 0 from DestroyMark on, so nobody begins to hold the queue
\* later; attached clients have seen it alive.
RaceInv ==
  /\ server \in {"waiting"} \cup Ended => entries = 0
  /\ \A c \in Clients : pc[c] \in AttachedPlaces => seen[c] # 0
  /\ server \in Ended /\ forgotten = {} =>
       \A c \in Clients : Holding(c) => c \in racing

LEMMA InitRace == Init => RaceInv
BY DEF Init, RaceInv, Ended, AttachedPlaces

\* With nobody forgotten, readers = 0 means that nobody is counted.
LEMMA NoReaders ==
  ASSUME TypeOK, ReadersExact, forgotten = {}, readers = 0
  PROVE  Counted = {}
<1>1. ForgottenClosed = {} /\ Counted \ forgotten = Counted
  BY DEF ForgottenClosed
<1> DEFINE x == Cardinality(Counted) + SizeMod - 0
<1>2. 0 = x % SizeMod
  BY <1>1, FS_EmptySet DEF ReadersExact, ForgottenClosed
<1>3. Cardinality(Counted) \in 0 .. SizeMod - 1 /\ IsFiniteSet(Counted)
  BY <1>1, CountedClients, ClientSets
<1>4. SizeMod \in Nat \ {0} /\ x \in SizeMod .. 2 * SizeMod - 1
  BY <1>3, LifeAssumption
<1> HIDE DEF x
<1>5. x = SizeMod
  BY <1>2, <1>4, SizeT
<1>6. Cardinality(Counted) = 0
  BY <1>3, <1>4, <1>5 DEF x
<1> QED
  BY <1>3, <1>6, FS_EmptySet

\* The moment queue_destroy stops waiting: only clients inside queue_open hold
\* the queue.
LEMMA EndWaitRace ==
  ASSUME TypeOK, ReadersExact, RaceInv, StopWaiting, EndWait, entries' = 0,
         UNCHANGED <<pc, seen, forgotten>>
  PROVE  RaceInv'
<1>1. ASSUME forgotten = {}, NEW c \in Clients, Holding(c)
      PROVE  c \in racing'
  <2>1. c \notin Counted
    BY <1>1, NoReaders DEF StopWaiting
  <2>2. pc[c] = "counting" /\ seen[c] # 0
    BY <1>1, <2>1 DEF Holding, Counted
  <2> QED
    BY <2>2 DEF EndWait
<1>2. \A c \in Clients : Holding(c)' => Holding(c)
  BY DEF Holding
<1> QED
  BY <1>1, <1>2 DEF RaceInv

\* A step of one client after the end brings nobody new into the queue.
LEMMA ClientRace ==
  ASSUME TypeOK, RaceInv, NEW c \in Clients,
         UNCHANGED <<server, entries, forgotten, racing>>,
         \A d \in Clients : d # c => pc'[d] = pc[d] /\ seen'[d] = seen[d],
         pc'[c] \in AttachedPlaces => seen'[c] # 0,
         Holding(c)' => Holding(c) \/ entries # 0
  PROVE  RaceInv'
BY DEF RaceInv, Holding

LEMMA StepRace == TypeOK /\ ReadersExact /\ RaceInv /\ [Next]_vars => RaceInv'
<1> SUFFICES ASSUME TypeOK, ReadersExact, RaceInv, [Next]_vars PROVE RaceInv'
  OBVIOUS
<1> USE DEF history, Goto, AttachedPlaces
<1>1. ASSUME DestroyCheck PROVE RaceInv'
  <2>1. entries' = 0
    BY <1>1 DEF DestroyCheck, RaceInv
  <2> QED
    BY <1>1, <2>1, EndWaitRace DEF DestroyCheck
<1>2. ASSUME DestroyMark PROVE RaceInv'
  <2>1. CASE StopWaiting
    BY <1>2, <2>1, EndWaitRace DEF DestroyMark
  <2>2. CASE ~StopWaiting
    BY <1>2, <2>2 DEF DestroyMark, RaceInv, Ended, Holding
  <2> QED
    BY <2>1, <2>2
<1>3. ASSUME Server, ~DestroyCheck PROVE RaceInv'
  BY <1>3 DEF Server, Serve, InitCreate, InitSize, InitFields, InitReaders,
    DestroySync, DestroyFails, Unlink, Push, RaceInv, Ended, Holding
<1>4. CASE Pop \/ UNCHANGED vars
  BY <1>4 DEF Pop, Serve, vars, RaceInv, Ended, Holding
<1>5. ASSUME NEW c \in Clients, OpenFails(c) \/ OpenInfo(c) PROVE RaceInv'
  BY <1>5, ClientRace DEF OpenFails, OpenInfo, Holding, TypeOK
<1>6. ASSUME NEW c \in Clients, OpenReadsEntries(c) PROVE RaceInv'
  BY <1>6, ClientRace DEF OpenReadsEntries, Holding, TypeOK
<1>7. ASSUME NEW c \in Clients, OpenCounts(c) PROVE RaceInv'
  BY <1>7, ClientRace DEF OpenCounts, Holding, TypeOK
<1>8. ASSUME NEW c \in Clients, OpenMaps(c) PROVE RaceInv'
  BY <1>8, ClientRace DEF OpenMaps, Holding, TypeOK
<1>9. ASSUME NEW c \in Clients, GetTakes(c) \/ GetMissed(c) \/ LastTakes(c)
      PROVE  RaceInv'
  <2>1. /\ pc[c] \in AttachedPlaces /\ pc'[c] \in AttachedPlaces
        /\ \A d \in Clients : d # c => pc'[d] = pc[d]
        /\ UNCHANGED <<server, entries, seen, forgotten, racing>>
    BY <1>9 DEF GetTakes, GetMissed, LastTakes, Returns, Calling, TypeOK
  <2> QED
    BY <2>1, ClientRace DEF RaceInv, Holding
<1>10. ASSUME NEW c \in Clients,
              \/ FallsAsleep(c) \/ TimesOut(c) \/ CheckEntries(c)
              \/ Interrupt(c) \/ Close(c)
       PROVE  RaceInv'
  BY <1>10, ClientRace
  DEF FallsAsleep, TimesOut, CheckEntries, Interrupt, Close, Holding, RaceInv,
    TypeOK
<1>11. ASSUME NEW c \in Clients, Killed(c) PROVE RaceInv'
  BY <1>11, ClientRace DEF Killed, Holding, TypeOK
<1> QED
  BY <1>1, <1>2, <1>3, <1>4, <1>5, <1>6, <1>7, <1>8, <1>9, <1>10, <1>11
  DEF Next, Opening, Consume

\* queue_destroy releases nothing under a client, except one that was inside
\* queue_open at its last look or came after queue_init forgot somebody
\* (OnlyRacersAreCaught), for any number of clients.
THEOREM LifeOnlyRacersAreCaught == Spec => []OnlyRacersAreCaught
<1> DEFINE I == TypeOK /\ CountInv /\ RaceInv
<1>1. Init => I
  BY InitType, InitCount, InitRace
<1>2. I /\ [Next]_vars => I'
  BY StepType, StepCount, StepRace DEF CountInv
<1>3. I => OnlyRacersAreCaught
  BY DEF RaceInv, Holding, OnlyRacersAreCaught, Ended
<1> QED
  BY <1>1, <1>2, <1>3, PTL DEF Spec

-----------------------------------------------------------------------------
(* The ring that has run away.                                              *)

\* Where last_tail is: next to tail, behind it after a queue_get; and ahead of
\* it if a message was still unseen at the last queue_pop.
CursorInv ==
  /\ ring.ahead \in -1 .. 1
  /\ server = "lending" /\ Behind => ring.ahead = 1
  /\ server # "lending" => ring.ahead <= 0
  /\ server # "lending" /\ Behind => ring.ahead = 0

LEMMA InitCursor == Init => CursorInv
BY DEF Init, CursorInv, NewRing, Behind

\* A step that leaves the ring alone, and does not begin or end a loan.
LEMMA SameRing ==
  ASSUME UNCHANGED ring, server' = "lending" <=> server = "lending"
  PROVE  /\ CursorInv => CursorInv'
         /\ RanAway => RanAway'
BY DEF CursorInv, RanAway, Behind

\* The steps that do not.
LEMMA RingSteps ==
  ASSUME [Next]_vars
  PROVE  \/ Pop \/ Push
         \/ \E c \in Clients : GetTakes(c) \/ GetMissed(c) \/ LastTakes(c)
         \/ UNCHANGED ring /\ (server' = "lending" <=> server = "lending")
<1> USE DEF Serve
<1>1. CASE Server
  BY <1>1 DEF Server, InitCreate, InitSize, InitFields, InitReaders,
    DestroyCheck, EndWait, DestroySync, DestroyFails, Unlink
<1>2. CASE DestroyMark \/ UNCHANGED vars
  BY <1>2 DEF DestroyMark, EndWait, vars
<1>3. ASSUME NEW c \in Clients,
             \/ OpenFails(c) \/ OpenInfo(c) \/ Opening(c) \/ FallsAsleep(c)
             \/ TimesOut(c) \/ CheckEntries(c) \/ Close(c)
             \/ Interrupt(c) \/ Killed(c)
      PROVE  UNCHANGED <<ring, server>>
  BY <1>3 DEF OpenFails, OpenInfo, Opening, OpenReadsEntries, OpenCounts,
    OpenMaps, FallsAsleep, TimesOut, CheckEntries, Close, Interrupt, Killed
<1> QED
  BY <1>1, <1>2, <1>3 DEF Next, Consume

LEMMA StepCursor == TypeOK /\ CursorInv /\ [Next]_vars => CursorInv'
<1> SUFFICES ASSUME TypeOK, CursorInv, [Next]_vars PROVE CursorInv'
  OBVIOUS
<1> USE DEF CursorInv, Behind, TypeOK, Ring
<1>1. CASE Pop
  BY <1>1 DEF Pop, Serve
<1>2. CASE Push
  BY <1>2 DEF Push, Serve
<1>3. ASSUME NEW c \in Clients, GetTakes(c) PROVE CursorInv'
  BY <1>3 DEF GetTakes
<1>4. ASSUME NEW c \in Clients, GetMissed(c) PROVE CursorInv'
  BY <1>4 DEF GetMissed
<1>5. ASSUME NEW c \in Clients, LastTakes(c) PROVE CursorInv'
  BY <1>5 DEF LastTakes
<1> QED
  BY <1>1, <1>2, <1>3, <1>4, <1>5, RingSteps, SameRing

\* A pop takes head one further, a push or a queue_get tail one further, and
\* there is one of these two for each pop.
LEMMA StepAway ==
  TypeOK /\ CursorInv /\ RanAway /\ [Next]_vars => RanAway'
<1> SUFFICES ASSUME TypeOK, CursorInv, RanAway, [Next]_vars PROVE RanAway'
  OBVIOUS
<1> USE LifeAssumption DEF CursorInv, RanAway, Behind, TypeOK, Ring, Moved
<1>1. CASE Pop
  <2>1. /\ ring'.lag = Moved(ring.lag, -1) /\ ring'.unseen = ring.unseen
        /\ server = "serving" /\ server' = "lending"
    <3> DEFINE ahead == IF Behind THEN 1 ELSE ring.ahead
    <3>1. ring.lag + ahead < 0
      BY <1>1 DEF Pop, Serve
    <3> QED
      BY <1>1, <3>1 DEF Pop, Serve
  <2> QED
    BY <2>1
<1>2. CASE Push
  BY <1>2 DEF Push, Serve
<1>3. ASSUME NEW c \in Clients, GetTakes(c) PROVE RanAway'
  BY <1>3 DEF GetTakes
<1>4. ASSUME NEW c \in Clients, GetMissed(c) PROVE RanAway'
  BY <1>4 DEF GetMissed
<1>5. ASSUME NEW c \in Clients, LastTakes(c) PROVE RanAway'
  BY <1>5 DEF LastTakes
<1> QED
  BY <1>1, <1>2, <1>3, <1>4, <1>5, RingSteps, SameRing

\* Once head has run away from tail no call brings it back (RunsAwayForGood),
\* for any clients and any ring.
THEOREM LifeRunsAwayForGood == Spec => RunsAwayForGood
<1>1. Init => TypeOK /\ CursorInv
  BY InitType, InitCursor
<1>2. TypeOK /\ CursorInv /\ [Next]_vars => (TypeOK /\ CursorInv)'
  BY StepType, StepCursor
<1>3. TypeOK /\ CursorInv /\ RanAway /\ [Next]_vars => RanAway'
  BY StepAway
<1>4. TypeOK /\ RanAway => ring.lag < 0
  BY DEF TypeOK, Ring, RanAway
<1> QED
  BY <1>1, <1>2, <1>3, <1>4, PTL DEF Spec, RunsAwayForGood
=============================================================================
