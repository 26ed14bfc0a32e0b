--------------------------- MODULE QueueLifecycle ---------------------------
(***************************************************************************)
(* The life of the shared segment: queue_init, queue_open, queue_close and *)
(* queue_destroy, driven by the programs of test.c.  One server process    *)
(* creates the segment, publishes until it is interrupted, and destroys    *)
(* it; client processes open it by name, consume until a call returns      *)
(* nothing and `entries' is 0, and close it.                               *)
(*                                                                         *)
(* readers, the number of clients, is guarded by read_mutex.  entries is   *)
(* read by clients with no lock; 0 tells them that the queue is going.     *)
(* What flows through the ring is the subject of TelemetryQueue: here it   *)
(* is only what decides whether a consumer's call finds something.         *)
(***************************************************************************)
EXTENDS Integers, FiniteSets

CONSTANTS
  Clients,     \* client processes; each opens the queue once
  Telems,      \* those built with TELEM, which call queue_get_last; the others
               \* call queue_get
  Entries,     \* slots of the ring
  MaxAdrift,   \* bound: a head this far past tail is not followed further
  SizeMod,     \* one more than the largest size_t
  Mortal       \* clients that may be killed while they are attached

ASSUME LifeAssumption ==
  /\ IsFiniteSet(Clients) /\ Mortal \subseteq Clients /\ Telems \subseteq Clients
  /\ Entries \in Nat \ {0} /\ SizeMod \in Nat
  /\ Entries < SizeMod /\ Cardinality(Clients) < SizeMod
  /\ MaxAdrift \in Nat /\ MaxAdrift >= 3

VARIABLES
  entries, readers,   \* shared_t
  ring,       \* what the indices and slots of the ring say of each other
  server,     \* where the server is
  pc,         \* client -> where it is
  seen,       \* client -> what it read of entries in queue_open
  forgotten,  \* history: clients already counted when queue_init zeroed readers
  racing      \* history: clients that had seen a live queue, but were not yet
              \* counted, when queue_destroy found no reader

history == <<forgotten, racing>>
vars    == <<entries, readers, ring, server, pc, seen, history>>

OpenPlaces     == {"opened", "counting", "mapping"}
AttachedPlaces == {"attached", "asleep", "checking", "closing"}

\* Counted by queue_open and not yet by queue_close; "lost" is a client that
\* ended without closing.
Counted == {c \in Clients : pc[c] \in {"mapping", "lost"} \cup AttachedPlaces}

Slots == 0 .. Entries - 1
NextSlot(i) == (i + 1) % Entries

\* The indices only grow, so the ring is described by their differences.
Ring == [lag     : Int,            \* tail - head
         ahead   : Int,            \* last_tail - tail
         unseen  : 0 .. 2,         \* tail_seq - last_tail_seq, 2 for any more
         tail    : Slots,          \* slot of tail
         head    : Slots,          \* slot of head
         written : SUBSET Slots]   \* slots published at least once

NewRing == [lag |-> 0, ahead |-> 0, unseen |-> 0, tail |-> 0, head |-> 0,
            written |-> {}]

\* tail - head after one of them has moved.  As a size_t a negative one is
\* almost 2^64; that it never comes back from the bound is RunsAwayForGood.
Moved(lag, by) == IF lag <= -MaxAdrift THEN -MaxAdrift ELSE lag + by

Init ==
  /\ entries = 0 /\ readers = 0 /\ ring = NewRing
  /\ server = "start"
  /\ pc = [c \in Clients |-> "start"]
  /\ seen = [c \in Clients |-> 0]
  /\ forgotten = {} /\ racing = {}

Serve(from, to) == server = from /\ server' = to
Goto(c, from, to) == pc[c] = from /\ pc' = [pc EXCEPT ![c] = to]

-----------------------------------------------------------------------------
(* The server.                                                             *)

\* shm_open with O_CREAT: the segment has a name before it has a size.
InitCreate ==
  /\ Serve("start", "created")
  /\ UNCHANGED <<entries, readers, ring, pc, seen, history>>

InitSize ==
  /\ Serve("created", "sized")
  /\ UNCHANGED <<entries, readers, ring, pc, seen, history>>

InitFields ==
  /\ Serve("sized", "filled")
  /\ entries' = Entries
  /\ UNCHANGED <<readers, ring, pc, seen, history>>

\* The last assignment of queue_init; no lock is held.
InitReaders ==
  /\ Serve("filled", "serving")
  /\ readers' = 0
  /\ forgotten' = Counted
  /\ UNCHANGED <<entries, ring, pc, seen, racing>>

Behind == ring.unseen > 0

\* queue_pop.  last_tail - head is compared as a size_t: if it is negative, the
\* ring counts as full and head moves on, past last_tail.
Pop ==
  /\ Serve("serving", "lending")
  /\ LET ahead == IF Behind THEN 1 ELSE ring.ahead
         full  == ring.lag + ahead \notin 0 .. Entries - 1
     IN  ring' = [ring EXCEPT !.ahead = ahead,
                    !.lag  = IF full THEN Moved(@, -1) ELSE @,
                    !.head = IF full THEN NextSlot(@) ELSE @]
  /\ UNCHANGED <<entries, readers, pc, seen, history>>

PushPassesAlways ==
  /\ Serve("lending", "serving")
  /\ ring' = [ring EXCEPT !.ahead = 0, !.unseen = IF Behind THEN 2 ELSE 1,
                 !.written = @ \cup {(ring.tail + ring.ahead) % Entries},
                 !.lag  = Moved(@, 1), !.tail = NextSlot(@)]
  /\ UNCHANGED <<entries, readers, pc, seen, history>>
\* queue_push, into the slot of last_tail; a message nobody has got is passed.
Push ==
  /\ Serve("lending", "serving")
  /\ ring' = [ring EXCEPT !.ahead = 0, !.unseen = IF Behind THEN 2 ELSE 1,
                 !.written = @ \cup {(ring.tail + ring.ahead) % Entries},
                 !.lag  = IF Behind THEN Moved(@, 1) ELSE @,
                 !.tail = IF Behind THEN NextSlot(@) ELSE @]
  /\ UNCHANGED <<entries, readers, pc, seen, history>>

\* The loop of queue_destroy ends; what follows is no longer under read_mutex.
StopWaitingForLast == readers <= 1
StopWaiting == readers = 0

EndWait ==
  /\ server' = "no_readers"
  /\ racing' = {c \in Clients : pc[c] = "counting" /\ seen[c] # 0}

\* The server is interrupted: publisher_loop ends and queue_destroy begins.
DestroyMark ==
  /\ server = "serving"
  /\ entries' = 0
  /\ IF StopWaiting THEN EndWait
     ELSE server' = "waiting" /\ UNCHANGED racing
  /\ UNCHANGED <<readers, ring, pc, seen, forgotten>>

\* A later look, after each second of waiting on write_cond.
DestroyCheck ==
  /\ server = "waiting"
  /\ StopWaiting
  /\ EndWait
  /\ UNCHANGED <<entries, readers, ring, pc, seen, forgotten>>

\* Unmap, and destroy the mutexes and condition variables.
DestroySync ==
  /\ Serve("no_readers", "sync_gone")
  /\ UNCHANGED <<entries, readers, ring, pc, seen, history>>

\* pthread_mutex_destroy refuses a mutex that somebody holds, and the server
\* exits: the name stays.
DestroyFails ==
  /\ \E c \in Clients : pc[c] \in {"counting", "attached", "closing"}
  /\ Serve("no_readers", "failed")
  /\ UNCHANGED <<entries, readers, ring, pc, seen, history>>

Unlink ==
  /\ Serve("sync_gone", "unlinked")
  /\ UNCHANGED <<entries, readers, ring, pc, seen, history>>

-----------------------------------------------------------------------------
(* A client.                                                               *)

\* There is no segment of that name, and queue_open returns 1; or it has no
\* size yet, and the first look into it kills the process.
OpenFails(c) ==
  /\ server \in {"start", "created", "unlinked"}
  /\ Goto(c, "start", "gone")
  /\ UNCHANGED <<entries, readers, ring, server, seen, history>>

OpenInfo(c) ==
  /\ server \notin {"start", "created", "unlinked"}
  /\ Goto(c, "start", "opened")
  /\ UNCHANGED <<entries, readers, ring, server, seen, history>>

\* No lock is held.
OpenReadsEntries(c) ==
  /\ Goto(c, "opened", "counting")
  /\ seen' = [seen EXCEPT ![c] = entries]
  /\ UNCHANGED <<entries, readers, ring, server, history>>

\* Under read_mutex; once that is destroyed, mutex_lock fails, unnoticed.  (What
\* calls a client makes after that return is undefined: here, anything.)
OpenCounts(c) ==
  /\ Goto(c, "counting", "mapping")
  /\ readers' = (readers + 1) % SizeMod
  /\ UNCHANGED <<entries, ring, server, seen, history>>

\* A buffer of no entries cannot be mapped: exit, still counted.
OpenMaps(c) ==
  /\ Goto(c, "mapping", IF seen[c] = 0 THEN "lost" ELSE "attached")
  /\ UNCHANGED <<entries, readers, ring, server, seen, history>>

\* consumer_loop is in a call, which has yet to look at the ring or waits.
Calling(c) == pc[c] \in {"attached", "asleep"}

\* A slot never published holds length 0: consumer_loop looks at entries.
Returns(c, slot) ==
  pc' = [pc EXCEPT ![c] = IF slot \in ring.written THEN "attached"
                                                   ELSE "checking"]

\* queue_get takes the newest message, and leaves last_tail where it is.
GetTakes(c) ==
  /\ c \notin Telems /\ Calling(c) /\ ring.unseen = 1
  /\ ring' = [ring EXCEPT !.unseen = 0, !.lag = Moved(@, 1), !.ahead = @ - 1,
                          !.tail = NextSlot(@)]
  /\ Returns(c, ring.tail)
  /\ UNCHANGED <<entries, readers, server, seen, history>>

\* It has missed some, gives up the newest too and returns 0.
GetMissed(c) ==
  /\ c \notin Telems /\ Calling(c) /\ ring.unseen = 2
  /\ ring' = [ring EXCEPT !.unseen = 0]
  /\ pc' = [pc EXCEPT ![c] = "checking"]
  /\ UNCHANGED <<entries, readers, server, seen, history>>

\* queue_get_last, while tail and head differ.
LastTakes(c) ==
  /\ c \in Telems /\ Calling(c) /\ ring.lag # 0
  /\ ring' = [ring EXCEPT !.lag = Moved(@, -1), !.head = NextSlot(@)]
  /\ Returns(c, ring.head)
  /\ UNCHANGED <<entries, readers, server, seen, history>>

\* There is nothing, so the call waits; it may get what comes, or time out,
\* even if something has come.
FallsAsleep(c) ==
  /\ IF c \in Telems THEN ring.lag = 0 ELSE ring.unseen = 0
  /\ Goto(c, "attached", "asleep")
  /\ UNCHANGED <<entries, readers, ring, server, seen, history>>

TimesOut(c) ==
  /\ Goto(c, "asleep", "checking")
  /\ UNCHANGED <<entries, readers, ring, server, seen, history>>

CheckEntriesIgnored(c) ==
  /\ Goto(c, "checking", "attached")
  /\ UNCHANGED <<entries, readers, ring, server, seen, history>>
\* No lock is held.
CheckEntries(c) ==
  /\ Goto(c, "checking", IF entries = 0 THEN "closing" ELSE "attached")
  /\ UNCHANGED <<entries, readers, ring, server, seen, history>>

Interrupt(c) ==
  /\ Goto(c, "attached", "closing")
  /\ UNCHANGED <<entries, readers, ring, server, seen, history>>

CloseUnwrapped(c) ==
  /\ Goto(c, "closing", "gone")
  /\ readers' = readers - 1
  /\ UNCHANGED <<entries, ring, server, seen, history>>
CloseUncounted(c) ==
  /\ Goto(c, "closing", "gone")
  /\ UNCHANGED <<entries, readers, ring, server, seen, history>>
Close(c) ==
  /\ Goto(c, "closing", "gone")
  /\ readers' = (readers + SizeMod - 1) % SizeMod
  /\ UNCHANGED <<entries, ring, server, seen, history>>

\* Between two calls: a client that dies in one leaves a mutex locked.
Killed(c) ==
  /\ c \in Mortal
  /\ pc[c] \in AttachedPlaces \ {"asleep"}
  /\ pc' = [pc EXCEPT ![c] = "lost"]
  /\ UNCHANGED <<entries, readers, ring, server, seen, history>>

Server == \/ InitCreate \/ InitSize \/ InitFields \/ InitReaders
          \/ Push \/ DestroyCheck \/ DestroySync \/ DestroyFails \/ Unlink
Opening(c) == OpenReadsEntries(c) \/ OpenCounts(c) \/ OpenMaps(c)
Consume(c) ==
  \/ GetTakes(c) \/ GetMissed(c) \/ LastTakes(c) \/ FallsAsleep(c) \/ TimesOut(c)
  \/ CheckEntries(c) \/ Close(c)

Next ==
  \/ Server \/ Pop \/ DestroyMark
  \/ \E c \in Clients :
       \/ OpenFails(c) \/ OpenInfo(c) \/ Opening(c) \/ Consume(c)
       \/ Interrupt(c) \/ Killed(c)

Spec == Init /\ [][Next]_vars

\* Every process goes on with what it is doing; when a program starts, is
\* interrupted or is killed is up to the operator.
FairSpec ==
  /\ Spec
  /\ WF_vars(Server)
  /\ \A c \in Clients : WF_vars(Opening(c)) /\ WF_vars(Consume(c))

-----------------------------------------------------------------------------
(* Properties.                                                             *)

\* Counters stay size_t values and processes where their programs take them.
TypeOK ==
  /\ entries \in {0, Entries} /\ readers \in 0 .. SizeMod - 1
  /\ ring \in Ring
  /\ server \in {"start", "created", "sized", "filled", "serving", "lending",
                 "waiting", "no_readers", "sync_gone", "failed", "unlinked"}
  /\ pc \in [Clients -> {"start", "gone", "lost"} \cup OpenPlaces
                                                  \cup AttachedPlaces]
  /\ seen \in [Clients -> {0, Entries}]
  /\ forgotten \subseteq Clients /\ racing \subseteq Clients

\* readers is the number of clients that queue_open has counted and
\* queue_close has not, those that died included; clients that queue_init
\* forgot are missing from it, and are taken away once more when they close.
ReadersExact ==
  LET closed == {c \in forgotten : pc[c] = "gone"}
  IN  readers = (Cardinality(Counted \ forgotten) + SizeMod
                   - Cardinality(closed)) % SizeMod

\* queue_destroy releases nothing under a client it could know of: one that
\* is attached after that was already inside queue_open, past its look at
\* entries but not yet counted, when queue_destroy looked for readers the last
\* time -- unless queue_init had forgotten a client.
OnlyRacersAreCaught ==
  /\ server \in {"no_readers", "sync_gone", "failed", "unlinked"}
  /\ forgotten = {}
  => \A c \in Clients : pc[c] \in AttachedPlaces => c \in racing

\* head is so far past tail that no call brings the two together again: inside
\* a pop and push head has moved on already, and tail moves on at the next
\* queue_get if there is something to get.
RanAway ==
  ring.lag + (IF server = "lending" THEN 1 ELSE 0)
           - (IF Behind THEN 0 ELSE 1) <= -2

\* Once that has happened queue_get_last never finds the ring empty again,
\* whatever the publisher and the consumers do.
RunsAwayForGood == [](RanAway => [](ring.lag < 0))

\* A client in queue_get_last, or about to call it, with head past tail.
Adrift(c) == c \in Telems /\ Calling(c) /\ ring.lag < 0

\* Once entries is 0 every client that is attached leaves: it empties the
\* ring, times out, looks at entries and closes -- except that a call of
\* queue_get_last does not time out while head is past tail.
ClientsLeave ==
  \A c \in Clients :
    pc[c] \in AttachedPlaces /\ server = "waiting"
      ~> pc[c] \in {"gone", "lost"} \/ Adrift(c)

\* queue_destroy ends, unless a client dies or exits counted, was forgotten, or
\* is adrift: clients that come while it waits, and leave properly, do not
\* hinder it.
DestroyEnds ==
  server = "waiting" ~>
    \/ server \in {"failed", "unlinked"} \/ forgotten # {}
    \/ \E c \in Clients : pc[c] = "lost" \/ Adrift(c)

-----------------------------------------------------------------------------
(* What the message of queue_destroy, "not all readers disconnected..      *)
(* waiting before closing", says and the code does not do.                 *)

\* It closes after it has waited, if no client dies, exits while it is counted,
\* or was counted too early.
ClosesAfterWaiting ==
  server = "waiting" ~>
    \/ server # "waiting" \/ forgotten # {}
    \/ \E c \in Clients : pc[c] = "lost"

\* It closes only when there is no reader.
ClosedUnderNobody ==
  server \in {"sync_gone", "unlinked"} =>
    \A c \in Clients : pc[c] \notin AttachedPlaces
=============================================================================
