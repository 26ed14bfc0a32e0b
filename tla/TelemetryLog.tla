---------------------------- MODULE TelemetryLog ----------------------------
(***************************************************************************)
(* What the queue promises when its publishers call queue_put, with no     *)
(* ring, no index and no lock.                                             *)
(*                                                                         *)
(* The last message published is fresh until one real-time consumer takes  *)
(* it or the next publisher retires it.  Either way it becomes an unread   *)
(* entry for the telemetry consumers, flagged if nobody took it; they read *)
(* entries oldest first, each entry once.  At most Capacity entries are    *)
(* kept: a publisher that needs the room discards the oldest one.  A       *)
(* consumer that finds it has missed messages gives up the fresh one too,  *)
(* and that message is then lost to the telemetry consumers as well.       *)
(***************************************************************************)
EXTENDS Naturals, FiniteSets

CONSTANTS Getters, Telems, Capacity

VARIABLES
  published,  \* how many messages have been published; they are numbered
  fresh,      \* the last one has been neither taken, retired nor given up
  seen,       \* what `published' was when queue_get last looked
  unread,     \* entries for the telemetry consumers
  got,        \* real-time consumer -> the message it was given last
  read        \* telemetry consumer -> the entry it was given last

vars == <<published, fresh, seen, unread, got, read>>

NoMessage == [seq |-> 0, miss |-> 0, given |-> FALSE]
Message(n, flag) == [seq |-> n, miss |-> flag]
Given(e) == [seq |-> e.seq, miss |-> e.miss, given |-> TRUE]

Newest == published - 1

Init ==
  /\ published = 0 /\ fresh = FALSE /\ seen = 0
  /\ unread = {}
  /\ got = [g \in Getters |-> NoMessage]
  /\ read = [t \in Telems |-> NoMessage]

Publish ==
  /\ ~fresh
  /\ Cardinality(unread) < Capacity
  /\ published' = published + 1
  /\ fresh' = TRUE
  /\ UNCHANGED <<seen, unread, got, read>>

Retire ==
  /\ fresh
  /\ fresh' = FALSE
  /\ unread' = unread \cup {Message(Newest, 1)}
  /\ UNCHANGED <<published, seen, got, read>>

IsOldest(e) == e \in unread /\ \A f \in unread : e.seq <= f.seq

Discard ==
  /\ Cardinality(unread) = Capacity
  /\ \E e \in unread : IsOldest(e) /\ unread' = unread \ {e}
  /\ UNCHANGED <<published, fresh, seen, got, read>>

Take(g) ==
  /\ fresh /\ published = seen + 1
  /\ fresh' = FALSE /\ seen' = published
  /\ got' = [got EXCEPT ![g] = Given(Message(Newest, 0))]
  /\ unread' = unread \cup {Message(Newest, 0)}
  /\ UNCHANGED <<published, read>>

GiveUp ==
  /\ fresh /\ published > seen + 1
  /\ fresh' = FALSE /\ seen' = published
  /\ UNCHANGED <<published, unread, got, read>>

Read(t) ==
  /\ \E e \in unread :
       /\ IsOldest(e)
       /\ unread' = unread \ {e}
       /\ read' = [read EXCEPT ![t] = Given(e)]
  /\ UNCHANGED <<published, fresh, seen, got>>

Next ==
  \/ Publish \/ Retire \/ Discard \/ GiveUp
  \/ \E g \in Getters : Take(g)
  \/ \E t \in Telems : Read(t)

Spec == Init /\ [][Next]_vars
=============================================================================
