---------------------------- MODULE BoundedFifo ----------------------------
(***************************************************************************)
(* What the first version of the queue promises: messages of different     *)
(* lengths leave in the order they were put, each once and whole, and the  *)
(* queue never holds more than its size.                                   *)
(***************************************************************************)
EXTENDS Integers, Sequences

CONSTANTS Consumers, Size, Header, Lengths, NoMessage

VARIABLES
  queue,    \* the messages in it, oldest first: [seq, len]
  used,     \* cells they take, with a header each
  put,      \* how many were put
  got       \* consumer -> the message it got last

vars == <<queue, used, put, got>>

Init == queue = <<>> /\ used = 0 /\ put = 0 /\ got = [c \in Consumers |-> NoMessage]

Put(len) ==
  /\ used + len + Header <= Size
  /\ queue' = Append(queue, [seq |-> put, len |-> len])
  /\ used' = used + len + Header
  /\ put' = put + 1
  /\ UNCHANGED got

Get(c) ==
  /\ queue # <<>>
  /\ queue' = Tail(queue)
  /\ used' = used - Head(queue).len - Header
  /\ got' = [got EXCEPT ![c] = Head(queue)]
  /\ UNCHANGED put

Next == (\E len \in Lengths : Put(len)) \/ (\E c \in Consumers : Get(c))

Spec == Init /\ [][Next]_vars
=============================================================================
