----------------------------- MODULE BoundedFifo -----------------------------
(***************************************************************************)
(* What the ring buffer of src/SocketsSS/TaskThree/server.c promises: a    *)
(* first-in first-out queue that never holds more than Capacity items and  *)
(* hands each item to one consumer.  got[t] is the item t took last.       *)
(***************************************************************************)
EXTENDS Naturals, Sequences

CONSTANTS Item, Consumer, Capacity

VARIABLES queue, got

TypeOK ==
  /\ queue \in Seq(Item) /\ Len(queue) <= Capacity
  /\ got \in [Consumer -> Item]

Init == queue = <<>> /\ got \in [Consumer -> Item]

Put(x) ==
  /\ Len(queue) < Capacity
  /\ queue' = Append(queue, x)
  /\ UNCHANGED got

Get(t) ==
  /\ queue # <<>>
  /\ queue' = Tail(queue)
  /\ got' = [got EXCEPT ![t] = Head(queue)]

Next == (\E x \in Item : Put(x)) \/ (\E t \in Consumer : Get(t))

Spec == Init /\ [][Next]_<<queue, got>>
=============================================================================
