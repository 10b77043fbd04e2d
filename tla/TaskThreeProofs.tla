--------------------------- MODULE TaskThreeProofs ---------------------------
(***************************************************************************)
(* What holds of the queueing server for any number of clients, threads,   *)
(* places in the ring and descriptors.                                     *)
(***************************************************************************)
EXTENDS TaskThree, FiniteSetTheorems, SequenceTheorems, TLAPS

-----------------------------------------------------------------------------
(* The ring.                                                               *)

\* Indices of the ring grow by less than two rounds.
LEMMA Modulo ==
  ASSUME NEW N \in Nat \ {0}, NEW a \in 0..2 * N - 1
  PROVE  a % N = (IF a < N THEN a ELSE a - N)
OBVIOUS

LEMMA Places ==
  /\ \A f \in Index : Advance(f) = (IF f = QUEUE_SIZE - 1 THEN 0 ELSE f + 1) /\ Advance(f) \in Index
  /\ \A f \in Index, k \in 0..QUEUE_SIZE :
       (f + k) % QUEUE_SIZE = (IF f + k < QUEUE_SIZE THEN f + k ELSE f + k - QUEUE_SIZE)
<1>1. \A f \in Index : f + 1 \in 0..2 * QUEUE_SIZE - 1
  BY QueueSizeAssumption DEF Index
<1>2. \A f \in Index, k \in 0..QUEUE_SIZE : f + k \in 0..2 * QUEUE_SIZE - 1
  BY QueueSizeAssumption DEF Index
<1>3. \A a \in 0..2 * QUEUE_SIZE - 1 :
        a % QUEUE_SIZE = (IF a < QUEUE_SIZE THEN a ELSE a - QUEUE_SIZE)
  BY QueueSizeAssumption, Modulo
<1> QED BY <1>1, <1>2, <1>3, QueueSizeAssumption DEF Index, Advance

\* Place wraps as Advance does, and different places stay different.
LEMMA PlaceFacts ==
  ASSUME queue_front \in Index
  PROVE  /\ \A k \in 0..QUEUE_SIZE : Place(k) \in Index
         /\ Place(0) = queue_front
         /\ \A j, k \in 0..QUEUE_SIZE - 1 : Place(j) = Place(k) => j = k
         /\ \A k \in 0..QUEUE_SIZE - 1 :
              /\ Advance(Place(k)) = Place(k + 1)
              /\ (Advance(queue_front) + k) % QUEUE_SIZE = Place(k + 1)
<1>1. /\ QUEUE_SIZE \in Nat \ {0} /\ queue_front \in 0..QUEUE_SIZE - 1
      /\ Index = 0..QUEUE_SIZE - 1
  BY QueueSizeAssumption DEF Index
<1>2. \A k \in 0..QUEUE_SIZE : Place(k) =
        (IF queue_front + k < QUEUE_SIZE THEN queue_front + k ELSE queue_front + k - QUEUE_SIZE)
  BY Places DEF Place
<1>3. \A f \in Index : Advance(f) = (IF f = QUEUE_SIZE - 1 THEN 0 ELSE f + 1) /\ Advance(f) \in Index
  BY Places
<1>4. \A f \in Index, k \in 0..QUEUE_SIZE :
        (f + k) % QUEUE_SIZE = (IF f + k < QUEUE_SIZE THEN f + k ELSE f + k - QUEUE_SIZE)
  BY Places
<1> HIDE DEF Place
<1>5. \A k \in 0..QUEUE_SIZE : Place(k) \in Index
  BY <1>1, <1>2
<1>6. Place(0) = queue_front
  BY <1>1, <1>2
<1>7. \A j, k \in 0..QUEUE_SIZE - 1 : Place(j) = Place(k) => j = k
  BY <1>1, <1>2
<1>8. ASSUME NEW k \in 0..QUEUE_SIZE - 1
      PROVE  /\ Advance(Place(k)) = Place(k + 1)
             /\ (Advance(queue_front) + k) % QUEUE_SIZE = Place(k + 1)
  <2>1. k \in 0..QUEUE_SIZE /\ k + 1 \in 0..QUEUE_SIZE
    BY <1>1
  <2> DEFINE f == queue_front
             N == QUEUE_SIZE
  <2>2. /\ f \in Int /\ N \in Int /\ k \in Int /\ 0 <= f /\ f <= N - 1 /\ 0 <= k /\ k <= N - 1
        /\ Place(k) = (IF f + k < N THEN f + k ELSE f + k - N)
        /\ Place(k + 1) = (IF f + k + 1 < N THEN f + k + 1 ELSE f + k + 1 - N)
    BY <1>1, <1>2, <2>1
  <2>3. Advance(Place(k)) = (IF Place(k) = N - 1 THEN 0 ELSE Place(k) + 1)
    BY <1>3, <1>5, <2>1
  <2>4. Advance(f) = (IF f = N - 1 THEN 0 ELSE f + 1)
    BY <1>1, <1>3
  <2>5. (Advance(f) + k) % N = (IF Advance(f) + k < N THEN Advance(f) + k ELSE Advance(f) + k - N)
    BY <1>1, <1>3, <1>4, <2>1
  <2> HIDE DEF f, N
  <2>6. Advance(Place(k)) = Place(k + 1)
    BY <2>2, <2>3
  <2>7. (Advance(f) + k) % N = Place(k + 1)
    BY <2>2, <2>4, <2>5
  <2> QED BY <2>6, <2>7 DEF f, N
<1> QED BY <1>5, <1>6, <1>7, <1>8

\* What the ring holds as a sequence.
LEMMA RingSeq ==
  ASSUME TypeOK
  PROVE  /\ QueueSeq \in Seq(Item) /\ Len(QueueSeq) = queue_count /\ queue_count \in Nat
         /\ \A k \in 1..queue_count : QueueSeq[k] = client_queue[Place(k - 1)] /\ QueueSeq[k] \in Item
<1>1. /\ queue_front \in Index /\ queue_count \in 0..QUEUE_SIZE /\ queue_count \in Nat
      /\ client_queue \in [Index -> Item]
  BY QueueSizeAssumption DEF TypeOK
<1>2. \A k \in 1..queue_count : k - 1 \in 0..QUEUE_SIZE /\ k - 1 < QUEUE_SIZE
  BY <1>1, QueueSizeAssumption
<1>3. \A k \in 0..QUEUE_SIZE : Place(k) \in Index
  BY <1>1, PlaceFacts
<1>4. \A k \in 1..queue_count : client_queue[Place(k - 1)] \in Item
  BY <1>1, <1>2, <1>3
<1>5. QueueSeq \in [1..queue_count -> Item]
  BY <1>4 DEF QueueSeq
<1> QED BY <1>1, <1>4, <1>5 DEF QueueSeq

\* enqueue_client appends.
LEMMA Enqueued ==
  ASSUME TypeOK, RingConsistent, HasRoom, NEW x \in Item,
         client_queue' = [client_queue EXCEPT ![queue_rear] = x],
         queue_rear' = Advance(queue_rear), queue_count' = queue_count + 1,
         queue_front' = queue_front
  PROVE  /\ client_queue' \in [Index -> Item] /\ queue_rear' \in Index
         /\ queue_count' \in 0..QUEUE_SIZE /\ RingConsistent'
         /\ \A k \in 1..queue_count : QueueSeq'[k] = QueueSeq[k]
         /\ QueueSeq'[queue_count + 1] = x
         /\ QueueSeq' = Append(QueueSeq, x)
<1>1. /\ queue_front \in Index /\ queue_count \in 0..QUEUE_SIZE /\ queue_count < QUEUE_SIZE
      /\ client_queue \in [Index -> Item] /\ queue_rear \in Index
      /\ queue_rear = Place(queue_count)
  BY DEF TypeOK, RingConsistent, HasRoom
<1>2. client_queue' \in [Index -> Item] /\ queue_rear' \in Index /\ queue_count' \in 0..QUEUE_SIZE
  BY <1>1, Places, QueueSizeAssumption
<1>3. RingConsistent'
  <2>1. Advance(Place(queue_count)) = Place(queue_count + 1)
    BY <1>1, PlaceFacts, QueueSizeAssumption
  <2> QED BY <1>1, <2>1 DEF RingConsistent, Place
<1>4. \A k \in 0..queue_count - 1 : Place(k) # queue_rear /\ Place(k) \in Index
  <2> TAKE k \in 0..queue_count - 1
  <2>1. k \in 0..QUEUE_SIZE - 1 /\ k \in 0..QUEUE_SIZE /\ queue_count \in 0..QUEUE_SIZE - 1 /\ k # queue_count
    BY <1>1, QueueSizeAssumption
  <2> QED BY <1>1, <2>1, PlaceFacts
<1>5. \A k : Place(k)' = Place(k)
  BY DEF Place
<1>6. QueueSeq' = [k \in 1..queue_count + 1 |-> client_queue'[Place(k - 1)]]
  BY <1>5 DEF QueueSeq
<1>7. \A k \in 1..queue_count : QueueSeq'[k] = QueueSeq[k]
  <2> TAKE k \in 1..queue_count
  <2>1. k - 1 \in 0..queue_count - 1 /\ k \in 1..queue_count + 1
    BY <1>1
  <2>2. client_queue'[Place(k - 1)] = client_queue[Place(k - 1)]
    BY <2>1, <1>1, <1>4
  <2> QED BY <2>1, <2>2, <1>6, RingSeq
<1>8. QueueSeq'[queue_count + 1] = x
  <2>1. queue_count + 1 \in 1..queue_count + 1 /\ (queue_count + 1) - 1 = queue_count
    BY <1>1
  <2>2. client_queue'[Place(queue_count)] = x
    BY <1>1
  <2> QED BY <2>1, <2>2, <1>6
<1>9. QueueSeq' = Append(QueueSeq, x)
  <2>1. QueueSeq \in Seq(Item) /\ Len(QueueSeq) = queue_count /\ queue_count \in Nat
        /\ \A k \in 1..queue_count : QueueSeq[k] \in Item
    BY RingSeq
  <2>2. \A k \in 1..queue_count + 1 : QueueSeq'[k] \in Item
    BY <1>7, <1>8, <2>1
  <2>3. QueueSeq' \in [1..queue_count + 1 -> Item]
    BY <1>6, <2>2
  <2>4. QueueSeq' \in Seq(Item) /\ Len(QueueSeq') = queue_count + 1
    BY <2>1, <2>3
  <2> DEFINE r == Append(QueueSeq, x)
  <2>5. /\ r \in Seq(Item) /\ Len(r) = queue_count + 1 /\ r[queue_count + 1] = x
        /\ \A k \in 1..queue_count : r[k] = QueueSeq[k]
    BY <2>1, AppendProperties
  <2> HIDE DEF r
  <2>6. \A k \in 1..queue_count + 1 : QueueSeq'[k] = r[k]
    BY <2>1, <2>5, <1>7, <1>8
  <2>7. QueueSeq' = r
    BY <2>4, <2>5, <2>6, SeqEqual
  <2> QED BY <2>7 DEF r
<1> QED BY <1>2, <1>3, <1>7, <1>8, <1>9

\* dequeue_client takes the first item.
LEMMA Dequeued ==
  ASSUME TypeOK, RingConsistent, queue_count # 0,
         queue_front' = Advance(queue_front), queue_count' = queue_count - 1,
         client_queue' = client_queue, queue_rear' = queue_rear
  PROVE  /\ queue_front' \in Index /\ queue_count' \in 0..QUEUE_SIZE /\ RingConsistent'
         /\ FirstItem = QueueSeq[1] /\ 1 \in 1..queue_count
         /\ \A k \in 1..queue_count' : k + 1 \in 1..queue_count /\ QueueSeq'[k] = QueueSeq[k + 1]
         /\ QueueSeq # <<>> /\ FirstItem = Head(QueueSeq) /\ QueueSeq' = Tail(QueueSeq)
<1>1. /\ queue_front \in Index /\ queue_count \in 0..QUEUE_SIZE /\ queue_count > 0
      /\ client_queue \in [Index -> Item] /\ queue_rear = Place(queue_count)
  BY QueueSizeAssumption DEF TypeOK, RingConsistent
<1>2. queue_front' \in Index /\ queue_count' \in 0..QUEUE_SIZE
  BY <1>1, Places, QueueSizeAssumption
<1>3. \A k \in 0..queue_count - 1 : (queue_front' + k) % QUEUE_SIZE = Place(k + 1)
  BY <1>1, PlaceFacts, QueueSizeAssumption
<1>4. RingConsistent'
  <2>1. queue_count - 1 \in 0..queue_count - 1 /\ (queue_count - 1) + 1 = queue_count
    BY <1>1
  <2>2. (queue_front' + (queue_count - 1)) % QUEUE_SIZE = Place(queue_count)
    BY <2>1, <1>3
  <2> QED BY <1>1, <2>2 DEF RingConsistent, Place
<1>5. FirstItem = QueueSeq[1] /\ 1 \in 1..queue_count
  <2>1. 1 \in 1..queue_count /\ 1 - 1 = 0 /\ Place(0) = queue_front
    BY <1>1, PlaceFacts
  <2> QED BY <2>1, RingSeq DEF FirstItem
<1>6. QueueSeq' = [k \in 1..queue_count - 1 |-> client_queue[Place(k)]]
  <2>1. \A k \in 1..queue_count - 1 : (queue_front' + (k - 1)) % QUEUE_SIZE = Place(k)
    <3> TAKE k \in 1..queue_count - 1
    <3>1. k - 1 \in 0..queue_count - 1 /\ (k - 1) + 1 = k
      BY <1>1
    <3> QED BY <3>1, <1>3
  <2>2. QueueSeq' =
          [k \in 1..queue_count - 1 |-> client_queue[(queue_front' + (k - 1)) % QUEUE_SIZE]]
    BY DEF QueueSeq, Place
  <2> QED BY <2>1, <2>2
<1>7. \A k \in 1..queue_count' : k + 1 \in 1..queue_count /\ QueueSeq'[k] = QueueSeq[k + 1]
  <2> TAKE k \in 1..queue_count'
  <2>1. k \in 1..queue_count - 1 /\ k + 1 \in 1..queue_count /\ (k + 1) - 1 = k
    BY <1>1
  <2> QED BY <2>1, <1>6, RingSeq
<1>8. QueueSeq # <<>> /\ FirstItem = Head(QueueSeq) /\ QueueSeq' = Tail(QueueSeq)
  <2>1. QueueSeq \in Seq(Item) /\ Len(QueueSeq) = queue_count /\ queue_count - 1 \in Nat
        /\ \A k \in 1..queue_count : QueueSeq[k] \in Item
    BY RingSeq, <1>1
  <2>2. QueueSeq # <<>> /\ Head(QueueSeq) = QueueSeq[1]
    BY <2>1, <1>1
  <2>3. QueueSeq' \in [1..queue_count - 1 -> Item]
    BY <1>6, <1>7, <2>1
  <2>4. QueueSeq' \in Seq(Item) /\ Len(QueueSeq') = queue_count - 1
    BY <2>1, <2>3
  <2> DEFINE r == Tail(QueueSeq)
  <2>5. /\ r \in Seq(Item) /\ Len(r) = queue_count - 1
        /\ \A k \in 1..queue_count - 1 : r[k] = QueueSeq[k + 1]
    BY <2>1, <2>2, HeadTailProperties
  <2> HIDE DEF r
  <2>6. \A k \in 1..queue_count - 1 : QueueSeq'[k] = r[k]
    BY <2>5, <1>7
  <2>7. QueueSeq' = r
    BY <2>4, <2>5, <2>6, SeqEqual
  <2> QED BY <1>5, <2>2, <2>7 DEF r
<1> QED BY <1>2, <1>4, <1>5, <1>7, <1>8

-----------------------------------------------------------------------------
(* Who owns a descriptor.                                                  *)

MainHolds == pc \in {"read", "enqueue"}
Serves(t) == at[t] \in {"serve", "close"}

\* Whatever main, the ring and the threads name is open.
OpenInv ==
  /\ MainHolds => fdOf[hand] # NoClient
  /\ \A k \in 1..queue_count : fdOf[QueueSeq[k].fd] # NoClient
  /\ \A t \in Server : Serves(t) => fdOf[held[t].fd] # NoClient

\* No two of them name the same descriptor.
ApartInv ==
  /\ MainHolds => /\ \A k \in 1..queue_count : QueueSeq[k].fd # hand
                  /\ \A t \in Server : Serves(t) => held[t].fd # hand
  /\ \A j, k \in 1..queue_count : QueueSeq[j].fd = QueueSeq[k].fd => j = k
  /\ \A k \in 1..queue_count, t \in Server : Serves(t) => held[t].fd # QueueSeq[k].fd
  /\ \A t, u \in Server : Serves(t) /\ Serves(u) /\ held[t].fd = held[u].fd => t = u

\* Whatever is open is named by one of them.
NoLeakInv ==
  \A f \in Fd : fdOf[f] # NoClient =>
    \/ MainHolds /\ hand = f
    \/ \E k \in 1..queue_count : QueueSeq[k].fd = f
    \/ \E t \in Server : Serves(t) /\ held[t].fd = f

\* No thread runs before init_servers.
StartInv == pc = "init" => \A t \in Server : at[t] = "off"

OwnInv == OpenInv /\ ApartInv /\ NoLeakInv /\ StartInv
IInv == TypeOK /\ RingConsistent /\ OwnInv

\* A step that hands over no descriptor.
LEMMA KeepOwners ==
  ASSUME IInv, UNCHANGED <<fdOf, ring, hand, held>>,
         MainHolds' = MainHolds, pc' = "init" => pc = "init" /\ UNCHANGED at,
         \A t \in Server : Serves(t)' = Serves(t)
  PROVE  OwnInv' /\ RingConsistent' /\ QueueSeq' = QueueSeq
<1>1. QueueSeq' = QueueSeq
  BY DEF QueueSeq, Place, ring
<1>2. /\ fdOf' = fdOf /\ hand' = hand /\ held' = held /\ queue_count' = queue_count
  BY DEF ring
<1>3. RingConsistent'
  BY DEF RingConsistent, Place, ring, IInv
<1> HIDE DEF MainHolds, Serves
<1>4. OpenInv' /\ ApartInv'
  BY <1>1, <1>2 DEF IInv, OwnInv, OpenInv, ApartInv
<1>5. NoLeakInv'
  BY <1>1, <1>2 DEF IInv, OwnInv, NoLeakInv
<1>6. StartInv'
  BY DEF IInv, OwnInv, StartInv
<1> QED BY <1>1, <1>3, <1>4, <1>5, <1>6 DEF OwnInv

LEMMA InvInit == Init => IInv
<1> SUFFICES ASSUME Init PROVE IInv
  OBVIOUS
<1>1. 0 \in Fd /\ 0 \in Index /\ NoItem \in Item /\ 0 \in 0..QUEUE_SIZE
  BY QueueSizeAssumption, MaxFdAssumption DEF Fd, Index, NoItem, Item, Message
<1>2. TypeOK
  BY <1>1 DEF Init, TypeOK, Message
<1>3. RingConsistent
  BY <1>2, PlaceFacts DEF Init, TypeOK, RingConsistent
<1>4. \A t \in Server : ~Serves(t)
  BY DEF Init, Serves
<1>5. OwnInv
  BY <1>4 DEF Init, OwnInv, OpenInv, ApartInv, NoLeakInv, StartInv, MainHolds
<1> QED BY <1>2, <1>3, <1>5 DEF IInv

\* An update outside the domain changes nothing that a type speaks of.
LEMMA PutTyped ==
  ASSUME NEW S, NEW T, NEW f \in [S -> T], NEW x, NEW v, x \in S => v \in T
  PROVE  [f EXCEPT ![x] = v] \in [S -> T]
OBVIOUS

-----------------------------------------------------------------------------
(* Each step.                                                              *)

\* Where a thread is after a step of its own.
LEMMA OneMoves ==
  ASSUME TypeOK, NEW t \in Server, NEW v,
         at' = [at EXCEPT ![t] = v], v \in {"off", "gate", "dequeue", "wait", "serve", "close", "release"}
  PROVE  /\ at' \in [Server -> {"off", "gate", "dequeue", "wait", "serve", "close", "release"}]
         /\ at'[t] = v /\ \A u \in Server : u # t => at'[u] = at[u]
BY DEF TypeOK

LEMMA ConnectStep == ASSUME IInv, NEW c \in Client, Connect(c) PROVE IInv'
<1>1. TypeOK'
  BY DEF IInv, TypeOK, Connect, main, ring, threads
<1>2. OwnInv' /\ RingConsistent'
  BY KeepOwners DEF Connect, main, ring, threads, MainHolds, Serves
<1> QED BY <1>1, <1>2 DEF IInv

LEMMA SendStep == ASSUME IInv, NEW c \in Client, Send(c) PROVE IInv'
<1>1. TypeOK'
  BY DEF IInv, TypeOK, Send, main, ring, threads
<1>2. OwnInv' /\ RingConsistent'
  BY KeepOwners DEF Send, main, ring, threads, MainHolds, Serves
<1> QED BY <1>1, <1>2 DEF IInv

LEMMA LeaveStep == ASSUME IInv, NEW c \in Client, Leave(c) PROVE IInv'
<1>1. TypeOK'
  BY DEF IInv, TypeOK, Leave, main, ring, threads
<1>2. OwnInv' /\ RingConsistent'
  BY KeepOwners DEF Leave, main, ring, threads, MainHolds, Serves
<1> QED BY <1>1, <1>2 DEF IInv

LEMMA DieStep == ASSUME IInv, NEW c \in Client, Die(c) PROVE IInv'
<1>1. TypeOK'
  BY DEF IInv, TypeOK, Die, main, ring, threads
<1>2. OwnInv' /\ RingConsistent'
  BY KeepOwners DEF Die, main, ring, threads, MainHolds, Serves
<1> QED BY <1>1, <1>2 DEF IInv

LEMMA InitServersStep == ASSUME IInv, InitServers PROVE IInv'
<1>1. TypeOK'
  BY DEF IInv, TypeOK, InitServers, clients, ring
<1>2. \A t \in Server : ~Serves(t) /\ ~Serves(t)'
  BY DEF IInv, OwnInv, StartInv, TypeOK, InitServers, Serves
<1>3. MainHolds' = MainHolds /\ pc' # "init"
  BY DEF InitServers, MainHolds
<1>4. \A t \in Server : Serves(t)' = Serves(t)
  <2> TAKE t \in Server
  <2>1. Serves(t) \in BOOLEAN /\ Serves(t)' \in BOOLEAN
    BY DEF Serves
  <2> QED BY <1>2, <2>1
<1>5. OwnInv' /\ RingConsistent'
  BY <1>3, <1>4, KeepOwners DEF InitServers, ring
<1> QED BY <1>1, <1>5 DEF IInv

LEMMA ReadMessageStep == ASSUME IInv, ReadMessage PROVE IInv'
<1>1. fdOf[hand] \in Client
  BY DEF IInv, OwnInv, OpenInv, TypeOK, ReadMessage, MainHolds
<1>2. buffer' \in Message
  BY <1>1 DEF IInv, TypeOK, ReadMessage, Message
<1>3. TypeOK'
  BY <1>2 DEF IInv, TypeOK, ReadMessage, clients, ring, threads
<1>4. OwnInv' /\ RingConsistent'
  BY KeepOwners DEF ReadMessage, clients, ring, threads, MainHolds, Serves
<1> QED BY <1>3, <1>4 DEF IInv

LEMMA PassGateStep == ASSUME IInv, NEW t \in Server, PassGate(t) PROVE IInv'
<1>1. /\ at' \in [Server -> {"off", "gate", "dequeue", "wait", "serve", "close", "release"}]
      /\ at'[t] = "dequeue" /\ \A u \in Server : u # t => at'[u] = at[u]
  BY OneMoves DEF IInv, PassGate
<1>2. TypeOK'
  BY <1>1 DEF IInv, TypeOK, PassGate, clients, main, ring
<1>3. \A u \in Server : Serves(u)' = Serves(u)
  BY <1>1 DEF PassGate, Serves
<1>4. pc # "init"
  BY DEF IInv, OwnInv, StartInv, PassGate
<1>5. OwnInv' /\ RingConsistent'
  BY <1>3, <1>4, KeepOwners DEF PassGate, main, ring, MainHolds
<1> QED BY <1>2, <1>5 DEF IInv

LEMMA WaitForClientStep == ASSUME IInv, NEW t \in Server, WaitForClient(t) PROVE IInv'
<1>1. /\ at' \in [Server -> {"off", "gate", "dequeue", "wait", "serve", "close", "release"}]
      /\ at'[t] = "wait" /\ \A u \in Server : u # t => at'[u] = at[u]
  BY OneMoves DEF IInv, WaitForClient
<1>2. TypeOK'
  BY <1>1 DEF IInv, TypeOK, WaitForClient, clients, main, ring
<1>3. \A u \in Server : Serves(u)' = Serves(u)
  BY <1>1 DEF WaitForClient, Serves
<1>4. pc # "init"
  BY DEF IInv, OwnInv, StartInv, WaitForClient
<1>5. OwnInv' /\ RingConsistent'
  BY <1>3, <1>4, KeepOwners DEF WaitForClient, main, ring, MainHolds
<1> QED BY <1>2, <1>5 DEF IInv

LEMMA SpuriousWakeupStep == ASSUME IInv, NEW t \in Server, SpuriousWakeup(t) PROVE IInv'
<1>1. /\ at' \in [Server -> {"off", "gate", "dequeue", "wait", "serve", "close", "release"}]
      /\ at'[t] = "dequeue" /\ \A u \in Server : u # t => at'[u] = at[u]
  BY OneMoves DEF IInv, SpuriousWakeup
<1>2. TypeOK'
  BY <1>1 DEF IInv, TypeOK, SpuriousWakeup, clients, main, ring
<1>3. \A u \in Server : Serves(u)' = Serves(u)
  BY <1>1 DEF SpuriousWakeup, Serves
<1>4. pc # "init"
  BY DEF IInv, OwnInv, StartInv, SpuriousWakeup
<1>5. OwnInv' /\ RingConsistent'
  BY <1>3, <1>4, KeepOwners DEF SpuriousWakeup, main, ring, MainHolds
<1> QED BY <1>2, <1>5 DEF IInv

LEMMA ServeStep == ASSUME IInv, NEW t \in Server, Serve(t) PROVE IInv'
<1>1. /\ at' \in [Server -> {"off", "gate", "dequeue", "wait", "serve", "close", "release"}]
      /\ at'[t] = "close" /\ \A u \in Server : u # t => at'[u] = at[u]
  BY OneMoves DEF IInv, Serve
<1>2. answer' \in [Client -> {"none", "time", "error", "full"}]
  BY PutTyped DEF IInv, TypeOK, Serve
<1>3. TypeOK'
  BY <1>1, <1>2 DEF IInv, TypeOK, Serve, main, ring
<1>4. \A u \in Server : Serves(u)' = Serves(u)
  BY <1>1 DEF Serve, Serves
<1>5. pc # "init"
  BY DEF IInv, OwnInv, StartInv, Serve
<1>6. OwnInv' /\ RingConsistent'
  BY <1>4, <1>5, KeepOwners DEF Serve, main, ring, MainHolds
<1> QED BY <1>3, <1>6 DEF IInv

LEMMA ReleaseStep == ASSUME IInv, NEW t \in Server, Release(t) PROVE IInv'
<1>1. /\ at' \in [Server -> {"off", "gate", "dequeue", "wait", "serve", "close", "release"}]
      /\ at'[t] = "gate" /\ \A u \in Server : u # t => at'[u] = at[u]
  BY OneMoves DEF IInv, Release
<1>2. TypeOK'
  BY <1>1 DEF IInv, TypeOK, Release, clients, main, ring
<1>3. \A u \in Server : Serves(u)' = Serves(u)
  BY <1>1 DEF Release, Serves
<1>4. pc # "init"
  BY DEF IInv, OwnInv, StartInv, Release
<1>5. OwnInv' /\ RingConsistent'
  BY <1>3, <1>4, KeepOwners DEF Release, main, ring, MainHolds
<1> QED BY <1>2, <1>5 DEF IInv

\* What the invariant says of the numbers main, the ring and the threads name.
LEMMA Named ==
  ASSUME IInv
  PROVE  /\ hand \in Fd
         /\ \A k \in 1..queue_count : QueueSeq[k] \in Item /\ QueueSeq[k].fd \in Fd
         /\ \A t \in Server : held[t] \in Item /\ held[t].fd \in Fd
         /\ fdOf \in [Fd -> Client \cup {NoClient}]
<1>1. \A k \in 1..queue_count : QueueSeq[k] \in Item
  BY RingSeq DEF IInv
<1> QED BY <1>1 DEF IInv, TypeOK, Item

\* A new descriptor belongs to main.
LEMMA AcceptStep == ASSUME IInv, Accept PROVE IInv'
<1>1. PICK f \in Fd : /\ fdOf[f] = NoClient
                      /\ fdOf' = [fdOf EXCEPT ![f] = Head(backlog)] /\ hand' = f
  BY DEF Accept
<1>2. Head(backlog) \in Client /\ Tail(backlog) \in Seq(Client)
  BY DEF IInv, TypeOK, Accept
<1>3. TypeOK'
  BY <1>1, <1>2 DEF IInv, TypeOK, Accept, clients, ring, threads
<1>4. /\ QueueSeq' = QueueSeq /\ RingConsistent' /\ queue_count' = queue_count /\ held' = held
      /\ \A t \in Server : Serves(t)' = Serves(t)
  BY DEF IInv, Accept, ring, threads, QueueSeq, RingConsistent, Place, Serves
<1>5. ~MainHolds /\ MainHolds' /\ pc' # "init"
  BY DEF Accept, MainHolds
<1>6. fdOf'[f] # NoClient /\ \A g \in Fd : g # f => fdOf'[g] = fdOf[g]
  BY <1>1, <1>2, Named, ClientAssumption
<1> HIDE DEF MainHolds, Serves
<1>7. /\ \A k \in 1..queue_count : QueueSeq[k].fd # f
      /\ \A t \in Server : Serves(t) => held[t].fd # f
  BY <1>1 DEF IInv, OwnInv, OpenInv
<1>8. OpenInv'
  BY <1>1, <1>4, <1>6, <1>7, Named DEF IInv, OwnInv, OpenInv
<1>9. ApartInv'
  BY <1>1, <1>4, <1>7 DEF IInv, OwnInv, ApartInv
<1>10. NoLeakInv'
  BY <1>1, <1>4, <1>5, <1>6 DEF IInv, OwnInv, NoLeakInv
<1>11. StartInv'
  BY <1>5 DEF StartInv
<1> QED BY <1>3, <1>4, <1>8, <1>9, <1>10, <1>11 DEF IInv, OwnInv

\* It is closed when the queue is full,
LEMMA QueueFullStep == ASSUME IInv, QueueFull PROVE IInv'
<1>1. fdOf' = [fdOf EXCEPT ![hand] = NoClient]
  BY DEF QueueFull, CloseFd
<1>2. answer' \in [Client -> {"none", "time", "error", "full"}]
  BY PutTyped DEF IInv, TypeOK, QueueFull
<1>3. TypeOK'
  BY <1>1, <1>2 DEF IInv, TypeOK, QueueFull, ring, threads
<1>4. /\ QueueSeq' = QueueSeq /\ RingConsistent' /\ queue_count' = queue_count /\ held' = held
      /\ \A t \in Server : Serves(t)' = Serves(t)
  BY DEF IInv, QueueFull, ring, threads, QueueSeq, RingConsistent, Place, Serves
<1>5. MainHolds /\ ~MainHolds' /\ pc' # "init"
  BY DEF QueueFull, MainHolds
<1>6. fdOf'[hand] = NoClient /\ \A g \in Fd : g # hand => fdOf'[g] = fdOf[g]
  BY <1>1, Named
<1> HIDE DEF MainHolds, Serves
<1>7. OpenInv'
  BY <1>4, <1>5, <1>6, Named DEF IInv, OwnInv, OpenInv, ApartInv
<1>8. ApartInv'
  BY <1>4, <1>5 DEF IInv, OwnInv, ApartInv
<1>9. NoLeakInv'
  BY <1>4, <1>5, <1>6 DEF IInv, OwnInv, NoLeakInv
<1>10. StartInv'
  BY <1>5 DEF StartInv
<1> QED BY <1>3, <1>4, <1>7, <1>8, <1>9, <1>10 DEF IInv, OwnInv

\* handed to the ring when it is not,
LEMMA EnqueueClientStep == ASSUME IInv, EnqueueClient PROVE IInv'
<1> DEFINE x == [fd |-> hand, message |-> buffer]
<1>1. x \in Item
  BY DEF IInv, TypeOK, Item
<1> HIDE DEF x
<1>2. x.fd = hand
  BY DEF x
<1>3. /\ client_queue' \in [Index -> Item] /\ queue_rear' \in Index
      /\ queue_count' \in 0..QUEUE_SIZE /\ RingConsistent'
      /\ \A k \in 1..queue_count : QueueSeq'[k] = QueueSeq[k]
      /\ QueueSeq'[queue_count + 1] = x
  BY <1>1, Enqueued DEF IInv, EnqueueClient, x
<1>4. PICK t \in Waiting \cup {NoServer} : Signal(t)
  BY DEF EnqueueClient
<1>5. /\ at' \in [Server -> {"off", "gate", "dequeue", "wait", "serve", "close", "release"}]
      /\ \A u \in Server : Serves(u)' = Serves(u)
  <2>1. CASE t = NoServer
    BY <1>4, <2>1 DEF Signal, IInv, TypeOK, Serves
  <2>2. CASE t # NoServer
    <3>1. t \in Server /\ at[t] = "wait" /\ at' = [at EXCEPT ![t] = "dequeue"]
      BY <1>4, <2>2 DEF Signal, Waiting
    <3>2. at'[t] = "dequeue" /\ \A u \in Server : u # t => at'[u] = at[u]
      BY <3>1, OneMoves DEF IInv
    <3>3. at' \in [Server -> {"off", "gate", "dequeue", "wait", "serve", "close", "release"}]
      BY <3>1, OneMoves DEF IInv
    <3> QED BY <3>1, <3>2, <3>3 DEF Serves
  <2> QED BY <2>1, <2>2
<1>6. TypeOK'
  BY <1>3, <1>5 DEF IInv, TypeOK, EnqueueClient, clients
<1>7. MainHolds /\ ~MainHolds' /\ pc' # "init"
  BY DEF EnqueueClient, MainHolds
<1>8. fdOf' = fdOf /\ held' = held /\ queue_count' = queue_count + 1 /\ queue_count \in Nat
  BY QueueSizeAssumption DEF EnqueueClient, IInv, TypeOK
<1>9. \A k \in 1..queue_count' : \/ (k \in 1..queue_count /\ QueueSeq'[k] = QueueSeq[k])
                                 \/ (k = queue_count + 1 /\ QueueSeq'[k].fd = hand)
  BY <1>2, <1>3, <1>8
<1>10. (\A k \in 1..queue_count : k \in 1..queue_count') /\ queue_count + 1 \in 1..queue_count'
  BY <1>8
<1> HIDE DEF MainHolds, Serves
<1>11. OpenInv'
  BY <1>5, <1>7, <1>8, <1>9 DEF IInv, OwnInv, OpenInv
<1>12. ApartInv'
  <2>1. \A j, k \in 1..queue_count' : QueueSeq'[j].fd = QueueSeq'[k].fd => j = k
    BY <1>7, <1>9 DEF IInv, OwnInv, ApartInv
  <2>2. \A k \in 1..queue_count', u \in Server : Serves(u)' => held'[u].fd # QueueSeq'[k].fd
    BY <1>5, <1>7, <1>8, <1>9 DEF IInv, OwnInv, ApartInv
  <2>3. \A u, w \in Server : Serves(u)' /\ Serves(w)' /\ held'[u].fd = held'[w].fd => u = w
    BY <1>5, <1>8 DEF IInv, OwnInv, ApartInv
  <2> QED BY <1>7, <2>1, <2>2, <2>3 DEF ApartInv
<1>13. NoLeakInv'
  BY <1>2, <1>3, <1>5, <1>8, <1>10 DEF IInv, OwnInv, NoLeakInv
<1>14. StartInv'
  BY <1>7 DEF StartInv
<1> QED BY <1>3, <1>6, <1>11, <1>12, <1>13, <1>14 DEF IInv, OwnInv

\* from the ring to the thread that takes it,
LEMMA DequeueClientStep == ASSUME IInv, NEW t \in Server, DequeueClient(t) PROVE IInv'
<1>1. /\ queue_front' \in Index /\ queue_count' \in 0..QUEUE_SIZE /\ RingConsistent'
      /\ FirstItem = QueueSeq[1] /\ 1 \in 1..queue_count
      /\ \A k \in 1..queue_count' : k + 1 \in 1..queue_count /\ QueueSeq'[k] = QueueSeq[k + 1]
  BY Dequeued DEF IInv, DequeueClient
<1>2. /\ at' \in [Server -> {"off", "gate", "dequeue", "wait", "serve", "close", "release"}]
      /\ at'[t] = "serve" /\ \A u \in Server : u # t => at'[u] = at[u]
  BY OneMoves DEF IInv, DequeueClient
<1>3. /\ held' \in [Server -> Item] /\ held'[t] = QueueSeq[1]
      /\ \A u \in Server : u # t => held'[u] = held[u]
  BY <1>1, Named DEF IInv, TypeOK, DequeueClient
<1>4. TypeOK'
  BY <1>1, <1>2, <1>3 DEF IInv, TypeOK, DequeueClient, clients, main
<1>5. ~Serves(t) /\ Serves(t)' /\ \A u \in Server : u # t => Serves(u)' = Serves(u)
  BY <1>2 DEF Serves, DequeueClient
<1>6. fdOf' = fdOf /\ hand' = hand /\ pc' = pc /\ MainHolds' = MainHolds
      /\ queue_count' = queue_count - 1 /\ queue_count \in Nat
  BY QueueSizeAssumption DEF IInv, TypeOK, DequeueClient, main, MainHolds
<1>7. \A k \in 1..queue_count : k = 1 \/ (k - 1 \in 1..queue_count' /\ (k - 1) + 1 = k)
  BY <1>6
<1>8. \A k \in 1..queue_count' : k + 1 # 1 /\ \A j \in 1..queue_count' : j + 1 = k + 1 => j = k
  BY <1>6
<1>9. pc # "init"
  BY DEF IInv, OwnInv, StartInv, DequeueClient
<1> HIDE DEF MainHolds, Serves
<1>10. OpenInv'
  BY <1>1, <1>3, <1>5, <1>6 DEF IInv, OwnInv, OpenInv
<1>11. ApartInv'
  <2>1. MainHolds' => /\ \A k \in 1..queue_count' : QueueSeq'[k].fd # hand'
                      /\ \A u \in Server : Serves(u)' => held'[u].fd # hand'
    BY <1>1, <1>3, <1>5, <1>6 DEF IInv, OwnInv, ApartInv
  <2>2. \A j, k \in 1..queue_count' : QueueSeq'[j].fd = QueueSeq'[k].fd => j = k
    BY <1>1, <1>8 DEF IInv, OwnInv, ApartInv
  <2>3. \A k \in 1..queue_count', u \in Server : Serves(u)' => held'[u].fd # QueueSeq'[k].fd
    BY <1>1, <1>3, <1>5, <1>8 DEF IInv, OwnInv, ApartInv
  <2>4. \A u, w \in Server : Serves(u)' /\ Serves(w)' /\ held'[u].fd = held'[w].fd => u = w
    BY <1>1, <1>3, <1>5 DEF IInv, OwnInv, ApartInv
  <2> QED BY <2>1, <2>2, <2>3, <2>4 DEF ApartInv
<1>12. NoLeakInv'
  <2> SUFFICES ASSUME NEW f \in Fd, fdOf[f] # NoClient
               PROVE  \/ MainHolds' /\ hand' = f
                      \/ \E k \in 1..queue_count' : QueueSeq'[k].fd = f
                      \/ \E u \in Server : Serves(u)' /\ held'[u].fd = f
    BY <1>6 DEF NoLeakInv
  <2>1. CASE MainHolds /\ hand = f
    BY <1>6, <2>1
  <2>2. ASSUME NEW k \in 1..queue_count, QueueSeq[k].fd = f
        PROVE  \/ \E j \in 1..queue_count' : QueueSeq'[j].fd = f
               \/ \E u \in Server : Serves(u)' /\ held'[u].fd = f
    <3>1. CASE k = 1
      BY <1>3, <1>5, <2>2, <3>1
    <3>2. CASE k # 1
      <4>1. k - 1 \in 1..queue_count' /\ (k - 1) + 1 = k
        BY <1>7, <3>2
      <4>2. QueueSeq'[k - 1] = QueueSeq[k]
        BY <4>1, <1>1
      <4> QED BY <4>1, <4>2, <2>2
    <3> QED BY <3>1, <3>2
  <2>3. ASSUME NEW u \in Server, Serves(u), held[u].fd = f
        PROVE  \E w \in Server : Serves(w)' /\ held'[w].fd = f
    BY <1>3, <1>5, <2>3
  <2> QED BY <2>1, <2>2, <2>3 DEF IInv, OwnInv, NoLeakInv
<1>13. StartInv'
  BY <1>6, <1>9 DEF StartInv
<1> QED BY <1>1, <1>4, <1>10, <1>11, <1>12, <1>13 DEF IInv, OwnInv

\* and closed by that thread.
LEMMA CloseClientStep == ASSUME IInv, NEW t \in Server, CloseClient(t) PROVE IInv'
<1> DEFINE f == held[t].fd
<1>1. fdOf' = [fdOf EXCEPT ![f] = NoClient] /\ f \in Fd
  BY Named DEF CloseClient, CloseFd
<1>2. /\ at' \in [Server -> {"off", "gate", "dequeue", "wait", "serve", "close", "release"}]
      /\ at'[t] = "release" /\ \A u \in Server : u # t => at'[u] = at[u]
  BY OneMoves DEF IInv, CloseClient
<1>3. TypeOK'
  BY <1>1, <1>2 DEF IInv, TypeOK, CloseClient, clients, main, ring
<1>4. /\ QueueSeq' = QueueSeq /\ RingConsistent' /\ queue_count' = queue_count /\ held' = held
      /\ hand' = hand /\ pc' = pc /\ MainHolds' = MainHolds
  BY DEF IInv, CloseClient, main, ring, QueueSeq, RingConsistent, Place, MainHolds
<1>5. Serves(t) /\ ~Serves(t)' /\ \A u \in Server : u # t => Serves(u)' = Serves(u)
  BY <1>2 DEF Serves, CloseClient
<1>6. fdOf'[f] = NoClient /\ \A g \in Fd : g # f => fdOf'[g] = fdOf[g]
  BY <1>1, Named
<1>7. pc # "init"
  BY DEF IInv, OwnInv, StartInv, CloseClient
<1> HIDE DEF MainHolds, Serves
<1>8. OpenInv'
  BY <1>4, <1>5, <1>6, Named DEF IInv, OwnInv, OpenInv, ApartInv
<1>9. ApartInv'
  BY <1>4, <1>5 DEF IInv, OwnInv, ApartInv
<1>10. NoLeakInv'
  BY <1>4, <1>5, <1>6 DEF IInv, OwnInv, NoLeakInv
<1>11. StartInv'
  BY <1>4, <1>7 DEF StartInv
<1> QED BY <1>3, <1>4, <1>8, <1>9, <1>10, <1>11 DEF IInv, OwnInv

LEMMA InvStep == IInv /\ [Next]_vars => IInv'
<1> SUFFICES ASSUME IInv, [Next]_vars PROVE IInv'
  OBVIOUS
<1>1. CASE MainStep
  BY <1>1, InitServersStep, AcceptStep, ReadMessageStep, EnqueueClientStep, QueueFullStep DEF MainStep
<1>2. CASE \E c \in Client : Connect(c) \/ Send(c) \/ Leave(c) \/ Die(c)
  BY <1>2, ConnectStep, SendStep, LeaveStep, DieStep
<1>3. CASE \E t \in Server : ThreadStep(t) \/ SpuriousWakeup(t)
  BY <1>3, PassGateStep, WaitForClientStep, SpuriousWakeupStep, DequeueClientStep, ServeStep,
     CloseClientStep, ReleaseStep DEF ThreadStep
<1>4. CASE UNCHANGED vars
  <2>1. TypeOK'
    BY <1>4 DEF vars, IInv, TypeOK
  <2>2. UNCHANGED <<fdOf, ring, hand, held, pc, at>>
    BY <1>4 DEF vars, ring
  <2>3. OwnInv' /\ RingConsistent'
    BY <2>2, KeepOwners DEF MainHolds, Serves
  <2> QED BY <2>1, <2>3 DEF IInv
<1> QED BY <1>1, <1>2, <1>3, <1>4 DEF Next, Quiet

LEMMA Always == Spec => []IInv
<1>1. Init => IInv
  BY InvInit
<1>2. IInv /\ [Next]_vars => IInv'
  BY InvStep
<1> QED BY <1>1, <1>2, PTL DEF Spec

-----------------------------------------------------------------------------
(* The theorems.                                                           *)

\* Every variable keeps its type: no step leaves the ring, the descriptors
\* or the clients in a state that the code has no case for.
THEOREM TypeCorrect == Spec => []TypeOK
<1>1. IInv => TypeOK
  BY DEF IInv
<1> QED BY <1>1, Always, PTL

\* The rear stays queue_count places after the front, for every size of the
\* ring and through every wrap (enqueue_client, dequeue_client).
THEOREM RingCorrect == Spec => []RingConsistent
<1>1. IInv => RingConsistent
  BY DEF IInv
<1> QED BY <1>1, Always, PTL

LEMMA OwnersOf ==
  ASSUME NEW f, NEW o
  PROVE  o \in Owners(f) <=>
           \/ MainHolds /\ hand = f /\ o = <<"main", 0>>
           \/ \E k \in 1..queue_count : QueueSeq[k].fd = f /\ o = <<"queue", k>>
           \/ \E t \in Server : Serves(t) /\ held[t].fd = f /\ o = <<"thread", t>>
<1>1. o \in (IF pc \in {"read", "enqueue"} /\ hand = f THEN {<<"main", 0>>} ELSE {})
        <=> MainHolds /\ hand = f /\ o = <<"main", 0>>
  BY DEF MainHolds
<1>2. o \in {<<"queue", k>> : k \in {k \in 1..queue_count : QueueSeq[k].fd = f}}
        <=> \E k \in 1..queue_count : QueueSeq[k].fd = f /\ o = <<"queue", k>>
  OBVIOUS
<1>3. o \in {<<"thread", t>> : t \in {t \in Server : at[t] \in {"serve", "close"} /\ held[t].fd = f}}
        <=> \E t \in Server : Serves(t) /\ held[t].fd = f /\ o = <<"thread", t>>
  BY DEF Serves
<1> HIDE DEF MainHolds, Serves, QueueSeq
<1> QED BY <1>1, <1>2, <1>3 DEF Owners

LEMMA OneOwnerHolds == IInv => OneOwner
<1> SUFFICES ASSUME IInv, NEW f \in Fd
             PROVE  Cardinality(Owners(f)) = (IF fdOf[f] = NoClient THEN 0 ELSE 1)
  BY DEF OneOwner
<1> HIDE DEF MainHolds, Serves, QueueSeq, Owners
<1>1. CASE fdOf[f] = NoClient
  <2>1. \A o : o \notin Owners(f)
    BY <1>1, OwnersOf DEF IInv, OwnInv, OpenInv
  <2>2. Owners(f) = {}
    BY <2>1
  <2> QED BY <1>1, <2>2, FS_EmptySet
<1>2. CASE fdOf[f] # NoClient
  <2>1. ASSUME NEW o, NEW p, o \in Owners(f), p \in Owners(f) PROVE o = p
    BY <2>1, OwnersOf DEF IInv, OwnInv, ApartInv
  <2>2. \E o : o \in Owners(f)
    BY <1>2, OwnersOf DEF IInv, OwnInv, NoLeakInv
  <2>3. PICK o : Owners(f) = {o}
    BY <2>1, <2>2
  <2> QED BY <1>2, <2>3, FS_Singleton
<1> QED BY <1>1, <1>2

\* Every open descriptor has one owner, every closed one none, for any number
\* of descriptors, clients and threads (accept, enqueue_client,
\* dequeue_client, close).
THEOREM OneOwnerCorrect == Spec => []OneOwner
BY OneOwnerHolds, Always, PTL

LEMMA FifoInit == Init => Fifo!Init
<1> SUFFICES ASSUME Init PROVE Fifo!Init
  OBVIOUS
<1>1. IInv
  BY InvInit
<1>2. QueueSeq \in Seq(Item) /\ Len(QueueSeq) = 0
  BY <1>1, RingSeq DEF Init, IInv
<1>3. QueueSeq = <<>>
  BY <1>2
<1>4. held \in [Server -> Item]
  BY <1>1 DEF IInv, TypeOK
<1> QED BY <1>3, <1>4 DEF Fifo!Init

LEMMA FifoStep == IInv /\ [Next]_vars => [Fifo!Next]_<<QueueSeq, held>>
<1> SUFFICES ASSUME IInv, [Next]_vars PROVE [Fifo!Next]_<<QueueSeq, held>>
  OBVIOUS
<1>1. ASSUME UNCHANGED <<ring, held>> PROVE UNCHANGED <<QueueSeq, held>>
  BY <1>1 DEF ring, QueueSeq, Place
<1>2. CASE EnqueueClient
  <2> DEFINE x == [fd |-> hand, message |-> buffer]
  <2>1. x \in Item
    BY DEF IInv, TypeOK, Item
  <2>2. QueueSeq' = Append(QueueSeq, x)
    BY <1>2, <2>1, Enqueued DEF IInv, EnqueueClient
  <2>3. Len(QueueSeq) < QUEUE_SIZE
    BY <1>2, RingSeq DEF IInv, EnqueueClient, HasRoom
  <2>4. held' = held
    BY <1>2 DEF EnqueueClient
  <2>5. Fifo!Put(x)
    BY <2>2, <2>3, <2>4 DEF Fifo!Put
  <2> QED BY <2>1, <2>5 DEF Fifo!Next
<1>3. ASSUME NEW t \in Server, DequeueClient(t) PROVE Fifo!Next
  <2>1. QueueSeq # <<>> /\ FirstItem = Head(QueueSeq) /\ QueueSeq' = Tail(QueueSeq)
    BY <1>3, Dequeued DEF IInv, DequeueClient
  <2>2. held' = [held EXCEPT ![t] = Head(QueueSeq)]
    BY <1>3, <2>1 DEF DequeueClient
  <2>3. Fifo!Get(t)
    BY <2>1, <2>2 DEF Fifo!Get
  <2> QED BY <2>3 DEF Fifo!Next
<1>4. CASE InitServers \/ Accept \/ ReadMessage \/ QueueFull
  BY <1>1, <1>4 DEF InitServers, Accept, ReadMessage, QueueFull, threads
<1>5. CASE \E c \in Client : Connect(c) \/ Send(c) \/ Leave(c) \/ Die(c)
  BY <1>1, <1>5 DEF Connect, Send, Leave, Die, threads
<1>6. CASE \E t \in Server :
             PassGate(t) \/ WaitForClient(t) \/ Serve(t) \/ CloseClient(t) \/ Release(t)
             \/ SpuriousWakeup(t)
  BY <1>1, <1>6 DEF PassGate, WaitForClient, Serve, CloseClient, Release, SpuriousWakeup
<1>7. CASE UNCHANGED vars
  BY <1>1, <1>7 DEF vars, ring
<1> QED BY <1>2, <1>3, <1>4, <1>5, <1>6, <1>7 DEF Next, MainStep, ThreadStep, Quiet

\* The ring implements a bounded first-in first-out queue that gives each
\* client to one thread: whatever its size and the number of threads.
THEOREM FifoCorrect == Spec => FifoSpec
<1>1. Init => Fifo!Init
  BY FifoInit
<1>2. IInv /\ [Next]_vars => [Fifo!Next]_<<QueueSeq, held>>
  BY FifoStep
<1>3. (Fifo!Init /\ [][Fifo!Next]_<<QueueSeq, held>>) => Fifo!Spec
  BY PTL DEF Fifo!Spec
<1> QED BY <1>1, <1>2, <1>3, Always, PTL DEF Spec, FifoSpec

-----------------------------------------------------------------------------
(* Sleeping threads.                                                       *)

Awake == {t \in Server : at[t] = "dequeue"}

LEMMA AwakeFinite == IsFiniteSet(Awake) /\ Cardinality(Awake) \in Nat
BY ServersAssumption, FS_Subset, FS_CardinalityType DEF Awake

\* A thread that comes to the queue is one more on its way there.
LEMMA OneMoreAwake ==
  ASSUME NEW S, at \in [Server -> S], NEW t \in Server, at[t] # "dequeue",
         at' = [at EXCEPT ![t] = "dequeue"]
  PROVE  Cardinality(Awake') = Cardinality(Awake) + 1
<1>1. Awake' = Awake \cup {t} /\ t \notin Awake
  BY DEF Awake
<1> QED BY <1>1, AwakeFinite, FS_AddElement

LEMMA OversleepStep ==
  ASSUME TypeOK, NobodyOversleeps, [Next]_vars
  PROVE  NobodyOversleeps'
<1>1. /\ at \in [Server -> {"off", "gate", "dequeue", "wait", "serve", "close", "release"}]
      /\ queue_count \in Nat
  BY QueueSizeAssumption DEF TypeOK
<1>2. Waiting # {} => queue_count <= Cardinality(Awake)
  BY DEF NobodyOversleeps, Awake
<1>3. SUFFICES Waiting' # {} => queue_count' <= Cardinality(Awake')
  BY DEF NobodyOversleeps, Awake
<1>4. ASSUME UNCHANGED <<at, queue_count>>
      PROVE  Waiting' # {} => queue_count' <= Cardinality(Awake')
  BY <1>2, <1>4 DEF Waiting, Awake
<1>5. CASE InitServers
  BY <1>5 DEF InitServers, Waiting
\* A client more, and the thread that was signalled for it.
<1>6. CASE EnqueueClient
  <2>1. queue_count' = queue_count + 1
    BY <1>6 DEF EnqueueClient
  <2>2. CASE Waiting = {}
    <3>1. UNCHANGED at
      BY <1>6, <2>2 DEF EnqueueClient, Signal
    <3> QED BY <2>2, <3>1 DEF Waiting
  <2>3. CASE Waiting # {}
    <3>1. PICK t \in Waiting : at' = [at EXCEPT ![t] = "dequeue"]
      BY <1>6, <2>3 DEF EnqueueClient, Signal
    <3>2. t \in Server /\ at[t] # "dequeue"
      BY DEF Waiting
    <3>3. Cardinality(Awake') = Cardinality(Awake) + 1
      BY <1>1, <3>1, <3>2, OneMoreAwake
    <3> QED BY <1>1, <1>2, <2>1, <2>3, <3>3, AwakeFinite
  <2> QED BY <2>2, <2>3
\* A thread goes to sleep only when the queue is empty.
<1>7. ASSUME NEW t \in Server, WaitForClient(t)
      PROVE  Waiting' # {} => queue_count' <= Cardinality(Awake')
  <2>1. queue_count' = 0
    BY <1>7 DEF WaitForClient, ring
  <2>2. IsFiniteSet(Awake')
    BY ServersAssumption, FS_Subset DEF Awake
  <2> QED BY <2>1, <2>2, FS_CardinalityType
\* A client less, and the thread that has taken it.
<1>8. ASSUME NEW t \in Server, DequeueClient(t)
      PROVE  Waiting' # {} => queue_count' <= Cardinality(Awake')
  <2>1. queue_count' = queue_count - 1 /\ at' = [at EXCEPT ![t] = "serve"] /\ at[t] = "dequeue"
    BY <1>8 DEF DequeueClient
  <2>2. Awake' = Awake \ {t} /\ t \in Awake /\ Waiting' = Waiting
    BY <1>1, <2>1 DEF Awake, Waiting
  <2>3. Cardinality(Awake') = Cardinality(Awake) - 1
    BY <2>2, AwakeFinite, FS_RemoveElement
  <2> QED BY <1>1, <1>2, <2>1, <2>2, <2>3, AwakeFinite
\* A thread comes to the queue without a signal.
<1>9. ASSUME NEW t \in Server, PassGate(t) \/ SpuriousWakeup(t)
      PROVE  Waiting' # {} => queue_count' <= Cardinality(Awake')
  <2>1. at[t] # "dequeue" /\ at' = [at EXCEPT ![t] = "dequeue"] /\ queue_count' = queue_count
    BY <1>9 DEF PassGate, SpuriousWakeup, ring
  <2>2. Waiting' \subseteq Waiting
    BY <1>1, <2>1 DEF Waiting
  <2>3. Cardinality(Awake') = Cardinality(Awake) + 1
    BY <1>1, <2>1, OneMoreAwake
  <2> QED BY <1>1, <1>2, <2>1, <2>2, <2>3, AwakeFinite
<1>10. ASSUME NEW t \in Server, Serve(t) \/ CloseClient(t) \/ Release(t)
       PROVE  Waiting' # {} => queue_count' <= Cardinality(Awake')
  <2>1. /\ queue_count' = queue_count /\ at[t] \notin {"dequeue", "wait"}
        /\ \E place \in {"close", "release", "gate"} : at' = [at EXCEPT ![t] = place]
    BY <1>10 DEF Serve, CloseClient, Release, ring
  <2>2. Awake' = Awake /\ Waiting' = Waiting
    BY <1>1, <2>1 DEF Awake, Waiting
  <2> QED BY <1>2, <2>1, <2>2
<1>11. CASE Accept \/ ReadMessage \/ QueueFull
  BY <1>4, <1>11 DEF Accept, ReadMessage, QueueFull, ring, threads
<1>12. CASE \E c \in Client : Connect(c) \/ Send(c) \/ Leave(c) \/ Die(c)
  BY <1>4, <1>12 DEF Connect, Send, Leave, Die, ring, threads
<1>13. CASE UNCHANGED vars
  BY <1>4, <1>13 DEF vars
<1> QED
  BY <1>5, <1>6, <1>7, <1>8, <1>9, <1>10, <1>11, <1>12, <1>13
     DEF Next, MainStep, ThreadStep, Quiet

\* With one signal for each client, and wake-ups that nobody asked for, no
\* thread sleeps while a client in the queue has no thread on its way to it.
THEOREM OversleepCorrect == Spec => []NobodyOversleeps
<1>1. Init => NobodyOversleeps
  BY DEF Init, NobodyOversleeps, Waiting
<1>2. TypeOK /\ NobodyOversleeps /\ [Next]_vars => NobodyOversleeps'
  BY OversleepStep
<1> QED BY <1>1, <1>2, TypeCorrect, PTL DEF Spec

-----------------------------------------------------------------------------
(* Nobody is forgotten.                                                    *)

Queued(c) == \E k \in DOMAIN backlog : backlog[k] = c

\* A client that has come and was told nothing waits for accept or is known by
\* a descriptor.
LocatedInv ==
  \A c \in Client : client[c] # "idle" /\ answer[c] = "none" =>
    Queued(c) \/ \E f \in Fd : fdOf[f] = c

\* A descriptor is closed after its client was answered.
ClosingInv == \A t \in Server : at[t] = "close" => answer[fdOf[held[t].fd]] # "none"

\* A thread at its gate has left its flag clear.
GateInv == \A t \in Server : at[t] \in {"off", "gate"} => ~is_busy[t]

SentInv == \A c \in Client : client[c] \in {"sent", "done"} => request[c] # "none"

\* Nobody is known who has not come yet.
ComeInv == \A c \in Client : client[c] = "idle" => ~Queued(c) /\ \A f \in Fd : fdOf[f] # c

RestInv == LocatedInv /\ ClosingInv /\ GateInv /\ SentInv /\ ComeInv

LEMMA RestInit == Init => RestInv
BY ClientAssumption DEF Init, RestInv, LocatedInv, ClosingInv, GateInv, SentInv, ComeInv, Queued

LEMMA GateStep == IInv /\ RestInv /\ [Next]_vars => GateInv'
<1> SUFFICES ASSUME IInv, RestInv, [Next]_vars PROVE GateInv'
  OBVIOUS
<1> USE DEF IInv, TypeOK, RestInv, GateInv
<1>1. CASE InitServers
  BY <1>1 DEF InitServers, OwnInv, StartInv
<1>2. CASE EnqueueClient
  <2>1. is_busy' = is_busy /\ \A t \in Server : at'[t] = at[t] \/ at'[t] = "dequeue"
    BY <1>2 DEF EnqueueClient, Signal
  <2> QED BY <2>1
<1>3. CASE Accept \/ ReadMessage \/ QueueFull
  BY <1>3 DEF Accept, ReadMessage, QueueFull, threads
<1>4. CASE \E c \in Client : Connect(c) \/ Send(c) \/ Leave(c) \/ Die(c)
  BY <1>4 DEF Connect, Send, Leave, Die, threads
<1>5. CASE \E t \in Server : ThreadStep(t) \/ SpuriousWakeup(t)
  BY <1>5 DEF ThreadStep, PassGate, WaitForClient, SpuriousWakeup, DequeueClient, Serve,
              CloseClient, Release
<1>6. CASE UNCHANGED vars
  BY <1>6 DEF vars
<1> QED BY <1>1, <1>2, <1>3, <1>4, <1>5, <1>6 DEF Next, MainStep, Quiet

LEMMA SentStep == IInv /\ RestInv /\ [Next]_vars => SentInv'
<1> SUFFICES ASSUME IInv, RestInv, [Next]_vars PROVE SentInv'
  OBVIOUS
<1> USE DEF IInv, TypeOK, RestInv, SentInv
<1>1. CASE \E c \in Client : Connect(c) \/ Send(c) \/ Leave(c) \/ Die(c)
  BY <1>1 DEF Connect, Send, Leave, Die, Message
<1>2. CASE MainStep
  BY <1>2 DEF MainStep, InitServers, Accept, ReadMessage, EnqueueClient, QueueFull, clients
<1>3. CASE \E t \in Server : ThreadStep(t) \/ SpuriousWakeup(t)
  BY <1>3 DEF ThreadStep, PassGate, WaitForClient, SpuriousWakeup, DequeueClient, Serve,
              CloseClient, Release, clients
<1>4. CASE UNCHANGED vars
  BY <1>4 DEF vars
<1> QED BY <1>1, <1>2, <1>3, <1>4 DEF Next, Quiet

\* Nobody is told less than before.
LEMMA AnswersStay ==
  ASSUME IInv, [Next]_vars, NEW c \in Client, answer[c] # "none"
  PROVE  answer'[c] # "none"
<1> USE DEF IInv, TypeOK
<1>1. CASE \E d \in Client : Connect(d) \/ Send(d) \/ Leave(d) \/ Die(d)
  BY <1>1 DEF Connect, Send, Leave, Die
<1>2. CASE MainStep
  BY <1>2 DEF MainStep, InitServers, Accept, ReadMessage, EnqueueClient, QueueFull, clients
<1>3. CASE \E t \in Server : ThreadStep(t) \/ SpuriousWakeup(t)
  BY <1>3 DEF ThreadStep, PassGate, WaitForClient, SpuriousWakeup, DequeueClient, Serve,
              CloseClient, Release, clients
<1>4. CASE UNCHANGED vars
  BY <1>4 DEF vars
<1> QED BY <1>1, <1>2, <1>3, <1>4 DEF Next, Quiet

\* A thread keeps the client it serves, and no descriptor is closed before its
\* client was answered.
LEMMA ClosingStep == IInv /\ RestInv /\ [Next]_vars => ClosingInv'
<1> SUFFICES ASSUME IInv, RestInv, [Next]_vars, NEW t \in Server, at'[t] = "close"
             PROVE  answer'[fdOf'[held'[t].fd]] # "none"
  BY DEF ClosingInv
<1> DEFINE f == held[t].fd
<1>1. /\ f \in Fd /\ fdOf \in [Fd -> Client \cup {NoClient}]
      /\ at \in [Server -> {"off", "gate", "dequeue", "wait", "serve", "close", "release"}]
      /\ answer \in [Client -> {"none", "time", "error", "full"}]
  BY Named DEF IInv, TypeOK
<1>2. Serves(t) => fdOf[f] \in Client
  BY <1>1 DEF IInv, OwnInv, OpenInv
<1>3. ASSUME at[t] = "close", held'[t] = held[t], fdOf'[f] = fdOf[f]
      PROVE  answer'[fdOf'[held'[t].fd]] # "none"
  <2>1. fdOf[f] \in Client /\ answer[fdOf[f]] # "none"
    BY <1>2, <1>3 DEF Serves, RestInv, ClosingInv
  <2> QED BY <1>3, <2>1, AnswersStay
<1>4. CASE \E c \in Client : Connect(c) \/ Send(c) \/ Leave(c) \/ Die(c)
  BY <1>3, <1>4 DEF Connect, Send, Leave, Die, threads
<1>5. CASE InitServers
  BY <1>5 DEF InitServers
<1>6. CASE Accept
  <2>1. /\ UNCHANGED <<at, held>>
        /\ \E g \in Fd : fdOf[g] = NoClient /\ fdOf' = [fdOf EXCEPT ![g] = Head(backlog)]
    BY <1>6 DEF Accept, threads
  <2>2. fdOf'[f] = fdOf[f]
    BY <1>1, <1>2, <2>1, ClientAssumption DEF Serves
  <2> QED BY <1>3, <2>1, <2>2
<1>7. CASE ReadMessage \/ EnqueueClient
  <2>1. UNCHANGED <<held, fdOf>> /\ at[t] = "close"
    BY <1>1, <1>7 DEF ReadMessage, EnqueueClient, Signal, threads
  <2> QED BY <1>3, <2>1
<1>8. CASE QueueFull
  <2>1. UNCHANGED <<at, held>> /\ fdOf' = [fdOf EXCEPT ![hand] = NoClient] /\ MainHolds
    BY <1>8 DEF QueueFull, threads, CloseFd, MainHolds
  <2>2. f # hand
    BY <2>1 DEF Serves, IInv, OwnInv, ApartInv
  <2> QED BY <1>1, <1>3, <2>1, <2>2
<1>9. ASSUME NEW u \in Server, ThreadStep(u) \/ SpuriousWakeup(u)
      PROVE  answer'[fdOf'[held'[t].fd]] # "none"
  <2>1. CASE Serve(u)
    <3>1. UNCHANGED <<held, fdOf>>
      BY <2>1 DEF Serve
    <3>2. CASE u = t
      <4>1. fdOf[f] \in Client
        BY <1>2, <2>1, <3>2 DEF Serve, Serves
      <4>2. answer'[fdOf[f]] \in {"time", "error"}
        BY <1>1, <2>1, <3>2, <4>1 DEF Serve
      <4> QED BY <3>1, <4>2
    <3>3. CASE u # t
      BY <1>1, <1>3, <2>1, <3>1, <3>3 DEF Serve
    <3> QED BY <3>2, <3>3
  <2>2. CASE CloseClient(u)
    <3>1. /\ held' = held /\ fdOf' = [fdOf EXCEPT ![held[u].fd] = NoClient]
          /\ u # t /\ at[u] = "close" /\ at[t] = "close"
      BY <1>1, <2>2 DEF CloseClient, CloseFd
    <3>2. f # held[u].fd
      BY <3>1 DEF Serves, IInv, OwnInv, ApartInv
    <3> QED BY <1>1, <1>3, <3>1, <3>2
  <2>3. CASE DequeueClient(u)
    <3>1. u # t /\ at[t] = "close" /\ held'[t] = held[t] /\ fdOf' = fdOf
      BY <1>1, <2>3 DEF DequeueClient, IInv, TypeOK
    <3> QED BY <1>3, <3>1
  <2>4. CASE PassGate(u) \/ WaitForClient(u) \/ SpuriousWakeup(u) \/ Release(u)
    <3>1. UNCHANGED <<held, fdOf>> /\ at[t] = "close"
      BY <1>1, <2>4 DEF PassGate, WaitForClient, SpuriousWakeup, Release
    <3> QED BY <1>3, <3>1
  <2> QED BY <1>9, <2>1, <2>2, <2>3, <2>4 DEF ThreadStep
<1>10. CASE UNCHANGED vars
  BY <1>3, <1>10 DEF vars
<1> QED BY <1>4, <1>5, <1>6, <1>7, <1>8, <1>9, <1>10 DEF Next, MainStep, Quiet

LEMMA LocatedStep == IInv /\ RestInv /\ [Next]_vars => LocatedInv'
<1> SUFFICES ASSUME IInv, RestInv, [Next]_vars,
                    NEW c \in Client, client'[c] # "idle", answer'[c] = "none"
             PROVE  Queued(c)' \/ \E f \in Fd : fdOf'[f] = c
  BY DEF LocatedInv
<1>1. /\ answer[c] = "none" /\ fdOf \in [Fd -> Client \cup {NoClient}]
      /\ backlog \in Seq(Client) /\ client[c] \in {"idle", "connected", "sent", "done", "gone"}
  BY AnswersStay DEF IInv, TypeOK
<1>2. client[c] # "idle" => Queued(c) \/ \E f \in Fd : fdOf[f] = c
  BY <1>1 DEF RestInv, LocatedInv
<1>3. ASSUME client[c] # "idle", UNCHANGED <<backlog, fdOf>>
      PROVE  Queued(c)' \/ \E f \in Fd : fdOf'[f] = c
  BY <1>2, <1>3 DEF Queued
\* Only a client that was answered loses its descriptor.
<1>4. ASSUME NEW g \in Fd, CloseFd(g), fdOf[g] # c, UNCHANGED <<client, backlog>>
      PROVE  Queued(c)' \/ \E f \in Fd : fdOf'[f] = c
  <2>1. CASE Queued(c)
    BY <1>4, <2>1 DEF Queued
  <2>2. ASSUME NEW f \in Fd, fdOf[f] = c PROVE fdOf'[f] = c
    BY <1>1, <1>4, <2>2 DEF CloseFd
  <2> QED BY <1>2, <1>4, <2>1, <2>2
<1>5. ASSUME NEW d \in Client, Connect(d)
      PROVE  Queued(c)' \/ \E f \in Fd : fdOf'[f] = c
  <2>1. /\ backlog' = Append(backlog, d) /\ fdOf' = fdOf
        /\ client' = [client EXCEPT ![d] = "connected"]
    BY <1>5 DEF Connect
  <2>2. CASE d = c
    <3>1. Len(backlog) + 1 \in DOMAIN backlog' /\ backlog'[Len(backlog) + 1] = c
      BY <1>1, <2>1, <2>2
    <3> QED BY <3>1 DEF Queued
  <2>3. CASE d # c
    <3>1. client[c] # "idle"
      BY <2>1, <2>3 DEF IInv, TypeOK
    <3>2. \A k \in DOMAIN backlog : k \in DOMAIN backlog' /\ backlog'[k] = backlog[k]
      BY <1>1, <2>1
    <3> QED BY <1>2, <2>1, <3>1, <3>2 DEF Queued
  <2> QED BY <2>2, <2>3
<1>6. CASE Accept
  <2>1. /\ backlog # <<>> /\ backlog' = Tail(backlog) /\ UNCHANGED client
        /\ \E g \in Fd : fdOf[g] = NoClient /\ fdOf' = [fdOf EXCEPT ![g] = Head(backlog)]
    BY <1>6 DEF Accept, clients
  <2>2. PICK g \in Fd : fdOf[g] = NoClient /\ fdOf' = [fdOf EXCEPT ![g] = Head(backlog)]
    BY <2>1
  <2>3. ASSUME NEW f \in Fd, fdOf[f] = c PROVE fdOf'[f] = c
    BY <1>1, <2>2, <2>3, ClientAssumption
  <2>4. ASSUME NEW k \in DOMAIN backlog, backlog[k] = c
        PROVE  Queued(c)' \/ fdOf'[g] = c
    <3>1. CASE k = 1
      BY <1>1, <2>2, <2>4, <3>1
    <3>2. CASE k # 1
      <4>1. k - 1 \in DOMAIN backlog' /\ backlog'[k - 1] = c
        BY <1>1, <2>1, <2>4, <3>2
      <4> QED BY <4>1 DEF Queued
    <3> QED BY <3>1, <3>2
  <2> QED BY <1>2, <2>1, <2>3, <2>4 DEF Queued
<1>7. CASE QueueFull
  <2>1. /\ hand \in Fd /\ fdOf[hand] \in Client
        /\ answer' = [answer EXCEPT ![fdOf[hand]] = "full"]
    BY <1>7, Named DEF QueueFull, IInv, OwnInv, OpenInv, MainHolds
  <2>2. fdOf[hand] # c
    BY <2>1 DEF IInv, TypeOK
  <2> QED BY <1>4, <1>7, <2>1, <2>2 DEF QueueFull
<1>8. ASSUME NEW t \in Server, CloseClient(t)
      PROVE  Queued(c)' \/ \E f \in Fd : fdOf'[f] = c
  <2>1. held[t].fd \in Fd /\ fdOf[held[t].fd] # c
    BY <1>1, <1>8, Named DEF CloseClient, RestInv, ClosingInv
  <2> QED BY <1>4, <1>8, <2>1 DEF CloseClient, clients
<1>9. CASE InitServers \/ ReadMessage \/ EnqueueClient
  BY <1>3, <1>9 DEF InitServers, ReadMessage, EnqueueClient, clients
<1>10. ASSUME NEW d \in Client, Send(d) \/ Leave(d) \/ Die(d)
       PROVE  Queued(c)' \/ \E f \in Fd : fdOf'[f] = c
  <2>1. client[c] # "idle" /\ UNCHANGED <<backlog, fdOf>>
    BY <1>1, <1>10 DEF Send, Leave, Die, IInv, TypeOK
  <2> QED BY <1>3, <2>1
<1>11. ASSUME NEW t \in Server, ThreadStep(t) \/ SpuriousWakeup(t), ~CloseClient(t)
       PROVE  Queued(c)' \/ \E f \in Fd : fdOf'[f] = c
  BY <1>3, <1>11 DEF ThreadStep, PassGate, WaitForClient, SpuriousWakeup, DequeueClient, Serve,
                     Release, clients
<1>12. CASE UNCHANGED vars
  BY <1>3, <1>12 DEF vars
<1> QED BY <1>5, <1>6, <1>7, <1>8, <1>9, <1>10, <1>11, <1>12 DEF Next, MainStep, Quiet

LEMMA ComeStep == IInv /\ RestInv /\ [Next]_vars => ComeInv'
<1> SUFFICES ASSUME IInv, RestInv, [Next]_vars, NEW c \in Client, client'[c] = "idle"
             PROVE  ~Queued(c)' /\ \A f \in Fd : fdOf'[f] # c
  BY DEF ComeInv
<1>1. /\ fdOf \in [Fd -> Client \cup {NoClient}] /\ backlog \in Seq(Client)
      /\ client \in [Client -> {"idle", "connected", "sent", "done", "gone"}]
  BY DEF IInv, TypeOK
<1>2. client[c] = "idle" => (\A k \in DOMAIN backlog : backlog[k] # c) /\ \A f \in Fd : fdOf[f] # c
  BY DEF RestInv, ComeInv, Queued
<1>3. ASSUME client[c] = "idle", UNCHANGED backlog,
             fdOf' = fdOf \/ \E f \in Fd : CloseFd(f)
      PROVE  ~Queued(c)' /\ \A f \in Fd : fdOf'[f] # c
  BY <1>1, <1>2, <1>3, ClientAssumption DEF Queued, CloseFd
<1>4. ASSUME NEW d \in Client, Connect(d)
      PROVE  ~Queued(c)' /\ \A f \in Fd : fdOf'[f] # c
  <2>1. d # c /\ client[c] = "idle" /\ backlog' = Append(backlog, d) /\ fdOf' = fdOf
    BY <1>1, <1>4 DEF Connect
  <2>2. \A k \in DOMAIN backlog' : backlog'[k] = d \/ (k \in DOMAIN backlog /\ backlog'[k] = backlog[k])
    BY <1>1, <2>1
  <2> QED BY <1>2, <2>1, <2>2 DEF Queued
<1>5. CASE Accept
  <2>1. /\ backlog # <<>> /\ backlog' = Tail(backlog) /\ client[c] = "idle"
        /\ \E g \in Fd : fdOf' = [fdOf EXCEPT ![g] = Head(backlog)]
    BY <1>5 DEF Accept, clients
  <2>2. 1 \in DOMAIN backlog /\ Head(backlog) = backlog[1]
    BY <1>1, <2>1
  <2>3. \A k \in DOMAIN backlog' : k + 1 \in DOMAIN backlog /\ backlog'[k] = backlog[k + 1]
    BY <1>1, <2>1
  <2> QED BY <1>1, <1>2, <2>1, <2>2, <2>3 DEF Queued
<1>6. CASE InitServers \/ ReadMessage \/ EnqueueClient
  BY <1>3, <1>6 DEF InitServers, ReadMessage, EnqueueClient, clients
<1>7. CASE QueueFull
  BY <1>3, <1>7, Named DEF QueueFull
<1>8. ASSUME NEW d \in Client, Send(d) \/ Leave(d) \/ Die(d)
      PROVE  ~Queued(c)' /\ \A f \in Fd : fdOf'[f] # c
  <2>1. client[c] = "idle" /\ UNCHANGED <<backlog, fdOf>>
    BY <1>1, <1>8 DEF Send, Leave, Die
  <2> QED BY <1>3, <2>1
<1>9. ASSUME NEW t \in Server, ThreadStep(t) \/ SpuriousWakeup(t)
      PROVE  ~Queued(c)' /\ \A f \in Fd : fdOf'[f] # c
  BY <1>3, <1>9, Named DEF ThreadStep, PassGate, WaitForClient, SpuriousWakeup, DequeueClient,
                           Serve, CloseClient, Release, clients
<1>10. CASE UNCHANGED vars
  BY <1>3, <1>10 DEF vars
<1> QED BY <1>4, <1>5, <1>6, <1>7, <1>8, <1>9, <1>10 DEF Next, MainStep, Quiet

LEMMA Resting == Spec => []RestInv
<1>1. IInv /\ RestInv /\ [Next]_vars => RestInv'
  BY GateStep, SentStep, ClosingStep, LocatedStep, ComeStep DEF RestInv
<1> QED BY <1>1, RestInit, Always, PTL DEF Spec

\* Where nobody can go on all threads sleep, so the ring is empty; nobody then
\* owns a descriptor but main, and main waits for a client that will send.
LEMMA Forgotten == IInv /\ RestInv /\ NobodyOversleeps => NobodyForgotten
<1> SUFFICES ASSUME IInv, RestInv, NobodyOversleeps, ~MainCan,
                    \A t \in Server : ~ThreadCan(t), \A d \in Client : ~ClientCan(d),
                    NEW c \in Client, client[c] \in {"connected", "sent"},
                    NEW u \in Server, at[u] # "off"
             PROVE  FALSE
  BY DEF NobodyForgotten
<1>1. \A t \in Server : at[t] \in {"off", "wait"}
  BY DEF ThreadCan, RestInv, GateInv, IInv, TypeOK
<1>2. queue_count = 0
  <2>1. Waiting # {}
    BY <1>1 DEF Waiting
  <2>2. {t \in Server : at[t] = "dequeue"} = {}
    BY <1>1
  <2>3. queue_count <= 0
    BY <2>1, <2>2, FS_EmptySet DEF NobodyOversleeps
  <2> QED BY <2>3, QueueSizeAssumption DEF IInv, TypeOK
<1>3. \A f \in Fd : fdOf[f] # NoClient => MainHolds /\ hand = f
  BY <1>1, <1>2 DEF IInv, OwnInv, NoLeakInv, Serves
<1>4. client[c] = "sent" /\ answer[c] = "none"
  BY DEF ClientCan, IInv, TypeOK
<1>5. CASE pc = "read"
  <2>1. hand \in Fd /\ fdOf[hand] \in Client
    BY <1>5, Named DEF IInv, OwnInv, OpenInv, MainHolds
  <2>2. request[fdOf[hand]] = "none" /\ client[fdOf[hand]] # "gone"
    BY <1>5 DEF MainCan
  <2> DEFINE d == fdOf[hand]
  <2>3. client[d] # "idle"
    BY <2>1 DEF RestInv, ComeInv
  <2> QED BY <2>1, <2>2, <2>3 DEF ClientCan, RestInv, SentInv, IInv, TypeOK
<1>6. CASE pc = "accept"
  <2>1. ~MainHolds /\ 0 \in Fd
    BY <1>6, MaxFdAssumption DEF MainHolds, Fd
  <2>2. fdOf[0] = NoClient
    BY <1>3, <2>1
  <2>3. backlog = <<>>
    BY <1>6, <2>1, <2>2 DEF MainCan
  <2>4. ~Queued(c)
    BY <2>3 DEF Queued
  <2>5. \A f \in Fd : fdOf[f] # c
    BY <1>3, <2>1, ClientAssumption
  <2> QED BY <1>4, <2>4, <2>5 DEF RestInv, LocatedInv
<1> QED BY <1>5, <1>6 DEF MainCan, IInv, TypeOK

\* Neither the ring, nor the gates, nor a descriptor that leaked, nor a wakeup
\* that was lost can bring the server to rest while a client waits for it.
THEOREM ForgottenCorrect == Spec => []NobodyForgotten
BY Forgotten, Always, Resting, OversleepCorrect, PTL
=============================================================================
