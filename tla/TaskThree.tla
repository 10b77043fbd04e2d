------------------------------ MODULE TaskThree ------------------------------
(***************************************************************************)
(* src/SocketsSS/TaskThree: a time server.  The main thread accepts a      *)
(* client, reads its message and puts both into a ring buffer; a pool of   *)
(* service threads takes clients out, answers and closes them.             *)
(*                                                                         *)
(* Everything between the lock and the unlock of queue_mutex is one step:  *)
(* no other code touches the ring.  A thread in pthread_cond_wait is in    *)
(* place "wait"; a signal moves one such thread back to "dequeue", where   *)
(* it looks at queue_count again.  Descriptor numbers are given lowest     *)
(* first and used again once closed, as accept does.                       *)
(***************************************************************************)
EXTENDS Integers, Sequences, FiniteSets

CONSTANTS Client,      \* one run of a client program each
          NoClient,
          Server,      \* the service threads, MAX_CLIENTS of them in the code
          NoServer,
          QUEUE_SIZE,
          MaxFd        \* bound: descriptors 0..MaxFd - 1 for accepted clients

ASSUME QueueSizeAssumption == QUEUE_SIZE \in Nat \ {0}
ASSUME MaxFdAssumption == MaxFd \in Nat \ {0}
ASSUME ClientAssumption == NoClient \notin Client
ASSUME ServerAssumption == NoServer \notin Server
ASSUME ServersAssumption == IsFiniteSet(Server)

VARIABLES
  \* clients and the network
  client,   \* where each client is
  request,  \* what it has sent
  answer,   \* what it was sent
  backlog,  \* connections that wait for accept
  fdOf,     \* per descriptor, the client at its other end
  \* main
  pc, hand, buffer,
  \* the ring
  client_queue, queue_front, queue_rear, queue_count,
  \* service threads
  at, is_busy, held

clients == <<client, request, answer>>
main == <<pc, hand, buffer>>
ring == <<client_queue, queue_front, queue_rear, queue_count>>
threads == <<at, is_busy, held>>
vars == <<client, request, answer, backlog, fdOf, pc, hand, buffer,
          client_queue, queue_front, queue_rear, queue_count, at, is_busy, held>>

Fd == 0..MaxFd - 1
Index == 0..QUEUE_SIZE - 1
Message == {"TIME", "other"}          \* "other" includes the empty message
Item == [fd : Fd, message : Message]
NoItem == [fd |-> 0, message |-> "other"]

Init ==
  /\ client = [c \in Client |-> "idle"]
  /\ request = [c \in Client |-> "none"]
  /\ answer = [c \in Client |-> "none"]
  /\ backlog = <<>>
  /\ fdOf = [f \in Fd |-> NoClient]
  /\ pc = "init" /\ hand = 0 /\ buffer = "other"
  /\ client_queue = [k \in Index |-> NoItem]
  /\ queue_front = 0 /\ queue_rear = 0 /\ queue_count = 0
  /\ at = [t \in Server |-> "off"]
  /\ is_busy = [t \in Server |-> FALSE]
  /\ held = [t \in Server |-> NoItem]

-----------------------------------------------------------------------------
(* Clients.                                                                *)

Connect(c) ==
  /\ client[c] = "idle" /\ pc # "init"
  /\ client' = [client EXCEPT ![c] = "connected"]
  /\ backlog' = Append(backlog, c)
  /\ UNCHANGED <<request, answer, fdOf, main, ring, threads>>

Send(c) ==
  /\ client[c] = "connected"
  /\ client' = [client EXCEPT ![c] = "sent"]
  /\ \E m \in Message : request' = [request EXCEPT ![c] = m]
  /\ UNCHANGED <<answer, backlog, fdOf, main, ring, threads>>

\* The client reads its answer, or the end of the connection, and leaves.
Leave(c) ==
  /\ client[c] = "sent" /\ answer[c] # "none"
  /\ client' = [client EXCEPT ![c] = "done"]
  /\ UNCHANGED <<request, answer, backlog, fdOf, main, ring, threads>>

\* A client may be killed; the server then reads an end of file from it.
Die(c) ==
  /\ client[c] \in {"connected", "sent"}
  /\ client' = [client EXCEPT ![c] = "gone"]
  /\ UNCHANGED <<request, answer, backlog, fdOf, main, ring, threads>>

-----------------------------------------------------------------------------
(* The ring buffer.                                                        *)

Advance(k) == (k + 1) % QUEUE_SIZE

HasRoom == queue_count < QUEUE_SIZE

\* Mutant: the item is read after queue_front was advanced.
ItemAfterAdvance == client_queue[Advance(queue_front)]
FirstItem == client_queue[queue_front]

\* pthread_cond_signal: one waiting thread, if there is one, goes on.
\* Mutants: a signal only when the queue was empty; no signal at all.
SignalIfEmpty(t) ==
  IF queue_count = 0 /\ t # NoServer THEN at' = [at EXCEPT ![t] = "dequeue"] ELSE UNCHANGED at
NoSignal(t) == UNCHANGED at
Signal(t) ==
  IF t # NoServer THEN at' = [at EXCEPT ![t] = "dequeue"] ELSE UNCHANGED at

Waiting == {t \in Server : at[t] = "wait"}

-----------------------------------------------------------------------------
(* The main thread.                                                        *)

\* init_servers goes on after a thread that could not be set up.
InitServers ==
  /\ pc = "init" /\ pc' = "accept"
  /\ \E up \in SUBSET Server :
       at' = [t \in Server |-> IF t \in up THEN "gate" ELSE "off"]
  /\ UNCHANGED <<clients, backlog, fdOf, hand, buffer, ring, is_busy, held>>

\* accept gives the lowest free descriptor.  (Without one it fails, and the
\* loop tries again.)
Accept ==
  /\ pc = "accept" /\ backlog # <<>>
  /\ \E f \in Fd : /\ fdOf[f] = NoClient
                   /\ \A g \in 0..f - 1 : fdOf[g] # NoClient
                   /\ fdOf' = [fdOf EXCEPT ![f] = Head(backlog)]
                   /\ hand' = f
  /\ backlog' = Tail(backlog)
  /\ pc' = "read"
  /\ UNCHANGED <<clients, buffer, ring, threads>>

\* read waits until this one client has sent something or is gone.
ReadMessage ==
  /\ pc = "read"
  /\ LET c == fdOf[hand]
     IN /\ request[c] # "none" \/ client[c] = "gone"
        /\ buffer' = IF request[c] = "none" THEN "other" ELSE request[c]
  /\ pc' = "enqueue"
  /\ UNCHANGED <<clients, backlog, fdOf, hand, ring, threads>>

\* enqueue_client with room: the client is put at the rear and one waiting
\* thread is signalled.
EnqueueClient ==
  /\ pc = "enqueue" /\ HasRoom
  /\ client_queue' = [client_queue EXCEPT ![queue_rear] = [fd |-> hand, message |-> buffer]]
  /\ queue_rear' = Advance(queue_rear)
  /\ queue_count' = queue_count + 1
  /\ \E t \in Waiting \cup {NoServer} :
       /\ Waiting # {} => t # NoServer
       /\ Signal(t)
  /\ pc' = "accept"
  /\ UNCHANGED <<clients, backlog, fdOf, hand, buffer, queue_front, is_busy, held>>

\* Mutant: the descriptor stays open.
LeavesOpen(f) == UNCHANGED fdOf
CloseFd(f) == fdOf' = [fdOf EXCEPT ![f] = NoClient]

\* enqueue_client without room: the client is told so and closed.
QueueFull ==
  /\ pc = "enqueue" /\ ~HasRoom
  /\ answer' = [answer EXCEPT ![fdOf[hand]] = "full"]
  /\ CloseFd(hand)
  /\ pc' = "accept"
  /\ UNCHANGED <<client, request, backlog, hand, buffer, ring, threads>>

-----------------------------------------------------------------------------
(* A service thread.                                                       *)

\* Nobody but the thread itself sets its is_busy, so it never waits here.
PassGate(t) ==
  /\ at[t] = "gate" /\ ~is_busy[t]
  /\ is_busy' = [is_busy EXCEPT ![t] = TRUE]
  /\ at' = [at EXCEPT ![t] = "dequeue"]
  /\ UNCHANGED <<clients, backlog, fdOf, main, ring, held>>

WaitForClient(t) ==
  /\ at[t] = "dequeue" /\ queue_count = 0
  /\ at' = [at EXCEPT ![t] = "wait"]
  /\ UNCHANGED <<clients, backlog, fdOf, main, ring, is_busy, held>>

\* pthread_cond_wait may return without a signal.
SpuriousWakeup(t) ==
  /\ at[t] = "wait"
  /\ at' = [at EXCEPT ![t] = "dequeue"]
  /\ UNCHANGED <<clients, backlog, fdOf, main, ring, is_busy, held>>

DequeueClient(t) ==
  /\ at[t] = "dequeue" /\ queue_count # 0
  /\ held' = [held EXCEPT ![t] = FirstItem]
  /\ queue_front' = Advance(queue_front)
  /\ queue_count' = queue_count - 1
  /\ at' = [at EXCEPT ![t] = "serve"]
  /\ UNCHANGED <<clients, backlog, fdOf, main, client_queue, queue_rear, is_busy>>

Serve(t) ==
  /\ at[t] = "serve"
  /\ answer' = [answer EXCEPT ![fdOf[held[t].fd]] =
                  IF held[t].message = "TIME" THEN "time" ELSE "error"]
  /\ at' = [at EXCEPT ![t] = "close"]
  /\ UNCHANGED <<client, request, backlog, fdOf, main, ring, is_busy, held>>

CloseClient(t) ==
  /\ at[t] = "close"
  /\ CloseFd(held[t].fd)
  /\ at' = [at EXCEPT ![t] = "release"]
  /\ UNCHANGED <<clients, backlog, main, ring, is_busy, held>>

Release(t) ==
  /\ at[t] = "release"
  /\ is_busy' = [is_busy EXCEPT ![t] = FALSE]
  /\ at' = [at EXCEPT ![t] = "gate"]
  /\ UNCHANGED <<clients, backlog, fdOf, main, ring, held>>

MainStep == InitServers \/ Accept \/ ReadMessage \/ EnqueueClient \/ QueueFull

ThreadStep(t) ==
  PassGate(t) \/ WaitForClient(t) \/ DequeueClient(t) \/ Serve(t) \/ CloseClient(t) \/ Release(t)

\* Every client has left and every thread waits: the server runs on.
Quiet ==
  /\ \A c \in Client : client[c] \in {"done", "gone"}
  /\ pc = "accept" /\ backlog = <<>>
  /\ UNCHANGED vars

Next ==
  \/ MainStep
  \/ \E c \in Client : Connect(c) \/ Send(c) \/ Leave(c) \/ Die(c)
  \/ \E t \in Server : ThreadStep(t) \/ SpuriousWakeup(t)
  \/ Quiet

Spec == Init /\ [][Next]_vars

\* Both kinds of threads are scheduled, and a client that has connected goes
\* on to send, as the client program does without waiting for anything.
FairSpec ==
  /\ Spec
  /\ WF_vars(MainStep)
  /\ \A t \in Server : WF_vars(ThreadStep(t))
  /\ \A c \in Client : WF_vars(Send(c) \/ Leave(c))

-----------------------------------------------------------------------------
(* Properties.                                                             *)

TypeOK ==
  /\ client \in [Client -> {"idle", "connected", "sent", "done", "gone"}]
  /\ request \in [Client -> Message \cup {"none"}]
  /\ answer \in [Client -> {"none", "time", "error", "full"}]
  /\ backlog \in Seq(Client)
  /\ fdOf \in [Fd -> Client \cup {NoClient}]
  /\ pc \in {"init", "accept", "read", "enqueue"} /\ hand \in Fd /\ buffer \in Message
  /\ client_queue \in [Index -> Item]
  /\ queue_front \in Index /\ queue_rear \in Index /\ queue_count \in 0..QUEUE_SIZE
  /\ at \in [Server -> {"off", "gate", "dequeue", "wait", "serve", "close", "release"}]
  /\ is_busy \in [Server -> BOOLEAN]
  /\ held \in [Server -> Item]

\* The k-th item from the front, and the ring as a sequence.
Place(k) == (queue_front + k) % QUEUE_SIZE
QueueSeq == [k \in 1..queue_count |-> client_queue[Place(k - 1)]]

\* front, rear and count tell the same story after every wrap: the rear is
\* count places after the front (enqueue_client, dequeue_client).
RingConsistent == queue_rear = Place(queue_count)

\* Who may still use a descriptor: main, a place in the queue, a thread.
Owners(f) ==
  (IF pc \in {"read", "enqueue"} /\ hand = f THEN {<<"main", 0>>} ELSE {})
  \cup {<<"queue", k>> : k \in {k \in 1..queue_count : QueueSeq[k].fd = f}}
  \cup {<<"thread", t>> : t \in {t \in Server : at[t] \in {"serve", "close"} /\ held[t].fd = f}}

\* A descriptor that is open has one owner and one that is closed has none:
\* no client is answered by two threads or through a number that was given to
\* another client, none is closed twice, none leaks.
OneOwner ==
  \A f \in Fd : Cardinality(Owners(f)) = (IF fdOf[f] = NoClient THEN 0 ELSE 1)

\* No thread sleeps in pthread_cond_wait while a queued client has no thread
\* on its way to it: one signal for every client is enough.
NobodyOversleeps ==
  Waiting # {} => queue_count <= Cardinality({t \in Server : at[t] = "dequeue"})

\* The guards of the steps that need no wakeup and no killed client.
MainCan ==
  \/ pc \in {"init", "enqueue"}
  \/ pc = "accept" /\ backlog # <<>> /\ \E f \in Fd : fdOf[f] = NoClient
  \/ pc = "read" /\ (request[fdOf[hand]] # "none" \/ client[fdOf[hand]] = "gone")
ThreadCan(t) ==
  at[t] \in {"dequeue", "serve", "close", "release"} \/ (at[t] = "gate" /\ ~is_busy[t])
ClientCan(c) == client[c] = "connected" \/ (client[c] = "sent" /\ answer[c] # "none")

\* The server never comes to rest over a client: where nobody can go on, with
\* all threads asleep and none of them signalled, a client waits only if no
\* thread was set up.
NobodyForgotten ==
  ~MainCan /\ (\A t \in Server : ~ThreadCan(t)) /\ (\A c \in Client : ~ClientCan(c)) =>
    \A c \in Client : client[c] \in {"connected", "sent"} => \A t \in Server : at[t] = "off"

\* As long as one service thread was set up, a client that connects is
\* answered: behind a slow client it waits, but not for ever.
EveryClientAnswered ==
  \A c \in Client :
    (client[c] = "connected" /\ \E t \in Server : at[t] # "off")
      ~> (answer[c] # "none" \/ client[c] = "gone")

\* The ring is a bounded first-in first-out queue.
Fifo == INSTANCE BoundedFifo
          WITH Consumer <- Server, Capacity <- QUEUE_SIZE, queue <- QueueSeq, got <- held
FifoSpec == Fifo!Spec
=============================================================================
