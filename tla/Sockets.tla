------------------------------ MODULE Sockets ------------------------------
(***************************************************************************)
(* src/Sockets, and the FIFO pair of src/Pipe: five pairs of programs in   *)
(* which a server answers one client and ends.                             *)
(*   tcp, tcp_local   a connection: the client asks, the server answers    *)
(*   udp, udp_local   a datagram each way                                  *)
(*   fifo             the server writes, the client reads                  *)
(* The server has a name: a port, or a path that outlives its process and  *)
(* that anybody can unlink.  A client of udp_local has a path too, the     *)
(* same for all clients.                                                   *)
(*                                                                         *)
(* Any number of servers and clients are run, and any may be killed.       *)
(***************************************************************************)
EXTENDS Integers, Sequences

CONSTANTS Client, Server,   \* a run of the programs each
          NoOne

VARIABLES
  kind,      \* which pair of programs
  owner,     \* name -> process whose socket or FIFO has it
  pc,        \* place of each process
  peer,      \* server -> client at hand; client -> server it is connected to
  queue,     \* server -> connections or datagrams that wait, or the text in its FIFO;
             \* client -> answers that wait, named by the client that had asked
  got        \* history: client -> who had asked for the answer it took

vars == <<kind, owner, pc, peer, queue, got>>

Process == Client \cup Server
Name == {"server", "client"}
Stream == kind \in {"tcp", "tcp_local"}
Inet == kind \in {"tcp", "udp"}

Over(p) == pc[p] \in {"done", "killed"}
Started(p) == pc[p] # "off"

Init ==
  /\ kind \in {"tcp", "tcp_local", "udp", "udp_local", "fifo"}
  /\ owner = [n \in Name |-> NoOne]
  /\ pc = [p \in Process |-> "off"]
  /\ peer = [p \in Process |-> NoOne]
  /\ queue = [p \in Process |-> <<>>]
  /\ got = [c \in Client |-> NoOne]

Goto(p, place) == pc' = [pc EXCEPT ![p] = place]

\* A port is free again when its socket is closed, a path stays.
Released(p) == [n \in Name |-> IF Inet /\ owner[n] = p THEN NoOne ELSE owner[n]]

Put(p, x) == queue' = [queue EXCEPT ![p] = Append(@, x)]
Take(p) == queue' = [queue EXCEPT ![p] = Tail(@)]

-----------------------------------------------------------------------------
(* Names.                                                                  *)

Own(p) == IF p \in Server THEN "server" ELSE "client"

StartServer(s) ==
  /\ pc[s] = "off"
  /\ Goto(s, IF Inet THEN "bind" ELSE "unlink")
  /\ UNCHANGED <<kind, owner, peer, queue, got>>

StartClient(c) ==
  /\ pc[c] = "off"
  /\ Goto(c, IF kind = "udp_local" THEN "unlink" ELSE "call")
  /\ UNCHANGED <<kind, owner, peer, queue, got>>

\* The path an earlier run may have left, or one that another run is using.
UnlinkOld(p) ==
  /\ pc[p] = "unlink"
  /\ owner' = [owner EXCEPT ![Own(p)] = NoOne]
  /\ Goto(p, "bind")
  /\ UNCHANGED <<kind, peer, queue, got>>

\* bind, mkfifo.  A client that has bound its path sends next; a socket for
\* connections has yet to listen.
Bind(p) ==
  /\ pc[p] = "bind" /\ owner[Own(p)] = NoOne
  /\ owner' = [owner EXCEPT ![Own(p)] = p]
  /\ Goto(p, CASE p \in Client -> "call"
               [] p \in Server /\ Stream -> "listen"
               [] p \in Server /\ kind = "fifo" -> "open_write"
               [] OTHER -> "wait")
  /\ UNCHANGED <<kind, peer, queue, got>>

\* The name is taken, or a connection of an earlier server lingers on its port.
BindFails(p) ==
  /\ pc[p] = "bind"
  /\ \/ owner[Own(p)] # NoOne
     \/ kind = "tcp" /\ \E s \in Server : peer[s] # NoOne
  /\ Goto(p, "done")
  /\ UNCHANGED <<kind, owner, peer, queue, got>>

\* The last thing a process does with a path.  The reader of a FIFO removes it,
\* the clients with connections have none.
\* Mutant: the program ends without it.
NoUnlink(p) == UNCHANGED owner
Unlink(p) ==
  owner' = [owner EXCEPT ![IF kind = "fifo" THEN "server" ELSE Own(p)] = NoOne]

UnlinkOwn(p) ==
  /\ pc[p] = "unlink_own"
  /\ Unlink(p)
  /\ Goto(p, "done")
  /\ UNCHANGED <<kind, peer, queue, got>>

-----------------------------------------------------------------------------
(* The server of connections.                                              *)

Listen(s) ==
  /\ pc[s] = "listen"
  /\ Goto(s, "wait")
  /\ UNCHANGED <<kind, owner, peer, queue, got>>

\* accept, and recvfrom, which is all that a server of datagrams does to
\* learn who asks and what.
HasFirst(s) == pc[s] = "wait" /\ kind # "fifo" /\ queue[s] # <<>>

TakeFirst(s) ==
  /\ HasFirst(s)
  /\ peer' = [peer EXCEPT ![s] = Head(queue[s])]
  /\ Take(s)
  /\ Goto(s, IF Stream THEN "read" ELSE "answer")
  /\ UNCHANGED <<kind, owner, got>>

\* read: the request, or the end of a client that was killed before it had
\* sent it.  The inet server answers all the same.
Asked(s) == pc[s] = "read" /\ pc[peer[s]] \in {"receive", "killed"}
AtEndOfFile == IF kind = "tcp" THEN "answer" ELSE "close"

ReadRequest(s) ==
  /\ Asked(s)
  /\ \/ Goto(s, "answer")
     \/ pc[peer[s]] = "killed" /\ Goto(s, AtEndOfFile)
  /\ UNCHANGED <<kind, owner, peer, queue, got>>

\* Sent into a connection of a client that is gone: over inet it is lost, on a
\* local socket the write ends the server with SIGPIPE.
AnswerStream(s) ==
  /\ pc[s] = "answer" /\ Stream
  /\ IF Over(peer[s])
       THEN /\ Goto(s, IF kind = "tcp" THEN "close" ELSE "killed")
            /\ UNCHANGED queue
       ELSE Put(peer[s], peer[s]) /\ Goto(s, "close")
  /\ UNCHANGED <<kind, owner, peer, got>>

-----------------------------------------------------------------------------
(* The server of datagrams.                                                *)

\* A socket that takes datagrams.
Open(p) == pc[p] \in {"call", "receive", "wait", "answer", "close"}

\* Mutant: the answer goes to whoever asks next.
ToNext(s) == IF queue[s] = <<>> THEN peer[s] ELSE Head(queue[s])
ToAsker(s) == peer[s]

AnswerUdp(s) ==
  /\ pc[s] = "answer" /\ kind = "udp"
  /\ IF Open(ToAsker(s)) THEN Put(ToAsker(s), peer[s]) ELSE UNCHANGED queue
  /\ Goto(s, "close")
  /\ UNCHANGED <<kind, owner, peer, got>>

\* The address of the client is a path: whoever has it now gets the answer.
AnswerUdpLocal(s) ==
  /\ pc[s] = "answer" /\ kind = "udp_local"
  /\ LET p == owner["client"]
     IN IF p # NoOne /\ Open(p) THEN Put(p, peer[s]) ELSE UNCHANGED queue
  /\ Goto(s, "close")
  /\ UNCHANGED <<kind, owner, peer, got>>

-----------------------------------------------------------------------------
(* The FIFO.  open waits for the other side, which lets all go on that wait *)
(* for it; it goes by the path, not by what mkfifo made.  peer is the one   *)
(* who made the FIFO that a process has open.                               *)

Readers(f) == {c \in Client : peer[c] = f /\ pc[c] \in {"open", "receive"}}
Writers(f) == {s \in Server : peer[s] = f /\ pc[s] \in {"wait", "answer", "close"}}

MeetAt(f, p, place, from, to) ==
  pc' = [q \in Process |-> IF q = p THEN place
                           ELSE IF peer[q] = f /\ pc[q] = from THEN to ELSE pc[q]]

\* What nobody has open any more holds nothing.
Opened(f) ==
  queue' = IF Readers(f) \cup Writers(f) = {} THEN [queue EXCEPT ![f] = <<>>] ELSE queue

OpenWrite(s) ==
  /\ pc[s] = "open_write"
  /\ LET f == owner["server"]
     IN IF f = NoOne THEN Goto(s, "done") /\ UNCHANGED <<peer, queue>>
        ELSE /\ MeetAt(f, s, IF Readers(f) = {} THEN "wait" ELSE "answer", "open", "receive")
             /\ peer' = [peer EXCEPT ![s] = f]
             /\ Opened(f)
  /\ UNCHANGED <<kind, owner, got>>

\* SIGPIPE when the readers were killed in between.
Write(s) ==
  /\ pc[s] = "answer" /\ kind = "fifo"
  /\ IF Readers(peer[s]) = {} THEN Goto(s, "killed") /\ UNCHANGED queue
                              ELSE Put(peer[s], s) /\ Goto(s, "close")
  /\ UNCHANGED <<kind, owner, peer, got>>

OpenRead(c) ==
  /\ pc[c] = "call" /\ kind = "fifo"
  /\ LET f == owner["server"]
     IN IF f = NoOne THEN Goto(c, "done") /\ UNCHANGED <<peer, queue>>
        ELSE /\ MeetAt(f, c, IF Writers(f) = {} THEN "open" ELSE "receive", "wait", "answer")
             /\ peer' = [peer EXCEPT ![c] = f]
             /\ Opened(f)
  /\ UNCHANGED <<kind, owner, got>>

-----------------------------------------------------------------------------
(* Its end: connections and datagrams that wait are lost.  The FIFO is left *)
(* to its reader.                                                          *)

Close(s) ==
  /\ pc[s] = "close"
  /\ owner' = Released(s)
  /\ Goto(s, IF kind \in {"tcp_local", "udp_local"} THEN "unlink_own" ELSE "done")
  /\ UNCHANGED <<kind, peer, queue, got>>

ServerStep(s) ==
  \/ UnlinkOld(s) \/ Bind(s) \/ BindFails(s) \/ Listen(s) \/ TakeFirst(s) \/ ReadRequest(s)
  \/ AnswerStream(s) \/ AnswerUdp(s) \/ AnswerUdpLocal(s) \/ OpenWrite(s) \/ Write(s)
  \/ Close(s) \/ UnlinkOwn(s)

-----------------------------------------------------------------------------
(* The client.                                                             *)

At(s, places) == s # NoOne /\ pc[s] \in places

\* connect needs a socket that listens, by the name it has now.
Connect(c) ==
  /\ pc[c] = "call" /\ Stream
  /\ LET s == owner["server"]
     IN IF At(s, {"wait", "read", "answer", "close"})
          THEN /\ peer' = [peer EXCEPT ![c] = s]
               /\ Put(s, c) /\ Goto(c, "send")
          ELSE Goto(c, "done") /\ UNCHANGED <<peer, queue>>
  /\ UNCHANGED <<kind, owner, got>>

Connected(c) == At(peer[c], {"wait", "read", "answer", "close"})

\* The request; into a connection that is closed it ends the client.
\* Mutant: the client waits for the answer first.
AnswerFirst(c) == pc[c] = "send" /\ (queue[c] # <<>> \/ ~Connected(c))
AtSend(c) == pc[c] = "send"

SendRequest(c) ==
  /\ AtSend(c)
  /\ Goto(c, IF Connected(c) THEN "receive" ELSE "done")
  /\ UNCHANGED <<kind, owner, peer, queue, got>>

\* The datagram: with nobody at its address it is lost over inet and nobody is
\* told; a local sendto fails, and the client unlinks its path and ends.
SendDatagram(c) ==
  /\ pc[c] = "call" /\ kind \in {"udp", "udp_local"}
  /\ LET s == owner["server"]
     IN IF At(s, {"wait", "answer", "close"})
          THEN Put(s, c) /\ Goto(c, "receive")
          ELSE Goto(c, IF kind = "udp" THEN "receive" ELSE "unlink_own") /\ UNCHANGED queue
  /\ UNCHANGED <<kind, owner, peer, got>>

\* Where an answer for the client is.
Box(c) == IF kind = "fifo" THEN peer[c] ELSE c
AfterAnswer == IF kind \in {"udp_local", "fifo"} THEN "unlink_own" ELSE "done"

\* The answer; got is its own number for a text that nobody had asked for.
HasAnswer(c) == pc[c] = "receive" /\ queue[Box(c)] # <<>>

ReceiveAnswer(c) ==
  /\ HasAnswer(c)
  /\ got' = [got EXCEPT ![c] = Head(queue[Box(c)])]
  /\ Take(Box(c))
  /\ Goto(c, AfterAnswer)
  /\ UNCHANGED <<kind, owner, peer>>

\* The end of the connection, or of all writers of the FIFO.
HasEnd(c) ==
  /\ pc[c] = "receive" /\ queue[Box(c)] = <<>>
  /\ \/ Stream /\ ~Connected(c)
     \/ kind = "fifo" /\ Writers(peer[c]) = {}

ReceiveEnd(c) ==
  /\ HasEnd(c)
  /\ Goto(c, AfterAnswer)
  /\ UNCHANGED <<kind, owner, peer, queue, got>>

ClientStep(c) ==
  \/ UnlinkOld(c) \/ Bind(c) \/ BindFails(c)
  \/ Connect(c) \/ SendRequest(c) \/ SendDatagram(c) \/ OpenRead(c)
  \/ ReceiveAnswer(c) \/ ReceiveEnd(c) \/ UnlinkOwn(c)

-----------------------------------------------------------------------------
\* A process is killed: its sockets are closed, its paths stay.
Kill(p) ==
  /\ Started(p) /\ ~Over(p)
  /\ owner' = Released(p)
  /\ Goto(p, "killed")
  /\ UNCHANGED <<kind, peer, queue, got>>

Next ==
  \/ \E s \in Server : StartServer(s) \/ ServerStep(s)
  \/ \E c \in Client : StartClient(c) \/ ClientStep(c)
  \/ \E p \in Process : Kill(p)

Spec == Init /\ [][Next]_vars

-----------------------------------------------------------------------------
(* Properties.                                                             *)

TypeOK ==
  /\ kind \in {"tcp", "tcp_local", "udp", "udp_local", "fifo"}
  /\ owner \in [Name -> Process \cup {NoOne}]
  /\ pc \in [Process -> {"off", "unlink", "bind", "listen", "open_write", "wait", "read", "answer", "close",
                         "unlink_own", "call", "send", "open", "receive", "done", "killed"}]
  /\ peer \in [Process -> Process \cup {NoOne}]
  /\ queue \in [Process -> Seq(Process)]
  /\ got \in [Client -> Process \cup {NoOne}]

\* Nobody is left to give the process what it waits for: a server has no client
\* to come, a client's datagram is with no server, the writer of its FIFO is
\* gone.  A client with a connection is never alone.
Alone(p) ==
  \/ /\ p \in Server /\ pc[p] = "wait"
     /\ IF kind = "fifo" THEN Readers(peer[p]) = {} ELSE queue[p] = <<>>
  \/ /\ p \in Client /\ pc[p] = "receive" /\ ~Stream /\ queue[Box(p)] = <<>>
     /\ \A s \in Server : At(s, {"wait", "answer"}) =>
          p # peer[s] /\ \A k \in 1..Len(queue[s]) : queue[s][k] # p
  \/ p \in Client /\ pc[p] = "open" /\ Writers(peer[p]) = {}

\* The guards of the programs' steps: no call blocks but accept, recv and read,
\* and the opening of a FIFO, which its other side brings to an end.
CanGoOn(p) ==
  \/ pc[p] \in {"unlink", "bind", "listen", "open_write", "call", "answer", "close", "unlink_own"}
  \/ HasFirst(p) \/ Asked(p) \/ AtSend(p) \/ HasAnswer(p) \/ HasEnd(p)

\* When no program can take a step any more, each of them has ended or waits
\* for a partner that is gone: no two wait for each other, and nobody is
\* forgotten in a queue.
StuckOnlyAlone ==
  (\A p \in Process : ~CanGoOn(p)) => \A p \in Process : Started(p) /\ ~Over(p) => Alone(p)

\* That is where every run comes to: each step brings a program nearer to its
\* end, and none back.
Reached(place) ==
  CASE place = "off" -> 0
    [] place = "unlink" -> 1
    [] place = "bind" -> 2
    [] place \in {"listen", "open_write", "call"} -> 3
    [] place \in {"wait", "send", "open"} -> 4
    [] place \in {"read", "receive"} -> 5
    [] place = "answer" -> 6
    [] place = "close" -> 7
    [] place = "unlink_own" -> 8
    [] place \in {"done", "killed"} -> 9
StepsLeadOn ==
  [][/\ \E p \in Process : pc'[p] # pc[p]
     /\ \A p \in Process : pc'[p] # pc[p] => Reached(pc[p]) < Reached(pc'[p])]_vars

\* Where everybody who was started has ended and nobody was killed, SIGPIPE
\* included, no path is left for the next run to meet.
NothingLeftBehind ==
  (\A p \in Process : pc[p] \in {"off", "done"}) => \A n \in Name : owner[n] = NoOne

\* An answer is taken by one client only, and by the one that had asked, except
\* where the address of a client is a path that another client can take over.
OwnAnswer ==
  \A c \in Client : got[c] # NoOne =>
    /\ \A d \in Client : got[d] = got[c] => d = c
    /\ kind \in {"tcp", "tcp_local", "udp"} => got[c] = c
=============================================================================
