------------------------------ MODULE TaskFour ------------------------------
(***************************************************************************)
(* src/SocketsSS/TaskFour: a time server for TCP and UDP clients in one    *)
(* thread.  select says which of the two sockets has something to read;    *)
(* each is then handled with calls that would block if it had nothing, the *)
(* TCP one with a read that does block until its client has written.       *)
(*                                                                         *)
(* A client that has ended may be run again.                               *)
(***************************************************************************)
EXTENDS Integers, Sequences

CONSTANTS TcpClient, UdpClient, NoClient,
          InboxSize     \* bound: datagrams the UDP socket's buffer holds

ASSUME InboxSizeAssumption == InboxSize \in Nat \ {0}
ASSUME ClientAssumption == NoClient \notin TcpClient \cup UdpClient /\ TcpClient \cap UdpClient = {}

VARIABLES
  pc, ready,        \* the server: place, the fd_set that select has filled
  cur,              \* the client being handled
  open,             \* connections accepted and not closed
  backlog, inbox,   \* what waits at the TCP and at the UDP socket
  tcp,              \* where each TCP client is
  wire,             \* what it has written and the server has not read
  udp,              \* where each UDP client is
  request, answer   \* what a client has asked last, and what it was sent

server == <<pc, ready, cur, open>>
vars == <<pc, ready, cur, open, backlog, inbox, tcp, wire, udp, request, answer>>

Request == {"TIME", "other"}
Answer == {"time", "error"}
AnyClient == TcpClient \cup UdpClient

Init ==
  /\ pc = "select" /\ ready = {} /\ cur = NoClient /\ open = {}
  /\ backlog = <<>> /\ inbox = <<>>
  /\ tcp = [c \in TcpClient |-> "idle"]
  /\ wire = [c \in TcpClient |-> "none"]
  /\ udp = [c \in UdpClient |-> "idle"]
  /\ request = [c \in AnyClient |-> "none"]
  /\ answer = [c \in AnyClient |-> "none"]

-----------------------------------------------------------------------------
(* The clients.                                                            *)

\* A client starts once the server has done with the connection, or the
\* datagram, of its run before.
Forgotten(c) == c \notin open /\ c # cur /\ \A k \in DOMAIN backlog : backlog[k] # c

Connect(c) ==
  /\ tcp[c] = "idle" /\ Forgotten(c)
  /\ tcp' = [tcp EXCEPT ![c] = "connected"]
  /\ backlog' = Append(backlog, c)
  /\ UNCHANGED <<server, inbox, wire, udp, request, answer>>

Write(c) ==
  /\ tcp[c] = "connected"
  /\ \E q \in Request : /\ wire' = [wire EXCEPT ![c] = q]
                        /\ request' = [request EXCEPT ![c] = q]
  /\ tcp' = [tcp EXCEPT ![c] = "asked"]
  /\ UNCHANGED <<server, backlog, inbox, udp, answer>>

\* The client ends, with an answer, at the end of the connection, or because
\* it is killed; what it has written is still there for the server.
TcpEnd(c) ==
  /\ tcp[c] \in {"connected", "asked"}
  /\ tcp' = [tcp EXCEPT ![c] = "ended"]
  /\ UNCHANGED <<server, backlog, inbox, wire, udp, request, answer>>

TcpAgain(c) ==
  /\ tcp[c] = "ended" /\ Forgotten(c)
  /\ tcp' = [tcp EXCEPT ![c] = "idle"]
  /\ wire' = [wire EXCEPT ![c] = "none"]
  /\ request' = [request EXCEPT ![c] = "none"]
  /\ answer' = [answer EXCEPT ![c] = "none"]
  /\ UNCHANGED <<server, backlog, inbox, udp>>

HasRoom == Len(inbox) < InboxSize

\* A datagram that finds the buffer full is lost.
SendTo(c) ==
  /\ udp[c] = "idle"
  /\ \E q \in Request :
       /\ request' = [request EXCEPT ![c] = q]
       /\ inbox' = IF HasRoom THEN Append(inbox, [from |-> c, text |-> q]) ELSE inbox
  /\ udp' = [udp EXCEPT ![c] = "asked"]
  /\ UNCHANGED <<server, backlog, tcp, wire, answer>>

UdpEnd(c) ==
  /\ udp[c] = "asked"
  /\ udp' = [udp EXCEPT ![c] = "ended"]
  /\ UNCHANGED <<server, backlog, inbox, tcp, wire, request, answer>>

UdpAgain(c) ==
  /\ udp[c] = "ended" /\ c # cur /\ \A k \in DOMAIN inbox : inbox[k].from # c
  /\ udp' = [udp EXCEPT ![c] = "idle"]
  /\ request' = [request EXCEPT ![c] = "none"]
  /\ answer' = [answer EXCEPT ![c] = "none"]
  /\ UNCHANGED <<server, backlog, inbox, tcp, wire>>

-----------------------------------------------------------------------------
(* The server's loop.                                                      *)

\* Mutant: select's answer is not looked at.
Whatever == {"tcp", "udp"}
Readable == {x \in {"tcp", "udp"} : \/ x = "tcp" /\ backlog # <<>>
                                    \/ x = "udp" /\ inbox # <<>>}

Select ==
  /\ pc = "select" /\ (backlog # <<>> \/ inbox # <<>>)
  /\ ready' = Readable
  /\ pc' = "tcp"
  /\ UNCHANGED <<cur, open, backlog, inbox, tcp, wire, udp, request, answer>>

TcpNotSet ==
  /\ pc = "tcp" /\ "tcp" \notin ready
  /\ pc' = "udp"
  /\ UNCHANGED <<ready, cur, open, backlog, inbox, tcp, wire, udp, request, answer>>

Accept ==
  /\ pc = "tcp" /\ "tcp" \in ready /\ backlog # <<>>
  /\ cur' = Head(backlog) /\ backlog' = Tail(backlog)
  /\ open' = open \cup {cur'}
  /\ pc' = "read"
  /\ UNCHANGED <<ready, inbox, tcp, wire, udp, request, answer>>

\* Where the loop goes on after the TCP client.
\* Mutant: the UDP socket is passed over after a TCP client.
BackToSelect == "select"
AfterTcp == "udp"

\* read returns 0, or an error: the client has ended without a request.
ReadNothing ==
  /\ pc = "read" /\ wire[cur] = "none" /\ tcp[cur] = "ended"
  /\ open' = open \ {cur}
  /\ cur' = NoClient
  /\ pc' = AfterTcp
  /\ UNCHANGED <<ready, backlog, inbox, tcp, wire, udp, request, answer>>

ReadRequest ==
  /\ pc = "read" /\ wire[cur] # "none"
  /\ pc' = "answer"
  /\ UNCHANGED <<ready, cur, open, backlog, inbox, tcp, wire, udp, request, answer>>

AnswerTo(q) == IF q = "TIME" THEN "time" ELSE "error"

\* The answer is written and the connection closed.  Nobody gets the answer
\* when the client has ended.
AnswerTcp ==
  /\ pc = "answer"
  /\ answer' = IF tcp[cur] = "asked"
               THEN [answer EXCEPT ![cur] = AnswerTo(wire[cur])] ELSE answer
  /\ wire' = [wire EXCEPT ![cur] = "none"]
  /\ open' = open \ {cur}
  /\ cur' = NoClient
  /\ pc' = AfterTcp
  /\ UNCHANGED <<ready, backlog, inbox, tcp, udp, request>>

UdpNotSet ==
  /\ pc = "udp" /\ "udp" \notin ready
  /\ pc' = "select" /\ ready' = {}
  /\ UNCHANGED <<cur, open, backlog, inbox, tcp, wire, udp, request, answer>>

\* handle_udp_client: the datagram is read and answered.  Nobody gets the
\* answer when the client has ended.
AnswerUdp ==
  /\ pc = "udp" /\ "udp" \in ready /\ inbox # <<>>
  /\ inbox' = Tail(inbox)
  /\ LET d == Head(inbox)
     IN answer' = IF udp[d.from] = "asked"
                  THEN [answer EXCEPT ![d.from] = AnswerTo(d.text)] ELSE answer
  /\ pc' = "select" /\ ready' = {}
  /\ UNCHANGED <<cur, open, backlog, tcp, wire, udp, request>>

ServerStep ==
  \/ Select \/ TcpNotSet \/ Accept \/ ReadNothing \/ ReadRequest \/ AnswerTcp
  \/ UdpNotSet \/ AnswerUdp

Next ==
  \/ ServerStep
  \/ \E c \in TcpClient : Connect(c) \/ Write(c) \/ TcpEnd(c) \/ TcpAgain(c)
  \/ \E c \in UdpClient : SendTo(c) \/ UdpEnd(c) \/ UdpAgain(c)

Spec == Init /\ [][Next]_vars

\* The server is scheduled, and a TCP client that has connected writes: the
\* server would wait for it for ever.
FairSpec == Spec /\ WF_vars(ServerStep) /\ \A c \in TcpClient : WF_vars(Write(c))

-----------------------------------------------------------------------------
(* Properties.                                                             *)

TypeOK ==
  /\ pc \in {"select", "tcp", "read", "answer", "udp"}
  /\ ready \subseteq {"tcp", "udp"}
  /\ cur \in TcpClient \cup {NoClient}
  /\ open \subseteq TcpClient
  /\ backlog \in Seq(TcpClient)
  /\ inbox \in Seq([from : UdpClient, text : Request]) /\ Len(inbox) <= InboxSize
  /\ tcp \in [TcpClient -> {"idle", "connected", "asked", "ended"}]
  /\ wire \in [TcpClient -> Request \cup {"none"}]
  /\ udp \in [UdpClient -> {"idle", "asked", "ended"}]
  /\ request \in [AnyClient -> Request \cup {"none"}]
  /\ answer \in [AnyClient -> Answer \cup {"none"}]

\* The guards of the server's steps.
ServerCan ==
  \/ pc = "select" /\ (backlog # <<>> \/ inbox # <<>>)
  \/ pc = "tcp" /\ ("tcp" \in ready => backlog # <<>>)
  \/ pc = "read" /\ (wire[cur] # "none" \/ tcp[cur] = "ended")
  \/ pc = "answer"
  \/ pc = "udp" /\ ("udp" \in ready => inbox # <<>>)

\* The server blocks in the read of a client that is connected and has not
\* written, or in select when nobody waits for it.  What select has said still
\* holds when it is used, although a TCP client is served in between: neither
\* accept nor recvfrom is called with nothing there.
BlocksOnlyToRead ==
  ~ServerCan =>
    \/ pc = "read" /\ tcp[cur] = "connected"
    \/ /\ pc = "select" /\ backlog = <<>> /\ inbox = <<>>
       /\ \A c \in TcpClient : tcp[c] # "connected" /\ (tcp[c] = "asked" => answer[c] # "none")

\* A TCP client that has connected and a datagram that has arrived are answered,
\* unless the client ends first, although other TCP clients come back again and
\* again.
Answered ==
  /\ \A c \in TcpClient : tcp[c] = "connected" ~> (answer[c] # "none" \/ tcp[c] = "ended")
  /\ \A c \in UdpClient :
       (\E k \in DOMAIN inbox : inbox[k].from = c) ~> (answer[c] # "none" \/ udp[c] = "ended")
=============================================================================
