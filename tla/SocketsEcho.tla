----------------------------- MODULE SocketsEcho -----------------------------
(***************************************************************************)
(* src/SocketsEcho: a UDP server that echoes each message with the number  *)
(* of messages it has had from that address.  It keeps the addresses in an *)
(* array; a client that leaves is shifted out of it, and a signal handler  *)
(* that may run between any two steps tells all of them that the server    *)
(* shuts down.                                                             *)
(*                                                                         *)
(* Client and server talk over the loopback interface: datagrams are not   *)
(* reordered, but one that finds the receiver's buffer full is lost.       *)
(***************************************************************************)
EXTENDS Integers, Sequences, FiniteSets

CONSTANTS Client,       \* addresses, one run of the client program each
          NoClient,
          MAX_HISTORY,
          InboxSize,    \* bound: datagrams the server's socket buffer holds
          MaxSends      \* bound: messages a client sends

ASSUME MaxHistoryAssumption == MAX_HISTORY \in Nat \ {0}
ASSUME InboxSizeAssumption == InboxSize \in Nat \ {0}
ASSUME MaxSendsAssumption == MaxSends \in Nat
ASSUME NoClientAssumption == NoClient \notin Client

VARIABLES
  pc,             \* the server: place
  msg,            \* the datagram being handled
  client_index, i, \* index of its sender, loop index of remove_client
  msg_number,
  history,        \* the array cl_history.client
  count,          \* cl_history.count
  inbox,          \* datagrams in the server's socket buffer
  client,         \* where each client is
  sends,          \* messages it has sent
  box,            \* datagrams in its socket buffer
  echoed          \* history: echoes sent to it since it was registered

server == <<pc, msg, client_index, i, msg_number, history, count>>
vars == <<pc, msg, client_index, i, msg_number, history, count, inbox, client, sends, box, echoed>>

Index == 0..MAX_HISTORY - 1
Bye == "CLIENT_SHUTDOWN"
Shutdown == "SERVER_SHUTDOWN"
Refused == "server history is full"
Datagram == [from : Client, text : {"text", Bye}]
NoDatagram == [from |-> NoClient, text |-> "text"]
NoEntry == [addr |-> NoClient, number |-> 0]

Init ==
  /\ pc = "recv" /\ msg = NoDatagram /\ client_index = 0 /\ i = 0 /\ msg_number = 0
  /\ history = [k \in Index |-> NoEntry] /\ count = 0
  /\ inbox = <<>>
  /\ client = [c \in Client |-> "prompt"]
  /\ sends = [c \in Client |-> 0]
  /\ box = [c \in Client |-> <<>>]
  /\ echoed = [c \in Client |-> 0]

\* A datagram to the server: kept if there is room and someone to read it.
ToServer(d) ==
  inbox' = IF pc # "down" /\ Len(inbox) < InboxSize THEN Append(inbox, d) ELSE inbox

\* A datagram to a client: nobody gets it if the client has left.
ToClient(c, text) ==
  box' = [box EXCEPT ![c] = IF client[c] = "off" THEN @ ELSE Append(@, text)]

-----------------------------------------------------------------------------
(* The client program.                                                     *)

\* A line is sent as it is, even one that reads CLIENT_SHUTDOWN.
SendLine(c) ==
  /\ client[c] = "prompt" /\ sends[c] < MaxSends
  /\ \E text \in {"text", Bye} : ToServer([from |-> c, text |-> text])
  /\ sends' = [sends EXCEPT ![c] = @ + 1]
  /\ client' = [client EXCEPT ![c] = "wait"]
  /\ UNCHANGED <<server, box, echoed>>

ReadEcho(c) ==
  /\ client[c] = "wait" /\ box[c] # <<>>
  /\ box' = [box EXCEPT ![c] = Tail(@)]
  /\ client' = [client EXCEPT ![c] = IF Head(box[c]) = Shutdown THEN "off" ELSE "prompt"]
  /\ UNCHANGED <<server, inbox, sends, echoed>>

\* "exit", or SIGINT or SIGTERM at any time: the server is told.
Leave(c) ==
  /\ client[c] \in {"prompt", "wait"}
  /\ ToServer([from |-> c, text |-> Bye])
  /\ client' = [client EXCEPT ![c] = "off"]
  /\ box' = [box EXCEPT ![c] = <<>>]
  /\ UNCHANGED <<server, sends, echoed>>

\* End of input, or a signal that cannot be handled: the server is not told.
Vanish(c) ==
  /\ client[c] \in {"prompt", "wait"}
  /\ client' = [client EXCEPT ![c] = "off"]
  /\ box' = [box EXCEPT ![c] = <<>>]
  /\ UNCHANGED <<server, inbox, sends, echoed>>

-----------------------------------------------------------------------------
(* The server's main loop.                                                 *)

\* find_client's result, -1 for none.  The first match, though there is only
\* one: see NoDuplicates.
FindClient(c) ==
  LET hits == {k \in 0..count - 1 : history[k].addr = c}
  IN IF hits = {} THEN -1 ELSE CHOOSE k \in hits : \A j \in hits : k <= j

Receive ==
  /\ pc = "recv" /\ inbox # <<>>
  /\ msg' = Head(inbox) /\ inbox' = Tail(inbox)
  /\ pc' = "handle"
  /\ UNCHANGED <<client_index, i, msg_number, history, count, client, sends, box, echoed>>

\* remove_client of an address that is not there.
ByeFromStranger ==
  /\ pc = "handle" /\ msg.text = Bye /\ FindClient(msg.from) = -1
  /\ pc' = "recv" /\ msg' = NoDatagram
  /\ UNCHANGED <<client_index, i, msg_number, history, count, inbox, client, sends, box, echoed>>

ByeFromClient ==
  /\ pc = "handle" /\ msg.text = Bye /\ FindClient(msg.from) # -1
  /\ i' = FindClient(msg.from)
  /\ echoed' = [echoed EXCEPT ![msg.from] = 0]
  /\ pc' = "shift"
  /\ UNCHANGED <<msg, client_index, msg_number, history, count, inbox, client, sends, box>>

\* One round of remove_client's loop.
\* Mutant: the copy runs the other way.
CopyDown(k) == history' = [history EXCEPT ![k + 1] = history[k]]
CopyUp(k) == history' = [history EXCEPT ![k] = history[k + 1]]

ShiftNext ==
  /\ pc = "shift" /\ i < count - 1
  /\ CopyUp(i)
  /\ i' = i + 1
  /\ UNCHANGED <<pc, msg, client_index, msg_number, count, inbox, client, sends, box, echoed>>

\* Mutant: the count stays.
SameCount == count
OneLess == count - 1

ShiftDone ==
  /\ pc = "shift" /\ i >= count - 1
  /\ count' = OneLess
  /\ pc' = "recv" /\ msg' = NoDatagram /\ i' = 0
  /\ UNCHANGED <<client_index, msg_number, history, inbox, client, sends, box, echoed>>

KnownClient ==
  /\ pc = "handle" /\ msg.text # Bye /\ FindClient(msg.from) # -1
  /\ client_index' = FindClient(msg.from)
  /\ pc' = "number"
  /\ UNCHANGED <<msg, i, msg_number, history, count, inbox, client, sends, box, echoed>>

HasRoom == count < MAX_HISTORY
\* Mutant: the number in the entry is left as it was.
OldNumber == history[count].number
FirstNumber == 1

\* add_client writes the entry before it counts it, so the handler never sees
\* one half written.
NewClient ==
  /\ pc = "handle" /\ msg.text # Bye /\ FindClient(msg.from) = -1 /\ HasRoom
  /\ history' = [history EXCEPT ![count] = [addr |-> msg.from, number |-> FirstNumber]]
  /\ count' = count + 1
  /\ client_index' = count
  /\ pc' = "number"
  /\ UNCHANGED <<msg, i, msg_number, inbox, client, sends, box, echoed>>

HistoryFull ==
  /\ pc = "handle" /\ msg.text # Bye /\ FindClient(msg.from) = -1 /\ ~HasRoom
  /\ ToClient(msg.from, Refused)
  /\ pc' = "recv" /\ msg' = NoDatagram
  /\ UNCHANGED <<client_index, i, msg_number, history, count, inbox, client, sends, echoed>>

TakeNumber ==
  /\ pc = "number"
  /\ msg_number' = history[client_index].number
  /\ history' = [history EXCEPT ![client_index].number = @ + 1]
  /\ pc' = "reply"
  /\ UNCHANGED <<msg, client_index, i, count, inbox, client, sends, box, echoed>>

Reply ==
  /\ pc = "reply"
  /\ ToClient(msg.from, "echo")
  /\ echoed' = [echoed EXCEPT ![msg.from] = @ + 1]
  /\ pc' = "recv" /\ msg' = NoDatagram /\ client_index' = 0 /\ msg_number' = 0
  /\ UNCHANGED <<i, history, count, inbox, client, sends>>

ServerStep ==
  \/ Receive \/ ByeFromStranger \/ ByeFromClient \/ ShiftNext \/ ShiftDone
  \/ KnownClient \/ NewClient \/ HistoryFull \/ TakeNumber \/ Reply

\* SIGINT or SIGTERM between any two steps: each entry of the array is sent
\* the notice, the socket is closed, the process ends.
Listed == {history[k].addr : k \in 0..count - 1}

SignalHandler ==
  /\ pc # "down"
  /\ box' = [c \in Client |-> IF c \in Listed /\ client[c] # "off"
                              THEN Append(box[c], Shutdown) ELSE box[c]]
  /\ pc' = "down" /\ inbox' = <<>>
  /\ UNCHANGED <<msg, client_index, i, msg_number, history, count, client, sends, echoed>>

\* Nobody sends any more.
Quiet ==
  /\ \A c \in Client : client[c] = "off"
  /\ pc = "down"
  /\ UNCHANGED vars

Next ==
  \/ ServerStep \/ SignalHandler
  \/ \E c \in Client : SendLine(c) \/ ReadEcho(c) \/ Leave(c) \/ Vanish(c)
  \/ Quiet

Spec == Init /\ [][Next]_vars

-----------------------------------------------------------------------------
(* Properties.                                                             *)

TypeOK ==
  /\ pc \in {"recv", "handle", "shift", "number", "reply", "down"}
  /\ msg \in Datagram \cup {NoDatagram}
  /\ client_index \in Index /\ i \in Index /\ msg_number \in Nat
  /\ history \in [Index -> [addr : Client \cup {NoClient}, number : Nat]]
  /\ count \in 0..MAX_HISTORY
  /\ inbox \in Seq(Datagram) /\ Len(inbox) <= InboxSize
  /\ client \in [Client -> {"prompt", "wait", "off"}]
  /\ sends \in [Client -> 0..MaxSends]
  /\ box \in [Client -> Seq({"echo", Refused, Shutdown})]
  /\ echoed \in [Client -> Nat]

\* An address has one entry, whatever comes and goes; only while remove_client
\* shifts are two neighbours equal.
NoDuplicates ==
  pc \notin {"shift", "down"} =>
    \A j, k \in 0..count - 1 : history[j].addr = history[k].addr => j = k

\* The handler finds every client the server has echoed to and not removed,
\* even when it interrupts the shifting.
NobodyUnlisted ==
  \A c \in Client : echoed[c] > 0 => c \in Listed

\* The echoes to a client are numbered 1, 2, 3, ... from the time that it was
\* registered, although it is shifted to another entry when others leave.
NumbersFollow == pc = "reply" => msg_number = echoed[msg.from] + 1
=============================================================================
