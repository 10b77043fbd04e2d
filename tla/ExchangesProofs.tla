--------------------------- MODULE ExchangesProofs ---------------------------
(***************************************************************************)
(* What holds of the programs that exchange texts for any sets of clients  *)
(* and servers, any sizes of buffers and any number of runs.  Each family  *)
(* has its inductive invariant; the theorems are at the end.               *)
(***************************************************************************)
EXTENDS Exchanges, SequenceTheorems, FiniteSetTheorems, TLAPS

-----------------------------------------------------------------------------
(* Sequences.                                                              *)

LEMMA Appended ==
  ASSUME NEW S, NEW q \in Seq(S), NEW x \in S
  PROVE  /\ Append(q, x) \in Seq(S) /\ Append(q, x) # <<>>
         /\ Len(q) \in Nat /\ Len(Append(q, x)) = Len(q) + 1
         /\ \A k \in 1..Len(q) : Append(q, x)[k] = q[k]
         /\ Append(q, x)[Len(q) + 1] = x
<1>1. Len(<<>>) = 0
  OBVIOUS
<1> QED BY <1>1

LEMMA Taken ==
  ASSUME NEW S, NEW q \in Seq(S), q # <<>>
  PROVE  /\ Head(q) \in S /\ Tail(q) \in Seq(S) /\ Head(q) = q[1]
         /\ Len(q) \in Nat \ {0} /\ Len(Tail(q)) = Len(q) - 1
         /\ \A k \in 1..Len(q) - 1 : Tail(q)[k] = q[k + 1]
OBVIOUS

\* A sequence without its k-th element.
Without(q, k) == SubSeq(q, 1, k - 1) \o SubSeq(q, k + 1, Len(q))

LEMMA Deleted ==
  ASSUME NEW S, NEW q \in Seq(S), NEW k \in 1..Len(q)
  PROVE  /\ Without(q, k) \in Seq(S) /\ Len(Without(q, k)) = Len(q) - 1
         /\ \A j \in 1..Len(q) - 1 : Without(q, k)[j] = q[IF j < k THEN j ELSE j + 1]
<1> DEFINE left == SubSeq(q, 1, k - 1)
           right == SubSeq(q, k + 1, Len(q))
<1>1. Len(q) \in Nat /\ k \in Nat /\ k >= 1 /\ k <= Len(q)
  OBVIOUS
<1>2. left \in Seq(S) /\ Len(left) = k - 1 /\ \A j \in 1..k - 1 : left[j] = q[j]
  BY <1>1
<1>3. /\ right \in Seq(S) /\ Len(right) = Len(q) - k
      /\ \A j \in 1..Len(q) - k : right[j] = q[k + j]
  BY <1>1
<1> HIDE DEF left, right
<1>4. PICK n \in Nat : n = Len(q)
  BY <1>1
<1>5. /\ k \in 1..n /\ Len(left) = k - 1 /\ \A j \in 1..k - 1 : left[j] = q[j]
      /\ Len(right) = n - k /\ \A j \in 1..n - k : right[j] = q[k + j]
  BY <1>2, <1>3, <1>4
<1>6. /\ left \o right \in Seq(S) /\ Len(left \o right) = Len(left) + Len(right)
      /\ \A j \in 1..Len(left) + Len(right) :
           (left \o right)[j] = IF j <= Len(left) THEN left[j] ELSE right[j - Len(left)]
  BY <1>2, <1>3, ConcatProperties
<1>7. Len(left) + Len(right) = n - 1 /\ Len(left) = k - 1
  BY <1>5
<1>8. ASSUME NEW j \in 1..n - 1 PROVE (left \o right)[j] = q[IF j < k THEN j ELSE j + 1]
  <2>1. (left \o right)[j] = IF j <= k - 1 THEN left[j] ELSE right[j - (k - 1)]
    BY <1>6, <1>7
  <2>2. CASE j < k
    <3>1. j \in 1..k - 1 /\ j <= k - 1
      BY <2>2
    <3> QED BY <1>5, <2>1, <2>2, <3>1
  <2>3. CASE ~(j < k)
    <3>1. j - (k - 1) \in 1..n - k /\ k + (j - (k - 1)) = j + 1 /\ ~(j <= k - 1)
      BY <1>5, <2>3
    <3> QED BY <1>5, <2>1, <2>3, <3>1
  <2> QED BY <2>2, <2>3
<1> QED BY <1>4, <1>6, <1>7, <1>8 DEF left, right, Without

-----------------------------------------------------------------------------
(* SocketsEcho: the numbering echo server.                                 *)

\* The entries that stay: while remove_client shifts, the one at i is either
\* the client that leaves or was copied to the place before it.
Kept == {k \in 0..count - 1 : pc = "shift" => k # i}

\* An address has one of these entries, a client that was echoed to has one,
\* and the number in it is that of the next message.
EntryInv ==
  /\ \A k \in 0..count - 1 : history[k].addr \in Client
  /\ \A c \in Client : echoed[c] > 0 => \E k \in Kept : history[k].addr = c
  /\ pc # "down" =>
       /\ \A j, k \in Kept : history[j].addr = history[k].addr => j = k
       /\ \A k \in Kept : history[k].number =
            echoed[history[k].addr] + IF pc = "reply" /\ k = client_index THEN 2 ELSE 1

\* The datagram at hand has a sender, and client_index is its entry.
HandInv ==
  /\ pc \in {"handle", "shift", "number", "reply"} => msg \in Datagram
  /\ pc = "shift" => i < count
  /\ pc \in {"number", "reply"} => client_index < count /\ history[client_index].addr = msg.from
  /\ pc = "reply" => msg_number = echoed[msg.from] + 1

EchoInv == TypeOK /\ EntryInv /\ HandInv

-----------------------------------------------------------------------------
(* Facts about the array, datagrams and queues.                            *)

LEMMA Indices ==
  /\ MAX_HISTORY \in Nat /\ MAX_HISTORY > 0 /\ 0 \in Index
  /\ \A k \in Index : k \in Nat /\ k < MAX_HISTORY
  /\ \A k \in Nat : k < MAX_HISTORY => k \in Index
BY MaxHistoryAssumption DEF Index

LEMMA Counts ==
  ASSUME TypeOK
  PROVE  /\ count \in Nat /\ count <= MAX_HISTORY /\ client_index \in Nat /\ i \in Nat
         /\ \A k \in 0..count - 1 : k \in Index
BY Indices DEF TypeOK

\* With one entry for an address, the first match is the only one.
LEMMA FindResult ==
  ASSUME EchoInv, pc = "handle", NEW c
  PROVE  \/ /\ FindClient(c) = -1
            /\ \A k \in 0..count - 1 : history[k].addr # c
         \/ /\ FindClient(c) # -1 /\ FindClient(c) \in 0..count - 1
            /\ history[FindClient(c)].addr = c
<1> DEFINE hits == {k \in 0..count - 1 : history[k].addr = c}
<1>1. CASE hits = {}
  BY <1>1 DEF FindClient
<1>2. CASE hits # {}
  <2>1. PICK k \in 0..count - 1 : history[k].addr = c
    BY <1>2
  <2>2. \A j \in hits : j = k
    BY <2>1 DEF EchoInv, EntryInv, Kept
  <2>3. k \in Int /\ k <= k /\ k # -1
    BY Counts DEF EchoInv
  <2>4. FindClient(c) = CHOOSE h \in hits : \A j \in hits : h <= j
    BY <1>2 DEF FindClient
  <2>5. \A h : h \in hits /\ (\A j \in hits : h <= j) <=> h = k
    BY <2>1, <2>2, <2>3
  <2>6. FindClient(c) = k
    BY <2>4, <2>5
  <2> QED BY <2>1, <2>3, <2>6
<1> QED BY <1>1, <1>2

LEMMA MessageBox ==
  ASSUME TypeOK, NEW c, NEW text \in {"echo", Refused, Shutdown}, ToClient(c, text)
  PROVE  box' \in [Client -> Seq({"echo", Refused, Shutdown})]
<1> DEFINE S == {"echo", Refused, Shutdown}
<1>1. box \in [Client -> Seq(S)] /\ text \in S
  BY DEF TypeOK
<1> HIDE DEF S
<1>2. \A d \in Client : box[d] \in Seq(S) /\ Append(box[d], text) \in Seq(S)
  BY <1>1
<1>3. box' \in [Client -> Seq(S)]
  BY <1>1, <1>2 DEF ToClient
<1> QED BY <1>3 DEF S

LEMMA MessageInbox ==
  ASSUME TypeOK, NEW d \in Datagram, ToServer(d)
  PROVE  inbox' \in Seq(Datagram) /\ Len(inbox') <= InboxSize
<1>1. inbox \in Seq(Datagram) /\ Len(inbox) \in Nat /\ Len(inbox) <= InboxSize
  BY DEF TypeOK
<1>2. Append(inbox, d) \in Seq(Datagram) /\ Len(Append(inbox, d)) = Len(inbox) + 1
  BY <1>1
<1> QED BY <1>1, <1>2, InboxSizeAssumption DEF ToServer

LEMMA EchoInitial == Init => EchoInv
<1> SUFFICES ASSUME Init PROVE EchoInv
  OBVIOUS
<1> USE DEF Init
<1>1. TypeOK
  BY Indices, InboxSizeAssumption, MaxSendsAssumption DEF TypeOK, NoEntry, NoDatagram
<1>2. EntryInv /\ HandInv
  BY DEF EntryInv, HandInv, Kept
<1> QED BY <1>1, <1>2 DEF EchoInv

-----------------------------------------------------------------------------
(* The clients.                                                            *)

\* Whatever clients do, the server's own state stays.
LEMMA ServerKept ==
  ASSUME EchoInv, UNCHANGED <<server, echoed>>
  PROVE  EntryInv' /\ HandInv'
BY DEF EchoInv, server, EntryInv, HandInv, Kept

LEMMA EchoClients ==
  ASSUME EchoInv, NEW c \in Client, SendLine(c) \/ ReadEcho(c) \/ Leave(c) \/ Vanish(c)
  PROVE  EchoInv'
<1> USE DEF EchoInv
<1>1. UNCHANGED <<server, echoed>> /\ client' \in [Client -> {"prompt", "wait", "off"}]
  BY DEF SendLine, ReadEcho, Leave, Vanish, TypeOK
<1>2. inbox' \in Seq(Datagram) /\ Len(inbox') <= InboxSize
  <2>1. UNCHANGED inbox \/ \E text \in {"text", Bye} : ToServer([from |-> c, text |-> text])
    BY DEF SendLine, ReadEcho, Leave, Vanish
  <2>2. \A text \in {"text", Bye} : [from |-> c, text |-> text] \in Datagram
    BY DEF Datagram
  <2> QED BY <2>1, <2>2, MessageInbox DEF TypeOK
<1>3. sends' \in [Client -> 0..MaxSends]
  <2>1. CASE SendLine(c)
    <3>1. sends[c] + 1 \in 0..MaxSends
      BY <2>1, MaxSendsAssumption DEF SendLine, TypeOK
    <3> QED BY <2>1, <3>1 DEF SendLine, TypeOK
  <2>2. CASE UNCHANGED sends
    BY <2>2 DEF TypeOK
  <2> QED BY <2>1, <2>2 DEF SendLine, ReadEcho, Leave, Vanish
<1>4. box' \in [Client -> Seq({"echo", Refused, Shutdown})]
  <2>1. CASE UNCHANGED box
    BY <2>1 DEF TypeOK
  <2>2. CASE box[c] # <<>> /\ box' = [box EXCEPT ![c] = Tail(@)]
    <3>1. Tail(box[c]) \in Seq({"echo", Refused, Shutdown})
      BY <2>2 DEF TypeOK
    <3> QED BY <2>2, <3>1 DEF TypeOK
  <2>3. CASE box' = [box EXCEPT ![c] = <<>>]
    BY <2>3 DEF TypeOK
  <2> QED BY <2>1, <2>2, <2>3 DEF SendLine, ReadEcho, Leave, Vanish
<1>5. TypeOK'
  BY <1>1, <1>2, <1>3, <1>4 DEF TypeOK, server
<1> QED BY <1>1, <1>5, ServerKept

-----------------------------------------------------------------------------
(* The server.                                                             *)

LEMMA ReceiveStep ==
  ASSUME EchoInv, Receive
  PROVE  EchoInv'
<1> USE DEF EchoInv
<1>1. /\ pc = "recv" /\ pc' = "handle" /\ inbox # <<>>
      /\ msg' = Head(inbox) /\ inbox' = Tail(inbox)
      /\ UNCHANGED <<client_index, i, msg_number, history, count, client, sends, box, echoed>>
  BY DEF Receive
<1>2. inbox \in Seq(Datagram) /\ Len(inbox) \in Nat /\ Len(inbox) <= InboxSize
  BY DEF TypeOK
<1>3. msg' \in Datagram /\ inbox' \in Seq(Datagram) /\ Len(inbox') <= InboxSize
  BY <1>1, <1>2, InboxSizeAssumption
<1>4. TypeOK'
  BY <1>1, <1>3 DEF TypeOK
<1>5. EntryInv' /\ HandInv'
  BY <1>1, <1>3 DEF EntryInv, HandInv, Kept
<1> QED BY <1>4, <1>5

LEMMA ByeFromStrangerStep ==
  ASSUME EchoInv, ByeFromStranger
  PROVE  EchoInv'
BY DEF ByeFromStranger, EchoInv, TypeOK, EntryInv, HandInv, Kept

\* The entry of the client that leaves is not among those that stay.
LEMMA ByeFromClientStep ==
  ASSUME EchoInv, ByeFromClient
  PROVE  EchoInv'
<1> USE DEF EchoInv
<1> DEFINE c == msg.from
<1>1. /\ pc = "handle" /\ pc' = "shift" /\ i' = FindClient(c) /\ FindClient(c) # -1
      /\ echoed' = [echoed EXCEPT ![c] = 0]
      /\ UNCHANGED <<msg, client_index, msg_number, history, count, inbox, client, sends, box>>
  BY DEF ByeFromClient
<1>2. i' \in 0..count - 1 /\ history[i'].addr = c
  BY <1>1, FindResult
<1>3. msg \in Datagram /\ c \in Client
  BY <1>1 DEF HandInv, Datagram
<1>4. TypeOK'
  BY <1>1, <1>2, Counts DEF TypeOK
<1>5. Kept = 0..count - 1 /\ Kept' = Kept \ {i'}
  BY <1>1 DEF Kept
<1>6. \A k \in Kept' : history[k].addr # c
  BY <1>1, <1>2, <1>5 DEF EntryInv
<1>7. echoed'[c] = 0 /\ \A d \in Client : d # c => echoed'[d] = echoed[d]
  BY <1>1, <1>3 DEF TypeOK
<1>8. EntryInv'
  <2>1. \A d \in Client : echoed'[d] > 0 => \E k \in Kept' : history'[k].addr = d
    BY <1>1, <1>2, <1>5, <1>7 DEF EntryInv
  <2>2. \A k \in Kept' : history'[k].number =
          echoed'[history'[k].addr] + IF pc' = "reply" /\ k = client_index' THEN 2 ELSE 1
    BY <1>1, <1>5, <1>6, <1>7 DEF EntryInv
  <2> QED BY <1>1, <1>5, <2>1, <2>2 DEF EntryInv
<1>9. HandInv'
  BY <1>1, <1>2, <1>3, Counts DEF HandInv
<1> QED BY <1>4, <1>8, <1>9

\* A round copies the entry after the one at i to its place and goes on there:
\* the entries that stay are the same ones.
LEMMA ShiftNextStep ==
  ASSUME EchoInv, ShiftNext
  PROVE  EchoInv'
<1> USE DEF EchoInv
<1>1. /\ pc = "shift" /\ i < count - 1 /\ history' = [history EXCEPT ![i] = history[i + 1]]
      /\ i' = i + 1
      /\ UNCHANGED <<pc, msg, client_index, msg_number, count, inbox, client, sends, box, echoed>>
  BY DEF ShiftNext, CopyUp
<1>2. i \in Index /\ i + 1 \in Index /\ i \in 0..count - 1 /\ i + 1 \in 0..count - 1 /\ i # i + 1
  BY <1>1, Counts, Indices
<1>3. history'[i] = history[i + 1] /\ \A k \in Index : k # i => history'[k] = history[k]
  BY <1>1, <1>2 DEF TypeOK
<1>4. TypeOK'
  <2>1. history[i + 1] \in [addr : Client \cup {NoClient}, number : Nat]
    BY <1>2 DEF TypeOK
  <2> QED BY <1>1, <1>2, <2>1 DEF TypeOK
<1>5. Kept = (0..count - 1) \ {i} /\ Kept' = (0..count - 1) \ {i + 1}
  BY <1>1 DEF Kept
<1> DEFINE from(k) == IF k = i THEN i + 1 ELSE k
<1>6. \A k \in Kept' : from(k) \in Kept /\ history'[k] = history[from(k)]
  BY <1>2, <1>3, <1>5, Counts
<1>7. \A j, k \in Kept' : from(j) = from(k) => j = k
  BY <1>2, <1>5
<1>8. \A k \in Kept : \E j \in Kept' : from(j) = k
  <2> TAKE k \in Kept
  <2>1. CASE k = i + 1
    BY <2>1, <1>2, <1>5
  <2>2. CASE k # i + 1
    BY <2>2, <1>2, <1>5
  <2> QED BY <2>1, <2>2
<1> HIDE DEF from
<1>9. EntryInv'
  <2>1. \A k \in 0..count - 1 : history'[k].addr \in Client
    BY <1>2, <1>3, Counts DEF EntryInv
  <2>2. \A c \in Client : echoed[c] > 0 => \E k \in Kept' : history'[k].addr = c
    BY <1>6, <1>8 DEF EntryInv
  <2>3. \A j, k \in Kept' : history'[j].addr = history'[k].addr => j = k
    BY <1>1, <1>6, <1>7 DEF EntryInv
  <2>4. \A k \in Kept' : history'[k].number = echoed[history'[k].addr] + 1
    BY <1>1, <1>6 DEF EntryInv
  <2> QED BY <1>1, <2>1, <2>2, <2>3, <2>4 DEF EntryInv
<1>10. HandInv'
  BY <1>1, Counts DEF HandInv
<1> QED BY <1>4, <1>9, <1>10

\* The last entry is the one that does not stay.
LEMMA ShiftDoneStep ==
  ASSUME EchoInv, ShiftDone
  PROVE  EchoInv'
<1> USE DEF EchoInv
<1>1. /\ pc = "shift" /\ i >= count - 1 /\ count' = count - 1 /\ pc' = "recv"
      /\ msg' = NoDatagram /\ i' = 0
      /\ UNCHANGED <<client_index, msg_number, history, inbox, client, sends, box, echoed>>
  BY DEF ShiftDone, OneLess
<1>2. i = count - 1 /\ count' \in 0..MAX_HISTORY
  BY <1>1, Counts, Indices DEF HandInv
<1>3. TypeOK'
  BY <1>1, <1>2, Indices DEF TypeOK
<1>4. Kept' = 0..count' - 1 /\ Kept' = Kept
  BY <1>1, <1>2, Counts DEF Kept
<1>5. EntryInv' /\ HandInv'
  BY <1>1, <1>2, <1>4, Counts DEF EntryInv, HandInv
<1> QED BY <1>3, <1>5

LEMMA KnownClientStep ==
  ASSUME EchoInv, KnownClient
  PROVE  EchoInv'
<1> USE DEF EchoInv
<1>1. /\ pc = "handle" /\ pc' = "number" /\ client_index' = FindClient(msg.from)
      /\ FindClient(msg.from) # -1
      /\ UNCHANGED <<msg, i, msg_number, history, count, inbox, client, sends, box, echoed>>
  BY DEF KnownClient
<1>2. client_index' \in 0..count - 1 /\ history[client_index'].addr = msg.from
  BY <1>1, FindResult
<1>3. TypeOK'
  BY <1>1, <1>2, Counts DEF TypeOK
<1>4. EntryInv' /\ HandInv'
  BY <1>1, <1>2, Counts DEF EntryInv, HandInv, Kept
<1> QED BY <1>3, <1>4

\* A client that is not listed has no echo yet, so its first number is 1.
LEMMA NewClientStep ==
  ASSUME EchoInv, NewClient
  PROVE  EchoInv'
<1> USE DEF EchoInv
<1> DEFINE c == msg.from
<1>1. /\ pc = "handle" /\ pc' = "number" /\ FindClient(c) = -1 /\ count < MAX_HISTORY
      /\ history' = [history EXCEPT ![count] = [addr |-> c, number |-> 1]]
      /\ count' = count + 1 /\ client_index' = count
      /\ UNCHANGED <<msg, i, msg_number, inbox, client, sends, box, echoed>>
  BY DEF NewClient, HasRoom, FirstNumber
<1>2. count \in Index /\ count' \in 0..MAX_HISTORY
  BY <1>1, Counts, Indices
<1>3. msg \in Datagram /\ c \in Client
  BY <1>1 DEF HandInv, Datagram
<1>4. \A k \in 0..count - 1 : history[k].addr # c
  BY <1>1, FindResult
<1>5. TypeOK'
  BY <1>1, <1>2, <1>3 DEF TypeOK
<1>6. /\ history'[count] = [addr |-> c, number |-> 1]
      /\ \A k \in 0..count - 1 : history'[k] = history[k] /\ k # count
  BY <1>1, <1>2, Counts DEF TypeOK
<1>7. Kept = 0..count - 1 /\ Kept' = 0..count' - 1 /\ Kept' = Kept \cup {count}
  BY <1>1, Counts DEF Kept
<1>8. echoed[c] = 0
  <2>1. ~(echoed[c] > 0)
    BY <1>3, <1>4, <1>7 DEF EntryInv
  <2>2. echoed[c] \in Nat
    BY <1>3 DEF TypeOK
  <2> QED BY <2>1, <2>2
<1>9. EntryInv'
  <2>1. \A k \in 0..count' - 1 : history'[k].addr \in Client
    BY <1>3, <1>6, <1>7 DEF EntryInv
  <2>2. \A d \in Client : echoed[d] > 0 => \E k \in Kept' : history'[k].addr = d
    BY <1>6, <1>7 DEF EntryInv
  <2>3. \A j, k \in Kept' : history'[j].addr = history'[k].addr => j = k
    BY <1>1, <1>4, <1>6, <1>7 DEF EntryInv
  <2>4. \A k \in Kept' : history'[k].number = echoed[history'[k].addr] + 1
    BY <1>1, <1>6, <1>7, <1>8 DEF EntryInv
  <2> QED BY <1>1, <2>1, <2>2, <2>3, <2>4 DEF EntryInv
<1>10. HandInv'
  BY <1>1, <1>3, <1>6, Counts DEF HandInv
<1> QED BY <1>5, <1>9, <1>10

LEMMA HistoryFullStep ==
  ASSUME EchoInv, HistoryFull
  PROVE  EchoInv'
<1> USE DEF EchoInv
<1>1. /\ pc = "handle" /\ pc' = "recv" /\ msg' = NoDatagram /\ ToClient(msg.from, Refused)
      /\ UNCHANGED <<client_index, i, msg_number, history, count, inbox, client, sends, echoed>>
  BY DEF HistoryFull
<1>2. box' \in [Client -> Seq({"echo", Refused, Shutdown})]
  BY <1>1, MessageBox
<1>3. TypeOK'
  BY <1>1, <1>2 DEF TypeOK
<1>4. EntryInv' /\ HandInv'
  BY <1>1 DEF EntryInv, HandInv, Kept
<1> QED BY <1>3, <1>4

LEMMA TakeNumberStep ==
  ASSUME EchoInv, TakeNumber
  PROVE  EchoInv'
<1> USE DEF EchoInv
<1> DEFINE e == client_index
<1>1. /\ pc = "number" /\ pc' = "reply" /\ msg_number' = history[e].number
      /\ history' = [history EXCEPT ![e].number = @ + 1]
      /\ UNCHANGED <<msg, client_index, i, count, inbox, client, sends, box, echoed>>
  BY DEF TakeNumber
<1>2. e \in Index /\ e \in 0..count - 1 /\ history[e].addr = msg.from
  BY <1>1, Counts, Indices DEF HandInv
<1>3. history[e] \in [addr : Client \cup {NoClient}, number : Nat]
  BY <1>2 DEF TypeOK
<1>4. /\ history'[e].addr = history[e].addr /\ history'[e].number = history[e].number + 1
      /\ \A k \in Index : k # e => history'[k] = history[k]
  BY <1>1, <1>2, <1>3 DEF TypeOK
<1>5. TypeOK'
  <2>1. [history[e] EXCEPT !.number = @ + 1] \in [addr : Client \cup {NoClient}, number : Nat]
    BY <1>3
  <2> QED BY <1>1, <1>2, <1>3, <2>1 DEF TypeOK
<1>6. Kept = 0..count - 1 /\ Kept' = Kept
  BY <1>1 DEF Kept
<1>7. \A k \in 0..count - 1 : history'[k].addr = history[k].addr
  BY <1>4, Counts
<1>8. history[e].number = echoed[msg.from] + 1
  BY <1>1, <1>2, <1>6 DEF EntryInv
<1>9. EntryInv'
  <2>1. echoed[msg.from] \in Nat
    BY <1>1 DEF HandInv, Datagram, TypeOK
  <2>2. \A k \in Kept : history'[k].number =
          echoed[history'[k].addr] + IF k = e THEN 2 ELSE 1
    BY <1>1, <1>2, <1>4, <1>6, <1>7, <1>8, <2>1, Counts DEF EntryInv
  <2> QED BY <1>1, <1>6, <1>7, <2>2 DEF EntryInv
<1>10. HandInv'
  BY <1>1, <1>2, <1>7, <1>8 DEF HandInv
<1> QED BY <1>5, <1>9, <1>10

LEMMA ReplyStep ==
  ASSUME EchoInv, Reply
  PROVE  EchoInv'
<1> USE DEF EchoInv
<1> DEFINE c == msg.from
<1>1. /\ pc = "reply" /\ pc' = "recv" /\ ToClient(c, "echo") /\ msg' = NoDatagram
      /\ echoed' = [echoed EXCEPT ![c] = @ + 1] /\ client_index' = 0 /\ msg_number' = 0
      /\ UNCHANGED <<i, history, count, inbox, client, sends>>
  BY DEF Reply
<1>2. box' \in [Client -> Seq({"echo", Refused, Shutdown})]
  BY <1>1, MessageBox
<1>3. c \in Client /\ client_index \in 0..count - 1 /\ history[client_index].addr = c
  BY <1>1, Counts DEF HandInv, Datagram
<1>4. /\ echoed'[c] = echoed[c] + 1 /\ echoed[c] \in Nat
      /\ \A d \in Client : d # c => echoed'[d] = echoed[d]
  BY <1>1, <1>3 DEF TypeOK
<1>5. TypeOK'
  <2>1. echoed' \in [Client -> Nat]
    BY <1>1, <1>3, <1>4 DEF TypeOK
  <2> QED BY <1>1, <1>2, <2>1, Indices DEF TypeOK
<1>6. Kept = 0..count - 1 /\ Kept' = Kept
  BY <1>1 DEF Kept
<1>7. EntryInv'
  <2>1. \A d \in Client : echoed'[d] > 0 => \E k \in Kept' : history'[k].addr = d
    BY <1>1, <1>3, <1>4, <1>6 DEF EntryInv
  <2>2. \A k \in Kept : history[k].number = echoed'[history[k].addr] + 1
    <3> TAKE k \in Kept
    <3>1. history[k].addr \in Client /\ (history[k].addr = c <=> k = client_index)
      BY <1>1, <1>3, <1>6 DEF EntryInv
    <3>2. history[k].number = echoed[history[k].addr] + IF k = client_index THEN 2 ELSE 1
      BY <1>1 DEF EntryInv
    <3> QED BY <1>4, <3>1, <3>2
  <2> QED BY <1>1, <1>6, <2>1, <2>2 DEF EntryInv
<1>8. HandInv'
  BY <1>1 DEF HandInv
<1> QED BY <1>5, <1>7, <1>8

\* Whenever the handler runs, who was echoed to is listed.
LEMMA SignalHandlerStep ==
  ASSUME EchoInv, SignalHandler
  PROVE  EchoInv'
<1> USE DEF EchoInv
<1>1. /\ pc' = "down" /\ inbox' = <<>>
      /\ box' = [c \in Client |-> IF c \in Listed /\ client[c] # "off"
                                  THEN Append(box[c], Shutdown) ELSE box[c]]
      /\ UNCHANGED <<msg, client_index, i, msg_number, history, count, client, sends, echoed>>
  BY DEF SignalHandler
<1>2. box' \in [Client -> Seq({"echo", Refused, Shutdown})]
  BY <1>1 DEF TypeOK
<1>3. inbox' \in Seq(Datagram) /\ Len(inbox') <= InboxSize
  BY <1>1, InboxSizeAssumption
<1>4. TypeOK'
  BY <1>1, <1>2, <1>3 DEF TypeOK
<1>5. EntryInv' /\ HandInv'
  BY <1>1 DEF EntryInv, HandInv, Kept
<1> QED BY <1>4, <1>5

LEMMA EchoNextStep == EchoInv /\ [Next]_vars => EchoInv'
<1> SUFFICES ASSUME EchoInv, [Next]_vars PROVE EchoInv'
  OBVIOUS
<1>1. CASE ServerStep
  BY <1>1, ReceiveStep, ByeFromStrangerStep, ByeFromClientStep, ShiftNextStep, ShiftDoneStep,
     KnownClientStep, NewClientStep, HistoryFullStep, TakeNumberStep, ReplyStep DEF ServerStep
<1>2. CASE SignalHandler
  BY <1>2, SignalHandlerStep
<1>3. CASE \E c \in Client : SendLine(c) \/ ReadEcho(c) \/ Leave(c) \/ Vanish(c)
  BY <1>3, EchoClients
<1>4. CASE UNCHANGED vars
  BY <1>4 DEF EchoInv, TypeOK, EntryInv, HandInv, Kept, vars
<1> QED BY <1>1, <1>2, <1>3, <1>4 DEF Next, Quiet

LEMMA EchoInvariance == Spec => []EchoInv
BY EchoInitial, EchoNextStep, PTL DEF Spec

-----------------------------------------------------------------------------
(* TaskFour: the select server.                                            *)

\* The server handles a TCP client between accept and close, and finds what
\* select has announced: nobody but the server takes from either queue.
FourInv ==
  /\ Four!TypeOK
  /\ four_pc \in {"read", "answer"} => cur \in TcpClient
  /\ four_pc = "tcp" /\ "tcp" \in ready => backlog # <<>>
  /\ four_pc # "select" /\ "udp" \in ready => four_inbox # <<>>

LEMMA FourInit == Four!Init => FourInv
<1> SUFFICES ASSUME Four!Init PROVE FourInv
  OBVIOUS
<1>1. backlog \in Seq(TcpClient) /\ four_inbox \in Seq([from : UdpClient, text : Four!Request])
      /\ Len(four_inbox) <= SelectInbox
  BY SelectAssumption DEF Four!Init
<1> QED BY <1>1 DEF Four!Init, FourInv, Four!TypeOK, Four!Request, Four!Answer

LEMMA FourTcp ==
  ASSUME FourInv, NEW c \in TcpClient,
         Four!Connect(c) \/ Four!Write(c) \/ Four!TcpEnd(c) \/ Four!TcpAgain(c)
  PROVE  FourInv'
<1> USE DEF FourInv, Four!TypeOK, Four!server, Four!AnyClient
<1>1. CASE Four!Connect(c)
  <2>1. backlog \in Seq(TcpClient) /\ Append(backlog, c) \in Seq(TcpClient)
        /\ Len(Append(backlog, c)) # 0 /\ Len(<<>>) = 0
    OBVIOUS
  <2> QED BY <1>1, <2>1 DEF Four!Connect
<1>2. CASE Four!Write(c)
  BY <1>2 DEF Four!Write, Four!Request
<1>3. CASE Four!TcpEnd(c)
  BY <1>3 DEF Four!TcpEnd
<1>4. CASE Four!TcpAgain(c)
  BY <1>4 DEF Four!TcpAgain
<1> QED BY <1>1, <1>2, <1>3, <1>4

LEMMA FourUdp ==
  ASSUME FourInv, NEW c \in UdpClient, Four!SendTo(c) \/ Four!UdpEnd(c) \/ Four!UdpAgain(c)
  PROVE  FourInv'
<1> USE DEF FourInv, Four!TypeOK, Four!server, Four!AnyClient
<1>1. CASE Four!SendTo(c)
  <2>1. PICK q \in Four!Request :
          /\ request' = [request EXCEPT ![c] = q]
          /\ four_inbox' = IF Four!HasRoom THEN Append(four_inbox, [from |-> c, text |-> q]) ELSE four_inbox
    BY <1>1 DEF Four!SendTo
  <2>2. [from |-> c, text |-> q] \in [from : UdpClient, text : Four!Request]
    BY <2>1
  <2>3. /\ four_inbox' \in Seq([from : UdpClient, text : Four!Request]) /\ Len(four_inbox') <= SelectInbox
        /\ four_inbox # <<>> => four_inbox' # <<>>
    <3> HIDE DEF Four!TypeOK, FourInv
    <3>1. four_inbox \in Seq([from : UdpClient, text : Four!Request]) /\ Len(four_inbox) <= SelectInbox
      BY DEF FourInv, Four!TypeOK
    <3>2. CASE Four!HasRoom
      <4> DEFINE D == [from : UdpClient, text : Four!Request]
                 d == [from |-> c, text |-> q]
      <4>1. d \in D /\ four_inbox \in Seq(D) /\ four_inbox' = Append(four_inbox, d)
        BY <2>1, <2>2, <3>1, <3>2
      <4> HIDE DEF D, d
      <4>2. Append(four_inbox, d) \in Seq(D) /\ Append(four_inbox, d) # <<>> /\ Len(four_inbox) \in Nat
            /\ Len(Append(four_inbox, d)) = Len(four_inbox) + 1
        BY <4>1, Appended
      <4>3. Len(four_inbox) < SelectInbox /\ SelectInbox \in Nat
        BY <3>2, SelectAssumption DEF Four!HasRoom
      <4> QED BY <4>1, <4>2, <4>3 DEF D
    <3>3. CASE ~Four!HasRoom
      BY <2>1, <3>1, <3>3
    <3> QED BY <3>2, <3>3
  <2>4. request' \in [TcpClient \cup UdpClient -> Four!Request \cup {"none"}]
        /\ udp' \in [UdpClient -> {"idle", "asked", "ended"}]
    BY <1>1, <2>1 DEF Four!SendTo
  <2> QED BY <1>1, <2>3, <2>4 DEF Four!SendTo
<1>2. CASE Four!UdpEnd(c)
  BY <1>2 DEF Four!UdpEnd
<1>3. CASE Four!UdpAgain(c)
  BY <1>3 DEF Four!UdpAgain
<1> QED BY <1>1, <1>2, <1>3

LEMMA FourServer ==
  ASSUME FourInv, Four!ServerStep
  PROVE  FourInv'
<1> USE DEF FourInv, Four!TypeOK, Four!AnyClient
<1>1. CASE Four!Select
  BY <1>1 DEF Four!Select, Four!Readable
<1>2. CASE Four!TcpNotSet
  BY <1>2 DEF Four!TcpNotSet
<1>3. CASE Four!Accept
  <2>1. Head(backlog) \in TcpClient /\ Tail(backlog) \in Seq(TcpClient)
    BY <1>3 DEF Four!Accept
  <2> QED BY <1>3, <2>1 DEF Four!Accept
<1>4. CASE Four!ReadNothing
  BY <1>4 DEF Four!ReadNothing, Four!AfterTcp
<1>5. CASE Four!ReadRequest
  BY <1>5 DEF Four!ReadRequest
<1>6. CASE Four!AnswerTcp
  BY <1>6 DEF Four!AnswerTcp, Four!AfterTcp, Four!AnswerTo, Four!Answer
<1>7. CASE Four!UdpNotSet
  BY <1>7 DEF Four!UdpNotSet
<1>8. CASE Four!AnswerUdp
  <2> DEFINE D == [from : UdpClient, text : Four!Request]
  <2>1. Head(four_inbox) \in D /\ Tail(four_inbox) \in Seq(D) /\ Len(Tail(four_inbox)) <= SelectInbox
    <3> HIDE DEF D
    <3>1. four_inbox # <<>> /\ four_inbox \in Seq(D) /\ Len(four_inbox) <= SelectInbox
      BY <1>8 DEF Four!AnswerUdp, D
    <3>2. Head(four_inbox) \in D /\ Tail(four_inbox) \in Seq(D)
      BY <3>1, Taken
    <3>3. Len(Tail(four_inbox)) = Len(four_inbox) - 1 /\ Len(four_inbox) \in Nat
      BY <3>1, Taken
    <3> QED BY <3>1, <3>2, <3>3, SelectAssumption
  <2>2. answer' \in [Four!AnyClient -> Four!Answer \cup {"none"}]
    BY <1>8, <2>1 DEF Four!AnswerUdp, Four!AnswerTo, Four!Answer
  <2> QED BY <1>8, <2>1, <2>2 DEF Four!AnswerUdp
<1> QED BY <1>1, <1>2, <1>3, <1>4, <1>5, <1>6, <1>7, <1>8 DEF Four!ServerStep

LEMMA FourStep == FourInv /\ [Four!Next]_fourVars => FourInv'
<1> SUFFICES ASSUME FourInv, [Four!Next]_fourVars PROVE FourInv'
  OBVIOUS
<1>1. CASE UNCHANGED fourVars
  BY <1>1 DEF fourVars, FourInv, Four!TypeOK
<1>2. CASE Four!Next
  BY <1>2, FourTcp, FourUdp, FourServer DEF Four!Next
<1> QED BY <1>1, <1>2

\* Who waits for the server is in its backlog, once, or at hand, and what the
\* server is to read is there once the client has written.
Among(x, q) == \E k \in 1..Len(q) : q[k] = x
Distinct(q) == \A j, k \in 1..Len(q) : q[j] = q[k] => j = k
FourAt(c) == four_pc \in {"read", "answer"} /\ cur = c
FourPlace(c) ==
  /\ tcp[c] \in {"connected", "asked"} /\ answer[c] = "none" => Among(c, backlog) \/ FourAt(c)
  /\ Among(c, backlog) => ~FourAt(c)
  /\ Among(c, backlog) \/ FourAt(c) => tcp[c] # "idle" /\ (tcp[c] = "asked" => wire[c] # "none")
  /\ tcp[c] \in {"idle", "connected"} => answer[c] = "none" /\ wire[c] = "none"
  /\ four_pc = "answer" /\ cur = c => wire[c] # "none"
FourWaitInv == Distinct(backlog) /\ \A c \in TcpClient : FourPlace(c)

LEMMA AmongAppended ==
  ASSUME NEW S, NEW q \in Seq(S), NEW x \in S
  PROVE  /\ \A y \in S : Among(y, Append(q, x)) <=> Among(y, q) \/ y = x
         /\ Distinct(q) /\ ~Among(x, q) => Distinct(Append(q, x))
<1> DEFINE r == Append(q, x)
<1>1. Len(q) \in Nat /\ Len(r) = Len(q) + 1 /\ r[Len(q) + 1] = x /\ \A k \in 1..Len(q) : r[k] = q[k]
  BY Appended
<1> HIDE DEF r
<1>2. \A k : k \in 1..Len(r) <=> k \in 1..Len(q) \/ k = Len(q) + 1
  BY <1>1
<1>3. \A y \in S : Among(y, r) <=> Among(y, q) \/ y = x
  BY <1>1, <1>2 DEF Among
<1>4. Distinct(q) /\ ~Among(x, q) => Distinct(r)
  BY <1>1, <1>2 DEF Among, Distinct
<1> QED BY <1>3, <1>4 DEF r

LEMMA AmongTaken ==
  ASSUME NEW S, NEW q \in Seq(S), q # <<>>
  PROVE  /\ \A y \in S : Among(y, q) <=> y = Head(q) \/ Among(y, Tail(q))
         /\ Distinct(q) => Distinct(Tail(q)) /\ ~Among(Head(q), Tail(q))
<1> DEFINE r == Tail(q)
<1>1. /\ Len(q) \in Nat \ {0} /\ Len(r) = Len(q) - 1 /\ Head(q) = q[1]
      /\ \A k \in 1..Len(q) - 1 : r[k] = q[k + 1]
  BY Taken
<1> HIDE DEF r
<1>2. \A k \in 1..Len(r) : k + 1 \in 1..Len(q) /\ r[k] = q[k + 1] /\ k + 1 # 1
  BY <1>1
<1>3. \A k \in 1..Len(q) : k = 1 \/ (k - 1 \in 1..Len(r) /\ r[k - 1] = q[k])
  BY <1>1
<1>4. 1 \in 1..Len(q)
  BY <1>1
<1>5. \A y \in S : Among(y, q) <=> y = Head(q) \/ Among(y, r)
  BY <1>1, <1>2, <1>3, <1>4 DEF Among
<1>6. Distinct(q) => Distinct(r)
  <2> SUFFICES ASSUME Distinct(q), NEW j \in 1..Len(r), NEW k \in 1..Len(r), r[j] = r[k] PROVE j = k
    BY DEF Distinct
  <2>1. j + 1 = k + 1
    BY <1>2 DEF Distinct
  <2> QED BY <2>1, <1>1
<1>7. Distinct(q) => ~Among(Head(q), r)
  BY <1>1, <1>2, <1>4 DEF Distinct, Among
<1> QED BY <1>5, <1>6, <1>7 DEF r

LEMMA FourWaitInit == Four!Init => FourWaitInv
<1> SUFFICES ASSUME Four!Init PROVE FourWaitInv
  OBVIOUS
<1>1. Len(backlog) = 0
  BY DEF Four!Init
<1>2. Distinct(backlog) /\ \A c \in TcpClient : ~Among(c, backlog)
  BY <1>1 DEF Distinct, Among
<1> QED BY <1>2 DEF Four!Init, FourWaitInv, FourPlace, FourAt, Four!AnyClient

LEMMA FourWaitTcp ==
  ASSUME FourInv, FourWaitInv, NEW c \in TcpClient,
         Four!Connect(c) \/ Four!Write(c) \/ Four!TcpEnd(c) \/ Four!TcpAgain(c)
  PROVE  FourWaitInv'
<1>0. /\ backlog \in Seq(TcpClient)
      /\ tcp \in [TcpClient -> {"idle", "connected", "asked", "ended"}]
      /\ wire \in [TcpClient -> Four!Request \cup {"none"}]
      /\ answer \in [TcpClient \cup UdpClient -> Four!Answer \cup {"none"}]
      /\ \A d \in TcpClient : d \in TcpClient \cup UdpClient
  BY DEF FourInv, Four!TypeOK, Four!AnyClient
<1>1. UNCHANGED <<four_pc, cur>> /\ \A d \in TcpClient : FourAt(d)' = FourAt(d)
  BY DEF Four!Connect, Four!Write, Four!TcpEnd, Four!TcpAgain, Four!server, FourAt
<1>2. CASE Four!Connect(c)
  <2>1. ~Among(c, backlog) /\ c # cur
    BY <1>0, <1>2 DEF Four!Connect, Four!Forgotten, Among
  <2>2. Distinct(backlog)' /\ \A d \in TcpClient : Among(d, backlog)' <=> Among(d, backlog) \/ d = c
    BY <1>0, <1>2, <2>1, AmongAppended DEF Four!Connect, FourWaitInv, Among, Distinct
  <2>3. ASSUME NEW d \in TcpClient PROVE FourPlace(d)'
    <3>1. FourPlace(d) /\ (d = c => ~FourAt(d))
      BY <2>1 DEF FourWaitInv, FourAt
    <3>2. /\ tcp'[d] = IF d = c THEN "connected" ELSE tcp[d]
          /\ tcp[c] = "idle" /\ UNCHANGED <<wire, answer>>
      BY <1>0, <1>2 DEF Four!Connect
    <3> QED BY <3>1, <3>2, <2>2, <1>1 DEF FourPlace
  <2> QED BY <2>2, <2>3 DEF FourWaitInv
<1>3. CASE Four!Write(c) \/ Four!TcpEnd(c) \/ Four!TcpAgain(c)
  <2>1. Distinct(backlog)' /\ \A d \in TcpClient : Among(d, backlog)' = Among(d, backlog)
    BY <1>3 DEF Four!Write, Four!TcpEnd, Four!TcpAgain, FourWaitInv, Distinct, Among
  <2>2. ASSUME NEW d \in TcpClient PROVE FourPlace(d)'
    <3>1. FourPlace(d)
      BY DEF FourWaitInv
    <3>2. CASE d # c
      <4>1. tcp'[d] = tcp[d] /\ wire'[d] = wire[d] /\ answer'[d] = answer[d]
        BY <1>0, <1>3, <3>2 DEF Four!Write, Four!TcpEnd, Four!TcpAgain
      <4> QED BY <3>1, <4>1, <2>1, <1>1 DEF FourPlace
    <3>3. CASE d = c /\ Four!Write(c)
      <4>1. tcp[d] = "connected" /\ tcp'[d] = "asked" /\ wire'[d] # "none" /\ answer'[d] = answer[d]
        BY <1>0, <3>3 DEF Four!Write, Four!Request
      <4> QED BY <3>1, <4>1, <2>1, <1>1 DEF FourPlace
    <3>4. CASE d = c /\ Four!TcpEnd(c)
      <4>1. tcp'[d] = "ended" /\ wire'[d] = wire[d]
        BY <1>0, <3>4 DEF Four!TcpEnd
      <4> QED BY <3>1, <4>1, <2>1, <1>1 DEF FourPlace
    <3>5. CASE d = c /\ Four!TcpAgain(c)
      <4>1. tcp'[d] = "idle" /\ answer'[d] = "none" /\ wire'[d] = "none" /\ d # cur
        BY <1>0, <3>5 DEF Four!TcpAgain, Four!Forgotten
      <4>2. ~Among(d, backlog)
        BY <1>0, <3>5 DEF Four!TcpAgain, Four!Forgotten, Among
      <4>3. ~FourAt(d)
        BY <4>1 DEF FourAt
      <4> QED BY <4>1, <4>2, <4>3, <2>1, <1>1 DEF FourPlace
    <3> QED BY <1>3, <3>2, <3>3, <3>4, <3>5
  <2> QED BY <2>1, <2>2 DEF FourWaitInv
<1> QED BY <1>2, <1>3

\* What the clients of the datagrams do, and what is not done with a TCP client.
LEMMA FourWaitQuiet ==
  ASSUME FourWaitInv, UNCHANGED <<backlog, tcp, wire>>,
         \A d \in TcpClient : FourAt(d)' = FourAt(d),
         \A d \in TcpClient : four_pc' = "answer" /\ cur' = d => wire[d] # "none",
         \A d \in TcpClient : answer'[d] = answer[d]
  PROVE  FourWaitInv'
<1>1. Distinct(backlog)' /\ \A d \in TcpClient : Among(d, backlog)' = Among(d, backlog)
  BY DEF FourWaitInv, Distinct, Among
<1>2. ASSUME NEW d \in TcpClient PROVE FourPlace(d)'
  BY <1>1 DEF FourWaitInv, FourPlace
<1> QED BY <1>1, <1>2 DEF FourWaitInv

LEMMA FourWaitServer ==
  ASSUME FourInv, FourWaitInv, Four!ServerStep
  PROVE  FourWaitInv'
<1>0. /\ backlog \in Seq(TcpClient)
      /\ tcp \in [TcpClient -> {"idle", "connected", "asked", "ended"}]
      /\ wire \in [TcpClient -> Four!Request \cup {"none"}]
      /\ answer \in [TcpClient \cup UdpClient -> Four!Answer \cup {"none"}]
      /\ \A d \in TcpClient : d \in TcpClient \cup UdpClient
  BY DEF FourInv, Four!TypeOK, Four!AnyClient
<1>1. CASE Four!Select \/ Four!TcpNotSet \/ Four!UdpNotSet \/ Four!ReadRequest
  <2>1. /\ UNCHANGED <<backlog, tcp, wire, answer>> /\ \A d \in TcpClient : FourAt(d)' = FourAt(d)
        /\ \A d \in TcpClient : four_pc' = "answer" /\ cur' = d => wire[d] # "none"
    BY <1>1 DEF Four!Select, Four!TcpNotSet, Four!UdpNotSet, Four!ReadRequest, FourAt
  <2> QED BY <2>1, FourWaitQuiet
<1>2. CASE Four!AnswerUdp
  <2> DEFINE u == Head(four_inbox).from
  <2>1. u \in UdpClient
    <3>1. Head(four_inbox) \in [from : UdpClient, text : Four!Request]
      BY <1>2, Taken DEF Four!AnswerUdp, FourInv, Four!TypeOK
    <3> QED BY <3>1
  <2>2. /\ UNCHANGED <<backlog, tcp, wire>> /\ four_pc' = "select"
        /\ \A d \in TcpClient : FourAt(d)' = FourAt(d)
    BY <1>2 DEF Four!AnswerUdp, FourAt
  <2>3. \A d \in TcpClient : answer'[d] = answer[d]
    <3>1. \A d \in TcpClient : d # u
      BY <2>1, SelectAssumption
    <3>2. answer' = answer \/ \E x : answer' = [answer EXCEPT ![u] = x]
      BY <1>2 DEF Four!AnswerUdp
    <3> HIDE DEF u
    <3> QED BY <1>0, <3>1, <3>2
  <2> QED BY <2>2, <2>3, FourWaitQuiet
<1>3. CASE Four!Accept
  <2>1. /\ backlog # <<>> /\ backlog' = Tail(backlog) /\ cur' = Head(backlog) /\ four_pc = "tcp"
        /\ four_pc' = "read" /\ UNCHANGED <<tcp, wire, answer>>
    BY <1>3 DEF Four!Accept
  <2>2. /\ \A d \in TcpClient : Among(d, backlog) <=> d = Head(backlog) \/ Among(d, Tail(backlog))
        /\ Distinct(Tail(backlog)) /\ ~Among(Head(backlog), Tail(backlog))
    BY <1>0, <2>1, AmongTaken DEF FourWaitInv
  <2>3. \A d \in TcpClient : ~FourAt(d) /\ (FourAt(d)' <=> d = Head(backlog))
    BY <2>1 DEF FourAt
  <2>4. Distinct(backlog)' /\ \A d \in TcpClient : Among(d, backlog)' = Among(d, Tail(backlog))
    BY <2>1, <2>2 DEF Among, Distinct
  <2>5. ASSUME NEW d \in TcpClient PROVE FourPlace(d)'
    <3>1. FourPlace(d)
      BY DEF FourWaitInv
    <3>2. d = Head(backlog) => ~Among(d, Tail(backlog))
      BY <2>2
    <3> QED BY <2>1, <2>2, <2>3, <2>4, <3>1, <3>2 DEF FourPlace
  <2> QED BY <2>4, <2>5 DEF FourWaitInv
<1>4. CASE Four!ReadNothing \/ Four!AnswerTcp
  <2>1. PICK c \in TcpClient : c = cur
    BY <1>4 DEF Four!ReadNothing, Four!AnswerTcp, FourInv
  <2>2. /\ FourAt(c) /\ UNCHANGED <<backlog, tcp>> /\ four_pc' = "udp"
        /\ \A d \in TcpClient : d # c => wire'[d] = wire[d] /\ answer'[d] = answer[d]
    BY <1>0, <1>4, <2>1 DEF Four!ReadNothing, Four!AnswerTcp, Four!AfterTcp, FourAt
  <2>3. /\ Distinct(backlog)' /\ \A d \in TcpClient : Among(d, backlog)' = Among(d, backlog)
        /\ \A d \in TcpClient : ~FourAt(d)'
    BY <2>2 DEF FourWaitInv, Distinct, Among, FourAt
  <2>4. ASSUME NEW d \in TcpClient, d # c PROVE FourPlace(d)'
    <3>1. ~FourAt(d)
      BY <2>1, <2>4 DEF FourAt
    <3> QED BY <2>2, <2>3, <2>4, <3>1 DEF FourWaitInv, FourPlace
  <2>5. FourPlace(c)'
    <3>1. FourPlace(c) /\ ~Among(c, backlog) /\ tcp[c] \in {"connected", "asked", "ended"}
      BY <1>0, <2>2 DEF FourWaitInv, FourPlace
    <3>2. CASE tcp[c] = "ended"
      BY <2>2, <2>3, <3>1, <3>2 DEF FourPlace
    <3>3. CASE tcp[c] # "ended"
      <4>1. four_pc = "answer" /\ tcp[c] = "asked" /\ answer'[c] # "none"
        BY <1>0, <1>4, <2>1, <3>1, <3>3 DEF Four!ReadNothing, Four!AnswerTcp, Four!AnswerTo, FourPlace
      <4> QED BY <2>2, <2>3, <3>1, <4>1 DEF FourPlace
    <3> QED BY <3>2, <3>3
  <2> QED BY <2>3, <2>4, <2>5 DEF FourWaitInv
<1> QED BY <1>1, <1>2, <1>3, <1>4 DEF Four!ServerStep

LEMMA FourWaitStep == FourInv /\ FourWaitInv /\ [Four!Next]_fourVars => FourWaitInv'
<1> SUFFICES ASSUME FourInv, FourWaitInv, [Four!Next]_fourVars PROVE FourWaitInv'
  OBVIOUS
<1>1. CASE UNCHANGED fourVars
  <2>1. /\ UNCHANGED <<backlog, tcp, wire, answer, four_pc, cur>>
        /\ \A d \in TcpClient : FourAt(d)' = FourAt(d)
    BY <1>1 DEF fourVars, FourAt
  <2> QED BY <2>1, FourWaitQuiet DEF FourWaitInv, FourPlace
<1>2. ASSUME NEW c \in UdpClient, Four!SendTo(c) \/ Four!UdpEnd(c) \/ Four!UdpAgain(c)
      PROVE  FourWaitInv'
  <2>1. c \in TcpClient \cup UdpClient /\ \A d \in TcpClient : d # c /\ d \in TcpClient \cup UdpClient
    BY SelectAssumption
  <2>2. answer \in [TcpClient \cup UdpClient -> Four!Answer \cup {"none"}]
    BY DEF FourInv, Four!TypeOK, Four!AnyClient
  <2>3. \A d \in TcpClient : answer'[d] = answer[d]
    BY <1>2, <2>1, <2>2 DEF Four!SendTo, Four!UdpEnd, Four!UdpAgain
  <2>4. /\ UNCHANGED <<backlog, tcp, wire, four_pc, cur>>
        /\ \A d \in TcpClient : FourAt(d)' = FourAt(d)
    BY <1>2 DEF Four!SendTo, Four!UdpEnd, Four!UdpAgain, Four!server, FourAt
  <2> QED BY <2>3, <2>4, FourWaitQuiet DEF FourWaitInv, FourPlace
<1> QED BY <1>1, <1>2, FourWaitTcp, FourWaitServer DEF Four!Next

\* A server that blocks has nobody in its backlog but behind the one it reads.
LEMMA FourBlocks == FourInv /\ FourWaitInv => BlocksOnlyToRead
<1> SUFFICES ASSUME FourInv, FourWaitInv, ~Four!ServerCan
             PROVE  \/ four_pc = "read" /\ tcp[cur] = "connected"
                    \/ /\ four_pc = "select" /\ backlog = <<>> /\ four_inbox = <<>>
                       /\ \A c \in TcpClient : tcp[c] # "connected" /\ (tcp[c] = "asked" => answer[c] # "none")
  BY DEF BlocksOnlyToRead, Four!BlocksOnlyToRead
<1>1. four_pc \in {"select", "read"}
  BY DEF Four!ServerCan, FourInv, Four!TypeOK
<1>2. CASE four_pc = "read"
  <2>1. PICK c \in TcpClient : c = cur
    BY <1>2 DEF FourInv
  <2>2. wire[c] = "none" /\ tcp[c] # "ended" /\ tcp[c] \in {"idle", "connected", "asked", "ended"}
    BY <1>2, <2>1 DEF Four!ServerCan, FourInv, Four!TypeOK
  <2>3. tcp[c] = "connected"
    BY <1>2, <2>1, <2>2 DEF FourWaitInv, FourPlace, FourAt
  <2> QED BY <1>2, <2>1, <2>3
<1>3. CASE four_pc = "select"
  <2>1. backlog = <<>> /\ four_inbox = <<>>
    BY <1>3 DEF Four!ServerCan
  <2>2. Len(backlog) = 0
    BY <2>1
  <2>3. \A c \in TcpClient : ~Among(c, backlog) /\ ~FourAt(c)
    BY <1>3, <2>2 DEF Among, FourAt
  <2>4. \A c \in TcpClient : tcp[c] # "connected" /\ (tcp[c] = "asked" => answer[c] # "none")
    BY <2>3 DEF FourWaitInv, FourPlace
  <2> QED BY <1>3, <2>1, <2>4
<1> QED BY <1>1, <1>2, <1>3

-----------------------------------------------------------------------------
(* Messages: message queues, System V and POSIX.                           *)

\* The queues a pair of programs has.
MsgUsed(x) == msg_system = "posix" \/ x = "from_server"
MsgLists == {<<"from_server">>, <<"from_server", "from_client">>, <<"from_client">>}
MsgOpening(p) ==
  msg_todo[p] \in IF msg_system = "sysv" THEN {<<"from_server">>}
                  ELSE {<<"from_server", "from_client">>, <<"from_client">>}

\* Every run since the one that made a queue was killed, or is the last one:
\* one that ended has removed the names.
MsgNamesInv ==
  \A x \in Msg!Name :
    /\ msg_name[x] <= msg_run /\ \A p \in Msg!Process : msg_handle[p][x] <= msg_run
    /\ msg_name[x] # 0 => msg_name[x]..msg_run \subseteq killed \cup {msg_run}
    /\ ~MsgUsed(x) => msg_name[x] = 0

MsgServerInv ==
  /\ msg_pc[Server] # "off" => msg_run # 0
  /\ msg_pc[Server] = "off" => msg_run = 0
  /\ msg_pc[Server] = "killed" => msg_run \in killed
  /\ msg_pc[Server] = "done" => \A x \in Msg!Name : msg_name[x] = 0
  /\ msg_pc[Server] \in {"open", "remove"} => MsgOpening(Server)
  /\ msg_pc[Server] = "open" /\ msg_todo[Server] = <<"from_client">> =>
       msg_name["from_server"] # 0 /\ msg_handle[Server]["from_server"] = msg_name["from_server"]
  /\ msg_pc[Server] \in {"send", "receive"} =>
       \A x \in Msg!Name : MsgUsed(x) => msg_name[x] # 0 /\ msg_handle[Server][x] = msg_name[x]
  /\ msg_pc[Server] = "remove" /\ msg_todo[Server] = <<"from_client">> => msg_name["from_server"] = 0

\* The message that a client answers was sent to the queue the client has open.
MsgClientAt(c) ==
  /\ msg_pc[c] \in {"off", "open", "receive", "send", "ended", "killed"}
  /\ msg_pc[c] = "open" => MsgOpening(c)
  /\ msg_pc[c] = "open" /\ msg_todo[c] = <<"from_client">> => msg_handle[c]["from_server"] # 0
  /\ msg_pc[c] \in {"receive", "send"} =>
       \A x \in Msg!Name : MsgUsed(x) => msg_handle[c][x] # 0
  /\ msg_pc[c] \in {"off", "open"} => msg_handle[c]["from_client"] = 0
  /\ msg_pc[c] = "send" =>
       /\ msg_got[c] \in Msg!Message
       /\ msg_got[c].run >= msg_handle[c]["from_server"] /\ msg_got[c].run <= msg_run
MsgClientInv == \A c \in Client : MsgClientAt(c)

MsgAstray == \E c \in Client : Msg!Astray(c)

\* A queue holds messages of the run that made it and of later ones, one "Hi!" of each.
MsgHiInv(x, r, m) ==
  m.type = "Hi!" =>
    /\ x = "from_server" /\ m.run >= r /\ m.run <= msg_run
    /\ msg_pc[Server] \in {"off", "open", "send"} => m.run < msg_run
MsgHelloInv(x, r, m) ==
  m.type = "Hello!" => /\ msg_system = "posix" => x = "from_client"
                       /\ m.run <= msg_run
                       /\ m.run >= r \/ MsgAstray
MsgQueueInv ==
  /\ \A x \in Msg!Name : \A r \in Msg!Run : \A k \in 1..Len(msg_queue[x][r]) :
       MsgHiInv(x, r, msg_queue[x][r][k]) /\ MsgHelloInv(x, r, msg_queue[x][r][k])
  /\ msg_system = "posix" =>
       \A r \in Msg!Run : \A j, k \in 1..Len(msg_queue["from_server"][r]) :
         msg_queue["from_server"][r][j].run = msg_queue["from_server"][r][k].run => j = k

MsgAnswerInv == AnswerOfRun

MsgInv ==
  /\ Msg!TypeOK /\ msg_todo \in [Msg!Process -> MsgLists \cup {<<>>}]
  /\ MsgNamesInv /\ MsgServerInv /\ MsgClientInv /\ MsgQueueInv /\ MsgAnswerInv

LEMMA MsgProcesses ==
  /\ Client \subseteq Msg!Process /\ Server \in Msg!Process /\ Server \notin Client
  /\ \A p \in Msg!Process : p \in Client \/ p = Server
BY ServerAssumption DEF Msg!Process

LEMMA MsgInitial == Msg!Init => MsgInv
<1> SUFFICES ASSUME Msg!Init PROVE MsgInv
  OBVIOUS
<1> USE DEF Msg!Init
<1>1. \A r \in Msg!Run : \A x \in Msg!Name : msg_queue[x][r] = <<>> /\ <<>> \in Seq(Msg!Message) /\ Len(<<>>) = 0
  OBVIOUS
<1>2. 0 \in 0..MsgRuns /\ killed \subseteq 1..msg_run
  BY RunsAssumption
<1>3. Msg!TypeOK
  <2>1. msg_queue \in [Msg!Name -> [Msg!Run -> Seq(Msg!Message)]]
    OBVIOUS
  <2>2. \A x \in Msg!Name : \A r \in Msg!Run : Len(msg_queue[x][r]) <= MAX_MSG
    BY <1>1, MaxMsgAssumption
  <2>3. /\ msg_name \in [Msg!Name -> 0..MsgRuns]
        /\ msg_handle \in [Msg!Process -> [Msg!Name -> 0..MsgRuns]]
    <3>1. Msg!Closed \in [Msg!Name -> 0..MsgRuns]
      BY <1>2 DEF Msg!Closed
    <3> QED BY <3>1
  <2>4. msg_got \in [Msg!Process -> Msg!Message \cup {Msg!NoMessage}]
    OBVIOUS
  <2> QED BY <1>2, <2>1, <2>2, <2>3, <2>4 DEF Msg!TypeOK
<1>4. MsgNamesInv /\ MsgServerInv /\ MsgClientInv
  BY MsgProcesses DEF MsgNamesInv, MsgServerInv, MsgClientInv, MsgClientAt, Msg!Closed, Msg!Name
<1>5. MsgQueueInv
  BY <1>1 DEF MsgQueueInv, Msg!Name
<1>6. MsgAnswerInv
  BY MsgProcesses DEF MsgAnswerInv, AnswerOfRun, Msg!AnswerOfRun
<1> QED BY <1>3, <1>4, <1>5, <1>6 DEF MsgInv

\* A process is through with one queue: it has another one to deal with, or is
\* at the next place.
LEMMA MsgThrough ==
  ASSUME MsgInv, NEW p \in Msg!Process, MsgOpening(p), NEW next, Msg!Through(p, next)
  PROVE  \/ /\ msg_system = "sysv" /\ Head(msg_todo[p]) = "from_server"
            /\ Msg!Goto(p, next, <<>>)
         \/ /\ msg_system = "posix" /\ msg_todo[p] = <<"from_client">> /\ Head(msg_todo[p]) = "from_client"
            /\ Msg!Goto(p, next, <<>>)
         \/ /\ msg_system = "posix" /\ msg_todo[p] = <<"from_server", "from_client">>
            /\ Head(msg_todo[p]) = "from_server"
            /\ Msg!Goto(p, msg_pc[p], <<"from_client">>)
<1>1. /\ Len(<<"from_server">>) = 1 /\ Len(<<"from_client">>) = 1 /\ Len(<<"from_server", "from_client">>) = 2
      /\ Tail(<<"from_server", "from_client">>) = <<"from_client">>
      /\ Head(<<"from_server">>) = "from_server" /\ Head(<<"from_client">>) = "from_client"
      /\ Head(<<"from_server", "from_client">>) = "from_server"
  OBVIOUS
<1>2. msg_system \in {"sysv", "posix"}
  BY DEF MsgInv, Msg!TypeOK
<1>3. CASE msg_system = "sysv"
  <2>1. msg_todo[p] = <<"from_server">>
    BY <1>3 DEF MsgOpening
  <2> QED BY <1>1, <1>3, <2>1 DEF Msg!Through
<1>4. CASE msg_system = "posix" /\ msg_todo[p] = <<"from_client">>
  BY <1>1, <1>4 DEF Msg!Through
<1>5. CASE msg_system = "posix" /\ msg_todo[p] = <<"from_server", "from_client">>
  <2>1. Msg!Goto(p, msg_pc[p], <<"from_client">>)
    BY <1>1, <1>5 DEF Msg!Through
  <2> QED BY <1>1, <1>5, <2>1
<1> QED BY <1>2, <1>3, <1>4, <1>5 DEF MsgOpening

\* What Goto changes.
LEMMA MsgGoto ==
  ASSUME MsgInv, NEW p \in Msg!Process, NEW place, NEW names \in MsgLists \cup {<<>>},
         Msg!Goto(p, place, names),
         place \in {"off", "open", "send", "receive", "remove", "done", "ended", "killed"}
  PROVE  /\ msg_pc' \in [Msg!Process -> {"off", "open", "send", "receive", "remove", "done", "ended", "killed"}]
         /\ msg_todo' \in [Msg!Process -> MsgLists \cup {<<>>}]
         /\ msg_pc'[p] = place /\ msg_todo'[p] = names
         /\ \A q \in Msg!Process : q # p => msg_pc'[q] = msg_pc[q] /\ msg_todo'[q] = msg_todo[q]
BY DEF MsgInv, Msg!TypeOK, Msg!Goto

LEMMA MsgIntegers ==
  ASSUME MsgInv
  PROVE  /\ msg_run \in Nat /\ msg_run <= MsgRuns /\ MAX_MSG \in Nat
         /\ \A x \in Msg!Name : msg_name[x] \in Nat /\ msg_name[x] <= msg_run
         /\ \A p \in Msg!Process, x \in Msg!Name :
              msg_handle[p][x] \in Nat /\ msg_handle[p][x] <= msg_run
         /\ \A r \in Msg!Run : r \in Nat /\ r # 0 /\ r <= MsgRuns
         /\ \A r \in Nat : r # 0 /\ r <= msg_run => r \in Msg!Run
         /\ \A m \in Msg!Message : m.run \in Nat /\ m.run # 0
BY RunsAssumption, MaxMsgAssumption DEF MsgInv, Msg!TypeOK, MsgNamesInv, Msg!Run, Msg!Message

\* What is said of a message stays true when the server goes on, to its next
\* run for one.
MsgServerGoesOn ==
  /\ UNCHANGED msg_system /\ msg_run' \in Nat /\ msg_run' >= msg_run
  /\ msg_pc'[Server] \in {"off", "open", "send"} =>
       msg_run' > msg_run \/ msg_pc[Server] \in {"off", "open", "send"}
  /\ MsgAstray => MsgAstray'
MsgOf(x, r, m) == MsgHiInv(x, r, m) /\ MsgHelloInv(x, r, m)

LEMMA MsgStays ==
  ASSUME MsgInv, MsgServerGoesOn,
         NEW x, NEW r, NEW m \in Msg!Message, MsgOf(x, r, m)
  PROVE  MsgOf(x, r, m)'
BY MsgIntegers DEF MsgServerGoesOn, MsgOf, MsgHiInv, MsgHelloInv

LEMMA MsgInQueue ==
  ASSUME MsgInv, NEW x \in Msg!Name, NEW r \in Msg!Run
  PROVE  /\ msg_queue[x][r] \in Seq(Msg!Message) /\ Len(msg_queue[x][r]) \in Nat
         /\ \A k \in 1..Len(msg_queue[x][r]) :
              msg_queue[x][r][k] \in Msg!Message /\ MsgOf(x, r, msg_queue[x][r][k])
<1>1. msg_queue[x][r] \in Seq(Msg!Message)
  BY DEF MsgInv, Msg!TypeOK
<1> QED BY <1>1 DEF MsgInv, MsgQueueInv, MsgOf

LEMMA MsgQueueKept ==
  ASSUME MsgInv, MsgServerGoesOn, UNCHANGED msg_queue
  PROVE  MsgQueueInv'
<1>1. ASSUME NEW x \in Msg!Name, NEW r \in Msg!Run, NEW k \in 1..Len(msg_queue[x][r])
      PROVE  MsgHiInv(x, r, msg_queue[x][r][k])' /\ MsgHelloInv(x, r, msg_queue[x][r][k])'
  <2> DEFINE m == msg_queue[x][r][k]
  <2>1. m \in Msg!Message /\ MsgOf(x, r, m) /\ m' = m
    BY MsgInQueue
  <2> HIDE DEF m
  <2>2. PICK n \in Msg!Message : n = m
    BY <2>1
  <2>3. MsgOf(x, r, n)'
    BY <2>1, <2>2, MsgStays
  <2> QED BY <2>1, <2>2, <2>3 DEF MsgOf, m
<1> QED BY <1>1 DEF MsgQueueInv, MsgInv, MsgServerGoesOn

LEMMA MsgAnswerKept ==
  ASSUME MsgInv, UNCHANGED msg_run, msg_got'[Server] = msg_got[Server],
         killed \subseteq killed', MsgAstray => MsgAstray'
  PROVE  MsgAnswerInv'
BY DEF MsgInv, MsgAnswerInv, AnswerOfRun, Msg!AnswerOfRun, MsgAstray

LEMMA MsgClientKept ==
  ASSUME MsgInv, UNCHANGED msg_system, msg_run' \in Nat, msg_run' >= msg_run,
         NEW c \in Client, msg_pc'[c] = msg_pc[c], msg_todo'[c] = msg_todo[c],
         msg_handle'[c] = msg_handle[c], msg_got'[c] = msg_got[c]
  PROVE  MsgClientAt(c)'
<1>1. ASSUME msg_pc[c] = "send" PROVE msg_got[c].run <= msg_run'
  <2>1. msg_got[c] \in Msg!Message /\ msg_got[c].run <= msg_run
    BY <1>1 DEF MsgInv, MsgClientInv, MsgClientAt
  <2> QED BY <2>1, MsgIntegers
<1> QED BY <1>1 DEF MsgInv, MsgClientInv, MsgClientAt, MsgOpening, MsgUsed

LEMMA MsgAstrayKept ==
  ASSUME MsgInv, UNCHANGED msg_system, \A c \in Client : msg_handle'[c] = msg_handle[c]
  PROVE  MsgAstray => MsgAstray'
BY DEF MsgAstray, Msg!Astray

-----------------------------------------------------------------------------
(* Taking and sending messages.                                            *)

\* Changing one queue of one run.
MsgQueueType ==
  /\ msg_queue \in [Msg!Name -> [Msg!Run -> Seq(Msg!Message)]]
  /\ msg_system = "posix" => \A x \in Msg!Name : \A r \in Msg!Run : Len(msg_queue[x][r]) <= MAX_MSG

LEMMA MsgQueueChanged ==
  ASSUME MsgInv, MsgServerGoesOn, NEW x \in Msg!Name, NEW r \in Msg!Run, NEW q \in Seq(Msg!Message),
         msg_queue' = [msg_queue EXCEPT ![x][r] = q],
         msg_system = "posix" => Len(q) <= MAX_MSG,
         \A k \in 1..Len(q) : \A m \in Msg!Message : m = q[k] => MsgOf(x, r, m)',
         msg_system = "posix" /\ x = "from_server" =>
           \A j, k \in 1..Len(q) : q[j].run = q[k].run => j = k
  PROVE  MsgQueueType' /\ MsgQueueInv'
<1>1. /\ msg_queue \in [Msg!Name -> [Msg!Run -> Seq(Msg!Message)]]
      /\ msg_queue' \in [Msg!Name -> [Msg!Run -> Seq(Msg!Message)]]
      /\ msg_queue'[x][r] = q
      /\ \A y \in Msg!Name, s \in Msg!Run : y # x \/ s # r => msg_queue'[y][s] = msg_queue[y][s]
  BY DEF MsgInv, Msg!TypeOK
<1>2. MsgQueueType'
  BY <1>1 DEF MsgQueueType, MsgInv, Msg!TypeOK, MsgServerGoesOn
<1>3. ASSUME NEW y \in Msg!Name, NEW s \in Msg!Run, NEW k \in 1..Len(msg_queue'[y][s])
      PROVE  MsgHiInv(y, s, msg_queue[y][s][k])' /\ MsgHelloInv(y, s, msg_queue[y][s][k])'
  <2>1. PICK m \in Msg!Message : m = msg_queue'[y][s][k]
    BY <1>1
  <2>2. CASE y = x /\ s = r
    BY <1>1, <2>1, <2>2 DEF MsgOf
  <2>3. CASE y # x \/ s # r
    <3>1. m = msg_queue[y][s][k] /\ MsgOf(y, s, m)
      BY <1>1, <2>1, <2>3, MsgInQueue
    <3>2. MsgOf(y, s, m)'
      BY <3>1, MsgStays
    <3> QED BY <2>1, <3>2 DEF MsgOf
  <2> QED BY <2>2, <2>3
<1>4. ASSUME msg_system' = "posix", NEW s \in Msg!Run, NEW j \in 1..Len(msg_queue'["from_server"][s]),
             NEW k \in 1..Len(msg_queue'["from_server"][s]),
             msg_queue'["from_server"][s][j].run = msg_queue'["from_server"][s][k].run
      PROVE  j = k
  <2>1. msg_system = "posix"
    BY <1>4 DEF MsgServerGoesOn
  <2>2. CASE x = "from_server" /\ s = r
    BY <1>1, <1>4, <2>1, <2>2
  <2>3. CASE x # "from_server" \/ s # r
    <3>1. msg_queue'["from_server"][s] = msg_queue["from_server"][s]
      BY <1>1, <2>3 DEF Msg!Name
    <3> QED BY <1>4, <2>1, <3>1 DEF MsgInv, MsgQueueInv
  <2> QED BY <2>2, <2>3
<1> QED BY <1>2, <1>3, <1>4 DEF MsgQueueInv

LEMMA MsgTake ==
  ASSUME MsgInv, MsgServerGoesOn, NEW p \in Msg!Process, NEW type, Msg!Take(p, type),
         msg_handle[p][Msg!Way(type)] # 0
  PROVE  /\ MsgQueueType' /\ MsgQueueInv'
         /\ \E m \in Msg!Message :
              /\ msg_got' = [msg_got EXCEPT ![p] = m]
              /\ m.type = type /\ MsgOf(Msg!Way(type), msg_handle[p][Msg!Way(type)], m)
<1>0. PICK x, r, q : x = Msg!Way(type) /\ r = msg_handle[p][x] /\ q = msg_queue[x][r]
  OBVIOUS
<1>1. x \in Msg!Name
  BY <1>0 DEF Msg!Way, Msg!Name
<1>2. r \in Msg!Run
  BY <1>0, <1>1, MsgIntegers
<1>3. q \in Seq(Msg!Message) /\ \A k \in 1..Len(q) : q[k] \in Msg!Message /\ MsgOf(x, r, q[k])
  BY <1>0, <1>1, <1>2, MsgInQueue
<1>4. PICK k \in Msg!FirstOf(q, type) :
        /\ msg_got' = [msg_got EXCEPT ![p] = q[k]]
        /\ msg_queue' = [msg_queue EXCEPT ![x][r] = SubSeq(q, 1, k - 1) \o SubSeq(q, k + 1, Len(q))]
  BY <1>0 DEF Msg!Take, Msg!Queue
<1>5. k \in 1..Len(q) /\ q[k].type = type
  BY <1>3, <1>4 DEF Msg!FirstOf
<1>6. msg_system = "posix" => Len(q) <= MAX_MSG
  BY <1>0, <1>1, <1>2 DEF MsgInv, Msg!TypeOK
<1>7. msg_system = "posix" /\ x = "from_server" =>
        \A i1, i2 \in 1..Len(q) : q[i1].run = q[i2].run => i1 = i2
  BY <1>0, <1>2 DEF MsgInv, MsgQueueInv
<1>8. PICK d : d = Without(q, k)
  OBVIOUS
<1>9. /\ d \in Seq(Msg!Message) /\ Len(d) = Len(q) - 1 /\ Len(q) \in Nat
      /\ \A j \in 1..Len(q) - 1 : d[j] = q[IF j < k THEN j ELSE j + 1]
  <2>1. Without(q, k) \in Seq(Msg!Message) /\ Len(Without(q, k)) = Len(q) - 1
    BY <1>3, <1>5, Deleted
  <2>2. \A j \in 1..Len(q) - 1 : Without(q, k)[j] = q[IF j < k THEN j ELSE j + 1]
    BY <1>3, <1>5, Deleted
  <2> QED BY <1>3, <1>8, <2>1, <2>2
<1>10. \A j \in 1..Len(d) : (IF j < k THEN j ELSE j + 1) \in 1..Len(q)
  BY <1>5, <1>9
<1>11. ASSUME NEW j \in 1..Len(d), NEW m \in Msg!Message, m = d[j] PROVE MsgOf(x, r, m)'
  <2>1. MsgOf(x, r, m)
    BY <1>3, <1>9, <1>10, <1>11
  <2> QED BY <2>1, MsgStays
<1>12. msg_system = "posix" /\ x = "from_server" =>
         \A i1, i2 \in 1..Len(d) : d[i1].run = d[i2].run => i1 = i2
  <2> SUFFICES ASSUME msg_system = "posix" /\ x = "from_server", NEW i1 \in 1..Len(d), NEW i2 \in 1..Len(d),
                      d[i1].run = d[i2].run
               PROVE  i1 = i2
    OBVIOUS
  <2> DEFINE At(j) == IF j < k THEN j ELSE j + 1
  <2>1. At(i1) \in 1..Len(q) /\ At(i2) \in 1..Len(q) /\ d[i1] = q[At(i1)] /\ d[i2] = q[At(i2)]
    BY <1>9, <1>10
  <2>2. (At(i1) = At(i2) => i1 = i2) /\ At(i1) \in Int /\ At(i2) \in Int
    BY <1>5
  <2> HIDE DEF At
  <2> QED BY <1>7, <2>1, <2>2
<1>13. msg_system = "posix" => Len(d) <= MAX_MSG
  BY <1>6, <1>9, MsgIntegers
<1>14. MsgQueueType' /\ MsgQueueInv'
  BY <1>1, <1>2, <1>4, <1>8, <1>9, <1>11, <1>12, <1>13, MsgQueueChanged DEF Without
<1> QED BY <1>0, <1>3, <1>4, <1>5, <1>14

LEMMA MsgSend ==
  ASSUME MsgInv, MsgServerGoesOn, NEW p \in Msg!Process, NEW m \in Msg!Message, Msg!Send(p, m),
         msg_handle[p][Msg!Way(m.type)] # 0,
         \A x, r : x = Msg!Way(m.type) /\ r = msg_handle[p][x] => MsgOf(x, r, m)',
         msg_system = "posix" /\ m.type = "Hi!" => m.run = msg_run /\ msg_pc[Server] = "send"
  PROVE  MsgQueueType' /\ MsgQueueInv'
<1>0. PICK x, r, q : x = Msg!Way(m.type) /\ r = msg_handle[p][x] /\ q = msg_queue[x][r]
  OBVIOUS
<1>1. x \in Msg!Name /\ (msg_system = "posix" /\ x = "from_server" => m.type = "Hi!")
  BY <1>0 DEF Msg!Way, Msg!Name
<1>2. r \in Msg!Run
  BY <1>0, <1>1, MsgIntegers
<1>3. q \in Seq(Msg!Message) /\ \A k \in 1..Len(q) : q[k] \in Msg!Message /\ MsgOf(x, r, q[k])
  BY <1>0, <1>1, <1>2, MsgInQueue
<1>4. /\ msg_queue' = [msg_queue EXCEPT ![x][r] = Append(q, m)]
      /\ msg_system = "posix" => Len(q) < MAX_MSG
  BY <1>0 DEF Msg!Send, Msg!Sent, Msg!HasRoom, Msg!Queue
<1>5. msg_system = "posix" /\ x = "from_server" =>
        \A i1, i2 \in 1..Len(q) : q[i1].run = q[i2].run => i1 = i2
  BY <1>0, <1>2 DEF MsgInv, MsgQueueInv
<1>6. MsgOf(x, r, m)'
  BY <1>0
<1>7. PICK d : d = Append(q, m)
  OBVIOUS
<1>8. /\ d \in Seq(Msg!Message) /\ Len(d) = Len(q) + 1 /\ Len(q) \in Nat
      /\ \A k \in 1..Len(q) : d[k] = q[k]
      /\ d[Len(q) + 1] = m
  BY <1>3, <1>7, Appended
<1>9. ASSUME NEW j \in 1..Len(d), NEW n \in Msg!Message, n = d[j] PROVE MsgOf(x, r, n)'
  <2>1. CASE j \in 1..Len(q)
    <3>1. MsgOf(x, r, n)
      BY <1>3, <1>8, <1>9, <2>1
    <3> QED BY <3>1, MsgStays
  <2>2. CASE j = Len(q) + 1
    BY <1>6, <1>8, <1>9, <2>2
  <2> QED BY <1>8, <2>1, <2>2
<1>10. msg_system = "posix" /\ x = "from_server" => \A k \in 1..Len(q) : q[k].run # m.run
  <2> SUFFICES ASSUME msg_system = "posix", x = "from_server", NEW k \in 1..Len(q) PROVE q[k].run # m.run
    OBVIOUS
  <2>1. m.run = msg_run /\ msg_pc[Server] = "send" /\ MsgOf(x, r, q[k])
    BY <1>1, <1>3
  <2>2. q[k] \in Msg!Message /\ (q[k].type = "Hello!" => x = "from_client")
    BY <1>3, <2>1 DEF MsgOf, MsgHelloInv
  <2>3. q[k].type = "Hi!"
    BY <2>2 DEF Msg!Message
  <2> QED BY <2>1, <2>2, <2>3, MsgIntegers DEF MsgOf, MsgHiInv
<1>11. msg_system = "posix" /\ x = "from_server" =>
         \A i1, i2 \in 1..Len(d) : d[i1].run = d[i2].run => i1 = i2
  <2>1. \A j \in 1..Len(d) : j \in 1..Len(q) \/ j = Len(q) + 1
    BY <1>8
  <2> QED BY <1>5, <1>8, <1>10, <2>1
<1>12. msg_system = "posix" => Len(d) <= MAX_MSG
  BY <1>4, <1>8, MsgIntegers
<1> QED BY <1>1, <1>2, <1>4, <1>7, <1>8, <1>9, <1>11, <1>12, MsgQueueChanged

-----------------------------------------------------------------------------
(* The server of Messages.                                                 *)

LEMMA MsgStartServer == MsgInv /\ Msg!StartServer => MsgInv'
<1> SUFFICES ASSUME MsgInv, Msg!StartServer PROVE MsgInv'
  OBVIOUS
<1>1. Msg!Names \in MsgLists
  BY DEF Msg!Names, MsgLists
<1>2. /\ UNCHANGED <<msg_system, msg_name, msg_queue, killed>>
      /\ msg_run' = msg_run + 1 /\ msg_run' \in 0..MsgRuns
      /\ msg_pc[Server] \in {"off", "done", "killed"}
      /\ Msg!Goto(Server, "open", Msg!Names)
  BY MsgIntegers, RunsAssumption DEF Msg!StartServer
<1>3. /\ msg_pc' \in [Msg!Process -> {"off", "open", "send", "receive", "remove", "done", "ended", "killed"}]
      /\ msg_todo' \in [Msg!Process -> MsgLists \cup {<<>>}]
      /\ msg_pc'[Server] = "open" /\ msg_todo'[Server] = Msg!Names
      /\ \A c \in Client : msg_pc'[c] = msg_pc[c] /\ msg_todo'[c] = msg_todo[c]
  BY <1>1, <1>2, MsgGoto, MsgProcesses
<1>4. /\ msg_handle' \in [Msg!Process -> [Msg!Name -> 0..MsgRuns]]
      /\ msg_handle'[Server] = Msg!Closed /\ \A c \in Client : msg_handle'[c] = msg_handle[c]
  <2>1. Msg!Closed \in [Msg!Name -> 0..MsgRuns]
    BY RunsAssumption DEF Msg!Closed
  <2> QED BY <2>1, MsgProcesses DEF MsgInv, Msg!TypeOK, Msg!StartServer
<1>5. /\ msg_got' \in [Msg!Process -> Msg!Message \cup {Msg!NoMessage}]
      /\ msg_got'[Server] = Msg!NoMessage /\ \A c \in Client : msg_got'[c] = msg_got[c]
  BY MsgProcesses DEF MsgInv, Msg!TypeOK, Msg!StartServer
<1>6. Msg!TypeOK'
  BY <1>2, <1>3, <1>4, <1>5, MsgIntegers DEF MsgInv, Msg!TypeOK
<1>7. MsgNamesInv'
  <2> SUFFICES ASSUME NEW x \in Msg!Name
               PROVE  /\ msg_name[x] <= msg_run + 1
                      /\ \A p \in Msg!Process : msg_handle'[p][x] <= msg_run + 1
                      /\ msg_name[x] # 0 => msg_name[x]..msg_run + 1 \subseteq killed \cup {msg_run + 1}
                      /\ ~MsgUsed(x)' => msg_name[x] = 0
    BY <1>2 DEF MsgNamesInv
  <2>1. \A p \in Msg!Process : msg_handle'[p][x] <= msg_run + 1
    BY <1>4, MsgProcesses, MsgIntegers DEF Msg!Closed
  <2>2. msg_name[x] # 0 => msg_run \in killed
    BY <1>2, MsgIntegers DEF MsgInv, MsgServerInv
  <2>3. msg_name[x] # 0 => msg_name[x]..msg_run \subseteq killed \cup {msg_run}
    BY DEF MsgInv, MsgNamesInv
  <2> QED BY <2>1, <2>2, <2>3, <1>2, MsgIntegers DEF MsgInv, MsgNamesInv, MsgUsed
<1>8. MsgServerInv'
  BY <1>2, <1>3, MsgIntegers DEF MsgServerInv, MsgOpening, Msg!Names, MsgInv, Msg!TypeOK
<1>9. MsgClientInv'
  BY <1>2, <1>3, <1>4, <1>5, MsgIntegers, MsgClientKept DEF MsgClientInv
<1>10. MsgQueueInv'
  BY <1>2, <1>3, <1>4, MsgIntegers, MsgAstrayKept, MsgQueueKept DEF MsgServerGoesOn
<1>11. MsgAnswerInv'
  BY <1>5 DEF MsgAnswerInv, AnswerOfRun, Msg!AnswerOfRun
<1> QED BY <1>3, <1>6, <1>7, <1>8, <1>9, <1>10, <1>11 DEF MsgInv


LEMMA MsgOpenOrMake == MsgInv /\ Msg!OpenOrMake => MsgInv'
<1> SUFFICES ASSUME MsgInv, Msg!OpenOrMake PROVE MsgInv'
  OBVIOUS
<1>1. PICK x : x = Head(msg_todo[Server])
  OBVIOUS
<1>2. /\ UNCHANGED <<msg_system, msg_run, msg_queue, msg_got, killed>>
      /\ msg_pc[Server] = "open" /\ MsgOpening(Server) /\ Msg!Through(Server, "send")
      /\ msg_name' = [msg_name EXCEPT ![x] = IF @ = 0 THEN msg_run ELSE @]
      /\ msg_handle' = [msg_handle EXCEPT ![Server][x] = msg_name'[x]]
  BY <1>1 DEF Msg!OpenOrMake, MsgInv, MsgServerInv
<1>3. \/ /\ msg_system = "sysv" /\ x = "from_server" /\ Msg!Goto(Server, "send", <<>>)
      \/ /\ msg_system = "posix" /\ msg_todo[Server] = <<"from_client">> /\ x = "from_client"
         /\ Msg!Goto(Server, "send", <<>>)
      \/ /\ msg_system = "posix" /\ msg_todo[Server] = <<"from_server", "from_client">>
         /\ x = "from_server" /\ Msg!Goto(Server, "open", <<"from_client">>)
  BY <1>1, <1>2, MsgThrough, MsgProcesses
<1>4. PICK place \in {"open", "send"}, names \in MsgLists \cup {<<>>} :
        Msg!Goto(Server, place, names) /\ (place = "open" => msg_system = "posix" /\ names = <<"from_client">>)
  BY <1>3 DEF MsgLists
<1>5. /\ msg_pc' \in [Msg!Process -> {"off", "open", "send", "receive", "remove", "done", "ended", "killed"}]
      /\ msg_todo' \in [Msg!Process -> MsgLists \cup {<<>>}]
      /\ msg_pc'[Server] = place /\ msg_todo'[Server] = names
      /\ \A c \in Client : msg_pc'[c] = msg_pc[c] /\ msg_todo'[c] = msg_todo[c]
  BY <1>4, MsgGoto, MsgProcesses
<1>6. x \in Msg!Name /\ MsgUsed(x)
  BY <1>3 DEF Msg!Name, MsgUsed
<1>7. /\ msg_run \in 0..MsgRuns /\ msg_run # 0
      /\ msg_name' \in [Msg!Name -> 0..MsgRuns]
      /\ msg_name'[x] # 0 /\ msg_name'[x] = IF msg_name[x] = 0 THEN msg_run ELSE msg_name[x]
      /\ \A y \in Msg!Name : y # x => msg_name'[y] = msg_name[y]
  BY <1>2, <1>6 DEF MsgInv, Msg!TypeOK, MsgServerInv
<1>8. /\ msg_handle' \in [Msg!Process -> [Msg!Name -> 0..MsgRuns]]
      /\ msg_handle'[Server][x] = msg_name'[x]
      /\ \A y \in Msg!Name : y # x => msg_handle'[Server][y] = msg_handle[Server][y]
      /\ \A c \in Client : msg_handle'[c] = msg_handle[c]
  <2>1. msg_handle \in [Msg!Process -> [Msg!Name -> 0..MsgRuns]] /\ msg_name'[x] \in 0..MsgRuns
    BY <1>6, <1>7 DEF MsgInv, Msg!TypeOK
  <2> QED BY <1>2, <1>6, <2>1, MsgProcesses
<1>9. Msg!TypeOK'
  BY <1>2, <1>5, <1>7, <1>8 DEF MsgInv, Msg!TypeOK
<1>10. MsgNamesInv'
  <2> SUFFICES ASSUME NEW y \in Msg!Name
               PROVE  /\ msg_name'[y] <= msg_run
                      /\ \A p \in Msg!Process : msg_handle'[p][y] <= msg_run
                      /\ msg_name'[y] # 0 => msg_name'[y]..msg_run \subseteq killed \cup {msg_run}
                      /\ ~MsgUsed(y) => msg_name'[y] = 0
    BY <1>2 DEF MsgNamesInv, MsgUsed
  <2>1. msg_name'[y] <= msg_run
    BY <1>7, MsgIntegers
  <2>2. \A p \in Msg!Process : msg_handle'[p][y] <= msg_run
    <3> SUFFICES ASSUME NEW p \in Msg!Process PROVE msg_handle'[p][y] <= msg_run
      OBVIOUS
    <3>1. CASE p = Server /\ y = x
      <4>1. msg_name[x] <= msg_run /\ msg_run <= msg_run
        BY <1>6, MsgIntegers
      <4> QED BY <1>7, <1>8, <3>1, <4>1
    <3>2. CASE p \in Client \/ y # x
      <4>1. msg_handle'[p][y] = msg_handle[p][y]
        BY <1>8, <3>2, MsgProcesses
      <4> QED BY <4>1, MsgIntegers
    <3> QED BY <3>1, <3>2, MsgProcesses
  <2>3. msg_run..msg_run = {msg_run}
    BY <1>7
  <2> QED BY <1>6, <1>7, <2>1, <2>2, <2>3 DEF MsgInv, MsgNamesInv
<1>11. MsgServerInv'
  <2>1. place = "send" => \A y \in Msg!Name : MsgUsed(y) => msg_name'[y] # 0 /\ msg_handle'[Server][y] = msg_name'[y]
    <3> SUFFICES ASSUME place = "send", NEW y \in Msg!Name, MsgUsed(y), y # x
                 PROVE  msg_name[y] # 0 /\ msg_handle[Server][y] = msg_name[y]
      BY <1>6, <1>7, <1>8
    <3>1. msg_system = "posix" /\ msg_todo[Server] = <<"from_client">> /\ y = "from_server"
      <4>1. msg_pc'[Server] = "send" => ~Msg!Goto(Server, "open", <<"from_client">>)
        BY MsgProcesses DEF Msg!Goto, MsgInv, Msg!TypeOK
      <4> QED BY <1>3, <1>5, <4>1 DEF MsgUsed, Msg!Name
    <3> QED BY <1>2, <3>1 DEF MsgInv, MsgServerInv
  <2>2. place = "open" => x = "from_server"
    <3>1. msg_pc'[Server] = "open" => ~Msg!Goto(Server, "send", <<>>)
      BY MsgProcesses DEF Msg!Goto, MsgInv, Msg!TypeOK
    <3> QED BY <1>3, <1>5, <3>1
  <2>3. CASE place = "open"
    <3>1. msg_system' = "posix" /\ msg_todo'[Server] = <<"from_client">> /\ msg_pc'[Server] = "open"
      BY <1>2, <1>4, <1>5, <2>3
    <3>2. msg_name'["from_server"] # 0 /\ msg_handle'[Server]["from_server"] = msg_name'["from_server"]
      BY <1>7, <1>8, <2>2, <2>3
    <3> QED BY <1>2, <1>7, <3>1, <3>2 DEF MsgServerInv, MsgOpening
  <2>4. CASE place = "send"
    <3>1. msg_pc'[Server] = "send" /\ msg_run' # 0
      BY <1>2, <1>5, <1>7, <2>4
    <3>2. \A y \in Msg!Name : MsgUsed(y)' => msg_name'[y] # 0 /\ msg_handle'[Server][y] = msg_name'[y]
      BY <1>2, <2>1, <2>4 DEF MsgUsed
    <3> QED BY <3>1, <3>2 DEF MsgServerInv
  <2> QED BY <1>4, <2>3, <2>4
<1>12. MsgClientInv'
  <2>1. msg_run' \in Nat /\ msg_run' >= msg_run /\ UNCHANGED <<msg_system, msg_got>>
    BY <1>2, MsgIntegers
  <2> QED BY <1>5, <1>8, <2>1, MsgClientKept DEF MsgClientInv
<1>13. MsgAstray => MsgAstray'
  BY <1>2, <1>8, MsgAstrayKept
<1>14. MsgQueueInv'
  BY <1>2, <1>13, MsgIntegers, MsgQueueKept DEF MsgServerGoesOn
<1>15. MsgAnswerInv'
  BY <1>2, <1>13, MsgAnswerKept
<1> QED BY <1>5, <1>9, <1>10, <1>11, <1>12, <1>14, <1>15 DEF MsgInv

LEMMA MsgSendHi == MsgInv /\ Msg!SendHi => MsgInv'
<1> SUFFICES ASSUME MsgInv, Msg!SendHi PROVE MsgInv'
  OBVIOUS
<1>1. /\ UNCHANGED <<msg_system, msg_run, msg_name, msg_handle, msg_got, killed>>
      /\ msg_pc[Server] = "send" /\ Msg!Goto(Server, "receive", <<>>)
      /\ Msg!Send(Server, [type |-> "Hi!", run |-> msg_run])
  BY DEF Msg!SendHi
<1>2. /\ msg_pc' \in [Msg!Process -> {"off", "open", "send", "receive", "remove", "done", "ended", "killed"}]
      /\ msg_todo' \in [Msg!Process -> MsgLists \cup {<<>>}]
      /\ msg_pc'[Server] = "receive"
      /\ \A c \in Client : msg_pc'[c] = msg_pc[c] /\ msg_todo'[c] = msg_todo[c]
  BY <1>1, MsgGoto, MsgProcesses
<1>3. PICK m \in Msg!Message : m = [type |-> "Hi!", run |-> msg_run]
  <2>1. msg_run \in Msg!Run
    BY <1>1, MsgIntegers DEF MsgInv, MsgServerInv
  <2> QED BY <2>1 DEF Msg!Message
<1>4. MsgAstray => MsgAstray'
  BY <1>1, MsgAstrayKept
<1>5. MsgServerGoesOn
  BY <1>1, <1>2, <1>4, MsgIntegers DEF MsgServerGoesOn
<1>6. /\ Msg!Way(m.type) = "from_server" /\ msg_handle[Server]["from_server"] # 0
      /\ msg_handle[Server]["from_server"] <= msg_run
  BY <1>1, <1>3, MsgIntegers, MsgProcesses DEF Msg!Way, MsgInv, MsgServerInv, MsgUsed, Msg!Name
<1>7. \A x, r : x = Msg!Way(m.type) /\ r = msg_handle[Server][x] => MsgOf(x, r, m)'
  BY <1>1, <1>2, <1>3, <1>6, MsgIntegers DEF MsgOf, MsgHiInv, MsgHelloInv
<1>8. MsgQueueType' /\ MsgQueueInv'
  BY <1>1, <1>3, <1>5, <1>6, <1>7, MsgSend, MsgProcesses
<1>9. Msg!TypeOK'
  BY <1>1, <1>2, <1>8 DEF MsgInv, Msg!TypeOK, MsgQueueType
<1>10. MsgNamesInv'
  BY <1>1 DEF MsgInv, MsgNamesInv, MsgUsed
<1>11. MsgServerInv'
  BY <1>1, <1>2 DEF MsgInv, MsgServerInv, MsgUsed
<1>12. MsgClientInv'
  BY <1>1, <1>2, MsgIntegers, MsgClientKept DEF MsgClientInv
<1>13. MsgAnswerInv'
  BY <1>1, <1>4, MsgAnswerKept
<1> QED BY <1>2, <1>8, <1>9, <1>10, <1>11, <1>12, <1>13 DEF MsgInv

LEMMA MsgReceiveHello == MsgInv /\ Msg!ReceiveHello => MsgInv'
<1> SUFFICES ASSUME MsgInv, Msg!ReceiveHello PROVE MsgInv'
  OBVIOUS
<1>1. /\ UNCHANGED <<msg_system, msg_run, msg_name, msg_handle, killed>>
      /\ msg_pc[Server] = "receive" /\ Msg!Goto(Server, "remove", Msg!Names)
      /\ Msg!Take(Server, "Hello!")
  BY DEF Msg!ReceiveHello
<1>2. Msg!Names \in MsgLists
  BY DEF Msg!Names, MsgLists
<1>3. /\ msg_pc' \in [Msg!Process -> {"off", "open", "send", "receive", "remove", "done", "ended", "killed"}]
      /\ msg_todo' \in [Msg!Process -> MsgLists \cup {<<>>}]
      /\ msg_pc'[Server] = "remove" /\ msg_todo'[Server] = Msg!Names
      /\ \A c \in Client : msg_pc'[c] = msg_pc[c] /\ msg_todo'[c] = msg_todo[c]
  BY <1>1, <1>2, MsgGoto, MsgProcesses
<1>4. MsgAstray => MsgAstray'
  BY <1>1, MsgAstrayKept
<1>5. MsgServerGoesOn
  BY <1>1, <1>3, <1>4, MsgIntegers DEF MsgServerGoesOn
<1>6. PICK x \in Msg!Name : x = Msg!Way("Hello!") /\ MsgUsed(x)
  BY DEF Msg!Way, Msg!Name, MsgUsed, MsgInv, Msg!TypeOK
<1>7. msg_name[x] # 0 /\ msg_handle[Server][x] = msg_name[x]
  BY <1>1, <1>6 DEF MsgInv, MsgServerInv
<1>8. /\ MsgQueueType' /\ MsgQueueInv'
      /\ \E m \in Msg!Message : /\ msg_got' = [msg_got EXCEPT ![Server] = m]
                                /\ m.type = "Hello!" /\ MsgOf(x, msg_handle[Server][x], m)
  BY <1>1, <1>5, <1>6, <1>7, MsgTake, MsgProcesses
<1>9. PICK m \in Msg!Message : /\ msg_got' = [msg_got EXCEPT ![Server] = m]
                               /\ m.type = "Hello!" /\ MsgOf(x, msg_name[x], m)
  BY <1>7, <1>8
<1>10. /\ msg_got' \in [Msg!Process -> Msg!Message \cup {Msg!NoMessage}]
       /\ msg_got'[Server] = m /\ \A c \in Client : msg_got'[c] = msg_got[c]
  BY <1>9, MsgProcesses DEF MsgInv, Msg!TypeOK
<1>11. Msg!TypeOK'
  BY <1>1, <1>3, <1>8, <1>10 DEF MsgInv, Msg!TypeOK, MsgQueueType
<1>12. MsgNamesInv'
  BY <1>1 DEF MsgInv, MsgNamesInv, MsgUsed
<1>13. MsgServerInv'
  <2>1. msg_run # 0
    BY <1>1 DEF MsgInv, MsgServerInv
  <2>2. MsgOpening(Server)' /\ msg_todo'[Server] # <<"from_client">>
    <3>1. <<"from_server">> # <<"from_client">> /\ <<"from_server", "from_client">> # <<"from_client">>
      <4>1. /\ <<"from_server">>[1] = "from_server" /\ <<"from_client">>[1] = "from_client"
            /\ <<"from_server", "from_client">>[1] = "from_server"
        OBVIOUS
      <4> QED BY <4>1
    <3> QED BY <1>1, <1>3, <3>1 DEF MsgOpening, Msg!Names
  <2> QED BY <1>1, <1>3, <2>1, <2>2 DEF MsgServerInv
<1>14. MsgClientInv'
  BY <1>1, <1>3, <1>10, MsgIntegers, MsgClientKept DEF MsgClientInv
<1>15. MsgAnswerInv'
  <2>1. m.run \in msg_name[x]..msg_run \/ MsgAstray
    BY <1>9, MsgIntegers DEF MsgOf, MsgHelloInv
  <2>2. m.run \in killed \cup {msg_run} \/ MsgAstray
    BY <1>7, <2>1 DEF MsgInv, MsgNamesInv
  <2> QED BY <1>1, <1>4, <1>10, <2>2 DEF MsgAnswerInv, AnswerOfRun, Msg!AnswerOfRun, MsgAstray
<1> QED BY <1>3, <1>8, <1>11, <1>12, <1>13, <1>14, <1>15 DEF MsgInv

LEMMA MsgRemove == MsgInv /\ Msg!Remove => MsgInv'
<1> SUFFICES ASSUME MsgInv, Msg!Remove PROVE MsgInv'
  OBVIOUS
<1>1. PICK x : x = Head(msg_todo[Server])
  OBVIOUS
<1>2. /\ UNCHANGED <<msg_system, msg_run, msg_queue, msg_handle, msg_got, killed>>
      /\ msg_pc[Server] = "remove" /\ MsgOpening(Server) /\ Msg!Through(Server, "done")
      /\ msg_name' = [msg_name EXCEPT ![x] = 0]
  BY <1>1 DEF Msg!Remove, Msg!Unlink, MsgInv, MsgServerInv
<1>3. \/ /\ msg_system = "sysv" /\ x = "from_server" /\ Msg!Goto(Server, "done", <<>>)
      \/ /\ msg_system = "posix" /\ msg_todo[Server] = <<"from_client">> /\ x = "from_client"
         /\ Msg!Goto(Server, "done", <<>>)
      \/ /\ msg_system = "posix" /\ msg_todo[Server] = <<"from_server", "from_client">>
         /\ x = "from_server" /\ Msg!Goto(Server, "remove", <<"from_client">>)
  BY <1>1, <1>2, MsgThrough, MsgProcesses
<1>4. PICK place \in {"remove", "done"}, names \in MsgLists \cup {<<>>} :
        /\ Msg!Goto(Server, place, names)
        /\ place = "remove" => msg_system = "posix" /\ x = "from_server" /\ names = <<"from_client">>
        /\ place = "done" =>
             \/ msg_system = "sysv" /\ x = "from_server"
             \/ msg_system = "posix" /\ x = "from_client" /\ msg_todo[Server] = <<"from_client">>
  BY <1>3 DEF MsgLists
<1>5. /\ msg_pc' \in [Msg!Process -> {"off", "open", "send", "receive", "remove", "done", "ended", "killed"}]
      /\ msg_todo' \in [Msg!Process -> MsgLists \cup {<<>>}]
      /\ msg_pc'[Server] = place /\ msg_todo'[Server] = names
      /\ \A c \in Client : msg_pc'[c] = msg_pc[c] /\ msg_todo'[c] = msg_todo[c]
  BY <1>4, MsgGoto, MsgProcesses
<1>6. /\ x \in Msg!Name /\ 0 \in 0..MsgRuns
      /\ msg_name' \in [Msg!Name -> 0..MsgRuns]
      /\ msg_name'[x] = 0 /\ \A y \in Msg!Name : y # x => msg_name'[y] = msg_name[y]
  BY <1>2, <1>3, RunsAssumption DEF MsgInv, Msg!TypeOK, Msg!Name
<1>7. Msg!TypeOK'
  BY <1>2, <1>5, <1>6 DEF MsgInv, Msg!TypeOK
<1>8. MsgNamesInv'
  BY <1>2, <1>6, MsgIntegers DEF MsgInv, MsgNamesInv, MsgUsed
<1>9. MsgServerInv'
  <2>1. msg_run # 0
    BY <1>2 DEF MsgInv, MsgServerInv
  <2>2. CASE place = "remove"
    BY <1>2, <1>4, <1>5, <1>6, <2>1, <2>2 DEF MsgServerInv, MsgOpening
  <2>3. CASE place = "done"
    <3>1. \A y \in Msg!Name : y # x => msg_name[y] = 0
      BY <1>2, <1>4, <2>3 DEF MsgInv, MsgServerInv, MsgNamesInv, MsgUsed, Msg!Name
    <3> QED BY <1>2, <1>5, <1>6, <2>1, <2>3, <3>1 DEF MsgServerInv
  <2> QED BY <1>4, <2>2, <2>3
<1>10. MsgClientInv'
  BY <1>2, <1>5, MsgIntegers, MsgClientKept DEF MsgClientInv
<1>11. MsgAstray => MsgAstray'
  BY <1>2, MsgAstrayKept
<1>12. MsgQueueInv'
  BY <1>2, <1>4, <1>5, <1>11, MsgIntegers, MsgQueueKept DEF MsgServerGoesOn
<1>13. MsgAnswerInv'
  BY <1>2, <1>11, MsgAnswerKept
<1> QED BY <1>5, <1>7, <1>8, <1>9, <1>10, <1>12, <1>13 DEF MsgInv

-----------------------------------------------------------------------------
(* The clients of Messages, and Kill.                                      *)

LEMMA MsgServerKept ==
  ASSUME MsgInv, UNCHANGED <<msg_system, msg_run, msg_name>>, killed \subseteq killed',
         msg_todo'[Server] = msg_todo[Server], msg_handle'[Server] = msg_handle[Server],
         \/ msg_pc'[Server] = msg_pc[Server]
         \/ /\ msg_pc[Server] # "off"
            /\ msg_pc'[Server] = "killed" /\ msg_run \in killed'
  PROVE  MsgServerInv'
BY DEF MsgInv, MsgServerInv, MsgOpening, MsgUsed

LEMMA MsgStartClient ==
  ASSUME MsgInv, NEW c \in Client, Msg!StartClient(c)
  PROVE  MsgInv'
<1>1. /\ UNCHANGED <<msg_system, msg_run, msg_name, msg_queue, msg_handle, msg_got, killed>>
      /\ msg_pc[c] = "off" /\ Msg!Goto(c, "open", Msg!Names)
  BY DEF Msg!StartClient
<1>2. Msg!Names \in MsgLists
  BY DEF Msg!Names, MsgLists
<1>3. /\ msg_pc' \in [Msg!Process -> {"off", "open", "send", "receive", "remove", "done", "ended", "killed"}]
      /\ msg_todo' \in [Msg!Process -> MsgLists \cup {<<>>}]
      /\ msg_pc'[c] = "open" /\ msg_todo'[c] = Msg!Names
      /\ \A p \in Msg!Process : p # c => msg_pc'[p] = msg_pc[p] /\ msg_todo'[p] = msg_todo[p]
  BY <1>1, <1>2, MsgGoto, MsgProcesses
<1>4. Msg!TypeOK'
  BY <1>1, <1>3 DEF MsgInv, Msg!TypeOK
<1>5. MsgNamesInv'
  BY <1>1 DEF MsgInv, MsgNamesInv, MsgUsed
<1>6. MsgServerInv'
  BY <1>1, <1>3, MsgProcesses, MsgServerKept
<1>7. MsgClientInv'
  <2>1. MsgClientAt(c)'
    <3>1. <<"from_server">> # <<"from_client">> /\ <<"from_server", "from_client">> # <<"from_client">>
      <4>1. /\ <<"from_server">>[1] = "from_server" /\ <<"from_client">>[1] = "from_client"
            /\ <<"from_server", "from_client">>[1] = "from_server"
        OBVIOUS
      <4> QED BY <4>1
    <3>2. msg_handle[c]["from_client"] = 0
      BY <1>1 DEF MsgInv, MsgClientInv, MsgClientAt
    <3> QED BY <1>1, <1>3, <3>1, <3>2 DEF MsgClientAt, MsgOpening, Msg!Names
  <2>2. \A d \in Client : d # c => MsgClientAt(d)'
    BY <1>1, <1>3, MsgProcesses, MsgIntegers, MsgClientKept
  <2> QED BY <2>1, <2>2 DEF MsgClientInv
<1>8. MsgAstray => MsgAstray'
  BY <1>1, MsgAstrayKept
<1>9. MsgQueueInv'
  BY <1>1, <1>3, <1>8, MsgProcesses, MsgIntegers, MsgQueueKept DEF MsgServerGoesOn
<1>10. MsgAnswerInv'
  BY <1>1, <1>8, MsgAnswerKept
<1> QED BY <1>3, <1>4, <1>5, <1>6, <1>7, <1>9, <1>10 DEF MsgInv

LEMMA MsgOpen ==
  ASSUME MsgInv, NEW c \in Client, Msg!Open(c)
  PROVE  MsgInv'
<1>1. PICK x : x = Head(msg_todo[c])
  OBVIOUS
<1>2. /\ UNCHANGED <<msg_system, msg_run, msg_name, msg_queue, msg_got, killed>>
      /\ msg_pc[c] = "open" /\ MsgOpening(c)
      /\ \/ /\ msg_name[x] # 0 /\ Msg!Through(c, "receive")
            /\ msg_handle' = [msg_handle EXCEPT ![c][x] = msg_name[x]]
         \/ Msg!Goto(c, "ended", <<>>) /\ UNCHANGED msg_handle
  BY <1>1 DEF Msg!Open, MsgInv, MsgClientInv, MsgClientAt
<1>3. PICK place \in {"open", "receive", "ended"}, names \in MsgLists \cup {<<>>} :
        /\ Msg!Goto(c, place, names)
        /\ place = "ended" => UNCHANGED msg_handle
        /\ place # "ended" => /\ x \in Msg!Name /\ msg_name[x] # 0
                              /\ msg_handle' = [msg_handle EXCEPT ![c][x] = msg_name[x]]
        /\ place = "open" => msg_system = "posix" /\ x = "from_server" /\ names = <<"from_client">>
        /\ place = "receive" =>
             \/ msg_system = "sysv" /\ x = "from_server"
             \/ msg_system = "posix" /\ x = "from_client" /\ msg_todo[c] = <<"from_client">>
  <2>1. CASE Msg!Goto(c, "ended", <<>>) /\ UNCHANGED msg_handle
    BY <2>1
  <2>2. CASE /\ msg_name[x] # 0 /\ Msg!Through(c, "receive")
             /\ msg_handle' = [msg_handle EXCEPT ![c][x] = msg_name[x]]
    <3>1. \/ /\ msg_system = "sysv" /\ x = "from_server" /\ Msg!Goto(c, "receive", <<>>)
          \/ /\ msg_system = "posix" /\ msg_todo[c] = <<"from_client">> /\ x = "from_client"
             /\ Msg!Goto(c, "receive", <<>>)
          \/ /\ msg_system = "posix" /\ msg_todo[c] = <<"from_server", "from_client">>
             /\ x = "from_server" /\ Msg!Goto(c, "open", <<"from_client">>)
      BY <1>1, <1>2, <2>2, MsgThrough, MsgProcesses
    <3> QED BY <2>2, <3>1 DEF MsgLists, Msg!Name
  <2> QED BY <1>2, <2>1, <2>2
<1>4. /\ msg_pc' \in [Msg!Process -> {"off", "open", "send", "receive", "remove", "done", "ended", "killed"}]
      /\ msg_todo' \in [Msg!Process -> MsgLists \cup {<<>>}]
      /\ msg_pc'[c] = place /\ msg_todo'[c] = names
      /\ \A p \in Msg!Process : p # c => msg_pc'[p] = msg_pc[p] /\ msg_todo'[p] = msg_todo[p]
  BY <1>3, MsgGoto, MsgProcesses
<1>5. /\ msg_handle' \in [Msg!Process -> [Msg!Name -> 0..MsgRuns]]
      /\ \A p \in Msg!Process : p # c => msg_handle'[p] = msg_handle[p]
      /\ place # "ended" => /\ msg_handle'[c][x] = msg_name[x]
                            /\ \A y \in Msg!Name : y # x => msg_handle'[c][y] = msg_handle[c][y]
  <2>1. /\ msg_handle \in [Msg!Process -> [Msg!Name -> 0..MsgRuns]]
        /\ msg_name \in [Msg!Name -> 0..MsgRuns] /\ c \in Msg!Process
    BY MsgProcesses DEF MsgInv, Msg!TypeOK
  <2>2. CASE place = "ended"
    BY <1>3, <2>1, <2>2
  <2>3. CASE place # "ended"
    <3>1. x \in Msg!Name /\ msg_handle' = [msg_handle EXCEPT ![c][x] = msg_name[x]]
      BY <1>3, <2>3
    <3> QED BY <2>1, <3>1
  <2> QED BY <2>2, <2>3
<1>6. Msg!TypeOK'
  BY <1>2, <1>4, <1>5 DEF MsgInv, Msg!TypeOK
<1>7. MsgNamesInv'
  <2>1. ASSUME NEW p \in Msg!Process, NEW y \in Msg!Name PROVE msg_handle'[p][y] <= msg_run
    <3>1. msg_handle'[p][y] = msg_handle[p][y] \/ msg_handle'[p][y] = msg_name[y]
      BY <1>3, <1>5
    <3> QED BY <3>1, MsgIntegers
  <2> QED BY <1>2, <2>1 DEF MsgInv, MsgNamesInv, MsgUsed
<1>8. MsgServerInv'
  BY <1>2, <1>4, <1>5, MsgProcesses, MsgServerKept
<1>9. msg_handle[c]["from_client"] = 0
  BY <1>2 DEF MsgInv, MsgClientInv, MsgClientAt
<1>10. MsgClientInv'
  <2>4. MsgClientAt(c)'
    <3>1. CASE place = "ended"
      BY <1>4, <3>1 DEF MsgClientAt
    <3>2. CASE place = "open"
      <4>1. msg_handle'[c]["from_client"] = 0 /\ msg_handle'[c]["from_server"] # 0
        BY <1>3, <1>5, <1>9, <3>2 DEF Msg!Name
      <4> QED BY <1>2, <1>3, <1>4, <3>2, <4>1 DEF MsgClientAt, MsgOpening
    <3>3. CASE place = "receive"
      <4>1. msg_todo[c] = <<"from_client">> => msg_handle[c]["from_server"] # 0
        BY <1>2 DEF MsgInv, MsgClientInv, MsgClientAt
      <4>2. \A y \in Msg!Name : MsgUsed(y) => msg_handle'[c][y] # 0
        BY <1>3, <1>5, <3>3, <4>1 DEF MsgUsed, Msg!Name
      <4> QED BY <1>2, <1>4, <3>3, <4>2 DEF MsgClientAt, MsgUsed
    <3> QED BY <1>3, <3>1, <3>2, <3>3
  <2>5. \A d \in Client : d # c => MsgClientAt(d)'
    <3>1. msg_run' \in Nat /\ msg_run' >= msg_run /\ UNCHANGED <<msg_system, msg_got>>
      BY <1>2, MsgIntegers
    <3>2. \A d \in Client : d # c => /\ msg_pc'[d] = msg_pc[d] /\ msg_todo'[d] = msg_todo[d]
                                    /\ msg_handle'[d] = msg_handle[d]
      BY <1>4, <1>5, MsgProcesses
    <3> QED BY <3>1, <3>2, MsgClientKept
  <2> QED BY <2>4, <2>5 DEF MsgClientInv
<1>11. MsgAstray => MsgAstray'
  <2> SUFFICES ASSUME NEW d \in Client, Msg!Astray(d) PROVE Msg!Astray(d)'
    BY DEF MsgAstray
  <2>1. d # c
    BY <1>9, MsgIntegers, MsgProcesses DEF Msg!Astray, Msg!Name
  <2> QED BY <1>2, <1>5, <2>1, MsgProcesses DEF Msg!Astray
<1>12. MsgQueueInv'
  BY <1>2, <1>4, <1>11, MsgProcesses, MsgIntegers, MsgQueueKept DEF MsgServerGoesOn
<1>13. MsgAnswerInv'
  BY <1>2, <1>11, MsgAnswerKept
<1> QED BY <1>4, <1>6, <1>7, <1>8, <1>10, <1>12, <1>13 DEF MsgInv

LEMMA MsgReceiveHi ==
  ASSUME MsgInv, NEW c \in Client, Msg!ReceiveHi(c)
  PROVE  MsgInv'
<1>1. /\ UNCHANGED <<msg_system, msg_run, msg_name, msg_handle, killed>>
      /\ msg_pc[c] = "receive" /\ Msg!Goto(c, "send", <<>>)
      /\ Msg!Take(c, "Hi!")
  BY DEF Msg!ReceiveHi
<1>2. /\ msg_pc' \in [Msg!Process -> {"off", "open", "send", "receive", "remove", "done", "ended", "killed"}]
      /\ msg_todo' \in [Msg!Process -> MsgLists \cup {<<>>}]
      /\ msg_pc'[c] = "send" /\ msg_todo'[c] = <<>>
      /\ \A q \in Msg!Process : q # c => msg_pc'[q] = msg_pc[q] /\ msg_todo'[q] = msg_todo[q]
  BY <1>1, MsgGoto, MsgProcesses
<1>3. MsgAstray => MsgAstray'
  BY <1>1, MsgAstrayKept
<1>4. MsgServerGoesOn
  BY <1>1, <1>2, <1>3, MsgIntegers, MsgProcesses DEF MsgServerGoesOn
<1>5. Msg!Way("Hi!") = "from_server" /\ msg_handle[c]["from_server"] # 0
  BY <1>1 DEF Msg!Way, Msg!Name, MsgUsed, MsgInv, MsgClientInv, MsgClientAt
<1>6. /\ MsgQueueType' /\ MsgQueueInv'
      /\ \E m \in Msg!Message : /\ msg_got' = [msg_got EXCEPT ![c] = m]
                                /\ m.type = "Hi!" /\ MsgOf("from_server", msg_handle[c]["from_server"], m)
  BY <1>1, <1>4, <1>5, MsgTake, MsgProcesses
<1>7. PICK m \in Msg!Message : /\ msg_got' = [msg_got EXCEPT ![c] = m]
                               /\ m.type = "Hi!" /\ MsgOf("from_server", msg_handle[c]["from_server"], m)
  BY <1>6
<1>8. /\ msg_got' \in [Msg!Process -> Msg!Message \cup {Msg!NoMessage}]
      /\ msg_got'[c] = m /\ \A q \in Msg!Process : q # c => msg_got'[q] = msg_got[q]
  BY <1>7, MsgProcesses DEF MsgInv, Msg!TypeOK
<1>9. Msg!TypeOK'
  BY <1>1, <1>2, <1>6, <1>8 DEF MsgInv, Msg!TypeOK, MsgQueueType
<1>10. MsgNamesInv'
  BY <1>1 DEF MsgInv, MsgNamesInv, MsgUsed
<1>11. MsgServerInv'
  BY <1>1, <1>2, MsgProcesses, MsgServerKept
<1>12. MsgClientInv'
  <2>1. MsgClientAt(c)'
    <3>1. /\ m.run >= msg_handle[c]["from_server"] /\ m.run <= msg_run
          /\ \A x \in Msg!Name : MsgUsed(x) => msg_handle[c][x] # 0
      BY <1>1, <1>7 DEF MsgOf, MsgHiInv, MsgInv, MsgClientInv, MsgClientAt
    <3> QED BY <1>1, <1>2, <1>8, <3>1 DEF MsgClientAt, MsgUsed
  <2>2. \A d \in Client : d # c => MsgClientAt(d)'
    BY <1>1, <1>2, <1>8, MsgProcesses, MsgIntegers, MsgClientKept
  <2> QED BY <2>1, <2>2 DEF MsgClientInv
<1>13. MsgAnswerInv'
  BY <1>1, <1>3, <1>8, MsgProcesses, MsgAnswerKept
<1> QED BY <1>2, <1>6, <1>9, <1>10, <1>11, <1>12, <1>13 DEF MsgInv

\* What a client does last changes neither handles nor what was taken.
LEMMA MsgClientLast ==
  ASSUME MsgInv, NEW c \in Client,
         UNCHANGED <<msg_system, msg_run, msg_name, msg_handle, msg_got, killed>>,
         Msg!Goto(c, "ended", <<>>),
         MsgServerGoesOn => MsgQueueType' /\ MsgQueueInv'
  PROVE  MsgInv'
<1>1. /\ msg_pc' \in [Msg!Process -> {"off", "open", "send", "receive", "remove", "done", "ended", "killed"}]
      /\ msg_todo' \in [Msg!Process -> MsgLists \cup {<<>>}]
      /\ msg_pc'[c] = "ended" /\ msg_todo'[c] = <<>>
      /\ \A q \in Msg!Process : q # c => msg_pc'[q] = msg_pc[q] /\ msg_todo'[q] = msg_todo[q]
  BY MsgGoto, MsgProcesses
<1>2. MsgAstray => MsgAstray'
  BY MsgAstrayKept
<1>3. MsgQueueType' /\ MsgQueueInv'
  BY <1>1, <1>2, MsgIntegers, MsgProcesses DEF MsgServerGoesOn
<1>4. Msg!TypeOK'
  BY <1>1, <1>3 DEF MsgInv, Msg!TypeOK, MsgQueueType
<1>5. MsgNamesInv'
  BY DEF MsgInv, MsgNamesInv, MsgUsed
<1>6. MsgServerInv'
  BY <1>1, MsgProcesses, MsgServerKept
<1>7. MsgClientInv'
  <2>1. MsgClientAt(c)'
    BY <1>1 DEF MsgClientAt
  <2>2. \A d \in Client : d # c => MsgClientAt(d)'
    BY <1>1, MsgProcesses, MsgIntegers, MsgClientKept
  <2> QED BY <2>1, <2>2 DEF MsgClientInv
<1>8. MsgAnswerInv'
  BY <1>2, MsgAnswerKept
<1> QED BY <1>1, <1>3, <1>4, <1>5, <1>6, <1>7, <1>8 DEF MsgInv

LEMMA MsgSendHello ==
  ASSUME MsgInv, NEW c \in Client, Msg!SendHello(c)
  PROVE  MsgInv'
<1>1. /\ UNCHANGED <<msg_system, msg_run, msg_name, msg_handle, msg_got, killed>>
      /\ msg_pc[c] = "send" /\ Msg!Goto(c, "ended", <<>>)
      /\ Msg!Send(c, [type |-> "Hello!", run |-> msg_got[c].run])
  BY DEF Msg!SendHello
<1>2. /\ msg_got[c] \in Msg!Message
      /\ msg_got[c].run >= msg_handle[c]["from_server"] /\ msg_got[c].run <= msg_run
      /\ \A x \in Msg!Name : MsgUsed(x) => msg_handle[c][x] # 0
  BY <1>1 DEF MsgInv, MsgClientInv, MsgClientAt
<1>3. PICK m \in Msg!Message : m = [type |-> "Hello!", run |-> msg_got[c].run]
  BY <1>2 DEF Msg!Message
<1>4. PICK x \in Msg!Name : /\ x = Msg!Way(m.type) /\ MsgUsed(x)
                            /\ x = IF msg_system = "sysv" THEN "from_server" ELSE "from_client"
  BY <1>3 DEF Msg!Way, Msg!Name, MsgUsed, MsgInv, Msg!TypeOK
<1>5. PICK r \in Msg!Run : r = msg_handle[c][x]
  BY <1>2, <1>4, MsgIntegers, MsgProcesses
\* A client that has not gone astray opened the second queue in the same run
\* of the server as the first, or an older one.
<1>6. m.run >= r \/ MsgAstray
  <2>1. CASE msg_system = "sysv"
    BY <1>2, <1>3, <1>4, <1>5, <2>1
  <2>2. CASE msg_system = "posix"
    <3>1. x = "from_client" /\ msg_handle[c]["from_server"] # 0
          /\ msg_handle[c]["from_server"] \in Nat
      BY <1>2, <1>4, <2>2, MsgIntegers, MsgProcesses DEF MsgUsed, Msg!Name
    <3>2. msg_handle[c]["from_server"] < r => MsgAstray
      BY <1>5, <2>2, <3>1 DEF MsgAstray, Msg!Astray
    <3> QED BY <1>2, <1>3, <1>5, <3>1, <3>2, MsgIntegers
  <2> QED BY <2>1, <2>2 DEF MsgInv, Msg!TypeOK
<1>7. MsgServerGoesOn => MsgQueueType' /\ MsgQueueInv'
  <2> SUFFICES ASSUME MsgServerGoesOn PROVE MsgQueueType' /\ MsgQueueInv'
    OBVIOUS
  <2>1. MsgOf(x, r, m)'
    BY <1>1, <1>2, <1>3, <1>4, <1>6 DEF MsgOf, MsgHiInv, MsgHelloInv, MsgServerGoesOn
  <2>2. \A y, s : y = Msg!Way(m.type) /\ s = msg_handle[c][y] => MsgOf(y, s, m)'
    BY <1>4, <1>5, <2>1
  <2>3. Msg!Send(c, m) /\ m.type # "Hi!" /\ msg_handle[c][Msg!Way(m.type)] # 0
    BY <1>1, <1>2, <1>3, <1>4
  <2> QED BY <2>2, <2>3, MsgSend, MsgProcesses
<1> QED BY <1>1, <1>7, MsgClientLast

LEMMA MsgFail ==
  ASSUME MsgInv, NEW c \in Client, Msg!Fail(c)
  PROVE  MsgInv'
<1>1. /\ UNCHANGED <<msg_system, msg_run, msg_name, msg_handle, msg_got, killed, msg_queue>>
      /\ Msg!Goto(c, "ended", <<>>)
  BY DEF Msg!Fail
<1>2. MsgServerGoesOn => MsgQueueType' /\ MsgQueueInv'
  BY <1>1, MsgQueueKept DEF MsgInv, Msg!TypeOK, MsgQueueType
<1> QED BY <1>1, <1>2, MsgClientLast

LEMMA MsgKill ==
  ASSUME MsgInv, NEW p \in Msg!Process, Msg!Kill(p)
  PROVE  MsgInv'
<1>1. /\ UNCHANGED <<msg_system, msg_run, msg_name, msg_queue, msg_handle, msg_got>>
      /\ msg_pc[p] \notin {"off", "done", "ended", "killed"} /\ Msg!Goto(p, "killed", <<>>)
      /\ killed' = IF p = Server THEN killed \cup {msg_run} ELSE killed
  BY DEF Msg!Kill
<1>2. /\ msg_pc' \in [Msg!Process -> {"off", "open", "send", "receive", "remove", "done", "ended", "killed"}]
      /\ msg_todo' \in [Msg!Process -> MsgLists \cup {<<>>}]
      /\ msg_pc'[p] = "killed" /\ msg_todo'[p] = <<>>
      /\ \A q \in Msg!Process : q # p => msg_pc'[q] = msg_pc[q] /\ msg_todo'[q] = msg_todo[q]
  BY <1>1, MsgGoto
<1>3. p = Server => msg_run # 0 /\ msg_run \in 1..msg_run
  BY <1>1, MsgIntegers DEF MsgInv, MsgServerInv
<1>4. Msg!TypeOK'
  BY <1>1, <1>2, <1>3 DEF MsgInv, Msg!TypeOK
<1>5. MsgNamesInv'
  BY <1>1 DEF MsgInv, MsgNamesInv, MsgUsed
<1>6. MsgServerInv'
  <2>1. CASE p = Server
    BY <1>1, <1>2, <1>3, <2>1 DEF MsgServerInv
  <2>2. CASE p # Server
    BY <1>1, <1>2, <2>2, MsgProcesses, MsgServerKept
  <2> QED BY <2>1, <2>2
<1>7. MsgClientInv'
  <2> SUFFICES ASSUME NEW c \in Client PROVE MsgClientAt(c)'
    BY DEF MsgClientInv
  <2>1. CASE c = p
    BY <1>2, <2>1 DEF MsgClientAt
  <2>2. CASE c # p
    BY <1>1, <1>2, <2>2, MsgProcesses, MsgIntegers, MsgClientKept
  <2> QED BY <2>1, <2>2
<1>8. MsgAstray => MsgAstray'
  BY <1>1, MsgAstrayKept
<1>9. MsgQueueInv'
  BY <1>1, <1>2, <1>8, MsgProcesses, MsgIntegers, MsgQueueKept DEF MsgServerGoesOn
<1>10. MsgAnswerInv'
  BY <1>1, <1>8, MsgAnswerKept
<1> QED BY <1>2, <1>4, <1>5, <1>6, <1>7, <1>9, <1>10 DEF MsgInv

LEMMA MsgStep == MsgInv /\ [Msg!Next]_msgVars => MsgInv'
<1> SUFFICES ASSUME MsgInv, [Msg!Next]_msgVars PROVE MsgInv'
  OBVIOUS
<1>1. CASE UNCHANGED msgVars
  <2>1. /\ UNCHANGED <<msg_system, msg_run, msg_name, msg_queue, msg_pc, msg_todo>>
        /\ UNCHANGED <<msg_handle, msg_got, killed>>
    BY <1>1 DEF msgVars
  <2>2. Msg!TypeOK' /\ MsgNamesInv' /\ msg_todo' \in [Msg!Process -> MsgLists \cup {<<>>}]
    BY <2>1 DEF MsgInv, Msg!TypeOK, MsgNamesInv, MsgUsed
  <2>3. MsgServerInv'
    BY <2>1 DEF MsgInv, MsgServerInv, MsgOpening, MsgUsed
  <2>4. MsgClientInv'
    BY <2>1 DEF MsgInv, MsgClientInv, MsgClientAt, MsgOpening, MsgUsed
  <2>5. MsgAstray => MsgAstray'
    BY <2>1, MsgAstrayKept
  <2>6. MsgQueueInv'
    BY <2>1, <2>5, MsgIntegers, MsgQueueKept DEF MsgServerGoesOn
  <2>7. MsgAnswerInv'
    BY <2>1, <2>5, MsgAnswerKept
  <2> QED BY <2>2, <2>3, <2>4, <2>6, <2>7 DEF MsgInv
<1>2. CASE Msg!StartServer \/ Msg!ServerStep
  BY <1>2, MsgStartServer, MsgOpenOrMake, MsgSendHi, MsgReceiveHello, MsgRemove DEF Msg!ServerStep
<1>3. CASE \E c \in Client : Msg!StartClient(c) \/ Msg!ClientStep(c)
  BY <1>3, MsgStartClient, MsgOpen, MsgReceiveHi, MsgSendHello, MsgFail DEF Msg!ClientStep
<1>4. CASE \E p \in Msg!Process : Msg!Kill(p)
  BY <1>4, MsgKill
<1> QED BY <1>1, <1>2, <1>3, <1>4 DEF Msg!Next

-----------------------------------------------------------------------------
(* What follows from the invariant.                                        *)

LEMMA MsgCardinality == \A S : Msg!Cardinality(S) = Cardinality(S)
BY DEF Msg!Cardinality, Cardinality

\* The messages in the way of the server's are of different runs that were killed.
LEMMA MsgBlocked == MsgInv => BlockedByTheKilled
<1> SUFFICES ASSUME MsgInv, msg_pc[Server] = "send", msg_system = "posix",
                    Len(Msg!Queue(Server, "Hi!")) >= MAX_MSG
             PROVE  Cardinality(killed) >= MAX_MSG
  BY MsgCardinality DEF BlockedByTheKilled, Msg!BlockedByTheKilled
<1>1. PICK r \in Msg!Run : /\ r = msg_name["from_server"] /\ r = msg_handle[Server]["from_server"]
                           /\ msg_name["from_server"] # 0
  BY MsgIntegers DEF MsgInv, MsgServerInv, MsgUsed, Msg!Name
<1>2. PICK q \in Seq(Msg!Message) : q = msg_queue["from_server"][r] /\ q = Msg!Queue(Server, "Hi!")
  BY <1>1, MsgInQueue DEF Msg!Queue, Msg!Way, Msg!Name
<1>3. ASSUME NEW k \in 1..Len(q) PROVE q[k].run \in killed
  <2>1. q[k] \in Msg!Message /\ MsgOf("from_server", r, q[k])
    BY <1>2, MsgInQueue DEF Msg!Name
  <2>2. q[k].type = "Hi!"
    BY <2>1 DEF Msg!Message, MsgOf, MsgHelloInv
  <2>3. q[k].run \in r..msg_run /\ q[k].run # msg_run
    BY <2>1, <2>2, MsgIntegers DEF MsgOf, MsgHiInv
  <2> QED BY <1>1, <2>3 DEF MsgInv, MsgNamesInv, Msg!Name
<1>4. \A j, k \in 1..Len(q) : q[j].run = q[k].run => j = k
  BY <1>2 DEF MsgInv, MsgQueueInv
<1>5. IsFiniteSet(killed)
  <2>1. killed \subseteq 1..msg_run /\ msg_run \in Nat
    BY MsgIntegers DEF MsgInv, Msg!TypeOK
  <2>2. IsFiniteSet(1..msg_run)
    BY <2>1, FS_Interval
  <2> QED BY <2>1, <2>2, FS_Subset
<1>6. Len(q) \in Nat /\ Len(q) >= MAX_MSG
  BY <1>2
<1> DEFINE f == [k \in 1..Len(q) |-> q[k].run]
<1>7. f \in Injection(1..Len(q), killed)
  BY <1>3, <1>4 DEF Injection, IsInjective
<1> HIDE DEF f
<1>8. Cardinality(1..Len(q)) <= Cardinality(killed)
  BY <1>5, <1>7, FS_Injection
<1>9. Cardinality(1..Len(q)) = Len(q)
  <2>1. PICK n \in Nat : n = Len(q)
    BY <1>6
  <2>2. Cardinality(1..n) = IF 1 > n THEN 0 ELSE n - 1 + 1
    BY FS_Interval
  <2> QED BY <2>1, <2>2
<1>10. Cardinality(killed) \in Nat /\ MAX_MSG \in Nat
  BY <1>5, MaxMsgAssumption, FS_CardinalityType
<1> QED BY <1>6, <1>8, <1>9, <1>10

-----------------------------------------------------------------------------
(* SharedMemory: a text each way, System V and POSIX.                      *)

ShmPlaces == {"off", "clear", "open", "reset", "write", "post", "wait", "read", "remove", "attach", "done",
              "ended", "killed"}
ShmLists == {<<>>, <<"shm", "s2c">>, <<"s2c">>, <<"shm", "s2c", "c2s">>, <<"s2c", "c2s">>, <<"c2s">>}

\* A process goes through all objects; those it is through with.
ShmOpening(p) ==
  shm_todo[p] \in IF shm_system = "sysv" THEN {<<"shm", "s2c">>, <<"s2c">>}
                  ELSE {<<"shm", "s2c", "c2s">>, <<"s2c", "c2s">>, <<"c2s">>}
ShmDealt(p) ==
  IF Head(shm_todo[p]) = "shm" THEN {} ELSE IF Head(shm_todo[p]) = "s2c" THEN {"shm"} ELSE {"shm", "s2c"}

\* The server holds what has the names now, unless it has removed them.
ShmNamesInv ==
  /\ \A x \in Shm!Object : shm_name[x] <= shm_run /\ \A p \in Shm!Process : shm_handle[p][x] <= shm_run
  /\ \A x \in Shm!Object :
       shm_handle[Server][x] = 0 \/ shm_name[x] = 0 \/ shm_handle[Server][x] = shm_name[x]
  /\ shm_system = "sysv" =>
       /\ shm_name["s2c"] = shm_name["c2s"]
       /\ \A p \in Shm!Process : shm_handle[p]["s2c"] = shm_handle[p]["c2s"]
  /\ shm_system = "posix" =>
       /\ shm_pc[Server] \notin {"clear", "killed"} => \A x \in Shm!Object : shm_name[x] \in {0, shm_run}
       /\ shm_name["shm"] = shm_run => shm_name["s2c"] \in {0, shm_run}
       /\ \A x \in Shm!Object : shm_handle[Server][x] \in {0, shm_run}
  /\ shm_pc[Server] = "clear" =>
       \A x \in Shm!Object : shm_name[x] < shm_run /\ \A p \in Shm!Process : shm_handle[p][x] < shm_run
  /\ shm_pc[Server] = "open" =>
       shm_name["c2s"] < shm_run /\ \A p \in Shm!Process : shm_handle[p]["c2s"] < shm_run

ShmServerInv ==
  /\ shm_pc[Server] \notin {"attach", "ended"}
  /\ shm_pc[Server] = "off" <=> shm_run = 0
  /\ shm_pc[Server] \in {"clear", "open", "remove"} => ShmOpening(Server)
  /\ shm_pc[Server] = "clear" =>
       shm_system = "posix" /\ \A x \in ShmDealt(Server) : shm_name[x] = 0
  /\ shm_pc[Server] = "open" =>
       /\ \A x \in ShmDealt(Server) : shm_name[x] # 0 /\ shm_handle[Server][x] = shm_name[x]
       /\ shm_system = "posix" => \A x \in Shm!Object \ ShmDealt(Server) : shm_name[x] = 0
  /\ shm_pc[Server] = "reset" => shm_system = "sysv" /\ shm_todo[Server] \in {<<"s2c", "c2s">>, <<"c2s">>}
  /\ shm_pc[Server] \in {"reset", "write", "post", "wait", "read"} =>
       \A x \in Shm!Object : shm_name[x] # 0 /\ shm_handle[Server][x] = shm_name[x]

ShmClientAt(c) ==
  /\ shm_pc[c] \in {"off", "open", "attach", "wait", "read", "write", "post", "ended", "killed"}
  /\ shm_pc[c] = "off" => \A x \in Shm!Object : shm_handle[c][x] = 0
  /\ shm_pc[c] = "open" => ShmOpening(c) /\ \A x \in Shm!Object : x \in ShmDealt(c) <=> shm_handle[c][x] # 0
  /\ shm_pc[c] \in {"attach", "wait", "read", "write", "post"} => \A x \in Shm!Object : shm_handle[c][x] # 0
  /\ shm_system = "posix" /\ shm_handle[c]["shm"] = shm_run =>
       shm_handle[c]["s2c"] \in {0, shm_run} /\ shm_name["s2c"] \in {0, shm_run}
ShmClientInv == \A c \in Client : ShmClientAt(c)

\* A semaphore that is yet to be made is at 0.
ShmFreshInv ==
  \A x \in Shm!Semaphore : \A r \in Shm!Run :
    val[x][r] # 0 => r <= shm_run /\ (r = shm_run => shm_pc[Server] \notin {"clear", "open"})

ShmActive == {c \in Client : shm_pc[c] \in {"read", "write", "post"}}

\* POSIX: every run has objects of its own; its "Hi!" is in the semaphore or
\* with one client, and stays in the memory until that client has read it.
ShmCurrent == {c \in ShmActive : shm_handle[c]["s2c"] = shm_run}
ShmPosixInv ==
  shm_system = "posix" =>
    /\ late = {}
    /\ shm_run # 0 =>
         /\ val["s2c"][shm_run] \in {0, 1}
         /\ val["s2c"][shm_run] = 1 => ShmCurrent = {} /\ mem[shm_run] = "Hi!"
         /\ \A c \in ShmCurrent :
              /\ val["s2c"][shm_run] = 0
              /\ shm_pc[c] = "read" => mem[shm_run] = "Hi!"
              /\ \A d \in ShmCurrent : d = c
         /\ shm_pc[Server] \in {"clear", "open", "write", "post"} =>
              /\ val["s2c"][shm_run] = 0 /\ ShmCurrent = {}
              /\ poster # NoClient => shm_handle[poster]["s2c"] # shm_run
         /\ shm_pc[Server] \in {"wait", "read"} /\ poster # NoClient /\ Shm!Straight(poster) =>
              mem[shm_run] = "Hello!"

\* System V: as long as no client has come late, one text at a time is on its
\* way, whichever run it is of.
ShmIdle(x) == shm_name[x] # 0 => val[x][shm_name[x]] = 0
ShmAfterReset ==
  \/ shm_pc[Server] = "reset" /\ shm_todo[Server] = <<"c2s">>
  \/ shm_pc[Server] \in {"write", "post"}
ShmSysvInv ==
  shm_system = "sysv" /\ late = {} =>
    /\ \A c \in ShmActive :
         /\ shm_name["s2c"] # 0 /\ shm_handle[c]["s2c"] = shm_name["s2c"]
         /\ ShmIdle("s2c") /\ ShmIdle("c2s")
         /\ shm_pc[c] = "read" => shm_name["shm"] # 0 /\ mem[shm_name["shm"]] = "Hi!"
         /\ \A d \in ShmActive : d = c
    /\ shm_name["s2c"] # 0 => val["s2c"][shm_name["s2c"]] + val["c2s"][shm_name["s2c"]] <= 1
    /\ ~ShmIdle("s2c") => shm_name["shm"] # 0 /\ mem[shm_name["shm"]] = "Hi!"
    /\ shm_pc[Server] \in {"write", "post", "read", "remove"} => ShmIdle("c2s")
    /\ shm_pc[Server] \in {"read", "remove"} => ShmIdle("s2c") /\ ShmActive = {}

\* System V: who takes its "Hi!" after the semaphores are set is not late.
ShmLateInv ==
  shm_system = "sysv" =>
    /\ ShmAfterReset => ShmIdle("s2c") /\ ShmActive \subseteq late
    /\ /\ \/ shm_pc[Server] \in {"write", "post", "wait"} /\ ~ShmIdle("c2s")
          \/ shm_pc[Server] = "read"
       /\ poster # NoClient /\ poster \notin late
       => /\ shm_pc[Server] \in {"wait", "read"}
          /\ Shm!Straight(poster) => mem[shm_handle[Server]["shm"]] = "Hello!"

ShmTextInv ==
  /\ shm_pc[Server] = "post" /\ late = {} => mem[shm_handle[Server]["shm"]] = "Hi!"
  /\ shm_pc[Server] \in {"wait", "read"} =>
       \A c \in Client : shm_pc[c] = "post" /\ c \notin late /\ Shm!Straight(c) =>
         mem[shm_handle[Server]["shm"]] = "Hello!"
  /\ poster # NoClient => shm_pc[poster] = "ended"

ShmInv ==
  /\ Shm!TypeOK /\ shm_todo \in [Shm!Process -> ShmLists]
  /\ ShmNamesInv /\ ShmServerInv /\ ShmClientInv /\ ShmFreshInv
  /\ ShmPosixInv /\ ShmSysvInv /\ ShmLateInv /\ ShmTextInv

-----------------------------------------------------------------------------
LEMMA ShmProcesses ==
  /\ Client \subseteq Shm!Process /\ Server \in Shm!Process /\ Server \notin Client
  /\ \A p \in Shm!Process : p \in Client \/ p = Server
  /\ NoClient \notin Client
BY ServerAssumption, NoClientAssumption DEF Shm!Process

LEMMA ShmInitial == Shm!Init => ShmInv
<1> SUFFICES ASSUME Shm!Init PROVE ShmInv
  OBVIOUS
<1>0. 0 \in 0..ShmRuns
  BY RunsAssumption
<1> USE DEF Shm!Init
<1>1. Shm!TypeOK
  <2>2. Shm!Closed \in [Shm!Object -> 0..ShmRuns]
    BY <1>0 DEF Shm!Closed
  <2>3. shm_name \in [Shm!Object -> 0..ShmRuns] /\ shm_handle \in [Shm!Process -> [Shm!Object -> 0..ShmRuns]]
    BY <2>2
  <2>4. /\ mem \in [Shm!Run -> Shm!Text] /\ shm_got \in Shm!Text /\ heard \in [Client -> Shm!Text]
    BY DEF Shm!Text
  <2>5. val \in [Shm!Semaphore -> [Shm!Run -> Nat]]
    OBVIOUS
  <2> QED BY <1>0, <2>3, <2>4, <2>5 DEF Shm!TypeOK
<1>2. shm_todo \in [Shm!Process -> ShmLists]
  BY DEF ShmLists
<1>3. ShmNamesInv /\ ShmServerInv /\ ShmClientInv
  <2>1. /\ \A x \in Shm!Object : shm_name[x] = 0 /\ \A p \in Shm!Process : shm_handle[p][x] = 0
        /\ \A p \in Shm!Process : shm_pc[p] = "off"
        /\ shm_run = 0 /\ shm_system \in {"sysv", "posix"}
        /\ "shm" \in Shm!Object /\ "s2c" \in Shm!Object /\ "c2s" \in Shm!Object
    BY DEF Shm!Closed, Shm!Object
  <2> HIDE DEF Shm!Init
  <2>2. ShmNamesInv
    BY <2>1, ShmProcesses DEF ShmNamesInv
  <2>3. ShmServerInv
    BY <2>1, ShmProcesses DEF ShmServerInv
  <2>4. ShmClientInv
    BY <2>1, ShmProcesses DEF ShmClientInv, ShmClientAt
  <2> QED BY <2>2, <2>3, <2>4
<1>4. ShmFreshInv
  BY DEF ShmFreshInv
<1>5. ShmPosixInv /\ ShmSysvInv /\ ShmLateInv /\ ShmTextInv
  BY ShmProcesses DEF ShmPosixInv, ShmSysvInv, ShmLateInv, ShmTextInv, ShmActive, ShmIdle,
     ShmAfterReset, Shm!Closed, Shm!Object
<1> QED BY <1>1, <1>2, <1>3, <1>4, <1>5 DEF ShmInv

\* What Goto changes.
LEMMA ShmGoto ==
  ASSUME ShmInv, NEW p \in Shm!Process, NEW place \in ShmPlaces, NEW objects \in ShmLists,
         Shm!Goto(p, place, objects)
  PROVE  /\ shm_pc' \in [Shm!Process -> ShmPlaces] /\ shm_todo' \in [Shm!Process -> ShmLists]
         /\ shm_pc'[p] = place /\ shm_todo'[p] = objects
         /\ \A q \in Shm!Process : q # p => shm_pc'[q] = shm_pc[q] /\ shm_todo'[q] = shm_todo[q]
BY DEF ShmInv, Shm!TypeOK, Shm!Goto, ShmPlaces

LEMMA ShmHandles ==
  ASSUME ShmInv, NEW p \in Shm!Process, NEW h \in [Shm!Object -> 0..ShmRuns],
         shm_handle' = [shm_handle EXCEPT ![p] = h]
  PROVE  /\ shm_handle' \in [Shm!Process -> [Shm!Object -> 0..ShmRuns]] /\ shm_handle'[p] = h
         /\ \A q \in Shm!Process : q # p => shm_handle'[q] = shm_handle[q]
<1>1. shm_handle \in [Shm!Process -> [Shm!Object -> 0..ShmRuns]]
  BY DEF ShmInv, Shm!TypeOK
<1> QED BY <1>1

LEMMA ShmListsAre ==
  /\ Len(<<"shm", "s2c">>) = 2 /\ Len(<<"s2c">>) = 1
  /\ Len(<<"shm", "s2c", "c2s">>) = 3 /\ Len(<<"s2c", "c2s">>) = 2 /\ Len(<<"c2s">>) = 1
  /\ Head(<<"shm", "s2c">>) = "shm" /\ Head(<<"s2c">>) = "s2c"
  /\ Head(<<"shm", "s2c", "c2s">>) = "shm" /\ Head(<<"s2c", "c2s">>) = "s2c" /\ Head(<<"c2s">>) = "c2s"
  /\ Tail(<<"shm", "s2c">>) = <<"s2c">>
  /\ Tail(<<"shm", "s2c", "c2s">>) = <<"s2c", "c2s">> /\ Tail(<<"s2c", "c2s">>) = <<"c2s">>
OBVIOUS

\* A process that has its list before it is through with nothing.
LEMMA ShmAtStart ==
  ASSUME ShmInv, NEW p \in Shm!Process, shm_system' = shm_system, shm_todo'[p] = Shm!Objects
  PROVE  ShmOpening(p)' /\ ShmDealt(p)' = {}
BY ShmListsAre DEF ShmInv, Shm!TypeOK, Shm!Objects, ShmOpening, ShmDealt

\* Through: one object more, or the next place after the last one.
LEMMA ShmThrough ==
  ASSUME ShmInv, NEW p \in Shm!Process, shm_pc[p] \in ShmPlaces, ShmOpening(p),
         NEW next \in ShmPlaces, NEW objects \in ShmLists, Shm!Through(p, next, objects),
         shm_system' = shm_system
  PROVE  /\ Head(shm_todo[p]) \in Shm!Object
         /\ Head(shm_todo[p]) \notin ShmDealt(p)
         /\ Shm!Parts(Head(shm_todo[p])) \subseteq Shm!Object
         /\ ShmDealt(p) \cap Shm!Parts(Head(shm_todo[p])) = {}
         /\ shm_pc' \in [Shm!Process -> ShmPlaces] /\ shm_todo' \in [Shm!Process -> ShmLists]
         /\ \A q \in Shm!Process : q # p => shm_pc'[q] = shm_pc[q] /\ shm_todo'[q] = shm_todo[q]
         /\ \/ /\ shm_pc'[p] = next /\ shm_todo'[p] = objects
               /\ ShmDealt(p) \cup Shm!Parts(Head(shm_todo[p])) = Shm!Object
               /\ "c2s" \in Shm!Parts(Head(shm_todo[p]))
            \/ /\ shm_pc'[p] = shm_pc[p] /\ ShmOpening(p)'
               /\ ShmDealt(p)' = ShmDealt(p) \cup Shm!Parts(Head(shm_todo[p]))
               /\ "c2s" \notin Shm!Parts(Head(shm_todo[p]))
<1>1. shm_system \in {"sysv", "posix"}
  BY DEF ShmInv, Shm!TypeOK
<1> USE ShmListsAre DEF ShmOpening, ShmDealt, Shm!Parts, Shm!Object, Shm!Semaphore, ShmLists
<1>2. /\ Head(shm_todo[p]) \in Shm!Object /\ Head(shm_todo[p]) \notin ShmDealt(p)
      /\ Shm!Parts(Head(shm_todo[p])) \subseteq Shm!Object
      /\ ShmDealt(p) \cap Shm!Parts(Head(shm_todo[p])) = {}
  BY <1>1
<1>3. CASE Len(shm_todo[p]) = 1
  <2>1. Shm!Goto(p, next, objects)
    BY <1>3 DEF Shm!Through
  <2>2. shm_todo[p] = IF shm_system = "sysv" THEN <<"s2c">> ELSE <<"c2s">>
    BY <1>1, <1>3
  <2>3. /\ ShmDealt(p) \cup Shm!Parts(Head(shm_todo[p])) = Shm!Object
        /\ "c2s" \in Shm!Parts(Head(shm_todo[p]))
    BY <1>1, <2>2
  <2> HIDE DEF ShmOpening, ShmDealt, Shm!Parts, Shm!Object, Shm!Semaphore, ShmLists
  <2> QED BY <1>2, <2>1, <2>3, ShmGoto
<1>4. CASE Len(shm_todo[p]) # 1
  <2>1. Shm!Goto(p, shm_pc[p], Tail(shm_todo[p]))
    BY <1>4 DEF Shm!Through
  <2>2. PICK l \in ShmLists : l = Tail(shm_todo[p])
    BY <1>1, <1>4
  <2>3. /\ shm_pc' \in [Shm!Process -> ShmPlaces] /\ shm_todo' \in [Shm!Process -> ShmLists]
        /\ shm_pc'[p] = shm_pc[p] /\ shm_todo'[p] = Tail(shm_todo[p])
        /\ \A q \in Shm!Process : q # p => shm_pc'[q] = shm_pc[q] /\ shm_todo'[q] = shm_todo[q]
    <3> HIDE DEF ShmLists
    <3> QED BY <2>1, <2>2, ShmGoto
  <2>4. /\ ShmOpening(p)'
        /\ ShmDealt(p)' = ShmDealt(p) \cup Shm!Parts(Head(shm_todo[p]))
        /\ "c2s" \notin Shm!Parts(Head(shm_todo[p]))
    BY <1>1, <1>4, <2>3
  <2> QED BY <1>2, <2>3, <2>4
<1> QED BY <1>3, <1>4

LEMMA ShmChanged ==
  ASSUME ShmInv, NEW p \in Shm!Process, NEW x \in Shm!Semaphore, NEW v \in Nat,
         shm_handle[p][x] # 0, Shm!Change(p, x, v)
  PROVE  /\ shm_handle[p][x] \in Shm!Run
         /\ val' \in [Shm!Semaphore -> [Shm!Run -> Nat]]
         /\ val'[x][shm_handle[p][x]] = v
         /\ \A y \in Shm!Semaphore : \A r \in Shm!Run :
              y # x \/ r # shm_handle[p][x] => val'[y][r] = val[y][r]
<1>1. x \in Shm!Object
  BY DEF Shm!Semaphore, Shm!Object
<1>2. shm_handle[p][x] \in Shm!Run
  BY <1>1, RunsAssumption DEF ShmInv, Shm!TypeOK, Shm!Run
<1>3. val \in [Shm!Semaphore -> [Shm!Run -> Nat]]
  BY DEF ShmInv, Shm!TypeOK
<1>4. PICK r \in Shm!Run : r = shm_handle[p][x]
  BY <1>2
<1>5. val' = [val EXCEPT ![x][r] = v]
  BY <1>4 DEF Shm!Change
<1> QED BY <1>3, <1>4, <1>5

LEMMA ShmRanges ==
  ASSUME ShmInv
  PROVE  /\ shm_run # 0 => shm_run \in Shm!Run
         /\ shm_name["shm"] # 0 => shm_name["shm"] \in Shm!Run
         /\ shm_name["s2c"] # 0 => shm_name["s2c"] \in Shm!Run
         /\ shm_name["c2s"] # 0 => shm_name["c2s"] \in Shm!Run
         /\ shm_pc[Server] \in {"reset", "write", "post", "wait", "read"} =>
              shm_handle[Server]["shm"] \in Shm!Run /\ shm_handle[Server]["shm"] = shm_name["shm"]
<1>1. "shm" \in Shm!Object /\ "s2c" \in Shm!Object /\ "c2s" \in Shm!Object
  BY DEF Shm!Object
<1>2. \A n \in 0..ShmRuns : n # 0 => n \in Shm!Run
  BY RunsAssumption DEF Shm!Run
<1>3. shm_run \in 0..ShmRuns /\ \A x \in Shm!Object : shm_name[x] \in 0..ShmRuns
  BY DEF ShmInv, Shm!TypeOK
<1> QED BY <1>1, <1>2, <1>3 DEF ShmInv, ShmServerInv

LEMMA ShmAttach ==
  ASSUME ShmInv, NEW c \in Client, Shm!Attach(c)
  PROVE  ShmInv'
<1>2. poster # NoClient => poster \in Client /\ poster \in Shm!Process
  BY ShmProcesses DEF ShmInv, Shm!TypeOK
<1>3. /\ shm_name' = shm_name /\ shm_run' = shm_run /\ shm_system' = shm_system
      /\ shm_handle' = shm_handle /\ shm_got' = shm_got /\ val' = val /\ mem' = mem
      /\ heard' = heard /\ poster' = poster /\ late' = late /\ shm_pc[c] = "attach"
  BY DEF Shm!Attach, Shm!texts
<1>4. c \in Shm!Process
  BY ShmProcesses
<1>5. PICK place \in {"ended", "wait"} : Shm!Goto(c, place, <<>>)
  BY DEF Shm!Attach
<1>6. /\ shm_pc' \in [Shm!Process -> ShmPlaces] /\ shm_todo' \in [Shm!Process -> ShmLists]
      /\ shm_pc'[c] \in {"ended", "wait"} /\ shm_todo'[c] = <<>>
      /\ \A q \in Shm!Process : q # c => shm_pc'[q] = shm_pc[q] /\ shm_todo'[q] = shm_todo[q]
  BY <1>4, <1>5, ShmGoto DEF ShmPlaces, ShmLists
<1>7. /\ ShmActive \subseteq Client /\ ShmActive' = ShmActive
      /\ shm_pc'[Server] = shm_pc[Server] /\ shm_todo'[Server] = shm_todo[Server]
      /\ ShmCurrent \subseteq ShmActive /\ ShmCurrent' = ShmCurrent
  <2>1. /\ ShmActive \subseteq Client /\ ShmActive' = ShmActive
        /\ shm_pc'[Server] = shm_pc[Server] /\ shm_todo'[Server] = shm_todo[Server]
    BY <1>3, <1>6, ShmProcesses DEF ShmActive
  <2> QED BY <1>3, <2>1 DEF ShmCurrent
<1>8. Shm!TypeOK' /\ shm_todo' \in [Shm!Process -> ShmLists]
  BY <1>3, <1>6 DEF ShmInv, Shm!TypeOK
<1>9. ShmNamesInv'
  BY <1>3, <1>6, ShmProcesses DEF ShmInv, ShmNamesInv
<1>10. ShmServerInv'
  BY <1>3, <1>6, ShmProcesses DEF ShmInv, ShmServerInv, ShmOpening, ShmDealt
<1>11. ShmClientInv'
  BY <1>3, <1>6, ShmProcesses DEF ShmInv, ShmClientInv, ShmClientAt, ShmOpening, ShmDealt
<1>12. ShmFreshInv'
  BY <1>3, <1>7 DEF ShmInv, ShmFreshInv
<1>13. ShmPosixInv'
  BY <1>3, <1>6, <1>7, ShmProcesses DEF ShmInv, ShmPosixInv, Shm!Straight
<1>14. ShmSysvInv'
  BY <1>3, <1>6, <1>7, ShmProcesses DEF ShmInv, ShmSysvInv, ShmIdle
<1>15. ShmLateInv'
  BY <1>3, <1>7 DEF ShmInv, ShmLateInv, ShmIdle, ShmAfterReset, Shm!Straight
<1>16. ShmTextInv'
  BY <1>2, <1>3, <1>6, ShmProcesses DEF ShmInv, ShmTextInv, Shm!Straight
<1> QED BY <1>8, <1>9, <1>10, <1>11, <1>12, <1>13, <1>14, <1>15, <1>16 DEF ShmInv

LEMMA ShmStartClient ==
  ASSUME ShmInv, NEW c \in Client, Shm!StartClient(c)
  PROVE  ShmInv'
<1>2. poster # NoClient => poster \in Client /\ poster \in Shm!Process
  BY ShmProcesses DEF ShmInv, Shm!TypeOK
<1>3. /\ shm_name' = shm_name /\ shm_run' = shm_run /\ shm_system' = shm_system
      /\ shm_handle' = shm_handle /\ shm_got' = shm_got /\ val' = val /\ mem' = mem
      /\ heard' = heard /\ poster' = poster /\ late' = late /\ shm_pc[c] = "off"
  BY DEF Shm!StartClient, Shm!texts
<1>4. c \in Shm!Process
  BY ShmProcesses
<1>5. PICK place \in {"open"} : Shm!Goto(c, place, Shm!Objects)
  BY DEF Shm!StartClient
<1>6. /\ shm_pc' \in [Shm!Process -> ShmPlaces] /\ shm_todo' \in [Shm!Process -> ShmLists]
      /\ shm_pc'[c] \in {"open"} /\ shm_todo'[c] = Shm!Objects
      /\ \A q \in Shm!Process : q # c => shm_pc'[q] = shm_pc[q] /\ shm_todo'[q] = shm_todo[q]
  BY <1>4, <1>5, ShmGoto DEF ShmPlaces, ShmLists, Shm!Objects
<1>7. /\ ShmActive \subseteq Client /\ ShmActive' = ShmActive
      /\ shm_pc'[Server] = shm_pc[Server] /\ shm_todo'[Server] = shm_todo[Server]
      /\ ShmCurrent \subseteq ShmActive /\ ShmCurrent' = ShmCurrent
  <2>1. /\ ShmActive \subseteq Client /\ ShmActive' = ShmActive
        /\ shm_pc'[Server] = shm_pc[Server] /\ shm_todo'[Server] = shm_todo[Server]
    BY <1>3, <1>6, ShmProcesses DEF ShmActive
  <2> QED BY <1>3, <2>1 DEF ShmCurrent
<1>8. ShmOpening(c)' /\ ShmDealt(c)' = {}
  BY <1>3, <1>4, <1>6, ShmAtStart
<1>9. Shm!TypeOK' /\ shm_todo' \in [Shm!Process -> ShmLists]
  BY <1>3, <1>6 DEF ShmInv, Shm!TypeOK
<1>10. ShmNamesInv'
  BY <1>3, <1>6, ShmProcesses DEF ShmInv, ShmNamesInv
<1>11. ShmServerInv'
  BY <1>3, <1>6, ShmProcesses DEF ShmInv, ShmServerInv, ShmOpening, ShmDealt
<1>12. ShmClientInv'
  BY <1>3, <1>6, <1>8, ShmProcesses DEF ShmInv, ShmClientInv, ShmClientAt, ShmOpening, ShmDealt
<1>13. ShmFreshInv'
  BY <1>3, <1>7 DEF ShmInv, ShmFreshInv
<1>14. ShmPosixInv'
  BY <1>3, <1>6, <1>7, ShmProcesses DEF ShmInv, ShmPosixInv, Shm!Straight
<1>15. ShmSysvInv'
  BY <1>3, <1>6, <1>7, ShmProcesses DEF ShmInv, ShmSysvInv, ShmIdle
<1>16. ShmLateInv'
  BY <1>3, <1>7 DEF ShmInv, ShmLateInv, ShmIdle, ShmAfterReset, Shm!Straight
<1>17. ShmTextInv'
  BY <1>2, <1>3, <1>6, ShmProcesses DEF ShmInv, ShmTextInv, Shm!Straight
<1> QED BY <1>9, <1>10, <1>11, <1>12, <1>13, <1>14, <1>15, <1>16, <1>17 DEF ShmInv

LEMMA ShmEndWait ==
  ASSUME ShmInv, NEW c \in Client, Shm!EndWait(c)
  PROVE  ShmInv'
<1>2. poster # NoClient => poster \in Client /\ poster \in Shm!Process
  BY ShmProcesses DEF ShmInv, Shm!TypeOK
<1>3. /\ shm_name' = shm_name /\ shm_run' = shm_run /\ shm_system' = shm_system
      /\ shm_handle' = shm_handle /\ shm_got' = shm_got /\ val' = val /\ mem' = mem
      /\ heard' = heard /\ poster' = poster /\ late' = late /\ shm_pc[c] = "wait"
  BY DEF Shm!EndWait, Shm!texts
<1>4. c \in Shm!Process
  BY ShmProcesses
<1>5. PICK place \in {"ended"} : Shm!Goto(c, place, <<>>)
  BY DEF Shm!EndWait
<1>6. /\ shm_pc' \in [Shm!Process -> ShmPlaces] /\ shm_todo' \in [Shm!Process -> ShmLists]
      /\ shm_pc'[c] \in {"ended"} /\ shm_todo'[c] = <<>>
      /\ \A q \in Shm!Process : q # c => shm_pc'[q] = shm_pc[q] /\ shm_todo'[q] = shm_todo[q]
  BY <1>4, <1>5, ShmGoto DEF ShmPlaces, ShmLists
<1>7. /\ ShmActive \subseteq Client /\ ShmActive' = ShmActive
      /\ shm_pc'[Server] = shm_pc[Server] /\ shm_todo'[Server] = shm_todo[Server]
      /\ ShmCurrent \subseteq ShmActive /\ ShmCurrent' = ShmCurrent
  <2>1. /\ ShmActive \subseteq Client /\ ShmActive' = ShmActive
        /\ shm_pc'[Server] = shm_pc[Server] /\ shm_todo'[Server] = shm_todo[Server]
    BY <1>3, <1>6, ShmProcesses DEF ShmActive
  <2> QED BY <1>3, <2>1 DEF ShmCurrent
<1>8. Shm!TypeOK' /\ shm_todo' \in [Shm!Process -> ShmLists]
  BY <1>3, <1>6 DEF ShmInv, Shm!TypeOK
<1>9. ShmNamesInv'
  BY <1>3, <1>6, ShmProcesses DEF ShmInv, ShmNamesInv
<1>10. ShmServerInv'
  BY <1>3, <1>6, ShmProcesses DEF ShmInv, ShmServerInv, ShmOpening, ShmDealt
<1>11. ShmClientInv'
  BY <1>3, <1>6, ShmProcesses DEF ShmInv, ShmClientInv, ShmClientAt, ShmOpening, ShmDealt
<1>12. ShmFreshInv'
  BY <1>3, <1>7 DEF ShmInv, ShmFreshInv
<1>13. ShmPosixInv'
  BY <1>3, <1>6, <1>7, ShmProcesses DEF ShmInv, ShmPosixInv, Shm!Straight
<1>14. ShmSysvInv'
  BY <1>3, <1>6, <1>7, ShmProcesses DEF ShmInv, ShmSysvInv, ShmIdle
<1>15. ShmLateInv'
  BY <1>3, <1>7 DEF ShmInv, ShmLateInv, ShmIdle, ShmAfterReset, Shm!Straight
<1>16. ShmTextInv'
  BY <1>2, <1>3, <1>6, ShmProcesses DEF ShmInv, ShmTextInv, Shm!Straight
<1> QED BY <1>8, <1>9, <1>10, <1>11, <1>12, <1>13, <1>14, <1>15, <1>16 DEF ShmInv

LEMMA ShmReadHi ==
  ASSUME ShmInv, NEW c \in Client, Shm!ReadHi(c)
  PROVE  ShmInv'
<1>2. poster # NoClient => poster \in Client /\ poster \in Shm!Process
  BY ShmProcesses DEF ShmInv, Shm!TypeOK
<1>3. /\ shm_name' = shm_name /\ shm_run' = shm_run /\ shm_system' = shm_system
      /\ shm_handle' = shm_handle /\ shm_got' = shm_got /\ val' = val /\ mem' = mem
      /\ poster' = poster /\ late' = late /\ shm_pc[c] = "read"
  BY DEF Shm!ReadHi, Shm!texts
<1>4. c \in Shm!Process
  BY ShmProcesses
<1>5. PICK place \in {"write"} : Shm!Goto(c, place, <<>>)
  BY DEF Shm!ReadHi
<1>6. /\ shm_pc' \in [Shm!Process -> ShmPlaces] /\ shm_todo' \in [Shm!Process -> ShmLists]
      /\ shm_pc'[c] \in {"write"} /\ shm_todo'[c] = <<>>
      /\ \A q \in Shm!Process : q # c => shm_pc'[q] = shm_pc[q] /\ shm_todo'[q] = shm_todo[q]
  BY <1>4, <1>5, ShmGoto DEF ShmPlaces, ShmLists
<1>7. /\ ShmActive \subseteq Client /\ ShmActive' = ShmActive
      /\ shm_pc'[Server] = shm_pc[Server] /\ shm_todo'[Server] = shm_todo[Server]
      /\ ShmCurrent \subseteq ShmActive /\ ShmCurrent' = ShmCurrent
  <2>1. /\ ShmActive \subseteq Client /\ ShmActive' = ShmActive
        /\ shm_pc'[Server] = shm_pc[Server] /\ shm_todo'[Server] = shm_todo[Server]
    BY <1>3, <1>6, ShmProcesses DEF ShmActive
  <2> QED BY <1>3, <2>1 DEF ShmCurrent
<1>8. heard' \in [Client -> Shm!Text]
  BY <1>4 DEF Shm!ReadHi, ShmInv, Shm!TypeOK, ShmClientInv, ShmClientAt, Shm!Object, Shm!Run
<1>9. Shm!TypeOK' /\ shm_todo' \in [Shm!Process -> ShmLists]
  BY <1>3, <1>6, <1>8 DEF ShmInv, Shm!TypeOK
<1>10. ShmNamesInv'
  BY <1>3, <1>6, ShmProcesses DEF ShmInv, ShmNamesInv
<1>11. ShmServerInv'
  BY <1>3, <1>6, ShmProcesses DEF ShmInv, ShmServerInv, ShmOpening, ShmDealt
<1>12. ShmClientInv'
  BY <1>3, <1>6, ShmProcesses DEF ShmInv, ShmClientInv, ShmClientAt, ShmOpening, ShmDealt
<1>13. ShmFreshInv'
  BY <1>3, <1>7 DEF ShmInv, ShmFreshInv
<1>14. ShmPosixInv'
  BY <1>3, <1>6, <1>7, ShmProcesses DEF ShmInv, ShmPosixInv, Shm!Straight
<1>15. ShmSysvInv'
  BY <1>3, <1>6, <1>7, ShmProcesses DEF ShmInv, ShmSysvInv, ShmIdle
<1>16. ShmLateInv'
  BY <1>3, <1>7 DEF ShmInv, ShmLateInv, ShmIdle, ShmAfterReset, Shm!Straight
<1>17. ShmTextInv'
  BY <1>2, <1>3, <1>6, ShmProcesses DEF ShmInv, ShmTextInv, Shm!Straight
<1> QED BY <1>9, <1>10, <1>11, <1>12, <1>13, <1>14, <1>15, <1>16, <1>17 DEF ShmInv

LEMMA ShmReadAnswer ==
  ASSUME ShmInv, Shm!ReadAnswer
  PROVE  ShmInv'
<1>2. poster # NoClient => poster \in Client /\ poster \in Shm!Process
  BY ShmProcesses DEF ShmInv, Shm!TypeOK
<1>3. /\ shm_name' = shm_name /\ shm_run' = shm_run /\ shm_system' = shm_system
      /\ shm_handle' = shm_handle /\ val' = val /\ mem' = mem /\ heard' = heard
      /\ poster' = poster /\ late' = late /\ shm_pc[Server] = "read"
  BY DEF Shm!ReadAnswer, Shm!texts
<1>4. Server \in Shm!Process
  BY ShmProcesses
<1>5. PICK place \in {"remove"} : Shm!Goto(Server, place, Shm!Objects)
  BY DEF Shm!ReadAnswer
<1>6. /\ shm_pc' \in [Shm!Process -> ShmPlaces] /\ shm_todo' \in [Shm!Process -> ShmLists]
      /\ shm_pc'[Server] \in {"remove"} /\ shm_todo'[Server] = Shm!Objects
      /\ \A q \in Shm!Process : q # Server => shm_pc'[q] = shm_pc[q] /\ shm_todo'[q] = shm_todo[q]
  BY <1>4, <1>5, ShmGoto DEF ShmPlaces, ShmLists, Shm!Objects
<1>7. /\ ShmActive \subseteq Client /\ ShmActive' = ShmActive /\ \A c \in Client : shm_pc'[c] = shm_pc[c]
      /\ ShmCurrent \subseteq ShmActive /\ ShmCurrent' = ShmCurrent
  <2>1. /\ ShmActive \subseteq Client /\ ShmActive' = ShmActive /\ \A c \in Client : shm_pc'[c] = shm_pc[c]
    BY <1>6, ShmProcesses DEF ShmActive
  <2> QED BY <1>3, <2>1 DEF ShmCurrent
<1>8. shm_got' \in Shm!Text
  BY DEF Shm!ReadAnswer, ShmInv, Shm!TypeOK, ShmServerInv, Shm!Object, Shm!Run
<1>9. ShmOpening(Server)' /\ ShmDealt(Server)' = {}
  BY <1>3, <1>4, <1>6, ShmAtStart
<1>10. Shm!TypeOK' /\ shm_todo' \in [Shm!Process -> ShmLists]
  BY <1>3, <1>6, <1>8 DEF ShmInv, Shm!TypeOK, ShmPlaces
<1>11. ShmNamesInv'
  BY <1>3, <1>6 DEF ShmInv, ShmNamesInv
<1>12. ShmServerInv'
  BY <1>3, <1>6, <1>9 DEF ShmInv, ShmServerInv
<1>13. ShmClientInv'
  BY <1>3, <1>6, ShmProcesses DEF ShmInv, ShmClientInv, ShmClientAt, ShmOpening, ShmDealt
<1>14. ShmFreshInv'
  BY <1>3, <1>6 DEF ShmInv, ShmFreshInv
<1>15. ShmPosixInv'
  BY <1>3, <1>6, <1>7 DEF ShmInv, ShmPosixInv
<1>16. ShmSysvInv'
  BY <1>3, <1>7 DEF ShmInv, ShmSysvInv, ShmIdle
<1>17. ShmLateInv'
  BY <1>6 DEF ShmLateInv, ShmAfterReset
<1>18. ShmTextInv'
  BY <1>2, <1>3, <1>6 DEF ShmInv, ShmTextInv
<1> QED BY <1>10, <1>11, <1>12, <1>13, <1>14, <1>15, <1>16, <1>17, <1>18 DEF ShmInv

LEMMA ShmWriteHi ==
  ASSUME ShmInv, Shm!WriteHi
  PROVE  ShmInv'
<1>2. poster # NoClient => poster \in Client /\ poster \in Shm!Process
  BY ShmProcesses DEF ShmInv, Shm!TypeOK
<1>3. /\ shm_name' = shm_name /\ shm_run' = shm_run /\ shm_system' = shm_system
      /\ shm_handle' = shm_handle /\ shm_got' = shm_got /\ val' = val /\ heard' = heard
      /\ poster' = poster /\ late' = late /\ shm_pc[Server] = "write"
  BY DEF Shm!WriteHi, Shm!texts
<1>4. Server \in Shm!Process
  BY ShmProcesses
<1>5. PICK place \in {"post"} : Shm!Goto(Server, place, <<>>)
  BY DEF Shm!WriteHi
<1>6. /\ shm_pc' \in [Shm!Process -> ShmPlaces] /\ shm_todo' \in [Shm!Process -> ShmLists]
      /\ shm_pc'[Server] \in {"post"} /\ shm_todo'[Server] = <<>>
      /\ \A q \in Shm!Process : q # Server => shm_pc'[q] = shm_pc[q] /\ shm_todo'[q] = shm_todo[q]
  BY <1>4, <1>5, ShmGoto DEF ShmPlaces, ShmLists, Shm!Objects
<1>7. /\ ShmActive \subseteq Client /\ ShmActive' = ShmActive /\ \A c \in Client : shm_pc'[c] = shm_pc[c]
      /\ ShmCurrent \subseteq ShmActive /\ ShmCurrent' = ShmCurrent
  <2>1. /\ ShmActive \subseteq Client /\ ShmActive' = ShmActive /\ \A c \in Client : shm_pc'[c] = shm_pc[c]
    BY <1>6, ShmProcesses DEF ShmActive
  <2> QED BY <1>3, <2>1 DEF ShmCurrent
<1>8. PICK r \in Shm!Run : r = shm_handle[Server]["shm"]
  BY <1>3 DEF ShmInv, Shm!TypeOK, ShmServerInv, Shm!Object, Shm!Run
<1>9. /\ mem' \in [Shm!Run -> Shm!Text] /\ mem'[r] = "Hi!" /\ \A q \in Shm!Run : q # r => mem'[q] = mem[q]
  BY <1>8 DEF Shm!WriteHi, ShmInv, Shm!TypeOK, Shm!Text
<1>10. shm_system = "sysv" => ShmIdle("s2c") /\ ShmActive \subseteq late
  BY <1>3 DEF ShmInv, ShmLateInv, ShmAfterReset
<1>11. Shm!TypeOK' /\ shm_todo' \in [Shm!Process -> ShmLists]
  BY <1>3, <1>6, <1>9 DEF ShmInv, Shm!TypeOK
<1>12. ShmNamesInv'
  BY <1>3, <1>6 DEF ShmInv, ShmNamesInv
<1>13. ShmServerInv'
  BY <1>3, <1>6 DEF ShmInv, ShmServerInv
<1>14. ShmClientInv'
  BY <1>3, <1>6, ShmProcesses DEF ShmInv, ShmClientInv, ShmClientAt, ShmOpening, ShmDealt
<1>15. ShmFreshInv'
  BY <1>3, <1>6 DEF ShmInv, ShmFreshInv
<1>16. ShmPosixInv'
  BY <1>3, <1>6, <1>7 DEF ShmInv, ShmPosixInv
<1>17. ShmSysvInv'
  BY <1>3, <1>7, <1>10 DEF ShmInv, ShmSysvInv, ShmIdle
<1>18. ShmLateInv'
  BY <1>3, <1>6, <1>7 DEF ShmInv, ShmLateInv, ShmIdle, ShmAfterReset
<1>19. ShmTextInv'
  BY <1>2, <1>3, <1>6, <1>8, <1>9 DEF ShmInv, ShmTextInv
<1> QED BY <1>11, <1>12, <1>13, <1>14, <1>15, <1>16, <1>17, <1>18, <1>19 DEF ShmInv

LEMMA ShmWriteHello ==
  ASSUME ShmInv, NEW c \in Client, Shm!WriteHello(c)
  PROVE  ShmInv'
<1>1. /\ shm_run # 0 => shm_run \in Shm!Run
      /\ shm_name["shm"] # 0 => shm_name["shm"] \in Shm!Run
      /\ shm_name["s2c"] # 0 => shm_name["s2c"] \in Shm!Run
      /\ shm_name["c2s"] # 0 => shm_name["c2s"] \in Shm!Run
      /\ shm_pc[Server] \in {"reset", "write", "post", "wait", "read"} =>
           shm_handle[Server]["shm"] \in Shm!Run /\ shm_handle[Server]["shm"] = shm_name["shm"]
  BY ShmRanges
<1>2. poster # NoClient => poster \in Client /\ poster \in Shm!Process
  BY ShmProcesses DEF ShmInv, Shm!TypeOK
<1>3. /\ shm_name' = shm_name /\ shm_run' = shm_run /\ shm_system' = shm_system
      /\ shm_handle' = shm_handle /\ shm_got' = shm_got /\ val' = val /\ heard' = heard
      /\ poster' = poster /\ late' = late /\ shm_pc[c] = "write"
  BY DEF Shm!WriteHello, Shm!texts
<1>4. c \in Shm!Process
  BY ShmProcesses
<1>5. PICK place \in {"post"} : Shm!Goto(c, place, <<>>)
  BY DEF Shm!WriteHello
<1>6. /\ shm_pc' \in [Shm!Process -> ShmPlaces] /\ shm_todo' \in [Shm!Process -> ShmLists]
      /\ shm_pc'[c] \in {"post"} /\ shm_todo'[c] = <<>>
      /\ \A q \in Shm!Process : q # c => shm_pc'[q] = shm_pc[q] /\ shm_todo'[q] = shm_todo[q]
  BY <1>4, <1>5, ShmGoto DEF ShmPlaces, ShmLists, Shm!Objects
<1>7. /\ ShmActive \subseteq Client /\ ShmActive' = ShmActive
      /\ shm_pc'[Server] = shm_pc[Server] /\ shm_todo'[Server] = shm_todo[Server]
      /\ ShmCurrent \subseteq ShmActive /\ ShmCurrent' = ShmCurrent
  <2>1. /\ ShmActive \subseteq Client /\ ShmActive' = ShmActive
        /\ shm_pc'[Server] = shm_pc[Server] /\ shm_todo'[Server] = shm_todo[Server]
    BY <1>3, <1>6, ShmProcesses DEF ShmActive
  <2> QED BY <1>3, <2>1 DEF ShmCurrent
<1>8. PICK r \in Shm!Run : r = shm_handle[c]["shm"]
  BY <1>3, <1>4 DEF ShmInv, Shm!TypeOK, ShmClientInv, ShmClientAt, Shm!Object, Shm!Run
<1>9. /\ mem' \in [Shm!Run -> Shm!Text] /\ mem'[r] = "Hello!" /\ \A q \in Shm!Run : q # r => mem'[q] = mem[q]
  BY <1>8 DEF Shm!WriteHello, ShmInv, Shm!TypeOK, Shm!Text
<1>10. c \in ShmActive /\ (shm_system = "posix" /\ r = shm_run => c \in ShmCurrent)
  BY <1>3, <1>8 DEF ShmInv, ShmClientInv, ShmClientAt, ShmActive, ShmCurrent, Shm!Object, Shm!Run
<1>11. shm_pc[Server] = "post" /\ late = {} => r # shm_handle[Server]["shm"]
  BY <1>10 DEF ShmInv, Shm!TypeOK, ShmNamesInv, ShmServerInv, ShmPosixInv, ShmLateInv, ShmAfterReset,
     Shm!Object
<1>12. Shm!TypeOK' /\ shm_todo' \in [Shm!Process -> ShmLists]
  BY <1>3, <1>6, <1>9 DEF ShmInv, Shm!TypeOK
<1>13. ShmNamesInv'
  BY <1>3, <1>6, ShmProcesses DEF ShmInv, ShmNamesInv
<1>14. ShmServerInv'
  BY <1>3, <1>6, ShmProcesses DEF ShmInv, ShmServerInv, ShmOpening, ShmDealt
<1>15. ShmClientInv'
  BY <1>3, <1>6, ShmProcesses DEF ShmInv, ShmClientInv, ShmClientAt, ShmOpening, ShmDealt
<1>16. ShmFreshInv'
  BY <1>3, <1>7 DEF ShmInv, ShmFreshInv
<1>17. ShmPosixInv'
  BY <1>1, <1>3, <1>6, <1>7, <1>9, <1>10, ShmProcesses DEF ShmInv, ShmPosixInv, Shm!Straight
<1>18. ShmSysvInv'
  BY <1>3, <1>6, <1>7, <1>10 DEF ShmInv, ShmSysvInv, ShmIdle
<1>19. ShmLateInv'
  BY <1>1, <1>3, <1>7, <1>9 DEF ShmInv, ShmLateInv, ShmIdle, ShmAfterReset, Shm!Straight
<1>20. ShmTextInv'
  BY <1>1, <1>2, <1>3, <1>6, <1>8, <1>9, <1>11, ShmProcesses DEF ShmInv, ShmTextInv, Shm!Straight
<1> QED BY <1>12, <1>13, <1>14, <1>15, <1>16, <1>17, <1>18, <1>19, <1>20 DEF ShmInv

LEMMA ShmPostHi ==
  ASSUME ShmInv, Shm!PostHi
  PROVE  ShmInv'
<1>1. /\ shm_run # 0 => shm_run \in Shm!Run
      /\ shm_name["shm"] # 0 => shm_name["shm"] \in Shm!Run
      /\ shm_name["s2c"] # 0 => shm_name["s2c"] \in Shm!Run
      /\ shm_name["c2s"] # 0 => shm_name["c2s"] \in Shm!Run
      /\ shm_pc[Server] \in {"reset", "write", "post", "wait", "read"} =>
           shm_handle[Server]["shm"] \in Shm!Run /\ shm_handle[Server]["shm"] = shm_name["shm"]
  BY ShmRanges
<1>2. poster # NoClient => poster \in Client /\ poster \in Shm!Process
  BY ShmProcesses DEF ShmInv, Shm!TypeOK
<1>3. /\ shm_name' = shm_name /\ shm_run' = shm_run /\ shm_system' = shm_system
      /\ shm_handle' = shm_handle /\ shm_got' = shm_got /\ mem' = mem /\ heard' = heard
      /\ poster' = poster /\ late' = late /\ shm_pc[Server] = "post"
  BY DEF Shm!PostHi, Shm!texts
<1>4. Server \in Shm!Process
  BY ShmProcesses
<1>5. PICK place \in {"wait"} : Shm!Goto(Server, place, <<>>)
  BY DEF Shm!PostHi
<1>6. /\ shm_pc' \in [Shm!Process -> ShmPlaces] /\ shm_todo' \in [Shm!Process -> ShmLists]
      /\ shm_pc'[Server] \in {"wait"} /\ shm_todo'[Server] = <<>>
      /\ \A q \in Shm!Process : q # Server => shm_pc'[q] = shm_pc[q] /\ shm_todo'[q] = shm_todo[q]
  BY <1>4, <1>5, ShmGoto DEF ShmPlaces, ShmLists, Shm!Objects
<1>7. /\ ShmActive \subseteq Client /\ ShmActive' = ShmActive /\ \A c \in Client : shm_pc'[c] = shm_pc[c]
      /\ ShmCurrent \subseteq ShmActive /\ ShmCurrent' = ShmCurrent
  <2>1. /\ ShmActive \subseteq Client /\ ShmActive' = ShmActive /\ \A c \in Client : shm_pc'[c] = shm_pc[c]
    BY <1>6, ShmProcesses DEF ShmActive
  <2> QED BY <1>3, <2>1 DEF ShmCurrent
<1>8. shm_handle[Server]["s2c"] # 0
  BY <1>3, <1>4 DEF ShmInv, ShmServerInv, Shm!Object
<1>9. PICK r \in Shm!Run : r = shm_handle[Server]["s2c"]
  BY <1>4, <1>8 DEF ShmInv, Shm!TypeOK, Shm!Object, Shm!Run
<1>10. "s2c" \in Shm!Semaphore /\ "s2c" \in Shm!Object /\ r # 0
  BY <1>8, <1>9 DEF Shm!Semaphore, Shm!Object
<1>11. /\ val["s2c"][r] \in Nat /\ r <= shm_run
  BY <1>4, <1>9, <1>10 DEF ShmInv, Shm!TypeOK, ShmNamesInv
<1>12. PICK v \in Nat : v = val["s2c"][r] + 1 /\ Shm!Change(Server, "s2c", v)
  BY <1>9, <1>11 DEF Shm!PostHi, Shm!Mine, Shm!ResetTo
<1>13. /\ val' \in [Shm!Semaphore -> [Shm!Run -> Nat]] /\ val'["s2c"][r] = val["s2c"][r] + 1
       /\ \A q \in Shm!Run : val'["c2s"][q] = val["c2s"][q]
       /\ \A q \in Shm!Run : q # r => val'["s2c"][q] = val["s2c"][q]
  BY <1>4, <1>9, <1>10, <1>12, ShmChanged DEF Shm!Semaphore
<1>14. /\ shm_name["s2c"] = r /\ shm_name["shm"] # 0
       /\ shm_handle[Server]["shm"] = shm_name["shm"]
       /\ (shm_system = "posix" => r = shm_run /\ shm_name["shm"] = shm_run)
  BY <1>3, <1>9 DEF ShmInv, ShmServerInv, ShmNamesInv, Shm!Object
<1>15. \A d \in Client : shm_pc[d] = "post" /\ d \notin late => shm_handle[d] # shm_handle[Server]
  BY <1>3, <1>9, <1>14 DEF ShmInv, Shm!TypeOK, ShmLateInv, ShmPosixInv, ShmActive, ShmCurrent, ShmAfterReset
<1>16. shm_system = "sysv" /\ late = {} => /\ ShmActive = {} /\ val["s2c"][r] = 0 /\ val["c2s"][r] = 0 /\ shm_name["c2s"] = r
  BY <1>3, <1>10, <1>14 DEF ShmInv, ShmNamesInv, ShmLateInv, ShmSysvInv, ShmIdle, ShmAfterReset
<1>17. late = {} => mem[shm_handle[Server]["shm"]] = "Hi!"
  BY <1>3 DEF ShmInv, ShmTextInv
<1>19. Shm!TypeOK' /\ shm_todo' \in [Shm!Process -> ShmLists]
  BY <1>3, <1>6, <1>13 DEF ShmInv, Shm!TypeOK, ShmPlaces
<1>20. ShmNamesInv'
  BY <1>3, <1>6 DEF ShmInv, ShmNamesInv
<1>21. ShmServerInv'
  BY <1>3, <1>6 DEF ShmInv, ShmServerInv
<1>22. ShmClientInv'
  BY <1>3, <1>6, ShmProcesses DEF ShmInv, ShmClientInv, ShmClientAt, ShmOpening, ShmDealt
<1>23. ShmFreshInv'
  BY <1>3, <1>6, <1>11, <1>13 DEF ShmInv, ShmFreshInv, Shm!Semaphore
<1>24. ShmPosixInv'
  BY <1>3, <1>6, <1>7, <1>9, <1>13, <1>14, <1>17 DEF ShmInv, ShmPosixInv, Shm!Straight
<1>25. ShmSysvInv'
  <2> SUFFICES ASSUME shm_system = "sysv", late = {} PROVE ShmSysvInv'
    BY <1>3 DEF ShmSysvInv
  <2>1. /\ shm_name' = shm_name /\ mem' = mem /\ shm_handle' = shm_handle /\ shm_name["s2c"] = r /\ shm_name["c2s"] = r
        /\ ShmActive' = {} /\ val'["s2c"][r] = 1 /\ val'["c2s"][r] = 0 /\ shm_pc'[Server] = "wait"
        /\ shm_name["shm"] # 0 /\ mem[shm_name["shm"]] = "Hi!"
    BY <1>3, <1>6, <1>7, <1>13, <1>14, <1>16, <1>17
  <2> QED BY <2>1 DEF ShmSysvInv
<1>26. ShmLateInv'
  BY <1>1, <1>3, <1>6, <1>13 DEF ShmInv, ShmLateInv, ShmIdle, ShmAfterReset
<1>27. ShmTextInv'
  BY <1>2, <1>3, <1>7, <1>15 DEF ShmInv, ShmTextInv, Shm!Straight
<1> QED BY <1>19, <1>20, <1>21, <1>22, <1>23, <1>24, <1>25, <1>26, <1>27 DEF ShmInv

LEMMA ShmWaitForAnswer ==
  ASSUME ShmInv, Shm!WaitForAnswer
  PROVE  ShmInv'
<1>1. /\ shm_run # 0 => shm_run \in Shm!Run
      /\ shm_name["shm"] # 0 => shm_name["shm"] \in Shm!Run
      /\ shm_name["s2c"] # 0 => shm_name["s2c"] \in Shm!Run
      /\ shm_name["c2s"] # 0 => shm_name["c2s"] \in Shm!Run
      /\ shm_pc[Server] \in {"reset", "write", "post", "wait", "read"} =>
           shm_handle[Server]["shm"] \in Shm!Run /\ shm_handle[Server]["shm"] = shm_name["shm"]
  BY ShmRanges
<1>2. poster # NoClient => poster \in Client /\ poster \in Shm!Process
  BY ShmProcesses DEF ShmInv, Shm!TypeOK
<1>3. /\ shm_name' = shm_name /\ shm_run' = shm_run /\ shm_system' = shm_system
      /\ shm_handle' = shm_handle /\ shm_got' = shm_got /\ mem' = mem /\ heard' = heard
      /\ poster' = poster /\ late' = late /\ shm_pc[Server] = "wait"
  BY DEF Shm!WaitForAnswer, Shm!texts
<1>4. Server \in Shm!Process
  BY ShmProcesses
<1>5. PICK place \in {"read"} : Shm!Goto(Server, place, <<>>)
  BY DEF Shm!WaitForAnswer
<1>6. /\ shm_pc' \in [Shm!Process -> ShmPlaces] /\ shm_todo' \in [Shm!Process -> ShmLists]
      /\ shm_pc'[Server] \in {"read"} /\ shm_todo'[Server] = <<>>
      /\ \A q \in Shm!Process : q # Server => shm_pc'[q] = shm_pc[q] /\ shm_todo'[q] = shm_todo[q]
  BY <1>4, <1>5, ShmGoto DEF ShmPlaces, ShmLists, Shm!Objects
<1>7. /\ ShmActive \subseteq Client /\ ShmActive' = ShmActive /\ \A c \in Client : shm_pc'[c] = shm_pc[c]
      /\ ShmCurrent \subseteq ShmActive /\ ShmCurrent' = ShmCurrent
  <2>1. /\ ShmActive \subseteq Client /\ ShmActive' = ShmActive /\ \A c \in Client : shm_pc'[c] = shm_pc[c]
    BY <1>6, ShmProcesses DEF ShmActive
  <2> QED BY <1>3, <2>1 DEF ShmCurrent
<1>8. shm_handle[Server]["c2s"] # 0
  BY <1>3, <1>4 DEF ShmInv, ShmServerInv, Shm!Object
<1>9. PICK r \in Shm!Run : r = shm_handle[Server]["c2s"]
  BY <1>4, <1>8 DEF ShmInv, Shm!TypeOK, Shm!Object, Shm!Run
<1>10. "c2s" \in Shm!Semaphore /\ "c2s" \in Shm!Object /\ r # 0
  BY <1>8, <1>9 DEF Shm!Semaphore, Shm!Object
<1>11. /\ val["c2s"][r] \in Nat /\ r <= shm_run /\ (shm_pc[Server] \in {"clear", "open"} => r < shm_run)
  BY <1>4, <1>9, <1>10 DEF ShmInv, Shm!TypeOK, ShmNamesInv
<1>12. val["c2s"][r] > 0
  BY <1>9 DEF Shm!WaitForAnswer, Shm!Available, Shm!Mine, Shm!Removed
<1>13. PICK v \in Nat : v = val["c2s"][r] - 1 /\ Shm!Change(Server, "c2s", v)
  BY <1>9, <1>11, <1>12 DEF Shm!WaitForAnswer, Shm!Mine
<1>14. /\ val' \in [Shm!Semaphore -> [Shm!Run -> Nat]] /\ val'["c2s"][r] = val["c2s"][r] - 1
       /\ \A q \in Shm!Run : val'["s2c"][q] = val["s2c"][q]
       /\ \A q \in Shm!Run : q # r => val'["c2s"][q] = val["c2s"][q]
  BY <1>4, <1>9, <1>10, <1>13, ShmChanged DEF Shm!Semaphore
<1>15. shm_name["c2s"] = r /\ (shm_system = "sysv" => shm_name["s2c"] = r)
  BY <1>3, <1>9 DEF ShmInv, ShmServerInv, ShmNamesInv, Shm!Object
<1>16. val["s2c"][r] \in Nat
  BY <1>9 DEF ShmInv, Shm!TypeOK, Shm!Semaphore
<1>17. shm_system = "sysv" /\ late = {} => /\ ShmActive = {} /\ val["s2c"][r] = 0 /\ val["c2s"][r] = 1
  BY <1>10, <1>11, <1>12, <1>15, <1>16 DEF ShmInv, ShmSysvInv, ShmIdle
<1>18. Shm!TypeOK' /\ shm_todo' \in [Shm!Process -> ShmLists]
  BY <1>3, <1>6, <1>14 DEF ShmInv, Shm!TypeOK, ShmPlaces
<1>19. ShmNamesInv'
  BY <1>3, <1>6 DEF ShmInv, ShmNamesInv
<1>20. ShmServerInv'
  BY <1>3, <1>6 DEF ShmInv, ShmServerInv
<1>21. ShmClientInv'
  BY <1>3, <1>6, ShmProcesses DEF ShmInv, ShmClientInv, ShmClientAt, ShmOpening, ShmDealt
<1>22. ShmFreshInv'
  BY <1>3, <1>6, <1>11, <1>14 DEF ShmInv, ShmFreshInv, Shm!Semaphore
<1>23. ShmPosixInv'
  <2> SUFFICES ASSUME shm_system = "posix" PROVE ShmPosixInv'
    BY <1>3 DEF ShmPosixInv
  <2>1. CASE shm_run = 0
    BY <1>3, <2>1 DEF ShmInv, ShmPosixInv
  <2>2. CASE shm_run # 0
    <3>1. /\ val'["s2c"][shm_run] = val["s2c"][shm_run] /\ ShmCurrent' = ShmCurrent
          /\ ShmCurrent \subseteq Client
      BY <1>1, <1>7, <1>14, <2>2
    <3>2. \A d \in ShmCurrent : shm_pc'[d] = shm_pc[d]
      BY <1>7, <3>1
    <3>3. shm_pc[Server] = "wait" /\ shm_pc'[Server] = "read"
      BY <1>3, <1>6
    <3> QED BY <1>3, <3>1, <3>2, <3>3 DEF ShmInv, ShmPosixInv, Shm!Straight
  <2> QED BY <2>1, <2>2
<1>24. ShmSysvInv'
  <2> SUFFICES ASSUME shm_system = "sysv", late = {} PROVE ShmSysvInv'
    BY <1>3 DEF ShmSysvInv
  <2>1. /\ shm_name' = shm_name /\ mem' = mem /\ shm_handle' = shm_handle /\ shm_name["s2c"] = r /\ shm_name["c2s"] = r
        /\ ShmActive' = {} /\ val'["s2c"][r] = 0 /\ val'["c2s"][r] = 0 /\ shm_pc'[Server] = "read"
    BY <1>3, <1>6, <1>7, <1>14, <1>15, <1>17
  <2> QED BY <2>1 DEF ShmSysvInv, ShmIdle
<1>25. ShmLateInv'
  BY <1>3, <1>6, <1>10, <1>14, <1>15 DEF ShmInv, ShmLateInv, ShmIdle, ShmAfterReset, Shm!Straight
<1>26. ShmTextInv'
  BY <1>2, <1>3, <1>6, ShmProcesses DEF ShmInv, ShmTextInv, Shm!Straight
<1> QED BY <1>18, <1>19, <1>20, <1>21, <1>22, <1>23, <1>24, <1>25, <1>26 DEF ShmInv

LEMMA ShmWaitForHi ==
  ASSUME ShmInv, NEW c \in Client, Shm!WaitForHi(c)
  PROVE  ShmInv'
<1>1. /\ shm_run # 0 => shm_run \in Shm!Run
      /\ shm_name["shm"] # 0 => shm_name["shm"] \in Shm!Run
      /\ shm_name["s2c"] # 0 => shm_name["s2c"] \in Shm!Run
      /\ shm_name["c2s"] # 0 => shm_name["c2s"] \in Shm!Run
      /\ shm_pc[Server] \in {"reset", "write", "post", "wait", "read"} =>
           shm_handle[Server]["shm"] \in Shm!Run /\ shm_handle[Server]["shm"] = shm_name["shm"]
  BY ShmRanges
<1>2. poster # NoClient => poster \in Client /\ poster \in Shm!Process
  BY ShmProcesses DEF ShmInv, Shm!TypeOK
<1>3. /\ shm_name' = shm_name /\ shm_run' = shm_run /\ shm_system' = shm_system
      /\ shm_handle' = shm_handle /\ shm_got' = shm_got /\ mem' = mem /\ heard' = heard
      /\ poster' = poster /\ late' = late /\ shm_pc[c] = "wait"
  BY DEF Shm!WaitForHi, Shm!texts
<1>4. c \in Shm!Process
  BY ShmProcesses
<1>5. PICK place \in {"read"} : Shm!Goto(c, place, <<>>)
  BY DEF Shm!WaitForHi
<1>6. /\ shm_pc' \in [Shm!Process -> ShmPlaces] /\ shm_todo' \in [Shm!Process -> ShmLists]
      /\ shm_pc'[c] \in {"read"} /\ shm_todo'[c] = <<>>
      /\ \A q \in Shm!Process : q # c => shm_pc'[q] = shm_pc[q] /\ shm_todo'[q] = shm_todo[q]
  BY <1>4, <1>5, ShmGoto DEF ShmPlaces, ShmLists, Shm!Objects
<1>7. /\ ShmActive \subseteq Client /\ ShmActive' = ShmActive \cup {c} /\ c \notin ShmActive
      /\ shm_pc'[Server] = shm_pc[Server] /\ shm_todo'[Server] = shm_todo[Server]
      /\ ShmCurrent \subseteq ShmActive /\ ShmCurrent' = IF shm_handle[c]["s2c"] = shm_run THEN ShmCurrent \cup {c} ELSE ShmCurrent
  <2>1. /\ ShmActive \subseteq Client /\ ShmActive' = ShmActive \cup {c} /\ c \notin ShmActive
        /\ shm_pc'[Server] = shm_pc[Server] /\ shm_todo'[Server] = shm_todo[Server]
    BY <1>3, <1>6, ShmProcesses DEF ShmActive
  <2> QED BY <1>3, <2>1 DEF ShmCurrent
<1>8. shm_handle[c]["s2c"] # 0
  BY <1>3, <1>4 DEF ShmInv, ShmClientInv, ShmClientAt, Shm!Object
<1>9. PICK r \in Shm!Run : r = shm_handle[c]["s2c"]
  BY <1>4, <1>8 DEF ShmInv, Shm!TypeOK, Shm!Object, Shm!Run
<1>10. "s2c" \in Shm!Semaphore /\ "s2c" \in Shm!Object /\ r # 0
  BY <1>8, <1>9 DEF Shm!Semaphore, Shm!Object
<1>11. /\ val["s2c"][r] \in Nat /\ r <= shm_run
  BY <1>4, <1>9, <1>10 DEF ShmInv, Shm!TypeOK, ShmNamesInv
<1>12. val["s2c"][r] > 0 /\ (shm_system = "sysv" => shm_name["s2c"] = r)
  BY <1>9 DEF Shm!WaitForHi, Shm!Available, Shm!Mine, Shm!Removed
<1>13. PICK v \in Nat : v = val["s2c"][r] - 1 /\ Shm!Change(c, "s2c", v)
  BY <1>9, <1>11, <1>12 DEF Shm!WaitForHi, Shm!Mine
<1>14. /\ val' \in [Shm!Semaphore -> [Shm!Run -> Nat]] /\ val'["s2c"][r] = val["s2c"][r] - 1
       /\ \A q \in Shm!Run : val'["c2s"][q] = val["c2s"][q]
       /\ \A q \in Shm!Run : q # r => val'["s2c"][q] = val["s2c"][q]
  BY <1>4, <1>9, <1>10, <1>13, ShmChanged DEF Shm!Semaphore
<1>15. val["c2s"][r] \in Nat
  BY <1>9 DEF ShmInv, Shm!TypeOK, Shm!Semaphore
<1>16. shm_system = "sysv" /\ late = {} =>
          /\ ShmActive = {} /\ val["s2c"][r] = 1 /\ val["c2s"][r] = 0
          /\ shm_name["c2s"] = r /\ shm_name["shm"] # 0 /\ mem[shm_name["shm"]] = "Hi!"
          /\ shm_pc[Server] \notin {"read", "remove"}
  BY <1>10, <1>11, <1>12, <1>15 DEF ShmInv, ShmSysvInv, ShmNamesInv, ShmIdle
<1>17. Shm!TypeOK' /\ shm_todo' \in [Shm!Process -> ShmLists]
  BY <1>3, <1>6, <1>14 DEF ShmInv, Shm!TypeOK, ShmPlaces
<1>18. ShmNamesInv'
  BY <1>3, <1>6, ShmProcesses DEF ShmInv, ShmNamesInv
<1>19. ShmServerInv'
  BY <1>3, <1>6, ShmProcesses DEF ShmInv, ShmServerInv, ShmOpening, ShmDealt
<1>20. ShmClientInv'
  BY <1>3, <1>6, ShmProcesses DEF ShmInv, ShmClientInv, ShmClientAt, ShmOpening, ShmDealt
<1>21. ShmFreshInv'
  <2> SUFFICES ASSUME NEW x \in Shm!Semaphore, NEW q \in Shm!Run, val'[x][q] # 0
               PROVE  q <= shm_run' /\ (q = shm_run' => shm_pc'[Server] \notin {"clear", "open"})
    BY DEF ShmFreshInv
  <2>1. val[x][q] # 0
    <3>1. CASE x = "s2c" /\ q = r
      BY <1>12, <3>1
    <3>2. CASE x = "c2s" \/ q # r
      BY <1>14, <3>2 DEF Shm!Semaphore
    <3> QED BY <3>1, <3>2 DEF Shm!Semaphore
  <2> QED BY <1>3, <1>7, <2>1 DEF ShmInv, ShmFreshInv
<1>22. ShmPosixInv'
  <2> SUFFICES ASSUME shm_system = "posix" PROVE ShmPosixInv'
    BY <1>3 DEF ShmPosixInv
  <2>0. late = {}
    BY DEF ShmInv, ShmPosixInv
  <2>1. CASE shm_run = 0
    BY <1>3, <2>0, <2>1 DEF ShmPosixInv
  <2>2. CASE shm_run # 0 /\ r = shm_run
    <3>1. val["s2c"][r] = 1 /\ ShmCurrent = {} /\ mem[r] = "Hi!"
      BY <1>12, <2>2 DEF ShmInv, ShmPosixInv
    <3>2. val'["s2c"][r] = 0 /\ ShmCurrent' = {c} /\ shm_pc'[c] = "read"
      BY <1>6, <1>7, <1>9, <1>14, <2>2, <3>1
    <3>3. shm_pc[Server] \notin {"clear", "open", "write", "post"}
      BY <2>2, <3>1 DEF ShmInv, ShmPosixInv
    <3>4. shm_pc[Server] \in {"wait", "read"} /\ poster # NoClient /\ Shm!Straight(poster) => mem[shm_run] = "Hello!"
      BY <2>2 DEF ShmInv, ShmPosixInv
    <3> QED BY <1>3, <1>7, <2>0, <2>2, <3>1, <3>2, <3>3, <3>4 DEF ShmPosixInv, Shm!Straight
  <2>3. CASE shm_run # 0 /\ r # shm_run
    <3>1. val'["s2c"][shm_run] = val["s2c"][shm_run] /\ ShmCurrent' = ShmCurrent
      BY <1>1, <1>7, <1>9, <1>14, <2>3
    <3>2. \A d \in ShmCurrent : shm_pc'[d] = shm_pc[d]
      BY <1>6, <1>7, ShmProcesses
    <3>3. shm_pc'[Server] = shm_pc[Server]
      BY <1>7
    <3> QED BY <1>3, <3>1, <3>2, <3>3 DEF ShmInv, ShmPosixInv, Shm!Straight
  <2> QED BY <2>1, <2>2, <2>3
<1>23. ShmSysvInv'
  <2> SUFFICES ASSUME shm_system = "sysv", late = {} PROVE ShmSysvInv'
    BY <1>3 DEF ShmSysvInv
  <2>1. /\ shm_name' = shm_name /\ mem' = mem /\ shm_handle' = shm_handle /\ shm_name["s2c"] = r /\ shm_name["c2s"] = r
        /\ ShmActive' = {c} /\ val'["s2c"][r] = 0 /\ val'["c2s"][r] = 0 /\ shm_pc'[Server] = shm_pc[Server]
        /\ shm_name["shm"] # 0 /\ mem[shm_name["shm"]] = "Hi!" /\ shm_handle[c]["s2c"] = r
        /\ shm_pc[Server] \notin {"read", "remove"}
    BY <1>3, <1>7, <1>9, <1>12, <1>14, <1>16
  <2> QED BY <1>10, <2>1 DEF ShmSysvInv, ShmIdle
<1>24. ShmLateInv'
  BY <1>1, <1>3, <1>7, <1>10, <1>12, <1>14 DEF ShmInv, ShmLateInv, ShmIdle, ShmAfterReset, Shm!Straight
<1>25. ShmTextInv'
  BY <1>2, <1>3, <1>6, ShmProcesses DEF ShmInv, ShmTextInv, Shm!Straight
<1> QED BY <1>17, <1>18, <1>19, <1>20, <1>21, <1>22, <1>23, <1>24, <1>25 DEF ShmInv

LEMMA ShmPostNothing ==
  ASSUME ShmInv, NEW c \in Client, Shm!PostHello(c), Shm!Removed(c, "c2s")
  PROVE  ShmInv'
<1>2. poster # NoClient => poster \in Client /\ poster \in Shm!Process
  BY ShmProcesses DEF ShmInv, Shm!TypeOK
<1>3. /\ shm_name' = shm_name /\ shm_run' = shm_run /\ shm_system' = shm_system
      /\ shm_handle' = shm_handle /\ shm_got' = shm_got /\ mem' = mem /\ heard' = heard
      /\ late' = late /\ shm_pc[c] = "post"
  BY DEF Shm!PostHello, Shm!texts
<1>4. c \in Shm!Process
  BY ShmProcesses
<1>5. PICK place \in {"ended"} : Shm!Goto(c, place, <<>>)
  BY DEF Shm!PostHello
<1>6. /\ shm_pc' \in [Shm!Process -> ShmPlaces] /\ shm_todo' \in [Shm!Process -> ShmLists]
      /\ shm_pc'[c] \in {"ended"} /\ shm_todo'[c] = <<>>
      /\ \A q \in Shm!Process : q # c => shm_pc'[q] = shm_pc[q] /\ shm_todo'[q] = shm_todo[q]
  BY <1>4, <1>5, ShmGoto DEF ShmPlaces, ShmLists, Shm!Objects
<1>7. /\ ShmActive \subseteq Client /\ ShmActive' = ShmActive \ {c} /\ c \in ShmActive
      /\ shm_pc'[Server] = shm_pc[Server] /\ shm_todo'[Server] = shm_todo[Server]
      /\ ShmCurrent \subseteq ShmActive /\ ShmCurrent' = ShmCurrent \ {c}
  <2>1. /\ ShmActive \subseteq Client /\ ShmActive' = ShmActive \ {c} /\ c \in ShmActive
        /\ shm_pc'[Server] = shm_pc[Server] /\ shm_todo'[Server] = shm_todo[Server]
    BY <1>3, <1>6, ShmProcesses DEF ShmActive
  <2> QED BY <1>3, <2>1 DEF ShmCurrent
<1>8. val' = val /\ poster' = poster
  BY DEF Shm!PostHello
<1>9. Shm!TypeOK' /\ shm_todo' \in [Shm!Process -> ShmLists]
  BY <1>3, <1>6, <1>8 DEF ShmInv, Shm!TypeOK
<1>10. ShmNamesInv'
  BY <1>3, <1>6, ShmProcesses DEF ShmInv, ShmNamesInv
<1>11. ShmServerInv'
  BY <1>3, <1>6, ShmProcesses DEF ShmInv, ShmServerInv, ShmOpening, ShmDealt
<1>12. ShmClientInv'
  BY <1>3, <1>6, ShmProcesses DEF ShmInv, ShmClientInv, ShmClientAt, ShmOpening, ShmDealt
<1>13. ShmFreshInv'
  BY <1>3, <1>7, <1>8 DEF ShmInv, ShmFreshInv
<1>14. ShmPosixInv'
  BY <1>3, <1>6, <1>7, <1>8, ShmProcesses DEF ShmInv, ShmPosixInv, Shm!Straight
<1>15. ShmSysvInv'
  BY <1>3, <1>7, <1>8 DEF ShmInv, ShmSysvInv, ShmIdle
<1>16. ShmLateInv'
  BY <1>3, <1>7, <1>8 DEF ShmInv, ShmLateInv, ShmIdle, ShmAfterReset, Shm!Straight
<1>17. ShmTextInv'
  BY <1>2, <1>3, <1>6, <1>8, ShmProcesses DEF ShmInv, ShmTextInv, Shm!Straight
<1> QED BY <1>9, <1>10, <1>11, <1>12, <1>13, <1>14, <1>15, <1>16, <1>17 DEF ShmInv

LEMMA ShmPostHello ==
  ASSUME ShmInv, NEW c \in Client, Shm!PostHello(c), ~Shm!Removed(c, "c2s")
  PROVE  ShmInv'
<1>1. /\ shm_run # 0 => shm_run \in Shm!Run
      /\ shm_name["shm"] # 0 => shm_name["shm"] \in Shm!Run
      /\ shm_name["s2c"] # 0 => shm_name["s2c"] \in Shm!Run
      /\ shm_name["c2s"] # 0 => shm_name["c2s"] \in Shm!Run
      /\ shm_pc[Server] \in {"reset", "write", "post", "wait", "read"} =>
           shm_handle[Server]["shm"] \in Shm!Run /\ shm_handle[Server]["shm"] = shm_name["shm"]
  BY ShmRanges
<1>3. /\ shm_name' = shm_name /\ shm_run' = shm_run /\ shm_system' = shm_system
      /\ shm_handle' = shm_handle /\ shm_got' = shm_got /\ mem' = mem /\ heard' = heard
      /\ late' = late /\ shm_pc[c] = "post"
  BY DEF Shm!PostHello, Shm!texts
<1>4. c \in Shm!Process
  BY ShmProcesses
<1>5. PICK place \in {"ended"} : Shm!Goto(c, place, <<>>)
  BY DEF Shm!PostHello
<1>6. /\ shm_pc' \in [Shm!Process -> ShmPlaces] /\ shm_todo' \in [Shm!Process -> ShmLists]
      /\ shm_pc'[c] \in {"ended"} /\ shm_todo'[c] = <<>>
      /\ \A q \in Shm!Process : q # c => shm_pc'[q] = shm_pc[q] /\ shm_todo'[q] = shm_todo[q]
  BY <1>4, <1>5, ShmGoto DEF ShmPlaces, ShmLists, Shm!Objects
<1>7. /\ ShmActive \subseteq Client /\ ShmActive' = ShmActive \ {c} /\ c \in ShmActive
      /\ shm_pc'[Server] = shm_pc[Server] /\ shm_todo'[Server] = shm_todo[Server]
      /\ ShmCurrent \subseteq ShmActive /\ ShmCurrent' = ShmCurrent \ {c}
  <2>1. /\ ShmActive \subseteq Client /\ ShmActive' = ShmActive \ {c} /\ c \in ShmActive
        /\ shm_pc'[Server] = shm_pc[Server] /\ shm_todo'[Server] = shm_todo[Server]
    BY <1>3, <1>6, ShmProcesses DEF ShmActive
  <2> QED BY <1>3, <2>1 DEF ShmCurrent
<1>8. poster' = c /\ (shm_system = "sysv" => shm_name["c2s"] = shm_handle[c]["c2s"])
  BY DEF Shm!PostHello, Shm!Removed
<1>9. shm_handle[c]["c2s"] # 0
  BY <1>3, <1>4 DEF ShmInv, ShmClientInv, ShmClientAt, Shm!Object
<1>10. PICK r \in Shm!Run : r = shm_handle[c]["c2s"]
  BY <1>4, <1>9 DEF ShmInv, Shm!TypeOK, Shm!Object, Shm!Run
<1>11. "c2s" \in Shm!Semaphore /\ "c2s" \in Shm!Object /\ r # 0
  BY <1>9, <1>10 DEF Shm!Semaphore, Shm!Object
<1>12. /\ val["c2s"][r] \in Nat /\ r <= shm_run /\ (shm_pc[Server] \in {"clear", "open"} => r < shm_run)
  BY <1>4, <1>10, <1>11 DEF ShmInv, Shm!TypeOK, ShmNamesInv
<1>14. PICK v \in Nat : v = val["c2s"][r] + 1 /\ Shm!Change(c, "c2s", v)
  BY <1>10, <1>12 DEF Shm!PostHello, Shm!Mine
<1>15. /\ val' \in [Shm!Semaphore -> [Shm!Run -> Nat]] /\ val'["c2s"][r] = val["c2s"][r] + 1
       /\ \A q \in Shm!Run : val'["s2c"][q] = val["s2c"][q]
       /\ \A q \in Shm!Run : q # r => val'["c2s"][q] = val["c2s"][q]
  BY <1>4, <1>10, <1>11, <1>14, ShmChanged DEF Shm!Semaphore
<1>16. shm_pc[Server] \in {"wait", "read"} /\ c \notin late /\ Shm!Straight(c) => mem[shm_handle[Server]["shm"]] = "Hello!"
  BY <1>3 DEF ShmInv, ShmTextInv
<1>17. shm_system = "sysv" /\ late = {} =>
          /\ ShmActive = {c} /\ shm_name["s2c"] = r /\ shm_name["c2s"] = r
          /\ val["s2c"][r] = 0 /\ val["c2s"][r] = 0
          /\ shm_pc[Server] \notin {"write", "post", "read", "remove"}
  BY <1>7, <1>8, <1>10 DEF ShmInv, ShmSysvInv, ShmLateInv, ShmNamesInv, ShmAfterReset, ShmIdle
<1>20. shm_run \in Int /\ r \in Int
  BY <1>10, RunsAssumption DEF ShmInv, Shm!TypeOK, Shm!Run
<1>21. Shm!TypeOK' /\ shm_todo' \in [Shm!Process -> ShmLists]
  BY <1>3, <1>6, <1>8, <1>15 DEF ShmInv, Shm!TypeOK
<1>22. ShmNamesInv'
  BY <1>3, <1>6, ShmProcesses DEF ShmInv, ShmNamesInv
<1>23. ShmServerInv'
  BY <1>3, <1>6, ShmProcesses DEF ShmInv, ShmServerInv, ShmOpening, ShmDealt
<1>24. ShmClientInv'
  BY <1>3, <1>6, ShmProcesses DEF ShmInv, ShmClientInv, ShmClientAt, ShmOpening, ShmDealt
<1>25. ShmFreshInv'
  <2> SUFFICES ASSUME NEW x \in Shm!Semaphore, NEW q \in Shm!Run, val'[x][q] # 0
               PROVE  q <= shm_run' /\ (q = shm_run' => shm_pc'[Server] \notin {"clear", "open"})
    BY DEF ShmFreshInv
  <2>1. CASE x = "c2s" /\ q = r
    BY <1>3, <1>7, <1>12, <1>20, <2>1
  <2>2. CASE x = "s2c" \/ q # r
    <3>1. val[x][q] # 0
      BY <1>15, <2>2 DEF Shm!Semaphore
    <3> QED BY <1>3, <1>7, <3>1 DEF ShmInv, ShmFreshInv
  <2> QED BY <2>1, <2>2 DEF Shm!Semaphore
<1>26. ShmPosixInv'
  <2> SUFFICES ASSUME shm_system = "posix" PROVE ShmPosixInv'
    BY <1>3 DEF ShmPosixInv
  <2>1. CASE shm_run = 0
    BY <1>3, <2>1 DEF ShmInv, ShmPosixInv
  <2>2. CASE shm_run # 0
    <3>1. /\ val'["s2c"][shm_run] = val["s2c"][shm_run] /\ ShmCurrent' \subseteq ShmCurrent
          /\ shm_pc'[Server] = shm_pc[Server] /\ late = {}
          /\ \A d \in ShmCurrent' : shm_pc'[d] = shm_pc[d]
      BY <1>1, <1>6, <1>7, <1>15, <2>2, ShmProcesses DEF ShmInv, ShmPosixInv
    <3>2. shm_handle[c]["s2c"] = shm_run => c \in ShmCurrent
      BY <1>7 DEF ShmCurrent
    <3>3. shm_pc[Server] \in {"wait", "read"} => shm_handle[Server]["shm"] = shm_run
      BY <1>1, <2>2 DEF ShmInv, ShmNamesInv, ShmServerInv, Shm!Object
    <3>4. shm_pc'[Server] \in {"wait", "read"} /\ Shm!Straight(c) => mem[shm_run] = "Hello!"
      BY <1>16, <3>1, <3>3
    <3> QED BY <1>3, <1>8, <3>1, <3>2, <3>4 DEF ShmInv, ShmPosixInv, Shm!Straight
  <2> QED BY <2>1, <2>2
<1>27. ShmSysvInv'
  <2> SUFFICES ASSUME shm_system = "sysv", late = {} PROVE ShmSysvInv'
    BY <1>3 DEF ShmSysvInv
  <2>1. /\ shm_name' = shm_name /\ mem' = mem /\ shm_name["s2c"] = r /\ shm_name["c2s"] = r
        /\ ShmActive' = {} /\ val'["s2c"][r] = 0 /\ val'["c2s"][r] = 1
        /\ shm_pc'[Server] \notin {"write", "post", "read", "remove"}
    BY <1>3, <1>7, <1>15, <1>17
  <2> QED BY <2>1 DEF ShmSysvInv, ShmIdle
<1>28. ShmLateInv'
  BY <1>1, <1>3, <1>7, <1>8, <1>15, <1>16 DEF ShmInv, ShmLateInv, ShmIdle, ShmAfterReset, Shm!Straight
<1>29. ShmTextInv'
  BY <1>3, <1>6, <1>8, ShmProcesses DEF ShmInv, ShmTextInv, Shm!Straight
<1> QED BY <1>21, <1>22, <1>23, <1>24, <1>25, <1>26, <1>27, <1>28, <1>29 DEF ShmInv

LEMMA ShmKillClient ==
  ASSUME ShmInv, NEW c \in Client, Shm!Kill(c)
  PROVE  ShmInv'
<1>2. poster # NoClient => poster \in Client /\ poster \in Shm!Process
  BY ShmProcesses DEF ShmInv, Shm!TypeOK
<1>3. /\ shm_name' = shm_name /\ shm_run' = shm_run /\ shm_system' = shm_system
      /\ shm_handle' = shm_handle /\ shm_got' = shm_got /\ val' = val /\ mem' = mem
      /\ heard' = heard /\ poster' = poster /\ late' = late
      /\ shm_pc[c] \notin {"off", "done", "ended", "killed"}
  BY DEF Shm!Kill, Shm!texts
<1>4. c \in Shm!Process
  BY ShmProcesses
<1>5. PICK place \in {"killed"} : Shm!Goto(c, place, <<>>)
  BY DEF Shm!Kill
<1>6. /\ shm_pc' \in [Shm!Process -> ShmPlaces] /\ shm_todo' \in [Shm!Process -> ShmLists]
      /\ shm_pc'[c] \in {"killed"} /\ shm_todo'[c] = <<>>
      /\ \A q \in Shm!Process : q # c => shm_pc'[q] = shm_pc[q] /\ shm_todo'[q] = shm_todo[q]
  BY <1>4, <1>5, ShmGoto DEF ShmPlaces, ShmLists, Shm!Objects
<1>7. /\ ShmActive \subseteq Client /\ ShmActive' \subseteq ShmActive
      /\ shm_pc'[Server] = shm_pc[Server] /\ shm_todo'[Server] = shm_todo[Server]
      /\ ShmCurrent \subseteq ShmActive /\ ShmCurrent' \subseteq ShmCurrent
  <2>1. /\ ShmActive \subseteq Client /\ ShmActive' \subseteq ShmActive
        /\ shm_pc'[Server] = shm_pc[Server] /\ shm_todo'[Server] = shm_todo[Server]
    BY <1>6, ShmProcesses DEF ShmActive
  <2> QED BY <1>3, <2>1 DEF ShmCurrent
<1>8. Shm!TypeOK' /\ shm_todo' \in [Shm!Process -> ShmLists]
  BY <1>3, <1>6 DEF ShmInv, Shm!TypeOK
<1>9. ShmNamesInv'
  BY <1>3, <1>6, ShmProcesses DEF ShmInv, ShmNamesInv
<1>10. ShmServerInv'
  BY <1>3, <1>6, ShmProcesses DEF ShmInv, ShmServerInv, ShmOpening, ShmDealt
<1>11. ShmClientInv'
  BY <1>3, <1>6, ShmProcesses DEF ShmInv, ShmClientInv, ShmClientAt, ShmOpening, ShmDealt
<1>12. ShmFreshInv'
  BY <1>3, <1>7 DEF ShmInv, ShmFreshInv
<1>13. ShmPosixInv'
  BY <1>3, <1>6, <1>7, ShmProcesses DEF ShmInv, ShmPosixInv, Shm!Straight
<1>14. ShmSysvInv'
  BY <1>3, <1>6, <1>7, ShmProcesses DEF ShmInv, ShmSysvInv, ShmIdle
<1>15. ShmLateInv'
  BY <1>3, <1>7 DEF ShmInv, ShmLateInv, ShmIdle, ShmAfterReset, Shm!Straight
<1>16. ShmTextInv'
  BY <1>2, <1>3, <1>6, ShmProcesses DEF ShmInv, ShmTextInv, Shm!Straight
<1> QED BY <1>8, <1>9, <1>10, <1>11, <1>12, <1>13, <1>14, <1>15, <1>16 DEF ShmInv

LEMMA ShmKillServer ==
  ASSUME ShmInv, Shm!Kill(Server)
  PROVE  ShmInv'
<1>2. poster # NoClient => poster \in Client /\ poster \in Shm!Process
  BY ShmProcesses DEF ShmInv, Shm!TypeOK
<1>3. /\ shm_name' = shm_name /\ shm_run' = shm_run /\ shm_system' = shm_system
      /\ shm_handle' = shm_handle /\ shm_got' = shm_got /\ val' = val /\ mem' = mem
      /\ heard' = heard /\ poster' = poster /\ late' = late
      /\ shm_pc[Server] \notin {"off", "done", "ended", "killed"}
  BY DEF Shm!Kill, Shm!texts
<1>4. Server \in Shm!Process
  BY ShmProcesses
<1>5. PICK place \in {"killed"} : Shm!Goto(Server, place, <<>>)
  BY DEF Shm!Kill
<1>6. /\ shm_pc' \in [Shm!Process -> ShmPlaces] /\ shm_todo' \in [Shm!Process -> ShmLists]
      /\ shm_pc'[Server] \in {"killed"} /\ shm_todo'[Server] = <<>>
      /\ \A q \in Shm!Process : q # Server => shm_pc'[q] = shm_pc[q] /\ shm_todo'[q] = shm_todo[q]
  BY <1>4, <1>5, ShmGoto DEF ShmPlaces, ShmLists, Shm!Objects
<1>7. /\ ShmActive \subseteq Client /\ ShmActive' = ShmActive /\ \A c \in Client : shm_pc'[c] = shm_pc[c]
      /\ ShmCurrent \subseteq ShmActive /\ ShmCurrent' = ShmCurrent
  <2>1. /\ ShmActive \subseteq Client /\ ShmActive' = ShmActive /\ \A c \in Client : shm_pc'[c] = shm_pc[c]
    BY <1>6, ShmProcesses DEF ShmActive
  <2> QED BY <1>3, <2>1 DEF ShmCurrent
<1>8. Shm!TypeOK' /\ shm_todo' \in [Shm!Process -> ShmLists]
  BY <1>3, <1>6 DEF ShmInv, Shm!TypeOK
<1>9. ShmNamesInv'
  BY <1>3, <1>6 DEF ShmInv, ShmNamesInv
<1>10. ShmServerInv'
  BY <1>3, <1>6 DEF ShmInv, ShmServerInv
<1>11. ShmClientInv'
  BY <1>3, <1>6, ShmProcesses DEF ShmInv, ShmClientInv, ShmClientAt, ShmOpening, ShmDealt
<1>12. ShmFreshInv'
  BY <1>3, <1>6 DEF ShmInv, ShmFreshInv
<1>13. ShmPosixInv'
  BY <1>3, <1>6, <1>7 DEF ShmInv, ShmPosixInv
<1>14. ShmSysvInv'
  BY <1>3, <1>6, <1>7 DEF ShmInv, ShmSysvInv, ShmIdle
<1>15. ShmLateInv'
  BY <1>6 DEF ShmLateInv, ShmAfterReset
<1>16. ShmTextInv'
  BY <1>2, <1>3, <1>6 DEF ShmInv, ShmTextInv
<1> QED BY <1>8, <1>9, <1>10, <1>11, <1>12, <1>13, <1>14, <1>15, <1>16 DEF ShmInv

LEMMA ShmResetFirst ==
  ASSUME ShmInv, Shm!Reset, shm_todo[Server] = <<"s2c", "c2s">>
  PROVE  ShmInv'
<1>2. poster # NoClient => poster \in Client /\ poster \in Shm!Process
  BY ShmProcesses DEF ShmInv, Shm!TypeOK
<1>3. /\ shm_name' = shm_name /\ shm_run' = shm_run /\ shm_system' = shm_system
      /\ shm_handle' = shm_handle /\ shm_got' = shm_got /\ mem' = mem /\ heard' = heard
      /\ poster' = poster /\ shm_pc[Server] = "reset"
  BY DEF Shm!Reset, Shm!texts
<1>4. Server \in Shm!Process
  BY ShmProcesses
<1>5. PICK place \in {"reset"} : Shm!Goto(Server, place, <<"c2s">>)
  BY <1>3, ShmListsAre DEF Shm!Reset, Shm!Through
<1>6. /\ shm_pc' \in [Shm!Process -> ShmPlaces] /\ shm_todo' \in [Shm!Process -> ShmLists]
      /\ shm_pc'[Server] \in {"reset"} /\ shm_todo'[Server] = <<"c2s">>
      /\ \A q \in Shm!Process : q # Server => shm_pc'[q] = shm_pc[q] /\ shm_todo'[q] = shm_todo[q]
  BY <1>4, <1>5, ShmGoto DEF ShmPlaces, ShmLists
<1>7. /\ ShmActive \subseteq Client /\ ShmActive' = ShmActive /\ \A c \in Client : shm_pc'[c] = shm_pc[c]
      /\ ShmCurrent \subseteq ShmActive /\ ShmCurrent' = ShmCurrent
  <2>1. /\ ShmActive \subseteq Client /\ ShmActive' = ShmActive /\ \A c \in Client : shm_pc'[c] = shm_pc[c]
    BY <1>6, ShmProcesses DEF ShmActive
  <2> QED BY <1>3, <2>1 DEF ShmCurrent
<1>8. late' = late \cup ShmActive
  BY DEF Shm!Reset, ShmActive
<1>9. shm_handle[Server]["s2c"] # 0
  BY <1>3, <1>4 DEF ShmInv, ShmServerInv, Shm!Object
<1>10. PICK r \in Shm!Run : r = shm_handle[Server]["s2c"]
  BY <1>4, <1>9 DEF ShmInv, Shm!TypeOK, Shm!Object, Shm!Run
<1>11. "s2c" \in Shm!Semaphore /\ "s2c" \in Shm!Object /\ r # 0
  BY <1>9, <1>10 DEF Shm!Semaphore, Shm!Object
<1>13. PICK v \in Nat : v = 0 /\ Shm!Change(Server, "s2c", v)
  BY DEF Shm!Reset, Shm!ResetTo
<1>14. /\ val' \in [Shm!Semaphore -> [Shm!Run -> Nat]] /\ val'["s2c"][r] = 0
       /\ \A q \in Shm!Run : val'["c2s"][q] = val["c2s"][q]
       /\ \A q \in Shm!Run : q # r => val'["s2c"][q] = val["s2c"][q]
  BY <1>4, <1>10, <1>11, <1>13, ShmChanged DEF Shm!Semaphore
<1>15. shm_system = "sysv" /\ shm_name["s2c"] = r /\ shm_name["c2s"] = r
  BY <1>3, <1>10 DEF ShmInv, ShmServerInv, ShmNamesInv, Shm!Object
<1>16. val["s2c"][r] \in Nat /\ val["c2s"][r] \in Nat
  BY <1>10 DEF ShmInv, Shm!TypeOK, Shm!Semaphore
<1>17. ShmActive \subseteq Client
  BY DEF ShmActive
<1>18. late' = {} => late = {} /\ ShmActive = {}
  BY <1>8
<1>19. late' = {} => val["s2c"][r] + val["c2s"][r] <= 1
  BY <1>11, <1>15, <1>18 DEF ShmInv, ShmSysvInv
<1>20. Shm!TypeOK' /\ shm_todo' \in [Shm!Process -> ShmLists]
  BY <1>3, <1>6, <1>8, <1>14, <1>17 DEF ShmInv, Shm!TypeOK
<1>21. ShmNamesInv'
  BY <1>3, <1>6 DEF ShmInv, ShmNamesInv
<1>22. ShmServerInv'
  BY <1>3, <1>6 DEF ShmInv, ShmServerInv
<1>23. ShmClientInv'
  BY <1>3, <1>6, ShmProcesses DEF ShmInv, ShmClientInv, ShmClientAt, ShmOpening, ShmDealt
<1>24. ShmFreshInv'
  BY <1>3, <1>6, <1>14 DEF ShmInv, ShmFreshInv, Shm!Semaphore
<1>25. ShmPosixInv'
  BY <1>3, <1>15 DEF ShmPosixInv
<1>26. ShmSysvInv'
  <2> SUFFICES ASSUME late' = {} PROVE ShmSysvInv'
    BY DEF ShmSysvInv
  <2>0. val["c2s"][r] \in {0, 1}
    BY <1>16, <1>19
  <2>1. /\ shm_name' = shm_name /\ mem' = mem /\ shm_name["s2c"] = r /\ shm_name["c2s"] = r
        /\ ShmActive' = {} /\ shm_pc'[Server] \notin {"post", "read", "remove"}
        /\ val'["s2c"][r] = 0 /\ val'["c2s"][r] \in {0, 1} /\ shm_pc'[Server] # "write"
    BY <1>3, <1>6, <1>7, <1>14, <1>15, <1>18, <2>0
  <2> QED BY <2>1 DEF ShmSysvInv, ShmIdle
<1>27. ShmLateInv'
  BY <1>3, <1>6, <1>7, <1>8, <1>14, <1>15 DEF ShmLateInv, ShmIdle
<1>28. ShmTextInv'
  BY <1>2, <1>3, <1>6 DEF ShmInv, ShmTextInv
<1> QED BY <1>20, <1>21, <1>22, <1>23, <1>24, <1>25, <1>26, <1>27, <1>28 DEF ShmInv

LEMMA ShmResetSecond ==
  ASSUME ShmInv, Shm!Reset, shm_todo[Server] = <<"c2s">>
  PROVE  ShmInv'
<1>2. poster # NoClient => poster \in Client /\ poster \in Shm!Process
  BY ShmProcesses DEF ShmInv, Shm!TypeOK
<1>3. /\ shm_name' = shm_name /\ shm_run' = shm_run /\ shm_system' = shm_system
      /\ shm_handle' = shm_handle /\ shm_got' = shm_got /\ mem' = mem /\ heard' = heard
      /\ poster' = poster /\ shm_pc[Server] = "reset"
  BY DEF Shm!Reset, Shm!texts
<1>4. Server \in Shm!Process
  BY ShmProcesses
<1>5. PICK place \in {"write"} : Shm!Goto(Server, place, <<>>)
  BY <1>3, ShmListsAre DEF Shm!Reset, Shm!Through
<1>6. /\ shm_pc' \in [Shm!Process -> ShmPlaces] /\ shm_todo' \in [Shm!Process -> ShmLists]
      /\ shm_pc'[Server] \in {"write"} /\ shm_todo'[Server] = <<>>
      /\ \A q \in Shm!Process : q # Server => shm_pc'[q] = shm_pc[q] /\ shm_todo'[q] = shm_todo[q]
  BY <1>4, <1>5, ShmGoto DEF ShmPlaces, ShmLists
<1>7. /\ ShmActive \subseteq Client /\ ShmActive' = ShmActive /\ \A c \in Client : shm_pc'[c] = shm_pc[c]
      /\ ShmCurrent \subseteq ShmActive /\ ShmCurrent' = ShmCurrent
  <2>1. /\ ShmActive \subseteq Client /\ ShmActive' = ShmActive /\ \A c \in Client : shm_pc'[c] = shm_pc[c]
    BY <1>6, ShmProcesses DEF ShmActive
  <2> QED BY <1>3, <2>1 DEF ShmCurrent
<1>8. late' = late \cup ShmActive
  BY DEF Shm!Reset, ShmActive
<1>9. shm_handle[Server]["c2s"] # 0
  BY <1>3, <1>4 DEF ShmInv, ShmServerInv, Shm!Object
<1>10. PICK r \in Shm!Run : r = shm_handle[Server]["c2s"]
  BY <1>4, <1>9 DEF ShmInv, Shm!TypeOK, Shm!Object, Shm!Run
<1>11. "c2s" \in Shm!Semaphore /\ "c2s" \in Shm!Object /\ r # 0
  BY <1>9, <1>10 DEF Shm!Semaphore, Shm!Object
<1>13. PICK v \in Nat : v = 0 /\ Shm!Change(Server, "c2s", v)
  BY DEF Shm!Reset, Shm!ResetTo
<1>14. /\ val' \in [Shm!Semaphore -> [Shm!Run -> Nat]] /\ val'["c2s"][r] = 0
       /\ \A q \in Shm!Run : val'["s2c"][q] = val["s2c"][q]
       /\ \A q \in Shm!Run : q # r => val'["c2s"][q] = val["c2s"][q]
  BY <1>4, <1>10, <1>11, <1>13, ShmChanged DEF Shm!Semaphore
<1>15. shm_system = "sysv" /\ shm_name["s2c"] = r /\ shm_name["c2s"] = r
  BY <1>3, <1>10 DEF ShmInv, ShmServerInv, ShmNamesInv, Shm!Object
<1>17. ShmActive \subseteq Client
  BY DEF ShmActive
<1>18. late' = {} => late = {} /\ ShmActive = {}
  BY <1>8
<1>19. late' = {} => val["s2c"][r] + val["c2s"][r] <= 1 /\ val["s2c"][r] = 0
  BY <1>3, <1>11, <1>15, <1>18 DEF ShmInv, ShmSysvInv, ShmLateInv, ShmAfterReset, ShmIdle
<1>20. Shm!TypeOK' /\ shm_todo' \in [Shm!Process -> ShmLists]
  BY <1>3, <1>6, <1>8, <1>14, <1>17 DEF ShmInv, Shm!TypeOK, ShmPlaces
<1>21. ShmNamesInv'
  BY <1>3, <1>6 DEF ShmInv, ShmNamesInv
<1>22. ShmServerInv'
  BY <1>3, <1>6 DEF ShmInv, ShmServerInv
<1>23. ShmClientInv'
  BY <1>3, <1>6, ShmProcesses DEF ShmInv, ShmClientInv, ShmClientAt, ShmOpening, ShmDealt
<1>24. ShmFreshInv'
  BY <1>3, <1>6, <1>14 DEF ShmInv, ShmFreshInv, Shm!Semaphore
<1>25. ShmPosixInv'
  BY <1>3, <1>15 DEF ShmPosixInv
<1>26. ShmSysvInv'
  <2> SUFFICES ASSUME late' = {} PROVE ShmSysvInv'
    BY DEF ShmSysvInv
  <2>1. /\ shm_name' = shm_name /\ mem' = mem /\ shm_name["s2c"] = r /\ shm_name["c2s"] = r
        /\ ShmActive' = {} /\ shm_pc'[Server] \notin {"post", "read", "remove"}
        /\ val'["s2c"][r] = 0 /\ val'["c2s"][r] = 0
    BY <1>3, <1>6, <1>7, <1>14, <1>15, <1>18, <1>19
  <2> QED BY <2>1 DEF ShmSysvInv, ShmIdle
<1>27. ShmLateInv'
  BY <1>3, <1>6, <1>7, <1>8, <1>14, <1>15 DEF ShmInv, ShmLateInv, ShmIdle, ShmAfterReset
<1>28. ShmTextInv'
  BY <1>2, <1>3, <1>6 DEF ShmInv, ShmTextInv
<1> QED BY <1>20, <1>21, <1>22, <1>23, <1>24, <1>25, <1>26, <1>27, <1>28 DEF ShmInv

LEMMA ShmStartServer ==
  ASSUME ShmInv, Shm!StartServer
  PROVE  ShmInv'
<1>2. poster # NoClient => poster \in Client /\ poster \in Shm!Process
  BY ShmProcesses DEF ShmInv, Shm!TypeOK
<1>3. /\ shm_name' = shm_name /\ shm_system' = shm_system /\ val' = val /\ mem' = mem
      /\ heard' = heard /\ poster' = poster /\ late' = late
  BY DEF Shm!StartServer
<1>4. Server \in Shm!Process
  BY ShmProcesses
<1>5. PICK place \in {"clear", "open"} : Shm!Goto(Server, place, Shm!Objects) /\ (place = "clear" <=> shm_system = "posix")
  BY DEF Shm!StartServer
<1>6. /\ shm_pc' \in [Shm!Process -> ShmPlaces] /\ shm_todo' \in [Shm!Process -> ShmLists]
      /\ shm_pc'[Server] \in {"clear", "open"} /\ shm_todo'[Server] = Shm!Objects
      /\ shm_pc'[Server] = "clear" <=> shm_system = "posix"
      /\ \A q \in Shm!Process : q # Server => shm_pc'[q] = shm_pc[q] /\ shm_todo'[q] = shm_todo[q]
  <2>1. Shm!Objects \in ShmLists
    BY DEF Shm!Objects, ShmLists
  <2>2. place \in ShmPlaces
    BY DEF ShmPlaces
  <2> QED BY <1>4, <1>5, <2>1, <2>2, ShmGoto
<1>7. shm_run \in Nat
  BY RunsAssumption DEF ShmInv, Shm!TypeOK
<1>8. PICK n \in Nat : n = shm_run + 1
  BY <1>7
<1>9. shm_run' = n /\ shm_run < ShmRuns
  BY <1>8 DEF Shm!StartServer
<1>10. shm_got' = ""
  BY DEF Shm!StartServer
<1>11. n \in Shm!Run /\ n \in 0..ShmRuns /\ shm_run < n /\ n # 0
  <2>1. n \in 1..ShmRuns /\ n \in 0..ShmRuns /\ n # 0 /\ shm_run < n
    BY <1>7, <1>8, <1>9, RunsAssumption
  <2> QED BY <2>1 DEF Shm!Run
<1>12. /\ shm_handle' \in [Shm!Process -> [Shm!Object -> 0..ShmRuns]]
       /\ \A x \in Shm!Object : shm_handle'[Server][x] = 0
       /\ \A q \in Shm!Process : q # Server => shm_handle'[q] = shm_handle[q]
  <2>1. Shm!Closed \in [Shm!Object -> 0..ShmRuns] /\ \A x \in Shm!Object : Shm!Closed[x] = 0
    BY RunsAssumption DEF Shm!Closed
  <2>2. shm_handle' = [shm_handle EXCEPT ![Server] = Shm!Closed]
    BY DEF Shm!StartServer
  <2> QED BY <1>4, <2>1, <2>2 DEF ShmInv, Shm!TypeOK
<1>13. \A x \in Shm!Object : shm_name[x] < n /\ \A q \in Shm!Process : shm_handle'[q][x] < n
  <2>1. \A x \in Shm!Object : shm_name[x] <= shm_run /\ \A q \in Shm!Process : shm_handle[q][x] <= shm_run
    BY DEF ShmInv, ShmNamesInv
  <2>2. \A x \in Shm!Object : shm_name[x] \in Nat /\ \A q \in Shm!Process : shm_handle[q][x] \in Nat
    BY RunsAssumption DEF ShmInv, Shm!TypeOK
  <2>3. \A x \in Shm!Object : shm_name[x] < n
    BY <1>7, <1>8, <2>1, <2>2
  <2>4. ASSUME NEW x \in Shm!Object, NEW q \in Shm!Process PROVE shm_handle'[q][x] < n
    <3>1. CASE q = Server
      BY <1>7, <1>8, <1>12, <3>1
    <3>2. CASE q # Server
      BY <1>7, <1>8, <1>12, <2>1
    <3> QED BY <3>1, <3>2
  <2> QED BY <2>3, <2>4
<1>14. \A x \in Shm!Semaphore : val[x][n] = 0
  <2> SUFFICES ASSUME NEW x \in Shm!Semaphore, val[x][n] # 0 PROVE FALSE
    OBVIOUS
  <2>1. n <= shm_run
    BY <1>11 DEF ShmInv, ShmFreshInv
  <2> QED BY <1>7, <1>8, <2>1
<1>15. \A x \in Shm!Object :
          /\ shm_name[x] <= n /\ shm_name[x] # n
          /\ \A q \in Shm!Process : shm_handle'[q][x] <= n /\ shm_handle'[q][x] # n
  <2>1. \A x \in Shm!Object : shm_name[x] \in Nat /\ \A q \in Shm!Process : shm_handle'[q][x] \in Nat
    BY <1>12, RunsAssumption DEF ShmInv, Shm!TypeOK
  <2> QED BY <1>13, <2>1
<1>16. "shm" \in Shm!Object /\ "s2c" \in Shm!Object /\ "c2s" \in Shm!Object /\ "s2c" \in Shm!Semaphore
  BY DEF Shm!Object, Shm!Semaphore
<1>17. /\ ShmActive' = ShmActive /\ ShmActive \subseteq Client
       /\ \A c \in Client : shm_pc'[c] = shm_pc[c] /\ shm_todo'[c] = shm_todo[c] /\ shm_handle'[c] = shm_handle[c]
  <2>1. \A c \in Client : shm_pc'[c] = shm_pc[c] /\ shm_todo'[c] = shm_todo[c] /\ shm_handle'[c] = shm_handle[c]
    <3> SUFFICES ASSUME NEW c \in Client
                 PROVE  shm_pc'[c] = shm_pc[c] /\ shm_todo'[c] = shm_todo[c] /\ shm_handle'[c] = shm_handle[c]
      OBVIOUS
    <3>1. c \in Shm!Process /\ c # Server
      BY ShmProcesses
    <3>2. shm_pc'[c] = shm_pc[c] /\ shm_todo'[c] = shm_todo[c]
      BY <1>6, <3>1
    <3>3. shm_handle'[c] = shm_handle[c]
      <4>1. shm_handle' = [shm_handle EXCEPT ![Server] = Shm!Closed]
        BY DEF Shm!StartServer
      <4> QED BY <3>1, <4>1 DEF ShmInv, Shm!TypeOK
    <3> QED BY <3>2, <3>3
  <2> QED BY <2>1 DEF ShmActive
<1>18. ShmCurrent' = {}
  BY <1>9, <1>15, <1>16, <1>17, ShmProcesses DEF ShmCurrent
<1>19. ShmOpening(Server)' /\ ShmDealt(Server)' = {}
  BY <1>3, <1>4, <1>6, ShmAtStart
<1>20. Shm!TypeOK' /\ shm_todo' \in [Shm!Process -> ShmLists]
  <2>1. shm_run' \in 0..ShmRuns /\ shm_got' \in Shm!Text
    BY <1>9, <1>10, <1>11 DEF Shm!Text
  <2>2. /\ shm_system' \in {"sysv", "posix"} /\ shm_name' \in [Shm!Object -> 0..ShmRuns]
        /\ mem' \in [Shm!Run -> Shm!Text] /\ val' \in [Shm!Semaphore -> [Shm!Run -> Nat]]
        /\ heard' \in [Client -> Shm!Text] /\ poster' \in Client \cup {NoClient} /\ late' \subseteq Client
    BY <1>3 DEF ShmInv, Shm!TypeOK
  <2> QED BY <1>6, <1>12, <2>1, <2>2 DEF Shm!TypeOK, ShmPlaces
<1>21. ShmNamesInv'
  BY <1>3, <1>6, <1>9, <1>12, <1>13, <1>15, <1>16 DEF ShmInv, ShmNamesInv
<1>22. ShmServerInv'
  BY <1>3, <1>6, <1>9, <1>11, <1>19 DEF ShmServerInv
<1>23. ShmClientInv'
  BY <1>3, <1>9, <1>15, <1>16, <1>17, ShmProcesses DEF ShmInv, ShmClientInv, ShmClientAt, ShmOpening,
     ShmDealt
<1>24. ShmFreshInv'
  <2>1. \A x \in Shm!Semaphore : \A r \in Shm!Run : val[x][r] # 0 => r <= n /\ r # n
    <3> SUFFICES ASSUME NEW x \in Shm!Semaphore, NEW r \in Shm!Run, val[x][r] # 0 PROVE r <= n /\ r # n
      OBVIOUS
    <3>1. r <= shm_run /\ r # n /\ r \in Nat
      BY <1>14, RunsAssumption DEF ShmInv, ShmFreshInv, Shm!Run
    <3> QED BY <1>7, <1>8, <3>1
  <2> QED BY <1>3, <1>9, <2>1 DEF ShmFreshInv
<1>25. ShmPosixInv'
  BY <1>2, <1>3, <1>6, <1>9, <1>14, <1>15, <1>16, <1>18 DEF ShmInv, ShmPosixInv
<1>26. ShmSysvInv'
  BY <1>3, <1>6, <1>17 DEF ShmInv, ShmSysvInv, ShmIdle
<1>27. ShmLateInv'
  BY <1>6 DEF ShmLateInv, ShmAfterReset
<1>28. ShmTextInv'
  BY <1>2, <1>3, <1>6, ShmProcesses DEF ShmInv, ShmTextInv
<1> QED BY <1>20, <1>21, <1>22, <1>23, <1>24, <1>25, <1>26, <1>27, <1>28 DEF ShmInv

LEMMA ShmClearOld ==
  ASSUME ShmInv, Shm!ClearOld
  PROVE  ShmInv'
<1>2. poster # NoClient => poster \in Client /\ poster \in Shm!Process
  BY ShmProcesses DEF ShmInv, Shm!TypeOK
<1>3. /\ shm_run' = shm_run /\ shm_system' = shm_system /\ shm_handle' = shm_handle
      /\ shm_got' = shm_got /\ val' = val /\ mem' = mem /\ heard' = heard
      /\ poster' = poster /\ late' = late /\ shm_pc[Server] = "clear"
  BY DEF Shm!ClearOld, Shm!texts
<1>4. Server \in Shm!Process
  BY ShmProcesses
<1>5. ShmOpening(Server)
  BY <1>3 DEF ShmInv, ShmServerInv
<1>6. PICK next \in {"open"}, objects \in ShmLists : Shm!Through(Server, next, objects) /\ objects = Shm!Objects
  BY DEF Shm!ClearOld, Shm!Objects, ShmLists
<1>7. PICK parts \in SUBSET Shm!Object : parts = Shm!Parts(Head(shm_todo[Server]))
  BY <1>3, <1>4, <1>5, <1>6, ShmThrough DEF ShmPlaces
<1>8. /\ ShmDealt(Server) \cap parts = {}
      /\ shm_pc' \in [Shm!Process -> ShmPlaces] /\ shm_todo' \in [Shm!Process -> ShmLists]
      /\ \A q \in Shm!Process : q # Server => shm_pc'[q] = shm_pc[q] /\ shm_todo'[q] = shm_todo[q]
      /\ \/ /\ shm_pc'[Server] = next /\ shm_todo'[Server] = objects
            /\ ShmDealt(Server) \cup parts = Shm!Object
            /\ "c2s" \in parts
         \/ /\ shm_pc'[Server] = "clear" /\ ShmOpening(Server)'
            /\ ShmDealt(Server)' = ShmDealt(Server) \cup parts
            /\ "c2s" \notin parts
  BY <1>3, <1>4, <1>5, <1>6, <1>7, ShmThrough DEF ShmPlaces
<1>9. "shm" \in Shm!Object /\ "s2c" \in Shm!Object /\ "c2s" \in Shm!Object
  BY DEF Shm!Object
<1>11. shm_system = "posix"
  BY <1>3 DEF ShmInv, ShmServerInv
<1>12. shm_name' \in [Shm!Object -> 0..ShmRuns] /\ \A x \in Shm!Object : shm_name'[x] = IF x \in parts THEN 0 ELSE shm_name[x]
  BY <1>7, <1>11, RunsAssumption DEF Shm!ClearOld, Shm!Parts, ShmInv, Shm!TypeOK
<1>13. shm_run \in Nat /\ shm_run # 0
  BY <1>3, RunsAssumption DEF ShmInv, Shm!TypeOK, ShmServerInv
<1>14. /\ ShmActive \subseteq Client /\ ShmActive' = ShmActive /\ \A c \in Client : shm_pc'[c] = shm_pc[c]
       /\ ShmCurrent \subseteq ShmActive /\ ShmCurrent' = ShmCurrent
  <2>1. /\ ShmActive \subseteq Client /\ ShmActive' = ShmActive /\ \A c \in Client : shm_pc'[c] = shm_pc[c]
    BY <1>8, ShmProcesses DEF ShmActive
  <2> QED BY <1>3, <2>1 DEF ShmCurrent
<1>15. shm_pc'[Server] = "open" => ShmOpening(Server)' /\ ShmDealt(Server)' = {}
  BY <1>3, <1>4, <1>6, <1>8, ShmAtStart
<1>16. \A x \in Shm!Object : shm_name[x] < shm_run /\ 0 < shm_run /\ \A q \in Shm!Process : shm_handle[q][x] < shm_run
  BY <1>3, <1>13 DEF ShmInv, ShmNamesInv
<1>17. \A x \in Shm!Object : shm_name'[x] < shm_run /\ shm_name'[x] <= shm_run /\ shm_name'[x] # shm_run
  <2> QED BY <1>12, <1>13, <1>16
<1>18. Shm!TypeOK' /\ shm_todo' \in [Shm!Process -> ShmLists]
  BY <1>3, <1>8, <1>12 DEF ShmInv, Shm!TypeOK
<1>19. ShmNamesInv'
  <2>1. \A x \in Shm!Object : shm_handle[Server][x] # shm_run
    BY <1>4, <1>13, <1>16
  <2>2. \A x \in Shm!Object : shm_handle'[Server][x] = 0
    BY <1>3, <1>11, <2>1 DEF ShmInv, ShmNamesInv
  <2>3. \A x \in Shm!Object : \A q \in Shm!Process : shm_handle[q][x] <= shm_run
    BY DEF ShmInv, ShmNamesInv
  <2>4. shm_pc'[Server] \in {"clear", "open"}
    BY <1>6, <1>8
  <2>5. ASSUME shm_pc'[Server] = "open", NEW x \in Shm!Object PROVE shm_name'[x] = 0
    <3>1. x \in ShmDealt(Server) \/ x \in parts
      BY <1>8, <2>5
    <3>2. x \in ShmDealt(Server) => shm_name[x] = 0
      BY <1>3 DEF ShmInv, ShmServerInv
    <3> QED BY <1>12, <3>1, <3>2
  <2> QED BY <1>3, <1>9, <1>11, <1>16, <1>17, <2>2, <2>3, <2>4, <2>5 DEF ShmNamesInv
<1>20. ShmServerInv'
  BY <1>3, <1>8, <1>9, <1>12, <1>15 DEF ShmInv, ShmServerInv, ShmDealt
<1>21. ShmClientInv'
  BY <1>3, <1>8, <1>9, <1>12, ShmProcesses DEF ShmInv, ShmClientInv, ShmClientAt, ShmOpening, ShmDealt
<1>22. ShmFreshInv'
  BY <1>3 DEF ShmInv, ShmFreshInv
<1>23. ShmPosixInv'
  BY <1>3, <1>8, <1>14 DEF ShmInv, ShmPosixInv
<1>24. ShmSysvInv'
  BY <1>3, <1>11 DEF ShmSysvInv
<1>25. ShmLateInv'
  BY <1>8 DEF ShmLateInv, ShmAfterReset
<1>26. ShmTextInv'
  BY <1>2, <1>3, <1>8 DEF ShmInv, ShmTextInv
<1> QED BY <1>18, <1>19, <1>20, <1>21, <1>22, <1>23, <1>24, <1>25, <1>26 DEF ShmInv

LEMMA ShmRemove ==
  ASSUME ShmInv, Shm!Remove
  PROVE  ShmInv'
<1>2. poster # NoClient => poster \in Client /\ poster \in Shm!Process
  BY ShmProcesses DEF ShmInv, Shm!TypeOK
<1>3. /\ shm_run' = shm_run /\ shm_system' = shm_system /\ shm_handle' = shm_handle
      /\ shm_got' = shm_got /\ val' = val /\ mem' = mem /\ heard' = heard
      /\ poster' = poster /\ late' = late /\ shm_pc[Server] = "remove"
  BY DEF Shm!Remove, Shm!texts
<1>4. Server \in Shm!Process
  BY ShmProcesses
<1>5. ShmOpening(Server)
  BY <1>3 DEF ShmInv, ShmServerInv
<1>6. PICK next \in {"done"}, objects \in ShmLists : Shm!Through(Server, next, objects) /\ objects = <<>>
  BY DEF Shm!Remove, ShmLists
<1>7. PICK parts \in SUBSET Shm!Object : parts = Shm!Parts(Head(shm_todo[Server]))
  BY <1>3, <1>4, <1>5, <1>6, ShmThrough DEF ShmPlaces
<1>8. /\ ShmDealt(Server) \cap parts = {}
      /\ shm_pc' \in [Shm!Process -> ShmPlaces] /\ shm_todo' \in [Shm!Process -> ShmLists]
      /\ \A q \in Shm!Process : q # Server => shm_pc'[q] = shm_pc[q] /\ shm_todo'[q] = shm_todo[q]
      /\ \/ /\ shm_pc'[Server] = next /\ shm_todo'[Server] = objects
            /\ ShmDealt(Server) \cup parts = Shm!Object
            /\ "c2s" \in parts
         \/ /\ shm_pc'[Server] = "remove" /\ ShmOpening(Server)'
            /\ ShmDealt(Server)' = ShmDealt(Server) \cup parts
            /\ "c2s" \notin parts
  BY <1>3, <1>4, <1>5, <1>6, <1>7, ShmThrough DEF ShmPlaces
<1>9. "shm" \in Shm!Object /\ "s2c" \in Shm!Object /\ "c2s" \in Shm!Object
  BY DEF Shm!Object
<1>10. shm_system = "sysv" => ("s2c" \in parts <=> "c2s" \in parts)
  <2>1. Head(shm_todo[Server]) \in {"shm", "s2c"} \/ shm_system # "sysv"
    BY <1>5, ShmListsAre DEF ShmOpening
  <2> QED BY <1>7, <2>1 DEF Shm!Parts, Shm!Semaphore
<1>11. shm_name' \in [Shm!Object -> 0..ShmRuns] /\ \A x \in Shm!Object : shm_name'[x] = IF x \in parts THEN 0 ELSE shm_name[x]
  BY <1>7, RunsAssumption DEF Shm!Remove, ShmInv, Shm!TypeOK
<1>12. shm_run \in Nat /\ shm_run # 0
  BY <1>3, RunsAssumption DEF ShmInv, Shm!TypeOK, ShmServerInv
<1>13. /\ ShmActive \subseteq Client /\ ShmActive' = ShmActive /\ \A c \in Client : shm_pc'[c] = shm_pc[c]
       /\ ShmCurrent \subseteq ShmActive /\ ShmCurrent' = ShmCurrent
  <2>1. /\ ShmActive \subseteq Client /\ ShmActive' = ShmActive /\ \A c \in Client : shm_pc'[c] = shm_pc[c]
    BY <1>8, ShmProcesses DEF ShmActive
  <2> QED BY <1>3, <2>1 DEF ShmCurrent
<1>14. Shm!TypeOK' /\ shm_todo' \in [Shm!Process -> ShmLists]
  BY <1>3, <1>8, <1>11 DEF ShmInv, Shm!TypeOK
<1>15. ShmNamesInv'
  BY <1>3, <1>8, <1>9, <1>10, <1>11, <1>12 DEF ShmInv, ShmNamesInv
<1>16. ShmServerInv'
  BY <1>3, <1>8 DEF ShmInv, ShmServerInv
<1>17. ShmClientInv'
  BY <1>3, <1>8, <1>9, <1>11, ShmProcesses DEF ShmInv, ShmClientInv, ShmClientAt, ShmOpening, ShmDealt
<1>18. ShmFreshInv'
  BY <1>3, <1>8 DEF ShmInv, ShmFreshInv
<1>19. ShmPosixInv'
  BY <1>3, <1>8, <1>13 DEF ShmInv, ShmPosixInv
<1>20. ShmSysvInv'
  BY <1>3, <1>9, <1>11, <1>13 DEF ShmInv, ShmSysvInv, ShmIdle
<1>21. ShmLateInv'
  BY <1>8 DEF ShmLateInv, ShmAfterReset
<1>22. ShmTextInv'
  BY <1>2, <1>3, <1>8 DEF ShmInv, ShmTextInv
<1> QED BY <1>14, <1>15, <1>16, <1>17, <1>18, <1>19, <1>20, <1>21, <1>22 DEF ShmInv

LEMMA ShmOpenOrMake ==
  ASSUME ShmInv, Shm!OpenOrMake
  PROVE  ShmInv'
<1>2. poster # NoClient => poster \in Client /\ poster \in Shm!Process
  BY ShmProcesses DEF ShmInv, Shm!TypeOK
<1>3. /\ shm_run' = shm_run /\ shm_system' = shm_system /\ shm_got' = shm_got
      /\ val' = val /\ mem' = mem /\ heard' = heard /\ poster' = poster /\ late' = late
      /\ shm_pc[Server] = "open"
  BY DEF Shm!OpenOrMake, Shm!texts
<1>4. Server \in Shm!Process
  BY ShmProcesses
<1>5. ShmOpening(Server)
  BY <1>3 DEF ShmInv, ShmServerInv
<1>6. PICK next \in {"reset", "write"}, objects \in ShmLists :
         /\ Shm!Through(Server, next, objects)
         /\ (IF shm_system = "sysv"
             THEN next = "reset" /\ objects = <<"s2c", "c2s">>
             ELSE next = "write" /\ objects = <<>>)
  BY DEF Shm!OpenOrMake, ShmLists
<1>7. PICK parts \in SUBSET Shm!Object : parts = Shm!Parts(Head(shm_todo[Server]))
  BY <1>3, <1>4, <1>5, <1>6, ShmThrough DEF ShmPlaces
<1>8. /\ ShmDealt(Server) \cap parts = {}
      /\ shm_pc' \in [Shm!Process -> ShmPlaces] /\ shm_todo' \in [Shm!Process -> ShmLists]
      /\ \A q \in Shm!Process : q # Server => shm_pc'[q] = shm_pc[q] /\ shm_todo'[q] = shm_todo[q]
      /\ \/ /\ shm_pc'[Server] = next /\ shm_todo'[Server] = objects
            /\ ShmDealt(Server) \cup parts = Shm!Object
            /\ "c2s" \in parts
         \/ /\ shm_pc'[Server] = "open" /\ ShmOpening(Server)'
            /\ ShmDealt(Server)' = ShmDealt(Server) \cup parts
            /\ "c2s" \notin parts
  BY <1>3, <1>4, <1>5, <1>6, <1>7, ShmThrough DEF ShmPlaces
<1>9. "shm" \in Shm!Object /\ "s2c" \in Shm!Object /\ "c2s" \in Shm!Object
  BY DEF Shm!Object
<1>10. shm_system = "sysv" => ("s2c" \in parts <=> "c2s" \in parts)
  <2>1. Head(shm_todo[Server]) \in {"shm", "s2c"} \/ shm_system # "sysv"
    BY <1>5, ShmListsAre DEF ShmOpening
  <2> QED BY <1>7, <2>1 DEF Shm!Parts, Shm!Semaphore
<1>11. shm_run \in Nat /\ shm_run # 0 /\ shm_run \in 0..ShmRuns /\ shm_run \in Shm!Run
  BY <1>3, ShmRanges DEF ShmInv, Shm!TypeOK, ShmServerInv
<1>12. /\ shm_name' \in [Shm!Object -> 0..ShmRuns]
       /\ \A x \in Shm!Object : shm_name'[x] = IF x \in parts /\ shm_name[x] = 0 THEN shm_run ELSE shm_name[x]
  BY <1>7 DEF Shm!OpenOrMake, ShmInv, Shm!TypeOK
<1>13. PICK h \in [Shm!Object -> 0..ShmRuns] :
          h = [x \in Shm!Object |-> IF x \in parts THEN shm_name'[x] ELSE shm_handle[Server][x]]
  BY <1>4, <1>12 DEF ShmInv, Shm!TypeOK
<1>14. shm_handle' = [shm_handle EXCEPT ![Server] = h]
  BY <1>7, <1>13 DEF Shm!OpenOrMake
<1>15. shm_handle' \in [Shm!Process -> [Shm!Object -> 0..ShmRuns]]
  BY <1>4, <1>14, ShmHandles
<1>16. \A x \in Shm!Object : shm_handle'[Server][x] = IF x \in parts THEN shm_name'[x] ELSE shm_handle[Server][x]
  BY <1>4, <1>13, <1>14, ShmHandles
<1>17. \A q \in Shm!Process : q # Server => shm_handle'[q] = shm_handle[q]
  BY <1>14
<1>18. \A c \in Client : shm_pc'[c] = shm_pc[c] /\ shm_todo'[c] = shm_todo[c] /\ shm_handle'[c] = shm_handle[c]
  <2> SUFFICES ASSUME NEW c \in Client
               PROVE  shm_pc'[c] = shm_pc[c] /\ shm_todo'[c] = shm_todo[c] /\ shm_handle'[c] = shm_handle[c]
    OBVIOUS
  <2>1. c \in Shm!Process /\ c # Server
    BY ShmProcesses
  <2>2. shm_pc'[c] = shm_pc[c] /\ shm_todo'[c] = shm_todo[c]
    BY <1>8, <2>1
  <2>3. shm_handle'[c] = shm_handle[c]
    BY <1>17, <2>1
  <2> QED BY <2>2, <2>3
<1>19. ShmActive' = ShmActive /\ ShmActive \subseteq Client
  BY <1>18 DEF ShmActive
<1>20. ShmCurrent' = ShmCurrent /\ ShmCurrent \subseteq ShmActive
  BY <1>3, <1>18, <1>19 DEF ShmCurrent
<1>21. shm_pc'[Server] \in {"open", "reset", "write"}
  BY <1>6, <1>8
<1>22. /\ shm_system = "sysv" => shm_pc'[Server] \in {"open", "reset"}
       /\ shm_system # "sysv" => shm_pc'[Server] \in {"open", "write"}
       /\ shm_pc'[Server] = "reset" => shm_todo'[Server] = <<"s2c", "c2s">>
  BY <1>6, <1>8
<1>23. "s2c" \in Shm!Semaphore /\ "c2s" \in Shm!Semaphore
  BY DEF Shm!Semaphore
<1>24. val["s2c"][shm_run] = 0 /\ val["c2s"][shm_run] = 0
  BY <1>3, <1>11, <1>23 DEF ShmInv, ShmFreshInv
<1>25. shm_system = "sysv" => shm_name["s2c"] = shm_name["c2s"]
  BY DEF ShmInv, ShmNamesInv
<1>26. Shm!TypeOK' /\ shm_todo' \in [Shm!Process -> ShmLists]
  BY <1>3, <1>8, <1>12, <1>15 DEF ShmInv, Shm!TypeOK, ShmPlaces
<1>27. ShmNamesInv'
  BY <1>3, <1>8, <1>9, <1>10, <1>12, <1>16, <1>17 DEF ShmInv, ShmNamesInv
<1>28. ShmServerInv'
  <2>1. \A x \in parts : shm_name'[x] # 0 /\ shm_handle'[Server][x] = shm_name'[x]
    BY <1>11, <1>12, <1>16
  <2>2. \A x \in ShmDealt(Server) : x \in Shm!Object => shm_name'[x] # 0 /\ shm_handle'[Server][x] = shm_name'[x]
    BY <1>3, <1>12, <1>16 DEF ShmInv, ShmServerInv
  <2>3. /\ shm_pc'[Server] \notin {"attach", "ended", "clear", "remove"} /\ shm_run' # 0
        /\ shm_pc'[Server] # "off"
    BY <1>3, <1>11, <1>21
  <2>4. CASE shm_pc'[Server] = "open"
    <3>1. ShmOpening(Server)' /\ ShmDealt(Server)' = ShmDealt(Server) \cup parts
      BY <1>8, <2>4
    <3>2. ShmDealt(Server) \subseteq Shm!Object
      BY <1>9 DEF ShmDealt
    <3>3. \A x \in ShmDealt(Server)' : shm_name'[x] # 0 /\ shm_handle'[Server][x] = shm_name'[x]
      BY <2>1, <2>2, <3>1, <3>2
    <3>4. shm_system = "posix" => \A x \in Shm!Object \ ShmDealt(Server)' : shm_name'[x] = 0
      BY <1>3, <1>12, <3>1 DEF ShmInv, ShmServerInv
    <3> QED BY <1>3, <2>3, <2>4, <3>1, <3>3, <3>4 DEF ShmServerInv
  <2>5. CASE shm_pc'[Server] # "open"
    <3>1. \A x \in Shm!Object : shm_name'[x] # 0 /\ shm_handle'[Server][x] = shm_name'[x]
      BY <1>8, <2>1, <2>2, <2>5
    <3> QED BY <1>3, <1>22, <2>3, <2>5, <3>1 DEF ShmServerInv
  <2> QED BY <2>4, <2>5
<1>29. ShmClientInv'
  BY <1>3, <1>9, <1>12, <1>18 DEF ShmInv, ShmClientInv, ShmClientAt, ShmOpening, ShmDealt
<1>30. ShmFreshInv'
  BY <1>3 DEF ShmInv, ShmFreshInv
<1>31. ShmPosixInv'
  BY <1>2, <1>3, <1>18, <1>20, <1>22 DEF ShmInv, ShmPosixInv
<1>32. ShmSysvInv'
  <2> SUFFICES ASSUME shm_system = "sysv", late = {} PROVE ShmSysvInv'
    BY <1>3 DEF ShmSysvInv
  <2>1. shm_pc'[Server] \in {"open", "reset"} /\ val' = val /\ mem' = mem /\ ShmActive' = ShmActive
    BY <1>3, <1>19, <1>22
  <2>2. shm_name["shm"] # 0 => shm_name'["shm"] = shm_name["shm"]
    BY <1>9, <1>12
  <2>3. \A d \in ShmActive : shm_pc'[d] = shm_pc[d] /\ shm_handle'[d] = shm_handle[d]
    BY <1>18, <1>19
  <2>4. CASE shm_name["s2c"] # 0 \/ "s2c" \notin parts
    <3>1. shm_name'["s2c"] = shm_name["s2c"] /\ shm_name'["c2s"] = shm_name["c2s"]
      BY <1>9, <1>10, <1>12, <1>25, <2>4
    <3>2. ShmIdle("s2c")' = ShmIdle("s2c") /\ ShmIdle("c2s")' = ShmIdle("c2s")
      BY <2>1, <3>1 DEF ShmIdle
    <3> QED BY <2>1, <2>2, <2>3, <3>1, <3>2 DEF ShmInv, ShmSysvInv
  <2>5. CASE shm_name["s2c"] = 0 /\ "s2c" \in parts
    <3>1. shm_name'["s2c"] = shm_run /\ shm_name'["c2s"] = shm_run
      BY <1>10, <1>12, <1>25, <2>5
    <3>2. ShmIdle("s2c")' /\ ShmIdle("c2s")'
      BY <1>24, <2>1, <3>1 DEF ShmIdle
    <3>3. ShmActive' = {}
      BY <2>1, <2>5 DEF ShmInv, ShmSysvInv
    <3> QED BY <1>24, <2>1, <3>1, <3>2, <3>3 DEF ShmSysvInv
  <2> QED BY <2>4, <2>5
<1>33. ShmLateInv'
  <2> SUFFICES ASSUME shm_system = "sysv" PROVE ~ShmAfterReset' /\ shm_pc'[Server] \notin {"write", "post", "wait", "read"}
    BY <1>3 DEF ShmLateInv
  <2>1. shm_pc'[Server] \in {"open", "reset"}
    BY <1>21, <1>22
  <2>2. shm_pc'[Server] = "reset" => shm_todo'[Server] # <<"c2s">>
    BY <1>22, ShmListsAre
  <2> QED BY <2>1, <2>2 DEF ShmAfterReset
<1>34. ShmTextInv'
  BY <1>2, <1>3, <1>18, <1>21 DEF ShmInv, ShmTextInv
<1> QED BY <1>26, <1>27, <1>28, <1>29, <1>30, <1>31, <1>32, <1>33, <1>34 DEF ShmInv

LEMMA ShmOpenThere ==
  ASSUME ShmInv, NEW c \in Client, Shm!Open(c), ~(\E x \in Shm!Parts(Head(shm_todo[c])) : shm_name[x] = 0)
  PROVE  ShmInv'
<1>2. poster # NoClient => poster \in Client /\ poster \in Shm!Process
  BY ShmProcesses DEF ShmInv, Shm!TypeOK
<1>3. /\ shm_name' = shm_name /\ shm_run' = shm_run /\ shm_system' = shm_system
      /\ shm_got' = shm_got /\ val' = val /\ mem' = mem /\ heard' = heard
      /\ poster' = poster /\ late' = late /\ shm_pc[c] = "open"
  BY DEF Shm!Open, Shm!texts
<1>4. c \in Shm!Process
  BY ShmProcesses
<1>5. ShmOpening(c)
  BY <1>3 DEF ShmInv, ShmClientInv, ShmClientAt
<1>6. ~(\E x \in Shm!Parts(Head(shm_todo[c])) : shm_name[x] = 0)
  OBVIOUS
<1>7. PICK next \in {"attach"}, objects \in ShmLists : Shm!Through(c, next, objects) /\ objects = <<>>
  BY <1>6 DEF Shm!Open, ShmLists
<1>8. PICK parts \in SUBSET Shm!Object : parts = Shm!Parts(Head(shm_todo[c]))
  BY <1>3, <1>4, <1>5, <1>7, ShmThrough DEF ShmPlaces
<1>9. /\ ShmDealt(c) \cap parts = {}
      /\ shm_pc' \in [Shm!Process -> ShmPlaces] /\ shm_todo' \in [Shm!Process -> ShmLists]
      /\ \A q \in Shm!Process : q # c => shm_pc'[q] = shm_pc[q] /\ shm_todo'[q] = shm_todo[q]
      /\ \/ /\ shm_pc'[c] = next /\ shm_todo'[c] = objects
            /\ ShmDealt(c) \cup parts = Shm!Object
            /\ "c2s" \in parts
         \/ /\ shm_pc'[c] = "open" /\ ShmOpening(c)'
            /\ ShmDealt(c)' = ShmDealt(c) \cup parts
            /\ "c2s" \notin parts
  BY <1>3, <1>4, <1>5, <1>7, <1>8, ShmThrough DEF ShmPlaces
<1>10. "shm" \in Shm!Object /\ "s2c" \in Shm!Object /\ "c2s" \in Shm!Object
  BY DEF Shm!Object
<1>11. shm_system = "sysv" => ("s2c" \in parts <=> "c2s" \in parts)
  <2>1. Head(shm_todo[c]) \in {"shm", "s2c"} \/ shm_system # "sysv"
    BY <1>5, ShmListsAre DEF ShmOpening
  <2> QED BY <1>8, <2>1 DEF Shm!Parts, Shm!Semaphore
<1>12. \A x \in parts : shm_name[x] # 0
  BY <1>6, <1>8
<1>13. PICK h \in [Shm!Object -> 0..ShmRuns] :
          h = [x \in Shm!Object |-> IF x \in parts THEN shm_name[x] ELSE shm_handle[c][x]]
  BY <1>4 DEF ShmInv, Shm!TypeOK
<1>14. shm_handle' = [shm_handle EXCEPT ![c] = h]
  BY <1>8, <1>13 DEF Shm!Open
<1>15. shm_handle' \in [Shm!Process -> [Shm!Object -> 0..ShmRuns]]
  BY <1>4, <1>14, ShmHandles
<1>16. \A x \in Shm!Object : shm_handle'[c][x] = IF x \in parts THEN shm_name[x] ELSE shm_handle[c][x]
  BY <1>4, <1>13, <1>14, ShmHandles
<1>17. \A q \in Shm!Process : q # c => shm_handle'[q] = shm_handle[q]
  BY <1>14
<1>18. /\ shm_pc'[Server] = shm_pc[Server] /\ shm_todo'[Server] = shm_todo[Server]
       /\ shm_handle'[Server] = shm_handle[Server]
  <2>1. Server \in Shm!Process /\ c # Server
    BY ShmProcesses
  <2> QED BY <1>9, <1>17, <2>1
<1>19. \A d \in Client : d # c => shm_pc'[d] = shm_pc[d] /\ shm_todo'[d] = shm_todo[d] /\ shm_handle'[d] = shm_handle[d]
  <2> SUFFICES ASSUME NEW d \in Client, d # c
               PROVE  shm_pc'[d] = shm_pc[d] /\ shm_todo'[d] = shm_todo[d] /\ shm_handle'[d] = shm_handle[d]
    OBVIOUS
  <2>1. d \in Shm!Process
    BY ShmProcesses
  <2> QED BY <1>9, <1>17, <2>1
<1>20. shm_pc'[c] \in {"open", "attach"}
  BY <1>7, <1>9
<1>21. ShmActive' = ShmActive /\ ShmActive \subseteq Client /\ c \notin ShmActive
  BY <1>3, <1>19, <1>20 DEF ShmActive
<1>22. ShmCurrent' = ShmCurrent /\ ShmCurrent \subseteq ShmActive
  BY <1>3, <1>19, <1>21 DEF ShmCurrent
<1>23. poster # NoClient => poster # c /\ Shm!Straight(poster)' = Shm!Straight(poster)
  <2> SUFFICES ASSUME poster # NoClient PROVE poster # c /\ Shm!Straight(poster)' = Shm!Straight(poster)
    OBVIOUS
  <2>1. poster # c
    BY <1>3 DEF ShmInv, ShmTextInv
  <2> QED BY <1>2, <1>3, <1>17, <1>18, <2>1 DEF Shm!Straight
<1>24. Shm!TypeOK' /\ shm_todo' \in [Shm!Process -> ShmLists]
  BY <1>3, <1>9, <1>15 DEF ShmInv, Shm!TypeOK, ShmPlaces
<1>25. ShmNamesInv'
  BY <1>3, <1>10, <1>11, <1>16, <1>18, <1>19, ShmProcesses DEF ShmInv, ShmNamesInv
<1>26. ShmServerInv'
  BY <1>3, <1>18 DEF ShmInv, ShmServerInv, ShmOpening, ShmDealt
<1>27. ShmClientInv'
  <2> SUFFICES ASSUME NEW d \in Client PROVE ShmClientAt(d)'
    BY DEF ShmClientInv
  <2>0. ShmClientAt(d)
    BY DEF ShmInv, ShmClientInv
  <2>1. CASE d # c
    <3>1. shm_pc'[d] = shm_pc[d] /\ shm_todo'[d] = shm_todo[d] /\ shm_handle'[d] = shm_handle[d]
      BY <1>19, <2>1
    <3> QED BY <1>3, <2>0, <3>1 DEF ShmClientAt, ShmOpening, ShmDealt
  <2>2. CASE d = c
    <3>1. shm_pc[c] = "open" /\ \A x \in Shm!Object : x \in ShmDealt(c) <=> shm_handle[c][x] # 0
      BY <1>3, <2>0, <2>2 DEF ShmClientAt
    <3>2. \A x \in Shm!Object : shm_handle'[c][x] # 0 <=> x \in ShmDealt(c) \/ x \in parts
      BY <1>12, <1>16, <3>1
    <3>3. shm_pc'[c] = "open" =>
            ShmOpening(c)' /\ \A x \in Shm!Object : x \in ShmDealt(c)' <=> shm_handle'[c][x] # 0
      BY <1>9, <3>2
    <3>4. shm_pc'[c] = "attach" => \A x \in Shm!Object : shm_handle'[c][x] # 0
      BY <1>9, <3>2
    <3>5. ASSUME shm_system = "posix", shm_handle'[c]["shm"] = shm_run
          PROVE  shm_handle'[c]["s2c"] \in {0, shm_run} /\ shm_name["s2c"] \in {0, shm_run}
      <4>1. shm_name["shm"] = shm_run \/ shm_handle[c]["shm"] = shm_run
        BY <1>10, <1>16, <3>5
      <4>2. shm_name["s2c"] \in {0, shm_run}
        BY <2>0, <2>2, <3>5, <4>1 DEF ShmInv, ShmNamesInv, ShmClientAt
      <4>3. "s2c" \notin parts => "s2c" \in ShmDealt(c) \/ shm_handle[c]["s2c"] = 0
        BY <1>10, <3>1
      <4>4. "s2c" \in ShmDealt(c) => shm_handle[c]["shm"] # 0 /\ "shm" \in ShmDealt(c)
        BY <1>10, <3>1 DEF ShmDealt
      <4>5. "s2c" \in ShmDealt(c) => shm_handle[c]["shm"] = shm_run
        BY <1>9, <1>10, <1>16, <3>5, <4>4
      <4>6. "s2c" \in ShmDealt(c) => shm_handle[c]["s2c"] \in {0, shm_run}
        BY <2>0, <2>2, <3>5, <4>5 DEF ShmClientAt
      <4> QED BY <1>10, <1>16, <4>2, <4>3, <4>6
    <3> QED BY <1>3, <1>20, <2>2, <3>3, <3>4, <3>5 DEF ShmClientAt
  <2> QED BY <2>1, <2>2
<1>28. ShmFreshInv'
  BY <1>3, <1>18 DEF ShmInv, ShmFreshInv
<1>29. ShmPosixInv'
  BY <1>2, <1>3, <1>18, <1>19, <1>21, <1>22, <1>23 DEF ShmInv, ShmPosixInv
<1>30. ShmSysvInv'
  BY <1>3, <1>18, <1>19, <1>21 DEF ShmInv, ShmSysvInv, ShmIdle
<1>31. ShmLateInv'
  BY <1>3, <1>18, <1>21, <1>23 DEF ShmInv, ShmLateInv, ShmIdle, ShmAfterReset
<1>32. ShmTextInv'
  BY <1>2, <1>3, <1>18, <1>19, <1>20 DEF ShmInv, ShmTextInv, Shm!Straight
<1> QED BY <1>24, <1>25, <1>26, <1>27, <1>28, <1>29, <1>30, <1>31, <1>32 DEF ShmInv

LEMMA ShmOpenGone ==
  ASSUME ShmInv, NEW c \in Client, Shm!Open(c), \E x \in Shm!Parts(Head(shm_todo[c])) : shm_name[x] = 0
  PROVE  ShmInv'
<1>2. poster # NoClient => poster \in Client /\ poster \in Shm!Process
  BY ShmProcesses DEF ShmInv, Shm!TypeOK
<1>3. /\ shm_name' = shm_name /\ shm_run' = shm_run /\ shm_system' = shm_system
      /\ shm_handle' = shm_handle /\ shm_got' = shm_got /\ val' = val /\ mem' = mem
      /\ heard' = heard /\ poster' = poster /\ late' = late /\ shm_pc[c] = "open"
  BY DEF Shm!Open, Shm!texts
<1>4. c \in Shm!Process
  BY ShmProcesses
<1>5. PICK place \in {"ended"} : Shm!Goto(c, place, <<>>)
  BY DEF Shm!Open
<1>6. /\ shm_pc' \in [Shm!Process -> ShmPlaces] /\ shm_todo' \in [Shm!Process -> ShmLists]
      /\ shm_pc'[c] \in {"ended"} /\ shm_todo'[c] = <<>>
      /\ \A q \in Shm!Process : q # c => shm_pc'[q] = shm_pc[q] /\ shm_todo'[q] = shm_todo[q]
  BY <1>4, <1>5, ShmGoto DEF ShmPlaces, ShmLists
<1>7. /\ ShmActive \subseteq Client /\ ShmActive' = ShmActive
      /\ shm_pc'[Server] = shm_pc[Server] /\ shm_todo'[Server] = shm_todo[Server]
      /\ ShmCurrent \subseteq ShmActive /\ ShmCurrent' = ShmCurrent
  <2>1. /\ ShmActive \subseteq Client /\ ShmActive' = ShmActive
        /\ shm_pc'[Server] = shm_pc[Server] /\ shm_todo'[Server] = shm_todo[Server]
    BY <1>3, <1>6, ShmProcesses DEF ShmActive
  <2> QED BY <1>3, <2>1 DEF ShmCurrent
<1>8. Shm!TypeOK' /\ shm_todo' \in [Shm!Process -> ShmLists]
  BY <1>3, <1>6 DEF ShmInv, Shm!TypeOK
<1>9. ShmNamesInv'
  BY <1>3, <1>6, ShmProcesses DEF ShmInv, ShmNamesInv
<1>10. ShmServerInv'
  BY <1>3, <1>6, ShmProcesses DEF ShmInv, ShmServerInv, ShmOpening, ShmDealt
<1>11. ShmClientInv'
  BY <1>3, <1>6, ShmProcesses DEF ShmInv, ShmClientInv, ShmClientAt, ShmOpening, ShmDealt
<1>12. ShmFreshInv'
  BY <1>3, <1>7 DEF ShmInv, ShmFreshInv
<1>13. ShmPosixInv'
  BY <1>3, <1>6, <1>7, ShmProcesses DEF ShmInv, ShmPosixInv, Shm!Straight
<1>14. ShmSysvInv'
  BY <1>3, <1>6, <1>7, ShmProcesses DEF ShmInv, ShmSysvInv, ShmIdle
<1>15. ShmLateInv'
  BY <1>3, <1>7 DEF ShmInv, ShmLateInv, ShmIdle, ShmAfterReset, Shm!Straight
<1>16. ShmTextInv'
  BY <1>2, <1>3, <1>6, ShmProcesses DEF ShmInv, ShmTextInv, Shm!Straight
<1> QED BY <1>8, <1>9, <1>10, <1>11, <1>12, <1>13, <1>14, <1>15, <1>16 DEF ShmInv

-----------------------------------------------------------------------------
\* Every step of SharedMemory keeps the invariant.
LEMMA ShmStep == ShmInv /\ [Shm!Next]_shmVars => ShmInv'
<1> SUFFICES ASSUME ShmInv, [Shm!Next]_shmVars PROVE ShmInv'
  OBVIOUS
<1>1. CASE Shm!StartServer
  BY <1>1, ShmStartServer
<1>2. CASE Shm!ServerStep
  <2>1. CASE Shm!Reset
    <3>1. shm_todo[Server] = <<"s2c", "c2s">> \/ shm_todo[Server] = <<"c2s">>
      BY <2>1 DEF ShmInv, ShmServerInv, Shm!Reset
    <3> QED BY <2>1, <3>1, ShmResetFirst, ShmResetSecond
  <2> QED BY <1>2, <2>1, ShmClearOld, ShmOpenOrMake, ShmWriteHi, ShmPostHi, ShmWaitForAnswer, ShmReadAnswer,
             ShmRemove DEF Shm!ServerStep
<1>3. ASSUME NEW c \in Client, Shm!StartClient(c) \/ Shm!ClientStep(c) PROVE ShmInv'
  <2>1. CASE Shm!Open(c)
    BY <2>1, ShmOpenThere, ShmOpenGone
  <2>2. CASE Shm!PostHello(c)
    BY <2>2, ShmPostHello, ShmPostNothing
  <2> QED BY <1>3, <2>1, <2>2, ShmStartClient, ShmAttach, ShmWaitForHi, ShmEndWait, ShmReadHi, ShmWriteHello
        DEF Shm!ClientStep
<1>4. ASSUME NEW p \in Shm!Process, Shm!Kill(p) PROVE ShmInv'
  BY <1>4, ShmProcesses, ShmKillClient, ShmKillServer
<1>5. CASE UNCHANGED shmVars
  <2>1. /\ shm_system' = shm_system /\ shm_run' = shm_run /\ shm_name' = shm_name /\ mem' = mem /\ val' = val
        /\ shm_pc' = shm_pc /\ shm_todo' = shm_todo /\ shm_handle' = shm_handle /\ shm_got' = shm_got
        /\ heard' = heard /\ poster' = poster /\ late' = late
    BY <1>5 DEF shmVars
  <2>2. Shm!TypeOK' /\ shm_todo' \in [Shm!Process -> ShmLists]
    BY <2>1 DEF ShmInv, Shm!TypeOK
  <2>3. ShmNamesInv' /\ ShmServerInv' /\ ShmClientInv' /\ ShmFreshInv'
    BY <2>1 DEF ShmInv, ShmNamesInv, ShmServerInv, ShmClientInv, ShmClientAt, ShmFreshInv, ShmOpening, ShmDealt
  <2>4. ShmActive' = ShmActive /\ ShmCurrent' = ShmCurrent
    BY <2>1 DEF ShmActive, ShmCurrent
  <2>5. ShmPosixInv' /\ ShmSysvInv' /\ ShmLateInv' /\ ShmTextInv'
    BY <2>1, <2>4 DEF ShmInv, ShmPosixInv, ShmSysvInv, ShmLateInv, ShmTextInv, ShmIdle, ShmAfterReset, Shm!Straight
  <2> QED BY <2>2, <2>3, <2>5 DEF ShmInv
<1> QED BY <1>1, <1>2, <1>3, <1>4, <1>5 DEF Shm!Next

\* Only a read makes a client go on to write.
LEMMA ShmClientReads ==
  ASSUME ShmInv, [Shm!Next]_shmVars, NEW c \in Client, shm_pc[c] = "read", shm_pc'[c] = "write"
  PROVE  Shm!ReadHi(c)
<1>1. c \in Shm!Process /\ c # Server
  BY ShmProcesses
<1>2. ASSUME NEW p \in Shm!Process, NEW place, NEW objects, Shm!Goto(p, place, objects)
      PROVE  p = c /\ place = "write"
  <2>1. shm_pc' = [shm_pc EXCEPT ![p] = place] /\ shm_pc \in [Shm!Process -> ShmPlaces]
    BY <1>2 DEF Shm!Goto, ShmInv, Shm!TypeOK, ShmPlaces
  <2> QED BY <1>1, <2>1
<1>3. ~Shm!StartServer
  BY <1>1, <1>2, ShmProcesses DEF Shm!StartServer
<1>4. ASSUME NEW p \in Shm!Process, NEW next, NEW objects, Shm!Through(p, next, objects)
      PROVE  p = c
  <2>1. \E place, list : Shm!Goto(p, place, list)
    BY <1>4 DEF Shm!Through
  <2> QED BY <1>2, <2>1
<1>5. ~Shm!ServerStep
  <2>1. ~Shm!ClearOld /\ ~Shm!Remove /\ ~Shm!Reset
    BY <1>1, <1>4, ShmProcesses DEF Shm!ClearOld, Shm!Remove, Shm!Reset
  <2>2. ~Shm!OpenOrMake
    BY <1>1, <1>4, ShmProcesses DEF Shm!OpenOrMake
  <2>3. ~Shm!WriteHi /\ ~Shm!PostHi /\ ~Shm!WaitForAnswer /\ ~Shm!ReadAnswer
    BY <1>1, <1>2, ShmProcesses DEF Shm!WriteHi, Shm!PostHi, Shm!WaitForAnswer, Shm!ReadAnswer
  <2> QED BY <2>1, <2>2, <2>3 DEF Shm!ServerStep
<1>6. ASSUME NEW d \in Client, Shm!StartClient(d) \/ Shm!ClientStep(d) PROVE Shm!ReadHi(c)
  <2>1. d \in Shm!Process
    BY ShmProcesses
  <2>2. CASE Shm!StartClient(d)
    BY <1>2, <2>1, <2>2 DEF Shm!StartClient
  <2>3. CASE Shm!Open(d)
    <3>1. d = c
      BY <1>2, <1>4, <2>1, <2>3 DEF Shm!Open
    <3> QED BY <2>3, <3>1 DEF Shm!Open
  <2>4. CASE Shm!Attach(d)
    <3>1. d = c
      BY <1>2, <2>1, <2>4 DEF Shm!Attach
    <3> QED BY <2>4, <3>1 DEF Shm!Attach
  <2>5. CASE Shm!WaitForHi(d)
    BY <1>2, <2>1, <2>5 DEF Shm!WaitForHi
  <2>6. CASE Shm!EndWait(d)
    BY <1>2, <2>1, <2>6 DEF Shm!EndWait
  <2>7. CASE Shm!ReadHi(d)
    BY <1>2, <2>1, <2>7 DEF Shm!ReadHi
  <2>8. CASE Shm!WriteHello(d)
    BY <1>2, <2>1, <2>8 DEF Shm!WriteHello
  <2>9. CASE Shm!PostHello(d)
    BY <1>2, <2>1, <2>9 DEF Shm!PostHello
  <2> QED BY <1>6, <2>2, <2>3, <2>4, <2>5, <2>6, <2>7, <2>8, <2>9 DEF Shm!ClientStep
<1>7. ASSUME NEW p \in Shm!Process PROVE ~Shm!Kill(p)
  BY <1>2 DEF Shm!Kill
<1>8. ~UNCHANGED shmVars
  BY DEF shmVars
<1> QED BY <1>3, <1>5, <1>6, <1>7, <1>8 DEF Shm!Next

\* Only the server's own read makes it go on to remove the objects.
LEMMA ShmServerReads ==
  ASSUME ShmInv, [Shm!Next]_shmVars, shm_pc[Server] = "read", shm_pc'[Server] = "remove"
  PROVE  Shm!ReadAnswer
<1>1. Server \in Shm!Process /\ Server \notin Client
  BY ShmProcesses
<1>2. ASSUME NEW p \in Shm!Process, NEW place, NEW objects, Shm!Goto(p, place, objects)
      PROVE  p = Server /\ place = "remove"
  <2>1. shm_pc' = [shm_pc EXCEPT ![p] = place] /\ shm_pc \in [Shm!Process -> ShmPlaces]
    BY <1>2 DEF Shm!Goto, ShmInv, Shm!TypeOK, ShmPlaces
  <2> QED BY <1>1, <2>1
<1>3. ~Shm!StartServer
  BY <1>1 DEF Shm!StartServer
<1>4. Shm!ServerStep => Shm!ReadAnswer
  BY DEF Shm!ServerStep, Shm!ClearOld, Shm!OpenOrMake, Shm!Reset, Shm!WriteHi, Shm!PostHi, Shm!WaitForAnswer,
         Shm!Remove
<1>5. ASSUME NEW d \in Client PROVE ~Shm!StartClient(d) /\ ~Shm!ClientStep(d)
  <2>1. d \in Shm!Process /\ d # Server
    BY ShmProcesses
  <2>2. \A place, objects : ~Shm!Goto(d, place, objects)
    BY <1>2, <2>1
  <2>3. ~Shm!StartClient(d)
    BY <2>2 DEF Shm!StartClient
  <2>4. ~Shm!Open(d)
    <3>1. ~Shm!Through(d, "attach", <<>>)
      BY <2>2 DEF Shm!Through
    <3> QED BY <2>2, <3>1 DEF Shm!Open
  <2>5. ~Shm!Attach(d) /\ ~Shm!WaitForHi(d) /\ ~Shm!EndWait(d) /\ ~Shm!ReadHi(d)
    BY <2>2 DEF Shm!Attach, Shm!WaitForHi, Shm!EndWait, Shm!ReadHi
  <2>6. ~Shm!WriteHello(d) /\ ~Shm!PostHello(d)
    BY <2>2 DEF Shm!WriteHello, Shm!PostHello
  <2> QED BY <2>3, <2>4, <2>5, <2>6 DEF Shm!ClientStep
<1>6. ASSUME NEW p \in Shm!Process PROVE ~Shm!Kill(p)
  BY <1>2 DEF Shm!Kill
<1>7. ~UNCHANGED shmVars
  BY DEF shmVars
<1> QED BY <1>3, <1>4, <1>5, <1>6, <1>7 DEF Shm!Next

\* What a client reads: with the server's objects, and if nobody is late, "Hi!".
LEMMA ShmHeard ==
  ASSUME ShmInv, [Shm!Next]_shmVars, NEW c \in Client,
         shm_pc[c] = "read", shm_pc'[c] = "write", Shm!Straight(c), late = {}
  PROVE  heard'[c] = "Hi!"
<1>1. Shm!ReadHi(c)
  BY ShmClientReads
<1>2. heard'[c] = mem[shm_handle[c]["shm"]]
  BY <1>1 DEF Shm!ReadHi, ShmInv, Shm!TypeOK
<1>3. shm_handle[Server]["shm"] = shm_handle[c]["shm"] /\ shm_handle[Server]["s2c"] = shm_handle[c]["s2c"]
  BY DEF Shm!Straight
<1>4. "shm" \in Shm!Object /\ "s2c" \in Shm!Object
  BY DEF Shm!Object
<1>5. shm_handle[c]["shm"] # 0 /\ shm_handle[c]["s2c"] # 0
  BY <1>4 DEF ShmInv, ShmClientInv, ShmClientAt
<1>6. c \in ShmActive
  BY DEF ShmActive
<1>7. CASE shm_system = "sysv"
  <2>1. shm_name["shm"] # 0 /\ mem[shm_name["shm"]] = "Hi!"
    BY <1>6, <1>7 DEF ShmInv, ShmSysvInv
  <2>2. shm_handle[c]["shm"] = shm_name["shm"]
    BY <1>3, <1>4, <1>5, <2>1 DEF ShmInv, ShmNamesInv
  <2> QED BY <1>2, <2>1, <2>2
<1>8. CASE shm_system = "posix"
  <2>1. shm_handle[c]["shm"] = shm_run /\ shm_handle[c]["s2c"] = shm_run
    BY <1>3, <1>4, <1>5, <1>8 DEF ShmInv, ShmNamesInv
  <2>2. c \in ShmCurrent /\ shm_run # 0
    BY <1>5, <1>6, <2>1 DEF ShmCurrent
  <2>3. mem[shm_run] = "Hi!"
    BY <1>8, <2>2 DEF ShmInv, ShmPosixInv
  <2> QED BY <1>2, <2>1, <2>3
<1> QED BY <1>7, <1>8 DEF ShmInv, Shm!TypeOK

\* What the server reads: the answer of the client that posted last.
LEMMA ShmAnswered ==
  ASSUME ShmInv, [Shm!Next]_shmVars, shm_pc[Server] = "read", shm_pc'[Server] = "remove",
         poster # NoClient, Shm!Straight(poster), poster \notin late
  PROVE  shm_got' = "Hello!"
<1>1. shm_got' = mem[shm_handle[Server]["shm"]]
  BY ShmServerReads DEF Shm!ReadAnswer
<1>2. CASE shm_system = "sysv"
  BY <1>1, <1>2 DEF ShmInv, ShmLateInv
<1>3. CASE shm_system = "posix"
  <2>1. shm_name["shm"] # 0 /\ shm_handle[Server]["shm"] = shm_name["shm"]
    BY DEF ShmInv, ShmServerInv, Shm!Object
  <2>2. shm_handle[Server]["shm"] = shm_run /\ shm_run # 0
    BY <1>3, <2>1 DEF ShmInv, ShmNamesInv, Shm!Object
  <2>3. mem[shm_run] = "Hello!"
    BY <1>3, <2>2 DEF ShmInv, ShmPosixInv
  <2> QED BY <1>1, <2>2, <2>3
<1> QED BY <1>2, <1>3 DEF ShmInv, Shm!TypeOK

-----------------------------------------------------------------------------
(* Sockets: pairs over TCP, UDP, local sockets and FIFOs.                  *)

\* Who has a name has yet to give it up, or was killed; the name of a FIFO
\* whose maker has written to it is given up by one of its readers.
SockOwnerAt(n, p) ==
  /\ p \in Sock!Process /\ Sock!Own(p) = n
  /\ sock_pc[p] \notin {"off", "unlink", "bind"}
  /\ kind \in {"tcp", "udp"} => sock_pc[p] \notin {"done", "killed"}
  /\ kind \in {"tcp_local", "udp_local"} => sock_pc[p] # "done"
  /\ n = "client" => kind = "udp_local"
  /\ kind = "fifo" /\ sock_pc[p] \in {"wait", "answer", "close", "done"} => peer[p] = p
  /\ kind = "fifo" /\ sock_pc[p] \in {"close", "done"} =>
       \E c \in Client : peer[c] = p /\ sock_pc[c] \in {"open", "receive", "unlink_own", "killed"}
SockOwnerInv == \A n \in Sock!Name : owner[n] # NoOne => SockOwnerAt(n, owner[n])

\* A process that is about to answer or to read knows whom, or from where.
SockPeerInv ==
  \A p \in Sock!Process :
    /\ sock_pc[p] \in {"read", "answer"} => peer[p] \in Sock!Process
    /\ kind = "fifo" /\ sock_pc[p] = "receive" => peer[p] \in Sock!Process
    /\ sock_pc[p] \in {"send", "listen", "read"} => Sock!Stream
    /\ sock_pc[p] \in {"open_write", "open"} => kind = "fifo"
    /\ p \in Client /\ sock_pc[p] \in {"unlink", "bind"} => kind = "udp_local"

\* Where a client has an address of its own it gets answers to itself alone.
SockOwnInv ==
  kind \in {"tcp", "tcp_local", "udp"} =>
    \A c \in Client :
      /\ \A k \in 1..Len(sock_queue[c]) : sock_queue[c][k] = c
      /\ sock_got[c] # NoOne => sock_got[c] = c

\* Elsewhere there is one text for each asker, or writer: in a queue, at hand
\* or taken, and none before it has asked, or written.
SockUnspent ==
  IF kind = "udp_local" THEN {p \in Client : sock_pc[p] \in {"off", "unlink", "bind", "call"}}
  ELSE {p \in Answerer : /\ kind = "fifo"
                          /\ sock_pc[p] \in {"off", "unlink", "bind", "open_write", "wait", "answer"}}
SockAtHand == {s \in Answerer : kind = "udp_local" /\ sock_pc[s] = "answer"}
SockOnceInv ==
  kind \in {"udp_local", "fifo"} =>
    /\ \A p, q \in Sock!Process : \A j \in 1..Len(sock_queue[p]), k \in 1..Len(sock_queue[q]) :
         sock_queue[p][j] = sock_queue[q][k] => p = q /\ j = k
    /\ \A p \in Sock!Process : \A j \in 1..Len(sock_queue[p]) :
         /\ sock_queue[p][j] \notin SockUnspent
         /\ \A s \in SockAtHand : peer[s] # sock_queue[p][j]
         /\ \A c \in Client : sock_got[c] # sock_queue[p][j]
    /\ \A s \in SockAtHand :
         /\ peer[s] \notin SockUnspent
         /\ \A t \in SockAtHand : peer[t] = peer[s] => t = s
         /\ \A c \in Client : sock_got[c] # peer[s]
    /\ \A c \in Client : sock_got[c] # NoOne =>
         /\ sock_got[c] \notin SockUnspent
         /\ \A d \in Client : sock_got[d] = sock_got[c] => d = c

SockInv == Sock!TypeOK /\ SockOwnerInv /\ SockPeerInv /\ SockOwnInv /\ SockOnceInv

-----------------------------------------------------------------------------
USE AnswererAssumption

LEMMA SockInitial == Sock!Init => SockInv
<1> SUFFICES ASSUME Sock!Init PROVE SockInv
  OBVIOUS
<1>1. Sock!TypeOK
  BY DEF Sock!Init, Sock!TypeOK
<1>2. SockOwnerInv /\ SockPeerInv /\ SockOwnInv
  BY DEF Sock!Init, SockOwnerInv, SockPeerInv, SockOwnInv, Sock!Process
<1>3. SockOnceInv
  BY DEF Sock!Init, SockOnceInv, Sock!Process, SockAtHand
<1> QED BY <1>1, <1>2, <1>3 DEF SockInv

\* A step that spends no new text and leaves the queues and the answers alone.
LEMMA SockOnceKept ==
  ASSUME SockOnceInv, kind' = kind, sock_got' = sock_got,
         \A p \in Sock!Process : sock_queue'[p] = sock_queue[p] \/ sock_queue'[p] = <<>>,
         SockUnspent' \subseteq SockUnspent,
         \A s \in SockAtHand' : s \in SockAtHand /\ peer'[s] = peer[s],
         Sock!TypeOK, Sock!TypeOK', SockPeerInv
  PROVE  SockOnceInv'
<1> SUFFICES ASSUME kind \in {"udp_local", "fifo"} PROVE SockOnceInv'
  BY DEF SockOnceInv
<1>0. /\ \A s \in SockAtHand : peer[s] \in Sock!Process
      /\ \A c \in Client : sock_got[c] # NoOne => sock_got[c] \in Sock!Process
      /\ \A p \in Sock!Process : \A j \in 1..Len(sock_queue'[p]) :
           /\ j \in 1..Len(sock_queue[p]) /\ sock_queue'[p][j] = sock_queue[p][j]
           /\ sock_queue[p][j] \in Sock!Process
  <2>1. \A s \in SockAtHand : peer[s] \in Sock!Process
    BY DEF SockAtHand, SockPeerInv, Sock!Process
  <2>2. \A c \in Client : sock_got[c] # NoOne => sock_got[c] \in Sock!Process
    BY DEF Sock!TypeOK
  <2>3. \A p \in Sock!Process : \A j \in 1..Len(sock_queue'[p]) :
           /\ j \in 1..Len(sock_queue[p]) /\ sock_queue'[p][j] = sock_queue[p][j]
           /\ sock_queue[p][j] \in Sock!Process
    BY DEF Sock!TypeOK
  <2> QED BY <2>1, <2>2, <2>3
<1>1. \A p, q \in Sock!Process : \A j \in 1..Len(sock_queue'[p]), k \in 1..Len(sock_queue'[q]) :
         sock_queue'[p][j] = sock_queue'[q][k] => p = q /\ j = k
  BY <1>0 DEF SockOnceInv
<1>2. \A p \in Sock!Process : \A j \in 1..Len(sock_queue'[p]) :
         /\ sock_queue'[p][j] \notin SockUnspent'
         /\ \A s \in SockAtHand' : peer'[s] # sock_queue'[p][j]
         /\ \A c \in Client : sock_got'[c] # sock_queue'[p][j]
  BY <1>0 DEF SockOnceInv
<1>3. \A s \in SockAtHand' :
         /\ peer'[s] \notin SockUnspent'
         /\ \A t \in SockAtHand' : peer'[t] = peer'[s] => t = s
         /\ \A c \in Client : sock_got'[c] # peer'[s]
  BY <1>0 DEF SockOnceInv
<1>4. \A c \in Client : sock_got'[c] # NoOne =>
         /\ sock_got'[c] \notin SockUnspent'
         /\ \A d \in Client : sock_got'[d] = sock_got'[c] => d = c
  BY <1>0 DEF SockOnceInv
<1> QED BY <1>1, <1>2, <1>3, <1>4 DEF SockOnceInv

LEMMA SockPlaced ==
  ASSUME Sock!TypeOK, NEW p \in Sock!Process, NEW x \in Sock!Process,
         sock_queue' = [sock_queue EXCEPT ![p] = Append(@, x)]
  PROVE  /\ sock_queue' \in [Sock!Process -> Seq(Sock!Process)]
         /\ \A q \in Sock!Process : \A j \in 1..Len(sock_queue'[q]) :
              \/ j \in 1..Len(sock_queue[q]) /\ sock_queue'[q][j] = sock_queue[q][j]
              \/ q = p /\ j = Len(sock_queue[q]) + 1 /\ sock_queue'[q][j] = x
<1>1. sock_queue \in [Sock!Process -> Seq(Sock!Process)]
  BY DEF Sock!TypeOK
<1>2. sock_queue[p] \in Seq(Sock!Process) /\ sock_queue'[p] = Append(sock_queue[p], x)
  BY <1>1
<1>3. /\ Append(sock_queue[p], x) \in Seq(Sock!Process) /\ Len(sock_queue[p]) \in Nat
      /\ Len(Append(sock_queue[p], x)) = Len(sock_queue[p]) + 1
      /\ \A k \in 1..Len(sock_queue[p]) : Append(sock_queue[p], x)[k] = sock_queue[p][k]
      /\ Append(sock_queue[p], x)[Len(sock_queue[p]) + 1] = x
  BY <1>2, Appended
<1>4. ASSUME NEW q \in Sock!Process, NEW j \in 1..Len(sock_queue'[q])
      PROVE  \/ j \in 1..Len(sock_queue[q]) /\ sock_queue'[q][j] = sock_queue[q][j]
             \/ q = p /\ j = Len(sock_queue[q]) + 1 /\ sock_queue'[q][j] = x
  <2>1. CASE q # p
    BY <1>1, <2>1
  <2>2. CASE q = p
    <3>1. PICK n \in Nat : n = Len(sock_queue[p])
      BY <1>3
    <3>2. j \in 1..n + 1
      BY <1>2, <1>3, <2>2, <3>1
    <3>3. j = n + 1 \/ j \in 1..n
      BY <3>2
    <3> QED BY <1>2, <1>3, <2>2, <3>1, <3>3
  <2> QED BY <2>1, <2>2
<1>5. sock_queue' \in [Sock!Process -> Seq(Sock!Process)]
  BY <1>1, <1>2, <1>3
<1> QED BY <1>4, <1>5

LEMMA SockTaken ==
  ASSUME Sock!TypeOK, NEW p \in Sock!Process, sock_queue[p] # <<>>,
         sock_queue' = [sock_queue EXCEPT ![p] = Tail(@)]
  PROVE  /\ sock_queue' \in [Sock!Process -> Seq(Sock!Process)]
         /\ Head(sock_queue[p]) \in Sock!Process /\ 1 \in 1..Len(sock_queue[p])
         /\ Head(sock_queue[p]) = sock_queue[p][1]
         /\ \A q \in Sock!Process : \A j \in 1..Len(sock_queue'[q]) :
              \/ q # p /\ j \in 1..Len(sock_queue[q]) /\ sock_queue'[q][j] = sock_queue[q][j]
              \/ q = p /\ j + 1 \in 1..Len(sock_queue[q]) /\ sock_queue'[q][j] = sock_queue[q][j + 1]
<1>1. sock_queue \in [Sock!Process -> Seq(Sock!Process)]
  BY DEF Sock!TypeOK
<1>2. sock_queue[p] \in Seq(Sock!Process) /\ sock_queue'[p] = Tail(sock_queue[p])
  BY <1>1
<1>3. /\ Head(sock_queue[p]) \in Sock!Process /\ Tail(sock_queue[p]) \in Seq(Sock!Process)
      /\ Head(sock_queue[p]) = sock_queue[p][1]
      /\ Len(sock_queue[p]) \in Nat \ {0} /\ Len(Tail(sock_queue[p])) = Len(sock_queue[p]) - 1
      /\ \A k \in 1..Len(sock_queue[p]) - 1 : Tail(sock_queue[p])[k] = sock_queue[p][k + 1]
  BY <1>2, Taken
<1>4. ASSUME NEW q \in Sock!Process, NEW j \in 1..Len(sock_queue'[q])
      PROVE  \/ q # p /\ j \in 1..Len(sock_queue[q]) /\ sock_queue'[q][j] = sock_queue[q][j]
             \/ q = p /\ j + 1 \in 1..Len(sock_queue[q]) /\ sock_queue'[q][j] = sock_queue[q][j + 1]
  <2>1. CASE q # p
    BY <1>1, <2>1
  <2>2. CASE q = p
    <3>1. PICK n \in Nat : n = Len(sock_queue[p])
      BY <1>3
    <3>2. j \in 1..n - 1
      BY <1>2, <1>3, <2>2, <3>1
    <3>3. j + 1 \in 1..n
      BY <3>2
    <3> QED BY <1>2, <1>3, <2>2, <3>1, <3>2, <3>3
  <2> QED BY <2>1, <2>2
<1>5. sock_queue' \in [Sock!Process -> Seq(Sock!Process)]
  BY <1>1, <1>2, <1>3
<1>6. 1 \in 1..Len(sock_queue[p])
  BY <1>3
<1> QED BY <1>3, <1>4, <1>5, <1>6

\* A text that was not spent, or that is at hand, is put into a queue.
LEMMA SockOncePut ==
  ASSUME SockOnceInv, Sock!TypeOK, kind' = kind, sock_got' = sock_got, peer' = peer,
         NEW p \in Sock!Process, NEW x \in Sock!Process,
         sock_queue' = [sock_queue EXCEPT ![p] = Append(@, x)],
         SockUnspent' \subseteq SockUnspent, SockAtHand' \subseteq SockAtHand,
         x \notin SockUnspent', \A s \in SockAtHand' : peer[s] # x,
         x \in SockUnspent \/ \E s \in SockAtHand : peer[s] = x
  PROVE  SockOnceInv'
<1> SUFFICES ASSUME kind \in {"udp_local", "fifo"} PROVE SockOnceInv'
  BY DEF SockOnceInv
<1>1. /\ \A q \in Sock!Process : \A j \in 1..Len(sock_queue[q]) : sock_queue[q][j] # x
      /\ \A c \in Client : sock_got[c] # NoOne => sock_got[c] # x
      /\ x # NoOne
  BY DEF SockOnceInv, Sock!Process
<1>2. \A q \in Sock!Process : \A j \in 1..Len(sock_queue'[q]) :
        \/ j \in 1..Len(sock_queue[q]) /\ sock_queue'[q][j] = sock_queue[q][j]
        \/ q = p /\ j = Len(sock_queue[q]) + 1 /\ sock_queue'[q][j] = x
  BY SockPlaced
<1>3. ASSUME NEW q \in Sock!Process, NEW r \in Sock!Process,
             NEW j \in 1..Len(sock_queue'[q]), NEW k \in 1..Len(sock_queue'[r]),
             sock_queue'[q][j] = sock_queue'[r][k]
      PROVE  q = r /\ j = k
  BY <1>1, <1>2, <1>3 DEF SockOnceInv
<1>4. ASSUME NEW q \in Sock!Process, NEW j \in 1..Len(sock_queue'[q])
      PROVE  /\ sock_queue'[q][j] \notin SockUnspent'
             /\ \A s \in SockAtHand' : peer'[s] # sock_queue'[q][j]
             /\ \A c \in Client : sock_got'[c] # sock_queue'[q][j]
  <2>1. CASE j \in 1..Len(sock_queue[q]) /\ sock_queue'[q][j] = sock_queue[q][j]
    BY <2>1 DEF SockOnceInv
  <2>2. CASE sock_queue'[q][j] = x
    BY <1>1, <2>2
  <2> QED BY <1>2, <2>1, <2>2
<1>5. \A s \in SockAtHand' :
        /\ peer'[s] \notin SockUnspent'
        /\ \A t \in SockAtHand' : peer'[t] = peer'[s] => t = s
        /\ \A c \in Client : sock_got'[c] # peer'[s]
  BY DEF SockOnceInv
<1>6. \A c \in Client : sock_got'[c] # NoOne =>
        /\ sock_got'[c] \notin SockUnspent'
        /\ \A d \in Client : sock_got'[d] = sock_got'[c] => d = c
  BY DEF SockOnceInv
<1> QED BY <1>3, <1>4, <1>5, <1>6 DEF SockOnceInv

\* The first text of a queue comes to be at hand, or is taken.
LEMMA SockOnceTake ==
  ASSUME SockOnceInv, Sock!TypeOK, kind' = kind,
         NEW p \in Sock!Process, sock_queue[p] # <<>>,
         sock_queue' = [sock_queue EXCEPT ![p] = Tail(@)],
         SockUnspent' \subseteq SockUnspent,
         \/ /\ sock_got' = sock_got /\ p \in Answerer
            /\ SockAtHand' \subseteq SockAtHand \cup {p} /\ p \notin SockAtHand
            /\ peer' = [peer EXCEPT ![p] = Head(sock_queue[p])]
         \/ /\ SockAtHand' \subseteq SockAtHand /\ peer' = peer
            /\ \E c \in Client : sock_got' = [sock_got EXCEPT ![c] = Head(sock_queue[p])]
  PROVE  SockOnceInv'
<1> SUFFICES ASSUME kind \in {"udp_local", "fifo"} PROVE SockOnceInv'
  BY DEF SockOnceInv
<1>1. /\ Head(sock_queue[p]) \in Sock!Process /\ 1 \in 1..Len(sock_queue[p])
      /\ Head(sock_queue[p]) = sock_queue[p][1]
      /\ \A q \in Sock!Process : \A j \in 1..Len(sock_queue'[q]) :
           \E n \in 1..Len(sock_queue[q]) :
             sock_queue'[q][j] = sock_queue[q][n] /\ n = (IF q = p THEN j + 1 ELSE j)
  <2>1. \A q \in Sock!Process : \A j \in 1..Len(sock_queue'[q]) :
           \/ q # p /\ j \in 1..Len(sock_queue[q]) /\ sock_queue'[q][j] = sock_queue[q][j]
           \/ q = p /\ j + 1 \in 1..Len(sock_queue[q]) /\ sock_queue'[q][j] = sock_queue[q][j + 1]
    BY SockTaken
  <2>2. ASSUME NEW q \in Sock!Process, NEW j \in 1..Len(sock_queue'[q])
        PROVE  \E n \in 1..Len(sock_queue[q]) :
                 sock_queue'[q][j] = sock_queue[q][n] /\ n = (IF q = p THEN j + 1 ELSE j)
    <3>1. CASE q # p /\ j \in 1..Len(sock_queue[q]) /\ sock_queue'[q][j] = sock_queue[q][j]
      <4> j \in 1..Len(sock_queue[q])
        BY <3>1
      <4> WITNESS j \in 1..Len(sock_queue[q])
      <4> QED BY <3>1
    <3>2. CASE /\ q = p /\ j + 1 \in 1..Len(sock_queue[q])
               /\ sock_queue'[q][j] = sock_queue[q][j + 1]
      <4> j + 1 \in 1..Len(sock_queue[q])
        BY <3>2
      <4> WITNESS j + 1 \in 1..Len(sock_queue[q])
      <4> QED BY <3>2
    <3> QED BY <2>1, <3>1, <3>2
  <2> QED BY <2>2, SockTaken
<1>2. PICK h \in Sock!Process : h = Head(sock_queue[p])
  BY <1>1
<1>3. /\ h \notin SockUnspent /\ \A s \in SockAtHand : peer[s] # h
      /\ \A c \in Client : sock_got[c] # h
  BY <1>1, <1>2 DEF SockOnceInv
<1>4. /\ sock_got \in [Client -> Sock!Process \cup {NoOne}] /\ h # NoOne
      /\ peer \in [Sock!Process -> Sock!Process \cup {NoOne}]
      /\ SockAtHand \subseteq Answerer /\ Answerer \subseteq Sock!Process
  BY DEF Sock!TypeOK, Sock!Process, SockAtHand
<1>5. ASSUME NEW q \in Sock!Process, NEW r \in Sock!Process,
             NEW j \in 1..Len(sock_queue'[q]), NEW k \in 1..Len(sock_queue'[r]),
             sock_queue'[q][j] = sock_queue'[r][k]
      PROVE  q = r /\ j = k
  <2>1. PICK jj \in 1..Len(sock_queue[q]) :
          sock_queue'[q][j] = sock_queue[q][jj] /\ jj = (IF q = p THEN j + 1 ELSE j)
    BY <1>1
  <2>2. PICK kk \in 1..Len(sock_queue[r]) :
          sock_queue'[r][k] = sock_queue[r][kk] /\ kk = (IF r = p THEN k + 1 ELSE k)
    BY <1>1
  <2>3. q = r /\ jj = kk
    BY <1>5, <2>1, <2>2 DEF SockOnceInv
  <2> QED BY <2>1, <2>2, <2>3
<1>6. \A q \in Sock!Process : \A j \in 1..Len(sock_queue'[q]) :
        /\ sock_queue'[q][j] \notin SockUnspent /\ sock_queue'[q][j] # h
        /\ \A s \in SockAtHand : peer[s] # sock_queue'[q][j]
        /\ \A c \in Client : sock_got[c] # sock_queue'[q][j]
  <2> SUFFICES ASSUME NEW q \in Sock!Process, NEW j \in 1..Len(sock_queue'[q])
               PROVE  /\ sock_queue'[q][j] \notin SockUnspent /\ sock_queue'[q][j] # h
                      /\ \A s \in SockAtHand : peer[s] # sock_queue'[q][j]
                      /\ \A c \in Client : sock_got[c] # sock_queue'[q][j]
    OBVIOUS
  <2>1. PICK jj \in 1..Len(sock_queue[q]) :
          sock_queue'[q][j] = sock_queue[q][jj] /\ jj = (IF q = p THEN j + 1 ELSE j)
    BY <1>1
  <2>2. q # p \/ jj # 1
    BY <2>1
  <2> QED BY <1>1, <1>2, <2>1, <2>2 DEF SockOnceInv
<1>7. CASE /\ sock_got' = sock_got /\ p \in Answerer
           /\ SockAtHand' \subseteq SockAtHand \cup {p} /\ p \notin SockAtHand
           /\ peer' = [peer EXCEPT ![p] = Head(sock_queue[p])]
  <2>1. /\ peer'[p] = h /\ \A s \in SockAtHand : peer'[s] = peer[s]
    BY <1>2, <1>4, <1>7
  <2>2. ASSUME NEW q \in Sock!Process, NEW j \in 1..Len(sock_queue'[q])
        PROVE  /\ sock_queue'[q][j] \notin SockUnspent'
               /\ \A s \in SockAtHand' : peer'[s] # sock_queue'[q][j]
               /\ \A c \in Client : sock_got'[c] # sock_queue'[q][j]
    <3>1. PICK x : x = sock_queue'[q][j]
      OBVIOUS
    <3>2. /\ x \notin SockUnspent /\ x # h
          /\ \A s \in SockAtHand : peer[s] # x
          /\ \A c \in Client : sock_got[c] # x
      BY <1>6, <3>1
    <3>3. x \notin SockUnspent'
      BY <3>2
    <3>4. \A s \in SockAtHand' : peer'[s] # x
      BY <1>7, <2>1, <3>2
    <3>5. \A c \in Client : sock_got'[c] # x
      BY <1>7, <2>1, <3>2
    <3> QED BY <3>1, <3>3, <3>4, <3>5
  <2>3. ASSUME NEW s \in SockAtHand'
        PROVE  /\ peer'[s] \notin SockUnspent'
               /\ \A t \in SockAtHand' : peer'[t] = peer'[s] => t = s
               /\ \A c \in Client : sock_got'[c] # peer'[s]
    <3>1. \A t \in SockAtHand' : t = p \/ t \in SockAtHand
      BY <1>7
    <3>2. CASE s = p
      BY <1>3, <1>7, <2>1, <3>1, <3>2
    <3>3. CASE s # p
      <4>1. s \in SockAtHand /\ peer'[s] = peer[s] /\ peer[s] # h
        BY <1>3, <2>1, <3>1, <3>3
      <4>2. /\ peer[s] \notin SockUnspent
            /\ \A t \in SockAtHand : peer[t] = peer[s] => t = s
            /\ \A c \in Client : sock_got[c] # peer[s]
        BY <4>1 DEF SockOnceInv
      <4> QED BY <1>7, <2>1, <3>1, <4>1, <4>2
    <3> QED BY <3>2, <3>3
  <2>4. \A c \in Client : sock_got'[c] # NoOne =>
         /\ sock_got'[c] \notin SockUnspent'
         /\ \A d \in Client : sock_got'[d] = sock_got'[c] => d = c
    BY <1>7 DEF SockOnceInv
  <2> QED BY <1>5, <2>2, <2>3, <2>4 DEF SockOnceInv
<1>8. CASE /\ SockAtHand' \subseteq SockAtHand /\ peer' = peer
           /\ \E c \in Client : sock_got' = [sock_got EXCEPT ![c] = Head(sock_queue[p])]
  <2>1. PICK c \in Client : sock_got' = [sock_got EXCEPT ![c] = h]
    BY <1>2, <1>8
  <2>2. \A d \in Client : sock_got'[d] = IF d = c THEN h ELSE sock_got[d]
    BY <1>4, <2>1
  <2>3. ASSUME NEW q \in Sock!Process, NEW j \in 1..Len(sock_queue'[q])
        PROVE  /\ sock_queue'[q][j] \notin SockUnspent'
               /\ \A s \in SockAtHand' : peer'[s] # sock_queue'[q][j]
               /\ \A d \in Client : sock_got'[d] # sock_queue'[q][j]
    <3>1. PICK x : x = sock_queue'[q][j]
      OBVIOUS
    <3>2. /\ x \notin SockUnspent /\ x # h
          /\ \A s \in SockAtHand : peer[s] # x
          /\ \A d \in Client : sock_got[d] # x
      BY <1>6, <3>1
    <3>3. x \notin SockUnspent'
      BY <3>2
    <3>4. \A s \in SockAtHand' : peer'[s] # x
      BY <1>8, <2>2, <3>2
    <3>5. \A d \in Client : sock_got'[d] # x
      BY <1>8, <2>2, <3>2
    <3> QED BY <3>1, <3>3, <3>4, <3>5
  <2>4. ASSUME NEW s \in SockAtHand'
        PROVE  /\ peer'[s] \notin SockUnspent'
               /\ \A t \in SockAtHand' : peer'[t] = peer'[s] => t = s
               /\ \A d \in Client : sock_got'[d] # peer'[s]
    <3>1. /\ s \in SockAtHand /\ peer[s] \notin SockUnspent /\ peer[s] # h
          /\ \A t \in SockAtHand : peer[t] = peer[s] => t = s
          /\ \A d \in Client : sock_got[d] # peer[s]
      BY <1>3, <1>8 DEF SockOnceInv
    <3> QED BY <1>8, <2>2, <3>1
  <2>5. \A d \in Client : sock_got'[d] # NoOne =>
         /\ sock_got'[d] \notin SockUnspent'
         /\ \A e \in Client : sock_got'[e] = sock_got'[d] => e = d
    BY <1>3, <2>2 DEF SockOnceInv
  <2> QED BY <1>5, <2>3, <2>4, <2>5 DEF SockOnceInv
<1> QED BY <1>7, <1>8

LEMMA SockStartServer ==
  ASSUME SockInv, NEW s \in Answerer, Sock!StartServer(s)
  PROVE  SockInv'
<1> USE DEF Sock!StartServer, Sock!Goto, Sock!Process, Sock!Name, Sock!Own, Sock!Inet
<1>1. Sock!TypeOK'
  BY DEF SockInv, Sock!TypeOK
<1>2. SockOwnerInv'
  BY DEF SockInv, Sock!TypeOK, SockOwnerInv, SockOwnerAt, SockPeerInv, Sock!Stream
<1>3. SockPeerInv'
  BY DEF SockInv, Sock!TypeOK, SockPeerInv, Sock!Stream
<1>4. SockOwnInv'
  BY DEF SockInv, SockOwnInv
<1>5. SockUnspent' \subseteq SockUnspent /\ \A q \in SockAtHand' : q \in SockAtHand
  BY DEF SockInv, Sock!TypeOK, SockUnspent, SockAtHand, SockPeerInv, Sock!Stream
<1> QED BY <1>1, <1>2, <1>3, <1>4, <1>5, SockOnceKept DEF SockInv

LEMMA SockStartClient ==
  ASSUME SockInv, NEW c \in Client, Sock!StartClient(c)
  PROVE  SockInv'
<1> USE DEF Sock!StartClient, Sock!Goto, Sock!Process, Sock!Name, Sock!Own
<1>1. Sock!TypeOK'
  BY DEF SockInv, Sock!TypeOK
<1>2. SockOwnerInv'
  BY DEF SockInv, Sock!TypeOK, SockOwnerInv, SockOwnerAt, SockPeerInv, Sock!Stream
<1>3. SockPeerInv'
  BY DEF SockInv, Sock!TypeOK, SockPeerInv, Sock!Stream
<1>4. SockOwnInv'
  BY DEF SockInv, SockOwnInv
<1>5. SockUnspent' \subseteq SockUnspent /\ \A q \in SockAtHand' : q \in SockAtHand
  BY DEF SockInv, Sock!TypeOK, SockUnspent, SockAtHand, SockPeerInv, Sock!Stream
<1> QED BY <1>1, <1>2, <1>3, <1>4, <1>5, SockOnceKept DEF SockInv

LEMMA SockUnlinkOld ==
  ASSUME SockInv, NEW p \in Sock!Process, Sock!UnlinkOld(p)
  PROVE  SockInv'
<1> USE DEF Sock!UnlinkOld, Sock!Goto, Sock!Process, Sock!Name, Sock!Own
<1>1. Sock!TypeOK'
  BY DEF SockInv, Sock!TypeOK
<1>2. SockOwnerInv'
  BY DEF SockInv, Sock!TypeOK, SockOwnerInv, SockOwnerAt, SockPeerInv, Sock!Stream
<1>3. SockPeerInv'
  BY DEF SockInv, Sock!TypeOK, SockPeerInv, Sock!Stream
<1>4. SockOwnInv'
  BY DEF SockInv, SockOwnInv
<1>5. SockUnspent' \subseteq SockUnspent /\ \A q \in SockAtHand' : q \in SockAtHand
  BY DEF SockInv, Sock!TypeOK, SockUnspent, SockAtHand, SockPeerInv, Sock!Stream
<1> QED BY <1>1, <1>2, <1>3, <1>4, <1>5, SockOnceKept DEF SockInv

LEMMA SockBind ==
  ASSUME SockInv, NEW p \in Sock!Process, Sock!Bind(p)
  PROVE  SockInv'
<1> USE DEF Sock!Bind, Sock!Goto, Sock!Process, Sock!Name, Sock!Own, Sock!Stream
<1>1. Sock!TypeOK'
  BY DEF SockInv, Sock!TypeOK
<1>2. SockOwnerInv'
  <2>1. /\ sock_pc'[p] \notin {"off", "unlink", "bind", "done", "killed", "answer", "close"}
        /\ kind = "fifo" => sock_pc'[p] # "wait"
        /\ p \in Client => kind = "udp_local"
    BY DEF SockInv, Sock!TypeOK, SockPeerInv
  <2>2. /\ owner' = [owner EXCEPT ![Sock!Own(p)] = p]
        /\ \A q \in Sock!Process : q # p => sock_pc'[q] = sock_pc[q]
        /\ peer' = peer /\ kind' = kind
        /\ sock_pc[p] = "bind"
    BY DEF SockInv, Sock!TypeOK
  <2>3. ASSUME NEW n \in Sock!Name, n # Sock!Own(p), owner'[n] # NoOne
        PROVE  SockOwnerAt(n, owner[n])'
    <3>1. owner'[n] = owner[n] /\ SockOwnerAt(n, owner[n]) /\ owner[n] # p
      BY <2>2, <2>3 DEF SockInv, Sock!TypeOK, SockOwnerInv, SockOwnerAt
    <3> QED BY <2>1, <2>2, <3>1 DEF SockOwnerAt
  <2>4. SockOwnerAt(Sock!Own(p), p)'
    BY <2>1, <2>2 DEF SockInv, Sock!TypeOK, SockOwnerAt
  <2> QED BY <2>2, <2>3, <2>4 DEF SockInv, Sock!TypeOK, SockOwnerInv, SockOwnerAt
<1>3. SockPeerInv'
  BY DEF SockInv, Sock!TypeOK, SockPeerInv, Sock!Stream
<1>4. SockOwnInv'
  BY DEF SockInv, SockOwnInv
<1>5. SockUnspent' \subseteq SockUnspent /\ \A q \in SockAtHand' : q \in SockAtHand
  BY DEF SockInv, Sock!TypeOK, SockUnspent, SockAtHand, SockPeerInv, Sock!Stream
<1> QED BY <1>1, <1>2, <1>3, <1>4, <1>5, SockOnceKept DEF SockInv

LEMMA SockBindFails ==
  ASSUME SockInv, NEW p \in Sock!Process, Sock!BindFails(p)
  PROVE  SockInv'
<1> USE DEF Sock!BindFails, Sock!Goto, Sock!Process, Sock!Name, Sock!Own
<1>1. Sock!TypeOK'
  BY DEF SockInv, Sock!TypeOK
<1>2. SockOwnerInv'
  BY DEF SockInv, Sock!TypeOK, SockOwnerInv, SockOwnerAt, SockPeerInv, Sock!Stream
<1>3. SockPeerInv'
  BY DEF SockInv, Sock!TypeOK, SockPeerInv, Sock!Stream
<1>4. SockOwnInv'
  BY DEF SockInv, SockOwnInv
<1>5. SockUnspent' \subseteq SockUnspent /\ \A q \in SockAtHand' : q \in SockAtHand
  BY DEF SockInv, Sock!TypeOK, SockUnspent, SockAtHand, SockPeerInv, Sock!Stream
<1> QED BY <1>1, <1>2, <1>3, <1>4, <1>5, SockOnceKept DEF SockInv

LEMMA SockUnlinkOwn ==
  ASSUME SockInv, NEW p \in Sock!Process, Sock!UnlinkOwn(p)
  PROVE  SockInv'
<1> USE DEF Sock!UnlinkOwn, Sock!Goto, Sock!Process, Sock!Name, Sock!Own, Sock!Unlink
<1>1. Sock!TypeOK'
  BY DEF SockInv, Sock!TypeOK
<1>2. SockOwnerInv'
  BY DEF SockInv, Sock!TypeOK, SockOwnerInv, SockOwnerAt, SockPeerInv, Sock!Stream
<1>3. SockPeerInv'
  BY DEF SockInv, Sock!TypeOK, SockPeerInv, Sock!Stream
<1>4. SockOwnInv'
  BY DEF SockInv, SockOwnInv
<1>5. SockUnspent' \subseteq SockUnspent /\ \A q \in SockAtHand' : q \in SockAtHand
  BY DEF SockInv, Sock!TypeOK, SockUnspent, SockAtHand, SockPeerInv, Sock!Stream
<1> QED BY <1>1, <1>2, <1>3, <1>4, <1>5, SockOnceKept DEF SockInv

LEMMA SockListen ==
  ASSUME SockInv, NEW s \in Answerer, Sock!Listen(s)
  PROVE  SockInv'
<1> USE DEF Sock!Listen, Sock!Goto, Sock!Process, Sock!Name, Sock!Own
<1>1. Sock!TypeOK'
  BY DEF SockInv, Sock!TypeOK
<1>2. SockOwnerInv'
  BY DEF SockInv, Sock!TypeOK, SockOwnerInv, SockOwnerAt, SockPeerInv, Sock!Stream
<1>3. SockPeerInv'
  BY DEF SockInv, Sock!TypeOK, SockPeerInv, Sock!Stream
<1>4. SockOwnInv'
  BY DEF SockInv, SockOwnInv
<1>5. SockUnspent' \subseteq SockUnspent /\ \A q \in SockAtHand' : q \in SockAtHand
  BY DEF SockInv, Sock!TypeOK, SockUnspent, SockAtHand, SockPeerInv, Sock!Stream
<1> QED BY <1>1, <1>2, <1>3, <1>4, <1>5, SockOnceKept DEF SockInv

LEMMA SockReadRequest ==
  ASSUME SockInv, NEW s \in Answerer, Sock!ReadRequest(s)
  PROVE  SockInv'
<1> USE DEF Sock!ReadRequest, Sock!Goto, Sock!Process, Sock!Name, Sock!Own, Sock!Asked, Sock!AtEndOfFile
<1>1. Sock!TypeOK'
  BY DEF SockInv, Sock!TypeOK
<1>2. SockOwnerInv'
  BY DEF SockInv, Sock!TypeOK, SockOwnerInv, SockOwnerAt, SockPeerInv, Sock!Stream
<1>3. SockPeerInv'
  BY DEF SockInv, Sock!TypeOK, SockPeerInv, Sock!Stream
<1>4. SockOwnInv'
  BY DEF SockInv, SockOwnInv
<1>5. SockUnspent' \subseteq SockUnspent /\ \A q \in SockAtHand' : q \in SockAtHand
  BY DEF SockInv, Sock!TypeOK, SockUnspent, SockAtHand, SockPeerInv, Sock!Stream
<1> QED BY <1>1, <1>2, <1>3, <1>4, <1>5, SockOnceKept DEF SockInv

LEMMA SockClose ==
  ASSUME SockInv, NEW s \in Answerer, Sock!Close(s)
  PROVE  SockInv'
<1> USE DEF Sock!Close, Sock!Goto, Sock!Process, Sock!Name, Sock!Own, Sock!Released, Sock!Inet
<1>1. Sock!TypeOK'
  BY DEF SockInv, Sock!TypeOK
<1>2. SockOwnerInv'
  BY DEF SockInv, Sock!TypeOK, SockOwnerInv, SockOwnerAt, SockPeerInv, Sock!Stream
<1>3. SockPeerInv'
  BY DEF SockInv, Sock!TypeOK, SockPeerInv, Sock!Stream
<1>4. SockOwnInv'
  BY DEF SockInv, SockOwnInv
<1>5. SockUnspent' \subseteq SockUnspent /\ \A q \in SockAtHand' : q \in SockAtHand
  BY DEF SockInv, Sock!TypeOK, SockUnspent, SockAtHand, SockPeerInv, Sock!Stream
<1> QED BY <1>1, <1>2, <1>3, <1>4, <1>5, SockOnceKept DEF SockInv

LEMMA SockSendRequest ==
  ASSUME SockInv, NEW c \in Client, Sock!SendRequest(c)
  PROVE  SockInv'
<1> USE DEF Sock!SendRequest, Sock!Goto, Sock!Process, Sock!Name, Sock!Own, Sock!AtSend
<1>1. Sock!TypeOK'
  BY DEF SockInv, Sock!TypeOK
<1>2. SockOwnerInv'
  BY DEF SockInv, Sock!TypeOK, SockOwnerInv, SockOwnerAt, SockPeerInv, Sock!Stream
<1>3. SockPeerInv'
  BY DEF SockInv, Sock!TypeOK, SockPeerInv, Sock!Stream
<1>4. SockOwnInv'
  BY DEF SockInv, SockOwnInv
<1>5. SockUnspent' \subseteq SockUnspent /\ \A q \in SockAtHand' : q \in SockAtHand
  BY DEF SockInv, Sock!TypeOK, SockUnspent, SockAtHand, SockPeerInv, Sock!Stream
<1> QED BY <1>1, <1>2, <1>3, <1>4, <1>5, SockOnceKept DEF SockInv

LEMMA SockReceiveEnd ==
  ASSUME SockInv, NEW c \in Client, Sock!ReceiveEnd(c)
  PROVE  SockInv'
<1> USE DEF Sock!ReceiveEnd, Sock!HasEnd, Sock!Goto, Sock!Process, Sock!Name, Sock!Own, Sock!AfterAnswer, Sock!Box
<1>1. Sock!TypeOK'
  BY DEF SockInv, Sock!TypeOK
<1>2. SockOwnerInv'
  BY DEF SockInv, Sock!TypeOK, SockOwnerInv, SockOwnerAt, SockPeerInv, Sock!Stream
<1>3. SockPeerInv'
  BY DEF SockInv, Sock!TypeOK, SockPeerInv, Sock!Stream
<1>4. SockOwnInv'
  BY DEF SockInv, SockOwnInv
<1>5. SockUnspent' \subseteq SockUnspent /\ \A q \in SockAtHand' : q \in SockAtHand
  BY DEF SockInv, Sock!TypeOK, SockUnspent, SockAtHand, SockPeerInv, Sock!Stream
<1> QED BY <1>1, <1>2, <1>3, <1>4, <1>5, SockOnceKept DEF SockInv

LEMMA SockKill ==
  ASSUME SockInv, NEW p \in Sock!Process, Sock!Kill(p)
  PROVE  SockInv'
<1> USE DEF Sock!Kill, Sock!Goto, Sock!Process, Sock!Name, Sock!Own, Sock!Released, Sock!Inet, Sock!Started, Sock!Over
<1>1. Sock!TypeOK'
  BY DEF SockInv, Sock!TypeOK
<1>2. SockOwnerInv'
  BY DEF SockInv, Sock!TypeOK, SockOwnerInv, SockOwnerAt, SockPeerInv, Sock!Stream
<1>3. SockPeerInv'
  BY DEF SockInv, Sock!TypeOK, SockPeerInv, Sock!Stream
<1>4. SockOwnInv'
  BY DEF SockInv, SockOwnInv
<1>5. SockUnspent' \subseteq SockUnspent /\ \A q \in SockAtHand' : q \in SockAtHand
  BY DEF SockInv, Sock!TypeOK, SockUnspent, SockAtHand, SockPeerInv, Sock!Stream
<1> QED BY <1>1, <1>2, <1>3, <1>4, <1>5, SockOnceKept DEF SockInv

LEMMA SockTakeFirst ==
  ASSUME SockInv, NEW s \in Answerer, Sock!TakeFirst(s)
  PROVE  SockInv'
<1> USE DEF Sock!TakeFirst, Sock!HasFirst, Sock!Take, Sock!Goto, Sock!Process, Sock!Name, Sock!Stream
<1>1. /\ sock_queue' \in [Sock!Process -> Seq(Sock!Process)]
      /\ Head(sock_queue[s]) \in Sock!Process
      /\ \A c \in Client : sock_queue'[c] = sock_queue[c]
  <2>1. s \in Sock!Process /\ sock_queue \in [Sock!Process -> Seq(Sock!Process)]
    BY DEF SockInv, Sock!TypeOK
  <2>2. /\ sock_queue' \in [Sock!Process -> Seq(Sock!Process)]
        /\ Head(sock_queue[s]) \in Sock!Process
    BY <2>1, SockTaken DEF SockInv
  <2> QED BY <2>1, <2>2
<1>2. Sock!TypeOK'
  BY <1>1 DEF SockInv, Sock!TypeOK
<1>3. SockOwnerInv'
  BY DEF SockInv, Sock!TypeOK, SockOwnerInv, SockOwnerAt
<1>4. SockPeerInv'
  BY <1>1 DEF SockInv, Sock!TypeOK, SockPeerInv
<1>5. SockOwnInv'
  BY <1>1 DEF SockInv, SockOwnInv
<1>6. /\ SockUnspent' \subseteq SockUnspent /\ SockAtHand' \subseteq SockAtHand \cup {s}
      /\ s \notin SockAtHand
  BY DEF SockInv, Sock!TypeOK, SockUnspent, SockAtHand
<1>7. SockOnceInv'
  BY <1>6, SockOnceTake DEF SockInv
<1> QED BY <1>2, <1>3, <1>4, <1>5, <1>7 DEF SockInv

\* The answer to a client of its own address.
LEMMA SockAnswered ==
  ASSUME Sock!TypeOK, NEW p \in Sock!Process,
         \/ sock_queue' = sock_queue
         \/ sock_queue' = [sock_queue EXCEPT ![p] = Append(@, p)]
  PROVE  /\ sock_queue' \in [Sock!Process -> Seq(Sock!Process)]
         /\ \A c \in Client : \A j \in 1..Len(sock_queue'[c]) :
              \/ j \in 1..Len(sock_queue[c]) /\ sock_queue'[c][j] = sock_queue[c][j]
              \/ sock_queue'[c][j] = c
<1>1. CASE sock_queue' = sock_queue
  BY <1>1 DEF Sock!TypeOK
<1>2. CASE sock_queue' = [sock_queue EXCEPT ![p] = Append(@, p)]
  <2>1. PICK x \in Sock!Process : x = p
    OBVIOUS
  <2>2. sock_queue' = [sock_queue EXCEPT ![p] = Append(@, x)]
    BY <1>2, <2>1
  <2>3. sock_queue' \in [Sock!Process -> Seq(Sock!Process)]
    BY <2>2, SockPlaced
  <2>4. \A q \in Sock!Process : \A j \in 1..Len(sock_queue'[q]) :
           \/ j \in 1..Len(sock_queue[q]) /\ sock_queue'[q][j] = sock_queue[q][j]
           \/ q = p /\ j = Len(sock_queue[q]) + 1 /\ sock_queue'[q][j] = x
    BY <2>2, SockPlaced
  <2> QED BY <2>1, <2>3, <2>4 DEF Sock!Process
<1> QED BY <1>1, <1>2

LEMMA SockAnswerStream ==
  ASSUME SockInv, NEW s \in Answerer, Sock!AnswerStream(s)
  PROVE  SockInv'
<1> USE DEF Sock!AnswerStream, Sock!Put, Sock!Goto, Sock!Process, Sock!Name, Sock!Stream
<1>1. PICK p \in Sock!Process : p = peer[s]
  BY DEF SockInv, SockPeerInv
<1>2. /\ sock_queue' \in [Sock!Process -> Seq(Sock!Process)]
      /\ \A c \in Client : \A j \in 1..Len(sock_queue'[c]) :
           \/ j \in 1..Len(sock_queue[c]) /\ sock_queue'[c][j] = sock_queue[c][j]
           \/ sock_queue'[c][j] = c
  BY <1>1, SockAnswered DEF SockInv
<1>3. Sock!TypeOK'
  BY <1>2 DEF SockInv, Sock!TypeOK
<1>4. SockOwnerInv'
  BY DEF SockInv, Sock!TypeOK, SockOwnerInv, SockOwnerAt
<1>5. SockPeerInv'
  BY DEF SockInv, Sock!TypeOK, SockPeerInv
<1>6. SockOwnInv'
  BY <1>2 DEF SockInv, SockOwnInv
<1>7. SockOnceInv'
  BY DEF SockOnceInv
<1> QED BY <1>3, <1>4, <1>5, <1>6, <1>7 DEF SockInv

LEMMA SockAnswerUdp ==
  ASSUME SockInv, NEW s \in Answerer, Sock!AnswerUdp(s)
  PROVE  SockInv'
<1> USE DEF Sock!AnswerUdp, Sock!Put, Sock!Goto, Sock!Process, Sock!Name, Sock!Stream, Sock!ToAsker
<1>1. PICK p \in Sock!Process : p = peer[s]
  BY DEF SockInv, SockPeerInv
<1>2. /\ sock_queue' \in [Sock!Process -> Seq(Sock!Process)]
      /\ \A c \in Client : \A j \in 1..Len(sock_queue'[c]) :
           \/ j \in 1..Len(sock_queue[c]) /\ sock_queue'[c][j] = sock_queue[c][j]
           \/ sock_queue'[c][j] = c
  BY <1>1, SockAnswered DEF SockInv
<1>3. Sock!TypeOK'
  BY <1>2 DEF SockInv, Sock!TypeOK
<1>4. SockOwnerInv'
  BY DEF SockInv, Sock!TypeOK, SockOwnerInv, SockOwnerAt
<1>5. SockPeerInv'
  BY DEF SockInv, Sock!TypeOK, SockPeerInv
<1>6. SockOwnInv'
  BY <1>2 DEF SockInv, SockOwnInv
<1>7. SockOnceInv'
  BY DEF SockOnceInv
<1> QED BY <1>3, <1>4, <1>5, <1>6, <1>7 DEF SockInv

LEMMA SockAnswerUdpLocal ==
  ASSUME SockInv, NEW s \in Answerer, Sock!AnswerUdpLocal(s)
  PROVE  SockInv'
<1> USE DEF Sock!AnswerUdpLocal, Sock!Put, Sock!Goto, Sock!Process, Sock!Name, Sock!Stream
<1>1. PICK x \in Sock!Process : x = peer[s]
  BY DEF SockInv, SockPeerInv
<1>2. /\ SockUnspent' \subseteq SockUnspent /\ SockAtHand' \subseteq SockAtHand
      /\ s \in SockAtHand /\ s \notin SockAtHand'
  BY DEF SockInv, Sock!TypeOK, SockUnspent, SockAtHand
<1>3. x \notin SockUnspent' /\ \A t \in SockAtHand' : peer[t] # x
  BY <1>1, <1>2 DEF SockInv, SockOnceInv
<1>4. \/ sock_queue' = sock_queue
      \/ \E p \in Sock!Process : sock_queue' = [sock_queue EXCEPT ![p] = Append(@, x)]
  BY <1>1 DEF SockInv, Sock!TypeOK
<1>5. sock_queue' \in [Sock!Process -> Seq(Sock!Process)]
  <2>1. CASE sock_queue' = sock_queue
    BY <2>1 DEF SockInv, Sock!TypeOK
  <2>2. ASSUME NEW p \in Sock!Process, sock_queue' = [sock_queue EXCEPT ![p] = Append(@, x)]
        PROVE  sock_queue' \in [Sock!Process -> Seq(Sock!Process)]
    BY <2>2, SockPlaced DEF SockInv
  <2> QED BY <1>4, <2>1, <2>2
<1>6. Sock!TypeOK'
  BY <1>5 DEF SockInv, Sock!TypeOK
<1>7. SockOwnerInv'
  BY DEF SockInv, Sock!TypeOK, SockOwnerInv, SockOwnerAt
<1>8. SockPeerInv'
  BY DEF SockInv, Sock!TypeOK, SockPeerInv
<1>9. SockOwnInv'
  BY DEF SockOwnInv
<1>10. SockOnceInv'
  <2>1. CASE sock_queue' = sock_queue
    BY <1>2, <1>6, <2>1, SockOnceKept DEF SockInv
  <2>2. ASSUME NEW p \in Sock!Process, sock_queue' = [sock_queue EXCEPT ![p] = Append(@, x)]
        PROVE  SockOnceInv'
    BY <1>1, <1>2, <1>3, <2>2, SockOncePut DEF SockInv
  <2> QED BY <1>4, <2>1, <2>2
<1> QED BY <1>6, <1>7, <1>8, <1>9, <1>10 DEF SockInv

LEMMA SockConnect ==
  ASSUME SockInv, NEW c \in Client, Sock!Connect(c)
  PROVE  SockInv'
<1> USE DEF Sock!Connect, Sock!Put, Sock!Goto, Sock!Process, Sock!Name, Sock!Stream, Sock!At
<1>1. /\ sock_queue' \in [Sock!Process -> Seq(Sock!Process)]
      /\ \A d \in Client : sock_queue'[d] = sock_queue[d]
  <2>1. CASE sock_queue' = sock_queue
    BY <2>1 DEF SockInv, Sock!TypeOK
  <2>2. CASE sock_queue' # sock_queue
    <3>1. PICK s : s = owner["server"]
      OBVIOUS
    <3>2. s # NoOne /\ sock_queue' = [sock_queue EXCEPT ![s] = Append(@, c)]
      BY <2>2, <3>1
    <3>3. s \in Answerer
      BY <3>1, <3>2 DEF SockInv, SockOwnerInv, SockOwnerAt, Sock!Own
    <3>4. s \in Sock!Process /\ c \in Sock!Process /\ \A d \in Client : d # s
      BY <3>3
    <3>5. sock_queue' \in [Sock!Process -> Seq(Sock!Process)]
      BY <3>2, <3>4, SockPlaced DEF SockInv
    <3>6. \A d \in Client : sock_queue'[d] = sock_queue[d]
      BY <3>2, <3>4 DEF SockInv, Sock!TypeOK
    <3> QED BY <3>5, <3>6
  <2> QED BY <2>1, <2>2
<1>2. Sock!TypeOK'
  BY <1>1 DEF SockInv, Sock!TypeOK
<1>3. SockOwnerInv'
  BY DEF SockInv, Sock!TypeOK, SockOwnerInv, SockOwnerAt, Sock!Own
<1>4. SockPeerInv'
  <2>1. kind' = kind /\ Sock!Stream /\ kind \notin {"fifo", "udp_local"}
    OBVIOUS
  <2>2. peer' = [peer EXCEPT ![c] = peer'[c]] /\ sock_pc' = [sock_pc EXCEPT ![c] = sock_pc'[c]]
    BY DEF SockInv, Sock!TypeOK
  <2>3. sock_pc'[c] \in {"send", "done"}
    BY DEF SockInv, Sock!TypeOK
  <2> QED BY <2>1, <2>2, <2>3 DEF SockInv, Sock!TypeOK, SockPeerInv
<1>5. SockOwnInv'
  BY <1>1 DEF SockInv, SockOwnInv
<1>6. SockOnceInv'
  BY DEF SockOnceInv
<1> QED BY <1>2, <1>3, <1>4, <1>5, <1>6 DEF SockInv

LEMMA SockOpened ==
  ASSUME Sock!TypeOK, NEW f \in Sock!Process, Sock!Opened(f)
  PROVE  /\ sock_queue' \in [Sock!Process -> Seq(Sock!Process)]
         /\ \A p \in Sock!Process : sock_queue'[p] = sock_queue[p] \/ sock_queue'[p] = <<>>
<1>1. <<>> \in Seq(Sock!Process)
  OBVIOUS
<1> QED BY <1>1 DEF Sock!TypeOK, Sock!Opened

LEMMA SockOpenWrite ==
  ASSUME SockInv, NEW s \in Answerer, Sock!OpenWrite(s)
  PROVE  SockInv'
<1> USE DEF Sock!Name
<1>1. s \in Sock!Process /\ sock_pc[s] = "open_write" /\ kind = "fifo"
  BY DEF SockInv, SockPeerInv, Sock!OpenWrite, Sock!Process
<1>2. CASE owner["server"] = NoOne
  <2> USE <1>2 DEF Sock!OpenWrite, Sock!Goto
  <2>1. Sock!TypeOK'
    BY <1>1 DEF SockInv, Sock!TypeOK
  <2>2. SockOwnerInv'
    BY <1>1 DEF SockInv, Sock!TypeOK, SockOwnerInv, SockOwnerAt
  <2>3. SockPeerInv'
    BY <1>1 DEF SockInv, Sock!TypeOK, SockPeerInv, Sock!Process, Sock!Stream
  <2>4. SockOwnInv'
    BY <1>1 DEF SockOwnInv
  <2>5. SockUnspent' \subseteq SockUnspent /\ \A q \in SockAtHand' : q \in SockAtHand
    BY <1>1 DEF SockInv, Sock!TypeOK, SockUnspent, SockAtHand, Sock!Process
  <2>6. SockOnceInv'
    BY <2>1, <2>5, SockOnceKept DEF SockInv
  <2> QED BY <2>1, <2>2, <2>3, <2>4, <2>6 DEF SockInv
<1>3. CASE owner["server"] # NoOne
  <2>1. PICK f \in Sock!Process : f = owner["server"]
    BY <1>3 DEF SockInv, Sock!TypeOK
  <2>2. /\ kind' = kind /\ owner' = owner /\ sock_got' = sock_got
        /\ peer' = [peer EXCEPT ![s] = f] /\ Sock!Opened(f)
        /\ \E place \in {"wait", "answer"} :
             sock_pc' = [q \in Sock!Process |->
                           IF q = s THEN place
                           ELSE IF peer[q] = f /\ sock_pc[q] = "open" THEN "receive" ELSE sock_pc[q]]
    BY <1>3, <2>1 DEF Sock!OpenWrite, Sock!MeetAt
  <2>3. PICK place \in {"wait", "answer"} :
          sock_pc' = [q \in Sock!Process |->
                        IF q = s THEN place
                        ELSE IF peer[q] = f /\ sock_pc[q] = "open" THEN "receive" ELSE sock_pc[q]]
    BY <2>2
  <2>4. /\ sock_queue' \in [Sock!Process -> Seq(Sock!Process)]
        /\ \A p \in Sock!Process : sock_queue'[p] = sock_queue[p] \/ sock_queue'[p] = <<>>
    BY <2>2, SockOpened DEF SockInv
  <2>5. Sock!TypeOK'
    BY <2>2, <2>3, <2>4 DEF SockInv, Sock!TypeOK
  <2>6. /\ \A q \in Sock!Process : q # s => peer'[q] = peer[q]
        /\ peer'[s] = f /\ sock_pc'[s] = place
        /\ \A q \in Sock!Process : q # s =>
             \/ sock_pc'[q] = sock_pc[q]
             \/ peer[q] = f /\ sock_pc[q] = "open" /\ sock_pc'[q] = "receive"
    BY <1>1, <2>2, <2>3 DEF SockInv, Sock!TypeOK
  <2>7. SockOwnerInv'
    <3> SUFFICES ASSUME NEW n \in Sock!Name, owner[n] # NoOne
                 PROVE  SockOwnerAt(n, owner[n])'
      BY <2>2 DEF SockOwnerInv
    <3>1. PICK p : p = owner[n]
      OBVIOUS
    <3>2. SockOwnerAt(n, p) /\ n = "server"
      BY <1>1, <3>1 DEF SockInv, SockOwnerInv, SockOwnerAt
    <3>3. p = f
      BY <2>1, <3>1, <3>2
    <3>4. ASSUME NEW c \in Client, peer[c] = p,
                 sock_pc[c] \in {"open", "receive", "unlink_own", "killed"}
          PROVE  peer'[c] = p /\ sock_pc'[c] \in {"open", "receive", "unlink_own", "killed"}
      BY <1>1, <2>6, <3>4 DEF Sock!Process
    <3>5. p \in Sock!Process /\ Sock!Own(p) = n
      BY <3>2 DEF SockOwnerAt
    <3>6. CASE p = s
      BY <1>1, <2>2, <2>6, <3>1, <3>2, <3>3, <3>6 DEF SockOwnerAt
    <3>7. CASE p # s
      <4>1. peer'[p] = peer[p] /\ (sock_pc'[p] = sock_pc[p] \/ sock_pc'[p] = "receive")
        BY <2>6, <3>5, <3>7
      <4>2. sock_pc'[p] \in {"close", "done"} =>
              \E c \in Client : peer'[c] = p /\ sock_pc'[c] \in {"open", "receive", "unlink_own", "killed"}
        BY <1>1, <3>2, <3>4, <4>1 DEF SockOwnerAt
      <4> QED BY <1>1, <2>2, <3>1, <3>2, <3>5, <4>1, <4>2 DEF SockOwnerAt
    <3> QED BY <3>6, <3>7
  <2>8. SockPeerInv'
    BY <1>1, <2>2, <2>6 DEF SockInv, SockPeerInv, Sock!Stream, Sock!Process
  <2>9. SockOwnInv'
    BY <1>1, <2>2 DEF SockOwnInv
  <2>10. SockUnspent' \subseteq SockUnspent /\ \A q \in SockAtHand' : q \in SockAtHand
    BY <1>1, <2>2, <2>6 DEF SockUnspent, SockAtHand, Sock!Process
  <2>11. SockOnceInv'
    <3>1. \A q \in SockAtHand' : q \in SockAtHand /\ peer'[q] = peer[q]
      BY <1>1, <2>2 DEF SockAtHand
    <3> QED BY <2>2, <2>4, <2>5, <2>10, <3>1, SockOnceKept DEF SockInv
  <2> QED BY <2>5, <2>7, <2>8, <2>9, <2>11 DEF SockInv
<1> QED BY <1>2, <1>3

LEMMA SockOpenRead ==
  ASSUME SockInv, NEW c \in Client, Sock!OpenRead(c)
  PROVE  SockInv'
<1> USE DEF Sock!Name
<1>1. c \in Sock!Process /\ sock_pc[c] = "call" /\ kind = "fifo" /\ c \notin Answerer
  BY DEF SockInv, SockPeerInv, Sock!OpenRead, Sock!Process
<1>2. CASE owner["server"] = NoOne
  <2> USE <1>2 DEF Sock!OpenRead, Sock!Goto
  <2>1. Sock!TypeOK'
    BY <1>1 DEF SockInv, Sock!TypeOK
  <2>2. SockOwnerInv'
    BY <1>1 DEF SockInv, Sock!TypeOK, SockOwnerInv, SockOwnerAt
  <2>3. SockPeerInv'
    BY <1>1 DEF SockInv, Sock!TypeOK, SockPeerInv, Sock!Process, Sock!Stream
  <2>4. SockOwnInv'
    BY <1>1 DEF SockOwnInv
  <2>5. SockUnspent' \subseteq SockUnspent /\ \A q \in SockAtHand' : q \in SockAtHand
    BY <1>1 DEF SockInv, Sock!TypeOK, SockUnspent, SockAtHand, Sock!Process
  <2>6. SockOnceInv'
    BY <2>1, <2>5, SockOnceKept DEF SockInv
  <2> QED BY <2>1, <2>2, <2>3, <2>4, <2>6 DEF SockInv
<1>3. CASE owner["server"] # NoOne
  <2>1. PICK f \in Sock!Process : f = owner["server"]
    BY <1>3 DEF SockInv, Sock!TypeOK
  <2>2. /\ kind' = kind /\ owner' = owner /\ sock_got' = sock_got
        /\ peer' = [peer EXCEPT ![c] = f] /\ Sock!Opened(f)
        /\ \E place \in {"open", "receive"} :
             sock_pc' = [q \in Sock!Process |->
                           IF q = c THEN place
                           ELSE IF peer[q] = f /\ sock_pc[q] = "wait" THEN "answer" ELSE sock_pc[q]]
    BY <1>3, <2>1 DEF Sock!OpenRead, Sock!MeetAt
  <2>3. PICK place \in {"open", "receive"} :
          sock_pc' = [q \in Sock!Process |->
                        IF q = c THEN place
                        ELSE IF peer[q] = f /\ sock_pc[q] = "wait" THEN "answer" ELSE sock_pc[q]]
    BY <2>2
  <2>4. /\ sock_queue' \in [Sock!Process -> Seq(Sock!Process)]
        /\ \A p \in Sock!Process : sock_queue'[p] = sock_queue[p] \/ sock_queue'[p] = <<>>
    BY <2>2, SockOpened DEF SockInv
  <2>5. Sock!TypeOK'
    BY <2>2, <2>3, <2>4 DEF SockInv, Sock!TypeOK
  <2>6. /\ \A q \in Sock!Process : q # c => peer'[q] = peer[q]
        /\ peer'[c] = f /\ sock_pc'[c] = place
        /\ \A q \in Sock!Process : q # c =>
             \/ sock_pc'[q] = sock_pc[q]
             \/ peer[q] = f /\ sock_pc[q] = "wait" /\ sock_pc'[q] = "answer"
    BY <1>1, <2>2, <2>3 DEF SockInv, Sock!TypeOK
  <2>7. SockOwnerInv'
    <3> SUFFICES ASSUME NEW n \in Sock!Name, owner[n] # NoOne
                 PROVE  SockOwnerAt(n, owner[n])'
      BY <2>2 DEF SockOwnerInv
    <3>1. PICK p : p = owner[n]
      OBVIOUS
    <3>2. SockOwnerAt(n, p) /\ n = "server"
      BY <1>1, <3>1 DEF SockInv, SockOwnerInv, SockOwnerAt
    <3>3. p = f /\ p # c
      BY <1>1, <2>1, <3>1, <3>2 DEF SockOwnerAt, Sock!Own
    <3>4. ASSUME NEW d \in Client, peer[d] = p,
                 sock_pc[d] \in {"open", "receive", "unlink_own", "killed"}
          PROVE  peer'[d] = p /\ sock_pc'[d] \in {"open", "receive", "unlink_own", "killed"}
      BY <1>1, <2>6, <3>4 DEF Sock!Process
    <3> QED BY <1>1, <2>2, <2>6, <3>1, <3>2, <3>3, <3>4 DEF SockOwnerAt
  <2>8. SockPeerInv'
    BY <1>1, <2>2, <2>6 DEF SockInv, SockPeerInv, Sock!Stream, Sock!Process
  <2>9. SockOwnInv'
    BY <1>1, <2>2 DEF SockOwnInv
  <2>10. SockUnspent' \subseteq SockUnspent /\ \A q \in SockAtHand' : q \in SockAtHand
    BY <1>1, <2>2, <2>6 DEF SockUnspent, SockAtHand, Sock!Process
  <2>11. SockOnceInv'
    <3>1. \A q \in SockAtHand' : q \in SockAtHand /\ peer'[q] = peer[q]
      BY <1>1, <2>2 DEF SockAtHand
    <3> QED BY <2>2, <2>4, <2>5, <2>10, <3>1, SockOnceKept DEF SockInv
  <2> QED BY <2>5, <2>7, <2>8, <2>9, <2>11 DEF SockInv
<1> QED BY <1>2, <1>3

LEMMA SockWrite ==
  ASSUME SockInv, NEW s \in Answerer, Sock!Write(s)
  PROVE  SockInv'
<1> USE DEF Sock!Name
<1>1. /\ s \in Sock!Process /\ sock_pc[s] = "answer" /\ kind = "fifo"
      /\ kind' = kind /\ owner' = owner /\ peer' = peer /\ sock_got' = sock_got
  BY DEF Sock!Write, Sock!Process
<1>2. PICK f \in Sock!Process : f = peer[s]
  BY <1>1 DEF SockInv, SockPeerInv
<1>3. /\ \A q \in Sock!Process : q # s => sock_pc'[q] = sock_pc[q]
      /\ \/ sock_pc'[s] = "killed" /\ sock_queue' = sock_queue
         \/ /\ sock_pc'[s] = "close" /\ sock_queue' = [sock_queue EXCEPT ![f] = Append(@, s)]
            /\ \E c \in Client : peer[c] = f /\ sock_pc[c] \in {"open", "receive"}
  BY <1>1, <1>2 DEF SockInv, Sock!TypeOK, Sock!Write, Sock!Goto, Sock!Put, Sock!Readers
<1>4. sock_queue' \in [Sock!Process -> Seq(Sock!Process)]
  <2>1. CASE sock_queue' = sock_queue
    BY <2>1 DEF SockInv, Sock!TypeOK
  <2>2. CASE sock_queue' = [sock_queue EXCEPT ![f] = Append(@, s)]
    BY <1>1, <2>2, SockPlaced DEF SockInv
  <2> QED BY <1>3, <2>1, <2>2
<1>5. Sock!TypeOK'
  BY <1>1, <1>4 DEF SockInv, Sock!TypeOK, Sock!Write, Sock!Goto
<1>6. SockOwnerInv'
  <2> SUFFICES ASSUME NEW n \in Sock!Name, owner[n] # NoOne
               PROVE  SockOwnerAt(n, owner[n])'
    BY <1>1 DEF SockOwnerInv
  <2>1. PICK p : p = owner[n]
    OBVIOUS
  <2>2. SockOwnerAt(n, p)
    BY <2>1 DEF SockInv, SockOwnerInv
  <2>3. \A c \in Client : sock_pc'[c] = sock_pc[c]
    BY <1>3 DEF Sock!Process
  <2>4. CASE p = s
    BY <1>1, <1>2, <1>3, <2>1, <2>2, <2>3, <2>4 DEF SockOwnerAt
  <2>5. CASE p # s
    BY <1>1, <1>3, <2>1, <2>2, <2>3, <2>5 DEF SockOwnerAt
  <2> QED BY <2>4, <2>5
<1>7. SockPeerInv'
  BY <1>1, <1>3 DEF SockInv, SockPeerInv, Sock!Stream, Sock!Process
<1>8. SockOwnInv'
  BY <1>1 DEF SockOwnInv
<1>9. /\ SockUnspent' \subseteq SockUnspent /\ SockAtHand' = {} /\ SockAtHand = {}
      /\ s \in SockUnspent /\ s \notin SockUnspent'
  BY <1>1, <1>3 DEF SockUnspent, SockAtHand, Sock!Process
<1>10. SockOnceInv'
  <2>1. CASE sock_queue' = sock_queue
    BY <1>1, <1>5, <1>9, <2>1, SockOnceKept DEF SockInv
  <2>2. CASE sock_queue' = [sock_queue EXCEPT ![f] = Append(@, s)]
    <3>1. PICK x \in Sock!Process : x = s
      BY <1>1
    <3>2. sock_queue' = [sock_queue EXCEPT ![f] = Append(@, x)]
      BY <2>2, <3>1
    <3> QED BY <1>1, <1>9, <3>1, <3>2, SockOncePut DEF SockInv
  <2> QED BY <1>3, <2>1, <2>2
<1> QED BY <1>5, <1>6, <1>7, <1>8, <1>10 DEF SockInv

LEMMA SockSendDatagram ==
  ASSUME SockInv, NEW c \in Client, Sock!SendDatagram(c)
  PROVE  SockInv'
<1> USE DEF Sock!Name
<1>1. /\ c \in Sock!Process /\ c \notin Answerer /\ sock_pc[c] = "call"
      /\ kind \in {"udp", "udp_local"}
      /\ kind' = kind /\ owner' = owner /\ peer' = peer /\ sock_got' = sock_got
  BY DEF Sock!SendDatagram, Sock!Process
<1>2. /\ \A q \in Sock!Process : q # c => sock_pc'[q] = sock_pc[q]
      /\ sock_pc'[c] \in {"receive", "unlink_own"}
      /\ kind = "udp" => sock_pc'[c] = "receive"
  BY <1>1 DEF SockInv, Sock!TypeOK, Sock!SendDatagram, Sock!Goto
<1>3. \/ sock_queue' = sock_queue
      \/ \E p \in Answerer : sock_queue' = [sock_queue EXCEPT ![p] = Append(@, c)]
  <2>1. PICK p : p = owner["server"]
    OBVIOUS
  <2>2. p # NoOne => p \in Answerer
    BY <2>1 DEF SockInv, SockOwnerInv, SockOwnerAt, Sock!Own
  <2> QED BY <2>1, <2>2 DEF Sock!SendDatagram, Sock!At, Sock!Put
<1>4. /\ sock_queue' \in [Sock!Process -> Seq(Sock!Process)]
      /\ \A d \in Client : sock_queue'[d] = sock_queue[d]
  <2>1. CASE sock_queue' = sock_queue
    BY <2>1 DEF SockInv, Sock!TypeOK
  <2>2. ASSUME NEW p \in Answerer, sock_queue' = [sock_queue EXCEPT ![p] = Append(@, c)]
        PROVE  /\ sock_queue' \in [Sock!Process -> Seq(Sock!Process)]
               /\ \A d \in Client : sock_queue'[d] = sock_queue[d]
    <3>1. p \in Sock!Process /\ \A d \in Client : d # p /\ d \in Sock!Process
      BY DEF Sock!Process
    <3>2. sock_queue' \in [Sock!Process -> Seq(Sock!Process)]
      BY <1>1, <2>2, <3>1, SockPlaced DEF SockInv
    <3>3. \A d \in Client : sock_queue'[d] = sock_queue[d]
      BY <2>2, <3>1 DEF SockInv, Sock!TypeOK
    <3> QED BY <3>2, <3>3
  <2> QED BY <1>3, <2>1, <2>2
<1>5. Sock!TypeOK'
  BY <1>1, <1>4 DEF SockInv, Sock!TypeOK, Sock!SendDatagram, Sock!Goto
<1>6. SockOwnerInv'
  BY <1>1, <1>2 DEF SockInv, SockOwnerInv, SockOwnerAt
<1>7. SockPeerInv'
  BY <1>1, <1>2 DEF SockInv, SockPeerInv, Sock!Stream, Sock!Process
<1>8. SockOwnInv'
  BY <1>1, <1>4 DEF SockInv, SockOwnInv
<1>9. /\ SockUnspent' \subseteq SockUnspent /\ SockAtHand' = SockAtHand
      /\ kind = "udp_local" => c \in SockUnspent
      /\ c \notin SockUnspent'
  BY <1>1, <1>2 DEF SockUnspent, SockAtHand, Sock!Process
<1>10. SockOnceInv'
  <2>1. CASE sock_queue' = sock_queue
    BY <1>1, <1>5, <1>9, <2>1, SockOnceKept DEF SockInv
  <2>2. CASE kind = "udp"
    BY <1>1, <2>2 DEF SockOnceInv
  <2>3. ASSUME kind = "udp_local",
               NEW p \in Answerer, sock_queue' = [sock_queue EXCEPT ![p] = Append(@, c)]
        PROVE  SockOnceInv'
    <3>1. p \in Sock!Process
      BY DEF Sock!Process
    <3>2. PICK x \in Sock!Process : x = c
      BY <1>1
    <3>3. sock_queue' = [sock_queue EXCEPT ![p] = Append(@, x)]
      BY <2>3, <3>2
    <3>4. x \in SockUnspent /\ x \notin SockUnspent'
      BY <1>9, <2>3, <3>2
    <3>5. \A s \in SockAtHand' : peer[s] # x
      BY <1>9, <2>3, <3>4 DEF SockInv, SockOnceInv
    <3> QED BY <1>1, <1>9, <3>1, <3>3, <3>4, <3>5, SockOncePut DEF SockInv
  <2> QED BY <1>1, <1>3, <2>1, <2>2, <2>3
<1> QED BY <1>5, <1>6, <1>7, <1>8, <1>10 DEF SockInv

LEMMA SockReceiveAnswer ==
  ASSUME SockInv, NEW c \in Client, Sock!ReceiveAnswer(c)
  PROVE  SockInv'
<1> USE DEF Sock!Name
<1>1. /\ c \in Sock!Process /\ c \notin Answerer /\ sock_pc[c] = "receive"
      /\ kind' = kind /\ owner' = owner /\ peer' = peer
  BY DEF Sock!ReceiveAnswer, Sock!HasAnswer, Sock!Process
<1>2. PICK b \in Sock!Process : b = Sock!Box(c)
  BY <1>1 DEF SockInv, SockPeerInv, Sock!Box
<1>3. /\ sock_queue[b] # <<>> /\ sock_queue' = [sock_queue EXCEPT ![b] = Tail(@)]
      /\ sock_got' = [sock_got EXCEPT ![c] = Head(sock_queue[b])]
  BY <1>2 DEF Sock!ReceiveAnswer, Sock!HasAnswer, Sock!Take
<1>4. /\ sock_queue' \in [Sock!Process -> Seq(Sock!Process)]
      /\ Head(sock_queue[b]) \in Sock!Process /\ 1 \in 1..Len(sock_queue[b])
      /\ Head(sock_queue[b]) = sock_queue[b][1]
      /\ \A q \in Sock!Process : \A j \in 1..Len(sock_queue'[q]) :
           \/ q # b /\ j \in 1..Len(sock_queue[q]) /\ sock_queue'[q][j] = sock_queue[q][j]
           \/ q = b /\ j + 1 \in 1..Len(sock_queue[q]) /\ sock_queue'[q][j] = sock_queue[q][j + 1]
  BY <1>3, SockTaken DEF SockInv
<1>5. /\ \A q \in Sock!Process : q # c => sock_pc'[q] = sock_pc[q]
      /\ sock_pc'[c] = IF kind \in {"udp_local", "fifo"} THEN "unlink_own" ELSE "done"
  BY <1>1 DEF SockInv, Sock!TypeOK, Sock!ReceiveAnswer, Sock!HasAnswer, Sock!Goto, Sock!AfterAnswer
<1>6. Sock!TypeOK'
  <2>1. sock_pc' = [sock_pc EXCEPT ![c] = IF kind \in {"udp_local", "fifo"} THEN "unlink_own" ELSE "done"]
    BY DEF Sock!ReceiveAnswer, Sock!HasAnswer, Sock!Goto, Sock!AfterAnswer
  <2>2. sock_got' \in [Client -> Sock!Process \cup {NoOne}]
    BY <1>3, <1>4 DEF SockInv, Sock!TypeOK
  <2> QED BY <1>1, <1>4, <2>1, <2>2 DEF SockInv, Sock!TypeOK
<1>7. SockOwnerInv'
  BY <1>1, <1>5 DEF SockInv, SockOwnerInv, SockOwnerAt, Sock!Process, Sock!Own
<1>8. SockPeerInv'
  BY <1>1, <1>5 DEF SockInv, SockPeerInv, Sock!Stream, Sock!Process
<1>9. SockOwnInv'
  <2> SUFFICES ASSUME kind \in {"tcp", "tcp_local", "udp"}, NEW d \in Client
               PROVE  /\ \A k \in 1..Len(sock_queue'[d]) : sock_queue'[d][k] = d
                      /\ sock_got'[d] # NoOne => sock_got'[d] = d
    BY <1>1 DEF SockOwnInv
  <2>1. b = c /\ d \in Sock!Process
    BY <1>2 DEF Sock!Box, Sock!Process
  <2>2. \A k \in 1..Len(sock_queue'[d]) : sock_queue'[d][k] = d
    <3>1. \A k \in 1..Len(sock_queue[d]) : sock_queue[d][k] = d
      BY DEF SockInv, SockOwnInv
    <3>2. ASSUME NEW k \in 1..Len(sock_queue'[d])
          PROVE  \E j \in 1..Len(sock_queue[d]) : sock_queue'[d][k] = sock_queue[d][j]
      BY <1>4, <2>1
    <3> QED BY <3>1, <3>2
  <2>3. sock_got'[d] # NoOne => sock_got'[d] = d
    BY <1>3, <1>4, <2>1 DEF SockInv, SockOwnInv, Sock!TypeOK
  <2> QED BY <2>2, <2>3
<1>10. SockUnspent' \subseteq SockUnspent /\ SockAtHand' \subseteq SockAtHand
  BY <1>1, <1>5 DEF SockUnspent, SockAtHand, Sock!Process
<1>11. SockOnceInv'
  BY <1>1, <1>3, <1>10, SockOnceTake DEF SockInv
<1> QED BY <1>6, <1>7, <1>8, <1>9, <1>11 DEF SockInv

LEMMA SockStep == SockInv /\ [Sock!Next]_sockVars => SockInv'
<1> SUFFICES ASSUME SockInv, [Sock!Next]_sockVars PROVE SockInv'
  OBVIOUS
<1>1. ASSUME NEW s \in Answerer, Sock!StartServer(s) \/ Sock!ServerStep(s) PROVE SockInv'
  <2>1. s \in Sock!Process
    BY DEF Sock!Process
  <2> QED BY <1>1, <2>1, SockStartServer, SockUnlinkOld, SockBind, SockBindFails, SockListen, SockTakeFirst,
             SockReadRequest, SockAnswerStream, SockAnswerUdp, SockAnswerUdpLocal,
             SockOpenWrite, SockWrite, SockClose, SockUnlinkOwn DEF Sock!ServerStep
<1>2. ASSUME NEW c \in Client, Sock!StartClient(c) \/ Sock!ClientStep(c) PROVE SockInv'
  <2>1. c \in Sock!Process
    BY DEF Sock!Process
  <2> QED BY <1>2, <2>1, SockStartClient, SockUnlinkOld, SockBind, SockBindFails, SockConnect,
             SockSendRequest, SockSendDatagram, SockOpenRead, SockReceiveAnswer,
             SockReceiveEnd, SockUnlinkOwn DEF Sock!ClientStep
<1>3. ASSUME NEW p \in Sock!Process, Sock!Kill(p) PROVE SockInv'
  BY <1>3, SockKill
<1>4. CASE UNCHANGED sockVars
  <2> USE <1>4 DEF sockVars
  <2>1. Sock!TypeOK'
    BY DEF SockInv, Sock!TypeOK
  <2>2. SockOwnerInv' /\ SockPeerInv' /\ SockOwnInv'
    BY DEF SockInv, SockOwnerInv, SockOwnerAt, SockPeerInv, SockOwnInv, Sock!Stream
  <2>3. SockOnceInv'
    <3>1. SockUnspent' = SockUnspent /\ SockAtHand' = SockAtHand
      BY DEF SockUnspent, SockAtHand
    <3> QED BY <2>1, <3>1, SockOnceKept DEF SockInv
  <2> QED BY <2>1, <2>2, <2>3 DEF SockInv
<1> QED BY <1>1, <1>2, <1>3, <1>4 DEF Sock!Next

LEMMA SockNothing == SockInv => NothingLeftBehind
<1> SUFFICES ASSUME SockInv, \A p \in Sock!Process : sock_pc[p] \in {"off", "done"},
                    NEW n \in Sock!Name
             PROVE  owner[n] = NoOne
  BY DEF NothingLeftBehind, Sock!NothingLeftBehind
<1>1. SUFFICES ASSUME owner[n] # NoOne PROVE FALSE
  OBVIOUS
<1>2. PICK p \in Sock!Process : p = owner[n] /\ SockOwnerAt(n, p)
  BY <1>1 DEF SockInv, SockOwnerInv, SockOwnerAt
<1>3. sock_pc[p] = "done" /\ kind = "fifo"
  BY <1>2 DEF SockInv, Sock!TypeOK, SockOwnerAt
<1>4. \E c \in Client : sock_pc[c] \in {"open", "receive", "unlink_own", "killed"}
  BY <1>2, <1>3 DEF SockOwnerAt
<1> QED BY <1>4 DEF Sock!Process

LEMMA SockOwnAnswer == SockInv => OwnAnswer
BY DEF SockInv, Sock!TypeOK, SockOwnInv, SockOnceInv, OwnAnswer, Sock!OwnAnswer

-----------------------------------------------------------------------------
(* Sockets: who waits for whom, and where every run comes to.              *)

\* A program is at places of its own side only.
SockPlaceInv ==
  /\ \A s \in Answerer : sock_pc[s] \notin {"call", "send", "open", "receive"}
  /\ \A c \in Client :
       sock_pc[c] \notin {"listen", "open_write", "wait", "read", "answer", "close"}

\* Connections: a client that waits for one server is in its queue, or that
\* server has taken it; it hears nothing before the server is through.
SockBefore == {"off", "unlink", "bind", "listen"}
SockLinkInv == Sock!Stream =>
  /\ \A c \in Client :
       /\ peer[c] # NoOne => peer[c] \in Answerer /\ sock_pc[peer[c]] \notin SockBefore
       /\ sock_pc[c] \in {"off", "call"} => peer[c] = NoOne
       /\ sock_pc[c] \in {"send", "receive"} => peer[c] # NoOne
       /\ sock_queue[c] # <<>> =>
            peer[c] # NoOne /\ sock_pc[peer[c]] \notin {"wait", "read", "answer"}
       /\ sock_pc[c] \in {"send", "receive"} /\ sock_pc[peer[c]] = "wait" =>
            \E k \in 1..Len(sock_queue[peer[c]]) : sock_queue[peer[c]][k] = c
  /\ \A s \in Answerer :
       /\ \A k \in 1..Len(sock_queue[s]) :
            /\ sock_queue[s][k] \in Client /\ peer[sock_queue[s][k]] = s
            /\ sock_pc[s] = "wait" => sock_pc[sock_queue[s][k]] \in {"send", "receive", "killed"}
       /\ sock_pc[s] \in {"read", "answer"} =>
            /\ peer[s] \in Client /\ peer[peer[s]] = s
            /\ sock_pc[peer[s]] \in {"send", "receive", "killed"}

\* A server has nobody at hand before it takes one.
SockEarlyInv == kind # "fifo" =>
  \A s \in Answerer : sock_pc[s] \in SockBefore \cup {"wait"} => peer[s] = NoOne

\* FIFO: who waits for the other side has nobody there.
SockMeetInv == kind = "fifo" =>
  \A s \in Answerer, c \in Client :
    peer[s] = peer[c] =>
      /\ sock_pc[s] = "wait" => sock_pc[c] \notin {"open", "receive"}
      /\ sock_pc[c] = "open" => sock_pc[s] \notin {"wait", "answer", "close"}

SockPartnerInv == SockPlaceInv /\ SockLinkInv /\ SockEarlyInv /\ SockMeetInv

LEMMA SockPartnerInit == Sock!Init => SockPartnerInv
<1> SUFFICES ASSUME Sock!Init PROVE SockPartnerInv
  OBVIOUS
<1>1. SockPlaceInv /\ SockEarlyInv /\ SockMeetInv
  BY DEF Sock!Init, Sock!Process, SockPlaceInv, SockEarlyInv, SockMeetInv
<1>2. SockLinkInv
  BY DEF Sock!Init, Sock!Process, SockLinkInv
<1> QED BY <1>1, <1>2 DEF SockPartnerInv

LEMMA PartnerStartServer ==
  ASSUME SockInv, SockPartnerInv, NEW s \in Answerer, Sock!StartServer(s)
  PROVE  SockPartnerInv'
<1> USE DEF Sock!StartServer, Sock!Goto, Sock!Process, Sock!Stream
<1>1. SockPlaceInv'
  BY DEF SockInv, Sock!TypeOK, SockPartnerInv, SockPlaceInv
<1>2. SockLinkInv'
  BY DEF SockInv, Sock!TypeOK, SockPeerInv, SockPartnerInv, SockPlaceInv, SockLinkInv, SockBefore
<1>3. SockEarlyInv'
  BY DEF SockInv, Sock!TypeOK, SockPartnerInv, SockPlaceInv, SockEarlyInv, SockBefore
<1>4. SockMeetInv'
  BY DEF SockInv, Sock!TypeOK, SockPeerInv, SockPartnerInv, SockPlaceInv, SockMeetInv
<1> QED BY <1>1, <1>2, <1>3, <1>4 DEF SockPartnerInv

LEMMA PartnerStartClient ==
  ASSUME SockInv, SockPartnerInv, NEW c \in Client, Sock!StartClient(c)
  PROVE  SockPartnerInv'
<1> USE DEF Sock!StartClient, Sock!Goto, Sock!Process, Sock!Stream
<1>1. SockPlaceInv'
  BY DEF SockInv, Sock!TypeOK, SockPartnerInv, SockPlaceInv
<1>2. SockLinkInv'
  BY DEF SockInv, Sock!TypeOK, SockPeerInv, SockPartnerInv, SockPlaceInv, SockLinkInv, SockBefore
<1>3. SockEarlyInv'
  BY DEF SockInv, Sock!TypeOK, SockPartnerInv, SockPlaceInv, SockEarlyInv, SockBefore
<1>4. SockMeetInv'
  BY DEF SockInv, Sock!TypeOK, SockPeerInv, SockPartnerInv, SockPlaceInv, SockMeetInv
<1> QED BY <1>1, <1>2, <1>3, <1>4 DEF SockPartnerInv

LEMMA PartnerUnlinkOld ==
  ASSUME SockInv, SockPartnerInv, NEW p \in Sock!Process, Sock!UnlinkOld(p)
  PROVE  SockPartnerInv'
<1> USE DEF Sock!UnlinkOld, Sock!Goto, Sock!Process, Sock!Stream
<1>1. SockPlaceInv'
  BY DEF SockInv, Sock!TypeOK, SockPartnerInv, SockPlaceInv
<1>2. SockLinkInv'
  BY DEF SockInv, Sock!TypeOK, SockPeerInv, SockPartnerInv, SockPlaceInv, SockLinkInv, SockBefore
<1>3. SockEarlyInv'
  BY DEF SockInv, Sock!TypeOK, SockPartnerInv, SockPlaceInv, SockEarlyInv, SockBefore
<1>4. SockMeetInv'
  BY DEF SockInv, Sock!TypeOK, SockPeerInv, SockPartnerInv, SockPlaceInv, SockMeetInv
<1> QED BY <1>1, <1>2, <1>3, <1>4 DEF SockPartnerInv

LEMMA PartnerBind ==
  ASSUME SockInv, SockPartnerInv, NEW p \in Sock!Process, Sock!Bind(p)
  PROVE  SockPartnerInv'
<1> USE DEF Sock!Bind, Sock!Goto, Sock!Process, Sock!Stream, Sock!Own
<1>1. SockPlaceInv'
  BY DEF SockInv, Sock!TypeOK, SockPartnerInv, SockPlaceInv
<1>2. SockLinkInv'
  BY DEF SockInv, Sock!TypeOK, SockPeerInv, SockPartnerInv, SockPlaceInv, SockLinkInv, SockBefore
<1>3. SockEarlyInv'
  BY DEF SockInv, Sock!TypeOK, SockPartnerInv, SockPlaceInv, SockEarlyInv, SockBefore
<1>4. SockMeetInv'
  BY DEF SockInv, Sock!TypeOK, SockPeerInv, SockPartnerInv, SockPlaceInv, SockMeetInv
<1> QED BY <1>1, <1>2, <1>3, <1>4 DEF SockPartnerInv

LEMMA PartnerBindFails ==
  ASSUME SockInv, SockPartnerInv, NEW p \in Sock!Process, Sock!BindFails(p)
  PROVE  SockPartnerInv'
<1> USE DEF Sock!BindFails, Sock!Goto, Sock!Process, Sock!Stream, Sock!Own
<1>1. SockPlaceInv'
  BY DEF SockInv, Sock!TypeOK, SockPartnerInv, SockPlaceInv
<1>2. SockLinkInv'
  BY DEF SockInv, Sock!TypeOK, SockPeerInv, SockPartnerInv, SockPlaceInv, SockLinkInv, SockBefore
<1>3. SockEarlyInv'
  BY DEF SockInv, Sock!TypeOK, SockPartnerInv, SockPlaceInv, SockEarlyInv, SockBefore
<1>4. SockMeetInv'
  BY DEF SockInv, Sock!TypeOK, SockPeerInv, SockPartnerInv, SockPlaceInv, SockMeetInv
<1> QED BY <1>1, <1>2, <1>3, <1>4 DEF SockPartnerInv

LEMMA PartnerUnlinkOwn ==
  ASSUME SockInv, SockPartnerInv, NEW p \in Sock!Process, Sock!UnlinkOwn(p)
  PROVE  SockPartnerInv'
<1> USE DEF Sock!UnlinkOwn, Sock!Goto, Sock!Process, Sock!Stream
<1>1. SockPlaceInv'
  BY DEF SockInv, Sock!TypeOK, SockPartnerInv, SockPlaceInv
<1>2. SockLinkInv'
  BY DEF SockInv, Sock!TypeOK, SockPeerInv, SockPartnerInv, SockPlaceInv, SockLinkInv, SockBefore
<1>3. SockEarlyInv'
  BY DEF SockInv, Sock!TypeOK, SockPartnerInv, SockPlaceInv, SockEarlyInv, SockBefore
<1>4. SockMeetInv'
  BY DEF SockInv, Sock!TypeOK, SockPeerInv, SockPartnerInv, SockPlaceInv, SockMeetInv
<1> QED BY <1>1, <1>2, <1>3, <1>4 DEF SockPartnerInv

LEMMA PartnerListen ==
  ASSUME SockInv, SockPartnerInv, NEW s \in Answerer, Sock!Listen(s)
  PROVE  SockPartnerInv'
<1> USE DEF Sock!Listen, Sock!Goto, Sock!Process, Sock!Stream
<1>1. SockPlaceInv'
  BY DEF SockInv, Sock!TypeOK, SockPartnerInv, SockPlaceInv
<1>2. SockLinkInv'
  BY DEF SockInv, Sock!TypeOK, SockPeerInv, SockPartnerInv, SockPlaceInv, SockLinkInv, SockBefore
<1>3. SockEarlyInv'
  BY DEF SockInv, Sock!TypeOK, SockPartnerInv, SockPlaceInv, SockEarlyInv, SockBefore
<1>4. SockMeetInv'
  BY DEF SockInv, Sock!TypeOK, SockPeerInv, SockPartnerInv, SockPlaceInv, SockMeetInv
<1> QED BY <1>1, <1>2, <1>3, <1>4 DEF SockPartnerInv

LEMMA PartnerReadRequest ==
  ASSUME SockInv, SockPartnerInv, NEW s \in Answerer, Sock!ReadRequest(s)
  PROVE  SockPartnerInv'
<1> USE DEF Sock!ReadRequest, Sock!Goto, Sock!Process, Sock!Stream, Sock!Asked, Sock!AtEndOfFile
<1>1. SockPlaceInv'
  BY DEF SockInv, Sock!TypeOK, SockPartnerInv, SockPlaceInv
<1>2. SockLinkInv'
  <2> SUFFICES ASSUME Sock!Stream PROVE SockLinkInv'
    BY DEF SockLinkInv
  <2>1. /\ peer' = peer /\ sock_queue' = sock_queue /\ sock_pc[s] = "read"
        /\ \E place \in {"answer", "close"} : sock_pc' = [sock_pc EXCEPT ![s] = place]
    OBVIOUS
  <2>2. /\ \A q \in Sock!Process : q # s => sock_pc'[q] = sock_pc[q]
        /\ sock_pc'[s] \in {"answer", "close"} /\ s \in Sock!Process /\ s \notin Client
    BY <2>1 DEF SockInv, Sock!TypeOK
  <2> QED BY <2>1, <2>2 DEF SockInv, Sock!TypeOK, SockPartnerInv, SockLinkInv, SockBefore
<1>3. SockEarlyInv'
  BY DEF SockInv, Sock!TypeOK, SockPartnerInv, SockPlaceInv, SockEarlyInv, SockBefore
<1>4. SockMeetInv'
  BY DEF SockInv, Sock!TypeOK, SockPeerInv, SockPartnerInv, SockPlaceInv, SockMeetInv
<1> QED BY <1>1, <1>2, <1>3, <1>4 DEF SockPartnerInv

LEMMA PartnerClose ==
  ASSUME SockInv, SockPartnerInv, NEW s \in Answerer, Sock!Close(s)
  PROVE  SockPartnerInv'
<1> USE DEF Sock!Close, Sock!Goto, Sock!Process, Sock!Stream
<1>1. SockPlaceInv'
  BY DEF SockInv, Sock!TypeOK, SockPartnerInv, SockPlaceInv
<1>2. SockLinkInv'
  BY DEF SockInv, Sock!TypeOK, SockPeerInv, SockPartnerInv, SockPlaceInv, SockLinkInv, SockBefore
<1>3. SockEarlyInv'
  BY DEF SockInv, Sock!TypeOK, SockPartnerInv, SockPlaceInv, SockEarlyInv, SockBefore
<1>4. SockMeetInv'
  BY DEF SockInv, Sock!TypeOK, SockPeerInv, SockPartnerInv, SockPlaceInv, SockMeetInv
<1> QED BY <1>1, <1>2, <1>3, <1>4 DEF SockPartnerInv

LEMMA PartnerSendRequest ==
  ASSUME SockInv, SockPartnerInv, NEW c \in Client, Sock!SendRequest(c)
  PROVE  SockPartnerInv'
<1> USE DEF Sock!SendRequest, Sock!Goto, Sock!Process, Sock!Stream, Sock!AtSend, Sock!Connected, Sock!At
<1>1. SockPlaceInv'
  BY DEF SockInv, Sock!TypeOK, SockPartnerInv, SockPlaceInv
<1>2. SockLinkInv'
  BY DEF SockInv, Sock!TypeOK, SockPeerInv, SockPartnerInv, SockPlaceInv, SockLinkInv, SockBefore
<1>3. SockEarlyInv'
  BY DEF SockInv, Sock!TypeOK, SockPartnerInv, SockPlaceInv, SockEarlyInv, SockBefore
<1>4. SockMeetInv'
  BY DEF SockInv, Sock!TypeOK, SockPeerInv, SockPartnerInv, SockPlaceInv, SockMeetInv
<1> QED BY <1>1, <1>2, <1>3, <1>4 DEF SockPartnerInv

LEMMA PartnerReceiveEnd ==
  ASSUME SockInv, SockPartnerInv, NEW c \in Client, Sock!ReceiveEnd(c)
  PROVE  SockPartnerInv'
<1> USE DEF Sock!ReceiveEnd, Sock!Goto, Sock!Process, Sock!Stream, Sock!HasEnd, Sock!Connected,
            Sock!At, Sock!AfterAnswer, Sock!Box
<1>1. SockPlaceInv'
  BY DEF SockInv, Sock!TypeOK, SockPartnerInv, SockPlaceInv
<1>2. SockLinkInv'
  BY DEF SockInv, Sock!TypeOK, SockPeerInv, SockPartnerInv, SockPlaceInv, SockLinkInv, SockBefore
<1>3. SockEarlyInv'
  BY DEF SockInv, Sock!TypeOK, SockPartnerInv, SockPlaceInv, SockEarlyInv, SockBefore
<1>4. SockMeetInv'
  BY DEF SockInv, Sock!TypeOK, SockPeerInv, SockPartnerInv, SockPlaceInv, SockMeetInv
<1> QED BY <1>1, <1>2, <1>3, <1>4 DEF SockPartnerInv

LEMMA PartnerKill ==
  ASSUME SockInv, SockPartnerInv, NEW p \in Sock!Process, Sock!Kill(p)
  PROVE  SockPartnerInv'
<1> USE DEF Sock!Kill, Sock!Goto, Sock!Process, Sock!Stream, Sock!Started, Sock!Over
<1>1. SockPlaceInv'
  BY DEF SockInv, Sock!TypeOK, SockPartnerInv, SockPlaceInv
<1>2. SockLinkInv'
  BY DEF SockInv, Sock!TypeOK, SockPeerInv, SockPartnerInv, SockPlaceInv, SockLinkInv, SockBefore
<1>3. SockEarlyInv'
  BY DEF SockInv, Sock!TypeOK, SockPartnerInv, SockPlaceInv, SockEarlyInv, SockBefore
<1>4. SockMeetInv'
  BY DEF SockInv, Sock!TypeOK, SockPeerInv, SockPartnerInv, SockPlaceInv, SockMeetInv
<1> QED BY <1>1, <1>2, <1>3, <1>4 DEF SockPartnerInv

LEMMA PartnerTakeFirst ==
  ASSUME SockInv, SockPartnerInv, NEW s \in Answerer, Sock!TakeFirst(s)
  PROVE  SockPartnerInv'
<1> USE DEF Sock!TakeFirst, Sock!HasFirst, Sock!Goto, Sock!Process, Sock!Stream
<1>1. /\ s \in Sock!Process /\ s \notin Client /\ kind' = kind /\ kind # "fifo"
      /\ peer' = [peer EXCEPT ![s] = Head(sock_queue[s])]
      /\ sock_queue' = [sock_queue EXCEPT ![s] = Tail(@)] /\ sock_queue[s] # <<>>
  BY DEF Sock!Take
<1>2. /\ Head(sock_queue[s]) = sock_queue[s][1] /\ 1 \in 1..Len(sock_queue[s])
      /\ \A q \in Sock!Process : \A j \in 1..Len(sock_queue'[q]) :
           \E k \in 1..Len(sock_queue[q]) : sock_queue'[q][j] = sock_queue[q][k]
  BY <1>1, SockTaken DEF SockInv
<1>3. SockPlaceInv'
  BY DEF SockInv, Sock!TypeOK, SockPartnerInv, SockPlaceInv
<1>4. SockLinkInv'
  <2> SUFFICES ASSUME Sock!Stream PROVE SockLinkInv'
    BY DEF SockLinkInv
  <2>1. /\ \A q \in Sock!Process : q # s => sock_pc'[q] = sock_pc[q] /\ peer'[q] = peer[q]
        /\ \A q \in Sock!Process : q # s => sock_queue'[q] = sock_queue[q]
        /\ sock_pc[s] = "wait" /\ sock_pc'[s] = "read" /\ peer'[s] = sock_queue[s][1]
    BY <1>1, <1>2 DEF SockInv, Sock!TypeOK
  <2>2. \A c \in Client :
          /\ peer'[c] # NoOne => peer'[c] \in Answerer /\ sock_pc'[peer'[c]] \notin SockBefore
          /\ sock_pc'[c] \in {"off", "call"} => peer'[c] = NoOne
          /\ sock_pc'[c] \in {"send", "receive"} => peer'[c] # NoOne
          /\ sock_queue'[c] # <<>> =>
               peer'[c] # NoOne /\ sock_pc'[peer'[c]] \notin {"wait", "read", "answer"}
          /\ sock_pc'[c] \in {"send", "receive"} /\ sock_pc'[peer'[c]] = "wait" =>
               \E k \in 1..Len(sock_queue'[peer'[c]]) : sock_queue'[peer'[c]][k] = c
    BY <1>1, <2>1 DEF SockPartnerInv, SockLinkInv, SockBefore
  <2>3. ASSUME NEW q \in Answerer, NEW j \in 1..Len(sock_queue'[q])
        PROVE  /\ sock_queue'[q][j] \in Client /\ peer'[sock_queue'[q][j]] = q
               /\ sock_pc'[q] = "wait" => sock_pc'[sock_queue'[q][j]] \in {"send", "receive", "killed"}
    <3>1. PICK k \in 1..Len(sock_queue[q]) : sock_queue'[q][j] = sock_queue[q][k]
      BY <1>2
    <3> QED BY <1>1, <2>1, <3>1 DEF SockPartnerInv, SockLinkInv
  <2>4. ASSUME NEW q \in Answerer, sock_pc'[q] \in {"read", "answer"}
        PROVE  /\ peer'[q] \in Client /\ peer'[peer'[q]] = q
               /\ sock_pc'[peer'[q]] \in {"send", "receive", "killed"}
    BY <1>1, <1>2, <2>1, <2>4 DEF SockPartnerInv, SockLinkInv
  <2> QED BY <2>2, <2>3, <2>4 DEF SockLinkInv
<1>5. SockEarlyInv' /\ SockMeetInv'
  BY <1>1 DEF SockInv, Sock!TypeOK, SockPartnerInv, SockPlaceInv, SockEarlyInv, SockMeetInv, SockBefore
<1> QED BY <1>3, <1>4, <1>5 DEF SockPartnerInv

LEMMA PartnerAnswerStream ==
  ASSUME SockInv, SockPartnerInv, NEW s \in Answerer, Sock!AnswerStream(s)
  PROVE  SockPartnerInv'
<1> USE DEF Sock!AnswerStream, Sock!Goto, Sock!Process, Sock!Stream
<1>1. SockPlaceInv'
  BY DEF SockInv, Sock!TypeOK, SockPartnerInv, SockPlaceInv
<1>2. SockLinkInv'
  <2>1. PICK p \in Client : p = peer[s] /\ peer[p] = s
    BY DEF SockPartnerInv, SockLinkInv
  <2>2. /\ \A q \in Sock!Process : q # s => sock_pc'[q] = sock_pc[q]
        /\ sock_pc[s] = "answer" /\ sock_pc'[s] \in {"close", "killed"} /\ peer' = peer /\ kind' = kind
    BY DEF SockInv, Sock!TypeOK
  <2>3. \A q \in Sock!Process : q # p => sock_queue'[q] = sock_queue[q]
    BY <2>1 DEF SockInv, Sock!TypeOK, Sock!Put
  <2> QED BY <2>1, <2>2, <2>3 DEF SockPartnerInv, SockLinkInv, SockBefore
<1>3. SockEarlyInv' /\ SockMeetInv'
  BY DEF SockInv, Sock!TypeOK, SockPartnerInv, SockPlaceInv, SockEarlyInv, SockMeetInv, SockBefore
<1> QED BY <1>1, <1>2, <1>3 DEF SockPartnerInv

\* Connections and FIFOs have no part in a datagram.
LEMMA PartnerDatagram ==
  ASSUME SockInv, SockPartnerInv, NEW p \in Sock!Process,
         Sock!AnswerUdp(p) \/ Sock!AnswerUdpLocal(p) \/ Sock!SendDatagram(p)
  PROVE  SockPartnerInv'
<1>1. /\ kind \in {"udp", "udp_local"} /\ kind' = kind /\ peer' = peer
      /\ \/ sock_pc[p] = "answer" /\ sock_pc' = [sock_pc EXCEPT ![p] = "close"]
         \/ sock_pc[p] = "call" /\ \E place \in {"receive", "unlink_own"} :
                                     sock_pc' = [sock_pc EXCEPT ![p] = place]
  BY DEF Sock!AnswerUdp, Sock!AnswerUdpLocal, Sock!SendDatagram, Sock!Goto
<1>2. SockPlaceInv' /\ SockEarlyInv'
  BY <1>1 DEF SockInv, Sock!TypeOK, Sock!Process, SockPartnerInv, SockPlaceInv, SockEarlyInv, SockBefore
<1>3. SockLinkInv' /\ SockMeetInv'
  BY <1>1 DEF SockLinkInv, SockMeetInv, Sock!Stream
<1> QED BY <1>2, <1>3 DEF SockPartnerInv

LEMMA PartnerWrite ==
  ASSUME SockInv, SockPartnerInv, NEW s \in Answerer, Sock!Write(s)
  PROVE  SockPartnerInv'
<1>1. /\ kind = "fifo" /\ kind' = kind /\ peer' = peer /\ sock_pc[s] = "answer"
      /\ \E place \in {"close", "killed"} : sock_pc' = [sock_pc EXCEPT ![s] = place]
  BY DEF Sock!Write, Sock!Goto
<1>2. SockPlaceInv' /\ SockMeetInv'
  BY <1>1 DEF SockInv, Sock!TypeOK, Sock!Process, SockPartnerInv, SockPlaceInv, SockMeetInv
<1>3. SockLinkInv' /\ SockEarlyInv'
  BY <1>1 DEF SockLinkInv, SockEarlyInv, Sock!Stream
<1> QED BY <1>2, <1>3 DEF SockPartnerInv

\* The two sides of a FIFO meet: f is who made it, p the one that opens it.
LEMMA PartnerMeet ==
  ASSUME SockInv, SockPartnerInv, kind = "fifo", kind' = kind, NEW p \in Sock!Process, NEW f,
         peer' = [peer EXCEPT ![p] = f],
         \/ /\ p \in Answerer
            /\ Sock!MeetAt(f, p, IF Sock!Readers(f) = {} THEN "wait" ELSE "answer", "open", "receive")
         \/ /\ p \in Client
            /\ Sock!MeetAt(f, p, IF Sock!Writers(f) = {} THEN "open" ELSE "receive", "wait", "answer")
  PROVE  SockPartnerInv'
<1> USE DEF Sock!MeetAt, Sock!Process
<1>1. SockPlaceInv'
  BY DEF SockInv, Sock!TypeOK, SockPartnerInv, SockPlaceInv
<1>2. SockMeetInv'
  <2>1. ASSUME NEW s \in Answerer, NEW c \in Client, peer'[s] = peer'[c]
        PROVE  /\ sock_pc'[s] = "wait" => sock_pc'[c] \notin {"open", "receive"}
               /\ sock_pc'[c] = "open" => sock_pc'[s] \notin {"wait", "answer", "close"}
    <3>1. CASE p = s
      BY <2>1, <3>1 DEF SockInv, Sock!TypeOK, SockPartnerInv, SockPlaceInv, SockMeetInv, Sock!Readers
    <3>2. CASE p = c
      BY <2>1, <3>2 DEF SockInv, Sock!TypeOK, SockPartnerInv, SockPlaceInv, SockMeetInv, Sock!Writers
    <3>3. CASE p # s /\ p # c
      BY <2>1, <3>3 DEF SockInv, Sock!TypeOK, SockPartnerInv, SockPlaceInv, SockMeetInv
    <3> QED BY <3>1, <3>2, <3>3
  <2> QED BY <2>1 DEF SockMeetInv
<1>3. SockLinkInv' /\ SockEarlyInv'
  BY DEF SockLinkInv, SockEarlyInv, Sock!Stream
<1> QED BY <1>1, <1>2, <1>3 DEF SockPartnerInv

\* Nobody has the FIFO's path.
LEMMA PartnerNoFifo ==
  ASSUME SockInv, SockPartnerInv, kind = "fifo", kind' = kind, peer' = peer,
         NEW p \in Sock!Process, Sock!Goto(p, "done")
  PROVE  SockPartnerInv'
<1>1. SockPlaceInv' /\ SockMeetInv'
  BY DEF SockInv, Sock!TypeOK, Sock!Goto, Sock!Process, SockPartnerInv, SockPlaceInv, SockMeetInv
<1>2. SockLinkInv' /\ SockEarlyInv'
  BY DEF SockLinkInv, SockEarlyInv, Sock!Stream
<1> QED BY <1>1, <1>2 DEF SockPartnerInv

LEMMA PartnerOpenWrite ==
  ASSUME SockInv, SockPartnerInv, NEW s \in Answerer, Sock!OpenWrite(s)
  PROVE  SockPartnerInv'
<1>1. s \in Sock!Process /\ kind = "fifo" /\ kind' = kind
  BY DEF SockInv, SockPeerInv, Sock!OpenWrite, Sock!Process
<1>2. CASE owner["server"] = NoOne
  BY <1>1, <1>2, PartnerNoFifo DEF Sock!OpenWrite
<1>3. CASE owner["server"] # NoOne
  <2>1. /\ peer' = [peer EXCEPT ![s] = owner["server"]]
        /\ Sock!MeetAt(owner["server"], s, IF Sock!Readers(owner["server"]) = {} THEN "wait" ELSE "answer",
                       "open", "receive")
    BY <1>3 DEF Sock!OpenWrite
  <2> QED BY <1>1, <2>1, PartnerMeet
<1> QED BY <1>2, <1>3

LEMMA PartnerOpenRead ==
  ASSUME SockInv, SockPartnerInv, NEW c \in Client, Sock!OpenRead(c)
  PROVE  SockPartnerInv'
<1>1. c \in Sock!Process /\ kind = "fifo" /\ kind' = kind
  BY DEF Sock!OpenRead, Sock!Process
<1>2. CASE owner["server"] = NoOne
  BY <1>1, <1>2, PartnerNoFifo DEF Sock!OpenRead
<1>3. CASE owner["server"] # NoOne
  <2>1. /\ peer' = [peer EXCEPT ![c] = owner["server"]]
        /\ Sock!MeetAt(owner["server"], c, IF Sock!Writers(owner["server"]) = {} THEN "open" ELSE "receive",
                       "wait", "answer")
    BY <1>3 DEF Sock!OpenRead
  <2> QED BY <1>1, <2>1, PartnerMeet
<1> QED BY <1>2, <1>3

LEMMA PartnerConnect ==
  ASSUME SockInv, SockPartnerInv, NEW c \in Client, Sock!Connect(c)
  PROVE  SockPartnerInv'
<1>1. c \in Sock!Process /\ Sock!Stream /\ Sock!Stream' /\ sock_pc[c] = "call" /\ kind' = kind
  BY DEF Sock!Connect, Sock!Process, Sock!Stream
<1>2. peer[c] = NoOne
  BY <1>1 DEF SockPartnerInv, SockLinkInv
<1>3. CASE ~Sock!At(owner["server"], {"wait", "read", "answer", "close"})
  <2>1. peer' = peer /\ sock_queue' = sock_queue /\ sock_pc' = [sock_pc EXCEPT ![c] = "done"]
    BY <1>3 DEF Sock!Connect, Sock!Goto
  <2>2. SockPlaceInv' /\ SockEarlyInv' /\ SockMeetInv'
    BY <1>1, <2>1 DEF SockInv, Sock!TypeOK, Sock!Process, Sock!Stream,
                      SockPartnerInv, SockPlaceInv, SockEarlyInv, SockMeetInv, SockBefore
  <2>3. SockLinkInv'
    BY <1>1, <1>2, <2>1 DEF SockInv, Sock!TypeOK, Sock!Process, SockPartnerInv, SockLinkInv, SockBefore
  <2> QED BY <2>2, <2>3 DEF SockPartnerInv
<1>4. CASE Sock!At(owner["server"], {"wait", "read", "answer", "close"})
  <2>1. PICK s \in Answerer : s = owner["server"] /\ sock_pc[s] \in {"wait", "read", "answer", "close"}
    BY <1>4 DEF Sock!At, Sock!Name, Sock!Own, Sock!Process, SockInv, SockOwnerInv, SockOwnerAt
  <2>2. /\ peer' = [peer EXCEPT ![c] = s] /\ sock_pc' = [sock_pc EXCEPT ![c] = "send"]
        /\ sock_queue' = [sock_queue EXCEPT ![s] = Append(@, c)]
    BY <1>4, <2>1 DEF Sock!Connect, Sock!Goto, Sock!Put
  <2>3. s \in Sock!Process /\ s \notin Client /\ s # NoOne
    BY <2>1 DEF Sock!Process
  <2>4. SockPlaceInv' /\ SockEarlyInv' /\ SockMeetInv'
    BY <1>1, <2>2, <2>3 DEF SockInv, Sock!TypeOK, Sock!Process, Sock!Stream,
                      SockPartnerInv, SockPlaceInv, SockEarlyInv, SockMeetInv, SockBefore
  <2>5. /\ \A q \in Sock!Process : q # c => sock_pc'[q] = sock_pc[q] /\ peer'[q] = peer[q]
        /\ \A q \in Sock!Process : q # s => sock_queue'[q] = sock_queue[q]
        /\ sock_pc'[c] = "send" /\ peer'[c] = s
    BY <1>1, <2>2, <2>3 DEF SockInv, Sock!TypeOK
  <2>6. /\ \A q \in Sock!Process : \A j \in 1..Len(sock_queue'[q]) :
             \/ j \in 1..Len(sock_queue[q]) /\ sock_queue'[q][j] = sock_queue[q][j]
             \/ q = s /\ j = Len(sock_queue[q]) + 1 /\ sock_queue'[q][j] = c
    BY <1>1, <2>2, <2>3, SockPlaced DEF SockInv
  <2>7. /\ \E k \in 1..Len(sock_queue'[s]) : sock_queue'[s][k] = c
        /\ \A k \in 1..Len(sock_queue[s]) : k \in 1..Len(sock_queue'[s]) /\ sock_queue'[s][k] = sock_queue[s][k]
    <3>1. sock_queue[s] \in Seq(Sock!Process) /\ sock_queue'[s] = Append(sock_queue[s], c)
      BY <2>2, <2>3 DEF SockInv, Sock!TypeOK
    <3>2. PICK n \in Nat : n = Len(sock_queue[s])
      BY <3>1
    <3>3. /\ Len(sock_queue'[s]) = n + 1 /\ sock_queue'[s][n + 1] = c
          /\ \A k \in 1..n : sock_queue'[s][k] = sock_queue[s][k]
      BY <1>1, <3>1, <3>2, Appended
    <3>4. n + 1 \in 1..n + 1 /\ \A k \in 1..n : k \in 1..n + 1
      BY <3>2
    <3> QED BY <3>2, <3>3, <3>4
  <2>8. \A d \in Client :
          /\ peer'[d] # NoOne => peer'[d] \in Answerer /\ sock_pc'[peer'[d]] \notin SockBefore
          /\ sock_pc'[d] \in {"off", "call"} => peer'[d] = NoOne
          /\ sock_pc'[d] \in {"send", "receive"} => peer'[d] # NoOne
          /\ sock_queue'[d] # <<>> =>
               peer'[d] # NoOne /\ sock_pc'[peer'[d]] \notin {"wait", "read", "answer"}
    BY <1>1, <1>2, <2>1, <2>3, <2>5 DEF SockPartnerInv, SockLinkInv, SockBefore, Sock!Process
  <2>9. ASSUME NEW d \in Client, sock_pc'[d] \in {"send", "receive"}, sock_pc'[peer'[d]] = "wait"
        PROVE  \E k \in 1..Len(sock_queue'[peer'[d]]) : sock_queue'[peer'[d]][k] = d
    <3>1. CASE d = c
      BY <2>5, <2>7, <3>1
    <3>2. CASE d # c
      <4>1. peer'[d] = peer[d] /\ peer[d] \in Answerer /\ sock_pc[d] \in {"send", "receive"}
        BY <1>1, <2>5, <2>9, <3>2 DEF SockPartnerInv, SockLinkInv, Sock!Process
      <4>2. sock_pc[peer[d]] = "wait"
        BY <1>1, <2>5, <2>9, <4>1 DEF Sock!Process
      <4>3. PICK k \in 1..Len(sock_queue[peer[d]]) : sock_queue[peer[d]][k] = d
        BY <1>1, <4>1, <4>2 DEF SockPartnerInv, SockLinkInv
      <4> QED BY <2>5, <2>7, <4>1, <4>3 DEF Sock!Process
    <3> QED BY <3>1, <3>2
  <2>10. ASSUME NEW q \in Answerer, NEW j \in 1..Len(sock_queue'[q])
         PROVE  /\ sock_queue'[q][j] \in Client /\ peer'[sock_queue'[q][j]] = q
                /\ sock_pc'[q] = "wait" => sock_pc'[sock_queue'[q][j]] \in {"send", "receive", "killed"}
    <3>1. q \in Sock!Process /\ q # c /\ sock_pc'[q] = sock_pc[q]
      BY <2>5 DEF Sock!Process
    <3>2. CASE q = s /\ sock_queue'[q][j] = c
      BY <2>5, <3>2
    <3>3. CASE j \in 1..Len(sock_queue[q]) /\ sock_queue'[q][j] = sock_queue[q][j]
      <4>1. sock_queue[q][j] \in Client /\ peer[sock_queue[q][j]] = q
        BY <1>1, <3>3 DEF SockPartnerInv, SockLinkInv
      <4>2. sock_queue[q][j] # c /\ sock_queue[q][j] \in Sock!Process
        BY <1>2, <4>1 DEF Sock!Process
      <4> QED BY <1>1, <2>5, <3>1, <3>3, <4>1, <4>2 DEF SockPartnerInv, SockLinkInv
    <3> QED BY <2>6, <3>1, <3>2, <3>3
  <2>11. ASSUME NEW q \in Answerer, sock_pc'[q] \in {"read", "answer"}
         PROVE  /\ peer'[q] \in Client /\ peer'[peer'[q]] = q
                /\ sock_pc'[peer'[q]] \in {"send", "receive", "killed"}
    <3>1. q \in Sock!Process /\ q # c /\ sock_pc[q] \in {"read", "answer"} /\ peer'[q] = peer[q]
      BY <2>5, <2>11 DEF Sock!Process
    <3>2. peer[q] \in Client /\ peer[peer[q]] = q /\ sock_pc[peer[q]] \in {"send", "receive", "killed"}
      BY <1>1, <3>1 DEF SockPartnerInv, SockLinkInv
    <3> QED BY <1>1, <2>5, <3>1, <3>2 DEF Sock!Process
  <2>12. SockLinkInv'
    BY <2>8, <2>9, <2>10, <2>11 DEF SockLinkInv
  <2> QED BY <2>4, <2>12 DEF SockPartnerInv
<1> QED BY <1>3, <1>4

LEMMA PartnerReceiveAnswer ==
  ASSUME SockInv, SockPartnerInv, NEW c \in Client, Sock!ReceiveAnswer(c)
  PROVE  SockPartnerInv'
<1> USE DEF Sock!ReceiveAnswer, Sock!HasAnswer, Sock!AfterAnswer, Sock!Box, Sock!Goto, Sock!Process
<1>1. SockPlaceInv' /\ SockEarlyInv' /\ SockMeetInv'
  BY DEF SockInv, Sock!TypeOK, SockPartnerInv, SockPlaceInv, SockEarlyInv, SockMeetInv, SockBefore
<1>2. SockLinkInv'
  <2> SUFFICES ASSUME Sock!Stream PROVE SockLinkInv'
    BY DEF SockLinkInv, Sock!Stream
  <2>1. /\ c \notin Answerer /\ peer' = peer /\ sock_queue[c] # <<>>
        /\ sock_pc[c] = "receive" /\ sock_pc'[c] = "done"
        /\ \A q \in Sock!Process : q # c => sock_pc'[q] = sock_pc[q] /\ sock_queue'[q] = sock_queue[q]
    BY DEF SockInv, Sock!TypeOK, Sock!Stream, Sock!Take
  <2> QED BY <2>1 DEF SockPartnerInv, SockLinkInv, SockBefore
<1> QED BY <1>1, <1>2 DEF SockPartnerInv

LEMMA SockPartnerStep == SockInv /\ SockPartnerInv /\ [Sock!Next]_sockVars => SockPartnerInv'
<1> SUFFICES ASSUME SockInv, SockPartnerInv, [Sock!Next]_sockVars PROVE SockPartnerInv'
  OBVIOUS
<1>1. ASSUME NEW s \in Answerer, Sock!StartServer(s) \/ Sock!ServerStep(s) PROVE SockPartnerInv'
  <2>1. s \in Sock!Process
    BY DEF Sock!Process
  <2> QED BY <1>1, <2>1, PartnerStartServer, PartnerUnlinkOld, PartnerBind, PartnerBindFails,
             PartnerListen, PartnerTakeFirst, PartnerReadRequest, PartnerAnswerStream,
             PartnerDatagram, PartnerOpenWrite, PartnerWrite, PartnerClose, PartnerUnlinkOwn
          DEF Sock!ServerStep
<1>2. ASSUME NEW c \in Client, Sock!StartClient(c) \/ Sock!ClientStep(c) PROVE SockPartnerInv'
  <2>1. c \in Sock!Process
    BY DEF Sock!Process
  <2> QED BY <1>2, <2>1, PartnerStartClient, PartnerUnlinkOld, PartnerBind, PartnerBindFails,
             PartnerConnect, PartnerSendRequest, PartnerDatagram, PartnerOpenRead,
             PartnerReceiveAnswer, PartnerReceiveEnd, PartnerUnlinkOwn
          DEF Sock!ClientStep
<1>3. ASSUME NEW p \in Sock!Process, Sock!Kill(p) PROVE SockPartnerInv'
  BY <1>3, PartnerKill
<1>4. CASE UNCHANGED sockVars
  BY <1>4 DEF sockVars, SockPartnerInv, SockPlaceInv, SockLinkInv, SockEarlyInv, SockMeetInv, Sock!Stream
<1> QED BY <1>1, <1>2, <1>3, <1>4 DEF Sock!Next

\* Where nobody can go on, a server has nobody in its queue and its reading
\* client has asked; a FIFO's reader has no writer, or it could go on.
LEMMA SockStuck == SockInv /\ SockPartnerInv => StuckOnlyAlone
<1> SUFFICES ASSUME SockInv, SockPartnerInv, \A q \in Sock!Process : ~Sock!CanGoOn(q),
                    NEW p \in Sock!Process, Sock!Started(p), ~Sock!Over(p)
             PROVE  Sock!Alone(p)
  BY DEF StuckOnlyAlone, Sock!StuckOnlyAlone
<1> USE DEF Sock!Process
<1>1. \A q \in Sock!Process :
        /\ sock_pc[q] \in {"off", "wait", "read", "send", "open", "receive", "done", "killed"}
        /\ ~Sock!HasFirst(q) /\ ~Sock!Asked(q) /\ ~Sock!AtSend(q) /\ ~Sock!HasAnswer(q) /\ ~Sock!HasEnd(q)
  BY DEF Sock!CanGoOn, SockInv, Sock!TypeOK
<1>2. \A s \in Answerer : sock_pc[s] \in {"off", "wait", "done", "killed"}
  <2> SUFFICES ASSUME NEW s \in Answerer, sock_pc[s] = "read" PROVE FALSE
    BY <1>1 DEF SockPartnerInv, SockPlaceInv
  <2>1. peer[s] \in Client /\ sock_pc[peer[s]] \in {"send", "receive", "killed"}
    BY DEF SockInv, SockPeerInv, SockPartnerInv, SockLinkInv
  <2> QED BY <1>1, <2>1 DEF Sock!AtSend, Sock!Asked
<1>3. \A c \in Client : sock_pc[c] \in {"off", "open", "receive", "done", "killed"}
  BY <1>1 DEF Sock!AtSend, SockPartnerInv, SockPlaceInv
<1>4. CASE p \in Answerer
  <2>1. sock_pc[p] = "wait"
    BY <1>2, <1>4 DEF Sock!Started, Sock!Over
  <2>2. kind = "fifo" => Sock!Readers(peer[p]) = {}
    BY <1>4, <2>1 DEF Sock!Readers, SockPartnerInv, SockMeetInv
  <2>3. kind # "fifo" => sock_queue[p] = <<>>
    BY <1>1, <2>1 DEF Sock!HasFirst
  <2> QED BY <1>4, <2>1, <2>2, <2>3 DEF Sock!Alone
<1>5. CASE p \in Client /\ sock_pc[p] = "open"
  <2>1. kind = "fifo"
    BY <1>5 DEF SockInv, SockPeerInv
  <2>2. Sock!Writers(peer[p]) = {}
    BY <1>5, <2>1 DEF Sock!Writers, SockPartnerInv, SockMeetInv
  <2> QED BY <1>5, <2>2 DEF Sock!Alone
<1>6. CASE p \in Client /\ sock_pc[p] = "receive"
  <2>1. sock_queue[Sock!Box(p)] = <<>>
    BY <1>1, <1>6 DEF Sock!HasAnswer
  <2>2. ~Sock!Stream
    <3> SUFFICES ASSUME Sock!Stream PROVE FALSE
      OBVIOUS
    <3>1. /\ peer[p] \in Answerer /\ sock_pc[peer[p]] \in {"wait", "read", "answer", "close"}
      BY <1>1, <1>6, <2>1 DEF Sock!HasEnd, Sock!Connected, Sock!At, SockPartnerInv, SockLinkInv
    <3>2. sock_pc[peer[p]] = "wait"
      BY <1>2, <3>1
    <3>3. PICK k \in 1..Len(sock_queue[peer[p]]) : sock_queue[peer[p]][k] = p
      BY <1>6, <3>2 DEF SockPartnerInv, SockLinkInv
    <3>4. sock_queue[peer[p]] = <<>>
      BY <1>1, <3>1, <3>2 DEF Sock!HasFirst, Sock!Stream
    <3> QED BY <3>3, <3>4
  <2>3. CASE kind = "fifo"
    <3>1. Sock!Writers(peer[p]) # {}
      BY <1>1, <1>6, <2>1, <2>3 DEF Sock!HasEnd
    <3>2. PICK s \in Answerer : peer[s] = peer[p] /\ sock_pc[s] \in {"wait", "answer", "close"}
      BY <3>1 DEF Sock!Writers
    <3> QED BY <1>2, <1>6, <2>3, <3>2 DEF SockPartnerInv, SockMeetInv
  <2>4. CASE kind # "fifo"
    <3>1. ASSUME NEW s \in Answerer, Sock!At(s, {"wait", "answer"})
          PROVE  p # peer[s] /\ \A k \in 1..Len(sock_queue[s]) : sock_queue[s][k] # p
      <4>1. sock_pc[s] = "wait" /\ sock_queue[s] = <<>>
        BY <1>1, <1>2, <2>4, <3>1 DEF Sock!At, Sock!HasFirst
      <4>2. peer[s] = NoOne /\ p # NoOne
        BY <1>6, <2>4, <4>1 DEF SockPartnerInv, SockEarlyInv
      <4> QED BY <4>1, <4>2
    <3> QED BY <1>6, <2>1, <2>2, <3>1 DEF Sock!Alone
  <2> QED BY <2>3, <2>4
<1> QED BY <1>3, <1>4, <1>5, <1>6 DEF Sock!Started, Sock!Over

LEMMA SockReached ==
  /\ Sock!Reached("off") = 0 /\ Sock!Reached("unlink") = 1 /\ Sock!Reached("bind") = 2
  /\ Sock!Reached("listen") = 3 /\ Sock!Reached("open_write") = 3 /\ Sock!Reached("call") = 3
  /\ Sock!Reached("wait") = 4 /\ Sock!Reached("send") = 4 /\ Sock!Reached("open") = 4
  /\ Sock!Reached("read") = 5 /\ Sock!Reached("receive") = 5
  /\ Sock!Reached("answer") = 6 /\ Sock!Reached("close") = 7 /\ Sock!Reached("unlink_own") = 8
  /\ Sock!Reached("done") = 9 /\ Sock!Reached("killed") = 9
BY DEF Sock!Reached

\* A step brings the programs it moves nearer to their end, and moves one.
SockLedOn ==
  /\ \E p \in Sock!Process : sock_pc'[p] # sock_pc[p]
  /\ \A p \in Sock!Process :
       sock_pc'[p] # sock_pc[p] => Sock!Reached(sock_pc[p]) < Sock!Reached(sock_pc'[p])

\* One program goes on alone.
LEMMA SockGoesOn ==
  ASSUME Sock!TypeOK, NEW p \in Sock!Process, NEW place, Sock!Goto(p, place),
         Sock!Reached(sock_pc[p]) < Sock!Reached(place), sock_pc[p] # place
  PROVE  SockLedOn
BY DEF Sock!TypeOK, Sock!Goto, SockLedOn

\* The one that opens a FIFO takes along those that wait for it.
LEMMA SockMeetsOn ==
  ASSUME Sock!TypeOK, NEW p \in Sock!Process, NEW f, NEW place, NEW from, NEW to,
         Sock!MeetAt(f, p, place, from, to),
         Sock!Reached(sock_pc[p]) < Sock!Reached(place), sock_pc[p] # place,
         Sock!Reached(from) < Sock!Reached(to)
  PROVE  SockLedOn
BY DEF Sock!TypeOK, Sock!MeetAt, SockLedOn

LEMMA SockServerOn ==
  ASSUME SockInv, NEW s \in Answerer, Sock!StartServer(s) \/ Sock!ServerStep(s)
  PROVE  SockLedOn
<1> USE SockReached
<1>1. s \in Sock!Process /\ s \notin Client /\ Sock!TypeOK
  BY DEF Sock!Process, SockInv
<1>2. CASE \/ Sock!StartServer(s) \/ Sock!UnlinkOld(s) \/ Sock!Bind(s) \/ Sock!BindFails(s)
           \/ Sock!Listen(s) \/ Sock!Close(s) \/ Sock!UnlinkOwn(s)
  <2>1. PICK place \in {"unlink", "bind", "listen", "open_write", "wait", "unlink_own", "done"} :
          /\ Sock!Goto(s, place) /\ sock_pc[s] # place
          /\ Sock!Reached(sock_pc[s]) < Sock!Reached(place)
    BY <1>1, <1>2 DEF Sock!StartServer, Sock!UnlinkOld, Sock!Bind, Sock!BindFails, Sock!Listen,
                      Sock!Close, Sock!UnlinkOwn
  <2> QED BY <1>1, <2>1, SockGoesOn
<1>3. CASE \/ Sock!TakeFirst(s) \/ Sock!ReadRequest(s) \/ Sock!AnswerStream(s) \/ Sock!AnswerUdp(s)
           \/ Sock!AnswerUdpLocal(s) \/ Sock!Write(s)
  <2>1. PICK place \in {"read", "answer", "close", "killed"} :
          /\ Sock!Goto(s, place) /\ sock_pc[s] # place
          /\ Sock!Reached(sock_pc[s]) < Sock!Reached(place)
    BY <1>3 DEF Sock!TakeFirst, Sock!HasFirst, Sock!ReadRequest, Sock!Asked, Sock!AtEndOfFile,
                Sock!AnswerStream, Sock!AnswerUdp, Sock!AnswerUdpLocal, Sock!Write
  <2> QED BY <1>1, <2>1, SockGoesOn
<1>4. CASE Sock!OpenWrite(s)
  <2>1. CASE owner["server"] = NoOne
    <3>1. Sock!Goto(s, "done") /\ sock_pc[s] = "open_write"
      BY <1>4, <2>1 DEF Sock!OpenWrite
    <3> QED BY <1>1, <3>1, SockGoesOn
  <2>2. CASE owner["server"] # NoOne
    <3>1. PICK place \in {"wait", "answer"} :
            Sock!MeetAt(owner["server"], s, place, "open", "receive") /\ sock_pc[s] = "open_write"
      BY <1>4, <2>2 DEF Sock!OpenWrite
    <3> QED BY <1>1, <3>1, SockMeetsOn
  <2> QED BY <2>1, <2>2
<1> QED BY <1>2, <1>3, <1>4 DEF Sock!ServerStep

LEMMA SockClientOn ==
  ASSUME SockInv, NEW c \in Client, Sock!StartClient(c) \/ Sock!ClientStep(c)
  PROVE  SockLedOn
<1> USE SockReached
<1>1. c \in Sock!Process /\ c \notin Answerer /\ Sock!TypeOK
  BY DEF Sock!Process, SockInv
<1>2. CASE \/ Sock!StartClient(c) \/ Sock!UnlinkOld(c) \/ Sock!Bind(c) \/ Sock!BindFails(c)
           \/ Sock!UnlinkOwn(c)
  <2>1. PICK place \in {"unlink", "bind", "call", "done"} :
          /\ Sock!Goto(c, place) /\ sock_pc[c] # place
          /\ Sock!Reached(sock_pc[c]) < Sock!Reached(place)
    BY <1>1, <1>2 DEF Sock!StartClient, Sock!UnlinkOld, Sock!Bind, Sock!BindFails, Sock!UnlinkOwn
  <2> QED BY <1>1, <2>1, SockGoesOn
<1>3. CASE \/ Sock!Connect(c) \/ Sock!SendRequest(c) \/ Sock!SendDatagram(c)
           \/ Sock!ReceiveAnswer(c) \/ Sock!ReceiveEnd(c)
  <2>1. PICK place \in {"send", "receive", "unlink_own", "done"} :
          /\ Sock!Goto(c, place) /\ sock_pc[c] # place
          /\ Sock!Reached(sock_pc[c]) < Sock!Reached(place)
    BY <1>3 DEF Sock!Connect, Sock!SendRequest, Sock!AtSend, Sock!SendDatagram, Sock!ReceiveAnswer,
                Sock!HasAnswer, Sock!ReceiveEnd, Sock!HasEnd, Sock!AfterAnswer
  <2> QED BY <1>1, <2>1, SockGoesOn
<1>4. CASE Sock!OpenRead(c)
  <2>1. CASE owner["server"] = NoOne
    <3>1. Sock!Goto(c, "done") /\ sock_pc[c] = "call"
      BY <1>4, <2>1 DEF Sock!OpenRead
    <3> QED BY <1>1, <3>1, SockGoesOn
  <2>2. CASE owner["server"] # NoOne
    <3>1. PICK place \in {"open", "receive"} :
            Sock!MeetAt(owner["server"], c, place, "wait", "answer") /\ sock_pc[c] = "call"
      BY <1>4, <2>2 DEF Sock!OpenRead
    <3> QED BY <1>1, <3>1, SockMeetsOn
  <2> QED BY <2>1, <2>2
<1> QED BY <1>2, <1>3, <1>4 DEF Sock!ClientStep

LEMMA SockLeadsOn == SockInv /\ Sock!Next => SockLedOn
<1> SUFFICES ASSUME SockInv, Sock!Next PROVE SockLedOn
  OBVIOUS
<1>1. ASSUME NEW p \in Sock!Process, Sock!Kill(p) PROVE SockLedOn
  <2>1. Sock!Goto(p, "killed") /\ sock_pc[p] \notin {"off", "done", "killed"} /\ Sock!TypeOK
    BY <1>1 DEF Sock!Kill, Sock!Started, Sock!Over, SockInv
  <2>2. PICK place : place = sock_pc[p]
    OBVIOUS
  <2>3. place \in {"unlink", "bind", "listen", "open_write", "wait", "read", "answer", "close",
                   "unlink_own", "call", "send", "open", "receive"}
    BY <2>1, <2>2 DEF Sock!TypeOK
  <2>4. Sock!Reached(place) < Sock!Reached("killed") /\ place # "killed"
    BY <2>3, SockReached
  <2> QED BY <2>1, <2>2, <2>4, SockGoesOn
<1> QED BY <1>1, SockServerOn, SockClientOn DEF Sock!Next

-----------------------------------------------------------------------------
(* The theorems.                                                           *)

\* The programs of a family keep its invariant, those of the others do nothing.
AllInv == EchoInv /\ MsgInv /\ ShmInv /\ SockInv /\ SockPartnerInv /\ FourInv /\ FourWaitInv

LEMMA AllInitial == ExchangesInit => AllInv
BY EchoInitial, MsgInitial, ShmInitial, SockInitial, SockPartnerInit, FourInit, FourWaitInit DEF ExchangesInit, AllInv

LEMMA AllStep == AllInv /\ [ExchangesNext]_exchangesVars => AllInv'
<1> SUFFICES ASSUME AllInv, [ExchangesNext]_exchangesVars
             PROVE  EchoInv' /\ MsgInv' /\ ShmInv' /\ SockInv' /\ SockPartnerInv' /\ FourInv' /\ FourWaitInv'
  BY DEF AllInv
<1>1. /\ [Next]_vars /\ [Msg!Next]_msgVars /\ [Shm!Next]_shmVars
      /\ [Sock!Next]_sockVars /\ [Four!Next]_fourVars
  BY DEF ExchangesNext, exchangesVars
<1>2. EchoInv' /\ MsgInv'
  BY <1>1, EchoNextStep, MsgStep DEF AllInv
<1>3. ShmInv' /\ SockInv' /\ SockPartnerInv' /\ FourInv' /\ FourWaitInv'
  BY <1>1, ShmStep, SockStep, SockPartnerStep, FourStep, FourWaitStep DEF AllInv
<1> QED BY <1>2, <1>3

LEMMA AllInvariance == ExchangesSpec => []AllInv
BY AllInitial, AllStep, PTL DEF ExchangesSpec

\* Every variable of every family keeps its type: no index leaves an array, no
\* queue is longer than its limit, and a server that has taken a TCP client
\* handles that one.
THEOREM AllTypesCorrect == ExchangesSpec => []TypesOK
<1>1. AllInv => TypesOK
  BY DEF AllInv, EchoInv, MsgInv, ShmInv, SockInv, FourInv, TypesOK
<1> QED BY <1>1, AllInvariance, PTL

\* Messages: the server of Messages receives an answer to its own message, or
\* to that of a run that was killed, whatever the runs before have left in
\* the queues.
THEOREM AnswersOfRuns == ExchangesSpec => []AnswerOfRun
<1>1. AllInv => AnswerOfRun
  BY DEF AllInv, MsgInv, MsgAnswerInv
<1> QED BY <1>1, AllInvariance, PTL

\* Messages: where a process waits for room in a queue, the messages that fill
\* it are those of runs that were killed.
THEOREM OnlyTheKilledBlock == ExchangesSpec => []BlockedByTheKilled
<1>1. AllInv => BlockedByTheKilled
  BY MsgBlocked DEF AllInv
<1> QED BY <1>1, AllInvariance, PTL

\* SharedMemory: a client that holds the server's objects reads "Hi!", and the
\* server reads "Hello!" of a client that holds its objects, unless a client
\* came between the runs.
THEOREM BothHear == ExchangesSpec => EachHears
<1> DEFINE ClientReads == \A c \in Client : shm_pc[c] = "read" /\ shm_pc'[c] = "write" /\ Shm!Straight(c) /\ late = {}
                                            => heard'[c] = "Hi!"
           ServerReads == shm_pc[Server] = "read" /\ shm_pc'[Server] = "remove" /\ poster # NoClient
                          => (Shm!Straight(poster) /\ poster \notin late => shm_got' = "Hello!")
<1>1. AllInv /\ [ExchangesNext]_exchangesVars => [ClientReads]_Shm!vars /\ [ServerReads]_Shm!vars
  <2> SUFFICES ASSUME AllInv, [ExchangesNext]_exchangesVars PROVE ClientReads /\ ServerReads
    OBVIOUS
  <2>1. ShmInv /\ [Shm!Next]_shmVars
    BY DEF AllInv, ExchangesNext, exchangesVars
  <2>2. ClientReads
    BY <2>1, ShmHeard
  <2>3. ServerReads
    BY <2>1, ShmAnswered
  <2> QED BY <2>2, <2>3
<1>2. ExchangesSpec => [][ClientReads]_Shm!vars /\ [][ServerReads]_Shm!vars
  BY <1>1, AllInvariance, PTL DEF ExchangesSpec
<1> QED BY <1>2 DEF EachHears, Shm!ClientHears, Shm!ServerHears

\* Sockets: a run in which nobody was killed ends without a path of its own in
\* the file system.
THEOREM NothingStays == ExchangesSpec => []NothingLeftBehind
<1>1. AllInv => NothingLeftBehind
  BY SockNothing DEF AllInv
<1> QED BY <1>1, AllInvariance, PTL

\* Sockets: the client that receives an answer is the one that had asked, for
\* every kind of socket and for the FIFOs.
THEOREM AnswersAreOwn == ExchangesSpec => []OwnAnswer
<1>1. AllInv => OwnAnswer
  BY SockOwnAnswer DEF AllInv
<1> QED BY <1>1, AllInvariance, PTL

\* Sockets: where no program can go on, each of them is over or waits for a
\* partner that is gone, so no two of them ever wait for each other.
THEOREM StuckAreAlone == ExchangesSpec => []StuckOnlyAlone
<1>1. AllInv => StuckOnlyAlone
  BY SockStuck DEF AllInv
<1> QED BY <1>1, AllInvariance, PTL

\* Sockets: every step brings the programs that it moves nearer to their end,
\* the one of a FIFO that lets others go on too, so every run comes to such a
\* place.
THEOREM RunsLeadOn == ExchangesSpec => StepsLeadOn
<1>1. AllInv /\ [ExchangesNext]_exchangesVars => [SockLedOn]_sockVars
  <2> SUFFICES ASSUME AllInv, [ExchangesNext]_exchangesVars PROVE [SockLedOn]_sockVars
    OBVIOUS
  <2>1. SockInv /\ [Sock!Next]_sockVars
    BY DEF AllInv, ExchangesNext, exchangesVars
  <2> QED BY <2>1, SockLeadsOn
<1>2. ExchangesSpec => [][SockLedOn]_sockVars
  BY <1>1, AllInvariance, PTL DEF ExchangesSpec
<1> QED BY <1>2 DEF StepsLeadOn, Sock!StepsLeadOn, SockLedOn, Sock!vars, sockVars

\* TaskFour: the server blocks only for a client that is connected and has yet
\* to write, or when nobody waits for it; not in accept or recvfrom, and not in
\* select with somebody in a queue or forgotten.
THEOREM BlocksCorrect == ExchangesSpec => []BlocksOnlyToRead
<1>1. AllInv => BlocksOnlyToRead
  BY FourBlocks DEF AllInv
<1> QED BY <1>1, AllInvariance, PTL

\* No address has two entries, except for the copy that remove_client makes.
THEOREM EntriesCorrect == Spec => []NoDuplicates
<1>1. EchoInv => NoDuplicates
  BY DEF EchoInv, EntryInv, Kept, NoDuplicates
<1> QED BY <1>1, EchoInvariance, PTL

\* The signal handler finds every client that the server has echoed to and
\* not removed, between any two steps.
THEOREM ListedCorrect == Spec => []NobodyUnlisted
<1>1. EchoInv => NobodyUnlisted
  BY DEF EchoInv, EntryInv, Kept, NobodyUnlisted, Listed
<1> QED BY <1>1, EchoInvariance, PTL

\* The echoes to a client are numbered without a gap, wherever its entry is
\* shifted to.
THEOREM NumbersCorrect == Spec => []NumbersFollow
<1>1. EchoInv => NumbersFollow
  BY DEF EchoInv, HandInv, NumbersFollow
<1> QED BY <1>1, EchoInvariance, PTL
=============================================================================
