---------------------------- MODULE TaskTwoProofs ----------------------------
(***************************************************************************)
(* What holds of the pool of service servers for any set of clients and    *)
(* any number of servers.                                                  *)
(***************************************************************************)
EXTENDS TaskTwo, TLAPS

Queued(q) == {q[k] : k \in 1..Len(q)}

\* A client whose connection waits for main's accept is in the queue once and
\* has been sent nothing.
Waits(c) == client[c] \in {"waiting", "gone"} /\ reply[c] = Nothing

BacklogInv ==
  /\ \A c \in Queued(backlog) : Waits(c)
  /\ \A j, k \in 1..Len(backlog) : backlog[j] = backlog[k] => j = k

\* So has the client that main is dealing with.
CurInv ==
  pc \in {"find", "reply"} => cur \in Client /\ Waits(cur) /\ cur \notin Queued(backlog)

\* A client that has not connected to main was sent nothing.
IdleInv == \A c \in Client : client[c] = "idle" => reply[c] = Nothing

\* A client that has connected to server s, or is served there.
Came(c, s) ==
  c \in Client /\ reply[c] = s /\ client[c] \notin {"idle", "waiting", "directed"}

\* At most one connection waits at a service server, and none while it serves.
ServerInv ==
  \A s \in Server :
    /\ pending[s] = <<>> \/ \E c \in Client : pending[s] = <<c>> /\ Came(c, s)
    /\ serving[s] # NoClient => Came(serving[s], s) /\ pending[s] = <<>>
    /\ at[s] \in {"off", "accept"} <=> serving[s] = NoClient
    /\ pc = "init" => at[s] = "off"

\* Expected, without the set of what waits written out.
Claims(c, s) ==
  \/ pc = "reply" /\ i = s /\ cur = c
  \/ reply[c] = s /\ client[c] \in {"waiting", "directed"}
  \/ pending[s] = <<c>>
  \/ serving[s] = c

\* A server is marked for one client, and nobody else has a claim to it.
OneClaim ==
  /\ \A s \in Server : is_busy[s] <=> holder[s] # NoClient
  /\ \A s \in Server, c \in Client : Claims(c, s) => holder[s] = c

IInv == TypeOK /\ BacklogInv /\ CurInv /\ IdleInv /\ ServerInv /\ OneClaim

-----------------------------------------------------------------------------
(* Facts about numbers and queues.                                         *)

LEMMA Numbers == Nothing \notin Server /\ Full \notin Server /\ MAX_CLIENTS \notin Server
                 /\ Full # Nothing
BY MaxClientsAssumption DEF Nothing, Full, Server

LEMMA QueuedAppend ==
  ASSUME NEW S, NEW q \in Seq(S), NEW x \in S, x \notin Queued(q),
         \A j, k \in 1..Len(q) : q[j] = q[k] => j = k
  PROVE  /\ Append(q, x) \in Seq(S) /\ Queued(Append(q, x)) = Queued(q) \cup {x}
         /\ \A j, k \in 1..Len(Append(q, x)) : Append(q, x)[j] = Append(q, x)[k] => j = k
<1> DEFINE r == Append(q, x)
<1>1. r \in Seq(S) /\ Len(r) = Len(q) + 1 /\ r[Len(q) + 1] = x /\ Len(q) \in Nat
      /\ \A k \in 1..Len(q) : r[k] = q[k]
  OBVIOUS
<1> HIDE DEF r
<1>2. \A k \in 1..Len(r) : k \in 1..Len(q) \/ k = Len(q) + 1
  BY <1>1
<1>3. Queued(r) = Queued(q) \cup {x}
  BY <1>1, <1>2 DEF Queued
<1>4. \A k \in 1..Len(q) : r[k] # x
  BY <1>1 DEF Queued
<1>5. \A j, k \in 1..Len(r) : r[j] = r[k] => j = k
  BY <1>1, <1>2, <1>4
<1> QED BY <1>1, <1>3, <1>5 DEF r

LEMMA QueuedTail ==
  ASSUME NEW S, NEW q \in Seq(S), q # <<>>,
         \A j, k \in 1..Len(q) : q[j] = q[k] => j = k
  PROVE  /\ Tail(q) \in Seq(S) /\ Head(q) \in S /\ Head(q) \in Queued(q)
         /\ Queued(Tail(q)) \subseteq Queued(q) /\ Head(q) \notin Queued(Tail(q))
         /\ \A j, k \in 1..Len(Tail(q)) : Tail(q)[j] = Tail(q)[k] => j = k
<1> DEFINE r == Tail(q)
<1>1. r \in Seq(S) /\ Len(q) \in Nat /\ Len(q) > 0 /\ Len(r) = Len(q) - 1 /\ Head(q) = q[1]
      /\ q[1] \in S /\ \A k \in 1..Len(r) : r[k] = q[k + 1]
  OBVIOUS
<1> HIDE DEF r
<1>2. \A k \in 1..Len(r) : k + 1 \in 1..Len(q) /\ k + 1 # 1
  BY <1>1
<1>3. 1 \in 1..Len(q)
  BY <1>1
<1>4. Head(q) \in Queued(q) /\ Queued(r) \subseteq Queued(q)
  BY <1>1, <1>2, <1>3 DEF Queued
<1>5. Head(q) \notin Queued(r)
  BY <1>1, <1>2, <1>3 DEF Queued
<1>6. \A j, k \in 1..Len(r) : r[j] = r[k] => j = k
  <2> TAKE j, k \in 1..Len(r)
  <2>1. r[j] = r[k] => j + 1 = k + 1
    BY <1>1, <1>2
  <2> QED BY <1>1, <2>1
<1> QED BY <1>1, <1>4, <1>5, <1>6 DEF r

LEMMA One == \A c : <<c>> # <<>> /\ Head(<<c>>) = c /\ Tail(<<c>>) = <<>> /\ Append(<<>>, c) = <<c>>
OBVIOUS

LEMMA InvInit == Init => IInv
<1> SUFFICES ASSUME Init PROVE IInv
  OBVIOUS
<1> USE Numbers, MaxClientsAssumption, NoClientAssumption DEF Init
<1>1. TypeOK
  <2>1. backlog \in Seq(Client) /\ pending \in [Server -> Seq(Client)]
    OBVIOUS
  <2>2. i \in 0..MAX_CLIENTS /\ cur \in Client \cup {NoClient}
    OBVIOUS
  <2>3. /\ reply \in [Client -> Server \cup {Nothing, Full}]
        /\ serving \in [Server -> Client \cup {NoClient}] /\ holder \in [Server -> Client \cup {NoClient}]
    OBVIOUS
  <2> QED BY <2>1, <2>2, <2>3 DEF TypeOK
<1>2. BacklogInv /\ CurInv /\ IdleInv
  BY DEF BacklogInv, CurInv, IdleInv, Queued
<1>3. ServerInv
  BY DEF ServerInv
<1>4. OneClaim
  BY One DEF OneClaim, Claims
<1> QED BY <1>1, <1>2, <1>3, <1>4 DEF IInv

-----------------------------------------------------------------------------
(* The clients.                                                            *)

LEMMA ConnectMainStep ==
  ASSUME IInv, NEW c \in Client, ConnectMain(c)
  PROVE  IInv'
<1> USE DEF IInv
<1>1. /\ client[c] = "idle" /\ pc # "init" /\ client' = [client EXCEPT ![c] = "waiting"]
      /\ backlog' = Append(backlog, c) /\ backlog \in Seq(Client)
      /\ UNCHANGED <<reply, answer, pc, cur, i, all_busy, listening, is_busy, holder, at, serving, pending>>
  BY DEF IInv, ConnectMain, TypeOK, marks
<1>2. reply[c] = Nothing /\ c \notin Queued(backlog)
  BY <1>1 DEF IdleInv, BacklogInv, Waits
<1>3. /\ backlog' \in Seq(Client) /\ Queued(backlog') = Queued(backlog) \cup {c}
      /\ \A j, k \in 1..Len(backlog') : backlog'[j] = backlog'[k] => j = k
  BY <1>1, <1>2, QueuedAppend DEF BacklogInv
<1>4. \A d : d # c => client'[d] = client[d]
  BY <1>1 DEF TypeOK
<1>5. client'[c] = "waiting"
  BY <1>1 DEF TypeOK
<1>6. TypeOK'
  BY <1>1, <1>3 DEF TypeOK
<1>7. BacklogInv'
  BY <1>1, <1>2, <1>3, <1>4, <1>5 DEF BacklogInv, Waits
<1>8. CurInv' /\ IdleInv'
  BY <1>1, <1>2, <1>3, <1>4, <1>5 DEF CurInv, IdleInv, Waits
<1>9. ServerInv'
  BY <1>1, <1>2, <1>4 DEF ServerInv, Came
<1>10. OneClaim'
  <2>1. \A s \in Server, d \in Client : Claims(d, s)' => Claims(d, s)
    BY <1>1, <1>2, <1>4, Numbers DEF Claims
  <2> QED BY <1>1, <2>1 DEF OneClaim
<1> QED BY <1>6, <1>7, <1>8, <1>9, <1>10

\* A client that moves on without a connection being made.
LEMMA MoveOn ==
  ASSUME IInv, NEW c \in Client,
         NEW place \in {"directed", "failed", "refused", "asked", "done", "gone"},
         client' = [client EXCEPT ![c] = place],
         client[c] \in {"waiting", "directed", "connected", "asked"},
         Waits(c) => place = "gone",
         place = "directed" => client[c] = "waiting" /\ reply[c] # Full,
         client[c] \in {"connected", "asked"} => place \in {"asked", "done", "gone"},
         UNCHANGED <<reply, answer, mainVars, listening, marks, at, serving, pending>>
  PROVE  IInv'
<1> USE DEF IInv
<1>1. /\ client'[c] = place /\ \A d : d # c => client'[d] = client[d]
      /\ UNCHANGED <<reply, answer, backlog, pc, cur, i, all_busy, listening, is_busy, holder, at,
                     serving, pending>>
  BY DEF TypeOK, mainVars, marks
<1>2. TypeOK'
  BY <1>1 DEF TypeOK
<1>3. \A d : Waits(d) => Waits(d)'
  BY <1>1 DEF Waits
<1>4. BacklogInv' /\ CurInv'
  BY <1>1, <1>3 DEF BacklogInv, CurInv
<1>5. IdleInv'
  BY <1>1 DEF IdleInv
<1>6. \A d, s : Came(d, s) => Came(d, s)'
  BY <1>1 DEF Came
<1>7. ServerInv'
  BY <1>1, <1>6 DEF ServerInv
<1>8. OneClaim'
  <2>1. \A s \in Server, d \in Client : Claims(d, s)' => Claims(d, s)
    BY <1>1 DEF Claims
  <2> QED BY <1>1, <2>1 DEF OneClaim
<1> QED BY <1>2, <1>4, <1>5, <1>7, <1>8

LEMMA ConnectServiceStep ==
  ASSUME IInv, NEW c \in Client, ConnectService(c)
  PROVE  IInv'
<1> DEFINE s0 == reply[c]
<1>1. CASE client' = [client EXCEPT ![c] = "failed"] /\ UNCHANGED pending
  <2>1. UNCHANGED <<reply, answer, mainVars, listening, marks, at, serving, pending>>
    BY <1>1 DEF ConnectService
  <2>2. ~Waits(c) /\ client[c] = "directed" /\ client[c] \notin {"connected", "asked"}
    BY DEF ConnectService, Waits
  <2> QED BY <1>1, <2>1, <2>2, MoveOn
<1>2. CASE /\ listening[s0] /\ client' = [client EXCEPT ![c] = "connected"]
           /\ pending' = [pending EXCEPT ![s0] = Append(@, c)]
  <2> USE DEF IInv
  <2>1. /\ client[c] = "directed" /\ client'[c] = "connected"
        /\ \A d : d # c => client'[d] = client[d]
        /\ UNCHANGED <<reply, answer, backlog, pc, cur, i, all_busy, listening, is_busy, holder,
                       at, serving>>
    BY <1>2 DEF ConnectService, TypeOK, mainVars, marks
  <2>2. ASSUME s0 \in Server PROVE pending[s0] = <<>> /\ serving[s0] = NoClient
    <3>1. Claims(c, s0) /\ ~Came(c, s0)
      BY <2>1 DEF Claims, Came
    <3>2. \A d \in Client : Claims(d, s0) => d = c
      BY <2>2, <3>1 DEF OneClaim
    <3>3. pending[s0] = <<>>
      BY <2>2, <3>1, <3>2 DEF ServerInv, Claims
    <3>4. serving[s0] = NoClient
      BY <2>2, <3>1, <3>2 DEF ServerInv, Claims, Came
    <3> QED BY <3>3, <3>4
  <2>3. s0 \notin Server => pending' = pending
    BY <1>2 DEF TypeOK
  <2>4. s0 \in Server => pending'[s0] = <<c>> /\ \A s : s # s0 => pending'[s] = pending[s]
    BY <1>2, <2>2, One DEF TypeOK
  <2>5. pending' \in [Server -> Seq(Client)]
    <3>1. s0 \in Server => Append(pending[s0], c) \in Seq(Client)
      BY DEF TypeOK
    <3> QED BY <1>2, <3>1 DEF TypeOK
  <2>6. TypeOK'
    BY <1>2, <2>1, <2>5 DEF TypeOK
  <2>7. BacklogInv' /\ CurInv' /\ IdleInv'
    BY <2>1 DEF BacklogInv, CurInv, IdleInv, Waits
  <2>8. \A d, s : Came(d, s) => Came(d, s)'
    BY <2>1 DEF Came
  <2>9. Came(c, s0)'
    BY <2>1 DEF Came
  <2>10. ServerInv'
    BY <2>1, <2>2, <2>3, <2>4, <2>8, <2>9 DEF ServerInv
  <2>11. OneClaim'
    <3>1. \A s \in Server, d \in Client : Claims(d, s)' => Claims(d, s)
      <4> TAKE s \in Server, d \in Client
      <4>1. CASE s = s0
        <5>1. <<d>> = <<c>> => d = c
          OBVIOUS
        <5> QED BY <4>1, <5>1, <2>1, <2>4 DEF Claims
      <4>2. CASE s # s0
        BY <4>2, <2>1, <2>3, <2>4 DEF Claims
      <4> QED BY <4>1, <4>2
    <3> QED BY <2>1, <3>1 DEF OneClaim
  <2> QED BY <2>6, <2>7, <2>10, <2>11
<1> QED BY <1>1, <1>2 DEF ConnectService

LEMMA ClientSteps ==
  ASSUME IInv, NEW c \in Client, ConnectMain(c) \/ ClientStep(c) \/ Die(c)
  PROVE  IInv'
<1>1. CASE ReadReply(c)
  <2>1. /\ ~Waits(c) /\ client[c] = "waiting" /\ client[c] \notin {"connected", "asked"}
        /\ UNCHANGED <<reply, answer, mainVars, listening, marks, at, serving, pending>>
    BY <1>1 DEF ReadReply, Waits
  <2>2. CASE reply[c] = Full
    <3>1. client' = [client EXCEPT ![c] = "refused"]
      BY <1>1, <2>2 DEF ReadReply
    <3> QED BY <2>1, <3>1, MoveOn
  <2>3. CASE reply[c] # Full
    <3>1. client' = [client EXCEPT ![c] = "directed"]
      BY <1>1, <2>3 DEF ReadReply
    <3> QED BY <2>1, <2>3, <3>1, MoveOn
  <2> QED BY <2>2, <2>3
<1>2. CASE SendTime(c)
  <2>1. ~Waits(c)
    BY <1>2 DEF SendTime, Waits
  <2> QED BY <1>2, <2>1, MoveOn DEF SendTime
<1>3. CASE ReadAnswer(c)
  <2>1. ~Waits(c)
    BY <1>3 DEF ReadAnswer, Waits
  <2> QED BY <1>3, <2>1, MoveOn DEF ReadAnswer
<1>4. CASE Die(c)
  BY <1>4, MoveOn DEF Die
<1> QED BY <1>1, <1>2, <1>3, <1>4, ConnectMainStep, ConnectServiceStep DEF ClientStep

-----------------------------------------------------------------------------
(* The main server.                                                        *)

LEMMA InitServersStep == IInv /\ InitServers => IInv'
<1> SUFFICES ASSUME IInv, InitServers PROVE IInv'
  OBVIOUS
<1> USE DEF IInv
<1>1. /\ pc = "init" /\ pc' = "accept"
      /\ listening' \in [Server -> BOOLEAN] /\ at' \in [Server -> {"off", "accept"}]
      /\ UNCHANGED <<client, reply, answer, backlog, cur, i, all_busy, is_busy, holder, serving, pending>>
  BY DEF InitServers, clientVars, marks
<1>2. TypeOK'
  BY <1>1 DEF TypeOK
<1>3. BacklogInv' /\ CurInv' /\ IdleInv'
  BY <1>1 DEF BacklogInv, CurInv, IdleInv, Waits
<1>4. ServerInv'
  BY <1>1 DEF ServerInv, Came
<1>5. OneClaim'
  BY <1>1 DEF OneClaim, Claims
<1> QED BY <1>2, <1>3, <1>4, <1>5

LEMMA AcceptClientStep == IInv /\ AcceptClient => IInv'
<1> SUFFICES ASSUME IInv, AcceptClient PROVE IInv'
  OBVIOUS
<1> USE DEF IInv
<1>1. /\ backlog # <<>> /\ backlog \in Seq(Client) /\ cur' = Head(backlog) /\ backlog' = Tail(backlog)
      /\ pc = "accept" /\ pc' = "find" /\ i' = 0 /\ all_busy' \in BOOLEAN
      /\ UNCHANGED <<client, reply, answer, listening, is_busy, holder, at, serving, pending>>
  BY DEF AcceptClient, TypeOK, clientVars, marks
<1>2. /\ backlog' \in Seq(Client) /\ cur' \in Client /\ cur' \in Queued(backlog)
      /\ Queued(backlog') \subseteq Queued(backlog) /\ cur' \notin Queued(backlog')
      /\ \A j, k \in 1..Len(backlog') : backlog'[j] = backlog'[k] => j = k
  BY <1>1, QueuedTail DEF BacklogInv
<1>3. TypeOK'
  BY <1>1, <1>2, MaxClientsAssumption DEF TypeOK
<1>4. BacklogInv' /\ CurInv' /\ IdleInv'
  BY <1>1, <1>2 DEF BacklogInv, CurInv, IdleInv, Waits
<1>5. ServerInv'
  BY <1>1 DEF ServerInv, Came
<1>6. OneClaim'
  BY <1>1 DEF OneClaim, Claims
<1> QED BY <1>3, <1>4, <1>5, <1>6

\* The server that is marked expected nobody; now it expects cur.
LEMMA FindNextStep == IInv /\ FindNext => IInv'
<1> SUFFICES ASSUME IInv, FindNext PROVE IInv'
  OBVIOUS
<1> USE DEF IInv
<1>1. /\ pc = "find" /\ i \in Server /\ cur \in Client
      /\ UNCHANGED <<client, reply, answer, backlog, cur, listening, at, serving, pending>>
  BY MaxClientsAssumption DEF FindNext, TypeOK, clientVars, Server, CurInv, marks
<1>2. pc' \in {"find", "reply"}
  BY <1>1 DEF FindNext
<1>3. BacklogInv' /\ CurInv' /\ IdleInv'
  BY <1>1, <1>2 DEF BacklogInv, CurInv, IdleInv, Waits
<1>4. ServerInv'
  BY <1>1, <1>2 DEF ServerInv, Came
<1>5. CASE is_busy[i] /\ i' = i + 1 /\ UNCHANGED <<pc, is_busy, holder, all_busy>>
  <2>1. TypeOK'
    BY <1>1, <1>5, MaxClientsAssumption DEF TypeOK, Server
  <2>2. OneClaim'
    BY <1>1, <1>5 DEF OneClaim, Claims
  <2> QED BY <1>3, <1>4, <2>1, <2>2
<1>6. CASE /\ ~is_busy[i] /\ MarkBusy(i) /\ pc' = "reply" /\ UNCHANGED i
           /\ holder' = [holder EXCEPT ![i] = cur] /\ all_busy' = FALSE
  <2>1. /\ is_busy' \in [Server -> BOOLEAN] /\ is_busy'[i] /\ holder'[i] = cur /\ cur # NoClient
        /\ \A s \in Server : s # i => is_busy'[s] = is_busy[s] /\ holder'[s] = holder[s]
    BY <1>1, <1>6, NoClientAssumption DEF MarkBusy, TypeOK
  <2>2. TypeOK'
    BY <1>1, <1>6, <2>1 DEF TypeOK
  <2>3. \A s \in Server, c \in Client : Claims(c, s)' => Claims(c, s) \/ (s = i /\ c = cur)
    <3> TAKE s \in Server, c \in Client
    <3>1. i' = i /\ cur' = cur /\ reply' = reply /\ client' = client /\ pending' = pending
          /\ serving' = serving
      BY <1>1, <1>6
    <3> QED BY <3>1 DEF Claims
  <2>4. \A c \in Client : ~Claims(c, i)
    BY <1>1, <1>6, NoClientAssumption DEF OneClaim
  <2>5. OneClaim'
    BY <1>1, <2>1, <2>3, <2>4 DEF OneClaim
  <2> QED BY <1>3, <1>4, <2>2, <2>5
<1> QED BY <1>5, <1>6 DEF FindNext, marks

LEMMA NoneFoundStep == IInv /\ NoneFound => IInv'
<1> SUFFICES ASSUME IInv, NoneFound PROVE IInv'
  OBVIOUS
<1> USE DEF IInv
<1>1. /\ pc = "find" /\ pc' = "reply" /\ i = MAX_CLIENTS /\ all_busy' = FALSE
      /\ UNCHANGED <<client, reply, answer, backlog, cur, i, listening, is_busy, holder, at,
                     serving, pending>>
  BY DEF NoneFound, clientVars, marks
<1>2. TypeOK'
  BY <1>1 DEF TypeOK
<1>3. BacklogInv' /\ CurInv' /\ IdleInv'
  BY <1>1 DEF BacklogInv, CurInv, IdleInv, Waits
<1>4. ServerInv'
  BY <1>1 DEF ServerInv, Came
<1>5. OneClaim'
  <2>1. \A s \in Server, c \in Client : Claims(c, s)' => Claims(c, s)
    BY <1>1, Numbers DEF Claims
  <2> QED BY <1>1, <2>1 DEF OneClaim
<1> QED BY <1>2, <1>3, <1>4, <1>5

\* cur claimed server i as the client at hand; now it does by what it was sent.
LEMMA SendReplyStep == IInv /\ SendReply => IInv'
<1> SUFFICES ASSUME IInv, SendReply PROVE IInv'
  OBVIOUS
<1> USE DEF IInv
<1> DEFINE sent == IF i < MAX_CLIENTS THEN i ELSE Full
<1>1. /\ pc = "reply" /\ pc' = "accept" /\ cur' = NoClient /\ i' = 0
      /\ cur \in Client /\ Waits(cur) /\ cur \notin Queued(backlog)
      /\ reply' = [reply EXCEPT ![cur] = sent]
      /\ UNCHANGED <<client, answer, backlog, all_busy, listening, is_busy, holder, at, serving, pending>>
  BY DEF SendReply, CurInv, PortOf, marks
<1>2. sent \in Server \cup {Full} /\ (sent \in Server => sent = i)
  BY MaxClientsAssumption, Numbers DEF TypeOK, Server
<1> HIDE DEF sent
<1>3. reply'[cur] = sent /\ \A d \in Client : d # cur => reply'[d] = reply[d]
  BY <1>1 DEF TypeOK
<1>4. TypeOK'
  BY <1>1, <1>2, MaxClientsAssumption DEF TypeOK
<1>5. \A c \in Queued(backlog) : c \in Client /\ c # cur
  BY <1>1 DEF Queued, TypeOK
<1>6. BacklogInv'
  BY <1>1, <1>3, <1>5 DEF BacklogInv, Waits
<1>7. CurInv' /\ IdleInv'
  BY <1>1, <1>3 DEF CurInv, IdleInv, Waits
<1>8. \A d \in Client : \A s \in Server : Came(d, s) => Came(d, s)'
  <2> TAKE d \in Client
  <2> TAKE s \in Server
  <2>1. Came(d, s) => d # cur
    BY <1>1, Numbers DEF Came, Waits
  <2> QED BY <1>1, <1>3, <2>1 DEF Came
<1>9. ServerInv'
  <2>1. \A d, s : Came(d, s) => d \in Client
    BY DEF Came
  <2> QED BY <1>1, <1>8, <2>1 DEF ServerInv
<1>10. OneClaim'
  <2>1. \A s \in Server, c \in Client : Claims(c, s)' => Claims(c, s)
    <3> TAKE s \in Server, c \in Client
    <3>1. CASE c = cur
      BY <3>1, <1>1, <1>2, <1>3, Numbers DEF Claims
    <3>2. CASE c # cur
      BY <3>2, <1>1, <1>3 DEF Claims
    <3> QED BY <3>1, <3>2
  <2> QED BY <1>1, <2>1 DEF OneClaim
<1> QED BY <1>4, <1>6, <1>7, <1>9, <1>10

-----------------------------------------------------------------------------
(* The service servers.                                                    *)

LEMMA AcceptServiceStep ==
  ASSUME IInv, NEW s \in Server, AcceptService(s)
  PROVE  IInv'
<1> USE DEF IInv
<1>1. PICK c \in Client : pending[s] = <<c>> /\ Came(c, s)
  BY DEF AcceptService, ServerInv
<1>2. /\ serving' = [serving EXCEPT ![s] = c] /\ pending' = [pending EXCEPT ![s] = <<>>]
      /\ at[s] = "accept" /\ at' = [at EXCEPT ![s] = "read"]
      /\ UNCHANGED <<client, reply, answer, backlog, pc, cur, i, all_busy, listening, is_busy, holder>>
  BY <1>1, One DEF AcceptService, clientVars, mainVars, marks
<1>3. /\ serving'[s] = c /\ pending'[s] = <<>> /\ at'[s] = "read"
      /\ \A r \in Server : r # s =>
           serving'[r] = serving[r] /\ pending'[r] = pending[r] /\ at'[r] = at[r]
  BY <1>2 DEF TypeOK
<1>4. TypeOK'
  BY <1>2 DEF TypeOK
<1>5. BacklogInv' /\ CurInv' /\ IdleInv'
  BY <1>2 DEF BacklogInv, CurInv, IdleInv, Waits
<1>6. \A d, r : Came(d, r)' = Came(d, r)
  BY <1>2 DEF Came
<1>7. c # NoClient /\ pc # "init"
  BY <1>2, NoClientAssumption DEF ServerInv
<1>8. ServerInv'
  BY <1>1, <1>2, <1>3, <1>6, <1>7 DEF ServerInv
<1>9. OneClaim'
  <2>1. \A r \in Server, d \in Client : Claims(d, r)' => Claims(d, r)
    <3> TAKE r \in Server, d \in Client
    <3>1. CASE r = s
      BY <3>1, <1>1, <1>2, <1>3, One DEF Claims
    <3>2. CASE r # s
      BY <3>2, <1>2, <1>3 DEF Claims
    <3> QED BY <3>1, <3>2
  <2> QED BY <1>2, <2>1 DEF OneClaim
<1> QED BY <1>4, <1>5, <1>8, <1>9

\* Reading, answering and closing do not change who is expected.
LEMMA ServeStep ==
  ASSUME IInv, NEW s \in Server, ReadRequest(s) \/ SendAnswer(s) \/ CloseClient(s)
  PROVE  IInv'
<1> USE DEF IInv
<1>1. /\ at[s] \in {"read", "send", "close"}
      /\ \E place \in {"send", "close", "release"} : at' = [at EXCEPT ![s] = place]
      /\ UNCHANGED <<client, reply, backlog, pc, cur, i, all_busy, listening, is_busy, holder,
                     serving, pending>>
  BY DEF ReadRequest, SendAnswer, CloseClient, clientVars, mainVars, marks
<1>2. serving[s] \in Client
  BY <1>1 DEF ServerInv, Came
<1>3. answer' \in [Client -> {"none", "time", "closed"}]
  <2>1. CASE ReadRequest(s)
    BY <2>1 DEF ReadRequest, clientVars, TypeOK, marks
  <2>2. CASE SendAnswer(s)
    BY <2>2 DEF SendAnswer, TypeOK
  <2>3. CASE CloseClient(s)
    <3>1. (IF answer[serving[s]] = "none" THEN "closed" ELSE answer[serving[s]])
            \in {"none", "time", "closed"}
      BY <1>2 DEF TypeOK
    <3>2. answer' = [answer EXCEPT ![serving[s]] =
                       IF answer[serving[s]] = "none" THEN "closed" ELSE answer[serving[s]]]
      BY <2>3 DEF CloseClient
    <3> QED BY <3>1, <3>2 DEF TypeOK
  <2> QED BY <2>1, <2>2, <2>3
<1>4. TypeOK'
  BY <1>1, <1>3 DEF TypeOK
<1>5. BacklogInv' /\ CurInv' /\ IdleInv'
  BY <1>1 DEF BacklogInv, CurInv, IdleInv, Waits
<1>6. \A r \in Server : at'[r] = at[r] \/ (r = s /\ at'[r] \in {"send", "close", "release"})
  <2>1. PICK place \in {"send", "close", "release"} : at' = [at EXCEPT ![s] = place]
    BY <1>1
  <2>2. at'[s] = place /\ \A r \in Server : r # s => at'[r] = at[r]
    BY <2>1 DEF TypeOK
  <2> QED BY <2>2
<1>7. serving[s] # NoClient /\ pc # "init"
  BY <1>1 DEF ServerInv
<1>8. ServerInv'
  BY <1>1, <1>6, <1>7 DEF ServerInv, Came
<1>9. OneClaim'
  BY <1>1 DEF OneClaim, Claims
<1> QED BY <1>4, <1>5, <1>8, <1>9

\* The client that is done was the only one expected.
LEMMA ReleaseStep ==
  ASSUME IInv, NEW s \in Server, Release(s)
  PROVE  IInv'
<1> USE DEF IInv
<1>1. /\ at[s] = "release" /\ serving' = [serving EXCEPT ![s] = NoClient]
      /\ at' = [at EXCEPT ![s] = "accept"] /\ is_busy' = [is_busy EXCEPT ![s] = FALSE]
      /\ holder' = [holder EXCEPT ![s] = NoClient]
      /\ UNCHANGED <<client, reply, answer, backlog, pc, cur, i, all_busy, listening, pending>>
  BY DEF Release, MarkFree, clientVars, mainVars, marks
<1>2. /\ serving[s] # NoClient /\ Came(serving[s], s) /\ pending[s] = <<>> /\ pc # "init"
      /\ serving[s] \in Client
  BY <1>1 DEF ServerInv, Came
<1>3. /\ serving'[s] = NoClient /\ at'[s] = "accept" /\ ~is_busy'[s] /\ holder'[s] = NoClient
      /\ \A r \in Server : r # s => /\ serving'[r] = serving[r] /\ is_busy'[r] = is_busy[r]
                                     /\ at'[r] = at[r] /\ holder'[r] = holder[r]
  BY <1>1 DEF TypeOK
<1>4. TypeOK'
  BY <1>1 DEF TypeOK
<1>5. BacklogInv' /\ CurInv' /\ IdleInv'
  BY <1>1 DEF BacklogInv, CurInv, IdleInv, Waits
<1>6. ServerInv'
  BY <1>1, <1>2, <1>3 DEF ServerInv, Came
<1>7. \A c \in Client : ~Claims(c, s)'
  <2> TAKE c \in Client
  <2>1. Claims(c, s) => c = serving[s]
    BY <1>2 DEF OneClaim, Claims
  <2>2. ~(pc = "reply" /\ i = s /\ serving[s] = cur)
    BY <1>2, Numbers DEF CurInv, Waits, Came
  <2> QED BY <1>1, <1>2, <1>3, <2>1, <2>2, NoClientAssumption, One DEF Claims, Came
<1>8. OneClaim'
  <2>1. \A r \in Server, c \in Client : r # s => Claims(c, r)' = Claims(c, r)
    BY <1>1, <1>3 DEF Claims
  <2> QED BY <1>3, <1>7, <2>1 DEF OneClaim
<1> QED BY <1>4, <1>5, <1>6, <1>8

-----------------------------------------------------------------------------
(* The theorems.                                                           *)

LEMMA InvStep == IInv /\ [Next]_vars => IInv'
<1> SUFFICES ASSUME IInv, [Next]_vars PROVE IInv'
  OBVIOUS
<1>1. CASE UNCHANGED vars
  BY <1>1 DEF vars, IInv, TypeOK, BacklogInv, CurInv, IdleInv, ServerInv, OneClaim, Waits, Came, Claims
<1>2. CASE MainStep
  BY <1>2, InitServersStep, AcceptClientStep, FindNextStep, NoneFoundStep, SendReplyStep DEF MainStep
<1>3. ASSUME NEW s \in Server, ServerStep(s) PROVE IInv'
  BY <1>3, AcceptServiceStep, ServeStep, ReleaseStep DEF ServerStep
<1>4. ASSUME NEW c \in Client, ConnectMain(c) \/ ClientStep(c) \/ Die(c) PROVE IInv'
  BY <1>4, ClientSteps
<1> QED BY <1>1, <1>2, <1>3, <1>4 DEF Next, Quiet

LEMMA InvCorrect == Spec => []IInv
BY InvInit, InvStep, PTL DEF Spec

\* Expected is the set of those with a claim.
LEMMA ExpectedClaims ==
  ASSUME IInv, NEW s \in Server
  PROVE  \A c \in Expected(s) : c \in Client /\ Claims(c, s)
<1> TAKE c \in Expected(s)
<1>1. CASE c \in {pending[s][k] : k \in DOMAIN pending[s]}
  <2>1. PICK d \in Client : pending[s] = <<d>>
    BY <1>1 DEF IInv, ServerInv
  <2>2. c = d
    BY <1>1, <2>1
  <2> QED BY <2>1, <2>2 DEF Claims
<1>2. CASE c \in {serving[s]} \ {NoClient}
  BY <1>2 DEF Claims, IInv, TypeOK
<1> QED BY <1>1, <1>2 DEF Expected, Claims

\* Every variable of the pool has its type.
THEOREM TypeCorrect == Spec => []TypeOK
<1>1. IInv => TypeOK
  BY DEF IInv
<1> QED BY <1>1, InvCorrect, PTL

\* No server is ever given to two clients, for any number of clients and
\* servers: a mark is only set on a server that nobody has been sent to and
\* only cleared after the one client it stands for.
THEOREM OneClientCorrect == Spec => []OneClientPerServer
<1>1. IInv => OneClientPerServer
  <2> SUFFICES ASSUME IInv, NEW s \in Server
               PROVE  /\ ~is_busy[s] => Expected(s) = {}
                      /\ \A c, d \in Expected(s) : c = d
    BY DEF OneClientPerServer
  <2> QED BY ExpectedClaims, NoClientAssumption DEF IInv, OneClaim
<1> QED BY <1>1, InvCorrect, PTL

-----------------------------------------------------------------------------
(* The pool.                                                               *)

poolVars == <<holder, Asking, all_busy, Served>>

\* A server is held by the client that was sent its address or is about to be;
\* only such a client is answered, and before its server is released.  If a
\* server was free when cur was accepted, the search has yet to come to one:
\* nobody but main marks a server.
GiftInv ==
  /\ \A s \in Server : holder[s] # NoClient =>
       reply[holder[s]] = s \/ (pc = "reply" /\ i = s /\ cur = holder[s])
  /\ \A c \in Client : answer[c] # "none" => reply[c] \in Server
  /\ \A s \in Server : at[s] = "release" => answer[serving[s]] # "none"
  /\ pc = "find" /\ ~all_busy => \E s \in Server : s >= i /\ ~is_busy[s]

LEMMA GiftInit == Init => GiftInv /\ Pool!Init
<1> SUFFICES ASSUME Init PROVE GiftInv /\ Pool!Init
  OBVIOUS
<1>1. Asking = NoClient /\ Served = {}
  BY DEF Init, Asking, Served
<1>2. Pool!Init
  BY <1>1 DEF Init, Pool!Init
<1>3. GiftInv
  BY DEF Init, GiftInv
<1> QED BY <1>2, <1>3

\* Clients only move on with what they were sent.
LEMMA ClientGift ==
  ASSUME GiftInv, NEW c \in Client, ConnectMain(c) \/ ClientStep(c) \/ Die(c)
  PROVE  GiftInv' /\ UNCHANGED poolVars
<1>1. UNCHANGED <<reply, answer, pc, cur, i, all_busy, is_busy, holder, at, serving>>
  BY DEF ConnectMain, ClientStep, ReadReply, ConnectService, SendTime, ReadAnswer, Die, mainVars, marks
<1>2. UNCHANGED poolVars
  BY <1>1 DEF poolVars, Asking, Served
<1> QED BY <1>1, <1>2 DEF GiftInv

LEMMA InitServersGift ==
  ASSUME GiftInv, InitServers
  PROVE  GiftInv' /\ UNCHANGED poolVars
<1>1. /\ pc = "init" /\ pc' = "accept" /\ \A s \in Server : at'[s] # "release"
      /\ UNCHANGED <<reply, answer, cur, i, all_busy, is_busy, holder, serving>>
  BY DEF InitServers, clientVars, marks
<1>2. UNCHANGED poolVars
  BY <1>1 DEF poolVars, Asking, Served
<1> QED BY <1>1, <1>2 DEF GiftInv

LEMMA AcceptClientGift ==
  ASSUME IInv, GiftInv, AcceptClient
  PROVE  GiftInv' /\ Pool!Next
<1>1. /\ pc = "accept" /\ pc' = "find" /\ i' = 0 /\ all_busy' = \A s \in Server : is_busy[s]
      /\ UNCHANGED <<reply, answer, is_busy, holder, at, serving>>
  BY DEF AcceptClient, clientVars, marks
<1>2. cur' \in Client /\ reply[cur'] = Nothing
  BY <1>1, AcceptClientStep DEF IInv, CurInv, Waits
<1>3. cur' \notin Served /\ \A s \in Server : holder[s] # cur'
  BY <1>1, <1>2, Numbers, NoClientAssumption DEF GiftInv, Served
<1>4. all_busy' = \A s \in Server : holder[s] # NoClient
  BY <1>1 DEF IInv, OneClaim
<1>5. Asking = NoClient /\ Asking' = cur' /\ Served' = Served
  BY <1>1 DEF Asking, Served
<1>6. Pool!Ask(cur')
  BY <1>1, <1>3, <1>4, <1>5 DEF Pool!Ask
<1>7. GiftInv'
  BY <1>1 DEF GiftInv, Server
<1> QED BY <1>2, <1>6, <1>7 DEF Pool!Next

LEMMA FindNextGift ==
  ASSUME IInv, GiftInv, FindNext
  PROVE  GiftInv' /\ [Pool!Next]_poolVars
<1>1. /\ pc = "find" /\ i \in Server /\ cur \in Client /\ cur # NoClient
      /\ UNCHANGED <<reply, answer, cur, at, serving>>
  BY MaxClientsAssumption, NoClientAssumption DEF FindNext, IInv, TypeOK, clientVars, Server, CurInv
<1>2. CASE is_busy[i] /\ i' = i + 1 /\ UNCHANGED <<pc, marks, all_busy>>
  <2>1. UNCHANGED poolVars
    BY <1>1, <1>2 DEF poolVars, Asking, Served, marks
  <2>2. \A s \in Server : s >= i /\ ~is_busy[s] => s >= i'
    BY <1>1, <1>2 DEF Server
  <2> QED BY <1>1, <1>2, <2>1, <2>2 DEF GiftInv, marks
<1>3. CASE /\ ~is_busy[i] /\ MarkBusy(i) /\ pc' = "reply" /\ UNCHANGED i
           /\ holder' = [holder EXCEPT ![i] = cur] /\ all_busy' = FALSE
  <2>1. Asking = cur /\ Asking' = NoClient /\ Served' = Served
    BY <1>1, <1>3 DEF Asking, Served
  <2>2. Pool!Give(i)
    BY <1>1, <1>3, <2>1 DEF Pool!Give, IInv, OneClaim
  <2>3. GiftInv'
    BY <1>1, <1>3 DEF GiftInv, IInv, TypeOK
  <2> QED BY <1>1, <2>2, <2>3 DEF Pool!Next
<1> QED BY <1>2, <1>3 DEF FindNext

\* Every server was busy when the client was accepted.
LEMMA NoneFoundGift ==
  ASSUME IInv, GiftInv, NoneFound
  PROVE  GiftInv' /\ Pool!Next
<1>1. /\ pc = "find" /\ i = MAX_CLIENTS /\ pc' = "reply" /\ all_busy' = FALSE
      /\ UNCHANGED <<reply, answer, cur, i, is_busy, holder, at, serving>>
  BY DEF NoneFound, clientVars, marks
<1>2. cur # NoClient
  BY <1>1, NoClientAssumption DEF IInv, CurInv
<1>3. all_busy
  <2>1. ~\E s \in Server : s >= i
    BY <1>1, MaxClientsAssumption DEF Server
  <2> QED BY <1>1, <2>1 DEF GiftInv, IInv, TypeOK
<1>4. Asking = cur /\ Asking' = NoClient /\ Served' = Served
  BY <1>1 DEF Asking, Served
<1>5. Pool!Refuse
  BY <1>1, <1>2, <1>3, <1>4 DEF Pool!Refuse
<1>6. GiftInv'
  BY <1>1 DEF GiftInv
<1> QED BY <1>5, <1>6 DEF Pool!Next

LEMMA SendReplyGift ==
  ASSUME IInv, GiftInv, SendReply
  PROVE  GiftInv' /\ UNCHANGED poolVars
<1>1. /\ pc = "reply" /\ pc' = "accept" /\ cur \in Client /\ reply[cur] = Nothing
      /\ reply' = [reply EXCEPT ![cur] = IF i < MAX_CLIENTS THEN i ELSE Full]
      /\ UNCHANGED <<answer, all_busy, is_busy, holder, at, serving>>
  BY DEF SendReply, PortOf, marks, IInv, CurInv, Waits
<1>2. UNCHANGED poolVars
  BY <1>1 DEF poolVars, Asking, Served
<1>3. answer[cur] = "none"
  BY <1>1, Numbers DEF GiftInv
<1>4. /\ \A c \in Client : c # cur => reply'[c] = reply[c]
      /\ i \in Server => reply'[cur] = i
  BY <1>1, MaxClientsAssumption DEF IInv, TypeOK, Server
<1>5. \A s \in Server : holder[s] # NoClient => holder[s] \in Client /\ reply'[holder[s]] = s
  <2> SUFFICES ASSUME NEW s \in Server, holder[s] # NoClient
               PROVE  holder[s] \in Client /\ reply'[holder[s]] = s
    OBVIOUS
  <2>1. holder[s] \in Client
    BY DEF IInv, TypeOK
  <2>2. CASE reply[holder[s]] = s
    BY <1>1, <1>4, <2>1, <2>2, Numbers
  <2>3. CASE i = s /\ cur = holder[s]
    BY <1>4, <2>1, <2>3
  <2> QED BY <2>1, <2>2, <2>3 DEF GiftInv
<1>6. GiftInv'
  BY <1>1, <1>3, <1>4, <1>5 DEF GiftInv
<1> QED BY <1>2, <1>6

\* A client is served by the server that it holds.
LEMMA ServerGift ==
  ASSUME IInv, GiftInv, NEW s \in Server, ServerStep(s)
  PROVE  GiftInv' /\ [Pool!Next]_poolVars
<1> DEFINE c == serving[s]
<1>1. /\ UNCHANGED <<client, reply, pc, cur, i, all_busy>> /\ Asking' = Asking
  BY DEF ServerStep, AcceptService, ReadRequest, SendAnswer, CloseClient, Release, clientVars, mainVars,
         Asking
<1>2. at[s] \in {"read", "send", "close", "release"} =>
        c \in Client /\ c # NoClient /\ reply[c] = s /\ holder[s] = c
  BY NoClientAssumption DEF IInv, ServerInv, Came, OneClaim, Claims
<1>3. CASE AcceptService(s) \/ ReadRequest(s)
  <2>1. /\ UNCHANGED <<answer, is_busy, holder>>
        /\ \A r \in Server : at'[r] = "release" => at[r] = "release" /\ serving'[r] = serving[r]
    BY <1>3 DEF AcceptService, ReadRequest, clientVars, marks, IInv, TypeOK
  <2>2. UNCHANGED poolVars
    BY <1>1, <2>1 DEF poolVars, Served
  <2> QED BY <1>1, <2>1, <2>2 DEF GiftInv
<1>4. CASE SendAnswer(s) \/ CloseClient(s)
  <2>1. /\ at[s] \in {"send", "close"} /\ UNCHANGED <<is_busy, holder, serving>>
        /\ \A r \in Server : at'[r] = "release" => r = s \/ at[r] = "release"
    BY <1>4 DEF SendAnswer, CloseClient, marks, IInv, TypeOK
  <2>2. answer'[c] # "none" /\ \A d \in Client : d # c => answer'[d] = answer[d]
    BY <1>2, <1>4, <2>1 DEF SendAnswer, CloseClient, IInv, TypeOK
  <2>3. Served' = Served \cup {c}
    BY <1>2, <2>1, <2>2 DEF Served
  <2>4. Pool!Serve(s)
    BY <1>1, <1>2, <2>1, <2>3 DEF Pool!Serve
  <2>5. \A r \in Server : at[r] = "release" => serving[r] \in Client
    BY DEF IInv, ServerInv, Came
  <2>6. GiftInv'
    BY <1>1, <1>2, <2>1, <2>2, <2>5 DEF GiftInv
  <2> QED BY <2>4, <2>6 DEF Pool!Next
<1>5. CASE Release(s)
  <2>1. /\ at[s] = "release" /\ holder' = [holder EXCEPT ![s] = NoClient] /\ UNCHANGED answer
        /\ \A r \in Server : r # s => /\ at'[r] = at[r] /\ serving'[r] = serving[r]
                                       /\ holder'[r] = holder[r] /\ is_busy'[r] = is_busy[r]
        /\ at'[s] = "accept" /\ holder'[s] = NoClient /\ ~is_busy'[s]
    BY <1>5 DEF Release, MarkFree, clientVars, IInv, TypeOK
  <2>2. Served' = Served /\ holder[s] \in Served
    BY <1>2, <2>1 DEF Served, GiftInv
  <2>3. Pool!Return(s)
    BY <1>1, <2>1, <2>2 DEF Pool!Return
  <2>4. \A r \in Server : ~is_busy[r] => ~is_busy'[r]
    BY <2>1
  <2>5. GiftInv'
    BY <1>1, <2>1, <2>4 DEF GiftInv
  <2> QED BY <2>3, <2>5 DEF Pool!Next
<1> QED BY <1>3, <1>4, <1>5 DEF ServerStep

LEMMA PoolStep == IInv /\ GiftInv /\ [Next]_vars => GiftInv' /\ [Pool!Next]_poolVars
<1> SUFFICES ASSUME IInv, GiftInv, [Next]_vars PROVE GiftInv' /\ [Pool!Next]_poolVars
  OBVIOUS
<1>1. CASE UNCHANGED vars
  BY <1>1 DEF vars, GiftInv, poolVars, Asking, Served
<1>2. CASE MainStep
  BY <1>2, InitServersGift, AcceptClientGift, FindNextGift, NoneFoundGift, SendReplyGift DEF MainStep
<1>3. ASSUME NEW s \in Server, ServerStep(s) PROVE GiftInv' /\ [Pool!Next]_poolVars
  BY <1>3, ServerGift
<1>4. ASSUME NEW c \in Client, ConnectMain(c) \/ ClientStep(c) \/ Die(c)
      PROVE  GiftInv' /\ UNCHANGED poolVars
  BY <1>4, ClientGift
<1> QED BY <1>1, <1>2, <1>3, <1>4 DEF Next, Quiet

\* The two servers, main's and the service one, implement a pool: a client is
\* refused only if none was free when it was accepted, is served by the server
\* that was marked for it, and no server comes back before it has served.
THEOREM PoolCorrect == Spec => PoolSpec
<1>1. Init => GiftInv /\ Pool!Init
  BY GiftInit
<1>2. Spec => [](IInv /\ GiftInv)
  BY <1>1, InvInit, InvStep, PoolStep, PTL DEF Spec
<1>3. Spec => [][Pool!Next]_poolVars
  BY <1>2, PoolStep, PTL DEF Spec
<1>4. Pool!Init /\ [][Pool!Next]_poolVars => Pool!Spec
  BY PTL DEF Pool!Spec, poolVars
<1> QED BY <1>1, <1>3, <1>4, PTL DEF Spec, PoolSpec

-----------------------------------------------------------------------------
(* Where the servers come to rest.                                         *)

\* A client waits for main in the backlog or as the one at hand, and is sent to
\* a server, where it finds somebody unless the server could not be set up.
PlaceInv ==
  \A c \in Client :
    /\ client[c] = "waiting" /\ reply[c] = Nothing =>
         c \in Queued(backlog) \/ (pc \in {"find", "reply"} /\ cur = c)
    /\ client[c] \in {"directed", "connected", "asked", "done", "failed"} => reply[c] \in Server
    /\ client[c] = "failed" => ~listening[reply[c]]
    /\ client[c] # "idle" => pc # "init"
    /\ client[c] \in {"idle", "waiting", "directed"} => answer[c] = "none"

\* A client that was not answered is still at its server.
AtServer(c) ==
  \/ pending[reply[c]] = <<c>>
  \/ serving[reply[c]] = c /\ at[reply[c]] \in {"read", "send", "close"}
UnservedInv ==
  \A c \in Client : client[c] \in {"connected", "asked"} /\ answer[c] = "none" => AtServer(c)

\* Whoever is not served yet goes on to send its request, or is gone.
StillComes(c) == answer[c] = "none" /\ client[c] \in {"connected", "asked", "gone"}
ThreadInv ==
  \A s \in Server :
    /\ listening[s] <=> at[s] # "off"
    /\ at[s] = "off" => pending[s] = <<>>
    /\ at[s] = "read" => StillComes(serving[s])
    /\ \A c \in Client : pending[s] = <<c>> => StillComes(c)

\* The client that a server was marked for is on its way to it, or there, or
\* will not come.
HolderInv ==
  \A s \in Server : holder[s] # NoClient =>
    \/ pc = "reply" /\ i = s /\ cur = holder[s]
    \/ /\ reply[holder[s]] = s
       /\ \/ client[holder[s]] \in {"waiting", "directed", "gone", "failed"}
          \/ serving[s] = holder[s] \/ pending[s] = <<holder[s]>>

RestInv == PlaceInv /\ UnservedInv /\ ThreadInv /\ HolderInv

LEMMA RestInit == Init => RestInv
<1> SUFFICES ASSUME Init PROVE RestInv
  OBVIOUS
<1> USE DEF Init
<1>1. PlaceInv /\ UnservedInv
  BY DEF PlaceInv, UnservedInv
<1>2. ThreadInv
  BY One DEF ThreadInv
<1>3. HolderInv
  BY DEF HolderInv
<1> QED BY <1>1, <1>2, <1>3 DEF RestInv

LEMMA ConnectMainRest ==
  ASSUME IInv, RestInv, NEW c \in Client, ConnectMain(c)
  PROVE  RestInv'
<1>1. /\ client[c] = "idle" /\ pc # "init" /\ client' = [client EXCEPT ![c] = "waiting"]
      /\ backlog' = Append(backlog, c) /\ backlog \in Seq(Client)
      /\ UNCHANGED <<reply, answer, pc, cur, i, listening, is_busy, holder, at, serving, pending>>
  BY DEF IInv, ConnectMain, TypeOK, marks
<1>2. client'[c] = "waiting" /\ \A d : d # c => client'[d] = client[d]
  BY <1>1 DEF IInv, TypeOK
<1>3. reply[c] = Nothing /\ c \notin Queued(backlog) /\ Queued(backlog') = Queued(backlog) \cup {c}
  BY <1>1, QueuedAppend DEF IInv, IdleInv, BacklogInv, Waits
<1> USE DEF RestInv
<1>4. PlaceInv'
  BY <1>1, <1>2, <1>3 DEF PlaceInv
<1>5. UnservedInv'
  BY <1>1, <1>2 DEF UnservedInv, AtServer
<1>6. ThreadInv'
  <2>1. \A d : StillComes(d) => StillComes(d)'
    BY <1>1, <1>2 DEF StillComes
  <2> QED BY <1>1, <2>1 DEF ThreadInv
<1>7. HolderInv'
  BY <1>1, <1>2 DEF HolderInv
<1> QED BY <1>4, <1>5, <1>6, <1>7

\* A client that moves on without a connection being made.
LEMMA MoveOnRest ==
  ASSUME IInv, RestInv, NEW c \in Client,
         NEW place \in {"directed", "failed", "refused", "asked", "done", "gone"},
         client' = [client EXCEPT ![c] = place],
         client[c] = "waiting" => place \in {"gone", "refused", "directed"},
         place = "directed" => reply[c] \in Server /\ client[c] = "waiting",
         place = "refused" => client[c] = "waiting" /\ reply[c] = Full,
         client[c] # "idle", place = "failed" => client[c] = "directed" /\ ~listening[reply[c]],
         place = "asked" => client[c] = "connected",
         place = "done" => client[c] = "asked" /\ answer[c] # "none",
         client[c] \in {"connected", "asked"} => place \in {"asked", "done", "gone"},
         UNCHANGED <<reply, answer, mainVars, listening, marks, at, serving, pending>>
  PROVE  RestInv'
<1> USE DEF RestInv
<1>1. /\ client'[c] = place /\ \A d : d # c => client'[d] = client[d]
      /\ UNCHANGED <<reply, answer, backlog, pc, cur, i, listening, is_busy, holder, at, serving, pending>>
  BY DEF IInv, TypeOK, mainVars, marks
<1>2. PlaceInv'
  BY <1>1 DEF PlaceInv
<1>3. UnservedInv'
  BY <1>1 DEF UnservedInv, AtServer
<1>4. ThreadInv'
  <2>1. \A d : StillComes(d) => StillComes(d)'
    BY <1>1 DEF StillComes
  <2> QED BY <1>1, <2>1 DEF ThreadInv
<1>5. HolderInv'
  <2> SUFFICES ASSUME NEW s \in Server, holder[s] # NoClient
               PROVE  \/ pc = "reply" /\ i = s /\ cur = holder[s]
                      \/ /\ reply[holder[s]] = s
                         /\ \/ client'[holder[s]] \in {"waiting", "directed", "gone", "failed"}
                            \/ serving[s] = holder[s] \/ pending[s] = <<holder[s]>>
    BY <1>1 DEF HolderInv
  <2>1. CASE holder[s] # c
    BY <1>1, <2>1 DEF HolderInv
  <2>2. CASE holder[s] = c /\ reply[c] = s
    BY <1>1, <2>2, Numbers DEF HolderInv
  <2>3. CASE holder[s] = c /\ reply[c] # s
    BY <1>1, <2>3 DEF HolderInv
  <2> QED BY <2>1, <2>2, <2>3
<1> QED BY <1>2, <1>3, <1>4, <1>5

LEMMA ConnectServiceRest ==
  ASSUME IInv, RestInv, NEW c \in Client, ConnectService(c),
         client' = [client EXCEPT ![c] = "connected"],
         pending' = [pending EXCEPT ![reply[c]] = Append(@, c)], listening[reply[c]]
  PROVE  RestInv'
<1> USE DEF RestInv
<1> DEFINE s0 == reply[c]
<1>1. /\ client[c] = "directed" /\ client'[c] = "connected"
      /\ \A d : d # c => client'[d] = client[d]
      /\ UNCHANGED <<reply, answer, backlog, pc, cur, i, listening, is_busy, holder, at, serving>>
  BY DEF ConnectService, IInv, TypeOK, mainVars, marks
<1>2. s0 \in Server /\ answer[c] = "none"
  BY <1>1 DEF PlaceInv
<1>3. pending[s0] = <<>>
  <2>1. Claims(c, s0) /\ ~Came(c, s0)
    BY <1>1 DEF Claims, Came
  <2>2. \A d \in Client : Claims(d, s0) => d = c
    BY <1>2, <2>1 DEF IInv, OneClaim
  <2> QED BY <1>2, <2>1, <2>2 DEF IInv, ServerInv, Claims
<1>4. pending'[s0] = <<c>> /\ \A s : s # s0 => pending'[s] = pending[s]
  BY <1>2, <1>3, One DEF IInv, TypeOK
<1>5. PlaceInv'
  BY <1>1, <1>2 DEF PlaceInv
<1>6. UnservedInv'
  <2> SUFFICES ASSUME NEW d \in Client, client'[d] \in {"connected", "asked"}, answer[d] = "none"
               PROVE  AtServer(d)'
    BY <1>1 DEF UnservedInv
  <2>1. CASE d = c
    BY <1>1, <1>4, <2>1 DEF AtServer
  <2>2. CASE d # c
    <3>1. AtServer(d)
      BY <1>1, <2>2 DEF UnservedInv
    <3>2. pending[reply[d]] = <<d>> => reply[d] # s0
      BY <1>3, One
    <3> QED BY <1>1, <1>4, <3>1, <3>2 DEF AtServer
  <2> QED BY <2>1, <2>2
<1>7. ThreadInv'
  <2>1. \A d : StillComes(d) => StillComes(d)'
    BY <1>1 DEF StillComes
  <2>2. StillComes(c)' /\ at[s0] # "off"
    BY <1>1, <1>2 DEF StillComes, ThreadInv
  <2>3. \A d \in Client : <<d>> = <<c>> => d = c
    OBVIOUS
  <2> QED BY <1>1, <1>2, <1>4, <2>1, <2>2, <2>3 DEF ThreadInv
<1>8. HolderInv'
  <2>1. holder[s0] = c
    BY <1>1, <1>2 DEF Claims, IInv, OneClaim
  <2> SUFFICES ASSUME NEW s \in Server, holder[s] # NoClient
               PROVE  \/ pc = "reply" /\ i = s /\ cur = holder[s]
                      \/ /\ reply[holder[s]] = s
                         /\ \/ client'[holder[s]] \in {"waiting", "directed", "gone", "failed"}
                            \/ serving[s] = holder[s] \/ pending'[s] = <<holder[s]>>
    BY <1>1 DEF HolderInv
  <2>2. CASE s = s0
    BY <1>4, <2>1, <2>2
  <2>3. CASE s # s0
    <3>1. reply[holder[s]] = s => holder[s] # c
      BY <2>3
    <3> QED BY <1>1, <1>4, <2>3, <3>1 DEF HolderInv
  <2> QED BY <2>2, <2>3
<1> QED BY <1>5, <1>6, <1>7, <1>8

LEMMA ClientRest ==
  ASSUME IInv, RestInv, NEW c \in Client, ConnectMain(c) \/ ClientStep(c) \/ Die(c)
  PROVE  RestInv'
<1>1. CASE ReadReply(c)
  <2>1. /\ client[c] = "waiting" /\ reply[c] # Nothing
        /\ UNCHANGED <<reply, answer, mainVars, listening, marks, at, serving, pending>>
    BY <1>1 DEF ReadReply
  <2>2. CASE reply[c] = Full
    <3>1. client' = [client EXCEPT ![c] = "refused"]
      BY <1>1, <2>2 DEF ReadReply
    <3> QED BY <2>1, <2>2, <3>1, MoveOnRest
  <2>3. CASE reply[c] # Full
    <3>1. client' = [client EXCEPT ![c] = "directed"]
      BY <1>1, <2>3 DEF ReadReply
    <3>2. reply[c] \in Server
      BY <2>1, <2>3 DEF IInv, TypeOK
    <3> QED BY <2>1, <3>1, <3>2, MoveOnRest
  <2> QED BY <2>2, <2>3
<1>2. CASE SendTime(c)
  BY <1>2, MoveOnRest DEF SendTime
<1>3. CASE ReadAnswer(c)
  BY <1>3, MoveOnRest DEF ReadAnswer
<1>4. CASE Die(c)
  BY <1>4, MoveOnRest DEF Die
<1>5. CASE ConnectService(c)
  <2>1. CASE listening[reply[c]]
    BY <1>5, <2>1, ConnectServiceRest DEF ConnectService
  <2>2. CASE ~listening[reply[c]]
    <3>1. /\ client[c] = "directed" /\ client' = [client EXCEPT ![c] = "failed"]
          /\ UNCHANGED <<reply, answer, mainVars, listening, marks, at, serving, pending>>
      BY <1>5, <2>2 DEF ConnectService
    <3> QED BY <2>2, <3>1, MoveOnRest
  <2> QED BY <2>1, <2>2
<1> QED BY <1>1, <1>2, <1>3, <1>4, <1>5, ConnectMainRest DEF ClientStep

LEMMA InitServersRest == IInv /\ RestInv /\ InitServers => RestInv'
<1> SUFFICES ASSUME IInv, RestInv, InitServers PROVE RestInv'
  OBVIOUS
<1> USE DEF RestInv
<1>1. /\ pc = "init" /\ pc' = "accept"
      /\ \A s \in Server : at[s] = "off" /\ (listening'[s] <=> at'[s] # "off")
                           /\ at'[s] \in {"off", "accept"}
      /\ UNCHANGED <<client, reply, answer, backlog, cur, i, is_busy, holder, serving, pending>>
  <2>1. /\ pc = "init" /\ pc' = "accept"
        /\ UNCHANGED <<client, reply, answer, backlog, cur, i, is_busy, holder, serving, pending>>
    BY DEF InitServers, clientVars, marks
  <2>2. PICK up \in SUBSET Server :
          /\ listening' = [s \in Server |-> s \in up]
          /\ at' = [s \in Server |-> IF s \in up THEN "accept" ELSE "off"]
    BY DEF InitServers
  <2> SUFFICES ASSUME NEW s \in Server
               PROVE  /\ at[s] = "off" /\ (listening'[s] <=> at'[s] # "off")
                      /\ at'[s] \in {"off", "accept"}
    BY <2>1
  <2>3. at[s] = "off"
    BY <2>1 DEF IInv, ServerInv
  <2>4. listening'[s] = (s \in up) /\ at'[s] = IF s \in up THEN "accept" ELSE "off"
    BY <2>2
  <2> QED BY <2>3, <2>4
<1>2. \A c \in Client : client[c] = "idle"
  BY <1>1 DEF PlaceInv
<1>3. PlaceInv' /\ UnservedInv'
  BY <1>1, <1>2 DEF PlaceInv, UnservedInv
<1>4. ThreadInv'
  <2>1. \A c : StillComes(c)' = StillComes(c)
    BY <1>1 DEF StillComes
  <2> QED BY <1>1, <2>1 DEF ThreadInv
<1>5. HolderInv'
  BY <1>1 DEF HolderInv
<1> QED BY <1>3, <1>4, <1>5

LEMMA AcceptClientRest == IInv /\ RestInv /\ AcceptClient => RestInv'
<1> SUFFICES ASSUME IInv, RestInv, AcceptClient PROVE RestInv'
  OBVIOUS
<1> USE DEF RestInv
<1>1. /\ backlog # <<>> /\ backlog \in Seq(Client) /\ cur' = Head(backlog) /\ backlog' = Tail(backlog)
      /\ pc = "accept" /\ pc' = "find"
      /\ UNCHANGED <<client, reply, answer, listening, is_busy, holder, at, serving, pending>>
  BY DEF AcceptClient, IInv, TypeOK, clientVars, marks
<1>2. \A c \in Queued(backlog) : c = cur' \/ c \in Queued(backlog')
  <2> SUFFICES ASSUME NEW k \in 1..Len(backlog)
               PROVE  backlog[k] = Head(backlog) \/ backlog[k] \in Queued(Tail(backlog))
    BY <1>1 DEF Queued
  <2>1. CASE k = 1
    BY <1>1, <2>1
  <2>2. CASE k # 1
    <3>1. k - 1 \in 1..Len(Tail(backlog)) /\ Tail(backlog)[k - 1] = backlog[k]
      BY <1>1, <2>2
    <3> QED BY <3>1 DEF Queued
  <2> QED BY <2>1, <2>2
<1>3. PlaceInv'
  BY <1>1, <1>2 DEF PlaceInv
<1>4. UnservedInv'
  BY <1>1 DEF UnservedInv, AtServer
<1>5. ThreadInv'
  BY <1>1 DEF ThreadInv, StillComes
<1>6. HolderInv'
  BY <1>1 DEF HolderInv
<1> QED BY <1>3, <1>4, <1>5, <1>6

LEMMA FindRest == IInv /\ RestInv /\ (FindNext \/ NoneFound) => RestInv'
<1> SUFFICES ASSUME IInv, RestInv, FindNext \/ NoneFound PROVE RestInv'
  OBVIOUS
<1> USE DEF RestInv
<1>1. /\ pc = "find" /\ pc' \in {"find", "reply"} /\ cur \in Client
      /\ UNCHANGED <<client, reply, answer, backlog, cur, listening, at, serving, pending>>
  BY DEF FindNext, NoneFound, clientVars, IInv, CurInv
<1>2. PlaceInv'
  BY <1>1 DEF PlaceInv
<1>3. UnservedInv'
  BY <1>1 DEF UnservedInv, AtServer
<1>4. ThreadInv'
  BY <1>1 DEF ThreadInv, StillComes
<1>5. HolderInv'
  <2>1. CASE UNCHANGED holder
    BY <1>1, <2>1 DEF HolderInv
  <2>2. CASE pc' = "reply" /\ i' = i /\ i \in Server /\ holder' = [holder EXCEPT ![i] = cur]
    <3>1. holder'[i] = cur /\ \A s \in Server : s # i => holder'[s] = holder[s]
      BY <2>2 DEF IInv, TypeOK
    <3> QED BY <1>1, <2>2, <3>1 DEF HolderInv
  <2>3. i < MAX_CLIENTS => i \in Server
    BY MaxClientsAssumption DEF IInv, TypeOK, Server
  <2> QED BY <2>1, <2>2, <2>3 DEF FindNext, NoneFound, marks
<1> QED BY <1>2, <1>3, <1>4, <1>5

\* The client at hand is sent to the server that was marked for it.
LEMMA SendReplyRest == IInv /\ RestInv /\ SendReply => RestInv'
<1> SUFFICES ASSUME IInv, RestInv, SendReply PROVE RestInv'
  OBVIOUS
<1> USE DEF RestInv
<1> DEFINE sent == IF i < MAX_CLIENTS THEN i ELSE Full
<1>1. /\ pc = "reply" /\ pc' = "accept" /\ cur \in Client /\ Waits(cur)
      /\ reply' = [reply EXCEPT ![cur] = sent]
      /\ UNCHANGED <<client, answer, backlog, listening, is_busy, holder, at, serving, pending>>
  BY DEF SendReply, IInv, CurInv, PortOf, marks
<1>2. sent # Nothing /\ (i \in Server => sent = i)
  BY MaxClientsAssumption, Numbers DEF IInv, TypeOK, Server
<1> HIDE DEF sent
<1>3. reply'[cur] = sent /\ \A d \in Client : d # cur => reply'[d] = reply[d]
  BY <1>1 DEF IInv, TypeOK
<1>4. client[cur] \in {"waiting", "gone"} /\ reply[cur] = Nothing
  BY <1>1 DEF Waits
<1>5. PlaceInv'
  BY <1>1, <1>2, <1>3, <1>4 DEF PlaceInv
<1>6. UnservedInv'
  <2> SUFFICES ASSUME NEW d \in Client, client[d] \in {"connected", "asked"}, answer[d] = "none"
               PROVE  AtServer(d)'
    BY <1>1 DEF UnservedInv
  <2> QED BY <1>1, <1>3, <1>4 DEF UnservedInv, AtServer
<1>7. ThreadInv'
  BY <1>1 DEF ThreadInv, StillComes
<1>8. HolderInv'
  <2> SUFFICES ASSUME NEW s \in Server, holder[s] # NoClient
               PROVE  /\ reply'[holder[s]] = s
                      /\ \/ client[holder[s]] \in {"waiting", "directed", "gone", "failed"}
                         \/ serving[s] = holder[s] \/ pending[s] = <<holder[s]>>
    BY <1>1 DEF HolderInv
  <2>1. holder[s] \in Client
    BY DEF IInv, TypeOK
  <2>2. CASE i = s /\ cur = holder[s]
    BY <1>2, <1>3, <1>4, <2>2
  <2>3. CASE ~(i = s /\ cur = holder[s])
    <3>1. /\ reply[holder[s]] = s
          /\ \/ client[holder[s]] \in {"waiting", "directed", "gone", "failed"}
             \/ serving[s] = holder[s] \/ pending[s] = <<holder[s]>>
      BY <2>3 DEF HolderInv
    <3>2. holder[s] # cur
      BY <1>4, <3>1, Numbers
    <3> QED BY <1>3, <2>1, <3>1, <3>2
  <2> QED BY <2>2, <2>3
<1> QED BY <1>5, <1>6, <1>7, <1>8

LEMMA AcceptServiceRest ==
  ASSUME IInv, RestInv, NEW s \in Server, AcceptService(s)
  PROVE  RestInv'
<1> USE DEF RestInv
<1>1. PICK c \in Client : pending[s] = <<c>> /\ Came(c, s)
  BY DEF AcceptService, IInv, ServerInv
<1>2. /\ at[s] = "accept"
      /\ UNCHANGED <<client, reply, answer, backlog, pc, cur, i, listening, is_busy, holder>>
  BY DEF AcceptService, clientVars, mainVars, marks
<1>3. /\ serving'[s] = c /\ pending'[s] = <<>> /\ at'[s] = "read"
      /\ \A r \in Server : r # s =>
           serving'[r] = serving[r] /\ pending'[r] = pending[r] /\ at'[r] = at[r]
  BY <1>1, One DEF AcceptService, IInv, TypeOK
<1>4. PlaceInv'
  BY <1>2 DEF PlaceInv
<1>5. UnservedInv'
  <2> SUFFICES ASSUME NEW d \in Client, client[d] \in {"connected", "asked"}, answer[d] = "none"
               PROVE  AtServer(d)'
    BY <1>2 DEF UnservedInv
  <2>1. AtServer(d) /\ reply[d] \in Server
    BY DEF UnservedInv, PlaceInv
  <2>2. CASE reply[d] = s
    <3>1. pending[s] = <<d>>
      BY <1>2, <2>1, <2>2 DEF AtServer
    <3>2. d = c
      BY <1>1, <3>1
    <3> QED BY <1>2, <1>3, <2>2, <3>2 DEF AtServer
  <2>3. CASE reply[d] # s
    BY <1>2, <1>3, <2>1, <2>3 DEF AtServer
  <2> QED BY <2>2, <2>3
<1>6. ThreadInv'
  <2>1. StillComes(c) /\ \A d : StillComes(d)' = StillComes(d)
    BY <1>1, <1>2 DEF ThreadInv, StillComes
  <2>2. listening[s]
    BY <1>2 DEF ThreadInv
  <2> QED BY <1>2, <1>3, <2>1, <2>2, One DEF ThreadInv
<1>7. HolderInv'
  <2> SUFFICES ASSUME NEW r \in Server, holder[r] # NoClient
               PROVE  \/ pc = "reply" /\ i = r /\ cur = holder[r]
                      \/ /\ reply[holder[r]] = r
                         /\ \/ client[holder[r]] \in {"waiting", "directed", "gone", "failed"}
                            \/ serving'[r] = holder[r] \/ pending'[r] = <<holder[r]>>
    BY <1>2 DEF HolderInv
  <2>1. CASE r = s
    <3>1. holder[s] = c
      BY <1>1 DEF Claims, IInv, OneClaim
    <3>2. \/ pc = "reply" /\ i = s /\ cur = c
          \/ reply[c] = s
      BY <2>1, <3>1 DEF HolderInv
    <3> QED BY <1>3, <2>1, <3>1, <3>2
  <2>2. CASE r # s
    BY <1>3, <2>2 DEF HolderInv
  <2> QED BY <2>1, <2>2
<1> QED BY <1>4, <1>5, <1>6, <1>7

\* A server answers and closes the one client that it serves.
LEMMA ServeRest ==
  ASSUME IInv, RestInv, NEW s \in Server, ReadRequest(s) \/ SendAnswer(s) \/ CloseClient(s)
  PROVE  RestInv'
<1> USE DEF RestInv
<1> DEFINE c0 == serving[s]
<1>1. /\ at[s] \in {"read", "send", "close"} /\ at'[s] \in {"send", "close", "release"}
      /\ \A r \in Server : r # s => at'[r] = at[r]
      /\ UNCHANGED <<client, reply, backlog, pc, cur, i, listening, is_busy, holder, serving, pending>>
  BY DEF ReadRequest, SendAnswer, CloseClient, clientVars, mainVars, marks, IInv, TypeOK
<1>2. c0 \in Client /\ Came(c0, s) /\ pending[s] = <<>>
  BY <1>1 DEF IInv, ServerInv, Came
<1>3. /\ \A d \in Client : d # c0 => answer'[d] = answer[d]
      /\ at'[s] = "release" => answer'[c0] # "none"
      /\ answer[c0] # "none" => answer'[c0] # "none"
  BY <1>2 DEF ReadRequest, SendAnswer, CloseClient, clientVars, IInv, TypeOK
<1> HIDE DEF c0
<1>4. PlaceInv'
  BY <1>1, <1>2, <1>3 DEF PlaceInv, Came
<1>5. UnservedInv'
  <2> SUFFICES ASSUME NEW d \in Client, client[d] \in {"connected", "asked"}, answer'[d] = "none"
               PROVE  AtServer(d)'
    BY <1>1 DEF UnservedInv
  <2>1. answer[d] = "none"
    BY <1>3
  <2>2. AtServer(d) /\ reply[d] \in Server
    BY <2>1 DEF UnservedInv, PlaceInv
  <2>3. CASE reply[d] = s
    <3>1. c0 = d
      BY <1>2, <2>2, <2>3, One DEF AtServer, c0
    <3>2. at'[s] # "release"
      BY <1>3, <3>1
    <3> QED BY <1>1, <2>3, <3>1, <3>2 DEF AtServer, c0
  <2>4. CASE reply[d] # s
    BY <1>1, <2>2, <2>4 DEF AtServer
  <2> QED BY <2>3, <2>4
<1>6. ThreadInv'
  <2>1. \A d \in Client : reply[d] # s => StillComes(d)' = StillComes(d)
    BY <1>1, <1>2, <1>3 DEF StillComes, Came
  <2>2. \A r \in Server : r # s => /\ at[r] = "read" => serving[r] \in Client /\ reply[serving[r]] # s
                                   /\ \A d \in Client : pending[r] = <<d>> => reply[d] # s
    <3> SUFFICES ASSUME NEW r \in Server, r # s
                 PROVE  /\ at[r] = "read" => serving[r] \in Client /\ reply[serving[r]] # s
                        /\ \A d \in Client : pending[r] = <<d>> => reply[d] # s
      OBVIOUS
    <3>1. at[r] = "read" => serving[r] \in Client /\ reply[serving[r]] # s
      BY DEF IInv, ServerInv, Came
    <3>2. ASSUME NEW d \in Client, pending[r] = <<d>> PROVE reply[d] # s
      <4>1. PICK e \in Client : pending[r] = <<e>> /\ Came(e, r)
        BY <3>2, One DEF IInv, ServerInv
      <4>2. e = d
        BY <3>2, <4>1
      <4> QED BY <4>1, <4>2 DEF Came
    <3> QED BY <3>1, <3>2
  <2> SUFFICES ASSUME NEW r \in Server
               PROVE  /\ listening[r] <=> at'[r] # "off"
                      /\ at'[r] = "off" => pending[r] = <<>>
                      /\ at'[r] = "read" => StillComes(serving[r])'
                      /\ \A d \in Client : pending[r] = <<d>> => StillComes(d)'
    BY <1>1 DEF ThreadInv, StillComes
  <2>3. CASE r = s
    BY <1>1, <1>2, <2>3, One DEF ThreadInv
  <2>4. CASE r # s
    BY <1>1, <2>1, <2>2, <2>4 DEF ThreadInv
  <2> QED BY <2>3, <2>4
<1>7. HolderInv'
  BY <1>1 DEF HolderInv
<1> QED BY <1>4, <1>5, <1>6, <1>7

LEMMA ReleaseRest ==
  ASSUME IInv, RestInv, NEW s \in Server, Release(s)
  PROVE  RestInv'
<1> USE DEF RestInv
<1>1. /\ at[s] = "release" /\ at'[s] = "accept" /\ serving'[s] = NoClient /\ holder'[s] = NoClient
      /\ \A r \in Server : r # s => serving'[r] = serving[r] /\ at'[r] = at[r] /\ holder'[r] = holder[r]
      /\ UNCHANGED <<client, reply, answer, backlog, pc, cur, i, listening, pending>>
  BY DEF Release, clientVars, mainVars, IInv, TypeOK
<1>2. PlaceInv'
  BY <1>1 DEF PlaceInv
<1>3. UnservedInv'
  <2> SUFFICES ASSUME NEW d \in Client, client[d] \in {"connected", "asked"}, answer[d] = "none"
               PROVE  AtServer(d)'
    BY <1>1 DEF UnservedInv
  <2>1. AtServer(d) /\ reply[d] \in Server
    BY DEF UnservedInv, PlaceInv
  <2> QED BY <1>1, <2>1 DEF AtServer
<1>4. ThreadInv'
  <2>1. \A r \in Server : at'[r] = "read" => at[r] = "read" /\ serving'[r] = serving[r]
    BY <1>1
  <2>2. \A d : StillComes(d)' = StillComes(d)
    BY <1>1 DEF StillComes
  <2>3. \A r \in Server : at'[r] = "off" <=> at[r] = "off"
    BY <1>1
  <2> QED BY <1>1, <2>1, <2>2, <2>3 DEF ThreadInv
<1>5. HolderInv'
  BY <1>1 DEF HolderInv
<1> QED BY <1>2, <1>3, <1>4, <1>5

LEMMA RestStep == IInv /\ RestInv /\ [Next]_vars => RestInv'
<1> SUFFICES ASSUME IInv, RestInv, [Next]_vars PROVE RestInv'
  OBVIOUS
<1>1. CASE UNCHANGED vars
  BY <1>1 DEF vars, RestInv, PlaceInv, UnservedInv, ThreadInv, HolderInv, AtServer, StillComes
<1>2. CASE MainStep
  BY <1>2, InitServersRest, AcceptClientRest, FindRest, SendReplyRest DEF MainStep
<1>3. ASSUME NEW s \in Server, ServerStep(s) PROVE RestInv'
  BY <1>3, AcceptServiceRest, ServeRest, ReleaseRest DEF ServerStep
<1>4. ASSUME NEW c \in Client, ConnectMain(c) \/ ClientStep(c) \/ Die(c) PROVE RestInv'
  BY <1>4, ClientRest
<1> QED BY <1>1, <1>2, <1>3, <1>4 DEF Next, Quiet

LEMMA Resting == Spec => []RestInv
BY RestInit, RestStep, InvCorrect, PTL DEF Spec

LEMMA Rests == IInv /\ RestInv => RestsOnlyLost
<1> SUFFICES ASSUME IInv, RestInv, ~MainCan,
                    \A s \in Server : ~ServerCan(s), \A c \in Client : ~ClientCan(c)
             PROVE  /\ \A c \in Client : client[c] \in {"idle", "done", "refused", "failed", "gone"}
                    /\ \A s \in Server : is_busy[s] => Lost(s)
  BY DEF RestsOnlyLost
<1> USE DEF RestInv
<1>1. pc = "accept" /\ Queued(backlog) = {}
  BY DEF MainCan, Queued
\* No server is at work: the client that it would wait for goes on.
<1>2. \A s \in Server : at[s] \in {"off", "accept"} /\ serving[s] = NoClient /\ pending[s] = <<>>
  <2> TAKE s \in Server
  <2>1. at[s] # "read"
    <3> SUFFICES ASSUME at[s] = "read" PROVE FALSE
      OBVIOUS
    <3>1. serving[s] \in Client /\ StillComes(serving[s])
      BY DEF ThreadInv, IInv, ServerInv, Came
    <3> QED BY <3>1 DEF StillComes, ClientCan, ServerCan
  <2>2. at[s] \in {"off", "accept"}
    BY <2>1 DEF ServerCan, IInv, TypeOK
  <2> QED BY <2>2 DEF ServerCan, ThreadInv, IInv, ServerInv
<1>3. ASSUME NEW c \in Client PROVE client[c] \in {"idle", "done", "refused", "failed", "gone"}
  <2>1. client[c] # "waiting"
    BY <1>1 DEF ClientCan, PlaceInv
  <2>2. client[c] \notin {"directed", "connected"}
    BY DEF ClientCan
  <2>3. client[c] # "asked"
    <3> SUFFICES ASSUME client[c] = "asked" PROVE FALSE
      OBVIOUS
    <3>1. answer[c] = "none" /\ reply[c] \in Server
      BY DEF ClientCan, PlaceInv
    <3>2. AtServer(c)
      BY <3>1 DEF UnservedInv
    <3> QED BY <1>2, <3>1, <3>2, One DEF AtServer
  <2> QED BY <2>1, <2>2, <2>3 DEF IInv, TypeOK
<1>4. ASSUME NEW s \in Server, is_busy[s] PROVE Lost(s)
  <2>1. Expected(s) = {}
    <3>1. ASSUME NEW c \in Expected(s) PROVE FALSE
      <4>1. c \in Client /\ Claims(c, s)
        BY ExpectedClaims
      <4> QED BY <1>1, <1>2, <1>3, <4>1, NoClientAssumption, One DEF Claims
    <3> QED BY <3>1
  <2>2. holder[s] \in Client
    BY <1>4 DEF IInv, OneClaim, TypeOK
  <2>3. /\ reply[holder[s]] = s
        /\ client[holder[s]] \in {"waiting", "directed", "gone", "failed"}
    BY <1>1, <1>2, <2>2, NoClientAssumption, One DEF HolderInv
  <2>4. client[holder[s]] = "gone" \/ (client[holder[s]] = "failed" /\ ~listening[s])
    BY <1>3, <2>2, <2>3 DEF PlaceInv
  <2> QED BY <1>2, <2>1, <2>2, <2>3, <2>4 DEF Lost
<1> QED BY <1>3, <1>4

\* When nobody can go on, no client waits for main or for a server, and a
\* server that is still marked was given to a client that died on its way or
\* that it refused: the mark, set by main and cleared by another thread, is lost
\* in no other way.
THEOREM RestCorrect == Spec => []RestsOnlyLost
BY Rests, InvCorrect, Resting, PTL
=============================================================================
