---------------------------- MODULE TaskOneProofs ----------------------------
(***************************************************************************)
(* What holds of the server with one thread per client for any finite set  *)
(* of clients and any number of them served.                               *)
(***************************************************************************)
EXTENDS TaskOne, FiniteSetTheorems, TLAPS

Queued(q) == {q[k] : k \in 1..Len(q)}

\* A client that main has not dealt with was sent no endpoint, and stands in
\* the backlog once.
BacklogInv ==
  /\ \A j, k \in 1..Len(backlog) : backlog[j] = backlog[k] => j = k
  /\ \A c \in Client : client[c] = "idle" => c \notin Queued(backlog) /\ c # cur
  /\ \A c \in Client : client[c] = "idle" \/ c \in Queued(backlog) => endpoint[c] = NoPort
  /\ pc \in {"create", "send"} =>
       cur \in Client /\ cur \notin Queued(backlog) /\ endpoint[cur] = NoPort

\* Main takes a port for a client that it has accepted, so that each run of a
\* client has one and the counter stays below MaxPort.
Accepted == {c \in Client : client[c] # "idle" /\ c \notin Queued(backlog)}

PortInv ==
  current_port + (IF pc = "create" THEN 1 ELSE 0) <= Cardinality(Accepted)

\* A client knows a port after main has taken it, and is alone to know it.  The
\* port that main is about to send is known to nobody yet.
EndpointInv ==
  /\ \A c \in Client : endpoint[c] < current_port
  /\ \A c, d \in Client : endpoint[c] # NoPort /\ endpoint[c] = endpoint[d] => c = d
  /\ pc = "send" => port < current_port /\ \A c \in Client : endpoint[c] # port

\* Only a client that knows the port gets to the thread, and only a thread
\* that has a client frees its args.
ThreadInv ==
  \A p \in Port :
    /\ \A c \in Queued(pending[p]) : endpoint[c] = p
    /\ serving[p] # NoClient => endpoint[serving[p]] = p
    /\ at[p] \in {"read", "send", "close"} => serving[p] # NoClient

\* Main goes on with a client only as long as some are left to serve.
CountInv == pc \in {"create", "send", "keep"} => clients_served < MAX_CLIENTS

IInv ==
  /\ TypeOK /\ BacklogInv /\ PortInv /\ EndpointInv /\ ThreadInv /\ CountInv
  /\ ArgsNotFreedInUse

-----------------------------------------------------------------------------
(* Facts about queues and numbers.                                         *)

LEMMA Ports ==
  /\ NoPort \notin Port /\ \A p \in Port : p \in Nat /\ p < MaxPort
  /\ MaxPort \in Nat /\ 0 \in Port /\ 0..MaxPort \subseteq Nat /\ NoPort < 0
BY MaxPortAssumption DEF Port, NoPort

LEMMA QueuedAppend ==
  ASSUME NEW S, NEW q \in Seq(S), NEW x \in S
  PROVE  /\ Append(q, x) \in Seq(S) /\ Queued(Append(q, x)) = Queued(q) \cup {x}
         /\ (\A j, k \in 1..Len(q) : q[j] = q[k] => j = k) /\ x \notin Queued(q) =>
              \A j, k \in 1..Len(Append(q, x)) : Append(q, x)[j] = Append(q, x)[k] => j = k
<1> DEFINE r == Append(q, x)
<1>1. r \in Seq(S) /\ Len(r) = Len(q) + 1 /\ r[Len(q) + 1] = x /\ Len(q) \in Nat
      /\ \A k \in 1..Len(q) : r[k] = q[k]
  OBVIOUS
<1> HIDE DEF r
<1>2. \A k \in 1..Len(r) : k \in 1..Len(q) \/ k = Len(q) + 1
  BY <1>1
<1>3. Queued(r) = Queued(q) \cup {x}
  BY <1>1, <1>2 DEF Queued
<1>4. ASSUME \A j, k \in 1..Len(q) : q[j] = q[k] => j = k, x \notin Queued(q)
      PROVE  \A j, k \in 1..Len(r) : r[j] = r[k] => j = k
  <2>1. \A k \in 1..Len(q) : r[k] # x
    BY <1>1, <1>4 DEF Queued
  <2> QED BY <1>1, <1>2, <1>4, <2>1
<1> QED BY <1>1, <1>3, <1>4 DEF r

LEMMA QueuedTail ==
  ASSUME NEW S, NEW q \in Seq(S), q # <<>>
  PROVE  /\ Tail(q) \in Seq(S) /\ Head(q) \in S /\ Head(q) \in Queued(q)
         /\ Queued(q) = Queued(Tail(q)) \cup {Head(q)}
         /\ (\A j, k \in 1..Len(q) : q[j] = q[k] => j = k) =>
              /\ Head(q) \notin Queued(Tail(q))
              /\ \A j, k \in 1..Len(Tail(q)) : Tail(q)[j] = Tail(q)[k] => j = k
<1> DEFINE r == Tail(q)
<1>1. r \in Seq(S) /\ Len(q) \in Nat /\ Len(q) > 0 /\ Len(r) = Len(q) - 1 /\ Head(q) = q[1]
      /\ q[1] \in S /\ \A k \in 1..Len(r) : r[k] = q[k + 1]
  OBVIOUS
<1> HIDE DEF r
<1>2. \A k \in 1..Len(r) : k + 1 \in 1..Len(q) /\ k + 1 # 1
  BY <1>1
<1>3. 1 \in 1..Len(q) /\ \A k \in 1..Len(q) : k = 1 \/ (k - 1 \in 1..Len(r) /\ r[k - 1] = q[k])
  BY <1>1
<1>4. Queued(q) = Queued(r) \cup {Head(q)}
  BY <1>1, <1>2, <1>3 DEF Queued
<1>5. ASSUME \A j, k \in 1..Len(q) : q[j] = q[k] => j = k
      PROVE  /\ Head(q) \notin Queued(r)
             /\ \A j, k \in 1..Len(r) : r[j] = r[k] => j = k
  <2>1. Head(q) \notin Queued(r)
    BY <1>1, <1>2, <1>3, <1>5 DEF Queued
  <2>2. ASSUME NEW j \in 1..Len(r), NEW k \in 1..Len(r), r[j] = r[k] PROVE j = k
    <3>1. j + 1 = k + 1
      BY <1>1, <1>2, <1>5, <2>2
    <3> QED BY <3>1, <1>1
  <2> QED BY <2>1, <2>2
<1> QED BY <1>1, <1>4, <1>5 DEF r

LEMMA Places == \A q : Queued(q) = {} \/ q # <<>>
BY DEF Queued

\* Only Client's size limits the ports, and no set of clients is larger.
LEMMA AcceptedGrows ==
  ASSUME Accepted \subseteq Accepted'
  PROVE  /\ Cardinality(Accepted) \in Nat /\ Cardinality(Accepted') \in Nat
         /\ Cardinality(Accepted) <= Cardinality(Accepted')
<1>1. IsFiniteSet(Accepted) /\ IsFiniteSet(Accepted')
  BY ClientsAssumption, FS_Subset DEF Accepted
<1> QED BY <1>1, FS_Subset, FS_CardinalityType

LEMMA EnoughPorts ==
  ASSUME PortInv, pc = "create", current_port \in Nat
  PROVE  current_port < MaxPort
<1>1. Accepted \subseteq Client
  BY DEF Accepted
<1>2. Cardinality(Accepted) <= Cardinality(Client) /\ Cardinality(Accepted) \in Nat
      /\ Cardinality(Client) \in Nat
  BY <1>1, ClientsAssumption, FS_Subset, FS_CardinalityType
<1> QED BY <1>2, MaxPortAssumption DEF PortInv

LEMMA InvInit == Init => IInv
<1> SUFFICES ASSUME Init PROVE IInv
  OBVIOUS
<1> USE DEF Init
<1>1. TypeOK
  BY Ports, MaxClientsAssumption, MaxPortAssumption, NoClientAssumption DEF TypeOK
<1>2. BacklogInv /\ ArgsNotFreedInUse /\ CountInv
  BY NoClientAssumption DEF BacklogInv, Queued, ArgsNotFreedInUse, CountInv
<1>3. PortInv
  <2>1. IsFiniteSet(Accepted)
    BY ClientsAssumption, FS_Subset DEF Accepted
  <2> QED BY <2>1, FS_CardinalityType DEF PortInv
<1>4. EndpointInv
  BY Ports DEF EndpointInv, NoPort
<1>5. ThreadInv
  BY NoClientAssumption DEF ThreadInv, Queued
<1> QED BY <1>1, <1>2, <1>3, <1>4, <1>5 DEF IInv

-----------------------------------------------------------------------------
(* The clients.                                                            *)

LEMMA ConnectMainStep ==
  ASSUME IInv, NEW c \in Client, ConnectMain(c)
  PROVE  IInv'
<1> USE DEF IInv
<1>1. /\ client[c] = "idle"
      /\ client' = [client EXCEPT ![c] = IF Running THEN "waiting" ELSE "failed"]
      /\ backlog' = (IF Running THEN Append(backlog, c) ELSE backlog)
      /\ UNCHANGED <<endpoint, answer, pc, cur, port, clients_served, current_port, third_thread, at,
                     args, pending, serving>>
  BY DEF ConnectMain, threadVars
<1>2. c \notin Queued(backlog) /\ c # cur /\ endpoint[c] = NoPort
  BY <1>1 DEF BacklogInv
<1>3. client'[c] \in {"waiting", "failed"} /\ \A d \in Client : d # c => client'[d] = client[d]
  BY <1>1 DEF TypeOK
<1>4. /\ backlog' \in Seq(Client)
      /\ Queued(backlog') = IF Running THEN Queued(backlog) \cup {c} ELSE Queued(backlog)
      /\ \A j, k \in 1..Len(backlog') : backlog'[j] = backlog'[k] => j = k
  <2>1. CASE Running
    <3>1. backlog \in Seq(Client) /\ \A j, k \in 1..Len(backlog) : backlog[j] = backlog[k] => j = k
      BY DEF TypeOK, BacklogInv
    <3> QED BY <3>1, <2>1, <1>1, <1>2, QueuedAppend
  <2>2. CASE ~Running
    BY <2>2, <1>1 DEF BacklogInv, TypeOK
  <2> QED BY <2>1, <2>2
<1>5. TypeOK'
  BY <1>1, <1>4 DEF TypeOK, Over
<1>6. BacklogInv'
  BY <1>1, <1>2, <1>3, <1>4 DEF BacklogInv
<1>7. PortInv'
  <2>1. Accepted \subseteq Accepted'
    BY <1>1, <1>2, <1>3, <1>4 DEF Accepted
  <2>2. current_port \in Int
    BY Ports DEF TypeOK
  <2> QED BY <1>1, <2>1, <2>2, AcceptedGrows DEF PortInv
<1>8. EndpointInv' /\ ThreadInv' /\ CountInv' /\ ArgsNotFreedInUse'
  BY <1>1 DEF EndpointInv, ThreadInv, CountInv, ArgsNotFreedInUse
<1> QED BY <1>5, <1>6, <1>7, <1>8

\* All the other steps of a client leave main alone.
LEMMA ClientMoves ==
  ASSUME IInv, NEW c \in Client, client[c] # "idle",
         client'[c] # "idle", \A d \in Client : d # c => client'[d] = client[d],
         UNCHANGED <<endpoint, answer, mainVars>>
  PROVE  BacklogInv' /\ PortInv' /\ EndpointInv' /\ CountInv'
<1> USE DEF IInv, mainVars
<1>1. BacklogInv' /\ EndpointInv' /\ CountInv'
  BY DEF BacklogInv, EndpointInv, CountInv
<1>2. Accepted' = Accepted
  BY DEF Accepted
<1> QED BY <1>1, <1>2 DEF PortInv

LEMMA ClientInv ==
  ASSUME IInv, NEW c \in Client, ClientStep(c) \/ Die(c)
  PROVE  IInv'
<1> USE DEF IInv
<1>1. /\ client[c] # "idle"
      /\ \E s \in {"waiting", "directed", "connected", "asked"} \cup Over :
           client' = [client EXCEPT ![c] = s]
      /\ UNCHANGED <<endpoint, answer, mainVars, at, args, serving>>
  BY DEF ClientStep, Die, ReadEndpoint, ConnectService, SendTime, ReadAnswer, threadVars, Over
<1>2. client' \in [Client -> {"idle", "waiting", "directed", "connected", "asked"} \cup Over]
      /\ client'[c] # "idle" /\ \A d \in Client : d # c => client'[d] = client[d]
  BY <1>1 DEF TypeOK, Over
<1>3. BacklogInv' /\ PortInv' /\ EndpointInv' /\ CountInv'
  BY <1>1, <1>2, ClientMoves
<1>4. /\ pending' \in [Port -> Seq(Client)]
      /\ \A p \in Port : \A d \in Queued(pending'[p]) : endpoint[d] = p
  <2>1. CASE UNCHANGED pending
    BY <2>1 DEF TypeOK, ThreadInv
  <2>2. CASE endpoint[c] \in Port /\ pending' = [pending EXCEPT ![endpoint[c]] = Append(@, c)]
    <3> DEFINE q == endpoint[c]
    <3>1. pending[q] \in Seq(Client) /\ pending'[q] = Append(pending[q], c)
          /\ \A p \in Port : p # q => pending'[p] = pending[p]
      BY <2>2 DEF TypeOK
    <3>2. pending'[q] \in Seq(Client) /\ Queued(pending'[q]) = Queued(pending[q]) \cup {c}
      BY <3>1, QueuedAppend
    <3>3. pending' \in [Port -> Seq(Client)]
      BY <2>2, <3>1, <3>2 DEF TypeOK
    <3>4. ASSUME NEW p \in Port, NEW d \in Queued(pending'[p]) PROVE endpoint[d] = p
      <4>1. CASE p = q
        BY <4>1, <3>2, <3>4, <2>2 DEF ThreadInv
      <4>2. CASE p # q
        BY <4>2, <3>1, <3>4 DEF ThreadInv
      <4> QED BY <4>1, <4>2
    <3> QED BY <3>3, <3>4
  <2>3. CASE endpoint[c] \notin Port /\ pending' = [pending EXCEPT ![endpoint[c]] = Append(@, c)]
    <3>1. pending' = pending
      BY <2>3 DEF TypeOK
    <3> QED BY <3>1 DEF TypeOK, ThreadInv
  <2> QED
    BY <2>1, <2>2, <2>3 DEF ClientStep, Die, ReadEndpoint, ConnectService, SendTime, ReadAnswer,
                            threadVars
<1>5. TypeOK'
  BY <1>1, <1>2, <1>4 DEF TypeOK, mainVars
<1>6. ThreadInv' /\ ArgsNotFreedInUse'
  BY <1>1, <1>4 DEF ThreadInv, ArgsNotFreedInUse, mainVars
<1> QED BY <1>3, <1>5, <1>6

-----------------------------------------------------------------------------
(* A service thread.                                                       *)

\* What a thread does is seen neither by main nor by the ports that are known.
LEMMA ThreadMoves ==
  ASSUME IInv, UNCHANGED <<client, endpoint, mainVars>>
  PROVE  BacklogInv' /\ PortInv' /\ EndpointInv' /\ CountInv'
BY DEF IInv, BacklogInv, PortInv, EndpointInv, CountInv, mainVars, Accepted

LEMMA AcceptServiceStep ==
  ASSUME IInv, NEW p \in Port, AcceptService(p)
  PROVE  IInv'
<1> USE DEF IInv
<1>1. /\ pending[p] # <<>> /\ serving' = [serving EXCEPT ![p] = Head(pending[p])]
      /\ pending' = [pending EXCEPT ![p] = Tail(@)] /\ at' = [at EXCEPT ![p] = "read"]
      /\ UNCHANGED <<client, endpoint, answer, mainVars, args>>
  BY DEF AcceptService, clientVars
<1>2. /\ Head(pending[p]) \in Client /\ Tail(pending[p]) \in Seq(Client)
      /\ Head(pending[p]) \in Queued(pending[p])
      /\ Queued(Tail(pending[p])) \subseteq Queued(pending[p])
  BY <1>1, QueuedTail DEF TypeOK
<1>3. TypeOK'
  BY <1>1, <1>2 DEF TypeOK, mainVars
<1>4. ThreadInv'
  <2> SUFFICES ASSUME NEW q \in Port
               PROVE  /\ \A c \in Queued(pending'[q]) : endpoint'[c] = q
                      /\ serving'[q] # NoClient => endpoint'[serving'[q]] = q
                      /\ at'[q] \in {"read", "send", "close"} => serving'[q] # NoClient
    BY DEF ThreadInv
  <2>1. CASE q = p
    BY <2>1, <1>1, <1>2, NoClientAssumption DEF ThreadInv, TypeOK
  <2>2. CASE q # p
    BY <2>2, <1>1 DEF ThreadInv, TypeOK
  <2> QED BY <2>1, <2>2
<1>5. ArgsNotFreedInUse'
  BY <1>1 DEF ArgsNotFreedInUse, mainVars
<1>6. BacklogInv' /\ PortInv' /\ EndpointInv' /\ CountInv'
  BY <1>1, ThreadMoves
<1> QED BY <1>3, <1>4, <1>5, <1>6

\* The port main is about to send is nobody's, so the thread that has a client
\* to close is another one and frees other args.
LEMMA CloseAndEndStep ==
  ASSUME IInv, NEW p \in Port, CloseAndEnd(p)
  PROVE  IInv'
<1> USE DEF IInv
<1>1. /\ at[p] = "close" /\ args' = [args EXCEPT ![p] = "freed"]
      /\ at' = [at EXCEPT ![p] = "ended"]
      /\ UNCHANGED <<client, endpoint, answer, mainVars, pending, serving>>
  BY DEF CloseAndEnd, AfterClose, clientVars
<1>2. serving[p] \in Client /\ endpoint[serving[p]] = p
  BY <1>1 DEF ThreadInv, TypeOK
<1>3. pc = "send" => p # port
  BY <1>2 DEF EndpointInv
<1>4. TypeOK'
  BY <1>1 DEF TypeOK, mainVars
<1>5. ThreadInv'
  BY <1>1 DEF ThreadInv, TypeOK
<1>6. ArgsNotFreedInUse'
  BY <1>1, <1>3 DEF ArgsNotFreedInUse, TypeOK, mainVars
<1>7. BacklogInv' /\ PortInv' /\ EndpointInv' /\ CountInv'
  BY <1>1, ThreadMoves
<1> QED BY <1>4, <1>5, <1>6, <1>7

LEMMA ThreadStepInv ==
  ASSUME IInv, NEW p \in Port, ThreadStep(p)
  PROVE  IInv'
<1>1. CASE AcceptService(p)
  BY <1>1, AcceptServiceStep
<1>2. CASE CloseAndEnd(p)
  BY <1>2, CloseAndEndStep
<1>3. CASE Listen(p) \/ ListenFails(p) \/ ReadRequest(p) \/ SendAnswer(p)
  <2> USE DEF IInv
  <2>1. /\ UNCHANGED <<client, endpoint, mainVars, args, pending, serving>>
        /\ \E s \in {"accept", "ended", "read", "send", "close"} :
             /\ at' = [at EXCEPT ![p] = s]
             /\ s \in {"read", "send", "close"} => at[p] \in {"read", "send"}
        /\ \/ UNCHANGED answer
           \/ at[p] = "send" /\ answer' = [answer EXCEPT ![serving[p]] = "time"]
    BY <1>3 DEF Listen, ListenFails, ReadRequest, SendAnswer, KeepsArgs, clientVars
  <2>2. TypeOK'
    <3>1. answer' \in [Client -> {"none", "time", "closed"}]
      BY <2>1 DEF TypeOK
    <3>2. at' \in [Port -> {"off", "listen", "accept", "read", "send", "close", "ended"}]
      BY <2>1 DEF TypeOK
    <3> QED BY <2>1, <3>1, <3>2 DEF TypeOK, mainVars
  <2>3. ThreadInv'
    <3> SUFFICES ASSUME NEW q \in Port, at'[q] \in {"read", "send", "close"}
                 PROVE  serving[q] # NoClient
      BY <2>1 DEF ThreadInv
    <3>1. at[q] \in {"read", "send", "close"}
      BY <2>1 DEF TypeOK
    <3> QED BY <3>1 DEF ThreadInv
  <2>4. ArgsNotFreedInUse'
    BY <2>1 DEF ArgsNotFreedInUse, mainVars
  <2>5. BacklogInv' /\ PortInv' /\ EndpointInv' /\ CountInv'
    BY <2>1, ThreadMoves
  <2> QED BY <2>2, <2>3, <2>4, <2>5
<1> QED BY <1>1, <1>2, <1>3 DEF ThreadStep

-----------------------------------------------------------------------------
(* The main server.                                                        *)

\* The client at the head of the backlog becomes one that was accepted.
LEMMA AcceptStep ==
  ASSUME IInv, Accept
  PROVE  IInv'
<1> USE DEF IInv
<1> DEFINE c == Head(backlog)
<1>1. /\ pc = "accept" /\ clients_served < MAX_CLIENTS /\ backlog # <<>>
      /\ cur' = c /\ backlog' = Tail(backlog) /\ pc' = "create"
      /\ UNCHANGED <<client, endpoint, answer, port, clients_served, current_port, third_thread, at,
                     args, pending, serving>>
  BY DEF Accept, MoreToServe, clientVars, threadVars
<1>2. backlog \in Seq(Client) /\ \A j, k \in 1..Len(backlog) : backlog[j] = backlog[k] => j = k
  BY DEF TypeOK, BacklogInv
<1>3. /\ backlog' \in Seq(Client) /\ c \in Client /\ Queued(backlog) = Queued(backlog') \cup {c}
      /\ c \notin Queued(backlog')
      /\ \A j, k \in 1..Len(backlog') : backlog'[j] = backlog'[k] => j = k
  BY <1>1, <1>2, QueuedTail
<1> HIDE DEF c
<1>4. TypeOK'
  BY <1>1, <1>3 DEF TypeOK
<1>5. BacklogInv'
  BY <1>1, <1>3 DEF BacklogInv
<1>6. PortInv'
  <2>1. client[c] # "idle" /\ c \notin Accepted /\ Accepted' = Accepted \cup {c}
    BY <1>1, <1>3 DEF Accepted, BacklogInv
  <2>2. IsFiniteSet(Accepted) /\ Cardinality(Accepted) \in Nat /\ current_port \in Nat
    BY ClientsAssumption, FS_Subset, FS_CardinalityType, Ports DEF Accepted, TypeOK
  <2>3. Cardinality(Accepted') = Cardinality(Accepted) + 1
    BY <2>1, <2>2, FS_AddElement
  <2> QED BY <1>1, <2>2, <2>3 DEF PortInv
<1>7. EndpointInv' /\ ThreadInv' /\ CountInv' /\ ArgsNotFreedInUse'
  BY <1>1 DEF EndpointInv, ThreadInv, CountInv, ArgsNotFreedInUse
<1> QED BY <1>4, <1>5, <1>6, <1>7

\* What main does to the client at hand changes nothing of who was accepted.
LEMMA SameAccepted ==
  ASSUME UNCHANGED <<client, backlog>>
  PROVE  Accepted' = Accepted
BY DEF Accepted

LEMMA CreateThreadStep ==
  ASSUME IInv, CreateThread
  PROVE  IInv'
<1> USE DEF IInv
<1>1. /\ pc = "create" /\ pc' = "send" /\ port' = current_port /\ current_port' = current_port + 1
      /\ at' = [at EXCEPT ![port'] = "listen"] /\ args' = [args EXCEPT ![port'] = "allocated"]
      /\ UNCHANGED <<client, endpoint, answer, backlog, cur, clients_served, third_thread, pending,
                     serving>>
  BY DEF CreateThread, FreePort, clientVars
<1>2. current_port \in Nat /\ current_port < MaxPort
  BY <1>1, Ports, EnoughPorts DEF TypeOK
<1>3. port' \in Port /\ current_port' \in 0..MaxPort
  BY <1>1, <1>2, Ports DEF Port
<1>4. TypeOK'
  BY <1>1, <1>3 DEF TypeOK
<1>5. BacklogInv' /\ CountInv'
  BY <1>1 DEF BacklogInv, CountInv
<1>6. PortInv'
  BY <1>1, <1>2, SameAccepted DEF PortInv
<1>7. EndpointInv'
  <2>1. \A c \in Client : endpoint[c] \in Int /\ endpoint[c] < current_port
    BY Ports DEF EndpointInv, TypeOK, NoPort
  <2>2. \A c \in Client : endpoint[c] < current_port + 1 /\ endpoint[c] # current_port
    BY <1>2, <2>1
  <2> QED BY <1>1, <1>2, <2>2 DEF EndpointInv
<1>8. ThreadInv'
  BY <1>1 DEF ThreadInv, TypeOK
<1>9. ArgsNotFreedInUse'
  BY <1>1, <1>3 DEF ArgsNotFreedInUse, TypeOK
<1> QED BY <1>4, <1>5, <1>6, <1>7, <1>8, <1>9

LEMMA CreateFailsStep ==
  ASSUME IInv, CreateFails
  PROVE  IInv'
<1> USE DEF IInv
<1>1. /\ pc = "create" /\ pc' = "accept" /\ cur' = NoClient /\ current_port' = current_port + 1
      /\ answer' = [answer EXCEPT ![cur] = "closed"]
      /\ UNCHANGED <<client, endpoint, backlog, port, clients_served, third_thread, at, args, pending,
                     serving>>
  BY DEF CreateFails, threadVars
<1>2. current_port \in Nat /\ current_port < MaxPort
  BY <1>1, Ports, EnoughPorts DEF TypeOK
<1>3. TypeOK'
  <2>1. current_port' \in 0..MaxPort
    BY <1>1, <1>2, MaxPortAssumption
  <2>2. answer' \in [Client -> {"none", "time", "closed"}]
    BY <1>1 DEF TypeOK
  <2> QED BY <1>1, <2>1, <2>2 DEF TypeOK
<1>4. BacklogInv' /\ CountInv' /\ ThreadInv' /\ ArgsNotFreedInUse'
  BY <1>1, NoClientAssumption DEF BacklogInv, CountInv, ThreadInv, ArgsNotFreedInUse
<1>5. PortInv'
  BY <1>1, <1>2, SameAccepted DEF PortInv
<1>6. EndpointInv'
  <2>1. \A c \in Client : endpoint[c] \in Int /\ endpoint[c] < current_port
    BY Ports DEF EndpointInv, TypeOK, NoPort
  <2> QED BY <1>1, <1>2, <2>1 DEF EndpointInv
<1> QED BY <1>3, <1>4, <1>5, <1>6

LEMMA SendEndpointStep ==
  ASSUME IInv, SendEndpoint
  PROVE  IInv'
<1> USE DEF IInv
<1>1. /\ pc = "send" /\ pc' = "keep" /\ endpoint' = [endpoint EXCEPT ![cur] = port]
      /\ UNCHANGED <<client, answer, backlog, cur, port, clients_served, current_port, third_thread,
                     at, args, pending, serving>>
  BY DEF SendEndpoint, threadVars
<1>2. /\ cur \in Client /\ cur \notin Queued(backlog) /\ endpoint[cur] = NoPort
      /\ port \in Port /\ port < current_port /\ \A c \in Client : endpoint[c] # port
  BY <1>1 DEF BacklogInv, EndpointInv, TypeOK
<1>3. endpoint'[cur] = port /\ \A c \in Client : c # cur => endpoint'[c] = endpoint[c]
  BY <1>1, <1>2 DEF TypeOK
<1>4. TypeOK'
  BY <1>1, <1>2 DEF TypeOK
<1>5. BacklogInv' /\ CountInv' /\ ArgsNotFreedInUse'
  BY <1>1, <1>2, <1>3 DEF BacklogInv, CountInv, ArgsNotFreedInUse
<1>6. PortInv'
  BY <1>1, SameAccepted DEF PortInv
<1>7. EndpointInv'
  BY <1>1, <1>2, <1>3 DEF EndpointInv
<1>8. ThreadInv'
  <2> SUFFICES ASSUME NEW p \in Port
               PROVE  /\ \A c \in Queued(pending[p]) : endpoint'[c] = p
                      /\ serving[p] # NoClient => endpoint'[serving[p]] = p
    BY <1>1 DEF ThreadInv
  <2>1. cur \notin Queued(pending[p]) /\ serving[p] # cur
    BY <1>2, Ports, NoClientAssumption DEF ThreadInv
  <2>2. endpoint' = [c \in Client |-> IF c = cur THEN port ELSE endpoint[c]]
    BY <1>1, <1>2 DEF TypeOK
  <2>3. Queued(pending[p]) \subseteq Client /\ serving[p] \in Client \cup {NoClient}
    BY DEF Queued, TypeOK
  <2> QED BY <2>1, <2>2, <2>3 DEF ThreadInv
<1> QED BY <1>4, <1>5, <1>6, <1>7, <1>8

LEMMA KeepThreadStep ==
  ASSUME IInv, KeepThread
  PROVE  IInv'
<1> USE DEF IInv
<1>1. /\ pc = "keep" /\ pc' = "accept" /\ cur' = NoClient /\ clients_served' = clients_served + 1
      /\ third_thread' \in {port, third_thread}
      /\ UNCHANGED <<client, endpoint, answer, backlog, port, current_port, at, args, pending, serving>>
  BY DEF KeepThread, clientVars, threadVars
<1>2. clients_served' \in 0..MAX_CLIENTS
  BY <1>1, MaxClientsAssumption DEF CountInv, TypeOK
<1>3. TypeOK'
  BY <1>1, <1>2 DEF TypeOK
<1>4. BacklogInv' /\ CountInv' /\ ArgsNotFreedInUse' /\ EndpointInv' /\ ThreadInv'
  BY <1>1, NoClientAssumption DEF BacklogInv, CountInv, ArgsNotFreedInUse, EndpointInv, ThreadInv
<1>5. PortInv'
  BY <1>1, SameAccepted DEF PortInv
<1> QED BY <1>3, <1>4, <1>5

LEMMA JoinAndExitStep ==
  ASSUME IInv, JoinAndExit
  PROVE  IInv'
<1> USE DEF IInv
<1>1. /\ pc = "accept" /\ pc' = "exited"
      /\ at' = [p \in Port |-> IF at[p] = "off" THEN "off" ELSE "ended"]
      /\ UNCHANGED <<client, endpoint, answer, backlog, cur, port, clients_served, current_port,
                     third_thread, args, pending, serving>>
  BY DEF JoinAndExit, clientVars
<1>2. TypeOK'
  BY <1>1 DEF TypeOK
<1>3. BacklogInv' /\ CountInv' /\ ArgsNotFreedInUse' /\ EndpointInv' /\ ThreadInv'
  BY <1>1 DEF BacklogInv, CountInv, ArgsNotFreedInUse, EndpointInv, ThreadInv
<1>4. PortInv'
  BY <1>1, SameAccepted DEF PortInv
<1> QED BY <1>2, <1>3, <1>4

-----------------------------------------------------------------------------
(* The theorems.                                                           *)

LEMMA InvNext == IInv /\ [Next]_vars => IInv'
<1> SUFFICES ASSUME IInv, [Next]_vars PROVE IInv'
  OBVIOUS
<1>1. CASE MainStep
  BY <1>1, AcceptStep, CreateThreadStep, CreateFailsStep, SendEndpointStep, KeepThreadStep,
     JoinAndExitStep DEF MainStep
<1>2. CASE \E p \in Port : ThreadStep(p)
  BY <1>2, ThreadStepInv
<1>3. CASE \E c \in Client : ConnectMain(c) \/ ClientStep(c) \/ Die(c)
  BY <1>3, ConnectMainStep, ClientInv
<1>4. CASE UNCHANGED vars
  BY <1>4 DEF IInv, TypeOK, BacklogInv, PortInv, Accepted, EndpointInv, ThreadInv, CountInv,
              ArgsNotFreedInUse, vars
<1> QED BY <1>1, <1>2, <1>3, <1>4 DEF Next, Quiet

LEMMA Invariance == Spec => []IInv
BY InvInit, InvNext, PTL DEF Spec

\* Every variable keeps its type, and get_free_port never runs out of the
\* ports that there are for the runs of the clients.
THEOREM TypeCorrect == Spec => []TypeOK
<1>1. IInv => TypeOK
  BY DEF IInv
<1> QED BY <1>1, Invariance, PTL

\* When main reads args->service_port for its message, the thread that was
\* started with args has not freed it.
THEOREM ArgsCorrect == Spec => []ArgsNotFreedInUse
<1>1. IInv => ArgsNotFreedInUse
  BY DEF IInv
<1> QED BY <1>1, Invariance, PTL

\* Each thread serves the one client that was sent its port.
THEOREM OwnThreadCorrect == Spec => []OwnThread
<1>1. IInv => OwnThread
  BY Ports DEF IInv, ThreadInv, EndpointInv, OwnThread
<1> QED BY <1>1, Invariance, PTL

-----------------------------------------------------------------------------
(* Where the server comes to rest.                                         *)

LEMMA One == \A c : <<c>> # <<>> /\ Head(<<c>>) = c /\ Tail(<<c>>) = <<>> /\ Append(<<>>, c) = <<c>>
OBVIOUS

\* A client that waits for its endpoint is in the backlog or at hand, and the
\* time is sent by the thread that serves the client.
AtHand(c) == c \in Queued(backlog) \/ (pc \in {"create", "send"} /\ cur = c)
WaitInv ==
  \A c \in Client :
    /\ client[c] = "waiting" /\ endpoint[c] = NoPort /\ answer[c] = "none" => AtHand(c)
    /\ AtHand(c) \/ client[c] = "idle" => answer[c] = "none"
    /\ client[c] \in {"directed", "connected", "asked", "done"} => endpoint[c] # NoPort
    /\ client[c] = "done" => answer[c] # "none"
    /\ answer[c] = "closed" => endpoint[c] = NoPort
    /\ answer[c] = "time" => endpoint[c] # NoPort /\ serving[endpoint[c]] = c

\* Each thread is known to a client, or main is about to tell one of it; the
\* one that main keeps for its join is known to the last.
KnownInv ==
  /\ pc = "send" => at[port] # "off"
  /\ pc = "keep" => at[port] # "off" /\ cur \in Client /\ endpoint[cur] = port
  /\ pc = "exited" => clients_served = MAX_CLIENTS /\ \A p \in Port : at[p] \in {"off", "ended"}
  /\ clients_served = MAX_CLIENTS =>
       /\ third_thread \in Port /\ at[third_thread] # "off"
       /\ \E c \in Client : endpoint[c] = third_thread
  /\ \A p \in Port : at[p] # "off" => (pc = "send" /\ port = p) \/ \E c \in Client : endpoint[c] = p

\* Whoever a thread has not answered goes on to send its request, or is gone.
StillComes(c) == client[c] \in {"connected", "asked", "gone"} /\ answer[c] = "none"
Came(c) == client[c] \notin {"idle", "waiting", "directed"}
Guest(p) ==
  /\ at[p] \in {"off", "listen", "accept"} => serving[p] = NoClient
  /\ at[p] = "read" => StillComes(serving[p])
  /\ \A c \in Client : pending[p] = <<c>> => endpoint[c] = p /\ Came(c) /\ (Running => StillComes(c))
  /\ serving[p] # NoClient => Came(serving[p])
  /\ \/ pending[p] = <<>>
     \/ /\ serving[p] = NoClient /\ at[p] \in {"accept", "ended"} /\ (Running => at[p] = "accept")
        /\ \E c \in Client : pending[p] = <<c>>
  /\ at[p] \in {"close", "ended"} /\ (Running \/ p = third_thread) =>
       serving[p] = NoClient \/ answer[serving[p]] = "time" \/ client[serving[p]] = "gone"
GuestInv == \A p \in Port : Guest(p)

\* A client that was not answered is still at its thread.
AtThread(c) ==
  \/ pending[endpoint[c]] = <<c>>
  \/ serving[endpoint[c]] = c /\ at[endpoint[c]] \in {"read", "send"}
ReachInv ==
  \A c \in Client :
    client[c] \in {"connected", "asked"} /\ answer[c] = "none" /\ Running => AtThread(c)

RestInv == WaitInv /\ KnownInv /\ GuestInv /\ ReachInv

LEMMA RestInit == Init => RestInv
<1> SUFFICES ASSUME Init PROVE RestInv
  OBVIOUS
<1> USE DEF Init
<1>1. WaitInv
  BY DEF WaitInv, AtHand, Queued
<1>2. KnownInv
  BY MaxClientsAssumption DEF KnownInv
<1>3. GuestInv
  BY One DEF GuestInv, Guest
<1>4. ReachInv
  BY DEF ReachInv
<1> QED BY <1>1, <1>2, <1>3, <1>4 DEF RestInv

\* Who serves whom, as the invariant of the types has it.
LEMMA Served ==
  ASSUME IInv, NEW p \in Port, serving[p] # NoClient
  PROVE  serving[p] \in Client /\ endpoint[serving[p]] = p
BY DEF IInv, TypeOK, ThreadInv

LEMMA ConnectMainRest ==
  ASSUME IInv, RestInv, NEW c \in Client, ConnectMain(c)
  PROVE  RestInv'
<1> USE DEF RestInv
<1>1. /\ client[c] = "idle"
      /\ UNCHANGED <<endpoint, answer, pc, cur, port, clients_served, third_thread, at, pending, serving>>
      /\ \/ Running /\ client' = [client EXCEPT ![c] = "waiting"] /\ backlog' = Append(backlog, c)
         \/ ~Running /\ client' = [client EXCEPT ![c] = "failed"] /\ backlog' = backlog
  BY DEF ConnectMain, threadVars
<1>2. /\ client'[c] \in {"waiting", "failed"} /\ \A d \in Client : d # c => client'[d] = client[d]
      /\ client'[c] = "waiting" => c \in Queued(backlog')
      /\ Queued(backlog') \subseteq Queued(backlog) \cup {c}
      /\ Queued(backlog) \subseteq Queued(backlog')
  <2>1. backlog \in Seq(Client) /\ Queued(Append(backlog, c)) = Queued(backlog) \cup {c}
    BY QueuedAppend DEF IInv, TypeOK
  <2>2. client'[c] \in {"waiting", "failed"} /\ \A d \in Client : d # c => client'[d] = client[d]
    BY <1>1 DEF IInv, TypeOK
  <2>3. client'[c] = "waiting" => backlog' = Append(backlog, c)
    BY <1>1 DEF IInv, TypeOK
  <2> QED BY <1>1, <2>1, <2>2, <2>3
<1>3. endpoint[c] = NoPort /\ answer[c] = "none"
  BY <1>1 DEF IInv, BacklogInv, WaitInv
<1>4. WaitInv'
  BY <1>1, <1>2, <1>3 DEF WaitInv, AtHand
<1>5. KnownInv'
  BY <1>1 DEF KnownInv
<1>6. GuestInv'
  <2> SUFFICES ASSUME NEW p \in Port PROVE Guest(p)'
    BY DEF GuestInv
  <2>1. serving[p] # c
    BY <1>3, Served, Ports, NoClientAssumption
  <2>2. pending[p] # <<c>>
    BY <1>1 DEF GuestInv, Guest, Came
  <2>3. serving[p] # NoClient => serving[p] \in Client
    BY Served
  <2>4. at[p] = "read" => serving[p] \in Client
    BY <2>3 DEF IInv, ThreadInv
  <2> QED BY <1>1, <1>2, <2>1, <2>2, <2>3, <2>4 DEF GuestInv, Guest, Came, StillComes, Running
<1>7. ReachInv'
  BY <1>1, <1>2 DEF ReachInv, AtThread, Running
<1> QED BY <1>4, <1>5, <1>6, <1>7

\* A client that moves on without a connection being made.
LEMMA MoveOnRest ==
  ASSUME IInv, RestInv, NEW c \in Client, NEW place \in {"directed", "failed", "asked", "done", "gone"},
         client' = [client EXCEPT ![c] = place],
         client[c] \notin {"idle", "gone"},
         place = "directed" => client[c] = "waiting" /\ endpoint[c] # NoPort,
         place = "failed" /\ Running => ~StillComes(c),
         place = "asked" => client[c] = "connected",
         place = "done" => answer[c] # "none" /\ client[c] = "asked",
         UNCHANGED <<endpoint, answer, mainVars, threadVars>>
  PROVE  RestInv'
<1> USE DEF RestInv
<1>1. /\ client'[c] = place /\ \A d \in Client : d # c => client'[d] = client[d]
      /\ UNCHANGED <<endpoint, answer, backlog, pc, cur, port, clients_served, third_thread, at, pending, serving>>
  BY DEF IInv, TypeOK, mainVars, threadVars
<1>2. WaitInv'
  BY <1>1 DEF WaitInv, AtHand
<1>3. KnownInv'
  BY <1>1 DEF KnownInv
<1>4. StillComes(c) /\ Running => StillComes(c)'
  BY <1>1 DEF StillComes
<1>5. \A d \in Client : StillComes(d) /\ Running => StillComes(d)'
  BY <1>1, <1>4 DEF StillComes
<1>6. GuestInv'
  <2> SUFFICES ASSUME NEW p \in Port PROVE Guest(p)'
    BY DEF GuestInv
  <2>1. at[p] = "read" => Running
    BY DEF KnownInv, Running
  <2>2. serving[p] # NoClient => serving[p] \in Client
    BY Served
  <2>3. at[p] = "read" => serving[p] \in Client
    BY <2>2 DEF IInv, ThreadInv
  <2>4. \A d \in Client : Came(d) => Came(d)'
    BY <1>1 DEF Came
  <2>5. \A d \in Client : client[d] = "gone" => client'[d] = "gone"
    BY <1>1
  <2> QED BY <1>1, <1>5, <2>1, <2>2, <2>3, <2>4, <2>5 DEF GuestInv, Guest, Running
<1>7. ReachInv'
  BY <1>1 DEF ReachInv, AtThread, Running
<1> QED BY <1>2, <1>3, <1>6, <1>7

LEMMA ConnectServiceRest ==
  ASSUME IInv, RestInv, NEW c \in Client, client[c] = "directed", Listening(endpoint[c]),
         client' = [client EXCEPT ![c] = "connected"],
         pending' = [pending EXCEPT ![endpoint[c]] = Append(@, c)],
         UNCHANGED <<endpoint, answer, mainVars, at, args, serving>>
  PROVE  RestInv'
<1> USE DEF RestInv
<1> DEFINE p0 == endpoint[c]
<1>1. /\ p0 \in Port /\ at[p0] \in {"accept", "read", "send", "close"} /\ Running
      /\ client'[c] = "connected" /\ \A d \in Client : d # c => client'[d] = client[d]
      /\ UNCHANGED <<endpoint, answer, backlog, pc, cur, port, clients_served, third_thread, at, serving>>
  BY DEF Listening, WaitInv, IInv, TypeOK, mainVars
\* Nobody else knows the port, so nobody has come to it.
<1>2. serving[p0] = NoClient
  <2> SUFFICES ASSUME serving[p0] # NoClient PROVE FALSE
    OBVIOUS
  <2>1. serving[p0] \in Client /\ endpoint[serving[p0]] = p0
    BY <1>1, Served
  <2>2. serving[p0] = c
    BY <2>1, <1>1, Ports DEF IInv, EndpointInv
  <2> QED BY <2>2, <1>1 DEF GuestInv, Guest, Came
<1>3. pending[p0] = <<>>
  <2> SUFFICES ASSUME pending[p0] # <<>> PROVE FALSE
    OBVIOUS
  <2>1. PICK d \in Client : pending[p0] = <<d>>
    BY <1>1 DEF GuestInv, Guest
  <2>2. endpoint[d] = p0 /\ Came(d)
    BY <1>1, <2>1 DEF GuestInv, Guest
  <2>3. d = c
    BY <2>2, <1>1, Ports DEF IInv, EndpointInv
  <2> QED BY <2>2, <2>3 DEF Came
<1>4. pending'[p0] = <<c>> /\ \A p \in Port : p # p0 => pending'[p] = pending[p]
  BY <1>1, <1>3, One DEF IInv, TypeOK
<1>5. at[p0] = "accept"
  BY <1>1, <1>2 DEF IInv, ThreadInv
<1>6. answer[c] = "none"
  <2>1. answer[c] # "time"
    BY <1>1, <1>2, NoClientAssumption DEF WaitInv
  <2>2. answer[c] # "closed"
    BY <1>1, Ports DEF WaitInv
  <2> QED BY <2>1, <2>2 DEF IInv, TypeOK
<1>7. WaitInv'
  BY <1>1, Ports DEF WaitInv, AtHand
<1>8. KnownInv'
  BY <1>1 DEF KnownInv
<1>9. \A d \in Client : (StillComes(d) => StillComes(d)') /\ (Came(d) => Came(d)')
  BY <1>1 DEF StillComes, Came
<1>10. StillComes(c)' /\ Came(c)'
  BY <1>1, <1>6 DEF StillComes, Came
<1>11. GuestInv'
  <2> SUFFICES ASSUME NEW p \in Port PROVE Guest(p)'
    BY DEF GuestInv
  <2>1. CASE p = p0
    <3>1. \A d \in Client : pending'[p0] = <<d>> => d = c
      BY <1>4
    <3> QED BY <2>1, <3>1, <1>1, <1>2, <1>4, <1>5, <1>10 DEF Guest
  <2>2. CASE p # p0
    <3>1. serving[p] # NoClient => serving[p] \in Client
      BY Served
    <3>2. at[p] = "read" => serving[p] \in Client
      BY <3>1 DEF IInv, ThreadInv
    <3>3. \A d \in Client : client[d] = "gone" => client'[d] = "gone"
      BY <1>1
    <3>4. pending'[p] = pending[p]
      BY <1>4, <2>2
    <3>5. UNCHANGED <<serving, at, answer, endpoint, pc, third_thread>>
      BY <1>1
    <3>6. Guest(p)
      BY DEF GuestInv
    <3>7. /\ at[p] = "read" => StillComes(serving[p])'
          /\ serving[p] # NoClient => Came(serving[p])'
          /\ \A d \in Client : pending[p] = <<d>> => endpoint[d] = p /\ Came(d)' /\ (Running => StillComes(d)')
      BY <1>9, <3>1, <3>2, <3>5, <3>6 DEF Guest
    <3>8. at[p] \in {"close", "ended"} /\ (Running \/ p = third_thread) =>
            serving[p] = NoClient \/ answer[serving[p]] = "time" \/ client'[serving[p]] = "gone"
      BY <3>1, <3>3, <3>6 DEF Guest
    <3> QED BY <3>4, <3>5, <3>6, <3>7, <3>8 DEF Guest, Running
  <2> QED BY <2>1, <2>2
<1>12. ReachInv'
  <2> SUFFICES ASSUME NEW d \in Client, client'[d] \in {"connected", "asked"}, answer[d] = "none", Running
               PROVE  AtThread(d)'
    BY <1>1 DEF ReachInv, Running
  <2>1. CASE d = c
    BY <2>1, <1>1, <1>4 DEF AtThread
  <2>2. CASE d # c
    <3>1. AtThread(d) /\ endpoint[d] \in Port
      BY <2>2, <1>1 DEF ReachInv, WaitInv, IInv, TypeOK
    <3>2. endpoint[d] # p0
      BY <2>2, <3>1, <1>1, Ports DEF IInv, EndpointInv
    <3> QED BY <3>1, <3>2, <1>1, <1>4 DEF AtThread
  <2> QED BY <2>1, <2>2
<1> QED BY <1>7, <1>8, <1>11, <1>12

LEMMA ClientRest ==
  ASSUME IInv, RestInv, NEW c \in Client, ConnectMain(c) \/ ClientStep(c) \/ Die(c)
  PROVE  RestInv'
<1>1. CASE ConnectMain(c)
  BY <1>1, ConnectMainRest
<1>2. CASE ReadEndpoint(c)
  BY <1>2, MoveOnRest DEF ReadEndpoint, StillComes
<1>3. CASE ConnectService(c)
  <2>1. CASE Listening(endpoint[c])
    BY <1>3, <2>1, ConnectServiceRest DEF ConnectService
  <2>2. CASE ~Listening(endpoint[c])
    <3>1. /\ client[c] = "directed" /\ client' = [client EXCEPT ![c] = "failed"] /\ ~StillComes(c)
          /\ UNCHANGED <<endpoint, answer, mainVars, threadVars>>
      BY <1>3, <2>2 DEF ConnectService, StillComes, threadVars
    <3> QED BY <3>1, MoveOnRest
  <2> QED BY <2>1, <2>2
<1>4. CASE SendTime(c)
  BY <1>4, MoveOnRest DEF SendTime
<1>5. CASE ReadAnswer(c)
  <2>1. CASE answer[c] # "none"
    BY <1>5, <2>1, MoveOnRest DEF ReadAnswer
  <2>2. CASE answer[c] = "none"
    BY <1>5, <2>2, MoveOnRest DEF ReadAnswer
  <2> QED BY <2>1, <2>2
<1>6. CASE Die(c)
  BY <1>6, MoveOnRest DEF Die
<1> QED BY <1>1, <1>2, <1>3, <1>4, <1>5, <1>6 DEF ClientStep

\* What the steps of main keep that leave clients and threads alone.
LEMMA MainGuests ==
  ASSUME IInv, RestInv, Running, Running', NEW p \in Port,
         UNCHANGED <<client, pending, serving>>, at'[p] = at[p],
         \A c \in Client : endpoint[c] # NoPort => endpoint'[c] = endpoint[c],
         \A c \in Client : endpoint[c] # NoPort => answer'[c] = answer[c]
  PROVE  Guest(p)'
<1> USE DEF RestInv
<1>1. Guest(p)
  BY DEF GuestInv
<1>2. serving[p] # NoClient =>
        serving[p] \in Client /\ endpoint[serving[p]] # NoPort /\ answer'[serving[p]] = answer[serving[p]]
  BY Served, Ports
<1>3. at[p] = "read" => serving[p] # NoClient
  BY DEF IInv, ThreadInv
<1>4. \A c \in Client : pending[p] = <<c>> =>
        endpoint[c] = p /\ endpoint'[c] = p /\ answer'[c] = answer[c] /\ Came(c) /\ StillComes(c)
  BY <1>1, Ports DEF Guest
<1>5. at[p] = "read" => StillComes(serving[p])'
  BY <1>1, <1>2, <1>3 DEF Guest, StillComes
<1>6. serving[p] # NoClient => Came(serving[p])'
  BY <1>1 DEF Guest, Came
<1>7. \A c \in Client : pending[p] = <<c>> => endpoint'[c] = p /\ Came(c)' /\ StillComes(c)'
  BY <1>4 DEF StillComes, Came
<1>8. at[p] \in {"close", "ended"} =>
        serving[p] = NoClient \/ answer'[serving[p]] = "time" \/ client[serving[p]] = "gone"
  BY <1>1, <1>2 DEF Guest
<1> QED BY <1>1, <1>5, <1>6, <1>7, <1>8 DEF Guest

LEMMA AcceptRest == IInv /\ RestInv /\ Accept => RestInv'
<1> SUFFICES ASSUME IInv, RestInv, Accept PROVE RestInv'
  OBVIOUS
<1> USE DEF RestInv
<1>1. /\ pc = "accept" /\ pc' = "create" /\ backlog # <<>> /\ backlog \in Seq(Client)
      /\ cur' = Head(backlog) /\ backlog' = Tail(backlog)
      /\ UNCHANGED <<client, endpoint, answer, port, clients_served, third_thread, at, pending, serving>>
  BY DEF Accept, clientVars, threadVars, IInv, TypeOK
<1>2. Queued(backlog) = Queued(backlog') \cup {cur'}
  BY <1>1, QueuedTail
<1>3. \A c \in Client : AtHand(c)' = AtHand(c)
  BY <1>1, <1>2 DEF AtHand
<1>4. WaitInv'
  BY <1>1, <1>3 DEF WaitInv
<1>5. KnownInv'
  BY <1>1 DEF KnownInv
<1>6. GuestInv'
  BY <1>1, MainGuests DEF GuestInv, Running
<1>7. ReachInv'
  BY <1>1 DEF ReachInv, AtThread, Running
<1> QED BY <1>4, <1>5, <1>6, <1>7

LEMMA CreateThreadRest == IInv /\ RestInv /\ CreateThread => RestInv'
<1> SUFFICES ASSUME IInv, RestInv, CreateThread PROVE RestInv'
  OBVIOUS
<1> USE DEF RestInv
<1>1. /\ pc = "create" /\ pc' = "send" /\ port' = current_port
      /\ at' = [at EXCEPT ![current_port] = "listen"]
      /\ UNCHANGED <<client, endpoint, answer, backlog, cur, clients_served, third_thread, pending, serving>>
  BY DEF CreateThread, FreePort, clientVars
<1>2. current_port \in Port
  <2>1. current_port \in 0..MaxPort /\ current_port < MaxPort
    BY <1>1, EnoughPorts, Ports DEF IInv, TypeOK
  <2> QED BY <2>1, Ports DEF Port
<1>3. at'[current_port] = "listen" /\ \A p \in Port : p # current_port => at'[p] = at[p]
  BY <1>1, <1>2 DEF IInv, TypeOK
<1>4. \A c \in Client : endpoint[c] # current_port
  BY <1>2, Ports DEF IInv, EndpointInv, TypeOK
\* Nobody has come to a port that nobody knows.
<1>5. serving[current_port] = NoClient /\ pending[current_port] = <<>>
  <2>1. serving[current_port] = NoClient
    BY <1>2, <1>4, Served
  <2>2. \A c \in Client : pending[current_port] # <<c>>
    BY <1>2, <1>4 DEF GuestInv, Guest
  <2> QED BY <1>2, <2>1, <2>2 DEF GuestInv, Guest
<1>6. WaitInv'
  <2>1. \A c \in Client : AtHand(c)' = AtHand(c)
    BY <1>1 DEF AtHand
  <2> QED BY <1>1, <2>1 DEF WaitInv
<1>7. KnownInv'
  <2>1. clients_served = MAX_CLIENTS =>
          /\ third_thread \in Port /\ at'[third_thread] # "off"
          /\ \E c \in Client : endpoint[c] = third_thread
    BY <1>3 DEF KnownInv
  <2>2. \A p \in Port : at'[p] # "off" => port' = p \/ \E c \in Client : endpoint[c] = p
    BY <1>1, <1>3 DEF KnownInv
  <2> QED BY <1>1, <1>3, <2>1, <2>2 DEF KnownInv
<1>8. GuestInv'
  <2> SUFFICES ASSUME NEW p \in Port PROVE Guest(p)'
    BY DEF GuestInv
  <2>1. CASE p = current_port
    BY <2>1, <1>1, <1>3, <1>5, One DEF Guest
  <2>2. CASE p # current_port
    BY <2>2, <1>1, <1>3, MainGuests DEF Running
  <2> QED BY <2>1, <2>2
<1>9. ReachInv'
  <2> SUFFICES ASSUME NEW c \in Client, client[c] \in {"connected", "asked"}, answer[c] = "none"
               PROVE  AtThread(c)'
    BY <1>1 DEF ReachInv
  <2>1. AtThread(c) /\ endpoint[c] \in Port
    BY <1>1 DEF ReachInv, WaitInv, IInv, TypeOK, Running
  <2> QED BY <2>1, <1>1, <1>3, <1>4 DEF AtThread
<1> QED BY <1>6, <1>7, <1>8, <1>9

LEMMA CreateFailsRest == IInv /\ RestInv /\ CreateFails => RestInv'
<1> SUFFICES ASSUME IInv, RestInv, CreateFails PROVE RestInv'
  OBVIOUS
<1> USE DEF RestInv
<1>1. /\ pc = "create" /\ pc' = "accept" /\ cur' = NoClient
      /\ answer' = [answer EXCEPT ![cur] = "closed"]
      /\ UNCHANGED <<client, endpoint, backlog, port, clients_served, third_thread, at, pending, serving>>
  BY DEF CreateFails, threadVars
<1>2. /\ cur \in Client /\ endpoint[cur] = NoPort /\ cur \notin Queued(backlog) /\ client[cur] # "idle"
  BY <1>1 DEF IInv, BacklogInv
<1>3. answer'[cur] = "closed" /\ \A c \in Client : c # cur => answer'[c] = answer[c]
  BY <1>1, <1>2 DEF IInv, TypeOK
<1>4. WaitInv'
  <2>1. \A c \in Client : AtHand(c)' = (c \in Queued(backlog))
    BY <1>1 DEF AtHand
  <2> QED BY <1>1, <1>2, <1>3, <2>1 DEF WaitInv, AtHand
<1>5. KnownInv'
  BY <1>1 DEF KnownInv
<1>6. GuestInv'
  BY <1>1, <1>2, <1>3, MainGuests DEF GuestInv, Running
<1>7. ReachInv'
  BY <1>1, <1>2, <1>3 DEF ReachInv, AtThread, Running
<1> QED BY <1>4, <1>5, <1>6, <1>7

LEMMA SendEndpointRest == IInv /\ RestInv /\ SendEndpoint => RestInv'
<1> SUFFICES ASSUME IInv, RestInv, SendEndpoint PROVE RestInv'
  OBVIOUS
<1> USE DEF RestInv
<1>1. /\ pc = "send" /\ pc' = "keep" /\ port \in Port
      /\ endpoint' = [endpoint EXCEPT ![cur] = port]
      /\ UNCHANGED <<client, answer, backlog, cur, port, clients_served, third_thread, at, pending, serving>>
  BY DEF SendEndpoint, threadVars, IInv, TypeOK
<1>2. /\ cur \in Client /\ endpoint[cur] = NoPort /\ cur \notin Queued(backlog) /\ client[cur] # "idle"
      /\ answer[cur] = "none"
  BY <1>1 DEF IInv, BacklogInv, WaitInv, AtHand
<1>3. endpoint'[cur] = port /\ \A c \in Client : c # cur => endpoint'[c] = endpoint[c]
  BY <1>1, <1>2 DEF IInv, TypeOK
<1>4. WaitInv'
  <2>1. \A c \in Client : AtHand(c)' = (c \in Queued(backlog))
    BY <1>1 DEF AtHand
  <2>2. port # NoPort
    BY <1>1, Ports
  <2> QED BY <1>1, <1>2, <1>3, <2>1, <2>2 DEF WaitInv, AtHand
<1>5. KnownInv'
  <2>1. \A c \in Client : endpoint[c] # NoPort => endpoint'[c] = endpoint[c]
    BY <1>2, <1>3
  <2>2. clients_served = MAX_CLIENTS =>
          /\ third_thread \in Port /\ at[third_thread] # "off"
          /\ \E c \in Client : endpoint'[c] = third_thread
    BY <2>1, Ports DEF KnownInv
  <2>3. \A p \in Port : at[p] # "off" => \E c \in Client : endpoint'[c] = p
    BY <1>1, <1>2, <1>3, <2>1, Ports DEF KnownInv
  <2> QED BY <1>1, <1>2, <1>3, <2>2, <2>3 DEF KnownInv
<1>6. GuestInv'
  BY <1>1, <1>2, <1>3, MainGuests DEF GuestInv, Running
<1>7. ReachInv'
  <2> SUFFICES ASSUME NEW c \in Client, client[c] \in {"connected", "asked"}, answer[c] = "none"
               PROVE  AtThread(c)'
    BY <1>1 DEF ReachInv
  <2>1. AtThread(c) /\ endpoint[c] # NoPort
    BY <1>1 DEF ReachInv, WaitInv, Running
  <2> QED BY <2>1, <1>1, <1>2, <1>3 DEF AtThread
<1> QED BY <1>4, <1>5, <1>6, <1>7

LEMMA KeepThreadRest == IInv /\ RestInv /\ KeepThread => RestInv'
<1> SUFFICES ASSUME IInv, RestInv, KeepThread PROVE RestInv'
  OBVIOUS
<1> USE DEF RestInv
<1>1. /\ pc = "keep" /\ pc' = "accept" /\ port \in Port
      /\ third_thread' = IF clients_served = MAX_CLIENTS - 1 THEN port ELSE third_thread
      /\ clients_served' = clients_served + 1
      /\ UNCHANGED <<client, endpoint, answer, backlog, port, at, pending, serving>>
  BY DEF KeepThread, clientVars, threadVars, IInv, TypeOK
<1>2. WaitInv'
  <2>1. \A c \in Client : AtHand(c)' = AtHand(c)
    BY <1>1 DEF AtHand
  <2> QED BY <1>1, <2>1 DEF WaitInv
<1>3. KnownInv'
  <2>1. clients_served' = MAX_CLIENTS => third_thread' = port
    BY <1>1, MaxClientsAssumption DEF IInv, TypeOK
  <2>2. at[port] # "off" /\ \E c \in Client : endpoint[c] = port
    BY <1>1 DEF KnownInv
  <2> QED BY <1>1, <2>1, <2>2 DEF KnownInv
<1>4. GuestInv'
  BY <1>1, MainGuests DEF GuestInv, Running
<1>5. ReachInv'
  BY <1>1 DEF ReachInv, AtThread, Running
<1> QED BY <1>2, <1>3, <1>4, <1>5

LEMMA JoinAndExitRest == IInv /\ RestInv /\ JoinAndExit => RestInv'
<1> SUFFICES ASSUME IInv, RestInv, JoinAndExit PROVE RestInv'
  OBVIOUS
<1> USE DEF RestInv
<1>1. /\ pc = "accept" /\ pc' = "exited" /\ clients_served = MAX_CLIENTS /\ at[third_thread] = "ended"
      /\ at' = [p \in Port |-> IF at[p] = "off" THEN "off" ELSE "ended"]
      /\ UNCHANGED <<client, endpoint, answer, backlog, cur, port, clients_served, third_thread, pending, serving>>
  BY DEF JoinAndExit, clientVars
<1>2. \A p \in Port : at'[p] = IF at[p] = "off" THEN "off" ELSE "ended"
  BY <1>1
<1>3. WaitInv'
  <2>1. \A c \in Client : AtHand(c)' = AtHand(c)
    BY <1>1 DEF AtHand
  <2> QED BY <1>1, <2>1 DEF WaitInv
<1>4. KnownInv'
  BY <1>1, <1>2 DEF KnownInv
<1>5. GuestInv'
  <2> SUFFICES ASSUME NEW p \in Port PROVE Guest(p)'
    BY DEF GuestInv
  <2>1. Guest(p)
    BY DEF GuestInv
  <2>2. \A c \in Client : Came(c)' = Came(c)
    BY <1>1 DEF Came
  <2>3. serving[p] # NoClient => serving[p] \in Client
    BY Served
  <2>4. p = third_thread =>
          serving[p] = NoClient \/ answer[serving[p]] = "time" \/ client[serving[p]] = "gone"
    BY <1>1, <2>1 DEF Guest, Running
  <2>5. at'[p] = IF at[p] = "off" THEN "off" ELSE "ended"
    BY <1>2
  <2>6. /\ at'[p] \in {"off", "listen", "accept"} => serving[p] = NoClient
        /\ at'[p] # "read" /\ (at[p] # "off" => at'[p] = "ended")
    BY <2>1, <2>5 DEF Guest
  <2>7. ~Running'
    BY <1>1 DEF Running
  <2> QED BY <1>1, <2>1, <2>2, <2>3, <2>4, <2>6, <2>7 DEF Guest
<1>6. ReachInv'
  BY <1>1 DEF ReachInv, Running
<1> QED BY <1>3, <1>4, <1>5, <1>6

LEMMA AcceptServiceRest == ASSUME IInv, RestInv, NEW p \in Port, AcceptService(p) PROVE RestInv'
<1> USE DEF RestInv
<1>1. /\ at[p] = "accept" /\ pending[p] # <<>> /\ serving' = [serving EXCEPT ![p] = Head(pending[p])]
      /\ pending' = [pending EXCEPT ![p] = Tail(@)] /\ at' = [at EXCEPT ![p] = "read"]
      /\ UNCHANGED <<client, endpoint, answer, backlog, pc, cur, port, clients_served, third_thread>>
  BY DEF AcceptService, clientVars, mainVars
<1>2. Running
  BY <1>1 DEF KnownInv, Running
<1>3. serving[p] = NoClient /\ \E c \in Client : pending[p] = <<c>>
  BY <1>1 DEF GuestInv, Guest
<1>4. PICK d \in Client : pending[p] = <<d>>
  BY <1>3
<1>5. endpoint[d] = p /\ Came(d) /\ StillComes(d)
  BY <1>2, <1>4 DEF GuestInv, Guest
<1>6. /\ serving'[p] = d /\ pending'[p] = <<>> /\ at'[p] = "read"
      /\ \A q \in Port : q # p => serving'[q] = serving[q] /\ pending'[q] = pending[q] /\ at'[q] = at[q]
  BY <1>1, <1>4, One DEF IInv, TypeOK
<1>7. \A c \in Client : AtHand(c)' = AtHand(c) /\ StillComes(c)' = StillComes(c) /\ Came(c)' = Came(c)
  BY <1>1 DEF AtHand, StillComes, Came
<1>8. WaitInv'
  <2>1. ASSUME NEW c \in Client, answer[c] = "time" PROVE serving'[endpoint[c]] = c
    <3>1. endpoint[c] \in Port /\ serving[endpoint[c]] = c
      BY <2>1 DEF WaitInv, IInv, TypeOK
    <3> QED BY <3>1, <1>3, <1>6, NoClientAssumption
  <2> QED BY <1>1, <1>7, <2>1 DEF WaitInv
<1>9. KnownInv'
  <2>1. \A q \in Port : at'[q] = "off" <=> at[q] = "off"
    BY <1>1, <1>6
  <2>2. pc = "send" \/ pc = "keep" => port \in Port
    BY DEF IInv, TypeOK
  <2> QED BY <1>1, <1>2, <2>1, <2>2 DEF KnownInv, Running
<1>10. GuestInv'
  <2> SUFFICES ASSUME NEW q \in Port PROVE Guest(q)'
    BY DEF GuestInv
  <2>1. CASE q = p
    BY <2>1, <1>1, <1>5, <1>6, <1>7, One DEF Guest
  <2>2. CASE q # p
    <3>1. serving[q] # NoClient => serving[q] \in Client
      BY Served
    <3>2. at[q] = "read" => serving[q] \in Client
      BY <3>1 DEF IInv, ThreadInv
    <3>3. Guest(q) /\ serving'[q] = serving[q] /\ pending'[q] = pending[q] /\ at'[q] = at[q]
      BY <1>6, <2>2 DEF GuestInv
    <3>4. (at[q] = "read" => StillComes(serving[q])') /\ (serving[q] # NoClient => Came(serving[q])')
      BY <1>1, <3>3 DEF Guest, StillComes, Came
    <3>5. \A c \in Client : (StillComes(c) => StillComes(c)') /\ (Came(c) => Came(c)')
      BY <1>7
    <3>6. UNCHANGED <<answer, endpoint, client, pc, third_thread>>
      BY <1>1
    <3> QED BY <3>3, <3>4, <3>5, <3>6 DEF Guest, Running
  <2> QED BY <2>1, <2>2
<1>11. ReachInv'
  <2> SUFFICES ASSUME NEW c \in Client, client[c] \in {"connected", "asked"}, answer[c] = "none"
               PROVE  AtThread(c)'
    BY <1>1 DEF ReachInv
  <2>1. AtThread(c) /\ endpoint[c] \in Port
    BY <1>2 DEF ReachInv, WaitInv, IInv, TypeOK
  <2>2. CASE endpoint[c] = p
    <3>1. c = d
      BY <2>1, <2>2, <1>5, Ports DEF IInv, EndpointInv
    <3> QED BY <3>1, <2>2, <1>1, <1>6 DEF AtThread
  <2>3. CASE endpoint[c] # p
    BY <2>1, <2>3, <1>1, <1>6 DEF AtThread
  <2> QED BY <2>2, <2>3
<1> QED BY <1>8, <1>9, <1>10, <1>11

\* A thread that goes on, with its client if it has one.
LEMMA ThreadRest ==
  ASSUME IInv, RestInv, NEW p \in Port,
         NEW place \in {"accept", "send", "close", "ended"},
         at[p] \notin {"off", "ended"}, at' = [at EXCEPT ![p] = place],
         place = "accept" => at[p] = "listen",
         place = "send" => at[p] = "read",
         place = "close" => at[p] = "send" \/ (at[p] = "read" /\ client[serving[p]] = "gone"),
         place = "ended" => at[p] \in {"listen", "close"},
         at[p] = "send" => answer' = [answer EXCEPT ![serving[p]] = "time"],
         at[p] # "send" => answer' = answer,
         UNCHANGED <<client, endpoint, mainVars, pending, serving>>
  PROVE  RestInv'
<1> USE DEF RestInv
<1> DEFINE d == serving[p]
<1>1. /\ at'[p] = place /\ \A q \in Port : q # p => at'[q] = at[q]
      /\ UNCHANGED <<client, endpoint, backlog, pc, cur, port, clients_served, third_thread, pending, serving>>
  BY DEF IInv, TypeOK, mainVars
<1>2. Running
  BY DEF KnownInv, Running
<1>3. at[p] \in {"read", "send", "close"} => d \in Client /\ endpoint[d] = p /\ d # NoClient
  BY NoClientAssumption DEF IInv, ThreadInv, TypeOK
<1>4. /\ at[p] = "send" => answer'[d] = "time" /\ \A c \in Client : c # d => answer'[c] = answer[c]
      /\ at[p] # "send" => answer' = answer
  BY <1>3 DEF IInv, TypeOK
<1>5. \A c \in Client : answer'[c] = answer[c] \/ (at[p] = "send" /\ c = d /\ answer'[c] = "time")
  BY <1>4
<1>6. \A c \in Client : answer[c] = "time" => answer'[c] = "time"
  BY <1>5
<1>7. WaitInv'
  <2>1. \A c \in Client : AtHand(c)' = AtHand(c)
    BY <1>1 DEF AtHand
  <2>2. \A c \in Client : AtHand(c) \/ client[c] = "idle" => endpoint[c] = NoPort
    BY DEF AtHand, IInv, BacklogInv
  <2>3. p # NoPort
    BY Ports
  <2> QED BY <1>1, <1>3, <1>5, <2>1, <2>2, <2>3 DEF WaitInv
<1>8. KnownInv'
  <2>1. \A q \in Port : at'[q] # "off" <=> at[q] # "off"
    BY <1>1
  <2>2. port \in Port
    BY DEF IInv, TypeOK
  <2> QED BY <1>1, <1>2, <2>1, <2>2 DEF KnownInv, Running
<1>9. \A q \in Port : Guest(q)
  BY DEF GuestInv
<1>10. GuestInv'
  <2> SUFFICES ASSUME NEW q \in Port PROVE Guest(q)'
    BY DEF GuestInv
  <2>1. \A c \in Client : Came(c)' = Came(c)
    BY <1>1 DEF Came
  <2>2. serving[q] # NoClient => serving[q] \in Client /\ endpoint[serving[q]] = q
    BY Served
  <2>3. \A c \in Client : pending[q] = <<c>> => StillComes(c)'
    <3> SUFFICES ASSUME NEW c \in Client, pending[q] = <<c>> PROVE StillComes(c)'
      OBVIOUS
    <3>1. endpoint[c] = q /\ StillComes(c) /\ serving[q] = NoClient
      BY <1>2, <1>9, One DEF Guest
    <3>2. ~(at[p] = "send" /\ c = d)
      BY <3>1, <1>3
    <3> QED BY <3>1, <3>2, <1>1, <1>5 DEF StillComes
  <2>4. serving[q] # NoClient => Came(serving[q])'
    BY <1>1, <1>9 DEF Guest, Came
  <2>5. CASE q = p
    <3>1. at'[q] \in {"off", "listen", "accept"} => serving[q] = NoClient
      BY <2>5, <1>1, <1>9 DEF Guest
    <3>2. at'[q] \in {"close", "ended"} =>
            serving[q] = NoClient \/ answer'[serving[q]] = "time" \/ client[serving[q]] = "gone"
      BY <2>5, <1>1, <1>2, <1>3, <1>4, <1>6, <1>9, <2>2 DEF Guest
    <3>3. at'[q] # "read"
      BY <2>5, <1>1
    <3>4. \A c \in Client : pending[q] = <<c>> => endpoint[c] = q /\ Came(c)'
      BY <1>9, <2>1 DEF Guest
    <3>5. pending[q] = <<>>
      BY <2>5, <1>2, <1>3, <1>9 DEF Guest
    <3> QED BY <1>1, <2>3, <2>4, <3>1, <3>2, <3>3, <3>4, <3>5 DEF Guest
  <2>6. CASE q # p
    <3>1. at[q] = "read" => StillComes(serving[q])'
      <4> SUFFICES ASSUME at[q] = "read" PROVE StillComes(serving[q])'
        OBVIOUS
      <4>1. serving[q] \in Client /\ endpoint[serving[q]] = q /\ StillComes(serving[q])
        BY <2>2, <1>9 DEF IInv, ThreadInv, Guest
      <4>2. ~(at[p] = "send" /\ serving[q] = d)
        BY <4>1, <2>6, <1>3
      <4> QED BY <4>1, <4>2, <1>1, <1>5 DEF StillComes
    <3>2. at[q] \in {"close", "ended"} =>
            serving[q] = NoClient \/ answer'[serving[q]] = "time" \/ client[serving[q]] = "gone"
      BY <1>2, <1>6, <1>9, <2>2 DEF Guest
    <3>3. at'[q] = at[q]
      BY <1>1, <2>6
    <3>4. \A c \in Client : pending[q] = <<c>> => endpoint[c] = q /\ Came(c)'
      BY <1>9, <2>1 DEF Guest
    <3>5. /\ pending[q] = <<>> \/ (serving[q] = NoClient /\ at[q] = "accept"
                                   /\ \E c \in Client : pending[q] = <<c>>)
          /\ at[q] \in {"off", "listen", "accept"} => serving[q] = NoClient
      BY <1>2, <1>9 DEF Guest
    <3> QED BY <1>1, <2>3, <2>4, <3>1, <3>2, <3>3, <3>4, <3>5 DEF Guest
  <2> QED BY <2>5, <2>6
<1>11. ReachInv'
  <2> SUFFICES ASSUME NEW c \in Client, client[c] \in {"connected", "asked"}, answer'[c] = "none"
               PROVE  AtThread(c)'
    BY <1>1 DEF ReachInv
  <2>1. answer[c] = "none" /\ ~(at[p] = "send" /\ c = d)
    BY <1>4, <1>5
  <2>2. AtThread(c) /\ endpoint[c] \in Port
    BY <1>2, <2>1 DEF ReachInv, WaitInv, IInv, TypeOK
  <2>3. CASE endpoint[c] # p
    BY <2>2, <2>3, <1>1 DEF AtThread
  <2>4. CASE endpoint[c] = p /\ pending[p] = <<c>>
    BY <2>4, <1>1 DEF AtThread
  <2>5. CASE endpoint[c] = p /\ serving[p] = c /\ at[p] \in {"read", "send"}
    <3>1. at[p] = "read" /\ place = "send"
      BY <2>1, <2>5
    <3> QED BY <3>1, <2>5, <1>1 DEF AtThread
  <2> QED BY <2>2, <2>3, <2>4, <2>5 DEF AtThread
<1> QED BY <1>7, <1>8, <1>10, <1>11

LEMMA RestStep == IInv /\ RestInv /\ [Next]_vars => RestInv'
<1> SUFFICES ASSUME IInv, RestInv, [Next]_vars PROVE RestInv'
  OBVIOUS
<1>1. CASE UNCHANGED vars
  BY <1>1 DEF vars, RestInv, WaitInv, AtHand, KnownInv, GuestInv, Guest, StillComes, Came, ReachInv,
              AtThread, Running
<1>2. CASE MainStep
  BY <1>2, AcceptRest, CreateThreadRest, CreateFailsRest, SendEndpointRest, KeepThreadRest,
     JoinAndExitRest DEF MainStep
<1>3. ASSUME NEW p \in Port, ThreadStep(p) PROVE RestInv'
  <2>1. CASE AcceptService(p)
    BY <2>1, AcceptServiceRest
  <2>2. CASE Listen(p)
    BY <2>2, ThreadRest DEF Listen, clientVars
  <2>3. CASE ListenFails(p)
    BY <2>3, ThreadRest DEF ListenFails, clientVars
  <2>4. CASE ReadRequest(p)
    <3>1. PICK place \in {"send", "close"} :
            /\ at' = [at EXCEPT ![p] = place]
            /\ place = "close" => client[serving[p]] = "gone"
      BY <2>4 DEF ReadRequest
    <3> QED BY <2>4, <3>1, ThreadRest DEF ReadRequest, clientVars
  <2>5. CASE SendAnswer(p)
    BY <2>5, ThreadRest DEF SendAnswer
  <2>6. CASE CloseAndEnd(p)
    BY <2>6, ThreadRest DEF CloseAndEnd, clientVars, AfterClose
  <2> QED BY <1>3, <2>1, <2>2, <2>3, <2>4, <2>5, <2>6 DEF ThreadStep
<1>4. ASSUME NEW c \in Client, ConnectMain(c) \/ ClientStep(c) \/ Die(c) PROVE RestInv'
  BY <1>4, ClientRest
<1> QED BY <1>1, <1>2, <1>3, <1>4 DEF Next, Quiet

LEMMA Resting == Spec => []RestInv
BY RestInit, RestStep, Invariance, PTL DEF Spec

LEMMA Rests == IInv /\ RestInv => RestsOnlyUnreached
<1> SUFFICES ASSUME IInv, RestInv, ~MainCan,
                    \A p \in Port : ~ThreadCan(p), \A c \in Client : ~ClientCan(c)
             PROVE  /\ \A p \in Port : at[p] \in {"off", "ended"} \/
                         (at[p] = "accept" /\ \E c \in Client : endpoint[c] = p /\ client[c] \in {"failed", "gone"})
                    /\ \A c \in Client : client[c] \in {"idle"} \cup Over \/
                         (client[c] = "waiting" /\ ~MoreToServe /\ at[third_thread] = "accept")
                    /\ clients_served = MAX_CLIENTS => LastSettled
  BY DEF RestsOnlyUnreached
<1> USE DEF RestInv
<1>1. pc \in {"accept", "exited"}
  BY DEF MainCan, IInv, TypeOK
<1>2. \A p \in Port : Guest(p)
  BY DEF GuestInv
\* A thread that reads has a client that is going to write.
<1>3. ASSUME NEW p \in Port PROVE at[p] \in {"off", "ended", "accept"}
  <2>1. at[p] # "read"
    <3> SUFFICES ASSUME at[p] = "read" PROVE FALSE
      OBVIOUS
    <3>1. serving[p] \in Client /\ StillComes(serving[p])
      BY <1>2 DEF IInv, ThreadInv, TypeOK, Guest
    <3> QED BY <3>1 DEF StillComes, ClientCan, ThreadCan
  <2> QED BY <2>1 DEF ThreadCan, IInv, TypeOK
<1>4. ASSUME NEW c \in Client PROVE client[c] \in {"idle", "waiting"} \cup Over
  <2>1. client[c] # "asked"
    <3> SUFFICES ASSUME client[c] = "asked" PROVE FALSE
      OBVIOUS
    <3>1. answer[c] = "none" /\ Running /\ endpoint[c] \in Port
      BY DEF ClientCan, WaitInv, IInv, TypeOK
    <3>2. AtThread(c)
      BY <3>1 DEF ReachInv
    <3>3. pending[endpoint[c]] = <<c>>
      BY <3>1, <3>2, <1>3 DEF AtThread
    <3>4. at[endpoint[c]] = "accept"
      BY <3>1, <3>3, One, <1>2 DEF Guest
    <3> QED BY <3>1, <3>3, <3>4, One DEF ThreadCan
  <2> QED BY <2>1 DEF ClientCan, IInv, TypeOK
<1>5. ASSUME NEW p \in Port, at[p] = "accept"
      PROVE  \E c \in Client : endpoint[c] = p /\ client[c] \in {"failed", "gone"}
  <2>1. PICK c \in Client : endpoint[c] = p
    BY <1>1, <1>5 DEF KnownInv
  <2>2. client[c] \notin {"idle", "waiting"}
    BY <2>1, Ports DEF ClientCan, IInv, BacklogInv
  <2>3. client[c] # "done"
    <3> SUFFICES ASSUME client[c] = "done" PROVE FALSE
      OBVIOUS
    <3>1. answer[c] = "time"
      BY <2>1, Ports DEF WaitInv, IInv, TypeOK
    <3>2. serving[p] = c
      BY <2>1, <3>1 DEF WaitInv
    <3> QED BY <3>2, <1>2, <1>5, NoClientAssumption DEF Guest
  <2> QED BY <2>1, <2>2, <2>3, <1>4 DEF Over
<1>6. ASSUME clients_served = MAX_CLIENTS
      PROVE  LastSettled /\ (pc = "accept" => at[third_thread] = "accept")
  <2>1. third_thread \in Port /\ at[third_thread] # "off" /\ \E c \in Client : endpoint[c] = third_thread
    BY <1>6 DEF KnownInv
  <2>2. pc = "accept" => at[third_thread] = "accept"
    BY <1>3, <1>6, <2>1 DEF MainCan
  <2>3. CASE pc = "accept"
    BY <2>1, <2>2, <2>3, <1>2, <1>5, Ports DEF LastSettled, Guest
  <2>4. CASE pc = "exited" /\ serving[third_thread] # NoClient
    <3>1. serving[third_thread] \in Client /\ endpoint[serving[third_thread]] = third_thread
      BY <2>1, <2>4, Served
    <3>2. at[third_thread] = "ended"
      BY <2>1, <2>4 DEF KnownInv
    <3> QED BY <3>1, <3>2, <2>1, <2>4, <1>2, Ports DEF LastSettled, Guest
  <2>5. CASE pc = "exited" /\ serving[third_thread] = NoClient
    <3>1. PICK c \in Client : endpoint[c] = third_thread
      BY <2>1
    <3>2. client[c] \in Over
      BY <3>1, <2>1, <1>4, Ports DEF ClientCan, IInv, BacklogInv
    <3>3. client[c] = "done" => answer[c] = "time"
      BY <3>1, <2>1, Ports DEF WaitInv, IInv, TypeOK
    <3> QED BY <3>1, <3>2, <3>3, <2>1, <2>5, Ports DEF LastSettled, Over
  <2> QED BY <1>1, <2>2, <2>3, <2>4, <2>5
<1>7. ASSUME NEW c \in Client, client[c] = "waiting"
      PROVE  ~MoreToServe /\ at[third_thread] = "accept"
  <2>1. endpoint[c] = NoPort /\ answer[c] = "none" /\ pc = "accept"
    BY <1>1, <1>7 DEF ClientCan, IInv, TypeOK, Running, WaitInv
  <2>2. c \in Queued(backlog)
    BY <1>7, <2>1 DEF WaitInv, AtHand
  <2>3. backlog # <<>>
    BY <2>2 DEF Queued
  <2>4. ~MoreToServe
    BY <2>1, <2>3 DEF MainCan
  <2>5. clients_served = MAX_CLIENTS
    BY <2>4, MaxClientsAssumption DEF MoreToServe, IInv, TypeOK
  <2> QED BY <2>1, <2>4, <2>5, <1>6
<1> QED BY <1>3, <1>4, <1>5, <1>6, <1>7

\* Where nobody can go on, the threads that have not ended wait for clients
\* that will not come, nobody waits for an answer, and the last client is
\* settled: the safety half of ServerEnds.
THEOREM RestCorrect == Spec => []RestsOnlyUnreached
BY Invariance, Resting, Rests, PTL
=============================================================================
