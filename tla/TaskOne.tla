------------------------------- MODULE TaskOne -------------------------------
(***************************************************************************)
(* src/SocketsSS/TaskOne: for each of MAX_CLIENTS clients the main server  *)
(* starts a service thread on a port of its own and sends the client that  *)
(* port; the thread serves one client and ends.  Main waits for the thread *)
(* of the last client only and returns, which ends the whole process.      *)
(*                                                                         *)
(* The k-th thread and its args are named by the k-th port.  args[k] is    *)
(* the block main allocates, the thread frees and both read.               *)
(***************************************************************************)
EXTENDS Integers, Sequences, FiniteSets

CONSTANTS Client,       \* one run of a client program each
          NoClient,
          MAX_CLIENTS,
          MaxPort       \* bound: ports 0..MaxPort - 1 stand for 10900, ..., one for each run
                        \* of a client is enough

ASSUME MaxClientsAssumption == MAX_CLIENTS \in Nat \ {0}
ASSUME ClientsAssumption == IsFiniteSet(Client)
ASSUME MaxPortAssumption == MaxPort \in Nat \ {0} /\ MaxPort >= Cardinality(Client)
ASSUME NoClientAssumption == NoClient \notin Client

VARIABLES
  client,          \* where each client is
  endpoint,        \* the port it was sent
  answer,          \* what it was sent by its thread
  backlog,         \* connections that wait for main's accept
  pc, cur, port,   \* main: place, client at hand, args->service_port
  clients_served,
  current_port,    \* get_free_port's static counter
  third_thread,    \* the thread main joins
  at,              \* per port, where its thread is
  args,            \* per port, the args block
  pending,         \* per port, connections that wait for accept
  serving          \* per port, the client accepted

clientVars == <<client, endpoint, answer>>
mainVars == <<backlog, pc, cur, port, clients_served, current_port, third_thread>>
threadVars == <<at, args, pending, serving>>
vars == <<client, endpoint, answer, backlog, pc, cur, port, clients_served, current_port,
          third_thread, at, args, pending, serving>>

Port == 0..MaxPort - 1
NoPort == -1
Over == {"done", "failed", "gone"}      \* how a client ends

Init ==
  /\ client = [c \in Client |-> "idle"]
  /\ endpoint = [c \in Client |-> NoPort]
  /\ answer = [c \in Client |-> "none"]
  /\ backlog = <<>>
  /\ pc = "accept" /\ cur = NoClient /\ port = 0 /\ clients_served = 0 /\ current_port = 0
  /\ third_thread = NoPort
  /\ at = [p \in Port |-> "off"]
  /\ args = [p \in Port |-> "none"]
  /\ pending = [p \in Port |-> <<>>]
  /\ serving = [p \in Port |-> NoClient]

Running == pc # "exited"

-----------------------------------------------------------------------------
(* The client program.                                                     *)

ConnectMain(c) ==
  /\ client[c] = "idle"
  /\ IF Running THEN /\ client' = [client EXCEPT ![c] = "waiting"]
                     /\ backlog' = Append(backlog, c)
                ELSE /\ client' = [client EXCEPT ![c] = "failed"]
                     /\ UNCHANGED backlog
  /\ UNCHANGED <<endpoint, answer, pc, cur, port, clients_served, current_port, third_thread, threadVars>>

\* The endpoint, or the end of a connection that main closed or that ended
\* with the server: its ip and port then hold what sscanf never wrote, and
\* connect fails.
ReadEndpoint(c) ==
  /\ client[c] = "waiting"
  /\ \/ endpoint[c] # NoPort /\ client' = [client EXCEPT ![c] = "directed"]
     \/ /\ endpoint[c] = NoPort /\ (answer[c] = "closed" \/ ~Running)
        /\ client' = [client EXCEPT ![c] = "failed"]
  /\ UNCHANGED <<endpoint, answer, mainVars, threadVars>>

\* connect is refused as long as nobody listens on the port.
Listening(p) == Running /\ at[p] \in {"accept", "read", "send", "close"}

ConnectService(c) ==
  /\ client[c] = "directed"
  /\ \/ /\ Listening(endpoint[c])
        /\ client' = [client EXCEPT ![c] = "connected"]
        /\ pending' = [pending EXCEPT ![endpoint[c]] = Append(@, c)]
     \/ /\ ~Listening(endpoint[c])
        /\ client' = [client EXCEPT ![c] = "failed"]
        /\ UNCHANGED pending
  /\ UNCHANGED <<endpoint, answer, mainVars, at, args, serving>>

SendTime(c) ==
  /\ client[c] = "connected"
  /\ client' = [client EXCEPT ![c] = "asked"]
  /\ UNCHANGED <<endpoint, answer, mainVars, threadVars>>

\* The time, or the end of the connection when the server is gone.
ReadAnswer(c) ==
  /\ client[c] = "asked"
  /\ \/ answer[c] # "none" /\ client' = [client EXCEPT ![c] = "done"]
     \/ answer[c] = "none" /\ ~Running /\ client' = [client EXCEPT ![c] = "failed"]
  /\ UNCHANGED <<endpoint, answer, mainVars, threadVars>>

Die(c) ==
  /\ client[c] \in {"waiting", "directed", "connected", "asked"}
  /\ client' = [client EXCEPT ![c] = "gone"]
  /\ UNCHANGED <<endpoint, answer, mainVars, threadVars>>

ClientStep(c) == ReadEndpoint(c) \/ ConnectService(c) \/ SendTime(c) \/ ReadAnswer(c)

-----------------------------------------------------------------------------
(* The main server.                                                        *)

\* Mutants: the counter is not static; the port is
\* needed no more once the socket is bound; the thread serves on.
MoreToServe == clients_served < MAX_CLIENTS
AlwaysFirstPort == 0
FreePort == current_port
FreesEarly(p) == args' = [args EXCEPT ![p] = "freed"]
KeepsArgs(p) == UNCHANGED args
ServesOn == "accept"
AfterClose == "ended"

Accept ==
  /\ pc = "accept" /\ MoreToServe /\ backlog # <<>>
  /\ cur' = Head(backlog) /\ backlog' = Tail(backlog)
  /\ pc' = "create"
  /\ UNCHANGED <<clientVars, port, clients_served, current_port, third_thread, threadVars>>

\* malloc, get_free_port and pthread_create; the thread may run at once.
CreateThread ==
  /\ pc = "create"
  /\ port' = FreePort
  /\ at' = [at EXCEPT ![port'] = "listen"]
  /\ args' = [args EXCEPT ![port'] = "allocated"]
  /\ current_port' = current_port + 1
  /\ pc' = "send"
  /\ UNCHANGED <<clientVars, backlog, cur, clients_served, third_thread, pending, serving>>

\* pthread_create fails: the port is used up and the client is closed
\* without a word.
CreateFails ==
  /\ pc = "create"
  /\ current_port' = current_port + 1
  /\ answer' = [answer EXCEPT ![cur] = "closed"]
  /\ pc' = "accept" /\ cur' = NoClient
  /\ UNCHANGED <<client, endpoint, backlog, port, clients_served, third_thread, threadVars>>

\* args->service_port is read again for the message.
SendEndpoint ==
  /\ pc = "send"
  /\ endpoint' = [endpoint EXCEPT ![cur] = port]
  /\ pc' = "keep"
  /\ UNCHANGED <<client, answer, backlog, cur, port, clients_served, current_port, third_thread, threadVars>>

\* The last thread is kept for the join, the others are detached.
KeepThread ==
  /\ pc = "keep"
  /\ third_thread' = IF clients_served = MAX_CLIENTS - 1 THEN port ELSE third_thread
  /\ clients_served' = clients_served + 1
  /\ pc' = "accept" /\ cur' = NoClient
  /\ UNCHANGED <<clientVars, backlog, port, current_port, threadVars>>

\* pthread_join of the third thread, and the return that ends the process
\* with every thread left in it.
JoinAndExit ==
  /\ pc = "accept" /\ clients_served = MAX_CLIENTS
  /\ at[third_thread] = "ended"
  /\ pc' = "exited"
  /\ at' = [p \in Port |-> IF at[p] = "off" THEN "off" ELSE "ended"]
  /\ UNCHANGED <<clientVars, backlog, cur, port, clients_served, current_port, third_thread,
                 args, pending, serving>>

MainStep == Accept \/ CreateThread \/ CreateFails \/ SendEndpoint \/ KeepThread \/ JoinAndExit

-----------------------------------------------------------------------------
(* A service thread.                                                       *)

Listen(p) ==
  /\ at[p] = "listen"
  /\ at' = [at EXCEPT ![p] = "accept"]
  /\ KeepsArgs(p)
  /\ UNCHANGED <<clientVars, mainVars, pending, serving>>

\* socket, bind or listen fails: the thread ends and keeps its args.
ListenFails(p) ==
  /\ at[p] = "listen"
  /\ at' = [at EXCEPT ![p] = "ended"]
  /\ UNCHANGED <<clientVars, mainVars, args, pending, serving>>

AcceptService(p) ==
  /\ at[p] = "accept" /\ pending[p] # <<>>
  /\ serving' = [serving EXCEPT ![p] = Head(pending[p])]
  /\ pending' = [pending EXCEPT ![p] = Tail(@)]
  /\ at' = [at EXCEPT ![p] = "read"]
  /\ UNCHANGED <<clientVars, mainVars, args>>

\* read waits for the request, which is always TIME, or for the end of a
\* client that is gone; such a client may have sent its request before.
ReadRequest(p) ==
  /\ at[p] = "read" /\ client[serving[p]] \in {"asked", "gone"}
  /\ \/ at' = [at EXCEPT ![p] = IF client[serving[p]] = "asked" THEN "send" ELSE "close"]
     \/ client[serving[p]] = "gone" /\ at' = [at EXCEPT ![p] = "send"]
  /\ UNCHANGED <<clientVars, mainVars, args, pending, serving>>

SendAnswer(p) ==
  /\ at[p] = "send"
  /\ answer' = [answer EXCEPT ![serving[p]] = "time"]
  /\ at' = [at EXCEPT ![p] = "close"]
  /\ UNCHANGED <<client, endpoint, mainVars, args, pending, serving>>

\* Both descriptors are closed, the args freed, the thread returns.
CloseAndEnd(p) ==
  /\ at[p] = "close"
  /\ args' = [args EXCEPT ![p] = "freed"]
  /\ at' = [at EXCEPT ![p] = AfterClose]
  /\ UNCHANGED <<clientVars, mainVars, pending, serving>>

ThreadStep(p) ==
  Listen(p) \/ ListenFails(p) \/ AcceptService(p) \/ ReadRequest(p) \/ SendAnswer(p) \/ CloseAndEnd(p)

Quiet ==
  /\ \A c \in Client : client[c] \in Over
  /\ UNCHANGED vars

Next ==
  \/ MainStep
  \/ \E p \in Port : ThreadStep(p)
  \/ \E c \in Client : ConnectMain(c) \/ ClientStep(c) \/ Die(c)
  \/ Quiet

Spec == Init /\ [][Next]_vars

FairSpec ==
  /\ Spec
  /\ WF_vars(MainStep)
  /\ \A p \in Port : WF_vars(ThreadStep(p))
  /\ \A c \in Client : WF_vars(ClientStep(c))

-----------------------------------------------------------------------------
(* Properties.                                                             *)

TypeOK ==
  /\ client \in [Client -> {"idle", "waiting", "directed", "connected", "asked"} \cup Over]
  /\ endpoint \in [Client -> Port \cup {NoPort}]
  /\ answer \in [Client -> {"none", "time", "closed"}]
  /\ backlog \in Seq(Client)
  /\ pc \in {"accept", "create", "send", "keep", "exited"} /\ cur \in Client \cup {NoClient} /\ port \in Port
  /\ clients_served \in 0..MAX_CLIENTS /\ current_port \in 0..MaxPort
  /\ third_thread \in Port \cup {NoPort}
  /\ at \in [Port -> {"off", "listen", "accept", "read", "send", "close", "ended"}]
  /\ args \in [Port -> {"none", "allocated", "freed"}]
  /\ pending \in [Port -> Seq(Client)]
  /\ serving \in [Port -> Client \cup {NoClient}]

\* main reads args->service_port after pthread_create, and the thread frees
\* args: never before, because its client does not know the port yet.
ArgsNotFreedInUse == pc = "send" => args[port] = "allocated"

\* A thread serves the one client that was sent its port.
OwnThread ==
  \A p \in Port :
    /\ serving[p] # NoClient => endpoint[serving[p]] = p
    /\ \A c, d \in Client : endpoint[c] = p /\ endpoint[d] = p => c = d

\* The last client is answered, or has died, before the server ends; only if
\* that client never reaches its thread (it was refused because it came before
\* the thread listened, or it died first) may the server be left waiting.
LastSettled ==
  \E c \in Client :
    /\ third_thread # NoPort /\ endpoint[c] = third_thread
    /\ \/ pc = "exited" /\ (answer[c] = "time" \/ client[c] = "gone")
       \/ serving[third_thread] = NoClient /\ client[c] \in {"failed", "gone"}

\* When MAX_CLIENTS clients have been sent their endpoints, that is how the
\* server ends.
ServerEnds == clients_served = MAX_CLIENTS ~> LastSettled

\* The guards of the steps that are fair.
MainCan ==
  \/ pc \in {"create", "send", "keep"}
  \/ pc = "accept" /\ MoreToServe /\ backlog # <<>>
  \/ pc = "accept" /\ clients_served = MAX_CLIENTS /\ at[third_thread] = "ended"
ThreadCan(p) ==
  \/ at[p] \in {"listen", "send", "close"}
  \/ at[p] = "accept" /\ pending[p] # <<>>
  \/ at[p] = "read" /\ client[serving[p]] \in {"asked", "gone"}
ClientCan(c) ==
  \/ client[c] \in {"directed", "connected"}
  \/ client[c] = "waiting" /\ (endpoint[c] # NoPort \/ answer[c] = "closed" \/ ~Running)
  \/ client[c] = "asked" /\ (answer[c] # "none" \/ ~Running)

\* Where nobody can go on, a thread that has not ended waits for a client that
\* was refused or died on its way, a client waits only for a main that accepts
\* no more and waits for such a thread, and when all clients were sent their
\* endpoints the last one is settled.
RestsOnlyUnreached ==
  ~MainCan /\ (\A p \in Port : ~ThreadCan(p)) /\ (\A c \in Client : ~ClientCan(c)) =>
    /\ \A p \in Port : at[p] \in {"off", "ended"} \/
         (at[p] = "accept" /\ \E c \in Client : endpoint[c] = p /\ client[c] \in {"failed", "gone"})
    /\ \A c \in Client : client[c] \in {"idle"} \cup Over \/
         (client[c] = "waiting" /\ ~MoreToServe /\ at[third_thread] = "accept")
    /\ clients_served = MAX_CLIENTS => LastSettled
=============================================================================
