------------------------------- MODULE TaskTwo -------------------------------
(***************************************************************************)
(* src/SocketsSS/TaskTwo: the main server gives a client the address of a  *)
(* free service server and marks that one busy; the client connects to it, *)
(* is told the time, and the service server marks itself free again.       *)
(*                                                                         *)
(* is_busy[s] is only touched under servers[s].mutex and each critical     *)
(* section is one step; the search over the servers is not.                *)
(***************************************************************************)
EXTENDS Integers, Sequences

CONSTANTS Client,       \* one run of a client program each
          NoClient,
          MAX_CLIENTS   \* number of service servers

ASSUME MaxClientsAssumption == MAX_CLIENTS \in Nat \ {0}
ASSUME NoClientAssumption == NoClient \notin Client

VARIABLES
  client,    \* where each client is
  reply,     \* what main sent it: a server, Full, or nothing yet
  answer,    \* what the service server sent it
  backlog,   \* connections that wait for main's accept
  pc, cur, i, \* main: place, client at hand, loop index of find_free_server
  listening, \* servers whose socket listens
  is_busy,
  at,        \* where each service thread is
  serving,   \* the client it has accepted
  pending,   \* connections that wait for its accept
  holder,    \* history: the client for whom main has marked each server
  all_busy   \* history: no server was free when main accepted cur

clientVars == <<client, reply, answer>>
mainVars == <<backlog, pc, cur, i, all_busy>>
marks == <<is_busy, holder>>
vars == <<client, reply, answer, backlog, pc, cur, i, listening, is_busy, at, serving, pending,
          holder, all_busy>>

Server == 0..MAX_CLIENTS - 1
Nothing == -1
Full == -2              \* the message "ERROR: No free servers available"

Init ==
  /\ client = [c \in Client |-> "idle"]
  /\ reply = [c \in Client |-> Nothing]
  /\ answer = [c \in Client |-> "none"]
  /\ backlog = <<>>
  /\ pc = "init" /\ cur = NoClient /\ i = 0
  /\ listening = [s \in Server |-> FALSE]
  /\ is_busy = [s \in Server |-> FALSE]
  /\ at = [s \in Server |-> "off"]
  /\ serving = [s \in Server |-> NoClient]
  /\ pending = [s \in Server |-> <<>>]
  /\ holder = [s \in Server |-> NoClient] /\ all_busy = FALSE

-----------------------------------------------------------------------------
(* The client program.                                                     *)

ConnectMain(c) ==
  /\ client[c] = "idle" /\ pc # "init"
  /\ client' = [client EXCEPT ![c] = "waiting"]
  /\ backlog' = Append(backlog, c)
  /\ UNCHANGED <<reply, answer, pc, cur, i, all_busy, listening, marks, at, serving, pending>>

ReadReply(c) ==
  /\ client[c] = "waiting" /\ reply[c] # Nothing
  /\ client' = [client EXCEPT ![c] = IF reply[c] = Full THEN "refused" ELSE "directed"]
  /\ UNCHANGED <<reply, answer, mainVars, listening, marks, at, serving, pending>>

\* Nobody listens on the port of a server that could not be set up.
ConnectService(c) ==
  /\ client[c] = "directed"
  /\ \/ /\ listening[reply[c]]
        /\ client' = [client EXCEPT ![c] = "connected"]
        /\ pending' = [pending EXCEPT ![reply[c]] = Append(@, c)]
     \/ /\ ~listening[reply[c]]
        /\ client' = [client EXCEPT ![c] = "failed"]
        /\ UNCHANGED pending
  /\ UNCHANGED <<reply, answer, mainVars, listening, marks, at, serving>>

SendTime(c) ==
  /\ client[c] = "connected"
  /\ client' = [client EXCEPT ![c] = "asked"]
  /\ UNCHANGED <<reply, answer, mainVars, listening, marks, at, serving, pending>>

\* The answer, or the end of the connection.
ReadAnswer(c) ==
  /\ client[c] = "asked" /\ answer[c] # "none"
  /\ client' = [client EXCEPT ![c] = "done"]
  /\ UNCHANGED <<reply, answer, mainVars, listening, marks, at, serving, pending>>

Die(c) ==
  /\ client[c] \in {"waiting", "directed", "connected", "asked"}
  /\ client' = [client EXCEPT ![c] = "gone"]
  /\ UNCHANGED <<reply, answer, mainVars, listening, marks, at, serving, pending>>

ClientStep(c) == ReadReply(c) \/ ConnectService(c) \/ SendTime(c) \/ ReadAnswer(c)

-----------------------------------------------------------------------------
(* The main server.                                                        *)

\* init_servers clears is_busy of every server and goes on after one whose
\* socket or thread could not be set up.
InitServers ==
  /\ pc = "init" /\ pc' = "accept"
  /\ \E up \in SUBSET Server :
       /\ listening' = [s \in Server |-> s \in up]
       /\ at' = [s \in Server |-> IF s \in up THEN "accept" ELSE "off"]
  /\ UNCHANGED <<clientVars, backlog, cur, i, all_busy, marks, serving, pending>>

AcceptClient ==
  /\ pc = "accept" /\ backlog # <<>>
  /\ cur' = Head(backlog) /\ backlog' = Tail(backlog)
  /\ pc' = "find" /\ i' = 0
  /\ all_busy' = \A s \in Server : is_busy[s]
  /\ UNCHANGED <<clientVars, listening, marks, at, serving, pending>>

\* find_free_server looks at one server at a time, in order; the first that
\* is free is marked.
\* Mutant: the server is not marked.
FoundUnmarked(s) == UNCHANGED is_busy
MarkBusy(s) == is_busy' = [is_busy EXCEPT ![s] = TRUE]

FindNext ==
  /\ pc = "find" /\ i < MAX_CLIENTS
  /\ \/ is_busy[i] /\ i' = i + 1 /\ UNCHANGED <<pc, marks, all_busy>>
     \/ /\ ~is_busy[i] /\ MarkBusy(i) /\ pc' = "reply" /\ UNCHANGED i
        /\ holder' = [holder EXCEPT ![i] = cur] /\ all_busy' = FALSE
  /\ UNCHANGED <<clientVars, backlog, cur, listening, at, serving, pending>>

NoneFound ==
  /\ pc = "find" /\ i = MAX_CLIENTS
  /\ pc' = "reply" /\ all_busy' = FALSE
  /\ UNCHANGED <<clientVars, backlog, cur, i, listening, marks, at, serving, pending>>

\* Mutant: the address of the server before.
PortBefore(k) == IF k = 0 THEN MAX_CLIENTS - 1 ELSE k - 1
PortOf(k) == k

\* The address of servers[i], or the error if none was found.
SendReply ==
  /\ pc = "reply"
  /\ reply' = [reply EXCEPT ![cur] = IF i < MAX_CLIENTS THEN PortOf(i) ELSE Full]
  /\ pc' = "accept" /\ cur' = NoClient /\ i' = 0
  /\ UNCHANGED <<client, answer, backlog, all_busy, listening, marks, at, serving, pending>>

MainStep == InitServers \/ AcceptClient \/ FindNext \/ NoneFound \/ SendReply

-----------------------------------------------------------------------------
(* A service server.                                                       *)

AcceptService(s) ==
  /\ at[s] = "accept" /\ pending[s] # <<>>
  /\ serving' = [serving EXCEPT ![s] = Head(pending[s])]
  /\ pending' = [pending EXCEPT ![s] = Tail(@)]
  /\ at' = [at EXCEPT ![s] = "read"]
  /\ UNCHANGED <<clientVars, mainVars, listening, marks>>

\* read waits for the request, which is always TIME, or for the end of a
\* client that is gone; such a client may have sent its request before.
ReadRequest(s) ==
  /\ at[s] = "read" /\ client[serving[s]] \in {"asked", "gone"}
  /\ \/ at' = [at EXCEPT ![s] = IF client[serving[s]] = "asked" THEN "send" ELSE "close"]
     \/ client[serving[s]] = "gone" /\ at' = [at EXCEPT ![s] = "send"]
  /\ UNCHANGED <<clientVars, mainVars, listening, marks, serving, pending>>

SendAnswer(s) ==
  /\ at[s] = "send"
  /\ answer' = [answer EXCEPT ![serving[s]] = "time"]
  /\ at' = [at EXCEPT ![s] = "close"]
  /\ UNCHANGED <<client, reply, mainVars, listening, marks, serving, pending>>

\* close: a client that was sent nothing reads the end of the connection.
CloseClient(s) ==
  /\ at[s] = "close"
  /\ answer' = [answer EXCEPT ![serving[s]] = IF @ = "none" THEN "closed" ELSE @]
  /\ at' = [at EXCEPT ![s] = "release"]
  /\ UNCHANGED <<client, reply, mainVars, listening, marks, serving, pending>>

\* Mutant: the flag stays set.
StaysBusy(s) == UNCHANGED is_busy
MarkFree(s) == is_busy' = [is_busy EXCEPT ![s] = FALSE]

Release(s) ==
  /\ at[s] = "release"
  /\ MarkFree(s) /\ holder' = [holder EXCEPT ![s] = NoClient]
  /\ serving' = [serving EXCEPT ![s] = NoClient]
  /\ at' = [at EXCEPT ![s] = "accept"]
  /\ UNCHANGED <<clientVars, mainVars, listening, pending>>

ServerStep(s) ==
  AcceptService(s) \/ ReadRequest(s) \/ SendAnswer(s) \/ CloseClient(s) \/ Release(s)

\* Every client has left; the servers wait for more.
Quiet ==
  /\ \A c \in Client : client[c] \in {"done", "refused", "failed", "gone"}
  /\ UNCHANGED vars

Next ==
  \/ MainStep
  \/ \E s \in Server : ServerStep(s)
  \/ \E c \in Client : ConnectMain(c) \/ ClientStep(c) \/ Die(c)
  \/ Quiet

Spec == Init /\ [][Next]_vars

\* All threads and all live clients are scheduled.
FairSpec ==
  /\ Spec
  /\ WF_vars(MainStep)
  /\ \A s \in Server : WF_vars(ServerStep(s))
  /\ \A c \in Client : WF_vars(ClientStep(c))

-----------------------------------------------------------------------------
(* Properties.                                                             *)

TypeOK ==
  /\ client \in [Client -> {"idle", "waiting", "directed", "connected", "asked",
                            "done", "refused", "failed", "gone"}]
  /\ reply \in [Client -> Server \cup {Nothing, Full}]
  /\ answer \in [Client -> {"none", "time", "closed"}]
  /\ backlog \in Seq(Client)
  /\ pc \in {"init", "accept", "find", "reply"}
  /\ cur \in Client \cup {NoClient} /\ i \in 0..MAX_CLIENTS
  /\ listening \in [Server -> BOOLEAN]
  /\ is_busy \in [Server -> BOOLEAN]
  /\ at \in [Server -> {"off", "accept", "read", "send", "close", "release"}]
  /\ serving \in [Server -> Client \cup {NoClient}]
  /\ pending \in [Server -> Seq(Client)]
  /\ holder \in [Server -> Client \cup {NoClient}]
  /\ all_busy \in BOOLEAN

\* Clients that server s has to expect: main is about to name s to them, they
\* were sent its address, wait for its accept, or are being served.
Expected(s) ==
  {c \in Client : pc = "reply" /\ i = s /\ cur = c}
  \cup {c \in Client : reply[c] = s /\ client[c] \in {"waiting", "directed"}}
  \cup {pending[s][k] : k \in DOMAIN pending[s]}
  \cup ({serving[s]} \ {NoClient})

\* A service server is given to one client at a time: a free one expects
\* nobody, a busy one at most one, although the mark is set by main before the
\* client has connected and cleared by the service thread.
OneClientPerServer ==
  \A s \in Server :
    /\ ~is_busy[s] => Expected(s) = {}
    /\ \A c, d \in Expected(s) : c = d

\* Nobody will come to a busy server any more: the client that was sent to it
\* died before it connected, or was refused by a server that could not be set up
\* and was handed out all the same.
Lost(s) ==
  /\ at[s] \in {"off", "accept"} /\ Expected(s) = {}
  /\ \E c \in Client :
       reply[c] = s /\ (client[c] = "gone" \/ (client[c] = "failed" /\ ~listening[s]))

\* A busy server becomes free, or is lost for good.
BusyServerReturns == \A s \in Server : is_busy[s] ~> ~is_busy[s] \/ Lost(s)

\* The guards of the steps that are fair.
MainCan == pc # "accept" \/ backlog # <<>>
ServerCan(s) ==
  \/ at[s] \in {"send", "close", "release"}
  \/ at[s] = "accept" /\ pending[s] # <<>>
  \/ at[s] = "read" /\ client[serving[s]] \in {"asked", "gone"}
ClientCan(c) ==
  \/ client[c] \in {"directed", "connected"}
  \/ client[c] = "waiting" /\ reply[c] # Nothing
  \/ client[c] = "asked" /\ answer[c] # "none"

\* Where nobody can go on no client waits, for main or for its server, and the
\* servers that are busy all the same are lost.
RestsOnlyLost ==
  ~MainCan /\ (\A s \in Server : ~ServerCan(s)) /\ (\A c \in Client : ~ClientCan(c)) =>
    /\ \A c \in Client : client[c] \in {"idle", "done", "refused", "failed", "gone"}
    /\ \A s \in Server : is_busy[s] => Lost(s)

\* The search over servers that are locked one by one, the address on its way
\* and the mark that another thread clears come to a pool that gives a server to
\* one client, takes it back when that one was served, and refuses a client only
\* if all servers were busy when it was accepted.
Asking == IF pc = "find" THEN cur ELSE NoClient
Served == {c \in Client : answer[c] # "none"}

Pool == INSTANCE ServerPool WITH asking <- Asking, full <- all_busy, served <- Served
PoolSpec == Pool!Spec
=============================================================================
