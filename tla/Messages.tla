------------------------------ MODULE Messages ------------------------------
(***************************************************************************)
(* src/Messages: a server sends "Hi!" through a message queue, a client    *)
(* takes it and sends "Hello!" back.  The System V programs have one queue *)
(* and tell the ways apart by the type of the message, the POSIX ones have *)
(* a queue each way, of ten messages.  The server removes the queues at    *)
(* its end; if it is killed they stay, with what is in them, and the next  *)
(* run goes on with them.                                                  *)
(*                                                                         *)
(* One server runs at a time.                                              *)
(***************************************************************************)
EXTENDS Integers, Sequences, FiniteSets

CONSTANTS Client,       \* one run of the client program each
          Server,       \* the process of the server, run after run
          MAX_MSG,      \* mq_maxmsg
          MaxRuns       \* bound: runs of the server

VARIABLES
  system,           \* which pair of programs: "sysv" or "posix"
  run,              \* the run of the server, which numbers what it makes
  name,             \* queue -> run whose queue has the name now, 0 if none
  queue,            \* the messages in each queue of each run
  pc, todo,         \* each process: place, queues it has yet to deal with
  handle,           \* each process: queue -> run whose queue it has open
  got,              \* the message that each process has taken
  killed            \* history: runs that were killed

vars == <<system, run, name, queue, pc, todo, handle, got, killed>>

Run == 1..MaxRuns
Name == {"from_server", "from_client"}
Process == Client \cup {Server}
Message == [type : {"Hi!", "Hello!"}, run : Run]
NoMessage == [type |-> "none", run |-> 0]
Closed == [x \in Name |-> 0]
Names == IF system = "sysv" THEN <<"from_server">> ELSE <<"from_server", "from_client">>

\* The queue that messages of a type go through.
Way(type) == IF system = "sysv" \/ type = "Hi!" THEN "from_server" ELSE "from_client"
Queue(p, type) == queue[Way(type)][handle[p][Way(type)]]

Init ==
  /\ system \in {"sysv", "posix"}
  /\ run = 0 /\ name = Closed
  /\ queue = [x \in Name |-> [r \in Run |-> <<>>]]
  /\ pc = [p \in Process |-> "off"]
  /\ todo = [p \in Process |-> <<>>]
  /\ handle = [p \in Process |-> Closed]
  /\ got = [p \in Process |-> NoMessage]
  /\ killed = {}

Goto(p, place, names) ==
  /\ pc' = [pc EXCEPT ![p] = place]
  /\ todo' = [todo EXCEPT ![p] = names]
Through(p, next) ==
  IF Len(todo[p]) = 1 THEN Goto(p, next, <<>>) ELSE Goto(p, pc[p], Tail(todo[p]))

\* Only a System V queue that is removed is gone for those who hold it.
Removed(p) == system = "sysv" /\ name["from_server"] # handle[p]["from_server"]

\* msgsnd, mq_send.
HasRoom(q) == Len(q) < MAX_MSG

\* Mutant: a call that had succeeded is repeated.
SentTwice(q, message) == Append(Append(q, message), message)
Sent(q, message) == Append(q, message)

Send(p, message) ==
  /\ system = "posix" => HasRoom(Queue(p, message.type))
  /\ LET x == Way(message.type)
     IN queue' = [queue EXCEPT ![x][handle[p][x]] = Sent(@, message)]

FirstOf(q, type) ==
  {k \in DOMAIN q : q[k].type = type /\ \A j \in 1..k - 1 : q[j].type # type}

Take(p, type) ==
  LET q == Queue(p, type) x == Way(type) r == handle[p][Way(type)]
  IN \E k \in FirstOf(q, type) :
       /\ got' = [got EXCEPT ![p] = q[k]]
       /\ queue' = [queue EXCEPT ![x][r] = SubSeq(q, 1, k - 1) \o SubSeq(q, k + 1, Len(q))]

-----------------------------------------------------------------------------
(* The server.                                                             *)

StartServer ==
  /\ pc[Server] \in {"off", "done", "killed"} /\ run < MaxRuns
  /\ run' = run + 1
  /\ handle' = [handle EXCEPT ![Server] = Closed]
  /\ got' = [got EXCEPT ![Server] = NoMessage]
  /\ Goto(Server, "open", Names)
  /\ UNCHANGED <<system, name, queue, killed>>

\* Made if it is not there, else opened with all that is in it.
OpenOrMake ==
  /\ pc[Server] = "open"
  /\ LET x == Head(todo[Server])
     IN /\ name' = [name EXCEPT ![x] = IF @ = 0 THEN run ELSE @]
        /\ handle' = [handle EXCEPT ![Server][x] = name'[x]]
  /\ Through(Server, "send")
  /\ UNCHANGED <<system, run, queue, got, killed>>

SendHi ==
  /\ pc[Server] = "send"
  /\ Send(Server, [type |-> "Hi!", run |-> run])
  /\ Goto(Server, "receive", <<>>)
  /\ UNCHANGED <<system, run, name, handle, got, killed>>

ReceiveHello ==
  /\ pc[Server] = "receive"
  /\ Take(Server, "Hello!")
  /\ Goto(Server, "remove", Names)
  /\ UNCHANGED <<system, run, name, handle, killed>>

\* Mutant: the queue is left where it is.
Keep(x) == UNCHANGED name
Unlink(x) == name' = [name EXCEPT ![x] = 0]

Remove ==
  /\ pc[Server] = "remove"
  /\ Unlink(Head(todo[Server]))
  /\ Through(Server, "done")
  /\ UNCHANGED <<system, run, queue, handle, got, killed>>

ServerStep == OpenOrMake \/ SendHi \/ ReceiveHello \/ Remove

-----------------------------------------------------------------------------
(* The client.                                                             *)

StartClient(c) ==
  /\ pc[c] = "off"
  /\ Goto(c, "open", Names)
  /\ UNCHANGED <<system, run, name, queue, handle, got, killed>>

\* A queue that is not there ends the client.
Open(c) ==
  /\ pc[c] = "open"
  /\ LET x == Head(todo[c])
     IN \/ /\ name[x] # 0
           /\ handle' = [handle EXCEPT ![c][x] = name[x]]
           /\ Through(c, "receive")
        \/ /\ name[x] = 0
           /\ Goto(c, "ended", <<>>) /\ UNCHANGED handle
  /\ UNCHANGED <<system, run, name, queue, got, killed>>

ReceiveHi(c) ==
  /\ pc[c] = "receive" /\ ~Removed(c)
  /\ Take(c, "Hi!")
  /\ Goto(c, "send", <<>>)
  /\ UNCHANGED <<system, run, name, handle, killed>>

\* The answer is to the message that was taken.
SendHello(c) ==
  /\ pc[c] = "send" /\ ~Removed(c)
  /\ Send(c, [type |-> "Hello!", run |-> got[c].run])
  /\ Goto(c, "ended", <<>>)
  /\ UNCHANGED <<system, run, name, handle, got, killed>>

\* EIDRM or EINVAL: the client removes the queue it had, which is gone, and ends.
Fail(c) ==
  /\ pc[c] \in {"receive", "send"} /\ Removed(c)
  /\ Goto(c, "ended", <<>>)
  /\ UNCHANGED <<system, run, name, queue, handle, got, killed>>

ClientStep(c) == Open(c) \/ ReceiveHi(c) \/ SendHello(c) \/ Fail(c)

-----------------------------------------------------------------------------
\* A process is killed; messages and queues stay.
Kill(p) ==
  /\ pc[p] \notin {"off", "done", "ended", "killed"}
  /\ Goto(p, "killed", <<>>)
  /\ killed' = IF p = Server THEN killed \cup {run} ELSE killed
  /\ UNCHANGED <<system, run, name, queue, handle, got>>

Next ==
  \/ StartServer \/ ServerStep
  \/ \E c \in Client : StartClient(c) \/ ClientStep(c)
  \/ \E p \in Process : Kill(p)

Spec == Init /\ [][Next]_vars

-----------------------------------------------------------------------------
(* Properties.                                                             *)

TypeOK ==
  /\ system \in {"sysv", "posix"}
  /\ run \in 0..MaxRuns /\ killed \subseteq 1..run
  /\ name \in [Name -> 0..MaxRuns]
  /\ queue \in [Name -> [Run -> Seq(Message)]]
  /\ system = "posix" => \A x \in Name : \A r \in Run : Len(queue[x][r]) <= MAX_MSG
  /\ pc \in [Process -> {"off", "open", "send", "receive", "remove", "done", "ended", "killed"}]
  /\ handle \in [Process -> [Name -> 0..MaxRuns]]
  /\ got \in [Process -> Message \cup {NoMessage}]

\* A POSIX client that has opened its first queue before the server removed it
\* and its second one after the next server made it.
Astray(c) == system = "posix" /\ 0 # handle[c]["from_server"]
                              /\ handle[c]["from_server"] < handle[c]["from_client"]

\* A server takes the answer to its own message or to that of a run that was
\* killed, if no client has gone astray: runs that ended leave nothing that the
\* next ones could take for theirs.
AnswerOfRun ==
  \/ got[Server] = NoMessage
  \/ got[Server].run \in killed \cup {run}
  \/ \E c \in Client : Astray(c)

\* mq_send blocks the server only after as many killed runs as a queue has
\* places.
BlockedByTheKilled ==
  pc[Server] = "send" /\ system = "posix" /\ Len(Queue(Server, "Hi!")) >= MAX_MSG
    => Cardinality(killed) >= MAX_MSG

=============================================================================
