---------------------------- MODULE SharedMemory ----------------------------
(***************************************************************************)
(* src/SharedMemory: a server leaves "Hi!" in shared memory, a client reads *)
(* it and leaves "Hello!"; a semaphore each way says that the text is      *)
(* there.  Two pairs of programs do this, with System V and with POSIX     *)
(* objects.  The objects outlive the processes: a server that is killed    *)
(* leaves them to the next run, and clients may hold those of a run before.*)
(*                                                                         *)
(* One server runs at a time.                                              *)
(***************************************************************************)
EXTENDS Integers, Sequences

CONSTANTS Client,       \* one run of the client program each
          Server,       \* the process of the server, run after run
          NoClient,
          MaxRuns       \* bound: runs of the server

VARIABLES
  system,           \* which pair of programs: "sysv" or "posix"
  run,              \* the run of the server, which numbers what it creates
  name,             \* object -> run whose object has the name now, 0 if none
  mem, val,         \* the text in each memory, the value of each semaphore
  pc, todo,         \* each process: place, objects it has yet to deal with
  handle,           \* each process: object -> run whose object it has open
  got, heard,       \* history: texts the server and each client have read
  poster,           \* history: who posted the answer last
  late              \* history: clients that held a "Hi!" when a server began

vars == <<system, run, name, mem, val, pc, todo, handle, got, heard, poster, late>>
texts == <<mem, got, heard, poster, late>>

Run == 1..MaxRuns
Object == {"shm", "s2c", "c2s"}
Semaphore == {"s2c", "c2s"}
Text == {"", "Hi!", "Hello!"}
Process == Client \cup {Server}
Closed == [x \in Object |-> 0]

\* The two System V semaphores are one set, made and removed together.
Objects == IF system = "sysv" THEN <<"shm", "s2c">> ELSE <<"shm", "s2c", "c2s">>
Parts(x) == IF system = "sysv" /\ x = "s2c" THEN Semaphore ELSE {x}

Init ==
  /\ system \in {"sysv", "posix"}
  /\ run = 0 /\ name = Closed
  /\ mem = [r \in Run |-> ""]
  /\ val = [x \in Semaphore |-> [r \in Run |-> 0]]
  /\ pc = [p \in Process |-> "off"]
  /\ todo = [p \in Process |-> <<>>]
  /\ handle = [p \in Process |-> Closed]
  /\ got = "" /\ heard = [c \in Client |-> ""]
  /\ poster = NoClient /\ late = {}

Goto(p, place, objects) ==
  /\ pc' = [pc EXCEPT ![p] = place]
  /\ todo' = [todo EXCEPT ![p] = objects]

\* The process is through with the first object of its list; after the last
\* one it is at place next, with a new list.
Through(p, next, objects) ==
  IF Len(todo[p]) = 1 THEN Goto(p, next, objects) ELSE Goto(p, pc[p], Tail(todo[p]))

\* Only System V objects that are removed are gone for those who hold them.
Removed(p, x) == system = "sysv" /\ name[x] # handle[p][x]

Mine(p, x) == val[x][handle[p][x]]
\* Mutant: sem_wait that never waits.
Always(p, x) == TRUE
Available(p, x) == Mine(p, x) > 0
Change(p, x, v) == val' = [val EXCEPT ![x][handle[p][x]] = v]

-----------------------------------------------------------------------------
(* The server.                                                             *)

StartServer ==
  /\ pc[Server] \in {"off", "done", "killed"} /\ run < MaxRuns
  /\ run' = run + 1
  /\ handle' = [handle EXCEPT ![Server] = Closed]
  /\ Goto(Server, IF system = "posix" THEN "clear" ELSE "open", Objects)
  /\ got' = ""
  /\ UNCHANGED <<system, name, mem, val, heard, poster, late>>

\* POSIX: unlink what a run before may have left.
ClearOld ==
  /\ pc[Server] = "clear"
  /\ name' = [name EXCEPT ![Head(todo[Server])] = 0]
  /\ Through(Server, "open", Objects)
  /\ UNCHANGED <<system, run, val, handle, texts>>

\* Made if it is not there, else opened as it is.
OpenOrMake ==
  /\ pc[Server] = "open"
  /\ LET parts == Parts(Head(todo[Server]))
     IN /\ name' = [x \in Object |-> IF x \in parts /\ name[x] = 0 THEN run ELSE name[x]]
        /\ handle' = [handle EXCEPT ![Server] =
                        [x \in Object |-> IF x \in parts THEN name'[x] ELSE @[x]]]
  /\ IF system = "sysv" THEN Through(Server, "reset", <<"s2c", "c2s">>)
                        ELSE Through(Server, "write", <<>>)
  /\ UNCHANGED <<system, run, val, texts>>

\* Mutant: the semaphores are taken as they are.
AsItWas(x) == Mine(Server, x)
ResetTo(x) == 0

\* System V: SETVAL of each semaphore.
Reset ==
  /\ pc[Server] = "reset"
  /\ LET x == Head(todo[Server]) IN Change(Server, x, ResetTo(x))
  /\ late' = late \cup {c \in Client : pc[c] \in {"read", "write", "post"}}
  /\ Through(Server, "write", <<>>)
  /\ UNCHANGED <<system, run, name, handle, mem, got, heard, poster>>

WriteHi ==
  /\ pc[Server] = "write"
  /\ mem' = [mem EXCEPT ![handle[Server]["shm"]] = "Hi!"]
  /\ Goto(Server, "post", <<>>)
  /\ UNCHANGED <<system, run, name, val, handle, got, heard, poster, late>>

PostHi ==
  /\ pc[Server] = "post"
  /\ Change(Server, "s2c", Mine(Server, "s2c") + 1)
  /\ Goto(Server, "wait", <<>>)
  /\ UNCHANGED <<system, run, name, handle, texts>>

WaitForAnswer ==
  /\ pc[Server] = "wait" /\ Available(Server, "c2s")
  /\ Change(Server, "c2s", Mine(Server, "c2s") - 1)
  /\ Goto(Server, "read", <<>>)
  /\ UNCHANGED <<system, run, name, handle, texts>>

ReadAnswer ==
  /\ pc[Server] = "read"
  /\ got' = mem[handle[Server]["shm"]]
  /\ Goto(Server, "remove", Objects)
  /\ UNCHANGED <<system, run, name, val, handle, mem, heard, poster, late>>

Remove ==
  /\ pc[Server] = "remove"
  /\ name' = [x \in Object |-> IF x \in Parts(Head(todo[Server])) THEN 0 ELSE name[x]]
  /\ Through(Server, "done", <<>>)
  /\ UNCHANGED <<system, run, val, handle, texts>>

ServerStep ==
  \/ ClearOld \/ OpenOrMake \/ Reset \/ WriteHi \/ PostHi \/ WaitForAnswer
  \/ ReadAnswer \/ Remove

-----------------------------------------------------------------------------
(* The client.                                                             *)

StartClient(c) ==
  /\ pc[c] = "off"
  /\ Goto(c, "open", Objects)
  /\ UNCHANGED <<system, run, name, val, handle, texts>>

\* An object that is not there ends the client.
Open(c) ==
  /\ pc[c] = "open"
  /\ LET parts == Parts(Head(todo[c]))
     IN \/ /\ \A x \in parts : name[x] # 0
           /\ handle' = [handle EXCEPT ![c] =
                           [x \in Object |-> IF x \in parts THEN name[x] ELSE @[x]]]
           /\ Through(c, "attach", <<>>)
        \/ /\ \E x \in parts : name[x] = 0
           /\ Goto(c, "ended", <<>>) /\ UNCHANGED handle
  /\ UNCHANGED <<system, run, name, val, texts>>

\* shmat; the POSIX client has mapped the memory when it opened it.
Attach(c) ==
  /\ pc[c] = "attach"
  /\ Goto(c, IF Removed(c, "shm") THEN "ended" ELSE "wait", <<>>)
  /\ UNCHANGED <<system, run, name, val, handle, texts>>

WaitForHi(c) ==
  /\ pc[c] = "wait" /\ ~Removed(c, "s2c") /\ Available(c, "s2c")
  /\ Change(c, "s2c", Mine(c, "s2c") - 1)
  /\ Goto(c, "read", <<>>)
  /\ UNCHANGED <<system, run, name, handle, texts>>

\* EIDRM or EINVAL.
EndWait(c) ==
  /\ pc[c] = "wait" /\ Removed(c, "s2c")
  /\ Goto(c, "ended", <<>>)
  /\ UNCHANGED <<system, run, name, val, handle, texts>>

ReadHi(c) ==
  /\ pc[c] = "read"
  /\ heard' = [heard EXCEPT ![c] = mem[handle[c]["shm"]]]
  /\ Goto(c, "write", <<>>)
  /\ UNCHANGED <<system, run, name, val, handle, mem, got, poster, late>>

WriteHello(c) ==
  /\ pc[c] = "write"
  /\ mem' = [mem EXCEPT ![handle[c]["shm"]] = "Hello!"]
  /\ Goto(c, "post", <<>>)
  /\ UNCHANGED <<system, run, name, val, handle, got, heard, poster, late>>

PostHello(c) ==
  /\ pc[c] = "post"
  /\ IF Removed(c, "c2s") THEN UNCHANGED <<val, poster>>
     ELSE Change(c, "c2s", Mine(c, "c2s") + 1) /\ poster' = c
  /\ Goto(c, "ended", <<>>)
  /\ UNCHANGED <<system, run, name, handle, mem, got, heard, late>>

ClientStep(c) ==
  Open(c) \/ Attach(c) \/ WaitForHi(c) \/ EndWait(c) \/ ReadHi(c) \/ WriteHello(c) \/ PostHello(c)

-----------------------------------------------------------------------------
\* A process is killed: what it has made or changed stays.
Kill(p) ==
  /\ pc[p] \notin {"off", "done", "ended", "killed"}
  /\ Goto(p, "killed", <<>>)
  /\ UNCHANGED <<system, run, name, val, handle, texts>>

Next ==
  \/ StartServer \/ ServerStep
  \/ \E c \in Client : StartClient(c) \/ ClientStep(c)
  \/ \E p \in Process : Kill(p)

Spec == Init /\ [][Next]_vars

-----------------------------------------------------------------------------
(* Properties.                                                             *)

TypeOK ==
  /\ system \in {"sysv", "posix"}
  /\ run \in 0..MaxRuns
  /\ name \in [Object -> 0..MaxRuns]
  /\ mem \in [Run -> Text]
  /\ val \in [Semaphore -> [Run -> Nat]]
  /\ pc \in [Process -> {"off", "clear", "open", "reset", "write", "post", "wait", "read",
                         "remove", "attach", "done", "ended", "killed"}]
  /\ handle \in [Process -> [Object -> 0..MaxRuns]]
  /\ got \in Text /\ heard \in [Client -> Text]
  /\ poster \in Client \cup {NoClient} /\ late \subseteq Client

\* The client holds the very objects that the server of the last run holds.
Straight(c) == handle[c] = handle[Server]

\* A client that holds the server's objects reads "Hi!", whatever servers and
\* clients that were killed have left in them, unless some client had taken its
\* "Hi!" from a run before when the semaphores were set again.
ClientHears ==
  [][\A c \in Client :
       pc[c] = "read" /\ pc'[c] = "write" /\ Straight(c) /\ late = {} => heard'[c] = "Hi!"]_vars

\* The server reads "Hello!", if the client that answered holds its objects and
\* did not take its "Hi!" from a run before.
ServerHears ==
  [][pc[Server] = "read" /\ pc'[Server] = "remove" /\ poster # NoClient =>
       (Straight(poster) /\ poster \notin late => got' = "Hello!")]_vars

=============================================================================
