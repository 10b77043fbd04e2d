------------------------------ MODULE Exchanges ------------------------------
(***************************************************************************)
(* The programs that exchange texts, one family of them at a time: the     *)
(* echo server, message queues, shared memory, sockets and FIFOs, and the  *)
(* select server.                                                          *)
(***************************************************************************)
EXTENDS SocketsEcho

CONSTANTS Server,           \* the server of Messages and of SharedMemory
          MAX_MSG,
          MsgRuns, ShmRuns, \* bounds: runs of that server
          Answerer, NoOne,  \* the servers of Sockets
          TcpClient, UdpClient, SelectInbox   \* TaskFour; the last one a bound

ASSUME ServerAssumption == Server \notin Client
ASSUME MaxMsgAssumption == MAX_MSG \in Nat \ {0}
ASSUME RunsAssumption == MsgRuns \in Nat /\ ShmRuns \in Nat
ASSUME AnswererAssumption == Answerer \cap Client = {} /\ NoOne \notin Answerer \cup Client
ASSUME SelectAssumption ==
  SelectInbox \in Nat \ {0} /\ NoClient \notin TcpClient \cup UdpClient /\ TcpClient \cap UdpClient = {}

VARIABLES family,
  msg_system, msg_run, msg_name, msg_queue, msg_pc, msg_todo, msg_handle, msg_got, killed,
  shm_system, shm_run, shm_name, mem, val, shm_pc, shm_todo, shm_handle, shm_got, heard, poster, late,
  kind, owner, sock_pc, peer, sock_queue, sock_got,
  four_pc, ready, cur, open, backlog, four_inbox, tcp, wire, udp, request, answer

Msg == INSTANCE Messages WITH
  MaxRuns <- MsgRuns,
  system <- msg_system, run <- msg_run, name <- msg_name, queue <- msg_queue, pc <- msg_pc,
  todo <- msg_todo, handle <- msg_handle, got <- msg_got

Shm == INSTANCE SharedMemory WITH
  MaxRuns <- ShmRuns,
  system <- shm_system, run <- shm_run, name <- shm_name, pc <- shm_pc, todo <- shm_todo,
  handle <- shm_handle, got <- shm_got

Sock == INSTANCE Sockets WITH
  Server <- Answerer, pc <- sock_pc, queue <- sock_queue, got <- sock_got

Four == INSTANCE TaskFour WITH
  InboxSize <- SelectInbox, pc <- four_pc, inbox <- four_inbox

msgVars == <<msg_system, msg_run, msg_name, msg_queue, msg_pc, msg_todo, msg_handle, msg_got, killed>>
shmVars == <<shm_system, shm_run, shm_name, mem, val, shm_pc, shm_todo, shm_handle, shm_got,
             heard, poster, late>>
sockVars == <<kind, owner, sock_pc, peer, sock_queue, sock_got>>
fourVars == <<four_pc, ready, cur, open, backlog, four_inbox, tcp, wire, udp, request, answer>>
exchangesVars == <<family, vars, msgVars, shmVars, sockVars, fourVars>>

\* The programs of the other families do nothing, in one of their initial states.
ExchangesInit ==
  /\ family \in {"SocketsEcho", "Messages", "SharedMemory", "Sockets", "TaskFour"}
  /\ Init /\ Msg!Init /\ Shm!Init /\ Sock!Init /\ Four!Init
  /\ family = "Messages" \/ msg_system = "sysv"
  /\ family = "SharedMemory" \/ shm_system = "sysv"
  /\ family = "Sockets" \/ kind = "tcp"

ExchangesNext ==
  /\ UNCHANGED family
  /\ \/ family = "SocketsEcho" /\ Next /\ UNCHANGED <<msgVars, shmVars, sockVars, fourVars>>
     \/ family = "Messages" /\ Msg!Next /\ UNCHANGED <<vars, shmVars, sockVars, fourVars>>
     \/ family = "SharedMemory" /\ Shm!Next /\ UNCHANGED <<vars, msgVars, sockVars, fourVars>>
     \/ family = "Sockets" /\ Sock!Next /\ UNCHANGED <<vars, msgVars, shmVars, fourVars>>
     \/ family = "TaskFour" /\ Four!Next /\ UNCHANGED <<vars, msgVars, shmVars, sockVars>>

ExchangesSpec == ExchangesInit /\ [][ExchangesNext]_exchangesVars

-----------------------------------------------------------------------------
(* Properties.                                                             *)

\* The values of the variables of all families.
TypesOK == TypeOK /\ Msg!TypeOK /\ Shm!TypeOK /\ Sock!TypeOK /\ Four!TypeOK

\* Messages: an answer is to the server's own message, or to that of a run that was killed.
AnswerOfRun == Msg!AnswerOfRun

\* Messages: only messages of killed runs fill a queue up.
BlockedByTheKilled == Msg!BlockedByTheKilled

\* SharedMemory: who hold the same objects read each other's text.
EachHears == Shm!ClientHears /\ Shm!ServerHears

\* Sockets: at the end of a run only those wait whose partner is gone.
StuckOnlyAlone == Sock!StuckOnlyAlone

\* Sockets: each step brings a program nearer to its end.
StepsLeadOn == Sock!StepsLeadOn

\* Sockets: a run in which nobody was killed leaves no path.
NothingLeftBehind == Sock!NothingLeftBehind

\* Sockets: an answer is taken by the client that had asked.
OwnAnswer == Sock!OwnAnswer

\* TaskFour: the server blocks only for a client that has yet to write, or when
\* nobody waits for it.
BlocksOnlyToRead == Four!BlocksOnlyToRead
=============================================================================
