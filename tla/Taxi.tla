-------------------------------- MODULE Taxi --------------------------------
(***************************************************************************)
(* src/TaxiManagement/taxi.c: a dispatcher process reads commands from a   *)
(* terminal and forks driver processes, each reached over a pair of pipes. *)
(*                                                                         *)
(* A process is named by its pid, and the kernel may give a pid again once *)
(* its process has been reaped.  A command pipe is kept with its reader:   *)
(* writers[p] holds the processes that have the write end of p's command   *)
(* pipe open, because a child inherits every descriptor that the           *)
(* dispatcher has open when it forks.                                      *)
(***************************************************************************)
EXTENDS Integers, Sequences

CONSTANTS Pid,          \* the process ids the kernel can give to drivers
          NoPid,        \* pid 0 of a zero-initialised slot
          Dispatcher,   \* the dispatcher itself, as a holder of descriptors
          MAX_DRIVERS,  \* slots of the drivers table
          TaskTimer     \* times a user types in send_task

ASSUME PidAssumption == NoPid \notin Pid /\ Dispatcher \notin Pid
ASSUME MaxDriversAssumption == MAX_DRIVERS \in Nat \ {0}
ASSUME TaskTimerAssumption == TaskTimer \subseteq Int /\ 0 \in TaskTimer

VARIABLES drivers,       \* the table: pid and active of every slot
          driver_count,  \* slots ever used
          pc,            \* where the dispatcher is
          cmd,           \* the command line being executed
          i,             \* loop index of get_drivers and of exit
          idx,           \* slot that send_command found
          proc,          \* per pid, where the driver process is
          status,        \* per pid, the driver's status
          left,          \* per pid, seconds until end_time, 0 once passed
          cmdPipe,       \* per pid, bytes on the way to the driver
          ansPipe,       \* per pid, bytes on the way to the dispatcher
          writers        \* per pid, holders of the command pipe's write end

table == <<drivers, driver_count>>
control == <<pc, cmd, i, idx>>
clocks == <<status, left>>
pipes == <<cmdPipe, ansPipe>>
vars == <<drivers, driver_count, pc, cmd, i, idx,
          proc, status, left, cmdPipe, ansPipe, writers>>

Slot == 0..MAX_DRIVERS - 1
Used == 0..driver_count - 1
Stopped == {"exited", "killed"}
Alive(p) == proc[p] \in {"start", "loop", "select"}

\* Command lines; "other" is an empty, unknown or incomplete one.
Commands ==
  [op : {"create_driver", "get_drivers", "exit", "other"}, pid : {NoPid}, time : {0}]
  \cup [op : {"get_status"}, pid : Pid \cup {NoPid}, time : {0}]
  \cup [op : {"send_task"}, pid : Pid \cup {NoPid}, time : TaskTimer]
NoCommand == [op |-> "other", pid |-> NoPid, time |-> 0]

\* What the dispatcher writes and what a driver answers ("Busy" stands for
\* "Busy n": nothing in the program looks at n).
Messages == [op : {"STATUS", "TASK"}, time : TaskTimer]
Answers == {"Available", "OK", "Busy"}

Init ==
  /\ drivers = [s \in Slot |-> [pid |-> NoPid, active |-> FALSE]]
  /\ driver_count = 0
  /\ pc = "prompt" /\ cmd = NoCommand /\ i = 0 /\ idx = 0
  /\ proc = [p \in Pid |-> "none"]
  /\ status = [p \in Pid |-> 0]
  /\ left = [p \in Pid |-> 0]
  /\ cmdPipe = [p \in Pid |-> <<>>]
  /\ ansPipe = [p \in Pid |-> <<>>]
  /\ writers = [p \in Pid |-> {}]

-----------------------------------------------------------------------------
(* Helpers: the table searches, and what the kernel does with a process.   *)

\* send_command's search: the first used slot that is active with this pid.
Found(p, s) ==
  /\ s \in Used /\ drivers[s].pid = p /\ drivers[s].active
  /\ \A r \in 0..s - 1 : ~(drivers[r].pid = p /\ drivers[r].active)

NotFound(p) == \A s \in Used : ~(drivers[s].pid = p /\ drivers[s].active)

\* cleanup_zombies' search looks at the pid only, never at active.
\* Mutants: the last match is taken; the pid is not compared.
LastWithPid(p, s) ==
  /\ s \in Used /\ drivers[s].pid = p
  /\ \A r \in Used : r > s => drivers[r].pid # p
FirstActive(p, s) ==
  /\ s \in Used /\ drivers[s].active
  /\ \A r \in 0..s - 1 : ~drivers[r].active
FirstWithPid(p, s) ==
  /\ s \in Used /\ drivers[s].pid = p
  /\ \A r \in 0..s - 1 : drivers[r].pid # p

\* create_driver's search: the first inactive slot, else a fresh one.
\* Mutant: the last inactive slot.
LastSlotForNew(s) ==
  \/ /\ s \in Used /\ ~drivers[s].active
     /\ \A r \in Used : r > s => drivers[r].active
  \/ /\ \A r \in Used : drivers[r].active
     /\ s = driver_count /\ s < MAX_DRIVERS
SlotForNew(s) ==
  \/ /\ s \in Used /\ ~drivers[s].active
     /\ \A r \in 0..s - 1 : drivers[r].active
  \/ /\ \A r \in Used : drivers[r].active
     /\ s = driver_count /\ s < MAX_DRIVERS

TakeSlot(s) == driver_count' = IF s = driver_count THEN s + 1 ELSE driver_count

\* read returns: something is there, or the only writer is gone.
\* Mutant: a read that does not wait.
NeverWaits(p) == TRUE
AnswerReady(p) == ansPipe[p] # <<>> \/ ~Alive(p)

\* Mutant: the child keeps the write end of its own command pipe.
KeepsOwnWriteEnd(p) == UNCHANGED writers
ClosesOwnWriteEnd(p) == writers' = [writers EXCEPT ![p] = @ \ {p}]

\* Mutant: a busy driver takes a task too.
AcceptsAlways(p) == TRUE
Accepts(p) == status[p] = 0

\* Mutant: a driver that refuses a task writes nothing.
SilentRefusal == <<>>
Refusal == <<"Busy">>

\* select gets a timeout only while a task runs.  Mutant: it never gets one.
NeverArmed(p) == FALSE
TimeoutArmed(p) == status[p] = 1

\* A process that ends closes every descriptor it holds, and what it had not
\* read is lost; it stays a zombie until it is waited for.
Dies(p) ==
  /\ proc' = [proc EXCEPT ![p] = "zombie"]
  /\ status' = [status EXCEPT ![p] = 0]
  /\ left' = [left EXCEPT ![p] = 0]
  /\ cmdPipe' = [cmdPipe EXCEPT ![p] = <<>>]

\* The dispatcher ends, with or without its drivers.
Stops(how) ==
  /\ pc' = how /\ cmd' = NoCommand /\ i' = 0 /\ idx' = 0
  /\ writers' = [q \in Pid |-> writers[q] \ {Dispatcher}]

ToPrompt == pc' = "prompt" /\ cmd' = NoCommand /\ i' = 0 /\ idx' = 0

-----------------------------------------------------------------------------
(* The dispatcher.                                                         *)

\* main's loop waits in fgets for a line.
ReadCommand ==
  /\ pc = "prompt"
  /\ \E c \in Commands : cmd' = c
  /\ pc' = "cleanup"
  /\ UNCHANGED <<table, i, idx, proc, clocks, pipes, writers>>

\* End of input leaves the loop at once: no driver is told.
EndOfInput ==
  /\ pc = "prompt"
  /\ Stops("exited")
  /\ UNCHANGED <<table, proc, clocks, pipes>>

\* One round of cleanup_zombies: waitpid gives a dead child.
Reap(p) ==
  /\ pc = "cleanup" /\ proc[p] = "zombie"
  /\ proc' = [proc EXCEPT ![p] = "none"]
  /\ \/ \E s \in Used :
          /\ FirstWithPid(p, s)
          /\ drivers' = [drivers EXCEPT ![s].active = FALSE]
          /\ writers' = [writers EXCEPT ![drivers[s].pid] = @ \ {Dispatcher}]
     \/ /\ \A s \in Used : drivers[s].pid # p
        /\ UNCHANGED <<drivers, writers>>
  /\ UNCHANGED <<driver_count, control, clocks, pipes>>

\* waitpid with WNOHANG finds no dead child: on to the command itself.
CleanupDone ==
  /\ pc = "cleanup"
  /\ \A p \in Pid : proc[p] # "zombie"
  /\ pc' = CASE cmd.op = "get_drivers" -> "list"
             [] cmd.op = "exit" -> "exit"
             [] OTHER -> "exec"
  /\ UNCHANGED <<table, cmd, i, idx, proc, clocks, pipes, writers>>

\* An empty line, an unknown command or one with missing arguments.
OtherCommand ==
  /\ pc = "exec" /\ cmd.op = "other"
  /\ ToPrompt
  /\ UNCHANGED <<table, proc, clocks, pipes, writers>>

CreateWhenFull ==
  /\ pc = "exec" /\ cmd.op = "create_driver"
  /\ \A s \in Slot : ~SlotForNew(s)
  /\ ToPrompt
  /\ UNCHANGED <<table, proc, clocks, pipes, writers>>

\* pipe or fork fails after the slot was taken: driver_count may have grown,
\* the slot stays inactive with whatever pid it had.
CreateFails ==
  /\ pc = "exec" /\ cmd.op = "create_driver"
  /\ \E s \in Slot : SlotForNew(s) /\ TakeSlot(s)
  /\ ToPrompt
  /\ UNCHANGED <<drivers, proc, clocks, pipes, writers>>

\* The new child starts with a copy of all the write ends the dispatcher has
\* open, the one of its own command pipe among them.
CreateDriver(p) ==
  /\ pc = "exec" /\ cmd.op = "create_driver"
  /\ proc[p] = "none"
  /\ \E s \in Slot :
       /\ SlotForNew(s) /\ TakeSlot(s)
       /\ drivers' = [drivers EXCEPT ![s] = [pid |-> p, active |-> TRUE]]
  /\ proc' = [proc EXCEPT ![p] = "start"]
  /\ status' = [status EXCEPT ![p] = 0]
  /\ left' = [left EXCEPT ![p] = 0]
  /\ cmdPipe' = [cmdPipe EXCEPT ![p] = <<>>]
  /\ ansPipe' = [ansPipe EXCEPT ![p] = <<>>]
  /\ writers' = [q \in Pid |-> IF q = p THEN {Dispatcher, p}
                               ELSE IF Dispatcher \in writers[q] THEN writers[q] \cup {p}
                               ELSE writers[q]]
  /\ ToPrompt

\* send_command finds no active slot with the pid.
DriverNotFound ==
  /\ pc = "exec" /\ cmd.op \in {"send_task", "get_status"}
  /\ NotFound(cmd.pid)
  /\ ToPrompt
  /\ UNCHANGED <<table, proc, clocks, pipes, writers>>

DriverFound ==
  /\ pc = "exec" /\ cmd.op \in {"send_task", "get_status"}
  /\ \E s \in Used : Found(cmd.pid, s) /\ idx' = s
  /\ pc' = "write"
  /\ UNCHANGED <<table, cmd, i, proc, clocks, pipes, writers>>

\* get_drivers asks every active slot in turn.
ListNext ==
  /\ pc = "list" /\ i < driver_count
  /\ \/ /\ ~drivers[i].active
        /\ i' = i + 1
        /\ UNCHANGED <<pc, idx>>
     \/ /\ drivers[i].active
        /\ \E s \in Used : Found(drivers[i].pid, s) /\ idx' = s
        /\ pc' = "write"
        /\ UNCHANGED i
  /\ UNCHANGED <<table, cmd, proc, clocks, pipes, writers>>

ListDone ==
  /\ pc = "list" /\ i = driver_count
  /\ ToPrompt
  /\ UNCHANGED <<table, proc, clocks, pipes, writers>>

\* send_command's write.  A pipe whose reader is gone raises SIGPIPE, which
\* nothing in the program handles.
SendMessage ==
  /\ pc = "write"
  /\ LET p == drivers[idx].pid
         m == IF cmd.op = "send_task" THEN [op |-> "TASK", time |-> cmd.time]
                                      ELSE [op |-> "STATUS", time |-> 0]
     IN \/ /\ Alive(p)
           /\ cmdPipe' = [cmdPipe EXCEPT ![p] = Append(@, m)]
           /\ pc' = "read"
           /\ UNCHANGED <<cmd, i, idx, writers>>
        \/ /\ ~Alive(p)
           /\ Stops("killed")
           /\ UNCHANGED cmdPipe
  /\ UNCHANGED <<table, proc, clocks, ansPipe>>

\* send_command's blocking read: an answer, or end of file when the driver is
\* gone ("not responding").
ReadAnswer ==
  /\ pc = "read"
  /\ LET p == drivers[idx].pid
     IN /\ AnswerReady(p)
        /\ ansPipe' = [ansPipe EXCEPT ![p] = <<>>]
  /\ IF cmd.op = "get_drivers"
     THEN pc' = "list" /\ i' = i + 1 /\ idx' = 0 /\ UNCHANGED cmd
     ELSE ToPrompt
  /\ UNCHANGED <<table, proc, clocks, cmdPipe, writers>>

\* The exit command closes the write end of each active slot and terminates
\* its driver ...
ExitNext ==
  /\ pc = "exit" /\ i < driver_count
  /\ i' = i + 1
  /\ LET p == drivers[i].pid
     IN \/ /\ ~drivers[i].active
           /\ UNCHANGED <<proc, clocks, cmdPipe, writers>>
        \/ /\ drivers[i].active /\ ~Alive(p)
           /\ writers' = [writers EXCEPT ![p] = @ \ {Dispatcher}]
           /\ UNCHANGED <<proc, clocks, cmdPipe>>
        \/ /\ drivers[i].active /\ Alive(p)
           /\ writers' = [q \in Pid |-> writers[q] \ IF q = p THEN {p, Dispatcher} ELSE {p}]
           /\ Dies(p)
  /\ UNCHANGED <<table, pc, cmd, idx, ansPipe>>

\* ... and the program returns without waiting for any of them.
ExitDone ==
  /\ pc = "exit" /\ i = driver_count
  /\ Stops("exited")
  /\ UNCHANGED <<table, proc, clocks, pipes>>

DispatcherStep ==
  \/ \E p \in Pid : Reap(p)
  \/ CleanupDone \/ OtherCommand
  \/ CreateWhenFull \/ CreateFails \/ \E p \in Pid : CreateDriver(p)
  \/ DriverNotFound \/ DriverFound \/ ListNext \/ ListDone
  \/ SendMessage \/ ReadAnswer \/ ExitNext \/ ExitDone

-----------------------------------------------------------------------------
(* A driver.                                                               *)

\* The child closes the ends it does not use before driver_main.
StartDriver(p) ==
  /\ proc[p] = "start"
  /\ proc' = [proc EXCEPT ![p] = "loop"]
  /\ ClosesOwnWriteEnd(p)
  /\ UNCHANGED <<table, control, clocks, pipes>>

\* Top of driver_main's loop: a task that is over frees the driver; then
\* select waits, without a timeout if the driver is free.
EnterSelect(p) ==
  /\ proc[p] = "loop"
  /\ proc' = [proc EXCEPT ![p] = "select"]
  /\ status' = [status EXCEPT ![p] = IF left[p] = 0 THEN 0 ELSE @]
  /\ UNCHANGED <<table, control, left, pipes, writers>>

\* select returns 0: the task is over.
TaskTimeout(p) ==
  /\ proc[p] = "select" /\ TimeoutArmed(p) /\ left[p] = 0
  /\ cmdPipe[p] = <<>> /\ writers[p] # {}
  /\ proc' = [proc EXCEPT ![p] = "loop"]
  /\ status' = [status EXCEPT ![p] = 0]
  /\ UNCHANGED <<table, control, left, pipes, writers>>

\* select finds the pipe readable: the read takes all of it, the first
\* message is looked at and answered.
AnswerCommand(p) ==
  /\ proc[p] = "select" /\ cmdPipe[p] # <<>>
  /\ LET m == Head(cmdPipe[p])
     IN \/ /\ m.op = "STATUS"
           /\ ansPipe' = [ansPipe EXCEPT ![p] =
                            Append(@, IF status[p] = 0 THEN "Available" ELSE "Busy")]
           /\ UNCHANGED clocks
        \/ /\ m.op = "TASK" /\ Accepts(p)
           /\ status' = [status EXCEPT ![p] = 1]
           /\ left' = [left EXCEPT ![p] = IF m.time > 0 THEN m.time ELSE 0]
           /\ ansPipe' = [ansPipe EXCEPT ![p] = Append(@, "OK")]
        \/ /\ m.op = "TASK" /\ ~Accepts(p)
           /\ ansPipe' = [ansPipe EXCEPT ![p] = @ \o Refusal]
           /\ UNCHANGED clocks
  /\ cmdPipe' = [cmdPipe EXCEPT ![p] = <<>>]
  /\ proc' = [proc EXCEPT ![p] = "loop"]
  /\ UNCHANGED <<table, control, writers>>

\* select finds the end of file: nobody holds the write end any more.
CommandPipeClosed(p) ==
  /\ proc[p] = "select" /\ cmdPipe[p] = <<>> /\ writers[p] = {}
  /\ Dies(p)
  /\ writers' = [q \in Pid |-> writers[q] \ {p}]
  /\ UNCHANGED <<table, control, ansPipe>>

DriverStep(p) ==
  StartDriver(p) \/ EnterSelect(p) \/ TaskTimeout(p) \/ AnswerCommand(p)
  \/ CommandPipeClosed(p)

-----------------------------------------------------------------------------
(* The world around them.                                                  *)

\* Someone kills a driver.
KillDriver(p) ==
  /\ Alive(p)
  /\ Dies(p)
  /\ writers' = [q \in Pid |-> writers[q] \ {p}]
  /\ UNCHANGED <<table, control, ansPipe>>

\* A dead driver that lost its parent is reaped by init.
InitReaps(p) ==
  /\ pc \in Stopped /\ proc[p] = "zombie"
  /\ proc' = [proc EXCEPT ![p] = "none"]
  /\ UNCHANGED <<table, control, clocks, pipes, writers>>

\* A second passes.
Tick ==
  /\ \E p \in Pid : left[p] > 0
  /\ left' = [p \in Pid |-> IF left[p] > 0 THEN left[p] - 1 ELSE 0]
  /\ UNCHANGED <<table, control, proc, status, pipes, writers>>

\* Nothing is left to happen.
Finished ==
  /\ pc \in Stopped /\ \A p \in Pid : proc[p] = "none" /\ left[p] = 0
  /\ UNCHANGED vars

Next ==
  \/ ReadCommand \/ EndOfInput \/ DispatcherStep
  \/ \E p \in Pid : DriverStep(p) \/ KillDriver(p) \/ InitReaps(p)
  \/ Tick \/ Finished

Spec == Init /\ [][Next]_vars

\* Every process that can run is scheduled, init reaps and time passes; nobody
\* has to type or to kill.
Fairness ==
  /\ WF_vars(DispatcherStep)
  /\ \A p \in Pid : WF_vars(DriverStep(p)) /\ WF_vars(InitReaps(p))
  /\ WF_vars(Tick)

FairSpec == Spec /\ Fairness

-----------------------------------------------------------------------------
(* Properties.                                                             *)

TypeOK ==
  /\ drivers \in [Slot -> [pid : Pid \cup {NoPid}, active : BOOLEAN]]
  /\ driver_count \in 0..MAX_DRIVERS
  /\ pc \in {"prompt", "cleanup", "exec", "list", "write", "read", "exit"} \cup Stopped
  /\ cmd \in Commands
  /\ i \in 0..MAX_DRIVERS /\ idx \in Slot
  /\ proc \in [Pid -> {"none", "start", "loop", "select", "zombie"}]
  /\ status \in [Pid -> {0, 1}]
  /\ left \in [Pid -> Nat]
  /\ cmdPipe \in [Pid -> Seq(Messages)]
  /\ ansPipe \in [Pid -> Seq(Answers)]
  /\ writers \in [Pid -> SUBSET (Pid \cup {Dispatcher})]

\* The table and the process table agree although children die at any moment:
\* no more slots are counted than there are, an active slot is a child that has not been waited for (so its pid cannot
\* have been given to a stranger that exit would kill), and every such child
\* still has a slot to be reached and reaped through (cleanup_zombies,
\* create_driver).
ChildrenInSlots ==
  pc \notin Stopped =>
    /\ \A s \in Slot : drivers[s].active => /\ s \in Used
                                           /\ drivers[s].pid \in Pid
                                           /\ proc[drivers[s].pid] # "none"
    /\ \A p \in Pid : proc[p] # "none" =>
         \E s \in Used : drivers[s].active /\ drivers[s].pid = p
SlotsTrackChildren == driver_count <= MAX_DRIVERS /\ ChildrenInSlots

\* A slot never cleared of an old pid does not hide a live driver that was
\* given the same pid: cleanup_zombies, which does not look at active, stops
\* at the first match and that is the active slot.
NoShadow ==
  pc \notin Stopped =>
    \A s \in Used : \A r \in 0..s - 1 :
      drivers[s].active => drivers[r].pid # drivers[s].pid

\* While the dispatcher serves, the pipe of a driver it has not reaped is
\* open: no driver leaves for an end of file that a wrong close caused.
PipeHeldOpen ==
  pc \notin Stopped \cup {"exit"} =>
    \A p \in Pid : proc[p] # "none" => Dispatcher \in writers[p]

\* send_command is a strict call: the one message or answer in flight belongs
\* to the call being made, so no call ever reads what an earlier one left.
Lockstep ==
  \A p \in Pid :
    LET n == Len(cmdPipe[p]) + Len(ansPipe[p])
    IN IF pc = "read" /\ drivers[idx].pid = p
       THEN n <= 1 /\ (Alive(p) => n = 1)
       ELSE n = 0

\* A task that was accepted runs to its end: nothing but time and death
\* shortens it, and no later task replaces or prolongs it.
TaskRunsToItsEnd ==
  [][\A p \in Pid :
       status[p] = 1 /\ left[p] > 0 =>
         \/ proc'[p] = "zombie"
         \/ status'[p] = 1 /\ left'[p] \in {left[p], left[p] - 1}]_vars

\* Every command ends: the dispatcher comes back to its prompt, or stops.
CommandEnds == pc # "prompt" ~> pc \in {"prompt"} \cup Stopped

\* However the dispatcher stops, no driver outlives it for ever: the end of
\* file reaches the last one forked first and then, as descriptors close, all.
NoOrphans == pc \in Stopped ~> \A p \in Pid : proc[p] = "none"

\* A busy driver becomes free (or is gone).
TaskEnds == \A p \in Pid : status[p] = 1 ~> status[p] = 0

\* The guards of the steps that are fair.
DispatcherCan ==
  pc \notin {"prompt", "read"} \cup Stopped \/ (pc = "read" /\ AnswerReady(drivers[idx].pid))
DriverCan(p) ==
  \/ proc[p] \in {"start", "loop"}
  \/ /\ proc[p] = "select"
     /\ cmdPipe[p] # <<>> \/ writers[p] = {} \/ (TimeoutArmed(p) /\ left[p] = 0)
WorldCan == \E p \in Pid : left[p] > 0 \/ (pc \in Stopped /\ proc[p] = "zombie")

\* Where nothing can happen unless somebody types or kills, the dispatcher is
\* at its prompt and every driver is free, or all are gone: a call is not left
\* without its answer, a task without its end, nor do drivers keep each other
\* alive by the ends they hold of each other's pipes.
RestsOnlyFree ==
  ~DispatcherCan /\ (\A p \in Pid : ~DriverCan(p)) /\ ~WorldCan =>
    \/ pc = "prompt" /\ \A p \in Pid : Alive(p) => proc[p] = "select" /\ status[p] = 0
    \/ pc \in Stopped /\ \A p \in Pid : proc[p] = "none"

\* A driver that does not answer is an error that send_task and get_status
\* report (the comments at lines 55 and 254): it does not end the dispatcher.
DispatcherSurvives == pc # "killed"
=============================================================================
