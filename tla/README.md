# Eltex-lessons in TLA+

The repository is a collection of independent C programs written for a course:
servers on sockets, threads around mutexes and condition variables, processes
joined by pipes, System V and POSIX objects, and smaller exercises.  There is
no common library; each directory of `src/` is a program, or a few programs
that talk to each other.  This directory holds TLA+ models of the programs in
which something can happen in more than one order, or goes wrong only after
many steps, what TLC checks about them, and what TLAPS proves.

Contents: [inventory](#inventory) · [conventions](#conventions) ·
[the modules](#the-modules) · [runs and bounds](#runs-and-bounds) ·
[fairness](#fairness) · [proofs](#proofs) ·
[where code and intent differ](#where-code-and-intent-differ) ·
[not modelled](#what-is-not-modelled) · [plan](#plan) ·
[running it](#running-it)

## Inventory

### Programs that are modelled

| Program (`src/`) | Parties | State | Operations | What makes it hard | What makes it correct |
|---|---|---|---|---|---|
| `TaxiManagement` | a dispatcher process, up to 100 forked drivers | the `drivers` table (pid, pipe ends, `active`), `driver_count`; in each driver `status` and `end_time`; two pipes for each driver | `create_driver`, `send_task`, `get_status`, `get_drivers`, `exit`, reaping of dead children; driver: select with a timeout, answer, end at end of file | children die at any time, pids are given again, a fork copies every open write end, blocking `read` and `write`, SIGPIPE | the table agrees with the children that exist; a call is answered by its own answer; tasks and commands end; no driver is orphaned |
| `SocketsSS/TaskThree` | main, a pool of service threads, clients | a ring buffer with its count, mutex and condition variable; `is_busy` of each thread; open descriptors | accept, read, `enqueue_client`, `dequeue_client`, answer, close | a signal without a sleeper, spurious wake-ups, wrap of the indices, full queue, descriptor numbers used again, slow and killed clients | a bounded FIFO; one owner for every open descriptor; no lost wake-up; each client is answered |
| `SocketsSS/TaskTwo` | main, service servers, clients | `is_busy` of each server under a mutex of its own | `find_free_server`, answer with an address, serve, release | the mark is set by one thread and cleared by another, the client in between may never come, set-up may fail | a server is given to one client at a time and comes back |
| `SocketsSS/TaskOne` | main, a thread for each of three clients | `clients_served`, the static port counter, an `args` block per thread | create a thread, send its port, detach or join | `args` read after the thread that frees it was started, client faster than thread, `return` with detached threads running | no use after free, a thread serves its own client, the server ends |
| `SocketsSS/TaskFour` | one thread with `select`, TCP and UDP clients | the set filled by select, one connection at a time | select, accept, blocking read, answer, recvfrom, sendto | what select said is used after a blocking TCP client, starvation of one protocol | no blocking call with nothing there; both protocols answered |
| `SocketsEcho` | a UDP server with a signal handler, clients with signal handlers | an array of addresses with the number of their next message | find, add, remove by shifting, number, echo, shut down | the handler interrupts the shifting; clients vanish; the array fills | one entry for an address, nobody missed by the handler, numbers without gaps |
| `Streams` | shopper threads, a loader thread, main | `product` of each shop, `need` of each shopper, a mutex for each shop | trylock, buy, load, cancel, join, destroy | purchases and loads are several stores; cancellation at any cancellation point, with a mutex held | goods are conserved, the program ends when all are sated |
| `SharedMemory/Vsistem`, `/Posix` | a server and a client each | a shared text, two semaphores, their names | make, open, reset, write, post, wait, read, remove | the objects outlive a killed run, a client may hold those of another run | each side reads what the other one wrote |
| `Messages/Vsistem`, `/Posix` | a server and a client each | one queue with two types, or two queues of ten | make, open, send, receive, remove | queues outlive a killed run with what is in them, a POSIX queue fills | answers of finished runs do not come back; the server blocks only after ten killed runs |
| `AbonentList` | one user at a menu | a doubly linked list with `head`, `tail` and `count` on the heap | add, delete by name and second name, search, list both ways, clear | branches for the first, middle, last and only node; an error in `prev` or `tail` shows only commands later; freed addresses come back | the nodes are the list, nothing freed is reached, listings are complete, the right abonent is deleted |
| `Struct` | one user at a menu | a table of abonents, three fields of characters each, and `count` behind it | `Add_abonent`, `Delet_abonent` with its shift, `Search_abonents`, the listing | a word that fills its field loses its 0 to the next field; the shift copies one character less than a field has | what was typed is what is shown and found |
| `File_manager` | one user, two panels | of each panel the path, the entries, `selected`, `top` | `move_selection`, `change_directory`, `scan_directory`, `draw_panel` | a listing is old when it is used, directories go or close, more entries than fit | what Enter opens is on the screen; a panel can go up |
| `Sockets`: `TCP_afinet`, `TCP_local`, `UDP_afinet`, `UDP_local`, and `Pipe/Server`, `Pipe/Client` | a server and a client, of which others may be run at the same time | a port or a path, a connection, datagrams or a FIFO | unlink, bind, mkfifo, listen, connect, one text each way (FIFO: one way), close, unlink | paths outlive processes and are unlinked by others, datagrams to nobody are lost, SIGPIPE | nobody waits for somebody who waits for him; answers reach those who asked; nothing is left behind |
| `Pipe/BushFix`, `Processes/MyBash`, `Processes/New_bash` | a shell and the programs it starts | who holds which end of which pipe; children not yet waited for | `execute_simple_command`, `execute_pipe_command`: pipe, fork, dup2, close, exec, wait | an end left open somewhere is an input that never ends; forks and pipes fail half way | the prompt comes back with no end open and no child left |

The programs interact with nothing but their own partners: over a loopback
connection or datagram (`SocketsSS`, `SocketsEcho`), a pipe (`TaxiManagement`),
shared variables under mutexes (`Streams`, the threads of `SocketsSS`), or
named objects of the kernel (`SharedMemory`, `Messages`, `Sockets`, the FIFO).
No two of the rows above share state, so there is no behaviour of two of them
together; each module composes the parties of its row.  Four more compositions
are those of a program with what it promises: `TaskThree` with the abstract
queue `BoundedFifo`, `TaskTwo` with the abstract pool `ServerPool`,
`Streams` with the abstract `Shops`, `AbonentList` with the abstract
`Directory`.
`Exchanges` and `Directories` put several small programs side by side, for one
run and one module of proofs each; a variable says which of them is run, the
others do nothing.

`client1.c`, `client2.c` and `client3.c` of each server are the same program
up to the text they print, so one set `Client` stands for the runs of all of
them.

### Programs that are not modelled

`Pipe/MyPipe`, `Processes/Proc1` and `Proc2`, `Signals`, `DataTransfer`, the
four raw-socket directories (`SocketsRawIPUDP`, `SocketsRawPacket`,
`SocketsRawSniffer`, `SoketsRawUDP`), `Calculator*`, `Array`, `Bits`,
`Pointer`, `Output`, `ScanPass`.  See [below](#what-is-not-modelled) for the
reasons.

`PROJECT.json` lists the components with their files, the hazards with the
lines at which they bite and the properties that would catch them, and for
each definition of a module the lines of C that it stands for.

## Conventions

* A module is one program with its partners.  Names are those of the code
  (`drivers`, `driver_count`, `queue_front`, `is_busy`, `clients_served`,
  `cl_history` as `history`, ...).  `pc` is the place of the single-threaded
  party (the dispatcher, main, the server), `at[t]` or `pc[t]` the place of
  thread `t`, `client[c]` where client `c` is.
* One action is what other parties cannot interrupt as far as they can see:
  a critical section under a mutex, one system call with the assignments
  around it, or one access to a variable that is shared without a lock.  Where
  the code reads first and acts later (select and accept, cleanup and write,
  the search over servers that are locked one by one, `need -= product` and
  `product = 0`), these are separate actions.
* `UNCHANGED` groups (`clients`, `ring`, `table`, ...) are tuples of variables
  that belong together.
* Variables marked *history* in a declaration record the past for a property;
  no guard reads them.
* Texts are abstracted to what is done with them: a request is `"TIME"` or
  `"other"`, an answer of a driver is its first word.  Time in `Taxi` is
  counted in whole seconds until the end of the task.
* Operators marked *Mutant* in a comment are wrong variants of the operator
  that follows them, each the kind of mistake one could make at that line.
  Nothing uses them; with one of them in the place of the right operator a run
  fails, which shows that its property can fail.
* `MC<Module>` extends a module with symmetry sets and finite values; a
  `.cfg` file beside it makes it a run.
* `Exchanges` extends `SocketsEcho` and takes `Messages`, `SharedMemory`,
  `Sockets` and `TaskFour` as instances; `Directories` extends `AbonentList`
  and takes `AbonentArray` and `FileManager`.  Their variables have the names
  of those of the program, with a prefix where two programs share one
  (`sock_queue` is the `queue` of `Sockets`).

## The modules

### Taxi

`src/TaxiManagement/taxi.c`, the largest of the programs.

| Code | Model |
|---|---|
| `drivers[]`, `driver_count` | `drivers`, `driver_count`; slots are `0..MAX_DRIVERS - 1`, a slot never used has pid `NoPid` |
| `main`'s loop: `fgets`, `cleanup_zombies`, the command | `pc`: `prompt` → `cleanup` → `exec`, `list` or `exit` |
| `cleanup_zombies` (294) | `Reap(p)` for each dead child, `CleanupDone` when waitpid has none left |
| `create_driver` (167) | `CreateDriver(p)`, `CreateFails` (pipe or fork failed after the slot was taken), `CreateWhenFull` |
| `send_command` (31) | `DriverFound`/`DriverNotFound`, `SendMessage` (the write), `ReadAnswer` (the blocking read) |
| `get_drivers` | `ListNext`, `ListDone`, with `send_command` for each active slot |
| `exit` | `ExitNext` for each slot, `ExitDone`; end of input is `EndOfInput` |
| `driver_main` (66) | `StartDriver`, `EnterSelect`, `TaskTimeout`, `AnswerCommand`, `CommandPipeClosed` |
| the kernel | `KillDriver`, `InitReaps`, `Tick`; `proc[p]` is the process with pid `p`, zombies included; `writers[p]` holds who has the write end of `p`'s command pipe open, because a fork copies all of them |

Between any two steps a driver may be killed.  A pid can be given again once
its process was waited for; that is what makes a slot with a stale pid
dangerous (`NoShadow`, `SlotsTrackChildren`).  `SendMessage` to a driver that
died after the cleanup ends the dispatcher with SIGPIPE (`pc = "killed"`).

Properties: `SlotsTrackChildren` (the table never grows past `MAX_DRIVERS`, an
active slot is a child not yet waited for, and the other way round), `NoShadow`
(a stale pid in a lower slot never equals that of a live driver, which is why
`cleanup_zombies` may ignore `active`), `PipeHeldOpen` (no driver sees an end
of file while the dispatcher serves), `Lockstep` (at most one message or answer
is in flight and it belongs to the call being made), `TaskRunsToItsEnd` (an
accepted task is neither shortened nor replaced), `CommandEnds`, `TaskEnds`,
`NoOrphans` (after the dispatcher is gone the end of file reaches all drivers,
although each holds write ends of the ones before it).  `RestsOnlyFree`, which
is proved, says of a state in which nothing can happen unless somebody types or
kills that the dispatcher is at its prompt and every driver free, or that all
are gone.  `DispatcherSurvives` is violated, see
[below](#where-code-and-intent-differ).

### TaskThree and BoundedFifo

`src/SocketsSS/TaskThree/server.c` and its clients.  `enqueue_client` and
`dequeue_client` run under `queue_mutex`; each is one action
(`EnqueueClient`/`QueueFull`, `DequeueClient`), and a thread in
`pthread_cond_wait` is at place `wait`, from which a signal or a
`SpuriousWakeup` moves it back to `dequeue` to look at the count again.  Which
waiting thread a signal wakes is left open.  `Accept` gives the lowest free
descriptor, as the kernel does, so that numbers are used again as early as
possible.  `ReadMessage` waits for one client, inside the accept loop.

`BoundedFifo` is what the ring promises: a sequence of at most `Capacity`
items, put in at one end and given to one consumer at the other.  `FifoSpec`
is the refinement: the ring as the sequence `QueueSeq`, `held` as what each
consumer took.

Properties: `RingConsistent`, `OneOwner` (an open descriptor is in the hand of
main, in one place of the ring or with one thread, a closed one nowhere: no
double close, no leak, no answer through a number that was given to someone
else), `NobodyOversleeps` (a thread sleeps only if as many others are on their
way to the queue as clients are in it), `FifoSpec`, `EveryClientAnswered`, and
`NobodyForgotten`, which is proved: where nobody can take a step, no client
waits, unless no thread was set up.

### TaskTwo and ServerPool

`src/SocketsSS/TaskTwo/server.c`.  `FindNext` looks at one server under its
mutex; `NoneFound` ends the search; `SendReply` sends the address or the
error.  The service thread is `AcceptService`, `ReadRequest`, `SendAnswer`,
`CloseClient`, `Release`.  `InitServers` may leave any of the servers without
socket or thread.  Clients die between any two steps.

Properties: `OneClientPerServer` counts whom a server has to expect: the
client main is about to send there, those that hold its address, wait in its
backlog or are served.  A free one expects nobody, a busy one at most one.
`BusyServerReturns`: it becomes free again, unless its client never came,
because it died first or because the server had no socket to be reached at
(`Lost`).  `RestsOnlyLost`, which is proved, says the same of a state in which
nobody can take a step, and that no client waits in it.

`ServerPool` is what the pool promises: whoever asks is given a server that
nobody holds, or is refused if none was free when it asked, and a server comes
back only after its client was served.  `TaskTwo` implements it (`PoolSpec`)
with two history variables, which no guard reads: `holder`, the client for
whom main has marked each server, and `all_busy`, whether no server was free
when main accepted the client it now deals with.  The point of the latter is
that the search looks at one server at a time while the others are released:
a client may be refused although a server has come free behind the search,
but never if one was free from the start.

### TaskOne

`src/SocketsSS/TaskOne/server.c`, with the number of clients as a constant
(3 in the code).  Threads and their `args` are named by the port.
`JoinAndExit` ends the process and every thread in it.  If `pthread_create`
fails, the client reads an end of file and calls `connect` with an address and
a port that `sscanf` never wrote; the model takes that `connect` to fail.

Properties: `ArgsNotFreedInUse` (main reads `args->service_port` after the
thread that frees `args` is running; what saves it is that the client cannot
know the port yet), `OwnThread` (a thread serves the client that was sent its
port), `ServerEnds` (once the last client was sent its port the server ends,
with that client answered or dead; only if it never reaches its thread does the
server wait for ever: `LastSettled`).  `RestsOnlyUnreached`, which is proved,
says who may be left waiting where nobody can take a step: a thread whose
client was refused or died on its way, and the clients of a main that waits for
such a thread.

### TaskFour

`src/SocketsSS/TaskFour/server.c`.  `ready` is the `fd_set` that select filled;
`Accept` needs a connection and `AnswerUdp` a datagram, so a call that would
block with nothing there stops the server in the model as well.  Clients of
both kinds may be killed at any time and are run again for ever.

Properties: `BlocksOnlyToRead` (the server blocks in the read of a client that is
connected and has yet to write, or in select when nobody waits for it; not in
accept or recvfrom, although a TCP client may be served between select and
recvfrom) and `Answered` (a TCP client that has connected and a datagram that has arrived
are answered, unless the client ends first).

### SocketsEcho

`src/SocketsEcho/server.c`, `client1.c`.  Every round of the shift in
`remove_client` is a step, and `SignalHandler` may run between any two steps.
Datagrams over loopback keep their order; one that finds the socket buffer
full is lost.  A run of a client has an address of its own: an address is not
given to another program later.

Properties: `NoDuplicates`, `NobodyUnlisted` (the handler reaches every client
that was echoed to and has not been removed, even in the middle of a shift:
copying towards the lower index leaves a duplicate but never a gap),
`NumbersFollow`.

### Streams and Shops

`src/Streams`.  `FreeMutex` is the result of `pthread_mutex_trylock`; `Buy` and
`Empty` are the two stores of a purchase, `ReadProduct` and `StoreProduct` the
two halves of `product += 200`.  The loader can be cancelled in `sleep` and
`usleep`, and in `printf`, which POSIX allows to be a cancellation point.
`pthread_create` is taken to succeed, as the code does.

`Shops` is what the program promises: a purchase takes all that a shop has in
one step, a load is one step, and nothing else moves goods.  In the refinement
(`ShopsSpec`) the shelf of a shop is empty as soon as the need of a shopper
there was lowered, although `product` still holds what was sold (`HalfSold`), and
a load is done when it is stored.

Properties: `ShopsSpec`, `Conservation` (what a shop was given equals what it
sold and what is on its shelf; proved, and part of what `ShopsSpec` says),
`CleanEnd` (all are sated when the mutexes are destroyed, and only the shop of
the cancelled loader can be locked), `EndsWhenSated`.

### SharedMemory

Both pairs of programs in one module, told apart by `system`.  An object is
named by the run of the server that made it: `name[x]` says whose object has
the name `x` now, `handle[p][x]` whose object process `p` has open.  With
System V, removing the set of semaphores ends whoever waits for it
(`Removed`); with POSIX, an unlinked object lives on for those who have it.
Any process can be killed at any step and leaves everything as it is.  One
server runs at a time.

Properties, together `EachHears` in the run: `ClientHears` (a client that holds
the objects of the last server reads "Hi!", whatever killed runs have left) and
`ServerHears` (the server reads "Hello!" if the one who posted holds its
objects), both except for a client that had taken its "Hi!" from an earlier run
when the semaphores were set to 0.

### Messages

Both pairs in one module, as above.  A message carries its type and, as a
history of where it comes from, the run that it is or answers.

Properties: `AnswerOfRun` (a server takes an answer to its own message or to
that of a killed run, never to that of one that ended) and
`BlockedByTheKilled` (a full queue blocks a server only after as many killed
runs as it has places).

### Sockets

The four pairs of `src/Sockets` and the FIFO pair of `src/Pipe`, told apart by
`kind`.  A process is a run of a program.  `owner[name]` is the process whose
socket or FIFO has the port or path now.  A port is free when its socket is
closed, a path stays until somebody unlinks it, and the local programs unlink
whatever is there before they bind.

| Code | Model |
|---|---|
| `unlink` before `bind`; `bind`, `mkfifo` | `UnlinkOld`; `Bind`, `BindFails` (also while a closed TCP connection still holds the port) |
| `listen`, `accept`, `read`, `write` of the TCP servers | `Listen`, `TakeFirst`, `ReadRequest` (which may be an end of file: the inet server answers all the same, the local one does not), `AnswerStream` (SIGPIPE where the client is gone) |
| `recvfrom`, `sendto` of the UDP servers | `TakeFirst`, `AnswerUdp`, `AnswerUdpLocal`: the local client's address is a path, so the answer goes to whoever has it |
| `open`, `write`, `read` of the FIFO | `OpenWrite`, `OpenRead` (each waits for the other side; `MeetAt` lets those go on that wait), `Write`, `ReceiveAnswer` |
| `close`, `unlink` at the end | `Close`, `UnlinkOwn`; the FIFO is unlinked by its reader |
| the clients | `Connect`, `SendRequest`, `SendDatagram`, `ReceiveAnswer`, `ReceiveEnd` |

Any process may be killed at any step; its paths stay.

Properties: `StuckOnlyAlone` (where no program can take a step any more, those that
have not ended wait for a partner that is gone: no two wait for each other and
nobody is forgotten in a queue; who can take a step is `CanGoOn`, the guards
of all steps), `StepsLeadOn` (every step takes a program nearer to its end and
none back, so that there is such an end; proved), `NothingLeftBehind` (where all have
ended and none was killed no path is left), `OwnAnswer` (an answer is taken
once, and by the client that had asked, except through a path that all
clients share).

### Shell

`src/Pipe/BushFix`, `src/Processes/MyBash` and `New_bash`.  `kind` is the
program; the last two have no pipe.  `ends[p]` is the set of pipe ends that
process `p` holds: a fork copies those of the shell, `Redirect` is the child's
`dup2` and `close`, `Close` that of the shell.  A pipe is at its end when
nobody holds its write end (`Held`), and a program that writes where nobody
holds the read end is killed.  What a program does is chosen at `Exec`: a left
one writes some output or never stops, a right one reads on or ends before, and
any of them may be `Idle`: one that does not end by itself and leaves the pipe
alone.  `Wait` takes any child, as `wait(NULL)` does;
`WaitLeft` and `WaitRight` name theirs.  `pipe` and `fork` may fail, with the
returns of the code: `ForkFails` leaves both ends open and, the second time, a
child that nobody waits for.

Properties: `CleanPrompt` (at the prompt the shell holds only the pipes of
lines for which a fork failed, and there is one child left for each line whose
second fork failed, no more and no fewer) and `LineEnds` (every line comes
back to the prompt, unless its programs would not end whatever the shell does).
The ends that a failed line leaves in the shell do no harm to later lines: they
are ends of another pipe.  `StuckOnlyIdle`, which is proved, is what `LineEnds`
rests on: where neither the shell nor a program can take a step, a program of
the line is idle; it is never two that wait for each other over a pipe.

### AbonentList and Directory

`src/AbonentList`.  A node is an address: `live` holds those that are
allocated, and `Add` may be given any other one, with the fields that a freed
node has left in it.  `data`, `next` and `prev` are the fields by address.
Every walk along the list goes one node a step (`FindNext`, `ShowNext`,
`ClearNext`) with `pc` as the command at work; `Delete` is the unlinking, with
the branches of `remove.c` 47-65 in `BridgeForward` and `BridgeBack`.  `order`
and `shown` are histories: the nodes added and not freed, and those that the
listing at work has printed.

`Directory` is what the list promises: a sequence of abonents, a question for
one to delete that ends with the removal of the first match or with the answer
that there is none.  In the refinement `abonents` is `order` read through
`data`, `asked` the key of the deletion at work.

Properties: `WellLinked` (the allocated nodes are exactly the list, in both
directions, and no walk stands on a freed one), `ListsAll` (what a listing has
printed is at all times what it should have printed of the nodes it has
passed, once and in order, and all of it at the end: it misses and repeats
nothing), `DirectorySpec`.

### AbonentArray

`src/Struct/abonents.c`.  The table is a function from places to characters,
because what can go wrong is a matter of single characters: `scanf("%s")`
writes a word and its 0 wherever they come to lie.  A word of `MAX_LENGTH`
characters, which the prompt allows, loses its 0 to the next field; that of
the last telephone of a full table falls on what lies behind, where the
linker may have put `count` (`Add_abonent` leaves both outcomes open).  The
prompt of `Search_abonents` states no limit at all, and its `search_name` lies
on the stack: a word that fills it may hit nothing, the count, or a variable of
the loop that changes the word while it is looked for, so that the search finds
what it should up to some entry and nothing from there on; or the program ends
(`SearchAborts`).  `ShowsBook` is not touched by that: while no word has filled
its field, no entry has a name of that length.
`Delet_abonent` is the clearing, the shift of each field (which copies one
character less than a field has) and the clearing of the last entry.  `book`
is a history: the entries as they were typed and not deleted.

Properties: `ShowsBook` (while no word has filled its field, the table shows
what was typed, what lies behind is empty, a search finds those of that name;
and the count is right while nothing went past the table).  `ShownAsTyped`,
which the prompts promise, is violated, see
[below](#where-code-and-intent-differ).

### FileManager

`src/File_manager`.  A panel keeps what `scan_directory` found when its
directory was entered; nothing refreshes it.  Since then other programs may
have removed directories (`RemoveDirectory`) or changed who may read them
(`ChangeMode`).  `Scans` is what a reading may give: the first `MAX_FILE`
entries in any order, `..` among them or not, or nothing where the directory
does not open or cannot be searched.  `move_selection`, `change_directory` and
`SwitchPanel` are the keys; `Drawn` is the window of `draw_panel`.  A path is the
sequence of its names: `//a`, which the program makes below a root that it
has entered, is `/a`, and the way up by the last slash is the same.

Property: `PanelsUsable` (the entry that Enter opens is one that is drawn; an
empty panel has its indices at 0; a panel with fewer entries than fit has a way
up).  It names the two cases in which a panel has none: more than `MAX_FILE`
entries, and an empty panel, which a directory that was removed or closed since
it was listed leaves for good.

## Runs and bounds

All bounds are constants of the modules or of the `.cfg` files.

| Run | Config | Instance | States | Checks and shows |
|---|---|---|---|---|
| `taxi_tasks` | `MCTaxiTasks` | 2 pids, 2 slots, times -1, 0, 1, 2, fairness | 41,258 | `SlotsTrackChildren`, `NoShadow`, `PipeHeldOpen`: the table agrees with the children in every order of creation, death, reaping and reuse of pids; `Lockstep`, `TaskRunsToItsEnd`, `CommandEnds`, `TaskEnds`, `NoOrphans` |
| `taxi_survives` | `MCTaxiSurvives` | 2 pids, 2 slots | stops at the violation | `DispatcherSurvives` is violated |
| `three_queue` | `MCTaskThreeQueue` | 3 clients, 2 threads, 2 places, 3 descriptors, symmetry | 274,420 | `OneOwner`, `NobodyOversleeps`, `FifoSpec` |
| `three_live` | `MCTaskThreeLive` | 2 clients, 2 threads, 1 place, 2 descriptors, fairness | 41,183 | `EveryClientAnswered`, threads that failed to start included |
| `two` | `MCTaskTwo` | 3 clients, 2 servers, fairness | 115,123 | `OneClientPerServer`, `BusyServerReturns`; `PoolSpec`: it implements `ServerPool` |
| `one` | `MCTaskOne` | 3 clients, 2 served, 3 ports, fairness | 117,808 | `ArgsNotFreedInUse`, `OwnThread`, `ServerEnds` |
| `four` | `MCTaskFour` | 1 TCP client, 3 UDP clients, inbox of 2, fairness | 210,404 | `Answered` |
| `streams` | `MCStreams` | 2 shoppers, 2 shops, first 0 or 1, need 1 or 2, load 1, shelf to 1, fairness | 210,773 | `ShopsSpec`: it implements `Shops`; `CleanEnd`, `EndsWhenSated` |
| `exchanges` | `MCExchanges` | symmetry, one family of programs at a time: | 614,812 | `TypesOK` for all families |
| | | `SocketsEcho`: 3 clients, 2 entries, inbox of 1, 2 lines each | | `NoDuplicates`, `NobodyUnlisted`, `NumbersFollow` |
| | | `Messages`: both systems, 3 clients, 3 runs, queues of 2 | | `AnswerOfRun`, `BlockedByTheKilled` |
| | | `SharedMemory`: both systems, 3 clients, 2 runs | | `EachHears` |
| | | `Sockets`: 5 pairs, 3 clients, 2 servers | | `StuckOnlyAlone`, `NothingLeftBehind`, `OwnAnswer` |
| | | `TaskFour`: 2 TCP clients, 1 UDP client, inbox of 1 | | `BlocksOnlyToRead` |
| `shell` | `MCShell` | 3 shells, 3 lines, pipes that hold one write, outputs to 2, fairness | 138,202 | `CleanPrompt`, `LineEnds` |
| `directories` | `MCDirectories` | one program at a time: | 748,754 | |
| | | `AbonentList`: 3 addresses, 2 names, 2 second names, 1 telephone | | `WellLinked`, `ListsAll`, `DirectorySpec` |
| | | `Struct`: 3 entries, fields of 3 characters, words of 1 to 3 | | `ShowsBook` |
| | | `File_manager`: 3 directories, 2 files, panels of 3 entries, windows of 2 | | `PanelsUsable` |
| `prompts` | `MCDirectoriesPrompts` | as `directories` | stops at the violation | `ShownAsTyped` is violated |

Why these sizes:

* **Taxi.** Two pids and two slots: both drivers die, the second one's pid is
  given to a driver in the first slot while the second slot still names it, so
  that a search by pid alone has two slots to choose from.  Larger tables are
  left to the proofs.  Tasks of -1, 0, 1 and 2 seconds include the ones that
  are over before `select` is entered and one that outlives a command.
* **TaskThree.** Two places and two threads with three clients: the ring
  wraps, is full and is empty, a thread sleeps while the other one works, and
  three descriptors are in use and given again.  Clients are interchangeable
  and so are threads, so the run of safety properties takes the symmetry; the
  liveness run does not.  There, one place suffices for a full queue.
* **TaskTwo, TaskOne.** One client more than servers, so that one is refused,
  or one more than are served.  `TaskOne` needs a port for each run of a
  client, which `MaxPortAssumption` says.
* **SocketsEcho.** Two entries and three clients fill the array; the inbox of
  one datagram loses datagrams; two lines each suffice for a number
  after 1 and for a client that is removed (its line reads CLIENT_SHUTDOWN)
  and registered again.
* **Streams.** Amounts 0 to 2 with a load of 1 make purchases that are too
  small, exact and too large.  `MaxProduct` bounds the shelf: the loader adds
  nothing to a fuller shop.  In the code it always adds, and the amount is
  limited only by how often it comes before a shopper does.
* **TaskFour.** One TCP client that comes back for ever can starve UDP if
  anything can; three UDP clients overflow a buffer of two.  In `exchanges` a
  second TCP client waits in the backlog while the server blocks for the first.
* **SharedMemory.** Two runs of the server and three clients: a killed run and
  the one after it, a client from each, and one that comes late.
* **Messages.** Three runs, a queue of two places instead of ten and three
  clients: two killed runs fill the queue for the third.
* **Sockets.** Two servers and three clients: a server whose path is taken by
  the next one, clients of both, and one that comes when both are gone.
* **Shell.** A pipe that is full with one write makes the left program wait
  with the first of two.  Three lines: a line whose second fork fails leaves a
  child, a simple line's `wait` may take that one for its own, and a third line
  follows.  No line looks further back than that.
* **Struct.** Fields of three characters take words that leave room, that just
  fit with their 0, and that fill the field; three entries have a neighbour on
  both sides.
* **File_manager.** The root has four entries for a panel of three, of which a
  window shows two: listings are cut off and windows scroll.  The lowest
  directory is two below the root, so that the one above a panel's can go.
* **AbonentList.** Three nodes are a first, a middle and a last one; two names
  and two second names give abonents that agree in one and differ in the other,
  and two that agree in both.

`TypesOK` in `exchanges` checks the types of its five families.  `TypeOK` of
every other module with processes is proved for every instance
(`TypeCorrect`), as is `RingConsistent` of `TaskThree`, so that no run repeats
them.  For `AbonentArray` and `FileManager`, with one process each,
`ShowsBook` and `PanelsUsable` say what the values of the variables may be.

In `exchanges` clients, and servers of `Sockets`, are interchangeable, as are
clients and threads of `three_queue`, and no property of these runs is a liveness property,
so they take the symmetry.  Runs with fairness take none.

Deadlock is checked where the system goes on for ever.  The programs of
`exchanges` really stop (all runs are over, or someone waits for a partner that
was killed) and so does a shell that was left, so these two `.cfg` files say
`CHECK_DEADLOCK FALSE`; that the programs stop only where they should is what
`StuckOnlyAlone` and `LineEnds` say.  Where a server waits for clients that will
not come, an explicit `Quiet`, `Finished` or `Exited` step says that this is
all.

## Fairness

Liveness is checked only under what the code's scheduling gives:

* Every process or thread that can run is scheduled: weak fairness of each
  thread's step (`DispatcherStep`, `DriverStep(p)`, `MainStep`,
  `ThreadStep(t)`, `ServerStep`, `ShopperStep(t)`, ...).  There is none for
  the choice between threads that compete for a mutex or a signal.
* In `Taxi`, init reaps orphans and time passes.  Nobody has to type a command
  and nobody has to be killed.
* Clients: `TaskThree` and `TaskFour` block in `read` on a connected client,
  so their liveness needs a client that has connected to write or to be
  killed.  The client programs write at once.  `TaskTwo` and `TaskOne` let
  live clients go on.
* `Shell`: the calls of the shell return and every program that can go on does.
  Nobody has to type a line or leave.
* Killing, spurious wake-ups, failing calls and cancellation inside `printf`
  have no fairness: they may happen or not.

## Proofs

TLAPS proves the theorems below for every value of the constants that the
named assumptions allow: any number of clients, drivers, slots, threads,
places, nodes, runs, lines, shops, directories and any amounts.  The
assumptions say no more than that

* sizes are naturals, most of them positive; a field of `Struct` has room for
  a character and its 0 (`TableAssumption`), and a panel of `File_manager` is
  higher than its frame (`PanelsAssumption`);
* the special values (`NoPid`, `NoClient`, `NoOne`, `Nobody`, ...) are not
  members of the sets they stand apart from, nor a server a client, nor the TCP
  program of `TaskFour` its UDP program;
* a word that `scanf` reads is not empty, contains no 0 and is no longer than
  the prompt allows;
* there is a port for each run of a client of `TaskOne`;
* what is counted or listed is finite: the clients of `TaskOne`, the threads of
  `TaskThree`, the directories and files of `File_manager`.

TLC evaluates each of them in a run.

| Module | Theorem | Says |
|---|---|---|
| `TaxiProofs` | `TypeCorrect` | `Spec => []TypeOK` |
| | `SlotsCorrect` | `Spec => []SlotsTrackChildren` |
| | `NoShadowCorrect` | `Spec => []NoShadow` |
| | `PipesCorrect` | `Spec => []PipeHeldOpen` |
| | `LockstepCorrect` | `Spec => []Lockstep` |
| | `TaskCorrect` | `Spec => TaskRunsToItsEnd`: an action property |
| | `RestCorrect` | `Spec => []RestsOnlyFree` |
| `TaskThreeProofs` | `TypeCorrect` | `Spec => []TypeOK` |
| | `RingCorrect` | `Spec => []RingConsistent` |
| | `OneOwnerCorrect` | `Spec => []OneOwner` |
| | `OversleepCorrect` | `Spec => []NobodyOversleeps` |
| | `FifoCorrect` | `Spec => FifoSpec`: the ring implements `BoundedFifo` |
| | `ForgottenCorrect` | `Spec => []NobodyForgotten` |
| `TaskTwoProofs` | `TypeCorrect` | `Spec => []TypeOK` |
| | `OneClientCorrect` | `Spec => []OneClientPerServer` |
| | `PoolCorrect` | `Spec => PoolSpec`: the servers implement `ServerPool` |
| | `RestCorrect` | `Spec => []RestsOnlyLost` |
| `TaskOneProofs` | `TypeCorrect` | `Spec => []TypeOK`: among other things, the port counter stays below a port per client |
| | `ArgsCorrect` | `Spec => []ArgsNotFreedInUse` |
| | `OwnThreadCorrect` | `Spec => []OwnThread` |
| | `RestCorrect` | `Spec => []RestsOnlyUnreached` |
| `ExchangesProofs` | `AllTypesCorrect` | `ExchangesSpec => []TypesOK`: the types of all five families; among other things no index leaves the array of `SocketsEcho` and no POSIX queue exceeds `MAX_MSG` |
| (`SocketsEcho`) | `EntriesCorrect` | `Spec => []NoDuplicates` |
| | `ListedCorrect` | `Spec => []NobodyUnlisted` |
| | `NumbersCorrect` | `Spec => []NumbersFollow` |
| (`Messages`) | `AnswersOfRuns` | `ExchangesSpec => []AnswerOfRun` |
| | `OnlyTheKilledBlock` | `ExchangesSpec => []BlockedByTheKilled` |
| (`SharedMemory`) | `BothHear` | `ExchangesSpec => EachHears`: two action properties |
| (`Sockets`) | `NothingStays` | `ExchangesSpec => []NothingLeftBehind` |
| | `AnswersAreOwn` | `ExchangesSpec => []OwnAnswer` |
| | `StuckAreAlone` | `ExchangesSpec => []StuckOnlyAlone` |
| | `RunsLeadOn` | `ExchangesSpec => StepsLeadOn`: an action property |
| (`TaskFour`) | `BlocksCorrect` | `ExchangesSpec => []BlocksOnlyToRead` |
| `ShellProofs` | `TypeCorrect` | `Spec => []TypeOK` |
| | `PromptCorrect` | `Spec => []CleanPrompt` |
| | `StuckCorrect` | `Spec => []StuckOnlyIdle` |
| `StreamsProofs` | `TypeCorrect` | `Spec => []TypeOK` |
| | `ConservationCorrect` | `Spec => []Conservation` |
| | `CleanEndCorrect` | `Spec => []CleanEnd` |
| | `ShopsCorrect` | `Spec => ShopsSpec`: the threads implement `Shops` |
| `DirectoriesProofs` | `TypeCorrect` | `Spec => []TypeOK`, of the list |
| (`AbonentList`) | `LinksCorrect` | `Spec => []WellLinked` |
| | `ListingsComplete` | `Spec => []ListsAll` |
| | `DirectoryCorrect` | `Spec => DirectorySpec`: the list implements `Directory` |
| (`AbonentArray`) | `BookCorrect` | `DirectoriesSpec => []ShowsBook` |
| (`FileManager`) | `PanelsCorrect` | `DirectoriesSpec => []PanelsUsable` |

Each program has an inductive invariant (`IInv`; in `ExchangesProofs` and
`DirectoriesProofs` it is named for the program: `EchoInv`, `MsgInv`, ...),
lemmas for what the actions share, one lemma for each action, and the temporal
step at the end.  Each invariant was first model-checked on the instance of
the run.

* **Taxi.** `TypeOK` needs to know that the loop of `get_drivers` is inside the
  used slots while it waits for an answer (`IndexInUse`).  `SlotsTrackChildren`
  and `NoShadow` need each other (`SlotInv`): `cleanup_zombies` clears the
  right slot only because no lower slot has the same pid, and a new driver
  brings no such slot into being only because the slots below the first
  inactive one are active, hence name children that still exist and cannot
  have the pid the kernel has just given.  `PipeHeldOpen` rests on both: the
  dispatcher closes the write end of the driver it has reaped and no other.
  `Lockstep` counts bytes over two pipes; `CallInv` writes the cases out
  (nothing on the way, the message of the call at work, or its answer), and
  needs `DeadInv`: nothing is left in the pipes of a pid that is given again.
  `TaskRunsToItsEnd` follows from the types and `DeadInv`, one action at a
  time.  For `RestsOnlyFree`, `ForkInv` says who holds the write end of a
  driver's pipe once the dispatcher is gone: the drivers forked later that are
  alive (`Later`), and whoever was forked after one of those was forked after
  this one.  So `Later` becomes smaller from a driver to one of its own later
  ones; as finite sets cannot become smaller for ever, some driver that is left
  was forked last (`SomeLast`), nobody holds its pipe, and it is not at rest.
* **TaskThree.** Types alone are not preserved: `ReadMessage` copies the
  request of `fdOf[hand]`, which is a client only if `hand` is open.  `IInv` is
  `TypeOK`, `RingConsistent` and `OwnInv`: what main, the ring and the threads
  name is open (`OpenInv`), no two of them name the same descriptor
  (`ApartInv`), whatever is open is named by one of them (`NoLeakInv`), and no
  thread runs before `init_servers` is done (`StartInv`).  Together they say
  that `Owners(f)` is empty or a singleton, which is `OneOwner`.  The
  arithmetic of the ring is in lemmas of its own (`Modulo`, `Places`,
  `PlaceFacts`); `Enqueued` and `Dequeued` show that the two critical sections
  append to `QueueSeq` and take its head off, from which the refinement
  follows.  `NobodyOversleeps` compares the number of threads on their way to
  the queue with the length of the queue; it is inductive because a signal
  wakes a thread for each client that is put in whenever one sleeps. For
  `NobodyForgotten`, `RestInv` follows each client until its answer: one that
  connected and has no answer is in the backlog or known by a descriptor
  (`LocatedInv`), a descriptor is closed only after the answer (`ClosingInv`),
  and no thread waits at its gate for a flag that nobody will clear
  (`GateInv`).  At rest main is in `accept` with nothing in the backlog, the
  threads sleep, so by `NobodyOversleeps` the ring is empty and there is no
  place left for a client to be.
* **TaskTwo.** All claims on a server (main is about to name it, a client
  holds its address, waits for its accept, or is served) are those of one
  client, its `holder`, and there is a holder just while the server is marked
  (`OneClaim`); this needs to know where each client is when main, the
  backlogs and the threads speak of it (`BacklogInv`, `CurInv`, `IdleInv`,
  `ServerInv`).  For the refinement, `GiftInv` adds that a server that was
  free when `cur` was accepted lies ahead of the search: nobody but main
  marks a server, so one that is free at `i` or beyond stays free until the
  search comes to it, and a search that finds none was hopeless from the start.
  For `RestsOnlyLost`, `RestInv` says where a client is that waits for an
  answer of main (`PlaceInv`) or of a server (`UnservedInv`), that whoever a
  server waits for is going to write or is gone (`ThreadInv`), and that the
  client a server is marked for is on its way, there, or will not come
  (`HolderInv`).
* **TaskOne.** The argument for `ArgsNotFreedInUse` is that nobody but a client
  that knows a port reaches its thread, and that nobody knows the port that
  main is about to send.  `EndpointInv` says the latter, with every known port
  known to one client and below the counter; `ThreadInv` the former, and that
  only a thread that has had a client frees its `args`.  `BacklogInv` (a client
  is queued once and knows no port before main deals with it) and `PortInv`
  (the ports given are no more than the clients accepted) keep both.  For
  `RestsOnlyUnreached`, `RestInv` follows each client: one without a port is in
  the backlog or in main's hands (`WaitInv`), each thread is known to a client or
  about to be (`KnownInv`), whoever a thread holds goes on to ask, was answered
  or is gone (`GuestInv`), and a client that is connected is still at its thread
  until it is answered (`ReachInv`).
* **SocketsEcho.** While `remove_client` shifts, the entry at its index is the
  client that leaves or was copied to the place before it.  `Kept` is the set of
  the other entries: they have different addresses, every client that was
  echoed to has one, and its number is the next one (`EntryInv`).  That holds
  between any two steps of the shift, which is where the handler may run.
* **Shell.** The shell holds the pipes of failed lines and that of the line at
  work (`EndsInv`); the children not yet waited for are as many as the lines
  with a failed second fork and those that the shell is going to wait for
  (`CountInv`).  The count is needed because a `wait` may take the child of an
  earlier line: which child is left is not known, how many is.  `FreshInv` says
  that a fork adds one to it.  `StuckOnlyIdle` needs to know who holds the
  ends of the pipe at work: the shell and the two programs and nobody else
  (`HolderInv`), that the child the shell waits for exists (`AwaitedInv`), and
  what the programs of a line can be (`ProgramInv`).  From these, a left
  program at a full pipe has a reader and a right one at an empty pipe a writer,
  and one of the two can go on unless one of them is idle.
* **Streams.** Mutual exclusion (`Exclusion`: a thread inside a shop is the
  owner of its mutex, and owners are inside) makes the two stores of a
  purchase and the load and store of a delivery appear atomic; `FreshCopy`
  says that the loader's copy is still what is on the shelf.  For the refinement,
  `InNeed` adds that whoever is between the look at the need and the purchase
  still needs something; then the two stores map to one `Take` and a step in
  which nothing moves.  `Ended` follows
  main: joined shoppers are done, and only the loader can own a mutex.
* **TaskFour.** `FourInv` says that what `select` announced is still there at
  each place between `select` and the call that uses it: only the server takes
  a connection or a datagram away, and a client that dies leaves its
  connection in the backlog.  For `BlocksOnlyToRead`, `FourWaitInv` says where
  a TCP client is that has no answer: in the backlog, once, or at hand
  (`FourPlace`).  That what it has written is still there when the server comes
  to it needs the backlog to name nobody twice.
* **Messages.** `MsgNamesInv`: every run since the one that made a queue was
  killed or is the last one, because a run that ends removes the names.
  `MsgQueueInv`: what lies in a queue is of the run that made it or a later
  one, with one "Hi!" of each run, and an answer is not older than the queue
  unless its client is astray (holds queues of two runs).  From the two
  together, an answer in the server's hand is its own or a killed run's, and a
  full queue holds as many different killed runs as it has places: the last
  step counts them, by an injection from places to runs.
* **SharedMemory.** The two systems need two arguments.  With POSIX each run
  has objects of its own: its "Hi!" is in the semaphore or with one client
  (`ShmPosixInv`), and the text stays until that client has read it.  With
  System V all runs meet in the same objects, and one text at a time is on its
  way, whichever run it is of, as long as nobody is late (`ShmSysvInv`); a
  client that takes its "Hi!" while the semaphores are being set is late from
  then on (`ShmLateInv`).  `ShmServerInv` and `ShmClientInv` follow both
  through the objects they open, make or remove one by one, which is where a
  process can be killed and leave half of them.
* **Sockets.** `SockOwnerInv`: who owns a port or a path has yet to give it up
  or was killed, and a FIFO whose maker is through has a reader that will
  unlink it; `NothingLeftBehind` follows.  `OwnAnswer` needs two invariants.
  Where a client has an address of its own, what is queued for it is for it
  (`SockOwnInv`).  On the shared path of the local datagrams and in the FIFOs
  there is one text for each asker: in one place of one queue, in the hand of
  one server or taken by one client (`SockOnceInv`).  `StuckOnlyAlone` needs
  the partners of all who wait, `SockPartnerInv`: which places exist for whom
  (`SockPlaceInv`), that a connected client is in the queue or the hand of its
  server (`SockLinkInv`), that a server has nobody at hand before it takes one
  (`SockEarlyInv`), and that of two that meet at a FIFO neither sleeps while
  the other is there (`SockMeetInv`).
* **AbonentList.** `WellLinked` is inductive together with the types; the
  refinement also needs `PassedNone`: the nodes behind the walk of
  `delete_abonent` do not match.  `Shortened` says once what the list is without
  its k-th node, for `Delete` and `ClearNext`; `AddInv` and `DeleteInv` compare
  the links of the heap with the sequence place by place.  `ShowInv` is for the
  listings: the walk stands on the k-th node of the list, and what was printed
  is, in order, those of the nodes before it that the command shows.
* **AbonentArray.** `TableInv`: until a word fills its field, each field of
  each entry in use holds the word of `book`, then zeros, and behind the
  entries all is 0.  Entries are `i * Entry` characters apart, so what the
  provers need most is that different entries, fields and places are different
  cells (`Cells`, `EveryCell`), from lemmas on products and quotients.
  The shift of `Delet_abonent` moves entry by entry; that it copies one
  character less than a field has is harmless because the last one is 0, which
  is what the invariant says of a word that leaves room.  `full` words are not
  in it: `ShowsBook` claims nothing once a field has been filled.
* **FileManager.** `PanelInv`: the selection is an entry, in the window, and a
  panel that has entries and is not full has `..` among them.  It is preserved
  whatever directories are there, because a reading either gives the entries
  there are, in any order and cut off at `MAX_FILE`, or none.

Left to TLC: every liveness property (`CommandEnds`, `TaskEnds`, `NoOrphans`,
`EveryClientAnswered`, `BusyServerReturns`, `ServerEnds`, `EndsWhenSated`,
`Answered`, `LineEnds`), which need fairness.  Every other property of a passing
run is a theorem.

Of all but one of them the safety half is proved: a system that comes to rest
does so only where it should.

| Program | At rest | Liveness property |
|---|---|---|
| `Taxi` | `RestsOnlyFree` | `CommandEnds`, `TaskEnds`, `NoOrphans` |
| `TaskThree` | `NobodyForgotten` | `EveryClientAnswered` |
| `TaskTwo` | `RestsOnlyLost` | `BusyServerReturns` |
| `TaskOne` | `RestsOnlyUnreached` | `ServerEnds` |
| `TaskFour` | `BlocksOnlyToRead` | `Answered` |
| `Shell` | `StuckOnlyIdle` | `LineEnds` |
| `Sockets` | `StuckOnlyAlone` | its runs end (`StepsLeadOn`) |

The one left is `EndsWhenSated`: nobody blocks in `Streams`, where every lock is
only tried, so that how it ends is a matter of fairness alone.  The others do not
use `ENABLED`, about which the provers cannot reason, but name the guard of each
step (`CanGoOn`, `MainCan`, `ThreadCan`, ...), which the actions use as well where
a guard is more than a place.  That the guards hold exactly where `ENABLED` of
the steps does was checked with TLC on every reachable state of the instances
above, or of larger ones.

## Where code and intent differ

* **SIGPIPE ends the dispatcher** (run `taxi_survives`).  `send_command` means
  to report a driver that is gone ("ошибка чтения или канал закрыт", line 55,
  "ошибка (водитель не найден или не отвечает)", line 254).  If the driver
  dies after `cleanup_zombies` and before the write at line 51, nobody reads
  the pipe, nothing handles SIGPIPE, and the dispatcher is killed.

* **The prompts of the table allow a character too many** (run `prompts`).
  `Add_abonent` asks for words of at most `MAX_LENGTH` characters ("Введите имя
  (макс. %d символов)", abonents.c 38, 43, 47), which is the size of a field
  with its 0.  A name of that length is shown together with the second name.
  The 0 of the last telephone of a full table falls behind the table; if
  `count` lies there, a full table is one of a single entry from
  then on.

Other disagreements were met while modelling; the models contain these
behaviours, and properties are stated so that they name them.

* `TaskOne` sends the port (167-170) before its thread listens on it.  A fast
  client is refused, its thread waits in `accept` for ever, and if it was the
  third one the server never ends: `ServerEnds` starts from a client that was
  accepted.
* `TaskOne` joins the third thread only and returns (187-190); the other two
  may still be serving, and their answers are lost.
* `TaskTwo` leaves a server whose `bind`, `listen` or thread failed in the
  table as free (105-123), and hands it out (211-214); its client is refused
  and the server stays busy.  `BusyServerReturns` names that case.
* `SocketsEcho`'s handler is commented as telling ALL clients ("ВСЕМ
  клиентам", 38); one that has no entry, because the array was full or its
  first datagram is still on its way, is not told and waits for ever.
* `BushFix` returns from a failed second fork (`execute_pipe_command.c` 64)
  without closing the pipe or waiting for the first child.  A later simple
  line's `wait` may take that child for its own and give the prompt back while
  its own program still runs.
* `File_manager`: a panel that entered a directory it cannot read is empty and
  has no `..` to leave by; in a directory with more than `MAX_FILE` entries the
  `..` may be cut off.
* `Sockets`: an inet UDP client whose datagram came before the server waits for
  ever (`client.c` 33); UDP clients on local sockets share one path and can take
  each other's answer; a local server unlinks the path of a server that is
  running, and at its end that of its successor; one that SIGPIPE ends leaves
  its path.
* `Streams` cancels the loader where it may hold a mutex, in a `printf`
  between lock and unlock; `pthread_mutex_destroy` (main.c 44) then fails with
  EBUSY, which nobody looks at.  `CleanEnd` allows that one mutex.
* A POSIX client of `SharedMemory` or `Messages` opens its objects one by one
  and may get some of one run and some of the next (`Straight`, `Astray`).
* `SETVAL` in the System V server clears the semaphores that a killed run has
  left, but not a client that has already taken its "Hi!": its answer counts
  for the next run (`late`).

What these cases mean for the properties: a property that holds of this code
has to leave room for what the code really does, so it names the case and
forbids everything beyond it, and would not notice if the case itself were
repaired or were called a defect.  In particular

| property | leaves room for |
|---|---|
| `PanelsUsable` | the empty panel of a directory that cannot be read; the panel of `MAX_FILE` entries without a `..` |
| `BusyServerReturns` | the server whose set-up failed, and the one whose client died on its way to it (`Lost`) |
| `ServerEnds` | the third client that is refused before its thread listens, or dies before it is accepted |
| `NobodyUnlisted`, `NoDuplicates` | the client that has no entry; the array between two copies of the shift |
| `EachHears` | the POSIX client between two runs (`Straight`), the System V client with a "Hi!" of the run before (`late`) |
| `AnswerOfRun`, `BlockedByTheKilled` | answers to runs that were killed; a queue that only they have filled |
| `OwnAnswer` | the one path that the clients of `UDP_local` share |
| `StuckOnlyAlone` | the partner that is gone: a lost datagram, a server whose path another has taken |
| `CleanPrompt` | the pipe and the child of a line whose second fork failed |
| `CleanEnd` | the one mutex that the cancelled loader had locked |
| `Answered`, `EveryClientAnswered` | the client that connects and never writes, which stops either server (by fairness) |

## What is not modelled

* Inside the modelled programs: failing system calls, except those that the
  code answers with a path of its own that changes state (`pipe`, `fork`,
  `bind`, `listen`, `pthread_create`, refused `connect`); partial reads and
  writes of messages of a few bytes; output; the reuse of UDP ports by other
  programs (`SocketsEcho`); running out of descriptors in `TaskFour` and
  `TaskThree` beyond waiting for a free one; two servers of `SharedMemory` or
  `Messages` at a time.
* A `malloc` that fails in `AbonentList`, which changes nothing.  Words in
  `Struct` that are longer than `MAX_LENGTH`.  Paths in `File_manager`
  that are longer than `MAX_PATH`, entries whose `stat` fails in a directory
  that can be searched, and what a panel looks like beyond the entries it
  shows.  How the shells cut a line into words, and lines that the code
  rejects before it starts anything.
* `Pipe/MyPipe`, `Processes/Proc1`, `Proc2`: a pipe written once and read once,
  and process trees in which nobody depends on an order.
* `Signals`: one signal from one process to another, after which the receiver
  prints and stops.
* `DataTransfer`: one sender that repeats one datagram; the receivers keep
  nothing.
* The raw-socket programs: layouts and checksums of headers around one
  request and one answer, and a sniffer that only prints.
* `Calculator*`, `Array`, `Bits`, `Pointer`, `Output`, `ScanPass`:
  straight-line computations and plain input and output.

## Plan

The order so far, most important first: `Taxi` with its proofs, `TaskThree`
with `BoundedFifo`, `TaskTwo`, `TaskOne`, `SocketsEcho`, `Streams`,
`TaskFour`, `SharedMemory`, `Messages`, `AbonentList` with `Directory`, then
`Sockets`, `Shell`, `AbonentArray`, `FileManager`, the proofs of `TaskOne`,
`SocketsEcho` and `Shell`, those of `Exchanges` and `Directories`, and
`ServerPool` with the proof that `TaskTwo` implements it, `Shops` with the proof
that `Streams` does, and the proofs of where `Sockets`, `Shell`, `TaskThree`,
`TaskTwo`, `TaskOne`, `Taxi` and `TaskFour` come to rest.  What is to follow:

1. The checksums of the raw-socket programs as operators on 16-bit words,
   against the definition of RFC 1071, if they are to be covered at all.

## Running it

In this directory:

    tlc -workers 2 -config MCTaxiTasks.cfg MCTaxi
    tlapm TaxiProofs.tla

Each row of [runs and bounds](#runs-and-bounds) names its `.cfg`; its name
begins with that of its module.
