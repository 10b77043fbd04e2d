----------------------------- MODULE TaxiProofs -----------------------------
(***************************************************************************)
(* What holds of the taxi dispatcher for every set of pids and every size  *)
(* of the table.                                                           *)
(***************************************************************************)
EXTENDS Taxi, FiniteSetTheorems, WellFoundedInduction, TLAPS

\* The loop index is inside the used slots while send_command is at work for
\* get_drivers; TypeOK alone does not say so.
IndexInUse == pc \in {"write", "read"} /\ cmd.op = "get_drivers" => i < driver_count

TypeInv == TypeOK /\ IndexInUse

\* An update outside the domain changes nothing that a type speaks of.
LEMMA PutTyped ==
  ASSUME NEW S, NEW T, NEW f \in [S -> T], NEW x, NEW v, x \in S => v \in T
  PROVE  [f EXCEPT ![x] = v] \in [S -> T]
OBVIOUS

LEMMA NoCommandTyped == NoCommand \in Commands /\ NoCommand.op = "other"
BY TaskTimerAssumption DEF NoCommand, Commands

LEMMA TypeInit == Init => TypeInv
BY MaxDriversAssumption, NoCommandTyped
   DEF Init, TypeInv, TypeOK, IndexInUse, Slot, Stopped, Commands

\* One step per action that does more than move pc.
LEMMA TypeStep == TypeInv /\ [Next]_vars => TypeInv'
<1> SUFFICES ASSUME TypeInv, [Next]_vars PROVE TypeInv'
  OBVIOUS
<1> USE PidAssumption, MaxDriversAssumption, TaskTimerAssumption, NoCommandTyped
    DEF TypeInv, TypeOK, IndexInUse, Slot, Used, Stopped, table, control, clocks, pipes,
        ToPrompt, Stops
<1>1. CASE ReadCommand
  BY <1>1 DEF ReadCommand
<1>2. CASE EndOfInput
  BY <1>2 DEF EndOfInput
<1>3. ASSUME NEW p \in Pid, Reap(p) PROVE TypeInv'
  <2>1. drivers' \in [Slot -> [pid : Pid \cup {NoPid}, active : BOOLEAN]]
    <3>1. UNCHANGED drivers \/ \E s \in Used : drivers' = [drivers EXCEPT ![s].active = FALSE]
      BY <1>3 DEF Reap
    <3>2. \A s \in Used : [drivers[s] EXCEPT !.active = FALSE]
                            \in [pid : Pid \cup {NoPid}, active : BOOLEAN]
      <4> TAKE s \in Used
      <4>1. s \in Slot
        OBVIOUS
      <4>2. drivers[s] \in [pid : Pid \cup {NoPid}, active : BOOLEAN]
        BY <4>1
      <4> HIDE DEF TypeInv
      <4> QED BY <4>2
    <3> QED BY <3>1, <3>2, PutTyped
  <2>2. writers' \in [Pid -> SUBSET (Pid \cup {Dispatcher})]
    <3>1. UNCHANGED writers \/ writers' = [writers EXCEPT ![p] = @ \ {Dispatcher}]
      BY <1>3 DEF Reap, FirstWithPid
    <3>2. writers[p] \ {Dispatcher} \in SUBSET (Pid \cup {Dispatcher})
      OBVIOUS
    <3> QED BY <3>1, <3>2, PutTyped
  <2>3. proc' \in [Pid -> {"none", "start", "loop", "select", "zombie"}]
    BY <1>3 DEF Reap
  <2>4. UNCHANGED <<driver_count, pc, cmd, i, idx, status, left, cmdPipe, ansPipe>>
    BY <1>3 DEF Reap
  <2> QED BY <2>1, <2>2, <2>3, <2>4
<1>4. CASE CleanupDone
  BY <1>4 DEF CleanupDone
<1>5. CASE OtherCommand \/ CreateWhenFull \/ DriverNotFound \/ ListDone \/ ExitDone
  BY <1>5 DEF OtherCommand, CreateWhenFull, DriverNotFound, ListDone, ExitDone
<1>6. CASE CreateFails
  BY <1>6 DEF CreateFails, SlotForNew, TakeSlot
<1>7. ASSUME NEW p \in Pid, CreateDriver(p) PROVE TypeInv'
  <2>1. drivers' \in [Slot -> [pid : Pid \cup {NoPid}, active : BOOLEAN]]
    BY <1>7 DEF CreateDriver
  <2>2. driver_count' \in 0..MAX_DRIVERS
    BY <1>7 DEF CreateDriver, SlotForNew, TakeSlot
  <2>3. cmdPipe' \in [Pid -> Seq(Messages)] /\ ansPipe' \in [Pid -> Seq(Answers)]
    BY <1>7 DEF CreateDriver
  <2>4. writers' \in [Pid -> SUBSET (Pid \cup {Dispatcher})]
    BY <1>7 DEF CreateDriver
  <2>5. proc' \in [Pid -> {"none", "start", "loop", "select", "zombie"}]
        /\ status' \in [Pid -> {0, 1}] /\ left' \in [Pid -> Nat]
    BY <1>7 DEF CreateDriver
  <2>6. pc' = "prompt" /\ cmd' \in Commands /\ i' = 0 /\ idx' = 0
    BY <1>7 DEF CreateDriver
  <2> QED BY <2>1, <2>2, <2>3, <2>4, <2>5, <2>6
<1>8. CASE DriverFound
  BY <1>8 DEF DriverFound, Found
<1>9. CASE ListNext
  BY <1>9 DEF ListNext, Found
<1>10. CASE SendMessage
  <2> DEFINE q == drivers[idx].pid
             m == IF cmd.op = "send_task" THEN [op |-> "TASK", time |-> cmd.time]
                                          ELSE [op |-> "STATUS", time |-> 0]
  <2>1. cmd.op = "send_task" => cmd.time \in TaskTimer
    BY DEF Commands
  <2>2. m \in Messages
    BY <2>1 DEF Messages
  <2> HIDE DEF m
  <2>3. \A p \in Pid : cmdPipe[p] \in Seq(Messages) /\ Append(cmdPipe[p], m) \in Seq(Messages)
    BY <2>2
  <2>4. cmdPipe' = [cmdPipe EXCEPT ![q] = Append(@, m)] \/ cmdPipe' = cmdPipe
    BY <1>10 DEF SendMessage, m
  <2>5. cmdPipe' \in [Pid -> Seq(Messages)]
    BY <2>3, <2>4, PutTyped
  <2>6. writers' \in [Pid -> SUBSET (Pid \cup {Dispatcher})]
    BY <1>10 DEF SendMessage
  <2>7. /\ \/ pc' = "read" /\ UNCHANGED <<cmd, i, idx>>
           \/ pc' = "killed" /\ cmd' = NoCommand /\ i' = 0 /\ idx' = 0
        /\ UNCHANGED <<drivers, driver_count, proc, status, left, ansPipe>>
    BY <1>10 DEF SendMessage
  <2>8. IndexInUse'
    BY <1>10, <2>7 DEF SendMessage
  <2> QED BY <2>5, <2>6, <2>7, <2>8
<1>11. CASE ReadAnswer
  <2>1. ansPipe' \in [Pid -> Seq(Answers)]
    <3>1. ansPipe' = [ansPipe EXCEPT ![drivers[idx].pid] = <<>>]
      BY <1>11 DEF ReadAnswer
    <3> QED BY <3>1, PutTyped
  <2>2. i' \in 0..MAX_DRIVERS /\ idx' \in Slot /\ cmd' \in Commands /\ pc' \in {"list", "prompt"}
    BY <1>11 DEF ReadAnswer
  <2>3. UNCHANGED <<drivers, driver_count, proc, status, left, cmdPipe, writers>>
    BY <1>11 DEF ReadAnswer
  <2> QED BY <2>1, <2>2, <2>3
<1>12. CASE ExitNext
  <2>1. proc' \in [Pid -> {"none", "start", "loop", "select", "zombie"}]
    BY <1>12 DEF ExitNext, Dies
  <2> DEFINE q == drivers[i].pid
  <2>2. status' \in [Pid -> {0, 1}] /\ left' \in [Pid -> Nat]
    <3>1. \/ UNCHANGED <<status, left>>
          \/ status' = [status EXCEPT ![q] = 0] /\ left' = [left EXCEPT ![q] = 0]
      BY <1>12 DEF ExitNext, Dies
    <3> QED BY <3>1, PutTyped
  <2>3. cmdPipe' \in [Pid -> Seq(Messages)]
    <3>1. UNCHANGED cmdPipe \/ cmdPipe' = [cmdPipe EXCEPT ![q] = <<>>]
      BY <1>12 DEF ExitNext, Dies
    <3> QED BY <3>1, PutTyped
  <2>4. writers' \in [Pid -> SUBSET (Pid \cup {Dispatcher})]
    <3>1. \/ UNCHANGED writers
          \/ writers' = [writers EXCEPT ![q] = @ \ {Dispatcher}]
          \/ writers' = [x \in Pid |-> writers[x] \ IF x = q THEN {q, Dispatcher} ELSE {q}]
      BY <1>12 DEF ExitNext
    <3> QED BY <3>1
  <2>5. i' \in 0..MAX_DRIVERS /\ pc' = "exit"
        /\ UNCHANGED <<drivers, driver_count, cmd, idx, ansPipe>>
    BY <1>12 DEF ExitNext
  <2> QED BY <2>1, <2>2, <2>3, <2>4, <2>5
<1>13. ASSUME NEW p \in Pid, DriverStep(p) PROVE TypeInv'
  <2>1. CASE StartDriver(p)
    BY <2>1 DEF StartDriver, ClosesOwnWriteEnd
  <2>2. CASE EnterSelect(p) \/ TaskTimeout(p)
    BY <2>2 DEF EnterSelect, TaskTimeout
  <2>3. CASE AnswerCommand(p)
    <3>1. Head(cmdPipe[p]) \in Messages
      BY <2>3 DEF AnswerCommand
    <3>2. left' \in [Pid -> Nat]
      <4>1. Head(cmdPipe[p]).time \in Int
        BY <3>1 DEF Messages
      <4>2. \A t \in Int : (IF t > 0 THEN t ELSE 0) \in Nat
        OBVIOUS
      <4>3. \/ UNCHANGED left
            \/ \E n \in Nat : left' = [left EXCEPT ![p] = n]
        BY <2>3, <4>1, <4>2 DEF AnswerCommand
      <4> QED BY <4>3
    <3>3. /\ \A a \in Answers : Append(ansPipe[p], a) \in Seq(Answers)
          /\ ansPipe[p] \o Refusal \in Seq(Answers)
      BY DEF Refusal, Answers
    <3>4. ansPipe' \in [Pid -> Seq(Answers)]
      BY <2>3, <3>3 DEF AnswerCommand, Answers
    <3>5. cmdPipe' \in [Pid -> Seq(Messages)]
      BY <2>3 DEF AnswerCommand
    <3>6. status' \in [Pid -> {0, 1}]
      <4>1. UNCHANGED status \/ status' = [status EXCEPT ![p] = 1]
        BY <2>3 DEF AnswerCommand
      <4> QED BY <4>1
    <3>7. /\ proc' = [proc EXCEPT ![p] = "loop"]
          /\ UNCHANGED <<drivers, driver_count, pc, cmd, i, idx, writers>>
      BY <2>3 DEF AnswerCommand
    <3> QED BY <3>2, <3>4, <3>5, <3>6, <3>7
  <2>4. CASE CommandPipeClosed(p)
    BY <2>4 DEF CommandPipeClosed, Dies
  <2> QED BY <1>13, <2>1, <2>2, <2>3, <2>4 DEF DriverStep
<1>14. ASSUME NEW p \in Pid, KillDriver(p) \/ InitReaps(p) PROVE TypeInv'
  <2>1. CASE KillDriver(p)
    <3>1. cmdPipe' \in [Pid -> Seq(Messages)]
      BY <2>1 DEF KillDriver, Dies
    <3> QED BY <2>1, <3>1 DEF KillDriver, Dies
  <2>2. CASE InitReaps(p)
    BY <2>2 DEF InitReaps
  <2> QED BY <1>14, <2>1, <2>2
<1>15. CASE Tick
  BY <1>15 DEF Tick
<1>16. CASE Finished \/ UNCHANGED vars
  BY <1>16 DEF Finished, vars
<1> QED
  BY <1>1, <1>2, <1>3, <1>4, <1>5, <1>6, <1>7, <1>8, <1>9, <1>10, <1>11, <1>12, <1>13,
     <1>14, <1>15, <1>16 DEF Next, DispatcherStep

\* Every variable keeps its type, whatever the users type and whoever dies.
THEOREM TypeCorrect == Spec => []TypeOK
<1>1. TypeInv => TypeOK
  BY DEF TypeInv
<1> QED BY <1>1, TypeInit, TypeStep, PTL DEF Spec

-----------------------------------------------------------------------------
(* The drivers table.  ChildrenInSlots and NoShadow need each other:     *)
(* waitpid's pid leads cleanup_zombies to the active slot only if no stale  *)
(* slot before it has that pid, and create_driver makes no stale slot       *)
(* dangerous only because it fills the first free slot and because the pid  *)
(* fork returns is no tracked child's.                                      *)

SlotInv == ChildrenInSlots /\ NoShadow

LEMMA SlotInit == Init => SlotInv
BY MaxDriversAssumption
   DEF Init, SlotInv, ChildrenInSlots, NoShadow, Slot, Used, Stopped

\* Steps that leave the table alone and reap nobody keep both.
LEMMA QuietStep ==
  ASSUME SlotInv, UNCHANGED <<drivers, driver_count>>,
         \A p \in Pid : proc'[p] = "none" <=> proc[p] = "none",
         pc \in Stopped => pc' \in Stopped
  PROVE  SlotInv'
BY DEF SlotInv, ChildrenInSlots, NoShadow, Slot, Used, Stopped

LEMMA ReapStep ==
  ASSUME TypeInv, SlotInv, NEW p \in Pid, Reap(p)
  PROVE  SlotInv'
<1> USE MaxDriversAssumption, PidAssumption DEF Slot, Used
<1>1. pc \notin Stopped /\ proc[p] = "zombie" /\ pc' = pc /\ driver_count' = driver_count
  BY DEF Reap, Stopped, control
<1>2. proc' = [proc EXCEPT ![p] = "none"] /\ proc \in [Pid -> {"none", "start", "loop", "select", "zombie"}]
  BY DEF Reap, TypeInv, TypeOK
<1>3. driver_count \in 0..MAX_DRIVERS /\ drivers \in [Slot -> [pid : Pid \cup {NoPid}, active : BOOLEAN]]
  BY DEF TypeInv, TypeOK
<1>4. PICK t \in Used : drivers[t].active /\ drivers[t].pid = p
  BY <1>1 DEF SlotInv, ChildrenInSlots
<1>5. \A r \in 0..t - 1 : drivers[r].pid # p
  BY <1>1, <1>4 DEF SlotInv, NoShadow
<1>6. \A s \in Used : FirstWithPid(p, s) => s = t
  BY <1>3, <1>4, <1>5 DEF FirstWithPid
<1>7. drivers' = [drivers EXCEPT ![t].active = FALSE]
  BY <1>4, <1>6 DEF Reap
<1>8. \A s \in Slot : /\ drivers'[s].pid = drivers[s].pid
                      /\ drivers'[s].active <=> drivers[s].active /\ s # t
  BY <1>3, <1>7
<1>9. \A s \in Slot : drivers[s].active /\ drivers[s].pid = p => s = t
  \* Two active slots never have one pid.
  <2> SUFFICES ASSUME NEW s \in Slot, drivers[s].active, drivers[s].pid = p, s # t
               PROVE FALSE
    OBVIOUS
  <2>1. s \in Used
    BY <1>1 DEF SlotInv, ChildrenInSlots
  <2>2. s < t \/ t < s
    BY <1>3, <1>4, <2>1
  <2>3. CASE s < t
    BY <2>3, <2>1, <1>5, <1>3
  <2>4. CASE t < s
    BY <2>4, <2>1, <1>1, <1>3, <1>4 DEF SlotInv, NoShadow
  <2> QED BY <2>2, <2>3, <2>4
<1>10. ChildrenInSlots'
  <2>1. ASSUME NEW s \in Slot, drivers'[s].active
        PROVE  s \in Used' /\ drivers'[s].pid \in Pid /\ proc'[drivers'[s].pid] # "none"
    <3>1. drivers[s].active /\ s # t /\ drivers'[s].pid = drivers[s].pid
      BY <2>1, <1>8
    <3>2. drivers[s].pid # p
      BY <3>1, <1>9
    <3> QED BY <3>1, <3>2, <1>1, <1>2 DEF SlotInv, ChildrenInSlots
  <2>2. ASSUME NEW q \in Pid, proc'[q] # "none"
        PROVE  \E s \in Used' : drivers'[s].active /\ drivers'[s].pid = q
    <3>1. q # p /\ proc[q] # "none"
      BY <2>2, <1>2
    <3>2. PICK s \in Used : drivers[s].active /\ drivers[s].pid = q
      BY <3>1, <1>1 DEF SlotInv, ChildrenInSlots
    <3>3. s \in Slot /\ s # t
      BY <3>1, <3>2, <1>3, <1>4
    <3> QED BY <3>2, <3>3, <1>8, <1>1
  <2> QED BY <2>1, <2>2 DEF ChildrenInSlots
<1>11. NoShadow'
  <2> SUFFICES ASSUME NEW s \in Used, NEW r \in 0..s - 1, drivers'[s].active
               PROVE  drivers'[r].pid # drivers'[s].pid
    BY <1>1 DEF NoShadow
  <2>1. s \in Slot /\ r \in Slot
    BY <1>3
  <2> QED BY <2>1, <1>8, <1>1 DEF SlotInv, NoShadow
<1> QED BY <1>10, <1>11 DEF SlotInv

LEMMA CreateStep ==
  ASSUME TypeInv, SlotInv, NEW p \in Pid, CreateDriver(p)
  PROVE  SlotInv'
<1> USE MaxDriversAssumption, PidAssumption DEF Slot, Used
<1>1. pc = "exec" /\ proc[p] = "none" /\ pc \notin Stopped
  BY DEF CreateDriver, Stopped
<1>2. proc' = [proc EXCEPT ![p] = "start"] /\ proc \in [Pid -> {"none", "start", "loop", "select", "zombie"}]
  BY DEF CreateDriver, TypeInv, TypeOK
<1>3. driver_count \in 0..MAX_DRIVERS /\ drivers \in [Slot -> [pid : Pid \cup {NoPid}, active : BOOLEAN]]
  BY DEF TypeInv, TypeOK
<1>4. PICK t \in Slot : /\ SlotForNew(t)
                        /\ driver_count' = IF t = driver_count THEN t + 1 ELSE driver_count
                        /\ drivers' = [drivers EXCEPT ![t] = [pid |-> p, active |-> TRUE]]
  BY DEF CreateDriver, TakeSlot
<1>5. \A s \in Slot : drivers[s].active => s \in Used /\ drivers[s].pid # p
  BY <1>1 DEF SlotInv, ChildrenInSlots
<1>6. /\ ~drivers[t].active
      /\ \A r \in 0..t - 1 : drivers[r].active
  BY <1>4, <1>5, <1>3 DEF SlotForNew
<1>7. Used \subseteq Used' /\ t \in Used' /\ Used' \subseteq Used \cup {t} /\ Used' \subseteq Slot
  BY <1>3, <1>4 DEF SlotForNew
<1>8. ChildrenInSlots'
  <2>1. ASSUME NEW s \in Slot, drivers'[s].active
        PROVE  s \in Used' /\ drivers'[s].pid \in Pid /\ proc'[drivers'[s].pid] # "none"
    <3>1. CASE s = t
      BY <3>1, <1>2, <1>3, <1>4, <1>7
    <3>2. CASE s # t
      <4>1. drivers'[s] = drivers[s]
        BY <3>2, <1>3, <1>4
      <4> QED BY <4>1, <2>1, <1>1, <1>2, <1>5, <1>7 DEF SlotInv, ChildrenInSlots
    <3> QED BY <3>1, <3>2
  <2>2. ASSUME NEW q \in Pid, proc'[q] # "none"
        PROVE  \E s \in Used' : drivers'[s].active /\ drivers'[s].pid = q
    <3>1. CASE q = p
      BY <3>1, <1>3, <1>4, <1>7
    <3>2. CASE q # p
      <4>1. PICK s \in Used : drivers[s].active /\ drivers[s].pid = q
        BY <3>2, <2>2, <1>1, <1>2 DEF SlotInv, ChildrenInSlots
      <4>2. s # t /\ s \in Slot /\ s \in Used'
        BY <4>1, <1>3, <1>6, <1>7
      <4> QED BY <4>1, <4>2, <1>3, <1>4
    <3> QED BY <3>1, <3>2
  <2> QED BY <2>1, <2>2 DEF ChildrenInSlots
<1>9. NoShadow'
  <2> SUFFICES ASSUME NEW s \in Used', NEW r \in 0..s - 1, drivers'[s].active
               PROVE  drivers'[r].pid # drivers'[s].pid
    BY DEF NoShadow
  <2>1. s \in Slot /\ r \in Slot /\ r # s
    BY <1>7
  <2>2. CASE s = t
    BY <2>2, <2>1, <1>3, <1>4, <1>5, <1>6
  <2>3. CASE s # t /\ r = t
    BY <2>3, <2>1, <1>3, <1>4, <1>5
  <2>4. CASE s # t /\ r # t
    BY <2>4, <2>1, <1>1, <1>3, <1>4, <1>7 DEF SlotInv, NoShadow
  <2> QED BY <2>2, <2>3, <2>4
<1> QED BY <1>8, <1>9 DEF SlotInv

LEMMA IntervalGrows ==
  ASSUME NEW a \in Int, NEW b \in Int, a <= b
  PROVE  0..a - 1 \subseteq 0..b - 1
<1> SUFFICES ASSUME NEW k \in 0..a - 1 PROVE k \in 0..b - 1
  OBVIOUS
<1> QED OBVIOUS

LEMMA CreateFailsStep ==
  ASSUME TypeInv, SlotInv, CreateFails
  PROVE  SlotInv'
<1> USE MaxDriversAssumption DEF Slot, Used
<1>1. pc \notin Stopped /\ UNCHANGED <<drivers, proc>>
  BY DEF CreateFails, Stopped
<1>2. driver_count \in 0..MAX_DRIVERS
  BY DEF TypeInv, TypeOK
<1>3. driver_count' \in {driver_count, driver_count + 1}
  BY DEF CreateFails, TakeSlot
<1>4. \A s \in Slot : drivers[s].active => s \in Used
  BY <1>1 DEF SlotInv, ChildrenInSlots
<1>5. driver_count' \in 0..MAX_DRIVERS
  BY <1>2 DEF CreateFails, SlotForNew, TakeSlot
<1>8. Used \subseteq Used' /\ Used' \subseteq Slot /\ UNCHANGED Slot
  <2>1. driver_count <= driver_count' /\ driver_count' <= MAX_DRIVERS
        /\ driver_count \in Int /\ driver_count' \in Int /\ MAX_DRIVERS \in Int
    BY <1>2, <1>3, <1>5
  <2>2. 0..driver_count - 1 \subseteq 0..driver_count' - 1
    BY <2>1, IntervalGrows
  <2>3. 0..driver_count' - 1 \subseteq 0..MAX_DRIVERS - 1
    BY <2>1, IntervalGrows
  <2> QED BY <2>2, <2>3
<1> HIDE DEF Slot, Used
<1>6. ChildrenInSlots'
  <2>1. \A s \in Slot : drivers'[s].active =>
          s \in Used' /\ drivers'[s].pid \in Pid /\ proc'[drivers'[s].pid] # "none"
    BY <1>1, <1>4, <1>8 DEF SlotInv, ChildrenInSlots
  <2>2. ASSUME NEW q \in Pid, proc'[q] # "none"
        PROVE  \E s \in Used' : drivers'[s].active /\ drivers'[s].pid = q
    <3>1. PICK s \in Used : drivers[s].active /\ drivers[s].pid = q
      BY <2>2, <1>1 DEF SlotInv, ChildrenInSlots
    <3> QED BY <3>1, <1>1, <1>8
  <2> QED BY <2>1, <2>2, <1>8 DEF ChildrenInSlots
<1>7. NoShadow'
  <2> SUFFICES ASSUME NEW s \in Used', NEW r \in 0..s - 1, drivers'[s].active
               PROVE  drivers'[r].pid # drivers'[s].pid
    BY DEF NoShadow
  <2>1. s \in Used
    BY <1>1, <1>4, <1>8
  <2> QED BY <2>1, <1>1 DEF SlotInv, NoShadow
<1> QED BY <1>6, <1>7 DEF SlotInv

LEMMA SlotStep == TypeInv /\ SlotInv /\ [Next]_vars => SlotInv'
<1> SUFFICES ASSUME TypeInv, SlotInv, [Next]_vars PROVE SlotInv'
  OBVIOUS
<1> DEFINE Quiet == /\ UNCHANGED <<drivers, driver_count>>
                    /\ \A p \in Pid : proc'[p] = "none" <=> proc[p] = "none"
                    /\ pc \in Stopped => pc' \in Stopped
<1>0. proc \in [Pid -> {"none", "start", "loop", "select", "zombie"}]
  BY DEF TypeInv, TypeOK
<1> USE DEF table, control, clocks, pipes, Stopped, ToPrompt, Stops
<1>1. CASE ReadCommand \/ EndOfInput \/ CleanupDone \/ OtherCommand \/ CreateWhenFull
           \/ DriverNotFound \/ DriverFound \/ ListDone
  <2>1. Quiet
    BY <1>1 DEF ReadCommand, EndOfInput, CleanupDone, OtherCommand, CreateWhenFull,
                DriverNotFound, DriverFound, ListDone
  <2> QED BY <2>1, QuietStep
<1>2. ASSUME NEW p \in Pid, Reap(p) PROVE SlotInv'
  BY <1>2, ReapStep
<1>3. CASE CreateFails
  BY <1>3, CreateFailsStep
<1>4. ASSUME NEW p \in Pid, CreateDriver(p) PROVE SlotInv'
  BY <1>4, CreateStep
<1>5. CASE ListNext \/ SendMessage \/ ReadAnswer \/ ExitDone \/ Tick \/ Finished \/ UNCHANGED vars
  <2>1. Quiet
    BY <1>5 DEF ListNext, SendMessage, ReadAnswer, ExitDone, Tick, Finished, vars
  <2> QED BY <2>1, QuietStep
<1>6. CASE ExitNext
  <2>1. Quiet
    BY <1>6, <1>0 DEF ExitNext, Dies, Alive
  <2> QED BY <2>1, QuietStep
<1>7. ASSUME NEW p \in Pid, DriverStep(p) \/ KillDriver(p) PROVE SlotInv'
  <2>1. Quiet
    BY <1>7, <1>0 DEF DriverStep, StartDriver, ClosesOwnWriteEnd, EnterSelect, TaskTimeout, AnswerCommand,
                      CommandPipeClosed, KillDriver, Dies, Alive
  <2> QED BY <2>1, QuietStep
<1>8. ASSUME NEW p \in Pid, InitReaps(p) PROVE SlotInv'
  BY <1>8 DEF InitReaps, SlotInv, ChildrenInSlots, NoShadow
<1> QED
  BY <1>1, <1>2, <1>3, <1>4, <1>5, <1>6, <1>7, <1>8 DEF Next, DispatcherStep

\* For any pids and any table size, and however children die and pids are
\* given again: every active slot is an unreaped child, and every unreaped
\* child has an active slot (create_driver, cleanup_zombies).
THEOREM SlotsCorrect == Spec => []SlotsTrackChildren
<1>1. TypeInv /\ SlotInv => SlotsTrackChildren
  BY MaxDriversAssumption DEF TypeInv, TypeOK, SlotInv, SlotsTrackChildren
<1> QED BY <1>1, TypeInit, TypeStep, SlotInit, SlotStep, PTL DEF Spec

\* ... and the search by pid alone in cleanup_zombies meets the active slot
\* first.
THEOREM NoShadowCorrect == Spec => []NoShadow
<1>1. SlotInv => NoShadow
  BY DEF SlotInv
<1> QED BY <1>1, TypeInit, TypeStep, SlotInit, SlotStep, PTL DEF Spec

-----------------------------------------------------------------------------
(* Descriptors.                                                            *)

LEMMA PipeHeldStep == TypeInv /\ PipeHeldOpen /\ [Next]_vars => PipeHeldOpen'
<1> SUFFICES ASSUME TypeInv, PipeHeldOpen, [Next]_vars PROVE PipeHeldOpen'
  OBVIOUS
<1>0. /\ proc \in [Pid -> {"none", "start", "loop", "select", "zombie"}]
      /\ writers \in [Pid -> SUBSET (Pid \cup {Dispatcher})]
  BY DEF TypeInv, TypeOK
<1> USE PidAssumption DEF PipeHeldOpen, table, control, clocks, pipes, Stopped, ToPrompt, Stops
<1>1. CASE ReadCommand \/ EndOfInput \/ CleanupDone \/ OtherCommand \/ CreateWhenFull
           \/ CreateFails \/ DriverNotFound \/ DriverFound \/ ListDone
  BY <1>1 DEF ReadCommand, EndOfInput, CleanupDone, OtherCommand, CreateWhenFull,
              CreateFails, DriverNotFound, DriverFound, ListDone
<1>2. ASSUME NEW p \in Pid, Reap(p) PROVE PipeHeldOpen'
  <2>1. \A q \in Pid \ {p} : writers'[q] = writers[q] /\ proc'[q] = proc[q]
    BY <1>2, <1>0 DEF Reap, FirstWithPid
  <2>2. proc'[p] = "none" /\ pc' = pc /\ pc = "cleanup"
    BY <1>2, <1>0 DEF Reap
  <2> QED BY <2>1, <2>2
<1>3. ASSUME NEW p \in Pid, CreateDriver(p) PROVE PipeHeldOpen'
  BY <1>3, <1>0 DEF CreateDriver
<1>4. CASE ListNext \/ SendMessage \/ ReadAnswer
  BY <1>4 DEF ListNext, SendMessage, ReadAnswer
<1>5. CASE ExitNext \/ ExitDone \/ Tick \/ Finished \/ UNCHANGED vars
  BY <1>5 DEF ExitNext, ExitDone, Tick, Finished, vars
<1>6. ASSUME NEW p \in Pid, DriverStep(p) \/ KillDriver(p) PROVE PipeHeldOpen'
  <2>1. \A q \in Pid : /\ proc'[q] = "none" <=> proc[q] = "none"
                       /\ Dispatcher \in writers[q] => Dispatcher \in writers'[q]
    BY <1>6, <1>0 DEF DriverStep, StartDriver, ClosesOwnWriteEnd, EnterSelect, TaskTimeout, AnswerCommand,
                      CommandPipeClosed, KillDriver, Dies, Alive
  <2>2. pc' = pc
    BY <1>6 DEF DriverStep, StartDriver, ClosesOwnWriteEnd, EnterSelect, TaskTimeout, AnswerCommand,
                CommandPipeClosed, KillDriver
  <2> QED BY <2>1, <2>2
<1>7. ASSUME NEW p \in Pid, InitReaps(p) PROVE PipeHeldOpen'
  BY <1>7 DEF InitReaps
<1> QED
  BY <1>1, <1>2, <1>3, <1>4, <1>5, <1>6, <1>7 DEF Next, DispatcherStep

\* The dispatcher never lets go of the command pipe of a driver that it has
\* not reaped, until it exits.
THEOREM PipesCorrect == Spec => []PipeHeldOpen
<1>1. Init => PipeHeldOpen
  BY DEF Init, PipeHeldOpen
<1> QED BY <1>1, TypeInit, TypeStep, PipeHeldStep, PTL DEF Spec

-----------------------------------------------------------------------------
(* Calls and tasks.                                                        *)

\* A process that is gone has no task and no bytes to read.
DeadInv == \A p \in Pid : ~Alive(p) => cmdPipe[p] = <<>> /\ status[p] = 0

Called(p) == pc = "read" /\ drivers[idx].pid = p

\* Lockstep, with what is in the pipes written out: nothing, or the message or
\* the answer of the call at work.
CallInv ==
  \A p \in Pid :
    \/ cmdPipe[p] = <<>> /\ ansPipe[p] = <<>> /\ (Called(p) => ~Alive(p))
    \/ Called(p) /\ Len(cmdPipe[p]) = 1 /\ ansPipe[p] = <<>>
    \/ Called(p) /\ cmdPipe[p] = <<>> /\ Len(ansPipe[p]) = 1

PipeTypes ==
  /\ proc \in [Pid -> {"none", "start", "loop", "select", "zombie"}]
  /\ status \in [Pid -> {0, 1}] /\ left \in [Pid -> Nat]
  /\ cmdPipe \in [Pid -> Seq(Messages)] /\ ansPipe \in [Pid -> Seq(Answers)]

LEMMA DeadStep == PipeTypes /\ DeadInv /\ [Next]_vars => DeadInv'
<1> SUFFICES ASSUME PipeTypes, DeadInv, [Next]_vars PROVE DeadInv'
  OBVIOUS
<1> USE DEF PipeTypes, DeadInv, Alive, table, control, clocks, pipes
<1>1. ASSUME UNCHANGED <<proc, status, cmdPipe>> PROVE DeadInv'
  BY <1>1
<1>2. CASE ReadCommand \/ EndOfInput \/ CleanupDone \/ OtherCommand \/ CreateWhenFull
           \/ CreateFails \/ DriverNotFound \/ DriverFound \/ ListNext \/ ListDone
           \/ ReadAnswer \/ ExitDone \/ Tick \/ Finished \/ UNCHANGED vars
  BY <1>1, <1>2 DEF ReadCommand, EndOfInput, CleanupDone, OtherCommand, CreateWhenFull,
       CreateFails, DriverNotFound, DriverFound, ListNext, ListDone, ReadAnswer, ExitDone, Tick,
       Finished, vars
<1>3. CASE SendMessage
  BY <1>3 DEF SendMessage
<1>4. CASE ExitNext
  BY <1>4 DEF ExitNext, Dies
<1>5. ASSUME NEW p \in Pid, Reap(p) \/ CreateDriver(p) \/ InitReaps(p) PROVE DeadInv'
  BY <1>5 DEF Reap, CreateDriver, InitReaps
<1>6. ASSUME NEW p \in Pid, KillDriver(p) \/ CommandPipeClosed(p) PROVE DeadInv'
  BY <1>6 DEF KillDriver, CommandPipeClosed, Dies
<1>7. ASSUME NEW p \in Pid, StartDriver(p) \/ EnterSelect(p) \/ TaskTimeout(p) PROVE DeadInv'
  BY <1>7 DEF StartDriver, EnterSelect, TaskTimeout
<1>8. ASSUME NEW p \in Pid, AnswerCommand(p) PROVE DeadInv'
  BY <1>8 DEF AnswerCommand
<1> QED
  BY <1>2, <1>3, <1>4, <1>5, <1>6, <1>7, <1>8 DEF Next, DispatcherStep, DriverStep

LEMMA CallStep == PipeTypes /\ DeadInv /\ CallInv /\ [Next]_vars => CallInv'
<1> SUFFICES ASSUME PipeTypes, DeadInv, CallInv, [Next]_vars PROVE CallInv'
  OBVIOUS
<1> USE DEF PipeTypes, CallInv, Called, Alive, table, control, clocks, pipes
\* Outside of a call nothing is in the pipes, and nothing is put there.
<1>1. ASSUME pc # "read", pc' # "read", UNCHANGED <<cmdPipe, ansPipe>> PROVE CallInv'
  BY <1>1
<1>2. CASE ReadCommand \/ EndOfInput \/ CleanupDone \/ OtherCommand \/ CreateWhenFull
           \/ CreateFails \/ DriverNotFound \/ DriverFound \/ ListNext \/ ListDone \/ ExitDone
  BY <1>1, <1>2 DEF ReadCommand, EndOfInput, CleanupDone, OtherCommand, CreateWhenFull,
       CreateFails, DriverNotFound, DriverFound, ListNext, ListDone, ExitDone, ToPrompt, Stops
<1>3. CASE SendMessage
  <2> DEFINE q == drivers[idx].pid
  <2>1. pc = "write" /\ UNCHANGED <<table, proc, ansPipe>>
    BY <1>3 DEF SendMessage
  <2>2. CASE Alive(q)
    <3>1. PICK m : cmdPipe' = [cmdPipe EXCEPT ![q] = Append(@, m)] /\ pc' = "read" /\ UNCHANGED idx
      BY <1>3, <2>2 DEF SendMessage
    <3>2. Len(Append(<<>>, m)) = 1
      OBVIOUS
    <3> QED BY <2>1, <3>1, <3>2
  <2>3. CASE ~Alive(q)
    BY <1>1, <1>3, <2>1, <2>3 DEF SendMessage, Stops
  <2> QED BY <2>2, <2>3
<1>4. CASE ReadAnswer
  <2> DEFINE q == drivers[idx].pid
  <2>1. /\ pc = "read" /\ pc' # "read" /\ AnswerReady(q) /\ UNCHANGED <<proc, cmdPipe>>
        /\ ansPipe' = [ansPipe EXCEPT ![q] = <<>>]
    BY <1>4 DEF ReadAnswer, ToPrompt
  <2>2. q \in Pid => cmdPipe[q] = <<>>
    BY <2>1 DEF AnswerReady, DeadInv
  <2> QED BY <2>1, <2>2
<1>5. ASSUME NEW p \in Pid, AnswerCommand(p) PROVE CallInv'
  <2>1. cmdPipe[p] # <<>> /\ Called(p) /\ Len(cmdPipe[p]) = 1 /\ ansPipe[p] = <<>>
    BY <1>5 DEF AnswerCommand
  <2>2. /\ UNCHANGED <<table, control>> /\ cmdPipe' = [cmdPipe EXCEPT ![p] = <<>>]
        /\ \/ \E a : ansPipe' = [ansPipe EXCEPT ![p] = Append(@, a)]
           \/ ansPipe' = [ansPipe EXCEPT ![p] = @ \o <<"Busy">>]
        /\ proc' = [proc EXCEPT ![p] = "loop"]
    BY <1>5 DEF AnswerCommand, Refusal
  <2>3. /\ \A a : Len(Append(<<>>, a)) = 1
        /\ Len(<<>> \o <<"Busy">>) = 1
    OBVIOUS
  <2>4. Len(ansPipe'[p]) = 1 /\ cmdPipe'[p] = <<>>
    BY <2>1, <2>2, <2>3
  <2>5. \A q \in Pid : q # p => cmdPipe'[q] = cmdPipe[q] /\ ansPipe'[q] = ansPipe[q]
                                /\ proc'[q] = proc[q]
    BY <2>2
  <2> QED BY <2>1, <2>2, <2>4, <2>5
\* Whoever dies takes the message along; the answer stays.
<1>6. ASSUME NEW p \in Pid, KillDriver(p) \/ CommandPipeClosed(p) PROVE CallInv'
  BY <1>6 DEF KillDriver, CommandPipeClosed, Dies
<1>7. CASE ExitNext
  BY <1>7 DEF ExitNext, Dies
<1>8. ASSUME NEW p \in Pid, CreateDriver(p) PROVE CallInv'
  BY <1>8 DEF CreateDriver, ToPrompt
<1>9. ASSUME NEW p \in Pid,
             StartDriver(p) \/ EnterSelect(p) \/ TaskTimeout(p) \/ InitReaps(p)
      PROVE  CallInv'
  <2>1. UNCHANGED <<table, control, cmdPipe, ansPipe>> /\ \A q \in Pid : Alive(q)' => Alive(q)
    BY <1>9 DEF StartDriver, EnterSelect, TaskTimeout, InitReaps
  <2> QED BY <2>1
<1>10. CASE \E p \in Pid : Reap(p)
  BY <1>1, <1>10 DEF Reap
<1>11. CASE Tick \/ Finished \/ UNCHANGED vars
  BY <1>11 DEF Tick, Finished, vars
<1> QED
  BY <1>2, <1>3, <1>4, <1>5, <1>6, <1>7, <1>8, <1>9, <1>10, <1>11
     DEF Next, DispatcherStep, DriverStep

LEMMA CallAlways == Spec => [](PipeTypes /\ DeadInv /\ CallInv)
<1>1. Init => DeadInv /\ CallInv
  BY DEF Init, DeadInv, CallInv, Called
<1>2. TypeOK => PipeTypes
  BY DEF TypeOK, PipeTypes
<1> QED BY <1>1, <1>2, TypeCorrect, DeadStep, CallStep, PTL DEF Spec

\* At most one message or answer is on the way and it is that of the call at
\* work: no call reads what an earlier one has left.
THEOREM LockstepCorrect == Spec => []Lockstep
<1>1. PipeTypes /\ DeadInv /\ CallInv => Lockstep
  <2> SUFFICES ASSUME PipeTypes, DeadInv, CallInv, NEW p \in Pid
               PROVE  LET n == Len(cmdPipe[p]) + Len(ansPipe[p])
                      IN IF Called(p) THEN n <= 1 /\ (Alive(p) => n = 1) ELSE n = 0
    BY DEF Lockstep, Called
  <2>1. Len(<<>>) = 0
    OBVIOUS
  <2> DEFINE c == Len(cmdPipe[p])
             a == Len(ansPipe[p])
  <2>2. \/ c = 0 /\ a = 0 /\ (Called(p) => ~Alive(p))
        \/ Called(p) /\ c = 1 /\ a = 0
        \/ Called(p) /\ c = 0 /\ a = 1
    BY <2>1 DEF CallInv
  <2> HIDE DEF c, a
  <2>3. IF Called(p) THEN c + a <= 1 /\ (Alive(p) => c + a = 1) ELSE c + a = 0
    BY <2>2
  <2> QED BY <2>3 DEF c, a
<1> QED BY <1>1, CallAlways, PTL

\* An accepted task ends by time or by death only: a driver that is busy takes
\* no other one, and neither does its pid for as long as it has the task.
THEOREM TaskCorrect == Spec => TaskRunsToItsEnd
<1> DEFINE P == \A p \in Pid :
                  status[p] = 1 /\ left[p] > 0 =>
                    \/ proc'[p] = "zombie"
                    \/ status'[p] = 1 /\ left'[p] \in {left[p], left[p] - 1}
<1>1. ASSUME PipeTypes, DeadInv, [Next]_vars PROVE P
  <2> SUFFICES ASSUME NEW p \in Pid, status[p] = 1, left[p] > 0
               PROVE  \/ proc'[p] = "zombie"
                      \/ status'[p] = 1 /\ left'[p] \in {left[p], left[p] - 1}
    OBVIOUS
  <2> USE <1>1 DEF PipeTypes, table, control, clocks, pipes
  <2>1. Alive(p)
    BY DEF DeadInv
  <2>2. ASSUME UNCHANGED clocks PROVE status'[p] = 1 /\ left'[p] = left[p]
    BY <2>2
  <2>3. CASE ReadCommand \/ EndOfInput \/ CleanupDone \/ OtherCommand \/ CreateWhenFull
             \/ CreateFails \/ DriverNotFound \/ DriverFound \/ ListNext \/ ListDone
             \/ SendMessage \/ ReadAnswer \/ ExitDone \/ Finished \/ UNCHANGED vars
    BY <2>2, <2>3 DEF ReadCommand, EndOfInput, CleanupDone, OtherCommand, CreateWhenFull,
         CreateFails, DriverNotFound, DriverFound, ListNext, ListDone, SendMessage, ReadAnswer,
         ExitDone, Finished, vars
  <2>4. CASE \E q \in Pid : Reap(q) \/ InitReaps(q) \/ StartDriver(q)
    BY <2>2, <2>4 DEF Reap, InitReaps, StartDriver
  <2>5. ASSUME NEW q \in Pid, CreateDriver(q) PROVE status'[p] = 1 /\ left'[p] = left[p]
    BY <2>1, <2>5 DEF CreateDriver, Alive
  <2>6. ASSUME NEW q \in Pid, EnterSelect(q) \/ TaskTimeout(q)
        PROVE  status'[p] = 1 /\ left'[p] = left[p]
    BY <2>6 DEF EnterSelect, TaskTimeout
  <2>7. ASSUME NEW q \in Pid, AnswerCommand(q) PROVE status'[p] = 1 /\ left'[p] = left[p]
    BY <2>7 DEF AnswerCommand, Accepts
  <2>8. ASSUME NEW q \in Pid, KillDriver(q) \/ CommandPipeClosed(q)
        PROVE  proc'[p] = "zombie" \/ (status'[p] = 1 /\ left'[p] = left[p])
    BY <2>8 DEF KillDriver, CommandPipeClosed, Dies
  <2>9. CASE ExitNext
    BY <2>9 DEF ExitNext, Dies
  <2>10. CASE Tick
    BY <2>10 DEF Tick
  <2> QED
    BY <2>3, <2>4, <2>5, <2>6, <2>7, <2>8, <2>9, <2>10, <1>1 DEF Next, DispatcherStep, DriverStep
<1>2. PipeTypes /\ DeadInv /\ [Next]_vars => [P]_vars
  BY <1>1
<1> QED BY <1>2, CallAlways, PTL DEF Spec, TaskRunsToItsEnd

-----------------------------------------------------------------------------
(* Where the dispatcher and its drivers come to rest.                      *)

\* The drivers that hold p's end besides p: they were forked after p.
Later(p) == writers[p] \ {Dispatcher, p}

\* Who holds an end is alive; who was forked after one of p's later drivers
\* was forked after p; only a driver that starts has its own end; a dispatcher
\* that is gone has none.
ForkInv ==
  \A p \in Pid :
    /\ \A q \in writers[p] \ {Dispatcher} : Alive(q)
    /\ Alive(p) => \A q \in Later(p) : Later(q) \subseteq Later(p)
    /\ proc[p] # "start" => p \notin writers[p]
    /\ pc \in Stopped => Dispatcher \notin writers[p]
    /\ IsFiniteSet(Later(p))

\* A call is made to a child.
CalledInv == pc \in {"write", "read"} => drivers[idx].pid \in Pid

LEMMA ForkInit == Init => ForkInv /\ CalledInv
<1> SUFFICES ASSUME Init PROVE ForkInv /\ CalledInv
  OBVIOUS
<1>1. \A p \in Pid : Later(p) = {} /\ writers[p] = {} /\ ~Alive(p)
  BY DEF Init, Later, Alive
<1>2. IsFiniteSet({})
  BY FS_EmptySet
<1> QED BY <1>1, <1>2 DEF ForkInv, CalledInv, Init, Stopped

\* Ends are closed by processes that are gone, or by the dispatcher.
LEMMA EndsClosed ==
  ASSUME ForkInv, NEW gone \in SUBSET Pid,
         \A q \in Pid : writers'[q] \ {Dispatcher} = (writers[q] \ {Dispatcher}) \ gone,
         \A q \in Pid : Alive(q)' <=> Alive(q) /\ q \notin gone,
         \A q \in Pid : proc'[q] = "start" <=> proc[q] = "start" /\ q \notin gone,
         pc' \in Stopped => \A q \in Pid : Dispatcher \notin writers'[q],
         writers \in [Pid -> SUBSET (Pid \cup {Dispatcher})]
  PROVE  ForkInv'
<1> SUFFICES ASSUME NEW p \in Pid
             PROVE  /\ \A q \in writers'[p] \ {Dispatcher} : Alive(q)'
                    /\ Alive(p)' => \A q \in Later(p)' : Later(q)' \subseteq Later(p)'
                    /\ proc'[p] # "start" => p \notin writers'[p]
                    /\ pc' \in Stopped => Dispatcher \notin writers'[p]
                    /\ IsFiniteSet(Later(p)')
  BY DEF ForkInv, Later
<1>1. \A q \in Pid : Later(q)' = Later(q) \ gone
  BY DEF Later
<1>2. \A q \in Pid : Later(q) \subseteq Pid
  BY DEF Later
<1>3. \A q \in writers'[p] \ {Dispatcher} : Alive(q)'
  BY DEF ForkInv
<1>4. Alive(p)' => \A q \in Later(p)' : Later(q)' \subseteq Later(p)'
  BY <1>1, <1>2 DEF ForkInv
<1>5. proc'[p] # "start" => p \notin writers'[p]
  BY PidAssumption DEF ForkInv
<1>6. IsFiniteSet(Later(p)')
  <2>1. Later(p)' \subseteq Later(p) /\ IsFiniteSet(Later(p))
    BY <1>1 DEF ForkInv
  <2> QED BY <2>1, FS_Subset
<1> QED BY <1>3, <1>4, <1>5, <1>6

LEMMA StartFork ==
  ASSUME TypeInv, ForkInv, NEW p \in Pid, StartDriver(p)
  PROVE  ForkInv'
<1>1. /\ proc[p] = "start" /\ proc' = [proc EXCEPT ![p] = "loop"] /\ pc' = pc
      /\ writers' = [writers EXCEPT ![p] = @ \ {p}]
      /\ writers \in [Pid -> SUBSET (Pid \cup {Dispatcher})]
      /\ proc \in [Pid -> {"none", "start", "loop", "select", "zombie"}]
  BY DEF StartDriver, ClosesOwnWriteEnd, control, TypeInv, TypeOK
<1>2. /\ proc'[p] = "loop" /\ writers'[p] = writers[p] \ {p}
      /\ \A q \in Pid : q # p => proc'[q] = proc[q] /\ writers'[q] = writers[q]
  BY <1>1
<1>3. \A q \in Pid : Later(q)' = Later(q) /\ Alive(q)' = Alive(q) /\ Later(q) \subseteq Pid
  BY <1>1, <1>2 DEF Later, Alive
<1>4. ASSUME NEW q \in Pid
      PROVE  /\ \A r \in writers'[q] \ {Dispatcher} : Alive(r)'
             /\ Alive(q)' => \A r \in Later(q)' : Later(r)' \subseteq Later(q)'
             /\ proc'[q] # "start" => q \notin writers'[q]
             /\ pc' \in Stopped => Dispatcher \notin writers'[q]
             /\ IsFiniteSet(Later(q)')
  <2>1. \A r \in writers'[q] \ {Dispatcher} : r \in writers[q] \ {Dispatcher} /\ r \in Pid
    BY <1>1, <1>2
  <2>2. \A r \in writers'[q] \ {Dispatcher} : Alive(r)'
    BY <1>3, <2>1 DEF ForkInv
  <2>3. Alive(q)' => \A r \in Later(q)' : Later(r)' \subseteq Later(q)'
    BY <1>3 DEF ForkInv
  <2>4. proc'[q] # "start" => q \notin writers'[q]
    BY <1>2 DEF ForkInv
  <2>5. pc' \in Stopped => Dispatcher \notin writers'[q]
    BY <1>1, <1>2 DEF ForkInv
  <2>6. IsFiniteSet(Later(q)')
    BY <1>3 DEF ForkInv
  <2> QED BY <2>2, <2>3, <2>4, <2>5, <2>6
<1> QED BY <1>4 DEF ForkInv, Later

\* The new driver holds the end of everybody who is alive, and nobody its own.
LEMMA CreateFork ==
  ASSUME TypeInv, ForkInv, PipeHeldOpen, NEW p \in Pid, CreateDriver(p)
  PROVE  ForkInv'
<1>1. /\ pc = "exec" /\ pc' = "prompt" /\ proc[p] = "none" /\ proc' = [proc EXCEPT ![p] = "start"]
      /\ writers' = [q \in Pid |-> IF q = p THEN {Dispatcher, p}
                                   ELSE IF Dispatcher \in writers[q] THEN writers[q] \cup {p}
                                   ELSE writers[q]]
      /\ writers \in [Pid -> SUBSET (Pid \cup {Dispatcher})]
      /\ proc \in [Pid -> {"none", "start", "loop", "select", "zombie"}]
  BY DEF CreateDriver, ToPrompt, TypeInv, TypeOK
<1>2. /\ proc'[p] = "start" /\ writers'[p] = {Dispatcher, p}
      /\ \A q \in Pid : q # p =>
           /\ proc'[q] = proc[q]
           /\ writers'[q] = writers[q] \/ writers'[q] = writers[q] \cup {p}
           /\ Alive(q) => writers'[q] = writers[q] \cup {p}
  <2>1. \A q \in Pid : Alive(q) => Dispatcher \in writers[q]
    BY <1>1 DEF PipeHeldOpen, Alive, Stopped
  <2> QED BY <1>1, <2>1
<1>3. \A q \in Pid : ~Alive(p) /\ p \notin writers[q]
  BY <1>1, PidAssumption DEF ForkInv, Alive
<1>4. /\ Later(p)' = {} /\ Alive(p)'
      /\ \A q \in Pid : q # p =>
           /\ Alive(q)' = Alive(q) /\ p \notin Later(q)
           /\ Later(q)' = Later(q) \/ Later(q)' = Later(q) \cup {p}
           /\ Alive(q) => Later(q)' = Later(q) \cup {p}
      /\ \A q \in Pid : Later(q) \subseteq Pid
  BY <1>1, <1>2, <1>3, PidAssumption DEF Later, Alive
<1>5. pc' \notin Stopped
  BY <1>1 DEF Stopped
<1>6. ASSUME NEW q \in Pid
      PROVE  /\ \A r \in writers'[q] \ {Dispatcher} : Alive(r)'
             /\ Alive(q)' => \A r \in Later(q)' : Later(r)' \subseteq Later(q)'
             /\ proc'[q] # "start" => q \notin writers'[q]
             /\ IsFiniteSet(Later(q)')
  <2>1. CASE q = p
    BY <2>1, <1>2, <1>4, FS_EmptySet
  <2>2. CASE q # p
    <3>1. \A r \in writers[q] \ {Dispatcher} : Alive(r) /\ r \in Pid /\ r # p
      BY <1>1, <1>3 DEF ForkInv
    <3>2. \A r \in writers'[q] \ {Dispatcher} : Alive(r)'
      BY <2>2, <1>2, <1>4, <3>1
    <3>3. Alive(q)' => \A r \in Later(q)' : Later(r)' \subseteq Later(q)'
      <4> SUFFICES ASSUME Alive(q), NEW r \in Later(q)' PROVE Later(r)' \subseteq Later(q)'
        BY <2>2, <1>4
      <4>1. CASE r = p
        BY <4>1, <1>4
      <4>2. CASE r # p
        <5>1. r \in Later(q) /\ r \in Pid /\ Later(r) \subseteq Later(q)
          BY <4>2, <2>2, <1>4 DEF ForkInv
        <5> QED BY <5>1, <4>2, <2>2, <1>4
      <4> QED BY <4>1, <4>2
    <3>4. proc'[q] # "start" => q \notin writers'[q]
      BY <2>2, <1>2 DEF ForkInv
    <3>5. IsFiniteSet(Later(q)')
      <4>1. IsFiniteSet(Later(q))
        BY DEF ForkInv
      <4>2. IsFiniteSet(Later(q) \cup {p})
        BY <4>1, FS_AddElement
      <4> QED BY <4>1, <4>2, <2>2, <1>4
    <3> QED BY <3>2, <3>3, <3>4, <3>5
  <2> QED BY <2>1, <2>2
<1> QED BY <1>5, <1>6 DEF ForkInv, Later

LEMMA ForkStep == TypeInv /\ SlotInv /\ PipeHeldOpen /\ ForkInv /\ [Next]_vars => ForkInv'
<1> SUFFICES ASSUME TypeInv, SlotInv, PipeHeldOpen, ForkInv, [Next]_vars PROVE ForkInv'
  OBVIOUS
<1>0. /\ proc \in [Pid -> {"none", "start", "loop", "select", "zombie"}]
      /\ writers \in [Pid -> SUBSET (Pid \cup {Dispatcher})]
  BY DEF TypeInv, TypeOK
\* Nobody has gone.
<1>1. ASSUME \A q \in Pid : writers'[q] \ {Dispatcher} = writers[q] \ {Dispatcher},
             \A q \in Pid : Alive(q)' = Alive(q),
             \A q \in Pid : proc'[q] = "start" <=> proc[q] = "start",
             pc' \in Stopped => \A q \in Pid : Dispatcher \notin writers'[q]
      PROVE  ForkInv'
  <2>1. {} \in SUBSET Pid
    OBVIOUS
  <2> QED BY <1>0, <1>1, <2>1, EndsClosed
<1>2. ASSUME NEW p \in Pid, Alive(p), pc' = pc, Dies(p),
             \A q \in Pid : writers'[q] \ {Dispatcher} = (writers[q] \ {Dispatcher}) \ {p},
             \A q \in Pid : writers'[q] \subseteq writers[q]
      PROVE  ForkInv'
  <2>1. \A q \in Pid : proc'[q] = IF q = p THEN "zombie" ELSE proc[q]
    BY <1>0, <1>2 DEF Dies
  <2>2. \A q \in Pid : /\ Alive(q)' <=> Alive(q) /\ q \notin {p}
                       /\ proc'[q] = "start" <=> proc[q] = "start" /\ q \notin {p}
    BY <2>1 DEF Alive
  <2>3. pc' \in Stopped => \A q \in Pid : Dispatcher \notin writers'[q]
    BY <1>2 DEF ForkInv
  <2>4. {p} \in SUBSET Pid
    OBVIOUS
  <2> QED BY <1>0, <1>2, <2>2, <2>3, <2>4, EndsClosed
<1>3. CASE UNCHANGED <<proc, writers>> /\ (pc' \in Stopped => pc \in Stopped)
  BY <1>1, <1>3 DEF Alive, ForkInv
<1>4. CASE EndOfInput \/ ExitDone \/ (SendMessage /\ pc' = "killed")
  <2>1. UNCHANGED proc /\ writers' = [q \in Pid |-> writers[q] \ {Dispatcher}]
    BY <1>4 DEF EndOfInput, ExitDone, SendMessage, Stops
  <2> QED BY <2>1, <1>1 DEF Alive
<1>5. ASSUME NEW p \in Pid, Reap(p) PROVE ForkInv'
  <2>1. \A q \in Pid : writers'[q] \ {Dispatcher} = writers[q] \ {Dispatcher}
    BY <1>0, <1>5 DEF Reap
  <2>2. proc[p] = "zombie" /\ pc' = "cleanup" /\ \A q \in Pid : proc'[q] = IF q = p THEN "none" ELSE proc[q]
    BY <1>0, <1>5 DEF Reap, control
  <2> QED BY <2>1, <2>2, <1>1 DEF Alive, Stopped
<1>6. CASE ExitNext
  <2> DEFINE p == drivers[i].pid
  <2>1. pc = "exit" /\ pc' = "exit"
    BY <1>6 DEF ExitNext
  <2>2. CASE drivers[i].active /\ Alive(p) /\ p \in Pid /\ Dies(p)
             /\ writers' = [q \in Pid |-> writers[q] \ IF q = p THEN {p, Dispatcher} ELSE {p}]
    <3>1. \A q \in Pid : writers'[q] \ {Dispatcher} = (writers[q] \ {Dispatcher}) \ {p}
                         /\ writers'[q] \subseteq writers[q]
      BY <2>2
    <3> QED BY <2>1, <2>2, <3>1, <1>2
  <2>3. CASE UNCHANGED proc /\ (UNCHANGED writers \/ writers' = [writers EXCEPT ![p] = @ \ {Dispatcher}])
    <3>1. \A q \in Pid : writers'[q] \ {Dispatcher} = writers[q] \ {Dispatcher}
      BY <1>0, <2>3
    <3> QED BY <2>1, <2>3, <3>1, <1>1 DEF Alive, Stopped
  <2>4. drivers[i].active => p \in Pid
    <3>1. i \in Used /\ i \in Slot
      BY <1>6, MaxDriversAssumption DEF ExitNext, TypeInv, TypeOK, Used, Slot
    <3> QED BY <2>1, <3>1 DEF SlotInv, ChildrenInSlots, Stopped
  <2> QED BY <1>6, <2>2, <2>3, <2>4 DEF ExitNext
<1>7. ASSUME NEW p \in Pid, DriverStep(p) \/ KillDriver(p) PROVE ForkInv'
  <2>1. CASE StartDriver(p)
    BY <2>1, StartFork
  <2>2. CASE KillDriver(p) \/ CommandPipeClosed(p)
    <3>1. Alive(p) /\ pc' = pc /\ Dies(p) /\ writers' = [q \in Pid |-> writers[q] \ {p}]
      BY <2>2 DEF KillDriver, CommandPipeClosed, Alive, control
    <3>2. \A q \in Pid : writers'[q] \ {Dispatcher} = (writers[q] \ {Dispatcher}) \ {p}
                         /\ writers'[q] \subseteq writers[q]
      BY <3>1
    <3> QED BY <3>1, <3>2, <1>2
  <2>3. CASE EnterSelect(p) \/ TaskTimeout(p) \/ AnswerCommand(p)
    <3>1. /\ proc[p] \in {"loop", "select"} /\ UNCHANGED <<pc, writers>>
          /\ \E s \in {"loop", "select"} : proc' = [proc EXCEPT ![p] = s]
      BY <2>3 DEF EnterSelect, TaskTimeout, AnswerCommand, control
    <3>2. \A q \in Pid : Alive(q)' = Alive(q) /\ (proc'[q] = "start" <=> proc[q] = "start")
      BY <1>0, <3>1 DEF Alive
    <3> QED BY <3>1, <3>2, <1>1 DEF ForkInv
  <2> QED BY <1>7, <2>1, <2>2, <2>3 DEF DriverStep
<1>8. ASSUME NEW p \in Pid, InitReaps(p) PROVE ForkInv'
  <2>1. proc[p] = "zombie" /\ UNCHANGED <<pc, writers>> /\ \A q \in Pid : proc'[q] = IF q = p THEN "none" ELSE proc[q]
    BY <1>0, <1>8 DEF InitReaps, control
  <2> QED BY <2>1, <1>1 DEF Alive, ForkInv
<1>9. CASE ReadCommand \/ CleanupDone \/ OtherCommand \/ CreateWhenFull \/ CreateFails
           \/ DriverNotFound \/ DriverFound \/ ListNext \/ ListDone \/ ReadAnswer
           \/ (SendMessage /\ pc' # "killed") \/ Tick \/ Finished \/ UNCHANGED vars
  <2>1. UNCHANGED <<proc, writers>> /\ (pc' \in Stopped => pc \in Stopped)
    BY <1>9 DEF ReadCommand, CleanupDone, OtherCommand, CreateWhenFull, CreateFails, DriverNotFound,
                DriverFound, ListNext, ListDone, ReadAnswer, SendMessage, Stops, Tick, Finished, vars,
                ToPrompt, Stopped, control
  <2> QED BY <2>1, <1>3
<1> QED
  BY <1>4, <1>5, <1>6, <1>7, <1>8, <1>9, CreateFork DEF Next, DispatcherStep

LEMMA CalledStep == TypeInv /\ SlotInv /\ CalledInv /\ [Next]_vars => CalledInv'
<1> SUFFICES ASSUME TypeInv, SlotInv, CalledInv, [Next]_vars, pc' \in {"write", "read"}
             PROVE  drivers'[idx'].pid \in Pid
  BY DEF CalledInv
<1> USE DEF table, control, clocks, pipes, ToPrompt, Stops, Stopped
<1>1. CASE DriverFound \/ (ListNext /\ pc' # "list")
  <2>1. PICK s \in Used : drivers[s].active /\ idx' = s /\ pc \notin Stopped /\ drivers' = drivers
    BY <1>1 DEF DriverFound, ListNext, Found
  <2>2. s \in Slot
    BY <2>1, MaxDriversAssumption DEF TypeInv, TypeOK, Used, Slot
  <2> QED BY <2>1, <2>2 DEF SlotInv, ChildrenInSlots
<1>2. CASE SendMessage
  BY <1>2 DEF SendMessage, CalledInv
<1>3. ASSUME NEW p \in Pid, DriverStep(p) \/ KillDriver(p) \/ InitReaps(p) PROVE drivers'[idx'].pid \in Pid
  BY <1>3 DEF DriverStep, StartDriver, EnterSelect, TaskTimeout, AnswerCommand, CommandPipeClosed,
              KillDriver, InitReaps, CalledInv
<1>4. CASE Tick \/ Finished \/ UNCHANGED vars
  BY <1>4 DEF Tick, Finished, vars, CalledInv
<1>5. ~ReadCommand /\ ~EndOfInput /\ ~CleanupDone /\ ~OtherCommand /\ ~CreateWhenFull /\ ~CreateFails
      /\ ~DriverNotFound /\ ~ListDone /\ ~ReadAnswer /\ ~ExitNext /\ ~ExitDone
      /\ \A p \in Pid : ~Reap(p) /\ ~CreateDriver(p)
  BY DEF ReadCommand, EndOfInput, CleanupDone, OtherCommand, CreateWhenFull, CreateFails,
         DriverNotFound, ListDone, ReadAnswer, ExitNext, ExitDone, Reap, CreateDriver
<1>6. CASE ListNext /\ pc' = "list"
  BY <1>6
<1> QED BY <1>1, <1>2, <1>3, <1>4, <1>5, <1>6 DEF Next, DispatcherStep

RestInv == TypeInv /\ SlotInv /\ PipeHeldOpen /\ CallInv /\ ForkInv /\ CalledInv

LEMMA Resting == Spec => []RestInv
<1>1. Init => PipeHeldOpen
  BY DEF Init, PipeHeldOpen
<1>2. TypeInv /\ SlotInv /\ PipeHeldOpen /\ CallInv /\ ForkInv /\ CalledInv => RestInv
  BY DEF RestInv
<1> QED BY <1>1, <1>2, TypeInit, TypeStep, SlotInit, SlotStep, PipeHeldStep, CallAlways, ForkInit,
           ForkStep, CalledStep, PTL DEF Spec

\* Of the drivers that are left some one was forked last.
LEMMA SomeLast ==
  ASSUME ForkInv, writers \in [Pid -> SUBSET (Pid \cup {Dispatcher})], \E p \in Pid : Alive(p)
  PROVE  \E p \in Pid : Alive(p) /\ Later(p) = {}
<1> DEFINE T == {Later(p) : p \in {q \in Pid : Alive(q)}}
<1>1. \A p \in Pid : Later(p) \subseteq Pid /\ IsFiniteSet(Later(p))
  BY DEF ForkInv, Later
<1>2. T \subseteq FiniteSubsetsOf(Pid) /\ T # {}
  BY <1>1 DEF FiniteSubsetsOf
<1> HIDE DEF T
<1>3. \E x \in T : \A y \in T : ~(<<y, x>> \in StrictSubsetOrdering(Pid))
  BY <1>2, FS_StrictSubsetOrderingWellFounded, WFMin
<1>4. PICK x \in T : \A y \in T : ~(<<y, x>> \in StrictSubsetOrdering(Pid))
  BY <1>3
<1>5. PICK p \in Pid : Alive(p) /\ x = Later(p)
  BY <1>4 DEF T
<1>6. Later(p) = {}
  <2> SUFFICES ASSUME NEW q \in Later(p) PROVE FALSE
    OBVIOUS
  <2>1. q \in Pid /\ Alive(q) /\ q \notin Later(q) /\ Later(q) \subseteq Later(p)
    BY <1>1, <1>5 DEF ForkInv, Later
  <2>2. Later(q) \in T
    BY <2>1 DEF T
  <2>3. <<Later(q), x>> \in StrictSubsetOrdering(Pid)
    <3>1. Later(q) \in SUBSET Pid /\ x \in SUBSET Pid /\ Later(q) \subseteq x /\ Later(q) # x
      BY <1>1, <1>5, <2>1
    <3> QED BY <3>1 DEF StrictSubsetOrdering
  <2> QED BY <1>4, <2>2, <2>3
<1> QED BY <1>5, <1>6

LEMMA Rests == RestInv => RestsOnlyFree
<1> SUFFICES ASSUME RestInv, ~DispatcherCan, \A p \in Pid : ~DriverCan(p), ~WorldCan
             PROVE  \/ pc = "prompt" /\ \A p \in Pid : Alive(p) => proc[p] = "select" /\ status[p] = 0
                    \/ pc \in Stopped /\ \A p \in Pid : proc[p] = "none"
  BY DEF RestsOnlyFree
<1>0. /\ proc \in [Pid -> {"none", "start", "loop", "select", "zombie"}]
      /\ writers \in [Pid -> SUBSET (Pid \cup {Dispatcher})]
      /\ status \in [Pid -> {0, 1}] /\ left \in [Pid -> Nat]
      /\ pc \in {"prompt", "cleanup", "exec", "list", "write", "read", "exit"} \cup Stopped
  BY DEF RestInv, TypeInv, TypeOK
<1>1. \A p \in Pid : Alive(p) => proc[p] = "select" /\ cmdPipe[p] = <<>> /\ writers[p] # {}
  BY DEF DriverCan, Alive
<1>2. \A p \in Pid : Alive(p) => status[p] = 0
  <2> TAKE p \in Pid
  <2>1. left[p] = 0
    BY <1>0 DEF WorldCan
  <2> QED BY <1>0, <1>1, <2>1 DEF DriverCan, TimeoutArmed
\* The one that is asked answers.
<1>3. pc # "read"
  <2> SUFFICES ASSUME pc = "read" PROVE FALSE
    OBVIOUS
  <2> DEFINE p == drivers[idx].pid
  <2>1. p \in Pid /\ Called(p) /\ Alive(p) /\ ansPipe[p] = <<>>
    BY DEF RestInv, CalledInv, Called, DispatcherCan, AnswerReady
  <2>2. Len(cmdPipe[p]) = 1
    BY <2>1, <1>1 DEF RestInv, CallInv
  <2> QED BY <2>1, <2>2, <1>1
<1>4. pc = "prompt" \/ pc \in Stopped
  BY <1>0, <1>3 DEF DispatcherCan
\* The one that was forked last has found the end of file.
<1>5. pc \in Stopped => \A p \in Pid : ~Alive(p)
  <2> SUFFICES ASSUME pc \in Stopped, \E p \in Pid : Alive(p) PROVE FALSE
    OBVIOUS
  <2>1. PICK p \in Pid : Alive(p) /\ Later(p) = {}
    BY <1>0, SomeLast DEF RestInv
  <2>2. Dispatcher \notin writers[p] /\ p \notin writers[p]
    BY <1>1, <2>1 DEF RestInv, ForkInv
  <2> QED BY <1>1, <2>1, <2>2 DEF Later
<1>6. pc \in Stopped => \A p \in Pid : proc[p] = "none"
  BY <1>0, <1>5 DEF WorldCan, Alive
<1> QED BY <1>1, <1>2, <1>4, <1>6

\* Where nothing happens any more unless somebody types or kills, no call
\* waits for its answer, no driver is busy, and none has outlived the
\* dispatcher.
THEOREM RestCorrect == Spec => []RestsOnlyFree
BY Resting, Rests, PTL
=============================================================================
