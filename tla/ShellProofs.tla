----------------------------- MODULE ShellProofs -----------------------------
(***************************************************************************)
(* What holds of the small shells for any number of lines, any size of a   *)
(* pipe and any output of the programs.                                    *)
(***************************************************************************)
EXTENDS Shell, FiniteSetTheorems, TLAPS

AtLine == pc \notin {"prompt", "exited"}

\* The line at work is one that was typed, and no fork has failed for it yet.
LineInv ==
  /\ AtLine => line \in Line /\ line \notin failed
  /\ \A l \in failed : l <= line

\* Who is still to be forked has not been: the children of the lines to come,
\* and those of the line at work.
ToBeForked(c) ==
  \/ c[1] > line
  \/ c[1] = line /\ pc \in {"pipe", "fork", "fork1"}
  \/ c[1] = line /\ pc = "fork2" /\ c[2] = "right"

FreshInv == \A c \in Child : ToBeForked(c) => at[c] = "none"

\* The shell holds the pipe of the line at work, and those of failed lines.
FailedEnds == UNION {Ends(l) : l \in failed}

EndsInv ==
  pc # "exited" =>
    ends[Shell] = FailedEnds \cup IF pc \in {"fork1", "fork2", "close"} THEN Ends(line) ELSE {}

\* One child for each that the shell is going to wait for, or has yet to lose.
Unreaped == {c \in Child : at[c] \notin {"none", "reaped"}}
Awaited == IF pc \in {"close", "wait1"} THEN 2 ELSE IF pc \in {"wait", "fork2", "wait2"} THEN 1 ELSE 0

CountInv == Cardinality(Unreaped) = Cardinality(lost) + Awaited

\* A left program has an output, or none.
OutputInv == \A c \in Child : c[2] = "left" => program[c] # ReadsAll

IInv == TypeOK /\ LineInv /\ FreshInv /\ EndsInv /\ CountInv /\ OutputInv

-----------------------------------------------------------------------------
(* Facts about lines, children and sets.                                   *)

LEMMA Lines == /\ Line \subseteq Nat /\ 0 \notin Line
               /\ MaxLines \in Nat /\ \A l \in 0..MaxLines : l \in Nat
               /\ \A l \in 0..MaxLines : l < MaxLines => l + 1 \in Line
               /\ Line \subseteq 0..MaxLines
BY LinesAssumption DEF Line

LEMMA Children ==
  /\ Shell \notin Child
  /\ \A c \in Child : c[1] \in Line /\ c[2] \in {"simple", "left", "right"} /\ c = <<c[1], c[2]>>
  /\ \A l \in Line : \A role \in {"simple", "left", "right"} : <<l, role>> \in Child
BY Lines DEF Child, Shell

LEMMA FiniteChildren == IsFiniteSet(Child) /\ IsFiniteSet(Line)
<1>1. IsFiniteSet(Line)
  BY FS_Interval, LinesAssumption DEF Line
<1>2. IsFiniteSet({"simple", "left", "right"})
  <2>1. IsFiniteSet({} \cup {"simple"} \cup {"left"} \cup {"right"})
    BY FS_EmptySet, FS_AddElement
  <2>2. {} \cup {"simple"} \cup {"left"} \cup {"right"} = {"simple", "left", "right"}
    OBVIOUS
  <2> QED BY <2>1, <2>2
<1> QED BY <1>1, <1>2, FS_Product DEF Child

LEMMA Counted ==
  ASSUME TypeOK
  PROVE  /\ IsFiniteSet(Unreaped) /\ Cardinality(Unreaped) \in Nat
         /\ IsFiniteSet(lost) /\ Cardinality(lost) \in Nat
<1>1. Unreaped \subseteq Child /\ lost \subseteq Line
  BY DEF TypeOK, Unreaped
<1> QED BY <1>1, FiniteChildren, FS_Subset, FS_CardinalityType

LEMMA EndsType == \A l \in Line : Ends(l) \subseteq Line \X {"read", "write"}
BY DEF Ends

LEMMA InvInit == Init => IInv
<1> SUFFICES ASSUME Init PROVE IInv
  OBVIOUS
<1> USE DEF Init
<1>1. TypeOK
  BY Lines, CapacityAssumption, OutputAssumption DEF TypeOK
<1>2. LineInv /\ FreshInv /\ OutputInv
  BY DEF LineInv, AtLine, FreshInv, OutputInv, ReadsAll
<1>3. EndsInv
  <2>1. Shell \in Child \cup {Shell} /\ FailedEnds = {}
    BY DEF FailedEnds
  <2> QED BY <2>1 DEF EndsInv
<1>4. CountInv
  <2>1. Unreaped = {}
    BY DEF Unreaped
  <2> QED BY <2>1, FS_EmptySet DEF CountInv, Awaited
<1> QED BY <1>1, <1>2, <1>3, <1>4 DEF IInv

\* A fork brings one more child that is to be reaped, a wait one less, and what
\* a child does itself changes nothing.
LEMMA ForkCount ==
  ASSUME TypeOK, NEW c \in Child, at[c] = "none", NEW place \in {"start", "exec"},
         at' = [at EXCEPT ![c] = place]
  PROVE  Cardinality(Unreaped') = Cardinality(Unreaped) + 1
<1>1. Unreaped' = Unreaped \cup {c} /\ c \notin Unreaped
  BY DEF TypeOK, Unreaped
<1> QED BY <1>1, Counted, FS_AddElement

LEMMA ReapCount ==
  ASSUME TypeOK, NEW c \in Child, at[c] = "zombie", at' = [at EXCEPT ![c] = "reaped"]
  PROVE  Cardinality(Unreaped') = Cardinality(Unreaped) - 1
<1>1. Unreaped' = Unreaped \ {c} /\ c \in Unreaped
  BY DEF TypeOK, Unreaped
<1> QED BY <1>1, Counted, FS_RemoveElement

LEMMA SameUnreaped ==
  ASSUME TypeOK, NEW c \in Child, at[c] \in {"start", "exec", "run"},
         NEW place \in {"exec", "run", "zombie"}, at' = [at EXCEPT ![c] = place]
  PROVE  Unreaped' = Unreaped
BY DEF TypeOK, Unreaped

\* The pipe of the line at work is none of those of failed lines.
LEMMA EndsApart ==
  ASSUME LineInv, AtLine
  PROVE  FailedEnds \cap Ends(line) = {}
BY DEF LineInv, FailedEnds, Ends

-----------------------------------------------------------------------------
(* The shell.                                                              *)

LEMMA ReadLineStep ==
  ASSUME IInv, ReadLine
  PROVE  IInv'
<1> USE DEF IInv
<1>1. /\ pc = "prompt" /\ line < MaxLines /\ line' = line + 1 /\ pc' \in {"fork", "pipe"}
      /\ UNCHANGED <<kind, at, program, ends, pipe, failed, lost>>
  BY DEF ReadLine
<1>2. line \in Nat /\ line' \in Line /\ line' \in 0..MaxLines
  BY <1>1, Lines DEF TypeOK
<1>3. \A l \in failed : l \in Nat /\ l <= line
  BY Lines DEF TypeOK, LineInv
<1>4. TypeOK'
  BY <1>1, <1>2 DEF TypeOK
<1>5. LineInv'
  BY <1>1, <1>2, <1>3 DEF LineInv
<1>6. FreshInv'
  <2>1. \A c \in Child : c[1] \in Nat /\ (c[1] > line + 1 \/ c[1] = line + 1 => c[1] > line)
    BY <1>2, Children, Lines
  <2>2. \A c \in Child : ToBeForked(c)' => ToBeForked(c)
    BY <1>1, <2>1 DEF ToBeForked
  <2> QED BY <1>1, <2>2 DEF FreshInv
<1>7. EndsInv' /\ OutputInv'
  BY <1>1 DEF EndsInv, FailedEnds, OutputInv
<1>8. CountInv'
  BY <1>1 DEF CountInv, Unreaped, Awaited
<1> QED BY <1>4, <1>5, <1>6, <1>7, <1>8

LEMMA LeaveStep ==
  ASSUME IInv, Leave
  PROVE  IInv'
<1> USE DEF IInv
<1>1. /\ pc = "prompt" /\ pc' = "exited" /\ ends' = [ends EXCEPT ![Shell] = {}]
      /\ UNCHANGED <<kind, line, at, program, pipe, failed, lost>>
  BY DEF Leave
<1>2. TypeOK'
  BY <1>1 DEF TypeOK
<1>3. LineInv' /\ FreshInv' /\ EndsInv' /\ OutputInv'
  BY <1>1 DEF LineInv, AtLine, FreshInv, ToBeForked, EndsInv, OutputInv
<1>4. CountInv'
  BY <1>1 DEF CountInv, Unreaped, Awaited
<1> QED BY <1>2, <1>3, <1>4

LEMMA ForkStep ==
  ASSUME IInv, ForkSimple \/ ForkLeft \/ ForkRight
  PROVE  IInv'
<1> USE DEF IInv
<1>1. PICK role \in {"simple", "left", "right"}, place \in {"start", "exec"} :
        /\ Fork(role, place, pc')
        /\ \/ pc = "fork" /\ role = "simple" /\ pc' = "wait"
           \/ pc = "fork1" /\ role = "left" /\ pc' = "fork2"
           \/ pc = "fork2" /\ role = "right" /\ pc' = "close"
  BY DEF ForkSimple, ForkLeft, ForkRight, Fork
<1> DEFINE c == <<line, role>>
<1>2. /\ at' = [at EXCEPT ![c] = place] /\ ends' = [ends EXCEPT ![c] = ends[Shell]]
      /\ UNCHANGED <<kind, line, program, pipe, failed, lost>>
  BY <1>1 DEF Fork
<1>3. AtLine /\ line \in Line /\ line \notin failed
  BY <1>1 DEF LineInv, AtLine
<1>4. c \in Child /\ c[1] = line /\ c[2] = role
  BY <1>3, Children
<1>5. at[c] = "none"
  <2>1. ToBeForked(c)
    BY <1>1, <1>4 DEF ToBeForked
  <2> QED BY <1>4, <2>1 DEF FreshInv
<1>6. TypeOK'
  <2>1. ends[Shell] \in SUBSET (Line \X {"read", "write"})
    BY DEF TypeOK
  <2>2. ends' \in [Child \cup {Shell} -> SUBSET (Line \X {"read", "write"})]
    BY <1>2, <1>4, <2>1 DEF TypeOK
  <2>3. at' \in [Child -> {"none", "start", "exec", "run", "zombie", "reaped"}]
    BY <1>2 DEF TypeOK
  <2> QED BY <1>1, <1>2, <2>2, <2>3 DEF TypeOK
<1>7. LineInv' /\ OutputInv'
  BY <1>1, <1>2, <1>3 DEF LineInv, OutputInv
<1>8. FreshInv'
  <2> SUFFICES ASSUME NEW d \in Child, ToBeForked(d)' PROVE at'[d] = "none"
    BY DEF FreshInv
  <2>1. ToBeForked(d)
    BY <1>1, <1>2 DEF ToBeForked
  <2>2. d # c
    BY <1>1, <1>2, <1>3, <1>4, Lines DEF ToBeForked
  <2> QED BY <1>2, <2>1, <2>2 DEF FreshInv, TypeOK
<1>9. EndsInv'
  <2>1. ends'[Shell] = ends[Shell]
    BY <1>2, <1>4, Children DEF TypeOK
  <2> QED BY <1>1, <1>2, <2>1 DEF EndsInv, FailedEnds
<1>10. CountInv'
  <2>1. Cardinality(Unreaped') = Cardinality(Unreaped) + 1
    BY <1>2, <1>4, <1>5, ForkCount
  <2>2. Awaited' = Awaited + 1
    BY <1>1 DEF Awaited
  <2>3. Awaited \in Nat /\ Cardinality(lost) \in Nat
    BY Counted DEF Awaited
  <2> QED BY <1>2, <2>1, <2>2, <2>3 DEF CountInv
<1> QED BY <1>6, <1>7, <1>8, <1>9, <1>10

LEMMA ReapStep ==
  ASSUME IInv, Wait \/ WaitLeft \/ WaitRight
  PROVE  IInv'
<1> USE DEF IInv
<1>1. /\ pc \in {"wait", "wait1", "wait2"} /\ AtLine /\ line \in Line
      /\ pc' = IF pc = "wait1" THEN "wait2" ELSE "prompt"
  BY DEF Wait, WaitLeft, WaitRight, Reap, LineInv, AtLine
<1>2. PICK c \in Child : Reap(c, pc')
  BY <1>1, Children DEF Wait, WaitLeft, WaitRight, Reap
<1>3. /\ at[c] = "zombie" /\ at' = [at EXCEPT ![c] = "reaped"]
      /\ UNCHANGED <<kind, line, program, ends, pipe, failed, lost>>
  BY <1>2 DEF Reap
<1>4. TypeOK'
  BY <1>1, <1>3 DEF TypeOK
<1>5. LineInv' /\ EndsInv' /\ OutputInv'
  BY <1>1, <1>3 DEF LineInv, AtLine, EndsInv, FailedEnds, OutputInv
<1>6. FreshInv'
  <2>1. \A d \in Child : ToBeForked(d)' => ToBeForked(d)
    BY <1>1, <1>3 DEF ToBeForked
  <2>2. \A d \in Child : at[d] = "none" => at'[d] = "none"
    BY <1>3 DEF TypeOK
  <2> QED BY <2>1, <2>2 DEF FreshInv
<1>7. CountInv'
  <2>1. Cardinality(Unreaped') = Cardinality(Unreaped) - 1
    BY <1>3, ReapCount
  <2>2. Awaited' = Awaited - 1 /\ Awaited \in Nat
    BY <1>1 DEF Awaited
  <2> QED BY <1>3, <2>1, <2>2, Counted DEF CountInv
<1> QED BY <1>4, <1>5, <1>6, <1>7

LEMMA ForkSimpleFailsStep ==
  ASSUME IInv, ForkSimpleFails
  PROVE  IInv'
<1> USE DEF IInv
<1>1. /\ pc = "fork" /\ pc' = "prompt"
      /\ UNCHANGED <<kind, line, at, program, ends, pipe, failed, lost>>
  BY DEF ForkSimpleFails
<1>2. TypeOK' /\ LineInv' /\ EndsInv' /\ OutputInv'
  BY <1>1 DEF TypeOK, LineInv, AtLine, EndsInv, FailedEnds, OutputInv
<1>3. FreshInv' /\ CountInv'
  BY <1>1 DEF FreshInv, ToBeForked, CountInv, Unreaped, Awaited
<1> QED BY <1>2, <1>3

LEMMA PipeStep ==
  ASSUME IInv, Pipe
  PROVE  IInv'
<1> USE DEF IInv
<1>1. /\ pc = "pipe"
      /\ \/ pc' = "fork1" /\ ends' = [ends EXCEPT ![Shell] = @ \cup Ends(line)]
         \/ pc' = "prompt" /\ UNCHANGED ends
      /\ UNCHANGED <<kind, line, at, program, pipe, failed, lost>>
  BY DEF Pipe
<1>2. AtLine /\ line \in Line
  BY <1>1 DEF LineInv, AtLine
<1>3. ends[Shell] \cup Ends(line) \in SUBSET (Line \X {"read", "write"})
  BY <1>2, EndsType DEF TypeOK
<1>4. TypeOK'
  <2>1. ends' \in [Child \cup {Shell} -> SUBSET (Line \X {"read", "write"})]
    BY <1>1, <1>3 DEF TypeOK
  <2> QED BY <1>1, <2>1 DEF TypeOK
<1>5. LineInv' /\ OutputInv'
  BY <1>1, <1>2 DEF LineInv, AtLine, OutputInv
<1>6. EndsInv'
  <2>1. ends[Shell] = FailedEnds
    BY <1>1 DEF EndsInv
  <2> QED BY <1>1, <2>1 DEF EndsInv, FailedEnds, TypeOK
<1>7. FreshInv' /\ CountInv'
  BY <1>1 DEF FreshInv, ToBeForked, CountInv, Unreaped, Awaited
<1> QED BY <1>4, <1>5, <1>6, <1>7

LEMMA ForkFailsStep ==
  ASSUME IInv, ForkFails
  PROVE  IInv'
<1> USE DEF IInv
<1>1. /\ pc \in {"fork1", "fork2"} /\ pc' = "prompt" /\ failed' = failed \cup {line}
      /\ lost' = IF pc = "fork2" THEN lost \cup {line} ELSE lost
      /\ UNCHANGED <<kind, line, at, program, ends, pipe>>
  BY DEF ForkFails
<1>2. AtLine /\ line \in Line /\ line \notin failed /\ line \notin lost
  BY <1>1 DEF LineInv, AtLine, TypeOK
<1>3. TypeOK'
  BY <1>1, <1>2 DEF TypeOK
<1>4. LineInv' /\ OutputInv'
  BY <1>1, <1>2, Lines DEF LineInv, AtLine, OutputInv
<1>5. EndsInv'
  BY <1>1 DEF EndsInv, FailedEnds
<1>6. FreshInv'
  BY <1>1 DEF FreshInv, ToBeForked
<1>7. CountInv'
  <2>1. Cardinality(lost') = Cardinality(lost) + Awaited
    <3>1. IsFiniteSet(lost) /\ Cardinality(lost) \in Nat
      BY Counted
    <3>2. CASE pc = "fork1"
      BY <1>1, <3>1, <3>2 DEF Awaited
    <3>3. CASE pc = "fork2"
      <4>1. Cardinality(lost \cup {line}) = Cardinality(lost) + 1
        BY <1>2, <3>1, FS_AddElement
      <4> QED BY <1>1, <3>3, <4>1 DEF Awaited
    <3> QED BY <1>1, <3>2, <3>3
  <2>2. Unreaped' = Unreaped /\ Awaited' = 0
    BY <1>1 DEF Unreaped, Awaited
  <2>3. Cardinality(Unreaped) = Cardinality(lost') /\ Cardinality(Unreaped) \in Nat
    BY <2>1, Counted DEF CountInv
  <2> QED BY <2>2, <2>3 DEF CountInv
<1> QED BY <1>3, <1>4, <1>5, <1>6, <1>7

LEMMA CloseStep ==
  ASSUME IInv, Close
  PROVE  IInv'
<1> USE DEF IInv
<1>1. /\ pc = "close" /\ pc' = "wait1" /\ ends' = [ends EXCEPT ![Shell] = @ \ Ends(line)]
      /\ UNCHANGED <<kind, line, at, program, pipe, failed, lost>>
  BY DEF Close
<1>2. AtLine
  BY <1>1 DEF AtLine
<1>3. ends[Shell] \ Ends(line) \in SUBSET (Line \X {"read", "write"})
  BY DEF TypeOK
<1>4. TypeOK'
  BY <1>1, <1>3 DEF TypeOK
<1>5. LineInv' /\ OutputInv'
  BY <1>1, <1>2 DEF LineInv, AtLine, OutputInv
<1>6. EndsInv'
  <2>1. ends[Shell] = FailedEnds \cup Ends(line)
    BY <1>1 DEF EndsInv
  <2>2. ends'[Shell] = FailedEnds
    BY <1>1, <1>2, <2>1, EndsApart DEF TypeOK
  <2> QED BY <1>1, <2>2 DEF EndsInv, FailedEnds
<1>7. FreshInv' /\ CountInv'
  BY <1>1 DEF FreshInv, ToBeForked, CountInv, Unreaped, Awaited
<1> QED BY <1>4, <1>5, <1>6, <1>7

-----------------------------------------------------------------------------
(* The children.                                                           *)

LEMMA ChildInv ==
  ASSUME IInv, NEW c \in Child, ChildStep(c)
  PROVE  IInv'
<1> USE DEF IInv
<1>1. /\ UNCHANGED <<kind, pc, line, failed, lost>>
      /\ at[c] \in {"start", "exec", "run"}
      /\ \/ UNCHANGED at
         \/ \E place \in {"exec", "run", "zombie"} : at' = [at EXCEPT ![c] = place]
      /\ \/ UNCHANGED ends
         \/ ends' = [ends EXCEPT ![c] = @ \ OtherEnds(c)]
         \/ ends' = [ends EXCEPT ![c] = {}]
  BY DEF ChildStep, Redirect, Exec, WriteOut, HasRoom, ReadIn, HasInput, End, Ended
<1>2. /\ at' \in [Child -> {"none", "start", "exec", "run", "zombie", "reaped"}]
      /\ ends' \in [Child \cup {Shell} -> SUBSET (Line \X {"read", "write"})]
      /\ ends'[Shell] = ends[Shell]
  <2>1. at' \in [Child -> {"none", "start", "exec", "run", "zombie", "reaped"}]
    BY <1>1 DEF TypeOK
  <2>2. /\ ends' \in [Child \cup {Shell} -> SUBSET (Line \X {"read", "write"})]
        /\ ends'[Shell] = ends[Shell]
    BY <1>1, Children DEF TypeOK
  <2> QED BY <2>1, <2>2
<1>3. /\ program' \in [Child -> {ReadsAll, Endless, Idle} \cup 0..MaxOutput]
      /\ OutputInv'
  <2>1. CASE UNCHANGED program
    BY <2>1 DEF TypeOK, OutputInv
  <2>2. CASE Exec(c)
    <3>1. PICK p \in Programs(c[2]) : program' = [program EXCEPT ![c] = p]
      BY <2>2 DEF Exec
    <3>2. p \in {ReadsAll, Endless, Idle} \cup 0..MaxOutput /\ (c[2] = "left" => p # ReadsAll)
      BY Children, OutputAssumption DEF Programs, ReadsAll, Endless, Idle
    <3> QED BY <3>1, <3>2 DEF TypeOK, OutputInv
  <2>3. CASE WriteOut(c)
    <3> DEFINE p == IF program[c] = Endless THEN program[c] ELSE program[c] - 1
    <3>1. program' = [program EXCEPT ![c] = p]
      BY <2>3 DEF WriteOut
    <3>2. program[c] \notin {Idle, 0} /\ program[c] \in {Endless} \cup 0..MaxOutput
      BY <2>3 DEF WriteOut, HasRoom, TypeOK, OutputInv
    <3>3. p \in {Endless} \cup 0..MaxOutput /\ p # ReadsAll
      BY <3>2, OutputAssumption DEF Endless, ReadsAll
    <3> QED BY <3>1, <3>3 DEF TypeOK, OutputInv
  <2> QED BY <2>1, <2>2, <2>3 DEF ChildStep, Redirect, ReadIn, End
<1>4. pipe' \in [Line -> 0..Capacity]
  <2>1. c[1] \in Line /\ pipe[c[1]] \in 0..Capacity
    BY Children DEF TypeOK
  <2>2. CASE WriteOut(c)
    <3>1. pipe[c[1]] + 1 \in 0..Capacity
      BY <2>1, <2>2, CapacityAssumption DEF WriteOut, HasRoom
    <3> QED BY <2>2, <3>1 DEF WriteOut, TypeOK
  <2>3. CASE ReadIn(c)
    <3>1. pipe[c[1]] - 1 \in 0..Capacity
      BY <2>1, <2>3, CapacityAssumption DEF ReadIn, HasInput
    <3> QED BY <2>3, <3>1 DEF ReadIn, TypeOK
  <2>4. CASE UNCHANGED pipe
    BY <2>4 DEF TypeOK
  <2> QED BY <2>2, <2>3, <2>4 DEF ChildStep, Redirect, Exec, End
<1>5. TypeOK'
  BY <1>1, <1>2, <1>3, <1>4 DEF TypeOK
<1>6. LineInv' /\ EndsInv'
  BY <1>1, <1>2 DEF LineInv, AtLine, EndsInv, FailedEnds
<1>7. FreshInv'
  <2>1. \A d \in Child : at[d] = "none" => at'[d] = "none"
    BY <1>1 DEF TypeOK
  <2> QED BY <1>1, <2>1 DEF FreshInv, ToBeForked
<1>8. CountInv'
  <2>1. Unreaped' = Unreaped
    BY <1>1, SameUnreaped DEF Unreaped
  <2> QED BY <1>1, <2>1 DEF CountInv, Awaited
<1> QED BY <1>3, <1>5, <1>6, <1>7, <1>8

-----------------------------------------------------------------------------
(* The invariant.                                                          *)

LEMMA InvNext == IInv /\ [Next]_vars => IInv'
<1> SUFFICES ASSUME IInv, [Next]_vars PROVE IInv'
  OBVIOUS
<1>1. CASE ReadLine \/ Leave
  BY <1>1, ReadLineStep, LeaveStep
<1>2. CASE ShellStep
  BY <1>2, ForkStep, ReapStep, ForkSimpleFailsStep, PipeStep, ForkFailsStep, CloseStep
     DEF ShellStep
<1>3. CASE \E c \in Child : ChildStep(c)
  BY <1>3, ChildInv
<1>4. CASE UNCHANGED vars
  BY <1>4 DEF IInv, TypeOK, LineInv, AtLine, FreshInv, ToBeForked, EndsInv, FailedEnds, CountInv,
              Unreaped, Awaited, OutputInv, vars
<1> QED BY <1>1, <1>2, <1>3, <1>4 DEF Next

LEMMA Invariance == Spec => []IInv
BY InvInit, InvNext, PTL DEF Spec

-----------------------------------------------------------------------------
(* Who holds the ends of a pipe, and whom the shell waits for.             *)

\* The pipe of a line that no fork failed for is the shell's until it has
\* forked, and then that of its two programs, an end each.
HolderInv ==
  \A p \in Child \cup {Shell} : \A e \in ends[p] : e[1] \notin failed =>
    \/ p = Shell /\ e[1] = line /\ pc \in {"fork1", "fork2", "close"}
    \/ /\ p \in {<<e[1], "left">>, <<e[1], "right">>} /\ at[p] \in {"start", "exec", "run"}
       /\ at[p] = "start" \/ e = OwnEnd(p)

\* The programs of the line at work have been forked, and nobody but the shell
\* at its waits reaps them.
AwaitedInv ==
  /\ pc = "wait" => at[<<line, "simple">>] \in {"exec", "run", "zombie"}
  /\ pc \in {"fork2", "close", "wait1"} =>
       at[<<line, "left">>] \in {"start", "exec", "run", "zombie"}
  /\ pc = "wait2" => at[<<line, "left">>] = "reaped"
  /\ pc \in {"close", "wait1", "wait2"} =>
       at[<<line, "right">>] \in {"start", "exec", "run", "zombie"}

\* A simple program and a right one are what they were when they began.
ProgramInv ==
  \A c \in Child : at[c] = "run" =>
    /\ c[2] = "right" => program[c] \in {ReadsAll, Idle, 0}
    /\ c[2] = "simple" => program[c] \in {Idle, 0}

HoldInv == HolderInv /\ AwaitedInv /\ ProgramInv

LEMMA HoldInit == Init => HoldInv
<1> SUFFICES ASSUME Init PROVE HoldInv
  OBVIOUS
<1> QED BY DEF Init, HoldInv, HolderInv, AwaitedInv, ProgramInv

\* The shell at steps that neither fork nor reap.
LEMMA ShellHold ==
  ASSUME IInv, HoldInv,
         ReadLine \/ Leave \/ ForkSimpleFails \/ Pipe \/ ForkFails \/ Close
  PROVE  HoldInv'
<1>1. Shell \notin Child /\ UNCHANGED <<at, program>>
  BY Children DEF ReadLine, Leave, ForkSimpleFails, Pipe, ForkFails, Close
<1>2. AwaitedInv'
  BY DEF HoldInv, AwaitedInv, ReadLine, Leave, ForkSimpleFails, Pipe, ForkFails, Close
<1>3. HolderInv'
  <2> USE DEF IInv, TypeOK, HoldInv, HolderInv, OwnEnd
  <2>1. CASE ReadLine \/ ForkSimpleFails
    BY <2>1 DEF ReadLine, ForkSimpleFails
  <2>2. CASE Leave
    BY <1>1, <2>2 DEF Leave
  <2>3. CASE Pipe
    BY <1>1, <2>3 DEF Pipe, Ends
  <2>4. CASE ForkFails
    BY <1>1, <2>4 DEF ForkFails
  <2>5. CASE Close
    <3>1. /\ pc' = "wait1" /\ UNCHANGED <<line, at, failed>>
          /\ ends'[Shell] = ends[Shell] \ Ends(line)
          /\ \A c \in Child : ends'[c] = ends[c]
      BY <1>1, <2>5 DEF Close
    <3>2. \A e \in ends'[Shell] : e[1] # line \/ e[1] \in failed
      <4>1. ends[Shell] \subseteq Line \X {"read", "write"}
        BY DEF TypeOK
      <4> QED BY <3>1, <4>1 DEF Ends
    <3>3. ASSUME NEW p \in Child \cup {Shell}, NEW e \in ends'[p], e[1] \notin failed'
          PROVE  /\ p \in {<<e[1], "left">>, <<e[1], "right">>} /\ at'[p] \in {"start", "exec", "run"}
                 /\ at'[p] = "start" \/ e = OwnEnd(p)
      <4>1. e \in ends[p] /\ e[1] \notin failed /\ ~(p = Shell /\ e[1] = line)
        BY <3>1, <3>2, <3>3
      <4> QED BY <3>1, <4>1
    <3> QED BY <3>3
  <2> QED BY <2>1, <2>2, <2>3, <2>4, <2>5
<1>4. ProgramInv'
  BY <1>1 DEF HoldInv, ProgramInv
<1> QED BY <1>2, <1>3, <1>4 DEF HoldInv

LEMMA ForkHold ==
  ASSUME IInv, HoldInv, ForkSimple \/ ForkLeft \/ ForkRight
  PROVE  HoldInv'
<1>1. PICK role \in {"simple", "left", "right"}, place \in {"start", "exec"} :
        /\ Fork(role, place, pc')
        /\ \/ pc = "fork" /\ role = "simple" /\ place = "exec" /\ pc' = "wait"
           \/ pc = "fork1" /\ role = "left" /\ place = "start" /\ pc' = "fork2"
           \/ pc = "fork2" /\ role = "right" /\ place = "start" /\ pc' = "close"
  BY DEF ForkSimple, ForkLeft, ForkRight, Fork
<1> DEFINE c == <<line, role>>
<1>2. line \in Line /\ line \notin failed
  BY <1>1 DEF IInv, LineInv, AtLine
<1>3. c \in Child /\ c # Shell /\ Shell \notin Child
  BY <1>2, Children
<1>4. /\ at'[c] = place /\ ends'[c] = ends[Shell] /\ UNCHANGED <<line, program, failed>>
      /\ \A p \in Child : p # c => at'[p] = at[p]
      /\ \A p \in Child \cup {Shell} : p # c => ends'[p] = ends[p]
  BY <1>1, <1>3 DEF Fork, IInv, TypeOK
<1>5. AwaitedInv'
  <2>1. <<line, "left">> \in Child /\ <<line, "left">> # <<line, "right">>
    BY <1>2, Children
  <2> QED BY <1>1, <1>3, <1>4, <2>1 DEF HoldInv, AwaitedInv
<1>6. HolderInv'
  <2> SUFFICES ASSUME NEW p \in Child \cup {Shell}, NEW e \in ends'[p], e[1] \notin failed'
               PROVE  \/ p = Shell /\ e[1] = line' /\ pc' \in {"fork1", "fork2", "close"}
                      \/ /\ p \in {<<e[1], "left">>, <<e[1], "right">>}
                         /\ at'[p] \in {"start", "exec", "run"}
                         /\ at'[p] = "start" \/ e = OwnEnd(p)
    BY DEF HolderInv
  <2>1. CASE p = c
    <3>1. e \in ends[Shell] /\ e[1] \notin failed
      BY <1>4, <2>1
    <3>2. e[1] = line /\ pc \in {"fork1", "fork2", "close"}
      BY <1>3, <3>1, Children DEF HoldInv, HolderInv, Shell
    <3> QED BY <1>1, <1>4, <2>1, <3>2
  <2>2. CASE p # c /\ p = Shell
    <3>1. e \in ends[Shell] /\ e[1] \notin failed
      BY <1>4, <2>2
    <3>2. e[1] = line /\ pc \in {"fork1", "fork2", "close"}
      BY <1>3, <3>1, Children DEF HoldInv, HolderInv, Shell
    <3> QED BY <1>1, <1>4, <2>2, <3>2
  <2>3. CASE p # c /\ p \in Child
    BY <1>3, <1>4, <2>3 DEF HoldInv, HolderInv
  <2> QED BY <2>1, <2>2, <2>3
<1>7. ProgramInv'
  BY <1>4 DEF HoldInv, ProgramInv
<1> QED BY <1>5, <1>6, <1>7 DEF HoldInv

LEMMA ReapHold ==
  ASSUME IInv, HoldInv, Wait \/ WaitLeft \/ WaitRight
  PROVE  HoldInv'
<1>1. /\ pc \in {"wait", "wait1", "wait2"} /\ line \in Line
      /\ pc' = IF pc = "wait1" THEN "wait2" ELSE "prompt"
  BY DEF Wait, WaitLeft, WaitRight, Reap, IInv, LineInv, AtLine
<1>2. PICK c \in Child : Reap(c, pc') /\ (pc = "wait1" => c = <<line, "left">>)
  BY <1>1, Children DEF Wait, WaitLeft, WaitRight, Reap
<1>3. /\ at[c] = "zombie" /\ at'[c] = "reaped" /\ UNCHANGED <<line, program, ends, failed>>
      /\ \A d \in Child : d # c => at'[d] = at[d]
  BY <1>2 DEF Reap, IInv, TypeOK
<1>4. AwaitedInv'
  <2>1. <<line, "right">> \in Child /\ <<line, "left">> # <<line, "right">>
    BY <1>1, Children
  <2> QED BY <1>1, <1>2, <1>3, <2>1 DEF HoldInv, AwaitedInv
<1>5. HolderInv'
  <2> SUFFICES ASSUME NEW p \in Child \cup {Shell}, NEW e \in ends'[p], e[1] \notin failed'
               PROVE  /\ p \in {<<e[1], "left">>, <<e[1], "right">>}
                      /\ at'[p] \in {"start", "exec", "run"}
                      /\ at'[p] = "start" \/ e = OwnEnd(p)
    BY DEF HolderInv
  <2>1. /\ p \in {<<e[1], "left">>, <<e[1], "right">>} /\ at[p] \in {"start", "exec", "run"}
        /\ at[p] = "start" \/ e = OwnEnd(p)
    BY <1>1, <1>3 DEF HoldInv, HolderInv
  <2>2. p # Shell
    BY <2>1 DEF Shell
  <2>3. p \in Child /\ p # c
    BY <1>3, <2>1, <2>2
  <2> QED BY <1>3, <2>1, <2>3
<1>6. ProgramInv'
  BY <1>3 DEF HoldInv, ProgramInv
<1> QED BY <1>4, <1>5, <1>6 DEF HoldInv

LEMMA ChildHold ==
  ASSUME IInv, HoldInv, NEW c \in Child, ChildStep(c)
  PROVE  HoldInv'
<1>1. /\ UNCHANGED <<pc, line, failed>> /\ at[c] \in {"start", "exec", "run"}
      /\ \A d \in Child : d # c => at'[d] = at[d]
      /\ \A p \in Child \cup {Shell} : p # c => ends'[p] = ends[p]
      /\ at'[c] \in {"exec", "run", "zombie"}
      /\ \/ at'[c] \in {"exec", "run"} /\ at[c] = "start" /\ ends'[c] = ends[c] \ OtherEnds(c)
         \/ at'[c] \in {"exec", "run"} /\ at[c] # "start" /\ ends'[c] = ends[c]
         \/ ends'[c] = {}
  BY DEF ChildStep, Redirect, Exec, WriteOut, HasRoom, ReadIn, HasInput, End, Ended, IInv, TypeOK
<1>2. AwaitedInv'
  <2>1. ASSUME NEW d \in Child, at[d] \in {"reaped", "zombie"} PROVE at'[d] = at[d]
    BY <1>1, <2>1
  <2>2. ASSUME NEW d \in Child, at[d] \in {"start", "exec", "run"}
        PROVE  at'[d] = at[d] \/ at'[d] \in {"exec", "run", "zombie"}
    BY <1>1, <2>2
  <2>3. AtLine => \A role \in {"simple", "left", "right"} : <<line, role>> \in Child
    BY Children DEF IInv, LineInv
  <2>4. pc = "wait" => at'[<<line, "simple">>] \in {"exec", "run", "zombie"}
    BY <2>1, <2>2, <2>3 DEF HoldInv, AwaitedInv, AtLine
  <2>5. pc \in {"fork2", "close", "wait1"} =>
          at'[<<line, "left">>] \in {"start", "exec", "run", "zombie"}
    BY <2>1, <2>2, <2>3 DEF HoldInv, AwaitedInv, AtLine
  <2>6. pc = "wait2" => at'[<<line, "left">>] = "reaped"
    BY <2>1, <2>3 DEF HoldInv, AwaitedInv, AtLine
  <2>7. pc \in {"close", "wait1", "wait2"} =>
          at'[<<line, "right">>] \in {"start", "exec", "run", "zombie"}
    BY <2>1, <2>2, <2>3 DEF HoldInv, AwaitedInv, AtLine
  <2> QED BY <1>1, <2>4, <2>5, <2>6, <2>7 DEF AwaitedInv
<1>3. HolderInv'
  <2> SUFFICES ASSUME NEW p \in Child \cup {Shell}, NEW e \in ends'[p], e[1] \notin failed'
               PROVE  \/ p = Shell /\ e[1] = line' /\ pc' \in {"fork1", "fork2", "close"}
                      \/ /\ p \in {<<e[1], "left">>, <<e[1], "right">>}
                         /\ at'[p] \in {"start", "exec", "run"}
                         /\ at'[p] = "start" \/ e = OwnEnd(p)
    BY DEF HolderInv
  <2>1. CASE p # c
    <3>1. \/ p = Shell /\ e[1] = line /\ pc \in {"fork1", "fork2", "close"}
          \/ /\ p \in {<<e[1], "left">>, <<e[1], "right">>} /\ at[p] \in {"start", "exec", "run"}
             /\ at[p] = "start" \/ e = OwnEnd(p)
      BY <1>1, <2>1 DEF HoldInv, HolderInv
    <3>2. p = Shell \/ at'[p] = at[p]
      BY <1>1, <2>1
    <3> QED BY <1>1, <3>1, <3>2, Children DEF Shell
  <2>2. CASE p = c
    <3>1. e \in ends[c] /\ e[1] \notin failed /\ c # Shell
      BY <1>1, <2>2, Children
    <3>2. /\ c \in {<<e[1], "left">>, <<e[1], "right">>}
          /\ at[c] = "start" \/ e = OwnEnd(c)
      BY <3>1 DEF HoldInv, HolderInv
    <3>3. at'[c] \in {"exec", "run"}
      BY <1>1, <2>2
    <3>4. e = OwnEnd(c)
      <4>1. e \in Line \X {"read", "write"} /\ c[1] = e[1]
        BY <3>1, <3>2 DEF IInv, TypeOK
      <4>2. at[c] = "start" => e \notin Ends(c[1]) \ {OwnEnd(c)}
        BY <1>1, <2>2 DEF OtherEnds
      <4>3. e \in Ends(c[1])
        BY <4>1 DEF Ends
      <4> QED BY <3>2, <4>2, <4>3
    <3> QED BY <2>2, <3>2, <3>3, <3>4
  <2> QED BY <2>1, <2>2
<1>4. ProgramInv'
  <2>1. \A d \in Child : d # c => program'[d] = program[d]
    BY DEF ChildStep, Redirect, Exec, WriteOut, ReadIn, End, IInv, TypeOK
  <2>2. CASE Redirect(c) \/ ReadIn(c) \/ End(c)
    BY <1>1, <2>1, <2>2 DEF Redirect, ReadIn, End, HoldInv, ProgramInv, IInv, TypeOK
  <2>3. CASE Exec(c)
    <3>1. program'[c] \in Programs(c[2])
      BY <2>3 DEF Exec, IInv, TypeOK
    <3> QED BY <1>1, <2>1, <3>1 DEF HoldInv, ProgramInv, Programs, ReadsAll, Endless, Idle
  <2>4. CASE WriteOut(c)
    <3>1. c[2] = "left"
      BY <2>4 DEF WriteOut, HasRoom
    <3> QED BY <1>1, <2>1, <3>1 DEF HoldInv, ProgramInv
  <2> QED BY <2>2, <2>3, <2>4 DEF ChildStep
<1> QED BY <1>2, <1>3, <1>4 DEF HoldInv

LEMMA HoldNext == IInv /\ HoldInv /\ [Next]_vars => HoldInv'
<1> SUFFICES ASSUME IInv, HoldInv, [Next]_vars PROVE HoldInv'
  OBVIOUS
<1>1. CASE ReadLine \/ Leave \/ ShellStep
  BY <1>1, ShellHold, ForkHold, ReapHold DEF ShellStep
<1>2. CASE \E c \in Child : ChildStep(c)
  BY <1>2, ChildHold
<1>3. CASE UNCHANGED vars
  BY <1>3 DEF HoldInv, HolderInv, AwaitedInv, ProgramInv, vars
<1> QED BY <1>1, <1>2, <1>3 DEF Next

LEMMA Holding == Spec => []HoldInv
BY HoldInit, HoldNext, Invariance, PTL DEF Spec

\* A program that is through with its redirection waits at the end of its pipe
\* for the other one of its line alone.
LEMMA OneHolder ==
  ASSUME IInv, HoldInv, AtLine, pc \in {"wait1", "wait2"}, NEW role \in {"left", "right"},
         at[<<line, role>>] \notin {"start", "exec", "run"},
         at[<<line, IF role = "left" THEN "right" ELSE "left">>] # "start"
  PROVE  ~Held(<<line, IF role = "left" THEN "write" ELSE "read">>)
<1>1. line \in Line /\ line \notin failed
  BY DEF IInv, LineInv
<1> DEFINE e == <<line, IF role = "left" THEN "write" ELSE "read">>
<1>2. SUFFICES ASSUME NEW p \in Child \cup {Shell}, e \in ends[p] PROVE FALSE
  BY DEF Held
<1>3. e[1] = line
  OBVIOUS
<1>4. /\ p \in {<<line, "left">>, <<line, "right">>} /\ at[p] \in {"start", "exec", "run"}
      /\ at[p] = "start" \/ e = OwnEnd(p)
  BY <1>1, <1>2, <1>3 DEF HoldInv, HolderInv
<1>5. p # <<line, role>> /\ at[p] # "start"
  BY <1>4
<1>6. e = OwnEnd(p) /\ p = <<line, IF role = "left" THEN "right" ELSE "left">>
  BY <1>4, <1>5
<1> QED BY <1>6 DEF OwnEnd

\* Where nothing can go on, the left program has ended or finds no reader, and
\* the right one no writer, if neither is one that leaves the pipe alone: the
\* shell waits for one that does not end by itself.
LEMMA Stuck == IInv /\ HoldInv => StuckOnlyIdle
<1> SUFFICES ASSUME IInv, HoldInv, AtLine, ~ShellCan, \A c \in Child : ~ChildCan(c)
             PROVE  HeldUpByItself
  BY DEF StuckOnlyIdle, AtLine
<1>1. /\ line \in Line
      /\ <<line, "simple">> \in Child /\ <<line, "left">> \in Child /\ <<line, "right">> \in Child
  BY Children DEF IInv, LineInv
<1>2. pc \in {"wait", "wait1", "wait2"}
  BY DEF ShellCan, IInv, TypeOK, AtLine
<1>3. \A c \in Child : at[c] \notin {"start", "exec"} /\ ~HasRoom(c) /\ ~HasInput(c) /\ ~Ended(c)
  BY DEF ChildCan
<1>4. CASE pc = "wait"
  <2>1. at[<<line, "simple">>] = "run"
    BY <1>1, <1>3, <1>4 DEF ShellCan, HoldInv, AwaitedInv
  <2>2. program[<<line, "simple">>] = Idle
    <3> DEFINE c == <<line, "simple">>
    <3>1. c \in Child /\ c[2] = "simple"
      BY <1>1
    <3>2. program[c] \in {Idle, 0}
      BY <2>1, <3>1 DEF HoldInv, ProgramInv
    <3>3. program[c] = 0 => Ended(c)
      BY <2>1, <3>1 DEF Ended, ReadsAll
    <3> QED BY <1>3, <3>1, <3>2, <3>3
  <2> QED BY <1>4, <2>1, <2>2 DEF HeldUpByItself, HeldUpBy
<1> DEFINE c == <<line, "left">>
           d == <<line, "right">>
<1>5. CASE pc = "wait1"
  <2>1. at[c] = "run" /\ c[2] = "left" /\ c[1] = line
    BY <1>1, <1>3, <1>5 DEF ShellCan, HoldInv, AwaitedInv
  <2> SUFFICES ASSUME ~HeldUpBy("left"), ~HeldUpBy("right") PROVE FALSE
    BY <1>5 DEF HeldUpByItself
  <2>2. program[c] \notin {Idle, 0} /\ Held(<<line, "read">>)
    <3>1. program[c] # Idle
      BY <2>1 DEF HeldUpBy
    <3>2. program[c] = 0 => Ended(c)
      BY <2>1 DEF Ended, ReadsAll
    <3>3. ~Ended(c)
      BY <1>1, <1>3
    <3>4. program[c] \notin {Idle, 0}
      BY <3>1, <3>2, <3>3
    <3>5. program[c] # ReadsAll
      BY <1>1, <2>1 DEF IInv, OutputInv
    <3>6. ~Held(<<line, "read">>) => Ended(c)
      BY <2>1, <3>4, <3>5 DEF Ended
    <3> QED BY <3>3, <3>4, <3>6
  <2>3. ~(pipe[line] < Capacity)
    BY <1>1, <1>3, <2>1, <2>2 DEF HasRoom
  <2>4. pipe[line] > 0
    BY <1>1, <2>3, CapacityAssumption DEF IInv, TypeOK
  <2>5. at[d] = "run" /\ d[2] = "right" /\ d[1] = line
    <3>1. at[d] \in {"run", "zombie"}
      BY <1>1, <1>3, <1>5 DEF HoldInv, AwaitedInv
    <3>2. at[d] # "zombie"
      BY <1>5, <2>1, <2>2, OneHolder
    <3> QED BY <3>1, <3>2
  <2>6. program[d] = ReadsAll
    <3>1. program[d] \in {ReadsAll, Idle, 0}
      BY <1>1, <2>5 DEF HoldInv, ProgramInv
    <3>2. program[d] # Idle
      BY <2>5 DEF HeldUpBy
    <3>3. program[d] = 0 => Ended(d)
      BY <2>5 DEF Ended, ReadsAll
    <3>4. ~Ended(d)
      BY <1>1, <1>3
    <3> QED BY <3>1, <3>2, <3>3, <3>4
  <2> QED BY <1>1, <1>3, <2>4, <2>5, <2>6 DEF HasInput
<1>6. CASE pc = "wait2"
  <2>1. at[c] = "reaped" /\ at[d] = "run" /\ d[2] = "right" /\ d[1] = line
    BY <1>1, <1>3, <1>6 DEF ShellCan, HoldInv, AwaitedInv
  <2> SUFFICES ASSUME ~HeldUpBy("right") PROVE FALSE
    BY <1>6 DEF HeldUpByItself
  <2>2. ~Held(<<line, "write">>)
    BY <1>6, <2>1, OneHolder
  <2>3. program[d] = ReadsAll
    <3>1. program[d] \in {ReadsAll, Idle, 0}
      BY <1>1, <2>1 DEF HoldInv, ProgramInv
    <3>2. program[d] # Idle
      BY <2>1 DEF HeldUpBy
    <3>3. program[d] = 0 => Ended(d)
      BY <2>1 DEF Ended, ReadsAll
    <3>4. ~Ended(d)
      BY <1>1, <1>3
    <3> QED BY <3>1, <3>2, <3>3, <3>4
  <2>4. pipe[line] > 0
    <3>1. pipe[line] # 0
      BY <1>1, <1>3, <2>1, <2>2, <2>3 DEF Ended
    <3> QED BY <1>1, <3>1, CapacityAssumption DEF IInv, TypeOK
  <2> QED BY <1>1, <1>3, <2>1, <2>3, <2>4 DEF HasInput
<1> QED BY <1>2, <1>4, <1>5, <1>6

-----------------------------------------------------------------------------
(* The theorems.                                                           *)

\* Every variable keeps its type: a pipe holds no more than fits into it.
THEOREM TypeCorrect == Spec => []TypeOK
<1>1. IInv => TypeOK
  BY DEF IInv
<1> QED BY <1>1, Invariance, PTL

\* At each prompt the shell has closed the pipes of all lines but those that a
\* fork failed for, and has reaped all children but one for each line whose
\* second fork failed.
THEOREM PromptCorrect == Spec => []CleanPrompt
<1>1. ASSUME IInv PROVE CleanPrompt
  <2> SUFFICES ASSUME pc = "prompt"
               PROVE  /\ ends[Shell] = UNION {Ends(l) : l \in failed}
                      /\ Cardinality(Unreaped) = Cardinality(lost)
    BY DEF CleanPrompt, Unreaped
  <2>1. ends[Shell] = FailedEnds
    BY <1>1 DEF IInv, EndsInv
  <2>2. Cardinality(Unreaped) = Cardinality(lost) + 0 /\ Cardinality(lost) \in Nat
    BY <1>1, Counted DEF IInv, CountInv, Awaited
  <2> QED BY <2>1, <2>2 DEF FailedEnds
<1> QED BY <1>1, Invariance, PTL

\* A line is never held up by its pipe: where neither the shell nor a program
\* can go on, the shell waits for a line of which a program does not end by
\* itself and leaves the pipe alone.
THEOREM StuckCorrect == Spec => []StuckOnlyIdle
BY Stuck, Invariance, Holding, PTL
=============================================================================
