-------------------------------- MODULE Shell --------------------------------
(***************************************************************************)
(* Three small shells that read a line, run its programs and wait for them: *)
(* src/Processes/MyBash and New_bash, and src/Pipe/BushFix, where a line may *)
(* be two programs with a pipe between them.  A pipe is at its end when     *)
(* nobody holds its write end, and a program that writes where nobody holds *)
(* the read end is killed, so it matters who has closed what.  A fork or a  *)
(* pipe call may fail.                                                      *)
(***************************************************************************)
EXTENDS Integers, FiniteSets

CONSTANTS MaxLines,     \* bound: lines that are typed
          Capacity,     \* what fits into a pipe
          MaxOutput     \* bound: what a program writes that ends by itself

ASSUME LinesAssumption == MaxLines \in Nat
ASSUME CapacityAssumption == Capacity \in Nat \ {0}
ASSUME OutputAssumption == MaxOutput \in Nat

VARIABLES
  kind,       \* which shell
  pc, line,   \* the shell: its place, lines it has read
  at,         \* place of each child
  program,    \* what each child runs
  ends,       \* process -> ends of pipes it holds
  pipe,       \* line -> what is in its pipe
  failed,     \* history: lines of which a fork failed after pipe
  lost        \* history: those of them that had a first child already

vars == <<kind, pc, line, at, program, ends, pipe, failed, lost>>

Line == 1..MaxLines
Child == Line \X {"simple", "left", "right"}
Ends(l) == {<<l, "read">>, <<l, "write">>}
Shell == <<0, "shell">>

\* The output of a left program, or one that never stops to write; a right
\* program reads all that comes or ends before; any of the three may be one that
\* does not end by itself and leaves the pipe alone.
Endless == -1
ReadsAll == -2
Idle == -3
Programs(role) ==
  CASE role = "left" -> 0..MaxOutput \cup {Endless, Idle}
    [] role = "right" -> {ReadsAll, Idle, 0}
    [] role = "simple" -> {Idle, 0}

Init ==
  /\ kind \in {"BushFix", "MyBash", "New_bash"}
  /\ pc = "prompt" /\ line = 0
  /\ at = [c \in Child |-> "none"]
  /\ program = [c \in Child |-> 0]
  /\ ends = [p \in Child \cup {Shell} |-> {}]
  /\ pipe = [l \in Line |-> 0]
  /\ failed = {} /\ lost = {}

Held(end) == \E p \in Child \cup {Shell} : end \in ends[p]

-----------------------------------------------------------------------------
(* The shell.                                                              *)

ReadLine ==
  /\ pc = "prompt" /\ line < MaxLines
  /\ line' = line + 1
  /\ \/ pc' = "fork"
     \/ kind = "BushFix" /\ pc' = "pipe"
  /\ UNCHANGED <<kind, at, program, ends, pipe, failed, lost>>

\* The word exit, or the end of the input.
Leave ==
  /\ pc = "prompt"
  /\ pc' = "exited"
  /\ ends' = [ends EXCEPT ![Shell] = {}]
  /\ UNCHANGED <<kind, line, at, program, pipe, failed, lost>>

\* A child begins with all that the shell holds, what failed lines have left
\* there included.
Fork(role, place, next) ==
  /\ at' = [at EXCEPT ![<<line, role>>] = place]
  /\ ends' = [ends EXCEPT ![<<line, role>>] = ends[Shell]]
  /\ pc' = next
  /\ UNCHANGED <<kind, line, program, pipe, failed, lost>>

ForkSimple == pc = "fork" /\ Fork("simple", "exec", "wait")

\* Only the message, and the next prompt.
ForkSimpleFails ==
  /\ pc = "fork" /\ pc' = "prompt"
  /\ UNCHANGED <<kind, line, at, program, ends, pipe, failed, lost>>

Reap(c, next) ==
  /\ at[c] = "zombie"
  /\ at' = [at EXCEPT ![c] = "reaped"]
  /\ pc' = next
  /\ UNCHANGED <<kind, line, program, ends, pipe, failed, lost>>

\* wait takes any child that has ended.
Wait == pc = "wait" /\ \E c \in Child : Reap(c, "prompt")

Pipe ==
  /\ pc = "pipe"
  /\ \/ pc' = "fork1" /\ ends' = [ends EXCEPT ![Shell] = @ \cup Ends(line)]
     \/ pc' = "prompt" /\ UNCHANGED ends
  /\ UNCHANGED <<kind, line, at, program, pipe, failed, lost>>

ForkLeft == pc = "fork1" /\ Fork("left", "start", "fork2")
ForkRight == pc = "fork2" /\ Fork("right", "start", "close")

\* The ends stay open, and a first child is not waited for.
ForkFails ==
  /\ pc \in {"fork1", "fork2"}
  /\ pc' = "prompt"
  /\ failed' = failed \cup {line}
  /\ lost' = IF pc = "fork2" THEN lost \cup {line} ELSE lost
  /\ UNCHANGED <<kind, line, at, program, ends, pipe>>

Close ==
  /\ pc = "close"
  /\ ends' = [ends EXCEPT ![Shell] = @ \ Ends(line)]
  /\ pc' = "wait1"
  /\ UNCHANGED <<kind, line, at, program, pipe, failed, lost>>

\* Mutant: the second child is not waited for.
WaitOnce == pc = "wait1" /\ Reap(<<line, "left">>, "prompt")
WaitLeft == pc = "wait1" /\ Reap(<<line, "left">>, "wait2")
WaitRight == pc = "wait2" /\ Reap(<<line, "right">>, "prompt")

ShellStep ==
  \/ ForkSimple \/ ForkSimpleFails \/ Wait
  \/ Pipe \/ ForkLeft \/ ForkRight \/ ForkFails \/ Close \/ WaitLeft \/ WaitRight

-----------------------------------------------------------------------------
(* The children.                                                           *)

\* The end that a child has made its output or input, and the other one.
OwnEnd(c) == <<c[1], IF c[2] = "left" THEN "write" ELSE "read">>

\* Mutant: the child keeps the end it does not use.
KeepOther(c) == {}
OtherEnds(c) == Ends(c[1]) \ {OwnEnd(c)}

Redirect(c) ==
  /\ at[c] = "start"
  /\ ends' = [ends EXCEPT ![c] = @ \ OtherEnds(c)]
  /\ at' = [at EXCEPT ![c] = "exec"]
  /\ UNCHANGED <<kind, pc, line, program, pipe, failed, lost>>

\* A program that is not found is one that ends, with a message as its output.
Exec(c) ==
  /\ at[c] = "exec"
  /\ \E p \in Programs(c[2]) : program' = [program EXCEPT ![c] = p]
  /\ at' = [at EXCEPT ![c] = "run"]
  /\ UNCHANGED <<kind, pc, line, ends, pipe, failed, lost>>

HasRoom(c) ==
  /\ at[c] = "run" /\ c[2] = "left" /\ program[c] \notin {Idle, 0}
  /\ Held(<<c[1], "read">>) /\ pipe[c[1]] < Capacity

WriteOut(c) ==
  /\ HasRoom(c)
  /\ pipe' = [pipe EXCEPT ![c[1]] = @ + 1]
  /\ program' = [program EXCEPT ![c] = IF @ = Endless THEN @ ELSE @ - 1]
  /\ UNCHANGED <<kind, pc, line, at, ends, failed, lost>>

HasInput(c) == at[c] = "run" /\ program[c] = ReadsAll /\ pipe[c[1]] > 0

ReadIn(c) ==
  /\ HasInput(c)
  /\ pipe' = [pipe EXCEPT ![c[1]] = @ - 1]
  /\ UNCHANGED <<kind, pc, line, at, program, ends, failed, lost>>

\* A child ends, by SIGPIPE or the end of its input, or because it is through.
Ended(c) ==
  /\ at[c] = "run"
  /\ CASE c[2] = "left" /\ program[c] \notin {Idle, 0} -> ~Held(<<c[1], "read">>)
       [] program[c] = ReadsAll -> pipe[c[1]] = 0 /\ ~Held(<<c[1], "write">>)
       [] OTHER -> program[c] = 0

End(c) ==
  /\ Ended(c)
  /\ at' = [at EXCEPT ![c] = "zombie"]
  /\ ends' = [ends EXCEPT ![c] = {}]
  /\ UNCHANGED <<kind, pc, line, program, pipe, failed, lost>>

ChildStep(c) == Redirect(c) \/ Exec(c) \/ WriteOut(c) \/ ReadIn(c) \/ End(c)

Next ==
  \/ ReadLine \/ Leave \/ ShellStep
  \/ \E c \in Child : ChildStep(c)

Spec == Init /\ [][Next]_vars

\* Every call returns and every program goes on; nobody has to type anything.
FairSpec ==
  /\ Spec
  /\ WF_vars(ShellStep)
  /\ \A c \in Child : WF_vars(ChildStep(c))

-----------------------------------------------------------------------------
(* Properties.                                                             *)

TypeOK ==
  /\ kind \in {"BushFix", "MyBash", "New_bash"}
  /\ pc \in {"prompt", "fork", "wait", "pipe", "fork1", "fork2", "close", "wait1", "wait2", "exited"}
  /\ line \in 0..MaxLines
  /\ at \in [Child -> {"none", "start", "exec", "run", "zombie", "reaped"}]
  /\ program \in [Child -> {ReadsAll, Endless, Idle} \cup 0..MaxOutput]
  /\ ends \in [Child \cup {Shell} -> SUBSET (Line \X {"read", "write"})]
  /\ pipe \in [Line -> 0..Capacity]
  /\ lost \subseteq failed /\ failed \subseteq Line

\* At the prompt the shell holds the ends of those pipes only that a fork had
\* failed for, and each line that had lost its second child has left one child
\* behind, its own or the one of a later line.
CleanPrompt ==
  pc = "prompt" =>
    /\ ends[Shell] = UNION {Ends(l) : l \in failed}
    /\ Cardinality({c \in Child : at[c] \notin {"none", "reaped"}}) = Cardinality(lost)

\* The guards of the steps: no call of the shell blocks but its waits, and no
\* program but where its pipe is full or empty.
ShellCan ==
  \/ pc \in {"fork", "pipe", "fork1", "fork2", "close"}
  \/ pc = "wait" /\ \E c \in Child : at[c] = "zombie"
  \/ pc = "wait1" /\ at[<<line, "left">>] = "zombie"
  \/ pc = "wait2" /\ at[<<line, "right">>] = "zombie"
ChildCan(c) == at[c] \in {"start", "exec"} \/ HasRoom(c) \/ HasInput(c) \/ Ended(c)

\* A line is held up by a program alone that does not end by itself, never by
\* its pipe: not by the two programs, one at a full pipe and one at its end,
\* nor by an end that somebody else has left open.
HeldUpBy(role) == at[<<line, role>>] = "run" /\ program[<<line, role>>] = Idle
HeldUpByItself ==
  \/ pc = "wait" /\ HeldUpBy("simple")
  \/ pc \in {"wait1", "wait2"} /\ (HeldUpBy("left") \/ HeldUpBy("right"))
StuckOnlyIdle ==
  pc \notin {"prompt", "exited"} /\ ~ShellCan /\ (\A c \in Child : ~ChildCan(c)) => HeldUpByItself

\* The programs of the line would never end, whatever the shell does.
NeverEnds ==
  \E l \in Line :
    /\ l = line
    /\ \/ \E role \in {"simple", "left", "right"} : program[<<l, role>>] = Idle
       \/ program[<<l, "left">>] = Endless /\ program[<<l, "right">>] = ReadsAll

\* Every line comes back to the prompt: the two programs of a pipe do not wait
\* for each other, nor for ends that somebody else has left open.
LineEnds == pc \notin {"prompt", "exited"} ~> pc = "prompt" \/ NeverEnds
=============================================================================
