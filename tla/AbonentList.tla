----------------------------- MODULE AbonentList -----------------------------
(***************************************************************************)
(* src/AbonentList: a directory of abonents kept as a doubly linked list   *)
(* with a head, a tail and a count, behind a menu.                         *)
(*                                                                         *)
(* A node is an address that malloc may give, and may give again once it   *)
(* was freed; a freed node keeps its fields, as memory does.  Every walk   *)
(* along the list goes one node a step.  A command that finds the          *)
(* directory empty, a malloc that fails and a wrong number typed at the    *)
(* menu change nothing and are no steps.                                   *)
(***************************************************************************)
EXTENDS Integers, Sequences

CONSTANTS Node, NULL,
          Name, SecondName, Tel,    \* what a user types
          NoKey                     \* nothing is looked for

ASSUME NullAssumption == NULL \notin Node

Abonent == [name : Name, second_name : SecondName, tel : Tel]
Key == [name : Name, second_name : SecondName]

ASSUME KeyAssumption == NoKey \notin Key \cup Name

VARIABLES
  head, tail, count,   \* struct abonents
  next, prev, data,    \* the fields of struct abonent, by address
  live,                \* addresses that are allocated
  pc,                  \* the command at work, or the menu
  current,             \* its walk
  wanted,              \* the key delete_abonent, the name search_by_name looks for
  order,               \* history: nodes added and not freed, oldest first
  shown                \* history: nodes printed by this walk

list == <<head, tail, count, next, prev, data, live, order>>
vars == <<head, tail, count, next, prev, data, live, pc, current, wanted,
          order, shown>>

Listing == {"search", "forward", "reverse"}
Closing == {"clear", "exit"}

Init ==
  /\ head = NULL /\ tail = NULL /\ count = 0
  /\ next = [n \in Node |-> NULL] /\ prev = [n \in Node |-> NULL]
  /\ data \in {[n \in Node |-> a] : a \in Abonent}
  /\ live = {}
  /\ pc = "menu" /\ current = NULL /\ wanted = NoKey
  /\ order = <<>> /\ shown = <<>>

-----------------------------------------------------------------------------
(* Helpers.                                                                *)

\* The k-th node of the history, NULL before the first and after the last.
At(k) == IF k \in 1..Len(order) THEN order[k] ELSE NULL

\* The history without a node.
Listed == {order[k] : k \in 1..Len(order)}
Without(n) ==
  IF n \notin Listed THEN order
  ELSE LET k == CHOOSE k \in 1..Len(order) : order[k] = n
       IN [j \in 1..Len(order) - 1 |-> IF j < k THEN order[j] ELSE order[j + 1]]

\* A walk starts, and a command ends.
Walk(command, from) == pc' = command /\ current' = from
ToMenu ==
  /\ pc' = "menu" /\ current' = NULL /\ wanted' = NoKey /\ shown' = <<>>

\* add_abonent's links at the end of the list.
\* Mutant: the new node does not point back.
LinkedForward(n) ==
  /\ head' = head
  /\ next' = [next EXCEPT ![n] = NULL, ![tail] = n]
  /\ prev' = [prev EXCEPT ![n] = NULL]
LinkedLast(n) ==
  /\ head' = head
  /\ next' = [next EXCEPT ![n] = NULL, ![tail] = n]
  /\ prev' = [prev EXCEPT ![n] = tail]

\* delete_abonent's comparison.  Mutant: the second name is not compared.
SameName(n, key) == data[n].name = key.name
SameKey(n, key) == data[n].name = key.name /\ data[n].second_name = key.second_name

\* What follows a deleted node points to what precedes it.
\* Mutant: the tail stays when the last node goes.
TailStays(n) ==
  /\ tail' = tail
  /\ prev' = IF next[n] # NULL THEN [prev EXCEPT ![next[n]] = prev[n]] ELSE prev
BridgeBack(n) ==
  IF next[n] # NULL
  THEN prev' = [prev EXCEPT ![next[n]] = prev[n]] /\ UNCHANGED tail
  ELSE tail' = prev[n] /\ UNCHANGED prev

\* What precedes a deleted node points to what follows it.
BridgeForward(n) ==
  IF prev[n] # NULL
  THEN next' = [next EXCEPT ![prev[n]] = next[n]] /\ UNCHANGED head
  ELSE head' = next[n] /\ UNCHANGED next

-----------------------------------------------------------------------------
(* add_abonent, with create_abonent: every field of the node is set.       *)

Add(n, a) ==
  /\ pc = "menu" /\ n \notin live
  /\ live' = live \cup {n}
  /\ data' = [data EXCEPT ![n] = a]
  /\ \/ /\ head = NULL
        /\ head' = n
        /\ next' = [next EXCEPT ![n] = NULL]
        /\ prev' = [prev EXCEPT ![n] = NULL]
     \/ /\ head # NULL
        /\ LinkedLast(n)
  /\ tail' = n
  /\ count' = count + 1
  /\ order' = Append(order, n)
  /\ UNCHANGED <<pc, current, wanted, shown>>

-----------------------------------------------------------------------------
(* delete_abonent.                                                         *)

StartDelete(key) ==
  /\ pc = "menu" /\ count # 0
  /\ wanted' = key
  /\ Walk("delete", head)
  /\ UNCHANGED <<list, shown>>

FindNext ==
  /\ pc = "delete" /\ current # NULL /\ ~SameKey(current, wanted)
  /\ current' = next[current]
  /\ UNCHANGED <<list, pc, wanted, shown>>

NotFound ==
  /\ pc = "delete" /\ current = NULL
  /\ ToMenu
  /\ UNCHANGED list

Delete ==
  /\ pc = "delete" /\ current # NULL /\ SameKey(current, wanted)
  /\ BridgeForward(current)
  /\ BridgeBack(current)
  /\ live' = live \ {current}
  /\ count' = count - 1
  /\ order' = Without(current)
  /\ ToMenu
  /\ UNCHANGED data

-----------------------------------------------------------------------------
(* search_by_name, display_all and display_all_reverse.                    *)

StartSearch(x) ==
  /\ pc = "menu" /\ count # 0
  /\ wanted' = x
  /\ Walk("search", head)
  /\ UNCHANGED <<list, shown>>

StartForward ==
  /\ pc = "menu" /\ count # 0
  /\ Walk("forward", head)
  /\ UNCHANGED <<list, wanted, shown>>

StartReverse ==
  /\ pc = "menu" /\ count # 0
  /\ Walk("reverse", tail)
  /\ UNCHANGED <<list, wanted, shown>>

\* One round of a listing: the node is printed, if it is one to print.
Wanted(n) == pc = "search" => data[n].name = wanted
Follow(n) == IF pc = "reverse" THEN prev[n] ELSE next[n]

ShowNext ==
  /\ pc \in Listing /\ current # NULL
  /\ shown' = IF Wanted(current) THEN Append(shown, current) ELSE shown
  /\ current' = Follow(current)
  /\ UNCHANGED <<list, pc, wanted>>

ShowDone ==
  /\ pc \in Listing /\ current = NULL
  /\ ToMenu
  /\ UNCHANGED list

-----------------------------------------------------------------------------
(* clear_directory, the last thing that the program does: head, tail and   *)
(* count change only when all nodes are freed.                             *)

StartClear ==
  /\ pc = "menu"
  /\ Walk("clear", head)
  /\ UNCHANGED <<list, wanted, shown>>

ClearNext ==
  /\ pc = "clear" /\ current # NULL
  /\ live' = live \ {current}
  /\ order' = Without(current)
  /\ current' = next[current]
  /\ UNCHANGED <<head, tail, count, next, prev, data, pc, wanted, shown>>

ClearDone ==
  /\ pc = "clear" /\ current = NULL
  /\ head' = NULL /\ tail' = NULL /\ count' = 0
  /\ pc' = "exit"
  /\ UNCHANGED <<next, prev, data, live, current, wanted, order, shown>>

\* The program has ended.
Exited == pc = "exit" /\ UNCHANGED vars

Next ==
  \/ \E n \in Node, a \in Abonent : Add(n, a)
  \/ \E key \in Key : StartDelete(key)
  \/ FindNext \/ NotFound \/ Delete
  \/ \E x \in Name : StartSearch(x)
  \/ StartForward \/ StartReverse \/ ShowNext \/ ShowDone
  \/ StartClear \/ ClearNext \/ ClearDone \/ Exited

Spec == Init /\ [][Next]_vars

-----------------------------------------------------------------------------
(* Properties.                                                             *)

\* Every variable has its type.
TypeOK ==
  /\ {head, tail, current} \subseteq Node \cup {NULL} /\ count \in Nat
  /\ next \in [Node -> Node \cup {NULL}] /\ prev \in [Node -> Node \cup {NULL}]
  /\ data \in [Node -> Abonent]
  /\ live \subseteq Node
  /\ pc \in {"menu", "delete"} \cup Listing \cup Closing
  /\ wanted \in Key \cup Name \cup {NoKey}
  /\ order \in Seq(Node) /\ shown \in Seq(Node)

Distinct == \A j, k \in 1..Len(order) : order[j] = order[k] => j = k
NextLinks == \A k \in 1..Len(order) : next[order[k]] = At(k + 1)
PrevLinks == \A k \in 1..Len(order) : prev[order[k]] = At(k - 1)
Ends == head = At(1) /\ tail = At(Len(order)) /\ count = Len(order)

\* The heap is the list: what is allocated is what was added and not freed,
\* no node twice; next, prev, head, tail and count are those of that list, and
\* a walk stands on one of its nodes or at an end.  clear_directory (clear.c
\* 11-16) leaves head, tail, count and the prev of its next node behind, but
\* takes the nodes in order, and nothing is allocated when the program ends.
WellLinked ==
  /\ live = Listed /\ Distinct /\ NextLinks
  /\ pc \notin Closing => Ends /\ PrevLinks /\ current \in live \cup {NULL}
  /\ pc = "clear" => current = At(1)
  /\ pc = "exit" => order = <<>>

\* A listing comes to m before it comes to n.
Before(m, n) ==
  \E j, k \in 1..Len(order) :
    order[j] = m /\ order[k] = n /\ IF pc = "reverse" THEN k < j ELSE j < k

\* A listing (displayPrint.c 21-28, 50-57, search.c 46-57) shows every abonent
\* that it should, once and in its order: no node is printed out of turn, twice
\* or by mistake, none is passed over, and none is missing at the end.
ListsAll ==
  pc \in Listing =>
    LET ToShow == {n \in Listed : Wanted(n)}
        Printed == {shown[k] : k \in 1..Len(shown)}
    IN /\ Printed \subseteq ToShow
       /\ \A j, k \in 1..Len(shown) : j < k => Before(shown[j], shown[k])
       /\ \A n \in Printed : {m \in ToShow : Before(m, n)} \subseteq Printed
       /\ current = NULL => Printed = ToShow

\* To its user the heap of nodes is a sequence of abonents: delete_abonent
\* (remove.c 29-71) removes the first one asked for and nothing else, and says
\* that there is none only if there is none; clear_directory gives up the list
\* from its front.
Abstract == INSTANCE Directory WITH
              abonents <- [k \in 1..Len(order) |-> data[order[k]]],
              asked <- IF pc = "delete" THEN wanted ELSE NoKey,
              closing <- pc \in Closing

DirectorySpec == Abstract!Spec
=============================================================================
