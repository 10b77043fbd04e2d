------------------------------ MODULE Directory ------------------------------
(***************************************************************************)
(* What the list of src/AbonentList promises its user: a sequence of       *)
(* abonents, added at the end.  Asked to delete an abonent, it removes the *)
(* first one with that name and second name, and says that there is none   *)
(* only if there is none.  It is given up from its front when the program  *)
(* ends.                                                                   *)
(***************************************************************************)
EXTENDS Naturals, Sequences

CONSTANTS Abonent, Key, NoKey

VARIABLES abonents,  \* the directory
          asked,     \* the key of a deletion that is not answered yet
          closing    \* the user has chosen to leave

Matches(a, key) == a.name = key.name /\ a.second_name = key.second_name

Without(s, k) == [j \in 1..Len(s) - 1 |-> IF j < k THEN s[j] ELSE s[j + 1]]

Init == abonents = <<>> /\ asked = NoKey /\ closing = FALSE

Add(a) ==
  /\ asked = NoKey /\ ~closing
  /\ abonents' = Append(abonents, a)
  /\ UNCHANGED <<asked, closing>>

Ask(key) ==
  /\ asked = NoKey /\ ~closing
  /\ asked' = key
  /\ UNCHANGED <<abonents, closing>>

\* The first abonent with the key goes ...
Remove ==
  /\ asked # NoKey
  /\ \E k \in 1..Len(abonents) :
       /\ Matches(abonents[k], asked)
       /\ \A j \in 1..k - 1 : ~Matches(abonents[j], asked)
       /\ abonents' = Without(abonents, k)
  /\ asked' = NoKey
  /\ UNCHANGED closing

\* ... or there is none.
Refuse ==
  /\ asked # NoKey
  /\ \A k \in 1..Len(abonents) : ~Matches(abonents[k], asked)
  /\ asked' = NoKey
  /\ UNCHANGED <<abonents, closing>>

Close ==
  /\ asked = NoKey /\ ~closing
  /\ closing' = TRUE
  /\ UNCHANGED <<abonents, asked>>

GiveUp ==
  /\ closing /\ abonents # <<>>
  /\ abonents' = Tail(abonents)
  /\ UNCHANGED <<asked, closing>>

Next ==
  \/ \E a \in Abonent : Add(a)
  \/ \E key \in Key : Ask(key)
  \/ Remove \/ Refuse \/ Close \/ GiveUp

Spec == Init /\ [][Next]_<<abonents, asked, closing>>
=============================================================================
