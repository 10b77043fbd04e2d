-------------------------------- MODULE Shops --------------------------------
(***************************************************************************)
(* What src/Streams promises of its shops: a shopper who still needs       *)
(* something takes all that a shop has in one step, and a shop whose shelf *)
(* is low is refilled in one step.                                         *)
(***************************************************************************)
EXTENDS Integers

CONSTANTS Shopper, Shop, FirstProduct, FirstNeed, Load, MaxProduct

VARIABLES
  shelf,    \* what a shop has to sell
  wanted    \* what a shopper still needs, less than 0 if it had too much

Init ==
  /\ shelf \in [Shop -> FirstProduct]
  /\ wanted \in [Shopper -> FirstNeed]

Take(t, s) ==
  /\ wanted[t] > 0 /\ shelf[s] > 0
  /\ wanted' = [wanted EXCEPT ![t] = @ - shelf[s]]
  /\ shelf' = [shelf EXCEPT ![s] = 0]

Refill(s) ==
  /\ shelf[s] <= MaxProduct
  /\ shelf' = [shelf EXCEPT ![s] = @ + Load]
  /\ UNCHANGED wanted

Next == \E s \in Shop : Refill(s) \/ \E t \in Shopper : Take(t, s)

Spec == Init /\ [][Next]_<<shelf, wanted>>
=============================================================================
