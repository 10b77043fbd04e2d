------------------------------- MODULE Streams -------------------------------
(***************************************************************************)
(* src/Streams: shopper threads empty the shops until each has had what it *)
(* needs, a loader thread refills them.  Every shop has a mutex which both *)
(* only try to lock, going on to the next shop when it is taken.  main     *)
(* joins the shoppers, cancels the loader and destroys the mutexes.        *)
(***************************************************************************)
EXTENDS Integers

CONSTANTS Shopper, Loader,
          Nobody,         \* no thread: a mutex that is free
          S,              \* number of shops
          FirstProduct,   \* what a shop may start with
          FirstNeed,      \* what a shopper may need
          Load,           \* what the loader adds
          MaxProduct      \* bound: the loader leaves a fuller shop as it is

ASSUME SAssumption == S \in Nat \ {0}
ASSUME AmountAssumption ==
  FirstProduct \subseteq Nat /\ FirstNeed \subseteq Nat /\ Load \in Nat /\ MaxProduct \in Nat
ASSUME ThreadAssumption == Loader \notin Shopper /\ Nobody \notin Shopper \cup {Loader}

VARIABLES
  product, need,    \* myShop[].product, myShopper[].need
  owner,            \* shop_mutex[]: who holds it
  pc, shop_index,   \* of each thread: place, loop variable
  tmp,              \* the loader's copy of the product while it adds
  main,             \* place of main
  destroyed,        \* mutexes that pthread_mutex_destroy accepted
  stocked, sold     \* history: all that a shop was given, all that it sold

vars == <<product, need, owner, pc, shop_index, tmp, main, destroyed, stocked, sold>>

Shop == 0..S - 1
Thread == Shopper \cup {Loader}
Here(t) == shop_index[t]
Goto(t, place) == pc' = [pc EXCEPT ![t] = place]

Init ==
  /\ product \in [Shop -> FirstProduct]
  /\ need \in [Shopper -> FirstNeed]
  /\ owner = [s \in Shop |-> Nobody]
  /\ pc = [t \in Thread |-> "round"]
  /\ shop_index = [t \in Thread |-> 0]
  /\ tmp = 0
  /\ main = "join"
  /\ destroyed = {}
  /\ stocked = product
  /\ sold = [s \in Shop |-> 0]

-----------------------------------------------------------------------------
(* What shoppers and the loader have in common.                            *)

LastShop(t) == Here(t) = S - 1

\* Going on to the next shop, or to the end of the round.
NextShop(t) ==
  \/ /\ ~LastShop(t)
     /\ Goto(t, "try") /\ shop_index' = [shop_index EXCEPT ![t] = @ + 1]
  \/ /\ LastShop(t)
     /\ Goto(t, "round") /\ shop_index' = [shop_index EXCEPT ![t] = 0]

\* Mutant: the lock's result is not looked at.
AnyMutex(t) == TRUE
FreeMutex(t) == owner[Here(t)] = Nobody

\* pthread_mutex_trylock succeeds.
Enter(t) ==
  /\ pc[t] = "try" /\ FreeMutex(t)
  /\ owner' = [owner EXCEPT ![Here(t)] = t]
  /\ Goto(t, "in")
  /\ UNCHANGED <<product, need, shop_index, tmp, main, destroyed, stocked, sold>>

FindBusy(t) ==
  /\ pc[t] = "try" /\ ~FreeMutex(t)
  /\ Goto(t, "busy")
  /\ UNCHANGED <<product, need, owner, shop_index, tmp, main, destroyed, stocked, sold>>

GoOn(t) ==
  /\ pc[t] = "busy"
  /\ NextShop(t)
  /\ UNCHANGED <<product, need, owner, tmp, main, destroyed, stocked, sold>>

Unlock(t) == owner' = [owner EXCEPT ![Here(t)] = Nobody]

-----------------------------------------------------------------------------
(* pthread_shopper.                                                        *)

\* Mutant: a shopper who has had too much goes on.
NotExactly(t) == need[t] # 0
StillNeeds(t) == need[t] > 0

StartRound(t) ==
  /\ pc[t] = "round" /\ StillNeeds(t)
  /\ Goto(t, "try")
  /\ UNCHANGED <<product, need, owner, shop_index, tmp, main, destroyed, stocked, sold>>

Sated(t) ==
  /\ pc[t] = "round" /\ ~StillNeeds(t)
  /\ Goto(t, "done")
  /\ UNCHANGED <<product, need, owner, shop_index, tmp, main, destroyed, stocked, sold>>

\* need -= product
Buy(t) ==
  /\ pc[t] = "in" /\ product[Here(t)] > 0
  /\ need' = [need EXCEPT ![t] = @ - product[Here(t)]]
  /\ sold' = [sold EXCEPT ![Here(t)] = @ + product[Here(t)]]
  /\ Goto(t, "bought")
  /\ UNCHANGED <<product, owner, shop_index, tmp, main, destroyed, stocked>>

\* product = 0
Empty(t) ==
  /\ pc[t] = "bought"
  /\ product' = [product EXCEPT ![Here(t)] = 0]
  /\ Goto(t, "out")
  /\ UNCHANGED <<need, owner, shop_index, tmp, main, destroyed, stocked, sold>>

FindEmpty(t) ==
  /\ pc[t] = "in" /\ product[Here(t)] = 0
  /\ Goto(t, "out")
  /\ UNCHANGED <<product, need, owner, shop_index, tmp, main, destroyed, stocked, sold>>

\* The mutex is unlocked; a shopper that has enough leaves the round.
LeaveShop(t) ==
  /\ pc[t] = "out"
  /\ Unlock(t)
  /\ \/ /\ need[t] <= 0
        /\ Goto(t, "round") /\ UNCHANGED shop_index
     \/ need[t] > 0 /\ NextShop(t)
  /\ UNCHANGED <<product, need, tmp, main, destroyed, stocked, sold>>

ShopperStep(t) ==
  \/ StartRound(t) \/ Sated(t) \/ Enter(t) \/ FindBusy(t) \/ GoOn(t)
  \/ Buy(t) \/ Empty(t) \/ FindEmpty(t) \/ LeaveShop(t)

-----------------------------------------------------------------------------
(* pthread_loader.                                                         *)

\* sleep and usleep are cancellation points: they do not return once the
\* thread is cancelled.
SleepReturns == main = "join"

StartLoading ==
  /\ pc[Loader] = "round" /\ SleepReturns
  /\ Goto(Loader, "try")
  /\ UNCHANGED <<product, need, owner, shop_index, tmp, main, destroyed, stocked, sold>>

\* product += 200 is a load and a store.
ReadProduct ==
  /\ pc[Loader] = "in"
  /\ tmp' = product[Here(Loader)]
  /\ Goto(Loader, "adding")
  /\ UNCHANGED <<product, need, owner, shop_index, main, destroyed, stocked, sold>>

Amount == IF tmp <= MaxProduct THEN Load ELSE 0

StoreProduct ==
  /\ pc[Loader] = "adding"
  /\ product' = [product EXCEPT ![Here(Loader)] = tmp + Amount]
  /\ stocked' = [stocked EXCEPT ![Here(Loader)] = @ + Amount]
  /\ tmp' = 0
  /\ Goto(Loader, "added")
  /\ UNCHANGED <<need, owner, shop_index, main, destroyed, sold>>

LeaveLoaded ==
  /\ pc[Loader] = "added"
  /\ Unlock(Loader)
  /\ NextShop(Loader)
  /\ UNCHANGED <<product, need, tmp, main, destroyed, stocked, sold>>

LoaderStep ==
  \/ StartLoading \/ Enter(Loader) \/ FindBusy(Loader) \/ (SleepReturns /\ GoOn(Loader))
  \/ ReadProduct \/ StoreProduct \/ LeaveLoaded

\* The thread ends in sleep or usleep, or in a printf, which may be a
\* cancellation point too: two of them run with the mutex locked, and there is
\* no cleanup handler.
CancelPoint == {"round", "busy", "in", "added"}

Cancelled ==
  /\ main = "cancel" /\ pc[Loader] \in CancelPoint
  /\ Goto(Loader, "cancelled")
  /\ UNCHANGED <<product, need, owner, shop_index, tmp, main, destroyed, stocked, sold>>

-----------------------------------------------------------------------------
(* main.                                                                   *)

\* Mutant: one shopper is not waited for.
AllButOne == \E u \in Shopper : \A t \in Shopper \ {u} : pc[t] = "done"
Joined == \A t \in Shopper : pc[t] = "done"

CancelLoader ==
  /\ main = "join" /\ Joined
  /\ main' = "cancel"
  /\ UNCHANGED <<product, need, owner, pc, shop_index, tmp, destroyed, stocked, sold>>

\* pthread_mutex_destroy refuses a locked mutex with EBUSY, which is not looked at.
DestroyMutexes ==
  /\ main = "cancel" /\ pc[Loader] = "cancelled"
  /\ destroyed' = {s \in Shop : owner[s] = Nobody}
  /\ main' = "exit"
  /\ UNCHANGED <<product, need, owner, pc, shop_index, tmp, stocked, sold>>

MainStep == CancelLoader \/ DestroyMutexes

Exited == main = "exit" /\ UNCHANGED vars

Next ==
  \/ \E t \in Shopper : ShopperStep(t)
  \/ LoaderStep \/ Cancelled \/ MainStep \/ Exited

Spec == Init /\ [][Next]_vars

\* Every thread is scheduled.  That is all: a thread may find a shop taken at
\* each of its tries.
FairSpec ==
  /\ Spec
  /\ \A t \in Shopper : WF_vars(ShopperStep(t))
  /\ WF_vars(LoaderStep) /\ WF_vars(Cancelled) /\ WF_vars(MainStep)

-----------------------------------------------------------------------------
(* Properties.                                                             *)

TypeOK ==
  /\ product \in [Shop -> Nat]
  /\ need \in [Shopper -> Int]
  /\ owner \in [Shop -> Thread \cup {Nobody}]
  /\ pc \in [Thread -> {"round", "try", "busy", "in", "bought", "out", "done",
                        "adding", "added", "cancelled"}]
  /\ shop_index \in [Thread -> Shop]
  /\ tmp \in Nat
  /\ main \in {"join", "cancel", "exit"}
  /\ destroyed \subseteq Shop
  /\ stocked \in [Shop -> Nat] /\ sold \in [Shop -> Nat]

\* Nothing is bought twice and no load is lost: what a shop was given is what
\* it sold and what is on its shelf, except that between the two halves of a
\* purchase the shelf still holds what was just sold.
HalfSold(s) == \E t \in Shopper : pc[t] = "bought" /\ Here(t) = s
Conservation ==
  \A s \in Shop : stocked[s] = sold[s] + (IF HalfSold(s) THEN 0 ELSE product[s])

\* Shoppers and the loader seem to be alone in the shops: a purchase is made
\* when it lowers the need, for the goods on the shelf are nobody's then, and a
\* load when it is stored, whatever was sold elsewhere since it was begun.
Shelf == [s \in Shop |-> IF HalfSold(s) THEN 0 ELSE product[s]]
Shops == INSTANCE Shops WITH shelf <- Shelf, wanted <- need
ShopsSpec == Shops!Spec

\* When the mutexes are destroyed no shopper is at work any more, and at most
\* the one shop in which the loader was cancelled keeps its mutex.
CleanEnd ==
  main = "exit" => /\ \A t \in Shopper : need[t] <= 0
                   /\ Shop \ destroyed \subseteq {Here(Loader)}

\* When all shoppers have had enough the program ends, though the loader's
\* loop does not.
EndsWhenSated == (\A t \in Shopper : need[t] <= 0) ~> main = "exit"
=============================================================================
