---------------------------- MODULE StreamsProofs ----------------------------
(***************************************************************************)
(* What holds of the shops for any number of shops, shoppers and amounts.  *)
(***************************************************************************)
EXTENDS Streams, TLAPS

Holding == {"in", "bought", "out", "adding", "added"}

\* Whoever is in a shop holds its mutex, so it is there alone.
HoldersOwn == \A t \in Thread : pc[t] \in Holding => owner[Here(t)] = t

\* A mutex is held by nobody else than a thread that is in its shop, or that
\* was cancelled there.
OwnersHold ==
  \A s \in Shop : owner[s] # Nobody =>
    Here(owner[s]) = s /\ pc[owner[s]] \in Holding \cup {"cancelled"}

\* What the loader has read is still what is on the shelf.
FreshCopy == pc[Loader] = "adding" => tmp = product[Here(Loader)]

\* What main has waited for.
Ended ==
  /\ \A t \in Shopper : pc[t] = "done" => need[t] <= 0
  /\ main # "join" => \A t \in Shopper : pc[t] = "done"
  /\ main = "exit" => pc[Loader] = "cancelled" /\ Shop \ destroyed \subseteq {Here(Loader)}

Exclusion == TypeOK /\ HoldersOwn /\ OwnersHold
IInv == Exclusion /\ FreshCopy /\ Conservation /\ Ended

\* The loop over the shops stays among the shops.
LEMMA NextShopTyped ==
  ASSUME TypeOK, NEW t \in Thread, NextShop(t)
  PROVE  /\ shop_index' \in [Thread -> Shop]
         /\ \A u \in Thread : u # t => shop_index'[u] = shop_index[u]
         /\ pc' = [pc EXCEPT ![t] = "try"] \/ pc' = [pc EXCEPT ![t] = "round"]
<1>1. shop_index \in [Thread -> 0..S - 1] /\ pc \in [Thread -> {"round", "try", "busy", "in",
                        "bought", "out", "done", "adding", "added", "cancelled"}]
  BY DEF TypeOK, Shop
<1>2. shop_index[t] \in 0..S - 1 /\ 0 \in 0..S - 1
  BY <1>1, SAssumption
<1>3. CASE ~LastShop(t)
  <2>1. shop_index[t] + 1 \in 0..S - 1
    BY <1>2, <1>3, SAssumption DEF LastShop, Here
  <2>2. shop_index' = [shop_index EXCEPT ![t] = shop_index[t] + 1] /\ pc' = [pc EXCEPT ![t] = "try"]
    BY <1>3 DEF NextShop, Goto
  <2> QED BY <2>1, <2>2, <1>1 DEF Shop
<1>4. CASE LastShop(t)
  <2>1. shop_index' = [shop_index EXCEPT ![t] = 0] /\ pc' = [pc EXCEPT ![t] = "round"]
    BY <1>4 DEF NextShop, Goto
  <2> QED BY <2>1, <1>1, <1>2 DEF Shop
<1> QED BY <1>3, <1>4

LEMMA InvInit == Init => IInv
<1> SUFFICES ASSUME Init PROVE IInv
  OBVIOUS
<1> USE SAssumption, AmountAssumption, ThreadAssumption DEF Init
<1>1. 0 \in Shop /\ Loader \in Thread /\ Shopper \subseteq Thread
  BY DEF Shop, Thread
<1>2. product \in [Shop -> Nat] /\ need \in [Shopper -> Int] /\ stocked = product
  <2>1. product \in [Shop -> FirstProduct] /\ need \in [Shopper -> FirstNeed]
    BY DEF Init
  <2>2. \A s \in Shop : product[s] \in Nat
    BY <2>1
  <2>3. \A t \in Shopper : need[t] \in Int
    <3>1. \A n \in FirstNeed : n \in Int
      OBVIOUS
    <3> HIDE DEF Init
    <3> QED BY <2>1, <3>1
  <2> QED BY <2>1, <2>2, <2>3
<1>3. TypeOK
  BY <1>1, <1>2 DEF TypeOK
<1>4. HoldersOwn /\ OwnersHold /\ FreshCopy /\ Ended
  BY <1>1 DEF HoldersOwn, OwnersHold, FreshCopy, Ended, Holding
<1>5. Conservation
  <2>1. \A s \in Shop : ~HalfSold(s)
    BY <1>1 DEF HalfSold
  <2>2. \A s \in Shop : sold[s] = 0 /\ stocked[s] = product[s] /\ product[s] \in Nat
    BY <1>2
  <2> QED BY <2>1, <2>2 DEF Conservation
<1> QED BY <1>3, <1>4, <1>5 DEF IInv, Exclusion

-----------------------------------------------------------------------------
(* Steps that move one thread and touch neither goods nor mutexes.         *)

LEMMA QuietStep ==
  ASSUME IInv, NEW t \in Thread, NEW place \in {"round", "try", "busy", "done"},
         pc[t] \in {"round", "try", "busy"}, pc' = [pc EXCEPT ![t] = place],
         shop_index' \in [Thread -> Shop],
         \A u \in Thread : u # t => shop_index'[u] = shop_index[u],
         place = "done" => t \in Shopper /\ need[t] <= 0,
         UNCHANGED <<product, need, owner, tmp, main, destroyed, stocked, sold>>
  PROVE  IInv'
<1> USE DEF IInv, Exclusion, TypeOK, Here
<1>1. TypeOK'
  OBVIOUS
<1>2. HoldersOwn' /\ OwnersHold'
  BY ThreadAssumption DEF HoldersOwn, OwnersHold, Holding, Thread
<1>3. FreshCopy'
  BY ThreadAssumption DEF FreshCopy, Thread
<1>4. Conservation'
  <2>1. \A s \in Shop : HalfSold(s)' = HalfSold(s)
    BY DEF HalfSold, Thread
  <2> QED BY <2>1 DEF Conservation
<1>5. Ended'
  BY ThreadAssumption DEF Ended, Thread
<1> QED BY <1>1, <1>2, <1>3, <1>4, <1>5

-----------------------------------------------------------------------------
(* Steps in a shop.                                                        *)

LEMMA EnterStep ==
  ASSUME IInv, NEW t \in Thread, Enter(t)
  PROVE  IInv'
<1> USE DEF IInv, Exclusion, TypeOK
<1>1. /\ pc' = [pc EXCEPT ![t] = "in"] /\ owner' = [owner EXCEPT ![shop_index[t]] = t]
      /\ owner[shop_index[t]] = Nobody /\ pc[t] = "try" /\ shop_index[t] \in Shop
      /\ UNCHANGED <<product, need, shop_index, tmp, main, destroyed, stocked, sold>>
  BY DEF Enter, FreeMutex, Goto, Here
<1>2. TypeOK'
  BY <1>1
<1>3. HoldersOwn'
  BY <1>1, ThreadAssumption DEF HoldersOwn, Here, Holding, Thread
<1>4. OwnersHold'
  BY <1>1, ThreadAssumption DEF OwnersHold, Here, Holding, Thread
<1>5. FreshCopy'
  BY <1>1 DEF FreshCopy, Here, Thread
<1>6. Conservation'
  <2>1. \A s \in Shop : HalfSold(s)' = HalfSold(s)
    BY <1>1 DEF HalfSold, Thread, Here
  <2> QED BY <1>1, <2>1 DEF Conservation
<1>7. Ended'
  BY <1>1, ThreadAssumption DEF Ended, Thread, Here
<1> QED BY <1>2, <1>3, <1>4, <1>5, <1>6, <1>7

\* Leaving a shop, for a shopper and for the loader.
LEMMA UnlockStep ==
  ASSUME IInv, NEW t \in Thread, pc[t] \in {"out", "added"}, Unlock(t),
         pc' = [pc EXCEPT ![t] = "try"] \/ pc' = [pc EXCEPT ![t] = "round"],
         shop_index' \in [Thread -> Shop],
         \A u \in Thread : u # t => shop_index'[u] = shop_index[u],
         UNCHANGED <<product, need, tmp, main, destroyed, stocked, sold>>
  PROVE  IInv'
<1> USE DEF IInv, Exclusion, TypeOK
<1>1. /\ owner' = [owner EXCEPT ![shop_index[t]] = Nobody] /\ owner[shop_index[t]] = t
      /\ pc'[t] \in {"try", "round"} /\ \A u \in Thread : u # t => pc'[u] = pc[u]
      /\ shop_index[t] \in Shop
  BY DEF Unlock, Here, HoldersOwn, Holding
<1>2. TypeOK'
  BY <1>1
<1>3. HoldersOwn'
  BY <1>1, ThreadAssumption DEF HoldersOwn, Here, Holding
<1>4. OwnersHold'
  BY <1>1, ThreadAssumption DEF OwnersHold, Here, Holding
<1>5. FreshCopy'
  BY <1>1 DEF FreshCopy, Here, Thread
<1>6. Conservation'
  <2>1. \A s \in Shop : HalfSold(s)' = HalfSold(s)
    BY <1>1 DEF HalfSold, Thread, Here
  <2> QED BY <2>1 DEF Conservation
<1>7. Ended'
  BY <1>1, ThreadAssumption DEF Ended, Thread, Here
<1> QED BY <1>2, <1>3, <1>4, <1>5, <1>6, <1>7

\* A shopper takes the goods, or clears the shelf, or finds nothing: its step
\* changes the goods of its own shop only.
LEMMA BuyStep ==
  ASSUME IInv, NEW t \in Shopper, Buy(t)
  PROVE  IInv'
<1> USE DEF IInv, Exclusion, TypeOK
<1> DEFINE s0 == shop_index[t]
<1>1. t \in Thread /\ s0 \in Shop /\ product[s0] \in Nat /\ need[t] \in Int /\ sold[s0] \in Nat
  BY DEF Thread
<1>2. /\ pc[t] = "in" /\ pc' = [pc EXCEPT ![t] = "bought"]
      /\ need' = [need EXCEPT ![t] = need[t] - product[s0]]
      /\ sold' = [sold EXCEPT ![s0] = sold[s0] + product[s0]]
      /\ UNCHANGED <<product, owner, shop_index, tmp, main, destroyed, stocked>>
  BY DEF Buy, Goto, Here
<1>3. TypeOK'
  <2>1. need[t] - product[s0] \in Int /\ sold[s0] + product[s0] \in Nat
    BY <1>1
  <2> QED BY <1>1, <1>2, <2>1
<1>4. HoldersOwn' /\ OwnersHold'
  BY <1>1, <1>2, ThreadAssumption DEF HoldersOwn, OwnersHold, Holding, Here
<1>5. FreshCopy'
  BY <1>2, ThreadAssumption DEF FreshCopy, Here, Thread
<1>6. Conservation'
  <2>1. ~HalfSold(s0)
    BY <1>1, <1>2 DEF HalfSold, HoldersOwn, Holding, Here, Thread
  <2>2. HalfSold(s0)' /\ \A s \in Shop : s # s0 => HalfSold(s)' = HalfSold(s)
    BY <1>1, <1>2 DEF HalfSold, Here, Thread
  <2>3. sold'[s0] = stocked'[s0]
    BY <1>1, <1>2, <2>1 DEF Conservation
  <2>4. \A s \in Shop : s # s0 => sold'[s] = sold[s]
    BY <1>1, <1>2
  <2> QED BY <1>1, <1>2, <2>2, <2>3, <2>4 DEF Conservation
<1>7. Ended'
  BY <1>1, <1>2, ThreadAssumption DEF Ended, Thread, Here
<1> QED BY <1>3, <1>4, <1>5, <1>6, <1>7

LEMMA EmptyStep ==
  ASSUME IInv, NEW t \in Shopper, Empty(t)
  PROVE  IInv'
<1> USE DEF IInv, Exclusion, TypeOK
<1> DEFINE s0 == shop_index[t]
<1>1. t \in Thread /\ s0 \in Shop
  BY DEF Thread
<1>2. /\ pc[t] = "bought" /\ pc' = [pc EXCEPT ![t] = "out"]
      /\ product' = [product EXCEPT ![s0] = 0]
      /\ UNCHANGED <<need, owner, shop_index, tmp, main, destroyed, stocked, sold>>
  BY DEF Empty, Goto, Here
<1>3. TypeOK'
  BY <1>1, <1>2
<1>4. HoldersOwn' /\ OwnersHold'
  BY <1>1, <1>2, ThreadAssumption DEF HoldersOwn, OwnersHold, Holding, Here
<1>5. FreshCopy'
  <2>1. Loader \in Thread /\ Loader # t
    BY ThreadAssumption DEF Thread
  <2>2. pc[Loader] = "adding" => shop_index[Loader] # s0
    BY <1>1, <1>2, <2>1 DEF HoldersOwn, Holding, Here
  <2> QED BY <1>1, <1>2, <2>1, <2>2 DEF FreshCopy, Here
<1>6. Conservation'
  <2>1. HalfSold(s0)
    BY <1>1, <1>2 DEF HalfSold, Here
  <2>2. ~HalfSold(s0)' /\ \A s \in Shop : s # s0 => HalfSold(s)' = HalfSold(s)
    BY <1>1, <1>2 DEF HalfSold, HoldersOwn, Holding, Here, Thread
  <2>3. stocked[s0] = sold[s0] /\ product'[s0] = 0 /\ sold[s0] \in Nat
    BY <1>1, <1>2, <2>1 DEF Conservation
  <2> QED BY <1>1, <1>2, <2>2, <2>3 DEF Conservation
<1>7. Ended'
  BY <1>1, <1>2, ThreadAssumption DEF Ended, Thread, Here
<1> QED BY <1>3, <1>4, <1>5, <1>6, <1>7

\* A step inside a shop that touches neither goods nor mutexes.
LEMMA InsideStep ==
  ASSUME IInv, NEW t \in Thread, NEW place \in {"out", "adding"},
         pc[t] = "in", pc' = [pc EXCEPT ![t] = place],
         tmp' \in Nat, t # Loader => place = "out" /\ tmp' = tmp,
         t = Loader => place = "adding" /\ tmp' = product[Here(Loader)],
         UNCHANGED <<product, need, owner, shop_index, main, destroyed, stocked, sold>>
  PROVE  IInv'
<1> USE DEF IInv, Exclusion, TypeOK, Here
<1>1. TypeOK'
  OBVIOUS
<1>2. HoldersOwn' /\ OwnersHold'
  BY ThreadAssumption DEF HoldersOwn, OwnersHold, Holding, Thread
<1>3. FreshCopy'
  BY ThreadAssumption DEF FreshCopy, Thread
<1>4. Conservation'
  <2>1. \A s \in Shop : HalfSold(s)' = HalfSold(s)
    BY DEF HalfSold, Thread
  <2> QED BY <2>1 DEF Conservation
<1>5. Ended'
  BY ThreadAssumption DEF Ended, Thread
<1> QED BY <1>1, <1>2, <1>3, <1>4, <1>5

-----------------------------------------------------------------------------
(* The loader and main.                                                    *)

LEMMA StoreStep == IInv /\ StoreProduct => IInv'
<1> SUFFICES ASSUME IInv, StoreProduct PROVE IInv'
  OBVIOUS
<1> USE DEF IInv, Exclusion, TypeOK
<1> DEFINE s0 == shop_index[Loader]
<1>1. Loader \in Thread /\ Loader \notin Shopper /\ s0 \in Shop /\ Amount \in Nat
  BY AmountAssumption, ThreadAssumption DEF Thread, Amount
<1>2. /\ pc[Loader] = "adding" /\ pc' = [pc EXCEPT ![Loader] = "added"]
      /\ product' = [product EXCEPT ![s0] = tmp + Amount]
      /\ stocked' = [stocked EXCEPT ![s0] = stocked[s0] + Amount]
      /\ tmp' = 0
      /\ UNCHANGED <<need, owner, shop_index, main, destroyed, sold>>
  BY DEF StoreProduct, Goto, Here
<1>3. TypeOK'
  <2>1. tmp + Amount \in Nat /\ stocked[s0] + Amount \in Nat
    BY <1>1
  <2> HIDE DEF s0
  <2> QED BY <1>1, <1>2, <2>1
<1>4. HoldersOwn' /\ OwnersHold'
  BY <1>1, <1>2, ThreadAssumption DEF HoldersOwn, OwnersHold, Holding, Here
<1>5. FreshCopy'
  BY <1>1, <1>2 DEF FreshCopy
<1>6. Conservation'
  <2>1. ~HalfSold(s0)
    BY <1>1, <1>2 DEF HalfSold, HoldersOwn, Holding, Here, Thread
  <2>2. \A s \in Shop : HalfSold(s)' = HalfSold(s)
    BY <1>1, <1>2 DEF HalfSold, Here, Thread
  <2>3. stocked[s0] = sold[s0] + product[s0] /\ tmp = product[s0]
    BY <1>1, <1>2, <2>1 DEF Conservation, FreshCopy, Here
  <2>4. /\ stocked[s0] \in Nat /\ sold[s0] \in Nat /\ product[s0] \in Nat
        /\ stocked'[s0] = stocked[s0] + Amount /\ product'[s0] = tmp + Amount
    BY <1>1, <1>2
  <2>5. stocked'[s0] = sold'[s0] + product'[s0]
    BY <1>1, <1>2, <2>3, <2>4
  <2>6. \A s \in Shop : s # s0 => stocked'[s] = stocked[s] /\ product'[s] = product[s]
    BY <1>1, <1>2
  <2> QED BY <1>1, <1>2, <2>1, <2>2, <2>5, <2>6 DEF Conservation
<1>7. Ended'
  BY <1>1, <1>2 DEF Ended, Thread, Here
<1> QED BY <1>3, <1>4, <1>5, <1>6, <1>7

LEMMA CancelledStep == IInv /\ Cancelled => IInv'
<1> SUFFICES ASSUME IInv, Cancelled PROVE IInv'
  OBVIOUS
<1> USE DEF IInv, Exclusion, TypeOK
<1>1. Loader \in Thread /\ Loader \notin Shopper
  BY ThreadAssumption DEF Thread
<1>2. /\ main = "cancel" /\ pc' = [pc EXCEPT ![Loader] = "cancelled"] /\ pc[Loader] \in CancelPoint
      /\ UNCHANGED <<product, need, owner, shop_index, tmp, main, destroyed, stocked, sold>>
  BY DEF Cancelled, Goto
<1>3. TypeOK'
  BY <1>1, <1>2
<1>4. HoldersOwn' /\ OwnersHold'
  BY <1>1, <1>2 DEF HoldersOwn, OwnersHold, Holding, Here
<1>5. FreshCopy'
  BY <1>1, <1>2 DEF FreshCopy
<1>6. Conservation'
  <2>1. \A s \in Shop : HalfSold(s)' = HalfSold(s)
    BY <1>1, <1>2 DEF HalfSold, Here, Thread
  <2> QED BY <1>2, <2>1 DEF Conservation
<1>7. Ended'
  BY <1>1, <1>2 DEF Ended, Thread
<1> QED BY <1>3, <1>4, <1>5, <1>6, <1>7

\* The shoppers are done when the mutexes are destroyed: a mutex that is held
\* then is held by the cancelled loader.
LEMMA DestroyStep == IInv /\ DestroyMutexes => IInv'
<1> SUFFICES ASSUME IInv, DestroyMutexes PROVE IInv'
  OBVIOUS
<1> USE DEF IInv, Exclusion, TypeOK, DestroyMutexes
<1>1. TypeOK' /\ HoldersOwn' /\ OwnersHold' /\ FreshCopy'
  BY DEF HoldersOwn, OwnersHold, FreshCopy, Here
<1>2. Conservation'
  <2>1. \A s \in Shop : HalfSold(s)' = HalfSold(s)
    BY DEF HalfSold, Here
  <2> QED BY <2>1 DEF Conservation
<1>3. ASSUME NEW s \in Shop, s \notin destroyed' PROVE s = Here(Loader)
  <2>1. owner[s] # Nobody /\ owner[s] \in Thread
    BY <1>3
  <2>2. Here(owner[s]) = s /\ pc[owner[s]] # "done"
    BY <2>1 DEF OwnersHold, Holding
  <2>3. owner[s] \notin Shopper
    BY <2>2 DEF Ended
  <2> QED BY <2>1, <2>2, <2>3 DEF Thread
<1>4. Ended'
  BY <1>3 DEF Ended, Here
<1> QED BY <1>1, <1>2, <1>4

LEMMA InvStep == IInv /\ [Next]_vars => IInv'
<1> SUFFICES ASSUME IInv, [Next]_vars PROVE IInv'
  OBVIOUS
<1> USE DEF IInv, Exclusion
<1>1. /\ Loader \in Thread /\ Loader \notin Shopper /\ \A t \in Shopper : t \in Thread /\ t # Loader
      /\ \A t \in Shopper : need[t] \in Int
      /\ shop_index \in [Thread -> Shop] /\ tmp \in Nat /\ product[Here(Loader)] \in Nat
  BY ThreadAssumption DEF Thread, TypeOK, Here
<1>2. ASSUME NEW t \in Thread, GoOn(t) PROVE IInv'
  <2>1. /\ shop_index' \in [Thread -> Shop]
        /\ \A u \in Thread : u # t => shop_index'[u] = shop_index[u]
        /\ pc' = [pc EXCEPT ![t] = "try"] \/ pc' = [pc EXCEPT ![t] = "round"]
    BY <1>2, NextShopTyped DEF GoOn
  <2> HIDE DEF IInv
  <2> QED BY <1>2, <2>1, QuietStep DEF GoOn
<1>3. ASSUME NEW t \in Thread, FindBusy(t) PROVE IInv'
  BY <1>1, <1>3, QuietStep DEF FindBusy, Goto
<1>4. ASSUME NEW t \in Shopper, StartRound(t) \/ Sated(t) PROVE IInv'
  <2>1. ~StillNeeds(t) => need[t] <= 0
    BY <1>1 DEF StillNeeds
  <2> HIDE DEF IInv
  <2> QED BY <1>1, <1>4, <2>1, QuietStep DEF StartRound, Sated, Goto
<1>5. ASSUME NEW t \in Shopper, FindEmpty(t) PROVE IInv'
  BY <1>1, <1>5, InsideStep DEF FindEmpty, Goto
<1>6. ASSUME NEW t \in Shopper, LeaveShop(t) PROVE IInv'
  <2>1. /\ shop_index' \in [Thread -> Shop]
        /\ \A u \in Thread : u # t => shop_index'[u] = shop_index[u]
        /\ pc' = [pc EXCEPT ![t] = "try"] \/ pc' = [pc EXCEPT ![t] = "round"]
    BY <1>1, <1>6, NextShopTyped DEF LeaveShop, Goto
  <2> HIDE DEF IInv
  <2> QED BY <1>1, <1>6, <2>1, UnlockStep DEF LeaveShop
<1>7. CASE StartLoading
  BY <1>1, <1>7, QuietStep DEF StartLoading, Goto
<1>8. CASE ReadProduct
  BY <1>1, <1>8, InsideStep DEF ReadProduct, Goto
<1>9. CASE LeaveLoaded
  <2>1. /\ shop_index' \in [Thread -> Shop]
        /\ \A u \in Thread : u # Loader => shop_index'[u] = shop_index[u]
        /\ pc' = [pc EXCEPT ![Loader] = "try"] \/ pc' = [pc EXCEPT ![Loader] = "round"]
    BY <1>1, <1>9, NextShopTyped DEF LeaveLoaded
  <2> HIDE DEF IInv
  <2> QED BY <1>1, <1>9, <2>1, UnlockStep DEF LeaveLoaded
<1>10. CASE CancelLoader
  <2>1. \A s \in Shop : HalfSold(s)' = HalfSold(s)
    BY <1>10 DEF CancelLoader, HalfSold, Here
  <2> QED BY <1>10, <2>1 DEF CancelLoader, Joined, TypeOK, HoldersOwn, OwnersHold, FreshCopy,
                            Conservation, Ended, Here
<1>11. CASE UNCHANGED vars
  <2>1. \A s \in Shop : HalfSold(s)' = HalfSold(s)
    BY <1>11 DEF vars, HalfSold, Here
  <2> QED BY <1>11, <2>1 DEF vars, TypeOK, HoldersOwn, OwnersHold, FreshCopy, Conservation,
                             Ended, Here
<1> HIDE DEF IInv
<1>12. ASSUME NEW t \in Shopper, ShopperStep(t) PROVE IInv'
  BY <1>1, <1>2, <1>3, <1>4, <1>5, <1>6, <1>12, EnterStep, BuyStep, EmptyStep DEF ShopperStep
<1>13. CASE LoaderStep
  BY <1>1, <1>2, <1>3, <1>7, <1>8, <1>9, <1>13, EnterStep, StoreStep DEF LoaderStep
<1> QED BY <1>10, <1>11, <1>12, <1>13, CancelledStep, DestroyStep DEF Next, MainStep, Exited

-----------------------------------------------------------------------------
(* The theorems.                                                           *)

LEMMA InvCorrect == Spec => []IInv
BY InvInit, InvStep, PTL DEF Spec

\* Every variable of the shops has its type.
THEOREM TypeCorrect == Spec => []TypeOK
<1>1. IInv => TypeOK
  BY DEF IInv, Exclusion
<1> QED BY <1>1, InvCorrect, PTL

\* Nothing is sold twice and no load is lost, for any number of shops and
\* shoppers: each purchase and each load is two steps under one mutex.
THEOREM ConservationCorrect == Spec => []Conservation
<1>1. IInv => Conservation
  BY DEF IInv
<1> QED BY <1>1, InvCorrect, PTL

\* Every shopper has had enough when the mutexes are destroyed, and only the
\* shop in which the loader was cancelled can keep its mutex.
THEOREM CleanEndCorrect == Spec => []CleanEnd
<1>1. IInv => CleanEnd
  BY DEF IInv, Ended, CleanEnd
<1> QED BY <1>1, InvCorrect, PTL

-----------------------------------------------------------------------------
(* The shops as if each purchase and each load were one step.              *)

\* Nobody who has had enough goes into a shop.
InNeed == \A t \in Shopper : pc[t] \in {"try", "busy", "in"} => need[t] > 0

LEMMA InNeedStep == IInv /\ InNeed /\ [Next]_vars => InNeed'
<1> SUFFICES ASSUME IInv, InNeed, [Next]_vars, NEW t \in Shopper,
                    pc'[t] \in {"try", "busy", "in"}
             PROVE  need'[t] > 0
  BY DEF InNeed
<1>1. /\ t \in Thread /\ t # Loader /\ need[t] \in Int
      /\ pc \in [Thread -> {"round", "try", "busy", "in", "bought", "out", "done",
                            "adding", "added", "cancelled"}]
  BY ThreadAssumption DEF Thread, IInv, Exclusion, TypeOK
<1>2. ASSUME NEW u \in Thread, u # t, \A v \in Thread : v # u => pc'[v] = pc[v],
             need'[t] = need[t]
      PROVE  need'[t] > 0
  BY <1>1, <1>2 DEF InNeed
<1>3. ASSUME ShopperStep(t) PROVE need'[t] > 0
  <2>1. CASE StartRound(t)
    BY <1>1, <2>1 DEF StartRound, StillNeeds
  <2>2. CASE Sated(t) \/ Buy(t) \/ Empty(t) \/ FindEmpty(t)
    BY <1>1, <2>2 DEF Sated, Buy, Empty, FindEmpty, Goto
  <2>3. CASE Enter(t) \/ FindBusy(t) \/ GoOn(t)
    BY <1>1, <2>3 DEF Enter, FindBusy, GoOn, InNeed
  <2>4. CASE LeaveShop(t)
    BY <1>1, <2>4 DEF LeaveShop, Goto
  <2> QED BY <1>3, <2>1, <2>2, <2>3, <2>4 DEF ShopperStep
<1>4. ASSUME NEW u \in Shopper, u # t, ShopperStep(u) PROVE need'[t] > 0
  <2>1. u \in Thread /\ need \in [Shopper -> Int]
    BY DEF Thread, IInv, Exclusion, TypeOK
  <2>2. \A v \in Thread : v # u => pc'[v] = pc[v]
    BY <1>1, <1>4 DEF ShopperStep, StartRound, Sated, Enter, FindBusy, GoOn, Buy, Empty,
                      FindEmpty, LeaveShop, NextShop, Goto
  <2>3. need'[t] = need[t]
    BY <1>4, <2>1 DEF ShopperStep, StartRound, Sated, Enter, FindBusy, GoOn, Buy, Empty,
                      FindEmpty, LeaveShop
  <2> QED BY <1>2, <1>4, <2>1, <2>2, <2>3
<1>5. CASE LoaderStep \/ Cancelled
  <2>1. Loader \in Thread
    BY DEF Thread
  <2>2. (\A v \in Thread : v # Loader => pc'[v] = pc[v]) /\ UNCHANGED need
    BY <1>1, <1>5 DEF LoaderStep, Cancelled, StartLoading, Enter, FindBusy, GoOn, ReadProduct,
                      StoreProduct, LeaveLoaded, NextShop, Goto
  <2> QED BY <1>1, <1>2, <2>1, <2>2
<1>6. CASE MainStep \/ UNCHANGED vars
  BY <1>6 DEF MainStep, CancelLoader, DestroyMutexes, vars, InNeed
<1> QED BY <1>3, <1>4, <1>5, <1>6 DEF Next, Exited

LEMMA InNeedCorrect == Spec => []InNeed
<1>1. Init => InNeed
  BY DEF Init, InNeed, Thread
<1> QED BY <1>1, InNeedStep, InvCorrect, PTL DEF Spec

\* A step that leaves alone the goods and who has half bought them.
LEMMA SameShelf ==
  ASSUME UNCHANGED product, \A s \in Shop : HalfSold(s)' = HalfSold(s)
  PROVE  UNCHANGED Shelf
BY DEF Shelf

LEMMA ShelfOfBuy ==
  ASSUME IInv, InNeed, NEW t \in Shopper, Buy(t)
  PROVE  Shops!Take(t, Here(t))
<1> DEFINE s0 == shop_index[t]
<1>1. t \in Thread /\ s0 \in Shop /\ product[s0] \in Nat
  BY DEF Thread, IInv, Exclusion, TypeOK
<1>2. /\ pc[t] = "in" /\ pc' = [pc EXCEPT ![t] = "bought"] /\ product[s0] > 0
      /\ need' = [need EXCEPT ![t] = need[t] - product[s0]]
      /\ UNCHANGED <<product, shop_index>>
  BY DEF Buy, Goto, Here
<1>3. need[t] > 0
  BY <1>2 DEF InNeed
<1>4. ~HalfSold(s0)
  BY <1>1, <1>2 DEF HalfSold, HoldersOwn, Holding, Here, Thread, IInv, Exclusion
<1>5. HalfSold(s0)' /\ \A s \in Shop : s # s0 => HalfSold(s)' = HalfSold(s)
  BY <1>1, <1>2 DEF HalfSold, Here, Thread, IInv, Exclusion, TypeOK
<1>6. Shelf[s0] = product[s0]
  BY <1>1, <1>4 DEF Shelf
<1>7. Shelf' = [Shelf EXCEPT ![s0] = 0]
  BY <1>1, <1>2, <1>5 DEF Shelf
<1> QED BY <1>2, <1>3, <1>6, <1>7 DEF Shops!Take, Here

LEMMA ShelfOfEmpty ==
  ASSUME IInv, NEW t \in Shopper, Empty(t)
  PROVE  UNCHANGED <<Shelf, need>>
<1> DEFINE s0 == shop_index[t]
<1>1. t \in Thread /\ s0 \in Shop /\ product \in [Shop -> Nat]
  BY DEF Thread, IInv, Exclusion, TypeOK
<1>2. /\ pc[t] = "bought" /\ pc' = [pc EXCEPT ![t] = "out"]
      /\ product' = [product EXCEPT ![s0] = 0]
      /\ UNCHANGED <<need, shop_index>>
  BY DEF Empty, Goto, Here
<1>3. HalfSold(s0)
  BY <1>2 DEF HalfSold, Here
<1>4. ~HalfSold(s0)' /\ \A s \in Shop : s # s0 => HalfSold(s)' = HalfSold(s)
  BY <1>1, <1>2 DEF HalfSold, HoldersOwn, Holding, Here, Thread, IInv, Exclusion, TypeOK
<1> QED BY <1>1, <1>2, <1>3, <1>4 DEF Shelf

LEMMA ShelfOfStore ==
  ASSUME IInv, StoreProduct
  PROVE  Shops!Refill(Here(Loader)) \/ UNCHANGED <<Shelf, need>>
<1> DEFINE s0 == shop_index[Loader]
<1>1. Loader \in Thread /\ Loader \notin Shopper /\ s0 \in Shop /\ product \in [Shop -> Nat]
  BY ThreadAssumption DEF Thread, IInv, Exclusion, TypeOK
<1>2. /\ pc[Loader] = "adding" /\ pc' = [pc EXCEPT ![Loader] = "added"]
      /\ product' = [product EXCEPT ![s0] = product[s0] + Amount] /\ tmp = product[s0]
      /\ UNCHANGED <<need, shop_index>>
  BY DEF StoreProduct, Goto, Here, IInv, FreshCopy
<1>3. ~HalfSold(s0)
  BY <1>1, <1>2 DEF HalfSold, HoldersOwn, Holding, Here, Thread, IInv, Exclusion
<1>4. \A s \in Shop : HalfSold(s)' = HalfSold(s)
  BY <1>1, <1>2 DEF HalfSold, Here, Thread, IInv, Exclusion, TypeOK
<1>5. Shelf[s0] = product[s0]
  BY <1>1, <1>3 DEF Shelf
<1>6. Shelf' = [Shelf EXCEPT ![s0] = product[s0] + Amount]
  BY <1>1, <1>2, <1>3, <1>4 DEF Shelf
<1>7. CASE tmp <= MaxProduct
  <2>1. Amount = Load
    BY <1>7 DEF Amount
  <2> QED BY <1>2, <1>5, <1>6, <1>7, <2>1 DEF Shops!Refill, Here
<1>8. CASE ~(tmp <= MaxProduct)
  <2>1. product[s0] + Amount = product[s0]
    BY <1>1, <1>8 DEF Amount
  <2>2. Shelf' = Shelf
    BY <1>1, <1>5, <1>6, <2>1 DEF Shelf
  <2> QED BY <1>2, <2>2
<1> QED BY <1>7, <1>8

\* Nobody else changes what the shops seem to have.
LEMMA ShelfOfOther ==
  ASSUME IInv, NEW t \in Thread, pc[t] # "bought", pc'[t] # "bought",
         \A u \in Thread : u # t => pc'[u] = pc[u] /\ shop_index'[u] = shop_index[u],
         UNCHANGED product
  PROVE  UNCHANGED Shelf
<1>1. \A s \in Shop : HalfSold(s)' = HalfSold(s)
  BY DEF HalfSold, Here, Thread
<1> QED BY <1>1, SameShelf

LEMMA ShopsStep == IInv /\ InNeed /\ [Next]_vars => [Shops!Next]_<<Shelf, need>>
<1> SUFFICES ASSUME IInv, InNeed, [Next]_vars PROVE [Shops!Next]_<<Shelf, need>>
  OBVIOUS
<1>1. /\ Loader \in Thread /\ \A t \in Thread : Here(t) \in Shop
      /\ pc \in [Thread -> {"round", "try", "busy", "in", "bought", "out", "done",
                            "adding", "added", "cancelled"}]
      /\ shop_index \in [Thread -> Shop]
  BY DEF Thread, Here, IInv, Exclusion, TypeOK
<1>2. ASSUME NEW t \in Thread, Enter(t) \/ FindBusy(t) \/ GoOn(t)
      PROVE  UNCHANGED <<Shelf, need>>
  <2>1. pc'[t] # "bought" /\ pc[t] # "bought" /\ UNCHANGED <<product, need>>
    BY <1>1, <1>2 DEF Enter, FindBusy, GoOn, NextShop, Goto
  <2>2. \A u \in Thread : u # t => pc'[u] = pc[u] /\ shop_index'[u] = shop_index[u]
    BY <1>1, <1>2 DEF Enter, FindBusy, GoOn, NextShop, Goto
  <2> QED BY <2>1, <2>2, ShelfOfOther
<1>3. ASSUME NEW t \in Shopper, StartRound(t) \/ Sated(t) \/ FindEmpty(t) \/ LeaveShop(t)
      PROVE  UNCHANGED <<Shelf, need>>
  <2>1. t \in Thread
    BY DEF Thread
  <2>2. pc'[t] # "bought" /\ pc[t] # "bought" /\ UNCHANGED <<product, need>>
    BY <1>1, <1>3, <2>1 DEF StartRound, Sated, FindEmpty, LeaveShop, NextShop, Goto
  <2>3. \A u \in Thread : u # t => pc'[u] = pc[u] /\ shop_index'[u] = shop_index[u]
    BY <1>1, <1>3, <2>1 DEF StartRound, Sated, FindEmpty, LeaveShop, NextShop, Goto
  <2> QED BY <2>1, <2>2, <2>3, ShelfOfOther
<1>4. CASE StartLoading \/ ReadProduct \/ LeaveLoaded \/ Cancelled
  <2>1. /\ pc'[Loader] # "bought" /\ pc[Loader] # "bought" /\ UNCHANGED <<product, need>>
    BY <1>1, <1>4 DEF StartLoading, ReadProduct, LeaveLoaded, Cancelled, CancelPoint, NextShop, Goto
  <2>2. \A u \in Thread : u # Loader => pc'[u] = pc[u] /\ shop_index'[u] = shop_index[u]
    BY <1>1, <1>4 DEF StartLoading, ReadProduct, LeaveLoaded, Cancelled, NextShop, Goto
  <2> QED BY <1>1, <2>1, <2>2, ShelfOfOther
<1>5. CASE MainStep \/ UNCHANGED vars
  <2>1. UNCHANGED <<product, need, pc, shop_index>>
    BY <1>5 DEF MainStep, CancelLoader, DestroyMutexes, vars
  <2>2. \A s \in Shop : HalfSold(s)' = HalfSold(s)
    BY <2>1 DEF HalfSold, Here
  <2> QED BY <2>1, <2>2, SameShelf
<1>6. ASSUME NEW t \in Shopper, ShopperStep(t) PROVE [Shops!Next]_<<Shelf, need>>
  <2>1. t \in Thread /\ Here(t) \in Shop
    BY <1>1 DEF Thread
  <2> QED BY <1>2, <1>3, <1>6, <2>1, ShelfOfBuy, ShelfOfEmpty DEF ShopperStep, Shops!Next
<1>7. CASE LoaderStep
  BY <1>1, <1>2, <1>4, <1>7, ShelfOfStore DEF LoaderStep, Shops!Next
<1> QED BY <1>4, <1>5, <1>6, <1>7 DEF Next, Exited

\* Every purchase and every load is as if it were one step, for any number of
\* shops and shoppers: the two halves are never torn apart by somebody else.
THEOREM ShopsCorrect == Spec => ShopsSpec
<1>1. Init => Shops!Init
  <2> SUFFICES ASSUME Init PROVE Shops!Init
    OBVIOUS
  <2>1. \A s \in Shop : ~HalfSold(s)
    BY DEF Init, HalfSold, Thread
  <2>2. Shelf = product
    BY <2>1 DEF Init, Shelf
  <2> QED BY <2>2 DEF Init, Shops!Init
<1> QED BY <1>1, ShopsStep, InvCorrect, InNeedCorrect, PTL DEF Spec, ShopsSpec, Shops!Spec
=============================================================================
