-------------------------- MODULE DirectoriesProofs --------------------------
(***************************************************************************)
(* What holds of the programs of one user for any number of nodes, entries *)
(* and paths and any sizes: the heap is the list, the list is the          *)
(* directory and its listings are complete; the table is what was typed;   *)
(* the panels can be used.                                                 *)
(***************************************************************************)
EXTENDS Directories, SequenceTheorems, FiniteSetTheorems, TLAPS

-----------------------------------------------------------------------------
(* The linked list.                                                        *)

L == Len(order)

\* delete_abonent has passed no abonent that it should have removed.
PassedNone ==
  pc = "delete" =>
    /\ wanted \in Key
    /\ \E k \in 1..L + 1 : current = At(k) /\ \A j \in 1..k - 1 : ~SameKey(order[j], wanted)

\* The inductive invariant.
IInv == TypeOK /\ WellLinked /\ PassedNone

-----------------------------------------------------------------------------
(* Facts about the list.                                                   *)

LEMMA Places ==
  ASSUME TypeOK
  PROVE  /\ L \in Nat
         /\ \A k \in 1..L : order[k] \in Node /\ order[k] # NULL /\ At(k) = order[k]
         /\ \A k : k \notin 1..L => At(k) = NULL
         /\ \A k : At(k) \in Listed \cup {NULL}
BY NullAssumption DEF TypeOK, L, At, Listed

\* A node of the list is in one place of it.
LEMMA WithoutPlace ==
  ASSUME TypeOK, Distinct, NEW k \in 1..L
  PROVE  /\ Without(order[k]) = [j \in 1..L - 1 |-> IF j < k THEN order[j] ELSE order[j + 1]]
         /\ Without(order[k]) \in Seq(Node)
         /\ Len(Without(order[k])) = L - 1
<1> DEFINE p == CHOOSE j \in 1..Len(order) : order[j] = order[k]
           s == [j \in 1..L - 1 |-> IF j < k THEN order[j] ELSE order[j + 1]]
<1>1. order[k] \in Listed
  BY DEF Listed, L
<1>2. p = k
  BY DEF Distinct, L
<1>3. Without(order[k]) = s
  BY <1>1, <1>2 DEF Without, L
<1>4. L - 1 \in Nat /\ \A j \in 1..L - 1 : s[j] \in Node
  BY Places
<1>5. s \in Seq(Node)
  BY <1>4
<1>6. Len(s) = L - 1
  BY <1>4
<1> QED BY <1>3, <1>5, <1>6

-----------------------------------------------------------------------------
(* The invariant, action by action.                                        *)

LEMMA InvInit == Init => IInv
BY DEF Init, IInv, TypeOK, WellLinked, PassedNone, Listed, Distinct, NextLinks, PrevLinks,
       Ends, At, L, Listing, Closing

\* What leaves the list and the command alone leaves the invariant alone.
LEMMA SameList ==
  ASSUME UNCHANGED list
  PROVE  /\ Listed' = Listed /\ L' = L
         /\ \A k : At(k)' = At(k)
         /\ Distinct' = Distinct /\ NextLinks' = NextLinks
         /\ PrevLinks' = PrevLinks /\ Ends' = Ends
         /\ \A n, key : SameKey(n, key)' = SameKey(n, key)
BY DEF list, Listed, L, At, Distinct, NextLinks, PrevLinks, Ends, SameKey

\* A walk along a list that stays as it is.
LEMMA WalkInv ==
  ASSUME IInv, [FindNext \/ NotFound \/ StartForward \/ StartReverse \/ ShowNext \/ ShowDone
                \/ StartClear \/ (\E key \in Key : StartDelete(key))
                \/ (\E x \in Name : StartSearch(x))]_vars
  PROVE  IInv'
<1> USE DEF IInv
<1>0. UNCHANGED list
  BY DEF vars, list, FindNext, NotFound, StartForward, StartReverse, ShowNext, ShowDone,
         StartClear, StartDelete, StartSearch
<1>1. live' = live
  BY <1>0 DEF list
<1>2. current \in live \cup {NULL} \/ pc \in Closing
  BY DEF WellLinked
<1>3. \A n \in live : next[n] \in live \cup {NULL}
  BY Places DEF WellLinked, NextLinks, Listed, L
<1>4. pc \notin Closing => \A n \in live : prev[n] \in live \cup {NULL}
  BY Places DEF WellLinked, PrevLinks, Listed, L
<1>5. pc \notin Closing => {head, tail} \subseteq live \cup {NULL}
  BY Places DEF WellLinked, Ends
<1>9. \/ pc' = pc /\ current' = current
      \/ pc \notin Closing /\ pc' = "menu" /\ current' = NULL
      \/ pc = "menu" /\ pc' \in {"delete"} \cup Listing /\ current' \in {head, tail}
      \/ pc = "menu" /\ pc' = "clear" /\ current' = head
      \/ pc \notin Closing /\ pc' = pc /\ current # NULL
         /\ current' \in {next[current], prev[current]}
  <2>1. CASE UNCHANGED vars
    BY <2>1 DEF vars
  <2>2. CASE NotFound \/ ShowDone
    BY <2>2 DEF NotFound, ShowDone, ToMenu, Listing, Closing
  <2>3. CASE StartForward \/ StartReverse \/ StartClear
    BY <2>3 DEF StartForward, StartReverse, StartClear, Walk, Listing
  <2>4. CASE (\E key \in Key : StartDelete(key)) \/ \E x \in Name : StartSearch(x)
    BY <2>4 DEF StartDelete, StartSearch, Walk, Listing
  <2>5. CASE FindNext
    BY <2>5 DEF FindNext, Closing
  <2>6. CASE ShowNext
    BY <2>6 DEF ShowNext, Follow, Listing, Closing
  <2> QED BY <2>1, <2>2, <2>3, <2>4, <2>5, <2>6
<1>6. TypeOK'
  <2>1. UNCHANGED <<head, tail, count, next, prev, data, live, order>>
    BY <1>0 DEF list
  <2>2. /\ pc' \in {"menu", "delete"} \cup Listing \cup Closing
        /\ current' \in Node \cup {NULL}
    <3>1. pc \in {"menu", "delete"} \cup Listing \cup Closing
      BY DEF TypeOK
    <3>2. current \in Node \cup {NULL} /\ {head, tail} \subseteq Node \cup {NULL}
      BY DEF TypeOK
    <3>3. current \in Node => {next[current], prev[current]} \subseteq Node \cup {NULL}
      BY DEF TypeOK
    <3>4. pc' \in {"menu", "delete"} \cup Listing \cup Closing
      BY <1>9, <3>1 DEF Closing
    <3>5. current' \in Node \cup {NULL}
      BY <1>9, <3>2, <3>3
    <3> QED BY <3>4, <3>5
  <2>3. wanted' \in Key \cup Name \cup {NoKey}
    BY DEF TypeOK, vars, FindNext, NotFound, StartForward, StartReverse, ShowNext, ShowDone,
           StartClear, StartDelete, StartSearch, ToMenu
  <2>4. shown' \in Seq(Node)
    <3>1. CASE ShowNext
      <4>1. current \in Node /\ shown \in Seq(Node)
        BY <3>1 DEF TypeOK, ShowNext
      <4>2. shown' = shown \/ shown' = Append(shown, current)
        BY <3>1 DEF ShowNext
      <4> QED BY <4>1, <4>2
    <3>2. CASE NotFound \/ ShowDone
      <4>1. shown' = <<>>
        BY <3>2 DEF NotFound, ShowDone, ToMenu
      <4> QED BY <4>1
    <3>3. CASE StartForward \/ StartReverse \/ StartClear \/ FindNext \/ UNCHANGED vars
      BY <3>3 DEF TypeOK, StartForward, StartReverse, StartClear, FindNext, vars
    <3>4. CASE (\E key \in Key : StartDelete(key)) \/ \E x \in Name : StartSearch(x)
      BY <3>4 DEF TypeOK, StartDelete, StartSearch
    <3> QED BY <3>1, <3>2, <3>3, <3>4
  <2> QED BY <2>1, <2>2, <2>3, <2>4 DEF TypeOK
<1>7. WellLinked'
  <2>1. pc' \notin Closing => pc \notin Closing /\ current' \in live \cup {NULL}
    <3> SUFFICES ASSUME pc' \notin Closing
                 PROVE  pc \notin Closing /\ current' \in live \cup {NULL}
      OBVIOUS
    <3>1. pc \notin Closing
      BY <1>9 DEF Closing
    <3>2. current \in live \cup {NULL} /\ {head, tail} \subseteq live \cup {NULL}
      BY <1>2, <1>5, <3>1
    <3>3. current \in live => {next[current], prev[current]} \subseteq live \cup {NULL}
      BY <1>3, <1>4, <3>1
    <3>4. current' \in live \cup {NULL}
      BY <1>9, <3>2, <3>3 DEF Closing
    <3> QED BY <3>1, <3>4
  <2>2. pc' \in Closing => \/ pc \in Closing /\ pc' = pc /\ current' = current
                           \/ pc = "menu" /\ pc' = "clear" /\ current' = head
    BY <1>9 DEF Listing, Closing
  <2>3. pc' = "clear" => current' = At(1)
    BY <2>2 DEF WellLinked, Ends, Closing
  <2>4. pc' = "exit" => order' = <<>>
    BY <1>0, <2>2 DEF WellLinked, Closing, list
  <2> QED BY <1>0, <1>1, <2>1, <2>3, <2>4, SameList DEF WellLinked, Closing
<1>8. PassedNone'
  <2> SUFFICES ASSUME pc' = "delete" PROVE PassedNone'
    BY DEF PassedNone
  <2>1. CASE FindNext
    <3>1. PICK k \in 1..L + 1 :
            current = At(k) /\ \A j \in 1..k - 1 : ~SameKey(order[j], wanted)
      BY <2>1 DEF PassedNone, FindNext
    <3>2. k \in 1..L /\ current = order[k]
      BY <2>1, <3>1, Places DEF FindNext
    <3>3. current' = At(k + 1)
      BY <2>1, <3>2 DEF FindNext, WellLinked, NextLinks, L
    <3>4. \A j \in 1..k : ~SameKey(order[j], wanted)
      BY <2>1, <3>1, <3>2, Places DEF FindNext
    <3>5. k + 1 \in 1..L + 1 /\ k + 1 - 1 = k
      BY <3>2, Places
    <3>6. wanted' = wanted /\ order' = order /\ wanted \in Key
      BY <1>0, <2>1 DEF FindNext, list, PassedNone
    <3>7. \A j \in 1..k : ~SameKey(order[j], wanted)'
      BY <1>0, <3>4, <3>6 DEF SameKey, list
    <3> QED BY <1>0, <3>3, <3>5, <3>6, <3>7, SameList DEF PassedNone
  <2>2. ASSUME NEW key \in Key, StartDelete(key) PROVE PassedNone'
    <3>1. current' = At(1) /\ wanted' = key
      BY <2>2 DEF StartDelete, Walk, WellLinked, Ends, Closing
    <3>2. 1 \in 1..L + 1 /\ \A j \in 1..1 - 1 : FALSE
      BY Places
    <3>3. \A j \in 1..1 - 1 : ~SameKey(order[j], wanted)'
      BY <3>2
    <3> QED BY <1>0, <3>1, <3>2, <3>3, SameList DEF PassedNone
  <2>3. CASE UNCHANGED vars
    <3>1. wanted' = wanted /\ order' = order /\ current' = current /\ pc' = pc
      BY <2>3 DEF vars
    <3>2. \A n : SameKey(n, wanted)' = SameKey(n, wanted)
      BY <2>3 DEF SameKey, vars
    <3> QED BY <1>0, <3>1, <3>2, SameList DEF PassedNone
  <2>4. CASE NotFound \/ StartForward \/ StartReverse \/ ShowNext \/ ShowDone \/ StartClear
             \/ \E x \in Name : StartSearch(x)
    BY <2>4 DEF NotFound, StartForward, StartReverse, ShowNext, ShowDone, StartClear,
                StartSearch, Walk, ToMenu, Listing
  <2> QED BY <2>1, <2>2, <2>3, <2>4
<1> QED BY <1>6, <1>7, <1>8

\* create_abonent and add_abonent.
LEMMA AddInv ==
  ASSUME IInv, NEW n \in Node, NEW a \in Abonent, Add(n, a)
  PROVE  IInv'
<1> USE DEF IInv
<1>0. PICK l \in Nat : l = L
  BY Places
<1>1. /\ order' = Append(order, n) /\ order' \in Seq(Node) /\ L' = l + 1
      /\ \A k \in 1..l : order'[k] = order[k]
      /\ order'[l + 1] = n
  BY <1>0 DEF Add, TypeOK, L
<1>2. l \in Nat /\ n \notin live /\ live = Listed
  BY <1>0, Places DEF Add, WellLinked
<1>3. \A k \in 1..l : order[k] \in live /\ order[k] # n /\ order[k] \in Node
  BY <1>0, <1>2, Places DEF Listed, L
<1>4. \A k \in 1..l : At(k)' = At(k)
  BY <1>0, <1>1, <1>2 DEF At, L
<1>5. At(l + 1)' = n /\ At(l + 2)' = NULL /\ At(0)' = NULL
  BY <1>0, <1>1, <1>2 DEF At, L
<1>6. head = At(1) /\ tail = At(l) /\ count = l /\ pc = "menu" /\ pc' = "menu"
  BY <1>0 DEF Add, WellLinked, Ends, Closing, L
<1>7. head = NULL <=> l = 0
  BY <1>0, <1>2, <1>6, Places
<1>8. /\ head' = At(1)'
      /\ \A k \in 1..l - 1 : next'[order[k]] = next[order[k]]
      /\ l > 0 => next'[order[l]] = n /\ tail = order[l]
      /\ next'[n] = NULL
      /\ \A k \in 1..l : prev'[order[k]] = prev[order[k]]
      /\ prev'[n] = At(l)
  <2>1. CASE l = 0
    BY <1>0, <1>2, <1>5, <1>6, <1>7, <2>1 DEF Add, TypeOK, At, L
  <2>2. CASE l > 0
    <3>1. tail = order[l] /\ tail \in Node /\ tail # n
      BY <1>0, <1>2, <1>3, <1>6, <2>2, Places
    <3>2. LinkedLast(n)
      BY <1>0, <1>2, <1>7, <2>2 DEF Add
    <3>3. \A k \in 1..l - 1 : order[k] # tail
      BY <1>0, <1>2, <3>1 DEF WellLinked, Distinct, L
    <3>4. head' = At(1)'
      BY <1>0, <1>2, <1>4, <1>6, <2>2, <3>2 DEF LinkedLast
    <3>5. next' = [next EXCEPT ![n] = NULL, ![tail] = n] /\ prev' = [prev EXCEPT ![n] = tail]
      BY <1>0, <3>2 DEF LinkedLast
    <3> QED BY <1>0, <1>2, <1>3, <1>6, <3>1, <3>3, <3>4, <3>5 DEF TypeOK
  <2> QED BY <1>0, <1>2, <2>1, <2>2
<1>9. TypeOK'
  <2>1. tail' = n /\ head' \in Node \cup {NULL} /\ count' \in Nat
    BY DEF Add, LinkedLast, TypeOK
  <2>2. /\ next' \in [Node -> Node \cup {NULL}] /\ prev' \in [Node -> Node \cup {NULL}]
    <3>1. CASE head = NULL
      BY <3>1 DEF Add, TypeOK
    <3>2. CASE head # NULL
      <4>1. LinkedLast(n) /\ tail \in Node \cup {NULL}
        BY <3>2 DEF Add, TypeOK
      <4>2. next' = [next EXCEPT ![n] = NULL, ![tail] = n] /\ prev' = [prev EXCEPT ![n] = tail]
        BY <4>1 DEF LinkedLast
      <4>3. [next EXCEPT ![n] = NULL, ![tail] = n] \in [Node -> Node \cup {NULL}]
        BY DEF TypeOK
      <4>4. [prev EXCEPT ![n] = tail] \in [Node -> Node \cup {NULL}]
        BY DEF TypeOK
      <4> QED BY <4>2, <4>3, <4>4
    <3> QED BY <3>1, <3>2
  <2>3. /\ data' \in [Node -> Abonent] /\ live' \subseteq Node
        /\ UNCHANGED <<pc, current, wanted, shown>>
    BY <1>0 DEF Add, TypeOK
  <2> QED BY <1>0, <1>1, <2>1, <2>2, <2>3 DEF TypeOK
<1>10. WellLinked'
  <2>1. live' = Listed'
    <3>1. Listed' = {order'[k] : k \in 1..l + 1}
      BY <1>0, <1>1 DEF Listed, L
    <3>2. \A m : m \in Listed' <=> m \in Listed \/ m = n
      BY <1>0, <1>1, <1>2, <3>1 DEF Listed, L
    <3>3. live' = live \cup {n}
      BY <1>0 DEF Add
    <3> QED BY <1>0, <1>2, <3>2, <3>3
  <2>2. Distinct'
    BY <1>0, <1>1, <1>2, <1>3 DEF WellLinked, Distinct, L
  <2>3. NextLinks'
    <3>1. \A k \in 1..l - 1 : next'[order'[k]] = At(k + 1)'
      BY <1>0, <1>1, <1>2, <1>4, <1>8 DEF WellLinked, NextLinks, L
    <3>2. l > 0 => next'[order'[l]] = At(l + 1)'
      <4>1. l > 0 => order'[l] = order[l]
        <5>1. l > 0 => l \in 1..l
          BY <1>0
        <5>2. \A k \in 1..l : order'[k] = order[k]
          BY <1>1
        <5> QED BY <5>1, <5>2
      <4>2. l > 0 => next'[order[l]] = n /\ At(l + 1)' = n
        BY <1>5, <1>8
      <4> QED BY <4>1, <4>2
    <3>3. next'[order'[l + 1]] = At(l + 1 + 1)'
      BY <1>0, <1>1, <1>2, <1>5, <1>8
    <3> QED BY <1>0, <1>1, <1>2, <3>1, <3>2, <3>3 DEF NextLinks, L
  <2>4. PrevLinks'
    <3>1. \A k \in 2..l : prev'[order'[k]] = At(k - 1)'
      BY <1>0, <1>1, <1>2, <1>4, <1>6, <1>8 DEF WellLinked, PrevLinks, Closing, L
    <3>2. l > 0 => prev'[order'[1]] = At(0)'
      <4>1. l > 0 => prev[order[1]] = At(0) /\ At(0) = NULL
        BY <1>0, <1>2, <1>6, Places DEF WellLinked, PrevLinks, Closing, L
      <4> QED BY <1>0, <1>1, <1>2, <1>5, <1>8, <4>1
    <3>3. l > 0 => prev'[order'[l + 1]] = At(l)'
      BY <1>0, <1>1, <1>2, <1>4, <1>8
    <3>4. l = 0 => prev'[order'[1]] = At(0)'
      BY <1>0, <1>1, <1>5, <1>8, Places
    <3> QED BY <1>0, <1>1, <1>2, <3>1, <3>2, <3>3, <3>4 DEF PrevLinks, L
  <2>5. Ends'
    BY <1>0, <1>1, <1>2, <1>5, <1>6, <1>8 DEF Ends, L, Add
  <2>6. current' \in live' \cup {NULL}
    BY <1>0, <1>6 DEF Add, WellLinked, Closing
  <2> QED BY <1>0, <1>6, <2>1, <2>2, <2>3, <2>4, <2>5, <2>6 DEF WellLinked
<1>11. PassedNone'
  BY <1>0, <1>6 DEF PassedNone
<1> QED BY <1>0, <1>9, <1>10, <1>11

\* The list without its k-th node.
LEMMA Shortened ==
  ASSUME IInv, NEW l, l = L, NEW k \in 1..l, order' = Without(order[k])
  PROVE  /\ order' \in Seq(Node) /\ L' = l - 1
         /\ \A j \in 1..k - 1 : order'[j] = order[j]
         /\ \A j \in k..l - 1 : order'[j] = order[j + 1]
         /\ \A j \in 0..k - 1 : At(j)' = At(j)
         /\ \A j \in k..l : At(j)' = At(j + 1)
         /\ Distinct'
         /\ Listed' = Listed \ {order[k]}
<1> USE DEF IInv
<1>1. TypeOK /\ Distinct /\ k \in 1..L
  BY DEF WellLinked
<1>2. order' = [j \in 1..l - 1 |-> IF j < k THEN order[j] ELSE order[j + 1]]
  BY <1>1, WithoutPlace
<1>3. order' \in Seq(Node) /\ L' = l - 1 /\ Len(order') = l - 1
  BY <1>1, WithoutPlace DEF L
<1>4. l \in Nat /\ k \in 1..l
  BY Places
<1>5. /\ \A j \in 1..k - 1 : order'[j] = order[j]
      /\ \A j \in k..l - 1 : order'[j] = order[j + 1]
  BY <1>2, <1>4
<1>6. \A j \in 0..k - 1 : At(j)' = At(j)
  BY <1>3, <1>4, <1>5 DEF At, L
<1>7. \A j \in k..l : At(j)' = At(j + 1)
  BY <1>3, <1>4, <1>5 DEF At, L
<1>8. Distinct'
  <2> SUFFICES ASSUME NEW i \in 1..l - 1, NEW j \in 1..l - 1, order'[i] = order'[j]
               PROVE  i = j
    BY <1>3 DEF Distinct
  <2>1. \A x, y \in 1..l : order[x] = order[y] => x = y
    BY <1>1 DEF Distinct, L
  <2> QED BY <1>2, <1>4, <2>1
<1>9. Listed' = Listed \ {order[k]}
  <2>1. ASSUME NEW m \in Listed' PROVE m \in Listed /\ m # order[k]
    <3>1. PICK j \in 1..l - 1 : m = order'[j]
      BY <1>3, <2>1 DEF Listed
    <3>2. PICK i \in 1..l : i # k /\ m = order[i]
      BY <1>4, <1>5, <3>1
    <3> QED BY <1>1, <1>4, <3>2 DEF Listed, Distinct, L
  <2>2. ASSUME NEW m \in Listed, m # order[k] PROVE m \in Listed'
    <3>1. PICK i \in 1..l : m = order[i]
      BY <2>2 DEF Listed, L
    <3>2. PICK j \in 1..l - 1 : m = order'[j]
      <4>1. CASE i < k
        BY <1>4, <1>5, <4>1, <3>1
      <4>2. CASE i > k
        <5>1. i - 1 \in k..l - 1 /\ i - 1 + 1 = i
          BY <1>4, <4>2
        <5>2. order'[i - 1] = m
          BY <1>5, <5>1, <3>1
        <5> QED BY <1>4, <5>1, <5>2
      <4> QED BY <1>4, <2>2, <3>1, <4>1, <4>2
    <3> QED BY <1>3, <3>2 DEF Listed
  <2> QED BY <2>1, <2>2
<1> QED BY <1>3, <1>5, <1>6, <1>7, <1>8, <1>9

\* delete_abonent's last step.
LEMMA DeleteInv == ASSUME IInv, Delete PROVE IInv'
<1> USE DEF IInv
<1>0. PICK l \in Nat : l = L
  BY Places
<1>1. /\ pc = "delete" /\ pc' = "menu" /\ current' = NULL /\ wanted' = NoKey /\ shown' = <<>>
      /\ current \in live /\ live' = live \ {current} /\ count' = count - 1
      /\ order' = Without(current) /\ data' = data
      /\ BridgeForward(current) /\ BridgeBack(current)
  BY DEF Delete, ToMenu, WellLinked, Closing
<1>2. PICK k \in 1..l : current = order[k]
  BY <1>0, <1>1 DEF WellLinked, Listed, L
<1>3. /\ order' \in Seq(Node) /\ L' = l - 1
      /\ \A j \in 1..k - 1 : order'[j] = order[j]
      /\ \A j \in k..l - 1 : order'[j] = order[j + 1]
      /\ \A j \in 0..k - 1 : At(j)' = At(j)
      /\ \A j \in k..l : At(j)' = At(j + 1)
      /\ Distinct'
      /\ Listed' = Listed \ {order[k]}
  BY <1>0, <1>1, <1>2, Shortened
<1>4. /\ head = At(1) /\ tail = At(l) /\ count = l /\ live = Listed
      /\ \A j \in 1..l : next[order[j]] = At(j + 1) /\ prev[order[j]] = At(j - 1)
      /\ \A i, j \in 1..l : order[i] = order[j] => i = j
  BY <1>0, <1>1 DEF WellLinked, Ends, Distinct, NextLinks, PrevLinks, Closing, L
<1>5. /\ \A j \in 1..l : At(j) = order[j] /\ order[j] \in Node /\ order[j] # NULL
      /\ At(0) = NULL /\ At(l + 1) = NULL
  BY <1>0, Places
<1>6. /\ IF k > 1 THEN next' = [next EXCEPT ![order[k - 1]] = At(k + 1)] /\ head' = head
                  ELSE head' = At(k + 1) /\ next' = next
      /\ IF k < l THEN prev' = [prev EXCEPT ![order[k + 1]] = At(k - 1)] /\ tail' = tail
                  ELSE tail' = At(k - 1) /\ prev' = prev
  <2>1. next[current] = At(k + 1) /\ prev[current] = At(k - 1)
    BY <1>2, <1>4
  <2>2. (At(k - 1) # NULL <=> k > 1) /\ (k > 1 => At(k - 1) = order[k - 1])
    BY <1>2, <1>5
  <2>3. (At(k + 1) # NULL <=> k < l) /\ (k < l => At(k + 1) = order[k + 1])
    BY <1>2, <1>5
  <2> QED BY <1>1, <2>1, <2>2, <2>3 DEF BridgeForward, BridgeBack
<1>7. TypeOK'
  <2>1. \A j \in 0..l + 1 : At(j) \in Node \cup {NULL}
    BY <1>5
  <2>2. /\ next' \in [Node -> Node \cup {NULL}] /\ prev' \in [Node -> Node \cup {NULL}]
        /\ {head', tail'} \subseteq Node \cup {NULL}
    BY <1>2, <1>6, <2>1 DEF TypeOK
  <2>3. count' \in Nat
    BY <1>1, <1>2, <1>4
  <2>4. live' \subseteq Node /\ data' \in [Node -> Abonent]
    BY <1>1 DEF TypeOK
  <2> QED BY <1>1, <1>3, <2>2, <2>3, <2>4 DEF TypeOK
<1>8. NextLinks'
  <2> SUFFICES ASSUME NEW j \in 1..l - 1 PROVE next'[order'[j]] = At(j + 1)'
    BY <1>3 DEF NextLinks, L
  <2>1. next \in [Node -> Node \cup {NULL}]
    BY DEF TypeOK
  <2>2. CASE j < k - 1
    <3>1. order'[j] = order[j] /\ At(j + 1)' = At(j + 1) /\ next[order[j]] = At(j + 1)
      BY <1>3, <1>4, <2>2
    <3>2. order[j] # order[k - 1]
      BY <1>4, <2>2
    <3> QED BY <1>5, <1>6, <2>1, <3>1, <3>2
  <2>3. CASE j = k - 1
    <3>1. order'[j] = order[k - 1] /\ At(j + 1)' = At(k + 1)
      BY <1>3, <2>3
    <3> QED BY <1>5, <1>6, <2>1, <2>3, <3>1
  <2>4. CASE j >= k
    <3>1. order'[j] = order[j + 1] /\ At(j + 1)' = At(j + 1 + 1)
      <4>1. j \in k..l - 1 /\ j + 1 \in k..l
        BY <1>2, <2>4
      <4> QED BY <1>3, <4>1
    <3>2. next[order[j + 1]] = At(j + 1 + 1)
      BY <1>4
    <3>3. k > 1 => order[j + 1] # order[k - 1]
      BY <1>4, <2>4
    <3> QED BY <1>5, <1>6, <2>1, <3>1, <3>2, <3>3
  <2> QED BY <2>2, <2>3, <2>4
<1>9. PrevLinks'
  <2> SUFFICES ASSUME NEW j \in 1..l - 1 PROVE prev'[order'[j]] = At(j - 1)'
    BY <1>3 DEF PrevLinks, L
  <2>1. prev \in [Node -> Node \cup {NULL}]
    BY DEF TypeOK
  <2>2. CASE j < k
    <3>1. order'[j] = order[j] /\ At(j - 1)' = At(j - 1) /\ prev[order[j]] = At(j - 1)
      <4>1. j \in 1..k - 1 /\ j - 1 \in 0..k - 1 /\ j \in 1..l
        BY <1>2, <2>2
      <4> QED BY <1>3, <1>4, <4>1
    <3>2. k < l => order[j] # order[k + 1]
      BY <1>4, <2>2
    <3> QED BY <1>5, <1>6, <2>1, <3>1, <3>2
  <2>3. CASE j = k
    <3>1. order'[j] = order[k + 1] /\ At(j - 1)' = At(k - 1)
      BY <1>3, <2>3
    <3> QED BY <1>5, <1>6, <2>1, <2>3, <3>1
  <2>4. CASE j > k
    <3>1. order'[j] = order[j + 1] /\ At(j - 1)' = At(j - 1 + 1)
      BY <1>3, <2>4
    <3>2. prev[order[j + 1]] = At(j + 1 - 1) /\ j + 1 - 1 = j - 1 + 1
      BY <1>4
    <3>3. k < l => order[j + 1] # order[k + 1]
      BY <1>4, <2>4
    <3> QED BY <1>5, <1>6, <2>1, <3>1, <3>2, <3>3
  <2> QED BY <2>2, <2>3, <2>4
<1>10. Ends'
  <2>1. head' = At(1)'
    BY <1>2, <1>3, <1>4, <1>6
  <2>2. tail' = At(l - 1)'
    <3>1. CASE k < l
      <4>1. l - 1 \in k..l /\ l - 1 + 1 = l
        BY <3>1
      <4> QED BY <1>3, <1>4, <1>6, <3>1, <4>1
    <3>2. CASE k = l
      BY <1>3, <1>6, <3>2
    <3> QED BY <1>2, <3>1, <3>2
  <2> QED BY <1>1, <1>3, <1>4, <2>1, <2>2 DEF Ends, L
<1>11. WellLinked'
  BY <1>1, <1>2, <1>3, <1>4, <1>8, <1>9, <1>10 DEF WellLinked, Closing
<1>12. PassedNone'
  BY <1>1 DEF PassedNone
<1> QED BY <1>7, <1>11, <1>12

\* clear_directory, node by node.
LEMMA ClearInv ==
  ASSUME IInv, ClearNext \/ ClearDone \/ Exited
  PROVE  IInv'
<1> USE DEF IInv
<1>0. PICK l \in Nat : l = L
  BY Places
<1>1. CASE ClearNext
  <2>1. /\ pc = "clear" /\ pc' = "clear" /\ current = At(1) /\ current # NULL
        /\ live' = live \ {current} /\ order' = Without(current)
        /\ current' = next[current]
        /\ UNCHANGED <<head, tail, count, next, prev, data, wanted, shown>>
    BY <1>1 DEF ClearNext, WellLinked
  <2>2. 1 \in 1..l /\ current = order[1] /\ current \in Node
    BY <1>0, <2>1, Places
  <2>3. /\ order' \in Seq(Node) /\ L' = l - 1
        /\ \A j \in 1..l - 1 : order'[j] = order[j + 1]
        /\ \A j \in 1..l : At(j)' = At(j + 1)
        /\ Distinct'
        /\ Listed' = Listed \ {current}
    BY <1>0, <2>1, <2>2, Shortened
  <2>4. \A j \in 1..l : next[order[j]] = At(j + 1)
    BY <1>0 DEF WellLinked, NextLinks, L
  <2>5. TypeOK'
    BY <2>1, <2>2, <2>3 DEF TypeOK
  <2>6. NextLinks'
    <3> SUFFICES ASSUME NEW j \in 1..l - 1 PROVE next'[order'[j]] = At(j + 1)'
      BY <2>3 DEF NextLinks, L
    <3>1. j + 1 \in 1..l
      BY <1>0
    <3>2. At(j + 1)' = At(j + 1 + 1)
      BY <2>3, <3>1
    <3>3. next[order[j + 1]] = At(j + 1 + 1)
      BY <2>4, <3>1
    <3> QED BY <2>1, <2>3, <3>2, <3>3
  <2>7. current' = At(1)'
    BY <2>1, <2>2, <2>3, <2>4
  <2>8. live' = Listed'
    BY <2>1, <2>3 DEF WellLinked
  <2> QED BY <2>1, <2>3, <2>5, <2>6, <2>7, <2>8 DEF WellLinked, PassedNone, Closing
<1>2. CASE ClearDone
  <2>1. /\ pc = "clear" /\ pc' = "exit" /\ head' = NULL /\ tail' = NULL /\ count' = 0
        /\ current = NULL /\ UNCHANGED <<next, prev, data, live, current, wanted, order, shown>>
    BY <1>2 DEF ClearDone
  <2>2. l = 0 /\ order = <<>>
    <3>1. At(1) = NULL
      BY <2>1 DEF WellLinked
    <3>2. l = 0
      BY <1>0, <3>1, Places
    <3>3. order \in Seq(Node) /\ Len(order) = 0
      BY <1>0, <3>2 DEF TypeOK, L
    <3> QED BY <3>2, <3>3
  <2>3. TypeOK'
    BY <2>1 DEF TypeOK, Closing
  <2>4. Listed' = Listed /\ Distinct' = Distinct /\ NextLinks' = NextLinks
    BY <2>1 DEF Listed, Distinct, NextLinks, At
  <2> QED BY <2>1, <2>2, <2>3, <2>4 DEF WellLinked, PassedNone, Closing
<1>3. CASE Exited
  BY <1>3, WalkInv DEF Exited
<1> QED BY <1>1, <1>2, <1>3

LEMMA InvNext == IInv /\ [Next]_vars => IInv'
BY WalkInv, AddInv, DeleteInv, ClearInv DEF Next

LEMMA Always == Spec => []IInv
BY InvInit, InvNext, PTL DEF Spec

-----------------------------------------------------------------------------
(* The theorems.                                                           *)

\* Every variable keeps its type, whatever malloc gives and the user types.
THEOREM TypeCorrect == Spec => []TypeOK
<1>1. IInv => TypeOK
  BY DEF IInv
<1> QED BY <1>1, Always, PTL

\* add_abonent, delete_abonent and clear_directory keep the heap a list, and
\* no walk ever stands on a node that was freed, for any number of nodes.
THEOREM LinksCorrect == Spec => []WellLinked
<1>1. IInv => WellLinked
  BY DEF IInv
<1> QED BY <1>1, Always, PTL

\* What the user sees of the list as a sequence.
Abonents == [k \in 1..Len(order) |-> data[order[k]]]
Asked == IF pc = "delete" THEN wanted ELSE NoKey
IsClosing == pc \in Closing

LEMMA AbonentsType ==
  ASSUME TypeOK
  PROVE  /\ Abonents \in Seq(Abonent) /\ Len(Abonents) = L
         /\ \A k \in 1..L : Abonents[k] = data[order[k]]
BY DEF TypeOK, Abonents, L

LEMMA DirectoryInit == Init => Abstract!Init
<1> SUFFICES ASSUME Init PROVE Abstract!Init
  OBVIOUS
<1>1. TypeOK /\ Len(order) = 0
  BY InvInit DEF Init, IInv
<1>2. Abonents \in Seq(Abonent) /\ Len(Abonents) = 0
  BY <1>1, AbonentsType DEF L
<1>3. Abonents = <<>>
  BY <1>2
<1> QED BY <1>3 DEF Init, Abstract!Init, Abonents, Closing

LEMMA SameAbonents ==
  ASSUME UNCHANGED <<order, data>>
  PROVE  Abonents' = Abonents
BY DEF Abonents

\* A deletion that is at work has a key.
LEMMA AskedKey == ASSUME IInv, pc = "delete" PROVE wanted \in Key /\ Asked # NoKey
BY KeyAssumption DEF IInv, PassedNone, Asked

LEMMA AddStep ==
  ASSUME IInv, IInv', NEW n \in Node, NEW a \in Abonent, Add(n, a)
  PROVE  Abstract!Add(a)
<1>1. PICK l \in Nat : l = L
  BY Places DEF IInv
<1>2. /\ order' = Append(order, n) /\ order' \in Seq(Node) /\ L' = l + 1
      /\ \A k \in 1..l : order'[k] = order[k]
      /\ order'[l + 1] = n
  BY <1>1 DEF Add, IInv, TypeOK, L
<1>3. data' = [data EXCEPT ![n] = a] /\ pc = "menu" /\ pc' = "menu"
  BY DEF Add
<1>4. \A k \in 1..l : order[k] # n /\ order[k] \in Node
  BY <1>1, Places DEF Add, IInv, WellLinked, Listed, L
<1>5. /\ Abonents \in Seq(Abonent) /\ Len(Abonents) = l
      /\ \A k \in 1..l : Abonents[k] = data[order[k]]
  BY <1>1, AbonentsType DEF IInv
<1>6. /\ Abonents' \in Seq(Abonent) /\ Len(Abonents') = l + 1
      /\ \A k \in 1..l + 1 : Abonents'[k] = data'[order'[k]]
  <2>1. TypeOK'
    BY DEF IInv
  <2>2. /\ Abonents' \in Seq(Abonent) /\ Len(Abonents') = L'
        /\ \A k \in 1..L' : Abonents'[k] = data'[order'[k]]
    BY <2>1 DEF TypeOK, Abonents, L
  <2> QED BY <1>2, <2>2
<1>7. data'[n] = a /\ \A m \in Node : m # n => data'[m] = data[m]
  BY <1>3 DEF IInv, TypeOK
<1>8. \A k \in 1..l : Abonents'[k] = Abonents[k]
  <2> SUFFICES ASSUME NEW k \in 1..l PROVE Abonents'[k] = Abonents[k]
    OBVIOUS
  <2>1. Abonents'[k] = data'[order[k]]
    <3>1. k \in 1..l + 1
      BY <1>1
    <3>2. order'[k] = order[k]
      BY <1>2
    <3> QED BY <1>6, <3>1, <3>2
  <2> QED BY <1>4, <1>5, <1>7, <2>1
<1>9. Abonents'[l + 1] = a
  <2>1. l + 1 \in 1..l + 1
    BY <1>1
  <2>2. Abonents'[l + 1] = data'[order'[l + 1]]
    BY <1>6, <2>1
  <2>3. order'[l + 1] = n
    BY <1>2
  <2> QED BY <1>7, <2>2, <2>3
<1>10. Abonents' = Append(Abonents, a)
  BY <1>5, <1>6, <1>8, <1>9
<1> QED BY <1>3, <1>10 DEF Abstract!Add, Abonents, Closing

LEMMA DeleteStep ==
  ASSUME IInv, IInv', Delete
  PROVE  Abstract!Remove
<1>1. PICK l \in Nat : l = L
  BY Places DEF IInv
<1>2. /\ pc = "delete" /\ pc' = "menu" /\ wanted' = NoKey
      /\ current # NULL /\ SameKey(current, wanted)
      /\ order' = Without(current) /\ data' = data
  BY DEF Delete, ToMenu
<1>3. PICK k \in 1..l + 1 :
        current = At(k) /\ \A j \in 1..k - 1 : ~SameKey(order[j], wanted)
  BY <1>1, <1>2 DEF IInv, PassedNone
<1>4. k \in 1..l /\ current = order[k]
  BY <1>1, <1>2, <1>3, Places DEF IInv
<1>5. /\ L' = l - 1
      /\ \A j \in 1..k - 1 : order'[j] = order[j]
      /\ \A j \in k..l - 1 : order'[j] = order[j + 1]
  BY <1>1, <1>2, <1>4, Shortened
<1>6. /\ Len(Abonents) = l
      /\ \A j \in 1..l : Abonents[j] = data[order[j]]
  BY <1>1, AbonentsType DEF IInv
<1>7. Abonents' = [j \in 1..l - 1 |-> data[order'[j]]]
  BY <1>2, <1>5 DEF Abonents, L
<1>8. Abonents' = [j \in 1..l - 1 |-> IF j < k THEN Abonents[j] ELSE Abonents[j + 1]]
  <2> SUFFICES ASSUME NEW j \in 1..l - 1
               PROVE  data[order'[j]] = IF j < k THEN Abonents[j] ELSE Abonents[j + 1]
    BY <1>7
  <2>1. CASE j < k
    BY <1>4, <1>5, <1>6, <2>1
  <2>2. CASE j >= k
    <3>1. j \in k..l - 1 /\ j + 1 \in 1..l
      BY <1>4, <2>2
    <3> QED BY <1>5, <1>6, <2>2, <3>1
  <2> QED BY <1>4, <2>1, <2>2
<1>9. Abonents' = Abstract!Without(Abonents, k)
  BY <1>6, <1>8 DEF Abstract!Without
<1>10. \A j \in 1..l : Abstract!Matches(Abonents[j], wanted) <=> SameKey(order[j], wanted)
  BY <1>6 DEF Abstract!Matches, SameKey
<1>11. Asked = wanted /\ Asked' = NoKey /\ Asked # NoKey /\ IsClosing' = IsClosing
  BY <1>2, AskedKey DEF Asked, IsClosing, Closing
<1>12. k \in 1..Len(Abonents) /\ \A j \in 1..k - 1 : j \in 1..l
  BY <1>4, <1>6
<1>13. /\ Abstract!Matches(Abonents[k], Asked)
       /\ \A j \in 1..k - 1 : ~Abstract!Matches(Abonents[j], Asked)
  BY <1>2, <1>3, <1>4, <1>10, <1>11, <1>12
<1> QED BY <1>9, <1>11, <1>12, <1>13 DEF Abstract!Remove, Abonents, Asked, IsClosing

LEMMA NotFoundStep ==
  ASSUME IInv, NotFound
  PROVE  Abstract!Refuse
<1>1. PICK l \in Nat : l = L
  BY Places DEF IInv
<1>2. pc = "delete" /\ pc' = "menu" /\ wanted' = NoKey /\ current = NULL /\ UNCHANGED list
  BY DEF NotFound, ToMenu
<1>3. PICK k \in 1..l + 1 :
        current = At(k) /\ \A j \in 1..k - 1 : ~SameKey(order[j], wanted)
  BY <1>1, <1>2 DEF IInv, PassedNone
<1>4. k = l + 1
  BY <1>1, <1>2, <1>3, Places DEF IInv
<1>5. /\ Len(Abonents) = l
      /\ \A j \in 1..l : Abonents[j] = data[order[j]]
  BY <1>1, AbonentsType DEF IInv
<1>6. \A j \in 1..Len(Abonents) : ~Abstract!Matches(Abonents[j], wanted)
  BY <1>3, <1>4, <1>5 DEF Abstract!Matches, SameKey
<1>7. Asked = wanted /\ Asked' = NoKey /\ Asked # NoKey /\ IsClosing' = IsClosing
  BY <1>2, AskedKey DEF Asked, IsClosing, Closing
<1>8. Abonents' = Abonents
  BY <1>2, SameAbonents DEF list
<1> QED BY <1>6, <1>7, <1>8 DEF Abstract!Refuse, Abonents, Asked, IsClosing

LEMMA ClearStep ==
  ASSUME IInv, IInv', ClearNext
  PROVE  Abstract!GiveUp
<1>1. PICK l \in Nat : l = L
  BY Places DEF IInv
<1>2. /\ pc = "clear" /\ pc' = "clear" /\ current = At(1) /\ current # NULL
      /\ order' = Without(current) /\ data' = data /\ wanted' = wanted
  BY DEF ClearNext, IInv, WellLinked
<1>3. 1 \in 1..l /\ current = order[1]
  BY <1>1, <1>2, Places DEF IInv
<1>4. L' = l - 1 /\ \A j \in 1..l - 1 : order'[j] = order[j + 1]
  BY <1>1, <1>2, <1>3, Shortened
<1>5. /\ Abonents \in Seq(Abonent) /\ Len(Abonents) = l
      /\ \A j \in 1..l : Abonents[j] = data[order[j]]
  BY <1>1, AbonentsType DEF IInv
<1>6. Abonents' = [j \in 1..l - 1 |-> data[order'[j]]]
  BY <1>2, <1>4 DEF Abonents, L
<1>7. Abonents' = [j \in 1..l - 1 |-> Abonents[j + 1]]
  BY <1>1, <1>4, <1>5, <1>6
<1>8. Abonents # <<>> /\ Tail(Abonents) = [j \in 1..l - 1 |-> Abonents[j + 1]]
  <2>1. Abonents # <<>>
    BY <1>3, <1>5
  <2>2. /\ Tail(Abonents) \in Seq(Abonent) /\ Len(Tail(Abonents)) = l - 1
        /\ \A j \in 1..l - 1 : Tail(Abonents)[j] = Abonents[j + 1]
    BY <1>5, <2>1, HeadTailProperties
  <2> DEFINE t == [j \in 1..l - 1 |-> Abonents[j + 1]]
  <2>3. t \in Seq(Abonent) /\ Len(t) = l - 1
    BY <1>1, <1>3, <1>5
  <2>4. \A j \in 1..l - 1 : t[j] = Tail(Abonents)[j]
    BY <2>2
  <2> HIDE DEF t
  <2>5. Tail(Abonents) = t
    BY <2>2, <2>3, <2>4, SeqEqual
  <2> QED BY <2>1, <2>5 DEF t
<1>9. Abonents' = Tail(Abonents)
  BY <1>7, <1>8
<1> QED BY <1>2, <1>8, <1>9 DEF Abstract!GiveUp, Abonents, Closing

LEMMA DirectoryStep ==
  IInv /\ IInv' /\ [Next]_vars => [Abstract!Next]_<<Abonents, Asked, IsClosing>>
<1> SUFFICES ASSUME IInv, IInv', [Next]_vars
             PROVE  [Abstract!Next]_<<Abonents, Asked, IsClosing>>
  OBVIOUS
<1>1. ASSUME NEW n \in Node, NEW a \in Abonent, Add(n, a) PROVE Abstract!Next
  BY <1>1, AddStep DEF Abstract!Next
<1>2. ASSUME NEW key \in Key, StartDelete(key) PROVE Abstract!Next
  <2>1. Abonents' = Abonents
    BY <1>2, SameAbonents DEF StartDelete, list
  <2>2. Asked = NoKey /\ Asked' = key /\ ~IsClosing /\ ~IsClosing'
    BY <1>2 DEF StartDelete, Walk, Asked, IsClosing, Closing
  <2>3. Abstract!Ask(key)
    BY <2>1, <2>2 DEF Abstract!Ask, Abonents, Asked, IsClosing
  <2> QED BY <2>3 DEF Abstract!Next
<1>3. CASE Delete
  BY <1>3, DeleteStep DEF Abstract!Next
<1>4. CASE NotFound
  BY <1>4, NotFoundStep DEF Abstract!Next
<1>5. CASE ClearNext
  BY <1>5, ClearStep DEF Abstract!Next
<1>6. CASE StartClear
  <2>1. Abonents' = Abonents
    BY <1>6, SameAbonents DEF StartClear, list
  <2>2. Asked = NoKey /\ Asked' = NoKey /\ ~IsClosing /\ IsClosing'
    BY <1>6 DEF StartClear, Walk, Asked, IsClosing, Closing
  <2>3. Abstract!Close
    BY <2>1, <2>2 DEF Abstract!Close, Abonents, Asked, IsClosing
  <2> QED BY <2>3 DEF Abstract!Next
<1>7. CASE FindNext \/ ShowNext \/ ShowDone \/ ClearDone \/ Exited \/ UNCHANGED vars
  <2>1. order' = order /\ data' = data
    BY <1>7 DEF FindNext, ShowNext, ShowDone, ClearDone, Exited, vars, list
  <2>2. Asked' = Asked /\ IsClosing' = IsClosing
    BY <1>7 DEF FindNext, ShowNext, ShowDone, ClearDone, Exited, vars, ToMenu, Asked,
                IsClosing, Closing, Listing
  <2> QED BY <2>1, <2>2, SameAbonents
<1>8. CASE StartForward \/ StartReverse \/ \E x \in Name : StartSearch(x)
  <2>1. order' = order /\ data' = data
    BY <1>8 DEF StartForward, StartReverse, StartSearch, list
  <2>2. Asked' = Asked /\ IsClosing' = IsClosing
    BY <1>8 DEF StartForward, StartReverse, StartSearch, Walk, Asked, IsClosing, Closing
  <2> QED BY <2>1, <2>2, SameAbonents
<1> QED BY <1>1, <1>2, <1>3, <1>4, <1>5, <1>6, <1>7, <1>8 DEF Next

\* The linked list implements the directory: a deletion removes the first
\* abonent with the given names or finds none because there is none, an
\* abonent is added at the end, for any number of nodes.
THEOREM DirectoryCorrect == Spec => DirectorySpec
<1>1. Init => Abstract!Init
  BY DirectoryInit
<1>2. IInv /\ IInv' /\ [Next]_vars => [Abstract!Next]_<<Abonents, Asked, IsClosing>>
  BY DirectoryStep
<1>3. (Abstract!Init /\ [][Abstract!Next]_<<Abonents, Asked, IsClosing>>) => Abstract!Spec
  BY PTL DEF Abstract!Spec, Abonents, Asked, IsClosing
<1> QED BY <1>1, <1>2, <1>3, Always, PTL DEF Spec, DirectorySpec

-----------------------------------------------------------------------------
(* The listings.                                                           *)

\* The nodes before the k-th one in the order of the listing at work.
Passed(k) == {order[i] : i \in {i \in 1..L : IF pc = "reverse" THEN i > k ELSE i < k}}
Printed == {shown[j] : j \in 1..Len(shown)}
InOrder == \A j, k \in 1..Len(shown) : j < k => Before(shown[j], shown[k])

\* A listing stands on the k-th node, or behind the last one of its way, and
\* has printed those of the nodes before it that it should.
StandsOn(k) ==
  /\ current = At(k)
  /\ IF pc = "reverse" THEN k \in 0..L ELSE k \in 1..L + 1
  /\ Printed = {n \in Passed(k) : Wanted(n)}

ShowInv ==
  /\ pc \notin Listing => shown = <<>>
  /\ pc \in Listing => InOrder /\ \E k \in 0..L + 1 : StandsOn(k)

\* A listing starts at the end of the list that it comes from.
LEMMA ShowStarts ==
  ASSUME IInv, ShowInv, pc = "menu", pc' \in Listing, UNCHANGED <<list, shown>>,
         current' = IF pc' = "reverse" THEN tail ELSE head
  PROVE  ShowInv'
<1>0. PICK l \in Nat : l = L
  BY Places DEF IInv
<1>1. shown' = <<>> /\ L' = l /\ order' = order /\ tail = At(l) /\ head = At(1)
  BY <1>0 DEF ShowInv, Listing, list, L, IInv, WellLinked, Ends, Closing
<1>2. InOrder' /\ Printed' = {}
  <2>1. 1..Len(shown') = {}
    BY <1>1
  <2> QED BY <2>1 DEF InOrder, Printed
<1>3. At(l)' = At(l) /\ At(1)' = At(1)
  BY <1>1 DEF At
<1>4. CASE pc' = "reverse"
  <2>1. Passed(l)' = {}
    BY <1>0, <1>1, <1>4 DEF Passed
  <2>2. StandsOn(l)'
    BY <1>0, <1>1, <1>2, <1>3, <1>4, <2>1 DEF StandsOn
  <2> QED BY <1>0, <1>1, <1>2, <2>2 DEF ShowInv
<1>5. CASE pc' # "reverse"
  <2>1. Passed(1)' = {}
    BY <1>0, <1>1, <1>5 DEF Passed
  <2>2. StandsOn(1)'
    BY <1>0, <1>1, <1>2, <1>3, <1>5, <2>1 DEF StandsOn
  <2> QED BY <1>0, <1>1, <1>2, <2>2 DEF ShowInv
<1> QED BY <1>4, <1>5

\* One round of a listing.
LEMMA ShowGoesOn ==
  ASSUME IInv, ShowInv, ShowNext
  PROVE  ShowInv'
<1>0. PICK l \in Nat : l = L
  BY Places DEF IInv
<1>1. /\ pc \in Listing /\ pc' = pc /\ current # NULL /\ order' = order /\ data' = data
      /\ wanted' = wanted /\ L' = l /\ current' = Follow(current)
      /\ shown' = IF Wanted(current) THEN Append(shown, current) ELSE shown
  BY <1>0 DEF ShowNext, list, L
<1>2. PICK k \in 0..L + 1 : StandsOn(k)
  BY <1>1 DEF ShowInv
<1>3. k \in 1..l /\ current = order[k]
  BY <1>0, <1>1, <1>2, Places DEF StandsOn, IInv
<1> DEFINE m == IF pc = "reverse" THEN k - 1 ELSE k + 1
<1>4. current' = At(m)
  BY <1>0, <1>1, <1>3 DEF Follow, IInv, WellLinked, NextLinks, PrevLinks, Listing, Closing, L
<1>5. At(m)' = At(m)
  BY <1>1 DEF At
<1>6. m \in 0..l + 1 /\ IF pc = "reverse" THEN m \in 0..l ELSE m \in 1..l + 1
  BY <1>3
<1>7. Passed(m)' = Passed(k) \cup {current}
  <2>1. Passed(m)' = {order[i] : i \in {i \in 1..l : IF pc = "reverse" THEN i > m ELSE i < m}}
    BY <1>1 DEF Passed
  <2>2. Passed(k) = {order[i] : i \in {i \in 1..l : IF pc = "reverse" THEN i > k ELSE i < k}}
    BY <1>0 DEF Passed
  <2>3. {i \in 1..l : IF pc = "reverse" THEN i > m ELSE i < m}
        = {i \in 1..l : IF pc = "reverse" THEN i > k ELSE i < k} \cup {k}
    BY <1>0, <1>3
  <2> QED BY <2>1, <2>2, <2>3, <1>3
<1>8. \A n : Wanted(n)' <=> Wanted(n)
  BY <1>1 DEF Wanted
<1>9. PICK s \in Nat : s = Len(shown)
  BY DEF IInv, TypeOK
<1>10. shown \in Seq(Node) /\ current \in Node
  BY <1>1 DEF IInv, TypeOK
<1>11. Printed' = IF Wanted(current) THEN Printed \cup {current} ELSE Printed
  BY <1>1, <1>9, <1>10 DEF Printed
<1>12. Printed' = {n \in Passed(m)' : Wanted(n)'}
  BY <1>2, <1>7, <1>8, <1>11 DEF StandsOn
<1>13. StandsOn(m)'
  BY <1>1, <1>4, <1>5, <1>6, <1>12 DEF StandsOn
<1>14. \A x, y : Before(x, y)' <=> Before(x, y)
  BY <1>1 DEF Before
<1>15. \A j \in 1..s : Before(shown[j], current)
  <2> SUFFICES ASSUME NEW j \in 1..s PROVE Before(shown[j], current)
    OBVIOUS
  <2>1. shown[j] \in Passed(k)
    BY <1>2, <1>9 DEF StandsOn, Printed
  <2> QED BY <1>0, <1>3, <2>1 DEF Passed, Before, L
<1>16. InOrder'
  <2>1. InOrder
    BY <1>1 DEF ShowInv
  <2>2. CASE Wanted(current)
    <3>1. /\ Len(shown') = s + 1 /\ shown'[s + 1] = current
          /\ \A j \in 1..s : shown'[j] = shown[j]
      BY <1>1, <1>9, <1>10, <2>2
    <3> QED BY <1>9, <1>14, <1>15, <2>1, <3>1 DEF InOrder
  <2>3. CASE ~Wanted(current)
    BY <1>1, <1>14, <2>1, <2>3 DEF InOrder
  <2> QED BY <2>2, <2>3
<1> QED BY <1>0, <1>1, <1>6, <1>13, <1>16 DEF ShowInv

LEMMA ShowInitial == Init => ShowInv
BY DEF Init, ShowInv, Listing

LEMMA ShowStep == IInv /\ ShowInv /\ [Next]_vars => ShowInv'
<1> SUFFICES ASSUME IInv, ShowInv, [Next]_vars PROVE ShowInv'
  OBVIOUS
<1>1. CASE (\E x \in Name : StartSearch(x)) \/ StartForward \/ StartReverse
  BY <1>1, ShowStarts DEF StartSearch, StartForward, StartReverse, Walk, Listing
<1>2. CASE ShowNext
  BY <1>2, ShowGoesOn
<1>3. CASE NotFound \/ ShowDone \/ Delete
  BY <1>3 DEF NotFound, ShowDone, Delete, ToMenu, ShowInv, Listing
<1>4. CASE (\E n \in Node, a \in Abonent : Add(n, a)) \/ (\E key \in Key : StartDelete(key))
           \/ FindNext \/ StartClear \/ ClearNext \/ ClearDone
  BY <1>4 DEF Add, StartDelete, FindNext, StartClear, ClearNext, ClearDone, Walk, ShowInv, Listing
<1>5. CASE UNCHANGED vars
  <2>1. /\ pc' = pc /\ current' = current /\ shown' = shown /\ order' = order
        /\ data' = data /\ wanted' = wanted
    BY <1>5 DEF vars
  <2>2. InOrder' <=> InOrder
    BY <2>1 DEF InOrder, Before
  <2>3. \A k : StandsOn(k)' <=> StandsOn(k)
    BY <2>1 DEF StandsOn, At, Passed, Printed, Wanted, L
  <2>4. L' = L
    BY <2>1 DEF L
  <2> QED BY <2>1, <2>2, <2>3, <2>4 DEF ShowInv
<1> QED BY <1>1, <1>2, <1>3, <1>4, <1>5 DEF Next, Exited

\* What has been printed is what the listing has passed, so it is all of it.
LEMMA ShownComplete ==
  ASSUME IInv, ShowInv
  PROVE  ListsAll
<1> SUFFICES ASSUME pc \in Listing
             PROVE  /\ Printed \subseteq {n \in Listed : Wanted(n)}
                    /\ InOrder
                    /\ \A n \in Printed : {m \in {x \in Listed : Wanted(x)} : Before(m, n)} \subseteq Printed
                    /\ current = NULL => Printed = {n \in Listed : Wanted(n)}
  BY DEF ListsAll, InOrder, Printed
<1>0. PICK l \in Nat : l = L
  BY Places DEF IInv
<1>1. PICK k \in 0..l + 1 : StandsOn(k)
  BY <1>0 DEF ShowInv
<1>2. Printed = {n \in Passed(k) : Wanted(n)} /\ Passed(k) \subseteq Listed
  BY <1>0, <1>1 DEF StandsOn, Passed, Listed, L
<1>3. \A i, j \in 1..l : order[i] = order[j] => i = j
  BY <1>0 DEF IInv, WellLinked, Distinct, L
<1>4. ASSUME NEW n \in Passed(k), NEW m \in Listed, Before(m, n)
      PROVE  m \in Passed(k)
  <2>1. PICK i \in 1..l : n = order[i] /\ IF pc = "reverse" THEN i > k ELSE i < k
    BY <1>0, <1>4 DEF Passed
  <2>2. PICK a, b \in 1..l : order[a] = m /\ order[b] = n /\ IF pc = "reverse" THEN b < a ELSE a < b
    BY <1>0, <1>4 DEF Before, L
  <2>3. b = i
    BY <1>3, <2>1, <2>2
  <2>4. IF pc = "reverse" THEN a > k ELSE a < k
    BY <1>1, <2>1, <2>2, <2>3
  <2> QED BY <1>0, <2>2, <2>4 DEF Passed
<1>5. current = NULL => Passed(k) = Listed
  <2> SUFFICES ASSUME current = NULL PROVE Listed \subseteq Passed(k)
    BY <1>2
  <2>1. k \notin 1..l
    BY <1>0, <1>1, Places DEF StandsOn, IInv
  <2>2. IF pc = "reverse" THEN k = 0 ELSE k = l + 1
    BY <1>0, <1>1, <2>1 DEF StandsOn
  <2>3. {i \in 1..l : IF pc = "reverse" THEN i > k ELSE i < k} = 1..l
    BY <2>2
  <2> QED BY <1>0, <2>3 DEF Passed, Listed, L
<1>6. InOrder
  BY DEF ShowInv
<1> QED BY <1>2, <1>4, <1>5, <1>6

\* Every listing shows each abonent that it should once, in its order, and
\* none of the others, for any number of nodes.
THEOREM ListingsComplete == Spec => []ListsAll
<1>1. Spec => [](IInv /\ ShowInv)
  BY InvInit, InvNext, ShowInitial, ShowStep, PTL DEF Spec
<1>2. IInv /\ ShowInv => ListsAll
  BY ShownComplete
<1> QED BY <1>1, <1>2, PTL

-----------------------------------------------------------------------------
(* The table.  Its characters by entry, field and place.                   *)

Base(i) == i * Table!Entry
Cell(i, f, c) == Base(i) + f * MAX_LENGTH + c
Char(word, c) == IF c < Len(word) THEN word[c + 1] ELSE 0

LEMMA Multiples ==
  ASSUME NEW e \in Nat, NEW i \in Nat, NEW j \in Nat, i < j
  PROVE  i * e + e <= j * e
<1>1. PICK d \in Nat : j = i + 1 + d
  <2>1. j - i - 1 \in Nat /\ j = i + 1 + (j - i - 1)
    OBVIOUS
  <2> QED BY <2>1
<1>2. j * e = i * e + e + d * e
  BY <1>1
<1>3. i * e \in Nat /\ d * e \in Nat
  OBVIOUS
<1> QED BY <1>2, <1>3

LEMMA Divided ==
  ASSUME NEW e \in Nat \ {0}, NEW a \in Nat
  PROVE  a \div e \in Nat /\ a % e \in 0..e - 1 /\ a = e * (a \div e) + (a % e)
OBVIOUS

LEMMA Quotient ==
  ASSUME NEW e \in Nat \ {0}, NEW i \in Nat, NEW r \in 0..e - 1
  PROVE  (i * e + r) \div e = i /\ (i * e + r) % e = r
<1>1. i * e + r \in Nat /\ i * e \in Nat
  OBVIOUS
<1>2. PICK q \in Nat, s \in 0..e - 1 :
        q = (i * e + r) \div e /\ s = (i * e + r) % e /\ i * e + r = q * e + s
  BY <1>1, Divided
<1>3. q * e \in Nat
  OBVIOUS
<1>4. ~(q < i) /\ ~(i < q)
  BY <1>1, <1>2, <1>3, Multiples
<1>5. q = i
  BY <1>4
<1> QED BY <1>1, <1>2, <1>5

LEMMA Rows ==
  /\ Table!Entry \in Nat /\ Table!Entry = 3 * MAX_LENGTH /\ MAX_LENGTH > 1
  /\ Table!Size \in Nat /\ Table!Size = Base(MAXABONENT) /\ Base(0) = 0
  /\ \A i \in Nat : Base(i) \in Nat /\ Base(i + 1) = Base(i) + Table!Entry
  /\ \A i, j \in Nat : i < j => Base(i) + Table!Entry <= Base(j)
<1>1. Table!Entry \in Nat /\ Table!Entry = 3 * MAX_LENGTH /\ MAX_LENGTH > 1
  BY TableAssumption DEF Table!Entry
<1>2. PICK e \in Nat : e = Table!Entry
  BY <1>1
<1>3. \A i \in Nat : i * e \in Nat /\ (i + 1) * e = i * e + e
  OBVIOUS
<1>4. \A i, j \in Nat : i < j => i * e + e <= j * e
  BY Multiples
<1> QED BY <1>1, <1>2, <1>3, <1>4, TableAssumption DEF Base, Table!Size

LEMMA Cells ==
  ASSUME NEW i \in Nat, NEW f \in 0..2, NEW c \in 0..MAX_LENGTH - 1
  PROVE  /\ Cell(i, f, c) \in Base(i)..Base(i) + Table!Entry - 1
         /\ Cell(i + 1, f, c) = Cell(i, f, c) + Table!Entry
         /\ Cell(i, f, c) \div Table!Entry = i /\ Cell(i, f, c) % MAX_LENGTH = c
         /\ Cell(i, f, c) = Table!Start(i, f) + c
<1>1. PICK m \in Nat : m = MAX_LENGTH /\ m > 1
  BY TableAssumption
<1>2. f * m + c \in 0..3 * m - 1 /\ f * m \in Nat
  BY <1>1
<1>3. Cell(i, f, c) = i * (3 * m) + (f * m + c) /\ i * (3 * m) \in Nat
  BY <1>1, <1>2, Rows DEF Cell, Base
<1>4. (i * (3 * m) + (f * m + c)) \div (3 * m) = i
  BY <1>1, <1>2, Quotient
<1>5. i * (3 * m) + (f * m + c) = (3 * i + f) * m + c
  BY <1>1
<1>6. ((3 * i + f) * m + c) % m = c
  BY <1>1, Quotient
<1>7. Cell(i, f, c) \div Table!Entry = i /\ Cell(i, f, c) % MAX_LENGTH = c
  BY <1>1, <1>3, <1>4, <1>5, <1>6, Rows
<1>8. Cell(i, f, c) \in Base(i)..Base(i) + Table!Entry - 1
  <2>1. PICK r \in 0..3 * m - 1 : r = f * m + c
    BY <1>2
  <2>2. PICK b \in Nat : b = Base(i)
    BY Rows
  <2>3. Cell(i, f, c) = b + r
    BY <1>1, <1>2, <2>1, <2>2 DEF Cell
  <2>4. Table!Entry = 3 * m
    BY <1>1, Rows
  <2> QED BY <1>1, <2>1, <2>2, <2>3, <2>4
<1>9. Cell(i + 1, f, c) = Cell(i, f, c) + Table!Entry
  BY <1>1, <1>2, Rows DEF Cell
<1>10. Cell(i, f, c) = Table!Start(i, f) + c
  BY <1>1, <1>2, Rows DEF Cell, Base, Table!Start
<1> QED BY <1>7, <1>8, <1>9, <1>10

LEMMA EveryCell ==
  ASSUME NEW a \in 0..Table!Size - 1
  PROVE  \E i \in 0..MAXABONENT - 1, f \in 0..2, c \in 0..MAX_LENGTH - 1 : a = Cell(i, f, c)
<1>1. PICK m \in Nat : m = MAX_LENGTH /\ m > 1
  BY TableAssumption
<1>2. a \in Nat
  BY Rows
<1>3. PICK i \in Nat, r \in 0..3 * m - 1 : a = (3 * m) * i + r
  <2>1. 3 * m \in Nat \ {0}
    BY <1>1
  <2>2. /\ a \div (3 * m) \in Nat /\ a % (3 * m) \in 0..3 * m - 1
        /\ a = (3 * m) * (a \div (3 * m)) + (a % (3 * m))
    BY <1>2, <2>1, Divided
  <2> QED BY <2>2
<1>4. \E f \in 0..2, c \in 0..m - 1 : r = f * m + c
  <2>1. CASE r < m
    BY <1>1, <1>3, <2>1
  <2>2. CASE r >= m /\ r < 2 * m
    <3>1. r - m \in 0..m - 1 /\ r = 1 * m + (r - m)
      BY <1>1, <1>3, <2>2
    <3> QED BY <3>1
  <2>3. CASE r >= 2 * m
    <3>1. r - 2 * m \in 0..m - 1 /\ r = 2 * m + (r - 2 * m)
      BY <1>1, <1>3, <2>3
    <3> QED BY <3>1
  <2> QED BY <1>1, <1>3, <2>1, <2>2, <2>3
<1>5. PICK f \in 0..2, c \in 0..m - 1 : r = f * m + c
  BY <1>4
<1>6. a = Cell(i, f, c)
  <2>1. i * (3 * m) = (3 * m) * i /\ (3 * m) * i \in Nat /\ f * m \in Nat
    BY <1>1
  <2> QED BY <1>1, <1>3, <1>5, <2>1, Rows DEF Cell, Base
<1>7. i < MAXABONENT
  <2>1. a >= Base(i) /\ a < Base(MAXABONENT)
    <3>1. Cell(i, f, c) \in Base(i)..Base(i) + Table!Entry - 1
      BY <1>1, <1>5, Cells
    <3>2. Base(i) \in Nat /\ Table!Size \in Nat /\ Table!Size = Base(MAXABONENT)
      BY Rows
    <3> QED BY <1>6, <3>1, <3>2
  <2>2. MAXABONENT \in Nat
    BY TableAssumption
  <2> QED BY <1>2, <2>1, <2>2, Rows
<1> QED BY <1>1, <1>5, <1>6, <1>7, TableAssumption
-----------------------------------------------------------------------------
\* Until a word fills its field, each field of an entry in use holds its word
\* and nothing behind it, and the table behind the entries is empty.
Holds(i, f) ==
  LET word == book[i + 1][f + 1]
  IN Len(word) < MAX_LENGTH /\ \A c \in 0..MAX_LENGTH - 1 : abonents[Cell(i, f, c)] = Char(word, c)

TableTypes ==
  /\ abonents \in [0..Table!Size - 1 -> Nat]
  /\ table_count \in 0..MAXABONENT
  /\ book \in Seq(TypedAbonent)
  /\ full \in BOOLEAN /\ past \in BOOLEAN
  /\ search_name \in TypedWord \cup {<<>>}

TableInv ==
  /\ TableTypes
  /\ past => full
  /\ ~past => table_count = Len(book)
  /\ ~full =>
       /\ \A i \in 0..table_count - 1, f \in 0..2 : Holds(i, f)
       /\ \A a \in 0..Table!Size - 1 : a >= Base(table_count) => abonents[a] = 0
       /\ search_name # <<>> =>
            found = {i \in 0..table_count - 1 : book[i + 1][1] = search_name}

\* A text ends at the first 0.
LEMMA TextOf ==
  ASSUME TableTypes, NEW start \in Nat, NEW word \in TypedWord, Len(word) < MAX_LENGTH,
         start + MAX_LENGTH <= Table!Size,
         \A c \in 0..MAX_LENGTH - 1 : abonents[start + c] = Char(word, c)
  PROVE  Table!Text(start) = word
<1> DEFINE End(n) == /\ start + n = Table!Size \/ abonents[start + n] = 0
                     /\ \A a \in start..start + n - 1 : abonents[a] # 0
           length == CHOOSE n \in 0..Table!Size - start : End(n)
<1>1. PICK l \in Nat : l = Len(word) /\ l < MAX_LENGTH /\ word \in Seq(Nat \ {0})
  BY TableAssumption
<1>2. MAX_LENGTH \in Nat /\ Table!Size \in Nat
  BY TableAssumption, Rows
<1>3. \A c \in 0..l - 1 : abonents[start + c] = word[c + 1] /\ word[c + 1] # 0
  <2> TAKE c \in 0..l - 1
  <2>1. c \in 0..MAX_LENGTH - 1 /\ c + 1 \in 1..l /\ c < l
    BY <1>1, <1>2
  <2>2. word[c + 1] \in Nat \ {0}
    BY <1>1, <2>1
  <2> QED BY <1>1, <2>1, <2>2 DEF Char
<1>4. abonents[start + l] = 0
  BY <1>1, <1>2 DEF Char
<1>5. End(l)
  <2>1. ASSUME NEW a \in start..start + l - 1 PROVE abonents[a] # 0
    <3>1. a - start \in 0..l - 1 /\ start + (a - start) = a
      BY <1>1
    <3> QED BY <1>3, <3>1
  <2> QED BY <1>4, <2>1
<1>6. ASSUME NEW n \in 0..Table!Size - start, End(n) PROVE n = l
  <2>1. ~(n < l)
    <3>1. n < l => start + n # Table!Size /\ n \in 0..l - 1
      BY <1>1, <1>2
    <3> QED BY <1>3, <1>6, <3>1
  <2>2. ~(l < n)
    <3>1. l < n => start + l \in start..start + n - 1
      BY <1>1, <1>2
    <3> QED BY <1>4, <1>6, <3>1
  <2> QED BY <1>1, <1>2, <2>1, <2>2
<1>7. l \in 0..Table!Size - start
  BY <1>1, <1>2
<1>8. length = l
  <2> HIDE DEF End
  <2> QED BY <1>5, <1>6, <1>7
<1>9. Table!Text(start) = [k \in 1..l |-> abonents[start + k - 1]]
  BY <1>8 DEF Table!Text
<1>10. \A k \in 1..l : abonents[start + k - 1] = word[k]
  <2> TAKE k \in 1..l
  <2>1. k - 1 \in 0..l - 1 /\ start + (k - 1) = start + k - 1 /\ k - 1 + 1 = k
    BY <1>1
  <2> QED BY <1>3, <2>1
<1>11. word = [k \in 1..l |-> word[k]]
  BY <1>1
<1> QED BY <1>9, <1>10, <1>11

\* What the table shows of an entry in use is what was typed.
LEMMA ShownBook ==
  ASSUME TableInv, ~full, NEW i \in 0..table_count - 1, NEW f \in 0..2
  PROVE  Table!Text(Table!Start(i, f)) = book[i + 1][f + 1]
<1> DEFINE word == book[i + 1][f + 1]
<1>1. /\ i \in Nat /\ i < MAXABONENT /\ MAXABONENT \in Nat /\ MAX_LENGTH \in Nat
      /\ table_count \in Nat /\ table_count = Len(book) /\ Holds(i, f)
  <2>1. MAXABONENT \in Nat /\ MAX_LENGTH \in Nat /\ table_count \in 0..MAXABONENT
    BY TableAssumption DEF TableInv, TableTypes
  <2>2. table_count = Len(book) /\ Holds(i, f)
    BY DEF TableInv
  <2> QED BY <2>1, <2>2
<1>2. word \in TypedWord
  <2>1. i + 1 \in 1..Len(book) /\ f + 1 \in 1..3
    BY <1>1
  <2>2. book[i + 1] \in [1..3 -> TypedWord]
    BY <2>1, TableAssumption DEF TableInv, TableTypes
  <2> QED BY <2>1, <2>2
<1>3. \A c \in 0..MAX_LENGTH - 1 : Cell(i, f, c) = Table!Start(i, f) + c
  BY <1>1, Cells
<1>4. Table!Start(i, f) \in Nat /\ Table!Start(i, f) + MAX_LENGTH <= Table!Size
  <2>1. PICK m \in Nat : m = MAX_LENGTH /\ m > 1
    BY TableAssumption
  <2>2. PICK b \in Nat : b = Base(i)
    BY <1>1, Rows
  <2>3. b + 3 * m <= Table!Size
    BY <1>1, <2>1, <2>2, Rows
  <2>4. Table!Start(i, f) = b + f * m
    BY <2>1, <2>2 DEF Table!Start, Base
  <2>5. PICK g \in Nat : g = f * m /\ g + m <= 3 * m
    BY <2>1
  <2>6. Table!Size \in Nat
    BY Rows
  <2> QED BY <2>1, <2>2, <2>3, <2>4, <2>5, <2>6
<1>5. Len(word) < MAX_LENGTH /\ \A c \in 0..MAX_LENGTH - 1 : abonents[Table!Start(i, f) + c] = Char(word, c)
  BY <1>1, <1>3 DEF Holds
<1> HIDE DEF word
<1>6. Table!Text(Table!Start(i, f)) = word
  BY <1>2, <1>4, <1>5, TextOf DEF TableInv
<1> QED BY <1>6 DEF word
\* scanf: the word, its 0, and nothing else.
LEMMA TypedAt ==
  ASSUME NEW t \in [0..Table!Size - 1 -> Nat], NEW start \in Nat, NEW word \in TypedWord
  PROVE  /\ Table!Typed(t, start, word) \in [0..Table!Size - 1 -> Nat]
         /\ \A a \in 0..Table!Size - 1 :
              Table!Typed(t, start, word)[a] =
                IF a \in start..start + Len(word) THEN Char(word, a - start) ELSE t[a]
<1>1. PICK l \in Nat : l = Len(word) /\ word \in Seq(Nat \ {0})
  BY TableAssumption
<1>2. Table!Size \in Nat
  BY Rows
<1>3. Table!Typed(t, start, word) = [a \in 0..Table!Size - 1 |->
        IF a \in start..start + l - 1 THEN word[a - start + 1] ELSE IF a = start + l THEN 0 ELSE t[a]]
  BY <1>1 DEF Table!Typed
<1>4. \A a \in 0..Table!Size - 1 : a \in start..start + l - 1 => a - start + 1 \in 1..l
  BY <1>1, <1>2
<1>5. \A k \in 1..l : word[k] \in Nat
  BY <1>1
<1>6. \A a \in 0..Table!Size - 1 :
        Table!Typed(t, start, word)[a] = IF a \in start..start + l THEN Char(word, a - start) ELSE t[a]
  <2> TAKE a \in 0..Table!Size - 1
  <2>1. a \in start..start + l - 1 => a - start < l /\ a \in start..start + l
    BY <1>1, <1>2
  <2>2. a = start + l => a - start = l /\ a \in start..start + l /\ a \notin start..start + l - 1
    BY <1>1, <1>2
  <2>3. a \notin start..start + l - 1 /\ a # start + l => a \notin start..start + l
    BY <1>1, <1>2
  <2> QED BY <1>1, <1>3, <2>1, <2>2, <2>3 DEF Char
<1>7. \A a \in 0..Table!Size - 1 : Table!Typed(t, start, word)[a] \in Nat
  BY <1>3, <1>4, <1>5
<1>8. Table!Typed(t, start, word) \in [0..Table!Size - 1 -> Nat]
  BY <1>3, <1>7
<1> QED BY <1>1, <1>6, <1>8

\* Three words typed into an entry that is empty, if each has room.
TypedInto(t, new, b, words) ==
  /\ new \in [0..Table!Size - 1 -> Nat]
  /\ (\A f \in 1..3 : Len(words[f]) < MAX_LENGTH) =>
       /\ \A a \in 0..Table!Size - 1 : a < b \/ a >= b + Table!Entry => new[a] = t[a]
       /\ (\A a \in 0..Table!Size - 1 : a >= b => t[a] = 0) =>
            \A f \in 0..2, c \in 0..MAX_LENGTH - 1 :
              new[b + f * MAX_LENGTH + c] = Char(words[f + 1], c)

LEMMA EntryTyped ==
  ASSUME NEW t \in [0..Table!Size - 1 -> Nat], NEW b \in Nat, NEW words \in [1..3 -> TypedWord],
         b + Table!Entry <= Table!Size,
         NEW new, new = Table!Typed(Table!Typed(Table!Typed(t,
                          b, words[1]), b + MAX_LENGTH, words[2]), b + 2 * MAX_LENGTH, words[3])
  PROVE  TypedInto(t, new, b, words)
<1>1. PICK m \in Nat : m = MAX_LENGTH /\ m > 1 /\ Table!Entry = 3 * m
  BY TableAssumption, Rows
<1>2. PICK size \in Nat : size = Table!Size
  BY Rows
<1>3. b + m \in Nat /\ b + 2 * m \in Nat /\ b + 3 * m <= size
  BY <1>1, <1>2
<1>4. words[1] \in TypedWord /\ words[2] \in TypedWord /\ words[3] \in TypedWord
  OBVIOUS
<1>5. PICK l1 \in Nat, l2 \in Nat, l3 \in Nat :
        l1 = Len(words[1]) /\ l2 = Len(words[2]) /\ l3 = Len(words[3])
  BY <1>4, TableAssumption
<1> DEFINE first == Table!Typed(t, b, words[1])
           second == Table!Typed(first, b + m, words[2])
           D == 0..size - 1
<1>6. /\ first \in [D -> Nat]
      /\ \A a \in D : first[a] = IF a \in b..b + l1 THEN Char(words[1], a - b) ELSE t[a]
  <2> DEFINE w == words[1]
  <2>1. w \in TypedWord /\ Len(w) = l1
    BY <1>4, <1>5
  <2> HIDE DEF w
  <2>2. /\ Table!Typed(t, b, w) \in [0..Table!Size - 1 -> Nat]
        /\ \A a \in 0..Table!Size - 1 :
             Table!Typed(t, b, w)[a] = IF a \in b..b + Len(w) THEN Char(w, a - b) ELSE t[a]
    BY <2>1, TypedAt
  <2> QED BY <1>2, <2>1, <2>2 DEF w
<1> HIDE DEF first
<1>7. /\ second \in [D -> Nat]
      /\ \A a \in D :
           second[a] = IF a \in b + m..b + m + l2 THEN Char(words[2], a - (b + m)) ELSE first[a]
  <2> DEFINE w == words[2]
  <2>1. w \in TypedWord /\ Len(w) = l2
    BY <1>4, <1>5
  <2> HIDE DEF w
  <2>2. first \in [0..Table!Size - 1 -> Nat]
    BY <1>2, <1>6
  <2>3. /\ Table!Typed(first, b + m, w) \in [0..Table!Size - 1 -> Nat]
        /\ \A a \in 0..Table!Size - 1 :
             Table!Typed(first, b + m, w)[a]
               = IF a \in b + m..b + m + Len(w) THEN Char(w, a - (b + m)) ELSE first[a]
    BY <1>3, <2>1, <2>2, TypedAt
  <2> QED BY <1>2, <2>1, <2>3 DEF w
<1>8. /\ new \in [D -> Nat]
      /\ \A a \in D :
           new[a] = IF a \in b + 2 * m..b + 2 * m + l3 THEN Char(words[3], a - (b + 2 * m)) ELSE second[a]
  <2> DEFINE w == words[3]
  <2>1. w \in TypedWord /\ Len(w) = l3 /\ new = Table!Typed(second, b + 2 * m, w)
    BY <1>1, <1>4, <1>5 DEF first
  <2> HIDE DEF second, w
  <2>2. second \in [0..Table!Size - 1 -> Nat]
    BY <1>2, <1>7
  <2>3. /\ Table!Typed(second, b + 2 * m, w) \in [0..Table!Size - 1 -> Nat]
        /\ \A a \in 0..Table!Size - 1 :
             Table!Typed(second, b + 2 * m, w)[a]
               = IF a \in b + 2 * m..b + 2 * m + Len(w) THEN Char(w, a - (b + 2 * m)) ELSE second[a]
    BY <1>3, <2>1, <2>2, TypedAt
  <2> QED BY <1>2, <2>1, <2>3 DEF w
<1> HIDE DEF second
<1> SUFFICES ASSUME l1 < m, l2 < m, l3 < m
             PROVE  /\ \A a \in D : a < b \/ a >= b + 3 * m => new[a] = t[a]
                    /\ (\A a \in D : a >= b => t[a] = 0) =>
                         \A f \in 0..2, c \in 0..m - 1 : new[b + f * m + c] = Char(words[f + 1], c)
  <2>1. (\A f \in 1..3 : Len(words[f]) < MAX_LENGTH) => l1 < m /\ l2 < m /\ l3 < m
    BY <1>1, <1>5
  <2> QED BY <1>1, <1>2, <1>8, <2>1 DEF TypedInto
<1>9. ASSUME NEW a \in D, a < b \/ a >= b + 3 * m PROVE new[a] = t[a]
  <2>1. a \notin b..b + l1 /\ a \notin b + m..b + m + l2 /\ a \notin b + 2 * m..b + 2 * m + l3
    BY <1>9
  <2> QED BY <1>6, <1>7, <1>8, <2>1
<1>10. ASSUME \A a \in D : a >= b => t[a] = 0, NEW c \in 0..m - 1
       PROVE  /\ new[b + c] = Char(words[1], c)
              /\ new[b + m + c] = Char(words[2], c)
              /\ new[b + 2 * m + c] = Char(words[3], c)
  <2>1. /\ b + c \in 0..size - 1 /\ b + m + c \in 0..size - 1 /\ b + 2 * m + c \in 0..size - 1
        /\ b + c - b = c /\ b + m + c - (b + m) = c /\ b + 2 * m + c - (b + 2 * m) = c
    BY <1>3
  <2>2. t[b + c] = 0 /\ t[b + m + c] = 0 /\ t[b + 2 * m + c] = 0
    BY <1>10, <2>1
  <2>3. new[b + c] = Char(words[1], c)
    <3>1. /\ b + c \notin b + m..b + m + l2 /\ b + c \notin b + 2 * m..b + 2 * m + l3
          /\ b + c \in b..b + l1 <=> ~(l1 < c)
      OBVIOUS
    <3>2. new[b + c] = second[b + c] /\ second[b + c] = first[b + c]
      BY <1>7, <1>8, <2>1, <3>1
    <3>3. first[b + c] = IF l1 < c THEN 0 ELSE Char(words[1], c)
      BY <1>6, <2>1, <2>2, <3>1
    <3> QED BY <1>5, <3>2, <3>3 DEF Char
  <2>4. new[b + m + c] = Char(words[2], c)
    <3>1. /\ b + m + c \notin b..b + l1 /\ b + m + c \notin b + 2 * m..b + 2 * m + l3
          /\ b + m + c \in b + m..b + m + l2 <=> ~(l2 < c)
      OBVIOUS
    <3>2. new[b + m + c] = second[b + m + c] /\ first[b + m + c] = t[b + m + c]
      BY <1>6, <1>8, <2>1, <3>1
    <3>3. second[b + m + c] = IF l2 < c THEN 0 ELSE Char(words[2], c)
      BY <1>7, <2>1, <2>2, <3>1, <3>2
    <3> QED BY <1>5, <3>2, <3>3 DEF Char
  <2>5. new[b + 2 * m + c] = Char(words[3], c)
    <3>1. /\ b + 2 * m + c \notin b..b + l1 /\ b + 2 * m + c \notin b + m..b + m + l2
          /\ b + 2 * m + c \in b + 2 * m..b + 2 * m + l3 <=> ~(l3 < c)
      OBVIOUS
    <3>2. second[b + 2 * m + c] = first[b + 2 * m + c] /\ first[b + 2 * m + c] = t[b + 2 * m + c]
      BY <1>6, <1>7, <2>1, <3>1
    <3>3. new[b + 2 * m + c] = IF l3 < c THEN 0 ELSE Char(words[3], c)
      BY <1>8, <2>1, <2>2, <3>1, <3>2
    <3> QED BY <1>5, <3>3 DEF Char
  <2> QED BY <2>3, <2>4, <2>5
<1>11. ASSUME \A a \in D : a >= b => t[a] = 0, NEW f \in 0..2, NEW c \in 0..m - 1
       PROVE  new[b + f * m + c] = Char(words[f + 1], c)
  <2>1. CASE f = 0
    <3>1. b + f * m + c = b + c /\ f + 1 = 1
      BY <2>1
    <3> QED BY <1>10, <1>11, <3>1
  <2>2. CASE f = 1
    <3>1. b + f * m + c = b + m + c /\ f + 1 = 2
      BY <2>2
    <3> QED BY <1>10, <1>11, <3>1
  <2>3. CASE f = 2
    <3>1. b + f * m + c = b + 2 * m + c /\ f + 1 = 3
      BY <2>3
    <3> QED BY <1>10, <1>11, <3>1
  <2> QED BY <2>1, <2>2, <2>3
<1> QED BY <1>9, <1>11
\* Add_abonent.
LEMMA TableAdds ==
  ASSUME TableInv, NEW words \in TypedAbonent, Table!Add_abonent(words)
  PROVE  TableInv'
<1>1. PICK m \in Nat : m = MAX_LENGTH /\ m > 1 /\ Table!Entry = 3 * m
  BY TableAssumption, Rows
<1>2. PICK x \in Nat : x = table_count /\ x < MAXABONENT
  BY TableAssumption DEF TableInv, TableTypes, Table!Add_abonent
<1>3. PICK b \in Nat : b = Base(x) /\ b + 3 * m <= Table!Size /\ Base(x + 1) = b + 3 * m
  BY <1>1, <1>2, TableAssumption, Rows
<1>4. words \in [1..3 -> TypedWord] /\ \A f \in 1..3 : Len(words[f]) \in 1..m
  BY <1>1, TableAssumption
<1>5. Table!Start(x, 0) = b /\ Table!Start(x, 1) = b + m /\ Table!Start(x, 2) = b + 2 * m
  BY <1>1, <1>3 DEF Table!Start, Base
<1>6. abonents \in [0..Table!Size - 1 -> Nat]
  BY DEF TableInv, TableTypes
<1>7. abonents' = Table!Typed(Table!Typed(Table!Typed(abonents,
                    b, words[1]), b + MAX_LENGTH, words[2]), b + 2 * MAX_LENGTH, words[3])
  BY <1>1, <1>2, <1>5 DEF Table!Add_abonent
<1>8. TypedInto(abonents, abonents', b, words)
  <2>1. b + Table!Entry <= Table!Size
    BY <1>1, <1>3
  <2> QED BY <1>3, <1>4, <1>6, <1>7, <2>1, EntryTyped
<1> DEFINE beyond == b + 2 * m + Len(words[3]) >= Table!Size
<1>9. /\ full' = (full \/ \E f \in 1..3 : Len(words[f]) = MAX_LENGTH)
      /\ past' = (past \/ beyond)
      /\ table_count' = x + 1 \/ (beyond /\ table_count' = 1)
      /\ book' = IF past' THEN <<>> ELSE Append(book, words)
      /\ search_name' = <<>>
  <2>1. full' = (full \/ \E f \in 1..3 : Len(words[f]) = MAX_LENGTH)
    BY DEF Table!Add_abonent
  <2>2. past' = (past \/ Table!Start(x, 2) + Len(words[3]) >= Table!Size)
    BY <1>2 DEF Table!Add_abonent
  <2>3. table_count' = x + 1 \/ (Table!Start(x, 2) + Len(words[3]) >= Table!Size /\ table_count' = 1)
    BY <1>2 DEF Table!Add_abonent
  <2>4. book' = IF past' THEN <<>> ELSE Append(book, words)
    BY DEF Table!Add_abonent
  <2>5. search_name' = <<>>
    BY DEF Table!Add_abonent, Table!Forget, Table!Nobody
  <2>6. beyond <=> Table!Start(x, 2) + Len(words[3]) >= Table!Size
    BY <1>5
  <2> HIDE DEF beyond
  <2> QED BY <2>1, <2>2, <2>3, <2>4, <2>5, <2>6
<1>10. past' => full'
  <2>1. Len(words[3]) \in 1..m /\ Table!Size \in Nat /\ 3 \in 1..3
    BY <1>4, Rows
  <2>2. beyond => Len(words[3]) = MAX_LENGTH
    BY <1>1, <1>3, <2>1
  <2>3. past => full
    BY DEF TableInv
  <2> HIDE DEF beyond
  <2> QED BY <1>9, <2>1, <2>2, <2>3
<1> HIDE DEF beyond
<1>11. TableTypes'
  <2>1. table_count' \in 0..MAXABONENT
    <3>1. MAXABONENT \in Nat
      BY TableAssumption
    <3>2. table_count' = x + 1 \/ table_count' = 1
      BY <1>9
    <3> QED BY <1>2, <3>1, <3>2
  <2>2. book' \in Seq(TypedAbonent)
    <3>1. book \in Seq(TypedAbonent) /\ Append(book, words) \in Seq(TypedAbonent)
      BY DEF TableInv, TableTypes
    <3> QED BY <1>9, <3>1
  <2>3. full' \in BOOLEAN /\ past' \in BOOLEAN
    BY <1>9 DEF TableInv, TableTypes
  <2> QED BY <1>8, <1>9, <2>1, <2>2, <2>3 DEF TableTypes, TypedInto
<1>12. ~past' => /\ table_count' = x + 1 /\ Len(book) = x /\ Len(book') = x + 1
                 /\ book' = Append(book, words)
  <2> SUFFICES ASSUME ~past'
               PROVE  /\ table_count' = x + 1 /\ Len(book) = x /\ Len(book') = x + 1
                      /\ book' = Append(book, words)
    OBVIOUS
  <2>1. ~past /\ ~beyond
    BY <1>9
  <2>2. table_count' = x + 1 /\ book' = Append(book, words)
    BY <1>9, <2>1
  <2>3. Len(book) = x /\ book \in Seq(TypedAbonent)
    BY <1>2, <2>1 DEF TableInv, TableTypes
  <2> QED BY <2>2, <2>3
<1>13. ASSUME ~full', NEW i \in 0..table_count' - 1, NEW f \in 0..2
       PROVE  Holds(i, f)'
  <2>1. /\ ~full /\ ~past' /\ \A g \in 1..3 : Len(words[g]) < MAX_LENGTH
    <3>1. ~full /\ ~past' /\ \A g \in 1..3 : Len(words[g]) # MAX_LENGTH
      BY <1>9, <1>10, <1>13
    <3>2. ASSUME NEW g \in 1..3 PROVE Len(words[g]) < MAX_LENGTH
      BY <1>1, <1>4, <3>1
    <3> QED BY <3>1, <3>2
  <2>2. table_count' = x + 1 /\ Len(book) = x /\ book' = Append(book, words)
    BY <1>12, <2>1
  <2>3. i \in 0..x /\ book \in Seq(TypedAbonent)
    BY <1>2, <1>13, <2>2 DEF TableInv, TableTypes
  <2>4. CASE i = x
    <3>1. book'[i + 1] = words
      BY <2>2, <2>3, <2>4
    <3>2. \A a \in 0..Table!Size - 1 : a >= b => abonents[a] = 0
      BY <1>2, <1>3, <2>1 DEF TableInv
    <3>3. \A c \in 0..MAX_LENGTH - 1 : abonents'[Cell(i, f, c)] = Char(words[f + 1], c)
      BY <1>3, <1>8, <2>1, <2>4, <3>2 DEF Cell, TypedInto
    <3>4. f + 1 \in 1..3
      OBVIOUS
    <3> QED BY <2>1, <3>1, <3>3, <3>4 DEF Holds
  <2>5. CASE i < x
    <3>1. book'[i + 1] = book[i + 1]
      BY <2>2, <2>3, <2>5
    <3>2. Holds(i, f)
      BY <1>2, <2>1, <2>3, <2>5 DEF TableInv
    <3>3. ASSUME NEW c \in 0..MAX_LENGTH - 1 PROVE abonents'[Cell(i, f, c)] = abonents[Cell(i, f, c)]
      <4>1. PICK k \in Nat : k = Cell(i, f, c) /\ k < b
        <5>1. i \in Nat /\ Base(i) \in Nat /\ Base(i) + Table!Entry <= b
          BY <1>2, <1>3, <2>3, <2>5, Rows
        <5>2. Cell(i, f, c) \in Base(i)..Base(i) + Table!Entry - 1
          BY <5>1, Cells
        <5> QED BY <1>1, <1>3, <5>1, <5>2
      <4>2. k \in 0..Table!Size - 1
        BY <1>1, <1>3, <4>1, Rows
      <4> QED BY <1>8, <2>1, <4>1, <4>2 DEF TypedInto
    <3> QED BY <3>1, <3>2, <3>3 DEF Holds
  <2> QED BY <1>2, <2>3, <2>4, <2>5
<1>14. ASSUME ~full', NEW a \in 0..Table!Size - 1, a >= Base(table_count')
       PROVE  abonents'[a] = 0
  <2>1. /\ ~full /\ ~past' /\ \A g \in 1..3 : Len(words[g]) < MAX_LENGTH
    <3>1. ~full /\ ~past' /\ \A g \in 1..3 : Len(words[g]) # MAX_LENGTH
      BY <1>9, <1>10, <1>14
    <3>2. ASSUME NEW g \in 1..3 PROVE Len(words[g]) < MAX_LENGTH
      BY <1>1, <1>4, <3>1
    <3> QED BY <3>1, <3>2
  <2>2. a >= b + 3 * m
    BY <1>3, <1>12, <1>14, <2>1
  <2>3. abonents'[a] = abonents[a]
    BY <1>1, <1>8, <2>1, <2>2 DEF TypedInto
  <2>4. a >= b
    BY <1>1, <1>3, <2>2, Rows
  <2> QED BY <1>2, <1>3, <2>1, <2>3, <2>4 DEF TableInv
<1>15. \A a : Base(a)' = Base(a)
  BY DEF Base
<1> QED BY <1>9, <1>10, <1>11, <1>12, <1>13, <1>14, <1>15 DEF TableInv

\* Search_abonents, which shows the entries of that name.  No entry has the
\* name of a word that goes past search_name.
LEMMA TableSearches ==
  ASSUME TableInv, NEW word \in TypedWord, Table!Search_abonents(word)
  PROVE  TableInv'
<1>1. /\ UNCHANGED <<abonents, table_count, book, full, past>>
      /\ search_name' = word
  BY DEF Table!Search_abonents
<1>2. TableTypes'
  BY <1>1 DEF TableInv, TableTypes
<1>3. ~full => found' = {i \in 0..table_count - 1 : book[i + 1][1] = word}
  <2> SUFFICES ASSUME ~full PROVE found' = {i \in 0..table_count - 1 : book[i + 1][1] = word}
    OBVIOUS
  <2>1. PICK seen \in 0..table_count :
          /\ Len(word) < MAX_LENGTH => seen = table_count
          /\ found' = {i \in 0..seen - 1 : Table!Text(Table!Start(i, 0)) = word}
    BY DEF Table!Search_abonents
  <2>2. table_count \in Nat
    BY TableAssumption DEF TableInv, TableTypes
  <2>3. ASSUME NEW i \in 0..table_count - 1
        PROVE  /\ Table!Text(Table!Start(i, 0)) = book[i + 1][1]
               /\ Len(book[i + 1][1]) < MAX_LENGTH
    <3>1. Holds(i, 0) /\ 0 + 1 = 1
      BY DEF TableInv
    <3> QED BY <3>1, ShownBook DEF Holds
  <2>4. found' = {i \in 0..seen - 1 : book[i + 1][1] = word}
    BY <2>1, <2>2, <2>3
  <2>5. CASE Len(word) < MAX_LENGTH
    BY <2>1, <2>4, <2>5
  <2>6. CASE ~(Len(word) < MAX_LENGTH)
    BY <2>2, <2>3, <2>4, <2>6
  <2> QED BY <2>5, <2>6
<1>4. \A i, f : Holds(i, f)' <=> Holds(i, f)
  BY <1>1 DEF Holds, Cell, Base
<1>5. \A a : Base(a)' = Base(a)
  BY DEF Base
<1> QED BY <1>1, <1>2, <1>3, <1>4, <1>5 DEF TableInv

\* Delet_abonent, character by character.
LEMMA TableShifts ==
  ASSUME TableInv, NEW index \in 0..MAXABONENT - 1, Table!Delet_abonent(index)
  PROVE  /\ abonents' \in [0..Table!Size - 1 -> Nat]
         /\ \A i \in 0..MAXABONENT - 1, f \in 0..2, c \in 0..MAX_LENGTH - 1 :
              abonents'[Cell(i, f, c)]
                = IF i \in index..table_count - 2 /\ c < MAX_LENGTH - 1 THEN abonents[Cell(i + 1, f, c)]
                  ELSE IF i = index \/ i = table_count - 1 THEN 0 ELSE abonents[Cell(i, f, c)]
<1> DEFINE D == 0..Table!Size - 1
           new(i, f, c) == IF i \in index..table_count - 2 /\ c < MAX_LENGTH - 1 THEN abonents[Cell(i + 1, f, c)]
                           ELSE IF i = index \/ i = table_count - 1 THEN 0 ELSE abonents[Cell(i, f, c)]
<1>1. abonents \in [D -> Nat] /\ table_count \in 0..MAXABONENT /\ MAXABONENT \in Nat
  BY TableAssumption DEF TableInv, TableTypes
<1>2. abonents' = [a \in D |->
        IF a \div Table!Entry \in index..table_count - 2 /\ a % MAX_LENGTH < MAX_LENGTH - 1
        THEN abonents[a + Table!Entry]
        ELSE IF a \div Table!Entry = index \/ a \div Table!Entry = table_count - 1 THEN 0 ELSE abonents[a]]
  BY <1>1 DEF Table!Delet_abonent, Table!Copied
<1>3. ASSUME NEW i \in 0..MAXABONENT - 1, NEW f \in 0..2, NEW c \in 0..MAX_LENGTH - 1
      PROVE  Cell(i, f, c) \in D
  <2>1. i \in Nat /\ i < MAXABONENT
    BY <1>1
  <2>2. Cell(i, f, c) \in Base(i)..Base(i) + Table!Entry - 1
    BY <2>1, Cells
  <2>3. PICK b \in Nat, e \in Nat, size \in Nat :
          b = Base(i) /\ e = Table!Entry /\ size = Table!Size /\ b + e <= size
    BY <1>1, <2>1, Rows
  <2> QED BY <2>2, <2>3
<1>4. ASSUME NEW i \in 0..MAXABONENT - 1, NEW f \in 0..2, NEW c \in 0..MAX_LENGTH - 1
      PROVE  abonents'[Cell(i, f, c)] = new(i, f, c) /\ new(i, f, c) \in Nat
  <2> DEFINE a == Cell(i, f, c)
  <2>1. /\ a \in D /\ a \div Table!Entry = i /\ a % MAX_LENGTH = c
        /\ Cell(i + 1, f, c) = a + Table!Entry
    <3>1. i \in Nat
      BY <1>1
    <3> QED BY <1>3, <3>1, Cells
  <2> HIDE DEF a
  <2>2. /\ i \in index..table_count - 2 => Cell(i + 1, f, c) \in D
        /\ abonents'[a] = IF i \in index..table_count - 2 /\ c < MAX_LENGTH - 1 THEN abonents[Cell(i + 1, f, c)]
                          ELSE IF i = index \/ i = table_count - 1 THEN 0 ELSE abonents[a]
    <3>1. i \in index..table_count - 2 => i + 1 \in 0..MAXABONENT - 1
      BY <1>1
    <3> QED BY <1>2, <1>3, <2>1, <3>1
  <2> QED BY <1>1, <2>1, <2>2 DEF a
<1>5. ASSUME NEW a \in D PROVE abonents'[a] \in Nat
  BY <1>4, EveryCell
<1> QED BY <1>2, <1>4, <1>5

LEMMA TableDeletes ==
  ASSUME TableInv, NEW index \in 0..MAXABONENT - 1, Table!Delet_abonent(index)
  PROVE  TableInv'
<1>1. PICK x \in Nat : x = table_count /\ index < x /\ x <= MAXABONENT /\ MAXABONENT \in Nat
  BY TableAssumption DEF TableInv, TableTypes, Table!Delet_abonent
<1>2. /\ table_count' = x - 1 /\ full' = full /\ past' = past /\ search_name' = <<>>
      /\ book' = IF past THEN <<>> ELSE SubSeq(book, 1, index) \o SubSeq(book, index + 2, Len(book))
  BY <1>1 DEF Table!Delet_abonent, Table!Forget, Table!Nobody
<1>3. ASSUME ~past
      PROVE  /\ Len(book) = x /\ book' \in Seq(TypedAbonent) /\ Len(book') = x - 1
             /\ \A i \in 0..x - 2 : book'[i + 1] = IF i < index THEN book[i + 1] ELSE book[i + 1 + 1]
  <2>1. Len(book) = x /\ book \in Seq(TypedAbonent)
    BY <1>1, <1>3 DEF TableInv, TableTypes
  <2> DEFINE left == SubSeq(book, 1, index)
             right == SubSeq(book, index + 2, x)
  <2>2. /\ left \in Seq(TypedAbonent) /\ Len(left) = index
        /\ \A k \in 1..index : left[k] = book[k]
    BY <1>1, <2>1
  <2>3. /\ right \in Seq(TypedAbonent) /\ Len(right) = x - 1 - index
        /\ \A k \in 1..x - 1 - index : right[k] = book[k + index + 1]
    BY <1>1, <2>1
  <2>4. book' = left \o right
    BY <1>2, <1>3, <2>1
  <2> HIDE DEF left, right
  <2>5. Len(book') = x - 1 /\ book' \in Seq(TypedAbonent)
    <3>1. /\ left \o right \in Seq(TypedAbonent)
          /\ Len(left \o right) = Len(left) + Len(right)
      BY <2>2, <2>3
    <3> QED BY <1>1, <2>2, <2>3, <2>4, <3>1
  <2>6. ASSUME NEW i \in 0..x - 2
        PROVE  book'[i + 1] = IF i < index THEN book[i + 1] ELSE book[i + 1 + 1]
    <3>1. CASE i < index
      <4>1. i + 1 \in 1..index
        BY <1>1, <3>1
      <4> QED BY <2>2, <2>3, <2>4, <3>1, <4>1
    <3>2. CASE i >= index
      <4>1. i + 1 - index \in 1..x - 1 - index /\ i + 1 - index + index + 1 = i + 1 + 1
        BY <1>1, <3>2
      <4>2. book'[i + 1] = right[i + 1 - index]
        <5>1. i + 1 \in 1..Len(left) + Len(right) /\ ~(i + 1 <= Len(left))
          BY <1>1, <2>2, <2>3, <3>2
        <5>2. (left \o right)[i + 1] = right[i + 1 - Len(left)]
          BY <2>2, <2>3, <5>1, ConcatProperties
        <5> QED BY <2>2, <2>4, <5>2
      <4> QED BY <1>1, <2>3, <3>2, <4>1, <4>2
    <3> QED BY <1>1, <3>1, <3>2
  <2> QED BY <2>1, <2>5, <2>6
<1>4. abonents' \in [0..Table!Size - 1 -> Nat]
  BY TableShifts
<1>5. \A i \in 0..MAXABONENT - 1, f \in 0..2, c \in 0..MAX_LENGTH - 1 :
        abonents'[Cell(i, f, c)]
          = IF i \in index..x - 2 /\ c < MAX_LENGTH - 1 THEN abonents[Cell(i + 1, f, c)]
            ELSE IF i = index \/ i = x - 1 THEN 0 ELSE abonents[Cell(i, f, c)]
  BY <1>1, TableShifts
<1>6. TableTypes'
  <2>1. table_count' \in 0..MAXABONENT
    BY <1>1, <1>2
  <2>2. <<>> \in Seq(TypedAbonent)
    BY EmptySeq
  <2>3. book' \in Seq(TypedAbonent)
    BY <1>2, <1>3, <2>2
  <2>4. full' \in BOOLEAN /\ past' \in BOOLEAN /\ search_name' \in TypedWord \cup {<<>>}
    BY <1>2 DEF TableInv, TableTypes
  <2> QED BY <1>4, <2>1, <2>3, <2>4 DEF TableTypes
<1>7. ASSUME ~full, NEW i \in 0..x - 2, NEW f \in 0..2
      PROVE  Holds(i, f)'
  <2>1. ~past /\ MAX_LENGTH \in Nat /\ MAX_LENGTH > 1
    BY <1>7, TableAssumption DEF TableInv
  <2>2. i \in 0..MAXABONENT - 1 /\ i \in 0..x - 1 /\ i + 1 \in 0..x - 1
    BY <1>1
  <2>3. Holds(i, f) /\ Holds(i + 1, f)
    BY <1>1, <1>7, <2>2 DEF TableInv
  <2>4. CASE i < index
    <3>1. book'[i + 1] = book[i + 1]
      BY <1>3, <2>1, <2>4
    <3>2. \A c \in 0..MAX_LENGTH - 1 : abonents'[Cell(i, f, c)] = abonents[Cell(i, f, c)]
      BY <1>1, <1>5, <2>2, <2>4
    <3> QED BY <2>3, <3>1, <3>2 DEF Holds
  <2>5. CASE i >= index
    <3> DEFINE word == book[i + 1 + 1][f + 1]
    <3>1. book'[i + 1][f + 1] = word
      BY <1>1, <1>3, <2>1, <2>5
    <3>2. Len(word) < MAX_LENGTH /\ word \in Seq(Nat)
      <4>1. i + 1 + 1 \in 1..Len(book) /\ f + 1 \in 1..3 /\ book \in Seq(TypedAbonent)
        BY <1>1, <1>3, <2>1, <2>2 DEF TableInv, TableTypes
      <4>2. book[i + 1 + 1] \in [1..3 -> TypedWord]
        BY <4>1, TableAssumption
      <4>3. word \in TypedWord
        BY <4>1, <4>2
      <4>4. word \in Seq(Nat)
        <5> HIDE DEF word
        <5> QED BY <4>3, TableAssumption
      <4> QED BY <2>3, <4>4 DEF Holds
    <3>3. ASSUME NEW c \in 0..MAX_LENGTH - 1 PROVE abonents'[Cell(i, f, c)] = Char(word, c)
      <4>1. CASE c < MAX_LENGTH - 1
        <5>1. abonents'[Cell(i, f, c)] = abonents[Cell(i + 1, f, c)]
          BY <1>1, <1>5, <2>2, <2>5, <4>1
        <5> QED BY <2>3, <5>1 DEF Holds
      <4>2. CASE c = MAX_LENGTH - 1
        <5>1. abonents'[Cell(i, f, c)] = 0 \/ abonents'[Cell(i, f, c)] = abonents[Cell(i, f, c)]
          BY <1>5, <2>1, <2>2, <4>2
        <5>2. abonents[Cell(i, f, c)] = Char(book[i + 1][f + 1], c) /\ Len(book[i + 1][f + 1]) < MAX_LENGTH
          BY <2>3 DEF Holds
        <5>3. ~(c < Len(word))
          BY <2>1, <3>2, <4>2
        <5>4. ~(c < Len(book[i + 1][f + 1]))
          <6>1. i + 1 \in 1..Len(book) /\ f + 1 \in 1..3 /\ book \in Seq(TypedAbonent)
            BY <1>1, <1>3, <2>1, <2>2 DEF TableInv, TableTypes
          <6>2. book[i + 1] \in [1..3 -> TypedWord]
            BY <6>1, TableAssumption
          <6>3. book[i + 1][f + 1] \in TypedWord
            BY <6>1, <6>2
          <6>4. Len(book[i + 1][f + 1]) \in Nat
            BY <6>3, TableAssumption
          <6> QED BY <2>1, <4>2, <5>2, <6>4
        <5> QED BY <5>1, <5>2, <5>3, <5>4 DEF Char
      <4> QED BY <2>1, <4>1, <4>2
    <3> QED BY <3>1, <3>2, <3>3 DEF Holds
  <2> QED BY <1>1, <2>4, <2>5
<1>8. ASSUME ~full, NEW a \in 0..Table!Size - 1, a >= Base(x - 1)
      PROVE  abonents'[a] = 0
  <2>1. PICK i \in 0..MAXABONENT - 1, f \in 0..2, c \in 0..MAX_LENGTH - 1 : a = Cell(i, f, c)
    BY EveryCell
  <2>2. PICK b \in Nat, e \in Nat : b = Base(i) /\ e = Table!Entry /\ a \in b..b + e - 1 /\ a \in Nat
    <3>1. i \in Nat
      BY <1>1
    <3>2. Base(i) \in Nat /\ Table!Entry \in Nat /\ Table!Size \in Nat
      BY <3>1, Rows
    <3>3. a \in Base(i)..Base(i) + Table!Entry - 1
      BY <2>1, <3>1, Cells
    <3> QED BY <3>2, <3>3
  <2>3. ~(i < x - 1)
    <3>1. i < x - 1 => b + e <= Base(x - 1) /\ Base(x - 1) \in Nat
      <4>1. x - 1 \in Nat /\ i \in Nat
        BY <1>1
      <4> QED BY <2>2, <4>1, Rows
    <3> QED BY <1>8, <2>2, <3>1
  <2>4. CASE i = x - 1
    BY <1>1, <1>5, <2>1, <2>4
  <2>5. CASE i > x - 1
    <3>1. abonents'[a] = abonents[a]
      BY <1>1, <1>5, <2>1, <2>5
    <3>2. Base(x) \in Nat /\ Base(x) <= b
      <4>1. x <= i
        BY <1>1, <2>5
      <4>2. x = i \/ (x < i /\ Base(x) + e <= b)
        BY <1>1, <2>2, <4>1, Rows
      <4>3. Base(x) \in Nat
        BY Rows
      <4> QED BY <2>2, <4>2, <4>3
    <3>3. a >= Base(x)
      BY <2>2, <3>2
    <3> QED BY <1>1, <1>8, <3>1, <3>3 DEF TableInv
  <2> QED BY <1>1, <2>3, <2>4, <2>5
<1>9. \A a : Base(a)' = Base(a)
  BY DEF Base
<1>10. past' => full'
  BY <1>2 DEF TableInv
<1>11. table_count' - 1 = x - 2
  BY <1>1, <1>2
<1> QED BY <1>2, <1>3, <1>6, <1>7, <1>8, <1>9, <1>10, <1>11 DEF TableInv

LEMMA TableInitial == Table!Init => TableInv
<1> SUFFICES ASSUME Table!Init PROVE TableInv
  OBVIOUS
<1>1. /\ abonents = [a \in 0..Table!Size - 1 |-> 0] /\ table_count = 0 /\ search_name = <<>>
      /\ book = <<>> /\ full = FALSE /\ past = FALSE
  BY DEF Table!Init, Table!Nobody
<1>2. TableTypes
  <2>1. abonents \in [0..Table!Size - 1 -> Nat]
    BY <1>1
  <2>2. table_count \in 0..MAXABONENT
    BY <1>1, TableAssumption
  <2>3. book \in Seq(TypedAbonent)
    BY <1>1, EmptySeq
  <2>4. full \in BOOLEAN /\ past \in BOOLEAN /\ search_name \in TypedWord \cup {<<>>}
    BY <1>1
  <2> QED BY <2>1, <2>2, <2>3, <2>4 DEF TableTypes
<1>3. \A a \in 0..Table!Size - 1 : abonents[a] = 0
  BY <1>1
<1>4. 0..table_count - 1 = {}
  BY <1>1
<1> QED BY <1>1, <1>2, <1>3, <1>4 DEF TableInv

LEMMA TableStep == TableInv /\ [Table!Next]_table => TableInv'
<1> SUFFICES ASSUME TableInv, [Table!Next]_table PROVE TableInv'
  OBVIOUS
<1>1. CASE \E words \in TypedAbonent : Table!Add_abonent(words)
  BY <1>1, TableAdds
<1>2. CASE \E index \in 0..MAXABONENT - 1 : Table!Delet_abonent(index)
  BY <1>2, TableDeletes
<1>3. CASE \E word \in TypedWord : Table!Search_abonents(word)
  BY <1>3, TableSearches
<1>4. CASE Table!Exit \/ (\E word \in TypedWord : Table!SearchAborts(word)) \/ UNCHANGED table
  <2>1. /\ UNCHANGED <<abonents, table_count, book, full, past>>
        /\ search_name' = <<>> \/ (search_name' = search_name /\ found' = found)
    BY <1>4 DEF Table!Exit, Table!SearchAborts, Table!Forget, Table!Nobody, table
  <2>2. TableTypes'
    BY <2>1 DEF TableInv, TableTypes
  <2>3. \A i, f : Holds(i, f)' <=> Holds(i, f)
    BY <2>1 DEF Holds, Cell, Base
  <2>4. \A a : Base(a)' = Base(a)
    BY DEF Base
  <2> QED BY <2>1, <2>2, <2>3, <2>4 DEF TableInv
<1> QED BY <1>1, <1>2, <1>3, <1>4 DEF Table!Next, Table!Exited, Table!vars, table

LEMMA TableInvariance == DirectoriesSpec => []TableInv
<1>1. DirectoriesInit => TableInv
  BY TableInitial DEF DirectoriesInit
<1>2. [DirectoriesNext]_<<program, vars, table, manager>> => [Table!Next]_table
  BY DEF DirectoriesNext
<1> QED BY <1>1, <1>2, TableStep, PTL DEF DirectoriesSpec

\* Until a word fills its field, the table shows what was typed and not
\* deleted, in its order, whatever is added, deleted and shifted over it, and a
\* search finds the entries of its name, for any size of table and fields.
THEOREM BookCorrect == DirectoriesSpec => []ShowsBook
<1>1. TableInv => ShowsBook
  <2> SUFFICES ASSUME TableInv, ~full
               PROVE  /\ \A i \in 0..table_count - 1 : Table!Shown(i) = book[i + 1]
                      /\ \A a \in table_count * Table!Entry..Table!Size - 1 : abonents[a] = 0
                      /\ search_name # <<>> =>
                           found = {i \in 0..table_count - 1 : book[i + 1][1] = search_name}
    BY DEF TableInv, ShowsBook, Table!ShowsBook, Table!Nobody
  <2>1. ASSUME NEW i \in 0..table_count - 1 PROVE Table!Shown(i) = book[i + 1]
    <3>1. \A k \in 1..3 : Table!Text(Table!Start(i, k - 1)) = book[i + 1][k]
      <4> TAKE k \in 1..3
      <4>1. k - 1 \in 0..2 /\ k - 1 + 1 = k
        OBVIOUS
      <4> QED BY <4>1, ShownBook
    <3>2. book[i + 1] \in [1..3 -> TypedWord]
      <4>1. i + 1 \in 1..Len(book) /\ book \in Seq(TypedAbonent)
        BY DEF TableInv, TableTypes
      <4> QED BY <4>1, TableAssumption
    <3>3. Table!Shown(i) = [k \in 1..3 |-> book[i + 1][k]]
      BY <3>1 DEF Table!Shown
    <3> QED BY <3>2, <3>3
  <2>2. ASSUME NEW a \in table_count * Table!Entry..Table!Size - 1 PROVE abonents[a] = 0
    <3>1. Base(table_count) \in Nat /\ table_count \in Nat
      BY Rows, TableAssumption DEF TableInv, TableTypes
    <3>2. a \in 0..Table!Size - 1 /\ a >= Base(table_count)
      BY <3>1, Rows DEF Base
    <3> QED BY <3>2 DEF TableInv
  <2> QED BY <2>1, <2>2 DEF TableInv
<1> QED BY <1>1, TableInvariance, PTL

-----------------------------------------------------------------------------
(* The panels.                                                             *)

Panel == {0, 1}
EntryNames == {Parent} \cup {Manager!Last(x) : x \in Dir \cup Regular}
HasWayUp(s) == Len(s) \in 1..MAX_FILE - 1 => Parent \in {s[k] : k \in 1..Len(s)}

\* The window of a panel shows the entry that is selected, wherever scrolling
\* and the change to another directory have left it.
PanelInv ==
  /\ active_panel \in Panel
  /\ files \in [Panel -> Seq(EntryNames)]
  /\ selected \in [Panel -> Nat] /\ top \in [Panel -> Nat]
  /\ \A p \in Panel :
       /\ files[p] # <<>> => /\ selected[p] < Len(files[p])
                             /\ top[p] <= selected[p] /\ selected[p] <= top[p] + PANEL_HEIGHT - 3
       /\ files[p] = <<>> => selected[p] = 0 /\ top[p] = 0
       /\ HasWayUp(files[p])

LEMMA FiniteEntries ==
  ASSUME NEW path
  PROVE  /\ IsFiniteSet(Manager!Entries(path)) /\ Manager!Entries(path) \subseteq EntryNames
         /\ Parent \in Manager!Entries(path)
<1> DEFINE f == [x \in Dir \cup Regular |-> Manager!Last(x)]
           T == {f[x] : x \in Dir \cup Regular}
<1>1. IsFiniteSet(Dir \cup Regular)
  BY PanelsAssumption, FS_Union
<1>2. f \in Surjection(Dir \cup Regular, T)
  BY DEF Surjection
<1>3. IsFiniteSet(T)
  BY <1>1, <1>2, FS_Surjection
<1>4. EntryNames = {Parent} \cup T
  BY DEF EntryNames
<1>5. IsFiniteSet(EntryNames)
  BY <1>3, <1>4, FS_Union, FS_Singleton
<1>6. Manager!Entries(path) \subseteq EntryNames /\ Parent \in Manager!Entries(path)
  BY DEF Manager!Entries, EntryNames
<1> QED BY <1>5, <1>6, FS_Subset

\* scan_directory reads .. with the other entries, and leaves none out before
\* the panel is full.
LEMMA ScanFills ==
  ASSUME NEW path, NEW s \in Manager!Scans(path)
  PROVE  s \in Seq(EntryNames) /\ HasWayUp(s)
<1> DEFINE E == Manager!Entries(path)
<1>1. IsFiniteSet(E) /\ E \subseteq EntryNames /\ Parent \in E
  BY FiniteEntries
<1>2. CASE s = <<>>
  BY <1>2 DEF HasWayUp
<1>3. CASE s # <<>>
  <2>1. PICK n \in 1..MAX_FILE : s \in [1..n -> E]
    BY <1>3 DEF Manager!Scans
  <2>2. Manager!IsInjective(s) /\ (Len(s) = MAX_FILE \/ Len(s) = Manager!Cardinality(E))
    BY <1>3 DEF Manager!Scans
  <2>3. n \in Nat /\ Len(s) = n
    BY <2>1, PanelsAssumption
  <2>4. s \in Seq(EntryNames)
    BY <1>1, <2>1, <2>3
  <2>5. ASSUME n = Cardinality(E) PROVE Parent \in {s[k] : k \in 1..n}
    <3>1. s \in Injection(1..n, E)
      BY <2>1, <2>2 DEF Injection, IsInjective, Manager!IsInjective
    <3>2. Cardinality(1..n) = n
      BY <2>3, FS_Interval
    <3>3. s \in Surjection(1..n, E)
      BY <1>1, <2>5, <3>1, <3>2, FS_Injection
    <3> QED BY <1>1, <3>3 DEF Surjection
  <2>6. Manager!Cardinality(E) = Cardinality(E)
    BY Zenon DEF Manager!Cardinality, Cardinality, Manager!IsFiniteSet, IsFiniteSet
  <2>7. n = MAX_FILE \/ n = Cardinality(E)
    BY <2>2, <2>3, <2>6
  <2>8. HasWayUp(s)
    BY <2>3, <2>5, <2>7, PanelsAssumption DEF HasWayUp
  <2> QED BY <2>4, <2>8
<1> QED BY <1>2, <1>3

LEMMA PanelInitial == Manager!Init => PanelInv
<1> SUFFICES ASSUME Manager!Init PROVE PanelInv
  OBVIOUS
<1>1. PICK cwd \in Dir : files \in [Panel -> Manager!Scans(cwd)]
  BY DEF Manager!Init, Manager!Panel, Panel
<1>2. \A p \in Panel : files[p] \in Seq(EntryNames) /\ HasWayUp(files[p])
  BY <1>1, ScanFills
<1>3. files \in [Panel -> Seq(EntryNames)]
  BY <1>1, <1>2
<1>4. \A p \in Panel : files[p] # <<>> => Len(files[p]) > 0
  BY <1>2
<1> QED BY <1>2, <1>3, <1>4, PanelsAssumption DEF Manager!Init, Manager!Panel, Panel, PanelInv

\* Up or down by one: the window follows.
LEMMA MoveKeeps ==
  ASSUME PanelInv, NEW delta \in {-1, 1}, Manager!move_selection(delta)
  PROVE  PanelInv'
<1> DEFINE p == active_panel
           s == selected[p] + delta
           n == Len(files[p])
           inside == IF s < 0 THEN 0 ELSE IF s >= n THEN n - 1 ELSE s
           scrolled == Manager!Scroll(inside, top[p])
<1>1. p \in Panel /\ n \in Nat /\ selected[p] \in Nat /\ top[p] \in Nat
  BY DEF PanelInv
<1>2. /\ n # 0 /\ files' = files /\ active_panel' = active_panel
      /\ selected' = [selected EXCEPT ![p] = inside] /\ top' = [top EXCEPT ![p] = scrolled]
  BY DEF Manager!move_selection, Manager!file_count
<1>3. inside \in 0..n - 1
  BY <1>1, <1>2
<1>4. scrolled \in Nat /\ scrolled <= inside /\ inside <= scrolled + PANEL_HEIGHT - 3
  <2>1. PICK i \in Nat : i = inside
    BY <1>1, <1>3
  <2>2. PICK t \in Nat : t = top[p]
    BY <1>1
  <2>3. scrolled = IF i < t THEN i
                   ELSE IF i >= t + PANEL_HEIGHT - 2 THEN i - (PANEL_HEIGHT - 3) ELSE t
    BY <2>1, <2>2 DEF Manager!Scroll
  <2> HIDE DEF inside, scrolled
  <2> QED BY <2>1, <2>3, PanelsAssumption
<1>5. files[p] # <<>>
  BY <1>2
<1>6. selected'[p] = inside /\ top'[p] = scrolled
  BY <1>1, <1>2 DEF PanelInv
<1>7. \A q \in Panel \ {p} : selected'[q] = selected[q] /\ top'[q] = top[q]
  BY <1>2 DEF PanelInv
<1>8. selected' \in [Panel -> Nat] /\ top' \in [Panel -> Nat]
  BY <1>2, <1>3, <1>4 DEF PanelInv
<1> HIDE DEF inside, scrolled
<1> QED BY <1>1, <1>2, <1>3, <1>4, <1>5, <1>6, <1>7, <1>8 DEF PanelInv

\* Enter: the panel is filled anew.
LEMMA EnterKeeps ==
  ASSUME PanelInv, Manager!change_directory
  PROVE  PanelInv'
<1> DEFINE p == active_panel
<1>1. PICK s : (\E path : s \in Manager!Scans(path)) /\ files' = [files EXCEPT ![p] = s]
  BY DEF Manager!change_directory
<1>2. /\ selected' = [selected EXCEPT ![p] = 0] /\ top' = [top EXCEPT ![p] = 0]
      /\ active_panel' = active_panel
  BY DEF Manager!change_directory
<1>3. s \in Seq(EntryNames) /\ HasWayUp(s)
  BY <1>1, ScanFills
<1>4. p \in Panel
  BY DEF PanelInv
<1>5. files'[p] = s /\ selected'[p] = 0 /\ top'[p] = 0
  BY <1>1, <1>2, <1>4 DEF PanelInv
<1>6. \A q \in Panel \ {p} : files'[q] = files[q] /\ selected'[q] = selected[q] /\ top'[q] = top[q]
  BY <1>1, <1>2 DEF PanelInv
<1>7. files' \in [Panel -> Seq(EntryNames)] /\ selected' \in [Panel -> Nat] /\ top' \in [Panel -> Nat]
  BY <1>1, <1>2, <1>3 DEF PanelInv
<1>8. s # <<>> => Len(s) > 0
  BY <1>3
<1> QED BY <1>2, <1>3, <1>4, <1>5, <1>6, <1>7, <1>8, PanelsAssumption DEF PanelInv

LEMMA PanelStep == PanelInv /\ [Manager!Next]_manager => PanelInv'
<1> SUFFICES ASSUME PanelInv, [Manager!Next]_manager PROVE PanelInv'
  OBVIOUS
<1>1. CASE Manager!move_selection(-1) \/ Manager!move_selection(1)
  BY <1>1, MoveKeeps
<1>2. CASE Manager!change_directory
  BY <1>2, EnterKeeps
<1>3. CASE Manager!SwitchPanel
  BY <1>3 DEF Manager!SwitchPanel, Manager!panels, PanelInv, Panel
<1>4. CASE Manager!Quit
  <2>1. /\ active_panel' = 0 /\ files' = [p \in Panel |-> <<>>]
        /\ selected' = [p \in Panel |-> 0] /\ top' = [p \in Panel |-> 0]
    BY <1>4 DEF Manager!Quit, Manager!Panel, Panel
  <2>2. \A p \in Panel : files'[p] = <<>> /\ selected'[p] = 0 /\ top'[p] = 0
    BY <2>1
  <2>3. files' \in [Panel -> Seq(EntryNames)] /\ selected' \in [Panel -> Nat] /\ top' \in [Panel -> Nat]
    BY <2>1
  <2>4. HasWayUp(<<>>)
    BY DEF HasWayUp
  <2> QED BY <2>1, <2>2, <2>3, <2>4 DEF PanelInv, Panel
<1>5. CASE \E d \in Dir : Manager!RemoveDirectory(d) \/ Manager!ChangeMode(d)
  BY <1>5 DEF Manager!RemoveDirectory, Manager!ChangeMode, Manager!panels, PanelInv
<1>6. CASE UNCHANGED manager
  BY <1>6 DEF manager, PanelInv
<1> QED BY <1>1, <1>2, <1>3, <1>4, <1>5, <1>6 DEF Manager!Next, Manager!Exited, Manager!vars, manager

LEMMA PanelInvariance == DirectoriesSpec => []PanelInv
<1>1. DirectoriesInit => PanelInv
  BY PanelInitial DEF DirectoriesInit
<1>2. [DirectoriesNext]_<<program, vars, table, manager>> => [Manager!Next]_manager
  BY DEF DirectoriesNext
<1> QED BY <1>1, <1>2, PanelStep, PTL DEF DirectoriesSpec

\* The entry that Enter opens is one of those that the panel shows, and a
\* panel that has entries and room for more has the way up among them, for
\* any directories and any sizes of the panels.
THEOREM PanelsCorrect == DirectoriesSpec => []PanelsUsable
<1>1. PanelInv => PanelsUsable
  <2> SUFFICES ASSUME PanelInv, NEW p \in Panel
               PROVE  /\ files[p] # <<>> => selected[p] \in Manager!Drawn(p)
                      /\ files[p] = <<>> => selected[p] = 0 /\ top[p] = 0
                      /\ HasWayUp(files[p])
    BY DEF PanelsUsable, Manager!PanelsUsable, Manager!Panel, Manager!file_count, Panel, HasWayUp
  <2>1. Len(files[p]) \in Nat /\ selected[p] \in Nat /\ top[p] \in Nat
    BY DEF PanelInv
  <2> QED BY <2>1, PanelsAssumption DEF PanelInv, Manager!Drawn, Manager!file_count
<1> QED BY <1>1, PanelInvariance, PTL
=============================================================================
