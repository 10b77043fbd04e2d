---------------------------- MODULE AbonentArray ----------------------------
(***************************************************************************)
(* src/Struct/abonents.c: a directory of abonents in a table, behind a     *)
(* menu.  The table is a run of characters, 0 the one that ends a text, and *)
(* scanf puts a word with its 0 wherever they come to lie: the 0 of a word  *)
(* that fills its field is the first character of the next one, and behind  *)
(* the last field comes what the linker has put there, which may be count.  *)
(***************************************************************************)
EXTENDS Integers, Sequences

CONSTANTS MAXABONENT,
          MAX_LENGTH,
          Word,          \* what is typed: sequences of characters, of which the prompts
                         \* of Add_abonent allow MAX_LENGTH
          Abonent        \* three words each

VARIABLES
  abonents,    \* the characters of the table
  count,
  pc,          \* at the menu, or "exit"
  search_name, found,  \* the last search and the entries it has shown
  book,        \* history: the entries as they were typed and not deleted
  full,        \* history: some word has filled its field
  past         \* history: some word has gone past the table

vars == <<abonents, count, pc, search_name, found, book, full, past>>

Entry == 3 * MAX_LENGTH
Size == MAXABONENT * Entry
Start(i, field) == i * Entry + field * MAX_LENGTH

Nobody == <<>>

Init ==
  /\ abonents = [a \in 0..Size - 1 |-> 0]
  /\ count = 0
  /\ pc = "menu"
  /\ search_name = Nobody /\ found = {}
  /\ book = <<>> /\ full = FALSE /\ past = FALSE

\* scanf of a word at a place.
Typed(table, start, word) ==
  [a \in DOMAIN table |->
     IF a \in start..start + Len(word) - 1 THEN word[a - start + 1]
     ELSE IF a = start + Len(word) THEN 0
     ELSE table[a]]

\* A text as it is shown and compared: up to the first 0.
Text(start) ==
  LET length == CHOOSE n \in 0..Size - start :
                  /\ start + n = Size \/ abonents[start + n] = 0
                  /\ \A a \in start..start + n - 1 : abonents[a] # 0
  IN [k \in 1..length |-> abonents[start + k - 1]]

\* Any other command forgets the last search.
Forget == search_name' = Nobody /\ found' = {}

Add_abonent(words) ==
  /\ pc = "menu" /\ count < MAXABONENT
  /\ abonents' = Typed(Typed(Typed(abonents,
                   Start(count, 0), words[1]), Start(count, 1), words[2]), Start(count, 2), words[3])
  /\ full' = (full \/ \E f \in 1..3 : Len(words[f]) = MAX_LENGTH)
  /\ past' = (past \/ Start(count, 2) + Len(words[3]) >= Size)
  /\ \/ count' = count + 1
     \/ Start(count, 2) + Len(words[3]) >= Size /\ count' = 0 + 1
  /\ book' = IF past' THEN <<>> ELSE Append(book, words)
  /\ Forget
  /\ UNCHANGED pc

\* What the shift copies of each field.  Mutant: one character less.
CopiedShort == MAX_LENGTH - 2
Copied == MAX_LENGTH - 1

\* The entry is cleared, those behind it are copied over their neighbours,
\* and the last one is cleared.
Delet_abonent(index) ==
  /\ pc = "menu" /\ index < count
  /\ abonents' = [a \in DOMAIN abonents |->
       LET i == a \div Entry
           copied == i \in index..count - 2 /\ a % MAX_LENGTH < Copied
           cleared == i = index \/ i = count - 1
       IN IF copied THEN abonents[a + Entry] ELSE IF cleared THEN 0 ELSE abonents[a]]
  /\ count' = count - 1
  /\ book' = IF past THEN <<>> ELSE SubSeq(book, 1, index) \o SubSeq(book, index + 2, Len(book))
  /\ Forget
  /\ UNCHANGED <<pc, full, past>>

\* Str_EQ.  The prompt states no limit: a word that fills search_name writes its
\* 0, or more, over what the compiler has put behind it.  That may be nothing,
\* the count, or a variable of the loop that changes the word under it: the
\* search is right up to some entry, and finds none from there on.
Search_abonents(word) ==
  /\ pc = "menu"
  /\ search_name' = word
  /\ \E seen \in 0..count :
       /\ Len(word) < MAX_LENGTH => seen = count
       /\ found' = {i \in 0..seen - 1 : Text(Start(i, 0)) = word}
  /\ UNCHANGED <<abonents, count, pc, book, full, past>>

\* Or the program does not survive such a word, where the stack is guarded.
SearchAborts(word) ==
  /\ pc = "menu" /\ Len(word) >= MAX_LENGTH
  /\ pc' = "exit"
  /\ Forget
  /\ UNCHANGED <<abonents, count, book, full, past>>

\* The last item of the menu, and any number that is not in it.
Exit ==
  /\ pc = "menu" /\ pc' = "exit"
  /\ Forget
  /\ UNCHANGED <<abonents, count, book, full, past>>

Exited == pc = "exit" /\ UNCHANGED vars

Next ==
  \/ \E words \in Abonent : Add_abonent(words)
  \/ \E index \in 0..MAXABONENT - 1 : Delet_abonent(index)
  \/ \E word \in Word : Search_abonents(word) \/ SearchAborts(word)
  \/ Exit \/ Exited

Spec == Init /\ [][Next]_vars

-----------------------------------------------------------------------------
(* Properties.                                                             *)

Shown(i) == [field \in 1..3 |-> Text(Start(i, field - 1))]

\* The table is what was typed and not deleted, in its order, for as long as no
\* word has filled its field; what lies behind the entries in use is empty,
\* and a search finds those of that name.  The count is right for as long as
\* no telephone has filled the last field of the table.
ShowsBook ==
  /\ ~past => count = Len(book)
  /\ ~full =>
       /\ \A i \in 0..count - 1 : Shown(i) = book[i + 1]
       /\ \A a \in count * Entry..Size - 1 : abonents[a] = 0
       /\ search_name # Nobody => found = {i \in 0..count - 1 : book[i + 1][1] = search_name}

\* An abonent that was typed with at most as many characters as the prompts
\* allow is shown as it was typed (the prompts of Add_abonent).
ShownAsTyped == \A i \in 1..Len(book) : Shown(i - 1) = book[i]
=============================================================================
