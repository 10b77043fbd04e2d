----------------------------- MODULE Directories -----------------------------
(***************************************************************************)
(* The programs of one user at the keys, one at a time: the directories of *)
(* abonents, the list or the table, and the panels over directories.       *)
(***************************************************************************)
EXTENDS AbonentList, FiniteSets

CONSTANTS MAXABONENT, MAX_LENGTH,
          TypedWord, TypedAbonent,     \* Struct: words, and what Add_abonent reads of them
          MAX_FILE, PANEL_HEIGHT,
          Dir, Regular, Parent     \* File_manager: paths, and the entry ..

\* A field has room for a character and its 0; scanf reads no empty word.
ASSUME TableAssumption ==
  /\ MAXABONENT \in Nat \ {0} /\ MAX_LENGTH \in Nat \ {0, 1}
  /\ \A w \in TypedWord : w \in Seq(Nat \ {0}) /\ Len(w) \in 1..MAX_LENGTH
  /\ TypedAbonent \subseteq [1..3 -> TypedWord]

\* The frame of a panel takes two lines of it.
ASSUME PanelsAssumption ==
  /\ MAX_FILE \in Nat \ {0} /\ PANEL_HEIGHT \in Nat /\ PANEL_HEIGHT > 2
  /\ IsFiniteSet(Dir) /\ IsFiniteSet(Regular)

VARIABLES program,
  abonents, table_count, table_pc, search_name, found, book, full, past,
  active_panel, panel_pc, current_path, files, selected, top, readable, removed

Table == INSTANCE AbonentArray WITH
  Word <- TypedWord, Abonent <- TypedAbonent, count <- table_count, pc <- table_pc

table == <<abonents, table_count, table_pc, search_name, found, book, full, past>>

Manager == INSTANCE FileManager WITH pc <- panel_pc

manager == <<active_panel, panel_pc, current_path, files, selected, top, readable, removed>>

\* The other programs do nothing, in one of their initial states.
DirectoriesInit ==
  /\ program \in {"AbonentList", "Struct", "File_manager"}
  /\ Init /\ Table!Init /\ Manager!Init
  /\ program = "AbonentList" \/ data = [n \in Node |-> CHOOSE a \in Abonent : TRUE]
  /\ \/ program = "File_manager"
     \/ /\ current_path = [p \in {0, 1} |-> CHOOSE d \in Dir : TRUE]
        /\ files = [p \in {0, 1} |-> CHOOSE s \in Manager!Scans(current_path[p]) : TRUE]

DirectoriesNext ==
  /\ UNCHANGED program
  /\ \/ program = "AbonentList" /\ Next /\ UNCHANGED <<table, manager>>
     \/ program = "Struct" /\ Table!Next /\ UNCHANGED <<vars, manager>>
     \/ program = "File_manager" /\ Manager!Next /\ UNCHANGED <<vars, table>>

DirectoriesSpec == DirectoriesInit /\ [][DirectoriesNext]_<<program, vars, table, manager>>

-----------------------------------------------------------------------------
(* Properties.                                                             *)

\* Struct: the table is what was typed, until a word fills its field.
ShowsBook == Table!ShowsBook

\* File_manager: what Enter opens is on the screen, and a panel has a way up.
PanelsUsable == Manager!PanelsUsable

\* Struct: an abonent is shown as it was typed within the limits of the prompts.
ShownAsTyped == Table!ShownAsTyped
=============================================================================
