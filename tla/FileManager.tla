---------------------------- MODULE FileManager ----------------------------
(***************************************************************************)
(* src/File_manager: two panels over directories.  A panel shows what was  *)
(* in its directory when it was entered, a window of it at a time; since   *)
(* then others may have removed directories or changed who may read them.  *)
(* A path is the sequence of its names, whether or not the text begins      *)
(* with two slashes, as it does below a root that was entered.             *)
(***************************************************************************)
EXTENDS Integers, Sequences, FiniteSets, SequencesExt

CONSTANTS MAX_FILE, PANEL_HEIGHT,
          Dir,          \* paths of directories, those above them included
          Regular,      \* paths of files
          Parent        \* the entry .. of each directory

VARIABLES
  active_panel, pc,               \* pc: "keys" or "exit"
  current_path, files, selected, top,   \* of each panel
  readable,    \* directories that can be read and searched
  removed      \* directories that are no more

vars == <<active_panel, pc, current_path, files, selected, top, readable, removed>>
panels == <<current_path, files, selected, top>>

Panel == {0, 1}
Root == <<>>
file_count(p) == Len(files[p])

Exists(path) == path \in (Dir \cup Regular) \ removed
Opens(path) == \A k \in 0..Len(path) : SubSeq(path, 1, k) \in readable \ removed

Entries(path) ==
  {Parent} \cup {Last(e) : e \in {x \in Dir \cup Regular :
                                    x # Root /\ Front(x) = path /\ Exists(x)}}

\* What scan_directory may put into a panel: nothing when the directory does not
\* open or its entries cannot be looked at, else the first MAX_FILE entries in
\* the order, any order, that readdir has.
Scans(path) ==
  IF ~Opens(path) THEN {<<>>}
  ELSE {s \in UNION {[1..n -> Entries(path)] : n \in 1..MAX_FILE} :
          /\ IsInjective(s)
          /\ Len(s) = MAX_FILE \/ Len(s) = Cardinality(Entries(path))}

Init ==
  /\ active_panel = 0 /\ pc = "keys"
  /\ removed = {} /\ readable = Dir
  /\ \E cwd \in Dir :
       /\ current_path = [p \in Panel |-> cwd]
       /\ files \in [Panel -> Scans(cwd)]
  /\ selected = [p \in Panel |-> 0] /\ top = [p \in Panel |-> 0]

-----------------------------------------------------------------------------
(* Keys, for the active panel.                                             *)

\* The first line of the window that shows entry s.
\* Mutant: the frame is counted for one line only.
ScrollShort(s, t) ==
  IF s < t THEN s ELSE IF s >= t + PANEL_HEIGHT - 1 THEN s - (PANEL_HEIGHT - 2) ELSE t
Scroll(s, t) ==
  IF s < t THEN s ELSE IF s >= t + PANEL_HEIGHT - 2 THEN s - (PANEL_HEIGHT - 3) ELSE t

move_selection(delta) ==
  LET p == active_panel
      s == selected[p] + delta
      inside == IF s < 0 THEN 0 ELSE IF s >= file_count(p) THEN file_count(p) - 1 ELSE s
  IN /\ pc = "keys" /\ file_count(p) # 0
     /\ selected' = [selected EXCEPT ![p] = inside]
     /\ top' = [top EXCEPT ![p] = Scroll(inside, top[p])]
     /\ UNCHANGED <<active_panel, pc, current_path, files, readable, removed>>

\* Where Enter leads; the directory above the root is the root.
NewPath(p, name) ==
  IF name # Parent THEN Append(current_path[p], name)
  ELSE IF current_path[p] = Root THEN Root ELSE Front(current_path[p])

\* is_dir is what the entry was when the panel was filled.
change_directory ==
  LET p == active_panel
      new_path == NewPath(p, files[p][selected[p] + 1])
  IN /\ pc = "keys" /\ file_count(p) > 0
     /\ new_path \in Dir
     /\ current_path' = [current_path EXCEPT ![p] = new_path]
     /\ \E s \in Scans(new_path) : files' = [files EXCEPT ![p] = s]
     /\ selected' = [selected EXCEPT ![p] = 0]
     /\ top' = [top EXCEPT ![p] = 0]
     /\ UNCHANGED <<active_panel, pc, readable, removed>>

SwitchPanel ==
  /\ pc = "keys" /\ active_panel' = 1 - active_panel
  /\ UNCHANGED <<pc, panels, readable, removed>>

\* The panels are gone with the process.
Quit ==
  /\ pc = "keys" /\ pc' = "exit" /\ active_panel' = 0
  /\ current_path' = [p \in Panel |-> Root] /\ files' = [p \in Panel |-> <<>>]
  /\ selected' = [p \in Panel |-> 0] /\ top' = [p \in Panel |-> 0]
  /\ UNCHANGED <<readable, removed>>

Exited == pc = "exit" /\ UNCHANGED vars

-----------------------------------------------------------------------------
(* Other programs.                                                         *)

RemoveDirectory(d) ==
  /\ pc = "keys" /\ d # Root /\ Exists(d)
  /\ removed' = removed \cup {x \in Dir \cup Regular : IsPrefix(d, x)}
  /\ UNCHANGED <<active_panel, pc, panels, readable>>

ChangeMode(d) ==
  /\ pc = "keys" /\ Exists(d)
  /\ readable' = IF d \in readable THEN readable \ {d} ELSE readable \cup {d}
  /\ UNCHANGED <<active_panel, pc, panels, removed>>

Next ==
  \/ move_selection(-1) \/ move_selection(1)
  \/ change_directory \/ SwitchPanel \/ Quit \/ Exited
  \/ \E d \in Dir : RemoveDirectory(d) \/ ChangeMode(d)

Spec == Init /\ [][Next]_vars

-----------------------------------------------------------------------------
(* Properties.                                                             *)

\* draw_panel shows the entries of a panel in its window.
Drawn(p) == {e \in 0..file_count(p) - 1 : e \in top[p]..top[p] + PANEL_HEIGHT - 3}

\* The entry that Enter opens is one that the panel shows, through every move
\* and change of directory; the window begins inside the entries.  A panel
\* that is not empty can go up, unless MAX_FILE entries came before the one it
\* needs; an empty one is left behind where a directory could not be read.
PanelsUsable ==
  \A p \in Panel :
    /\ files[p] # <<>> => selected[p] \in Drawn(p)
    /\ files[p] = <<>> => selected[p] = 0 /\ top[p] = 0
    /\ file_count(p) \in 1..MAX_FILE - 1 => Parent \in {files[p][k] : k \in 1..file_count(p)}
=============================================================================
