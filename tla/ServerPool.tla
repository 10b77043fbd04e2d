----------------------------- MODULE ServerPool -----------------------------
(***************************************************************************)
(* What the pool of src/SocketsSS/TaskTwo/server.c promises: a client that *)
(* asks is given a server that nobody else holds, or is refused if none    *)
(* was free when it asked; a server is returned after the client that      *)
(* holds it was served.  No client is given a second server.               *)
(***************************************************************************)
CONSTANTS Client, Server, NoClient

VARIABLES
  holder,   \* the client that a server was given to
  asking,   \* the client whose turn it is
  full,     \* no server was free when that client asked
  served    \* the clients whose server is through with them

Init ==
  /\ holder = [s \in Server |-> NoClient]
  /\ asking = NoClient /\ full = FALSE
  /\ served = {}

Ask(c) ==
  /\ asking = NoClient /\ c \notin served /\ \A s \in Server : holder[s] # c
  /\ asking' = c
  /\ full' = \A s \in Server : holder[s] # NoClient
  /\ UNCHANGED <<holder, served>>

Give(s) ==
  /\ asking # NoClient /\ holder[s] = NoClient
  /\ holder' = [holder EXCEPT ![s] = asking]
  /\ asking' = NoClient /\ full' = FALSE
  /\ UNCHANGED served

\* A server may have come back since, too late for the one that asked.
Refuse ==
  /\ asking # NoClient /\ full
  /\ asking' = NoClient /\ full' = FALSE
  /\ UNCHANGED <<holder, served>>

Serve(s) ==
  /\ holder[s] # NoClient
  /\ served' = served \cup {holder[s]}
  /\ UNCHANGED <<holder, asking, full>>

Return(s) ==
  /\ holder[s] \in served
  /\ holder' = [holder EXCEPT ![s] = NoClient]
  /\ UNCHANGED <<asking, full, served>>

Next ==
  \/ \E c \in Client : Ask(c)
  \/ \E s \in Server : Give(s) \/ Serve(s) \/ Return(s)
  \/ Refuse

Spec == Init /\ [][Next]_<<holder, asking, full, served>>
=============================================================================
