----------------------------- MODULE MCTaskThree -----------------------------
(* The queueing time server with few clients, threads and places.          *)
EXTENDS TaskThree, TLC

Symmetry == Permutations(Client) \cup Permutations(Server)
=============================================================================
