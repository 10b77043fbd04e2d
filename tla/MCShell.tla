------------------------------ MODULE MCShell ------------------------------
(* The three shells, with few lines and a pipe that is soon full.          *)
EXTENDS Shell
=============================================================================
