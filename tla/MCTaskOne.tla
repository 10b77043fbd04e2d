------------------------------ MODULE MCTaskOne ------------------------------
(* The server with one thread per client, for few clients and ports.       *)
EXTENDS TaskOne
=============================================================================
