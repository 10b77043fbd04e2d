------------------------------ MODULE MCTaskTwo ------------------------------
(* The directing time server with few clients and service servers.         *)
EXTENDS TaskTwo
=============================================================================
