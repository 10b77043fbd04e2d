----------------------------- MODULE MCTaskFour -----------------------------
(* The select server with few clients of each kind.                        *)
EXTENDS TaskFour
=============================================================================
