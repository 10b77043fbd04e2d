------------------------------ MODULE MCStreams ------------------------------
(* Shops, shoppers and a loader with small amounts.                        *)
EXTENDS Streams

=============================================================================
