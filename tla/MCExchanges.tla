----------------------------- MODULE MCExchanges -----------------------------
(* Few processes, places in queues and runs of each family of programs.    *)
EXTENDS Exchanges, TLC

Symmetry == Permutations(Client) \cup Permutations(Answerer)
=============================================================================
