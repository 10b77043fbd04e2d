------------------------------- MODULE MCTaxi -------------------------------
(* The taxi dispatcher on small tables; see the .cfg files for the values. *)
EXTENDS Taxi

NoTimes == {0}
ShortAndPast == {-1, 0, 1, 2}
=============================================================================
