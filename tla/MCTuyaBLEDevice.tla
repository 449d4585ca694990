--------------------------- MODULE MCTuyaBLEDevice ---------------------------
(* TuyaBLEDevice for TLC: the spawned tasks are interchangeable. *)
EXTENDS TuyaBLEDevice, TLC
Symmetry == Permutations(Background)
=============================================================================
