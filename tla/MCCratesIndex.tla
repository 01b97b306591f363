--------------------------- MODULE MCCratesIndex ---------------------------
(* Small instances of CratesIndex.                                         *)
EXTENDS CratesIndex, TLC

Symmetry == Permutations(Clients)
=============================================================================
