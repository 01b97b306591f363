----------------------------- MODULE MCSnapshot -----------------------------
(* Small instances of Snapshot.                                            *)
EXTENDS Snapshot, TLC
=============================================================================
