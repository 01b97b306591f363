--------------------------- MODULE MCMavenSidecar ---------------------------
(* Small instances of MavenSidecar.                                        *)
EXTENDS MavenSidecar, TLC
=============================================================================
