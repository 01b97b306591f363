------------------------------ MODULE MCLogHub ------------------------------
(* Small instances of LogHub: one client suffices, for clients share       *)
(* nothing but the hub, which they never change; two loggers contend.      *)
EXTENDS LogHub, TLC

MCFilters == {LineKinds, {"error"}}
=============================================================================
