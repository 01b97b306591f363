---------------------------- MODULE MCPackument ----------------------------
(* Small instances of Packument.                                           *)
EXTENDS Packument

(* A version as usual; one without a stamp; one no tarball path can hold;  *)
(* and a backport, which upstream does not tag as latest.                  *)
Usual == [dated |-> TRUE, servable |-> TRUE, tagged |-> TRUE]
SomePublications ==
  {Usual, [Usual EXCEPT !.dated = FALSE], [Usual EXCEPT !.servable = FALSE],
   [Usual EXCEPT !.tagged = FALSE]}
=============================================================================
