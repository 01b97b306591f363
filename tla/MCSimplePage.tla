---------------------------- MODULE MCSimplePage ----------------------------
(* Small instances of SimplePage.                                          *)
EXTENDS SimplePage

(* The first file has a name of its own; the other two share one, as files *)
(* of an index that lists several hosts may.                               *)
SharedNames == <<1, 2, 2>>

Usual == [dated |-> TRUE, allowed |-> TRUE, ver |-> 1, dialect |-> "json"]
SomeUploads ==
  {Usual, [Usual EXCEPT !.dated = FALSE, !.ver = 2, !.dialect = "html"],
   [Usual EXCEPT !.allowed = FALSE, !.dialect = "other"]}
=============================================================================
