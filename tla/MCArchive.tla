----------------------------- MODULE MCArchive -----------------------------
(* Archive on a small instance: the name n1 is a substring of n2, and filler text holds
   the one attribute.  Values and documents are interchangeable. *)
EXTENDS Archive, TLC

MCWithin == {<<"n1", "n1">>, <<"n2", "n2">>, <<"n1", "n2">>}

ValueAndDocumentSymmetry == Permutations(Values) \cup Permutations(Documents)
=============================================================================
