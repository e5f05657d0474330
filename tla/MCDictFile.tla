---------------------------- MODULE MCDictFile ----------------------------
(* An instance of DictFile for TLC: one build and others that differ from *)
(* it in the version, the number of primitives or the byte order.          *)
EXTENDS DictFile

Old == [version |-> 9, cell |-> 8, big |-> 0, float |-> 8, prims |-> 2]
MCBuilds == {Old, [Old EXCEPT !.version = 10], [Old EXCEPT !.prims = 3], [Old EXCEPT !.big = 1]}

\* No file, another IFF file, an unknown chunk, and code without P4DI.
MCOtherFiles == {<<>>, <<FORM, 1, 7>>, <<FORM, 5, P4TH, BADF, 2, 7, 7>>, <<FORM, 4, P4TH, P4CD, 1, 7>>}
MCSizes == {0, 3}
===========================================================================
