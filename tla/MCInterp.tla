------------------------------ MODULE MCInterp ------------------------------
(* An instance of Interp for TLC.                                          *)
EXTENDS Interp

CONSTANTS f1, f2, s1, x, y

MCFiles == {f1, f2}
MCStrings == {s1}
MCTexts == {x, y}
=============================================================================
