---------------------------- MODULE MCDictionary ----------------------------
(* The instances of Dictionary for TLC. *)
EXTENDS Dictionary, TLC

Symmetry == Permutations(Names)
=============================================================================
