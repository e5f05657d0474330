-------------------------- MODULE MCTaskLifecycle --------------------------
(* An instance of TaskLifecycle for TLC: two cells, one exception.         *)
EXTENDS TaskLifecycle

CONSTANTS c1, c2, xt

MCCells == {c1, c2}
MCExceptions == {-44}
=============================================================================
