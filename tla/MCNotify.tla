------------------------------ MODULE MCNotify ------------------------------
(* An instance of Notify for TLC: two notifiers, a two-bit notify_val.     *)
EXTENDS Notify

CONSTANTS n1, n2

MCNotifiers == {n1, n2}
=============================================================================
