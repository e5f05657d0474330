------------------------------ MODULE MCMutex ------------------------------
(* Instances of Mutex for TLC: three tasks with two calls each, one of     *)
(* which is cancelled; GIVEs of what a task took are not counted.          *)
EXTENDS Mutex

CONSTANTS t1, t2, t3

MCTasks == {t1, t2, t3}
MCKillable == {t1}
MCErrnos == {12}             \* ENOMEM
=============================================================================
