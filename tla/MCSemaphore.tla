---------------------------- MODULE MCSemaphore ----------------------------
(* Instances of Semaphore for TLC: three tasks, bounded and unbounded      *)
(* semaphores, a sem_t that saturates at 2, one task that is cancelled.     *)
EXTENDS Semaphore

CONSTANTS t1, t2, t3

MCTasks == {t1, t2, t3}
MCKillable == {t1}
MCErrnos == {12}             \* ENOMEM
MCMaxCounts == {-1, 1, 2}
=============================================================================
