------------------------------- MODULE Notify -------------------------------
(***************************************************************************)
(* Task notifications: one task, the target, has a 32-bit notify_val, a    *)
(* condition and a fast mutex.  Any task may TASK.NOTIFY it; the target    *)
(* itself waits in TASK.NOTIFY-TAKE, -TAKEDEC or -WAIT.  Every word is one *)
(* critical section under notify_mux, cut in two by pthread_cond_wait.     *)
(* src/csrc/posix/pfcustom_task_pthreads.c:515-688, src/fth/task_notify.fth*)
(***************************************************************************)
EXTENDS Integers

CONSTANTS Notifiers,    \* tasks that notify the target
          Width,        \* bits of notify_val: 32 in the code
          MaxNotifies,  \* bound: calls of TASK.NOTIFY by each notifier
          MaxWaits      \* bound: words the target executes

ASSUME NotifyAssumption == Width \in Nat /\ MaxNotifies \in Nat /\ MaxWaits \in Nat

VARIABLES
  notify_val, \* pt->notify_val
  word,       \* the word the target waits in, or "none"
  timed,      \* it waits with a timeout
  signalled,  \* the condition has been signalled, or has woken by itself
  answer,     \* what the target's last word returned
  TOS,        \* what each notifier's last TASK.NOTIFY returned
  notifies, waits, \* calls made
  given, taken, lost, \* history: INCs, sum of TAKE's answers, values cleared
  counting,   \* history: every notification so far was NA or INC
  strict      \* history: all were INC, and no wake-up was spurious

target == <<word, timed, answer, waits>>
history == <<given, taken, lost, counting, strict>>
notify_vars == <<notify_val, target, signalled, TOS, notifies, history>>

FTRUE == -1
FFALSE == 0
Actions == {"NA", "INC", "SET", "SETF", "SETB"}

\* 2^i
Power[i \in 0 .. Width] == IF i = 0 THEN 1 ELSE 2 * Power[i - 1]
Modulus == Power[Width]
Values == 0 .. Modulus - 1

\* No statement of the program sets TASK_NOTIFY_PENDING_FLAG in pt->flags: the
\* waits for it that TAKE and CLEAR begin with are not reached.
Pending == FALSE

Bit(n, i) == (n \div Power[i]) % 2
AllBits == 0 .. Width - 1
Or(a, b) == CHOOSE v \in Values :
  \A i \in AllBits : Bit(v, i) = IF Bit(a, i) + Bit(b, i) > 0 THEN 1 ELSE 0
\* The values that a & ~mask takes for all masks.
Cleared(a) == {v \in 0 .. a : \A i \in AllBits : Bit(v, i) <= Bit(a, i)}

NotifyInit ==
  /\ notify_val = 0
  /\ word = "none" /\ timed = FALSE /\ signalled = FALSE /\ answer = 0
  /\ TOS = [n \in Notifiers |-> 0] /\ notifies = [n \in Notifiers |-> 0]
  /\ waits = 0 /\ given = 0 /\ taken = 0 /\ lost = 0 /\ counting = TRUE /\ strict = TRUE

-----------------------------------------------------------------------------
(* TASK.NOTIFY                                                             *)

NotifyCall(n) ==
  /\ notifies[n] < MaxNotifies
  /\ notifies' = [notifies EXCEPT ![n] = @ + 1]
  /\ UNCHANGED target

\* pthread_cond_signal is lost if the target is not waiting.
Signal == signalled' = (signalled \/ word # "none")

\* The value after the action, to which x is the operand.  Mutant: no wrap.
NewValueUnbounded(action, x) ==
  IF action = "INC" THEN notify_val + 1 ELSE notify_val
NewValue(action, x) ==
  IF action = "INC" THEN IF notify_val = Modulus - 1 THEN 0 ELSE notify_val + 1
  ELSE IF action = "SETB" THEN Or(notify_val, x)
  ELSE IF action = "SETF" \/ (action = "SET" /\ ~Pending) THEN x
  ELSE notify_val

\* What TASK.NOTIFY returns: QUERY counts only together with SET.
NotifyAnswer(action, query) ==
  IF action # "SET" THEN FFALSE
  ELSE IF query THEN notify_val
  ELSE IF Pending THEN FFALSE ELSE FTRUE

NOTIFY(n, action, query, x) ==
  /\ NotifyCall(n)
  /\ notify_val' = NewValue(action, x)
  /\ Signal
  /\ TOS' = [TOS EXCEPT ![n] = NotifyAnswer(action, query)]
  /\ given' = IF action = "INC" THEN given + 1 ELSE given
  /\ lost' = IF action = "INC" /\ notify_val' # notify_val + 1 THEN lost + Modulus ELSE lost
  /\ counting' = (counting /\ action \in {"NA", "INC"})
  /\ strict' = (strict /\ action = "INC")
  /\ UNCHANGED taken

\* TASK.NOTIFY-CLEAR only looks for the pending flag.
NOTIFY_CLEAR(n) ==
  /\ NotifyCall(n)
  /\ TOS' = [TOS EXCEPT ![n] = FFALSE]
  /\ UNCHANGED <<notify_val, signalled, history>>

-----------------------------------------------------------------------------
(* The target's words.                                                     *)

Word == word = "none" /\ waits < MaxWaits /\ waits' = waits + 1

\* Mutant of TakeValue: the value stays.
TakeKeeps ==
  /\ answer' = notify_val
  /\ taken' = taken + notify_val
  /\ UNCHANGED <<notify_val, given, lost, counting, strict>>

\* TOS = notify_val; notify_val = 0
TakeValue ==
  /\ answer' = notify_val
  /\ taken' = taken + notify_val
  /\ notify_val' = 0
  /\ UNCHANGED <<given, lost, counting, strict>>

\* Mutant of NOTIFY_TAKE: waits even if there is a value, as TAKEDEC does.
NOTIFY_TAKE_AlwaysWaits(t) ==
  /\ Word
  /\ word' = "TAKE" /\ timed' = t /\ signalled' = FALSE
  /\ UNCHANGED <<notify_val, answer, history>>
  /\ UNCHANGED <<TOS, notifies>>

\* TASK.NOTIFY-TAKE waits, once, if there is no value.
NOTIFY_TAKE(t) ==
  /\ Word
  /\ \/ /\ notify_val = 0
        /\ word' = "TAKE" /\ timed' = t /\ signalled' = FALSE
        /\ UNCHANGED <<notify_val, answer, history>>
     \/ /\ notify_val # 0
        /\ TakeValue
        /\ UNCHANGED <<word, timed, signalled>>
  /\ UNCHANGED <<TOS, notifies>>

\* TASK.NOTIFY-TAKEDEC waits whatever the value is.
NOTIFY_TAKEDEC(t) ==
  /\ Word
  /\ word' = "TAKEDEC" /\ timed' = t /\ signalled' = FALSE
  /\ UNCHANGED <<notify_val, answer, history, TOS, notifies>>

\* TASK.NOTIFY-WAIT clears bits of the value first, by entry_clr_mask.
NOTIFY_WAIT(t, cleared) ==
  /\ Word /\ cleared \in Cleared(notify_val)
  /\ notify_val' = cleared
  /\ lost' = lost + notify_val - notify_val'
  /\ word' = "WAIT" /\ timed' = t /\ signalled' = FALSE
  /\ UNCHANGED <<answer, given, taken, counting, strict, TOS, notifies>>

\* pthread_cond_wait or pthread_cond_timedwait returns.
Awake == signalled \/ timed

\* A spurious wake-up, which POSIX allows.
WakesByItself ==
  /\ word # "none" /\ ~signalled
  /\ signalled' = TRUE /\ strict' = FALSE
  /\ UNCHANGED <<notify_val, target, TOS, notifies, given, taken, lost, counting>>

\* Mutant of TAKE_resumed: pthread_cond_timedwait for a negative timeout, too.
TAKE_timedOut ==
  /\ word = "TAKE"
  /\ TakeValue
  /\ word' = "none" /\ timed' = FALSE /\ signalled' = FALSE
  /\ UNCHANGED <<waits, TOS, notifies>>

TAKE_resumed ==
  /\ word = "TAKE" /\ Awake
  /\ TakeValue
  /\ word' = "none" /\ timed' = FALSE /\ signalled' = FALSE
  /\ UNCHANGED <<waits, TOS, notifies>>

\* The branch that decrements or returns the value is for a pending flag.
OTHER_resumed ==
  /\ word \in {"TAKEDEC", "WAIT"} /\ Awake
  /\ answer' = IF Pending THEN FTRUE ELSE FFALSE
  /\ word' = "none" /\ timed' = FALSE /\ signalled' = FALSE
  /\ UNCHANGED <<notify_val, history, waits, TOS, notifies>>

Notifying(n) ==
  \/ \E a \in Actions, q \in BOOLEAN, x \in Values : NOTIFY(n, a, q, x)
  \/ NOTIFY_CLEAR(n)

NotifyNext ==
  \/ \E n \in Notifiers : Notifying(n)
  \/ \E t \in BOOLEAN : NOTIFY_TAKE(t) \/ NOTIFY_TAKEDEC(t)
  \/ \E t \in BOOLEAN, v \in Values : NOTIFY_WAIT(t, v)
  \/ TAKE_resumed \/ OTHER_resumed \/ WakesByItself

NotifySpec == NotifyInit /\ [][NotifyNext]_notify_vars

\* The target's thread runs once its wait is over.
NotifyFairSpec == NotifySpec /\ WF_notify_vars(TAKE_resumed) /\ WF_notify_vars(OTHER_resumed)

-----------------------------------------------------------------------------
NotifyTypeOK ==
  /\ notify_val \in Values
  /\ word \in {"none", "TAKE", "TAKEDEC", "WAIT"}
  /\ timed \in BOOLEAN /\ signalled \in BOOLEAN
  /\ answer \in Values \cup {FTRUE}
  /\ TOS \in [Notifiers -> Values \cup {FTRUE}]
  /\ notifies \in [Notifiers -> 0 .. MaxNotifies] /\ waits \in 0 .. MaxWaits
  /\ given \in Nat /\ taken \in Nat /\ lost \in Nat
  /\ counting \in BOOLEAN /\ strict \in BOOLEAN

(* Every TASK.NOTF-INC is counted by exactly one answer of TASK.NOTIFY-    *)
(* TAKE, or is still in notify_val, or was cleared by TASK.NOTIFY-WAIT or  *)
(* by the wrap of the 32-bit value: none is lost between the end of the    *)
(* wait and the reset of the value, and none is answered twice.            *)
IncrementsConserved ==
  counting => given = taken + notify_val + lost

(* A TASK.NOTIFY-TAKE without timeout, notified by increments only, waits  *)
(* until it can return one of them (fewer than 2^32 were made and the      *)
(* condition does not wake by itself).                                     *)
takeNotEmpty ==
  /\ word = "TAKE" /\ word' = "none" /\ ~timed
  /\ strict /\ given < Modulus
  => answer' # 0
TakeNotEmpty == [][takeNotEmpty]_notify_vars

(* No wake-up is lost: a TAKE that waits while the value is not zero, set  *)
(* before or after it began to wait, returns.                              *)
NoLostWakeup == (word = "TAKE" /\ notify_val # 0) ~> word = "none"
=============================================================================
