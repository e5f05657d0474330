--------------------------- MODULE SemaphoreSpec ---------------------------
(***************************************************************************)
(* What the words SEMP, SEMP.TAKE and SEMP.GIVE promise of a counting      *)
(* semaphore: each call takes effect in one step between its start and its *)
(* return.  A GIVE adds one token unless the semaphore is full; a TAKE     *)
(* returns true exactly when it removed a token, and a polling TAKE fails  *)
(* only if there was no token.                                             *)
(***************************************************************************)
EXTENDS Integers

CONSTANTS Tasks,        \* the threads that use the semaphore
          TrueFlag,     \* what a TAKE that got a token returns
          FalseFlag,    \* what a TAKE that got none returns
          ErrorCodes    \* what a SEMP that failed may return

VARIABLES limit,        \* largest value a GIVE may produce
          value,        \* tokens available; Absent while there is no semaphore
          call,         \* the call each task is in
          result        \* what each task's last word returned

specVars == <<limit, value, call, result>>

Absent == -1
Waiting == {"wait", "timedwait"}

SpecInit ==
  /\ limit \in Nat
  /\ value = Absent
  /\ call = [t \in Tasks |-> "none"]
  /\ result = [t \in Tasks |-> FalseFlag]

Create(t) ==
  /\ value = Absent
  /\ value' \in Nat
  /\ limit' \in Nat
  /\ result' = [result EXCEPT ![t] = 0]
  /\ UNCHANGED call

CreateFails(t, code) ==
  /\ value = Absent
  /\ result' = [result EXCEPT ![t] = code]
  /\ UNCHANGED <<limit, value, call>>

Delete ==
  /\ \A t \in Tasks : call[t] \in {"none", "dead"}
  /\ value' = Absent
  /\ UNCHANGED <<limit, call, result>>

GetCount(t) ==
  /\ call[t] = "none" /\ value # Absent
  /\ result' = [result EXCEPT ![t] = value]
  /\ UNCHANGED <<limit, value, call>>

Begin(t, c) ==
  /\ call[t] = "none"
  /\ c \in Waiting => value = 0
  /\ call' = [call EXCEPT ![t] = c]
  /\ UNCHANGED <<limit, value, result>>

\* A take succeeds at once (call "none") or after it has waited.
TakeOne(t) ==
  /\ call[t] \in Waiting \cup {"none"}
  /\ value > 0
  /\ value' = value - 1
  /\ call' = [call EXCEPT ![t] = "none"]
  /\ result' = [result EXCEPT ![t] = TrueFlag]
  /\ UNCHANGED limit

TakeNone(t) ==
  /\ \/ call[t] = "none" /\ value = 0
     \/ call[t] = "timedwait"
  /\ call' = [call EXCEPT ![t] = "none"]
  /\ result' = [result EXCEPT ![t] = FalseFlag]
  /\ UNCHANGED <<limit, value>>

GiveOne(t) ==
  /\ call[t] \in {"none", "give"}
  /\ value' = IF value < limit THEN value + 1 ELSE value
  /\ call' = [call EXCEPT ![t] = IF @ = "give" THEN "given" ELSE "none"]
  /\ UNCHANGED <<limit, result>>

Return(t) ==
  /\ call[t] = "given"
  /\ call' = [call EXCEPT ![t] = "none"]
  /\ UNCHANGED <<limit, value, result>>

\* A cancelled task leaves its call; the tokens stay as they are.
Vanish(t) ==
  /\ call' = [call EXCEPT ![t] = "dead"]
  /\ UNCHANGED <<limit, value, result>>

SpecNext ==
  \/ Delete
  \/ \E t \in Tasks :
       \/ Create(t) \/ GetCount(t)
       \/ \E code \in ErrorCodes : CreateFails(t, code)
       \/ \E c \in Waiting \cup {"give"} : Begin(t, c)
       \/ TakeOne(t) \/ TakeNone(t) \/ GiveOne(t) \/ Return(t) \/ Vanish(t)

Spec == SpecInit /\ [][SpecNext]_specVars
=============================================================================
