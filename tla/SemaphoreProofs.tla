-------------------------- MODULE SemaphoreProofs --------------------------
(* Proofs about Semaphore for every set of tasks, every argument of SEMP   *)
(* and every SEM_VALUE_MAX.                                                *)
EXTENDS Semaphore, TLAPS

(* Type correctness: the value of a sem_t stays within 0..SEM_VALUE_MAX    *)
(* and the mutex is owned by a task or by nobody.                          *)
THEOREM TypeCorrect == Spec => []TypeOK
<1>1. Init => TypeOK
  BY SemaphoreAssumption DEF Init, TypeOK, FFALSE
<1>2. TypeOK /\ [Next]_vars => TypeOK'
  <2> SUFFICES ASSUME TypeOK, [Next]_vars PROVE TypeOK'
    OBVIOUS
  <2> USE SemaphoreAssumption DEF TypeOK, waiting, giving, FTRUE, FFALSE, EINVAL_IOR,
        THROW_ABORT, createErrors
  <2>1. ASSUME NEW t \in Tasks, NEW m \in MaxCounts,
               NEW i \in 0 .. SEM_VALUE_MAX + 1, SEMP(t, m, i)
        PROVE  TypeOK'
    BY <2>1 DEF SEMP, Calls
  <2>1a. ASSUME NEW t \in Tasks, NEW ior \in createErrors, SEMP_fails(t, ior)
         PROVE  TypeOK'
    BY <2>1a DEF SEMP_fails, Calls
  <2>2. ASSUME NEW t \in Tasks, SEMP_DELETE(t) \/ SEMP_GET_COUNT(t) \/ TryTake(t)
        PROVE  TypeOK'
    BY <2>2 DEF SEMP_DELETE, SEMP_GET_COUNT, TryTake, Enter, Calls
  <2>3. ASSUME NEW t \in Tasks, NEW w \in waiting, Take(t, w)
        PROVE  TypeOK'
    BY <2>3 DEF Take, GotToken, Enter, Calls
  <2>4. ASSUME NEW t \in Tasks, GiveUnbounded(t) \/ GiveBounded(t)
        PROVE  TypeOK'
    BY <2>4 DEF GiveUnbounded, GiveBounded, sem_post, Enter, Calls
  <2>5. ASSUME NEW t \in Tasks, Woken(t) \/ TimedOut(t) \/ Cancelled(t)
        PROVE  TypeOK'
    BY <2>5 DEF Woken, GotToken, TimedOut, Cancelled
  <2>6. ASSUME NEW t \in Tasks, GiveLock(t) \/ GiveGetValue(t) \/ GiveUnlock(t)
        PROVE  TypeOK'
    BY <2>6 DEF GiveLock, GiveGetValue, GiveUnlock
  <2>7. ASSUME NEW t \in Tasks, GivePost(t)
        PROVE  TypeOK'
    BY <2>7 DEF GivePost, sem_post
  <2>8. CASE UNCHANGED vars
    BY <2>8 DEF vars
  <2>9. QED
    BY <2>1, <2>1a, <2>2, <2>3, <2>4, <2>5, <2>6, <2>7, <2>8 DEF Next, Running
<1>3. QED
  BY <1>1, <1>2, PTL DEF Spec

(***************************************************************************)
(* The inductive invariant.  A giver past the lock owns the mutex, so no   *)
(* other task posts between its sem_getvalue and its sem_post; takers only *)
(* lower the value.  The last conjunct says when a task can be giving at   *)
(* all: the deleter waits for every task to leave its words.               *)
(***************************************************************************)

(* Between sem_getvalue and sem_post of a GIVE the value only goes down:   *)
(* the post can not be based on a value that is too small.                 *)
PostSafe == \A t \in Tasks : pc[t] = "post" => sem <= val[t]

(* Only the owner of st->mux is between the lock and the unlock of a GIVE. *)
OneGiver == \A t \in Tasks : pc[t] \in giving \ {"lock"} => mux = t

GivingIsLive ==
  \A t \in Tasks : pc[t] \in giving \cup waiting =>
    st = "live" /\ (pc[t] \in giving => count > 0)

IInv == TypeOK /\ OneGiver /\ PostSafe /\ GivingIsLive

\* Nobody is in a word at the start.
LEMMA InitIInv == Init => IInv
BY SemaphoreAssumption
   DEF Init, IInv, TypeOK, OneGiver, PostSafe, GivingIsLive, giving, waiting, FFALSE

\* Every step keeps the inductive invariant.
LEMMA StepIInv == IInv /\ TypeOK' /\ [Next]_vars => IInv'
<1> SUFFICES ASSUME IInv, TypeOK', [Next]_vars
             PROVE  OneGiver' /\ PostSafe' /\ GivingIsLive'
  BY DEF IInv
<1> USE SemaphoreAssumption
    DEF IInv, TypeOK, OneGiver, PostSafe, GivingIsLive, waiting, giving
<1>1. ASSUME NEW t \in Tasks, NEW m \in MaxCounts,
             NEW i \in 0 .. SEM_VALUE_MAX + 1, SEMP(t, m, i)
      PROVE  OneGiver' /\ PostSafe' /\ GivingIsLive'
  BY <1>1 DEF SEMP, Calls
<1>1a. ASSUME NEW t \in Tasks, NEW ior \in createErrors, SEMP_fails(t, ior)
       PROVE  OneGiver' /\ PostSafe' /\ GivingIsLive'
  BY <1>1a DEF SEMP_fails, Calls
<1>2. ASSUME NEW t \in Tasks, SEMP_DELETE(t)
      PROVE  OneGiver' /\ PostSafe' /\ GivingIsLive'
  BY <1>2 DEF SEMP_DELETE, Calls
<1>3. ASSUME NEW t \in Tasks, SEMP_GET_COUNT(t) \/ TryTake(t)
      PROVE  OneGiver' /\ PostSafe' /\ GivingIsLive'
  BY <1>3 DEF SEMP_GET_COUNT, TryTake, Enter, Calls
<1>4. ASSUME NEW t \in Tasks, NEW w \in waiting, Take(t, w)
      PROVE  OneGiver' /\ PostSafe' /\ GivingIsLive'
  BY <1>4 DEF Take, GotToken, Enter, Calls
<1>5. ASSUME NEW t \in Tasks, GiveUnbounded(t)
      PROVE  OneGiver' /\ PostSafe' /\ GivingIsLive'
  BY <1>5 DEF GiveUnbounded, sem_post, Enter, Calls
<1>6. ASSUME NEW t \in Tasks, GiveBounded(t)
      PROVE  OneGiver' /\ PostSafe' /\ GivingIsLive'
  BY <1>6 DEF GiveBounded, Enter, Calls
<1>7. ASSUME NEW t \in Tasks, Woken(t) \/ TimedOut(t) \/ Cancelled(t)
      PROVE  OneGiver' /\ PostSafe' /\ GivingIsLive'
  BY <1>7 DEF Woken, GotToken, TimedOut, Cancelled
<1>8. ASSUME NEW t \in Tasks, GiveLock(t) \/ GiveGetValue(t) \/ GiveUnlock(t)
      PROVE  OneGiver' /\ PostSafe' /\ GivingIsLive'
  BY <1>8 DEF GiveLock, GiveGetValue, GiveUnlock
<1>9. ASSUME NEW t \in Tasks, GivePost(t)
      PROVE  OneGiver' /\ PostSafe' /\ GivingIsLive'
  BY <1>9 DEF GivePost, sem_post
<1>10. CASE UNCHANGED vars
  BY <1>10 DEF vars
<1>11. QED
  BY <1>1, <1>1a, <1>2, <1>3, <1>4, <1>5, <1>6, <1>7, <1>8, <1>9, <1>10 DEF Next, Running

\* The inductive invariant holds.
LEMMA Inductive == Spec => []IInv
BY InitIInv, StepIInv, TypeCorrect, PTL DEF Spec

(* Only the owner of st->mux is past the lock of a GIVE.                   *)
THEOREM GiversExclude == Spec => []OneGiver
<1>1. IInv => OneGiver
  BY DEF IInv
<1>2. QED
  BY <1>1, Inductive, PTL

(* The value a GIVE has read is never lower than the semaphore's value     *)
(* when it posts.                                                          *)
THEOREM PostsAreSafe == Spec => []PostSafe
<1>1. IInv => PostSafe
  BY DEF IInv
<1>2. QED
  BY <1>1, Inductive, PTL

(* No interleaving of GIVEs, TAKEs and cancellations raises the value past *)
(* the maximum given to SEMP, for any number of tasks.                     *)
THEOREM BoundRespected == Spec => NeverGivesPastMax
<1>1. IInv /\ [Next]_vars => [sem' > sem /\ st' = st => sem' <= Limit]_vars
  <2> SUFFICES ASSUME IInv, [Next]_vars, sem' > sem, st' = st
               PROVE  sem' <= Limit
    BY DEF vars
  <2> USE SemaphoreAssumption DEF IInv, TypeOK, Limit
  <2>1. ASSUME NEW t \in Tasks, NEW m \in MaxCounts,
               NEW i \in 0 .. SEM_VALUE_MAX + 1, SEMP(t, m, i)
        PROVE  sem' <= Limit
    BY <2>1 DEF SEMP
  <2>1a. ASSUME NEW t \in Tasks, NEW ior \in createErrors, SEMP_fails(t, ior)
         PROVE  sem' <= Limit
    BY <2>1a DEF SEMP_fails
  <2>2. ASSUME NEW t \in Tasks,
               SEMP_DELETE(t) \/ SEMP_GET_COUNT(t) \/ TryTake(t) \/ GiveBounded(t)
        PROVE  sem' <= Limit
    BY <2>2 DEF SEMP_DELETE, SEMP_GET_COUNT, TryTake, GiveBounded
  <2>3. ASSUME NEW t \in Tasks, NEW w \in waiting, Take(t, w)
        PROVE  sem' <= Limit
    BY <2>3 DEF Take, GotToken
  <2>4. ASSUME NEW t \in Tasks, GiveUnbounded(t)
        PROVE  sem' <= Limit
    BY <2>4 DEF GiveUnbounded, sem_post
  <2>5. ASSUME NEW t \in Tasks, Woken(t) \/ TimedOut(t) \/ Cancelled(t)
        PROVE  sem' <= Limit
    BY <2>5 DEF Woken, GotToken, TimedOut, Cancelled
  <2>6. ASSUME NEW t \in Tasks, GiveLock(t) \/ GiveGetValue(t) \/ GiveUnlock(t)
        PROVE  sem' <= Limit
    BY <2>6 DEF GiveLock, GiveGetValue, GiveUnlock
  <2>7. ASSUME NEW t \in Tasks, GivePost(t)
        PROVE  sem' <= Limit
    BY <2>7 DEF GivePost, sem_post, PostSafe
  <2>8. CASE UNCHANGED vars
    BY <2>8 DEF vars
  <2>9. QED
    BY <2>1, <2>1a, <2>2, <2>3, <2>4, <2>5, <2>6, <2>7, <2>8 DEF Next, Running
<1>2. QED
  BY <1>1, Inductive, PTL DEF Spec, NeverGivesPastMax

-----------------------------------------------------------------------------
(* Refinement: the words implement the atomic semaphore of SemaphoreSpec.  *)

\* A task that moves changes its own abstract call only.
LEMMA CallMoves ==
  ASSUME NEW t \in Tasks, NEW p, TypeOK,
         pc' = [pc EXCEPT ![t] = p], count' = count,
         \A u \in Tasks \ {t} : val'[u] = val[u]
  PROVE  specCall' = [specCall EXCEPT ![t] = placeCall(p, val'[t])]
<1>1. \A u \in Tasks \ {t} : specCall'[u] = specCall[u]
  BY DEF specCall, placeCall, GiveEffective, TypeOK
<1>2. specCall'[t] = placeCall(p, val'[t])
  BY DEF specCall, placeCall, GiveEffective, TypeOK
<1>3. /\ specCall = [u \in Tasks |-> specCall[u]]
      /\ specCall' = [u \in Tasks |-> specCall'[u]]
  BY DEF specCall
<1>4. QED
  BY <1>1, <1>2, <1>3

\* A step that moves no task changes no abstract call.
LEMMA CallStays ==
  ASSUME count' = count, pc' = pc, val' = val
  PROVE  specCall' = specCall
BY DEF specCall, placeCall, GiveEffective

\* The limit of the abstract semaphore is a number.
LEMMA LimitOK == TypeOK => Limit \in Nat
BY SemaphoreAssumption DEF Limit, TypeOK

\* Every step of the code is a step of the abstract semaphore or changes
\* nothing it can see.
LEMMA StepSimulation ==
  IInv /\ IInv' /\ [Next]_vars => [Abstract!SpecNext]_(Abstract!specVars)
<1> SUFFICES ASSUME IInv, IInv', [Next]_vars
             PROVE  Abstract!SpecNext \/ UNCHANGED Abstract!specVars
  OBVIOUS
<1> USE SemaphoreAssumption DEF IInv, TypeOK, Abstract!specVars, Abstract!Absent,
        Abstract!Waiting
<1>1. ASSUME NEW t \in Tasks, NEW m \in MaxCounts,
             NEW i \in 0 .. SEM_VALUE_MAX + 1, SEMP(t, m, i)
      PROVE  Abstract!SpecNext
  <2>1. CASE i > SEM_VALUE_MAX
    <3>1. Abstract!CreateFails(t, EINVAL_IOR)
      BY <1>1, <2>1, CallStays DEF SEMP, Abstract!CreateFails, Limit
    <3>2. QED
      BY <3>1 DEF Abstract!SpecNext, createErrors
  <2>2. CASE ~(i > SEM_VALUE_MAX)
    <3>1. specCall' = specCall
      BY <1>1, <2>2 DEF SEMP, specCall, placeCall, GiveEffective, GivingIsLive, giving, waiting
    <3>2. Abstract!Create(t)
      BY <1>1, <2>2, <3>1, LimitOK DEF SEMP, Abstract!Create, Limit
    <3>3. QED
      BY <3>2 DEF Abstract!SpecNext
  <2>3. QED
    BY <2>1, <2>2
<1>1a. ASSUME NEW t \in Tasks, NEW ior \in createErrors, SEMP_fails(t, ior)
       PROVE  Abstract!SpecNext
  <2>1. Abstract!CreateFails(t, ior)
    BY <1>1a, CallStays DEF SEMP_fails, Abstract!CreateFails, Limit
  <2>2. QED
    BY <2>1 DEF Abstract!SpecNext
<1>2. ASSUME NEW t \in Tasks, SEMP_DELETE(t)
      PROVE  Abstract!SpecNext
  <2>1. specCall' = specCall /\ \A u \in Tasks : specCall[u] \in {"none", "dead"}
    BY <1>2, CallStays DEF SEMP_DELETE, specCall, placeCall
  <2>2. Abstract!Delete
    BY <1>2, <2>1 DEF SEMP_DELETE, Abstract!Delete, Limit
  <2>3. QED
    BY <2>2 DEF Abstract!SpecNext
<1>3. ASSUME NEW t \in Tasks, SEMP_GET_COUNT(t)
      PROVE  Abstract!SpecNext
  <2>1. specCall' = specCall /\ specCall[t] = "none"
    BY <1>3, CallStays DEF SEMP_GET_COUNT, Enter, specCall, placeCall
  <2>2. Abstract!GetCount(t)
    BY <1>3, <2>1 DEF SEMP_GET_COUNT, Enter, Abstract!GetCount, Limit
  <2>3. QED
    BY <2>2 DEF Abstract!SpecNext
<1>4. ASSUME NEW t \in Tasks, TryTake(t)
      PROVE  Abstract!SpecNext
  <2>1. specCall' = specCall /\ specCall[t] = "none" /\ specCall = [specCall EXCEPT ![t] = "none"]
    BY <1>4, CallStays DEF TryTake, Enter, specCall, placeCall
  <2>2. CASE sem > 0
    <3>1. Abstract!TakeOne(t)
      BY <1>4, <2>1, <2>2 DEF TryTake, Enter, Abstract!TakeOne, Limit
    <3>2. QED
      BY <3>1 DEF Abstract!SpecNext
  <2>3. CASE sem = 0
    <3>1. Abstract!TakeNone(t)
      BY <1>4, <2>1, <2>3 DEF TryTake, Enter, Abstract!TakeNone, Limit
    <3>2. QED
      BY <3>1 DEF Abstract!SpecNext
  <2>4. QED
    BY <2>2, <2>3
<1>5. ASSUME NEW t \in Tasks, GotToken(t), st = "live",
             pc[t] \in {"idle"} \cup waiting
      PROVE  Abstract!SpecNext
  <2>1. /\ specCall' = [specCall EXCEPT ![t] = "none"]
        /\ specCall[t] \in Abstract!Waiting \cup {"none"}
    BY <1>5, CallMoves DEF GotToken, specCall, placeCall, waiting
  <2>2. Abstract!TakeOne(t)
    BY <1>5, <2>1 DEF GotToken, Abstract!TakeOne, Limit
  <2>3. QED
    BY <2>2 DEF Abstract!SpecNext
<1>6. ASSUME NEW t \in Tasks, NEW w \in waiting, Take(t, w)
      PROVE  Abstract!SpecNext
  <2>1. CASE sem > 0
    BY <1>5, <1>6, <2>1 DEF Take, Enter
  <2>2. CASE sem = 0
    <3> DEFINE c == IF w = "sem_wait" THEN "wait" ELSE "timedwait"
    <3>1. specCall' = [specCall EXCEPT ![t] = c] /\ specCall[t] = "none"
      BY <1>6, <2>2, CallMoves DEF Take, GotToken, Enter, specCall, placeCall, waiting
    <3>2. Abstract!Begin(t, c)
      BY <1>6, <2>2, <3>1 DEF Take, GotToken, Enter, Abstract!Begin, Limit, waiting
    <3>3. QED
      BY <3>2 DEF Abstract!SpecNext
  <2>3. QED
    BY <2>1, <2>2
<1>7. ASSUME NEW t \in Tasks, GiveUnbounded(t)
      PROVE  Abstract!SpecNext
  <2>1. specCall' = specCall /\ specCall[t] = "none" /\ specCall = [specCall EXCEPT ![t] = "none"]
    BY <1>7, CallStays DEF GiveUnbounded, Enter, specCall, placeCall
  <2>2. Abstract!GiveOne(t)
    BY <1>7, <2>1 DEF GiveUnbounded, sem_post, Enter, Abstract!GiveOne, Limit
  <2>3. QED
    BY <2>2 DEF Abstract!SpecNext
<1>8. ASSUME NEW t \in Tasks, GiveBounded(t)
      PROVE  Abstract!SpecNext
  <2>1. specCall' = [specCall EXCEPT ![t] = "give"] /\ specCall[t] = "none"
    BY <1>8, CallMoves DEF GiveBounded, Enter, specCall, placeCall, GiveEffective
  <2>2. Abstract!Begin(t, "give")
    BY <1>8, <2>1 DEF GiveBounded, Enter, Abstract!Begin, Limit
  <2>3. QED
    BY <2>2 DEF Abstract!SpecNext
<1>9. ASSUME NEW t \in Tasks, Woken(t)
      PROVE  Abstract!SpecNext
  BY <1>5, <1>9 DEF Woken, GivingIsLive, waiting
<1>10. ASSUME NEW t \in Tasks, TimedOut(t)
       PROVE  Abstract!SpecNext
  <2>1. specCall' = [specCall EXCEPT ![t] = "none"] /\ specCall[t] = "timedwait"
    BY <1>10, CallMoves DEF TimedOut, specCall, placeCall
  <2>2. Abstract!TakeNone(t)
    BY <1>10, <2>1 DEF TimedOut, Abstract!TakeNone, Limit
  <2>3. QED
    BY <2>2 DEF Abstract!SpecNext
<1>11. ASSUME NEW t \in Tasks, GiveLock(t)
       PROVE  UNCHANGED Abstract!specVars
  <2>1. specCall' = [specCall EXCEPT ![t] = "give"] /\ specCall[t] = "give"
    BY <1>11, CallMoves DEF GiveLock, specCall, placeCall, GiveEffective
  <2>2. QED
    BY <1>11, <2>1 DEF GiveLock, Limit, specCall
<1>12. ASSUME NEW t \in Tasks, GiveGetValue(t)
       PROVE  Abstract!SpecNext \/ UNCHANGED Abstract!specVars
  <2>1. /\ specCall' = [specCall EXCEPT ![t] = placeCall("post", sem)]
        /\ specCall[t] = "give"
        /\ st = "live" /\ count > 0
    BY <1>12, CallMoves
       DEF GiveGetValue, specCall, placeCall, GiveEffective, GivingIsLive, giving
  <2>2. CASE sem >= count
    <3>1. Abstract!GiveOne(t)
      BY <1>12, <2>1, <2>2
         DEF GiveGetValue, Abstract!GiveOne, Limit, placeCall, GiveEffective
    <3>2. QED
      BY <3>1 DEF Abstract!SpecNext
  <2>3. CASE sem < count
    <3>1. placeCall("post", sem) = "give"
      BY <2>3 DEF placeCall, GiveEffective
    <3>2. QED
      BY <1>12, <2>1, <3>1, ZenonT(60) DEF GiveGetValue, Limit, specCall
  <2>4. QED
    BY <2>2, <2>3
<1>13. ASSUME NEW t \in Tasks, GivePost(t)
       PROVE  Abstract!SpecNext \/ UNCHANGED Abstract!specVars
  <2>1. /\ specCall' = [specCall EXCEPT ![t] = "given"]
        /\ st = "live" /\ count > 0
    BY <1>13, CallMoves
       DEF GivePost, specCall, placeCall, GiveEffective, GivingIsLive, giving
  <2>2. CASE count > val[t]
    <3>1. specCall[t] = "give"
      BY <1>13, <2>2 DEF GivePost, specCall, placeCall, GiveEffective
    <3>2. Abstract!GiveOne(t)
      BY <1>13, <2>1, <2>2, <3>1
         DEF GivePost, sem_post, PostSafe, Abstract!GiveOne, Limit
    <3>3. QED
      BY <3>2 DEF Abstract!SpecNext
  <2>3. CASE ~(count > val[t])
    <3>1. specCall[t] = "given"
      BY <1>13, <2>3 DEF GivePost, specCall, placeCall, GiveEffective
    <3>2. QED
      BY <1>13, <2>1, <2>3, <3>1 DEF GivePost, Limit, specCall
  <2>4. QED
    BY <2>2, <2>3
<1>14. ASSUME NEW t \in Tasks, GiveUnlock(t)
       PROVE  Abstract!SpecNext
  <2>1. specCall' = [specCall EXCEPT ![t] = "none"] /\ specCall[t] = "given"
    BY <1>14, CallMoves DEF GiveUnlock, specCall, placeCall, GiveEffective
  <2>2. Abstract!Return(t)
    BY <1>14, <2>1 DEF GiveUnlock, Abstract!Return, Limit
  <2>3. QED
    BY <2>2 DEF Abstract!SpecNext
<1>15. ASSUME NEW t \in Tasks, Cancelled(t)
       PROVE  Abstract!SpecNext
  <2>1. specCall' = [specCall EXCEPT ![t] = "dead"]
    BY <1>15, CallMoves DEF Cancelled, placeCall
  <2>2. Abstract!Vanish(t)
    BY <1>15, <2>1 DEF Cancelled, Abstract!Vanish, Limit
  <2>3. QED
    BY <2>2 DEF Abstract!SpecNext
<1>16. CASE UNCHANGED vars
  BY <1>16, CallStays DEF vars, Limit
<1>17. QED
  BY <1>1, <1>1a, <1>2, <1>3, <1>4, <1>6, <1>7, <1>8, <1>9, <1>10, <1>11, <1>12, <1>13,
     <1>14, <1>15, <1>16 DEF Next, Running

(* The C code implements the atomic semaphore, for any number of tasks.    *)
THEOREM Refinement == Spec => Implements
<1>1. Init => Abstract!SpecInit
  BY SemaphoreAssumption DEF Init, Abstract!SpecInit, Abstract!Absent, Limit,
     specCall, placeCall
<1>2. QED
  BY <1>1, Inductive, StepSimulation, PTL DEF Spec, Implements, Abstract!Spec
=============================================================================
