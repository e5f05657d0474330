----------------------------- MODULE Semaphore -----------------------------
(***************************************************************************)
(* The counting semaphore of src/csrc/posix/pfcustom_task_pthreads.c: one  *)
(* cfSemaphoreToken_t created by SEMP and used by several Forth tasks,     *)
(* each of them a POSIX thread.  sem_t operations are atomic; a GIVE on a  *)
(* bounded semaphore is four of them under the pthread mutex st->mux, and  *)
(* TASK.CANCEL (asynchronous cancellation) may stop a task between any two *)
(* of its steps.                                                           *)
(***************************************************************************)
EXTENDS Integers

CONSTANTS Tasks,         \* the threads that use the semaphore
          Killable,      \* those another thread may TASK.CANCEL
          NoTask,        \* "nobody", not a task
          MaxCounts,     \* max_count arguments given to SEMP
          SEM_VALUE_MAX, \* the C library's limit on a sem_t
          Errnos,        \* what errno may hold when SEMP could not be done
          MaxCalls       \* bound: calls each task makes

ASSUME SemaphoreAssumption ==
  /\ Killable \subseteq Tasks
  /\ NoTask \notin Tasks
  /\ MaxCounts \subseteq Int
  /\ SEM_VALUE_MAX \in Nat \ {0} /\ Errnos \subseteq Int
  /\ MaxCalls \in Nat

VARIABLES st,     \* the token: "none" until SEMP, "live", "none" after delete
          count,  \* st->count: the max_count SEMP was given
          sem,    \* value of st->sem
          mux,    \* owner of st->mux
          pc,     \* where each task is
          val,    \* the local `val' of SEMP.GIVE
          TOS,    \* what each task's last word left on the stack
          calls   \* calls each task has started

vars == <<st, count, sem, mux, pc, val, TOS, calls>>

FTRUE == -1
FFALSE == 0
THROW_ABORT == -1
EINVAL_IOR == -534        \* -512 - EINVAL

\* What a SEMP that fails leaves: no memory, or -512 - errno.
createErrors == {THROW_ABORT, EINVAL_IOR} \cup {-512 - e : e \in Errnos}

giving == {"lock", "getvalue", "post", "unlock"}
waiting == {"sem_wait", "sem_timedwait"}

Init ==
  /\ st = "none" /\ count = 0 /\ sem = 0 /\ mux = NoTask
  /\ pc = [t \in Tasks |-> "idle"]
  /\ val = [t \in Tasks |-> 0]
  /\ TOS = [t \in Tasks |-> FFALSE]
  /\ calls = [t \in Tasks |-> 0]

Calls(t) == calls[t] < MaxCalls /\ calls' = [calls EXCEPT ![t] = @ + 1]

\* SEMP ( max init -- sem 0 | ior ): sem_init refuses init > SEM_VALUE_MAX;
\* nothing compares init with max_count.
SEMP(t, max_count, init) ==
  /\ st = "none" /\ pc[t] = "idle" /\ Calls(t)
  /\ IF init > SEM_VALUE_MAX
       THEN /\ TOS' = [TOS EXCEPT ![t] = EINVAL_IOR]
            /\ UNCHANGED <<st, count, sem, mux>>
       ELSE /\ st' = "live" /\ count' = max_count /\ sem' = init /\ mux' = NoTask
            /\ TOS' = [TOS EXCEPT ![t] = 0]
  /\ UNCHANGED <<pc, val>>

\* malloc, sem_init or the initialization of st->mux fails: what there is of
\* the token is freed again.
SEMP_fails(t, ior) ==
  /\ st = "none" /\ pc[t] = "idle" /\ Calls(t)
  /\ TOS' = [TOS EXCEPT ![t] = ior]
  /\ UNCHANGED <<st, count, sem, mux, pc, val>>

\* SEMP.DELETE frees the token.  Nothing in the code protects a task that is
\* inside another word: a program deletes a semaphore nobody is using.
SEMP_DELETE(t) ==
  /\ st = "live" /\ pc[t] = "idle" /\ Calls(t)
  /\ \A u \in Tasks : pc[u] \in {"idle", "dead"}
  /\ st' = "none"
  /\ UNCHANGED <<count, sem, mux, pc, val, TOS>>

Enter(t) == st = "live" /\ pc[t] = "idle" /\ Calls(t)

SEMP_GET_COUNT(t) ==
  /\ Enter(t)
  /\ TOS' = [TOS EXCEPT ![t] = sem]
  /\ UNCHANGED <<st, count, sem, mux, pc, val>>

\* Mutant of TryTake: the value is decremented whatever it is.
TryTakeAlways(t) ==
  /\ Enter(t)
  /\ sem' = sem - 1
  /\ TOS' = [TOS EXCEPT ![t] = FTRUE]
  /\ UNCHANGED <<st, count, mux, pc, val>>

\* SEMP.TAKE with timeout 0: sem_trywait.
TryTake(t) ==
  /\ Enter(t)
  /\ sem' = IF sem > 0 THEN sem - 1 ELSE sem
  /\ TOS' = [TOS EXCEPT ![t] = IF sem > 0 THEN FTRUE ELSE FFALSE]
  /\ UNCHANGED <<st, count, mux, pc, val>>

GotToken(t) ==
  /\ sem > 0
  /\ sem' = sem - 1
  /\ TOS' = [TOS EXCEPT ![t] = FTRUE]
  /\ pc' = [pc EXCEPT ![t] = "idle"]
  /\ UNCHANGED <<st, count, mux, val>>

\* SEMP.TAKE with timeout < 0 (sem_wait) or > 0 (sem_timedwait).
Take(t, wait) ==
  /\ Enter(t)
  /\ \/ GotToken(t)
     \/ /\ sem = 0
        /\ pc' = [pc EXCEPT ![t] = wait]
        /\ UNCHANGED <<st, count, sem, mux, val, TOS>>

Woken(t) ==
  /\ pc[t] \in waiting
  /\ GotToken(t)
  /\ UNCHANGED calls

TimedOut(t) ==
  /\ pc[t] = "sem_timedwait"
  /\ TOS' = [TOS EXCEPT ![t] = FFALSE]
  /\ pc' = [pc EXCEPT ![t] = "idle"]
  /\ UNCHANGED <<st, count, sem, mux, val, calls>>

\* sem_post answers EOVERFLOW at SEM_VALUE_MAX; the code ignores it.
sem_post == sem' = IF sem < SEM_VALUE_MAX THEN sem + 1 ELSE sem

GiveUnbounded(t) ==
  /\ Enter(t)
  /\ count <= 0
  /\ sem_post
  /\ UNCHANGED <<st, count, mux, pc, val, TOS>>

GiveBounded(t) ==
  /\ Enter(t)
  /\ count > 0
  /\ pc' = [pc EXCEPT ![t] = "lock"]
  /\ UNCHANGED <<st, count, sem, mux, val, TOS>>

\* Mutant of GiveLock: the mutex is not awaited.
GiveNoLock(t) ==
  /\ pc[t] = "lock"
  /\ mux' = t
  /\ pc' = [pc EXCEPT ![t] = "getvalue"]
  /\ UNCHANGED <<st, count, sem, val, TOS, calls>>

GiveLock(t) ==
  /\ pc[t] = "lock" /\ mux = NoTask
  /\ mux' = t
  /\ pc' = [pc EXCEPT ![t] = "getvalue"]
  /\ UNCHANGED <<st, count, sem, val, TOS, calls>>

GiveGetValue(t) ==
  /\ pc[t] = "getvalue"
  /\ val' = [val EXCEPT ![t] = sem]
  /\ pc' = [pc EXCEPT ![t] = "post"]
  /\ UNCHANGED <<st, count, sem, mux, TOS, calls>>

\* Mutant of GivePost: a give lost one below the limit.
GivePostShort(t) ==
  /\ pc[t] = "post"
  /\ IF count > val[t] + 1 THEN sem_post ELSE UNCHANGED sem
  /\ pc' = [pc EXCEPT ![t] = "unlock"]
  /\ UNCHANGED <<st, count, mux, val, TOS, calls>>

GivePost(t) ==
  /\ pc[t] = "post"
  /\ IF count > val[t] THEN sem_post ELSE UNCHANGED sem
  /\ pc' = [pc EXCEPT ![t] = "unlock"]
  /\ UNCHANGED <<st, count, mux, val, TOS, calls>>

\* Mutant of GiveUnlock: the mutex stays locked.
GiveNoUnlock(t) ==
  /\ pc[t] = "unlock"
  /\ val' = [val EXCEPT ![t] = 0]
  /\ pc' = [pc EXCEPT ![t] = "idle"]
  /\ UNCHANGED <<st, count, sem, mux, TOS, calls>>

GiveUnlock(t) ==
  /\ pc[t] = "unlock"
  /\ mux' = NoTask
  /\ val' = [val EXCEPT ![t] = 0]        \* the local goes out of scope
  /\ pc' = [pc EXCEPT ![t] = "idle"]
  /\ UNCHANGED <<st, count, sem, TOS, calls>>

\* TASK.CANCEL of t: asynchronous cancellation, a held st->mux stays held.
Cancelled(t) ==
  /\ t \in Killable /\ pc[t] # "dead"
  /\ pc' = [pc EXCEPT ![t] = "dead"]
  /\ UNCHANGED <<st, count, sem, mux, val, TOS, calls>>

Running(t) ==
  \/ Woken(t) \/ TimedOut(t)
  \/ GiveLock(t) \/ GiveGetValue(t) \/ GivePost(t) \/ GiveUnlock(t)

Next ==
  \E t \in Tasks :
    \/ \E m \in MaxCounts, i \in 0 .. SEM_VALUE_MAX + 1 : SEMP(t, m, i)
    \/ \E ior \in createErrors : SEMP_fails(t, ior)
    \/ SEMP_DELETE(t) \/ SEMP_GET_COUNT(t)
    \/ TryTake(t) \/ (\E w \in waiting : Take(t, w))
    \/ GiveUnbounded(t) \/ GiveBounded(t)
    \/ Running(t) \/ Cancelled(t)

Spec == Init /\ [][Next]_vars

\* A thread inside a C-library call or between two of them keeps running, a
\* timed wait ends, and a mutex or token that stays available is obtained:
\* weak fairness only, glibc promises no order among waiters.
FairSpec == Spec /\ \A t \in Tasks : WF_vars(Running(t))

-----------------------------------------------------------------------------
TypeOK ==
  /\ st \in {"none", "live"}
  /\ count \in Int
  /\ sem \in 0 .. SEM_VALUE_MAX
  /\ mux \in Tasks \cup {NoTask}
  /\ pc \in [Tasks -> {"idle", "dead"} \cup waiting \cup giving]
  /\ val \in [Tasks -> 0 .. SEM_VALUE_MAX]
  /\ TOS \in [Tasks -> Int]
  /\ calls \in [Tasks -> 0 .. MaxCalls]

\* The limit a GIVE respects.
Limit == IF count > 0 /\ count < SEM_VALUE_MAX THEN count ELSE SEM_VALUE_MAX

(* However the GIVEs of several tasks interleave with takes and with       *)
(* cancelled givers, no step raises the value above the max_count given to *)
(* SEMP ("8 0 do sem1 semp.give loop" leaves 5, t_multitask.fth:136).      *)
NeverGivesPastMax == [][sem' > sem /\ st' = st => sem' <= Limit]_vars

nobodyCancelled == \A t \in Tasks : pc[t] # "dead"

(* A task that waits for a token is not left behind while one is there:    *)
(* either it leaves, or the tokens are used up by others.  And no GIVE     *)
(* hangs on st->mux: when nobody is cancelled every GIVE returns, in       *)
(* whatever order the givers get the mutex.                                *)
CallsServed ==
  /\ \A t \in Tasks :
       (pc[t] = "sem_wait" /\ sem > 0) ~> (pc[t] # "sem_wait" \/ sem = 0)
  /\ []nobodyCancelled => \A t \in Tasks : pc[t] \in giving ~> pc[t] = "idle"

-----------------------------------------------------------------------------
\* The refinement mapping.  A GIVE takes effect in its sem_post, or in its
\* sem_getvalue when it finds the semaphore full.
GiveEffective(place, v) == place = "unlock" \/ (place = "post" /\ v >= count)

placeCall(place, v) ==
  IF place = "idle" THEN "none"
  ELSE IF place = "dead" THEN "dead"
  ELSE IF place = "sem_wait" THEN "wait"
  ELSE IF place = "sem_timedwait" THEN "timedwait"
  ELSE IF GiveEffective(place, v) THEN "given" ELSE "give"

specCall == [t \in Tasks |-> placeCall(pc[t], val[t])]

Abstract == INSTANCE SemaphoreSpec WITH
  TrueFlag <- FTRUE, FalseFlag <- FFALSE, ErrorCodes <- createErrors,
  limit <- Limit, value <- IF st = "live" THEN sem ELSE -1,
  call <- specCall, result <- TOS

(* The C code implements the atomic semaphore: every GIVE, TAKE and COUNT@ *)
(* takes effect in one instant of its call, the flags and counts it        *)
(* returns are those of that instant, and a token is dropped only at the   *)
(* limit.                                                                  *)
Implements == Abstract!Spec
=============================================================================
