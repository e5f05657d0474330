------------------------------- MODULE Mutex -------------------------------
(***************************************************************************)
(* The mutexes of src/csrc/posix/pfcustom_task_pthreads.c: SEMP.MUTEX (a   *)
(* fast pthread mutex) and SEMP.MUTEX-R (a recursive one), used through    *)
(* the same words as a semaphore.  pthread operations are atomic; the      *)
(* counter st->count of a recursive mutex is a plain int that TAKE, GIVE   *)
(* and COUNT@ read and write without atomic operations.                    *)
(***************************************************************************)
EXTENDS Integers, FiniteSets

CONSTANTS Tasks,      \* the threads that use the mutex
          Killable,   \* those another thread may TASK.CANCEL
          NoTask,     \* "nobody", not a task
          Errnos,     \* what errno may hold when SEMP.MUTEX could not be done
          MaxCalls    \* bound: TAKEs and COUNT@s each task makes

ASSUME MutexAssumption ==
  /\ Killable \subseteq Tasks
  /\ NoTask \notin Tasks
  /\ Errnos \subseteq Int
  /\ MaxCalls \in Nat

VARIABLES kind,   \* st->flags: "none" (no token), "fast" or "recursive"
          owner,  \* owner of st->mux
          depth,  \* how often the owner has locked it
          count,  \* st->count
          pc,     \* where each task is
          reg,    \* the value of st->count a task has read
          TOS,    \* what each task's last word left on the stack
          held,   \* TAKEs that returned true, less the GIVEs begun
          foreign, \* some task has GIVEn a mutex it had not taken (history)
          calls   \* calls each task has started

vars == <<kind, owner, depth, count, pc, reg, TOS, held, foreign, calls>>

FTRUE == -1
FFALSE == 0
THROW_ABORT == -1
\* What a SEMP.MUTEX that fails leaves: no memory, or -512 - errno.
createErrors == {THROW_ABORT} \cup {-512 - e : e \in Errnos}

waiting == {"mutex_lock", "mutex_timedlock"}
taking == {"load_inc", "store_inc"}
giving == {"load_dec", "store_dec", "unlock"}

Init ==
  /\ kind = "none" /\ owner = NoTask /\ depth = 0 /\ count = 0
  /\ pc = [t \in Tasks |-> "idle"]
  /\ reg = [t \in Tasks |-> 0]
  /\ TOS = [t \in Tasks |-> FFALSE]
  /\ held = [t \in Tasks |-> 0] /\ foreign = FALSE
  /\ calls = [t \in Tasks |-> 0]

Calls(t) == calls[t] < MaxCalls /\ calls' = [calls EXCEPT ![t] = @ + 1]
Enter(t) == kind # "none" /\ pc[t] = "idle" /\ Calls(t)

SEMP_MUTEX(t, k) ==
  /\ kind = "none" /\ pc[t] = "idle" /\ Calls(t)
  /\ kind' = k /\ owner' = NoTask /\ depth' = 0 /\ count' = 0
  /\ TOS' = [TOS EXCEPT ![t] = 0]
  /\ UNCHANGED <<pc, reg, held, foreign>>

\* malloc or the initialization of st->mux fails: the token is freed again.
SEMP_MUTEX_fails(t, ior) ==
  /\ kind = "none" /\ pc[t] = "idle" /\ Calls(t)
  /\ TOS' = [TOS EXCEPT ![t] = ior]
  /\ UNCHANGED <<kind, owner, depth, count, pc, reg, held, foreign>>

\* SEMP.DELETE frees the token, locked or not; a program deletes a mutex
\* nobody is using or going to give.
SEMP_DELETE(t) ==
  /\ kind # "none" /\ pc[t] = "idle" /\ Calls(t)
  /\ \A u \in Tasks : pc[u] \in {"idle", "dead"}
  /\ kind' = "none"
  /\ held' = [u \in Tasks |-> 0]
  /\ UNCHANGED <<owner, depth, count, pc, reg, TOS, foreign>>

Free(t) == owner = NoTask \/ (kind = "recursive" /\ owner = t)

\* The lock is obtained: a fast TAKE returns true, a recursive one goes on
\* to st->count++.
Lock(t) ==
  /\ Free(t)
  /\ owner' = t /\ depth' = depth + 1
  /\ IF kind = "recursive"
       THEN /\ pc' = [pc EXCEPT ![t] = "load_inc"]
            /\ UNCHANGED <<TOS, held>>
       ELSE /\ pc' = [pc EXCEPT ![t] = "idle"]
            /\ TOS' = [TOS EXCEPT ![t] = FTRUE]
            /\ held' = [held EXCEPT ![t] = @ + 1]
  /\ UNCHANGED <<kind, count, reg, foreign>>

\* Mutant of TryTake: EBUSY not told from success.
TryTakeBusy(t) ==
  /\ Enter(t)
  /\ \/ Lock(t)
     \/ /\ ~Free(t)
        /\ TOS' = [TOS EXCEPT ![t] = FTRUE]
        /\ held' = [held EXCEPT ![t] = @ + 1]
        /\ UNCHANGED <<kind, owner, depth, count, pc, reg, foreign>>

\* SEMP.TAKE with timeout 0: pthread_mutex_trylock.
TryTake(t) ==
  /\ Enter(t)
  /\ \/ Lock(t)
     \/ /\ ~Free(t)
        /\ TOS' = [TOS EXCEPT ![t] = FFALSE]
        /\ UNCHANGED <<kind, owner, depth, count, pc, reg, held, foreign>>

\* SEMP.TAKE with timeout < 0 (pthread_mutex_lock) or > 0 (timedlock).
Take(t, wait) ==
  /\ Enter(t)
  /\ \/ Lock(t)
     \/ /\ ~Free(t)
        /\ pc' = [pc EXCEPT ![t] = wait]
        /\ UNCHANGED <<kind, owner, depth, count, reg, TOS, held, foreign>>

Woken(t) == pc[t] \in waiting /\ Lock(t) /\ UNCHANGED calls

TimedOut(t) ==
  /\ pc[t] = "mutex_timedlock"
  /\ TOS' = [TOS EXCEPT ![t] = FFALSE]
  /\ pc' = [pc EXCEPT ![t] = "idle"]
  /\ UNCHANGED <<kind, owner, depth, count, reg, held, calls, foreign>>

\* st->count++ after the lock, st->count-- before the unlock: a load and a
\* store each.
Load(t) ==
  /\ pc[t] \in {"load_inc", "load_dec"}
  /\ reg' = [reg EXCEPT ![t] = count]
  /\ pc' = [pc EXCEPT ![t] = IF @ = "load_inc" THEN "store_inc" ELSE "store_dec"]
  /\ UNCHANGED <<kind, owner, depth, count, TOS, held, calls, foreign>>

StoreIncremented(t) ==
  /\ pc[t] = "store_inc"
  /\ count' = reg[t] + 1
  /\ TOS' = [TOS EXCEPT ![t] = FTRUE]
  /\ held' = [held EXCEPT ![t] = @ + 1]
  /\ reg' = [reg EXCEPT ![t] = 0]
  /\ pc' = [pc EXCEPT ![t] = "idle"]
  /\ UNCHANGED <<kind, owner, depth, calls, foreign>>

StoreDecremented(t) ==
  /\ pc[t] = "store_dec"
  /\ count' = reg[t] - 1
  /\ reg' = [reg EXCEPT ![t] = 0]
  /\ pc' = [pc EXCEPT ![t] = "unlock"]
  /\ UNCHANGED <<kind, owner, depth, TOS, held, calls, foreign>>

\* SEMP.GIVE of a mutex this task took.
Give(t) ==
  /\ kind # "none" /\ pc[t] = "idle" /\ held[t] > 0
  /\ held' = [held EXCEPT ![t] = @ - 1]
  /\ pc' = [pc EXCEPT ![t] = IF kind = "recursive" THEN "load_dec" ELSE "unlock"]
  /\ UNCHANGED <<kind, owner, depth, count, reg, TOS, calls, foreign>>

\* SEMP.GIVE of a mutex this task did not take: nothing refuses it.
GiveUntaken(t) ==
  /\ Enter(t) /\ held[t] = 0
  /\ foreign' = TRUE
  /\ pc' = [pc EXCEPT ![t] = IF kind = "recursive" THEN "load_dec" ELSE "unlock"]
  /\ UNCHANGED <<kind, owner, depth, count, reg, TOS, held>>

\* pthread_mutex_unlock: a recursive mutex refuses a thread that is not its
\* owner (the code ignores EPERM), a fast one is unlocked by anybody.
Unlocked(t) ==
  IF kind = "fast"
    THEN owner' = NoTask /\ depth' = 0
    ELSE IF owner = t
           THEN /\ depth' = depth - 1
                /\ owner' = IF depth = 1 THEN NoTask ELSE t
           ELSE UNCHANGED <<owner, depth>>

\* Mutants of Unlock: the owner dropped too early, and the last unlock of a
\* recursive mutex skipped.
UnlockEarly(t) ==
  /\ pc[t] = "unlock"
  /\ owner' = NoTask /\ depth' = IF depth > 0 THEN depth - 1 ELSE 0
  /\ pc' = [pc EXCEPT ![t] = "idle"]
  /\ UNCHANGED <<kind, count, reg, TOS, held, calls, foreign>>

UnlockButLast(t) ==
  /\ pc[t] = "unlock"
  /\ IF kind = "recursive" /\ count = 0 THEN UNCHANGED <<owner, depth>> ELSE Unlocked(t)
  /\ pc' = [pc EXCEPT ![t] = "idle"]
  /\ UNCHANGED <<kind, count, reg, TOS, held, calls, foreign>>

Unlock(t) ==
  /\ pc[t] = "unlock"
  /\ Unlocked(t)
  /\ pc' = [pc EXCEPT ![t] = "idle"]
  /\ UNCHANGED <<kind, count, reg, TOS, held, calls, foreign>>

\* Mutant of CountRecursive: answers st->count itself.
CountRecursiveSwapped(t) ==
  /\ kind = "recursive" /\ Enter(t)
  /\ TOS' = [TOS EXCEPT ![t] = count]
  /\ UNCHANGED <<kind, owner, depth, count, pc, reg, held, foreign>>

\* SEMP.COUNT@ of a recursive mutex reads st->count without the lock.
CountRecursive(t) ==
  /\ kind = "recursive" /\ Enter(t)
  /\ TOS' = [TOS EXCEPT ![t] = 1 - count]
  /\ UNCHANGED <<kind, owner, depth, count, pc, reg, held, foreign>>

\* SEMP.COUNT@ of a fast mutex locks it for a moment when it is free.
CountFast(t) ==
  /\ kind = "fast" /\ Enter(t)
  /\ IF owner = NoTask
       THEN /\ owner' = t /\ depth' = 1
            /\ TOS' = [TOS EXCEPT ![t] = 1]
            /\ pc' = [pc EXCEPT ![t] = "unlock"]
       ELSE /\ TOS' = [TOS EXCEPT ![t] = 0]
            /\ UNCHANGED <<owner, depth, pc>>
  /\ UNCHANGED <<kind, count, reg, held, foreign>>

\* TASK.CANCEL of t: asynchronous cancellation, what t locked stays locked.
Cancelled(t) ==
  /\ t \in Killable /\ pc[t] # "dead"
  /\ pc' = [pc EXCEPT ![t] = "dead"]
  /\ UNCHANGED <<kind, owner, depth, count, reg, TOS, held, calls, foreign>>

Running(t) ==
  \/ Woken(t) \/ TimedOut(t)
  \/ Load(t) \/ StoreIncremented(t) \/ StoreDecremented(t) \/ Unlock(t)

Next ==
  \E t \in Tasks :
    \/ \E k \in {"fast", "recursive"} : SEMP_MUTEX(t, k)
    \/ \E ior \in createErrors : SEMP_MUTEX_fails(t, ior)
    \/ SEMP_DELETE(t)
    \/ TryTake(t) \/ (\E w \in waiting : Take(t, w))
    \/ Give(t) \/ GiveUntaken(t)
    \/ CountRecursive(t) \/ CountFast(t)
    \/ Running(t) \/ Cancelled(t)

Spec == Init /\ [][Next]_vars

\* Threads keep running, a free mutex is obtained by one that keeps waiting
\* for it, and a program gives back what it took (mxt in t_multitask.fth).
FairSpec == Spec /\ \A t \in Tasks : WF_vars(Running(t)) /\ WF_vars(Give(t))

-----------------------------------------------------------------------------
TypeOK ==
  /\ kind \in {"none", "fast", "recursive"}
  /\ owner \in Tasks \cup {NoTask}
  /\ depth \in Nat /\ (owner = NoTask => depth = 0) /\ (owner # NoTask => depth > 0)
  /\ count \in Int
  /\ pc \in [Tasks -> {"idle", "dead"} \cup waiting \cup taking \cup giving]
  /\ reg \in [Tasks -> Int]
  /\ TOS \in [Tasks -> Int]
  /\ held \in [Tasks -> Nat] /\ foreign \in BOOLEAN
  /\ calls \in [Tasks -> 0 .. MaxCalls]

heldByOwner == \A t \in Tasks : held[t] > 0 => owner = t /\ depth >= held[t]

(* A task whose TAKE returned true and that has not given the mutex back   *)
(* is its owner: two tasks never hold it at once, not even while another   *)
(* task's COUNT@ probes it, or after a holder was cancelled, as long as    *)
(* tasks give only what they took.  A recursive mutex is not even taken    *)
(* away by a GIVE of another task: pthread_mutex_unlock refuses, though    *)
(* st->count has been changed already.                                     *)
HolderOwns ==
  /\ kind # "none" /\ ~foreign => heldByOwner
  /\ kind = "recursive" => heldByOwner

\* Between pthread_mutex_lock and the end of st->count++, and between
\* st->count-- and pthread_mutex_unlock, the counter is one behind.
behind == taking \cup {"unlock"}

(* "recursive mutex counter" (the comment on count in cfSemaphoreToken_t): *)
(* st->count is the number of times the owner has locked the mutex, but    *)
(* for the moment between the lock and the increment, or the decrement and *)
(* the unlock, although it is read and written without atomic operations.  *)
CounterIsDepth ==
  kind = "recursive" /\ ~foreign =>
    /\ owner = NoTask => count = 0
    /\ \A t \in Tasks : owner = t =>
         /\ pc[t] \in behind => depth = count + 1
         /\ pc[t] \notin behind \cup {"dead"} => depth = count
         /\ pc[t] = "dead" => count \in {depth - 1, depth}

(* SEMP.COUNT@ never answers "free" (1) while some task holds the mutex,   *)
(* although it looks at st->count without the lock.                        *)
heldLooksHeld(t) ==
  /\ CountRecursive(t) \/ CountFast(t)
  /\ ~foreign /\ \E u \in Tasks : held[u] > 0
  => TOS'[t] <= 0

HeldNeverLooksFree == \A t \in Tasks : heldLooksHeld(t)

(* SEMP.COUNT@ can be trusted: st->count is after every step the depth of  *)
(* the lock, and no probe answers free for a mutex that is held.           *)
CounterTells == [][CounterIsDepth' /\ HeldNeverLooksFree]_vars

(* A TAKE that waits gets the mutex if nobody is cancelled, gives what it  *)
(* did not take, or waits for a fast mutex it holds itself: probes by      *)
(* COUNT@ do not starve it, and a task that retakes a recursive mutex does *)
(* not block itself.                                                       *)
cooperative ==
  /\ ~foreign
  /\ \A t \in Tasks : pc[t] # "dead"
  /\ kind = "fast" => \A t \in Tasks : pc[t] = "mutex_lock" => owner # t

TakeReturns ==
  []cooperative => \A t \in Tasks : pc[t] = "mutex_lock" ~> pc[t] # "mutex_lock"
=============================================================================
