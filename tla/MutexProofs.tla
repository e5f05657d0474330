---------------------------- MODULE MutexProofs ----------------------------
(* Proofs about Mutex for every set of tasks and any number of calls.      *)
EXTENDS Mutex, TLAPS

(***************************************************************************)
(* The inductive invariant.  The owner has locked the mutex once for each  *)
(* TAKE it has not given back, and once more while it is between the lock  *)
(* and the unlock of a word; a task that is not the owner holds nothing    *)
(* and is not there.  A value of st->count somebody has loaded is current. *)
(***************************************************************************)
inside == taking \cup giving

OwnerDepth ==
  kind # "none" => \A t \in Tasks :
    /\ owner = t /\ pc[t] \in inside => depth = held[t] + 1
    /\ owner = t /\ pc[t] \notin inside \cup {"dead"} => depth = held[t]
    /\ owner = t => held[t] <= depth
    /\ owner # t => held[t] = 0 /\ pc[t] \notin inside

LoadedIsCurrent ==
  \A t \in Tasks : pc[t] \in {"store_inc", "store_dec"} => reg[t] = count

Quiet == kind = "none" =>
           \A t \in Tasks : pc[t] \in {"idle", "dead"} /\ held[t] = 0

KindOfPlace ==
  /\ kind = "fast" => depth \in {0, 1}
  /\ \A t \in Tasks : pc[t] \in taking \cup {"load_dec", "store_dec"} => kind = "recursive"

CounterCoversHeld ==
  kind = "recursive" => \A t \in Tasks : owner = t => held[t] <= count

(* What remains when tasks GIVE what they did not take: the owner of a     *)
(* recursive mutex is still the only one to hold it.                       *)
RecursiveOwner ==
  kind = "recursive" => \A t \in Tasks :
    /\ owner = t /\ pc[t] \in inside => depth = held[t] + 1
    /\ owner = t /\ pc[t] \notin inside \cup {"dead"} => depth = held[t]
    /\ owner = t => held[t] <= depth
    /\ owner # t => held[t] = 0 /\ pc[t] \notin taking

OwnersInv == OwnerDepth /\ LoadedIsCurrent /\ CounterCoversHeld

IInv ==
  /\ TypeOK /\ Quiet /\ KindOfPlace /\ RecursiveOwner /\ CounterIsDepth
  /\ ~foreign => OwnersInv

\* There is no mutex at the start.
LEMMA InitIInv == Init => IInv
<1> SUFFICES ASSUME Init PROVE IInv
  OBVIOUS
<1> USE MutexAssumption DEF Init
<1>1. TypeOK
  <2>1. /\ kind \in {"none", "fast", "recursive"}
        /\ owner \in Tasks \cup {NoTask}
        /\ depth \in Nat /\ (owner = NoTask => depth = 0) /\ (owner # NoTask => depth > 0)
        /\ count \in Int
    OBVIOUS
  <2>2. /\ pc \in [Tasks -> {"idle", "dead"} \cup waiting \cup taking \cup giving]
        /\ reg \in [Tasks -> Int] /\ held \in [Tasks -> Nat]
    OBVIOUS
  <2>4. foreign \in BOOLEAN
    OBVIOUS
  <2>3. TOS \in [Tasks -> Int] /\ calls \in [Tasks -> 0 .. MaxCalls]
    BY DEF FFALSE
  <2> QED
    BY <2>1, <2>2, <2>3, <2>4 DEF TypeOK
<1>2. Quiet /\ KindOfPlace
  BY DEF Quiet, KindOfPlace, taking
<1>3. RecursiveOwner /\ CounterIsDepth
  BY DEF RecursiveOwner, CounterIsDepth
<1>4. OwnersInv
  BY DEF OwnersInv, OwnerDepth, LoadedIsCurrent, CounterCoversHeld
<1> QED
  BY <1>1, <1>2, <1>3, <1>4 DEF IInv

\* Every step keeps the types.
LEMMA StepTypeOK == TypeOK /\ [Next]_vars => TypeOK'
<1> SUFFICES ASSUME TypeOK, [Next]_vars PROVE TypeOK'
  OBVIOUS
<1> USE MutexAssumption DEF TypeOK, FTRUE, FFALSE, THROW_ABORT, createErrors, taking, giving, waiting
<1>1. ASSUME NEW t \in Tasks, NEW k \in {"fast", "recursive"}, SEMP_MUTEX(t, k)
      PROVE  TypeOK'
  BY <1>1 DEF SEMP_MUTEX, Calls
<1>1a. ASSUME NEW t \in Tasks, NEW ior \in createErrors, SEMP_MUTEX_fails(t, ior)
       PROVE  TypeOK'
  BY <1>1a DEF SEMP_MUTEX_fails, Calls
<1>2. ASSUME NEW t \in Tasks, SEMP_DELETE(t)
      PROVE  TypeOK'
  BY <1>2 DEF SEMP_DELETE, Calls
<1>3. ASSUME NEW t \in Tasks, TryTake(t)
      PROVE  TypeOK'
  BY <1>3 DEF TryTake, Lock, Free, Enter, Calls
<1>4. ASSUME NEW t \in Tasks, NEW w \in waiting, Take(t, w)
      PROVE  TypeOK'
  BY <1>4 DEF Take, Lock, Free, Enter, Calls
<1>5. ASSUME NEW t \in Tasks, Give(t)
      PROVE  TypeOK'
  BY <1>5 DEF Give
<1>6. ASSUME NEW t \in Tasks, GiveUntaken(t)
      PROVE  TypeOK'
  BY <1>6 DEF GiveUntaken, Enter, Calls
<1>7. ASSUME NEW t \in Tasks, CountRecursive(t)
      PROVE  TypeOK'
  BY <1>7 DEF CountRecursive, Enter, Calls
<1>8. ASSUME NEW t \in Tasks, CountFast(t)
      PROVE  TypeOK'
  BY <1>8 DEF CountFast, Enter, Calls
<1>9. ASSUME NEW t \in Tasks, Woken(t)
      PROVE  TypeOK'
  BY <1>9 DEF Woken, Lock, Free
<1>10. ASSUME NEW t \in Tasks, TimedOut(t)
      PROVE  TypeOK'
  BY <1>10 DEF TimedOut
<1>11. ASSUME NEW t \in Tasks, Load(t)
      PROVE  TypeOK'
  BY <1>11 DEF Load
<1>12. ASSUME NEW t \in Tasks, StoreIncremented(t)
      PROVE  TypeOK'
  BY <1>12 DEF StoreIncremented
<1>13. ASSUME NEW t \in Tasks, StoreDecremented(t)
      PROVE  TypeOK'
  BY <1>13 DEF StoreDecremented
<1>14. ASSUME NEW t \in Tasks, Unlock(t)
      PROVE  TypeOK'
  BY <1>14 DEF Unlock, Unlocked
<1>15. ASSUME NEW t \in Tasks, Cancelled(t)
      PROVE  TypeOK'
  BY <1>15 DEF Cancelled
<1>16. CASE UNCHANGED vars
  BY <1>16 DEF vars
<1>17. QED
  BY <1>1, <1>1a, <1>2, <1>3, <1>4, <1>5, <1>6, <1>7, <1>8, <1>9, <1>10, <1>11, <1>12, <1>13, <1>14, <1>15, <1>16 DEF Next, Running

\* Every step keeps each kind of mutex to its own words.
LEMMA StepPlaces ==
  ASSUME TypeOK, Quiet, KindOfPlace, [Next]_vars
  PROVE  Quiet' /\ KindOfPlace'
<1> USE MutexAssumption DEF TypeOK, Quiet, KindOfPlace, taking, giving, waiting
<1>1. ASSUME NEW t \in Tasks, NEW k \in {"fast", "recursive"}, SEMP_MUTEX(t, k)
      PROVE  Quiet' /\ KindOfPlace'
  BY <1>1 DEF SEMP_MUTEX, Calls
<1>1a. ASSUME NEW t \in Tasks, NEW ior \in createErrors, SEMP_MUTEX_fails(t, ior)
       PROVE  Quiet' /\ KindOfPlace'
  BY <1>1a DEF SEMP_MUTEX_fails, Calls
<1>2. ASSUME NEW t \in Tasks, SEMP_DELETE(t)
      PROVE  Quiet' /\ KindOfPlace'
  BY <1>2 DEF SEMP_DELETE, Calls
<1>3. ASSUME NEW t \in Tasks, TryTake(t)
      PROVE  Quiet' /\ KindOfPlace'
  BY <1>3 DEF TryTake, Lock, Free, Enter, Calls
<1>4. ASSUME NEW t \in Tasks, NEW w \in waiting, Take(t, w)
      PROVE  Quiet' /\ KindOfPlace'
  BY <1>4 DEF Take, Lock, Free, Enter, Calls
<1>5. ASSUME NEW t \in Tasks, Give(t)
      PROVE  Quiet' /\ KindOfPlace'
  BY <1>5 DEF Give
<1>6. ASSUME NEW t \in Tasks, GiveUntaken(t)
      PROVE  Quiet' /\ KindOfPlace'
  BY <1>6 DEF GiveUntaken, Enter, Calls
<1>7. ASSUME NEW t \in Tasks, CountRecursive(t)
      PROVE  Quiet' /\ KindOfPlace'
  BY <1>7 DEF CountRecursive, Enter, Calls
<1>8. ASSUME NEW t \in Tasks, CountFast(t)
      PROVE  Quiet' /\ KindOfPlace'
  BY <1>8 DEF CountFast, Enter, Calls
<1>9. ASSUME NEW t \in Tasks, Woken(t)
      PROVE  Quiet' /\ KindOfPlace'
  BY <1>9 DEF Woken, Lock, Free
<1>10. ASSUME NEW t \in Tasks, TimedOut(t)
      PROVE  Quiet' /\ KindOfPlace'
  BY <1>10 DEF TimedOut
<1>11. ASSUME NEW t \in Tasks, Load(t)
      PROVE  Quiet' /\ KindOfPlace'
  BY <1>11 DEF Load
<1>12. ASSUME NEW t \in Tasks, StoreIncremented(t)
      PROVE  Quiet' /\ KindOfPlace'
  BY <1>12 DEF StoreIncremented
<1>13. ASSUME NEW t \in Tasks, StoreDecremented(t)
      PROVE  Quiet' /\ KindOfPlace'
  BY <1>13 DEF StoreDecremented
<1>14. ASSUME NEW t \in Tasks, Unlock(t)
      PROVE  Quiet' /\ KindOfPlace'
  BY <1>14 DEF Unlock, Unlocked
<1>15. ASSUME NEW t \in Tasks, Cancelled(t)
      PROVE  Quiet' /\ KindOfPlace'
  BY <1>15 DEF Cancelled
<1>16. CASE UNCHANGED vars
  BY <1>16 DEF vars
<1>17. QED
  BY <1>1, <1>1a, <1>2, <1>3, <1>4, <1>5, <1>6, <1>7, <1>8, <1>9, <1>10, <1>11, <1>12, <1>13, <1>14, <1>15, <1>16 DEF Next, Running

\* Steps that give only what was taken keep the owner's depth.
LEMMA StepOwner ==
  ASSUME TypeOK, Quiet, KindOfPlace, OwnerDepth, ~foreign', [Next]_vars
  PROVE  OwnerDepth'
<1> USE MutexAssumption
    DEF TypeOK, Quiet, KindOfPlace, OwnerDepth, taking, giving, waiting, inside
<1>1. ASSUME NEW t \in Tasks, NEW k \in {"fast", "recursive"}, SEMP_MUTEX(t, k)
      PROVE  OwnerDepth'
  BY <1>1 DEF SEMP_MUTEX, Calls
<1>1a. ASSUME NEW t \in Tasks, NEW ior \in createErrors, SEMP_MUTEX_fails(t, ior)
       PROVE  OwnerDepth'
  BY <1>1a DEF SEMP_MUTEX_fails, Calls
<1>2. ASSUME NEW t \in Tasks, SEMP_DELETE(t)
      PROVE  OwnerDepth'
  BY <1>2 DEF SEMP_DELETE, Calls
<1>3. ASSUME NEW t \in Tasks, TryTake(t)
      PROVE  OwnerDepth'
  BY <1>3 DEF TryTake, Lock, Free, Enter, Calls
<1>4. ASSUME NEW t \in Tasks, NEW w \in waiting, Take(t, w)
      PROVE  OwnerDepth'
  BY <1>4 DEF Take, Lock, Free, Enter, Calls
<1>5. ASSUME NEW t \in Tasks, Give(t)
      PROVE  OwnerDepth'
  BY <1>5 DEF Give
<1>6. ASSUME NEW t \in Tasks, GiveUntaken(t)
      PROVE  OwnerDepth'
  BY <1>6 DEF GiveUntaken, Enter, Calls
<1>7. ASSUME NEW t \in Tasks, CountRecursive(t)
      PROVE  OwnerDepth'
  BY <1>7 DEF CountRecursive, Enter, Calls
<1>8. ASSUME NEW t \in Tasks, CountFast(t)
      PROVE  OwnerDepth'
  BY <1>8 DEF CountFast, Enter, Calls
<1>9. ASSUME NEW t \in Tasks, Woken(t)
      PROVE  OwnerDepth'
  BY <1>9 DEF Woken, Lock, Free
<1>10. ASSUME NEW t \in Tasks, TimedOut(t)
      PROVE  OwnerDepth'
  BY <1>10 DEF TimedOut
<1>11. ASSUME NEW t \in Tasks, Load(t)
      PROVE  OwnerDepth'
  BY <1>11 DEF Load
<1>12. ASSUME NEW t \in Tasks, StoreIncremented(t)
      PROVE  OwnerDepth'
  BY <1>12 DEF StoreIncremented
<1>13. ASSUME NEW t \in Tasks, StoreDecremented(t)
      PROVE  OwnerDepth'
  BY <1>13 DEF StoreDecremented
<1>14. ASSUME NEW t \in Tasks, Unlock(t)
      PROVE  OwnerDepth'
  BY <1>14 DEF Unlock, Unlocked
<1>15. ASSUME NEW t \in Tasks, Cancelled(t)
      PROVE  OwnerDepth'
  BY <1>15 DEF Cancelled
<1>16. CASE UNCHANGED vars
  BY <1>16 DEF vars
<1>17. QED
  BY <1>1, <1>1a, <1>2, <1>3, <1>4, <1>5, <1>6, <1>7, <1>8, <1>9, <1>10, <1>11, <1>12, <1>13, <1>14, <1>15, <1>16 DEF Next, Running

\* Every step keeps a recursive mutex with its owner.
LEMMA StepRecursiveOwner ==
  ASSUME TypeOK, Quiet, KindOfPlace, RecursiveOwner, [Next]_vars
  PROVE  RecursiveOwner'
<1> USE MutexAssumption
    DEF TypeOK, Quiet, KindOfPlace, RecursiveOwner, taking, giving, waiting, inside
<1>1. ASSUME NEW t \in Tasks, NEW k \in {"fast", "recursive"}, SEMP_MUTEX(t, k)
      PROVE  RecursiveOwner'
  BY <1>1 DEF SEMP_MUTEX, Calls
<1>1a. ASSUME NEW t \in Tasks, NEW ior \in createErrors, SEMP_MUTEX_fails(t, ior)
       PROVE  RecursiveOwner'
  BY <1>1a DEF SEMP_MUTEX_fails, Calls
<1>2. ASSUME NEW t \in Tasks, SEMP_DELETE(t)
      PROVE  RecursiveOwner'
  BY <1>2 DEF SEMP_DELETE, Calls
<1>3. ASSUME NEW t \in Tasks, TryTake(t)
      PROVE  RecursiveOwner'
  BY <1>3 DEF TryTake, Lock, Free, Enter, Calls
<1>4. ASSUME NEW t \in Tasks, NEW w \in waiting, Take(t, w)
      PROVE  RecursiveOwner'
  BY <1>4 DEF Take, Lock, Free, Enter, Calls
<1>5. ASSUME NEW t \in Tasks, Give(t)
      PROVE  RecursiveOwner'
  BY <1>5 DEF Give
<1>6. ASSUME NEW t \in Tasks, GiveUntaken(t)
      PROVE  RecursiveOwner'
  BY <1>6 DEF GiveUntaken, Enter, Calls
<1>7. ASSUME NEW t \in Tasks, CountRecursive(t)
      PROVE  RecursiveOwner'
  BY <1>7 DEF CountRecursive, Enter, Calls
<1>8. ASSUME NEW t \in Tasks, CountFast(t)
      PROVE  RecursiveOwner'
  BY <1>8 DEF CountFast, Enter, Calls
<1>9. ASSUME NEW t \in Tasks, Woken(t)
      PROVE  RecursiveOwner'
  BY <1>9 DEF Woken, Lock, Free
<1>10. ASSUME NEW t \in Tasks, TimedOut(t)
      PROVE  RecursiveOwner'
  BY <1>10 DEF TimedOut
<1>11. ASSUME NEW t \in Tasks, Load(t)
      PROVE  RecursiveOwner'
  BY <1>11 DEF Load
<1>12. ASSUME NEW t \in Tasks, StoreIncremented(t)
      PROVE  RecursiveOwner'
  BY <1>12 DEF StoreIncremented
<1>13. ASSUME NEW t \in Tasks, StoreDecremented(t)
      PROVE  RecursiveOwner'
  BY <1>13 DEF StoreDecremented
<1>14. ASSUME NEW t \in Tasks, Unlock(t)
      PROVE  RecursiveOwner'
  BY <1>14 DEF Unlock, Unlocked
<1>15. ASSUME NEW t \in Tasks, Cancelled(t)
      PROVE  RecursiveOwner'
  BY <1>15 DEF Cancelled
<1>16. CASE UNCHANGED vars
  BY <1>16 DEF vars
<1>17. QED
  BY <1>1, <1>1a, <1>2, <1>3, <1>4, <1>5, <1>6, <1>7, <1>8, <1>9, <1>10, <1>11, <1>12, <1>13, <1>14, <1>15, <1>16 DEF Next, Running

\* Steps that give only what was taken keep the counter current.
LEMMA StepCounter ==
  ASSUME TypeOK, OwnerDepth, KindOfPlace, Quiet, LoadedIsCurrent, CounterIsDepth,
         CounterCoversHeld, ~foreign, ~foreign', [Next]_vars
  PROVE  LoadedIsCurrent' /\ CounterIsDepth' /\ CounterCoversHeld'
<1> USE MutexAssumption
    DEF TypeOK, OwnerDepth, KindOfPlace, Quiet, LoadedIsCurrent, CounterIsDepth,
        CounterCoversHeld, taking, giving, waiting, inside, behind
<1>1. ASSUME NEW t \in Tasks, NEW k \in {"fast", "recursive"}, SEMP_MUTEX(t, k)
      PROVE  LoadedIsCurrent' /\ CounterIsDepth' /\ CounterCoversHeld'
  BY <1>1 DEF SEMP_MUTEX, Calls
<1>1a. ASSUME NEW t \in Tasks, NEW ior \in createErrors, SEMP_MUTEX_fails(t, ior)
       PROVE  LoadedIsCurrent' /\ CounterIsDepth' /\ CounterCoversHeld'
  BY <1>1a DEF SEMP_MUTEX_fails, Calls
<1>2. ASSUME NEW t \in Tasks, SEMP_DELETE(t)
      PROVE  LoadedIsCurrent' /\ CounterIsDepth' /\ CounterCoversHeld'
  BY <1>2 DEF SEMP_DELETE, Calls
<1>3. ASSUME NEW t \in Tasks, TryTake(t)
      PROVE  LoadedIsCurrent' /\ CounterIsDepth' /\ CounterCoversHeld'
  BY <1>3 DEF TryTake, Lock, Free, Enter, Calls
<1>4. ASSUME NEW t \in Tasks, NEW w \in waiting, Take(t, w)
      PROVE  LoadedIsCurrent' /\ CounterIsDepth' /\ CounterCoversHeld'
  BY <1>4 DEF Take, Lock, Free, Enter, Calls
<1>5. ASSUME NEW t \in Tasks, Give(t)
      PROVE  LoadedIsCurrent' /\ CounterIsDepth' /\ CounterCoversHeld'
  BY <1>5 DEF Give
<1>6. ASSUME NEW t \in Tasks, GiveUntaken(t)
      PROVE  LoadedIsCurrent' /\ CounterIsDepth' /\ CounterCoversHeld'
  BY <1>6 DEF GiveUntaken, Enter, Calls
<1>7. ASSUME NEW t \in Tasks, CountRecursive(t)
      PROVE  LoadedIsCurrent' /\ CounterIsDepth' /\ CounterCoversHeld'
  BY <1>7 DEF CountRecursive, Enter, Calls
<1>8. ASSUME NEW t \in Tasks, CountFast(t)
      PROVE  LoadedIsCurrent' /\ CounterIsDepth' /\ CounterCoversHeld'
  BY <1>8 DEF CountFast, Enter, Calls
<1>9. ASSUME NEW t \in Tasks, Woken(t)
      PROVE  LoadedIsCurrent' /\ CounterIsDepth' /\ CounterCoversHeld'
  BY <1>9 DEF Woken, Lock, Free
<1>10. ASSUME NEW t \in Tasks, TimedOut(t)
      PROVE  LoadedIsCurrent' /\ CounterIsDepth' /\ CounterCoversHeld'
  BY <1>10 DEF TimedOut
<1>11. ASSUME NEW t \in Tasks, Load(t)
      PROVE  LoadedIsCurrent' /\ CounterIsDepth' /\ CounterCoversHeld'
  BY <1>11 DEF Load
<1>12. ASSUME NEW t \in Tasks, StoreIncremented(t)
      PROVE  LoadedIsCurrent' /\ CounterIsDepth' /\ CounterCoversHeld'
  BY <1>12 DEF StoreIncremented
<1>13. ASSUME NEW t \in Tasks, StoreDecremented(t)
      PROVE  LoadedIsCurrent' /\ CounterIsDepth' /\ CounterCoversHeld'
  BY <1>13 DEF StoreDecremented
<1>14. ASSUME NEW t \in Tasks, Unlock(t)
      PROVE  LoadedIsCurrent' /\ CounterIsDepth' /\ CounterCoversHeld'
  BY <1>14 DEF Unlock, Unlocked
<1>15. ASSUME NEW t \in Tasks, Cancelled(t)
      PROVE  LoadedIsCurrent' /\ CounterIsDepth' /\ CounterCoversHeld'
  BY <1>15 DEF Cancelled
<1>16. CASE UNCHANGED vars
  BY <1>16 DEF vars
<1>17. QED
  BY <1>1, <1>1a, <1>2, <1>3, <1>4, <1>5, <1>6, <1>7, <1>8, <1>9, <1>10, <1>11, <1>12, <1>13, <1>14, <1>15, <1>16 DEF Next, Running

\* A GIVE of what was not taken is remembered.
LEMMA ForeignStays == TypeOK /\ [Next]_vars /\ foreign => foreign'
BY MutexAssumption
   DEF TypeOK, Next, Running, vars, SEMP_MUTEX, SEMP_MUTEX_fails, SEMP_DELETE, TryTake, Take, Lock, Give,
       GiveUntaken, CountRecursive, CountFast, Woken, TimedOut, Load, StoreIncremented,
       StoreDecremented, Unlock, Cancelled

\* The inductive invariant holds.
LEMMA Inductive == Spec => []IInv
<1>1. IInv /\ [Next]_vars => IInv'
  <2> SUFFICES ASSUME IInv, [Next]_vars
               PROVE  IInv'
    OBVIOUS
  <2>1. TypeOK' /\ Quiet' /\ KindOfPlace' /\ RecursiveOwner'
    BY StepTypeOK, StepPlaces, StepRecursiveOwner DEF IInv
  <2>2. CASE foreign'
    BY <2>1, <2>2 DEF IInv, CounterIsDepth
  <2>3. CASE ~foreign'
    <3>1. ~foreign
      BY <2>3, ForeignStays DEF IInv
    <3>2. OwnersInv' /\ CounterIsDepth'
      BY <2>3, <3>1, StepOwner, StepCounter DEF IInv, OwnersInv
    <3>3. QED
      BY <2>1, <3>2 DEF IInv
  <2>4. QED
    BY <2>2, <2>3
<1>2. QED
  BY <1>1, InitIInv, PTL DEF Spec

(* The variables keep their types: in particular the mutex has an owner    *)
(* exactly while its depth is positive, and a task never gives back more   *)
(* than it took.                                                           *)
THEOREM TypeCorrect == Spec => []TypeOK
<1>1. IInv => TypeOK
  BY DEF IInv
<1>2. QED
  BY <1>1, Inductive, PTL

(* A task holds the mutex exactly while it owns it, whatever the others do *)
(* (probe it with COUNT@, time out, are cancelled): mutual exclusion.  A   *)
(* recursive mutex keeps its owner even when others GIVE it.               *)
THEOREM MutualExclusion == Spec => []HolderOwns
<1>1. IInv => HolderOwns
  <2>1. IInv /\ kind # "none" /\ ~foreign => heldByOwner
    BY DEF IInv, OwnersInv, OwnerDepth, heldByOwner
  <2>2. IInv /\ kind = "recursive" => heldByOwner
    BY DEF IInv, RecursiveOwner, heldByOwner
  <2>3. QED
    BY <2>1, <2>2 DEF HolderOwns
<1>2. QED
  BY <1>1, Inductive, PTL

(* st->count is the owner's lock count although its increments and         *)
(* decrements are not atomic: only the owner writes it.                    *)
LEMMA CounterCorrect == Spec => []CounterIsDepth
<1>1. IInv => CounterIsDepth
  BY DEF IInv
<1>2. QED
  BY <1>1, Inductive, PTL

(* COUNT@ of a mutex some task holds never answers 1, though it reads the  *)
(* counter without the lock.                                               *)
LEMMA HeldLooksHeld == Spec => [][HeldNeverLooksFree]_vars
<1>1. IInv /\ [Next]_vars => [HeldNeverLooksFree]_vars
  <2> SUFFICES ASSUME IInv, ~foreign, NEW t \in Tasks, NEW u \in Tasks, held[u] > 0,
                      CountRecursive(t) \/ CountFast(t)
               PROVE  TOS'[t] <= 0
    BY DEF vars, heldLooksHeld, HeldNeverLooksFree
  <2>0. OwnersInv
    BY DEF IInv
  <2>1. CASE CountRecursive(t)
    <3>1. kind = "recursive" /\ TOS'[t] = 1 - count /\ owner = u
      BY <2>0, <2>1 DEF CountRecursive, IInv, TypeOK, OwnersInv, OwnerDepth
    <3>2. QED
      BY <2>0, <3>1 DEF IInv, TypeOK, OwnersInv, CounterCoversHeld
  <2>2. CASE CountFast(t)
    BY <2>0, <2>2, MutexAssumption DEF CountFast, Enter, IInv, TypeOK, OwnersInv, OwnerDepth
  <2>3. QED
    BY <2>1, <2>2
<1>2. QED
  BY <1>1, Inductive, PTL DEF Spec

(* The counter of a recursive mutex is the depth of its owner, and COUNT@, *)
(* which reads it without the lock, never answers free for a mutex held.   *)
THEOREM CounterTellsDepth == Spec => CounterTells
<1>1. CounterIsDepth' /\ [HeldNeverLooksFree]_vars => [CounterIsDepth' /\ HeldNeverLooksFree]_vars
  OBVIOUS
<1>2. QED
  BY <1>1, CounterCorrect, HeldLooksHeld, PTL DEF CounterTells
=============================================================================
