----------------------------- MODULE TaskProofs -----------------------------
(* Proofs about TaskLifecycle for any stacks, exceptions and bounds, and   *)
(* about Notify for any number of notifiers, any width of the value and    *)
(* any bounds.                                                             *)
EXTENDS TaskLifecycle, Notify, SequenceTheorems, WellFoundedInduction, TLAPS

Live == tt = "live" /\ pt = "live"
Gone == tt = "freed" /\ pt = "freed"

(***************************************************************************)
(* The inductive invariant.  Whose turn it is to free the two structures   *)
(* follows from where the creator is: until it joins, cancels or detaches, *)
(* the thread has not begun to clean up (DETACH is not in the flags);      *)
(* once it has detached, from where the thread is.                         *)
(***************************************************************************)
NotStarted ==
  pc \in {"start", "failed", "crashed", "create"} =>
    /\ thread = "none" /\ pthread = "none" /\ flags = {} /\ ~cancel
    /\ pc \in {"start", "create"} => pt = "none"
    /\ pc = "create" => tt = "live"

\* TASK.DONE? joins the thread when it answers true for the first time.
Attached ==
  pc \in {"init", "open", "join", "joined", "cancel", "lost"} =>
    /\ Live /\ thread \notin {"none", "cleanup", "cleanup2"}
    /\ flags \subseteq {"DONE"} /\ pthread \in {"joinable", "joined"}
    /\ flags # {} => pthread = "joined"
    /\ pthread = "joined" => thread = "exited" /\ (flags = {"DONE"} \/ pc = "joined")
    /\ cancel => pc = "cancel"
    /\ pc = "init" => flags = {}
    /\ pc \in {"init", "join"} => pthread = "joinable"
    /\ pc = "joined" => pthread = "joined"

\* A thread that ended before the flag was set leaves both structures.
Detached ==
  "DETACH" \in flags =>
    /\ pc \in {"detach", "closed"} /\ thread # "none" /\ ~cancel
    /\ thread \in {"created", "body", "notified", "check", "cleanup"} => Live
    /\ thread = "cleanup2" => tt = "live" /\ pt = "freed"
    /\ pthread = "joined" => thread = "exited" /\ "DONE" \in flags

Closed ==
  /\ pc = "detach" => "DETACH" \in flags
  /\ pc = "closed" /\ "DETACH" \notin flags => Gone /\ thread = "exited"

\* The arguments are on the task's stack until its word starts, and what
\* TASK leaves of the creator's stack is there until TASK.JOIN.
Arguments ==
  /\ pc = "start" => ds = before
  /\ pc \in {"create", "init", "open", "join", "joined"} => ds = kept
  /\ pc = "create" => stk = SubSeq(before, 1, passed)
  /\ thread = "created" => stk = <<XT>> \o SubSeq(before, 1, passed)

\* Where the end of the word has put its result, and who has taken it over.
ResultOnStack ==
  /\ thread \in {"check", "cleanup", "cleanup2"} => stk = result.cells
  /\ pc \in {"init", "open", "join"} /\ thread = "exited" /\ pthread = "joinable" =>
       stk = result.cells
  /\ pc \in {"open", "joined"} /\ pthread = "joined" =>
       stk = <<result.excp>> \o result.cells
  /\ pc \in {"init", "open", "join", "joined"} /\ thread \in {"check", "exited"} =>
       (result.excp = 0 => asked <= Len(result.cells))

ResultType == result \in [excp : Exceptions \cup {0, CANCELED}, cells : Stacks]

NoOtherFault ==
  /\ faults \subseteq notifyFaults \cup noMemory \cup {detachFault, staleId}
  /\ staleId \in faults => "DONE" \in flags /\ (cancel \/ pc = "lost" \/ "DETACH" \in flags)

Places == NotStarted /\ Attached /\ Detached /\ Closed

IInv == TypeOK /\ ResultType /\ Places /\ Arguments /\ ResultOnStack /\ NoOtherFault

-----------------------------------------------------------------------------
(* Stacks.                                                                 *)

\* A stack of at most MaxArgs cells is a sequence.
LEMMA StackType ==
  ASSUME NEW s \in Stacks
  PROVE  s \in Seq(Cells) /\ Len(s) \in 0 .. MaxArgs
<1>1. PICK m \in 0 .. MaxArgs : s \in [1 .. m -> Cells]
  BY DEF Stacks, SeqOf
<1>2. m \in Nat
  BY LifecycleAssumption
<1> QED
  BY <1>1, <1>2

\* The top of a stack is one, too.
LEMMA TopOfStack ==
  ASSUME NEW s \in Stacks, NEW n \in 0 .. Len(s)
  PROVE  SubSeq(s, 1, n) \in Stacks
<1>1. s \in Seq(Cells) /\ Len(s) \in 0 .. MaxArgs
  BY StackType
<1>2. SubSeq(s, 1, n) \in Seq(Cells) /\ Len(SubSeq(s, 1, n)) = n
  BY <1>1
<1>3. SubSeq(s, 1, n) \in [1 .. n -> Cells]
  BY <1>2, LenProperties
<1>4. n \in 0 .. MaxArgs
  BY <1>1, LifecycleAssumption
<1> QED
  BY <1>3, <1>4 DEF Stacks, SeqOf

\* A cell pushed is the one popped, and the rest is as before.
LEMMA PushPop ==
  ASSUME NEW s \in Stacks, NEW e
  PROVE  Head(<<e>> \o s) = e /\ Tail(<<e>> \o s) = s /\ Len(<<e>> \o s) = Len(s) + 1
<1> DEFINE S == Cells \cup {e}
           p == <<e>> \o s
<1>1. s \in Seq(S) /\ <<e>> \in Seq(S) /\ Len(s) \in Nat
  BY StackType
<1>2. /\ p \in Seq(S) /\ Len(p) = Len(s) + 1 /\ p[1] = e
      /\ \A i \in 1 .. Len(s) : p[i + 1] = s[i]
  BY <1>1
<1>3. Head(p) = e
  BY <1>1, <1>2
<1>4. /\ Tail(p) \in Seq(S) /\ Len(Tail(p)) = Len(s)
      /\ \A i \in 1 .. Len(s) : Tail(p)[i] = s[i]
  BY <1>1, <1>2
<1>5. Tail(p) = s
  BY <1>1, <1>4, SeqEqual
<1> QED
  BY <1>2, <1>3, <1>5

-----------------------------------------------------------------------------
(* Initial states and steps.                                               *)

\* At the start there is neither a task token nor a thread.
LEMMA InitIInv == Init => IInv
<1> SUFFICES ASSUME Init PROVE IInv
  OBVIOUS
<1> USE LifecycleAssumption DEF Init
<1>1. <<>> \in Stacks /\ ds \in Seq(Cells)
  <2>1. <<>> \in Stacks
    BY DEF Stacks, SeqOf
  <2>2. ds \in Seq(Cells)
    BY StackType
  <2> QED
    BY <2>1, <2>2
<1>2. TypeOK
  <2>1. result.excp \in Exceptions \cup {0, CANCELED} /\ result.cells \in Stacks
    BY <1>1
  <2>2. /\ ret \in Int /\ polls \in 0 .. MaxPolls
        /\ before \in Stacks /\ passed \in 0 .. Len(before) /\ asked \in 0 .. MaxArgs
    OBVIOUS
  <2>3. done \in BOOLEAN /\ cancel \in BOOLEAN
    OBVIOUS
  <2>4. pc = "start" /\ tt = "none" /\ pt = "none" /\ flags = {} /\ notify = "raw"
        /\ thread = "none" /\ pthread = "none"
    OBVIOUS
  <2> HIDE DEF Init
  <2> QED
    BY <1>1, <2>1, <2>2, <2>3, <2>4 DEF TypeOK
<1>3. ResultType
  BY <1>1 DEF ResultType
<1>4. Places
  BY DEF Places, NotStarted, Attached, Detached, Closed
<1>5. Arguments /\ ResultOnStack /\ NoOtherFault
  BY DEF Arguments, ResultOnStack, NoOtherFault, staleId
<1> QED
  BY <1>2, <1>3, <1>4, <1>5 DEF IInv

\* What the task gets of its creator's stack, and what is left there.
LEMMA ArgumentsMove ==
  ASSUME TypeOK, pc = "start" => ds = before, ffTaskNew, pc' = "create"
  PROVE  /\ ds' = SubSeq(before, passed + 1, Len(before)) /\ ds' \in Seq(Cells)
         /\ stk' = SubSeq(before, 1, passed)
<1>1. pc = "start" /\ ds = before
  BY DEF ffTaskNew
<1>2. before \in Seq(Cells) /\ passed \in 0 .. Len(before) /\ Len(before) \in Nat
  BY StackType DEF TypeOK
<1>3. SubSeq(before, 1, passed) \in Seq(Cells)
  BY <1>2, TopOfStack, StackType DEF TypeOK
<1>4. SubSeq(before, 1, passed) \o <<>> = SubSeq(before, 1, passed)
  BY <1>3
<1>5. SubSeq(before, passed + 1, Len(before)) \in Seq(Cells)
  BY <1>2
<1>6. ds' = SubSeq(ds, passed + 1, Len(ds)) /\ stk' = SubSeq(ds, 1, passed) \o <<>>
  BY DEF ffTaskNew, ffStack2Stack
<1> QED
  BY <1>1, <1>4, <1>5, <1>6

\* What TASK.JOIN finds on the task's stack, and what it leaves.
LEMMA JoinMoves ==
  ASSUME TypeOK, ResultType, ResultOnStack, Places, ffTaskJoin
  PROVE  /\ result.cells \in Stacks /\ result.excp = 0 => asked \in 0 .. Len(result.cells)
         /\ ret' = result.excp
         /\ ds' = IF result.excp = 0 THEN SubSeq(result.cells, 1, asked) \o ds ELSE ds
<1>1. /\ pc = "joined" /\ stk = <<result.excp>> \o result.cells
      /\ result.excp = 0 => asked <= Len(result.cells)
  BY DEF ffTaskJoin, ResultOnStack, Places, Attached
<1>2. result.cells \in Stacks /\ Len(result.cells) \in Nat
  BY StackType DEF ResultType
<1>3. Head(stk) = result.excp /\ Tail(stk) = result.cells
  BY <1>1, <1>2, PushPop
<1>4. /\ ret' = Head(stk)
      /\ ds' = IF Head(stk) = 0 THEN SubSeq(Tail(stk), 1, asked) \o ds ELSE ds
  BY DEF ffTaskJoin, ffStack2Stack
<1>5. result.excp = 0 => asked \in 0 .. Len(result.cells)
  BY <1>1, <1>2, LifecycleAssumption DEF TypeOK
<1> QED
  BY <1>2, <1>3, <1>4, <1>5

\* Every step keeps the types.
LEMMA StepTypes ==
  ASSUME TypeOK, ResultType, ResultOnStack, Places, Arguments, [Next]_vars
  PROVE  TypeOK' /\ ResultType'
<1> USE LifecycleAssumption DEF TypeOK, ResultType, Fault, Freed, call, creator, memory, child
<1>1. CASE ffTaskNew
  <2>1. ds' \in Seq(Cells)
    <3>1. CASE pc' = "create"
      BY <1>1, <3>1, ArgumentsMove DEF Arguments
    <3>2. CASE pc' # "create"
      BY <1>1, <3>2 DEF ffTaskNew
    <3> QED
      BY <3>1, <3>2
  <2>2. ret' \in Int
    BY <1>1 DEF ffTaskNew, ALLOCATE_THROW
  <2>3. /\ pc' \in {"failed", "crashed", "create"}
        /\ tt' \in {tt, "live"} /\ flags' \in {flags, {}}
        /\ UNCHANGED <<pt, call, done, polls, notify, child, pthread, cancel>>
    BY <1>1 DEF ffTaskNew
  <2>4. ResultType' /\ done' \in BOOLEAN /\ cancel' \in BOOLEAN
    BY <2>3
  <2> QED
    BY <2>1, <2>2, <2>3, <2>4
<1>2. CASE pthread_create
  BY <1>2 DEF pthread_create, THROW_ABORT
<1>3. CASE initNotify
  BY <1>3 DEF initNotify
<1>4. CASE TASK_ISDONE
  <2>1. polls' \in 0 .. MaxPolls
    BY <1>4 DEF TASK_ISDONE
  <2>2. done' \in BOOLEAN /\ flags' \subseteq {"DETACH", "DONE"} /\ pthread' \in {pthread, "joined"}
    BY <1>4 DEF TASK_ISDONE
  <2> QED
    BY <1>4, <2>1, <2>2 DEF TASK_ISDONE
<1>5. CASE JoinBegin
  BY <1>5 DEF JoinBegin
<1>6. CASE pthread_join
  BY <1>6 DEF pthread_join, THROW_ABORT
<1>7. CASE ffTaskJoin
  <2>1. /\ result.cells \in Stacks /\ result.excp = 0 => asked \in 0 .. Len(result.cells)
        /\ ret' = result.excp
        /\ ds' = IF result.excp = 0 THEN SubSeq(result.cells, 1, asked) \o ds ELSE ds
    BY <1>7, JoinMoves
  <2>2. result.excp = 0 => SubSeq(result.cells, 1, asked) \in Seq(Cells)
    BY <2>1, TopOfStack, StackType
  <2>3. ret' \in Int
    BY <2>1 DEF CANCELED
  <2>4. ds' \in Seq(Cells)
    <3>1. \A s \in Seq(Cells) : s \o ds \in Seq(Cells)
      BY ConcatProperties
    <3> QED
      BY <2>1, <2>2, <3>1
  <2> QED
    BY <1>7, <2>3, <2>4 DEF ffTaskJoin
<1>8. CASE CancelBegin
  <2>1. pc' \in {"cancel", "lost"} /\ notify' \in {notify, "destroyed"}
    BY <1>8 DEF CancelBegin
  <2>2. cancel' \in BOOLEAN
    BY <1>8, Zenon DEF CancelBegin
  <2>3. UNCHANGED <<ds, call, ret, done, polls, tt, pt, flags, child, pthread>>
    BY <1>8 DEF CancelBegin
  <2> QED
    BY <2>1, <2>2, <2>3
<1>9. CASE CancelJoin
  BY <1>9 DEF CancelJoin
<1>10. CASE DetachFlag
  BY <1>10 DEF DetachFlag
<1>11. CASE pthread_detach
  BY <1>11 DEF pthread_detach
<1>12. CASE BodyStart
  BY <1>12 DEF BodyStart
<1>13. CASE NotifyEnter
  BY <1>13 DEF NotifyEnter
<1>14. CASE NotifyLeave
  BY <1>14 DEF NotifyLeave
<1>15. ASSUME NEW e \in Exceptions \cup {0}, NEW cells \in Stacks, BodyEnd(e, cells)
      PROVE  TypeOK' /\ ResultType'
  BY <1>15 DEF BodyEnd
<1>16. CASE CheckDetached
  BY <1>16 DEF CheckDetached
<1>17. CASE FreeDriverData
  BY <1>17 DEF FreeDriverData
<1>18. CASE FreeTask
  BY <1>18 DEF FreeTask
<1>19. CASE CancelAct
  BY <1>19 DEF CancelAct
<1>20. CASE UNCHANGED vars
  BY <1>20 DEF vars
<1> QED
  BY <1>1, <1>2, <1>3, <1>4, <1>5, <1>6, <1>7, <1>8, <1>9, <1>10,
     <1>11, <1>12, <1>13, <1>14, <1>15, <1>16, <1>17, <1>18, <1>19, <1>20
     DEF Next, Creating, Ending, Cleaning, Body

\* Every step leaves creator and thread where the structures are theirs.
LEMMA StepPlaces ==
  ASSUME TypeOK, Places, [Next]_vars
  PROVE  Places'
<1> USE DEF TypeOK, Places, NotStarted, Attached, Detached, Closed, Live, Gone,
        Fault, Freed, call, creator, memory, child
<1>1. CASE ffTaskNew
  BY <1>1 DEF ffTaskNew, ffStack2Stack
<1>2. CASE pthread_create
  BY <1>2 DEF pthread_create
<1>3. CASE initNotify
  BY <1>3 DEF initNotify
<1>4. CASE TASK_ISDONE
  BY <1>4 DEF TASK_ISDONE
<1>5. CASE JoinBegin
  BY <1>5 DEF JoinBegin
<1>6. CASE pthread_join
  BY <1>6 DEF pthread_join
<1>7. CASE ffTaskJoin
  BY <1>7 DEF ffTaskJoin, ffStack2Stack
<1>8. CASE CancelBegin
  BY <1>8 DEF CancelBegin
<1>9. CASE CancelJoin
  BY <1>9 DEF CancelJoin
<1>10. CASE DetachFlag
  BY <1>10 DEF DetachFlag
<1>11. CASE pthread_detach
  BY <1>11 DEF pthread_detach
<1>12. CASE BodyStart
  BY <1>12 DEF BodyStart
<1>13. CASE NotifyEnter
  BY <1>13 DEF NotifyEnter
<1>14. CASE NotifyLeave
  BY <1>14 DEF NotifyLeave
<1>15. ASSUME NEW e \in Exceptions \cup {0}, NEW cells \in Stacks, BodyEnd(e, cells)
      PROVE  Places'
  BY <1>15 DEF BodyEnd
<1>16. CASE CheckDetached
  BY <1>16 DEF CheckDetached
<1>17. CASE FreeDriverData
  BY <1>17 DEF FreeDriverData
<1>18. CASE FreeTask
  BY <1>18 DEF FreeTask
<1>19. CASE CancelAct
  BY <1>19 DEF CancelAct
<1>20. CASE UNCHANGED vars
  BY <1>20 DEF vars
<1> QED
  BY <1>1, <1>2, <1>3, <1>4, <1>5, <1>6, <1>7, <1>8, <1>9, <1>10,
     <1>11, <1>12, <1>13, <1>14, <1>15, <1>16, <1>17, <1>18, <1>19, <1>20
     DEF Next, Creating, Ending, Cleaning, Body

\* Every step keeps the arguments where the word and TASK.JOIN look for them.
LEMMA StepArguments ==
  ASSUME TypeOK, Places, Arguments, [Next]_vars
  PROVE  Arguments'
<1> USE DEF TypeOK, Places, NotStarted, Attached, Detached, Closed, Arguments, kept,
        Fault, Freed, call, creator, memory, child
<1>1. CASE ffTaskNew
  <2>1. CASE pc' = "create"
    BY <1>1, <2>1, ArgumentsMove DEF ffTaskNew
  <2>2. CASE pc' # "create"
    BY <1>1, <2>2 DEF ffTaskNew
  <2> QED
    BY <2>1, <2>2
<1>2. CASE pthread_create
  BY <1>2 DEF pthread_create
<1>3. CASE initNotify
  BY <1>3 DEF initNotify
<1>4. CASE TASK_ISDONE
  BY <1>4 DEF TASK_ISDONE
<1>5. CASE JoinBegin
  BY <1>5 DEF JoinBegin
<1>6. CASE pthread_join
  BY <1>6 DEF pthread_join
<1>7. CASE ffTaskJoin
  BY <1>7 DEF ffTaskJoin, ffStack2Stack
<1>8. CASE CancelBegin
  BY <1>8 DEF CancelBegin
<1>9. CASE CancelJoin
  BY <1>9 DEF CancelJoin
<1>10. CASE DetachFlag
  BY <1>10 DEF DetachFlag
<1>11. CASE pthread_detach
  BY <1>11 DEF pthread_detach
<1>12. CASE BodyStart
  BY <1>12 DEF BodyStart
<1>13. CASE NotifyEnter
  BY <1>13 DEF NotifyEnter
<1>14. CASE NotifyLeave
  BY <1>14 DEF NotifyLeave
<1>15. ASSUME NEW e \in Exceptions \cup {0}, NEW cells \in Stacks, BodyEnd(e, cells)
      PROVE  Arguments'
  BY <1>15 DEF BodyEnd
<1>16. CASE CheckDetached
  BY <1>16 DEF CheckDetached
<1>17. CASE FreeDriverData
  BY <1>17 DEF FreeDriverData
<1>18. CASE FreeTask
  BY <1>18 DEF FreeTask
<1>19. CASE CancelAct
  BY <1>19 DEF CancelAct
<1>20. CASE UNCHANGED vars
  BY <1>20 DEF vars
<1> QED
  BY <1>1, <1>2, <1>3, <1>4, <1>5, <1>6, <1>7, <1>8, <1>9, <1>10,
     <1>11, <1>12, <1>13, <1>14, <1>15, <1>16, <1>17, <1>18, <1>19, <1>20
     DEF Next, Creating, Ending, Cleaning, Body

\* Every step keeps the result where the next one looks for it.
LEMMA StepResult ==
  ASSUME TypeOK, Places, Places', ResultOnStack, [Next]_vars
  PROVE  ResultOnStack'
<1> USE DEF TypeOK, Places, NotStarted, Attached, Detached, Closed, ResultOnStack,
        Fault, Freed, call, creator, memory, child
<1>1. CASE ffTaskNew
  BY <1>1 DEF ffTaskNew, ffStack2Stack
<1>2. CASE pthread_create
  BY <1>2 DEF pthread_create
<1>3. CASE initNotify
  BY <1>3 DEF initNotify
<1>4. CASE TASK_ISDONE
  BY <1>4 DEF TASK_ISDONE
<1>5. CASE JoinBegin
  BY <1>5 DEF JoinBegin
<1>6. CASE pthread_join
  BY <1>6 DEF pthread_join
<1>7. CASE ffTaskJoin
  BY <1>7 DEF ffTaskJoin, ffStack2Stack
<1>8. CASE CancelBegin
  BY <1>8 DEF CancelBegin
<1>9. CASE CancelJoin
  BY <1>9 DEF CancelJoin
<1>10. CASE DetachFlag
  BY <1>10 DEF DetachFlag
<1>11. CASE pthread_detach
  BY <1>11 DEF pthread_detach
<1>12. CASE BodyStart
  BY <1>12 DEF BodyStart
<1>13. CASE NotifyEnter
  BY <1>13 DEF NotifyEnter
<1>14. CASE NotifyLeave
  BY <1>14 DEF NotifyLeave
<1>15. ASSUME NEW e \in Exceptions \cup {0}, NEW cells \in Stacks, BodyEnd(e, cells)
      PROVE  ResultOnStack'
  BY <1>15 DEF BodyEnd
<1>16. CASE CheckDetached
  BY <1>16 DEF CheckDetached
<1>17. CASE FreeDriverData
  BY <1>17 DEF FreeDriverData
<1>18. CASE FreeTask
  BY <1>18 DEF FreeTask
<1>19. CASE CancelAct
  BY <1>19 DEF CancelAct
<1>20. CASE UNCHANGED vars
  BY <1>20 DEF vars
<1> QED
  BY <1>1, <1>2, <1>3, <1>4, <1>5, <1>6, <1>7, <1>8, <1>9, <1>10,
     <1>11, <1>12, <1>13, <1>14, <1>15, <1>16, <1>17, <1>18, <1>19, <1>20
     DEF Next, Creating, Ending, Cleaning, Body

\* No step but the last one of TASK.DETACH touches what was freed.
LEMMA StepFaults ==
  ASSUME TypeOK, Places, NoOtherFault, [Next]_vars
  PROVE  NoOtherFault'
<1> USE DEF TypeOK, Places, NotStarted, Attached, Detached, Closed, Live, Gone, NoOtherFault,
        notifyFaults, detachFault, noMemory, staleId, Blame, Fault, Freed, call, creator,
        memory, child
<1>1. CASE ffTaskNew
  BY <1>1 DEF ffTaskNew, ffStack2Stack
<1>2. CASE pthread_create
  BY <1>2 DEF pthread_create
<1>3. CASE initNotify
  BY <1>3 DEF initNotify
<1>4. CASE TASK_ISDONE
  BY <1>4 DEF TASK_ISDONE
<1>5. CASE JoinBegin
  BY <1>5 DEF JoinBegin
<1>6. CASE pthread_join
  BY <1>6 DEF pthread_join
<1>7. CASE ffTaskJoin
  BY <1>7 DEF ffTaskJoin, ffStack2Stack
<1>8. CASE CancelBegin
  BY <1>8 DEF CancelBegin
<1>9. CASE CancelJoin
  BY <1>9 DEF CancelJoin
<1>10. CASE DetachFlag
  BY <1>10 DEF DetachFlag
<1>11. CASE pthread_detach
  BY <1>11 DEF pthread_detach
<1>12. CASE BodyStart
  BY <1>12 DEF BodyStart
<1>13. CASE NotifyEnter
  BY <1>13 DEF NotifyEnter
<1>14. CASE NotifyLeave
  BY <1>14 DEF NotifyLeave
<1>15. ASSUME NEW e \in Exceptions \cup {0}, NEW cells \in Stacks, BodyEnd(e, cells)
      PROVE  NoOtherFault'
  BY <1>15 DEF BodyEnd
<1>16. CASE CheckDetached
  BY <1>16 DEF CheckDetached
<1>17. CASE FreeDriverData
  BY <1>17 DEF FreeDriverData
<1>18. CASE FreeTask
  BY <1>18 DEF FreeTask
<1>19. CASE CancelAct
  BY <1>19 DEF CancelAct
<1>20. CASE UNCHANGED vars
  BY <1>20 DEF vars
<1> QED
  BY <1>1, <1>2, <1>3, <1>4, <1>5, <1>6, <1>7, <1>8, <1>9, <1>10,
     <1>11, <1>12, <1>13, <1>14, <1>15, <1>16, <1>17, <1>18, <1>19, <1>20
     DEF Next, Creating, Ending, Cleaning, Body

\* The inductive invariant holds.
LEMMA Inductive == Spec => []IInv
<1>1. IInv /\ [Next]_vars => IInv'
  BY StepTypes, StepPlaces, StepArguments, StepResult, StepFaults DEF IInv
<1> QED
  BY <1>1, InitIInv, PTL DEF Spec

-----------------------------------------------------------------------------
(* The variables keep their types; the result of the word is one that it   *)
(* may THROW, or that of its cancellation.                                 *)
THEOREM TypeCorrect == Spec => []TypeOK
<1>1. IInv => TypeOK
  BY DEF IInv
<1> QED
  BY <1>1, Inductive, PTL

(* Neither structure is freed twice or touched after it was freed, but for *)
(* the pt->pt that TASK.DETACH reads, whatever the creator and the thread  *)
(* do; only CANCEL and DETACH of a task of which DONE? has said true use   *)
(* the id of a joined thread; and a task that was joined or cancelled      *)
(* leaves nothing behind.                                                  *)
THEOREM NothingFreedTwice == Spec => []FreedOnce
<1>1. IInv => FreedOnce
  BY DEF IInv, Places, Closed, NoOtherFault, FreedOnce, Gone
<1> QED
  BY <1>1, Inductive, PTL

(* The word gets the n cells its creator passed, and TASK.JOIN gives the   *)
(* creator the exception and the n top cells it asks for of the word that  *)
(* ended, on top of what TASK had left it, whoever joined the thread first.*)
THEOREM JoinCorrect == Spec => JoinDelivers
<1> DEFINE Starts ==
      thread = "created" /\ thread' = "body" =>
        Head(stk) = XT /\ stk' = SubSeq(before, 1, passed)
    Delivers ==
      pc = "joined" /\ pc' = "closed" =>
        /\ ret' = result.excp
        /\ ds' = IF result.excp = 0 THEN SubSeq(result.cells, 1, asked) \o kept ELSE kept
<1>1. IInv /\ [Next]_vars => [Starts /\ Delivers]_vars
  <2> SUFFICES ASSUME IInv, Next
               PROVE  Starts /\ Delivers
    OBVIOUS
  <2>1. Starts
    <3> SUFFICES ASSUME thread = "created", thread' = "body"
                 PROVE  Head(stk) = XT /\ stk' = SubSeq(before, 1, passed)
      OBVIOUS
    <3>1. BodyStart
      <4>1. ~ (Creating \/ TASK_ISDONE \/ JoinBegin \/ CancelBegin \/ DetachFlag)
        BY DEF Creating, ffTaskNew, pthread_create, initNotify, TASK_ISDONE, JoinBegin,
               CancelBegin, DetachFlag, child
      <4>2. ~ Ending
        BY DEF Ending, pthread_join, ffTaskJoin, CancelJoin, pthread_detach, child
      <4>3. ~ (Body \/ Cleaning \/ CancelAct)
        BY DEF Body, NotifyEnter, NotifyLeave, BodyEnd, Cleaning, CheckDetached,
               FreeDriverData, FreeTask, CancelAct
      <4> QED
        BY <4>1, <4>2, <4>3 DEF Next
    <3>2. stk = <<XT>> \o SubSeq(before, 1, passed) /\ SubSeq(before, 1, passed) \in Stacks
      BY TopOfStack DEF IInv, Arguments, TypeOK
    <3> QED
      BY <3>1, <3>2, PushPop DEF BodyStart
  <2>2. Delivers
    <3> SUFFICES ASSUME pc = "joined", pc' = "closed"
                 PROVE  Delivers
      OBVIOUS
    <3>1. ffTaskJoin
      <4>1. ~ (Creating \/ TASK_ISDONE \/ JoinBegin \/ CancelBegin \/ DetachFlag)
        BY DEF Creating, ffTaskNew, pthread_create, initNotify, TASK_ISDONE, JoinBegin,
               CancelBegin, DetachFlag
      <4>2. ~ (pthread_join \/ CancelJoin \/ pthread_detach)
        BY DEF pthread_join, CancelJoin, pthread_detach
      <4>3. ~ (BodyStart \/ Body \/ Cleaning \/ CancelAct)
        BY DEF BodyStart, Body, NotifyEnter, NotifyLeave, BodyEnd, Cleaning, CheckDetached,
               FreeDriverData, FreeTask, CancelAct, creator
      <4> QED
        BY <4>1, <4>2, <4>3 DEF Next, Ending
    <3>2. ds = kept
      BY DEF IInv, Arguments
    <3>3. /\ ret' = result.excp
          /\ ds' = IF result.excp = 0 THEN SubSeq(result.cells, 1, asked) \o ds ELSE ds
      BY <3>1, JoinMoves DEF IInv
    <3> QED
      BY <3>2, <3>3
  <2> QED
    BY <2>1, <2>2
<1> QED
  BY <1>1, Inductive, PTL DEF Spec, JoinDelivers

-----------------------------------------------------------------------------
(* Arithmetic: powers of 2, bits, and induction.                           *)

\* Induction in the form of a set, which the provers can instantiate.
LEMMA SetInduction ==
  ASSUME NEW S, 0 \in S, \A n \in Nat : n \in S => n + 1 \in S
  PROVE  Nat \subseteq S
<1> SUFFICES ASSUME Nat \ S # {} PROVE FALSE
  OBVIOUS
<1> DEFINE T == Nat \ S  R == {ss \in Nat \X Nat : ss[1] < ss[2]}
<1>1. R = OpToRel(<, Nat) BY DEF OpToRel
<1>2. IsWellFoundedOn(R, Nat) BY <1>1, NatLessThanWellFounded
<1>3. PICK x \in T : \A y \in T : ~ (<<y, x>> \in R)
  <2>1. T \subseteq Nat /\ T # {} OBVIOUS
  <2> HIDE DEF T, R
  <2> QED BY <2>1, <1>2, WFMin
<1>4. x \in Nat /\ x # 0 OBVIOUS
<1>5. x - 1 \in Nat BY <1>4
<1>6. x - 1 \notin T
  <2>1. <<x - 1, x>> \in R BY <1>4, <1>5
  <2> QED BY <2>1, <1>3
<1>7. x - 1 + 1 \in S BY <1>5, <1>6
<1> QED BY <1>4, <1>7

\* Quotient and remainder.
LEMMA DivMod ==
  ASSUME NEW x \in Nat, NEW d \in Nat, d > 0
  PROVE  /\ x \div d \in Nat /\ x % d \in 0 .. d - 1
         /\ x = d * (x \div d) + (x % d)
<1>1. x % d \in 0 .. d - 1 OBVIOUS
<1>2. x \div d \in Int OBVIOUS
<1>3. x = d * (x \div d) + (x % d) OBVIOUS
<1>4. x \div d >= 0
  <2> SUFFICES ASSUME x \div d <= -1 PROVE FALSE BY <1>2
  <2> DEFINE q == x \div d  r == x % d
  <2>1. q \in Int /\ q <= -1 /\ r \in 0 .. d - 1 /\ x = d * q + r BY <1>1, <1>2, <1>3
  <2>2. d * q <= -d
    <3> HIDE DEF q
    <3>1. d * (q + 1) <= 0 BY <2>1
    <3> QED BY <3>1, <2>1
  <2> HIDE DEF q, r
  <2> QED BY <2>1, <2>2
<1> QED BY <1>1, <1>2, <1>3, <1>4

LEMMA DivUnique ==
  ASSUME NEW d \in Nat, d > 0, NEW q \in Nat, NEW r \in 0 .. d - 1
  PROVE  (d * q + r) \div d = q /\ (d * q + r) % d = r
OBVIOUS

\* Shifting by one bit and by others is shifting by all of them.
LEMMA DivByDouble ==
  ASSUME NEW x \in Nat, NEW p \in Nat, p > 0
  PROVE  x \div (2 * p) = (x \div 2) \div p
<1> DEFINE h == x \div 2  q == h \div p  r == h % p  b == x % 2
<1>1. h \in Nat /\ b \in 0 .. 1 /\ x = 2 * h + b OBVIOUS
<1>2. q \in Nat /\ r \in 0 .. p - 1 /\ h = p * q + r
  <2> HIDE DEF h, b
  <2> QED BY <1>1, DivMod
<1>3. 2 * r + b \in 0 .. 2 * p - 1 /\ 2 * p \in Nat /\ 2 * p > 0
  <2> HIDE DEF h, b, q, r
  <2> QED BY <1>1, <1>2
<1>4. x = (2 * p) * q + (2 * r + b)
  <2> HIDE DEF h, b, q, r
  <2> QED BY <1>1, <1>2
<1>5. x \div (2 * p) = q
  <2> HIDE DEF h, b, q, r
  <2> QED BY <1>2, <1>3, <1>4, DivUnique
<1> QED BY <1>5

\* The recursive function exists, on every range from 0.
LEMMA PowerExists ==
  \A n \in Nat : \E g : g = [i \in 0 .. n |-> IF i = 0 THEN 1 ELSE 2 * g[i - 1]]
<1> DEFINE S == {n \in Nat : \E g : g = [i \in 0 .. n |-> IF i = 0 THEN 1 ELSE 2 * g[i - 1]]}
<1>1. 0 \in S
  <2>1. [i \in 0 .. 0 |-> 1] = [i \in 0 .. 0 |-> IF i = 0 THEN 1 ELSE 2 * [j \in 0 .. 0 |-> 1][i - 1]]
    OBVIOUS
  <2> QED BY <2>1
<1>2. ASSUME NEW n \in Nat, n \in S PROVE n + 1 \in S
  <2>1. PICK g : g = [i \in 0 .. n |-> IF i = 0 THEN 1 ELSE 2 * g[i - 1]] BY <1>2
  <2> DEFINE h == [i \in 0 .. n + 1 |-> IF i <= n THEN g[i] ELSE 2 * g[n]]
  <2>2. h = [i \in 0 .. n + 1 |-> IF i = 0 THEN 1 ELSE 2 * h[i - 1]]
    BY <2>1
  <2>3. n + 1 \in Nat OBVIOUS
  <2> HIDE DEF h
  <2> QED BY <2>2, <2>3
<1>3. Nat \subseteq S
  <2> HIDE DEF S
  <2> QED BY <1>1, <1>2, SetInduction
<1> QED BY <1>3

LEMMA PowerStep == Power[0] = 1 /\ \A i \in 1 .. Width : Power[i] = 2 * Power[i - 1]
<1>1. Power = [i \in 0 .. Width |-> IF i = 0 THEN 1 ELSE 2 * Power[i - 1]]
  BY PowerExists, NotifyAssumption DEF Power
<1> QED BY <1>1, NotifyAssumption

LEMMA PowerPositive == \A i \in 0 .. Width : Power[i] \in Nat /\ Power[i] > 0
<1> DEFINE S == {n \in Nat : n <= Width => Power[n] \in Nat /\ Power[n] > 0}
<1>1. 0 \in S BY PowerStep
<1>2. ASSUME NEW n \in Nat, n \in S PROVE n + 1 \in S
  <2> SUFFICES ASSUME n + 1 <= Width PROVE Power[n + 1] \in Nat /\ Power[n + 1] > 0
    OBVIOUS
  <2>1. Power[n] \in Nat /\ Power[n] > 0 BY <1>2, NotifyAssumption
  <2>2. Power[n + 1] = 2 * Power[n] BY PowerStep, NotifyAssumption
  <2> QED BY <2>1, <2>2
<1>3. Nat \subseteq S
  <2> HIDE DEF S
  <2> QED BY <1>1, <1>2, SetInduction
<1> QED BY <1>3, NotifyAssumption

-----------------------------------------------------------------------------
(* Notifications.                                                          *)

\* Two values of k bits have a disjunction of k bits: it is that of the values
\* without their lowest bits, doubled, with the disjunction of these.
LEMMA OrExists ==
  ASSUME NEW k \in 0 .. Width, NEW a \in 0 .. Power[k] - 1, NEW b \in 0 .. Power[k] - 1
  PROVE  \E v \in 0 .. Power[k] - 1 :
           \A i \in 0 .. k - 1 : Bit(v, i) = IF Bit(a, i) + Bit(b, i) > 0 THEN 1 ELSE 0
<1> DEFINE Either(x, y, v, n) ==
      \A i \in 0 .. n - 1 : Bit(v, i) = IF Bit(x, i) + Bit(y, i) > 0 THEN 1 ELSE 0
    S == {n \in Nat : n <= Width =>
            \A x, y \in 0 .. Power[n] - 1 : \E v \in 0 .. Power[n] - 1 : Either(x, y, v, n)}
<1>1. 0 \in S
  <2>1. 0 \in 0 .. Power[0] - 1 BY PowerStep
  <2>2. \A x, y : Either(x, y, 0, 0) OBVIOUS
  <2> QED BY <2>1, <2>2
<1>2. ASSUME NEW n \in Nat, n \in S PROVE n + 1 \in S
  <2> SUFFICES ASSUME n + 1 <= Width, NEW x \in 0 .. Power[n + 1] - 1, NEW y \in 0 .. Power[n + 1] - 1
               PROVE  \E v \in 0 .. Power[n + 1] - 1 : Either(x, y, v, n + 1)
    OBVIOUS
  <2>1. Power[n] \in Nat /\ Power[n] > 0 /\ Power[n + 1] = 2 * Power[n]
    BY PowerPositive, PowerStep, NotifyAssumption
  <2> DEFINE xh == x \div 2  yh == y \div 2
  <2>2. x \in Nat /\ y \in Nat /\ xh \in 0 .. Power[n] - 1 /\ yh \in 0 .. Power[n] - 1
    BY <2>1
  <2>3. PICK vh \in 0 .. Power[n] - 1 : Either(xh, yh, vh, n)
    <3> HIDE DEF Either, xh, yh
    <3> QED BY <1>2, <2>2, NotifyAssumption
  <2> DEFINE low == IF (x % 2) + (y % 2) > 0 THEN 1 ELSE 0
             v == 2 * vh + low
  <2>4. low \in 0 .. 1 OBVIOUS
  <2>5. v \in 0 .. Power[n + 1] - 1 /\ v \in Nat /\ v \div 2 = vh /\ v % 2 = low
    <3> HIDE DEF low
    <3> QED BY <2>1, <2>4
  \* The bits above the lowest are those of the half.
  <2>6. ASSUME NEW z \in Nat PROVE /\ Bit(z, 0) = z % 2
                                   /\ \A i \in 1 .. n : Bit(z, i) = Bit(z \div 2, i - 1)
    <3>1. Bit(z, 0) = z % 2 BY PowerStep DEF Bit
    <3>2. ASSUME NEW i \in 1 .. n PROVE Bit(z, i) = Bit(z \div 2, i - 1)
      <4>1. Power[i] = 2 * Power[i - 1] /\ Power[i - 1] \in Nat /\ Power[i - 1] > 0
        BY PowerStep, PowerPositive, NotifyAssumption
      <4>2. z \div Power[i] = (z \div 2) \div Power[i - 1] BY <4>1, DivByDouble
      <4> QED BY <4>2 DEF Bit
    <3> QED BY <3>1, <3>2
  <2>7. ASSUME NEW i \in 0 .. n
        PROVE  Bit(v, i) = IF Bit(x, i) + Bit(y, i) > 0 THEN 1 ELSE 0
    <3>1. CASE i = 0
      <4>1. Bit(v, 0) = low /\ Bit(x, 0) = x % 2 /\ Bit(y, 0) = y % 2
        <5> HIDE DEF v, low
        <5> QED BY <2>2, <2>5, <2>6
      <4> QED BY <3>1, <4>1
    <3>2. CASE i \in 1 .. n
      <4> HIDE DEF v, low
      <4>1. Bit(v, i) = Bit(vh, i - 1) /\ Bit(x, i) = Bit(xh, i - 1) /\ Bit(y, i) = Bit(yh, i - 1)
        BY <2>2, <2>5, <2>6, <3>2
      <4>2. Bit(vh, i - 1) = IF Bit(xh, i - 1) + Bit(yh, i - 1) > 0 THEN 1 ELSE 0
        <5> HIDE DEF xh, yh
        <5> QED BY <2>3, <3>2
      <4> QED BY <4>1, <4>2
    <3> QED BY <3>1, <3>2
  <2> HIDE DEF v, low
  <2>8. Either(x, y, v, n + 1) BY <2>7
  <2> HIDE DEF Either
  <2> QED BY <2>5, <2>8
<1>3. Nat \subseteq S
  <2> HIDE DEF S
  <2> QED BY <1>1, <1>2, SetInduction
<1>4. k \in S /\ k <= Width BY <1>3, NotifyAssumption
<1> HIDE DEF Either
<1>5. \E v \in 0 .. Power[k] - 1 : Either(a, b, v, k) BY <1>4
<1> QED BY <1>5 DEF Either

LEMMA ModulusType == Modulus \in Nat /\ Modulus > 0
BY NotifyAssumption, PowerPositive DEF Modulus

LEMMA OrType ==
  ASSUME NEW a \in Values, NEW b \in Values
  PROVE  Or(a, b) \in Values
<1>1. Width \in 0 .. Width BY NotifyAssumption
<1>2. \E v \in Values : \A i \in AllBits : Bit(v, i) = IF Bit(a, i) + Bit(b, i) > 0 THEN 1 ELSE 0
  BY <1>1, OrExists DEF Values, Modulus, AllBits
<1> QED BY <1>2 DEF Or

(* As long as only TASK.NOTF-NA and -INC were used.                        *)
Numbers ==
  counting =>
    /\ notify_val \in Values
    /\ given \in Nat /\ taken \in Nat /\ lost \in Nat
    /\ given = taken + notify_val + lost

\* Every step keeps the count of increments.
LEMMA CountingStep == Numbers /\ [NotifyNext]_notify_vars => Numbers'
<1> SUFFICES ASSUME Numbers, [NotifyNext]_notify_vars PROVE Numbers'
  OBVIOUS
<1> USE ModulusType, NotifyAssumption DEF Numbers, Values
<1>1. ASSUME NEW n \in Notifiers, NEW a \in Actions, NEW q \in BOOLEAN, NEW x \in Values,
             NOTIFY(n, a, q, x)
      PROVE  Numbers'
  <2>1. counting' => counting /\ a \in {"NA", "INC"}
    BY <1>1 DEF NOTIFY
  <2> QED
    BY <1>1, <2>1 DEF NOTIFY, NewValue
<1>2. ASSUME NEW n \in Notifiers, NOTIFY_CLEAR(n)
      PROVE  Numbers'
  BY <1>2 DEF NOTIFY_CLEAR, history
<1>3. ASSUME NEW t \in BOOLEAN, NOTIFY_TAKE(t)
      PROVE  Numbers'
  <2>1. CASE counting
    BY <1>3, <2>1 DEF NOTIFY_TAKE, TakeValue, history
  <2>2. CASE ~counting
    BY <1>3, <2>2 DEF NOTIFY_TAKE, TakeValue, history
  <2> QED
    BY <2>1, <2>2
<1>4. ASSUME NEW t \in BOOLEAN, NOTIFY_TAKEDEC(t)
      PROVE  Numbers'
  BY <1>4 DEF NOTIFY_TAKEDEC, history
<1>5. ASSUME NEW t \in BOOLEAN, NEW v \in Values, NOTIFY_WAIT(t, v)
      PROVE  Numbers'
  BY <1>5 DEF NOTIFY_WAIT, Cleared
<1>6. CASE TAKE_resumed
  BY <1>6 DEF TAKE_resumed, TakeValue
<1>7. CASE OTHER_resumed
  BY <1>7 DEF OTHER_resumed, history
<1>8. CASE WakesByItself
  BY <1>8 DEF WakesByItself
<1>9. CASE UNCHANGED notify_vars
  BY <1>9 DEF notify_vars, history
<1> QED
  BY <1>1, <1>2, <1>3, <1>4, <1>5, <1>6, <1>7, <1>8, <1>9 DEF NotifyNext, Notifying

(* No increment is lost and none is answered twice.                        *)
THEOREM NoIncrementLost == NotifySpec => []IncrementsConserved
<1>1. NotifyInit => Numbers
  BY ModulusType, NotifyAssumption DEF NotifyInit, Numbers, Values
<1>2. Numbers /\ [NotifyNext]_notify_vars => Numbers'
  BY CountingStep
<1>3. Numbers => IncrementsConserved
  BY DEF Numbers, IncrementsConserved
<1> QED
  BY <1>1, <1>2, <1>3, PTL DEF NotifySpec

(* A TAKE that was woken finds a value, until the value has wrapped.       *)
WokenHasValue ==
  /\ Numbers
  /\ counting \in BOOLEAN /\ strict \in BOOLEAN /\ (strict => counting)
  /\ word = "TAKE" /\ signalled /\ strict /\ given < Modulus => notify_val # 0

\* Every step keeps the value a woken TAKE will find.
LEMMA WokenStep == WokenHasValue /\ [NotifyNext]_notify_vars => WokenHasValue'
<1> SUFFICES ASSUME WokenHasValue, [NotifyNext]_notify_vars PROVE WokenHasValue'
  OBVIOUS
<1>0. Numbers /\ Numbers'
  BY CountingStep DEF WokenHasValue
<1> USE <1>0, ModulusType, NotifyAssumption DEF WokenHasValue, Numbers, Values
<1>1. ASSUME NEW n \in Notifiers, NEW a \in Actions, NEW q \in BOOLEAN, NEW x \in Values,
             NOTIFY(n, a, q, x)
      PROVE  WokenHasValue'
  <2>1. (strict' => strict /\ a = "INC") /\ counting' \in BOOLEAN /\ strict' \in BOOLEAN
    BY <1>1 DEF NOTIFY
  <2>2. strict' => counting'
    BY <1>1, <2>1 DEF NOTIFY
  <2> QED
    BY <1>1, <2>1, <2>2 DEF NOTIFY, NewValue, NotifyCall, target
<1>2. ASSUME NEW n \in Notifiers, NOTIFY_CLEAR(n)
      PROVE  WokenHasValue'
  BY <1>2 DEF NOTIFY_CLEAR, NotifyCall, target, history
<1>3. ASSUME NEW t \in BOOLEAN, NOTIFY_TAKE(t)
      PROVE  WokenHasValue'
  BY <1>3 DEF NOTIFY_TAKE, Word, TakeValue, history
<1>4. ASSUME NEW t \in BOOLEAN, NOTIFY_TAKEDEC(t)
      PROVE  WokenHasValue'
  BY <1>4 DEF NOTIFY_TAKEDEC, history
<1>5. ASSUME NEW t \in BOOLEAN, NEW v \in Values, NOTIFY_WAIT(t, v)
      PROVE  WokenHasValue'
  BY <1>5 DEF NOTIFY_WAIT
<1>6. CASE TAKE_resumed
  BY <1>6 DEF TAKE_resumed, TakeValue
<1>7. CASE OTHER_resumed
  BY <1>7 DEF OTHER_resumed, history
<1>8. CASE WakesByItself
  BY <1>8 DEF WakesByItself
<1>9. CASE UNCHANGED notify_vars
  BY <1>9 DEF notify_vars, target, history
<1> QED
  BY <1>1, <1>2, <1>3, <1>4, <1>5, <1>6, <1>7, <1>8, <1>9 DEF NotifyNext, Notifying

(* An untimed TAKE of a target that is only incremented answers a          *)
(* notification.                                                           *)
THEOREM TakeAnswersValue == NotifySpec => TakeNotEmpty
<1>1. NotifyInit => WokenHasValue
  BY ModulusType, NotifyAssumption DEF NotifyInit, WokenHasValue, Numbers, Values
<1>2. WokenHasValue /\ [NotifyNext]_notify_vars => WokenHasValue'
  BY WokenStep
<1>3. WokenHasValue /\ [NotifyNext]_notify_vars => [takeNotEmpty]_notify_vars
  <2> SUFFICES ASSUME WokenHasValue, NotifyNext,
                      word = "TAKE", word' = "none", ~timed, strict, given < Modulus
               PROVE  answer' # 0
    BY DEF takeNotEmpty
  <2>1. TAKE_resumed
    BY DEF NotifyNext, Notifying, NOTIFY, NOTIFY_CLEAR, NotifyCall, target, NOTIFY_TAKE,
           NOTIFY_TAKEDEC, NOTIFY_WAIT, OTHER_resumed, WakesByItself, Word
  <2> QED
    BY <2>1 DEF TAKE_resumed, TakeValue, Awake, WokenHasValue
<1> QED
  BY <1>1, <1>2, <1>3, PTL DEF NotifySpec, TakeNotEmpty

\* A word the target executes is counted.
LEMMA Called ==
  ASSUME waits \in 0 .. MaxWaits, Word
  PROVE  waits' \in 0 .. MaxWaits
BY NotifyAssumption DEF Word

(* The value stays a value of the width, its disjunctions too, and the     *)
(* counts of the history stay natural numbers.                             *)
THEOREM NotifyTypeCorrect == NotifySpec => []NotifyTypeOK
<1>1. NotifyInit => NotifyTypeOK
  <2>1. 0 \in Values BY ModulusType DEF Values
  <2> SUFFICES ASSUME NotifyInit PROVE NotifyTypeOK
    OBVIOUS
  <2>2. TOS \in [Notifiers -> Values \cup {FTRUE}] /\ notifies \in [Notifiers -> 0 .. MaxNotifies]
    BY <2>1, NotifyAssumption DEF NotifyInit
  <2>3. notify_val \in Values /\ answer \in Values \cup {FTRUE} /\ waits \in 0 .. MaxWaits
    BY <2>1, NotifyAssumption DEF NotifyInit
  <2> QED BY <2>2, <2>3 DEF NotifyInit, NotifyTypeOK
<1>2. NotifyTypeOK /\ [NotifyNext]_notify_vars => NotifyTypeOK'
  <2> SUFFICES ASSUME NotifyTypeOK, [NotifyNext]_notify_vars PROVE NotifyTypeOK'
    OBVIOUS
  <2> USE NotifyAssumption DEF NotifyTypeOK
  <2>0. Modulus \in Nat /\ Modulus > 0 /\ 0 \in Values BY ModulusType DEF Values
  <2>1. ASSUME NEW n \in Notifiers, NEW a \in Actions, NEW q \in BOOLEAN, NEW x \in Values,
               NOTIFY(n, a, q, x)
        PROVE  NotifyTypeOK'
    <3>1. Or(notify_val, x) \in Values BY OrType
    <3>2. notify_val' \in Values BY <2>0, <2>1, <3>1 DEF NOTIFY, NewValue, Values
    <3>3. NotifyAnswer(a, q) \in Values \cup {FTRUE} BY <2>0 DEF NotifyAnswer, FFALSE
    <3>4. TOS' \in [Notifiers -> Values \cup {FTRUE}] BY <2>1, <3>3 DEF NOTIFY
    <3>5. notifies' \in [Notifiers -> 0 .. MaxNotifies] /\ UNCHANGED target
      BY <2>1 DEF NOTIFY, NotifyCall
    <3>6. given' \in Nat /\ taken' \in Nat /\ lost' \in Nat BY <2>0, <2>1 DEF NOTIFY
    <3>7. signalled' \in BOOLEAN /\ counting' \in BOOLEAN /\ strict' \in BOOLEAN
      BY <2>1 DEF NOTIFY, Signal
    <3> QED BY <3>2, <3>4, <3>5, <3>6, <3>7 DEF target
  <2>2. ASSUME NEW n \in Notifiers, NOTIFY_CLEAR(n)
        PROVE  NotifyTypeOK'
    BY <2>0, <2>2 DEF NOTIFY_CLEAR, NotifyCall, target, history, FFALSE
  <2>3. ASSUME NEW t \in BOOLEAN, NOTIFY_TAKE(t)
        PROVE  NotifyTypeOK'
    <3>1. waits' \in 0 .. MaxWaits BY <2>3, Called DEF NOTIFY_TAKE
    <3>2. notify_val' \in Values /\ answer' \in Values \cup {FTRUE} /\ taken' \in Nat
      <4>1. CASE notify_val = 0 /\ UNCHANGED <<notify_val, answer, history>>
        BY <4>1 DEF history
      <4>2. CASE TakeValue
        BY <2>0, <4>2 DEF TakeValue, Values
      <4> QED BY <2>3, <4>1, <4>2 DEF NOTIFY_TAKE
    <3>3. word' \in {"none", "TAKE"} /\ timed' \in BOOLEAN /\ signalled' \in BOOLEAN
      BY <2>3 DEF NOTIFY_TAKE, Word
    <3> QED BY <2>3, <3>1, <3>2, <3>3 DEF NOTIFY_TAKE, TakeValue, history
  <2>4. ASSUME NEW t \in BOOLEAN, NOTIFY_TAKEDEC(t)
        PROVE  NotifyTypeOK'
    <3>1. waits' \in 0 .. MaxWaits BY <2>4, Called DEF NOTIFY_TAKEDEC
    <3> QED BY <2>4, <3>1 DEF NOTIFY_TAKEDEC, history
  <2>5. ASSUME NEW t \in BOOLEAN, NEW v \in Values, NOTIFY_WAIT(t, v)
        PROVE  NotifyTypeOK'
    <3>1. notify_val' \in Values /\ lost' \in Nat
      BY <2>0, <2>5 DEF NOTIFY_WAIT, Cleared, Values
    <3>2. waits' \in 0 .. MaxWaits BY <2>5, Called DEF NOTIFY_WAIT
    <3> QED BY <2>5, <3>1, <3>2 DEF NOTIFY_WAIT
  <2>6. CASE TAKE_resumed
    <3>1. notify_val' = 0 /\ answer' \in Values /\ taken' \in Nat
      BY <2>6 DEF TAKE_resumed, TakeValue, Values
    <3> QED BY <2>0, <2>6, <3>1 DEF TAKE_resumed, TakeValue
  <2>7. CASE OTHER_resumed
    BY <2>0, <2>7 DEF OTHER_resumed, history, FTRUE, FFALSE
  <2>8. CASE WakesByItself
    BY <2>8 DEF WakesByItself, target
  <2>9. CASE UNCHANGED notify_vars
    BY <2>9 DEF notify_vars, target, history
  <2> QED
    BY <2>1, <2>2, <2>3, <2>4, <2>5, <2>6, <2>7, <2>8, <2>9 DEF NotifyNext, Notifying
<1> QED
  BY <1>1, <1>2, PTL DEF NotifySpec
=============================================================================
