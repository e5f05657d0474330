--------------------------- MODULE TaskLifecycle ---------------------------
(***************************************************************************)
(* The life of one Forth task: TASK creates a thread with stacks of its    *)
(* own, TASK.DONE?, TASK.JOIN, TASK.CANCEL and TASK.DETACH end the         *)
(* creator's part, and the thread itself runs ffTaskCatch.  Creator and    *)
(* thread interleave; both touch the task token (cfTaskToken_t, TT) and    *)
(* the driver's data (pthreadTT_t, pt), and either may free them.          *)
(* src/csrc/posix/pfcustom_task_pthreads.c, src/csrc/cf_task.c             *)
(***************************************************************************)
EXTENDS Integers, Sequences, SequencesExt

CONSTANTS Cells,          \* values the Forth program has on its stacks
          XT,             \* the execution token of the task's word
          Exceptions,     \* what the word may THROW, other than 0
          MaxArgs,        \* bound: cells passed to the task, and left by it
          MaxPolls        \* bound: calls of TASK.DONE?

ASSUME LifecycleAssumption ==
  /\ MaxArgs \in Nat /\ MaxPolls \in Nat
  /\ XT \notin Cells /\ Exceptions \subseteq Int /\ 0 \notin Exceptions

VARIABLES
  pc,      \* where the creator is
  ds,      \* the creator's data stack, top first
  before,  \* that stack when it executes TASK (history)
  passed,  \* the n of its TASK: cells the task gets
  asked,   \* the n of its TASK.JOIN: cells it wants back
  ret,     \* the exception code its last word returned
  done,    \* TASK.DONE? has answered true
  polls,   \* how often it has been asked
  tt, pt,  \* the two structures: "none", "live", "freed"
  flags,   \* tt->flags
  stk,     \* the task's own data stack, top first
  notify,  \* pt's mutex and condition: "raw", "ready", "destroyed"
  thread,  \* where the thread is in ffTaskCatch
  result,  \* exception and stack the word ended with (history)
  pthread, \* the library's view: "none", "joinable", "detached", "joined"
  cancel,  \* cancellation has been requested
  faults   \* accesses the C language leaves undefined

call == <<before, passed, asked>>
creator == <<pc, ds, call, ret, done, polls>>
memory == <<tt, pt, flags, stk, notify>>
child == <<thread, result>>
vars == <<creator, memory, child, pthread, cancel, faults>>

THROW_ABORT == -1
ALLOCATE_THROW == -59
CANCELED == -1000          \* PTHREAD_CANCELED, no Forth exception

Stacks == SeqOf(Cells, MaxArgs)

Blame(condition, name) == IF condition THEN {name} ELSE {}
Fault(condition, name) == faults' = faults \cup Blame(condition, name)
Freed(object) == object = "freed"

\* POSIX ends the life of a thread's id when the thread has been joined.
staleId == "id_of_joined_thread"

Init ==
  /\ pc = "start" /\ ds \in Stacks /\ ret = 0
  /\ before = ds /\ passed \in 0 .. Len(ds) /\ asked \in 0 .. MaxArgs
  /\ done = FALSE /\ polls = 0
  /\ tt = "none" /\ pt = "none" /\ flags = {} /\ stk = <<>> /\ notify = "raw"
  /\ thread = "none" /\ result = [excp |-> 0, cells |-> <<>>]
  /\ pthread = "none" /\ cancel = FALSE /\ faults = {}

-----------------------------------------------------------------------------
(* The creator: TASK ( args n xt -- TT 0 | ior ).                          *)

\* ffStack2Stack: the n top cells of src go on dst in the same order.
ffStack2Stack(src, dst, n) ==
  [src |-> SubSeq(src, n + 1, Len(src)), dst |-> SubSeq(src, 1, n) \o dst]

\* malloc of TT may fail.  TT->lTask is written through before the code looks
\* whether there is one.
ffTaskNew ==
  /\ pc = "start"
  /\ \/ /\ ret' = ALLOCATE_THROW /\ pc' = "failed"
        /\ UNCHANGED <<ds, tt, flags, stk, faults>>
     \/ /\ pc' = "crashed" /\ faults' = faults \cup {"lTask_is_NULL"}
        /\ UNCHANGED <<ret, ds, tt, flags, stk>>
     \/ LET moved == ffStack2Stack(ds, <<>>, passed) IN
          /\ tt' = "live" /\ flags' = {}
          /\ ds' = moved.src /\ stk' = moved.dst
          /\ pc' = "create"
          /\ UNCHANGED <<ret, faults>>
  /\ UNCHANGED <<call, done, polls, pt, notify, child, pthread, cancel>>

\* malloc of pt is not tested, and the library may refuse to make a thread.
pthread_create ==
  /\ pc = "create"
  /\ stk' = <<XT>> \o stk
  /\ \/ /\ pc' = "crashed" /\ faults' = faults \cup {"pt_is_NULL"}
        /\ UNCHANGED <<ret, tt, pt, thread, pthread>>
     \/ /\ tt' = "freed" /\ pt' = "freed"
        /\ ret' = THROW_ABORT /\ pc' = "failed"
        /\ UNCHANGED <<thread, pthread, faults>>
     \/ /\ pt' = "live" /\ thread' = "created" /\ pthread' = "joinable"
        /\ pc' = "init"
        /\ UNCHANGED <<tt, ret, faults>>
  /\ UNCHANGED <<ds, call, done, polls, flags, notify, result, cancel>>

\* The notification objects are initialized once the thread is running.
initNotify ==
  /\ pc = "init"
  /\ Fault(thread = "notified", "notify_init_in_use")
  /\ notify' = "ready"
  /\ ret' = 0 /\ pc' = "open"
  /\ UNCHANGED <<ds, call, done, polls, tt, pt, flags, stk, child, pthread, cancel>>

\* TASK.DONE?: "flags &= TASK_DONE_FLAG" also clears TASK_DETACH_FLAG.
TASK_ISDONE ==
  /\ pc = "open" /\ polls < MaxPolls
  /\ polls' = polls + 1
  /\ Fault(Freed(tt) \/ Freed(pt), "DONE_of_freed")
  /\ IF "DONE" \in flags
       THEN done' = TRUE /\ flags' = {"DONE"} /\ UNCHANGED <<stk, pthread>>
       ELSE IF thread # "exited"
         THEN done' = FALSE /\ flags' = {} /\ UNCHANGED <<stk, pthread>>
         ELSE /\ done' = TRUE /\ flags' = {"DONE"}
              /\ pthread' = "joined"
              /\ stk' = <<result.excp>> \o stk
  /\ UNCHANGED <<pc, ds, call, ret, tt, pt, notify, child, cancel>>

-----------------------------------------------------------------------------
(* TASK.JOIN                                                               *)

JoinBegin ==
  /\ pc = "open"
  /\ Fault(Freed(tt) \/ Freed(pt), "JOIN_of_freed")
  /\ IF "DONE" \in flags
       THEN pc' = "joined" /\ UNCHANGED notify
       ELSE pc' = "join" /\ notify' = "destroyed"
  /\ UNCHANGED <<ds, call, ret, done, polls, tt, pt, flags, stk, child, pthread, cancel>>

\* pthread_join fails of a thread that is not joinable: the task is freed.
\* (Left out: EDEADLK, of a task that joins itself.)
pthread_join ==
  /\ pc = "join"
  /\ IF pthread = "joinable"
       THEN /\ thread = "exited"
            /\ pthread' = "joined" /\ stk' = <<result.excp>> \o stk
            /\ pc' = "joined"
            /\ UNCHANGED <<ret, tt, pt, faults>>
       ELSE /\ faults' = faults \cup {staleId}
            /\ tt' = "freed" /\ pt' = "freed"
            /\ ret' = THROW_ABORT /\ pc' = "closed"
            /\ UNCHANGED <<pthread, stk>>
  /\ UNCHANGED <<ds, call, done, polls, flags, notify, child, cancel>>

\* Mutants of ffTaskJoin: the exception code not popped off the task's stack;
\* cells copied in spite of an exception; pt leaked.
ffTaskJoinNoPop ==
  /\ pc = "joined"
  /\ pt' = "freed" /\ tt' = "freed"
  /\ ret' = Head(stk)
  /\ LET moved == ffStack2Stack(stk, ds, asked) IN
       IF Head(stk) = 0
         THEN ds' = moved.dst /\ stk' = moved.src
         ELSE UNCHANGED <<ds, stk>>
  /\ pc' = "closed"
  /\ UNCHANGED <<call, done, polls, flags, notify, child, pthread, cancel, faults>>

ffTaskJoinCopies ==
  /\ pc = "joined"
  /\ pt' = "freed" /\ tt' = "freed"
  /\ ret' = Head(stk)
  /\ LET there == Len(stk) - 1
         moved == ffStack2Stack(Tail(stk), ds, IF asked <= there THEN asked ELSE there)
     IN ds' = moved.dst /\ stk' = moved.src
  /\ pc' = "closed"
  /\ UNCHANGED <<call, done, polls, flags, notify, child, pthread, cancel, faults>>

ffTaskJoinLeaks ==
  /\ pc = "joined"
  /\ tt' = "freed"
  /\ ret' = Head(stk) /\ stk' = Tail(stk)
  /\ pc' = "closed"
  /\ UNCHANGED <<pt, ds, call, done, polls, flags, notify, child, pthread, cancel, faults>>

\* free(pt), then ffTaskJoin: pop the exception, copy what was asked for,
\* free the task.
ffTaskJoin ==
  /\ pc = "joined"
  /\ Fault(Freed(tt) \/ Freed(pt), "double_free")
  /\ pt' = "freed" /\ tt' = "freed"
  /\ ret' = Head(stk)
  /\ LET moved == ffStack2Stack(Tail(stk), ds, asked) IN
       IF Head(stk) = 0
         THEN ds' = moved.dst /\ stk' = moved.src
         ELSE stk' = Tail(stk) /\ UNCHANGED ds
  /\ pc' = "closed"
  /\ UNCHANGED <<call, done, polls, flags, notify, child, pthread, cancel>>

-----------------------------------------------------------------------------
(* TASK.CANCEL: pthread_cancel, destroy, pthread_join, free.  The library  *)
(* may say ESRCH of a thread that has ended.  What it does with the id of  *)
(* a thread TASK.DONE? has joined is undefined: here it may succeed or say *)
(* ESRCH, too, and the task is freed whatever pthread_join answers.        *)

CancelBegin ==
  /\ pc = "open"
  /\ faults' = faults \cup Blame(Freed(tt) \/ Freed(pt), "CANCEL_of_freed")
                      \cup Blame(pthread = "joined", staleId)
  /\ \/ /\ cancel' = TRUE /\ notify' = "destroyed" /\ pc' = "cancel"
     \/ /\ thread = "exited"
        /\ pc' = "lost"
        /\ UNCHANGED <<cancel, notify>>
  /\ UNCHANGED <<ds, call, ret, done, polls, tt, pt, flags, stk, child, pthread>>

CancelJoin ==
  /\ pc = "cancel" /\ thread = "exited"
  /\ pthread' = "joined"
  /\ Fault(Freed(tt) \/ Freed(pt), "double_free")
  /\ tt' = "freed" /\ pt' = "freed"
  /\ pc' = "closed"
  /\ UNCHANGED <<ds, call, ret, done, polls, flags, stk, notify, child, cancel>>

-----------------------------------------------------------------------------
(* TASK.DETACH: set the flag, then pthread_detach(pt->pt).                 *)

DetachFlag ==
  /\ pc = "open"
  /\ Fault(Freed(tt) \/ Freed(pt), "DETACH_of_freed")
  /\ flags' = flags \cup {"DETACH"}
  /\ pc' = "detach"
  /\ UNCHANGED <<ds, call, ret, done, polls, tt, pt, stk, notify, child, pthread, cancel>>

pthread_detach ==
  /\ pc = "detach"
  /\ faults' = faults \cup Blame(Freed(pt), "DETACH_reads_freed_pt")
                      \cup Blame(pthread = "joined", staleId)
  /\ pthread' = IF pthread = "joined" THEN "joined" ELSE "detached"
  /\ pc' = "closed"
  /\ UNCHANGED <<ds, call, ret, done, polls, memory, child, cancel>>

-----------------------------------------------------------------------------
(* The thread: ffTaskCatch.                                                *)

\* pfCatch(TT->lTask, POP_TASK_STACK())
BodyStart ==
  /\ thread = "created"
  /\ stk' = Tail(stk)
  /\ thread' = "body"
  /\ UNCHANGED <<creator, tt, pt, flags, notify, result, pthread, cancel, faults>>

\* The word enters and leaves TASK.NOTIFY-TAKE, -TAKEDEC or -WAIT.
NotifyEnter ==
  /\ thread = "body"
  /\ Fault(notify # "ready", IF notify = "raw" THEN "notify_before_init"
                                ELSE "notify_after_destroy")
  /\ thread' = "notified"
  /\ UNCHANGED <<creator, memory, result, pthread, cancel>>

NotifyLeave ==
  /\ thread = "notified"
  /\ Fault(notify = "destroyed", "notify_destroyed_in_use")
  /\ thread' = "body"
  /\ UNCHANGED <<creator, memory, result, pthread, cancel>>

\* The word returns, leaving cells on its stack, or THROWs.  A program asks for
\* no more than its word leaves when it returns.
BodyEnd(excp, cells) ==
  /\ thread = "body"
  /\ excp = 0 => asked <= Len(cells)
  /\ result' = [excp |-> excp, cells |-> cells]
  /\ stk' = cells
  /\ thread' = "check"
  /\ UNCHANGED <<creator, tt, pt, flags, notify, pthread, cancel, faults>>

CheckDetached ==
  /\ thread = "check"
  /\ Fault(Freed(tt), "flags_of_freed")
  /\ thread' = IF "DETACH" \in flags THEN "cleanup" ELSE "exited"
  /\ UNCHANGED <<creator, memory, result, pthread, cancel>>

FreeDriverData ==
  /\ thread = "cleanup"
  /\ Fault(Freed(tt) \/ Freed(pt), "double_free")
  /\ notify' = "destroyed" /\ pt' = "freed"
  /\ thread' = "cleanup2"
  /\ UNCHANGED <<creator, tt, flags, stk, result, pthread, cancel>>

FreeTask ==
  /\ thread = "cleanup2"
  /\ Fault(Freed(tt), "double_free")
  /\ tt' = "freed"
  /\ thread' = "exited"
  /\ UNCHANGED <<creator, pt, flags, stk, notify, result, pthread, cancel>>

\* Mutant of CancelAct: deferred cancellation, only where the thread blocks.
CancelDeferred ==
  /\ cancel /\ thread = "notified"
  /\ thread' = "exited"
  /\ result' = [result EXCEPT !.excp = CANCELED]
  /\ UNCHANGED <<creator, memory, pthread, cancel, faults>>

\* PTHREAD_CANCEL_ASYNCHRONOUS: wherever the thread is.
CancelAct ==
  /\ cancel /\ thread \notin {"none", "exited"}
  /\ thread' = "exited"
  /\ result' = [result EXCEPT !.excp = CANCELED]
  /\ UNCHANGED <<creator, memory, pthread, cancel, faults>>

Creating == ffTaskNew \/ pthread_create \/ initNotify
Ending == pthread_join \/ ffTaskJoin \/ CancelJoin \/ pthread_detach
Cleaning == CheckDetached \/ FreeDriverData \/ FreeTask
Body ==
  \/ NotifyEnter \/ NotifyLeave
  \/ \E e \in Exceptions \cup {0}, cells \in Stacks : BodyEnd(e, cells)

Next ==
  \/ Creating \/ TASK_ISDONE
  \/ JoinBegin \/ CancelBegin \/ DetachFlag \/ Ending
  \/ BodyStart \/ Body \/ Cleaning \/ CancelAct

Spec == Init /\ [][Next]_vars

\* Both threads are scheduled and a requested cancellation is acted upon;
\* the program decides by itself how to end a task, and its word may loop.
FairSpec ==
  /\ Spec
  /\ WF_vars(Creating) /\ WF_vars(Ending)
  /\ WF_vars(BodyStart) /\ WF_vars(Cleaning) /\ WF_vars(CancelAct)

-----------------------------------------------------------------------------
TypeOK ==
  /\ pc \in {"start", "failed", "crashed", "create", "init", "open", "join", "joined", "cancel",
             "detach", "closed", "lost"}
  /\ ds \in Seq(Cells) /\ before \in Stacks
  /\ passed \in 0 .. Len(before) /\ asked \in 0 .. MaxArgs
  /\ ret \in Int /\ done \in BOOLEAN /\ polls \in 0 .. MaxPolls
  /\ tt \in {"none", "live", "freed"} /\ pt \in {"none", "live", "freed"}
  /\ flags \subseteq {"DETACH", "DONE"}
  /\ notify \in {"raw", "ready", "destroyed"}
  /\ thread \in {"none", "created", "body", "notified", "check", "cleanup", "cleanup2",
                 "exited"}
  /\ result.excp \in Exceptions \cup {0, CANCELED} /\ result.cells \in Stacks
  /\ pthread \in {"none", "joinable", "detached", "joined"}
  /\ cancel \in BOOLEAN

\* What TASK leaves of its creator's stack.
kept == SubSeq(before, passed + 1, Len(before))

(* The word starts with the n cells its creator passed, in their order;    *)
(* TASK.JOIN returns the exception the word ended with and, after a normal *)
(* end, the n cells asked for from the top of the word's stack, in order,  *)
(* on top of what the creator kept, whether the thread was joined by       *)
(* TASK.JOIN or an earlier TASK.DONE?.                                     *)
JoinDelivers ==
  [][/\ thread = "created" /\ thread' = "body" =>
          Head(stk) = XT /\ stk' = SubSeq(before, 1, passed)
     /\ pc = "joined" /\ pc' = "closed" =>
          /\ ret' = result.excp
          /\ ds' = IF result.excp = 0 THEN SubSeq(result.cells, 1, asked) \o kept ELSE kept]_vars

notifyFaults ==
  {"notify_before_init", "notify_init_in_use",
   "notify_after_destroy", "notify_destroyed_in_use"}
detachFault == "DETACH_reads_freed_pt"

\* TASK has no memory: the writes through NULL.
noMemory == {"lTask_is_NULL", "pt_is_NULL"}

(* However DETACH, JOIN, CANCEL and the end of the word interleave, no     *)
(* task token or driver data is freed twice or touched after it was freed, *)
(* but for the one access of TASK.DETACH of which DetachSafe says more.    *)
(* JOIN and DONE? do not use the id of a thread that has been joined; only *)
(* CANCEL and DETACH of a task of which DONE? has said true do.  And a     *)
(* task whose creator has joined or cancelled it is gone: no memory is     *)
(* left, and its thread has ended.                                         *)
FreedOnce ==
  /\ faults \subseteq notifyFaults \cup noMemory \cup {detachFault, staleId}
  /\ staleId \in faults => "DONE" \in flags /\ (cancel \/ pc = "lost" \/ "DETACH" \in flags)
  /\ pc = "closed" /\ "DETACH" \notin flags => tt = "freed" /\ pt = "freed" /\ thread = "exited"

(* TASK.DETACH of a task that ends at any moment touches nothing that was  *)
(* freed (t_multitask.fth:73-78 detaches tasks whose word ends at once).   *)
DetachSafe == detachFault \notin faults

(* The notification objects outlive the thread's use of them: a task that  *)
(* waits in TASK.NOTIFY-TAKE may be notified and joined                    *)
(* (t_multitask.fth:147-151).                                              *)
NotifyOutlivesTask ==
  ~cancel => faults \cap {"notify_after_destroy", "notify_destroyed_in_use"} = {}

(* TASK.JOIN returns once the word has ended, and TASK.CANCEL returns even *)
(* if the word loops for ever.                                             *)
Returns ==
  /\ (pc \in {"join", "joined"} /\ thread \notin {"created", "body", "notified"}) ~> pc = "closed"
  /\ pc = "cancel" ~> pc = "closed"
=============================================================================
