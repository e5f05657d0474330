# A verification project for pForth MT

pForth MT is a portable ANS Forth in C with preemptive tasks on POSIX threads. This directory holds TLA+
models of it (tasks, semaphores, mutexes, notifications, the heap and its pool, the inner and the outer
interpreter, text, numbers and files, the dictionary and its file, the start and the end of the program), TLC
configurations that check them on small instances, and TLAPS proofs that hold for every value of the
constants. Paths below are relative to the repository.

## The system

| Component | State | Operations | Code |
|---|---|---|---|
| Counting semaphores | `sem_t`, `max_count`, a mutex `st->mux` | SEMP, SEMP.TAKE, SEMP.GIVE, SEMP.COUNT@, SEMP.DELETE | `csrc/posix/pfcustom_task_pthreads.c:340-507` |
| Mutexes | pthread mutex, `st->count` | SEMP.MUTEX, SEMP.MUTEX-R, then the same words | the same |
| Task life cycle | task token, driver data, flags, two stacks, the thread | TASK, TASK.DONE?, TASK.JOIN, TASK.CANCEL, TASK.DETACH | the same file `:60-310`, `csrc/cf_task.c` |
| Task notifications | `notify_val`, condition, mutex | TASK.NOTIFY, -TAKE, -TAKEDEC, -WAIT, -CLEAR | the same file `:515-691`, `fth/task_notify.fth` |
| Memory pool | free list in the pool, size headers | pfAllocMem, pfFreeMem (builds with PF_NO_MALLOC) | `csrc/pf_mem.c` |
| Heap words | a validator cell before each block | ALLOCATE, FREE, RESIZE | `csrc/pf_inner.c:462-493, 1201-1223, 1550-1587` |
| Inner interpreter | data, return and float stacks, instruction pointer, locals | about 230 primitive words | `csrc/pf_inner.c`, `pfinnrfp.h` |
| Text and numbers | `>IN`, BASE, the pad | WORD, PARSE, NUMBER?, number output | `csrc/pf_words.c`, `pf_text.c`, `fth/numberio.fth` |
| Files and terminal | C library streams | OPEN-FILE ..., READ-LINE, KEY, EMIT, ACCEPT | `csrc/pf_io.c`, `stdio/`, `posix/`, `fth/file.fth` |
| Outer interpreter and exceptions | input source, include stack, nested C calls | QUIT, INCLUDE-FILE, EVALUATE, REFILL, CATCH, THROW | `csrc/pfcompil.c:760-1234`, `pf_inner.c`, `pf_core.c`, `fth/misc1.fth` |
| Compiler and dictionary | header chain, code area, STATE, SMUDGE | `:` `;` CREATE, DEFER, DOES>, find, FORGET, MARKER | `csrc/pfcompil.c:60-720`, `fth/system.fth`, `fth/forget.fth` |
| Forth library | the control structures on the stacks, locals | IF ... LOOP, CASE, `{`, `FM/MOD`, `#`, `>NUMBER` ... | `fth/*.fth` |
| Dictionary file | an IFF file | SAVE-FORTH, loading | `csrc/pf_save.c` |
| Start and end | what is allocated, the mode of the terminal | pfDoForth, pfCreateTask, AUTO.INIT, AUTO.TERM | `csrc/pf_core.c` |

How they meet. Tasks are threads that run the inner interpreter (`pfCatch`) on stacks of their own; they
share the dictionary, the variables of the compiler, the include stack and the input and output of the terminal, and communicate by semaphores,
mutexes, notifications and the stacks handed over at TASK and TASK.JOIN. The outer interpreter calls the
inner one for every word of a line and is called back by it (INCLUDE-FILE, INTERPRET, EVALUATE); an exception
goes up through both; it leaves the dictionary as it is, with the definition it interrupted still hidden. The
heap words and the creation of tasks call the memory pool when the build has no malloc. pfDoForth allocates
the task and the dictionary, runs words around the outer interpreter, and releases everything.

What is hard. Semaphore and mutex words are several library calls with other tasks, time-outs and
asynchronous cancellation in between; a task and its creator race for the task's memory; the target of a
notification reads and resets a counter others increment; the pool splits and merges blocks in place; FREE
must tell a block from an address that was one; the
include stack and the C stack must unwind in step whatever throws; THROW crosses loops, locals and nested calls
of `pfCatch`; double arithmetic is done by shifting cells, at the edge of their range; RESIZE-FILE
copies a file out and back through calls that may fail; FORGET moves three pointers back over memory
that frames, deferred words and hidden definitions still refer to; a dictionary file is written in place, with errors
nobody looks at, and read by other programs. PROJECT.json lists each hazard at its line
with the properties about it, and those no property covers with the reason.

What makes each component correct, in one line each: a semaphore never exceeds its maximum and never loses a
token or a waiting task; a mutex has one holder and its counter says so; a task's arguments and results
arrive, and its memory is freed once and by one side; no notification is lost or answered twice; the pool is
partitioned into blocks in use and coalesced free blocks; a heap word acts on a block in use and on no other;
a word returns to its caller with the return stack as it was, and a CATCH with the stacks as they were; words
compute what the standard says of them on every cell; a file keeps its bytes when a call fails; every way out of an include or an evaluation puts
the input back and closes the file; the dictionary is a stack of separate definitions of which only finished
ones are found, and what is left after a FORGET refers to nothing that is gone; a dictionary file loads to one whole
save or is refused; the program gives back memory and terminal however it ends.

## The modules

**SemaphoreSpec / Semaphore / SemaphoreProofs.** `Semaphore` has one action per C library call of a word:
SEMP.GIVE of a bounded semaphore is GiveBounded (the call), GiveLock, GiveGetValue, GivePost, GiveUnlock; a
TAKE is TryTake or Take and then Woken or TimedOut. `sem` is the value of `st->sem`, `mux` the owner of
`st->mux`, `pc[t]` the library call task t is in, `TOS[t]` the top of its stack. `SemaphoreSpec` is the atomic
semaphore: each word takes effect in one instant. The refinement mapping (Implements) lets a GIVE take effect
at its `sem_post`, or at its `sem_getvalue` when that finds the semaphore full. SEMP may fail (SEMP_fails, and SEMP_MUTEX_fails of `Mutex`): for
want of memory, or with the error of `sem_init` or of the initialization of the mutex (`Errnos`), which it leaves on the stack with no token made.

**Mutex / MutexProofs.** The words on the two kinds of mutex. The plain int `st->count` of a recursive mutex
is loaded (Load) and stored (StoreIncremented, StoreDecremented) in separate steps. `held[t]` is history: how
many TAKEs of t returned true and were not given back; `foreign` says that some task gave what it had not
taken, after which only the recursive mutex promises anything.

**TaskLifecycle / TaskProofs.** A creator and one task. The creator's words are cut where the thread can run in between:
TASK (allocation, pthread_create, initialization of the notification objects), JOIN and CANCEL (flag and
destruction, pthread_join, which may fail, the transfer of results). `before`, `asked` and `passed` are history: the stack of the creator
before TASK and JOIN, how many cells were asked for, and what arrived; JoinDelivers compares them. A program asks for no more results than
its word leaves. CANCEL and DETACH may come after TASK.DONE? has joined the thread: they then use the id of a thread that is no more, which
`faults` records and FreedOnce allows there and nowhere else. The thread is `ffTaskCatch` and its clean-up handlers.
Stacks are sequences, since `ffStack2Stack` copies in an order that matters. `faults` collects what C leaves
undefined: use after free, double free, use of destroyed objects, and the writes through a null pointer when there is no memory for the task or
its driver data.

**Notify / TaskProofs.** Notifiers and one target. A waiting word is the part before the condition wait
and the part after it (TAKE_resumed, OTHER_resumed); between them any notification can come. Spurious
wake-ups (WakesByItself) and time-outs are actions. `given`, `taken` and `lost` count increments.

**MemPoolSpec / MemPool / Heap / HeapProofs.** `MemPool` translates the list walking of `pf_mem.c`, with `list` the addresses on
`gMemList` and `size` the node sizes in cells: insertion with merging on both sides, allocation with
splitting. `MemPoolSpec` is the allocator a program relies on: NULL only if no gap is large enough. `Heap`
puts ALLOCATE, FREE and RESIZE on it: `mem` is the contents of the pool, in which the cell before a block holds its
validator (its address) until FREE or the nodes of the free list overwrite it. RESIZE is an allocation, the copy
and a release (`resizing` is the old block in between). `stray` is history: cells to which RESIZE has copied a
validator from behind the end of the old block; a cell that one RESIZE copies twice, because it lies in the new block too, is DEAD in the model.

**Cells / Text / Files / Inner / StartUpProofs.** `Cells` is the double arithmetic of `pf_inner.c` on cells of NBITS bits, `Text` the
functions of `pf_words.c` and `pf_text.c` on sequences of characters, `Files` the C library's streams, each call the set of its
outcomes, and RESIZE-FILE of `pf_fileio_stdio.c` built from them. `Inner` is `pfCatch`: `m` is its memory, registers
(`ip`, `sp`, `rp`, `lp`, `tos`), files and terminal, `calls` the registers of the calls of `pfCatch` that wait in CATCH; there is one operator per
token, from the memory before to the memory after, and the action Step runs the one `ip` is at, with what the
end of the loop does. Code, data and both stacks are addresses of one memory, so that a word may store into any of them; a
character takes a cell. `m.owed` is history: the calls that have not returned, with their registers and the cells of
the return stack below them, and for words of the library the cells of the data stack.

**Library.** The words of `system.fth`, `math.fth`, `numberio.fth` and `file.fth` about numbers, parsing and lines, as
sequences of words, and the compiler of `system.fth`, `case.fth` and `ansilocs.fth` that lays them down as threaded code for
`Inner` to run: each control structure leaves and resolves its marks as there. So what is checked of READ-LINE or FM/MOD is the
code that runs in the program, offsets and local variables included, on the primitives as `Inner` has them.

**StartUp / StartUpProofs.** pfDoForth on top of `Inner`: `at` is where it is, `live` what is allocated, `stack` the pointers of the task to its
stacks, `tty` the mode of the terminal, `prog` the dictionary that was loaded. Each allocation, the loading and the opening of a source file may fail; each
run of a word (AUTO.INIT, the entry point of a turnkey, words typed or read from a source file, AUTO.TERM) starts `Inner` and
is resumed by what it answers. Programs, the dictionaries, are a constant.

**Interp / InterpProofs.** `act` is the stack of C functions (pfQuit, ffIncludeFile, EVALUATE, pfCatch),
`istack` is gIncludeStack, `stream`, `src`, `num` and `toIn` are the input fields of the task, `file` says
which streams are open. An exception in flight is `exc`; IncludeFails, EvaluateFails, HandleIncludeError and
ResetForthTask are what each C function does with it. A line is its length and its text; a word takes one
character of it, since nothing here depends on how long a word is. `was`, kept in each activation, is the
input at the call: for EVALUATE it is also what the code keeps on the return stack.

**DictionarySpec / Dictionary / DictionaryProofs.** `dic` is `gCurrentDictionary` with `gVarContext`: `headers` and
`headersPtr` are the header area and `dic_HeaderPtr`, `code` and `dp` the code area and HERE, `context` the latest
header. Areas are arrays that FORGET does not clear, so that a stale cell can be met again. A cell says what it
is (`op`) and which address it stands for (`arg`): a call, an unresolved IF, the NFA a MARKER keeps, a frame of
IF.FORGOTTEN. The functions of `pfcompil.c` (Entry for CreateDicEntry, Room for ffCheckDicRoom, Comma, FinishSecondary,
FindNFA) and of `forget.fth` (ForgetNFA, VerifyForget, FrameLeft for the loop of [FORGET]) are operators on
`dic`; each word a user types is an action, also when it does nothing for want of a name or of room.
`state`, `stack`, `gDepthAtColon`, `rfence` and `lastForget` are STATE, the addresses of IFs on the data stack, the
depth `:` noted, RFENCE and LAST-FORGET. `end`, `open` and `start` are history: where the code of a word ended, which
header the `:` in progress made, and where the code being compiled began. THEN resolves IFs of that code only: an error
leaves the addresses of older ones on the stack, and a THEN typed for one of them would change a cell of a finished
definition, which is no correct input (`?PAIRS` is not modelled). `DictionarySpec` is a stack of definitions, each with a name, a visibility and a
body: the newest can be added (Define), changed (Rework) or revealed, a deferred word's vector set, and the stack cut (Forget).

**DictFile / DictFileProofs.** `file` is the dictionary file under stdio: `disk` is what the operating system has, `held` the units the
library holds back for the place after `base`. A seek or close lets them out, or a prefix of them when it fails; a
kill (Ends) loses what is held. `todo` is what ffSaveForth has still to write, header and chunks in their order, one
32-bit unit per step, each of which may fail; SaveTerm, WriteFormSize, SaveError, SaveClose and SaveInit are the rest of
the function, in order. `at` and `left` are what pfLoadDictionary has read and BytesLeft, one action per chunk. A
program is a build: version, cell size, byte order, float size, number of primitives. The first cell of `code` counts
AUTO.INITs, which stand for everything a daisy chain of them sets up. `saved`, `lost` and `threw` are history.

`Heap` extends `MemPool`; `StartUp` extends `Library`, which extends `Inner`, which extends `Text` and `Files`, both on `Cells`.
The other modules share no variables. They are components of one process that meet in calls the models take as
inputs: a task of `TaskLifecycle` may run any word, and the steps of `Semaphore`, `Mutex` and `Notify` hold
for any number of such tasks; what `Interp` calls a word that throws is a run of `Inner`.

Every module also holds, right before the definition it changes, a mutant of it for each of its properties:
a version of that piece of code with a plausible mistake, which the property rejects. They are not part of
the specification.

## The runs

| Run | Checks | Instance and why it is enough |
|---|---|---|
| `semaphore` | TypeOK, NeverGivesPastMax, Implements, CallsServed | 3 tasks with 2 calls each, maxima -1, 1, 2, a sem_t that saturates at 2, one task that is cancelled: two givers at one below the maximum with a taker between, and both reasons for a full semaphore |
| `mutex` | TypeOK, HolderOwns, CounterTells, TakeReturns | 3 tasks with 2 TAKEs or COUNT@s each, one cancelled: a holder, a waiter and a prober |
| `task` | TypeOK, FreedOnce, JoinDelivers, Returns | 2 cells, up to 2 arguments and results, 2 polls: order on the stacks shows with two |
| `notify` | TypeOK, IncrementsConserved, TakeNotEmpty, NoLostWakeup | 2 notifiers, 2 notifications each, 3 waiting words, values of 2 bits so that the counter wraps |
| `pool` | HeapTypeOK, Partition, Implements, HeapKeeps | `Heap` with 32-bit cells (blocks of 4), a pool of 23 cells, requests of -1, 2 and 7 cells, any address ever given out offered to FREE and RESIZE: five blocks, so that one is split, one is too small to split, neighbours on both sides merge, memory is used up, and a stale address lies at the start, in the middle and at the end of a newer block |
| `program` | TypeOK, CleanExit, ReturnsToCaller, CatchRestores, WordsCompute, FilesKeep | 10-bit cells and some thousand programs (below), 1 call of the C library that fails, buffers of 2, 3 streams: 344 thousand states |
| `interp` | TypeOK, FilesMatch, StdinAtBottom, CatchKeepsInput, SourceResumes, ExceptionsEnd | 2 files, 1 string, an include stack of 2 frames, 6 nested functions, 1 line typed and 1 in a file, a TIB of 3: lines that are saved and lines too long to be, a full include stack |
| `dictionary` | TypeOK, DefinitionsWhole, BalancedReveal, ForgetKeepsFrames, Implements | 2 names, 3 headers, 10 code cells, limits that leave room for 1 to 3 words, 2 values on the stack, 7 commands: a defining word, a word it makes, a redefinition, an abort and a FORGET between them; 2 names are enough for one word to hide, call or forget another |
| `dictfile` | TypeOK, LoadsWhatWasSaved, InitializedOnce | 2 saves and 2 starts by 4 builds (an old one, a newer version, one with more primitives, one with another byte order), 1 word defined, sizes 0 and 3, margins of 2 units, 4 files of other origin: a save over a save over what was loaded, a failure or kill at every unit of either |

Every bound is a constant: MaxSaves, MaxDefs, MaxStarts, MaxCalls, MaxArgs, MaxPolls, MaxNotifies, MaxWaits, MaxActivations, MaxLines,
MaxHeaders, MaxCode, MaxStack, MaxCommands, MaxCatch, MaxFails; so are the sizes NBITS, CodeSize, StackDepth, ReturnDepth, TIB_SIZE,
BufSize and FOPEN_MAX. A Step that would nest more than MaxCatch calls of pfCatch is not taken; no program of the instance is
stopped by it. All runs have CHECK_DEADLOCK FALSE, because with its calls used up,
its commands typed or its tasks cancelled a program stops, and a program of `program` that has ended or crashed does.

Three runs show a disagreement between the code and what it says of itself:

- `task_detach`: TASK.DETACH of a task that ends at that moment uses the thread id in memory the thread has
  freed (`pfcustom_task_pthreads.c:284`).
- `task_join_notify`: TASK.JOIN and TASK.CANCEL destroy the notification mutex and condition before the
  thread has ended (`:182`); it may be waiting on them.
- `interp_evaluate`: an error in EVALUATE in an included file closes that file twice. EVALUATE has no CATCH:
  a THROW skips its POP-SOURCE-ID, the include stack is one frame too deep, `ffIncludeFile` pops the wrong
  frame and `pfHandleIncludeError` closes the file a second time.

### The programs of `program`

MCStartUp writes its dictionaries as the compiler does, a family for each question: nested loops that are left early; `+LOOP` with
limits, starts and steps around 0, the largest number and the sign; two words with locals that call, EXECUTE or CATCH each other in
every combination, around one that throws, quits or ends the program; words that take more than there is; double addition,
multiplication and division at the edges of a cell; comparisons; the stack words on distinct cells; numbers read and printed in several bases, with every prefix;
WORD, SKIP, SCAN, CMOVE, COMPARE and ACCEPT on texts with the delimiter at each end; bits; files opened, read,
written, resized, renamed and deleted in each mode; and the words of the library on the same edges. 10 bits is the smallest width on which the half-cell
products, the sign and addresses up to the end of the stacks all fit; the algorithms do not depend on it, since every place the code
mentions a width (HNBITS, HIGH_BIT, PAD) is scaled with it. WordsCompute says for each word what it answers, by integer arithmetic and sets, not by
shifting; FilesKeep what a word leaves of each file, whichever call of the C library fails.

### What the models show beside the properties

Interp. CatchKeepsInput, SourceResumes and FilesMatch hold as long as no EVALUATE was left by a THROW (`abandoned`); afterwards the
program may read stream NULL (action NullStream). StdinAtBottom and ExceptionsEnd hold in every case.

Dictionary. A defining word without a name or without room changes
the second cell of the latest word (Implements allows Rework of the newest definition, and only that). A `;` typed
after an error reveals the definition the error interrupted, and since an error leaves `gDepthAtColon` alone, a
`:NONAME` after it may be refused for its depth; BalancedReveal is about definitions no error interrupted. Code
may run past `dic_CodeLimit`, which is looked at only when a header is made. A deferred word may keep the
vector of a word that was forgotten. A frame exactly at HERE counts as left (`here u>`), so ForgetKeepsFrames says
"not above HERE"; and a word that throws during FORGET leaves LAST-FORGET where it was (ForgetThrows). The word MARKER
makes resets the three pointers without running or unlinking the frames of IF.FORGOTTEN above them (`forget.fth:99`):
LAST-FORGET stays above HERE, an IF.FORGOTTEN at the same address then
links a frame to itself, and the next FORGET does not end; ForgetKeepsFrames is about FORGET.

DictFile. A file is safe against being loaded in part twice over, since the FORM
size is 0 until the data is out of the library, and since a reader that comes to the end of the file before BytesLeft
is 0 refuses it. The price is that the old file is gone as soon as a save begins, that ffSaveForth returns 0 although a seek
or the close has failed, and that a valid file with a chunk the reader does not know is refused: SkipChunk does not
take its size off BytesLeft, although the format is said to be based on IFF (`pf_save.c:49`). A program without names
runs no AUTO.INIT (InitializedOnce); if it asks (SAVE-FORTH) for names, the file it writes cannot be loaded. When
FindSpecialXTs fails the file is closed a second time (`pf_save.c:735`), which no file of a save leads to but that one.

Heap and pool. On 64-bit cells the pool of a PF_NO_MALLOC build is not sound, and `pool` is an instance with 32-bit cells: a rest of
PF_MEM_BLOCK_SIZE, 16 bytes, becomes a free block (`pf_mem.c:310`), but a list node then takes 24 bytes. pfInitMemoryAllocator runs
after the task has been allocated. RESIZE copies as many cells as the new block has (`pf_inner.c:1569`), from beyond the old block when it grows: the
validator of a neighbour can so come to stand where a stale address looks for it, and FREE accepts that address.
HeapKeeps allows exactly this (`stray`).

StartUp. pfInit reads `lTask->Base` before pfDoForth asks whether there is an lTask: without memory for it the program crashes.
Without memory for `cftd` it answers gVarByeCode, 0, and keeps lTask. pfCreateLocalTask ignores the result of
pfCreateTaskStacks, and the first word runs on a stack that is not there (`faults`, at = "crashed"). After error2 only `cftd` is released, and
pfLoadDictionary and pfLoadStaticDictionary leave a dictionary they cannot fill. When a stack could not be allocated, the pointers of those
after it are never written, and pfDeleteTaskStacks frees what they hold (FREE_VAR asks only for null); if no word has run, the
program gets there (`faults` of DeleteAll, which CleanExit allows for such a task only). BYE in a turnkey or in a source file makes the program answer -256.
The answer is -1 without a dictionary or when AUTO.INIT failed; after a session with the user it is what RETURN-CODE or, when that is 0, BYE-CODE holds.
CleanExit allows for all of this. ffTaskNew, too, uses TT->lTask before it asks for TT (`cf_task.c:52`), and pt without asking (TaskLifecycle).

Words. `LOOP` and `+LOOP` take the overflow of a signed cell as a wrap, which C does not promise. `CATCH` of a primitive that moves the
return stack, such as `>R`, runs for ever. MU/MOD is wrong for divisors above the highest bit: its shift loses the carry that UM/MOD
keeps. `D<` is wrong when the difference overflows; D> and RESIZE-FILE use it. ffNumberQ takes "-" and "$" alone as 0, the word `((NUMBER?))` reads past a
prefix alone, and "." and "-." are the double 0 there; ffNumberQ extends the sign of 'c', `((NUMBER?))` does not. Names of more than 127 characters have
a negative count, and characters from 128 compare as negative. The digits of the most
negative double in base 2 and its sign are 129 characters, and PAD is 128 above HERE: `(D.)` writes one below HERE,
into the latest definition (`numberShown` leaves this number out). At the end of the input ACCEPT stores 0xFF until its buffer is full, and KEY
answers -1. The 0 that should end the line of ACCEPT ("NUL terminate line") goes through a pointer that is already at its end (`pf_io.c:145`), to twice the
length of the line, which is behind the buffer when the line fills half of it or more without filling it: WordsCompute says that the characters stay in the buffer
and that ACCEPT stores this one 0 besides. Each character deleted in ACCEPT advances OUT by 3. 0STACKP sets the stack pointer two 4-byte cells down, also where a cell has 8 bytes.

Files. OPEN-FILE with W/O has the mode "w", which empties an existing file. RESIZE-FILE reopens a file it shrinks with
"w+b": a stream opened R/O becomes writable, its file is cut, and a W/O stream cannot be shrunk except to 0, since it cannot be read. When the
reopening fails the program keeps an address of a stream that is closed (words on it are left to no promise). READ-FILE answers no
errors; FILE-SIZE ignores the results of its seeks. UdToUint64 with 32-bit cells shifts the wrong way, so that a size is taken modulo 2^32. The length
of a file name is compared as signed: a negative one passes.

Tasks. TASK.NOTF-SET is to set the value "unless another notification is pending" but tests a flag that nothing sets
(`pfcustom_task_pthreads.c:554`); Notify models what the code does, and no property is about it. pfTaskData_t, gIncludeStack, the pad of
ConvertNumberToText and HLD are one for all tasks: two tasks that parse, evaluate or print mix their data.

## Fairness

A task inside a word goes on when the C library lets it: weak fairness of each task's steps, since threads are
preemptive, a timed wait ends, and a mutex or token that stays free is obtained by a task that keeps waiting
for it. Nothing stronger: glibc promises no order among waiters. CallsServed therefore allows that others use
the tokens up, and TakeReturns and the GIVEs of CallsServed hold for tasks that make finitely many calls (MaxCalls), not
against a task that takes the mutex again and again. No task has to begin a call: the GIVE that ends a holding is fair in Mutex
because TakeReturns is about programs that give back what they take. In TaskLifecycle the creator's words and
the thread's clean-up are fair, the task's own word is not: it may loop for ever, and Returns must hold
then too. In Notify only the words after a wait are fair. In Interp only unwinding is: Forth words need not
return. StartUp and Heap state no fairness: their properties are about steps.

## What is proved

tlapm proves the following for every value of the constants, from the named assumptions of the modules. SemaphoreAssumption,
MutexAssumption, NotifyAssumption, LifecycleAssumption, InterpAssumption and DictionaryAssumption say that sizes and bounds are natural
numbers, exceptions and error numbers are integers, "nobody", the terminal and NULL are not tasks or files, and the
empty name and the name of INCLUDE's headers are not names of words. MemPoolAssumption says that a block has room for the
node of the free list, as blocks of 16 bytes have with 32-bit cells, and that the pool is large enough for the alignment of its
start and its end to leave a block between them; HeapAssumption adds that the cells of a request are an integer. DictFileAssumption says that
the fields of a build and the sizes asked for, a dictionary with its margins, and its file with all headers, in bytes, are smaller
than the numbers that the IDs of chunks make (from 'BADF', 0x42414446, on: about a gigabyte; the bound on definitions keeps them there, a
cell for an address of memory does in the code), and that a file of
other origin has no P4DI in it. CellAssumption says that a cell has an even number of bits; InnerAssumption that sizes are positive and all
addresses fit in a cell; StartUpAssumption that the code of a program is cells and fits in the code segment. Nothing is
assumed of what the code does.

- `SemaphoreProofs`: TypeCorrect, BoundRespected, Refinement (the whole safety part of
  Implements). Inductive invariant: TypeOK, OneGiver, PostSafe and GivingIsLive. PostSafe alone is not
  inductive: that the value only falls between `sem_getvalue` and `sem_post` needs one giver at a time
  (OneGiver), and that needs to know that whoever is past the lock works on a live, bounded semaphore.
- `MutexProofs`: TypeCorrect, MutualExclusion (HolderOwns, both kinds of mutex) and CounterTellsDepth (CounterTells, from the lemmas
  CounterCorrect and HeldLooksHeld). Inductive invariant: for programs
  that give only what they took, the owner's depth is `held`, plus one inside a word (OwnerDepth), a loaded
  value of the counter is current (LoadedIsCurrent) and the counter is at least `held` (CounterCoversHeld);
  for all programs, RecursiveOwner. The types need the calls counted: a recursive mutex is as deep as its owner's calls allow.
- `TaskProofs`, of the life cycle: TypeCorrect, NothingFreedTwice (FreedOnce) and JoinCorrect (JoinDelivers, an action
  property). Inductive invariant: whose turn it is to free the two structures follows from where the creator is until it has joined,
  cancelled or detached (NotStarted, Attached, Closed), and from where the thread is once it is detached (Detached). JoinCorrect needs that the cells
  taken from the creator stand on the stack of the task until its word begins (Arguments), and what is on it between the end of the word and the
  transfer (ResultOnStack).
- `TaskProofs`, of notifications: NoIncrementLost from Numbers (given = taken + notify_val + lost while only increments are used);
  TakeAnswersValue from WokenHasValue (a target that was signalled has a value to find); NotifyTypeCorrect, for which the disjunction
  of two values below 2^Width has to be shown to be one: there is a number with any given set of bits, by induction from the low bit up.
- `StartUpProofs`, of the whole program, for every dictionary, that is for code that stores, branches and moves the stack pointers as it
  likes: CleansUp (CleanExit) and ThrowsComeBack (the part of CatchRestores named throwRestores, which needs no correct code). Inductive invariant of the
  first, ExitInv: words run only in the places where pfDoForth waits for them (RunsInside), the stack pointers
  tell which stacks are there until they are freed (PointersTell), and what is allocated follows from the place (Starting,
  During). It needs that no word loses a register, which StepWhole shows for every primitive. Of the second, CatchInv: each level of `pfCatch` started one cell
  below the stack pointers of the CATCH under it (Above), no level that waits or runs has thrown, and one that has thrown stands at its own
  start. The lemmas ...Keep say for each primitive that it leaves the start of its level and the exception alone, or throws.
- `StartUpProofs`, of `Cells`, for every width: DPlusExact, DMinusExact, UMTimesExact, MTimesExact (also for the most negative
  cells), UMSlashModExact, MUSlashModExact and LoopsEndWhereTheyShould (the test of +LOOP is Crosses, which counts).
  They are what WordsCompute says of these primitives on 10 bits. UM/MOD keeps that quotient, divisor and remainder make up the
  dividend as the divisor is shifted down (Dividing), MU/MOD that quotient, remainder and what is left of the dividend make up the dividend
  shifted up (Shifting), so a bit that falls off the quotient would be one that the dividend does not have. MUSlashModExact is stated of
  divisors up to the highest bit, since for others the code is wrong (above). The rounds are recursive functions; that they exist, and
  what holds after each, is had by induction over the set of rounds for which it holds (SetInduction, from WFMin).
- `HeapProofs`: HeapTypeCorrect, PoolPartitioned (Partition), PoolKeepsPromise (the refinement of MemPoolSpec) and HeapKept (HeapKeeps),
  for pools, blocks and requests of any size. Inductive invariant: free blocks and blocks in use tile the pool, no block is both, no two free
  blocks touch (Pool), and the cell before each block in use holds its validator (Validators), until RESIZE damages what is not its own. That two
  free blocks never touch, since insertion merges on both sides, is what
  the refinement needs: a request fails only when no gap between blocks in use is large enough.
- `InterpProofs`: TypeCorrect, TerminalAtBottom (StdinAtBottom), CatchComesBack (CatchKeepsInput), LineResumes (SourceResumes) and FilesInStep
  (FilesMatch). Inductive invariant of the first two: StdinAtBottom with the types of
  input, include stack, activations and files; a pop puts back what a push has saved, so the frames carry the
  type of the input. StdinAtBottom needs nothing else: whatever a THROW abandons, the only frame that saves
  the terminal is the lowest, because only INCLUDE-FILE and EVALUATE push and neither pushes the terminal. The others need that, as
  long as no EVALUATE was abandoned, the depth, stream, source and line that each activation remembers are those it had, as the frames above
  it still say (Nested), and that no open file is in two frames (FilesInv).
- `DictionaryProofs`: DefinitionsStayWhole (DefinitionsWhole, from the lemmas ChainCorrect, WordsApart and CallsStayLive), TypeCorrect,
  StackOfDefinitions (Implements: the dictionary is the stack of definitions of DictionarySpec), RevealedBalanced (BalancedReveal), FramesKept
  (ForgetKeepsFrames) and FindLatest.
  Inductive invariant: the dictionary is
  sound (Sound), that is: fields in their areas (Memory), headers linked in order and the starts and ends of
  their code in the same order (Ordered), a call below the start of a header leads below it too (Calls), an
  NFA kept below the start of a header is an older one's (Kept), and a definition that can be found has code (Finished). That calls stay live alone does not survive a FORGET: that
  the code left calls nothing above the new HERE needs Calls at every header; and a MARKER forgets a header
  that exists only by Kept. One lemma per function of the code says that it keeps Sound, and what it
  does to the definitions (Moved): it adds one, changes the newest, sets a vector or cuts the stack. From that, Ordered and Finished the
  refinement follows, since no body reaches into the next. RevealedBalanced (for THENs of the code being compiled) needs the depth of the stack while a definition is open (Compiling, Opened). The loop
  of [FORGET] that drops frames (FrameLeft, a recursive function) is reasoned about as a walk: a sequence of frames that exists because
  each is below the one before. The proofs need no bound on commands, room or stack.
- `DictFileProofs`: TypeCorrect, SaveLoads (LoadsWhatWasSaved) and InitializedAlways (InitializedOnce), for any builds, sizes and margins and any number
  of saves and starts. Inductive invariant: what is on the disk and in the buffer, with what is still to be written, is the form of the save (Saving),
  so that whatever prefix of the buffer goes out at a failure or a kill, the file left is either finished, or broken in one of the few ways that
  Broken lists (Recoverable): a beginning of the form, with 0 or the mark of a bad file where the FORM size should be, and perhaps one unit behind.
  While the file is read, the position is between two chunks of that form, and BytesLeft has the value that the
  FORM size determines (Reading): in a broken file it has wrapped around, or was read from the mark, and then exceeds what
  the file can still hold, so it never comes to 0 at the end of a chunk (ReadToEnd). Conversely no step of the reader refuses a finished
  file of a compatible build (FinishedReadable), which needs the sizes of P4DI to be those the chunks fit in (Sized, from Room).
  FormLayout, which says at which place each field of a form stands, is the lemma the rest cites most. The invariant was checked with TLC on a
  small instance before it was proved, and that check found that LoadsWhatWasSaved had to name the primitives of the dictionary that was saved
  (`savedBy`), not of the program that saved it: a dictionary loaded from an older build keeps the older number.

Only model-checked:

- liveness (CallsServed, TakeReturns, Returns, NoLostWakeup, ExceptionsEnd), which is beyond the prover;
- TypeOK of StartUp, ReturnsToCaller, the rest of CatchRestores, and FilesKeep: they hold of the programs of the instance, which use the stacks as
  the compiler does, and not of code in general, which may overflow a stack or move the return stack away;
- WordsCompute apart from the theorems on Cells: what the words of the library compute is induction over data.

## Not modelled

- Floating point (`pfinnrfp.h`, `pf_float.h`, `floats.fth`): arithmetic of the C library on doubles, out of TLC's reach.
- Scheduling words, MS and the clock: they change no state of the program. (MS never closes the descriptor of its timer, and the macro W6T of
  `pfcustom_mt.c` registers words through W51.)
- In Inner: the words on 16-bit memory, the addresses of variables other than BASE, OUT, >IN, RETURN-CODE and BYE-CODE, the calls of custom C
  functions, tracing, a token that is none, words that compile (Dictionary has them), stacks that overflow (STACK_SAFETY cells are there
  and nothing checks); what is
  undefined in C (a shift by more than a cell, division by 0) is in no program of the instance, and a word on a stream that is not open has no step.
- In Text: messages, DUMP, `.S`, the words that print to a width, strings.fth.
- In Files: the buffers of stdio, and so the order of bytes on the disk; the stubs of PF_NO_FILEIO; the comment `(` that reads on over lines. An
  output that fails calls `exit(1)` and leaves the terminal raw. A character takes a cell, so alignment is not an issue.
- In Library: structures, strings, history, SEE, TRACE and other tools; the checks of the compiler (`?COMP`, `?PAIRS`), since its
  input here is correct code.
- In StartUp: the command line, the banner, the steps in pfCreateDictionary.
- In DictFile: a power failure, after which units may be missing from the middle of a file (nothing calls fsync);
  other tasks that change the dictionary while it is written, and other programs that read the file then; units that
  are written in part; the context (it goes with the header pointer), stack sizes and unused fields of P4DI; the tools that
  convert a dictionary to another byte order.
- In Dictionary: IMMEDIATE, `[` and `]`, literals, loops and the other control words (IF and THEN stand for them),
  RECURSE, PRIVATIZE, names too long for a header, THEN applied to anything but an IF of the code being compiled,
  tasks that compile at the same time, and the building of the kernel. The words a user starts with are one
  address, 0: FORGET below RFENCE is refused.
- In Interp: the data stack and STATE (M_THROW resets the stack pointers; Inner has it). Characters of a line, and so `lastChar` of
  `readLineFromStream`. Positive THROW codes out of ACCEPT. The SOURCE words used outside EVALUATE.
- In TaskLifecycle: a task that joins itself (EDEADLK), and words that leave fewer cells than TASK.JOIN asks for.
- Several tasks in the outer interpreter, the parser or the number words at once, which share their data without any lock: the hazard is listed, and
  there is no text that says what they should do.
- Terminals of other systems, builds, the C glue, tests: input and output and straight-line code.

## Plan

1. Done: Semaphore, Mutex, TaskLifecycle, Notify, MemPool, Interp, Dictionary, DictFile, with their abstract specifications; Heap over the
   pool; Cells, Text, Files, Inner, Library and StartUp.
2. Done: the proofs above, which leave of the safety properties only those listed as model-checked.
3. Done: Cells for every width, with powers of 2 as a recursive function and induction from WFMin of WellFoundedInduction, which takes a set
   and not an operator (as Greatest of `DictionaryProofs` does).
4. What a further step could prove: that code laid down by the compiler of `Library` keeps the return stack balanced, from which
   ReturnsToCaller would follow for every such program; it needs a typing of threaded code as a premise on Programs.
