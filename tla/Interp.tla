------------------------------- MODULE Interp -------------------------------
(***************************************************************************)
(* The outer interpreter of one task: where input comes from, and what a   *)
(* THROW does to it.  pfQuit and ffIncludeFile run ffOuterInterpreterLoop, *)
(* which calls ffInterpret, which calls pfCatch for every word, which may  *)
(* include a file, evaluate a string, CATCH another word or THROW: the C   *)
(* functions nest on the C stack, the input streams on gIncludeStack, and  *)
(* the two must stay in step.                                              *)
(* src/csrc/pfcompil.c, pf_inner.c, pf_core.c, src/fth/misc1.fth           *)
(***************************************************************************)
EXTENDS Integers, Sequences, SequencesExt

CONSTANTS Files,              \* files a program includes
          Strings,            \* strings it evaluates
          Texts,              \* what a line says
          STDIN, NULL,        \* stream pointers that are no file
          StringLength,       \* their length
          TIB_SIZE,           \* 256 in the code
          MAX_INCLUDE_DEPTH,  \* 16 in the code
          MaxActivations,     \* bound: C functions nested
          MaxLines            \* bound: lines typed, and lines of a file

ASSUME InterpAssumption ==
  /\ STDIN \notin Files /\ NULL \notin Files /\ STDIN # NULL
  /\ "TIB" \notin Strings
  /\ TIB_SIZE \in Nat \ {0} /\ StringLength \in 0 .. TIB_SIZE /\ MAX_INCLUDE_DEPTH \in Nat
  /\ MaxActivations \in Nat /\ MaxLines \in Nat

VARIABLES
  act,     \* the C functions on the stack, the running one last
  exc,     \* the exception the function that just returned hands up, or 0
  istack,  \* gIncludeStack[0 .. gIncludeIndex - 1]
  stream,  \* td_InputStream
  src,     \* td_SourcePtr: "TIB" or a string
  num,     \* td_SourceNum
  toIn,    \* td_IN
  tib,     \* what the line in td_TIB says
  file,    \* lines left in an open file, or CLOSED
  typed,   \* lines read from the keyboard
  abandoned, \* an EVALUATE was left by THROW (history)
  leaked,  \* files opened and never closed (history)
  faults   \* closes and reads the C library leaves undefined

source == <<stream, src, num, toIn>>
ended == <<abandoned, leaked>>
vars == <<act, exc, istack, source, tib, file, typed, ended, faults>>

ABORT == -1
BYE == -256
UNDERFLOW == -4
UNDEFINED_WORD == -13
CLOSED == -1
Exceptions == {ABORT, BYE}

Lengths == 0 .. TIB_SIZE

Top == Last(act)
Forth(a) == Last(a).kind \in {"word", "catch"}   \* a runs pfCatch
Running == act # <<>> /\ exc = 0 /\ Forth(act)
\* What a function leaves behind when it is done: the input to go on with.
Input == [stream |-> stream, src |-> src, num |-> num, toIn |-> toIn,
          text |-> IF src = "TIB" /\ num > 0 THEN tib ELSE NULL, depth |-> Len(istack)]
Called(kind, f) == [kind |-> kind, file |-> f, at |-> "refill", was |-> Input]
At(place) == [act EXCEPT ![Len(act)].at = place]
Looping == act # <<>> /\ Top.kind \in {"quit", "include"}

Init ==
  /\ stream = STDIN /\ src = "TIB" /\ num = 0 /\ toIn = 0
  /\ tib \in Texts
  /\ istack = <<>> /\ exc = 0 /\ typed = 0
  /\ file = [f \in Files |-> CLOSED]
  /\ act = <<[kind |-> "quit", at |-> "refill"]>>
  /\ abandoned = FALSE /\ leaked = {} /\ faults = {}

-----------------------------------------------------------------------------
(* gIncludeStack.                                                          *)

\* Mutant of Kept: off by one.
KeptShort(n) == n > 0 /\ n < TIB_SIZE - 2
\* A line is copied if it is not empty and leaves room for a terminator.
Kept(n) == n > 0 /\ n < TIB_SIZE - 1

\* Mutant of Full: one frame too many.
FullLate == Len(istack) > MAX_INCLUDE_DEPTH
Full == Len(istack) >= MAX_INCLUDE_DEPTH
Frame(n) == [id |-> stream, toIn |-> toIn, num |-> n,
             tib |-> IF Kept(n) THEN tib ELSE NULL]

\* What ffPopInputStream goes back to; it returns the stream it leaves.
Restored == IF istack = <<>> THEN Frame(num) ELSE Last(istack)

\* Mutant of Pop: gIncludeStack[gIncludeIndex - 1] without the decrement.
PopPeeks ==
  /\ istack' = istack
  /\ stream' = Restored.id
  /\ tib' = IF Kept(Restored.num) THEN Restored.tib ELSE tib

Pop ==
  /\ istack' = IF istack = <<>> THEN <<>> ELSE Front(istack)
  /\ stream' = Restored.id
  /\ tib' = IF Kept(Restored.num) THEN Restored.tib ELSE tib

\* sdCloseFile is fclose, which must not be given a file twice.
Close(f) ==
  /\ file' = [file EXCEPT ![f] = CLOSED]
  /\ faults' = IF file[f] = CLOSED THEN faults \cup {"fclose_of_closed_file"} ELSE faults

-----------------------------------------------------------------------------
(* Exceptions.                                                             *)

\* M_THROW in the pfCatch on top of "a": it returns e to CATCH, or to
\* ffInterpret.
Throw(a, e) == act' = Front(a) /\ exc' = IF Last(a).kind = "catch" THEN 0 ELSE e

\* The word on top returns.
Return ==
  /\ Running
  /\ act' = Front(act)
  /\ UNCHANGED <<exc, istack, source, tib, file, typed, ended, faults>>

\* THROW, ABORT, BYE.
THROW ==
  /\ Running
  /\ \E e \in Exceptions : Throw(act, e)
  /\ UNCHANGED <<istack, source, tib, file, typed, ended, faults>>

CATCH ==
  /\ Running /\ Len(act) < MaxActivations
  /\ act' = Append(act, [kind |-> "catch", was |-> [stream |-> stream, src |-> src, depth |-> Len(istack)]])
  /\ UNCHANGED <<exc, istack, source, tib, file, typed, ended, faults>>

-----------------------------------------------------------------------------
(* ffRefill: a line into the memory at td_SourcePtr.                       *)

Read(n, t) ==
  /\ num' = n /\ toIn' = 0
  /\ tib' = IF src = "TIB" /\ n > 0 THEN t ELSE tib
  /\ UNCHANGED <<stream, src>>

ReadLine(n, t) ==
  \/ /\ stream = STDIN /\ typed < MaxLines
     /\ typed' = typed + 1
     /\ Read(n, t)
     /\ UNCHANGED <<file, faults>>
  \/ /\ stream \in Files /\ file[stream] \notin {CLOSED, 0}
     /\ file' = [file EXCEPT ![stream] = @ - 1]
     /\ Read(n, t)
     /\ UNCHANGED <<typed, faults>>

\* At the end of a file the line is empty.  (A closed file has undefined
\* contents; here it has none.)
ReadNothing ==
  /\ stream \in Files /\ file[stream] \in {CLOSED, 0}
  /\ num' = 0 /\ toIn' = 0
  /\ faults' = IF file[stream] = 0 THEN faults ELSE faults \cup {"fgetc_of_closed_file"}
  /\ UNCHANGED <<stream, src, tib, file, typed>>

\* ACCEPT is Forth code: it may THROW, the key ^D throws BYE.
AcceptThrows ==
  /\ stream = STDIN
  /\ toIn' = 0
  /\ UNCHANGED <<stream, src, num, tib, file, typed, faults>>

\* REFILL, in a word, is false if ACCEPT throws.
REFILL ==
  /\ Running
  /\ (\E n \in Lengths, t \in Texts : ReadLine(n, t)) \/ ReadNothing \/ AcceptThrows
  /\ UNCHANGED <<act, exc, istack, ended>>

-----------------------------------------------------------------------------
(* ffOuterInterpreterLoop and ffInterpret.                                 *)

Refill ==
  /\ exc = 0 /\ Looping /\ Top.at = "refill"
  /\ \E n \in Lengths, t \in Texts : ReadLine(n, t)
  /\ act' = At("interpret")
  /\ UNCHANGED <<exc, istack, ended>>

\* The end of a file ends ffIncludeFile; pfQuit tries again.
RefillEOF ==
  /\ exc = 0 /\ Looping /\ Top.at = "refill"
  /\ ReadNothing
  /\ act' = At("eof")
  /\ UNCHANGED <<exc, istack, ended>>

RefillThrows ==
  /\ exc = 0 /\ Looping /\ Top.at = "refill"
  /\ AcceptThrows
  /\ exc' \in Exceptions
  /\ UNCHANGED <<act, istack, ended>>

Interpreting ==
  act # <<>> /\ exc = 0 /\ ~Forth(act) /\ (Top.at = "interpret" \/ Top.kind = "evaluate")

\* ffLWord takes the next word; it is a number, is compiled, or is executed.
\* (Here a word is one character.)
Interpret ==
  /\ Interpreting /\ toIn < num
  /\ toIn' = toIn + 1
  /\ \/ UNCHANGED act
     \/ Len(act) < MaxActivations /\ act' = Append(act, [kind |-> "word"])
  /\ UNCHANGED <<exc, istack, stream, src, num, tib, file, typed, ended, faults>>

\* An unknown word.
Undefined ==
  /\ Interpreting /\ toIn < num
  /\ toIn' = toIn + 1
  /\ exc' = UNDEFINED_WORD
  /\ UNCHANGED <<act, istack, stream, src, num, tib, file, typed, ended, faults>>

\* ffOK at the end of the line.
OK ==
  /\ Interpreting /\ toIn >= num /\ Looping
  /\ act' = At("refill")
  /\ exc' \in {0, UNDERFLOW}
  /\ UNCHANGED <<istack, source, tib, file, typed, ended, faults>>

-----------------------------------------------------------------------------
(* INCLUDE-FILE: ffIncludeFile.                                            *)

\* The file has just been opened.  At the depth limit it stays open.
INCLUDE_FILE(f) ==
  /\ Running /\ Len(act) < MaxActivations
  /\ file[f] = CLOSED /\ f \notin leaked
  /\ \E n \in 0 .. MaxLines : file' = [file EXCEPT ![f] = n]
  /\ IF Full
       THEN /\ Throw(act, ABORT)
            /\ leaked' = leaked \cup {f}
            /\ UNCHANGED <<istack, stream>>
       ELSE /\ istack' = Append(istack, Frame(num))
            /\ stream' = f
            /\ act' = Append(act, Called("include", f))
            /\ UNCHANGED <<exc, leaked>>
  /\ UNCHANGED <<src, num, toIn, tib, typed, abandoned, faults>>

\* Mutants of IncludeEnd: the exception returned without closing the file, or
\* without popping the stream.
IncludeEndLeaks(e) ==
  /\ Pop /\ toIn' = Restored.toIn /\ num' = Restored.num
  /\ IF e = 0
       THEN Close(Top.file) /\ act' = Front(act) /\ exc' = 0
       ELSE Throw(Front(act), e) /\ UNCHANGED <<file, faults>>
  /\ UNCHANGED <<src, typed, ended>>

IncludeEndUnpopped(e) ==
  /\ IF e = 0
       THEN Pop /\ toIn' = Restored.toIn /\ num' = Restored.num /\ act' = Front(act) /\ exc' = 0
       ELSE Throw(Front(act), e) /\ UNCHANGED <<istack, stream, num, toIn, tib>>
  /\ Close(Top.file)
  /\ UNCHANGED <<src, typed, ended>>

\* The rest of ffIncludeFile, and the M_THROW of the word that called it.
IncludeEnd(e) ==
  /\ Pop /\ toIn' = Restored.toIn /\ num' = Restored.num
  /\ Close(Top.file)
  /\ IF e = 0 THEN act' = Front(act) /\ exc' = 0 ELSE Throw(Front(act), e)
  /\ UNCHANGED <<src, typed, ended>>

IncludeDone == Looping /\ exc = 0 /\ Top.kind = "include" /\ Top.at = "eof" /\ IncludeEnd(0)

IncludeFails == Looping /\ exc # 0 /\ Top.kind = "include" /\ IncludeEnd(exc)

-----------------------------------------------------------------------------
(* EVALUATE: SOURCE >R >R SET-SOURCE -1 PUSH-SOURCE-ID >IN @ >R 0 >IN !    *)
(* INTERPRET POP-SOURCE-ID DROP R> >IN ! R> R> SET-SOURCE                  *)

EVALUATE(s) ==
  /\ Running /\ Len(act) < MaxActivations
  /\ src' = s /\ num' = StringLength
  /\ IF Full
       THEN /\ Throw(act, ABORT)
            /\ abandoned' = TRUE
            /\ UNCHANGED <<istack, stream, toIn>>
       ELSE /\ istack' = Append(istack, Frame(StringLength))
            /\ stream' = NULL /\ toIn' = 0
            /\ act' = Append(act, Called("evaluate", NULL))
            /\ UNCHANGED <<exc, abandoned>>
  /\ UNCHANGED <<tib, file, typed, leaked, faults>>

EvaluateEnd ==
  /\ Interpreting /\ toIn >= num /\ Top.kind = "evaluate"
  /\ act' = Front(act)
  /\ src' = Top.was.src /\ num' = Top.was.num /\ toIn' = Top.was.toIn
  /\ Pop
  /\ UNCHANGED <<exc, file, typed, ended, faults>>

\* INTERPRET throws, and the rest of EVALUATE is not reached.
EvaluateFails ==
  /\ exc # 0 /\ act # <<>> /\ Top.kind = "evaluate"
  /\ Throw(Front(act), exc)
  /\ abandoned' = TRUE
  /\ UNCHANGED <<istack, source, tib, file, typed, leaked, faults>>

-----------------------------------------------------------------------------
(* pfQuit.                                                                 *)

\* The end of a file, when an abandoned EVALUATE has left one on the stack.
QuitAgain ==
  /\ exc = 0 /\ Looping /\ Top.kind = "quit" /\ Top.at = "eof"
  /\ act' = At("refill")
  /\ exc' \in {0, UNDERFLOW}
  /\ UNCHANGED <<istack, source, tib, file, typed, ended, faults>>

Ends ==
  /\ exc = BYE /\ act # <<>> /\ Top.kind = "quit"
  /\ act' = <<>>
  /\ UNCHANGED <<exc, istack, source, tib, file, typed, ended, faults>>

Failed == act # <<>> /\ Top.kind = "quit" /\ exc \notin {0, BYE}

\* pfHandleIncludeError pops and closes until it has popped PF_STDIN.
HandleIncludeError ==
  /\ Failed /\ stream \in Files
  /\ Pop /\ toIn' = Restored.toIn /\ num' = Restored.num
  /\ Close(stream)
  /\ UNCHANGED <<act, exc, src, typed, ended>>

\* Mutant of ResetForthTask: pfHandleIncludeError is not called.
ResetOnly ==
  /\ Failed
  /\ stream' = STDIN /\ toIn' = num
  /\ act' = At("refill") /\ exc' = 0
  /\ UNCHANGED <<istack, num, src, tib, file, typed, ended, faults>>

\* The last pop, then pfResetForthTask.
ResetForthTask ==
  /\ Failed /\ stream = STDIN
  /\ istack' = IF istack = <<>> THEN <<>> ELSE Front(istack)
  /\ stream' = STDIN /\ num' = Restored.num /\ toIn' = num'
  /\ act' = At("refill") /\ exc' = 0
  /\ UNCHANGED <<src, tib, file, typed, ended, faults>>

\* The end of the process.
Killed == act' = <<>> /\ exc' = 0 /\ UNCHANGED <<istack, source, tib, file, typed, ended, faults>>

\* A string has no stream: REFILL, at a loop's end of line too, is fgetc(NULL),
\* and HandleIncludeError fclose(NULL).
NullStream ==
  /\ stream = NULL /\ act # <<>>
  /\ Running \/ (exc = 0 /\ Looping /\ Top.at = "refill") \/ Failed
  /\ Killed

\* A FILE used after fclose may end the program at any time, or never.
Corrupted == faults # {} /\ act # <<>> /\ Killed

Unwinding == IncludeFails \/ EvaluateFails \/ Ends \/ HandleIncludeError \/ ResetForthTask

Next ==
  \/ Return \/ THROW \/ CATCH \/ REFILL
  \/ Refill \/ RefillEOF \/ RefillThrows \/ Interpret \/ Undefined \/ OK
  \/ (\E f \in Files : INCLUDE_FILE(f)) \/ IncludeDone
  \/ (\E s \in Strings : EVALUATE(s)) \/ EvaluateEnd
  \/ QuitAgain \/ Unwinding \/ NullStream \/ Corrupted

Spec == Init /\ [][Next]_vars

\* The C code goes on; whether Forth words return is up to the program.
FairSpec == Spec /\ WF_vars(Unwinding) /\ WF_vars(Failed /\ NullStream)

-----------------------------------------------------------------------------
Streams == Files \cup {STDIN, NULL}
Included == {stream} \cup {istack[i].id : i \in DOMAIN istack}
left(i) == Len(act') \in 1 .. i - 1 /\ ~abandoned'

TypeOK ==
  /\ \A i \in DOMAIN act : act[i].kind \in {"quit", "include", "evaluate", "word", "catch"}
  /\ exc \in Exceptions \cup {0, UNDERFLOW, UNDEFINED_WORD}
  /\ Len(istack) <= MAX_INCLUDE_DEPTH
  /\ \A i \in DOMAIN istack : istack[i].id \in Streams
  /\ stream \in Streams /\ src \in {"TIB"} \cup Strings
  /\ num \in 0 .. TIB_SIZE /\ toIn \in 0 .. TIB_SIZE
  /\ tib \in Texts
  /\ file \in [Files -> {CLOSED} \cup 0 .. MaxLines]

(* CATCH returns to the input it was called with, whether the word it ran  *)
(* returned or threw out of any number of included files (t_include.fth    *)
(* catches $INCLUDE), unless an EVALUATE was left by a THROW.              *)
catchKeepsInput ==
  \A i \in DOMAIN act : act[i].kind = "catch" /\ left(i) =>
    stream' = act[i].was.stream /\ src' = act[i].was.src /\ Len(istack') = act[i].was.depth
CatchKeepsInput == [][catchKeepsInput]_vars

(* When an included file or an evaluated string is done, or an included    *)
(* file has failed, the line that asked for it is back, to be interpreted  *)
(* from where it was: the line is in the TIB, and leaves room in it.       *)
sourceResumes ==
  \A i \in DOMAIN act :
    /\ act[i].kind \in {"include", "evaluate"} /\ left(i)
    /\ act[i].was.src = "TIB" /\ act[i].was.num < TIB_SIZE - 1
    => Input' = act[i].was
SourceResumes == [][sourceResumes]_vars

(* The open files are the ones being interpreted, each of them once, and   *)
(* those a full include stack refused.                                     *)
FilesMatch ==
  ~abandoned =>
    /\ {f \in Files : file[f] # CLOSED} = (Included \cap Files) \cup leaked
    /\ \A i, j \in DOMAIN istack :
         istack[i].id \in Files => istack[i].id # stream /\ (istack[i].id = istack[j].id => i = j)

(* The terminal is at the bottom of the include stack and nowhere else:    *)
(* pfHandleIncludeError stops there and nowhere before.                    *)
StdinAtBottom ==
  /\ stream = STDIN <=> istack = <<>>
  /\ \A i \in DOMAIN istack : istack[i].id = STDIN <=> i = 1

(* Every exception is caught or reported: the unwinding of C functions and *)
(* of the include stack ends, even after EVALUATEs were abandoned.         *)
ExceptionsEnd == exc # 0 ~> exc = 0 \/ act = <<>>

(* "Cleanup Include stack by popping and closing files"                    *)
(* (pfcompil.c:937): no file is closed twice.                              *)
FilesClosedOnce == "fclose_of_closed_file" \notin faults
=============================================================================
