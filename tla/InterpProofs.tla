---------------------------- MODULE InterpProofs ----------------------------
(***************************************************************************)
(* What holds of the outer interpreter for all files, strings, lines and   *)
(* limits, however EVALUATE, INCLUDE-FILE, CATCH and THROW nest:           *)
(* pfHandleIncludeError finds the terminal exactly when the include stack  *)
(* is empty, CATCH comes back to the input it was called with, the line    *)
(* that included a file or evaluated a string goes on where it was, and    *)
(* the open files are the ones being read.                                 *)
(***************************************************************************)
EXTENDS Interp, TLAPS

(***************************************************************************)
(* The inductive invariant: the types TypeOK names, completed by those of  *)
(* the frames and activations (what a pop puts back must be of the type of *)
(* what was pushed), and StdinAtBottom.                                    *)
(***************************************************************************)
Sources == {"TIB"} \cup Strings
Frames == {f \in [id : Streams, toIn : Lengths, num : Lengths, tib : Texts \cup {NULL}] :
             Kept(f.num) => f.tib \in Texts}
Inputs == [stream : Streams, src : Sources, num : Lengths, toIn : Lengths,
           text : Texts \cup {NULL}, depth : Nat]
Places == {"refill", "interpret", "eof"}
Quits == [kind : {"quit"}, at : Places]
Calls == [kind : {"include", "evaluate"}, file : Files \cup {NULL}, at : Places, was : Inputs]
Catches == [kind : {"catch"}, was : [stream : Streams, src : Sources, depth : Nat]]
Words == [kind : {"word"}]
Activations == Quits \cup Calls \cup Catches \cup Words
Raised == Exceptions \cup {0, UNDERFLOW, UNDEFINED_WORD}

SourceType == /\ stream \in Streams /\ src \in Sources
              /\ num \in Lengths /\ toIn \in Lengths /\ tib \in Texts
StackType == istack \in Seq(Frames) /\ Len(istack) <= MAX_INCLUDE_DEPTH
ActType == act \in Seq(Activations) /\ exc \in Raised
FileType == file \in [Files -> {CLOSED} \cup 0 .. MaxLines]

IInv == SourceType /\ StackType /\ ActType /\ FileType /\ StdinAtBottom

-----------------------------------------------------------------------------
(* Sequences.                                                              *)

\* What Front and Last of a non-empty sequence are.
LEMMA FrontLast ==
  ASSUME NEW S, NEW s \in Seq(S), s # <<>>
  PROVE  /\ Front(s) \in Seq(S) /\ Len(Front(s)) = Len(s) - 1
         /\ \A i \in 1 .. Len(s) - 1 : Front(s)[i] = s[i]
         /\ Last(s) \in S /\ Len(s) \in Nat \ {0}
  <1>1. Len(s) \in Nat \ {0}
    OBVIOUS
  <1>2. Last(s) \in S
    BY <1>1 DEF Last
  <1>3. Front(s) = [i \in 1 .. Len(s) - 1 |-> s[i]]
    BY <1>1 DEF Front
  <1>4. \A i \in 1 .. Len(s) - 1 : s[i] \in S
    BY <1>1
  <1>5. Front(s) \in Seq(S) /\ Len(Front(s)) = Len(s) - 1
    BY <1>1, <1>3, <1>4
  <1>6. \A i \in 1 .. Len(s) - 1 : Front(s)[i] = s[i]
    BY <1>3
  <1> QED BY <1>1, <1>2, <1>5, <1>6

\* A sequence is empty when its length is.
LEMMA EmptyLen ==
  ASSUME NEW S, NEW s \in Seq(S)
  PROVE  s = <<>> <=> Len(s) = 0
  OBVIOUS

\* Append adds an element at the end.
LEMMA AppendType ==
  ASSUME NEW S, NEW s \in Seq(S), NEW e \in S
  PROVE  /\ Append(s, e) \in Seq(S) /\ Len(Append(s, e)) = Len(s) + 1
         /\ \A i \in 1 .. Len(s) : Append(s, e)[i] = s[i]
         /\ Append(s, e)[Len(s) + 1] = e
  OBVIOUS

-----------------------------------------------------------------------------
(* What the parts of the steps do.                                         *)

\* A frame is made of the current input.
LEMMA FrameType ==
  ASSUME SourceType, NEW n \in Lengths
  PROVE  Frame(n) \in Frames /\ Frame(n).id = stream
  BY DEF SourceType, Frame, Frames, Kept

\* ffPopInputStream restores an input, and the terminal with the last frame.
LEMMA PopKeeps ==
  ASSUME SourceType, StackType, StdinAtBottom, Pop
  PROVE  /\ Restored \in Frames
         /\ stream' \in Streams /\ tib' \in Texts
         /\ StackType' /\ StdinAtBottom'
  <1>1. CASE istack = <<>>
    <2>1. Restored = Frame(num) /\ istack' = <<>> /\ stream' = Restored.id
      BY <1>1 DEF Pop, Restored
    <2>2. Restored \in Frames /\ Restored.id = stream
      BY <2>1, FrameType DEF SourceType
    <2>3. tib' \in Texts
      BY <2>2 DEF Pop, Frames, SourceType
    <2>4. stream' = stream /\ istack' = istack
      BY <1>1, <2>1, <2>2
    <2> QED BY <2>2, <2>3, <2>4 DEF StackType, StdinAtBottom, SourceType
  <1>2. CASE istack # <<>>
    <2>1. Restored = Last(istack) /\ istack' = Front(istack) /\ stream' = Restored.id
      BY <1>2 DEF Pop, Restored
    <2>2. Restored \in Frames
      BY <1>2, <2>1, FrontLast DEF StackType
    <2>3. tib' \in Texts /\ stream' \in Streams
      BY <2>1, <2>2 DEF Pop, Frames, SourceType
    <2>4. StackType'
      BY <1>2, <2>1, FrontLast, InterpAssumption DEF StackType
    <2>5. StdinAtBottom'
      BY <1>2, <2>1, <2>4, FrontLast, EmptyLen DEF StackType, StdinAtBottom, Last
    <2> QED BY <2>2, <2>3, <2>4, <2>5
  <1> QED BY <1>1, <1>2

\* ffPushInputStream puts the terminal at the bottom only.
LEMMA PushKeeps ==
  ASSUME SourceType, StackType, StdinAtBottom, ~Full, NEW n \in Lengths,
         istack' = Append(istack, Frame(n)), stream' \in Streams \ {STDIN}
  PROVE  StackType' /\ StdinAtBottom'
  <1>1. Frame(n) \in Frames /\ Frame(n).id = stream
    BY FrameType
  <1>2. StackType'
    BY <1>1, AppendType, InterpAssumption DEF StackType, Full
  <1>3. StdinAtBottom'
    BY <1>1, <1>2, AppendType, EmptyLen DEF StackType, StdinAtBottom
  <1> QED BY <1>2, <1>3

\* M_THROW leaves activations.
LEMMA ThrowType ==
  ASSUME NEW a \in Seq(Activations), NEW e \in Raised, Throw(a, e)
  PROVE  ActType'
  <1>1. Front(a) \in Seq(Activations)
    <2>1. CASE a = <<>>
      BY <2>1 DEF Front
    <2>2. CASE a # <<>>
      BY <2>2, FrontLast
    <2> QED BY <2>1, <2>2
  <1>2. exc' \in {0, e}
    BY DEF Throw
  <1> QED BY <1>1, <1>2 DEF Throw, ActType, Raised

\* An activation that loops goes on at another place.
LEMMA AtType ==
  ASSUME ActType, Looping, NEW p \in Places
  PROVE  At(p) \in Seq(Activations)
  <1>1. Last(act) \in Quits \cup Calls /\ Len(act) \in Nat \ {0}
    BY FrontLast DEF ActType, Looping, Top, Activations, Catches, Words
  <1>2. [Last(act) EXCEPT !.at = p] \in Activations
    BY <1>1 DEF Quits, Calls, Activations
  <1>3. At(p) = [act EXCEPT ![Len(act)] = [Last(act) EXCEPT !.at = p]]
    BY DEF At, Last
  <1> QED BY <1>1, <1>2, <1>3 DEF ActType

\* An included file or evaluated string is called with an input.
LEMMA CalledType ==
  ASSUME SourceType, StackType, NEW k \in {"include", "evaluate"}, NEW f \in Files \cup {NULL}
  PROVE  Called(k, f) \in Activations
  BY DEF SourceType, StackType, Called, Input, Activations, Calls, Inputs, Places
-----------------------------------------------------------------------------
(* Every step.                                                             *)

\* The program starts at the terminal.
LEMMA InitIInv == Init => IInv
  <1> SUFFICES ASSUME Init PROVE IInv
    OBVIOUS
  <1>1. SourceType /\ FileType
    BY InterpAssumption DEF Init, SourceType, FileType, Streams, Sources, Lengths
  <1>2. StackType /\ StdinAtBottom
    BY InterpAssumption DEF Init, StackType, StdinAtBottom
  <1>3. ActType
    BY DEF Init, ActType, Activations, Quits, Places, Raised
  <1> QED BY <1>1, <1>2, <1>3 DEF IInv

\* REFILL and Refill, at the terminal or in a file: a line, nothing, or a THROW.
LEMMA RefillKeeps ==
  ASSUME IInv, istack' = istack,
         (\E n \in Lengths, t \in Texts : ReadLine(n, t)) \/ ReadNothing \/ AcceptThrows
  PROVE  SourceType' /\ StackType' /\ FileType' /\ StdinAtBottom'
  <1>1. CASE \E n \in Lengths, t \in Texts : ReadLine(n, t)
    <2>1. PICK n \in Lengths, t \in Texts : ReadLine(n, t)
      BY <1>1
    <2>2. stream' = stream /\ src' = src /\ num' = n /\ toIn' = 0 /\ tib' \in {t, tib}
      BY <2>1 DEF ReadLine, Read
    <2>3. FileType'
      <3>1. CASE file' = file
        BY <3>1 DEF IInv, FileType
      <3>2. CASE file' # file
        <4>1. /\ stream \in Files /\ file[stream] \notin {CLOSED, 0}
              /\ file' = [file EXCEPT ![stream] = file[stream] - 1]
          BY <2>1, <3>2 DEF ReadLine
        <4>2. file[stream] - 1 \in 0 .. MaxLines
          BY <4>1, InterpAssumption DEF IInv, FileType, CLOSED
        <4> QED BY <4>1, <4>2 DEF IInv, FileType
      <3> QED BY <3>1, <3>2
    <2> QED BY <2>2, <2>3, InterpAssumption
            DEF IInv, SourceType, StackType, StdinAtBottom, Lengths
  <1>2. CASE ReadNothing
    <2>1. /\ stream' = stream /\ src' = src /\ num' = 0 /\ toIn' = 0
          /\ tib' = tib /\ file' = file
      BY <1>2 DEF ReadNothing
    <2> QED BY <2>1, InterpAssumption
            DEF IInv, SourceType, StackType, FileType, StdinAtBottom, Lengths
  <1>3. CASE AcceptThrows
    BY <1>3, InterpAssumption
    DEF AcceptThrows, IInv, SourceType, StackType, FileType, StdinAtBottom, Lengths
  <1> QED BY <1>1, <1>2, <1>3

\* The end of ffIncludeFile, with or without an exception.
LEMMA IncludeEndKeeps ==
  ASSUME IInv, Looping, Top.kind = "include", NEW e \in Raised, IncludeEnd(e)
  PROVE  IInv'
  <1> USE DEF IInv
  <1>1. /\ Restored \in Frames /\ stream' \in Streams /\ tib' \in Texts
        /\ StackType' /\ StdinAtBottom'
    BY PopKeeps DEF IncludeEnd
  <1>2. SourceType'
    BY <1>1 DEF IncludeEnd, SourceType, Frames
  <1>3. FileType'
    BY DEF IncludeEnd, Close, FileType
  <1>4. ActType'
    <2>1. Front(act) \in Seq(Activations)
      BY FrontLast DEF ActType, Looping
    <2>2. CASE e = 0
      BY <2>1, <2>2 DEF IncludeEnd, ActType, Raised
    <2>3. CASE e # 0
      BY <2>1, <2>3, ThrowType DEF IncludeEnd, ActType
    <2> QED BY <2>2, <2>3
  <1> QED BY <1>1, <1>2, <1>3, <1>4

\* A step that only calls, returns or throws.
LEMMA ControlKeeps ==
  ASSUME IInv, UNCHANGED <<istack, source, tib, file>>, ActType'
  PROVE  IInv'
  BY DEF IInv, SourceType, StackType, FileType, StdinAtBottom, source

\* The words, INCLUDE-FILE and EVALUATE apart.
LEMMA WordKeeps == IInv /\ (Return \/ THROW \/ CATCH \/ REFILL) => IInv'
  <1>1. ASSUME IInv, Return PROVE IInv'
    <2>1. act # <<>> /\ act \in Seq(Activations) /\ exc \in Raised
      BY <1>1 DEF Return, Running, IInv, ActType
    <2>2. ActType'
      BY <1>1, <2>1, FrontLast DEF Return, ActType
    <2> QED BY <1>1, <2>2, ControlKeeps DEF Return
  <1>2. ASSUME IInv, THROW PROVE IInv'
    <2>1. PICK e \in Exceptions : Throw(act, e)
      BY <1>2 DEF THROW
    <2>2. ActType'
      BY <1>2, <2>1, ThrowType DEF IInv, ActType, Raised
    <2> QED BY <1>2, <2>2, ControlKeeps DEF THROW
  <1>3. ASSUME IInv, CATCH PROVE IInv'
    <2>1. [kind |-> "catch", was |-> [stream |-> stream, src |-> src, depth |-> Len(istack)]] \in Activations
      BY <1>3 DEF IInv, SourceType, StackType, Activations, Catches
    <2>2. ActType'
      BY <1>3, <2>1, AppendType DEF CATCH, IInv, ActType
    <2> QED BY <1>3, <2>2, ControlKeeps DEF CATCH
  <1>4. ASSUME IInv, REFILL PROVE IInv'
    <2>1. SourceType' /\ StackType' /\ FileType' /\ StdinAtBottom'
      BY <1>4, RefillKeeps DEF REFILL
    <2>2. ActType'
      BY <1>4 DEF REFILL, IInv, ActType
    <2> QED BY <2>1, <2>2 DEF IInv
  <1> QED BY <1>1, <1>2, <1>3, <1>4

\* ffOuterInterpreterLoop, ffInterpret and pfQuit.
LEMMA LoopKeeps ==
  IInv /\ (Refill \/ RefillEOF \/ RefillThrows \/ Interpret \/ Undefined \/ OK \/ QuitAgain) => IInv'
  <1>1. ASSUME IInv, Refill \/ RefillEOF \/ RefillThrows PROVE IInv'
    <2>1. SourceType' /\ StackType' /\ FileType' /\ StdinAtBottom'
      BY <1>1, RefillKeeps DEF Refill, RefillEOF, RefillThrows
    <2>2. ActType'
      <3>1. At("interpret") \in Seq(Activations) /\ At("eof") \in Seq(Activations)
        BY <1>1, AtType DEF Refill, RefillEOF, RefillThrows, IInv, Places
      <3>2. act' \in {act, At("interpret"), At("eof")}
        BY <1>1 DEF Refill, RefillEOF, RefillThrows
      <3>3. exc' = exc \/ exc' \in Exceptions
        BY <1>1 DEF Refill, RefillEOF, RefillThrows
      <3> QED BY <1>1, <3>1, <3>2, <3>3 DEF IInv, ActType, Raised
    <2> QED BY <2>1, <2>2 DEF IInv
  <1>2. ASSUME IInv, Interpret \/ Undefined PROVE IInv'
    <2>1. toIn < num /\ toIn' = toIn + 1 /\ UNCHANGED <<istack, stream, src, num, tib, file>>
      BY <1>2 DEF Interpret, Undefined
    <2>2. SourceType' /\ StackType' /\ FileType' /\ StdinAtBottom'
      BY <1>2, <2>1, InterpAssumption
      DEF IInv, SourceType, StackType, FileType, StdinAtBottom, Lengths
    <2>3. [kind |-> "word"] \in Activations
      BY DEF Activations, Words
    <2>4. act' = act \/ act' = Append(act, [kind |-> "word"])
      BY <1>2 DEF Interpret, Undefined
    <2>5. act' \in Seq(Activations)
      BY <1>2, <2>3, <2>4, AppendType DEF IInv, ActType
    <2>6. exc' \in Raised
      BY <1>2 DEF Interpret, Undefined, IInv, ActType, Raised
    <2> QED BY <2>2, <2>5, <2>6 DEF IInv, ActType
  <1>3. ASSUME IInv, OK \/ QuitAgain PROVE IInv'
    <2>1. At("refill") \in Seq(Activations)
      BY <1>3, AtType DEF OK, QuitAgain, IInv, Places
    <2>2. ActType'
      BY <1>3, <2>1 DEF OK, QuitAgain, ActType, Raised
    <2> QED BY <1>3, <2>2, ControlKeeps DEF OK, QuitAgain
  <1> QED BY <1>1, <1>2, <1>3

\* INCLUDE-FILE.
LEMMA IncludeKeeps == ASSUME IInv, NEW f \in Files, INCLUDE_FILE(f) PROVE IInv'
  <1>1. FileType'
    BY DEF INCLUDE_FILE, IInv, FileType
  <1>2. UNCHANGED <<src, num, toIn, tib>> /\ act \in Seq(Activations)
    BY DEF INCLUDE_FILE, IInv, ActType
  <1>3. CASE Full
    <2>1. ActType'
      BY <1>2, <1>3, ThrowType DEF INCLUDE_FILE, Raised, Exceptions
    <2> QED BY <1>1, <1>2, <1>3, <2>1
            DEF INCLUDE_FILE, IInv, SourceType, StackType, StdinAtBottom
  <1>4. CASE ~Full
    <2>1. istack' = Append(istack, Frame(num)) /\ stream' = f /\ exc' = exc
          /\ act' = Append(act, Called("include", f))
      BY <1>4 DEF INCLUDE_FILE
    <2>2. stream' \in Streams \ {STDIN}
      BY <2>1, InterpAssumption DEF Streams
    <2>3. StackType' /\ StdinAtBottom'
      BY <1>4, <2>1, <2>2, PushKeeps DEF IInv, SourceType
    <2>4. ActType'
      BY <1>2, <2>1, CalledType, AppendType DEF IInv, ActType
    <2>5. SourceType'
      BY <1>2, <2>2 DEF IInv, SourceType
    <2> QED BY <1>1, <2>3, <2>4, <2>5 DEF IInv
  <1> QED BY <1>3, <1>4

\* EVALUATE and its end.
LEMMA EvaluateKeeps ==
  IInv /\ ((\E s \in Strings : EVALUATE(s)) \/ EvaluateEnd \/ EvaluateFails) => IInv'
  <1>1. ASSUME IInv, NEW s \in Strings, EVALUATE(s) PROVE IInv'
    <2>1. StringLength \in Lengths /\ 0 \in Lengths /\ act \in Seq(Activations)
      BY <1>1, InterpAssumption DEF Lengths, IInv, ActType
    <2>2. src' \in Sources /\ num' \in Lengths /\ UNCHANGED <<tib, file>>
      BY <1>1, <2>1 DEF EVALUATE, Sources
    <2>3. CASE Full
      <3>1. ActType'
        BY <1>1, <2>1, <2>3, ThrowType DEF EVALUATE, Raised, Exceptions
      <3> QED BY <1>1, <2>2, <2>3, <3>1
              DEF EVALUATE, IInv, SourceType, StackType, FileType, StdinAtBottom
    <2>4. CASE ~Full
      <3>1. istack' = Append(istack, Frame(StringLength)) /\ stream' = NULL /\ toIn' = 0
            /\ exc' = exc /\ act' = Append(act, Called("evaluate", NULL))
        BY <1>1, <2>4 DEF EVALUATE
      <3>2. stream' \in Streams \ {STDIN}
        BY <3>1, InterpAssumption DEF Streams
      <3>3. StackType' /\ StdinAtBottom'
        BY <1>1, <2>1, <2>4, <3>1, <3>2, PushKeeps DEF IInv
      <3>4. ActType'
        BY <1>1, <2>1, <3>1, CalledType, AppendType DEF IInv, ActType
      <3>5. SourceType' /\ FileType'
        BY <1>1, <2>1, <2>2, <3>1, <3>2 DEF IInv, SourceType, FileType
      <3> QED BY <3>3, <3>4, <3>5 DEF IInv
    <2> QED BY <2>3, <2>4
  <1>2. ASSUME IInv, EvaluateEnd PROVE IInv'
    <2>1. act # <<>> /\ act \in Seq(Activations) /\ Top.kind = "evaluate"
      BY <1>2 DEF EvaluateEnd, Interpreting, IInv, ActType
    <2>2. Top \in Calls
      <3>1. Top \in Activations
        BY <2>1, FrontLast DEF Top
      <3> QED BY <2>1, <3>1 DEF Activations, Quits, Catches, Words
    <2>3. Top.was \in Inputs
      BY <2>2 DEF Calls
    <2>4. src' \in Sources /\ num' \in Lengths /\ toIn' \in Lengths
      BY <1>2, <2>3 DEF EvaluateEnd, Inputs
    <2>5. stream' \in Streams /\ tib' \in Texts /\ StackType' /\ StdinAtBottom'
      BY <1>2, PopKeeps DEF EvaluateEnd, IInv
    <2>6. ActType'
      BY <1>2, <2>1, FrontLast DEF EvaluateEnd, IInv, ActType
    <2> QED BY <1>2, <2>4, <2>5, <2>6 DEF EvaluateEnd, IInv, SourceType, FileType
  <1>3. ASSUME IInv, EvaluateFails PROVE IInv'
    <2>1. Front(act) \in Seq(Activations) /\ exc \in Raised
      BY <1>3, FrontLast DEF EvaluateFails, IInv, ActType
    <2>2. ActType'
      BY <1>3, <2>1, ThrowType DEF EvaluateFails
    <2> QED BY <1>3, <2>2, ControlKeeps DEF EvaluateFails
  <1> QED BY <1>1, <1>2, <1>3

\* The ends of ffIncludeFile, and what pfQuit does with an exception.
LEMMA UnwindKeeps ==
  IInv /\ (IncludeDone \/ IncludeFails \/ Ends \/ HandleIncludeError \/ ResetForthTask) => IInv'
  <1>1. ASSUME IInv, IncludeDone \/ IncludeFails PROVE IInv'
    <2>1. PICK e \in Raised : IncludeEnd(e)
      BY <1>1 DEF IncludeDone, IncludeFails, IInv, ActType, Raised
    <2>2. Looping /\ Top.kind = "include"
      BY <1>1 DEF IncludeDone, IncludeFails
    <2> QED BY <1>1, <2>1, <2>2, IncludeEndKeeps
  <1>2. ASSUME IInv, Ends PROVE IInv'
    <2>1. ActType'
      BY <1>2 DEF Ends, IInv, ActType
    <2> QED BY <1>2, <2>1, ControlKeeps DEF Ends
  <1>3. ASSUME IInv, HandleIncludeError PROVE IInv'
    <2>1. /\ Restored \in Frames /\ stream' \in Streams /\ tib' \in Texts
          /\ StackType' /\ StdinAtBottom'
      BY <1>3, PopKeeps DEF HandleIncludeError, IInv
    <2>2. SourceType'
      BY <1>3, <2>1 DEF HandleIncludeError, IInv, SourceType, Frames
    <2>3. FileType' /\ ActType'
      BY <1>3 DEF HandleIncludeError, Close, IInv, FileType, ActType
    <2> QED BY <2>1, <2>2, <2>3 DEF IInv
  <1>4. ASSUME IInv, ResetForthTask PROVE IInv'
    <2>1. istack = <<>> /\ istack' = istack /\ stream' = stream
      BY <1>4 DEF ResetForthTask, IInv, StdinAtBottom
    <2>2. num' = num /\ toIn' = num /\ UNCHANGED <<src, tib, file>>
      BY <1>4, <2>1 DEF ResetForthTask, Restored, Frame
    <2>3. SourceType' /\ StackType' /\ FileType' /\ StdinAtBottom'
      BY <1>4, <2>1, <2>2 DEF IInv, SourceType, StackType, FileType, StdinAtBottom
    <2>4. ActType'
      BY <1>4, AtType DEF ResetForthTask, Failed, Looping, IInv, ActType, Places, Raised
    <2> QED BY <2>3, <2>4 DEF IInv
  <1> QED BY <1>1, <1>2, <1>3, <1>4

\* The end of the process.
LEMMA KilledKeeps == IInv /\ (NullStream \/ Corrupted) => IInv'
  <1> SUFFICES ASSUME IInv, Killed PROVE IInv'
    BY DEF NullStream, Corrupted
  <1>1. ActType'
    BY DEF Killed, ActType, Raised
  <1> QED BY <1>1, ControlKeeps DEF Killed

\* Every step keeps the invariant.
LEMMA StepIInv == IInv /\ [Next]_vars => IInv'
  <1> SUFFICES ASSUME IInv, [Next]_vars PROVE IInv'
    OBVIOUS
  <1>1. CASE Next
    <2>1. CASE \E f \in Files : INCLUDE_FILE(f)
      BY <2>1, IncludeKeeps
    <2>2. CASE ~\E f \in Files : INCLUDE_FILE(f)
      BY <1>1, <2>2, WordKeeps, LoopKeeps, EvaluateKeeps, UnwindKeeps, KilledKeeps
      DEF Next, Unwinding
    <2> QED BY <2>1, <2>2
  <1>2. CASE UNCHANGED vars
    BY <1>2, ControlKeeps DEF vars, IInv, ActType
  <1> QED BY <1>1, <1>2

\* The inductive invariant holds.
LEMMA Inductive == Spec => []IInv
  BY InitIInv, StepIInv, PTL DEF Spec

(* Type correctness of the outer interpreter's state: >IN and the length of *)
(* the source never leave the TIB, the include stack never its array.      *)
THEOREM TypeCorrect == Spec => []TypeOK
  <1>1. IInv => TypeOK
    <2> SUFFICES ASSUME IInv PROVE TypeOK
      OBVIOUS
    <2>1. \A i \in DOMAIN act : act[i].kind \in {"quit", "include", "evaluate", "word", "catch"}
      BY DEF IInv, ActType, Activations, Quits, Calls, Catches, Words
    <2>2. \A i \in DOMAIN istack : istack[i].id \in Streams
      BY DEF IInv, StackType, Frames
    <2>3. SourceType /\ FileType /\ exc \in Raised /\ Len(istack) <= MAX_INCLUDE_DEPTH
      BY DEF IInv, ActType, StackType
    <2> QED BY <2>1, <2>2, <2>3 DEF SourceType, FileType, Raised, Sources, Lengths, TypeOK
  <1> QED BY <1>1, Inductive, PTL

(* The terminal is at the bottom of gIncludeStack and nowhere else, however *)
(* INCLUDE-FILE, EVALUATE, CATCH and THROW nest and whatever EVALUATEs were *)
(* abandoned: the loop of pfHandleIncludeError neither stops before the     *)
(* stack is empty nor pops an empty one.                                    *)
THEOREM TerminalAtBottom == Spec => []StdinAtBottom
  <1>1. IInv => StdinAtBottom
    BY DEF IInv
  <1> QED BY <1>1, Inductive, PTL

-----------------------------------------------------------------------------
(***************************************************************************)
(* The C functions and the include stack in step, as long as no EVALUATE   *)
(* was left by a THROW.  a stands for act, st for istack, str for stream,  *)
(* s for src, t for tib: an unwinding takes several of them apart at once. *)
(***************************************************************************)
IsCall(x) == x.kind \in {"include", "evaluate"}
IsForth(x) == x.kind \in {"word", "catch"}
Remembers(x) == IsCall(x) \/ x.kind = "catch"
\* How deep the include stack is while x runs.
Depth(x) == IF IsCall(x) THEN x.was.depth + 1 ELSE x.was.depth
StreamAt(st, str, d) == IF d < Len(st) THEN st[d + 1].id ELSE str

Shape(a) ==
  \A i \in 1 .. Len(a) :
    /\ a[i].kind = "quit" <=> i = 1
    /\ IsCall(a[i]) => i - 1 \in 1 .. Len(a) /\ IsForth(a[i - 1])
    /\ a[i].kind = "include" => a[i].file \in Files
    /\ a[i].kind = "evaluate" => a[i].file = NULL

\* Each call has a frame, and each frame is that of a call.
Depths(a, st) ==
  /\ \A i \in 1 .. Len(a) : Remembers(a[i]) => Depth(a[i]) <= Len(st)
  /\ \A i, j \in 1 .. Len(a) :
       i < j /\ Remembers(a[i]) /\ Remembers(a[j]) => Depth(a[i]) <= a[j].was.depth
  /\ \A k \in 1 .. Len(st) : \E i \in 1 .. Len(a) : IsCall(a[i]) /\ Depth(a[i]) = k

\* What was read from at the call, and what the call reads from, is on the
\* include stack or is the stream.
StreamsKept(a, st, str) ==
  \A i \in 1 .. Len(a) :
    /\ Remembers(a[i]) => a[i].was.stream = StreamAt(st, str, a[i].was.depth)
    /\ IsCall(a[i]) => a[i].file = StreamAt(st, str, Depth(a[i]))

\* The next EVALUATE, or src itself, has the source of the call.
SourcesKept(a, s) ==
  \A i \in 1 .. Len(a) :
    /\ Remembers(a[i]) =>
         /\ \A j \in i .. Len(a) :
              a[j].kind = "evaluate" /\ (\A k \in i .. j - 1 : a[k].kind # "evaluate") =>
                a[j].was.src = a[i].was.src
         /\ (\A k \in i .. Len(a) : a[k].kind # "evaluate") => s = a[i].was.src
    /\ a[i].kind = "evaluate" =>
         /\ s # "TIB"
         /\ \A j \in i + 1 .. Len(a) : Remembers(a[j]) => a[j].was.src # "TIB"

\* Where the line of the caller is kept: in its frame, and while a string is
\* evaluated nobody writes to the TIB.
LinesKept(a, st, t) ==
  \A i \in 1 .. Len(a) :
    /\ IsCall(a[i]) => st[Depth(a[i])].toIn = a[i].was.toIn
    /\ a[i].kind = "include" =>
         /\ st[Depth(a[i])].num = a[i].was.num
         /\ a[i].was.src = "TIB" /\ Kept(a[i].was.num) => st[Depth(a[i])].tib = a[i].was.text
    /\ a[i].kind = "evaluate" /\ a[i].was.src = "TIB" /\ a[i].was.num > 0 =>
         /\ t = a[i].was.text
         /\ \A k \in Depth(a[i]) .. Len(st) : Kept(st[k].num) => st[k].tib = a[i].was.text
    /\ IsCall(a[i]) /\ ~(a[i].was.src = "TIB" /\ a[i].was.num > 0) => a[i].was.text = NULL

InStep(a, st, str, s, t) ==
  /\ Shape(a) /\ Depths(a, st) /\ StreamsKept(a, st, str) /\ SourcesKept(a, s)
  /\ LinesKept(a, st, t)

Nested == ~abandoned /\ act # <<>> => InStep(act, istack, stream, src, tib)

-----------------------------------------------------------------------------
(* What a call or a return does to C functions and include stack in step.  *)

\* Activations that are as before but for the place they are at.
Same(a, b) ==
  /\ Len(b) = Len(a)
  /\ \A i \in 1 .. Len(a) :
       b[i].kind = a[i].kind /\ (Remembers(a[i]) => b[i].was = a[i].was)
                             /\ (IsCall(a[i]) => b[i].file = a[i].file)

\* What is known of an activation's fields.
LEMMA Fields ==
  ASSUME NEW a \in Seq(Activations), NEW i \in 1 .. Len(a)
  PROVE  /\ a[i].kind \in {"quit", "include", "evaluate", "word", "catch"}
         /\ Remembers(a[i]) => a[i].was.depth \in Nat /\ Depth(a[i]) \in Nat
         /\ IsCall(a[i]) => Depth(a[i]) = a[i].was.depth + 1 /\ a[i].was \in Inputs
         /\ a[i].kind = "catch" => Depth(a[i]) = a[i].was.depth
  <1>1. a[i] \in Activations
    OBVIOUS
  <1>2. a[i].kind \in {"quit", "include", "evaluate", "word", "catch"}
    BY <1>1 DEF Activations, Quits, Calls, Catches, Words
  <1>3. CASE IsCall(a[i])
    <2>1. a[i] \in Calls
      BY <1>1, <1>3 DEF IsCall, Activations, Quits, Calls, Catches, Words
    <2>2. a[i].was \in Inputs /\ a[i].was.depth \in Nat
      BY <2>1 DEF Calls, Inputs
    <2> QED BY <1>2, <1>3, <2>2 DEF IsCall, Remembers, Depth
  <1>4. CASE a[i].kind = "catch"
    <2>1. a[i] \in Catches
      BY <1>1, <1>4 DEF Activations, Quits, Calls, Catches, Words
    <2> QED BY <1>4, <2>1 DEF Catches, IsCall, Remembers, Depth
  <1> QED BY <1>2, <1>3, <1>4 DEF Remembers

\* Going to another place, reading a line where no string is evaluated.
LEMMA SameInStep ==
  ASSUME NEW a \in Seq(Activations), NEW b \in Seq(Activations), NEW st \in Seq(Frames),
         NEW str, NEW s, NEW t, NEW u,
         InStep(a, st, str, s, t), Same(a, b), u # t => s = "TIB"
  PROVE  InStep(b, st, str, s, u)
  <1> DEFINE n == Len(a)
  <1>1. /\ Len(b) = n /\ n \in Nat
        /\ \A i \in 1 .. n : /\ b[i].kind = a[i].kind
                             /\ IsCall(b[i]) = IsCall(a[i]) /\ IsForth(b[i]) = IsForth(a[i])
                             /\ Remembers(b[i]) = Remembers(a[i])
                             /\ Remembers(a[i]) => b[i].was = a[i].was /\ Depth(b[i]) = Depth(a[i])
                             /\ IsCall(a[i]) => b[i].file = a[i].file
    BY DEF Same, IsCall, IsForth, Remembers, Depth
  <1>2. Shape(b)
    BY <1>1 DEF InStep, Shape, IsCall
  <1>3. Depths(b, st)
    BY <1>1 DEF InStep, Depths, Remembers
  <1>4. StreamsKept(b, st, str)
    BY <1>1 DEF InStep, StreamsKept, Remembers
  <1>5. SourcesKept(b, s)
    <2>1. ASSUME NEW i \in 1 .. n, Remembers(b[i])
          PROVE  /\ \A j \in i .. n :
                      b[j].kind = "evaluate" /\ (\A k \in i .. j - 1 : b[k].kind # "evaluate") =>
                        b[j].was.src = b[i].was.src
                 /\ (\A k \in i .. n : b[k].kind # "evaluate") => s = b[i].was.src
      <3>1. \A j \in i .. n : \A k \in i .. j - 1 : k \in 1 .. n
        BY <1>1
      <3>2. \A j \in i .. n : a[j].kind = "evaluate" => b[j].was = a[j].was
        BY <1>1 DEF Remembers, IsCall
      <3>3. Remembers(a[i]) /\ b[i].was = a[i].was
        BY <1>1, <2>1
      <3>4. ASSUME NEW j \in i .. n, b[j].kind = "evaluate",
                   \A k \in i .. j - 1 : b[k].kind # "evaluate"
            PROVE  b[j].was.src = b[i].was.src
        <4>1. a[j].kind = "evaluate" /\ \A k \in i .. j - 1 : a[k].kind # "evaluate"
          BY <1>1, <3>1, <3>4
        <4> QED BY <3>2, <3>3, <4>1 DEF InStep, SourcesKept
      <3>5. ASSUME \A k \in i .. n : b[k].kind # "evaluate"
            PROVE  s = b[i].was.src
        <4>1. \A k \in i .. n : a[k].kind # "evaluate"
          BY <1>1, <3>5
        <4> QED BY <3>3, <4>1 DEF InStep, SourcesKept
      <3> QED BY <3>4, <3>5
    <2>2. ASSUME NEW i \in 1 .. n, b[i].kind = "evaluate"
          PROVE  s # "TIB" /\ \A j \in i + 1 .. n : Remembers(b[j]) => b[j].was.src # "TIB"
      BY <1>1, <2>2 DEF InStep, SourcesKept
    <2> QED BY <1>1, <2>1, <2>2 DEF SourcesKept
  <1>6. LinesKept(b, st, u)
    <2>1. \A i \in 1 .. n : a[i].kind = "evaluate" => u = t
      BY DEF InStep, SourcesKept
    <2> QED BY <1>1, <2>1 DEF InStep, LinesKept, Remembers, IsCall
  <1> QED BY <1>2, <1>3, <1>4, <1>5, <1>6 DEF InStep

\* A word returns, or a CATCH ends.
LEMMA ForthReturns ==
  ASSUME NEW a \in Seq(Activations), NEW st \in Seq(Frames), NEW str, NEW s, NEW t,
         InStep(a, st, str, s, t), a # <<>>, IsForth(Last(a))
  PROVE  InStep(Front(a), st, str, s, t)
  <1> DEFINE b == Front(a)
             n == Len(b)
  <1>1. /\ b \in Seq(Activations) /\ n \in Nat /\ Len(a) = n + 1
        /\ \A i \in 1 .. n : b[i] = a[i]
        /\ IsForth(a[n + 1])
    BY FrontLast DEF Last
  <1>2. ~IsCall(a[n + 1])
    BY <1>1 DEF IsForth, IsCall
  <1> HIDE DEF b
  <1>3. Shape(b)
    BY <1>1, SMTT(30) DEF InStep, Shape
  <1>4. Depths(b, st)
    BY <1>1, <1>2 DEF InStep, Depths
  <1>5. StreamsKept(b, st, str)
    BY <1>1 DEF InStep, StreamsKept
  <1>6. SourcesKept(b, s)
    <2>1. ASSUME NEW i \in 1 .. n, Remembers(a[i]), \A k \in i .. n : a[k].kind # "evaluate"
          PROVE  s = a[i].was.src
      <3>1. \A k \in i .. n + 1 : a[k].kind # "evaluate"
        BY <1>1, <1>2, <2>1 DEF IsCall
      <3> QED BY <1>1, <2>1, <3>1 DEF InStep, SourcesKept
    <2>2. \A i \in 1 .. n : \A j \in i .. n : j \in i .. n + 1 /\ j \in 1 .. n /\
            \A k \in i .. j - 1 : k \in 1 .. n
      BY <1>1
    <2> QED BY <1>1, <2>1, <2>2 DEF InStep, SourcesKept
  <1>7. LinesKept(b, st, t)
    BY <1>1 DEF InStep, LinesKept
  <1> QED BY <1>3, <1>4, <1>5, <1>6, <1>7 DEF InStep, b

\* The call on top has the frame on top, and reads from the stream.
LEMMA TopCall ==
  ASSUME NEW a \in Seq(Activations), NEW st \in Seq(Frames), NEW str, NEW s, NEW t,
         InStep(a, st, str, s, t), a # <<>>, IsCall(Last(a))
  PROVE  /\ st # <<>> /\ Len(st) = Depth(Last(a)) /\ Last(a).was.depth = Len(st) - 1
         /\ str = Last(a).file /\ Last(st).id = Last(a).was.stream
         /\ Front(a) # <<>> /\ IsForth(Last(Front(a)))
  <1> DEFINE n == Len(a)
             m == Len(st)
  <1>1. n \in Nat \ {0} /\ m \in Nat /\ Last(a) = a[n] /\ IsCall(a[n])
    BY FrontLast DEF Last
  <1>2. Depth(a[n]) \in Nat /\ a[n].was.depth \in Nat /\ Depth(a[n]) = a[n].was.depth + 1
    BY <1>1, Fields DEF Remembers
  <1>3. Depth(a[n]) <= m
    BY <1>1 DEF InStep, Depths, Remembers
  <1>4. m # 0 /\ m \in 1 .. m
    BY <1>1, <1>2, <1>3
  <1>5. PICK i \in 1 .. n : IsCall(a[i]) /\ Depth(a[i]) = m
    BY <1>4 DEF InStep, Depths
  <1>6. i < n => Depth(a[i]) <= a[n].was.depth
    BY <1>1, <1>5 DEF InStep, Depths, Remembers
  <1>7. m = Depth(a[n])
    BY <1>1, <1>2, <1>3, <1>5, <1>6
  <1>8. str = a[n].file
    BY <1>1, <1>2, <1>7 DEF InStep, StreamsKept, StreamAt
  <1>9. a[n].was.stream = st[m].id
    BY <1>1, <1>2, <1>7 DEF InStep, StreamsKept, StreamAt, Remembers
  <1>10. n - 1 \in 1 .. n /\ IsForth(a[n - 1])
    BY <1>1 DEF InStep, Shape
  <1>11. Front(a) # <<>> /\ Last(Front(a)) = a[n - 1]
    <2>1. /\ Front(a) \in Seq(Activations) /\ Len(Front(a)) = n - 1
          /\ \A k \in 1 .. n - 1 : Front(a)[k] = a[k]
      BY <1>1, FrontLast
    <2>2. n - 1 \in Nat \ {0} /\ n - 1 \in 1 .. n - 1
      BY <1>1, <1>10
    <2> QED BY <2>1, <2>2, EmptyLen DEF Last
  <1>12. st # <<>> /\ Last(st) = st[m]
    BY <1>4 DEF Last
  <1> QED BY <1>1, <1>2, <1>7, <1>8, <1>9, <1>10, <1>11, <1>12

\* An included file or an evaluated string ends.
LEMMA CallReturns ==
  ASSUME NEW a \in Seq(Activations), NEW st \in Seq(Frames), NEW str, NEW s, NEW t, NEW v, NEW u,
         InStep(a, st, str, s, t), a # <<>>, IsCall(Last(a)),
         v = IF Last(a).kind = "evaluate" THEN Last(a).was.src ELSE s,
         u = IF Kept(Last(st).num) THEN Last(st).tib ELSE t
  PROVE  InStep(Front(a), Front(st), Last(st).id, v, u)
  <1> DEFINE b == Front(a)
             n == Len(b)
             sb == Front(st)
             m == Len(sb)
             id == Last(st).id
  <1>1. /\ b \in Seq(Activations) /\ n \in Nat /\ Len(a) = n + 1 /\ n + 1 \in 1 .. Len(a)
        /\ \A i \in 1 .. n : b[i] = a[i] /\ i \in 1 .. Len(a)
        /\ Last(a) = a[n + 1]
    BY FrontLast DEF Last
  <1>2. st # <<>> /\ Len(st) = Depth(a[n + 1]) /\ a[n + 1].was.depth = Len(st) - 1
    BY <1>1, TopCall
  <1>3. /\ sb \in Seq(Frames) /\ m \in Nat /\ Len(st) = m + 1
        /\ \A i \in 1 .. m : sb[i] = st[i]
        /\ id = st[m + 1].id /\ Last(st) = st[m + 1]
    <2>1. /\ sb \in Seq(Frames) /\ m = Len(st) - 1 /\ Len(st) \in Nat \ {0}
          /\ \A i \in 1 .. Len(st) - 1 : sb[i] = st[i]
      BY <1>2, FrontLast
    <2> HIDE DEF sb
    <2>2. m \in Nat /\ Len(st) = m + 1
      BY <2>1
    <2> QED BY <2>1, <2>2 DEF Last
  <1>4. \A i \in 1 .. n : Remembers(a[i]) =>
          a[i].was.depth \in Nat /\ Depth(a[i]) \in Nat /\ Depth(a[i]) <= m
                                 /\ a[i].was.depth <= m
    <2> SUFFICES ASSUME NEW i \in 1 .. n, Remembers(a[i])
                 PROVE  a[i].was.depth \in Nat /\ Depth(a[i]) \in Nat /\ Depth(a[i]) <= m
                                               /\ a[i].was.depth <= m
      OBVIOUS
    <2>1. a[i].was.depth \in Nat /\ Depth(a[i]) \in Nat /\ a[i].was.depth <= Depth(a[i])
      BY <1>1, Fields DEF Remembers
    <2>2. Depth(a[i]) <= a[n + 1].was.depth
      BY <1>1 DEF InStep, Depths, Remembers
    <2> QED BY <1>2, <1>3, <2>1, <2>2
  <1> HIDE DEF b, sb, id
  <1>5. Shape(b)
    BY <1>1 DEF InStep, Shape
  <1>6. Depths(b, sb)
    <2>1. ASSUME NEW k \in 1 .. m
          PROVE  \E i \in 1 .. n : IsCall(b[i]) /\ Depth(b[i]) = k
      <3>1. PICK i \in 1 .. n + 1 : IsCall(a[i]) /\ Depth(a[i]) = k
        BY <1>1, <1>3 DEF InStep, Depths
      <3>2. ASSUME i = n + 1 PROVE FALSE
        <4>1. Depth(a[i]) = m + 1
          BY <1>2, <1>3, <3>2
        <4> QED BY <1>3, <3>1, <4>1
      <3> QED BY <1>1, <3>1, <3>2
    <2> QED BY <1>1, <1>4, <2>1 DEF InStep, Depths
  <1>7. StreamsKept(b, sb, id)
    <2>1. \A d \in 0 .. m : StreamAt(sb, id, d) = StreamAt(st, str, d)
      BY <1>3 DEF StreamAt
    <2>2. \A i \in 1 .. n : Remembers(a[i]) => a[i].was.depth \in 0 .. m /\ Depth(a[i]) \in 0 .. m
      BY <1>3, <1>4
    <2> QED BY <1>1, <2>1, <2>2 DEF InStep, StreamsKept, Remembers
  <1>8. SourcesKept(b, v)
    <2>1. ASSUME NEW i \in 1 .. n, Remembers(a[i]), \A k \in i .. n : a[k].kind # "evaluate"
          PROVE  v = a[i].was.src
      <3>1. CASE a[n + 1].kind = "evaluate"
        <4>1. n + 1 \in i .. Len(a) /\ \A k \in i .. (n + 1) - 1 : a[k].kind # "evaluate"
          BY <1>1, <2>1
        <4>2. a[n + 1].was.src = a[i].was.src
          BY <1>1, <2>1, <3>1, <4>1 DEF InStep, SourcesKept
        <4> QED BY <1>1, <3>1, <4>2
      <3>2. CASE a[n + 1].kind # "evaluate"
        <4>1. \A k \in i .. Len(a) : a[k].kind # "evaluate"
          <5>1. \A k \in i .. Len(a) : k \in i .. n \/ k = n + 1
            BY <1>1
          <5> QED BY <2>1, <3>2, <5>1
        <4> QED BY <1>1, <2>1, <3>2, <4>1 DEF InStep, SourcesKept
      <3> QED BY <3>1, <3>2
    <2>2. ASSUME NEW i \in 1 .. n, a[i].kind = "evaluate"
          PROVE  v # "TIB"
      <3>1. n + 1 \in i + 1 .. Len(a) /\ Remembers(a[n + 1])
        BY <1>1 DEF Remembers
      <3> QED BY <1>1, <2>2, <3>1 DEF InStep, SourcesKept
    <2>3. \A i \in 1 .. n : \A j \in i .. n : j \in i .. Len(a) /\ j \in 1 .. n /\
            \A k \in i .. j - 1 : k \in 1 .. n
      BY <1>1
    <2>4. \A i \in 1 .. n : \A j \in i + 1 .. n : j \in i + 1 .. Len(a) /\ j \in 1 .. n
      BY <1>1
    <2>5. ASSUME NEW i \in 1 .. n, Remembers(a[i]), NEW j \in i .. n, a[j].kind = "evaluate",
                 \A k \in i .. j - 1 : b[k].kind # "evaluate"
          PROVE  a[j].was.src = a[i].was.src
      BY <1>1, <2>3, <2>5, SMTT(30) DEF InStep, SourcesKept
    <2>6. ASSUME NEW i \in 1 .. n, a[i].kind = "evaluate", NEW j \in i + 1 .. n, Remembers(a[j])
          PROVE  a[j].was.src # "TIB"
      BY <1>1, <2>4, <2>6 DEF InStep, SourcesKept
    <2>7. Len(b) = n /\ \A i \in 1 .. n : b[i] = a[i]
      BY <1>1
    <2>8. ASSUME NEW i \in 1 .. n, Remembers(b[i])
          PROVE  /\ (\A k \in i .. n : b[k].kind # "evaluate") => v = b[i].was.src
                 /\ \A j \in i .. n :
                      b[j].kind = "evaluate" /\ (\A k \in i .. j - 1 : b[k].kind # "evaluate")
                        => b[j].was.src = b[i].was.src
      <3>1. (\A k \in i .. n : b[k].kind # "evaluate") => v = b[i].was.src
        <4> SUFFICES ASSUME \A k \in i .. n : b[k].kind # "evaluate"
                     PROVE  v = b[i].was.src
          OBVIOUS
        <4>1. \A k \in i .. n : a[k].kind # "evaluate"
          BY <2>3, <2>7
        <4> QED BY <2>1, <2>7, <2>8, <4>1
      <3>2. ASSUME NEW j \in i .. n, b[j].kind = "evaluate",
                   \A k \in i .. j - 1 : b[k].kind # "evaluate"
            PROVE  b[j].was.src = b[i].was.src
        BY <2>3, <2>5, <2>7, <2>8, <3>2
      <3> QED BY <3>1, <3>2
    <2>9. ASSUME NEW i \in 1 .. n, b[i].kind = "evaluate"
          PROVE  /\ v # "TIB"
                 /\ \A j \in i + 1 .. n : Remembers(b[j]) => b[j].was.src # "TIB"
      BY <2>2, <2>4, <2>6, <2>7, <2>9
    <2> QED BY <2>7, <2>8, <2>9 DEF SourcesKept
  <1>9. LinesKept(b, sb, u)
    <2>1. \A i \in 1 .. n : IsCall(a[i]) => Depth(a[i]) \in 1 .. m /\ sb[Depth(a[i])] = st[Depth(a[i])]
      <3>1. \A i \in 1 .. n : IsCall(a[i]) => Depth(a[i]) >= 1
        <4> SUFFICES ASSUME NEW i \in 1 .. n, IsCall(a[i]) PROVE Depth(a[i]) >= 1
          OBVIOUS
        <4>1. Remembers(a[i]) /\ i \in 1 .. Len(a)
          BY <1>1 DEF Remembers
        <4>2. Depth(a[i]) = a[i].was.depth + 1 /\ a[i].was.depth \in Nat
          BY <4>1, Fields
        <4> QED BY <4>2
      <3> QED BY <1>3, <1>4, <3>1 DEF Remembers
    <2>2. ASSUME NEW i \in 1 .. n, a[i].kind = "evaluate", a[i].was.src = "TIB", a[i].was.num > 0
          PROVE  /\ u = a[i].was.text
                 /\ \A k \in Depth(a[i]) .. m : Kept(sb[k].num) => sb[k].tib = a[i].was.text
      <3>1. /\ t = a[i].was.text
            /\ \A k \in Depth(a[i]) .. Len(st) : Kept(st[k].num) => st[k].tib = a[i].was.text
        BY <1>1, <2>2 DEF InStep, LinesKept
      <3>2. Depth(a[i]) \in 1 .. m
        BY <2>1, <2>2 DEF IsCall
      <3>3. m + 1 \in Depth(a[i]) .. Len(st)
        BY <1>3, <3>2
      <3>4. u = a[i].was.text
        BY <1>3, <3>1, <3>3
      <3>5. \A k \in Depth(a[i]) .. m : k \in Depth(a[i]) .. Len(st) /\ sb[k] = st[k]
        BY <1>3, <3>2
      <3> QED BY <3>1, <3>4, <3>5
    <2>3. \A i \in 1 .. n : a[i].kind = "include" => IsCall(a[i])
      BY DEF IsCall
    <2> QED BY <1>1, <1>3, <2>1, <2>2, <2>3 DEF InStep, LinesKept
  <1> QED BY <1>5, <1>6, <1>7, <1>8, <1>9 DEF InStep, b, sb, id

\* A word is called, or a CATCH.
LEMMA ForthCalled ==
  ASSUME NEW a \in Seq(Activations), NEW st \in Seq(Frames), NEW str, NEW s, NEW t,
         NEW x \in Activations, InStep(a, st, str, s, t), a # <<>>, IsForth(x),
         x.kind = "catch" => x.was = [stream |-> str, src |-> s, depth |-> Len(st)]
  PROVE  InStep(Append(a, x), st, str, s, t)
  <1> DEFINE b == Append(a, x)
             n == Len(a)
  <1>1. /\ n \in Nat \ {0} /\ Len(b) = n + 1 /\ b[n + 1] = x /\ ~IsCall(x)
        /\ \A i \in 1 .. n : b[i] = a[i]
    BY AppendType, EmptyLen DEF IsForth, IsCall
  <1> HIDE DEF b
  <1>2. /\ Remembers(x) => x.kind = "catch"
        /\ x.kind = "catch" => Depth(x) = Len(st) /\ x.was.depth = Len(st) /\ x.was.stream = str
                               /\ x.was.src = s
    BY <1>1 DEF Remembers, Depth
  <1>3. \A i \in 1 .. n + 1 : i \in 1 .. n \/ i = n + 1
    BY <1>1
  <1>4. Shape(b)
    BY <1>1, <1>3 DEF InStep, Shape, IsForth, IsCall
  <1>5. Depths(b, st)
    <2>1. \A i \in 1 .. n : Remembers(a[i]) => Depth(a[i]) <= Len(st)
      BY DEF InStep, Depths
    <2>2. \A k \in 1 .. Len(st) : \E i \in 1 .. n + 1 : IsCall(b[i]) /\ Depth(b[i]) = k
      BY <1>1 DEF InStep, Depths
    <2>3. \A i \in 1 .. n + 1 : Remembers(b[i]) => Depth(b[i]) <= Len(st)
      BY <1>1, <1>2, <1>3, <2>1
    <2>4. ASSUME NEW i \in 1 .. n + 1, NEW j \in 1 .. n + 1, i < j, Remembers(b[i]), Remembers(b[j])
          PROVE  Depth(b[i]) <= b[j].was.depth
      <3>1. i \in 1 .. n
        BY <1>1, <2>4
      <3>2. CASE j = n + 1
        BY <1>1, <1>2, <2>1, <2>4, <3>1, <3>2
      <3>3. CASE j \in 1 .. n
        BY <1>1, <2>4, <3>1, <3>3 DEF InStep, Depths
      <3> QED BY <1>3, <3>2, <3>3
    <2> QED BY <1>1, <2>2, <2>3, <2>4 DEF Depths
  <1>6. StreamsKept(b, st, str)
    <2>1. StreamAt(st, str, Len(st)) = str
      BY DEF StreamAt
    <2> QED BY <1>1, <1>2, <1>3, <2>1 DEF InStep, StreamsKept
  <1>7. SourcesKept(b, s)
    <2>1. ASSUME NEW i \in 1 .. n + 1, Remembers(b[i]), NEW j \in i .. n + 1, b[j].kind = "evaluate",
                 \A k \in i .. j - 1 : b[k].kind # "evaluate"
          PROVE  b[j].was.src = b[i].was.src
      <3>1. i \in 1 .. n /\ j \in i .. n /\ b[j] = a[j] /\ b[i] = a[i]
        BY <1>1, <1>3, <2>1 DEF IsCall
      <3>2. \A k \in i .. j - 1 : a[k].kind # "evaluate"
        BY <1>1, <2>1, <3>1
      <3> QED BY <2>1, <3>1, <3>2 DEF InStep, SourcesKept
    <2>2. ASSUME NEW i \in 1 .. n + 1, Remembers(b[i]), \A k \in i .. n + 1 : b[k].kind # "evaluate"
          PROVE  s = b[i].was.src
      <3>1. CASE i = n + 1
        BY <1>1, <1>2, <2>2, <3>1
      <3>2. CASE i \in 1 .. n
        <4>1. \A k \in i .. n : a[k].kind # "evaluate"
          BY <1>1, <2>2, <3>2
        <4> QED BY <1>1, <2>2, <3>2, <4>1 DEF InStep, SourcesKept
      <3> QED BY <1>3, <3>1, <3>2
    <2>3. ASSUME NEW i \in 1 .. n + 1, b[i].kind = "evaluate"
          PROVE  s # "TIB" /\ \A j \in i + 1 .. n + 1 : Remembers(b[j]) => b[j].was.src # "TIB"
      <3>1. i \in 1 .. n /\ a[i].kind = "evaluate"
        BY <1>1, <1>3, <2>3 DEF IsCall
      <3>2. s # "TIB" /\ \A j \in i + 1 .. n : Remembers(a[j]) => a[j].was.src # "TIB"
        BY <3>1 DEF InStep, SourcesKept
      <3>3. \A j \in i + 1 .. n + 1 : j \in 1 .. n \/ j = n + 1
        BY <1>1, <3>1
      <3> QED BY <1>1, <1>2, <3>2, <3>3
    <2> QED BY <1>1, <2>1, <2>2, <2>3 DEF SourcesKept
  <1>8. LinesKept(b, st, t)
    BY <1>1, <1>3 DEF InStep, LinesKept, IsCall
  <1> QED BY <1>4, <1>5, <1>6, <1>7, <1>8 DEF InStep, b

\* INCLUDE-FILE and EVALUATE.
LEMMA CallBegins ==
  ASSUME NEW a \in Seq(Activations), NEW st \in Seq(Frames), NEW str, NEW s, NEW t, NEW v,
         NEW x \in Activations, NEW f \in Frames,
         InStep(a, st, str, s, t), a # <<>>, IsForth(Last(a)), IsCall(x),
         x.was.stream = str, x.was.src = s, x.was.depth = Len(st),
         x.was.text = IF s = "TIB" /\ x.was.num > 0 THEN t ELSE NULL,
         f.id = str, f.toIn = x.was.toIn, f.tib = IF Kept(f.num) THEN t ELSE NULL,
         x.kind = "include" => x.file \in Files /\ f.num = x.was.num /\ v = s,
         x.kind = "evaluate" => x.file = NULL /\ v # "TIB"
  PROVE  InStep(Append(a, x), Append(st, f), x.file, v, t)
  <1> DEFINE b == Append(a, x)
             n == Len(a)
             sb == Append(st, f)
             m == Len(st)
  <1>1. /\ n \in Nat \ {0} /\ Len(b) = n + 1 /\ b[n + 1] = x /\ Last(a) = a[n]
        /\ \A i \in 1 .. n : b[i] = a[i]
        /\ Remembers(x)
    BY AppendType, EmptyLen DEF Last, Remembers
  <1>2. /\ sb \in Seq(Frames) /\ m \in Nat /\ Len(sb) = m + 1 /\ sb[m + 1] = f
        /\ \A i \in 1 .. m : sb[i] = st[i]
    BY AppendType
  <1>3. Depth(x) = m + 1
    BY DEF Depth
  <1>4. \A i \in 1 .. n + 1 : i \in 1 .. n \/ i = n + 1
    BY <1>1
  <1>5. \A i \in 1 .. n : Remembers(a[i]) =>
          a[i].was.depth \in 0 .. m /\ Depth(a[i]) \in 0 .. m
          /\ (IsCall(a[i]) => Depth(a[i]) \in 1 .. m)
    <2> SUFFICES ASSUME NEW i \in 1 .. n, Remembers(a[i])
                 PROVE  a[i].was.depth \in 0 .. m /\ Depth(a[i]) \in 0 .. m
                        /\ (IsCall(a[i]) => Depth(a[i]) \in 1 .. m)
      OBVIOUS
    <2>1. /\ a[i].was.depth \in Nat /\ Depth(a[i]) \in Nat /\ a[i].was.depth <= Depth(a[i])
          /\ IsCall(a[i]) => Depth(a[i]) = a[i].was.depth + 1
      BY Fields DEF Remembers
    <2>2. Depth(a[i]) <= m
      BY DEF InStep, Depths
    <2> QED BY <1>2, <2>1, <2>2
  <1> HIDE DEF b, sb
  <1>6. Shape(b)
    BY <1>1, <1>4 DEF InStep, Shape, IsForth, IsCall
  <1>7. Depths(b, sb)
    <2>1. \A i \in 1 .. n + 1 : Remembers(b[i]) => Depth(b[i]) <= m + 1
      BY <1>1, <1>2, <1>3, <1>4, <1>5
    <2>2. ASSUME NEW i \in 1 .. n + 1, NEW j \in 1 .. n + 1, i < j, Remembers(b[i]), Remembers(b[j])
          PROVE  Depth(b[i]) <= b[j].was.depth
      <3>1. i \in 1 .. n
        BY <1>1, <2>2
      <3>2. CASE j = n + 1
        BY <1>1, <1>2, <1>5, <2>2, <3>1, <3>2
      <3>3. CASE j \in 1 .. n
        BY <1>1, <2>2, <3>1, <3>3 DEF InStep, Depths
      <3> QED BY <1>4, <3>2, <3>3
    <2>3. ASSUME NEW k \in 1 .. m + 1
          PROVE  \E i \in 1 .. n + 1 : IsCall(b[i]) /\ Depth(b[i]) = k
      <3>1. CASE k = m + 1
        BY <1>1, <1>3, <3>1
      <3>2. CASE k \in 1 .. m
        BY <1>1, <3>2 DEF InStep, Depths
      <3> QED BY <1>2, <3>1, <3>2
    <2> QED BY <1>1, <1>2, <2>1, <2>2, <2>3 DEF Depths
  <1>8. StreamsKept(b, sb, x.file)
    <2>1. \A d \in 0 .. m : StreamAt(sb, x.file, d) = StreamAt(st, str, d)
      BY <1>2 DEF StreamAt
    <2>2. StreamAt(sb, x.file, m) = str /\ StreamAt(sb, x.file, m + 1) = x.file
      BY <1>2 DEF StreamAt
    <2> QED BY <1>1, <1>3, <1>4, <1>5, <2>1, <2>2 DEF InStep, StreamsKept, Remembers
  <1>9. SourcesKept(b, v)
    <2>1. ASSUME NEW i \in 1 .. n + 1, Remembers(b[i]), NEW j \in i .. n + 1, b[j].kind = "evaluate",
                 \A k \in i .. j - 1 : b[k].kind # "evaluate"
          PROVE  b[j].was.src = b[i].was.src
      <3>1. CASE j \in 1 .. n
        <4>1. i \in 1 .. n /\ j \in i .. n /\ b[j] = a[j] /\ b[i] = a[i]
          BY <1>1, <1>4, <2>1, <3>1
        <4>2. \A k \in i .. j - 1 : a[k].kind # "evaluate"
          BY <1>1, <2>1, <4>1
        <4> QED BY <2>1, <4>1, <4>2 DEF InStep, SourcesKept
      <3>2. CASE j = n + 1 /\ i \in 1 .. n
        <4>1. \A k \in i .. n : a[k].kind # "evaluate"
          BY <1>1, <2>1, <3>2
        <4> QED BY <1>1, <2>1, <3>2, <4>1 DEF InStep, SourcesKept
      <3> QED BY <1>1, <1>4, <2>1, <3>1, <3>2
    <2>2. ASSUME NEW i \in 1 .. n + 1, Remembers(b[i]), \A k \in i .. n + 1 : b[k].kind # "evaluate"
          PROVE  v = b[i].was.src
      <3>1. x.kind # "evaluate" /\ v = s
        BY <1>1, <2>2 DEF IsCall
      <3>2. CASE i = n + 1
        BY <1>1, <3>1, <3>2
      <3>3. CASE i \in 1 .. n
        <4>1. \A k \in i .. n : a[k].kind # "evaluate"
          BY <1>1, <2>2, <3>3
        <4> QED BY <1>1, <2>2, <3>1, <3>3, <4>1 DEF InStep, SourcesKept
      <3> QED BY <1>4, <3>2, <3>3
    <2>3. ASSUME NEW i \in 1 .. n + 1, b[i].kind = "evaluate"
          PROVE  v # "TIB" /\ \A j \in i + 1 .. n + 1 : Remembers(b[j]) => b[j].was.src # "TIB"
      <3>1. CASE i = n + 1
        BY <1>1, <2>3, <3>1
      <3>2. CASE i \in 1 .. n
        <4>1. s # "TIB" /\ \A j \in i + 1 .. n : Remembers(a[j]) => a[j].was.src # "TIB"
          BY <1>1, <2>3, <3>2 DEF InStep, SourcesKept
        <4>2. v # "TIB"
          BY <4>1 DEF IsCall
        <4>3. \A j \in i + 1 .. n + 1 : (j \in i + 1 .. n /\ j \in 1 .. n) \/ j = n + 1
          BY <1>1, <3>2, SMTT(30)
        <4> QED BY <1>1, <4>1, <4>2, <4>3
      <3> QED BY <1>4, <3>1, <3>2
    <2> QED BY <1>1, <2>1, <2>2, <2>3 DEF SourcesKept
  <1>10. LinesKept(b, sb, t)
    <2>1. \A i \in 1 .. n : IsCall(a[i]) => sb[Depth(a[i])] = st[Depth(a[i])]
      BY <1>2, <1>5 DEF Remembers
    <2>2. ASSUME NEW i \in 1 .. n, a[i].kind = "evaluate", a[i].was.src = "TIB", a[i].was.num > 0
          PROVE  /\ t = a[i].was.text
                 /\ \A k \in Depth(a[i]) .. m + 1 : Kept(sb[k].num) => sb[k].tib = a[i].was.text
      <3>1. /\ t = a[i].was.text
            /\ \A k \in Depth(a[i]) .. m : Kept(st[k].num) => st[k].tib = a[i].was.text
        BY <2>2 DEF InStep, LinesKept
      <3>2. Depth(a[i]) \in 1 .. m
        BY <1>5, <2>2 DEF IsCall, Remembers
      <3>3. \A k \in Depth(a[i]) .. m + 1 : k = m + 1 \/ (k \in Depth(a[i]) .. m /\ sb[k] = st[k])
        BY <1>2, <3>2
      <3> QED BY <1>2, <3>1, <3>3
    <2>3. x.kind = "evaluate" /\ x.was.src = "TIB" /\ x.was.num > 0 =>
            t = x.was.text /\ \A k \in Depth(x) .. m + 1 : Kept(sb[k].num) => sb[k].tib = x.was.text
      BY <1>2, <1>3
    <2>4. x.kind = "include" =>
            sb[Depth(x)].num = x.was.num /\
            (x.was.src = "TIB" /\ Kept(x.was.num) => sb[Depth(x)].tib = x.was.text)
      BY <1>2, <1>3 DEF Kept
    <2>5. sb[Depth(x)].toIn = x.was.toIn
      BY <1>2, <1>3
    <2>6. \A i \in 1 .. n : a[i].kind = "include" => IsCall(a[i])
      BY DEF IsCall
    <2>7. ASSUME NEW i \in 1 .. n
          PROVE
            /\ IsCall(a[i]) => sb[Depth(a[i])].toIn = a[i].was.toIn
            /\ a[i].kind = "include" =>
                 /\ sb[Depth(a[i])].num = a[i].was.num
                 /\ a[i].was.src = "TIB" /\ Kept(a[i].was.num) => sb[Depth(a[i])].tib = a[i].was.text
            /\ IsCall(a[i]) /\ ~(a[i].was.src = "TIB" /\ a[i].was.num > 0) => a[i].was.text = NULL
      BY <2>1, <2>6 DEF InStep, LinesKept
    <2>8. ~(x.was.src = "TIB" /\ x.was.num > 0) => x.was.text = NULL
      OBVIOUS
    <2> QED BY <1>1, <1>2, <1>4, <2>2, <2>3, <2>4, <2>5, <2>7, <2>8 DEF LinesKept
  <1> QED BY <1>6, <1>7, <1>8, <1>9, <1>10 DEF InStep, b, sb

-----------------------------------------------------------------------------
(* What a step does to C functions and include stack.                      *)

\* Nothing is called and nothing returns: a line may be read.
Stays ==
  /\ act' \in Seq(Activations) /\ Same(act, act')
  /\ UNCHANGED <<istack, stream, src>> /\ (tib' # tib => src = "TIB")

CallsForth ==
  \E x \in Activations :
    /\ IsForth(x)
    /\ x.kind = "catch" => x.was = [stream |-> stream, src |-> src, depth |-> Len(istack)]
    /\ act' = Append(act, x)
    /\ UNCHANGED <<istack, stream, src, tib>>

LeavesForth ==
  /\ IsForth(Last(act)) /\ act' = Front(act)
  /\ UNCHANGED <<istack, stream, src, tib>>

CallsInput ==
  \E x \in Activations, f \in Frames :
    /\ IsForth(Last(act)) /\ IsCall(x) /\ x.was = Input
    /\ f.id = stream /\ f.toIn = toIn /\ f.tib = IF Kept(f.num) THEN tib ELSE NULL
    /\ x.kind = "include" => x.file \in Files /\ f.num = num /\ src' = src
    /\ x.kind = "evaluate" => x.file = NULL /\ src' # "TIB"
    /\ act' = Append(act, x) /\ istack' = Append(istack, f) /\ stream' = x.file /\ tib' = tib

\* An include that fails takes the word that called it along.
LeavesInput ==
  /\ Pop /\ toIn' = (IF Top.kind = "evaluate" THEN Top.was.toIn ELSE Restored.toIn)
  /\ num' = (IF Top.kind = "evaluate" THEN Top.was.num ELSE Restored.num)
  /\ src' = (IF Top.kind = "evaluate" THEN Top.was.src ELSE src)
  /\ \/ IsCall(Top) /\ act' = Front(act)
     \/ Top.kind = "include" /\ act' = Front(Front(act))

\* An abandoned EVALUATE is not forgotten, and nothing follows the end.
LEMMA NotAbandoned ==
  ASSUME Next, ~abandoned' PROVE ~abandoned /\ act # <<>>
  <1>1. UNCHANGED abandoned \/ abandoned'
    BY DEF Next, Return, THROW, CATCH, REFILL, Refill, RefillEOF, RefillThrows, Interpret,
           Undefined, OK, INCLUDE_FILE, IncludeDone, EVALUATE, EvaluateEnd, QuitAgain, Unwinding,
           IncludeFails, IncludeEnd, EvaluateFails, Ends, HandleIncludeError, ResetForthTask,
           NullStream, Corrupted, Killed, ended
  <1>2. act # <<>>
    BY DEF Next, Return, THROW, CATCH, REFILL, Refill, RefillEOF, RefillThrows, Interpret,
           Undefined, OK, INCLUDE_FILE, IncludeDone, EVALUATE, EvaluateEnd, QuitAgain, Unwinding,
           IncludeFails, EvaluateFails, Ends, HandleIncludeError, ResetForthTask, NullStream,
           Corrupted, Running, Looping, Interpreting, Failed
  <1> QED BY <1>1, <1>2

\* An activation at another place is the same.
LEMMA AtSame ==
  ASSUME ActType, Looping, NEW p \in Places, act' = At(p)
  PROVE  act' \in Seq(Activations) /\ Same(act, act')
  <1>1. act' \in Seq(Activations)
    BY AtType
  <1>2. Len(act) \in Nat \ {0} /\ Last(act) \in Quits \cup Calls /\ Last(act) = act[Len(act)]
    BY FrontLast DEF ActType, Looping, Top, Activations, Catches, Words, Last
  <1>3. act' = [act EXCEPT ![Len(act)] = [Last(act) EXCEPT !.at = p]]
    BY DEF At, Last
  <1>4. LET x == [Last(act) EXCEPT !.at = p] IN
          /\ x.kind = Last(act).kind
          /\ IsCall(Last(act)) => x.was = Last(act).was /\ x.file = Last(act).file
          /\ Remembers(Last(act)) => IsCall(Last(act))
    BY <1>2 DEF Quits, Calls, IsCall, Remembers
  <1>5. Len(act') = Len(act) /\ \A i \in 1 .. Len(act) :
          act'[i] = IF i = Len(act) THEN [Last(act) EXCEPT !.at = p] ELSE act[i]
    BY <1>2, <1>3 DEF ActType
  <1> QED BY <1>1, <1>2, <1>4, <1>5 DEF Same

\* Steps of words that call or return.
LEMMA WordShape ==
  ASSUME IInv, Return \/ THROW \/ CATCH \/ Interpret
  PROVE  Stays \/ CallsForth \/ LeavesForth
  <1>1. act \in Seq(Activations) /\ Same(act, act)
    BY DEF IInv, ActType, Same
  <1>2. CASE Return \/ THROW
    BY <1>2 DEF Return, THROW, Throw, Running, Forth, IsForth, LeavesForth, source
  <1>3. CASE CATCH
    <2> DEFINE x == [kind |-> "catch",
                     was |-> [stream |-> stream, src |-> src, depth |-> Len(istack)]]
    <2>1. x \in Activations
      BY DEF IInv, SourceType, StackType, Activations, Catches
    <2>2. IsForth(x) /\ x.kind = "catch" /\ x.was = [stream |-> stream, src |-> src, depth |-> Len(istack)]
      BY DEF IsForth
    <2>3. act' = Append(act, x) /\ UNCHANGED <<istack, stream, src, tib>>
      BY <1>3 DEF CATCH, source
    <2> HIDE DEF x
    <2> QED BY <2>1, <2>2, <2>3 DEF CallsForth
  <1>4. CASE Interpret
    <2> DEFINE x == [kind |-> "word"]
    <2>1. x \in Activations /\ IsForth(x) /\ x.kind # "catch"
      BY DEF Activations, Words, IsForth
    <2>2. UNCHANGED <<istack, stream, src, tib>> /\ (act' = act \/ act' = Append(act, x))
      BY <1>4 DEF Interpret
    <2> HIDE DEF x
    <2> QED BY <1>1, <2>1, <2>2 DEF CallsForth, Stays
  <1> QED BY <1>2, <1>3, <1>4

\* Steps of the loops.
LEMMA LoopShape ==
  ASSUME IInv, REFILL \/ Refill \/ RefillEOF \/ RefillThrows \/ Undefined \/ OK \/ QuitAgain \/ ResetForthTask
  PROVE  Stays
  <1>1. act \in Seq(Activations) /\ Same(act, act)
    BY DEF IInv, ActType, Same
  <1>2. CASE REFILL \/ Refill \/ RefillEOF \/ RefillThrows
    <2>1. /\ istack' = istack
          /\ (\E n \in Lengths, t \in Texts : ReadLine(n, t)) \/ ReadNothing \/ AcceptThrows
      BY <1>2 DEF REFILL, Refill, RefillEOF, RefillThrows
    <2>2. UNCHANGED <<stream, src>> /\ (tib' # tib => src = "TIB")
      BY <2>1 DEF ReadLine, Read, ReadNothing, AcceptThrows
    <2>3. act' = act \/ (Looping /\ (act' = At("interpret") \/ act' = At("eof")))
      BY <1>2 DEF REFILL, Refill, RefillEOF, RefillThrows
    <2>4. act' \in Seq(Activations) /\ Same(act, act')
      BY <1>1, <2>3, AtSame DEF IInv, Places
    <2> QED BY <2>1, <2>2, <2>4 DEF Stays
  <1>3. CASE Undefined
    BY <1>1, <1>3 DEF Undefined, Stays
  <1>4. CASE OK \/ QuitAgain
    <2>1. Looping /\ act' = At("refill") /\ UNCHANGED <<istack, stream, src, tib>>
      BY <1>4 DEF OK, QuitAgain, source
    <2> QED BY <2>1, AtSame DEF Stays, IInv, Places
  <1>5. CASE ResetForthTask
    <2>1. Looping /\ act' = At("refill") /\ src' = src /\ tib' = tib /\ stream = STDIN
      BY <1>5 DEF ResetForthTask, Failed, Looping
    <2>2. istack = <<>> /\ istack' = istack /\ stream' = stream
      BY <1>5, <2>1 DEF IInv, StdinAtBottom, ResetForthTask
    <2> QED BY <2>1, <2>2, AtSame DEF Stays, IInv, Places
  <1> QED BY <1>2, <1>3, <1>4, <1>5

\* INCLUDE-FILE pushes the file, or throws.
LEMMA IncludeShape ==
  ASSUME IInv, NEW f \in Files, INCLUDE_FILE(f)
  PROVE  CallsInput \/ LeavesForth
  <1>1. CASE Full
    BY <1>1 DEF INCLUDE_FILE, Throw, Running, Forth, IsForth, LeavesForth
  <1>2. CASE ~Full
    <2> DEFINE x == Called("include", f)
               g == Frame(num)
    <2>1. x \in Activations /\ g \in Frames
      BY CalledType, FrameType DEF IInv, SourceType
    <2>2. IsCall(x) /\ x.was = Input /\ x.kind = "include" /\ x.file = f
      BY DEF Called, IsCall
    <2>3. g.id = stream /\ g.toIn = toIn /\ g.num = num /\ g.tib = IF Kept(num) THEN tib ELSE NULL
      BY DEF Frame
    <2>4. /\ act' = Append(act, x) /\ istack' = Append(istack, g) /\ stream' = f
          /\ tib' = tib /\ src' = src /\ IsForth(Last(act))
      BY <1>2 DEF INCLUDE_FILE, Running, Forth, IsForth
    <2> HIDE DEF x, g
    <2> QED BY <2>1, <2>2, <2>3, <2>4 DEF CallsInput
  <1> QED BY <1>1, <1>2

\* EVALUATE pushes the string, or is abandoned.
LEMMA EvaluateShape ==
  ASSUME IInv, ~abandoned', NEW s \in Strings, EVALUATE(s)
  PROVE  CallsInput
  <1> DEFINE x == Called("evaluate", NULL)
             g == Frame(StringLength)
  <1>1. ~Full
    BY DEF EVALUATE
  <1>2. x \in Activations /\ g \in Frames
    BY CalledType, FrameType, InterpAssumption DEF IInv, Lengths
  <1>3. IsCall(x) /\ x.was = Input /\ x.kind = "evaluate" /\ x.file = NULL
    BY DEF Called, IsCall
  <1>4. /\ g.id = stream /\ g.toIn = toIn /\ g.num = StringLength
        /\ g.tib = IF Kept(StringLength) THEN tib ELSE NULL
    BY DEF Frame
  <1>5. /\ act' = Append(act, x) /\ istack' = Append(istack, g) /\ stream' = NULL
        /\ tib' = tib /\ src' # "TIB" /\ IsForth(Last(act))
    BY <1>1, InterpAssumption DEF EVALUATE, Running, Forth, IsForth
  <1> HIDE DEF x, g
  <1> QED BY <1>2, <1>3, <1>4, <1>5 DEF CallsInput

\* The end of a file or a string.
LEMMA EndShape ==
  ASSUME IInv, Nested, ~abandoned, IncludeDone \/ IncludeFails \/ EvaluateEnd
  PROVE  LeavesInput
  <1>1. CASE IncludeDone
    BY <1>1 DEF IncludeDone, IncludeEnd, LeavesInput, IsCall, Looping
  <1>2. CASE IncludeFails
    <2>1. act' = Front(Front(act)) /\ Top.kind = "include" /\ IncludeEnd(exc)
      BY <1>2 DEF IncludeFails, IncludeEnd, Throw
    <2> QED BY <2>1 DEF IncludeEnd, LeavesInput
  <1>3. CASE EvaluateEnd
    BY <1>3 DEF EvaluateEnd, LeavesInput, IsCall
  <1> QED BY <1>1, <1>2, <1>3

\* pfQuit has nothing to pop.
LEMMA QuitAtBottom ==
  ASSUME IInv, Nested, ~abandoned, Failed
  PROVE  istack = <<>> /\ stream = STDIN
  <1>1. act # <<>> /\ InStep(act, istack, stream, src, tib) /\ Last(act).kind = "quit"
    BY DEF Failed, Nested, Top
  <1>2. Len(act) \in Nat \ {0} /\ act[Len(act)].kind = "quit"
    BY <1>1, FrontLast DEF IInv, ActType, Last
  <1>3. Len(act) = 1
    <2>1. \A i \in 1 .. Len(act) : act[i].kind = "quit" <=> i = 1
      BY <1>1 DEF InStep, Shape
    <2> QED BY <1>2, <2>1
  <1>4. \A i \in 1 .. Len(act) : ~IsCall(act[i])
    BY <1>2, <1>3 DEF IsCall
  <1>5. \A k \in 1 .. Len(istack) : FALSE
    BY <1>1, <1>4 DEF InStep, Depths
  <1>6. Len(istack) \in Nat
    BY DEF IInv, StackType
  <1>7. istack = <<>>
    BY <1>5, <1>6, EmptyLen DEF IInv, StackType
  <1> QED BY <1>7 DEF IInv, StdinAtBottom

\* A step of a program in step has one of these shapes.
LEMMA StepShape ==
  ASSUME IInv, Nested, Next, ~abandoned', act' # <<>>
  PROVE  Stays \/ CallsForth \/ LeavesForth \/ CallsInput \/ LeavesInput
  <1>1. ~abandoned /\ act # <<>>
    BY NotAbandoned
  <1>2. CASE Return \/ THROW \/ CATCH \/ Interpret
    BY <1>2, WordShape
  <1>3. CASE REFILL \/ Refill \/ RefillEOF \/ RefillThrows \/ Undefined \/ OK \/ QuitAgain
             \/ ResetForthTask
    BY <1>3, LoopShape
  <1>4. CASE \E f \in Files : INCLUDE_FILE(f)
    BY <1>4, IncludeShape
  <1>5. CASE \E s \in Strings : EVALUATE(s)
    BY <1>5, EvaluateShape
  <1>6. CASE IncludeDone \/ IncludeFails \/ EvaluateEnd
    BY <1>1, <1>6, EndShape
  <1>7. CASE EvaluateFails
    BY <1>7 DEF EvaluateFails
  <1>8. CASE HandleIncludeError
    BY <1>1, <1>8, QuitAtBottom, InterpAssumption DEF HandleIncludeError
  <1>9. CASE Ends \/ NullStream \/ Corrupted
    BY <1>9 DEF Ends, NullStream, Corrupted, Killed
  <1> QED BY <1>2, <1>3, <1>4, <1>5, <1>6, <1>7, <1>8, <1>9 DEF Next, Unwinding

\* What is on top after the input was left, before the include fails.
LEMMA InputLeft ==
  ASSUME IInv, InStep(act, istack, stream, src, tib), act # <<>>, LeavesInput
  PROVE  /\ IsCall(Top) /\ stream = Top.file
         /\ InStep(Front(act), istack', stream', src', tib')
         /\ Front(act) # <<>> /\ IsForth(Last(Front(act))) /\ Front(act) \in Seq(Activations)
         /\ istack # <<>> /\ istack' = Front(istack) /\ Restored = Last(istack)
         /\ Len(istack) = Depth(Top) /\ stream' = Top.was.stream
  <1>1. act \in Seq(Activations) /\ istack \in Seq(Frames)
    BY DEF IInv, ActType, StackType
  <1>2. IsCall(Top)
    BY DEF LeavesInput, IsCall
  <1>3. /\ istack # <<>> /\ Len(istack) = Depth(Top) /\ stream = Top.file
        /\ Last(istack).id = Top.was.stream
        /\ Front(act) # <<>> /\ IsForth(Last(Front(act)))
    BY <1>1, <1>2, TopCall DEF Top
  <1>4. /\ istack' = Front(istack) /\ Restored = Last(istack) /\ stream' = Last(istack).id
        /\ tib' = IF Kept(Last(istack).num) THEN Last(istack).tib ELSE tib
    BY <1>3 DEF LeavesInput, Pop, Restored
  <1>5. src' = IF Last(act).kind = "evaluate" THEN Last(act).was.src ELSE src
    BY DEF LeavesInput, Top
  <1>6. InStep(Front(act), Front(istack), Last(istack).id, src', tib')
    BY <1>1, <1>2, <1>4, <1>5, CallReturns DEF Top
  <1> QED BY <1>1, <1>2, <1>3, <1>4, <1>6, FrontLast

\* Every step keeps functions and include stack in step.
LEMMA StepNested ==
  ASSUME IInv, IInv', Nested, [Next]_vars
  PROVE  Nested'
  <1>1. CASE UNCHANGED vars
    BY <1>1 DEF vars, source, ended, Nested
  <1>2. CASE Next /\ ~(~abandoned' /\ act' # <<>>)
    BY <1>2 DEF Nested
  <1>3. CASE Next /\ ~abandoned' /\ act' # <<>>
    <2>1. act # <<>> /\ InStep(act, istack, stream, src, tib)
      BY <1>3, NotAbandoned DEF Nested
    <2>2. act \in Seq(Activations) /\ istack \in Seq(Frames)
      BY DEF IInv, ActType, StackType
    <2>3. CASE Stays
      <3>1. InStep(act', istack, stream, src, tib')
        BY <2>1, <2>2, <2>3, SameInStep DEF Stays
      <3> QED BY <2>3, <3>1 DEF Stays, Nested
    <2>4. CASE CallsForth
      <3>1. InStep(act', istack, stream, src, tib)
        BY <2>1, <2>2, <2>4, ForthCalled DEF CallsForth
      <3> QED BY <2>4, <3>1 DEF CallsForth, Nested
    <2>5. CASE LeavesForth
      <3>1. InStep(act', istack, stream, src, tib)
        BY <2>1, <2>2, <2>5, ForthReturns DEF LeavesForth
      <3> QED BY <2>5, <3>1 DEF LeavesForth, Nested
    <2>6. CASE CallsInput
      <3>1. PICK x \in Activations, f \in Frames :
              /\ IsForth(Last(act)) /\ IsCall(x) /\ x.was = Input
              /\ f.id = stream /\ f.toIn = toIn /\ f.tib = IF Kept(f.num) THEN tib ELSE NULL
              /\ x.kind = "include" => x.file \in Files /\ f.num = num /\ src' = src
              /\ x.kind = "evaluate" => x.file = NULL /\ src' # "TIB"
              /\ act' = Append(act, x) /\ istack' = Append(istack, f) /\ stream' = x.file
              /\ tib' = tib
        BY <2>6 DEF CallsInput
      <3>2. /\ x.was.stream = stream /\ x.was.src = src /\ x.was.depth = Len(istack)
            /\ x.was.text = IF src = "TIB" /\ x.was.num > 0 THEN tib ELSE NULL
            /\ x.was.num = num /\ x.was.toIn = toIn
        BY <3>1 DEF Input
      <3>3. InStep(Append(act, x), Append(istack, f), x.file, src', tib)
        BY <2>1, <2>2, <3>1, <3>2, CallBegins
      <3> QED BY <3>1, <3>3 DEF Nested
    <2>7. CASE LeavesInput
      <3>1. /\ InStep(Front(act), istack', stream', src', tib')
            /\ Front(act) # <<>> /\ IsForth(Last(Front(act))) /\ Front(act) \in Seq(Activations)
        BY <2>1, <2>7, InputLeft
      <3>2. CASE act' = Front(act)
        BY <3>1, <3>2 DEF Nested
      <3>3. CASE act' = Front(Front(act))
        <4>1. istack' \in Seq(Frames)
          BY DEF IInv, StackType
        <4>2. InStep(Front(Front(act)), istack', stream', src', tib')
          BY <3>1, <4>1, ForthReturns
        <4> QED BY <3>3, <4>2 DEF Nested
      <3> QED BY <2>7, <3>2, <3>3 DEF LeavesInput
    <2> QED BY <1>3, <2>3, <2>4, <2>5, <2>6, <2>7, StepShape
  <1> QED BY <1>1, <1>2, <1>3

\* The program starts in step.
LEMMA InitNested == Init => Nested
  <1> SUFFICES ASSUME Init PROVE InStep(act, istack, stream, src, tib)
    BY DEF Nested
  <1>1. /\ Len(act) = 1 /\ act[1].kind = "quit" /\ Len(istack) = 0
        /\ \A i \in 1 .. 1 : ~IsCall(act[i]) /\ ~Remembers(act[i])
    BY DEF Init, IsCall, Remembers
  <1>2. Shape(act)
    BY <1>1 DEF Shape, IsCall
  <1>3. Depths(act, istack)
    BY <1>1 DEF Depths
  <1>4. StreamsKept(act, istack, stream) /\ SourcesKept(act, src) /\ LinesKept(act, istack, tib)
    BY <1>1 DEF StreamsKept, SourcesKept, LinesKept, IsCall
  <1> QED BY <1>2, <1>3, <1>4 DEF InStep

\* Functions and include stack are in step.
LEMMA NestedAlways == Spec => []Nested
  <1>1. IInv /\ IInv' /\ Nested /\ [Next]_vars => Nested'
    BY StepNested
  <1> QED BY <1>1, InitNested, Inductive, PTL DEF Spec

-----------------------------------------------------------------------------
(* What CATCH and the reader of a line find when they are back.            *)

\* A CATCH on top has its input.
LEMMA TopCatch ==
  ASSUME NEW a \in Seq(Activations), NEW st \in Seq(Frames), NEW str, NEW s, NEW t,
         InStep(a, st, str, s, t), a # <<>>, Last(a).kind = "catch"
  PROVE  str = Last(a).was.stream /\ s = Last(a).was.src /\ Len(st) = Last(a).was.depth
  <1> DEFINE n == Len(a)
             m == Len(st)
  <1>1. n \in Nat \ {0} /\ m \in Nat /\ Last(a) = a[n] /\ Remembers(a[n]) /\ ~IsCall(a[n])
    BY FrontLast DEF Last, Remembers, IsCall
  <1>2. Depth(a[n]) = a[n].was.depth /\ a[n].was.depth \in Nat
    BY <1>1, Fields
  <1>3. a[n].was.depth <= m
    BY <1>1, <1>2 DEF InStep, Depths
  <1>4. m = a[n].was.depth
    <2> SUFFICES ASSUME m # a[n].was.depth PROVE FALSE
      OBVIOUS
    <2>1. m \in 1 .. m
      BY <1>1, <1>2, <1>3
    <2>2. PICK i \in 1 .. n : IsCall(a[i]) /\ Depth(a[i]) = m
      BY <2>1 DEF InStep, Depths
    <2>3. i < n
      BY <1>1, <2>2
    <2>4. Depth(a[i]) <= a[n].was.depth
      BY <1>1, <2>2, <2>3 DEF InStep, Depths, Remembers
    <2> QED BY <1>1, <1>2, <1>3, <2>2, <2>4
  <1>5. str = a[n].was.stream
    BY <1>1, <1>4 DEF InStep, StreamsKept, StreamAt
  <1>6. s = a[n].was.src
    <2>1. \A k \in n .. n : a[k].kind # "evaluate"
      BY <1>1 DEF IsCall
    <2> QED BY <1>1, <2>1 DEF InStep, SourcesKept
  <1> QED BY <1>1, <1>4, <1>5, <1>6

\* Which activations a step leaves.
LEMMA WhoLeaves ==
  ASSUME IInv, Nested, Next, NEW i \in DOMAIN act, left(i)
  PROVE  /\ act # <<>> /\ act' # <<>> /\ InStep(act, istack, stream, src, tib)
         /\ \/ LeavesForth /\ i = Len(act)
            \/ LeavesInput /\ i = Len(act)
            \/ LeavesInput /\ act' = Front(Front(act)) /\ i = Len(act) - 1
  <1>1. act \in Seq(Activations) /\ i \in 1 .. Len(act) /\ Len(act) \in Nat
    BY DEF IInv, ActType
  <1>2. Len(act') \in 1 .. i - 1 /\ ~abandoned'
    BY DEF left
  <1>3. act' # <<>>
    BY <1>1, <1>2
  <1>4. act # <<>> /\ InStep(act, istack, stream, src, tib)
    BY <1>2, NotAbandoned DEF Nested
  <1>5. ~Stays
    BY <1>1, <1>2 DEF Stays, Same
  <1>6. ~CallsForth /\ ~CallsInput
    <2>1. \A x \in Activations : Len(Append(act, x)) = Len(act) + 1
      BY <1>1, AppendType
    <2> QED BY <1>1, <1>2, <2>1 DEF CallsForth, CallsInput
  <1>7. LeavesForth \/ LeavesInput
    BY <1>2, <1>3, <1>5, <1>6, StepShape
  <1>8. Len(Front(act)) = Len(act) - 1
    BY <1>1, <1>4, FrontLast
  <1>9. CASE act' = Front(act)
    <2>1. i = Len(act)
      BY <1>1, <1>2, <1>8, <1>9
    <2> QED BY <1>3, <1>4, <1>7, <2>1
  <1>10. CASE act' # Front(act)
    <2>1. LeavesInput /\ act' = Front(Front(act))
      BY <1>7, <1>10 DEF LeavesForth, LeavesInput
    <2>2. Front(act) # <<>> /\ Front(act) \in Seq(Activations)
      BY <1>4, <2>1, InputLeft
    <2>3. Len(Front(Front(act))) = Len(act) - 2
      BY <1>1, <1>8, <2>2, FrontLast
    <2>4. i = Len(act) \/ i = Len(act) - 1
      BY <1>1, <1>2, <2>1, <2>3
    <2> QED BY <1>3, <1>4, <2>1, <2>4
  <1> QED BY <1>9, <1>10

(* CATCH comes back to the stream, the source and the depth of the include *)
(* stack it was called with, whether its word returned or threw out of     *)
(* included files, however deep: ffIncludeFile has popped what it pushed.  *)
THEOREM CatchComesBack == Spec => CatchKeepsInput
  <1>1. ASSUME IInv, Nested, Next PROVE catchKeepsInput
    <2> SUFFICES ASSUME NEW i \in DOMAIN act, act[i].kind = "catch", left(i)
                 PROVE  stream' = act[i].was.stream /\ src' = act[i].was.src
                        /\ Len(istack') = act[i].was.depth
      BY DEF catchKeepsInput
    <2>1. /\ act # <<>> /\ act' # <<>> /\ InStep(act, istack, stream, src, tib)
          /\ \/ LeavesForth /\ i = Len(act)
             \/ LeavesInput /\ i = Len(act)
             \/ LeavesInput /\ act' = Front(Front(act)) /\ i = Len(act) - 1
      BY <1>1, WhoLeaves
    <2>2. act \in Seq(Activations) /\ istack \in Seq(Frames)
      BY <1>1 DEF IInv, ActType, StackType
    <2>3. CASE LeavesForth /\ i = Len(act)
      <3>1. Last(act) = act[i]
        BY <2>3 DEF Last
      <3>2. stream = act[i].was.stream /\ src = act[i].was.src /\ Len(istack) = act[i].was.depth
        BY <2>1, <2>2, <3>1, TopCatch
      <3> QED BY <2>3, <3>2 DEF LeavesForth
    <2>4. CASE LeavesInput /\ i = Len(act)
      BY <2>4 DEF LeavesInput, IsCall, Top, Last
    <2>5. CASE LeavesInput /\ act' = Front(Front(act)) /\ i = Len(act) - 1
      <3>1. /\ InStep(Front(act), istack', stream', src', tib') /\ Front(act) # <<>>
            /\ Front(act) \in Seq(Activations) /\ istack' = Front(istack) /\ istack # <<>>
        BY <1>1, <2>1, <2>5, InputLeft
      <3>2. istack' \in Seq(Frames)
        BY <2>2, <3>1, FrontLast
      <3>3. Last(Front(act)) = act[i]
        <4>1. i \in 1 .. Len(act) /\ Len(act) \in Nat
          BY <2>2
        <4>2. Len(Front(act)) = Len(act) - 1 /\ \A k \in 1 .. Len(act) - 1 : Front(act)[k] = act[k]
          BY <2>1, <2>2, FrontLast
        <4>3. i \in 1 .. Len(act) - 1 /\ Len(Front(act)) = i
          BY <2>5, <4>1, <4>2
        <4> QED BY <4>2, <4>3 DEF Last
      <3> QED BY <3>1, <3>2, <3>3, TopCatch
    <2> QED BY <2>1, <2>3, <2>4, <2>5
  <1>2. IInv /\ Nested /\ [Next]_vars => [catchKeepsInput]_vars
    BY <1>1
  <1> QED BY <1>2, Inductive, NestedAlways, PTL DEF Spec, CatchKeepsInput

\* The line that popping a frame brings back.
LEMMA LineBack ==
  ASSUME IInv, InStep(act, istack, stream, src, tib), act # <<>>, LeavesInput,
         Top.was.src = "TIB", Top.was.num < TIB_SIZE - 1
  PROVE  /\ src' = "TIB" /\ num' = Top.was.num /\ toIn' = Top.was.toIn
         /\ Len(istack') = Top.was.depth /\ stream' = Top.was.stream
         /\ Top.was.text = IF Top.was.num > 0 THEN tib' ELSE NULL
  <1> DEFINE n == Len(act)
             f == istack[Depth(act[n])]
             w == act[n].was
  <1>1. /\ IsCall(Top) /\ istack # <<>> /\ Restored = Last(istack)
        /\ istack' = Front(istack) /\ Len(istack) = Depth(Top) /\ stream' = Top.was.stream
    BY InputLeft
  <1>2. act \in Seq(Activations) /\ istack \in Seq(Frames)
    BY DEF IInv, ActType, StackType
  <1>3. n \in Nat \ {0} /\ n \in 1 .. n /\ Top = act[n] /\ Restored = f
    BY <1>1, <1>2, FrontLast DEF Top, Last
  <1>4. w \in Inputs /\ Depth(act[n]) = w.depth + 1 /\ w.depth \in Nat /\ w.num \in Nat
    <2>1. w \in Inputs /\ Depth(act[n]) = w.depth + 1
      BY <1>1, <1>2, <1>3, Fields
    <2> QED BY <2>1, InterpAssumption DEF Inputs, Lengths
  <1>5. Len(istack') = w.depth
    BY <1>1, <1>2, <1>3, <1>4, FrontLast, SMTT(30)
  <1>6. /\ f.toIn = w.toIn
        /\ act[n].kind = "include" => f.num = w.num /\ (Kept(w.num) => f.tib = w.text)
        /\ act[n].kind = "evaluate" /\ w.num > 0 =>
             tib = w.text /\ (Kept(f.num) => f.tib = w.text)
        /\ ~(w.num > 0) => w.text = NULL
    <2>1. Depth(act[n]) \in Depth(act[n]) .. Len(istack)
      BY <1>1, <1>3, <1>4
    <2> QED BY <1>1, <1>3, <2>1 DEF InStep, LinesKept
  <1>7. tib' = IF Kept(f.num) THEN f.tib ELSE tib
    BY <1>3 DEF LeavesInput, Pop
  <1>8. CASE act[n].kind = "evaluate"
    <2>1. src' = "TIB" /\ num' = w.num /\ toIn' = w.toIn
      BY <1>3, <1>8 DEF LeavesInput
    <2>2. w.num > 0 => tib' = w.text
      BY <1>6, <1>7, <1>8
    <2> QED BY <1>1, <1>3, <1>5, <1>6, <2>1, <2>2
  <1>9. CASE act[n].kind = "include"
    <2>1. src' = src /\ num' = w.num /\ toIn' = w.toIn
      BY <1>3, <1>6, <1>9 DEF LeavesInput
    <2>2. \A k \in n .. n : act[k].kind # "evaluate"
      BY <1>3, <1>9
    <2>3. src = "TIB"
      BY <1>1, <1>3, <2>2 DEF InStep, SourcesKept, Remembers
    <2>4. w.num > 0 => tib' = w.text
      BY <1>3, <1>4, <1>6, <1>7, <1>9 DEF Kept
    <2> QED BY <1>1, <1>3, <1>5, <1>6, <2>1, <2>3, <2>4
  <1> QED BY <1>1, <1>3, <1>8, <1>9 DEF IsCall

(* A line that includes a file or evaluates a string is interpreted from   *)
(* where it was when these are done or the include has failed: stream,     *)
(* source, length, >IN, text and depth are the ones of the call, although  *)
(* only a part of them is kept in the frame and the TIB is shared.         *)
THEOREM LineResumes == Spec => SourceResumes
  <1>1. ASSUME IInv, Nested, Next PROVE sourceResumes
    <2> SUFFICES ASSUME NEW i \in DOMAIN act, act[i].kind \in {"include", "evaluate"}, left(i),
                        act[i].was.src = "TIB", act[i].was.num < TIB_SIZE - 1
                 PROVE  Input' = act[i].was
      BY DEF sourceResumes
    <2>1. /\ act # <<>> /\ InStep(act, istack, stream, src, tib)
          /\ \/ LeavesForth /\ i = Len(act)
             \/ LeavesInput /\ i = Len(act)
             \/ LeavesInput /\ act' = Front(Front(act)) /\ i = Len(act) - 1
      BY <1>1, WhoLeaves
    <2>2. act \in Seq(Activations) /\ i \in 1 .. Len(act) /\ Len(act) \in Nat
      BY <1>1 DEF IInv, ActType
    <2>3. LeavesInput /\ i = Len(act)
      <3>1. ~ (LeavesForth /\ i = Len(act))
        BY DEF LeavesForth, IsForth, Last
      <3>2. ASSUME LeavesInput, act' = Front(Front(act)), i = Len(act) - 1
            PROVE  FALSE
        <4>1. Front(act) # <<>> /\ IsForth(Last(Front(act)))
          BY <1>1, <2>1, <3>2, InputLeft
        <4>2. Len(Front(act)) = Len(act) - 1 /\ \A k \in 1 .. Len(act) - 1 : Front(act)[k] = act[k]
          BY <2>1, <2>2, FrontLast
        <4>3. i \in 1 .. Len(act) - 1 /\ Len(Front(act)) = i
          BY <2>2, <3>2, <4>2
        <4>4. IsForth(act[i])
          BY <4>1, <4>2, <4>3 DEF Last
        <4> QED BY <4>4 DEF IsForth
      <3> QED BY <2>1, <3>1, <3>2
    <2>4. Top = act[i]
      BY <2>3 DEF Top, Last
    <2>5. /\ src' = "TIB" /\ num' = act[i].was.num /\ toIn' = act[i].was.toIn
          /\ Len(istack') = act[i].was.depth /\ stream' = act[i].was.stream
          /\ act[i].was.text = IF act[i].was.num > 0 THEN tib' ELSE NULL
      BY <1>1, <2>1, <2>3, <2>4, LineBack
    <2>6. act[i].was \in Inputs
      BY <2>2, Fields DEF IsCall
    <2>7. Input' = [stream |-> stream', src |-> src', num |-> num', toIn |-> toIn',
                    text |-> IF src' = "TIB" /\ num' > 0 THEN tib' ELSE NULL, depth |-> Len(istack')]
      BY DEF Input
    <2>8. LET w == act[i].was IN
          w = [stream |-> w.stream, src |-> w.src, num |-> w.num, toIn |-> w.toIn,
               text |-> w.text, depth |-> w.depth]
      BY <2>6 DEF Inputs
    <2> QED BY <2>5, <2>7, <2>8
  <1>2. IInv /\ Nested /\ [Next]_vars => [sourceResumes]_vars
    BY <1>1
  <1> QED BY <1>2, Inductive, NestedAlways, PTL DEF Spec, SourceResumes

-----------------------------------------------------------------------------
(* The open files.                                                         *)

\* What FilesMatch says of each file, and that a refused file is not read.
Once ==
  \A i, j \in DOMAIN istack :
    istack[i].id \in Files => istack[i].id # stream /\ (istack[i].id = istack[j].id => i = j)
FilesInv ==
  ~abandoned =>
    /\ \A f \in Files : file[f] # CLOSED <=> f \in Included \cup leaked
    /\ leaked \subseteq Files /\ leaked \cap Included = {} /\ Once

\* The streams after a frame was pushed.
LEMMA IncludedPush ==
  ASSUME StackType, NEW f \in Frames, f.id = stream, istack' = Append(istack, f)
  PROVE  /\ Included' = Included \cup {stream'}
         /\ Once /\ (stream' \in Files => stream' \notin Included) => Once'
  <1> DEFINE n == Len(istack)
  <1>1. /\ n \in Nat /\ DOMAIN istack = 1 .. n /\ DOMAIN istack' = 1 .. n + 1
        /\ istack'[n + 1] = f /\ \A i \in 1 .. n : istack'[i] = istack[i]
    BY DEF StackType
  <1>2. \A i \in 1 .. n + 1 : i \in 1 .. n \/ i = n + 1
    BY <1>1
  <1>3. Included' = Included \cup {stream'}
    <2>1. ASSUME NEW x \in Included' PROVE x \in Included \cup {stream'}
      <3>1. CASE x = stream'
        BY <3>1
      <3>2. CASE x # stream'
        <4>1. PICK i \in DOMAIN istack' : x = istack'[i].id
          BY <2>1, <3>2 DEF Included
        <4> QED BY <1>1, <1>2, <4>1 DEF Included
      <3> QED BY <3>1, <3>2
    <2>2. ASSUME NEW x \in Included \cup {stream'} PROVE x \in Included'
      <3>1. CASE x \in {stream, stream'}
        <4>1. n + 1 \in DOMAIN istack' /\ istack'[n + 1].id = stream
          BY <1>1
        <4> QED BY <3>1, <4>1 DEF Included
      <3>2. CASE x \notin {stream, stream'}
        <4>1. PICK i \in DOMAIN istack : x = istack[i].id
          BY <2>2, <3>2 DEF Included
        <4>2. i \in DOMAIN istack' /\ istack'[i].id = x
          BY <1>1, <4>1
        <4> QED BY <4>2 DEF Included
      <3> QED BY <3>1, <3>2
    <2> QED BY <2>1, <2>2
  <1>4. ASSUME Once, stream' \in Files => stream' \notin Included PROVE Once'
    <2> SUFFICES ASSUME NEW i \in 1 .. n + 1, NEW j \in 1 .. n + 1, istack'[i].id \in Files
                 PROVE  istack'[i].id # stream' /\ (istack'[i].id = istack'[j].id => i = j)
      BY <1>1 DEF Once
    <2>1. \A k \in 1 .. n : istack[k].id \in Included
      BY <1>1 DEF Included
    <2>2. istack'[i].id \in Included
      BY <1>1, <1>2, <2>1 DEF Included
    <2>3. \A k \in 1 .. n : istack[k].id \in Files => istack[k].id # stream
      BY <1>1, <1>4 DEF Once
    <2>4. CASE i \in 1 .. n /\ j \in 1 .. n
      BY <1>1, <1>4, <2>2, <2>4 DEF Once
    <2>5. CASE i = n + 1 \/ j = n + 1
      BY <1>1, <1>2, <1>4, <2>2, <2>3, <2>5
    <2> QED BY <1>2, <2>4, <2>5
  <1> QED BY <1>3, <1>4

\* The streams after the last frame was popped.
LEMMA IncludedPop ==
  ASSUME StackType, istack # <<>>, istack' = Front(istack), stream' = Last(istack).id
  PROVE  /\ Included = Included' \cup {stream}
         /\ Once => Once' /\ (stream \in Files => stream \notin Included')
  <1> DEFINE n == Len(istack)
  <1>1. /\ n \in Nat \ {0} /\ DOMAIN istack = 1 .. n /\ DOMAIN istack' = 1 .. n - 1
        /\ stream' = istack[n].id /\ \A i \in 1 .. n - 1 : istack'[i] = istack[i]
    <2>1. istack \in Seq(Frames) /\ istack' \in Seq(Frames) /\ Len(istack') = n - 1
          /\ n \in Nat \ {0} /\ \A i \in 1 .. n - 1 : istack'[i] = istack[i]
      BY FrontLast DEF StackType
    <2> QED BY <2>1 DEF Last
  <1> HIDE DEF n
  <1>2. \A i \in 1 .. n : i \in 1 .. n - 1 \/ i = n
    BY <1>1
  <1>3. Included = Included' \cup {stream}
    <2>1. ASSUME NEW x \in Included PROVE x \in Included' \cup {stream}
      <3>1. CASE x # stream
        <4>1. PICK i \in 1 .. n : x = istack[i].id
          BY <1>1, <2>1, <3>1 DEF Included
        <4> QED BY <1>1, <1>2, <4>1 DEF Included
      <3> QED BY <3>1
    <2>2. ASSUME NEW x \in Included' \cup {stream} PROVE x \in Included
      <3>1. CASE x = stream'
        <4>1. n \in DOMAIN istack
          BY <1>1
        <4> QED BY <1>1, <3>1, <4>1 DEF Included
      <3>2. CASE x \notin {stream, stream'}
        <4>1. PICK i \in DOMAIN istack' : x = istack'[i].id
          BY <2>2, <3>2 DEF Included
        <4>2. i \in DOMAIN istack /\ x = istack[i].id
          BY <1>1, <4>1
        <4> QED BY <4>2 DEF Included
      <3>3. CASE x = stream
        BY <3>3 DEF Included
      <3> QED BY <3>1, <3>2, <3>3
    <2> QED BY <2>1, <2>2
  <1>4. ASSUME Once PROVE Once' /\ (stream \in Files => stream \notin Included')
    <2>1. \A i \in 1 .. n - 1 : i \in 1 .. n /\ i # n /\ istack'[i] = istack[i]
      BY <1>1
    <2>2. n \in 1 .. n
      BY <1>1
    <2>3. Once'
      <3> SUFFICES ASSUME NEW i \in 1 .. n - 1, NEW j \in 1 .. n - 1, istack'[i].id \in Files
                   PROVE  istack'[i].id # stream' /\ (istack'[i].id = istack'[j].id => i = j)
        BY <1>1 DEF Once
      <3> QED BY <1>1, <1>4, <2>1, <2>2 DEF Once
    <2>4. stream \in Files => stream \notin Included'
      <3> SUFFICES ASSUME stream \in Files, stream \in Included' PROVE FALSE
        OBVIOUS
      <3>1. PICK i \in 1 .. n : istack[i].id = stream
        BY <1>1, <2>1, <2>2 DEF Included
      <3> QED BY <1>1, <1>4, <3>1 DEF Once
    <2> QED BY <2>3, <2>4
  <1> QED BY <1>3, <1>4

\* Which files are open.
Opens == \A f \in Files : file'[f] = CLOSED <=> file[f] = CLOSED

\* A step that opens and closes no file and changes no stream.
LEMMA SameFiles ==
  ASSUME FilesInv, ~abandoned, UNCHANGED <<stream, istack, leaked>>, Opens
  PROVE  FilesInv'
  BY DEF FilesInv, Opens, Included, Once

\* A line is read from an open file: it stays open.
LEMMA ReadOpens ==
  ASSUME FileType,
         (\E n \in Lengths, t \in Texts : ReadLine(n, t)) \/ ReadNothing \/ AcceptThrows
  PROVE  Opens
  <1>1. CASE UNCHANGED file
    BY <1>1 DEF Opens
  <1>2. CASE /\ stream \in Files /\ file[stream] \notin {CLOSED, 0}
             /\ file' = [file EXCEPT ![stream] = @ - 1]
    <2>1. file[stream] \in Nat
      BY <1>2, InterpAssumption DEF FileType, CLOSED
    <2>2. file[stream] - 1 # CLOSED
      BY <1>2, <2>1 DEF CLOSED
    <2>3. \A f \in Files : file'[f] = IF f = stream THEN file[stream] - 1 ELSE file[f]
      BY <1>2 DEF FileType
    <2> QED BY <1>2, <2>2, <2>3 DEF Opens
  <1> QED BY <1>1, <1>2 DEF ReadLine, ReadNothing, AcceptThrows

\* The steps that leave the streams alone.
LEMMA IdleFiles ==
  ASSUME IInv, FilesInv, ~abandoned,
         \/ Return \/ THROW \/ CATCH \/ REFILL \/ Refill \/ RefillEOF \/ RefillThrows
         \/ Interpret \/ Undefined \/ OK \/ QuitAgain \/ Ends \/ NullStream \/ Corrupted
  PROVE  FilesInv'
  <1>1. CASE REFILL \/ Refill \/ RefillEOF \/ RefillThrows
    <2>1. /\ (\E n \in Lengths, t \in Texts : ReadLine(n, t)) \/ ReadNothing \/ AcceptThrows
          /\ UNCHANGED <<istack, leaked>>
      BY <1>1 DEF REFILL, Refill, RefillEOF, RefillThrows, ended
    <2>2. stream' = stream
      BY <2>1 DEF ReadLine, Read, ReadNothing, AcceptThrows
    <2> QED BY <2>1, <2>2, ReadOpens, SameFiles DEF IInv
  <1>2. CASE \/ Return \/ THROW \/ CATCH \/ Interpret \/ Undefined \/ OK \/ QuitAgain
             \/ Ends \/ NullStream \/ Corrupted
    <2>1. UNCHANGED <<stream, istack, leaked, file>>
      BY <1>2 DEF Return, THROW, CATCH, Interpret, Undefined, OK, QuitAgain, Ends, NullStream,
                  Corrupted, Killed, source, ended
    <2>2. Opens
      BY <2>1 DEF Opens
    <2> QED BY <2>1, <2>2, SameFiles
  <1> QED BY <1>1, <1>2

\* INCLUDE-FILE is given a file that was not open.
LEMMA IncludeFiles ==
  ASSUME IInv, FilesInv, ~abandoned, NEW f \in Files, INCLUDE_FILE(f)
  PROVE  FilesInv'
  <1>1. \A g \in Files : file'[g] # CLOSED <=> g = f \/ file[g] # CLOSED
    <2>1. PICK n \in 0 .. MaxLines : file' = [file EXCEPT ![f] = n]
      BY DEF INCLUDE_FILE
    <2>2. n # CLOSED
      BY <2>1, InterpAssumption DEF CLOSED
    <2> QED BY <2>1, <2>2 DEF IInv, FileType
  <1>2. f \notin Included /\ f \notin leaked /\ file[f] = CLOSED
    BY DEF INCLUDE_FILE, FilesInv
  <1>3. CASE Full
    <2>1. leaked' = leaked \cup {f} /\ UNCHANGED <<istack, stream>>
      BY <1>3 DEF INCLUDE_FILE
    <2>2. Included' = Included /\ (Once => Once')
      BY <2>1 DEF Included, Once
    <2> QED BY <1>1, <1>2, <2>1, <2>2 DEF FilesInv
  <1>4. CASE ~Full
    <2>1. leaked' = leaked /\ stream' = f /\ istack' = Append(istack, Frame(num))
      BY <1>4 DEF INCLUDE_FILE
    <2>2. Included' = Included \cup {f} /\ (Once => Once')
      BY <1>2, <2>1, FrameType, IncludedPush DEF IInv, SourceType
    <2> QED BY <1>1, <1>2, <2>1, <2>2 DEF FilesInv
  <1> QED BY <1>3, <1>4

\* EVALUATE opens no file.
LEMMA EvaluateFiles ==
  ASSUME IInv, FilesInv, ~abandoned, ~abandoned', NEW s \in Strings, EVALUATE(s)
  PROVE  FilesInv'
  <1>1. /\ stream' = NULL /\ istack' = Append(istack, Frame(StringLength))
        /\ UNCHANGED <<file, leaked>> /\ NULL \notin Files
    BY InterpAssumption DEF EVALUATE
  <1>2. Frame(StringLength) \in Frames /\ Frame(StringLength).id = stream
    BY FrameType, InterpAssumption DEF IInv, Lengths
  <1>3. Included' = Included \cup {NULL} /\ (Once => Once')
    BY <1>1, <1>2, IncludedPush DEF IInv
  <1> QED BY <1>1, <1>3 DEF FilesInv

\* The end of a file closes the file that is left, the end of a string none.
LEMMA EndFiles ==
  ASSUME IInv, Nested, FilesInv, ~abandoned, IncludeDone \/ IncludeFails \/ EvaluateEnd
  PROVE  FilesInv'
  <1>1. act # <<>> /\ LeavesInput /\ InStep(act, istack, stream, src, tib)
    BY EndShape DEF IncludeDone, IncludeFails, EvaluateEnd, Looping, Interpreting, Nested
  <1>2. /\ IsCall(Top) /\ stream = Top.file /\ istack # <<>> /\ istack' = Front(istack)
        /\ Restored = Last(istack)
    BY <1>1, InputLeft
  <1>3. /\ Included = Included' \cup {stream}
        /\ Once => Once' /\ (stream \in Files => stream \notin Included')
    <2>1. stream' = Last(istack).id
      BY <1>1, <1>2 DEF LeavesInput, Pop
    <2> QED BY <1>2, <2>1, IncludedPop DEF IInv
  <1>4. Top.kind = "include" => stream \in Files
    <2>1. Len(act) \in 1 .. Len(act) /\ Top = act[Len(act)]
      BY <1>1, FrontLast DEF IInv, ActType, Top, Last
    <2> QED BY <1>1, <1>2, <2>1 DEF InStep, Shape
  <1>5. Top.kind = "evaluate" => stream \notin Files
    <2>1. Len(act) \in 1 .. Len(act) /\ Top = act[Len(act)]
      BY <1>1, FrontLast DEF IInv, ActType, Top, Last
    <2> QED BY <1>1, <1>2, <2>1, InterpAssumption DEF InStep, Shape
  <1>6. CASE IncludeDone \/ IncludeFails
    <2>1. Top.kind = "include" /\ file' = [file EXCEPT ![stream] = CLOSED] /\ leaked' = leaked
      BY <1>2, <1>6 DEF IncludeDone, IncludeFails, IncludeEnd, Close, ended
    <2>2. stream \in Files
      BY <1>4, <2>1
    <2>3. \A f \in Files : file'[f] # CLOSED <=> f # stream /\ file[f] # CLOSED
      BY <2>1, <2>2 DEF IInv, FileType
    <2>4. stream \notin leaked /\ stream \notin Included'
      BY <1>3, <2>2 DEF FilesInv
    <2> QED BY <1>3, <2>1, <2>2, <2>3, <2>4 DEF FilesInv
  <1>7. CASE EvaluateEnd
    <2>1. Top.kind = "evaluate" /\ UNCHANGED <<file, leaked>>
      BY <1>7 DEF EvaluateEnd, ended
    <2>2. stream \notin Files
      BY <1>5, <2>1
    <2> QED BY <1>3, <2>1, <2>2 DEF FilesInv
  <1> QED BY <1>6, <1>7

\* Every step keeps the open files those being read.
LEMMA StepFiles ==
  ASSUME IInv, Nested, FilesInv, [Next]_vars
  PROVE  FilesInv'
  <1>1. CASE UNCHANGED vars
    BY <1>1 DEF vars, source, ended, FilesInv, Included, Once
  <1>2. CASE abandoned'
    BY <1>2 DEF FilesInv
  <1>3. CASE Next /\ ~abandoned'
    <2>1. ~abandoned
      BY <1>3, NotAbandoned
    <2>2. CASE \/ Return \/ THROW \/ CATCH \/ REFILL \/ Refill \/ RefillEOF \/ RefillThrows
               \/ Interpret \/ Undefined \/ OK \/ QuitAgain \/ Ends \/ NullStream \/ Corrupted
      BY <2>1, <2>2, IdleFiles
    <2>3. CASE \E f \in Files : INCLUDE_FILE(f)
      BY <2>1, <2>3, IncludeFiles
    <2>4. CASE \E s \in Strings : EVALUATE(s)
      BY <1>3, <2>1, <2>4, EvaluateFiles
    <2>5. CASE IncludeDone \/ IncludeFails \/ EvaluateEnd
      BY <2>1, <2>5, EndFiles
    <2>6. ~EvaluateFails
      BY <1>3 DEF EvaluateFails
    <2>7. ~HandleIncludeError
      BY <2>1, QuitAtBottom, InterpAssumption DEF HandleIncludeError
    <2>8. CASE ResetForthTask
      <3>1. istack = <<>> /\ stream = STDIN
        BY <2>1, <2>8, QuitAtBottom DEF ResetForthTask
      <3>2. UNCHANGED <<stream, istack, leaked, file>>
        BY <2>8, <3>1 DEF ResetForthTask, ended
      <3>3. Opens
        BY <3>2 DEF Opens
      <3> QED BY <2>1, <3>2, <3>3, SameFiles
    <2> QED BY <1>3, <2>2, <2>3, <2>4, <2>5, <2>6, <2>7, <2>8 DEF Next, Unwinding
  <1> QED BY <1>1, <1>2, <1>3

\* At the start no file is open.
LEMMA InitFiles == Init => FilesInv
  BY InterpAssumption DEF Init, FilesInv, Included, Once

(* The open files are the ones being interpreted, each of them once, and   *)
(* those INCLUDE-FILE opened when the include stack was full: however      *)
(* includes nest, end, fail or are caught, no file is closed early or      *)
(* twice, and none but the refused ones stays open.                        *)
THEOREM FilesInStep == Spec => []FilesMatch
  <1>1. FilesInv => FilesMatch
    BY DEF FilesInv, FilesMatch, Once
  <1>2. IInv /\ Nested /\ FilesInv /\ [Next]_vars => FilesInv'
    BY StepFiles
  <1> QED BY <1>1, <1>2, InitFiles, Inductive, NestedAlways, PTL DEF Spec
=============================================================================
