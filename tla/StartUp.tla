------------------------------- MODULE StartUp -------------------------------
(***************************************************************************)
(* The program from pfDoForth to its end: what it allocates for the task   *)
(* and the dictionary, the words it runs with pfCatch (AUTO.INIT, then a   *)
(* turnkey's entry point, the words typed at pfQuit or those of a source   *)
(* file, AUTO.TERM), and what it releases, whatever fails on the way.      *)
(* src/csrc/pf_core.c                                                      *)
(***************************************************************************)
EXTENDS Library

CONSTANTS Programs,    \* dictionaries: code and entries, 0 for a word they lack; what is typed
          MaxCommands, \* bound: words typed at pfQuit or in the source file
          Junk         \* what memory holds before it is written

ASSUME StartUpAssumption ==
  /\ Junk \in Cell /\ MaxCommands \in Nat
  /\ \A p \in Programs :
       /\ p.code \in Seq(Cell) /\ p.input \in Seq(0 .. 255) /\ Len(p.code) <= CodeSize
       /\ {p.init, p.entry, p.term} \cup p.commands \subseteq {NULL} \cup CodeBase .. ReturnBase

VARIABLES
  at,       \* where pfDoForth is
  prog,     \* the dictionary, or NoProgram
  live,     \* what is allocated
  stack,    \* lTask's pointers to its stacks: "unset", "null" or "set"
  tty,      \* the terminal: "normal", or "raw" between ioInit and ioTerm
  Result,   \* what pfDoForth answers
  typed,    \* words typed or read
  faults    \* frees of what is not allocated, uses of unset pointers

outer == <<at, prog, live, stack, tty, Result, typed, faults>>
vars == <<m, calls, outer>>

TaskStacks == {"td_StackLimit", "td_ReturnLimit", "td_FloatStackLimit"}
StackOrder == <<"td_StackLimit", "td_ReturnLimit", "td_FloatStackLimit">>
Dictionary == {"dic", "headers", "code"}
NoProgram == [code |-> <<>>, init |-> NULL, entry |-> NULL, term |-> NULL, commands |-> {}, input |-> <<>>,
              words |-> <<>>]

\* A task with empty stacks, in memory nobody has written.
Rested == [mem |-> [a \in Addresses |-> IF a = gVarBase THEN 10
                                        ELSE IF a \in {td_IN, td_SourceNum, td_SourcePtr, td_OUT,
                                                     gVarReturnCode, gVarByeCode} THEN 0
                                        ELSE Junk],
           tdStack |-> StackBase, tdReturn |-> ReturnBase,
           tos |-> 0, sp |-> StackBase, rp |-> ReturnBase, ip |-> NULL, lp |-> NULL,
           irp |-> ReturnBase, isp |-> StackBase, err |-> 0, owed |-> <<>>,
           token |-> 0, running |-> FALSE,
           fs |-> NoFiles, input |-> <<>>, text |-> <<>>, here |-> NULL]

Init ==
  /\ m = Rested /\ calls = <<>>
  /\ at = "pfCreateTask" /\ prog = NoProgram
  /\ live = {} /\ stack = [s \in TaskStacks |-> "unset"]
  /\ tty = "normal" /\ Result = 0 /\ typed = 0 /\ faults = {}

Free(blocks) ==
  /\ live' = live \ blocks
  /\ faults' = IF blocks \subseteq live THEN faults ELSE faults \cup {"free_of_unallocated"}

-----------------------------------------------------------------------------
(* The task.                                                               *)

\* "CreateTaskContext: insufficient memory." is the other outcome.
pfCreateTask ==
  /\ at = "pfCreateTask"
  /\ \E got \in {{}, {"cftd"}} : live' = live \cup got
  /\ at' = "pfCreateLocalTask"
  /\ UNCHANGED <<m, calls, prog, stack, tty, Result, typed, faults>>

\* The first n stacks are there.  After a failure the pointers of the others
\* are left as pfAllocMem gave them; pfCreateLocalTask ignores the result.
pfCreateTaskStacks(n) ==
  /\ live' = live \cup {"lTask"} \cup {StackOrder[i] : i \in 1 .. n}
  /\ stack' = [i \in TaskStacks |->
                 IF \E k \in 1 .. n : StackOrder[k] = i THEN "set"
                 ELSE IF n < 3 /\ i = StackOrder[n + 1] THEN "null" ELSE "unset"]

pfCreateLocalTask ==
  /\ at = "pfCreateLocalTask"
  /\ \/ \E n \in 0 .. 3 : pfCreateTaskStacks(n)
     \/ UNCHANGED <<live, stack>>
  /\ at' = "pfInit"
  /\ UNCHANGED <<m, calls, prog, tty, Result, typed, faults>>

\* gVarBase is lTask->Base.  Then "if( cftd && lTask )".
pfInit ==
  /\ at = "pfInit"
  /\ \/ /\ "lTask" \notin live
        /\ at' = "crashed" /\ faults' = faults \cup {"lTask->Base of no task"}
        /\ UNCHANGED tty
     \/ /\ "lTask" \in live
        /\ tty' = "raw"
        /\ at' = IF "cftd" \in live THEN "load" ELSE "pfTerm"
        /\ UNCHANGED faults
  /\ UNCHANGED <<m, calls, prog, live, stack, Result, typed>>

-----------------------------------------------------------------------------
(* Running words.                                                          *)

\* A call of pfCatch from C, which goes through the pointers to the stacks.
Run(xt, place) ==
  \/ /\ \A s \in TaskStacks : stack[s] = "set"
     /\ m' = Catch(m, 1, xt) /\ at' = place
     /\ UNCHANGED <<calls, faults>>
  \/ /\ \E s \in TaskStacks : stack[s] # "set"
     /\ at' = "crashed" /\ faults' = faults \cup {"stack_pointer_never_set"}
     /\ UNCHANGED <<m, calls>>

\* pfCatch has returned to C.
Returned == ~m.running /\ calls = <<>>

\* pfBuildDictionary, pfLoadDictionary or pfLoadStaticDictionary; the last
\* two leave a dictionary they cannot fill.
LoadDictionary ==
  /\ at = "load"
  /\ \/ /\ \E left \in {{}, Dictionary} : live' = live \cup left
        /\ at' = "error2"
        /\ UNCHANGED <<m, prog>>
     \/ \E p \in Programs :
          /\ prog' = p /\ live' = live \cup Dictionary
          /\ m' = [m EXCEPT !.mem = [i \in CodeBase .. CodeBase + Len(p.code) - 1 |->
                                       p.code[i - CodeBase + 1]] @@ @,
                            !.input = p.input, !.here = CodeBase + Len(p.code)]
          /\ at' = "AUTO.INIT"
  /\ UNCHANGED <<calls, stack, tty, Result, typed, faults>>

\* pfExecIfDefined( "AUTO.INIT" )
RunAutoInit ==
  /\ at = "AUTO.INIT"
  /\ \/ prog.init = NULL /\ at' = "EntryPoint" /\ UNCHANGED <<m, calls, faults>>
     \/ prog.init # NULL /\ Run(prog.init, "in AUTO.INIT")
  /\ UNCHANGED <<prog, live, stack, tty, Result, typed>>

AutoInitDone ==
  /\ at = "in AUTO.INIT" /\ Returned
  /\ m' = SAVE_REGISTERS(m)
  /\ Result' = m.err
  /\ at' = IF m.err # 0 THEN "error2" ELSE "EntryPoint"
  /\ UNCHANGED <<calls, prog, live, stack, tty, typed, faults>>

\* A turnkey.
RunEntryPoint ==
  /\ at = "EntryPoint" /\ prog.entry # NULL
  /\ Run(prog.entry, "in EntryPoint")
  /\ UNCHANGED <<prog, live, stack, tty, Result, typed>>

EntryPointDone ==
  /\ at = "in EntryPoint" /\ Returned
  /\ m' = SAVE_REGISTERS(m)
  /\ Result' = m.err
  /\ at' = "AUTO.TERM"
  /\ UNCHANGED <<calls, prog, live, stack, tty, typed, faults>>

\* pfQuit: a word is typed.
RunCommand ==
  /\ at = "EntryPoint" /\ prog.entry = NULL /\ typed < MaxCommands
  /\ typed' = typed + 1
  /\ \E xt \in prog.commands : Run(xt, "in pfQuit")
  /\ UNCHANGED <<prog, live, stack, tty, Result>>

\* "Insufficient items", found after each line.
THROW_STACK_UNDERFLOW == W - 4
Underflow(v) == v.tdStack > StackBase

\* An exception other than BYE resets the stacks, like a stack underflow; after
\* BYE pfQuit returns gVarReturnCode, which a word may have set.
CommandDone ==
  /\ at = "in pfQuit" /\ Returned
  /\ LET saved == SAVE_REGISTERS(m)
         reset == m.err \notin {0, THROW_BYE} \/ (m.err = 0 /\ Underflow(saved))
     IN m' = IF reset THEN [saved EXCEPT !.tdStack = StackBase, !.tdReturn = ReturnBase] ELSE saved
  /\ IF m.err = THROW_BYE
       THEN at' = "AUTO.TERM" /\ Result' = m.mem[gVarReturnCode]
       ELSE at' = "EntryPoint" /\ UNCHANGED Result
  /\ UNCHANGED <<calls, prog, live, stack, tty, typed, faults>>

\* At the end of the input ACCEPT, a word, throws BYE.
EndOfInput ==
  /\ at = "EntryPoint" /\ prog.entry = NULL
  /\ Run(ID["BYE"], "in pfQuit")
  /\ UNCHANGED <<prog, live, stack, tty, Result, typed>>

-----------------------------------------------------------------------------
(* pfIncludeFile, when a source file is named.                             *)

\* "pfIncludeFile could not open"
OpenSource ==
  /\ at = "EntryPoint" /\ prog.entry = NULL /\ typed = 0
  /\ \/ at' = "pfIncludeFile" /\ UNCHANGED Result
     \/ at' = "AUTO.TERM" /\ Result' = Minus(1)
  /\ UNCHANGED <<m, calls, prog, live, stack, tty, typed, faults>>

RunSourceWord ==
  /\ at = "pfIncludeFile" /\ typed < MaxCommands
  /\ typed' = typed + 1
  /\ \E xt \in prog.commands : Run(xt, "in pfIncludeFile")
  /\ UNCHANGED <<prog, live, stack, tty, Result>>

\* ffOuterInterpreterLoop ends with the first exception; the stacks stay.
SourceWordDone ==
  /\ at = "in pfIncludeFile" /\ Returned
  /\ LET saved == SAVE_REGISTERS(m)
         exception == IF m.err # 0 THEN m.err
                      ELSE IF Underflow(saved) THEN THROW_STACK_UNDERFLOW ELSE 0
     IN /\ m' = saved /\ Result' = exception
        /\ at' = IF exception # 0 THEN "AUTO.TERM" ELSE "pfIncludeFile"
  /\ UNCHANGED <<calls, prog, live, stack, tty, typed, faults>>

EndOfSource ==
  /\ at = "pfIncludeFile"
  /\ at' = "AUTO.TERM"
  /\ UNCHANGED <<m, calls, prog, live, stack, tty, Result, typed, faults>>

-----------------------------------------------------------------------------
(* The end.                                                                *)

\* pfExecIfDefined( "AUTO.TERM" ), whose result nobody looks at.
RunAutoTerm ==
  /\ at = "AUTO.TERM"
  /\ \/ prog.term = NULL /\ at' = "delete" /\ UNCHANGED <<m, calls, faults>>
     \/ prog.term # NULL /\ Run(prog.term, "in AUTO.TERM")
  /\ UNCHANGED <<prog, live, stack, tty, Result, typed>>

AutoTermDone ==
  /\ at = "in AUTO.TERM" /\ Returned
  /\ m' = SAVE_REGISTERS(m)
  /\ at' = "delete"
  /\ UNCHANGED <<calls, prog, live, stack, tty, Result, typed, faults>>

\* Mutant of DeleteAll: the stacks of lTask are left.
DeleteNoStacks ==
  /\ at = "delete"
  /\ Free(Dictionary \cup {"lTask", "cftd"})
  /\ at' = "pfTerm"
  /\ UNCHANGED <<m, calls, prog, stack, tty, Result, typed>>

\* pfDeleteDictionary, pfDeleteLocalTask with pfDeleteTaskStacks, pfDeleteTask.
\* FREE_VAR frees what is not null: garbage, if it was never set.
DeleteAll ==
  /\ at = "delete"
  /\ \E garbage \in SUBSET {s \in TaskStacks : stack[s] = "unset"} :
       Free(Dictionary \cup {s \in TaskStacks : stack[s] = "set"} \cup garbage \cup {"lTask", "cftd"})
  /\ at' = "pfTerm"
  /\ UNCHANGED <<m, calls, prog, stack, tty, Result, typed>>

\* error2: only the task structure is released.
Error2 ==
  /\ at = "error2"
  /\ Free({"cftd"})
  /\ at' = "pfTerm after error2" /\ Result' = Minus(1)
  /\ UNCHANGED <<m, calls, prog, stack, tty, typed>>

\* "Result ? Result : gVarByeCode" when nothing went wrong.
pfTerm ==
  /\ \/ /\ at = "pfTerm" /\ at' = "returned"
        /\ Result' = IF Result = 0 THEN m.mem[gVarByeCode] ELSE Result
     \/ at = "pfTerm after error2" /\ at' = "failed" /\ UNCHANGED Result
  /\ tty' = "normal"
  /\ UNCHANGED <<m, calls, prog, live, stack, typed, faults>>

-----------------------------------------------------------------------------
Interpret == Step /\ UNCHANGED outer

Next ==
  \/ Interpret
  \/ pfCreateTask \/ pfCreateLocalTask \/ pfInit \/ LoadDictionary
  \/ RunAutoInit \/ AutoInitDone \/ RunEntryPoint \/ EntryPointDone
  \/ RunCommand \/ CommandDone \/ EndOfInput
  \/ OpenSource \/ RunSourceWord \/ SourceWordDone \/ EndOfSource
  \/ RunAutoTerm \/ AutoTermDone \/ DeleteAll \/ Error2 \/ pfTerm

Spec == Init /\ [][Next]_vars

-----------------------------------------------------------------------------
TypeOK ==
  /\ m.mem \in [Addresses -> Cell]
  /\ {m.tos, m.token, m.err} \subseteq Cell
  /\ {m.sp, m.isp, m.tdStack} \subseteq StackLimit .. StackBase + STACK_SAFETY
  /\ {m.rp, m.irp, m.tdReturn} \subseteq ReturnLimit .. ReturnBase
  /\ m.lp \in {NULL} \cup ReturnLimit .. ReturnBase - 1
  /\ m.ip \in {NULL} \cup CodeBase .. StackLimit
  /\ m.running \in BOOLEAN
  /\ \A i \in DOMAIN calls : DOMAIN calls[i] = Registers
  /\ live \subseteq Dictionary \cup TaskStacks \cup {"lTask", "cftd"}
  /\ typed \in 0 .. MaxCommands /\ Result \in Cell
  /\ DOMAIN m.fs.open \subseteq FileStreams /\ m.fs.fails \in 0 .. MaxFails
  /\ DOMAIN m.fs.data = {m.fs.names[n] : n \in DOMAIN m.fs.names} \cup {m.fs.open[s].file : s \in DOMAIN m.fs.open}

\* A word of the library comes to its end.
Ended(name) ==
  /\ At("EXIT") /\ m.owed # <<>> /\ name \in DOMAIN prog.words
  /\ Last(m.owed).xt = prog.words[name]

(* The end of a secondary goes on after the call that entered it, whether  *)
(* Nest or EXECUTE was the call, with the caller's locals and everything   *)
(* the caller has on the return stack (loops, locals, its own return       *)
(* address): loops that were left, locals and caught exceptions in between *)
(* have cleaned up after themselves.  UNLOOP takes a loop of its caller.   *)
ReturnsToCaller ==
  [][At("EXIT") /\ m.owed # <<>> =>
       LET call == Last(m.owed) IN
         /\ m'.ip = IF call.ip = NULL THEN NULL ELSE call.ip + 1
         /\ m'.rp = call.rp + (IF Ended("UNLOOP") THEN 2 ELSE 0) /\ m'.lp = call.lp
         /\ \A a \in DOMAIN call.below : a >= m'.rp => m'.mem[a] = call.below[a]]_m

\* After a THROW the stack pointers, the locals and the instruction pointer are
\* those of the CATCH, the exception is on top.  (A word may have stored what is
\* no address in a stack pointer before.)
throwRestores ==
  LET was == Last(calls)
  IN calls # <<>> /\ Len(calls') < Len(calls) /\ m.err # 0 /\ {was.rp, was.sp} \subseteq Int =>
       /\ m'.rp = was.rp /\ m'.sp = was.sp /\ m'.lp = was.lp
       /\ m'.ip = IF was.ip = NULL THEN NULL ELSE was.ip + 1
       /\ m'.tos = m.err

(* CATCH goes on after itself with the return stack and the locals it had, *)
(* whatever happened in the word it called; after a THROW the data stack   *)
(* is as deep as before, with the exception in the place of the word.      *)
CatchRestores ==
  [][/\ throwRestores
     /\ calls # <<>> /\ Len(calls') < Len(calls) =>
          LET was == Last(calls)
              call == Last(was.owed)
          IN /\ m'.ip = IF call.ip = NULL THEN NULL ELSE call.ip + 1
             /\ m'.rp = call.rp /\ m'.lp = call.lp
             /\ \A a \in DOMAIN call.below : m'.mem[a] = call.below[a]
             /\ m'.tos = m.err
             /\ m.err # 0 => m'.sp = was.sp]_<<m, calls>>

\* Counting one by one from index to index + delta goes from limit - 1 to
\* limit, or from limit to limit - 1.
Crosses(index, limit, delta) ==
  \/ \E k \in 1 .. Signed(delta) : Wrap(index + k) = limit
  \/ \E k \in 0 .. -Signed(delta) - 1 : Wrap(index - k) = limit

(* LOOP and +LOOP end a loop exactly when the limit is passed, up or down, *)
(* across 0 and across the largest number; else they keep the limit and    *)
(* advance the index.                                                      *)
loopsEnd ==
  \A name \in {"LOOP_P", "PLUSLOOP_P"} : At(name) =>
    LET delta == IF name = "LOOP_P" THEN 1 ELSE m.tos
        limit == M_R_PICK(m, 0)
        index == M_R_PICK(m, 1)
    IN IF Crosses(index, limit, delta) THEN m'.rp = m.rp + 2
       ELSE /\ m'.rp = m.rp
            /\ M_R_PICK(m', 0) = limit /\ M_R_PICK(m', 1) = Wrap(index + delta)

\* ( s -- t ), as the comments in the code and the standard have it.
Picture(name, s, t) ==
  CASE name = "SWAP" -> t = <<s[2], s[1]>> \o SubSeq(s, 3, Len(s))
    [] name = "OVER" -> t = <<s[2]>> \o s
    [] name = "ROT" -> t = <<s[3], s[1], s[2]>> \o SubSeq(s, 4, Len(s))
    [] name = "2DUP" -> t = <<s[1], s[2]>> \o s
    [] name = "2OVER" -> t = <<s[3], s[4]>> \o s
    [] name = "2SWAP" -> t = <<s[3], s[4], s[1], s[2]>> \o SubSeq(s, 5, Len(s))
    [] name = "DEPTH" -> t = <<Len(s)>> \o s
    [] name = "PICK" -> t = <<s[s[1] + 2]>> \o Tail(s)
    [] name = "ROLL" -> t = <<s[s[1] + 2]>> \o RemoveAt(Tail(s), s[1] + 1)

\* The result, whose cells are the first of t, is exact.
Exact(name, s, t) ==
  CASE name = "D_PLUS" -> Double(t[2], t[1]) = (Double(s[4], s[3]) + Double(s[2], s[1])) % (W * W)
    [] name = "D_MINUS" -> Double(t[2], t[1]) = (Double(s[4], s[3]) - Double(s[2], s[1])) % (W * W)
    [] name = "D_UMTIMES" -> Double(t[2], t[1]) = s[2] * s[1]
    [] name = "D_MTIMES" -> SignedDouble(t[2], t[1]) = Signed(s[2]) * Signed(s[1])
    [] name = "D_UMSMOD" -> s[2] < s[1] => /\ Double(s[3], s[2]) = t[1] * s[1] + t[2]
                                          /\ t[2] < s[1]
    [] name = "D_MUSMOD" -> s[1] \in 1 .. HIGH_BIT => /\ Double(s[3], s[2]) = Double(t[2], t[1]) * s[1] + t[3]
                                                     /\ t[3] < s[1]

\* The character cells from a to b - 1 of v.
From(v, a, b) == [i \in 1 .. b - a |-> v.mem[a + i - 1]]

\* n bytes are copied where they should be, if what is still to be copied is
\* not overwritten; else CMOVE by one spreads the first; nothing else changes.
bytesMove(name, src, dst, n) ==
  LET safe == IF name = "CMOVE" THEN dst \notin src + 1 .. src + n - 1 ELSE src \notin dst + 1 .. dst + n - 1
  IN /\ safe => From(m', dst, dst + n) = From(m, src, src + n)
     /\ name = "CMOVE" /\ dst = src + 1 => From(m', dst, dst + n) = [i \in 1 .. n |-> m.mem[src]]
     /\ \A a \in CodeBase .. StackLimit - 1 : a \notin dst .. dst + n - 1 => m'.mem[a] = m.mem[a]

\* s comes before t.
Before1st(s, t) ==
  \E k \in 0 .. Len(s) :
    /\ k <= Len(t) /\ SubSeq(s, 1, k) = SubSeq(t, 1, k)
    /\ IF k = Len(s) THEN k < Len(t) ELSE k < Len(t) /\ Char(s[k + 1]) < Char(t[k + 1])

\* WORD always goes on, up to a delimiter or past the end; the word is what it
\* has passed, in upper case and without delimiters: no character is lost.
wordParses(c) ==
  LET at0 == m.mem[td_SourcePtr] + m.mem[td_IN]
      at1 == m.mem[td_SourcePtr] + m'.mem[td_IN]
      end == m.mem[td_SourcePtr] + m.mem[td_SourceNum]
      passed == From(m, at0, Min({at1, end}))
      plain == SelectSeq(passed, LAMBDA x : ~Delimits(c, x))
  IN /\ at1 > at0
     /\ at1 > end \/ Delimits(c, m.mem[at1 - 1])
     /\ m'.mem[gScratch] = Len(plain)
     /\ From(m', gScratch + 1, gScratch + 1 + Len(plain)) = [i \in DOMAIN plain |-> pfCharToUpper(plain[i])]

\* The line is what was typed, without the characters that were deleted and the
\* deletes, before its end or all that fit.  ACCEPT writes in its buffer, and one 0
\* at twice the length of a line that leaves room: the 0 that should end the line
\* is behind it, and behind the buffer once the line fills half of it.
lineTyped(a, n1, n2) ==
  LET line == From(m', a, a + n2)
      k == Len(m.input) - Len(m'.input)
      keys == SubSeq(m.input, 1, k)
      erased == {i \in 1 .. k : keys[i] \in {BACKSPACE, DELETE}}
      plain == SelectSeq(keys, LAMBDA c : c \notin {BACKSPACE, DELETE, CR, LF})
  IN /\ n2 \in 0 .. Max({0, n1})
     /\ n2 < n1 => m'.mem[a + 2 * n2] = 0
     /\ \A b \in CodeBase .. StackLimit - 1 :
          b \notin a .. a + n1 - 1 /\ (n2 < n1 => b # a + 2 * n2) => m'.mem[b] = m.mem[b]
     /\ \A i \in 1 .. k : keys[i] \in {CR, LF} => i = k
     /\ n2 < n1 => keys # <<>> /\ Last(keys) \in {CR, LF}
     /\ erased = {} => IsPrefix(plain, line) /\ \A i \in Len(plain) + 1 .. n2 : line[i] = 255
     /\ Len(plain) - n2 <= Cardinality(erased)
     /\ n2 > 0 => line[n2] \in ToSet(plain) \cup {255}

\* s and t are the stack before and after.
textWords(s, t) ==
  /\ At("DOT") =>
       /\ Len(Front(m'.text)) < CNTT_PAD_SIZE
       /\ ffNumberQ(Front(m'.text), m.mem[gVarBase]) = [ok |-> TRUE, num |-> s[1]]
  /\ At("ACCEPT_P") => lineTyped(s[2], Signed(s[1]), t[1])
  /\ At("WORD") => wordParses(s[1])
  /\ \A name \in {"CMOVE", "CMOVE_UP"} : At(name) => bytesMove(name, s[3], s[2], s[1])
  /\ At("COMPARE") =>
       LET s1 == From(m, s[4], s[4] + s[3])
           s2 == From(m, s[2], s[2] + s[1])
       IN t[1] = IF Before1st(s1, s2) THEN W - 1 ELSE IF s1 = s2 THEN 0 ELSE 1
  /\ \A name \in {"SKIP", "SCAN"} : At(name) =>
       LET Stop(x) == IF name = "SKIP" THEN ~Skips(s[1], x) ELSE Delimits(s[1], x)
       IN /\ t[2] >= s[3] /\ t[2] + t[1] = s[3] + s[2]
          /\ \A a \in s[3] .. t[2] - 1 : ~Stop(m.mem[a])
          /\ Signed(t[1]) > 0 => Stop(m.mem[t[2]])
  /\ At("DIVIDE") =>
       LET rest == Signed(s[2]) - Signed(s[1]) * Signed(t[1])
       IN \E x \in 0 .. HIGH_BIT - 1 :
            /\ x < Signed(s[1]) \/ x < -Signed(s[1])
            /\ rest = IF Negative(s[2]) THEN -x ELSE x

\* The number that these digits write, modulo that of all doubles.
Value(start, digits, base) ==
  FoldLeft(LAMBDA n, x : (n * base + HexDigitToNumber(pfCharToUpper(x))) % (W * W), start, digits)
IsDigit(x, base) == HexDigitToNumber(pfCharToUpper(x)) \in 0 .. base - 1

\* The text shows n, and is between HERE and PAD; the most negative double has
\* one digit more in base 2 than there is room for.
numberShown(n, a, len, base) ==
  LET text == From(m', a, a + len)
      digits == IF n < 0 THEN Tail(text) ELSE text
  IN /\ n < 0 => text[1] = DASH
     /\ \A i \in DOMAIN digits : IsDigit(digits[i], base)
     /\ Value(0, digits, base) = IF n < 0 THEN -n ELSE n
     /\ digits[1] = 48 => Len(digits) = 1
     /\ a >= m.here \/ (base = 2 /\ n = -(W * HIGH_BIT))

\* The digits from a on are added to a double, up to the first that is none.
digitsRead(start, end, a, n, rest, base) ==
  /\ rest \in 0 .. n
  /\ \A b \in a .. a + n - rest - 1 : IsDigit(m.mem[b], base)
  /\ rest > 0 => ~IsDigit(m.mem[a + n - rest], base)
  /\ end = Value(start, From(m, a, a + n - rest), base)

\* The cells t are 0, a single and 1, or a double and 2, as (SNUMBER?) would
\* have it, but for doubles, small digits and the sign of a character.  (There
\* is nothing to be said of a prefix alone: the character after it is read.)
numberRead(s, t, gBase) ==
  LET prefixed == s # <<>> /\ s[1] \in DOMAIN BaseOf
      body == IF prefixed THEN Tail(s) ELSE s
      digits == IF body # <<>> /\ body[1] = DASH THEN Tail(body) ELSE body
      base == IF prefixed THEN BaseOf[s[1]] ELSE gBase
      value == Value(0, Front(digits), base)
      single == ffNumberQ([i \in DOMAIN s |-> pfCharToUpper(s[i])], gBase)
  IN IF body = <<>> THEN prefixed \/ t[1] = 0
     ELSE IF s[1] = QUOTE /\ Len(s) = 3 /\ s[3] = QUOTE THEN t[1] = 1 /\ t[2] = s[2]
     ELSE IF digits # <<>> /\ Last(digits) = 46 /\ \A i \in 1 .. Len(digits) - 1 : IsDigit(digits[i], base)
     THEN t[1] = 2 /\ Double(t[3], t[2]) = (IF digits = body THEN value ELSE -value) % (W * W)
     ELSE IF single.ok THEN t[1] = 1 /\ t[2] = single.num
     ELSE t[1] = 0

\* The quotient is that of FM/MOD, floored, or of SM/REM, towards 0, if it is a cell.
divided(name, d, n, rem, quo) ==
  LET floor == IF n > 0 THEN d \div n ELSE (-d) \div (-n)
      q == IF name # "FM/MOD" /\ floor < 0 /\ floor * n # d THEN floor + 1 ELSE floor
  IN n # 0 /\ q \in -HIGH_BIT .. HIGH_BIT - 1 => Signed(quo) = q /\ Signed(rem) = d - q * n

\* PARSE, or PARSE-WORD, which skips first, from in: what is before the first
\* delimiter, which is passed, too.
parsed(name, c, in, a, n) ==
  LET source == Chars(m.mem[td_SourcePtr], m.mem[td_SourceNum])
      skipped == IF name = "PARSE" THEN 0 ELSE ffSkip(SubSeq(source, in + 1, Len(source)), c)
      rest == SubSeq(source, in + skipped + 1, Len(source))
  IN /\ a = m.mem[td_SourcePtr] + in + skipped
     /\ n <= Len(rest) /\ \A i \in 1 .. n : ~Delimits(c, rest[i])
     /\ n < Len(rest) => Delimits(c, rest[n + 1])
     /\ m'.mem[td_IN] = in + skipped + n + (IF n < Len(rest) THEN 1 ELSE 0)

\* The words of the library; s is the stack when they were called.
libraryWords(call, t) ==
  LET s == call.stack
      base == m.mem[gVarBase]
  IN /\ Ended("(.)") => numberShown(Signed(s[1]), t[2], t[1], base) /\ SubSeq(t, 3, Len(t)) = Tail(s)
     /\ Ended("(D.)") => numberShown(SignedDouble(s[2], s[1]), t[2], t[1], base)
     /\ Ended("(UD.)") => numberShown(Double(s[2], s[1]), t[2], t[1], base)
     /\ Ended(">NUMBER") => /\ digitsRead(Double(s[4], s[3]), Double(t[4], t[3]), s[2], s[1], t[1], base)
                            /\ t[2] = s[2] + s[1] - t[1] /\ SubSeq(t, 5, Len(t)) = SubSeq(s, 5, Len(s))
     /\ Ended("((NUMBER?))") => numberRead(From(m, s[2], s[2] + s[1]), t, base) /\ Len(t) = Len(s) - 1 + t[1]
     /\ \A name \in {"FM/MOD", "SM/REM"} : Ended(name) =>
          divided(name, SignedDouble(s[3], s[2]), Signed(s[1]), t[2], t[1]) /\ SubSeq(t, 3, Len(t)) = SubSeq(s, 4, Len(s))
     /\ Ended("/MOD") => divided("/MOD", Signed(s[2]), Signed(s[1]), t[2], t[1])
     /\ Ended("*/MOD") => divided("*/MOD", Signed(s[3]) * Signed(s[2]), Signed(s[1]), t[2], t[1])
     /\ \A name \in {"PARSE", "PARSE-WORD"} : Ended(name) => parsed(name, s[1], call.in, t[2], t[1])

Shuffles == {"SWAP", "OVER", "ROT", "2DUP", "2OVER", "2SWAP", "DEPTH", "PICK", "ROLL"}
Results == [D_PLUS |-> <<4, 2>>, D_MINUS |-> <<4, 2>>, D_UMTIMES |-> <<2, 2>>,
            D_MTIMES |-> <<2, 2>>, D_UMSMOD |-> <<3, 2>>, D_MUSMOD |-> <<3, 3>>]

(* The stack words move cells as their pictures say although the top is in *)
(* a register, and the words on double cells, built from single cells by   *)
(* halves, carries, shifts and subtractions, are exact for every operand   *)
(* they are defined for, and take and leave the cells they should.         *)
(* MU/MOD is exact for divisors up to HIGH_BIT only: for larger ones       *)
(* "ah << 1" loses a bit.  LOOP and +LOOP end where they should.  The      *)
(* words of the library built from them divide, print, read and parse as   *)
(* they should: a quotient that fits a cell is floored or symmetric, the   *)
(* text of a number reads as that number.                                  *)
WordsCompute ==
  [][LET s == Stack(m)
         t == Stack(m')
     IN /\ loopsEnd /\ textWords(s, t)
        /\ At("EXIT") /\ m.owed # <<>> => libraryWords(Last(m.owed), t)
        /\ \A name \in Shuffles : At(name) => Picture(name, s, t)
        /\ \A name \in DOMAIN Results : At(name) =>
             /\ Exact(name, s, t)
             /\ SubSeq(t, Results[name][2] + 1, Len(t)) = SubSeq(s, Results[name][1] + 1, Len(s))]_m

\* RESIZE-FILE of stream s.
resizeKeeps(s, size, hi) ==
  LET o == m.fs.open[s]
      old == m.fs.data[o.file]
      new == IF o.file \in DOMAIN m'.fs.data THEN m'.fs.data[o.file] ELSE <<>>
      kept == SubSeq(old, 1, Min({size, Len(old)}))
      wanted == kept \o [i \in 1 .. size - Len(old) |-> 0]
      able == /\ hi = 0 /\ ~Negative(size)
              /\ IF size < Len(old) THEN (o.read \/ size = 0) /\ ~(FileStreams \subseteq DOMAIN m.fs.open)
                 ELSE o.write \/ size = Len(old)
  IN /\ m'.tos = 0 => hi = 0 /\ new = wanted /\ s \in DOMAIN m'.fs.open
     /\ m'.tos # 0 => new = old \/ (IsPrefix(new, wanted) /\ (size >= Len(old) => IsPrefix(old, new)))
     /\ able /\ m'.fs.fails = m.fs.fails => m'.tos = 0
     /\ DOMAIN m'.fs.open \subseteq DOMAIN m.fs.open

\* Only the file a word is about changes, and only the stream it is about moves.
onlyItsFile ==
  /\ \A f \in DOMAIN m.fs.data \cap DOMAIN m'.fs.data : m'.fs.data[f] # m.fs.data[f] =>
       \/ (At("FILE_WRITE") \/ At("FILE_RESIZE")) /\ m.fs.open[m.tos].file = f
       \/ /\ At("FILE_CREATE") \/ At("FILE_OPEN")
          /\ m.fs.names[Chars(M_STACK(m, 1), M_STACK(m, 0))] = f
  /\ \A s \in DOMAIN m.fs.open \cap DOMAIN m'.fs.open :
       m'.fs.open[s] # m.fs.open[s] => s = m.tos

\* READ-LINE of u characters to a, from a stream at was.pos: the line, without
\* what ends it, or what fits of it; after a failure what was read so far.
lineRead(a, u, was, is, d, calm, u2, flag, ior) ==
  LET rest == SubSeq(d, was.pos + 1, Len(d))
      k == Before(rest, {i \in DOMAIN rest : rest[i] \in {LF, CR}})
      ends == k < Min({u, Len(rest)})
      crlf == k + 1 < Len(rest) /\ rest[k + 1] = CR /\ rest[k + 2] = LF
      end == IF ends THEN k + (IF crlf THEN 2 ELSE 1) ELSE Min({u, Len(rest)})
  IN /\ u2 <= Min({u, k}) /\ From(m', a, a + u2) = SubSeq(rest, 1, u2)
     /\ calm /\ was.read =>
          /\ ior = 0 /\ u2 = Min({u, k}) /\ is.pos = was.pos + end
          /\ flag = Flag(ends \/ u2 = u \/ u2 > 0)

\* RENAME-FILE, of names.
fileRenamed(old, new, was, is, ior) ==
  IF ior # 0 THEN is.names = was.names /\ (old \in DOMAIN was.names => is.fails < was.fails)
  ELSE /\ old \in DOMAIN was.names /\ is.names[new] = was.names[old]
       /\ DOMAIN is.names = {new} \cup (DOMAIN was.names \ {old})

\* The words of the library on files; t is the stack, s the one they were called with.
libraryFiles(call, t) ==
  LET s == call.stack
      was == call.fs
      is == m.fs
      calm == is.fails = was.fails
  IN /\ Ended("READ-LINE") =>
          LET o == was.open[s[1]]
          IN lineRead(s[3], s[2], o, is.open[s[1]], was.data[o.file], calm, t[3], t[2], t[1])
     /\ Ended("WRITE-LINE") /\ t[1] = 0 =>
          LET o == was.open[s[1]]
              line == Append([i \in 1 .. s[2] |-> m.mem[s[3] + i - 1]], LF)
          IN is.data[o.file] = Place(was.data[o.file], o.pos, line) /\ is.open[s[1]].pos = o.pos + Len(line)
     /\ Ended("RENAME-FILE") => fileRenamed(Chars(s[4], s[3]), Chars(s[2], s[1]), was, is, t[1])
     /\ Ended("FILE-STATUS") => is.open = was.open /\ (calm => (t[1] = 0) = (Chars(s[2], s[1]) \in DOMAIN was.names))

(* RESIZE-FILE, which copies a file to a temporary one, empties it and     *)
(* copies it back by buffers: if it answers 0 the file has the size, what  *)
(* fits of its bytes and zeros; if a call failed on the way, a growing     *)
(* file has still all of its bytes and a shrinking one is whole or cut; it *)
(* answers 0 if no call failed and leaves no stream open.  READ-FILE and   *)
(* WRITE-FILE answer 0 and less than was asked for only at the end of the  *)
(* file, or after a failure the code does not ask for.  No word changes    *)
(* another file, nor moves another stream; FILE-SIZE moves none.           *)
(* READ-LINE reads a line whatever ends it, up to the size of the buffer,  *)
(* and leaves the stream after it; WRITE-LINE answers 0 only if the line   *)
(* and its end are in the file; RENAME-FILE and FILE-STATUS as they say.   *)
FilesKeep ==
  [][LET s == m.tos
         calm == m'.fs.fails = m.fs.fails
     IN /\ onlyItsFile
        /\ At("EXIT") /\ m.owed # <<>> => libraryFiles(Last(m.owed), Stack(m'))
        /\ OnStream("FILE_RESIZE") => resizeKeeps(s, M_STACK(m, 1), M_STACK(m, 0))
        /\ OnStream("FILE_READ") /\ calm /\ m.fs.open[s].read /\ M_STACK(m', 0) < M_STACK(m, 0) =>
             m'.fs.open[s].pos >= FileEnd(m.fs, s)
        /\ OnStream("FILE_WRITE") /\ m'.tos = 0 =>
             /\ m'.fs.open[s].pos = m.fs.open[s].pos + M_STACK(m, 0)
             /\ M_STACK(m, 0) > 0 => FileEnd(m'.fs, s) >= m'.fs.open[s].pos
        /\ OnStream("FILE_SIZE") /\ calm =>
             m'.fs = m.fs /\ M_STACK(m', 1) = FileEnd(m.fs, s)]_m

(* pfDoForth gives the terminal back in its normal mode whatever happened, *)
(* and answers -1 when there is no dictionary or AUTO.INIT failed;         *)
(* if the dictionary was loaded and AUTO.INIT did not fail, everything     *)
(* allocated is freed, once, after the last word has run, and the words    *)
(* ran on stacks and a dictionary that were there.  What was not allocated *)
(* is freed only if a stack is missing and no word ran to crash on it.     *)
(* (After error2, and without memory for the task, lTask, its stacks and   *)
(* the dictionary are left.  Without memory for the task it answers 0.)    *)
CleanExit ==
  /\ at \in {"returned", "failed"} => tty = "normal"
  /\ at = "failed" => Result = Minus(1)
  /\ at \in {"returned", "failed"} /\ faults # {} => at = "returned" /\ \E s \in TaskStacks : stack[s] = "unset"
  /\ at = "returned" /\ prog # NoProgram => live = {}
  /\ m.running => Dictionary \cup TaskStacks \cup {"lTask", "cftd"} \subseteq live
=============================================================================
