----------------------------- MODULE MCStartUp -----------------------------
(***************************************************************************)
(* An instance of StartUp for TLC: 10-bit cells, and dictionaries written   *)
(* as the compiler lays them.                                              *)
(***************************************************************************)
EXTENDS StartUp

ToCell(n) == Wrap(n)
Lit(n) == <<ID["LITERAL_P"], n>>
T(name) == <<ID[name]>>

(* A dictionary is a sequence of words; in their cells Xt(k) stands for    *)
(* the address of the k-th.                                                *)
Xt(k) == W + k
Entry(words, k) == CodeBase + Len(FlattenSeq(SubSeq(words, 1, k - 1)))
Assemble(words) ==
  LET cells == FlattenSeq(words)
  IN [i \in DOMAIN cells |-> IF cells[i] > W THEN Entry(words, cells[i] - W) ELSE cells[i]]

Turnkey(words) ==
  [code |-> Assemble(words), init |-> NULL, entry |-> CodeBase, term |-> NULL, commands |-> {}, input |-> <<>>,
   words |-> <<>>]
\* AUTO.INIT, AUTO.TERM and words to type.
Shell(words, init, term, n) ==
  [code |-> Assemble(words), init |-> Entry(words, init), entry |-> NULL,
   term |-> Entry(words, term), commands |-> {Entry(words, k) : k \in 1 .. n}, input |-> <<>>,
   words |-> <<>>]

\* 3 0 DO n 0 ?DO I J + 2 = IF LEAVE THEN LOOP LOOP
NestedLoops(n) == Turnkey(
  <<Lit(3) \o Lit(0) \o T("DO_P") \o Lit(n) \o Lit(0) \o T("QDO_P") \o <<13>>
    \o T("I") \o T("J") \o T("PLUS") \o Lit(2) \o T("COMP_EQUAL") \o T("ZERO_BRANCH") \o <<3>>
    \o T("LEAVE_P") \o <<3>> \o T("LOOP_P") \o <<ToCell(-11)>> \o T("LOOP_P") \o <<ToCell(-19)>>
    \o T("EXIT")>>)

\* 0 >IN DO LEAVE LOOP
LeftAtOnce == Turnkey(
  <<Lit(0) \o T("VAR_TO_IN") \o T("DO_P") \o T("LEAVE_P") \o <<3>> \o T("LOOP_P") \o <<ToCell(-3)>> \o T("EXIT")>>)

\* limit start DO delta +LOOP
PlusLoop(limit, start, delta) == Turnkey(
  <<Lit(limit) \o Lit(start) \o T("DO_P") \o Lit(delta) \o T("PLUSLOOP_P") \o <<ToCell(-3)>>
    \o T("EXIT")>>)

(* { a b } calls, executes or catches { c } 2 0 DO ... LOOP, which calls a *)
(* word that may throw; AUTO.INIT and AUTO.TERM throw and catch, too.      *)
Frames(call, last) ==
  <<Lit(7) \o Lit(8) \o Lit(2) \o T("LOCAL_ENTRY") \o call
      \o T("LOCAL_FETCH_1") \o T("LOCAL_FETCH_2") \o T("LOCAL_STORE_1") \o T("LOCAL_STORE_2")
      \o T("LOCAL_EXIT") \o T("EXIT"),
    Lit(1) \o Lit(1) \o T("LOCAL_ENTRY") \o Lit(2) \o Lit(0) \o T("DO_P")
      \o <<Xt(3)>> \o Lit(1) \o T("LOCAL_FETCH") \o Lit(1) \o T("LOCAL_PLUSSTORE")
      \o T("LOOP_P") \o <<ToCell(-8)>> \o Lit(1) \o T("LOCAL_FETCH") \o Lit(1) \o T("LOCAL_STORE")
      \o T("LOCAL_EXIT") \o T("EXIT"),
    last \o T("EXIT"),
    Lit(Xt(3)) \o T("CATCH") \o T("DROP") \o T("EXIT")>>
Calls == {<<Xt(2)>>, Lit(Xt(2)) \o T("EXECUTE"), Lit(Xt(2)) \o T("CATCH") \o T("QDUP") \o T("DROP")}
Lasts == {T("NOOP"), Lit(0) \o T("THROW"), Lit(9) \o T("THROW"), T("QUIT_P"), T("BYE"),
          Lit(1) \o Lit(9) \o T("ERRORQ_P"), Lit(0) \o Lit(9) \o T("ERRORQ_P")}

\* Words 1 and 2 are typed; AUTO.INIT and AUTO.TERM catch, or AUTO.INIT may throw.
Shells == {Shell(Frames(call, last), init, 4, 2) : call \in Calls, last \in Lasts, init \in {3, 4}}

\* A word that takes what is not there.
Underflows == {Shell(<<T("DROP") \o T("EXIT"), T("NOOP") \o T("EXIT")>>, 2, 2, 1)}

\* Words that leave another answer in RETURN-CODE or BYE-CODE.
Answers == {Shell(<<Lit(6) \o T(name) \o T("STORE") \o T("EXIT"), T("BYE") \o T("EXIT"), T("NOOP") \o T("EXIT")>>, 3, 3, 2) :
              name \in {"VAR_RETURN_CODE", "VAR_BYE_CODE"}}

\* No word is ever run.
Silent == {[Turnkey(<<T("EXIT")>>) EXCEPT !.entry = NULL]}

\* EXECUTE and CATCH of primitives and of each other.
Executes == {
  Turnkey(<<Lit(5) \o Lit(ID["DUP"]) \o T("EXECUTE") \o T("DROP") \o T("EXIT")>>),
  Turnkey(<<Lit(5) \o Lit(ID["EXIT"]) \o T("EXECUTE") \o T("EXIT")>>),
  Turnkey(<<Lit(5) \o Lit(ID["DUP"]) \o Lit(ID["EXECUTE"]) \o T("EXECUTE") \o T("EXIT")>>),
  Turnkey(<<Lit(5) \o Lit(ID["THROW"]) \o Lit(ID["CATCH"]) \o T("EXECUTE") \o T("EXIT")>>),
  Turnkey(<<Lit(5) \o Lit(Xt(2)) \o Lit(ID["CATCH"]) \o T("CATCH") \o T("EXIT"),
            Lit(ID["THROW"]) \o T("EXECUTE") \o T("EXIT")>>),
  Turnkey(<<Lit(5) \o Lit(Xt(2)) \o Lit(ID["EXECUTE"]) \o T("CATCH") \o T("EXIT"),
            T("DUP") \o T("EXIT")>>)}

Lits(s) == FoldLeft(LAMBDA code, n : code \o Lit(n), <<>>, s)
OneWord(s, name) == Turnkey(<<Lits(s) \o T(name) \o T("EXIT")>>)

High == HIGH_BIT
Edges == {0, 1, 31, 32, 33, 100, High - 1, High, High + 1, W - 32, W - 2, W - 1}
Doubles == {OneWord(<<a, b, c, d>>, name) :
              a, c \in {0, 1, High - 1, High, W - 1}, b, d \in {0, High - 1, High, W - 1}, name \in {"D_PLUS", "D_MINUS"}}
Products == {OneWord(<<a, b>>, name) : a, b \in Edges, name \in {"D_UMTIMES", "D_MTIMES"}}
Quotients == {OneWord(<<a, b, c>>, name) : a \in {0, 1, 700, W - 1}, b, c \in Edges, name \in {"D_UMSMOD", "D_MUSMOD"}}
Compares == {OneWord(<<a, b>>, name) : a, b \in {0, High - 1, High}, name \in Comparisons \cup {"MAX", "MIN", "TIMES"}}
            \cup {OneWord(<<a>>, name) : a \in {0, High - 1, High}, name \in ZeroComparisons}
Shuffled == {OneWord(<<1, 2, 3, 4>>, name) : name \in Shuffles \ {"PICK", "ROLL"}}
            \cup {OneWord(<<1, 2, 3, 4, u>>, name) : u \in 0 .. 3, name \in {"PICK", "ROLL"}}

\* Words on texts: the second word of the dictionary is the text.
OnText(text, code) == Turnkey(<<code \o T("EXIT"), text>>)
At2(k) == Lit(Xt(2)) \o Lit(k) \o T("PLUS")
Printed == {Turnkey(<<Lit(base) \o T("VAR_BASE") \o T("STORE") \o Lit(n) \o T("DOT") \o T("EXIT")>>) :
              base \in {2, 3, 10, 16}, n \in {0, 1, 9, 10, 99, High - 1, High, High + 1, 700, W - 1}}
Numerals == {OnText(<<Len(s)>> \o s, Lit(Xt(2)) \o T("NUMBERQ_P")) :
               s \in {<<49, 50>>, <<45, 49>>, <<36, 70>>, <<37, 45, 49, 48>>, <<35, 57>>, <<39, 65, 39>>,
                      <<39, 65>>, <<71>>, <<49, 45>>, <<45>>, <<36>>}}
Sources == UNION {[1 .. n -> {BLANK, LF, 97}] : n \in 0 .. 4} \cup {<<BLANK, TAB, 97, CR, LF, 98>>}
Parsed == {OnText(<<0>> \o s, At2(1) \o Lit(Len(s)) \o T("SOURCE_SET") \o Lit(c) \o T("WORD") \o Lit(c) \o T("WORD")
                        \o Lit(c) \o T("WORD") \o T("VAR_TO_IN") \o T("FETCH") \o T("SOURCE")) :
             s \in Sources, c \in {BLANK, 97}}
Moved == {OnText(<<1, 2, 3, 4, 5, 6>>, At2(i) \o At2(j) \o Lit(n) \o T(name)) :
            i, j \in 0 .. 3, n \in 0 .. 3, name \in {"CMOVE", "CMOVE_UP"}}
Compared == {OnText(<<97, 200, 97, 98>>, At2(i) \o Lit(n) \o At2(j) \o Lit(k) \o T("COMPARE")) :
               i, j, n, k \in 0 .. 2}
Scanned == {OnText(<<32, 9, 97, 10, 97>>, At2(i) \o Lit(n) \o Lit(c) \o T(name)) :
              i \in 0 .. 3, n \in {0, 1, W - 1}, c \in {32, 97}, name \in {"SKIP", "SCAN"}}
           \cup {OnText(<<32, 9, 97, 10, 97>>, At2(0) \o Lit(5) \o Lit(c) \o T(name)) :
                   c \in {32, 97, 10}, name \in {"SKIP", "SCAN"}}
Bytes == {OnText(<<1, 2, 3>>, At2(0) \o Lit(2) \o Lit(7) \o T("FILL") \o At2(1) \o T("CFETCH") \o At2(2) \o T("CSTORE"))}
BitWords == {OneWord(<<a, b>>, name) : a, b \in {0, 90, W - 1}, name \in {"AND", "OR", "XOR"}}
            \cup {OneWord(<<a, b>>, name) : a \in {1, 90, 700}, b \in {0, 1, NBITS - 1}, name \in {"LSHIFT", "RSHIFT", "ARSHIFT"}}
Divided == {OneWord(<<a, b>>, "DIVIDE") : a \in {0, 1, 7, High - 1, High + 1, W - 6}, b \in {1, 2, High - 1, High, W - 2, W - 1}}

\* Lines typed at KEY and ACCEPT.
Typed(input, n) == [OnText(<<9, 9, 9, 9>>, T("KEY") \o T("EMIT_P") \o T("CR") \o T("FLUSHEMIT")
                               \o At2(0) \o Lit(n) \o T("ACCEPT_P") \o At2(0) \o Lit(3) \o T("TYPE")
                               \o T("VAR_OUT") \o T("FETCH")) EXCEPT !.input = input]
Lines == {Typed(<<97>> \o s, n) : s \in UNION {[1 .. k -> {97, BACKSPACE, LF}] : k \in 0 .. 4}, n \in 0 .. 3}
         \cup {Typed(<<ASCII_EOT>>, 1), Typed(<<>>, ToCell(-1))}

(* Files "a" and "b" and the bytes 1 to 5, which are the second word.  A   *)
(* file is made with n bytes in it; then the words are used on its stream, *)
(* the first local.                                                        *)
FileA == At2(0) \o Lit(1)
FileB == At2(2) \o Lit(1)
Data(n) == At2(4) \o Lit(n)
Fid == T("LOCAL_FETCH_1")
Pop(n) == FlattenSeq([i \in 1 .. n |-> T("DROP")])
ExitIf == T("ZERO_BRANCH") \o <<2>> \o T("EXIT")
LeaveIf == T("ZERO_BRANCH") \o <<3>> \o T("LOCAL_EXIT") \o T("EXIT")
RW == T("FILE_RW")
UseFile(open, code) ==
  open \o ExitIf \o Lit(1) \o T("LOCAL_ENTRY") \o code \o T("LOCAL_EXIT") \o T("EXIT")
\* The third word may use another stream.
Sharing(n, code, third) == Turnkey(<<
  UseFile(FileA \o RW \o T("FILE_BIN") \o T("FILE_CREATE"),
          Data(n) \o Fid \o T("FILE_WRITE") \o Pop(1) \o code),
  <<97, 0, 98, 0, 1, 2, 3, 4, 5>>, third>>)
WithFile(n, code) == Sharing(n, code, <<>>)
Reposition(k) == Lit(k) \o Lit(0) \o Fid \o T("FILE_REPOSITION") \o Pop(1)
Resize(k) == Lit(k) \o Lit(0) \o Fid \o T("FILE_RESIZE")
Close == Fid \o T("FILE_CLOSE")
FileOps == {Data(2) \o Fid \o T("FILE_READ") \o Pop(2), Data(3) \o Fid \o T("FILE_WRITE") \o Pop(1),
            Fid \o T("FILE_SIZE") \o Pop(3), Reposition(1), Reposition(5)}
Resized == {WithFile(n, op \o Resize(k) \o LeaveIf \o op \o Fid \o T("FILE_POSITION") \o Pop(3) \o Close) :
              n \in {0, 3, 5}, k \in {0, 2, 3, 4, 5, HIGH_BIT}, op \in FileOps}
\* The file is opened again with another mode, or another file.
Modes == {T("FILE_RO"), RW, T("FILE_WO"), T("FILE_RO") \o T("FILE_BIN"), Lit(7)}
Shared == {Sharing(n, <<Xt(3)>> \o op \o Close,
                  UseFile(open \o mode \o word, op \o Resize(k) \o Pop(1) \o Close \o Pop(1))) :
             n \in {0, 3}, open \in {FileA, FileB}, mode \in Modes, word \in {T("FILE_OPEN"), T("FILE_CREATE")},
             k \in {1, 4}, op \in {Data(2) \o Fid \o T("FILE_READ") \o Pop(2),
                                  Data(3) \o Fid \o T("FILE_WRITE") \o Pop(1)}}
Renamed == {WithFile(3, Fid \o T("FILE_FLUSH") \o Close \o At2(i) \o At2(j) \o T("FILE_RENAME")
                        \o FileB \o RW \o T("FILE_OPEN") \o FileA \o T("FILE_DELETE")) : i, j \in {0, 2}}
Refused == {WithFile(3, At2(0) \o Lit(6) \o RW \o T("FILE_OPEN") \o At2(0) \o Lit(6) \o T("FILE_DELETE")
                        \o Lit(0) \o Lit(1) \o Fid \o T("FILE_RESIZE")
                        \o Lit(0) \o Lit(1) \o Fid \o T("FILE_REPOSITION"))}
FilePrograms == Resized \cup Shared \cup Renamed \cup Refused

\* The other words.
Others == {
  Turnkey(<<T("2LITERAL_P") \o <<1, 2>> \o T("2_TO_R") \o T("2_R_FETCH") \o T("2_R_FROM")
             \o T("TO_R") \o T("R_FETCH") \o T("R_FROM") \o T("TO_R") \o T("R_DROP")
             \o T("RP_FETCH") \o T("RP_STORE") \o T("SP_FETCH") \o T("SP_STORE")
             \o T("1PLUS") \o T("2PLUS") \o T("1MINUS") \o T("2MINUS") \o T("MINUS") \o T("EXIT")>>),
  Turnkey(<<Lit(3) \o <<Xt(2)>> \o T("STORE") \o Lit(4) \o <<Xt(2)>> \o T("PLUS_STORE")
             \o <<Xt(3)>> \o T("ALITERAL_P") \o <<Xt(2)>> \o T("BODY_OFFSET") \o T("PLUS") \o T("FETCH")
             \o T("BRANCH") \o <<2>> \o T("BYE") \o T("DUP") \o T("EXIT"),
            T("CREATE_P") \o T("EXIT") \o <<0, 0>>,
            T("DEFER_P") \o <<Xt(2)>> \o T("EXIT")>>)}

(* Programs with words of the library, in dictionaries that hold what they *)
(* need: in the cells of main, Xt(1) is the named word and Xt(2) the data. *)
WithLibrary(d, name, main, data) ==
  LET entry == CodeBase + Len(d.code)
      place == (Xt(1) :> d.xt[name]) @@ (Xt(2) :> entry + Len(main) + 1)
      cells == [i \in DOMAIN main |-> IF main[i] <= W THEN main[i] ELSE place[main[i]]]
  IN [code |-> d.code \o cells \o T("EXIT") \o data,
      init |-> NULL, entry |-> entry, term |-> NULL, commands |-> {}, input |-> <<>>,
      words |-> Restrict(d.xt, DOMAIN d.xt \ DOMAIN XtOf)]
SetBase(b) == Lit(b) \o T("VAR_BASE") \o T("STORE")
Texts3(S) == UNION {[1 .. n -> S] : n \in 0 .. 3}

\* Numbers to text and back.
Shown ==
  LET Showing == With({"(.)", "(D.)", "(UD.)"}) IN
  {WithLibrary(Showing, "(.)", SetBase(b) \o Lit(n) \o <<Xt(1)>> \o T("TYPE"), <<>>) :
            b \in {2, 10, 16}, n \in {0, 9, 10, 100, High - 1, High, W - 1}}
         \cup {WithLibrary(Showing, name, SetBase(b) \o Lit(lo) \o Lit(hi) \o <<Xt(1)>>, <<0>>) :
                  name \in {"(D.)", "(UD.)"}, b \in {2, 10, 16}, lo \in {0, 9, W - 1}, hi \in {0, 1, High - 1, High, W - 1}}
ReadByWords ==
  LET Reading == With({"(NUMBER?)"}) IN
  {WithLibrary(Reading, "(NUMBER?)", SetBase(b) \o Lit(Xt(2)) \o <<Xt(1)>>, <<Len(s)>> \o s) :
            b \in {10, 16}, s \in Texts3({49, 70, 46, 45})
              \cup {<<36, 45, 102>>, <<35, 57>>, <<37, 50>>, <<37, 49, 46>>, <<39, 65, 39>>, <<39, 65, 65>>, <<65>>, <<47>>, <<58>>,
                    <<64>>, <<57, 57, 57, 57, 57>>, <<57, 57, 57, 57, 57, 57, 57, 46>>, <<123>>}}
DividedByWords ==
  LET Dividing == With({"FM/MOD", "/MOD", "*/MOD"}) IN
  {WithLibrary(Dividing, name, Lit(lo) \o Lit(hi) \o Lit(n) \o <<Xt(1)>>, <<>>) :
     name \in {"FM/MOD", "SM/REM"}, lo \in {0, 7, High, W - 7, W - 1}, hi \in {0, 3, W - 4, W - 1},
     n \in {1, 2, 5, High - 1, High, W - 5, W - 2, W - 1}}
  \cup {WithLibrary(Dividing, name, Lit(7) \o Lit(a) \o Lit(b) \o <<Xt(1)>>, <<>>) :
           name \in {"/MOD", "*/MOD"}, a \in {0, 7, High, W - 7}, b \in {3, W - 3}}
ParsedByWords ==
  LET Parsing == With({"PARSE", "PARSE-WORD"}) IN
  {WithLibrary(Parsing, name, Lit(Xt(2)) \o Lit(Len(s)) \o T("SOURCE_SET") \o Lit(c) \o <<Xt(1)>>
                           \o Lit(c) \o <<Xt(1)>> \o Lit(c) \o <<Xt(1)>>, s) :
     name \in {"PARSE", "PARSE-WORD"}, s \in Texts3({BLANK, LF, 97}), c \in {BLANK, 97}}

\* A file with the text is read by lines of u characters to "line"; then other words.
LineTexts == {<<>>, <<97>>, <<LF>>, <<CR>>, <<97, LF, 98>>, <<97, CR, 98>>, <<97, CR, LF, 98>>, <<CR, CR, LF>>,
              <<LF, CR, 97, 97>>, <<97, 97, 97, LF>>}
FilesByWords ==
  LET Lines2 == With({"READ-LINE"})
      Line1 == With({"WRITE-LINE"})
      Name1 == With({"RENAME-FILE"})
      Status == With({"FILE-STATUS"})
      Data2(s) == <<97, 0, 98, 0>> \o s \o <<0, 0, 0, 0>>
      Line(s, u) == At2(4 + Len(s)) \o Lit(u) \o Fid \o <<Xt(1)>> \o Pop(3)
      InFile(mode, s, code) == UseFile(FileA \o mode \o T("FILE_CREATE"),
                                       Data(Len(s)) \o Fid \o T("FILE_WRITE") \o Pop(1) \o code)
  IN {WithLibrary(Lines2, "READ-LINE", InFile(RW, s, Reposition(0) \o Line(s, u) \o Line(s, u)), Data2(s)) :
        s \in LineTexts, u \in {0, 1, 2, 4}}
     \cup {WithLibrary(Line1, "WRITE-LINE",
               InFile(RW, <<97, 98, 99>>, Reposition(k) \o Data(2) \o Fid \o <<Xt(1)>>), Data2(<<97, 98, 99>>)) :
              k \in {0, 3}}
     \cup {WithLibrary(Name1, "RENAME-FILE",
               InFile(RW, <<97>>, At2(i) \o Lit(1) \o At2(j) \o Lit(1) \o <<Xt(1)>>), Data2(<<97>>) \o [k \in 1 .. 4 |-> 0]) :
              i, j \in {0, 2}}
     \cup {WithLibrary(Status, "FILE-STATUS", InFile(RW, <<97>>, At2(i) \o Lit(1) \o <<Xt(1)>>), Data2(<<97>>)) :
              i \in {0, 2}}

MCPrograms ==
  {NestedLoops(n) : n \in {0, 3}} \cup {LeftAtOnce}
  \cup {PlusLoop(limit, start, delta) : limit \in {0, 1, High - 1, High, 700}, start \in {0, 1, High - 1, High, W - 1},
                                         delta \in {0, 1, 300, High - 1, High, High + 1, W - 300, W - 1}}
  \cup Shells \cup Underflows \cup Answers \cup Silent
  \cup Executes \cup Doubles \cup Products \cup Quotients \cup Compares \cup Shuffled \cup Others
  \cup Printed \cup Numerals \cup Parsed \cup Moved \cup Compared \cup Scanned \cup Bytes \cup BitWords \cup Divided
  \cup Lines \cup FilePrograms
  \cup Shown \cup ReadByWords \cup DividedByWords \cup ParsedByWords \cup FilesByWords
=============================================================================
