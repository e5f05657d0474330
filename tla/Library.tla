------------------------------- MODULE Library -------------------------------
(***************************************************************************)
(* Words of the Forth library that work with numbers and files, from       *)
(* src/fth/system.fth, math.fth, numberio.fth and file.fth, and the        *)
(* compiler that makes threaded code of them: IF, WHILE, ?DO, CASE and     *)
(* locals are words of system.fth, case.fth and ansilocs.fth.  A           *)
(* definition is the sequence of its words; a constant is compiled as its  *)
(* value, and words that compile nothing ("chars") are left out.  PAD is   *)
(* as far from HERE as the digits of a double in base 2: 128 characters    *)
(* where a cell has 64 bits.                                               *)
(***************************************************************************)
EXTENDS Inner

\* The names pfBuildDictionary gives to Primitives, in the same order.
ForthNames ==
  <<"EXIT", "1-", "1+", "2DUP", "(2LITERAL)", "2-", "2OVER", "2+", "2SWAP", "2R@", "2R>", "2>R",
    "(ACCEPT)", "(ALITERAL)", "AND", "ARSHIFT", "BODY_OFFSET", "BRANCH", "BYE", "C@", "CMOVE",
    "CMOVE>", "COMPARE", "=", ">", "<", "<>", "U>", "U<", "0=", "0>", "0<", "0<>", "CR",
    "(CREATE)", "C!", "", "DEPTH", "/", ".", "(DO)", "DROP", "DUP", "D-", "M*", "MU/MOD", "D+",
    "UM/MOD", "UM*", "(EMIT)", "(?ERROR)", "EXECUTE", "@", "CLOSE-FILE", "CREATE-FILE",
    "OPEN-FILE", "FILE-POSITION", "READ-FILE", "REPOSITION-FILE", "R/O", "R/W", "FILE-SIZE",
    "WRITE-FILE", "FILL", "FLUSHEMIT", "HERE", "(SNUMBER?)", "I", "J", "KEY", "(LEAVE)",
    "(LITERAL)", "(LOCAL.ENTRY)", "(LOCAL.EXIT)", "(LOCAL@)", "(1_LOCAL@)", "(2_LOCAL@)",
    "(3_LOCAL@)", "(4_LOCAL@)", "(5_LOCAL@)", "(6_LOCAL@)", "(7_LOCAL@)", "(8_LOCAL@)",
    "(LOCAL+!)", "(LOCAL!)", "(1_LOCAL!)", "(2_LOCAL!)", "(3_LOCAL!)", "(4_LOCAL!)",
    "(5_LOCAL!)", "(6_LOCAL!)", "(7_LOCAL!)", "(8_LOCAL!)", "(LOOP)", "LSHIFT", "MAX", "MIN",
    "-", "NOOP", "OR", "OVER", "PICK", "+", "(+LOOP)", "+!", "(?DO)", "?DUP", "(QUIT)", "ROLL",
    "ROT", "RP@", "RP!", "RSHIFT", "RDROP", "R@", "R>", "SCAN", "SKIP", "SOURCE", "SET-SOURCE",
    "SP@", "SP!", "!", "SWAP", "*", ">R", "TYPE", "BASE", "OUT", "RETURN-CODE", ">IN", "WORD", "XOR", "0BRANCH",
    "CATCH", "THROW", "W/O", "BIN", "DELETE-FILE", "FLUSH-FILE", "(RENAME-FILE)",
    "(RESIZE-FILE)", "BYE-CODE">>

XtOf == [n \in ToSet(ForthNames) |-> (CHOOSE i \in DOMAIN ForthNames : ForthNames[i] = n) - 1]

Constants ==
  "-1" :> Minus(1) @@ "0" :> 0 @@ "1" :> 1 @@ "2" :> 2 @@ "3" :> 3 @@ "7" :> 7 @@ "9" :> 9
  @@ "10" :> 10 @@ "16" :> 16 @@ "TRUE" :> FTRUE @@ "FALSE" :> FFALSE
  @@ "#" :> HASH @@ "$" :> DOLLAR @@ "%" :> PERCENT @@ "'" :> QUOTE @@ "ASCII -" :> DASH
  @@ "ASCII ." :> 46 @@ "ASCII 0" :> 48 @@ "ASCII 9" :> 57 @@ "ASCII A" :> 65 @@ "ASCII a" :> 97
  @@ "PAD SIZE" :> 2 * NBITS @@ "NUM_TYPE_BAD" :> 0 @@ "NUM_TYPE_SINGLE" :> 1 @@ "NUM_TYPE_DOUBLE" :> 2
  @@ "\\N" :> LF @@ "\\R" :> CR @@ "THROW_RENAME_FILE" :> Minus(72)

-----------------------------------------------------------------------------
(* The compiler.  c holds the code so far, the places the control          *)
(* structures have left on the data and user stacks, the number of ENDOFs  *)
(* of each open CASE, and whether "->" was the last word.                  *)

Comma(c, cells) == [c EXCEPT !.code = @ \o cells]
Here(c) == Len(c.code) + 1

\* >MARK, >RESOLVE and <RESOLVE: an offset is relative to where it is.
Mark(c) == [Comma(c, <<0>>) EXCEPT !.marks = Append(@, Here(c))]
Resolve(c) == [c EXCEPT !.code[Last(c.marks)] = Here(c) - Last(c.marks), !.marks = Front(@)]
ResolveBack(c) == [Comma(c, <<Wrap(Last(c.marks) - Here(c))>>) EXCEPT !.marks = Front(@)]
Exchange(c) == [c EXCEPT !.marks = SubSeq(@, 1, Len(@) - 2) \o <<Last(@), @[Len(@) - 1]>>]
Begin(c) == [c EXCEPT !.marks = Append(@, Here(c))]

If(c) == Mark(Comma(c, <<ID["ZERO_BRANCH"]>>))
Else(c) == Resolve(Exchange(Mark(Comma(c, <<ID["BRANCH"]>>))))
Repeat(c) == Resolve(ResolveBack(Comma(c, <<ID["BRANCH"]>>)))
\* The offset of (?DO) leads past that of (LOOP).
EndLoop(c) == Resolve(ResolveBack(Comma(c, <<ID["LOOP_P"]>>)))
Of(c) == Comma(If(Comma(c, <<ID["OVER"], ID["COMP_EQUAL"]>>)), <<ID["DROP"]>>)
EndOf(c) == [Else(c) EXCEPT !.cases[Len(c.cases)] = @ + 1]
EndCase(c) ==
  [FoldLeft(LAMBDA d, k : Resolve(d), Comma(c, <<ID["DROP"]>>), [k \in 1 .. Last(c.cases) |-> k])
     EXCEPT !.cases = Front(@)]

Literal(n) == <<ID["LITERAL_P"], n>>

\* To fetch a local, and to store it after "->".
Local(word, locals) ==
  LET l == CHOOSE l \in ShortLocals : l[1] \in DOMAIN locals /\ locals[l[1]] = word IN <<<<ID[l[2]]>>, <<ID[l[3]]>>>>

\* One word of a definition with these locals, in a dictionary of xts.
Compile(c, word, locals, xt) ==
  CASE c.to -> [Comma(c, Local(word, locals)[2]) EXCEPT !.to = FALSE]
    [] word = "IF" -> If(c)
    [] word = "ELSE" -> Else(c)
    [] word = "THEN" -> Resolve(c)
    [] word = "BEGIN" -> Begin(c)
    [] word = "WHILE" -> Exchange(If(c))
    [] word = "REPEAT" -> Repeat(c)
    [] word = "UNTIL" -> ResolveBack(Comma(c, <<ID["ZERO_BRANCH"]>>))
    [] word = "?DO" -> Begin(Mark(Comma(c, <<ID["QDO_P"]>>)))
    [] word = "LOOP" -> EndLoop(c)
    [] word = "CASE" -> [c EXCEPT !.cases = Append(@, 0)]
    [] word = "OF" -> Of(c)
    [] word = "ENDOF" -> EndOf(c)
    [] word = "ENDCASE" -> EndCase(c)
    [] word = "->" -> [c EXCEPT !.to = TRUE]
    [] word \in ToSet(locals) -> Comma(c, Local(word, locals)[1])
    [] word = "EXIT" -> Comma(c, IF locals = <<>> THEN <<ID["EXIT"]>> ELSE <<ID["LOCAL_EXIT"], ID["EXIT"]>>)
    [] word \in DOMAIN Constants -> Comma(c, Literal(Constants[word]))
    [] OTHER -> Comma(c, <<xt[word]>>)

\* { args | temps } and the words of a definition; or cells, as they are.
Secondary(w, xt) ==
  LET locals == w.args \o w.temps
      entry == IF locals = <<>> THEN <<>>
               ELSE FlattenSeq([k \in DOMAIN w.temps |-> Literal(FFALSE)])
                    \o Literal(Len(locals)) \o <<ID["LOCAL_ENTRY"]>>
      after[i \in 0 .. Len(w.body)] ==
        IF i = 0 THEN [code |-> entry, marks |-> <<>>, cases |-> <<>>, to |-> FALSE]
        ELSE Compile(after[i - 1], w.body[i], locals, xt)
  IN Compile(after[Len(w.body)], "EXIT", locals, xt).code

\* A dictionary with one more word.
Define(d, w) ==
  LET code == IF w.raw # <<>> THEN w.raw ELSE Secondary(w, d.xt)
  IN [code |-> d.code \o code, xt |-> (w.name :> CodeBase + Len(d.code)) @@ d.xt]

Frame(name, args, temps, body) ==
  [name |-> name, args |-> args, temps |-> temps, body |-> body, raw |-> <<>>]
Colon(name, body) == Frame(name, <<>>, <<>>, body)
Create(name, cells) ==
  [Colon(name, <<>>) EXCEPT !.raw = <<ID["CREATE_P"], ID["EXIT"], 0>> \o cells]

-----------------------------------------------------------------------------
(* The words.                                                              *)

StackWords == <<
  Colon("COUNT", <<"DUP", "1+", "SWAP", "C@">>),
  Colon("-ROT", <<"ROT", "ROT">>),
  Colon("2DROP", <<"DROP", "DROP">>),
  Colon("NIP", <<"SWAP", "DROP">>),
  Colon("TUCK", <<"SWAP", "OVER">>),
  Colon("NOT", <<"0=">>),
  Colon("NEGATE", <<"0", "SWAP", "-">>),
  Colon("DNEGATE", <<"0", "0", "2SWAP", "D-">>),
  Colon("PAD", <<"HERE", "PAD SIZE", "+">>)>>

SignWords == <<
  Colon("ABS", <<"DUP", "0<", "IF", "NEGATE", "THEN">>),
  Colon("DABS", <<"DUP", "0<", "IF", "DNEGATE", "THEN">>),
  Colon("S>D", <<"DUP", "0<", "IF", "-1", "ELSE", "0", "THEN">>)>>

UNLOOP == Colon("UNLOOP", <<"R>", "RDROP", "RDROP", ">R">>)

ParseWords == <<
  Colon("/STRING", <<"OVER", "MIN", "ROT", "OVER", "+", "-ROT", "-">>),
  Colon("PARSE-WORD",
    <<">R", "SOURCE", "TUCK", ">IN", "@", "/STRING", "R@", "SKIP", "OVER", "SWAP", "R>", "SCAN",
      ">R", "OVER", "-", "ROT", "R>", "DUP", "0<>", "+", "-", ">IN", "!">>),
  Colon("PARSE",
    <<">R", "SOURCE", ">IN", "@", "/STRING", "OVER", "SWAP", "R>", "SCAN",
      ">R", "OVER", "-", "DUP", "R>", "0<>", "-", ">IN", "+!">>)>>

Math == <<
  Frame("FM/MOD", <<"dl", "dh", "nn">>, <<"dlp", "dhp", "nnp", "rem", "quo">>,
    <<"dl", "dh", "DABS", "->", "dhp", "->", "dlp", "nn", "ABS", "->", "nnp",
      "dlp", "dhp", "nnp", "UM/MOD", "->", "quo", "->", "rem",
      "dh", "0<", "IF",
        "nn", "0<", "IF", "rem", "NEGATE", "->", "rem",
        "ELSE",
          "rem", "0=", "IF", "quo", "NEGATE", "->", "quo",
          "ELSE", "quo", "1+", "NEGATE", "->", "quo", "nnp", "rem", "-", "->", "rem", "THEN",
        "THEN",
      "ELSE",
        "nn", "0<", "IF",
          "rem", "0=", "IF", "quo", "NEGATE", "->", "quo",
          "ELSE", "nnp", "rem", "-", "NEGATE", "->", "rem", "quo", "1+", "NEGATE", "->", "quo", "THEN",
        "THEN",
      "THEN",
      "rem", "quo">>),
  Frame("SM/REM", <<"dl", "dh", "nn">>, <<"dlp", "dhp", "nnp", "rem", "quo">>,
    <<"dl", "dh", "DABS", "->", "dhp", "->", "dlp", "nn", "ABS", "->", "nnp",
      "dlp", "dhp", "nnp", "UM/MOD", "->", "quo", "->", "rem",
      "dh", "0<", "IF",
        "rem", "NEGATE", "->", "rem", "nn", "0>", "IF", "quo", "NEGATE", "->", "quo", "THEN",
      "ELSE", "nn", "0<", "IF", "quo", "NEGATE", "->", "quo", "THEN",
      "THEN",
      "rem", "quo">>),
  Colon("/MOD", <<">R", "S>D", "R>", "SM/REM">>),
  Colon("*/MOD", <<">R", "M*", "R>", "SM/REM">>)>>

NumberInput == <<
  Colon("DIGIT",
    <<">R", "DUP", "ASCII a", "<", "NOT", "IF", "ASCII a", "-", "ASCII A", "+", "THEN",
      "DUP", "DUP", "ASCII A", "1-", ">", "IF", "ASCII A", "-", "ASCII 9", "+", "1+",
      "ELSE", "DUP", "ASCII 9", ">", "IF", "DROP", "0", "THEN", "THEN",
      "ASCII 0", "-", "DUP", "R>", "<",
      "IF", "DUP", "1+", "0>", "IF", "NIP", "TRUE", "ELSE", "DROP", "FALSE", "THEN",
      "ELSE", "DROP", "FALSE", "THEN">>),
  Colon(">NUMBER",
    <<">R", "BEGIN",
        "R@", "0>",
        "IF", "DUP", "C@", "BASE", "@", "DIGIT", "IF", "TRUE", "ELSE", "DROP", "FALSE", "THEN",
        "ELSE", "FALSE", "THEN",
      "WHILE",
        "SWAP", ">R", "SWAP", "BASE", "@", "UM*", "DROP", "ROT", "BASE", "@", "UM*", "D+",
        "R>", "1+", "R>", "1-", ">R",
      "REPEAT", "R>">>),
  Colon("(>NUMBER-WITH-BASE)", <<"BASE", "@", ">R", "BASE", "!", ">NUMBER", "R>", "BASE", "!">>),
  Colon("((NUMBER?))",
    <<"DUP", "0=", "IF", "2DROP", "NUM_TYPE_BAD", "EXIT", "THEN",
      "BASE", "@", "-ROT", "OVER", "C@", ">R",
      "R@", "#", "=", "IF", "ROT", "DROP", "10", "-ROT", "1", "/STRING", "THEN",
      "R@", "$", "=", "IF", "ROT", "DROP", "16", "-ROT", "1", "/STRING", "THEN",
      "R@", "%", "=", "IF", "ROT", "DROP", "2", "-ROT", "1", "/STRING", "THEN",
      "R@", "'", "=", "IF",
        "DUP", "3", "=", "IF",
          "OVER", "2", "+", "C@", "'", "=", "IF",
            "DROP", "NIP", "RDROP", "1+", "C@", "NUM_TYPE_SINGLE", "EXIT",
          "THEN",
        "THEN",
      "THEN",
      "R>", "DROP",
      "OVER", "C@", "ASCII -", "=", "DUP", ">R", "IF", "1", "/STRING", "THEN",
      "ROT", ">R", "0", "0", "2SWAP", "R>", "(>NUMBER-WITH-BASE)", "DUP", "0=",
      "IF", "2DROP", "DROP", "R@", "IF", "NEGATE", "THEN", "NUM_TYPE_SINGLE",
      "ELSE",
        "1", "=", "SWAP", "C@", "ASCII .", "=", "AND",
        "IF", "R@", "IF", "DNEGATE", "THEN", "NUM_TYPE_DOUBLE",
        "ELSE", "2DROP", "NUM_TYPE_BAD", "THEN",
      "THEN",
      "RDROP">>),
  Colon("(NUMBER?)", <<"COUNT", "((NUMBER?))">>)>>

\* The word # has a name here that tells it from the character.
NumberOutput == <<
  Create("HLD", <<0>>),
  Colon("HOLD", <<"-1", "HLD", "+!", "HLD", "@", "C!">>),
  Colon("<#", <<"PAD", "HLD", "!">>),
  Colon("#>", <<"2DROP", "HLD", "@", "PAD", "OVER", "-">>),
  Colon("SIGN", <<"0<", "IF", "ASCII -", "HOLD", "THEN">>),
  Colon("# DIGIT",
    <<"BASE", "@", "MU/MOD", "ROT", "9", "OVER", "<", "IF", "7", "+", "THEN", "ASCII 0", "+", "HOLD">>),
  Colon("#S", <<"BEGIN", "# DIGIT", "2DUP", "OR", "0=", "UNTIL">>),
  Colon("(UD.)", <<"<#", "#S", "#>">>),
  Colon("(D.)", <<"TUCK", "DABS", "<#", "#S", "ROT", "SIGN", "#>">>),
  Colon("(.)", <<"DUP", "ABS", "0", "<#", "#S", "ROT", "SIGN", "#>">>)>>

FileAccess == <<
  Frame("UNREAD", <<"fileid">>, <<>>,
    <<"fileid", "FILE-POSITION", "?DUP", "IF", "NIP", "NIP",
      "ELSE", "1", "S>D", "D-", "fileid", "REPOSITION-FILE", "THEN">>),
  Frame("SKIP-\\N", <<"c-addr", "fileid">>, <<>>,
    <<"c-addr", "1", "fileid", "READ-FILE", "?DUP",
      "IF", "NIP",
      "ELSE", "0=",
        "IF", "0",
        "ELSE", "c-addr", "C@", "\\N", "=", "IF", "0", "ELSE", "fileid", "UNREAD", "THEN",
        "THEN",
      "THEN">>),
  Create("(LINE-TERMINATOR)", <<LF>>),
  Colon("PLACE-CSTR", <<"2DUP", "2>R", "SWAP", "CMOVE", "0", "2R>", "+", "C!">>),
  Frame("READ-LINE", <<"a", "u", "f">>, <<>>,
    <<"u", "0", "?DO",
        "a", "I", "+", "1", "f", "READ-FILE",
        "?DUP", "IF", "NIP", "I", "FALSE", "ROT", "UNLOOP", "EXIT", "THEN",
        "0=", "IF", "I", "I", "0<>", "0", "UNLOOP", "EXIT", "THEN",
        "a", "I", "+", "C@",
        "CASE",
          "\\N", "OF", "I", "TRUE", "0", "UNLOOP", "EXIT", "ENDOF",
          "\\R", "OF",
            "a", "I", "+", "f", "SKIP-\\N",
            "?DUP", "IF", "I", "FALSE", "ROT", "UNLOOP", "EXIT", "THEN",
            "I", "TRUE", "0", "UNLOOP", "EXIT",
          "ENDOF",
        "ENDCASE",
      "LOOP",
      "u", "TRUE", "0">>),
  Frame("WRITE-LINE", <<"f">>, <<>>,
    <<"f", "WRITE-FILE", "?DUP",
      "IF", "ELSE", "(LINE-TERMINATOR)", "1", "f", "WRITE-FILE", "THEN">>),
  Frame("RENAME-FILE", <<"a1", "u1", "a2", "u2">>, <<"new">>,
    <<"a1", "u1", "HERE", "PLACE-CSTR", "HERE", "u1", "1+", "+", "->", "new",
      "a2", "u2", "new", "PLACE-CSTR",
      "HERE", "new", "(RENAME-FILE)", "0=", "IF", "0", "ELSE", "THROW_RENAME_FILE", "THEN">>),
  Colon("FILE-STATUS",
    <<"R/O", "BIN", "OPEN-FILE", "?DUP", "IF", "NIP", "0", "SWAP",
      "ELSE", "CLOSE-FILE", "0", "SWAP", "THEN">>)>>

Words == StackWords \o SignWords \o <<UNLOOP>> \o ParseWords \o Math \o NumberInput \o NumberOutput \o FileAccess

\* The named words with those they use.
With(names) ==
  LET used == FoldRight(LAMBDA w, u : IF w.name \in u THEN u \cup ToSet(w.body) ELSE u, Words, names)
  IN FoldLeft(Define, [code |-> <<>>, xt |-> XtOf], SelectSeq(Words, LAMBDA w : w.name \in used))
=============================================================================
