----------------------------- MODULE Dictionary -----------------------------
(***************************************************************************)
(* The dictionary and the words that change it: src/csrc/pfcompil.c (: ;   *)
(* CREATE DEFER and the header chain), src/fth/system.fth (:NONAME DOES>   *)
(* IS IF THEN) and src/fth/forget.fth (FORGET MARKER IF.FORGOTTEN).        *)
(*                                                                         *)
(* Header area and code area are memories: FORGET moves a pointer back and *)
(* erases nothing.  A header and a code cell take one address each; cell   *)
(* addresses start at 1, and 0 is any address below them, where the words  *)
(* the system is loaded with are.  A command is one the user types, or one *)
(* in a file, in an order that makes sense: THEN only after its IF.        *)
(***************************************************************************)
EXTENDS Integers, Sequences

CONSTANTS Names,        \* names the user gives to words
          Empty,        \* what ffWord returns at the end of the line
          FileMark,     \* the name of the headers INCLUDE leaves
          HeaderLimit,  \* dic_HeaderLimit, dic_CodeLimit: first address
          CodeLimit,    \*   behind the area
          Margin,       \* DIC_SAFETY_MARGIN
          MaxHeaders,   \* bounds of the model: headers, code cells, values
          MaxCode,      \*   on the data stack, and commands typed
          MaxStack,
          MaxCommands

ASSUME DictionaryAssumption ==
  /\ Empty \notin Names /\ FileMark \notin Names
  /\ HeaderLimit \in Nat /\ CodeLimit \in Nat /\ Margin \in Nat
  /\ MaxHeaders \in Nat \ {0} /\ MaxCode \in Nat /\ MaxHeaders <= MaxCode
  /\ MaxStack \in Nat /\ MaxCommands \in Nat

VARIABLES
  dic,           \* gCurrentDictionary and gVarContext, see Dictionaries
  state,         \* gVarState: 1 while compiling
  stack,         \* the data stack: address of an unresolved IF, else 0
  gDepthAtColon,
  rfence,        \* RFENCE: FORGET refuses below it
  lastForget,    \* LAST-FORGET: the newest frame of IF.FORGOTTEN
  open,          \* history: the header a `:' made, until an error or its `;'
  start,         \* history: HERE when the code being compiled was begun
  typed          \* commands so far, a bound of the model

compileVars == <<state, stack, gDepthAtColon, open, start>>
forgetVars == <<rfence, lastForget>>
vars == <<dic, compileVars, forgetVars, typed>>

DEPTH_AT_COLON_INVALID == -100

Addresses == 0 .. MaxCode
Ops == {"none", "exit", "call", "orig", "branch", "create", "setdoes",
        "marker", "nfa", "defer", "vector", "data", "frame"}

\* A cell: what it is, and the address, if any, its value stands for.
Cell(op, arg) == [op |-> op, arg |-> arg]
Plain(op) == Cell(op, 0)
Exit == Plain("exit")

Header(n, xt, prev, smudge) ==
  [name |-> n, xt |-> xt, prev |-> prev, smudge |-> smudge]

Headers == [name : Names \cup {FileMark}, xt : Addresses, prev : 0 .. MaxHeaders,
            smudge : BOOLEAN]

\* headersPtr, dp: the first free address (dic_HeaderPtr, HERE); context: the
\* latest header, 0 if it is none of these; end: history, where the code of a
\* header ended at its last EXIT.
Dictionaries ==
  [headers : [1 .. MaxHeaders -> Headers],
   headersPtr : 1 .. MaxHeaders + 1,
   context : 0 .. MaxHeaders,
   code : [1 .. MaxCode + 1 -> [op : Ops, arg : Addresses]],
   dp : 1 .. MaxCode,
   end : [1 .. MaxHeaders -> Addresses]]

Init ==
  /\ dic = [headers |-> [i \in 1 .. MaxHeaders |-> Header(FileMark, 0, 0, FALSE)],
            headersPtr |-> 1, context |-> 0,
            code |-> [a \in 1 .. MaxCode + 1 |-> Plain("none")],
            dp |-> 1, end |-> [i \in 1 .. MaxHeaders |-> 0]]
  /\ state = 0 /\ stack = <<>> /\ gDepthAtColon = DEPTH_AT_COLON_INVALID
  /\ rfence = 1 /\ lastForget = 0 /\ open = 0 /\ start = 0 /\ typed = 0

----------------------------------------------------------------------------
(* The functions of pfcompil.c on a dictionary d. *)

\* ffFindNFA: the first header with that name and no smudge bit on the chain
\* from context down; by ChainWhole the chain visits context .. 1.  0: none
\* of these.  Mutant: smudged headers are found, too.
VisibleOrNot(d, i, n) == d.headers[i].name = n
Visible(d, i, n) == d.headers[i].name = n /\ ~d.headers[i].smudge

FindNFA(d, n) ==
  LET hits == {i \in 1 .. d.context : Visible(d, i, n)}
  IN IF hits = {} THEN 0 ELSE CHOOSE i \in hits : \A j \in hits : j <= i

\* ffFind; 0 for every word below these.
Xt(d, i) == IF i = 0 THEN 0 ELSE d.headers[i].xt

\* ffCheckDicRoom
Room(d) == /\ HeaderLimit - d.headersPtr >= Margin
           /\ CodeLimit - d.dp >= Margin

\* CreateDicEntry.
Entry(d, n, xt, smudge) ==
  [d EXCEPT !.headers[d.headersPtr] = Header(n, xt, d.context, smudge),
            !.end[d.headersPtr] = 0,
            !.headersPtr = @ + 1,
            !.context = d.headersPtr]

\* ffCreateSecondaryHeader returns without a word when there is no room.
SecondaryHeader(d, n) == IF Room(d) THEN Entry(d, n, d.dp, TRUE) ELSE d

\* CODE_COMMA of each cell.  Nothing compares dp with dic_CodeLimit.
Comma(d, cells) ==
  [d EXCEPT !.code = [a \in DOMAIN d.code |->
                        IF a - d.dp \in 0 .. Len(cells) - 1
                        THEN cells[a - d.dp + 1] ELSE d.code[a]],
            !.dp = @ + Len(cells)]

\* ffFinishSecondary: EXIT, and the latest header, whichever it is, becomes
\* visible.  A header made by (:) has no code here.
FinishSecondary(d) ==
  LET e == Comma(d, <<Exit>>)  l == d.context
  IN IF l = 0 THEN e
     ELSE [e EXCEPT !.headers[l].smudge = FALSE,
                    !.end[l] = IF d.headers[l].xt = 0 THEN 0 ELSE e.dp]

\* ffStringCreate, ffStringDefer; nothing is made without a name.
CreateWord(d, n) ==
  IF n = Empty THEN d
  ELSE FinishSecondary(Comma(SecondaryHeader(d, n), <<Plain("create"), Exit>>))
DeferWord(d, n) ==
  FinishSecondary(Comma(SecondaryHeader(d, n), <<Plain("defer"), Plain("vector")>>))

\* A store; an address below these is not kept.
Store(d, a, cell) == IF a \in DOMAIN d.code THEN [d EXCEPT !.code[a] = cell] ELSE d

\* (DOES>): the second cell of the latest word.  Mutant: the third.
SetDoesNext(d, cell) == IF Xt(d, d.context) = 0 THEN d
                        ELSE Store(d, Xt(d, d.context) + 2, cell)
SetDoes(d, cell) == IF Xt(d, d.context) = 0 THEN d
                    ELSE Store(d, Xt(d, d.context) + 1, cell)

\* FORGET.NFA.  Mutants: HEADERS-PTR without N>NEXTLINK; DP from the word
\* before.
ForgetNFANoNextLink(d, i) ==
  [d EXCEPT !.dp = d.headers[i].xt,
            !.context = d.headers[i].prev,
            !.headersPtr = d.headers[i].prev]
ForgetNFAPrevCode(d, i) ==
  [d EXCEPT !.dp = IF d.headers[i].prev = 0 THEN 1 ELSE Xt(d, d.headers[i].prev),
            !.context = d.headers[i].prev,
            !.headersPtr = d.headers[i].prev + 1]
ForgetNFA(d, i) ==
  [d EXCEPT !.dp = d.headers[i].xt,
            !.context = d.headers[i].prev,
            !.headersPtr = d.headers[i].prev + 1]

\* VERIFY.FORGET
VerifyForget(d, i) == IF d.headers[i].xt < rfence THEN d ELSE ForgetNFA(d, i)

\* One more command; a bound of the model.
Typed == typed < MaxCommands /\ typed' = typed + 1

\* Room in the model's memories for that many cells and a header.
Bounded(cells) == dic.dp + cells <= MaxCode /\ dic.headersPtr <= MaxHeaders

----------------------------------------------------------------------------
(* Interpreting. *)

\* An error anywhere: pfResetForthTask.  gDepthAtColon keeps its value.
Reset == state' = 0 /\ stack' = <<>> /\ open' = 0 /\ start' = 0

Abort ==
  /\ Typed
  /\ state = 1 \/ stack # <<>>
  /\ Reset
  /\ UNCHANGED <<dic, gDepthAtColon, forgetVars>>

\* ffColon.  The depth is taken even when no name follows, and STATE is set
\* even when there is no room for the header.
Colon(n) ==
  /\ Typed
  /\ state = 0 /\ Bounded(0)
  /\ gDepthAtColon' = Len(stack)
  /\ IF n = Empty
     THEN UNCHANGED <<dic, state, open, start>>
     ELSE /\ dic' = SecondaryHeader(dic, n)
          /\ state' = 1 /\ start' = dic.dp
          /\ open' = IF Room(dic) THEN dic.headersPtr ELSE 0
  /\ UNCHANGED <<stack, forgetVars>>

\* :NONAME leaves its xt on the stack, and no header.
NoName ==
  /\ Typed
  /\ state = 0 /\ Len(stack) < MaxStack
  /\ state' = 1 /\ open' = 0 /\ start' = dic.dp
  /\ stack' = Append(stack, 0)
  /\ UNCHANGED <<dic, gDepthAtColon, forgetVars>>

\* CREATE, DEFER; without a name they do nothing.
Create(n) ==
  /\ Typed
  /\ state = 0 /\ Bounded(3)
  /\ dic' = CreateWord(dic, n)
  /\ UNCHANGED <<compileVars, forgetVars>>

Defer(n) ==
  /\ Typed
  /\ state = 0 /\ Bounded(3)
  /\ dic' = DeferWord(dic, n)
  /\ UNCHANGED <<compileVars, forgetVars>>

\* `,', ALLOT
CommaData ==
  /\ Typed
  /\ state = 0 /\ Bounded(1)
  /\ dic' = Comma(dic, <<Plain("data")>>)
  /\ UNCHANGED <<compileVars, forgetVars>>

\* A word that consumes what :NONAME left.
Drop ==
  /\ Typed
  /\ state = 0 /\ stack # <<>>
  /\ stack' = SubSeq(stack, 1, Len(stack) - 1)
  /\ UNCHANGED <<dic, state, gDepthAtColon, open, start, forgetVars>>

\* The (DOES>) a word runs: the one before its first EXIT.
DoesOf(i) ==
  {a \in 1 .. dic.dp - 1 :
     /\ dic.headers[i].xt <= a /\ dic.code[a].op = "setdoes"
     /\ \A b \in dic.headers[i].xt .. a - 1 : dic.code[b].op # "exit"}

\* A word made by `: c create , does> ... ;' is run: CREATE, `,', (DOES>).
\* The name may be missing, and there may be no room for a header: (DOES>)
\* changes the latest word all the same.
RunDefining(c, n) ==
  /\ Typed
  /\ state = 0 /\ Bounded(4)
  /\ LET i == FindNFA(dic, c) IN
     /\ i # 0
     /\ \E a \in DoesOf(i) :
          dic' = SetDoes(Comma(CreateWord(dic, n), <<Plain("data")>>),
                         Cell("call", dic.code[a].arg))
  /\ UNCHANGED <<compileVars, forgetVars>>

\* MARKER: a word that holds its own NFA.
Marker(n) ==
  /\ Typed
  /\ state = 0 /\ Bounded(4)
  /\ LET made == CreateWord(dic, n) IN
     dic' = SetDoes(Comma(made, <<Cell("nfa", made.context)>>), Plain("marker"))
  /\ UNCHANGED <<compileVars, forgetVars>>

\* The word MARKER made is run: VERIFY.FORGET of that NFA, and nothing else.
RunMarker(n) ==
  /\ Typed
  /\ state = 0
  /\ LET i == FindNFA(dic, n)  xt == Xt(dic, i) IN
     /\ i # 0 /\ xt + 3 < dic.dp
     /\ dic.code[xt].op = "create" /\ dic.code[xt + 1].op = "marker"
     /\ dic.code[xt + 3].op = "nfa" /\ dic.code[xt + 3].arg # 0
     /\ dic' = VerifyForget(dic, dic.code[xt + 3].arg)
  /\ UNCHANGED <<compileVars, forgetVars>>

\* IS, after CHECK.DEFER
Is(d, t) ==
  /\ Typed
  /\ state = 0
  /\ LET i == FindNFA(dic, d)  j == FindNFA(dic, t) IN
     /\ i # 0 /\ j # 0
     /\ dic.code[Xt(dic, i)].op = "defer"
     /\ dic' = Store(dic, Xt(dic, i) + 1, Cell("vector", Xt(dic, j)))
  /\ UNCHANGED <<compileVars, forgetVars>>

\* INCLUDE: (:) makes a header for NOOP, with no check of the room.
IncludeMark ==
  /\ Typed
  /\ state = 0 /\ Bounded(0)
  /\ dic' = Entry(dic, FileMark, 0, FALSE)
  /\ UNCHANGED <<compileVars, forgetVars>>

----------------------------------------------------------------------------
(* Compiling. *)

\* FindAndCompile lays down the xt of a word.
CompileWord(n) ==
  /\ Typed
  /\ state = 1 /\ Bounded(1)
  /\ FindNFA(dic, n) # 0
  /\ dic' = Comma(dic, <<Cell("call", Xt(dic, FindNFA(dic, n)))>>)
  /\ UNCHANGED <<compileVars, forgetVars>>

If ==
  /\ Typed
  /\ state = 1 /\ Bounded(1) /\ Len(stack) < MaxStack
  /\ dic' = Comma(dic, <<Plain("orig")>>)
  /\ stack' = Append(stack, dic.dp)
  /\ UNCHANGED <<state, gDepthAtColon, open, start, forgetVars>>

\* THEN resolves an IF of the code being compiled.  (A THEN typed for one of
\* another definition, which the depth check would not notice, is not modelled.)
Then ==
  /\ Typed
  /\ state = 1 /\ stack # <<>>
  /\ LET a == stack[Len(stack)] IN
     /\ a \in start .. dic.dp - 1 /\ dic.code[a].op = "orig"
     /\ dic' = Store(dic, a, Plain("branch"))
  /\ stack' = SubSeq(stack, 1, Len(stack) - 1)
  /\ UNCHANGED <<state, gDepthAtColon, open, start, forgetVars>>

\* ffSemiColon's test; no test without a `:'.  Mutant: never tested.
BalancedAlways == TRUE
Balanced == gDepthAtColon \in {Len(stack), DEPTH_AT_COLON_INVALID}

\* ffSemiColon on a dictionary d: ends the definition, or THROW_SEMICOLON.
\* It is IMMEDIATE: it can be typed without a `:', too.
SemiColon ==
  /\ Typed
  /\ Bounded(1)
  /\ gDepthAtColon' = DEPTH_AT_COLON_INVALID
  /\ IF Balanced
     THEN /\ dic' = FinishSecondary(dic)
          /\ state' = 0 /\ open' = 0 /\ start' = 0 /\ UNCHANGED stack
     ELSE Reset /\ UNCHANGED dic
  /\ UNCHANGED forgetVars

\* DOES>: a literal for the xt of what follows and (DOES>), then `;', then
\* :NONAME, whose xt goes to the literal.
Does ==
  /\ Typed
  /\ state = 1 /\ Bounded(2)
  /\ gDepthAtColon' = DEPTH_AT_COLON_INVALID
  /\ IF Balanced
     THEN /\ dic' = FinishSecondary(Comma(dic, <<Cell("setdoes", dic.dp + 2)>>))
          /\ state' = 1 /\ open' = 0 /\ start' = dic'.dp /\ UNCHANGED stack
     ELSE Reset /\ dic' = Comma(dic, <<Plain("setdoes")>>)
  /\ UNCHANGED forgetVars

----------------------------------------------------------------------------
(* Forgetting. *)

\* FREEZE
Freeze ==
  /\ Typed
  /\ state = 0
  /\ rfence' = dic.dp
  /\ UNCHANGED <<dic, compileVars, lastForget>>

\* IF.FORGOTTEN lays a frame: the frame before it, and the xt of a word.
IfForgotten(t) ==
  /\ Typed
  /\ state = 0 /\ Bounded(2)
  /\ FindNFA(dic, t) # 0
  /\ dic' = Comma(dic, <<Cell("frame", lastForget),
                         Cell("call", Xt(dic, FindNFA(dic, t)))>>)
  /\ lastForget' = dic.dp
  /\ UNCHANGED <<compileVars, rfence>>

\* [FORGET]'s loop from LAST-FORGET: the word of each frame above HERE is run,
\* up to one that is not above it.  Mutant: only the newest frame is looked at.
FrameLeftFirst(d) == IF lastForget > d.dp THEN d.code[lastForget].arg ELSE lastForget
FrameLeft(d) ==
  LET f[k \in 0 .. MaxCode] ==
        IF k = 0 THEN lastForget
        ELSE LET a == f[k - 1] IN IF a > d.dp THEN d.code[a].arg ELSE a
  IN f[MaxCode]

\* FORGET, through the latest [FORGET].
Forget(n) ==
  /\ Typed
  /\ state = 0
  /\ FindNFA(dic, n) # 0
  /\ dic' = VerifyForget(dic, FindNFA(dic, n))
  /\ lastForget' = FrameLeft(dic')
  /\ UNCHANGED <<compileVars, rfence>>

\* A word of a frame throws: LAST-FORGET is not updated.
ForgetThrows(n) ==
  /\ Typed
  /\ state = 0
  /\ FindNFA(dic, n) # 0
  /\ dic' = VerifyForget(dic, FindNFA(dic, n))
  /\ lastForget > dic'.dp
  /\ Reset
  /\ UNCHANGED <<gDepthAtColon, forgetVars>>

Next ==
  \/ \E n \in Names \cup {Empty} :
       Colon(n) \/ Marker(n) \/ \E c \in Names : RunDefining(c, n)
  \/ \E n \in Names :
       \/ Create(n) \/ Defer(n) \/ CompileWord(n) \/ RunMarker(n) \/ IfForgotten(n)
       \/ Forget(n) \/ ForgetThrows(n)
       \/ \E t \in Names : Is(n, t)
  \/ NoName \/ CommaData \/ Drop \/ IncludeMark \/ Freeze \/ If \/ Then \/ SemiColon \/ Does \/ Abort

Spec == Init /\ [][Next]_vars
----------------------------------------------------------------------------
(* Properties. *)

\* Types; the pointers of the dictionary stay in their areas.
TypeOK ==
  /\ dic \in Dictionaries
  /\ state \in {0, 1}
  /\ stack \in Seq(Addresses) /\ Len(stack) <= MaxStack
  /\ gDepthAtColon \in 0 .. MaxStack \cup {DEPTH_AT_COLON_INVALID}
  /\ rfence \in 1 .. MaxCode
  /\ lastForget \in Addresses
  /\ open \in 0 .. MaxHeaders /\ start \in Addresses
  /\ typed \in 0 .. MaxCommands

\* The chain from gVarContext visits every header below dic_HeaderPtr, newest
\* first, so FORGET drops exactly the newer ones (CreateDicEntry, FORGET.NFA).
ChainWhole ==
  /\ dic.context = dic.headersPtr - 1
  /\ \A i \in 1 .. dic.context : dic.headers[i].prev = i - 1

\* The code of a visible word is below HERE and below the code of every newer
\* word: neither new code nor the code after a FORGET is laid over it.
Apart ==
  \A i \in 1 .. dic.context :
    ~dic.headers[i].smudge =>
      /\ dic.end[i] <= dic.dp
      /\ \A j \in i + 1 .. dic.context :
           dic.headers[j].xt # 0 => dic.end[i] <= dic.headers[j].xt

\* No code below HERE calls code above HERE: after a FORGET or a MARKER no word
\* that is left calls one that is gone (a deferred word's vector may).
CallsLive ==
  \A a \in 1 .. dic.dp - 1 :
    dic.code[a].op \in {"call", "setdoes"} => dic.code[a].arg <= dic.dp

\* After any defining, aborted and forgetting words the dictionary is a chain of
\* separate definitions that call nothing that is gone (CreateDicEntry, FORGET).
DefinitionsWhole == ChainWhole /\ Apart /\ CallsLive

\* A definition that `:' began and no error interrupted becomes visible only
\* with all its IFs resolved (gDepthAtColon), also when an error before it has
\* left addresses of IFs on the stack.  (THEN is for IFs of this code, see Then;
\* without a header, for want of a name or of room, there is nothing to reveal.)
BalancedReveal ==
  [][open # 0 /\ dic.headers[open].smudge /\ ~dic'.headers[open].smudge
       => \A a \in dic.headers[open].xt .. dic'.dp - 1 : dic'.code[a].op # "orig"]_vars

\* LAST-FORGET and the frames linked from it are frames below HERE: the
\* modules whose word FORGET has to run are those still in the dictionary.
Frames ==
  LET f[k \in 0 .. MaxCode] ==
        IF k = 0 THEN lastForget
        ELSE LET a == f[k - 1] IN IF a = 0 THEN 0 ELSE dic.code[a].arg
  IN {f[k] : k \in 0 .. MaxCode} \ {0}

AreFrames == \A a \in Frames : dic.code[a].op = "frame" /\ dic.code[a].arg < a

FramesLive == AreFrames /\ \A a \in Frames : a < dic.dp

\* A FORGET runs every frame above HERE: it leaves LAST-FORGET, if it was at
\* one before, at a frame that is left, so no word of a forgotten module is run
\* twice or missed.  (A frame exactly at HERE counts as left: `here u>'.)
ForgetKeepsFrames ==
  [][(\E n \in Names : Forget(n)) /\ FramesLive
       => AreFrames' /\ \A a \in Frames' : a <= dic'.dp]_vars

\* The dictionary implements a stack of definitions.
defs ==
  [i \in 1 .. dic.context |->
     LET h == dic.headers[i] IN
     [name |-> h.name, visible |-> ~h.smudge,
      body |-> IF h.smudge \/ h.xt = 0 THEN <<>>
               ELSE SubSeq(dic.code, h.xt, dic.end[i] - 1)]]

Abstract == INSTANCE DictionarySpec

Implements == Abstract!Spec
=============================================================================
