-------------------------- MODULE DictionaryProofs --------------------------
(***************************************************************************)
(* Proofs about Dictionary, for any names and sizes.  Each function of     *)
(* pfcompil.c and forget.fth on a dictionary keeps it sound (Sound) and    *)
(* does one of four things to its definitions (Moved); the invariant then  *)
(* goes through the commands one by one.  From it follow the properties of *)
(* the dictionary, that it is a stack of definitions, that a definition is *)
(* balanced when it becomes visible, and that FORGET keeps the frames.     *)
(***************************************************************************)
EXTENDS Dictionary, WellFoundedInduction, SequenceTheorems, TLAPS

Cells(A) == [op : Ops, arg : A]

\* Dictionaries with the values of the cells in any set A: what LAST-FORGET
\* holds after [FORGET]'s loop, and a frame keeps, does not matter here.
Memory(A) ==
  [headers : [1 .. MaxHeaders -> Headers],
   headersPtr : 1 .. MaxHeaders + 1,
   context : 0 .. MaxHeaders,
   code : [1 .. MaxCode + 1 -> Cells(A)],
   dp : 1 .. MaxCode,
   end : [1 .. MaxHeaders -> Addresses]]

\* The chain is whole, and the code of the headers is in their order.
Ordered(d) ==
  /\ d.context = d.headersPtr - 1
  /\ \A i \in 1 .. d.context :
       /\ d.headers[i].prev = i - 1
       /\ d.headers[i].xt <= d.dp /\ d.end[i] <= d.dp
       /\ \A j \in 1 .. d.context :
            i < j /\ d.headers[j].xt # 0 =>
              d.headers[i].xt <= d.headers[j].xt /\ d.end[i] <= d.headers[j].xt

\* A call from below the code of a header stays below it, and below lim.
IsCall(c) == c.op \in {"call", "setdoes"}
Calls(d, lim) ==
  \A a \in 1 .. d.dp - 1 : IsCall(d.code[a]) =>
    /\ d.code[a].arg \in 0 .. lim
    /\ \A j \in 1 .. d.context :
         a < d.headers[j].xt => d.code[a].arg <= d.headers[j].xt

\* An NFA kept below the code of a header is that of an older one.
Kept(d) ==
  \A a \in 1 .. d.dp - 1 : d.code[a].op = "nfa" =>
    /\ d.code[a].arg \in 0 .. d.context
    /\ \A j \in 1 .. d.context : a < d.headers[j].xt => d.code[a].arg < j

\* Only the header of an included file has no code; a finished definition has
\* some, and a deferred word its vector.
HasBody(d, i) == ~ d.headers[i].smudge /\ d.headers[i].xt # 0
Finished(d) ==
  \A i \in 1 .. d.context :
    /\ d.headers[i].xt = 0 => d.headers[i].name = FileMark
    /\ HasBody(d, i) =>
         /\ d.headers[i].xt < d.end[i]
         /\ d.code[d.headers[i].xt].op = "defer" => d.headers[i].xt + 1 < d.end[i]

Sound(d, A, lim) ==
  d \in Memory(A) /\ Ordered(d) /\ Calls(d, lim) /\ Kept(d) /\ Finished(d)
Good(d, A) == Sound(d, A, d.dp)

----------------------------------------------------------------------------
(* The functions on a dictionary. *)

\* The values of a dictionary's fields, with the bounds as integers.
LEMMA Fields ==
  ASSUME NEW A, NEW d \in Memory(A)
  PROVE  /\ d.headersPtr \in 1 .. MaxHeaders + 1 /\ d.headersPtr \in Nat
         /\ d.context \in 0 .. MaxHeaders /\ d.context \in Nat
         /\ d.dp \in 1 .. MaxCode /\ d.dp \in Nat
         /\ d.headers \in [1 .. MaxHeaders -> Headers]
         /\ d.end \in [1 .. MaxHeaders -> Addresses]
         /\ d.code \in [1 .. MaxCode + 1 -> Cells(A)]
         /\ \A i \in 1 .. MaxHeaders :
              /\ d.headers[i] \in Headers
              /\ d.headers[i].xt \in 0 .. MaxCode /\ d.headers[i].xt \in Nat
              /\ d.end[i] \in 0 .. MaxCode /\ d.end[i] \in Nat
<1>1. \A i \in 1 .. MaxHeaders : d.headers[i] \in Headers /\ d.end[i] \in Addresses
  BY DEF Memory
<1>2. \A i \in 1 .. MaxHeaders : d.headers[i].xt \in 0 .. MaxCode
  BY <1>1 DEF Headers, Addresses
<1>3. d.headersPtr \in Nat /\ d.context \in Nat /\ d.dp \in Nat
  BY DictionaryAssumption DEF Memory
<1> QED BY <1>1, <1>2, <1>3, DictionaryAssumption DEF Memory, Addresses

\* CreateDicEntry: a header for code from HERE on, or for a primitive.
LEMMA EntryGood ==
  ASSUME NEW A, NEW d, Good(d, A), d.headersPtr <= MaxHeaders,
         NEW n \in Names \cup {FileMark}, NEW xt \in {0, d.dp}, NEW s \in BOOLEAN,
         xt = 0 => n = FileMark, xt # 0 => s
  PROVE  Good(Entry(d, n, xt, s), A) /\ Entry(d, n, xt, s).dp = d.dp
<1> DEFINE p == d.headersPtr  h == Header(n, xt, d.context, s)
           e == Entry(d, n, xt, s)
<1>1. /\ d \in Memory(A) /\ Ordered(d) /\ Calls(d, d.dp) /\ Kept(d)
      /\ Finished(d)
  BY DEF Good, Sound
<1>2. e = [headers |-> [d.headers EXCEPT ![p] = h], headersPtr |-> p + 1,
           context |-> p, code |-> d.code, dp |-> d.dp,
           end |-> [d.end EXCEPT ![p] = 0]]
  <2>1. e = [d EXCEPT !.headers[p] = h, !.end[p] = 0, !.headersPtr = @ + 1,
                      !.context = p]
    BY DEF Entry
  <2> HIDE DEF e, h, p
  <2>2. e = [headers |-> [d.headers EXCEPT ![p] = h], headersPtr |-> d.headersPtr + 1,
             context |-> p, code |-> d.code, dp |-> d.dp,
             end |-> [d.end EXCEPT ![p] = 0]]
    BY <1>1, <2>1 DEF Memory
  <2> QED BY <2>2 DEF p
<1>3. p \in 1 .. MaxHeaders /\ p \in Nat /\ d.context = p - 1 /\ d.dp \in 1 .. MaxCode
  BY <1>1, Fields, DictionaryAssumption DEF Ordered
<1>4. h \in Headers
  BY <1>1, <1>3, Fields, DictionaryAssumption DEF Header, Headers, Addresses
<1>5. e \in Memory(A)
  <2>1. [d.headers EXCEPT ![p] = h] \in [1 .. MaxHeaders -> Headers]
    BY <1>1, <1>4, Fields
  <2>2. [d.end EXCEPT ![p] = 0] \in [1 .. MaxHeaders -> Addresses]
    BY <1>1, Fields, DictionaryAssumption DEF Addresses
  <2>3. p + 1 \in 1 .. MaxHeaders + 1 /\ p \in 0 .. MaxHeaders
    BY <1>3, DictionaryAssumption
  <2> HIDE DEF e, h, p
  <2> QED BY <1>1, <1>2, <2>1, <2>2, <2>3, Fields DEF Memory
<1>6. \A i \in 1 .. p : i # p => /\ i \in 1 .. d.context /\ i \in 1 .. MaxHeaders
                                 /\ e.headers[i] = d.headers[i] /\ e.end[i] = d.end[i]
  BY <1>1, <1>2, <1>3, Fields, DictionaryAssumption
<1>7. e.headers[p] = h /\ e.end[p] = 0
  <2>1. /\ d.headers \in [1 .. MaxHeaders -> Headers]
        /\ d.end \in [1 .. MaxHeaders -> Addresses]
    BY <1>1, Fields
  <2> HIDE DEF e, h, p
  <2> QED BY <1>2, <1>3, <2>1
<1>8. Ordered(e)
  <2> SUFFICES ASSUME NEW i \in 1 .. p
               PROVE  /\ e.headers[i].prev = i - 1
                      /\ e.headers[i].xt <= e.dp /\ e.end[i] <= e.dp
                      /\ \A j \in 1 .. p :
                           i < j /\ e.headers[j].xt # 0 =>
                             /\ e.headers[i].xt <= e.headers[j].xt
                             /\ e.end[i] <= e.headers[j].xt
    BY <1>2, <1>3 DEF Ordered
  <2>1. CASE i = p BY <2>1, <1>2, <1>3, <1>7 DEF Header
  <2>2. CASE i # p
    <3>1. i \in 1 .. d.context /\ e.headers[i] = d.headers[i] /\ e.end[i] = d.end[i]
      BY <2>2, <1>6
    <3>2. /\ e.headers[i].prev = i - 1
          /\ e.headers[i].xt <= e.dp /\ e.end[i] <= e.dp
      BY <1>1, <1>2, <3>1 DEF Ordered
    <3>3. ASSUME NEW j \in 1 .. p, i < j, e.headers[j].xt # 0
          PROVE  e.headers[i].xt <= e.headers[j].xt /\ e.end[i] <= e.headers[j].xt
      <4>1. CASE j = p BY <4>1, <3>2, <3>3, <1>2, <1>7 DEF Header
      <4>2. CASE j # p BY <4>2, <3>1, <3>3, <1>6, <1>1 DEF Ordered
      <4> QED BY <4>1, <4>2
    <3> QED BY <3>2, <3>3
  <2> QED BY <2>1, <2>2
<1>9. Calls(e, e.dp)
  <2> SUFFICES ASSUME NEW a \in 1 .. d.dp - 1, IsCall(d.code[a]), NEW j \in 1 .. p,
                      a < e.headers[j].xt
               PROVE  d.code[a].arg <= e.headers[j].xt
    BY <1>1, <1>2 DEF Calls
  <2>1. CASE j = p BY <2>1, <1>1, <1>3, <1>7 DEF Header, Calls
  <2>2. CASE j # p BY <2>2, <1>1, <1>6 DEF Calls
  <2> QED BY <2>1, <2>2
<1>10. Kept(e)
  <2> SUFFICES ASSUME NEW a \in 1 .. d.dp - 1, d.code[a].op = "nfa"
               PROVE  /\ d.code[a].arg \in 0 .. p
                      /\ \A j \in 1 .. p : a < e.headers[j].xt => d.code[a].arg < j
    BY <1>2 DEF Kept
  <2>1. d.code[a].arg \in 0 .. d.context BY <1>1 DEF Kept
  <2>2. ASSUME NEW j \in 1 .. p, j # p, a < e.headers[j].xt PROVE d.code[a].arg < j
    BY <2>2, <1>1, <1>6 DEF Kept
  <2> QED BY <2>1, <2>2, <1>3
<1>11. Finished(e)
  <2> SUFFICES ASSUME NEW i \in 1 .. p
               PROVE  /\ e.headers[i].xt = 0 => e.headers[i].name = FileMark
                      /\ HasBody(e, i) =>
                           /\ e.headers[i].xt < e.end[i]
                           /\ e.code[e.headers[i].xt].op = "defer" =>
                                e.headers[i].xt + 1 < e.end[i]
    BY <1>2 DEF Finished
  <2>1. CASE i = p BY <2>1, <1>7 DEF Header, HasBody
  <2>2. CASE i # p
    <3>1. e.code = d.code BY <1>2
    <3> QED BY <2>2, <3>1, <1>1, <1>6 DEF Finished, HasBody
  <2> QED BY <2>1, <2>2
<1> QED BY <1>2, <1>5, <1>8, <1>9, <1>10, <1>11 DEF Good, Sound

\* CODE_COMMA of cells that call nothing above lim.
LEMMA CommaGood ==
  ASSUME NEW A, NEW d, NEW lim \in Nat, Sound(d, A, lim),
         NEW cells \in Seq(Cells(A)), d.dp + Len(cells) <= MaxCode,
         \A k \in 1 .. Len(cells) :
           /\ IsCall(cells[k]) => cells[k].arg \in 0 .. lim
           /\ cells[k].op = "nfa" => cells[k].arg \in 0 .. d.context
  PROVE  /\ Sound(Comma(d, cells), A, lim)
         /\ Comma(d, cells).dp = d.dp + Len(cells)
         /\ Comma(d, cells).headers = d.headers
         /\ Comma(d, cells).headersPtr = d.headersPtr
         /\ Comma(d, cells).context = d.context
<1> DEFINE e == Comma(d, cells)  n == Len(cells)
           mem == [a \in DOMAIN d.code |->
                     IF a - d.dp \in 0 .. Len(cells) - 1
                     THEN cells[a - d.dp + 1] ELSE d.code[a]]
<1>0. d \in Memory(A) /\ Ordered(d) /\ Calls(d, lim) /\ Kept(d) /\ Finished(d)
  BY DEF Sound
<1>1. e = [headers |-> d.headers, headersPtr |-> d.headersPtr, context |-> d.context,
           code |-> mem, dp |-> d.dp + n, end |-> d.end]
  <2>1. e = [d EXCEPT !.code = mem, !.dp = @ + n] BY DEF Comma
  <2> HIDE DEF e, n, mem
  <2> QED BY <1>0, <2>1 DEF Memory
<1>2. n \in Nat /\ d.dp \in 1 .. MaxCode /\ d.dp \in Nat
      /\ DOMAIN d.code = 1 .. MaxCode + 1
  BY <1>0, Fields
<1>3. mem \in [1 .. MaxCode + 1 -> Cells(A)]
  <2> SUFFICES ASSUME NEW a \in 1 .. MaxCode + 1 PROVE mem[a] \in Cells(A)
    BY <1>2
  <2>1. CASE a - d.dp \in 0 .. n - 1
    <3>1. a - d.dp + 1 \in 1 .. n BY <2>1, <1>2, DictionaryAssumption
    <3> QED BY <2>1, <3>1, <1>2
  <2>2. CASE a - d.dp \notin 0 .. n - 1 BY <2>2, <1>0, <1>2, Fields
  <2> QED BY <2>1, <2>2
<1>4. e \in Memory(A)
  <2>1. d.dp + n \in 1 .. MaxCode BY <1>2, DictionaryAssumption
  <2> HIDE DEF e, n, mem
  <2> QED BY <1>0, <1>1, <1>3, <2>1, Fields DEF Memory
<1>5. Ordered(e)
  <2>0. /\ e.headersPtr = d.headersPtr /\ e.headers = d.headers /\ e.end = d.end
        /\ e.context = d.context /\ e.dp = d.dp + n
    BY <1>1
  <2>1. \A i \in 1 .. d.context : d.headers[i].xt \in Nat /\ d.end[i] \in Nat
    BY <1>0, Fields, DictionaryAssumption
  <2> HIDE DEF e, n
  <2>2. \A i \in 1 .. e.context : e.headers[i].xt <= e.dp /\ e.end[i] <= e.dp
    BY <1>0, <1>2, <2>0, <2>1 DEF Ordered
  <2> QED BY <1>0, <2>0, <2>2 DEF Ordered
<1>6. ASSUME NEW a \in 1 .. e.dp - 1
      PROVE  \/ e.code[a] = d.code[a] /\ a \in 1 .. d.dp - 1
             \/ /\ \E k \in 1 .. n : e.code[a] = cells[k]
                /\ \A j \in 1 .. d.context : ~ (a < d.headers[j].xt)
  <2>0. a \in 1 .. MaxCode + 1 BY <1>1, <1>2, DictionaryAssumption
  <2>1. CASE a < d.dp BY <1>1, <1>2, <2>0, <2>1
  <2>2. CASE a >= d.dp
    <3>1. a - d.dp \in 0 .. n - 1 /\ a - d.dp + 1 \in 1 .. n
      BY <1>1, <1>2, <2>2
    <3>2. e.code[a] = cells[a - d.dp + 1] BY <1>1, <1>2, <2>0, <3>1
    <3>3. ASSUME NEW j \in 1 .. d.context PROVE ~ (a < d.headers[j].xt)
      <4>1. d.headers[j].xt <= d.dp /\ d.headers[j].xt \in Nat
        BY <1>0, Fields, DictionaryAssumption DEF Ordered
      <4> QED BY <4>1, <2>0, <2>2, <1>2
    <3> QED BY <3>1, <3>2, <3>3
  <2> QED BY <2>1, <2>2, <1>2
<1>7. e.context = d.context /\ e.headers = d.headers BY <1>1
<1>8. Calls(e, lim)
  <2> SUFFICES ASSUME NEW a \in 1 .. e.dp - 1, IsCall(e.code[a])
               PROVE  /\ e.code[a].arg \in 0 .. lim
                      /\ \A j \in 1 .. e.context :
                           a < e.headers[j].xt => e.code[a].arg <= e.headers[j].xt
    BY DEF Calls
  <2> HIDE DEF e, n
  <2> QED BY <1>0, <1>6, <1>7 DEF Calls, n
<1>9. Kept(e)
  <2> HIDE DEF e, n
  <2> QED BY <1>0, <1>6, <1>7 DEF Kept, n
<1>10. Finished(e)
  <2>1. \A i \in 1 .. d.context : HasBody(d, i) /\ d.headers[i].xt < d.end[i] =>
          e.code[d.headers[i].xt] = d.code[d.headers[i].xt]
    <3> SUFFICES ASSUME NEW i \in 1 .. d.context, HasBody(d, i),
                        d.headers[i].xt < d.end[i]
                 PROVE  e.code[d.headers[i].xt] = d.code[d.headers[i].xt]
      OBVIOUS
    <3>1. /\ d.headers[i].xt \in Nat /\ d.headers[i].xt \in 0 .. MaxCode
          /\ d.end[i] \in Nat /\ d.end[i] <= d.dp
      BY <1>0, Fields, DictionaryAssumption DEF Ordered
    <3>2. d.headers[i].xt \in 1 .. MaxCode + 1 /\ d.headers[i].xt < d.dp
      BY <3>1, <1>2, DictionaryAssumption DEF HasBody
    <3> QED BY <3>2, <1>1, <1>2
  <2>2. e.headers = d.headers /\ e.end = d.end /\ e.context = d.context BY <1>1
  <2> HIDE DEF e, n
  <2> QED BY <1>0, <2>1, <2>2 DEF Finished, HasBody
<1> QED BY <1>1, <1>4, <1>5, <1>8, <1>9, <1>10 DEF Sound

\* One cell, and two cells.
LEMMA CommaOne ==
  ASSUME NEW A, NEW d, NEW lim \in Nat, Sound(d, A, lim), d.dp + 1 <= MaxCode,
         NEW c \in Cells(A), IsCall(c) => c.arg \in 0 .. lim,
         c.op = "nfa" => c.arg \in 0 .. d.context
  PROVE  /\ Sound(Comma(d, <<c>>), A, lim)
         /\ Comma(d, <<c>>).dp = d.dp + 1
         /\ Comma(d, <<c>>).headers = d.headers
         /\ Comma(d, <<c>>).headersPtr = d.headersPtr
         /\ Comma(d, <<c>>).context = d.context
<1> DEFINE q == <<c>>
<1>1. q \in Seq(Cells(A)) /\ Len(q) = 1 /\ q[1] = c OBVIOUS
<1> HIDE DEF q
<1>2. /\ \A k \in 1 .. Len(q) :
           /\ IsCall(q[k]) => q[k].arg \in 0 .. lim
           /\ q[k].op = "nfa" => q[k].arg \in 0 .. d.context
      /\ d.dp + Len(q) <= MaxCode
  BY <1>1
<1>3. Sound(Comma(d, q), A, lim) /\ Comma(d, q).dp = d.dp + Len(q)
      /\ Comma(d, q).headers = d.headers /\ Comma(d, q).headersPtr = d.headersPtr
      /\ Comma(d, q).context = d.context
  BY <1>1, <1>2, CommaGood, ZenonT(60)
<1> QED BY <1>1, <1>3 DEF q

LEMMA CommaTwo ==
  ASSUME NEW A, NEW d, NEW lim \in Nat, Sound(d, A, lim), d.dp + 2 <= MaxCode,
         NEW c1 \in Cells(A), ~ IsCall(c1), c1.op # "nfa",
         NEW c2 \in Cells(A), IsCall(c2) => c2.arg \in 0 .. lim, c2.op # "nfa"
  PROVE  /\ Sound(Comma(d, <<c1, c2>>), A, lim)
         /\ Comma(d, <<c1, c2>>).dp = d.dp + 2
<1> DEFINE q == <<c1, c2>>
<1>1. q \in Seq(Cells(A)) /\ Len(q) = 2 /\ q[1] = c1 /\ q[2] = c2 OBVIOUS
<1> HIDE DEF q
<1>2. /\ \A k \in 1 .. Len(q) :
           /\ IsCall(q[k]) => q[k].arg \in 0 .. lim
           /\ q[k].op # "nfa"
      /\ d.dp + Len(q) <= MaxCode
  BY <1>1
<1>3. Sound(Comma(d, q), A, lim) /\ Comma(d, q).dp = d.dp + Len(q)
  BY <1>1, <1>2, CommaGood
<1> QED BY <1>1, <1>3 DEF q

\* A larger bound on the calls; a larger set of values.
LEMMA Raise ==
  ASSUME NEW A, NEW d, NEW lim \in Nat, Sound(d, A, lim), NEW m \in Nat, lim <= m
  PROVE  Sound(d, A, m)
<1>1. \A x \in 0 .. lim : x \in 0 .. m OBVIOUS
<1> QED BY <1>1 DEF Sound, Calls

LEMMA Widen ==
  ASSUME NEW A, NEW B, A \subseteq B, NEW d, Good(d, A)
  PROVE  Good(d, B)
<1>1. Cells(A) \subseteq Cells(B) BY DEF Cells
<1>2. d \in Memory(A) BY DEF Good, Sound
<1>3. d.code \in [1 .. MaxCode + 1 -> Cells(B)] BY <1>1, <1>2, Fields
<1>4. d = [headers |-> d.headers, headersPtr |-> d.headersPtr, context |-> d.context,
           code |-> d.code, dp |-> d.dp, end |-> d.end]
  BY <1>2 DEF Memory
<1>5. d \in Memory(B) BY <1>2, <1>3, <1>4, Fields DEF Memory
<1> QED BY <1>5 DEF Good, Sound

\* ffFinishSecondary: EXIT, and the latest header becomes visible.
LEMMA FinishGood ==
  ASSUME NEW A, Addresses \subseteq A, NEW d, NEW lim \in Nat, Sound(d, A, lim),
         lim <= d.dp + 1, d.dp + 1 <= MaxCode
  PROVE  /\ Good(FinishSecondary(d), A)
         /\ FinishSecondary(d).dp = d.dp + 1
         /\ FinishSecondary(d).headersPtr = d.headersPtr
         /\ FinishSecondary(d).context = d.context
<1> DEFINE e == Comma(d, <<Exit>>)  l == d.context
           x == IF d.headers[l].xt = 0 THEN 0 ELSE e.dp
           r == FinishSecondary(d)
<1>1. /\ Sound(e, A, lim) /\ e.dp = d.dp + 1 /\ e.headers = d.headers
      /\ e.headersPtr = d.headersPtr /\ e.context = l
  <2>1. Exit \in Cells(A) /\ ~ IsCall(Exit) /\ Exit.op # "nfa"
    BY DictionaryAssumption DEF IsCall, Exit, Plain, Cell, Cells, Ops, Addresses
  <2>2. /\ Sound(Comma(d, <<Exit>>), A, lim)
        /\ Comma(d, <<Exit>>).dp = d.dp + 1
        /\ Comma(d, <<Exit>>).headers = d.headers
        /\ Comma(d, <<Exit>>).headersPtr = d.headersPtr
        /\ Comma(d, <<Exit>>).context = d.context
    BY <2>1, CommaOne
  <2> QED BY <2>2
<1>2. /\ d \in Memory(A) /\ Ordered(d)
      /\ e \in Memory(A) /\ Ordered(e) /\ Calls(e, lim) /\ Kept(e) /\ Finished(e)
  BY <1>1 DEF Sound
<1>3. l \in 0 .. MaxHeaders /\ l \in Nat /\ e.dp \in 1 .. MaxCode
  BY <1>2, Fields
<1>4. Calls(e, e.dp)
  <2>1. e.dp \in Nat /\ lim <= e.dp /\ d.dp \in Nat BY <1>1, <1>2, Fields
  <2> HIDE DEF e
  <2> QED BY <1>2, <2>1 DEF Calls
<1>5. CASE l = 0
  BY <1>1, <1>2, <1>4, <1>5 DEF FinishSecondary, Good, Sound
<1>6. CASE l # 0
  <2>1. r = [headers |-> [e.headers EXCEPT ![l].smudge = FALSE],
             headersPtr |-> e.headersPtr, context |-> e.context, code |-> e.code,
             dp |-> e.dp, end |-> [e.end EXCEPT ![l] = x]]
    <3>1. r = [e EXCEPT !.headers[l].smudge = FALSE, !.end[l] = x]
      BY <1>6 DEF FinishSecondary
    <3> HIDE DEF r, e, l, x
    <3> QED BY <1>2, <3>1 DEF Memory
  <2>2. l \in 1 .. MaxHeaders BY <1>3, <1>6
  <2>3. x \in 0 .. MaxCode /\ x \in Nat /\ x <= e.dp BY <1>3, DictionaryAssumption
  <2>4. /\ e.headers \in [1 .. MaxHeaders -> Headers]
        /\ e.end \in [1 .. MaxHeaders -> Addresses]
    BY <1>2, Fields
  <2> HIDE DEF r, e, l, x
  <2>5. /\ [e.headers EXCEPT ![l].smudge = FALSE] \in [1 .. MaxHeaders -> Headers]
        /\ \A i \in 1 .. MaxHeaders : /\ r.headers[i].xt = e.headers[i].xt
                                    /\ r.headers[i].prev = e.headers[i].prev
    BY <2>1, <2>4 DEF Headers
  <2>6. /\ [e.end EXCEPT ![l] = x] \in [1 .. MaxHeaders -> Addresses]
        /\ \A i \in 1 .. MaxHeaders : i # l => r.end[i] = e.end[i]
        /\ r.end[l] = x
    BY <2>1, <2>2, <2>3, <2>4 DEF Addresses
  <2>7. /\ r.dp = e.dp /\ r.code = e.code /\ r.context = l
        /\ r.headersPtr = e.headersPtr
    BY <2>1, <1>1
  <2>8. r \in Memory(A) BY <1>2, <2>1, <2>5, <2>6, Fields DEF Memory
  <2>9. \A i \in 1 .. l : i \in 1 .. MaxHeaders BY <1>3, DictionaryAssumption
  <2>10. Ordered(r)
    <3> SUFFICES ASSUME NEW i \in 1 .. l
                 PROVE  /\ r.headers[i].prev = i - 1
                        /\ r.headers[i].xt <= r.dp /\ r.end[i] <= r.dp
                        /\ \A j \in 1 .. l :
                             i < j /\ r.headers[j].xt # 0 =>
                               /\ r.headers[i].xt <= r.headers[j].xt
                               /\ r.end[i] <= r.headers[j].xt
      BY <1>1, <1>2, <2>7 DEF Ordered
    <3>1. CASE i = l BY <3>1, <1>1, <1>2, <1>3, <2>3, <2>5, <2>6, <2>7, <2>9 DEF Ordered
    <3>2. CASE i # l BY <3>2, <1>1, <1>2, <2>5, <2>6, <2>7, <2>9 DEF Ordered
    <3> QED BY <3>1, <3>2
  <2>11. Calls(r, r.dp) BY <1>1, <1>4, <2>5, <2>7, <2>9 DEF Calls
  <2>12. Kept(r) BY <1>1, <1>2, <2>5, <2>7, <2>9 DEF Kept
  <2>13. Finished(r)
    <3>1. e.code[d.dp] = Exit
      <4>1. d.dp \in 1 .. MaxCode + 1 /\ DOMAIN d.code = 1 .. MaxCode + 1
            /\ d.dp \in Nat
        BY <1>2, Fields, DictionaryAssumption
      <4>2. Len(<<Exit>>) = 1 /\ <<Exit>>[1] = Exit OBVIOUS
      <4>3. d.dp - d.dp \in 0 .. 1 - 1 /\ d.dp - d.dp + 1 = 1 BY <4>1
      <4>4. e.code = [a \in DOMAIN d.code |->
                        IF a - d.dp \in 0 .. Len(<<Exit>>) - 1
                        THEN <<Exit>>[a - d.dp + 1] ELSE d.code[a]]
        BY <1>2 DEF e, Comma, Memory
      <4> QED BY <4>1, <4>2, <4>3, <4>4
    <3> SUFFICES ASSUME NEW i \in 1 .. l
                 PROVE  /\ r.headers[i].xt = 0 => r.headers[i].name = FileMark
                        /\ HasBody(r, i) =>
                             /\ r.headers[i].xt < r.end[i]
                             /\ r.code[r.headers[i].xt].op = "defer" =>
                                  r.headers[i].xt + 1 < r.end[i]
      BY <2>7 DEF Finished
    <3>2. /\ r.headers[i].name = e.headers[i].name
          /\ i # l => r.headers[i].smudge = e.headers[i].smudge
      BY <2>1, <2>4, <2>9 DEF Headers
    <3>3. CASE i # l
      BY <3>2, <3>3, <1>1, <1>2, <2>5, <2>6, <2>7, <2>9 DEF Finished, HasBody
    <3>4. CASE i = l
      <4>1. r.headers[l].xt = d.headers[l].xt /\ r.headers[l].xt <= d.dp
            /\ r.headers[l].xt \in Nat /\ d.dp \in Nat
        <5>1. l \in 1 .. d.context BY <1>3, <1>6 DEF l
        <5> QED BY <1>1, <1>2, <2>2, <2>5, <5>1, Fields DEF Ordered
      <4>2. r.headers[l].xt = 0 => r.headers[l].name = FileMark
        BY <3>2, <3>4, <1>1, <1>2, <2>2, <2>5, <2>9 DEF Finished
      <4>3. r.headers[l].xt # 0 => r.end[l] = d.dp + 1
        BY <4>1, <2>6, <1>1 DEF x
      <4>4. r.headers[l].xt = d.dp => r.code[r.headers[l].xt].op # "defer"
        BY <3>1, <2>7 DEF Exit, Plain, Cell
      <4> QED BY <3>4, <4>1, <4>2, <4>3, <4>4 DEF HasBody
    <3> QED BY <3>3, <3>4
  <2> QED BY <1>1, <2>7, <2>8, <2>10, <2>11, <2>12, <2>13 DEF Good, Sound, r, l
<1> QED BY <1>5, <1>6

\* A store of a cell that is no NFA, and no call out of bounds.
LEMMA StoreGood ==
  ASSUME NEW A, NEW d, Good(d, A), NEW a, NEW c \in Cells(A), c.op # "nfa",
         c.op # "defer",
         IsCall(c) => /\ c.arg \in 0 .. d.dp
                      /\ \A j \in 1 .. d.context :
                           a < d.headers[j].xt => c.arg <= d.headers[j].xt
  PROVE  Good(Store(d, a, c), A)
<1> DEFINE e == Store(d, a, c)
<1>0. /\ d \in Memory(A) /\ Ordered(d) /\ Calls(d, d.dp) /\ Kept(d)
      /\ Finished(d)
  BY DEF Good, Sound
<1>1. CASE a \notin DOMAIN d.code BY <1>1 DEF Store
<1>2. CASE a \in DOMAIN d.code
  <2>1. e = [headers |-> d.headers, headersPtr |-> d.headersPtr, context |-> d.context,
             code |-> [d.code EXCEPT ![a] = c], dp |-> d.dp, end |-> d.end]
    <3>1. e = [d EXCEPT !.code[a] = c] BY <1>2 DEF Store
    <3> HIDE DEF e
    <3> QED BY <1>0, <3>1 DEF Memory
  <2>2. d.code \in [1 .. MaxCode + 1 -> Cells(A)] /\ d.dp \in 1 .. MaxCode
    BY <1>0, Fields
  <2>3. \A b \in 1 .. d.dp - 1 : e.code[b] = IF b = a THEN c ELSE d.code[b]
    BY <2>1, <2>2, DictionaryAssumption
  <2> HIDE DEF e
  <2>4. e \in Memory(A) BY <1>0, <2>1, <2>2, Fields DEF Memory
  <2>5. Ordered(e) BY <1>0, <2>1 DEF Ordered
  <2>6. Calls(e, e.dp) BY <1>0, <2>1, <2>3 DEF Calls
  <2>7. Kept(e) BY <1>0, <2>1, <2>3 DEF Kept
  <2>8. Finished(e)
    <3>1. \A b : e.code[b].op = "defer" => e.code[b] = d.code[b]
      BY <2>1, <2>2
    <3>2. e.headers = d.headers /\ e.end = d.end /\ e.context = d.context BY <2>1
    <3> QED BY <1>0, <3>1, <3>2 DEF Finished, HasBody
  <2> QED BY <2>4, <2>5, <2>6, <2>7, <2>8 DEF Good, Sound, e
<1> QED BY <1>1, <1>2

\* (DOES>): no header's code begins behind the first cell of the latest one.
LEMMA SetDoesGood ==
  ASSUME NEW A, NEW d, Good(d, A), NEW c \in Cells(A), c.op # "nfa",
         c.op # "defer", IsCall(c) => c.arg \in 0 .. d.dp
  PROVE  Good(SetDoes(d, c), A)
<1> DEFINE l == d.context  xt == d.headers[l].xt
<1>0. d \in Memory(A) /\ Ordered(d) BY DEF Good, Sound
<1>1. CASE Xt(d, l) = 0 BY <1>1 DEF SetDoes
<1>2. CASE Xt(d, l) # 0
  <2>1. l \in 1 .. MaxHeaders /\ xt # 0 /\ Xt(d, l) = xt
    BY <1>0, <1>2, Fields, DictionaryAssumption DEF Xt
  <2>2. xt \in Nat BY <1>0, <2>1, Fields
  <2>3. ASSUME NEW j \in 1 .. l PROVE ~ (xt + 1 < d.headers[j].xt)
    <3>1. d.headers[j].xt \in Nat /\ l \in 1 .. l
      BY <1>0, <2>1, Fields, DictionaryAssumption
    <3>2. CASE j = l BY <3>2, <2>2
    <3>3. CASE j # l
      <4>1. d.headers[j].xt <= xt BY <1>0, <2>1, <3>1, <3>3 DEF Ordered
      <4> QED BY <4>1, <3>1, <2>2
    <3> QED BY <3>2, <3>3
  <2>4. SetDoes(d, c) = Store(d, xt + 1, c) BY <1>2, <2>1 DEF SetDoes
  <2> HIDE DEF l, xt
  <2> QED BY <2>3, <2>4, StoreGood DEF l
<1> QED BY <1>1, <1>2

\* FORGET.NFA of a header with code.
LEMMA ForgetGood ==
  ASSUME NEW A, NEW d, Good(d, A), NEW i \in 1 .. d.context, d.headers[i].xt # 0
  PROVE  Good(ForgetNFA(d, i), A)
<1> DEFINE e == ForgetNFA(d, i)  xt == d.headers[i].xt
<1>0. /\ d \in Memory(A) /\ Ordered(d) /\ Calls(d, d.dp) /\ Kept(d)
      /\ Finished(d)
  BY DEF Good, Sound
<1>1. e = [headers |-> d.headers, headersPtr |-> d.headers[i].prev + 1,
           context |-> d.headers[i].prev, code |-> d.code, dp |-> xt, end |-> d.end]
  <2>1. e = [d EXCEPT !.dp = d.headers[i].xt, !.context = d.headers[i].prev,
                      !.headersPtr = d.headers[i].prev + 1]
    BY DEF ForgetNFA
  <2> HIDE DEF e
  <2> QED BY <1>0, <2>1 DEF Memory
<1>2. d.headers[i].prev = i - 1 /\ xt <= d.dp BY <1>0 DEF Ordered
<1>3. /\ i \in 1 .. MaxHeaders /\ i \in Nat /\ xt \in 1 .. MaxCode /\ d.dp \in Nat
      /\ d.context \in Nat
  BY <1>0, Fields, DictionaryAssumption
<1>4. /\ e.headers = d.headers /\ e.headersPtr = i /\ e.context = i - 1
      /\ e.code = d.code /\ e.dp = xt /\ e.end = d.end
  BY <1>1, <1>2, <1>3
<1>5. e \in Memory(A)
  <2>1. d.headers[i].prev + 1 \in 1 .. MaxHeaders + 1
        /\ d.headers[i].prev \in 0 .. MaxHeaders
    BY <1>2, <1>3, DictionaryAssumption
  <2> HIDE DEF e, xt
  <2> QED BY <1>0, <1>1, <1>3, <2>1, Fields DEF Memory
<1> HIDE DEF e
<1>6. Ordered(e)
  <2> SUFFICES ASSUME NEW k \in 1 .. i - 1
               PROVE  /\ d.headers[k].prev = k - 1
                      /\ d.headers[k].xt <= xt /\ d.end[k] <= xt
                      /\ \A j \in 1 .. i - 1 :
                           k < j /\ d.headers[j].xt # 0 =>
                             /\ d.headers[k].xt <= d.headers[j].xt
                             /\ d.end[k] <= d.headers[j].xt
    BY <1>4, <1>3 DEF Ordered
  <2>1. k \in 1 .. d.context /\ k < i /\ \A j \in 1 .. i - 1 : j \in 1 .. d.context
    BY <1>3
  <2> QED BY <1>0, <2>1 DEF Ordered
<1>7. \A a \in 1 .. xt - 1 : a \in 1 .. d.dp - 1 /\ a < xt
  BY <1>2, <1>3
<1>8. \A j \in 1 .. i - 1 : j \in 1 .. d.context BY <1>3
<1>9. Calls(e, e.dp)
  <2> SUFFICES ASSUME NEW a \in 1 .. xt - 1, IsCall(d.code[a])
               PROVE  /\ d.code[a].arg \in 0 .. xt
                      /\ \A j \in 1 .. i - 1 :
                           a < d.headers[j].xt => d.code[a].arg <= d.headers[j].xt
    BY <1>4 DEF Calls
  <2>1. d.code[a].arg \in 0 .. d.dp /\ d.code[a].arg <= xt
    BY <1>0, <1>7 DEF Calls
  <2> QED BY <1>0, <1>3, <1>7, <1>8, <2>1 DEF Calls
<1>10. Kept(e)
  <2> SUFFICES ASSUME NEW a \in 1 .. xt - 1, d.code[a].op = "nfa"
               PROVE  /\ d.code[a].arg \in 0 .. i - 1
                      /\ \A j \in 1 .. i - 1 : a < d.headers[j].xt => d.code[a].arg < j
    BY <1>4 DEF Kept
  <2>1. d.code[a].arg \in 0 .. d.context /\ d.code[a].arg < i
    BY <1>0, <1>7 DEF Kept
  <2> QED BY <1>0, <1>3, <1>7, <1>8, <2>1 DEF Kept
<1>11. Finished(e) BY <1>0, <1>4, <1>8 DEF Finished, HasBody
<1> QED BY <1>5, <1>6, <1>9, <1>10, <1>11 DEF Good, Sound, e

----------------------------------------------------------------------------
(* The fields after each function. *)

LEMMA EntryIs ==
  ASSUME NEW A, NEW d \in Memory(A), d.headersPtr <= MaxHeaders,
         Ordered(d), NEW n, NEW xt, NEW s, NEW e, e = Entry(d, n, xt, s)
  PROVE  /\ e.context = d.context + 1 /\ e.code = d.code /\ e.dp = d.dp
         /\ \A i \in 1 .. d.context : e.headers[i] = d.headers[i] /\ e.end[i] = d.end[i]
         /\ e.headers[d.context + 1] = Header(n, xt, d.context, s)
<1> DEFINE p == d.headersPtr  h == Header(n, xt, d.context, s)
<1>1. e = [d EXCEPT !.headers[p] = h, !.end[p] = 0, !.headersPtr = @ + 1,
                    !.context = p]
  BY DEF Entry
<1>2. p \in Nat /\ p \in 1 .. MaxHeaders /\ d.context \in Nat
  BY Fields, DictionaryAssumption
<1> HIDE DEF h, p
<1>3. e = [headers |-> [d.headers EXCEPT ![p] = h], headersPtr |-> d.headersPtr + 1,
           context |-> p, code |-> d.code, dp |-> d.dp,
           end |-> [d.end EXCEPT ![p] = 0]]
  BY <1>1 DEF Memory
<1>4. p = d.context + 1 BY <1>2 DEF p, Ordered
<1>5. \A i \in 1 .. d.context : i \in 1 .. MaxHeaders /\ i # p
  BY <1>2, <1>4, DictionaryAssumption
<1>6. e.headers[p] = h
  <2>1. e.headers = [d.headers EXCEPT ![p] = h] BY <1>3
  <2>2. d.headers \in [1 .. MaxHeaders -> Headers] BY Fields
  <2> QED BY <1>2, <2>1, <2>2
<1>7. e.headers[d.context + 1] = Header(n, xt, d.context, s) BY <1>4, <1>6 DEF h
<1> QED BY <1>3, <1>4, <1>5, <1>7, Fields

LEMMA CommaIs ==
  ASSUME NEW A, NEW d \in Memory(A), NEW cells \in Seq(Cells(A)),
         d.dp + Len(cells) <= MaxCode, NEW e, e = Comma(d, cells)
  PROVE  /\ e.headers = d.headers /\ e.end = d.end /\ e.context = d.context
         /\ e.dp = d.dp + Len(cells)
         /\ \A a \in 1 .. d.dp - 1 : e.code[a] = d.code[a]
         /\ \A a \in d.dp .. e.dp - 1 : \E k \in 1 .. Len(cells) : e.code[a] = cells[k]
         /\ e = [headers |-> e.headers, headersPtr |-> e.headersPtr,
                 context |-> e.context, code |-> e.code, dp |-> e.dp, end |-> e.end]
<1> DEFINE n == Len(cells)
           mem == [a \in DOMAIN d.code |->
                     IF a - d.dp \in 0 .. Len(cells) - 1
                     THEN cells[a - d.dp + 1] ELSE d.code[a]]
<1>1. e = [headers |-> d.headers, headersPtr |-> d.headersPtr, context |-> d.context,
           code |-> mem, dp |-> d.dp + n, end |-> d.end]
  <2>1. e = [d EXCEPT !.code = mem, !.dp = @ + n] BY DEF Comma
  <2> HIDE DEF n, mem
  <2> QED BY <2>1 DEF Memory
<1>2. n \in Nat /\ d.dp \in 1 .. MaxCode /\ d.dp \in Nat
      /\ DOMAIN d.code = 1 .. MaxCode + 1
  BY Fields
<1>3. ASSUME NEW a \in 1 .. d.dp - 1 PROVE e.code[a] = d.code[a]
  <2>1. a \in 1 .. MaxCode + 1 /\ ~ (a - d.dp \in 0 .. n - 1)
    BY <1>2, DictionaryAssumption
  <2> QED BY <1>1, <1>2, <2>1
<1>4. ASSUME NEW a \in d.dp .. (d.dp + n) - 1
      PROVE  \E k \in 1 .. n : e.code[a] = cells[k]
  <2>1. /\ a \in 1 .. MaxCode + 1 /\ a - d.dp \in 0 .. n - 1
        /\ a - d.dp + 1 \in 1 .. n
    BY <1>2, DictionaryAssumption
  <2>2. e.code[a] = cells[a - d.dp + 1] BY <1>1, <1>2, <2>1
  <2> QED BY <2>1, <2>2
<1> HIDE DEF mem
<1>5. e.headers = d.headers /\ e.end = d.end /\ e.context = d.context /\ e.dp = d.dp + n
  BY <1>1
<1>6. e = [headers |-> e.headers, headersPtr |-> e.headersPtr,
           context |-> e.context, code |-> e.code, dp |-> e.dp, end |-> e.end]
  BY <1>1
<1> QED BY <1>3, <1>4, <1>5, <1>6

LEMMA CommaIsOne ==
  ASSUME NEW A, NEW d \in Memory(A), NEW c \in Cells(A), d.dp + 1 <= MaxCode,
         NEW e, e = Comma(d, <<c>>)
  PROVE  /\ e.headers = d.headers /\ e.end = d.end /\ e.context = d.context
         /\ e.dp = d.dp + 1
         /\ \A a \in 1 .. d.dp - 1 : e.code[a] = d.code[a]
         /\ e.code[d.dp] = c
         /\ e = [headers |-> e.headers, headersPtr |-> e.headersPtr,
                 context |-> e.context, code |-> e.code, dp |-> e.dp, end |-> e.end]
<1> DEFINE q == <<c>>
<1>1. q \in Seq(Cells(A)) /\ Len(q) = 1 /\ \A k \in 1 .. 1 : q[k] = c OBVIOUS
<1> DEFINE f == Comma(d, q)
<1>2. e = f OBVIOUS
<1> HIDE DEF q, f
<1>3. d \in Memory(A) /\ d.dp + Len(q) <= MaxCode /\ f = Comma(d, q)
      /\ q \in Seq(Cells(A))
  BY <1>1 DEF f
<1>4. /\ f.headers = d.headers /\ f.end = d.end /\ f.context = d.context
      /\ f.dp = d.dp + Len(q)
      /\ \A a \in 1 .. d.dp - 1 : f.code[a] = d.code[a]
      /\ \A a \in d.dp .. f.dp - 1 : \E k \in 1 .. Len(q) : f.code[a] = q[k]
      /\ f = [headers |-> f.headers, headersPtr |-> f.headersPtr,
              context |-> f.context, code |-> f.code, dp |-> f.dp, end |-> f.end]
  BY ONLY <1>3, CommaIs
<1>5. d.dp \in Nat BY Fields
<1>6. d.dp \in d.dp .. f.dp - 1 BY <1>1, <1>4, <1>5
<1>7. f.code[d.dp] = c BY <1>1, <1>4, <1>6
<1>8. f.dp = d.dp + 1 BY <1>1, <1>4
<1> QED BY <1>2, <1>4, <1>7, <1>8

LEMMA StoreIs ==
  ASSUME NEW A, NEW d \in Memory(A), NEW a, NEW c, NEW e, e = Store(d, a, c)
  PROVE  /\ e.headers = d.headers /\ e.end = d.end /\ e.context = d.context
         /\ e.dp = d.dp
         /\ \A b \in 1 .. MaxCode + 1 : e.code[b] = IF b = a THEN c ELSE d.code[b]
<1>1. DOMAIN d.code = 1 .. MaxCode + 1 BY Fields
<1>2. CASE a \notin DOMAIN d.code BY <1>1, <1>2 DEF Store
<1>3. CASE a \in DOMAIN d.code
  <2>1. e = [headers |-> d.headers, headersPtr |-> d.headersPtr, context |-> d.context,
             code |-> [d.code EXCEPT ![a] = c], dp |-> d.dp, end |-> d.end]
    <3>1. e = [d EXCEPT !.code[a] = c] BY <1>3 DEF Store
    <3> QED BY <3>1 DEF Memory
  <2>2. \A b \in 1 .. MaxCode + 1 : e.code[b] = IF b = a THEN c ELSE d.code[b]
    <3>1. d.code \in [1 .. MaxCode + 1 -> Cells(A)] BY Fields
    <3>2. e.code = [d.code EXCEPT ![a] = c] BY <2>1
    <3> QED BY <1>3, <3>1, <3>2
  <2> QED BY <2>1, <2>2
<1> QED BY <1>2, <1>3

LEMMA FinishIs ==
  ASSUME NEW A, Addresses \subseteq A, NEW d \in Memory(A), d.dp + 1 <= MaxCode,
         NEW e, e = FinishSecondary(d)
  PROVE  /\ e.context = d.context /\ e.dp = d.dp + 1
         /\ \A a \in 1 .. d.dp - 1 : e.code[a] = d.code[a]
         /\ e.code[d.dp] = Exit
         /\ \A i \in 1 .. d.context :
              i # d.context => e.headers[i] = d.headers[i] /\ e.end[i] = d.end[i]
         /\ d.context # 0 =>
              /\ e.headers[d.context] = [d.headers[d.context] EXCEPT !.smudge = FALSE]
              /\ d.headers[d.context].xt # 0 => e.end[d.context] = e.dp
<1> DEFINE f == Comma(d, <<Exit>>)  l == d.context
           x == IF d.headers[l].xt = 0 THEN 0 ELSE f.dp
<1>1. Exit \in Cells(A)
  BY DictionaryAssumption DEF Exit, Plain, Cell, Cells, Ops, Addresses
<1>3. /\ f.headers = d.headers /\ f.end = d.end /\ f.context = l /\ f.dp = d.dp + 1
      /\ \A a \in 1 .. d.dp - 1 : f.code[a] = d.code[a]
      /\ f.code[d.dp] = Exit
      /\ f = [headers |-> f.headers, headersPtr |-> f.headersPtr, context |-> f.context,
              code |-> f.code, dp |-> f.dp, end |-> f.end]
  <2> HIDE DEF f
  <2>1. f = Comma(d, <<Exit>>) BY DEF f
  <2> QED BY <1>1, <2>1, CommaIsOne
<1>4. /\ l \in 0 .. MaxHeaders /\ l \in Nat
      /\ d.headers \in [1 .. MaxHeaders -> Headers]
      /\ d.end \in [1 .. MaxHeaders -> Addresses]
  BY Fields
<1>5. CASE l = 0
  <2>1. e = f BY <1>5 DEF FinishSecondary
  <2> QED BY <1>3, <1>5, <2>1
<1>6. CASE l # 0
  <2>1. e = [f EXCEPT !.headers[l].smudge = FALSE, !.end[l] = x]
    BY <1>6 DEF FinishSecondary
  <2> HIDE DEF f, x, l
  <2>3. /\ e.context = f.context /\ e.code = f.code /\ e.dp = f.dp
        /\ e.headers = [f.headers EXCEPT ![l].smudge = FALSE]
        /\ e.end = [f.end EXCEPT ![l] = x]
    BY <1>3, <2>1
  <2>4. l \in 1 .. MaxHeaders /\ \A i \in 1 .. l : i \in 1 .. MaxHeaders
    BY <1>4, <1>6, DictionaryAssumption
  <2>5. \A i \in 1 .. l : i # l => e.headers[i] = d.headers[i] /\ e.end[i] = d.end[i]
    BY <1>3, <1>4, <2>3, <2>4
  <2>6. e.headers[l] = [d.headers[l] EXCEPT !.smudge = FALSE] /\ e.end[l] = x
    <3>1. \A hs \in [1 .. MaxHeaders -> Headers] :
            [hs EXCEPT ![l].smudge = FALSE][l] = [hs[l] EXCEPT !.smudge = FALSE]
      BY <2>4
    <3>2. \A en \in [1 .. MaxHeaders -> Addresses] : [en EXCEPT ![l] = x][l] = x
      BY <2>4
    <3>3. e.headers[l] = [f.headers EXCEPT ![l].smudge = FALSE][l]
          /\ e.end[l] = [f.end EXCEPT ![l] = x][l]
      BY <2>3
    <3>4. f.headers \in [1 .. MaxHeaders -> Headers]
          /\ f.end \in [1 .. MaxHeaders -> Addresses]
      BY <1>3, <1>4
    <3> QED BY <1>3, <3>1, <3>2, <3>3, <3>4
  <2>7. d.headers[l].xt # 0 => x = f.dp BY DEF x
  <2> QED BY <1>3, <2>3, <2>5, <2>6, <2>7 DEF l
<1> QED BY <1>5, <1>6

LEMMA FinishCode ==
  ASSUME NEW A, Addresses \subseteq A, NEW d \in Memory(A), d.dp + 1 <= MaxCode
  PROVE  /\ FinishSecondary(d).dp = d.dp + 1
         /\ FinishSecondary(d).code[d.dp] = Exit
         /\ \A a \in 1 .. d.dp - 1 : FinishSecondary(d).code[a] = d.code[a]
<1> DEFINE e == FinishSecondary(d)  l == d.context
<1>1. /\ e.context = l
      /\ \A a \in 1 .. d.dp - 1 : e.code[a] = d.code[a]
      /\ e.code[d.dp] = Exit
      /\ \A i \in 1 .. l : i # l => e.headers[i] = d.headers[i] /\ e.end[i] = d.end[i]
      /\ l # 0 => /\ e.headers[l] = [d.headers[l] EXCEPT !.smudge = FALSE]
                  /\ d.headers[l].xt # 0 => e.end[l] = e.dp
      /\ e.dp = d.dp + 1
  BY FinishIs
<1> QED BY <1>1

LEMMA ForgetIs ==
  ASSUME NEW A, NEW d \in Memory(A), NEW i, NEW e, e = ForgetNFA(d, i)
  PROVE  /\ e.headers = d.headers /\ e.end = d.end /\ e.code = d.code
         /\ e.context = d.headers[i].prev /\ e.dp = d.headers[i].xt
<1>1. e = [d EXCEPT !.dp = d.headers[i].xt, !.context = d.headers[i].prev,
                    !.headersPtr = d.headers[i].prev + 1]
  BY DEF ForgetNFA
<1> QED BY <1>1 DEF Memory

----------------------------------------------------------------------------
(* The definitions of a dictionary, as defs has them, and what each function *)
(* does to them.                                                             *)

Body(d, i) == IF HasBody(d, i)
              THEN SubSeq(d.code, d.headers[i].xt, d.end[i] - 1) ELSE <<>>
DefOf(d, i) == [name |-> d.headers[i].name, visible |-> ~ d.headers[i].smudge,
                body |-> Body(d, i)]
DefsOf(d) == [i \in 1 .. d.context |-> DefOf(d, i)]

\* What may happen to the latest definition, to all, to none but a new one.
Reworked(x, y) ==
  /\ y.name = x.name
  /\ x.visible => y.visible
  /\ Len(y.body) >= Len(x.body)
  /\ \A k \in DOMAIN x.body : k # 2 => y.body[k] = x.body[k]
OnlyLatest(d, e) ==
  /\ e.context = d.context
  /\ \A i \in 1 .. d.context :
       IF i = d.context THEN Reworked(DefOf(d, i), DefOf(e, i))
       ELSE DefOf(e, i) = DefOf(d, i)
Added(d, e) ==
  e.context = d.context + 1 /\ \A i \in 1 .. d.context : DefOf(e, i) = DefOf(d, i)
Grown(d, e) == OnlyLatest(d, e) \/ Added(d, e)
Vectored(d, e) ==
  /\ e.context = d.context
  /\ \E i \in 1 .. d.context :
       /\ \A j \in 1 .. d.context : j # i => DefOf(e, j) = DefOf(d, j)
       /\ DefOf(e, i) = [DefOf(d, i) EXCEPT !.body = Body(e, i)]
       /\ Body(d, i) # <<>> /\ Body(d, i)[1].op = "defer"
       /\ Len(Body(e, i)) = Len(Body(d, i))
       /\ \A k \in DOMAIN Body(d, i) : k # 2 => Body(e, i)[k] = Body(d, i)[k]
Cut(d, e) ==
  e.context < d.context /\ \A i \in 1 .. e.context : DefOf(e, i) = DefOf(d, i)

\* The body of a definition: its cells from the xt on.
LEMMA BodyIs ==
  ASSUME NEW A, NEW lim, NEW d, Sound(d, A, lim), NEW i \in 1 .. d.context,
         HasBody(d, i)
  PROVE  /\ d.headers[i].xt \in Nat \ {0} /\ d.end[i] \in Nat
         /\ d.headers[i].xt < d.end[i] /\ d.end[i] <= d.dp
         /\ Body(d, i) \in Seq(Cells(A))
         /\ Len(Body(d, i)) = d.end[i] - d.headers[i].xt
         /\ \A k \in 1 .. d.end[i] - d.headers[i].xt :
              Body(d, i)[k] = d.code[d.headers[i].xt + (k - 1)]
<1> DEFINE xt == d.headers[i].xt  n == d.end[i] - 1
<1>1. d \in Memory(A) /\ Ordered(d) /\ Finished(d) BY DEF Sound
<1>2. /\ i \in 1 .. MaxHeaders /\ d.dp \in 1 .. MaxCode
      /\ d.code \in [1 .. MaxCode + 1 -> Cells(A)]
  BY <1>1, Fields, DictionaryAssumption
<1>3. xt \in Nat /\ xt # 0 /\ d.end[i] \in Nat
  BY <1>1, <1>2, Fields DEF HasBody
<1>4. xt < d.end[i] /\ d.end[i] <= d.dp BY <1>1 DEF Finished, Ordered
<1>5. xt \in Int /\ n \in Int BY <1>3
<1>6. \A k \in xt .. n : d.code[k] \in Cells(A)
  <2>1. \A k \in xt .. n : k \in 1 .. MaxCode + 1
    BY <1>2, <1>3, <1>4, DictionaryAssumption
  <2> QED BY <2>1, <1>2
<1> HIDE DEF xt, n
<1>7. /\ SubSeq(d.code, xt, n) \in Seq(Cells(A))
      /\ Len(SubSeq(d.code, xt, n)) = IF xt <= n THEN n - xt + 1 ELSE 0
      /\ \A k \in 1 .. n - xt + 1 : SubSeq(d.code, xt, n)[k] = d.code[xt + k - 1]
  BY <1>5, <1>6, SubSeqProperties
<1>8. Body(d, i) = SubSeq(d.code, xt, n) BY DEF Body, xt, n
<1>9. xt <= n /\ n - xt + 1 = d.end[i] - xt
  BY <1>3, <1>4 DEF n
<1>10. Len(Body(d, i)) = d.end[i] - xt BY <1>7, <1>8, <1>9
<1>11. ASSUME NEW k \in 1 .. d.end[i] - xt PROVE Body(d, i)[k] = d.code[xt + (k - 1)]
  <2>1. xt + k - 1 = xt + (k - 1) BY <1>3
  <2> QED BY <1>7, <1>8, <1>9, <2>1
<1> QED BY <1>3, <1>4, <1>7, <1>8, <1>10, <1>11 DEF xt

LEMMA BodyType ==
  ASSUME NEW A, NEW lim, NEW d, Sound(d, A, lim), NEW i \in 1 .. d.context
  PROVE  Body(d, i) \in Seq(Cells(A)) /\ Len(Body(d, i)) \in Nat
         /\ DOMAIN Body(d, i) = 1 .. Len(Body(d, i))
<1>1. Body(d, i) \in Seq(Cells(A))
  <2>1. CASE HasBody(d, i) BY <2>1, BodyIs
  <2>2. CASE ~ HasBody(d, i) BY <2>2, EmptySeq DEF Body
  <2> QED BY <2>1, <2>2
<1> QED BY <1>1, LenProperties

\* A header and code that are left alone are the same definition.
LEMMA SameDef ==
  ASSUME NEW A, NEW lim, NEW d, Sound(d, A, lim), NEW m, NEW e, Sound(e, A, m),
         NEW i \in 1 .. d.context, i \in 1 .. e.context,
         e.headers[i] = d.headers[i], e.end[i] = d.end[i],
         HasBody(d, i) =>
           \A a \in d.headers[i].xt .. d.end[i] - 1 : e.code[a] = d.code[a]
  PROVE  DefOf(e, i) = DefOf(d, i)
<1>1. Body(e, i) = Body(d, i)
  <2>1. HasBody(e, i) <=> HasBody(d, i) BY DEF HasBody
  <2>2. CASE ~ HasBody(d, i) BY <2>1, <2>2 DEF Body
  <2>3. CASE HasBody(d, i)
    <3> DEFINE xt == d.headers[i].xt
    <3>1. /\ xt \in Nat /\ d.end[i] \in Nat
          /\ Body(d, i) \in Seq(Cells(A)) /\ Len(Body(d, i)) = d.end[i] - xt
          /\ \A k \in 1 .. d.end[i] - xt : Body(d, i)[k] = d.code[xt + (k - 1)]
      BY <2>3, BodyIs
    <3>2. /\ Body(e, i) \in Seq(Cells(A)) /\ Len(Body(e, i)) = d.end[i] - xt
          /\ \A k \in 1 .. d.end[i] - xt : Body(e, i)[k] = e.code[xt + (k - 1)]
      BY <2>1, <2>3, BodyIs
    <3>3. \A k \in 1 .. d.end[i] - xt : xt + (k - 1) \in xt .. d.end[i] - 1
      BY <3>1
    <3>4. \A k \in 1 .. d.end[i] - xt : Body(e, i)[k] = Body(d, i)[k]
      BY <2>3, <3>1, <3>2, <3>3
    <3> HIDE DEF xt
    <3> QED BY <3>1, <3>2, <3>4, SeqEqual
  <2> QED BY <2>2, <2>3
<1> QED BY <1>1 DEF DefOf

LEMMA SameReworked ==
  ASSUME NEW A, NEW lim, NEW d, Sound(d, A, lim), NEW i \in 1 .. d.context
  PROVE  Reworked(DefOf(d, i), DefOf(d, i))
BY BodyType DEF Reworked, DefOf

\* Nothing changes in any definition.
LEMMA AllSame ==
  ASSUME NEW A, NEW lim, NEW d, Sound(d, A, lim), NEW e, e.context = d.context,
         \A i \in 1 .. d.context : DefOf(e, i) = DefOf(d, i)
  PROVE  OnlyLatest(d, e)
BY SameReworked DEF OnlyLatest

\* First one change, then another of the latest definition.
LEMMA GrownMore ==
  ASSUME NEW A, NEW d, NEW lim, Sound(d, A, lim), NEW e, NEW m, Sound(e, A, m),
         NEW f, NEW n, Sound(f, A, n), Grown(d, e), OnlyLatest(e, f)
  PROVE  Grown(d, f)
<1>1. d.context \in Nat /\ e.context \in Nat BY Fields DEF Sound
<1>2. CASE Added(d, e)
  <2>1. \A i \in 1 .. d.context : i \in 1 .. e.context /\ i # e.context
    BY <1>1, <1>2 DEF Added
  <2> QED BY <1>2, <2>1 DEF Added, OnlyLatest, Grown
<1>3. CASE OnlyLatest(d, e)
  <2> SUFFICES ASSUME NEW i \in 1 .. d.context, i = d.context
               PROVE  Reworked(DefOf(d, i), DefOf(f, i))
    BY <1>3 DEF OnlyLatest, Grown
  <2>1. Reworked(DefOf(d, i), DefOf(e, i)) /\ Reworked(DefOf(e, i), DefOf(f, i))
    BY <1>3 DEF OnlyLatest
  <2>2. i \in 1 .. e.context /\ i \in 1 .. f.context BY <1>3 DEF OnlyLatest
  <2>3. /\ Len(Body(d, i)) \in Nat /\ DOMAIN Body(d, i) = 1 .. Len(Body(d, i))
        /\ Len(Body(e, i)) \in Nat /\ DOMAIN Body(e, i) = 1 .. Len(Body(e, i))
        /\ Len(Body(f, i)) \in Nat
    BY <2>2, BodyType
  <2>4. /\ DefOf(d, i).body = Body(d, i) /\ DefOf(e, i).body = Body(e, i)
        /\ DefOf(f, i).body = Body(f, i)
    BY DEF DefOf
  <2> QED BY <2>1, <2>3, <2>4 DEF Reworked
<1> QED BY <1>2, <1>3 DEF Grown

LEMMA EntryMoves ==
  ASSUME NEW A, NEW d, Good(d, A), d.headersPtr <= MaxHeaders, NEW n, NEW xt, NEW s,
         Good(Entry(d, n, xt, s), A)
  PROVE  Added(d, Entry(d, n, xt, s))
<1> DEFINE e == Entry(d, n, xt, s)
<1>1. d \in Memory(A) /\ Ordered(d) /\ d.context \in Nat
  BY Fields DEF Good, Sound
<1>2. /\ e.context = d.context + 1 /\ e.code = d.code
      /\ \A i \in 1 .. d.context : e.headers[i] = d.headers[i] /\ e.end[i] = d.end[i]
  BY <1>1, EntryIs
<1> HIDE DEF e
<1>3. Sound(d, A, d.dp) /\ Sound(e, A, e.dp) BY DEF Good, e
<1>4. ASSUME NEW i \in 1 .. d.context PROVE DefOf(e, i) = DefOf(d, i)
  <2>1. i \in 1 .. e.context BY <1>1, <1>2
  <2> QED BY <1>2, <1>3, <2>1, SameDef
<1> QED BY <1>2, <1>4 DEF Added, e

LEMMA CommaMoves ==
  ASSUME NEW A, NEW lim, NEW d, Sound(d, A, lim), NEW cells \in Seq(Cells(A)),
         d.dp + Len(cells) <= MaxCode, NEW m, Sound(Comma(d, cells), A, m)
  PROVE  OnlyLatest(d, Comma(d, cells))
<1> DEFINE e == Comma(d, cells)
<1>1. d \in Memory(A) /\ d.dp \in Nat BY Fields DEF Sound
<1>2. /\ e.headers = d.headers /\ e.end = d.end /\ e.context = d.context
      /\ \A a \in 1 .. d.dp - 1 : e.code[a] = d.code[a]
  <2> HIDE DEF e
  <2>1. e = Comma(d, cells) BY DEF e
  <2> QED BY <1>1, <2>1, CommaIs
<1> HIDE DEF e
<1>3. ASSUME NEW i \in 1 .. d.context PROVE DefOf(e, i) = DefOf(d, i)
  <2>1. ASSUME HasBody(d, i), NEW a \in d.headers[i].xt .. d.end[i] - 1
        PROVE  e.code[a] = d.code[a]
    <3>1. /\ d.headers[i].xt \in Nat \ {0} /\ d.end[i] \in Nat /\ d.end[i] <= d.dp
      BY <2>1, BodyIs
    <3>2. a \in 1 .. d.dp - 1 BY <1>1, <3>1
    <3> QED BY <1>2, <3>2
  <2>2. Sound(e, A, m) BY DEF e
  <2> QED BY <1>2, <2>1, <2>2, SameDef
<1> QED BY <1>2, <1>3, AllSame DEF e

\* A store behind the code of every definition.
LEMMA StoreMoves ==
  ASSUME NEW A, NEW d, Good(d, A), NEW a \in Nat, NEW c, Good(Store(d, a, c), A),
         \A i \in 1 .. d.context : d.end[i] <= a
  PROVE  OnlyLatest(d, Store(d, a, c))
<1> DEFINE e == Store(d, a, c)
<1>1. d \in Memory(A) /\ d.dp \in 1 .. MaxCode BY Fields DEF Good, Sound
<1>2. /\ e.headers = d.headers /\ e.end = d.end /\ e.context = d.context
      /\ \A b \in 1 .. MaxCode + 1 : e.code[b] = IF b = a THEN c ELSE d.code[b]
  BY <1>1, StoreIs
<1> HIDE DEF e
<1>3. Sound(d, A, d.dp) /\ Sound(e, A, e.dp) BY DEF Good, e
<1>4. ASSUME NEW i \in 1 .. d.context PROVE DefOf(e, i) = DefOf(d, i)
  <2>1. ASSUME HasBody(d, i), NEW b \in d.headers[i].xt .. d.end[i] - 1
        PROVE  e.code[b] = d.code[b]
    <3>1. /\ d.headers[i].xt \in Nat \ {0} /\ d.end[i] \in Nat /\ d.end[i] <= d.dp
      BY <1>3, <2>1, BodyIs
    <3>2. b \in 1 .. MaxCode + 1 /\ b # a BY <1>1, <3>1, DictionaryAssumption
    <3> QED BY <1>2, <3>2
  <2> QED BY <1>2, <1>3, <2>1, SameDef
<1> QED BY <1>2, <1>3, <1>4, AllSame DEF e

LEMMA FinishMoves ==
  ASSUME NEW A, Addresses \subseteq A, NEW lim, NEW d, Sound(d, A, lim),
         d.dp + 1 <= MaxCode, Good(FinishSecondary(d), A)
  PROVE  OnlyLatest(d, FinishSecondary(d))
<1> DEFINE e == FinishSecondary(d)  l == d.context
<1>1. d \in Memory(A) /\ d.dp \in Nat /\ l \in Nat BY Fields DEF Sound
<1>2. /\ e.context = l
      /\ \A a \in 1 .. d.dp - 1 : e.code[a] = d.code[a]
      /\ \A i \in 1 .. l : i # l => e.headers[i] = d.headers[i] /\ e.end[i] = d.end[i]
      /\ l # 0 => /\ e.headers[l] = [d.headers[l] EXCEPT !.smudge = FALSE]
                  /\ d.headers[l].xt # 0 => e.end[l] = e.dp
      /\ e.dp = d.dp + 1
  BY <1>1, FinishIs
<1> HIDE DEF e
<1>3. Sound(e, A, e.dp) BY DEF Good, e
<1>4. ASSUME NEW i \in 1 .. l, HasBody(d, i)
      PROVE  /\ d.headers[i].xt \in Nat \ {0} /\ d.end[i] \in Nat /\ d.end[i] <= d.dp
             /\ \A a \in d.headers[i].xt .. d.end[i] - 1 : e.code[a] = d.code[a]
  <2>1. /\ d.headers[i].xt \in Nat \ {0} /\ d.end[i] \in Nat /\ d.end[i] <= d.dp
    BY <1>4, BodyIs
  <2>2. \A a \in d.headers[i].xt .. d.end[i] - 1 : a \in 1 .. d.dp - 1 BY <1>1, <2>1
  <2> QED BY <1>2, <2>1, <2>2
<1>5. ASSUME NEW i \in 1 .. l, i # l PROVE DefOf(e, i) = DefOf(d, i)
  BY <1>2, <1>3, <1>4, <1>5, SameDef
<1>6. ASSUME NEW i \in 1 .. l, i = l PROVE Reworked(DefOf(d, i), DefOf(e, i))
  <2>1. l # 0 /\ d.headers[l] \in Headers /\ i \in 1 .. e.context
    <3>1. i \in 1 .. MaxHeaders BY <1>1, Fields, DictionaryAssumption
    <3> QED BY <1>1, <1>2, <1>6, <3>1, Fields
  <2>2. /\ e.headers[l].name = d.headers[l].name /\ e.headers[l].xt = d.headers[l].xt
        /\ e.headers[l].smudge = FALSE
    BY <1>2, <2>1 DEF Headers
  <2>3. Len(Body(e, l)) \in Nat BY <1>2, <1>3, <1>6, BodyType
  <2>4. CASE ~ HasBody(d, l)
    <3>1. Body(d, l) = <<>> /\ DOMAIN Body(d, l) = {} /\ Len(Body(d, l)) = 0
      BY <2>4 DEF Body
    <3>2. /\ DefOf(d, l).body = <<>> /\ DefOf(e, l).body = Body(e, l)
          /\ DefOf(e, l).name = DefOf(d, l).name /\ DefOf(e, l).visible = TRUE
      BY <2>2, <3>1 DEF DefOf
    <3>3. Len(Body(e, l)) >= 0 BY <2>3
    <3> QED BY <1>6, <3>1, <3>2, <3>3 DEF Reworked
  <2>5. CASE HasBody(d, l)
    <3> DEFINE xt == d.headers[l].xt
    <3>1. HasBody(e, l) BY <2>2, <2>5 DEF HasBody
    <3>2. /\ xt \in Nat \ {0} /\ d.end[l] \in Nat /\ xt < d.end[l] /\ d.end[l] <= d.dp
          /\ Len(Body(d, l)) = d.end[l] - xt
          /\ \A k \in 1 .. d.end[l] - xt : Body(d, l)[k] = d.code[xt + (k - 1)]
      BY <1>6, <2>5, BodyIs, SMTT(30)
    <3>3. /\ Len(Body(e, l)) = e.end[l] - xt
          /\ \A k \in 1 .. e.end[l] - xt : Body(e, l)[k] = e.code[xt + (k - 1)]
      BY <1>2, <1>3, <1>6, <2>2, <3>1, BodyIs
    <3>4. e.end[l] = d.dp + 1 BY <1>2, <2>1, <2>5 DEF HasBody
    <3>5. DOMAIN Body(d, l) = 1 .. d.end[l] - xt BY <1>6, <3>2, BodyType
    <3> HIDE DEF xt
    <3>6. Len(Body(e, l)) >= Len(Body(d, l)) BY <1>1, <3>2, <3>3, <3>4
    <3>7. ASSUME NEW k \in 1 .. d.end[l] - xt PROVE Body(e, l)[k] = Body(d, l)[k]
      <4>1. k \in 1 .. e.end[l] - xt /\ xt + (k - 1) \in xt .. d.end[l] - 1
        BY <1>1, <3>2, <3>4, SMTT(30)
      <4> QED BY <1>4, <1>6, <2>5, <3>2, <3>3, <4>1 DEF xt
    <3> QED BY <1>6, <2>2, <3>5, <3>6, <3>7 DEF Reworked, DefOf
  <2> QED BY <2>4, <2>5
<1> QED BY <1>2, <1>5, <1>6 DEF OnlyLatest, e

\* (DOES>): the second cell of the latest definition, and no other definition.
LEMMA SetDoesMoves ==
  ASSUME NEW A, NEW d, Good(d, A), NEW c, Good(SetDoes(d, c), A)
  PROVE  OnlyLatest(d, SetDoes(d, c))
<1> DEFINE e == SetDoes(d, c)  l == d.context  xt == d.headers[l].xt
<1>1. /\ d \in Memory(A) /\ Ordered(d) /\ l \in 0 .. MaxHeaders
      /\ Sound(d, A, d.dp) /\ Sound(e, A, e.dp)
  BY Fields DEF Good, Sound
<1>2. CASE Xt(d, l) = 0
  <2>1. e = d BY <1>2 DEF SetDoes
  <2> QED BY <1>1, <2>1, AllSame
<1>3. CASE Xt(d, l) # 0
  <2>1. l \in 1 .. MaxHeaders /\ xt # 0 /\ Xt(d, l) = xt
    BY <1>1, <1>3, DictionaryAssumption DEF Xt
  <2>2. xt \in Nat /\ d.dp \in 1 .. MaxCode BY <1>1, <2>1, Fields
  <2>3. e = Store(d, xt + 1, c) BY <1>3, <2>1 DEF SetDoes
  <2> HIDE DEF e, xt
  <2>4. /\ e.headers = d.headers /\ e.end = d.end /\ e.context = l
        /\ \A b \in 1 .. MaxCode + 1 : e.code[b] = IF b = xt + 1 THEN c ELSE d.code[b]
    BY <1>1, <2>3, StoreIs
  <2>5. ASSUME NEW i \in 1 .. l, i # l PROVE DefOf(e, i) = DefOf(d, i)
    <3>1. ASSUME HasBody(d, i), NEW b \in d.headers[i].xt .. d.end[i] - 1
          PROVE  e.code[b] = d.code[b]
      <4>1. /\ d.headers[i].xt \in Nat \ {0} /\ d.end[i] \in Nat /\ d.end[i] <= d.dp
        BY <1>1, <3>1, BodyIs
      <4>2. i < l /\ l \in 1 .. l BY <2>1, <2>5, DictionaryAssumption
      <4>3. d.end[i] <= xt BY <1>1, <2>1, <4>2 DEF Ordered, xt
      <4>4. b \in 1 .. MaxCode + 1 /\ b # xt + 1
        BY <2>2, <4>1, <4>3, DictionaryAssumption
      <4> QED BY <2>4, <4>4
    <3> QED BY <1>1, <2>4, <3>1, SameDef
  <2>6. ASSUME NEW i \in 1 .. l, i = l PROVE Reworked(DefOf(d, i), DefOf(e, i))
    <3>1. CASE ~ HasBody(d, l)
      <4>1. Body(d, l) = <<>> /\ Body(e, l) = <<>> BY <2>4, <3>1 DEF Body, HasBody
      <4> QED BY <2>4, <2>6, <4>1 DEF Reworked, DefOf
    <3>2. CASE HasBody(d, l)
      <4>1. HasBody(e, l) /\ e.headers[l].xt = xt BY <2>4, <3>2 DEF HasBody, xt
      <4>2. /\ d.end[l] \in Nat /\ xt < d.end[l] /\ d.end[l] <= d.dp
            /\ Len(Body(d, l)) = d.end[l] - xt
            /\ \A k \in 1 .. d.end[l] - xt : Body(d, l)[k] = d.code[xt + (k - 1)]
        <5>1. l \in 1 .. d.context /\ Sound(d, A, d.dp) BY <1>1, <2>6
        <5> HIDE DEF l
        <5>2. /\ d.end[l] \in Nat /\ d.headers[l].xt < d.end[l] /\ d.end[l] <= d.dp
              /\ Len(Body(d, l)) = d.end[l] - d.headers[l].xt
              /\ \A k \in 1 .. d.end[l] - d.headers[l].xt :
                   Body(d, l)[k] = d.code[d.headers[l].xt + (k - 1)]
          BY <3>2, <5>1, BodyIs
        <5> QED BY <5>2 DEF xt
      <4>3. /\ Len(Body(e, l)) = d.end[l] - xt
            /\ \A k \in 1 .. d.end[l] - xt : Body(e, l)[k] = e.code[xt + (k - 1)]
        <5>1. l \in 1 .. e.context /\ Sound(e, A, e.dp) /\ HasBody(e, l)
          BY <1>1, <2>4, <2>6, <4>1
        <5> HIDE DEF l
        <5>2. /\ Len(Body(e, l)) = e.end[l] - e.headers[l].xt
              /\ \A k \in 1 .. e.end[l] - e.headers[l].xt :
                   Body(e, l)[k] = e.code[e.headers[l].xt + (k - 1)]
          BY <5>1, BodyIs, SMTT(30)
        <5>3. e.end[l] = d.end[l] BY <2>4
        <5> QED BY <4>1, <5>2, <5>3
      <4>4. DOMAIN Body(d, l) = 1 .. d.end[l] - xt BY <1>1, <2>6, <4>2, BodyType
      <4>5. ASSUME NEW k \in 1 .. d.end[l] - xt, k # 2
            PROVE  Body(e, l)[k] = Body(d, l)[k]
        <5>1. xt + (k - 1) \in 1 .. MaxCode + 1 /\ xt + (k - 1) # xt + 1
          BY <2>1, <2>2, <4>2, <4>5, DictionaryAssumption, SMTT(30)
        <5> QED BY <2>4, <4>2, <4>3, <5>1
      <4>6. Len(Body(e, l)) >= Len(Body(d, l)) BY <2>2, <4>2, <4>3
      <4> QED BY <2>4, <2>6, <4>4, <4>5, <4>6 DEF Reworked, DefOf
    <3> QED BY <3>1, <3>2
  <2> QED BY <2>4, <2>5, <2>6 DEF OnlyLatest, e
<1> QED BY <1>2, <1>3

\* One cell, and two cells.
LEMMA CommaMovesOne ==
  ASSUME NEW A, NEW lim, NEW d, Sound(d, A, lim), NEW c \in Cells(A),
         d.dp + 1 <= MaxCode, NEW m, Sound(Comma(d, <<c>>), A, m)
  PROVE  OnlyLatest(d, Comma(d, <<c>>))
<1> DEFINE q == <<c>>
<1>1. q \in Seq(Cells(A)) /\ Len(q) = 1 OBVIOUS
<1>2. Sound(Comma(d, q), A, m) OBVIOUS
<1> HIDE DEF q
<1>3. d.dp + Len(q) <= MaxCode BY <1>1
<1>4. OnlyLatest(d, Comma(d, q)) BY <1>1, <1>2, <1>3, CommaMoves
<1> QED BY <1>4 DEF q

LEMMA CommaMovesTwo ==
  ASSUME NEW A, NEW lim, NEW d, Sound(d, A, lim), NEW c1 \in Cells(A),
         NEW c2 \in Cells(A), d.dp + 2 <= MaxCode,
         NEW m, Sound(Comma(d, <<c1, c2>>), A, m)
  PROVE  OnlyLatest(d, Comma(d, <<c1, c2>>))
<1> DEFINE q == <<c1, c2>>
<1>1. q \in Seq(Cells(A)) /\ Len(q) = 2 OBVIOUS
<1>2. Sound(Comma(d, q), A, m) OBVIOUS
<1> HIDE DEF q
<1>3. d.dp + Len(q) <= MaxCode BY <1>1
<1>4. OnlyLatest(d, Comma(d, q)) BY <1>1, <1>2, <1>3, CommaMoves
<1> QED BY <1>4 DEF q

\* IS: the second cell of a deferred word is its vector, and in no other word.
LEMMA VectorMoves ==
  ASSUME NEW A, NEW d, Good(d, A), NEW i \in 1 .. d.context, HasBody(d, i),
         d.code[d.headers[i].xt].op = "defer", NEW c,
         Good(Store(d, d.headers[i].xt + 1, c), A)
  PROVE  Vectored(d, Store(d, d.headers[i].xt + 1, c))
<1> DEFINE xt == d.headers[i].xt  e == Store(d, xt + 1, c)
<1>1. /\ d \in Memory(A) /\ Ordered(d) /\ Finished(d)
      /\ Sound(d, A, d.dp) /\ Sound(e, A, e.dp)
  BY DEF Good, Sound
<1>2. d.dp \in 1 .. MaxCode /\ d.context \in Nat BY <1>1, Fields
<1>3. /\ xt \in Nat \ {0} /\ d.end[i] \in Nat /\ d.end[i] <= d.dp
      /\ Len(Body(d, i)) = d.end[i] - xt
      /\ \A k \in 1 .. d.end[i] - xt : Body(d, i)[k] = d.code[xt + (k - 1)]
  BY <1>1, BodyIs
<1>4. xt + 1 < d.end[i] BY <1>1 DEF Finished
<1>5. /\ e.headers = d.headers /\ e.end = d.end /\ e.context = d.context
      /\ \A b \in 1 .. MaxCode + 1 : e.code[b] = IF b = xt + 1 THEN c ELSE d.code[b]
  <2> HIDE DEF e, xt
  <2>1. e = Store(d, xt + 1, c) BY DEF e
  <2> QED BY <1>1, <2>1, StoreIs
<1> HIDE DEF e, xt
<1>6. ASSUME NEW j \in 1 .. d.context, j # i PROVE DefOf(e, j) = DefOf(d, j)
  <2>1. ASSUME HasBody(d, j), NEW b \in d.headers[j].xt .. d.end[j] - 1
        PROVE  e.code[b] = d.code[b]
    <3>1. /\ d.headers[j].xt \in Nat \ {0} /\ d.end[j] \in Nat /\ d.end[j] <= d.dp
      BY <1>1, <2>1, BodyIs
    <3>2. CASE j < i
      <4>1. d.end[j] <= xt BY <1>1, <1>3, <3>2 DEF Ordered, xt
      <4>2. b \in 1 .. MaxCode + 1 /\ b # xt + 1
        BY <1>2, <1>3, <3>1, <4>1, DictionaryAssumption, SMTT(30)
      <4> QED BY <1>5, <4>2
    <3>3. CASE i < j
      <4>1. d.end[i] <= d.headers[j].xt BY <1>1, <3>1, <3>3 DEF Ordered
      <4>2. b \in 1 .. MaxCode + 1 /\ b # xt + 1
        BY <1>2, <1>3, <1>4, <3>1, <4>1, DictionaryAssumption, SMTT(30)
      <4> QED BY <1>5, <4>2
    <3>4. i < j \/ j < i BY <1>2, <1>6
    <3> QED BY <3>2, <3>3, <3>4
  <2> QED BY <1>1, <1>5, <2>1, SameDef
<1>7. DOMAIN Body(d, i) = 1 .. d.end[i] - xt BY <1>1, <1>3, BodyType
<1>8. /\ Len(Body(e, i)) = d.end[i] - xt
      /\ \A k \in 1 .. d.end[i] - xt : Body(e, i)[k] = e.code[xt + (k - 1)]
  <2>1. HasBody(e, i) /\ i \in 1 .. e.context /\ e.end[i] = d.end[i]
        /\ e.headers[i].xt = xt
    BY <1>5 DEF HasBody, xt
  <2>2. /\ Len(Body(e, i)) = e.end[i] - e.headers[i].xt
        /\ \A k \in 1 .. e.end[i] - e.headers[i].xt :
             Body(e, i)[k] = e.code[e.headers[i].xt + (k - 1)]
    BY <1>1, <2>1, BodyIs
  <2> QED BY <2>1, <2>2
<1>9. ASSUME NEW k \in 1 .. d.end[i] - xt, k # 2 PROVE Body(e, i)[k] = Body(d, i)[k]
  <2>1. xt + (k - 1) \in 1 .. MaxCode + 1 /\ xt + (k - 1) # xt + 1
    BY <1>2, <1>3, <1>9, DictionaryAssumption
  <2> QED BY <1>3, <1>5, <1>8, <2>1
<1>10. Body(d, i) # <<>> /\ Body(d, i)[1].op = "defer"
  <2>1. Body(d, i) # <<>>
    <3>1. Len(Body(d, i)) # 0 BY <1>3, <1>4
    <3>2. Len(<<>>) = 0 OBVIOUS
    <3> QED BY <3>1, <3>2
  <2>2. 1 \in 1 .. d.end[i] - xt /\ xt + (1 - 1) = xt BY <1>3, <1>4
  <2> QED BY <1>3, <2>1, <2>2 DEF xt
<1>11. DefOf(e, i) = [DefOf(d, i) EXCEPT !.body = Body(e, i)]
  BY <1>5 DEF DefOf
<1> QED BY <1>3, <1>5, <1>6, <1>7, <1>8, <1>9, <1>10, <1>11 DEF Vectored, e, xt

\* FORGET.NFA drops the latest definitions.
LEMMA ForgetMoves ==
  ASSUME NEW A, NEW d, Good(d, A), NEW i \in 1 .. d.context, Good(ForgetNFA(d, i), A)
  PROVE  Cut(d, ForgetNFA(d, i))
<1> DEFINE e == ForgetNFA(d, i)
<1>1. /\ d \in Memory(A) /\ Ordered(d) /\ d.context \in Nat
      /\ Sound(d, A, d.dp) /\ Sound(e, A, e.dp)
  BY Fields DEF Good, Sound
<1>2. /\ e.headers = d.headers /\ e.end = d.end /\ e.code = d.code
      /\ e.context = d.headers[i].prev
  BY <1>1, ForgetIs
<1>3. e.context = i - 1 BY <1>1, <1>2 DEF Ordered
<1> HIDE DEF e
<1>4. ASSUME NEW j \in 1 .. e.context PROVE DefOf(e, j) = DefOf(d, j)
  BY <1>2, <1>4 DEF DefOf, Body, HasBody
<1> QED BY <1>1, <1>3, <1>4 DEF Cut, e

----------------------------------------------------------------------------
(* The words made of these functions. *)

\* The cells these words lay down.
LEMMA CellFacts ==
  ASSUME NEW A, Addresses \subseteq A, NEW op \in Ops, NEW x \in A
  PROVE  /\ Cell(op, x) \in Cells(A) /\ Cell(op, x).op = op /\ Cell(op, x).arg = x
         /\ IsCall(Cell(op, x)) <=> op \in {"call", "setdoes"}
         /\ Plain(op) \in Cells(A) /\ Plain(op).op = op /\ Plain(op).arg = 0
         /\ IsCall(Plain(op)) <=> op \in {"call", "setdoes"}
BY DictionaryAssumption DEF Cell, Plain, Cells, IsCall, Addresses

\* ffStringCreate and ffStringDefer: a header if there is room, and three cells.
LEMMA WordGood ==
  ASSUME NEW A, Addresses \subseteq A, NEW d, Good(d, A),
         d.headersPtr <= MaxHeaders, d.dp + 3 <= MaxCode, NEW n \in Names,
         NEW op1 \in {"create", "defer"}, NEW op2 \in {"exit", "vector"}
  PROVE  LET w == FinishSecondary(Comma(SecondaryHeader(d, n), <<Plain(op1), Plain(op2)>>))
         IN Good(w, A) /\ w.dp = d.dp + 3 /\ Grown(d, w)
<1> DEFINE s == SecondaryHeader(d, n)  e == Comma(s, <<Plain(op1), Plain(op2)>>)
<1>1. d \in Memory(A) /\ d.dp \in Nat BY Fields DEF Good, Sound
<1>2. Good(s, A) /\ s.dp = d.dp /\ Grown(d, s)
  <2>1. CASE Room(d)
    <3>1. d.dp # 0 BY <1>1, Fields
    <3>2. s = Entry(d, n, d.dp, TRUE) BY <2>1 DEF SecondaryHeader
    <3>3. Good(Entry(d, n, d.dp, TRUE), A) /\ Entry(d, n, d.dp, TRUE).dp = d.dp
      BY <3>1, EntryGood
    <3>4. Added(d, Entry(d, n, d.dp, TRUE)) BY <3>3, EntryMoves
    <3> QED BY <3>2, <3>3, <3>4 DEF Grown
  <2>2. CASE ~ Room(d) BY <2>2, AllSame DEF SecondaryHeader, Good, Grown
  <2> QED BY <2>1, <2>2
<1> HIDE DEF s
<1>3. Sound(e, A, s.dp) /\ e.dp = s.dp + 2 /\ OnlyLatest(s, e)
  <2>1. op1 \in Ops /\ op2 \in Ops /\ 0 \in A
    BY DictionaryAssumption DEF Ops, Addresses
  <2>2. /\ Plain(op1) \in Cells(A) /\ ~ IsCall(Plain(op1)) /\ Plain(op1).op # "nfa"
        /\ Plain(op2) \in Cells(A) /\ ~ IsCall(Plain(op2)) /\ Plain(op2).op # "nfa"
    BY <2>1, CellFacts
  <2>3. Sound(s, A, s.dp) /\ s.dp \in Nat /\ s.dp + 2 <= MaxCode
    BY <1>1, <1>2, DictionaryAssumption DEF Good
  <2>4. Sound(e, A, s.dp) /\ e.dp = s.dp + 2 BY <2>2, <2>3, CommaTwo
  <2>5. OnlyLatest(s, e) BY <2>2, <2>3, <2>4, CommaMovesTwo
  <2> QED BY <2>4, <2>5
<1> HIDE DEF e
<1>4. s.dp \in Nat /\ s.dp <= e.dp + 1 /\ e.dp + 1 <= MaxCode /\ e.dp + 1 = d.dp + 3
  BY <1>1, <1>2, <1>3, DictionaryAssumption
<1>5. Good(FinishSecondary(e), A) /\ FinishSecondary(e).dp = e.dp + 1
  BY <1>3, <1>4, FinishGood
<1>6. OnlyLatest(e, FinishSecondary(e)) BY <1>3, <1>4, <1>5, FinishMoves
<1>7. Grown(d, e) BY <1>2, <1>3, GrownMore DEF Good
<1>8. Grown(d, FinishSecondary(e)) BY <1>3, <1>5, <1>6, <1>7, GrownMore DEF Good
<1> QED BY <1>4, <1>5, <1>8 DEF e, s

LEMMA CreateGood ==
  ASSUME NEW A, Addresses \subseteq A, NEW d, Good(d, A),
         d.headersPtr <= MaxHeaders, d.dp + 3 <= MaxCode, NEW n \in Names \cup {Empty}
  PROVE  /\ Good(CreateWord(d, n), A)
         /\ CreateWord(d, n).dp \in Nat /\ CreateWord(d, n).dp \in d.dp .. d.dp + 3
         /\ Grown(d, CreateWord(d, n))
<1>1. d.dp \in Nat BY Fields DEF Good, Sound
<1>2. CASE n = Empty
  <2>1. OnlyLatest(d, d) BY AllSame DEF Good
  <2> QED BY <1>1, <1>2, <2>1 DEF CreateWord, Grown
<1>3. CASE n # Empty
  <2> DEFINE w == FinishSecondary(Comma(SecondaryHeader(d, n),
                                        <<Plain("create"), Plain("exit")>>))
  <2>1. CreateWord(d, n) = w BY <1>3 DEF CreateWord, Exit
  <2>2. n \in Names BY <1>3
  <2>3. Good(w, A) /\ w.dp = d.dp + 3 /\ Grown(d, w) BY <2>2, WordGood
  <2> HIDE DEF w
  <2> QED BY <1>1, <2>1, <2>3
<1> QED BY <1>2, <1>3

\* VERIFY.FORGET above RFENCE.
LEMMA VerifyForgetGood ==
  ASSUME NEW A, Good(dic, A), rfence \in Nat \ {0}, NEW i \in 1 .. dic.context
  PROVE  /\ Good(VerifyForget(dic, i), A)
         /\ VerifyForget(dic, i) = dic \/ Cut(dic, VerifyForget(dic, i))
<1>1. i \in 1 .. MaxHeaders /\ dic.headers[i].xt \in Nat
  BY Fields, DictionaryAssumption DEF Good, Sound
<1>2. CASE dic.headers[i].xt < rfence BY <1>2 DEF VerifyForget
<1>3. CASE ~ (dic.headers[i].xt < rfence)
  <2>1. dic.headers[i].xt # 0 BY <1>1, <1>3
  <2> QED BY <1>3, <2>1, ForgetGood, ForgetMoves DEF VerifyForget
<1> QED BY <1>2, <1>3

----------------------------------------------------------------------------
(* What ffFindNFA finds. *)

\* A set of numbers with an upper bound has a greatest one.
LEMMA Greatest ==
  ASSUME NEW n \in Nat, NEW S \in SUBSET (0 .. n), S # {}
  PROVE  \E i \in S : \A j \in S : j <= i
<1> DEFINE T == {n - i : i \in S}  R == {ss \in Nat \X Nat : ss[1] < ss[2]}
<1>1. \A i \in S : i \in Nat /\ n - i \in Nat BY SMT
<1>2. T \subseteq Nat /\ T # {} BY <1>1
<1>3. R = OpToRel(<, Nat) BY DEF OpToRel
<1>4. IsWellFoundedOn(R, Nat) BY <1>3, NatLessThanWellFounded
<1>5. PICK x \in T : \A y \in T : ~ (<<y, x>> \in R)
  <2> HIDE DEF T, R
  <2> QED BY <1>2, <1>4, WFMin
<1>6. \A y \in T : x <= y
  <2> TAKE y \in T
  <2>1. x \in Nat /\ y \in Nat BY <1>2
  <2>2. ~ (y < x) BY <1>5, <2>1
  <2> QED BY <2>1, <2>2
<1>7. PICK i \in S : x = n - i OBVIOUS
<1>8. ASSUME NEW j \in S PROVE j <= i
  <2>1. n - i <= n - j BY <1>6, <1>7
  <2>2. i \in Nat /\ j \in Nat BY <1>1
  <2> HIDE DEF T, R
  <2> QED BY <2>1, <2>2, SMT
<1> QED BY <1>8

\* ffFindNFA: the latest visible header of that name on the chain, or none.
LEMMA FindLatest ==
  ASSUME NEW A, NEW d, Good(d, A), NEW n, FindNFA(d, n) # 0
  PROVE  /\ FindNFA(d, n) \in 1 .. d.context /\ Visible(d, FindNFA(d, n), n)
         /\ \A j \in FindNFA(d, n) + 1 .. d.context : ~ Visible(d, j, n)
         /\ Xt(d, FindNFA(d, n)) \in Nat /\ Xt(d, FindNFA(d, n)) <= d.dp
         /\ Xt(d, FindNFA(d, n)) \in Addresses
         /\ n \in Names => HasBody(d, FindNFA(d, n))
<1> DEFINE hits == {i \in 1 .. d.context : Visible(d, i, n)}
<1>1. d \in Memory(A) /\ Ordered(d) /\ d.context \in Nat
      /\ d.context \in 0 .. MaxHeaders
  BY Fields DEF Good, Sound
<1>2. /\ hits # {}
      /\ FindNFA(d, n) = CHOOSE i \in hits : \A j \in hits : j <= i
  BY DEF FindNFA
<1>3. hits \in SUBSET (0 .. d.context) BY <1>1
<1>4. \E i \in hits : \A j \in hits : j <= i
  <2> HIDE DEF hits
  <2> QED BY <1>1, <1>2, <1>3, Greatest
<1>5. FindNFA(d, n) \in hits /\ \A j \in hits : j <= FindNFA(d, n)
  <2> HIDE DEF hits
  <2> QED BY <1>2, <1>4
<1>6. FindNFA(d, n) \in 1 .. d.context /\ FindNFA(d, n) \in 1 .. MaxHeaders
  BY <1>1, <1>5, DictionaryAssumption
<1>7. \A j \in FindNFA(d, n) + 1 .. d.context : ~ Visible(d, j, n)
  BY <1>1, <1>5, <1>6
<1>8. Xt(d, FindNFA(d, n)) = d.headers[FindNFA(d, n)].xt BY DEF Xt
<1>9. /\ d.headers[FindNFA(d, n)].xt \in Addresses
      /\ d.headers[FindNFA(d, n)].xt \in Nat
      /\ d.headers[FindNFA(d, n)].xt <= d.dp
  BY <1>1, <1>6, Fields DEF Ordered, Addresses
<1>10. n \in Names => HasBody(d, FindNFA(d, n))
  BY <1>5, <1>6, DictionaryAssumption DEF Good, Sound, Finished, Visible, HasBody
<1> QED BY <1>5, <1>6, <1>7, <1>8, <1>9, <1>10

----------------------------------------------------------------------------
(* Walks along links: what the recursive functions of Dictionary compute.    *)

\* Numbers that contain 0 and with each its successor are all there are.
LEMMA UpTo ==
  ASSUME NEW m \in Nat, NEW S, 0 \in S, \A k \in 1 .. m : k - 1 \in S => k \in S
  PROVE  0 .. m \subseteq S
<1> DEFINE T == {k \in 0 .. m : k \notin S}  R == {m - k : k \in T}
<1>1. ASSUME T # {} PROVE FALSE
  <2>1. R \in SUBSET (0 .. m) /\ R # {} BY <1>1, SMT
  <2>2. PICK y \in R : \A z \in R : z <= y
    <3> HIDE DEF T, R
    <3> QED BY <2>1, Greatest
  <2>3. PICK k \in T : y = m - k OBVIOUS
  <2>4. k \in 1 .. m /\ k - 1 \in 0 .. m /\ k - 1 \notin T
    <3>1. k \in 0 .. m /\ k # 0 /\ k \in Nat BY <2>3
    <3>2. k \in 1 .. m /\ k - 1 \in 0 .. m BY <3>1
    <3>3. ASSUME k - 1 \in T PROVE FALSE
      <4>1. m - (k - 1) \in R BY <3>3
      <4>2. m - (k - 1) <= m - k BY <2>2, <2>3, <4>1
      <4> HIDE DEF T, R
      <4> QED BY <3>1, <4>2
    <3> QED BY <3>2, <3>3
  <2> QED BY <2>3, <2>4
<1> QED BY <1>1

\* A walk of m steps exists.
IsWalk(f, m, S, x, step) ==
  f \in [0 .. m -> S] /\ f[0] = x /\ \A k \in 1 .. m : f[k] = step[f[k - 1]]

LEMMA WalkExists ==
  ASSUME NEW m \in Nat, NEW S, NEW x \in S, NEW step \in [S -> S]
  PROVE  \E f : IsWalk(f, m, S, x, step)
<1> DEFINE Walks(n) == {f \in [0 .. m -> S] :
                          f[0] = x /\ \A k \in 1 .. n : f[k] = step[f[k - 1]]}
           G == {n \in 0 .. m : Walks(n) # {}}
<1>1. 0 \in G
  <2> DEFINE f == [k \in 0 .. m |-> x]
  <2>1. f \in Walks(0) OBVIOUS
  <2> QED BY <2>1
<1>2. ASSUME NEW n \in 1 .. m, n - 1 \in G PROVE n \in G
  <2>1. PICK f \in Walks(n - 1) : TRUE BY <1>2
  <2> DEFINE g == [f EXCEPT ![n] = step[f[n - 1]]]
  <2>2. n - 1 \in 0 .. m /\ n \in 0 .. m OBVIOUS
  <2>3. f \in [0 .. m -> S] /\ f[n - 1] \in S BY <2>1, <2>2
  <2>4. step[f[n - 1]] \in S BY <2>3
  <2>5. g \in [0 .. m -> S] /\ g[0] = x /\ g[n] = step[f[n - 1]] /\ g[n - 1] = f[n - 1]
    BY <2>1, <2>2, <2>3, <2>4
  <2>6. ASSUME NEW k \in 1 .. n, k # n PROVE g[k] = step[g[k - 1]]
    <3>1. k \in 1 .. n - 1 /\ k \in 0 .. m /\ k - 1 \in 0 .. m /\ k - 1 # n BY <2>6
    <3>2. g[k] = f[k] /\ g[k - 1] = f[k - 1] BY <2>3, <2>6, <3>1
    <3>3. f[k] = step[f[k - 1]] BY <2>1, <3>1
    <3> QED BY <3>2, <3>3
  <2> HIDE DEF g
  <2>7. g \in Walks(n) BY <2>5, <2>6
  <2> QED BY <2>2, <2>7
<1>3. 0 .. m \subseteq G
  <2> HIDE DEF G
  <2> QED BY <1>1, <1>2, UpTo
<1>4. PICK f \in Walks(m) : TRUE BY <1>3
<1> QED BY <1>4 DEF IsWalk

\* A function that starts at x and steps as step does is that walk.
LEMMA WalkTyped ==
  ASSUME NEW m \in Nat, NEW S, NEW f, f[0] \in S,
         \A k \in 1 .. m : f[k - 1] \in S => f[k] \in S
  PROVE  \A k \in 0 .. m : f[k] \in S
<1> DEFINE G == {k \in 0 .. m : f[k] \in S}
<1>1. 0 \in G OBVIOUS
<1>2. \A k \in 1 .. m : k - 1 \in G => k \in G OBVIOUS
<1> HIDE DEF G
<1>3. 0 .. m \subseteq G BY <1>1, <1>2, UpTo
<1> QED BY <1>3 DEF G

\* FrameLeft from any address: a walk that stops at or below HERE.
Above(d) == [a \in Addresses |-> IF a > d.dp THEN d.code[a].arg ELSE a]
LeftOf(d, x) ==
  LET f[k \in 0 .. MaxCode] ==
        IF k = 0 THEN x
        ELSE LET a == f[k - 1] IN IF a > d.dp THEN d.code[a].arg ELSE a
  IN f[MaxCode]

LEMMA LeftIs ==
  ASSUME NEW d \in Memory(Addresses), NEW x \in Addresses
  PROVE  \E f \in [0 .. MaxCode -> Addresses] :
           /\ f[0] = x /\ f[MaxCode] = LeftOf(d, x)
           /\ \A k \in 1 .. MaxCode : f[k] = Above(d)[f[k - 1]]
<1> DEFINE Eq(f) == f = [k \in 0 .. MaxCode |->
             IF k = 0 THEN x
             ELSE LET a == f[k - 1] IN IF a > d.dp THEN d.code[a].arg ELSE a]
           h == CHOOSE f : Eq(f)
<1>1. Above(d) \in [Addresses -> Addresses]
  <2>1. \A a \in Addresses : a > d.dp => a \in 1 .. MaxCode + 1
    BY Fields, DictionaryAssumption DEF Addresses
  <2>2. \A a \in 1 .. MaxCode + 1 : d.code[a].arg \in Addresses BY Fields, ZenonT(60) DEF Cells
  <2> QED BY <2>1, <2>2 DEF Above
<1>2. PICK f \in [0 .. MaxCode -> Addresses] :
         f[0] = x /\ \A k \in 1 .. MaxCode : f[k] = Above(d)[f[k - 1]]
  <2>1. \E f : IsWalk(f, MaxCode, Addresses, x, Above(d))
    BY <1>1, WalkExists, DictionaryAssumption
  <2> QED BY <2>1 DEF IsWalk
<1>3. Eq(f)
  <2>1. ASSUME NEW k \in 0 .. MaxCode, k # 0
        PROVE  f[k] = LET a == f[k - 1] IN IF a > d.dp THEN d.code[a].arg ELSE a
    <3>1. k \in 1 .. MaxCode /\ k - 1 \in 0 .. MaxCode
      BY <2>1, DictionaryAssumption
    <3>2. f[k - 1] \in Addresses BY <1>2, <3>1
    <3> QED BY <1>2, <3>1, <3>2 DEF Above
  <2> QED BY <1>2, <2>1
<1>4. Eq(h) BY <1>3
<1>5. 0 \in 0 .. MaxCode BY DictionaryAssumption
<1>6. h[0] = x BY <1>4, <1>5
<1>7. ASSUME NEW k \in 1 .. MaxCode, h[k - 1] \in Addresses
      PROVE  h[k] = Above(d)[h[k - 1]]
  <2>1. k \in 0 .. MaxCode /\ k # 0 BY DictionaryAssumption
  <2>2. h[k] = LET a == h[k - 1] IN IF a > d.dp THEN d.code[a].arg ELSE a
    BY <1>4, <2>1
  <2> HIDE DEF h, Eq
  <2>3. h[k] = IF h[k - 1] > d.dp THEN d.code[h[k - 1]].arg ELSE h[k - 1] BY <2>2
  <2>4. \A a \in Addresses : Above(d)[a] = IF a > d.dp THEN d.code[a].arg ELSE a
    BY DEF Above
  <2> QED BY <1>7, <2>3, <2>4
<1>8. LeftOf(d, x) = h[MaxCode] BY DEF LeftOf
<1>9. DOMAIN h = 0 .. MaxCode /\ h = [k \in 0 .. MaxCode |-> h[k]]
  BY <1>4
<1> HIDE DEF h, Eq
<1>10. \A k \in 0 .. MaxCode : h[k] \in Addresses
  BY <1>1, <1>6, <1>7, WalkTyped, DictionaryAssumption, ZenonT(60)
<1>11. h \in [0 .. MaxCode -> Addresses] BY <1>9, <1>10
<1>12. \A k \in 1 .. MaxCode : h[k] = Above(d)[h[k - 1]]
  <2> TAKE k \in 1 .. MaxCode
  <2>1. k - 1 \in 0 .. MaxCode BY DictionaryAssumption
  <2> QED BY <1>7, <1>10, <2>1
<1> QED BY <1>6, <1>8, <1>11, <1>12

----------------------------------------------------------------------------
(* The invariant. *)

\* What a step may do to the definitions.
Moved(d, e) == e = d \/ Grown(d, e) \/ Vectored(d, e) \/ Cut(d, e)

\* The code being compiled is above every finished definition.
Compiling ==
  state = 1 => /\ start \in 1 .. dic.dp
               /\ \A i \in 1 .. dic.context : dic.end[i] <= start

\* While the definition of a `:' is compiled it is the latest, and its IFs that
\* are not resolved are on the stack above the depth taken at the `:'.
Opened ==
  open # 0 =>
    /\ state = 1 /\ open = dic.context /\ start = dic.headers[open].xt
    /\ gDepthAtColon \in 0 .. Len(stack)
    /\ \A a \in start .. dic.dp - 1 : dic.code[a].op = "orig" =>
         \E k \in gDepthAtColon + 1 .. Len(stack) : stack[k] = a

IInv == Good(dic, Addresses) /\ TypeOK /\ Compiling /\ Opened

\* With all memory empty.
LEMMA InitInv == Init => IInv
<1> SUFFICES ASSUME Init PROVE IInv OBVIOUS
<1>1. /\ dic = [headers |-> [i \in 1 .. MaxHeaders |-> Header(FileMark, 0, 0, FALSE)],
                headersPtr |-> 1, context |-> 0,
                code |-> [a \in 1 .. MaxCode + 1 |-> Plain("none")],
                dp |-> 1, end |-> [i \in 1 .. MaxHeaders |-> 0]]
      /\ rfence = 1
  BY DEF Init
<1>2. Header(FileMark, 0, 0, FALSE) \in Headers /\ Plain("none") \in Cells(Addresses)
  BY DictionaryAssumption DEF Header, Headers, Plain, Cell, Cells, Ops, Addresses
<1>3. dic \in Memory(Addresses)
  <2>1. [i \in 1 .. MaxHeaders |-> Header(FileMark, 0, 0, FALSE)]
          \in [1 .. MaxHeaders -> Headers]
    BY <1>2
  <2>2. [a \in 1 .. MaxCode + 1 |-> Plain("none")]
          \in [1 .. MaxCode + 1 -> Cells(Addresses)]
    BY <1>2
  <2>3. [i \in 1 .. MaxHeaders |-> 0] \in [1 .. MaxHeaders -> Addresses]
    BY DictionaryAssumption DEF Addresses
  <2>4. 1 \in 1 .. MaxHeaders + 1 /\ 0 \in 0 .. MaxHeaders /\ 1 \in 1 .. MaxCode
    BY DictionaryAssumption
  <2> QED BY <1>1, <2>1, <2>2, <2>3, <2>4 DEF Memory
<1>4. Ordered(dic) /\ Calls(dic, dic.dp) /\ Kept(dic) /\ Finished(dic)
  BY <1>1 DEF Ordered, Calls, Kept, Finished
<1>5. Good(dic, Addresses) BY <1>3, <1>4 DEF Good, Sound
<1>6. TypeOK
  <2>1. dic \in Dictionaries BY <1>3 DEF Memory, Cells, Dictionaries
  <2>2. stack \in Seq(Addresses) /\ Len(stack) = 0
    <3>1. stack = <<>> BY DEF Init
    <3> QED BY <3>1
  <2>3. 0 \in Addresses /\ 1 \in 1 .. MaxCode /\ 0 \in 0 .. MaxHeaders /\ 0 \in 0 .. MaxCommands
        /\ MaxStack \in Nat
    BY DictionaryAssumption DEF Addresses
  <2>4. Len(stack) <= MaxStack BY <2>2, <2>3
  <2> QED BY <1>1, <2>1, <2>2, <2>3, <2>4 DEF TypeOK, Init
<1>7. Compiling /\ Opened BY DEF Init, Compiling, Opened
<1> QED BY <1>5, <1>6, <1>7 DEF IInv

\* Every command keeps the dictionary sound.
LEMMA StepInv ==
  ASSUME NEW A, Addresses \subseteq A, Good(dic, A), lastForget \in A,
         rfence \in Nat \ {0}, Compiling, Next
  PROVE  Good(dic', A) /\ rfence' \in {rfence, dic.dp} /\ Moved(dic, dic')
<1>1. /\ dic \in Memory(A) /\ Ordered(dic) /\ Calls(dic, dic.dp) /\ Kept(dic)
      /\ Sound(dic, A, dic.dp)
  BY DEF Good, Sound
<1>2. /\ dic.dp \in Nat /\ dic.dp \in 1 .. MaxCode /\ dic.headersPtr \in Nat
      /\ dic.context \in Nat /\ dic.context <= MaxHeaders /\ 0 \in A
  BY <1>1, Fields, DictionaryAssumption DEF Addresses
<1>4. ASSUME NEW n \in Names \cup {Empty}, Colon(n)
      PROVE  Good(dic', A) /\ rfence' = rfence /\ Moved(dic, dic')
  <2>1. CASE n = Empty BY <1>4, <2>1 DEF Colon, forgetVars, Moved
  <2>2. CASE n # Empty
    <3>1. dic' = SecondaryHeader(dic, n) /\ rfence' = rfence /\ n \in Names
          /\ dic.headersPtr <= MaxHeaders
      BY <1>4, <2>2 DEF Colon, forgetVars, Bounded
    <3>2. CASE Room(dic)
      <4>0. dic.dp # 0 BY <1>2
      <4>1. Good(Entry(dic, n, dic.dp, TRUE), A) BY <3>1, <4>0, EntryGood
      <4>2. Added(dic, Entry(dic, n, dic.dp, TRUE)) BY <3>1, <4>1, EntryMoves
      <4> QED BY <3>1, <3>2, <4>1, <4>2 DEF SecondaryHeader, Moved, Grown
    <3>3. CASE ~ Room(dic) BY <3>1, <3>3 DEF SecondaryHeader, Moved
    <3> QED BY <3>1, <3>2, <3>3
  <2> QED BY <2>1, <2>2
<1>5. ASSUME NEW n \in Names \cup {Empty}, Marker(n)
      PROVE  Good(dic', A) /\ rfence' = rfence /\ Moved(dic, dic')
  <2> DEFINE w == CreateWord(dic, n)  e == Comma(w, <<Cell("nfa", w.context)>>)
  <2>1. dic' = SetDoes(e, Plain("marker")) /\ rfence' = rfence
        /\ dic.dp + 4 <= MaxCode /\ dic.headersPtr <= MaxHeaders
    BY <1>5 DEF Marker, forgetVars, Bounded
  <2>2. Good(w, A) /\ w.dp \in Nat /\ w.dp \in dic.dp .. dic.dp + 3 /\ Grown(dic, w)
    BY <1>2, <2>1, CreateGood, DictionaryAssumption
  <2> HIDE DEF w
  <2>3. w.context \in 0 .. MaxHeaders /\ w.context \in 0 .. w.context /\ w.context \in A
    BY <2>2, Fields, DictionaryAssumption DEF Good, Sound, Addresses
  <2>4. /\ Cell("nfa", w.context) \in Cells(A) /\ ~ IsCall(Cell("nfa", w.context))
        /\ Cell("nfa", w.context).arg = w.context
        /\ Plain("marker") \in Cells(A) /\ ~ IsCall(Plain("marker"))
        /\ Plain("marker").op # "nfa" /\ Plain("marker").op # "defer"
    <3>1. "nfa" \in Ops /\ "marker" \in Ops
      BY DEF Ops
    <3>2. /\ Cell("nfa", w.context) \in Cells(A) /\ ~ IsCall(Cell("nfa", w.context))
          /\ Cell("nfa", w.context).arg = w.context
      BY <2>3, <3>1, CellFacts, SMTT(60)
    <3>3. /\ Plain("marker") \in Cells(A) /\ ~ IsCall(Plain("marker"))
          /\ Plain("marker").op # "nfa" /\ Plain("marker").op # "defer"
      BY <2>3, <3>1, CellFacts, SMTT(60)
    <3> QED BY <3>2, <3>3
  <2>5. Sound(e, A, w.dp) /\ e.dp = w.dp + 1
    BY <1>2, <2>1, <2>2, <2>3, <2>4, CommaOne, DictionaryAssumption DEF Good
  <2>6. OnlyLatest(w, e)
    <3>1. w.dp + 1 <= MaxCode BY <1>2, <2>1, <2>2, DictionaryAssumption
    <3> QED BY <2>2, <2>4, <2>5, <3>1, CommaMovesOne DEF Good
  <2> HIDE DEF e
  <2>7. Good(e, A) BY <2>2, <2>5, Raise DEF Good
  <2>8. Grown(dic, e) BY <1>1, <2>2, <2>6, <2>7, GrownMore DEF Good
  <2>9. Good(dic', A) BY <2>1, <2>4, <2>7, SetDoesGood
  <2>10. OnlyLatest(e, dic') BY <2>1, <2>7, <2>9, SetDoesMoves
  <2>11. Grown(dic, dic') BY <1>1, <2>7, <2>8, <2>9, <2>10, GrownMore DEF Good
  <2> QED BY <2>1, <2>9, <2>11 DEF Moved
<1>6. ASSUME NEW n \in Names \cup {Empty}, NEW c \in Names, RunDefining(c, n)
      PROVE  Good(dic', A) /\ rfence' = rfence /\ Moved(dic, dic')
  <2> DEFINE w == CreateWord(dic, n)  e == Comma(w, <<Plain("data")>>)
  <2>1. PICK a \in DoesOf(FindNFA(dic, c)) : dic' = SetDoes(e, Cell("call", dic.code[a].arg))
    BY <1>6 DEF RunDefining
  <2>2. /\ rfence' = rfence /\ dic.dp + 4 <= MaxCode /\ dic.headersPtr <= MaxHeaders
    BY <1>6 DEF RunDefining, forgetVars, Bounded
  <2>3. Good(w, A) /\ w.dp \in Nat /\ w.dp \in dic.dp .. dic.dp + 3 /\ Grown(dic, w)
    <3>1. dic.dp + 3 <= MaxCode BY <1>2, <2>2, DictionaryAssumption
    <3> QED BY <2>2, <3>1, CreateGood
  <2>4. a \in 1 .. dic.dp - 1 /\ IsCall(dic.code[a]) BY DEF DoesOf, IsCall
  <2>5. dic.code[a].arg \in 0 .. dic.dp /\ dic.code[a].arg \in A
    <3>1. a \in 1 .. MaxCode + 1 BY <1>2, <2>4, DictionaryAssumption
    <3>2. dic.code[a] \in Cells(A) BY <1>1, <3>1, Fields
    <3> QED BY <1>1, <2>4, <3>2 DEF Calls, Cells
  <2> HIDE DEF w
  <2>6. /\ Plain("data") \in Cells(A) /\ ~ IsCall(Plain("data")) /\ Plain("data").op # "nfa"
        /\ Cell("call", dic.code[a].arg) \in Cells(A)
        /\ Cell("call", dic.code[a].arg).op # "nfa"
        /\ Cell("call", dic.code[a].arg).op # "defer"
        /\ Cell("call", dic.code[a].arg).arg = dic.code[a].arg
    BY <1>2, <2>5, CellFacts, SMTT(60) DEF Ops
  <2>7. Sound(e, A, w.dp) /\ e.dp = w.dp + 1
    BY <1>2, <2>2, <2>3, <2>6, CommaOne, DictionaryAssumption DEF Good
  <2>8. OnlyLatest(w, e)
    <3>1. w.dp + 1 <= MaxCode BY <1>2, <2>2, <2>3, DictionaryAssumption
    <3> QED BY <2>3, <2>6, <2>7, <3>1, CommaMovesOne DEF Good
  <2> HIDE DEF e
  <2>9. Good(e, A) BY <2>3, <2>7, Raise DEF Good
  <2>10. dic.code[a].arg \in 0 .. e.dp BY <1>2, <2>3, <2>5, <2>7
  <2>11. Grown(dic, e) BY <1>1, <2>3, <2>8, <2>9, GrownMore DEF Good
  <2>12. Good(dic', A) BY <2>1, <2>6, <2>9, <2>10, SetDoesGood
  <2>13. OnlyLatest(e, dic') BY <2>1, <2>9, <2>12, SetDoesMoves
  <2>14. Grown(dic, dic') BY <1>1, <2>9, <2>11, <2>12, <2>13, GrownMore DEF Good
  <2> QED BY <2>2, <2>12, <2>14 DEF Moved
<1>7. ASSUME NEW n \in Names, Create(n) \/ Defer(n) PROVE Good(dic', A) /\ rfence' = rfence /\ Moved(dic, dic')
  <2>1. /\ rfence' = rfence /\ dic.dp + 3 <= MaxCode /\ dic.headersPtr <= MaxHeaders
        /\ dic' = CreateWord(dic, n) \/ dic' = DeferWord(dic, n)
    BY <1>7 DEF Create, Defer, forgetVars, Bounded
  <2>2. Good(CreateWord(dic, n), A) /\ Grown(dic, CreateWord(dic, n))
    BY <2>1, CreateGood
  <2>3. Good(DeferWord(dic, n), A) /\ Grown(dic, DeferWord(dic, n))
    BY <2>1, WordGood DEF DeferWord
  <2> QED BY <2>1, <2>2, <2>3 DEF Moved
<1>8. ASSUME NEW c \in Cells(A), c.op # "nfa", IsCall(c) => c.arg \in 0 .. dic.dp,
             dic.dp + 1 <= MaxCode
      PROVE  Good(Comma(dic, <<c>>), A) /\ Moved(dic, Comma(dic, <<c>>))
  <2> DEFINE e == Comma(dic, <<c>>)
  <2>1. Sound(e, A, dic.dp) /\ e.dp = dic.dp + 1 BY <1>1, <1>2, <1>8, CommaOne
  <2>2. OnlyLatest(dic, e) BY <1>1, <1>8, <2>1, CommaMovesOne
  <2> HIDE DEF e
  <2>3. Good(e, A) BY <1>2, <2>1, Raise DEF Good
  <2> QED BY <2>2, <2>3 DEF e, Moved, Grown
<1>9. ASSUME NEW n \in Names, CompileWord(n) PROVE Good(dic', A) /\ rfence' = rfence /\ Moved(dic, dic')
  <2> DEFINE xt == Xt(dic, FindNFA(dic, n))
  <2>1. /\ rfence' = rfence /\ dic.dp + 1 <= MaxCode /\ FindNFA(dic, n) # 0
        /\ dic' = Comma(dic, <<Cell("call", xt)>>)
    BY <1>9 DEF CompileWord, forgetVars, Bounded
  <2>2. xt \in 0 .. dic.dp /\ xt \in A BY <1>2, <2>1, FindLatest
  <2> HIDE DEF xt
  <2>3. /\ Cell("call", xt) \in Cells(A) /\ Cell("call", xt).op # "nfa"
        /\ Cell("call", xt).arg = xt
    BY <2>2, CellFacts, SMTT(60) DEF Ops
  <2> QED BY <1>8, <2>1, <2>2, <2>3
<1>10. ASSUME NEW n \in Names, RunMarker(n) PROVE Good(dic', A) /\ rfence' = rfence /\ Moved(dic, dic')
  <2> DEFINE xt == Xt(dic, FindNFA(dic, n))  k == dic.code[xt + 3].arg
  <2>1. /\ rfence' = rfence /\ FindNFA(dic, n) # 0 /\ xt + 3 < dic.dp
        /\ dic.code[xt + 3].op = "nfa" /\ k # 0 /\ dic' = VerifyForget(dic, k)
    BY <1>10 DEF RunMarker, forgetVars
  <2>2. xt \in Nat BY <2>1, FindLatest
  <2>3. xt + 3 \in 1 .. dic.dp - 1 BY <1>2, <2>1, <2>2
  <2>4. k \in 1 .. dic.context BY <1>1, <1>2, <2>1, <2>3 DEF Kept
  <2> QED BY <2>1, <2>4, VerifyForgetGood DEF Moved
<1>11. ASSUME NEW n \in Names, Forget(n) \/ ForgetThrows(n)
       PROVE  Good(dic', A) /\ rfence' = rfence /\ Moved(dic, dic')
  <2>1. /\ rfence' = rfence /\ FindNFA(dic, n) # 0
        /\ dic' = VerifyForget(dic, FindNFA(dic, n))
    BY <1>11 DEF Forget, ForgetThrows, forgetVars
  <2> QED BY <2>1, FindLatest, VerifyForgetGood DEF Moved
<1>12. ASSUME NEW n \in Names, IfForgotten(n)
       PROVE  Good(dic', A) /\ rfence' = rfence /\ Moved(dic, dic')
  <2> DEFINE xt == Xt(dic, FindNFA(dic, n))
             c1 == Cell("frame", lastForget)  c2 == Cell("call", xt)
             e == Comma(dic, <<c1, c2>>)
  <2>1. /\ rfence' = rfence /\ dic.dp + 2 <= MaxCode /\ FindNFA(dic, n) # 0
        /\ dic' = e
    BY <1>12 DEF IfForgotten, Bounded
  <2>2. xt \in 0 .. dic.dp /\ xt \in A BY <1>2, <2>1, FindLatest
  <2>3. /\ c1 \in Cells(A) /\ ~ IsCall(c1) /\ c1.op # "nfa"
        /\ c2 \in Cells(A) /\ c2.op # "nfa" /\ c2.arg = xt
    BY <2>2, CellFacts, SMTT(60) DEF Ops
  <2> HIDE DEF xt, c1, c2
  <2>4. Sound(e, A, dic.dp) /\ e.dp = dic.dp + 2
    BY <1>1, <1>2, <2>1, <2>2, <2>3, CommaTwo
  <2>5. OnlyLatest(dic, e) BY <1>1, <2>1, <2>3, <2>4, CommaMovesTwo
  <2> HIDE DEF e
  <2>6. Good(e, A) BY <1>2, <2>4, Raise DEF Good
  <2> QED BY <2>1, <2>5, <2>6 DEF Moved, Grown
<1>13. ASSUME NEW n \in Names, NEW t \in Names, Is(n, t)
       PROVE  Good(dic', A) /\ rfence' = rfence /\ Moved(dic, dic')
  <2> DEFINE v == Cell("vector", Xt(dic, FindNFA(dic, t)))  i == FindNFA(dic, n)
  <2>1. /\ rfence' = rfence /\ FindNFA(dic, t) # 0 /\ i # 0
        /\ dic.code[Xt(dic, i)].op = "defer"
        /\ dic' = Store(dic, Xt(dic, i) + 1, v)
    BY <1>13 DEF Is, forgetVars
  <2>2. Xt(dic, FindNFA(dic, t)) \in A BY <2>1, FindLatest
  <2>3. v \in Cells(A) /\ ~ IsCall(v) /\ v.op # "nfa" /\ v.op # "defer"
    BY <2>2, CellFacts, SMTT(60) DEF Ops
  <2> HIDE DEF v
  <2>4. i \in 1 .. dic.context /\ HasBody(dic, i) BY <2>1, FindLatest
  <2>5. Xt(dic, i) = dic.headers[i].xt BY <2>1 DEF Xt
  <2>6. Good(dic', A) BY <2>1, <2>3, StoreGood
  <2> HIDE DEF i
  <2> QED BY <2>1, <2>4, <2>5, <2>6, VectorMoves DEF Moved
<1>14. CASE CommaData \/ If
  <2>1. /\ rfence' = rfence /\ dic.dp + 1 <= MaxCode
        /\ dic' = Comma(dic, <<Plain("data")>>) \/ dic' = Comma(dic, <<Plain("orig")>>)
    BY <1>14 DEF CommaData, If, forgetVars, Bounded
  <2>2. /\ Plain("data") \in Cells(A) /\ ~ IsCall(Plain("data")) /\ Plain("data").op # "nfa"
        /\ Plain("orig") \in Cells(A) /\ ~ IsCall(Plain("orig")) /\ Plain("orig").op # "nfa"
    BY <1>2, CellFacts, SMTT(60) DEF Ops
  <2> QED BY <1>8, <2>1, <2>2
<1>15. CASE IncludeMark
  <2>1. /\ rfence' = rfence /\ dic.headersPtr <= MaxHeaders
        /\ dic' = Entry(dic, FileMark, 0, FALSE)
    BY <1>15 DEF IncludeMark, forgetVars, Bounded
  <2>2. Good(dic', A) BY <2>1, EntryGood
  <2> QED BY <2>1, <2>2, EntryMoves DEF Moved, Grown
<1>16. CASE Then
  <2> DEFINE a == stack[Len(stack)]
  <2>1. /\ rfence' = rfence /\ dic' = Store(dic, a, Plain("branch"))
        /\ state = 1 /\ a \in start .. dic.dp - 1
    BY <1>16 DEF Then, forgetVars
  <2>2. /\ Plain("branch") \in Cells(A) /\ ~ IsCall(Plain("branch"))
        /\ Plain("branch").op # "nfa" /\ Plain("branch").op # "defer"
    BY <1>2, CellFacts, SMTT(60) DEF Ops
  <2> HIDE DEF a
  <2>3. Good(dic', A) BY <2>1, <2>2, StoreGood
  <2>4. a \in Nat /\ \A i \in 1 .. dic.context : dic.end[i] <= a
    <3>1. start \in Nat /\ a \in Nat /\ start <= a BY <1>2, <2>1 DEF Compiling
    <3>2. ASSUME NEW i \in 1 .. dic.context PROVE dic.end[i] <= a
      <4>1. dic.end[i] \in Nat BY <1>1, <1>2, Fields, DictionaryAssumption
      <4>2. dic.end[i] <= start BY <2>1 DEF Compiling
      <4> QED BY <3>1, <4>1, <4>2
    <3> QED BY <3>1, <3>2
  <2> QED BY <2>1, <2>3, <2>4, StoreMoves DEF Moved, Grown
<1>17. CASE SemiColon
  <2>1. /\ rfence' = rfence /\ dic.dp + 1 <= MaxCode
        /\ dic' = FinishSecondary(dic) \/ dic' = dic
    BY <1>17 DEF SemiColon, forgetVars, Bounded
  <2>2. dic.dp <= dic.dp + 1 BY <1>2
  <2>3. Good(FinishSecondary(dic), A) BY <1>1, <1>2, <2>1, <2>2, FinishGood
  <2>4. OnlyLatest(dic, FinishSecondary(dic)) BY <1>1, <2>1, <2>3, FinishMoves
  <2> QED BY <2>1, <2>3, <2>4 DEF Moved, Grown
<1>18. CASE Does
  <2> DEFINE c == Cell("setdoes", dic.dp + 2)  e == Comma(dic, <<c>>)
             m == dic.dp + 2
  <2>1. /\ rfence' = rfence /\ m <= MaxCode
        /\ dic' = FinishSecondary(e) \/ dic' = Comma(dic, <<Plain("setdoes")>>)
    BY <1>18 DEF Does, forgetVars, Bounded
  <2>2. m \in Nat /\ m \in A /\ dic.dp <= m /\ dic.dp + 1 <= MaxCode
    BY <1>2, <2>1, DictionaryAssumption DEF Addresses
  <2>3. Sound(dic, A, m) BY <1>1, <1>2, <2>2, Raise
  <2>4. c \in Cells(A) /\ c.op # "nfa" /\ c.arg = m
    <3>1. "setdoes" \in Ops BY DEF Ops
    <3> QED BY <2>2, <3>1, CellFacts
  <2>5. /\ Plain("setdoes") \in Cells(A) /\ Plain("setdoes").op # "nfa"
        /\ Plain("setdoes").arg \in 0 .. dic.dp
    BY <1>2, CellFacts, SMTT(60) DEF Ops
  <2> HIDE DEF c
  <2>6. Sound(e, A, m) /\ e.dp = dic.dp + 1
    <3> HIDE DEF m
    <3>1. c.arg \in 0 .. m BY <2>2, <2>4
    <3> QED BY <2>2, <2>3, <2>4, <3>1, CommaOne
  <2>10. OnlyLatest(dic, e)
    BY <1>1, <2>2, <2>4, <2>6, CommaMovesOne
  <2>7. m <= e.dp + 1 /\ e.dp + 1 <= MaxCode BY <1>2, <2>1, <2>6
  <2> HIDE DEF e, m
  <2>8. Good(FinishSecondary(e), A) BY <2>2, <2>6, <2>7, FinishGood
  <2>9. Good(Comma(dic, <<Plain("setdoes")>>), A)
        /\ Moved(dic, Comma(dic, <<Plain("setdoes")>>))
    BY <1>8, <2>2, <2>5
  <2>11. OnlyLatest(e, FinishSecondary(e)) BY <2>6, <2>7, <2>8, FinishMoves
  <2>12. Grown(dic, FinishSecondary(e))
    BY <1>1, <2>6, <2>8, <2>10, <2>11, GrownMore DEF Good, Grown
  <2> QED BY <2>1, <2>8, <2>9, <2>12 DEF Moved
<1>19. CASE Freeze
  BY <1>2, <1>19 DEF Freeze, Moved
<1>20. CASE NoName \/ Drop \/ Abort
  BY <1>20 DEF NoName, Drop, Abort, forgetVars, Moved
<1> QED
  BY <1>4, <1>5, <1>6, <1>7, <1>9, <1>10, <1>11, <1>12, <1>13, <1>14, <1>15,
     <1>16, <1>17, <1>18, <1>19, <1>20 DEF Next

\* The stack without its top.
LEMMA PopIs ==
  ASSUME NEW S, NEW q \in Seq(S), q # <<>>
  PROVE  /\ SubSeq(q, 1, Len(q) - 1) \in Seq(S)
         /\ Len(SubSeq(q, 1, Len(q) - 1)) = Len(q) - 1
         /\ \A k \in 1 .. Len(q) - 1 : SubSeq(q, 1, Len(q) - 1)[k] = q[k]
<1>1. Len(q) \in Nat /\ Len(q) # 0 BY EmptySeq, LenProperties
<1> DEFINE n == Len(q) - 1
<1>2. n \in Nat /\ n \in Int /\ 1 \in Int /\ \A i \in 1 .. n : i \in 1 .. Len(q) BY <1>1
<1>3. \A i \in 1 .. n : q[i] \in S BY <1>2, ElementOfSeq
<1> HIDE DEF n
<1>4. /\ SubSeq(q, 1, n) \in Seq(S)
      /\ Len(SubSeq(q, 1, n)) = IF 1 <= n THEN n - 1 + 1 ELSE 0
      /\ \A i \in 1 .. n - 1 + 1 : SubSeq(q, 1, n)[i] = q[1 + i - 1]
  BY <1>2, <1>3, SubSeqProperties
<1>5. Len(SubSeq(q, 1, n)) = n /\ \A k \in 1 .. n : SubSeq(q, 1, n)[k] = q[k]
  <2>1. n - 1 + 1 = n /\ \A k \in 1 .. n : 1 + k - 1 = k BY <1>2
  <2> QED BY <1>2, <1>4, <2>1
<1> QED BY <1>4, <1>5 DEF n

\* [FORGET]'s loop ends at an address.
LEMMA FrameLeftType ==
  ASSUME NEW d \in Memory(Addresses), lastForget \in Addresses
  PROVE  FrameLeft(d) \in Addresses
<1>1. FrameLeft(d) = LeftOf(d, lastForget) BY DEF FrameLeft, LeftOf
<1>2. MaxCode \in 0 .. MaxCode BY DictionaryAssumption
<1> QED BY <1>1, <1>2, LeftIs

\* The commands keep the types.
LEMMA TypeStep ==
  ASSUME IInv, Next, Good(dic', Addresses), rfence' \in {rfence, dic.dp}
  PROVE  TypeOK'
<1>0. /\ TypeOK /\ dic \in Memory(Addresses) /\ dic' \in Memory(Addresses)
      /\ dic.dp \in 1 .. MaxCode /\ dic'.dp \in 1 .. MaxCode /\ dic.headersPtr \in Nat
      /\ stack \in Seq(Addresses) /\ Len(stack) \in Nat /\ Len(stack) <= MaxStack
      /\ lastForget \in Addresses
  BY Fields DEF IInv, Good, Sound, TypeOK
<1>1. dic' \in Dictionaries /\ rfence' \in 1 .. MaxCode
  BY <1>0 DEF Memory, Cells, Dictionaries, TypeOK
<1>2. typed' \in 0 .. MaxCommands
  <2>1. Typed
    BY DEF Next, Colon, Marker, RunDefining, Create, Defer, CompileWord, RunMarker,
       IfForgotten, Forget, ForgetThrows, Is, NoName, CommaData, Drop, IncludeMark,
       Freeze, If, Then, SemiColon, Does, Abort
  <2> QED BY <1>0, <2>1, DictionaryAssumption DEF Typed, TypeOK
<1>3. lastForget' \in Addresses
  <2>1. ASSUME NEW n \in Names, IfForgotten(n) PROVE lastForget' \in Addresses
    BY <1>0, <2>1, DictionaryAssumption DEF IfForgotten, Addresses
  <2>2. ASSUME NEW n \in Names, Forget(n) PROVE lastForget' \in Addresses
    BY <1>0, <2>2, FrameLeftType DEF Forget
  <2>3. CASE lastForget' = lastForget BY <1>0, <2>3
  <2> QED BY <2>1, <2>2, <2>3
      DEF Next, Colon, Marker, RunDefining, Create, Defer, CompileWord, RunMarker,
          ForgetThrows, Is, NoName, CommaData, Drop, IncludeMark, Freeze, If, Then,
          SemiColon, Does, Abort, forgetVars
<1> DEFINE Rest == /\ state' \in {0, 1}
                   /\ stack' \in Seq(Addresses) /\ Len(stack') <= MaxStack
                   /\ gDepthAtColon' \in 0 .. MaxStack \cup {DEPTH_AT_COLON_INVALID}
                   /\ open' \in 0 .. MaxHeaders /\ start' \in Addresses
<1>4. /\ 0 \in Addresses /\ dic.dp \in Addresses /\ dic'.dp \in Addresses
      /\ 0 \in 0 .. MaxHeaders /\ Len(stack) \in 0 .. MaxStack /\ MaxStack \in Nat
      /\ <<>> \in Seq(Addresses) /\ Len(<<>>) = 0 /\ 0 <= MaxStack
  BY <1>0, DictionaryAssumption DEF Addresses
<1>14. /\ state \in {0, 1} /\ stack \in Seq(Addresses) /\ Len(stack) <= MaxStack
       /\ gDepthAtColon \in 0 .. MaxStack \cup {DEPTH_AT_COLON_INVALID}
       /\ open \in 0 .. MaxHeaders /\ start \in Addresses
  BY <1>0 DEF TypeOK
<1>5. ASSUME UNCHANGED compileVars PROVE Rest BY <1>5, <1>14 DEF compileVars
<1>6. ASSUME Reset, gDepthAtColon' \in {gDepthAtColon, DEPTH_AT_COLON_INVALID}
      PROVE  Rest
  BY <1>4, <1>6, <1>14 DEF Reset
<1>7. ASSUME NEW n \in Names \cup {Empty}, Colon(n) PROVE Rest
  <2>1. dic.headersPtr \in 0 .. MaxHeaders
    BY <1>0, <1>7, DictionaryAssumption DEF Colon, Bounded
  <2>2. gDepthAtColon' = Len(stack) /\ stack' = stack BY <1>7 DEF Colon
  <2>3. state' \in {0, 1} /\ open' \in 0 .. MaxHeaders /\ start' \in Addresses
    BY <1>4, <1>7, <1>14, <2>1 DEF Colon
  <2> QED BY <1>4, <1>14, <2>2, <2>3
<1>8. ASSUME NoName PROVE Rest
  <2>1. stack' = Append(stack, 0) /\ Len(stack) < MaxStack BY <1>8 DEF NoName
  <2>2. stack' \in Seq(Addresses) /\ Len(stack') = Len(stack) + 1
    BY <1>0, <1>4, <2>1, AppendProperties
  <2>3. Len(stack') <= MaxStack BY <1>0, <1>4, <2>1, <2>2
  <2> QED BY <1>4, <1>8, <1>14, <2>2, <2>3 DEF NoName
<1>9. ASSUME If PROVE Rest
  <2>1. stack' = Append(stack, dic.dp) /\ Len(stack) < MaxStack BY <1>9 DEF If
  <2>2. stack' \in Seq(Addresses) /\ Len(stack') = Len(stack) + 1
    BY <1>0, <1>4, <2>1, AppendProperties
  <2>3. Len(stack') <= MaxStack BY <1>0, <1>4, <2>1, <2>2
  <2> QED BY <1>4, <1>9, <1>14, <2>2, <2>3 DEF If
<1>10. ASSUME Drop \/ Then PROVE Rest
  <2>1. stack' = SubSeq(stack, 1, Len(stack) - 1) /\ stack # <<>>
    BY <1>10 DEF Drop, Then
  <2>2. stack' \in Seq(Addresses) /\ Len(stack') = Len(stack) - 1
    BY <1>0, <2>1, PopIs
  <2>3. Len(stack') <= MaxStack BY <1>0, <1>4, <2>2
  <2> QED BY <1>4, <1>10, <1>14, <2>2, <2>3 DEF Drop, Then
<1>11. ASSUME SemiColon PROVE Rest
  <2>1. CASE Balanced BY <1>4, <1>11, <1>14, <2>1 DEF SemiColon
  <2>2. CASE ~ Balanced BY <1>6, <1>11, <2>2 DEF SemiColon
  <2> QED BY <2>1, <2>2
<1>12. ASSUME Does PROVE Rest
  <2>1. CASE Balanced BY <1>4, <1>12, <1>14, <2>1 DEF Does
  <2>2. CASE ~ Balanced BY <1>6, <1>12, <2>2 DEF Does
  <2> QED BY <2>1, <2>2
<1>15. ASSUME Abort PROVE Rest BY <1>6, <1>15 DEF Abort
<1>16. ASSUME NEW n \in Names, ForgetThrows(n) PROVE Rest BY <1>6, <1>16 DEF ForgetThrows
<1>13. Rest
  <2> HIDE DEF Rest
  <2> QED BY <1>5, <1>6, <1>7, <1>8, <1>9, <1>10, <1>11, <1>12, <1>15, <1>16
      DEF Next, Marker, RunDefining, Create, Defer, CompileWord, RunMarker, IfForgotten,
          Forget, Is, CommaData, IncludeMark, Freeze
<1> QED BY <1>1, <1>2, <1>3, <1>13 DEF TypeOK

\* The commands keep Compiling and Opened.
LEMMA CompileStep ==
  ASSUME IInv, Next, Good(dic', Addresses)
  PROVE  Compiling' /\ Opened'
<1>0. /\ Compiling /\ Opened /\ Good(dic, Addresses)
      /\ dic \in Memory(Addresses) /\ dic' \in Memory(Addresses) /\ Ordered(dic')
      /\ dic.dp \in 1 .. MaxCode /\ dic'.dp \in 1 .. MaxCode
      /\ dic.dp \in Nat /\ dic'.dp \in Nat /\ dic.context \in Nat
      /\ dic.context = dic.headersPtr - 1 /\ dic.headersPtr \in Nat
      /\ stack \in Seq(Addresses) /\ Len(stack) \in Nat
  BY Fields DEF IInv, Good, Sound, TypeOK, Ordered
<1>1. start' = dic'.dp => Compiling'
  BY <1>0 DEF Compiling, Ordered
<1>2. CASE state = 0 /\ open' = open /\ state' = state
  BY <1>0, <1>2 DEF Compiling, Opened
<1>3. CASE state' = 0 /\ open' = 0 BY <1>3 DEF Compiling, Opened
<1>4. CASE open' = 0 /\ start' = dic'.dp BY <1>1, <1>4 DEF Opened
<1>5. ASSUME NEW n \in Names \cup {Empty}, Colon(n) PROVE Compiling' /\ Opened'
  <2>1. CASE n = Empty BY <1>2, <1>5, <2>1 DEF Colon
  <2>2. CASE n # Empty /\ ~ Room(dic)
    BY <1>4, <1>5, <2>2 DEF Colon, SecondaryHeader
  <2>3. CASE n # Empty /\ Room(dic)
    <3>1. /\ dic' = Entry(dic, n, dic.dp, TRUE) /\ dic.headersPtr <= MaxHeaders
          /\ state' = 1 /\ start' = dic.dp /\ open' = dic.headersPtr
          /\ gDepthAtColon' = Len(stack) /\ stack' = stack
      BY <1>5, <2>3 DEF Colon, SecondaryHeader, Bounded
    <3>6. /\ dic \in Memory(Addresses) /\ dic.headersPtr <= MaxHeaders
          /\ Ordered(dic) /\ dic' = Entry(dic, n, dic.dp, TRUE)
      BY <1>0, <3>1 DEF Good, Sound
    <3>2. /\ dic'.context = dic.context + 1 /\ dic'.dp = dic.dp
          /\ dic'.headers[dic.context + 1] = Header(n, dic.dp, dic.context, TRUE)
      <4> DEFINE hidden == TRUE  e == Entry(dic, n, dic.dp, hidden)
      <4>1. e = dic' BY <3>6
      <4> HIDE DEF hidden
      <4>2. /\ e.context = dic.context + 1 /\ e.dp = dic.dp
            /\ e.headers[dic.context + 1] = Header(n, dic.dp, dic.context, hidden)
        BY <3>6, EntryIs
      <4> QED BY <4>1, <4>2 DEF hidden
    <3>7. open' = dic.context + 1 BY <1>0, <3>1
    <3>3. open' = dic'.context /\ start' = dic'.headers[open'].xt
      <4>1. dic'.headers[open'].xt = dic.dp BY <3>2, <3>7 DEF Header
      <4> QED BY <3>1, <3>2, <3>7, <4>1
    <3>4. gDepthAtColon' \in 0 .. Len(stack') BY <1>0, <3>1
    <3>5. \A a \in start' .. dic'.dp - 1 : FALSE
      <4>1. dic.dp \in Nat /\ start' = dic.dp /\ dic'.dp = dic.dp BY <1>0, <3>1, <3>2
      <4> QED BY <4>1
    <3> QED BY <1>1, <3>1, <3>2, <3>3, <3>4, <3>5 DEF Opened
  <2> QED BY <2>1, <2>2, <2>3
<1>6. CASE NoName BY <1>4, <1>6 DEF NoName
\* One more cell in the code being compiled.
<1>7. ASSUME state = 1, NEW c \in Cells(Addresses), dic.dp + 1 <= MaxCode,
             dic' = Comma(dic, <<c>>), UNCHANGED <<state, gDepthAtColon, open, start>>,
             \/ c.op # "orig" /\ stack' = stack
             \/ stack' = Append(stack, dic.dp)
      PROVE  Compiling' /\ Opened'
  <2>1. /\ dic'.headers = dic.headers /\ dic'.end = dic.end
        /\ dic'.context = dic.context /\ dic'.dp = dic.dp + 1
        /\ \A a \in 1 .. dic.dp - 1 : dic'.code[a] = dic.code[a]
        /\ dic'.code[dic.dp] = c
    BY <1>0, <1>7, CommaIsOne
  <2>2. start \in 1 .. dic.dp BY <1>0, <1>7 DEF Compiling
  <2>3. Compiling'
    <3>1. start' \in 1 .. dic'.dp BY <1>0, <1>7, <2>1, <2>2
    <3> QED BY <1>0, <1>7, <2>1, <3>1 DEF Compiling
  <2>4. /\ Len(stack') \in Nat /\ Len(stack') >= Len(stack)
        /\ \A k \in 1 .. Len(stack) : stack'[k] = stack[k]
    <3>0. Len(stack) \in Nat BY <1>0
    <3>1. CASE stack' = stack BY <3>0, <3>1
    <3>2. CASE stack' = Append(stack, dic.dp)
      <4>1. dic.dp \in Addresses BY <1>0, DictionaryAssumption DEF Addresses
      <4> QED BY <1>0, <3>2, <4>1, AppendProperties
    <3> QED BY <1>7, <3>1, <3>2
  <2>5. ASSUME open # 0 PROVE gDepthAtColon \in 0 .. Len(stack) /\ gDepthAtColon \in Nat
    BY <1>0, <2>5 DEF Opened
  <2>6. ASSUME open # 0, NEW a \in start .. dic'.dp - 1, dic'.code[a].op = "orig"
        PROVE  \E k \in gDepthAtColon + 1 .. Len(stack') : stack'[k] = a
    <3>1. CASE a < dic.dp
      <4>1. a \in 1 .. dic.dp - 1 /\ a \in start .. dic.dp - 1
        BY <1>0, <2>1, <2>2, <3>1
      <4>2. PICK k \in gDepthAtColon + 1 .. Len(stack) : stack[k] = a
        BY <1>0, <2>1, <2>6, <4>1 DEF Opened
      <4>3. k \in gDepthAtColon + 1 .. Len(stack') /\ k \in 1 .. Len(stack)
        BY <1>0, <2>4, <2>5, <2>6
      <4> QED BY <2>4, <4>2, <4>3
    <3>2. CASE ~ (a < dic.dp)
      <4>1. a = dic.dp BY <1>0, <2>1, <2>2, <3>2
      <4>2. stack' = Append(stack, dic.dp) BY <1>7, <2>1, <2>6, <4>1
      <4>3. Len(stack') = Len(stack) + 1 /\ stack'[Len(stack')] = dic.dp
        <5>1. dic.dp \in Addresses BY <1>0, DictionaryAssumption DEF Addresses
        <5> QED BY <1>0, <4>2, <5>1, AppendProperties
      <4>4. Len(stack') \in gDepthAtColon + 1 .. Len(stack') BY <1>0, <2>5, <2>6, <4>3
      <4> QED BY <4>1, <4>3, <4>4
    <3> QED BY <3>1, <3>2
  <2>7. ASSUME open # 0 PROVE gDepthAtColon \in 0 .. Len(stack')
    BY <1>0, <2>4, <2>5, <2>7
  <2> QED BY <1>0, <1>7, <2>1, <2>3, <2>6, <2>7 DEF Opened
<1>8. ASSUME NEW n \in Names, CompileWord(n) PROVE Compiling' /\ Opened'
  <2> DEFINE c == Cell("call", Xt(dic, FindNFA(dic, n)))
  <2>1. /\ state = 1 /\ dic.dp + 1 <= MaxCode /\ dic' = Comma(dic, <<c>>)
        /\ UNCHANGED <<state, gDepthAtColon, open, start>> /\ stack' = stack
        /\ FindNFA(dic, n) # 0
    BY <1>8 DEF CompileWord, Bounded, compileVars
  <2>2. Xt(dic, FindNFA(dic, n)) \in Addresses BY <1>0, <2>1, FindLatest
  <2>3. c \in Cells(Addresses) /\ c.op # "orig" BY <2>2, CellFacts, SMTT(60) DEF Ops
  <2> HIDE DEF c
  <2> QED BY <1>7, <2>1, <2>3
<1>9. CASE If
  <2> DEFINE c == Plain("orig")
  <2>1. /\ state = 1 /\ dic.dp + 1 <= MaxCode /\ dic' = Comma(dic, <<c>>)
        /\ UNCHANGED <<state, gDepthAtColon, open, start>>
        /\ stack' = Append(stack, dic.dp)
    BY <1>9 DEF If, Bounded
  <2>2. c \in Cells(Addresses)
    BY DictionaryAssumption DEF Plain, Cell, Cells, Ops, Addresses
  <2> HIDE DEF c
  <2> QED BY <1>7, <2>1, <2>2
<1>10. CASE Then
  <2> DEFINE b == stack[Len(stack)]
  <2>1. /\ state = 1 /\ stack # <<>> /\ b \in start .. dic.dp - 1
        /\ dic.code[b].op = "orig" /\ dic' = Store(dic, b, Plain("branch"))
        /\ stack' = SubSeq(stack, 1, Len(stack) - 1)
        /\ UNCHANGED <<state, gDepthAtColon, open, start>>
    BY <1>10 DEF Then
  <2>2. /\ dic'.headers = dic.headers /\ dic'.end = dic.end
        /\ dic'.context = dic.context /\ dic'.dp = dic.dp
        /\ \A a \in 1 .. MaxCode + 1 :
             dic'.code[a] = IF a = b THEN Plain("branch") ELSE dic.code[a]
    BY <1>0, <2>1, StoreIs
  <2>3. start \in 1 .. dic.dp BY <1>0, <2>1 DEF Compiling
  <2>4. Compiling' BY <1>0, <2>1, <2>2 DEF Compiling
  <2>5. /\ Len(stack') = Len(stack) - 1
        /\ \A k \in 1 .. Len(stack) - 1 : stack'[k] = stack[k]
    BY <1>0, <2>1, PopIs
  <2>6. ASSUME open # 0
        PROVE  gDepthAtColon \in Nat /\ gDepthAtColon \in 0 .. Len(stack) - 1
    <3>1. gDepthAtColon \in 0 .. Len(stack) BY <1>0, <2>6 DEF Opened
    <3>2. \E k \in gDepthAtColon + 1 .. Len(stack) : stack[k] = b
      BY <1>0, <2>1, <2>6 DEF Opened
    <3> QED BY <1>0, <3>1, <3>2
  <2> HIDE DEF b
  <2>7. ASSUME open # 0, NEW a \in start .. dic.dp - 1, dic'.code[a].op = "orig"
        PROVE  \E k \in gDepthAtColon + 1 .. Len(stack) - 1 : stack'[k] = a
    <3>1. a \in 1 .. MaxCode + 1 BY <1>0, <2>3, DictionaryAssumption
    <3>2. a # b /\ dic.code[a].op = "orig"
      BY <2>2, <2>7, <3>1 DEF Plain, Cell
    <3>3. PICK k \in gDepthAtColon + 1 .. Len(stack) : stack[k] = a
      BY <1>0, <2>7, <3>2 DEF Opened
    <3>4. k # Len(stack) BY <3>2, <3>3 DEF b
    <3>5. k \in gDepthAtColon + 1 .. Len(stack) - 1 /\ k \in 1 .. Len(stack) - 1
      BY <1>0, <2>6, <2>7, <3>3, <3>4
    <3> QED BY <2>5, <3>3, <3>5
  <2> QED BY <1>0, <2>1, <2>2, <2>4, <2>5, <2>6, <2>7 DEF Opened
<1>11. CASE SemiColon BY <1>3, <1>11 DEF SemiColon, Reset
<1>12. CASE Does BY <1>3, <1>4, <1>12 DEF Does, Reset
<1>13. CASE Abort BY <1>3, <1>13 DEF Abort, Reset
<1>14. ASSUME NEW n \in Names, ForgetThrows(n) PROVE Compiling' /\ Opened'
  BY <1>3, <1>14 DEF ForgetThrows, Reset
<1> QED
  BY <1>2, <1>5, <1>6, <1>8, <1>9, <1>10, <1>11, <1>12, <1>13, <1>14
  DEF Next, Marker, RunDefining, Create, Defer, RunMarker, IfForgotten, Forget, Is,
      CommaData, Drop, IncludeMark, Freeze, compileVars

\* Every step keeps the invariant and moves the definitions.
LEMMA NextInv ==
  ASSUME IInv, Next
  PROVE  IInv' /\ Moved(dic, dic')
<1>1. /\ Good(dic, Addresses) /\ lastForget \in Addresses /\ rfence \in Nat \ {0}
      /\ Compiling
  BY DictionaryAssumption DEF IInv, TypeOK
<1>2. Good(dic', Addresses) /\ rfence' \in {rfence, dic.dp} /\ Moved(dic, dic')
  BY <1>1, StepInv
<1> QED BY <1>2, TypeStep, CompileStep DEF IInv

\* The invariant of every behaviour.
THEOREM Invariant == Spec => []IInv
<1>1. IInv /\ [Next]_vars => IInv'
  <2> SUFFICES ASSUME IInv, UNCHANGED vars PROVE IInv' BY NextInv
  <2> QED BY DEF IInv, vars, compileVars, forgetVars, TypeOK, Compiling, Opened
<1> QED BY InitInv, <1>1, PTL DEF Spec

----------------------------------------------------------------------------
(* The theorems. *)

\* The chain from gVarContext visits every header below dic_HeaderPtr, newest
\* first, after any commands (ChainWhole).
LEMMA ChainCorrect == Spec => []ChainWhole
<1>1. IInv => ChainWhole BY DEF IInv, Good, Sound, Ordered, ChainWhole
<1> QED BY <1>1, Invariant, PTL

\* The code of a visible word is never laid over (Apart).
LEMMA WordsApart == Spec => []Apart
<1>1. IInv => Apart
  <2> SUFFICES ASSUME IInv PROVE Apart OBVIOUS
  <2>1. Ordered(dic) /\ dic.context \in Nat BY Fields DEF IInv, Good, Sound
  <2> QED BY <2>1 DEF Ordered, Apart
<1> QED BY <1>1, Invariant, PTL

\* No code that is left calls code that is gone (CallsLive).
LEMMA CallsStayLive == Spec => []CallsLive
<1>1. IInv => CallsLive
  <2> SUFFICES ASSUME IInv PROVE CallsLive OBVIOUS
  <2>1. Calls(dic, dic.dp) BY DEF IInv, Good, Sound
  <2> QED BY <2>1 DEF Calls, IsCall, CallsLive
<1> QED BY <1>1, Invariant, PTL

\* The chain is whole, the definitions are apart and their calls live, for any
\* names, sizes, limits and commands (DefinitionsWhole).
THEOREM DefinitionsStayWhole == Spec => []DefinitionsWhole
<1>1. ChainWhole /\ Apart /\ CallsLive => DefinitionsWhole BY DEF DefinitionsWhole
<1> QED BY <1>1, ChainCorrect, WordsApart, CallsStayLive, PTL

\* Every variable stays in its type (TypeOK), the addresses the commands lay
\* down and the depths they keep included.
THEOREM TypeCorrect == Spec => []TypeOK
BY Invariant, PTL DEF IInv

----------------------------------------------------------------------------
(* The refinement. *)

\* The sequence of definitions.
LEMMA DefsAre ==
  ASSUME NEW d, d.context \in Nat
  PROVE  /\ Len(DefsOf(d)) = d.context
         /\ \A i \in 1 .. d.context : DefsOf(d)[i] = DefOf(d, i)
         /\ DefsOf(d) = [i \in 1 .. d.context |-> DefsOf(d)[i]]
         /\ \A S : (\A i \in 1 .. d.context : DefOf(d, i) \in S) => DefsOf(d) \in Seq(S)
<1> DEFINE n == d.context
<1>1. DefsOf(d) = [i \in 1 .. n |-> DefOf(d, i)] BY DEF DefsOf
<1>2. n \in Nat OBVIOUS
<1> HIDE DEF n
<1>3. ASSUME NEW S, \A i \in 1 .. n : DefOf(d, i) \in S PROVE DefsOf(d) \in Seq(S)
  <2>1. DefsOf(d) \in [1 .. n -> S] BY <1>1, <1>3
  <2> QED BY <1>2, <2>1
<1>4. Len(DefsOf(d)) = n
  <2> DEFINE R == {DefOf(d, i) : i \in 1 .. n}
  <2>1. DefsOf(d) \in Seq(R) BY <1>3
  <2>2. DOMAIN DefsOf(d) = 1 .. n BY <1>1
  <2> HIDE DEF R
  <2> QED BY <1>2, <2>1, <2>2, LenProperties
<1> QED BY <1>1, <1>2, <1>3, <1>4 DEF n

\* The definitions two dictionaries have in common.
LEMMA DefsPrefix ==
  ASSUME NEW d, NEW e, d.context \in Nat, e.context \in Nat, d.context <= e.context,
         \A i \in 1 .. d.context : DefOf(e, i) = DefOf(d, i)
  PROVE  SubSeq(DefsOf(e), 1, d.context) = DefsOf(d)
<1> DEFINE n == d.context  q == DefsOf(e)  r == DefsOf(d)
           S == {DefOf(e, i) : i \in 1 .. e.context}
<1>1. /\ n \in Nat /\ n \in Int /\ 1 \in Int /\ \A i \in 1 .. n : i \in 1 .. e.context
  OBVIOUS
<1>2. Len(r) = n /\ r \in Seq(S) /\ \A i \in 1 .. n : r[i] = DefOf(e, i)
  <2>1. \A i \in 1 .. n : DefOf(d, i) \in S BY <1>1
  <2> HIDE DEF S
  <2> QED BY <1>1, <2>1, DefsAre
<1>3. \A i \in 1 .. n : q[i] = DefOf(e, i) /\ q[i] \in S BY <1>1, DefsAre
<1> HIDE DEF n, q, r, S
<1>4. /\ SubSeq(q, 1, n) \in Seq(S)
      /\ Len(SubSeq(q, 1, n)) = IF 1 <= n THEN n - 1 + 1 ELSE 0
      /\ \A i \in 1 .. n - 1 + 1 : SubSeq(q, 1, n)[i] = q[1 + i - 1]
  BY <1>1, <1>3, SubSeqProperties
<1>5. n - 1 + 1 = n /\ \A i \in 1 .. n : 1 + i - 1 = i BY <1>1
<1>6. Len(SubSeq(q, 1, n)) = n /\ \A i \in 1 .. n : SubSeq(q, 1, n)[i] = r[i]
  BY <1>1, <1>2, <1>3, <1>4, <1>5
<1> QED BY <1>2, <1>4, <1>6, SeqEqual DEF n, q, r

\* What a step does to the dictionary, the stack of definitions may do.
LEMMA MovedIsStep ==
  ASSUME IInv, IInv', Moved(dic, dic')
  PROVE  [Abstract!Next]_defs
<1> DEFINE n == dic.context  m == dic'.context
<1>1. /\ n \in Nat /\ m \in Nat
      /\ Sound(dic, Addresses, dic.dp) /\ Sound(dic', Addresses, dic'.dp)
  BY Fields DEF IInv, Good, Sound
<1>2. defs = DefsOf(dic) /\ defs' = DefsOf(dic')
  BY DEF defs, DefsOf, DefOf, Body, HasBody
<1>3. /\ Len(defs) = n /\ Len(defs') = m
      /\ \A i \in 1 .. n : defs[i] = DefOf(dic, i)
      /\ \A i \in 1 .. m : defs'[i] = DefOf(dic', i)
  BY <1>1, <1>2, DefsAre
<1>4. CASE dic' = dic BY <1>2, <1>4
<1>5. CASE Added(dic, dic')
  <2>1. m = n + 1 /\ SubSeq(defs', 1, n) = defs
    <3>1. m = n + 1 /\ \A i \in 1 .. n : DefOf(dic', i) = DefOf(dic, i)
      BY <1>5 DEF Added
    <3>2. n <= m BY <1>1, <3>1
    <3> QED BY <1>1, <1>2, <3>1, <3>2, DefsPrefix
  <2>2. Abstract!Define BY <1>3, <2>1 DEF Abstract!Define, Abstract!N
  <2> QED BY <2>2 DEF Abstract!Next
<1>6. CASE Cut(dic, dic')
  <2>1. m < n /\ \A i \in 1 .. m : DefOf(dic, i) = DefOf(dic', i)
    BY <1>6 DEF Cut
  <2>2. m <= n BY <1>1, <2>1
  <2>3. SubSeq(defs, 1, m) = defs' BY <1>1, <1>2, <2>1, <2>2, DefsPrefix
  <2>4. Abstract!Forget BY <1>3, <2>1, <2>3 DEF Abstract!Forget, Abstract!N
  <2> QED BY <2>4 DEF Abstract!Next
<1>7. CASE OnlyLatest(dic, dic')
  <2>1. /\ m = n /\ \A i \in 1 .. n - 1 : i \in 1 .. n /\ i # n
        /\ \A i \in 1 .. n : i # n => DefOf(dic', i) = DefOf(dic, i)
    BY <1>1, <1>7 DEF OnlyLatest
  <2>2. CASE n = 0
    <3>1. \A i \in 1 .. 0 : FALSE OBVIOUS
    <3>2. \A i \in 1 .. n : DefOf(dic', i) = DefOf(dic, i) BY <2>2, <3>1
    <3>3. defs' = defs BY <1>2, <2>1, <3>2, Zenon DEF DefsOf
    <3> QED BY <3>3
  <2>3. CASE n # 0
    <3>1. n \in 1 .. n BY <1>1, <2>3
    <3>2. Reworked(DefOf(dic, n), DefOf(dic', n)) BY <1>7, <3>1 DEF OnlyLatest
    <3>3. defs[n] = DefOf(dic, n) /\ defs'[n] = DefOf(dic', n) BY <1>3, <2>1, <3>1
    <3>4. \A i \in 1 .. n - 1 : defs'[i] = defs[i] BY <1>3, <2>1
    <3>5. n > 0 BY <1>1, <2>3
    <3> HIDE DEF n, m
    <3>6. Abstract!Rework
      BY <1>3, <2>1, <3>2, <3>3, <3>4, <3>5 DEF Reworked, Abstract!Rework, Abstract!N
    <3> QED BY <3>6 DEF Abstract!Next
  <2> QED BY <2>2, <2>3
<1>8. CASE Vectored(dic, dic')
  <2>1. PICK i \in 1 .. n :
          /\ \A j \in 1 .. n : j # i => DefOf(dic', j) = DefOf(dic, j)
          /\ DefOf(dic', i) = [DefOf(dic, i) EXCEPT !.body = Body(dic', i)]
          /\ Body(dic, i) # <<>> /\ Body(dic, i)[1].op = "defer"
          /\ Len(Body(dic', i)) = Len(Body(dic, i))
          /\ \A k \in DOMAIN Body(dic, i) : k # 2 => Body(dic', i)[k] = Body(dic, i)[k]
    BY <1>8 DEF Vectored
  <2>2. m = n BY <1>8 DEF Vectored
  <2>3. /\ defs[i] = DefOf(dic, i) /\ defs'[i] = DefOf(dic', i)
        /\ defs[i].body = Body(dic, i) /\ defs'[i].body = Body(dic', i)
    BY <1>3, <2>2 DEF DefOf
  <2>4. \A j \in 1 .. n : j # i => defs'[j] = defs[j] BY <1>3, <2>1, <2>2
  <2>5. defs'[i] = [defs[i] EXCEPT !.body = defs'[i].body] BY <2>1, <2>3
  <2> HIDE DEF n, m
  <2>6. Abstract!Vector
    <3>1. /\ Len(defs') = Len(defs) /\ i \in {j \in 1 .. Len(defs) : defs[j].body # <<>>}
          /\ \A j \in 1 .. Len(defs) : j # i => defs'[j] = defs[j]
          /\ Len(defs'[i].body) = Len(defs[i].body)
          /\ defs[i].body[1].op = "defer"
          /\ \A k \in DOMAIN defs[i].body : k # 2 => defs'[i].body[k] = defs[i].body[k]
      BY <1>3, <2>1, <2>2, <2>3, <2>4
    <3> QED BY <2>5, <3>1 DEF Abstract!Vector, Abstract!N
  <2> QED BY <2>6 DEF Abstract!Next
<1> QED BY <1>4, <1>5, <1>6, <1>7, <1>8 DEF Moved, Grown

\* The dictionary implements a stack of definitions (DictionarySpec): no command
\* touches a definition but the latest one, or the cell of a deferred word, and
\* FORGET drops the latest ones and leaves the others whole (Implements).
THEOREM StackOfDefinitions == Spec => Implements
<1>1. Init => Abstract!Init
  <2> SUFFICES ASSUME Init PROVE defs = <<>> BY DEF Abstract!Init
  <2>1. dic.context = 0 BY DEF Init
  <2>2. defs = DefsOf(dic) BY DEF defs, DefsOf, DefOf, Body, HasBody
  <2>3. Len(defs) = 0 /\ defs \in Seq({})
    <3>1. \A i \in 1 .. dic.context : DefOf(dic, i) \in {} BY <2>1
    <3> QED BY <2>1, <2>2, <3>1, DefsAre
  <2> QED BY <2>3, EmptySeq
<1>2. IInv /\ IInv' /\ [Next]_vars => [Abstract!Next]_defs
  <2>1. ASSUME IInv, IInv', Next PROVE [Abstract!Next]_defs
    BY <2>1, NextInv, MovedIsStep
  <2>2. ASSUME UNCHANGED vars PROVE [Abstract!Next]_defs BY <2>2 DEF vars, defs
  <2> QED BY <2>1, <2>2
<1> QED BY <1>1, <1>2, Invariant, PTL DEF Spec, Implements, Abstract!Spec

----------------------------------------------------------------------------
(* The depth at the colon. *)

\* While a definition is compiled only `;' and DOES> make it visible; their test
\* of the depth leaves no IF of its own on the stack.
LEMMA RevealStep ==
  ASSUME IInv, Next, open # 0, dic.headers[open].smudge, ~ dic'.headers[open].smudge,
         NEW a \in dic.headers[open].xt .. dic'.dp - 1
  PROVE  dic'.code[a].op # "orig"
<1>1. /\ dic \in Memory(Addresses) /\ dic.dp \in Nat /\ dic.dp \in 1 .. MaxCode
      /\ state = 1 /\ open = dic.context /\ start = dic.headers[open].xt
      /\ start \in 1 .. dic.dp /\ start \in Nat
      /\ gDepthAtColon \in 0 .. Len(stack) /\ Len(stack) \in Nat
  BY Fields DEF IInv, Good, Sound, Opened, Compiling, TypeOK
<1>2. dic'.headers # dic.headers BY DEF IInv
<1>3. \A c \in Cells(Addresses) : dic.dp + 1 <= MaxCode =>
        Comma(dic, <<c>>).headers = dic.headers
  <2> TAKE c \in Cells(Addresses)
  <2> DEFINE e == Comma(dic, <<c>>)
  <2>1. e = Comma(dic, <<c>>) OBVIOUS
  <2> HIDE DEF e
  <2>2. dic.dp + 1 <= MaxCode => e.headers = dic.headers BY <1>1, <2>1, CommaIsOne
  <2> QED BY <2>1, <2>2
<1>4. ASSUME NEW n \in Names PROVE ~ CompileWord(n)
  <2> SUFFICES ASSUME CompileWord(n) PROVE FALSE OBVIOUS
  <2>1. /\ dic' = Comma(dic, <<Cell("call", Xt(dic, FindNFA(dic, n)))>>)
        /\ FindNFA(dic, n) # 0 /\ dic.dp + 1 <= MaxCode
    BY DEF CompileWord, Bounded
  <2>2. Xt(dic, FindNFA(dic, n)) \in Addresses BY <2>1, FindLatest DEF IInv
  <2>3. Cell("call", Xt(dic, FindNFA(dic, n))) \in Cells(Addresses)
    BY <2>2, CellFacts, SMTT(60) DEF Ops
  <2> QED BY <1>2, <1>3, <2>1, <2>3
<1>5. ~ If
  <2> SUFFICES ASSUME If PROVE FALSE OBVIOUS
  <2>1. dic' = Comma(dic, <<Plain("orig")>>) /\ dic.dp + 1 <= MaxCode
    BY DEF If, Bounded
  <2>2. Plain("orig") \in Cells(Addresses)
    BY DictionaryAssumption DEF Plain, Cell, Cells, Ops, Addresses
  <2> QED BY <1>2, <1>3, <2>1, <2>2
<1>6. ~ Then
  <2> SUFFICES ASSUME Then PROVE FALSE OBVIOUS
  <2>1. dic' = Store(dic, stack[Len(stack)], Plain("branch")) BY DEF Then
  <2> QED BY <1>1, <1>2, <2>1, StoreIs
<1>7. ~ Abort BY <1>2 DEF Abort
<1>8. Balanced => \A b \in start .. dic.dp - 1 : dic.code[b].op # "orig"
  <2> SUFFICES ASSUME Balanced, NEW b \in start .. dic.dp - 1, dic.code[b].op = "orig"
               PROVE  FALSE
    OBVIOUS
  <2>1. gDepthAtColon = Len(stack) BY <1>1 DEF Balanced, DEPTH_AT_COLON_INVALID
  <2>2. \E k \in gDepthAtColon + 1 .. Len(stack) : stack[k] = b BY DEF IInv, Opened
  <2> QED BY <1>1, <2>1, <2>2
\* `;' on a dictionary d that has the code of this one, and perhaps more.
<1>9. ASSUME NEW d \in Memory(Addresses), d.dp \in Nat, d.dp >= dic.dp, Balanced,
             d.dp + 1 <= MaxCode, dic' = FinishSecondary(d),
             \A b \in 1 .. dic.dp - 1 : d.code[b] = dic.code[b],
             \A b \in dic.dp .. d.dp - 1 : d.code[b].op # "orig"
      PROVE  dic'.code[a].op # "orig"
  <2>1. /\ dic'.dp = d.dp + 1 /\ dic'.code[d.dp] = Exit
        /\ \A b \in 1 .. d.dp - 1 : dic'.code[b] = d.code[b]
    <3> DEFINE A == Addresses
    <3>1. Addresses \subseteq A /\ d \in Memory(A) /\ d.dp + 1 <= MaxCode BY <1>9
    <3> HIDE DEF A
    <3> QED BY <1>9, <3>1, FinishCode
  <2>2. a \in start .. d.dp BY <1>1, <1>9, <2>1
  <2>3. CASE a = d.dp BY <2>1, <2>3 DEF Exit, Plain, Cell
  <2>4. CASE a # d.dp
    <3>1. a \in 1 .. d.dp - 1 BY <1>1, <1>9, <2>2, <2>4
    <3>2. d.code[a].op # "orig" BY <1>1, <1>8, <1>9, <2>2, <3>1
    <3> QED BY <2>1, <3>1, <3>2
  <2> QED BY <2>3, <2>4
<1>10. CASE SemiColon
  <2>1. Balanced /\ dic' = FinishSecondary(dic) BY <1>2, <1>10 DEF SemiColon
  <2>2. dic.dp + 1 <= MaxCode BY <1>10 DEF SemiColon, Bounded
  <2>3. \A b \in dic.dp .. dic.dp - 1 : FALSE BY <1>1
  <2> QED BY <1>1, <1>9, <2>1, <2>2, <2>3
<1>11. CASE Does
  <2>1. dic.dp + 2 <= MaxCode BY <1>11 DEF Does, Bounded
  <2>2. Balanced
    <3> SUFFICES ASSUME ~ Balanced PROVE FALSE OBVIOUS
    <3>1. dic' = Comma(dic, <<Plain("setdoes")>>) BY <1>11 DEF Does
    <3>2. Plain("setdoes") \in Cells(Addresses)
      BY DictionaryAssumption DEF Plain, Cell, Cells, Ops, Addresses
    <3>3. dic.dp + 1 <= MaxCode BY <1>1, <2>1, DictionaryAssumption
    <3> QED BY <1>2, <1>3, <3>1, <3>2, <3>3
  <2> DEFINE c == Cell("setdoes", dic.dp + 2)  d == Comma(dic, <<c>>)
  <2>3. dic' = FinishSecondary(d) BY <1>11, <2>2 DEF Does
  <2>4. c \in Cells(Addresses) /\ c.op = "setdoes"
    <3>1. dic.dp + 2 \in Addresses BY <1>1, <2>1, DictionaryAssumption DEF Addresses
    <3> QED BY <3>1 DEF Cell, Cells, Ops
  <2> HIDE DEF c
  <2>5. dic.dp + 1 <= MaxCode BY <1>1, <2>1, DictionaryAssumption
  <2>6. /\ d.dp = dic.dp + 1 /\ d.code[dic.dp] = c
        /\ \A b \in 1 .. dic.dp - 1 : d.code[b] = dic.code[b]
    BY <1>1, <2>4, <2>5, CommaIsOne
  <2>7. d \in Memory(Addresses)
    <3> DEFINE m == dic.dp + 2
    <3>1. m \in Nat /\ dic.dp <= m BY <1>1
    <3>2. c.arg \in 0 .. m /\ c.op # "nfa" BY <1>1 DEF c, Cell
    <3> HIDE DEF m
    <3>3. Sound(dic, Addresses, m)
      <4>1. Sound(dic, Addresses, dic.dp) BY DEF IInv, Good
      <4> QED BY <1>1, <3>1, <4>1, Raise
    <3>4. Sound(d, Addresses, m) BY <2>4, <2>5, <3>1, <3>2, <3>3, CommaOne
    <3> QED BY <3>4 DEF Sound
  <2>8. d.dp \in Nat /\ d.dp >= dic.dp /\ d.dp + 1 <= MaxCode
    BY <1>1, <2>1, <2>6, DictionaryAssumption
  <2>9. \A b \in dic.dp .. d.dp - 1 : d.code[b].op # "orig"
    <3>1. \A b \in dic.dp .. d.dp - 1 : b = dic.dp BY <1>1, <2>6
    <3> QED BY <2>4, <2>6, <3>1
  <2> HIDE DEF d
  <2> QED BY <1>9, <2>2, <2>3, <2>6, <2>7, <2>8, <2>9
<1> QED
  BY <1>1, <1>4, <1>5, <1>6, <1>7, <1>10, <1>11
  DEF Next, Colon, Marker, RunDefining, Create, Defer, RunMarker, IfForgotten, Forget,
      ForgetThrows, Is, NoName, CommaData, Drop, IncludeMark, Freeze

\* A definition that `:' began and no error interrupted becomes visible only with
\* all its IFs resolved, whatever the commands and whatever addresses of IFs an
\* earlier error left on the stack, for THENs of the code being compiled
\* (BalancedReveal).
THEOREM RevealedBalanced == Spec => BalancedReveal
<1> DEFINE R == open # 0 /\ dic.headers[open].smudge /\ ~ dic'.headers[open].smudge
                  => \A a \in dic.headers[open].xt .. dic'.dp - 1 :
                       dic'.code[a].op # "orig"
<1>1. IInv /\ [Next]_vars => [R]_vars
  <2> SUFFICES ASSUME IInv, Next PROVE R OBVIOUS
  <2> QED BY RevealStep
<1> QED BY <1>1, Invariant, PTL DEF Spec, BalancedReveal

----------------------------------------------------------------------------
(* The frames of IF.FORGOTTEN. *)

\* Frames in any memory and from any address: a walk along the links, to 0.
Link(code) == [a \in Addresses |-> IF a = 0 THEN 0 ELSE code[a].arg]
FramesOf(code, x) ==
  LET f[k \in 0 .. MaxCode] ==
        IF k = 0 THEN x
        ELSE LET a == f[k - 1] IN IF a = 0 THEN 0 ELSE code[a].arg
  IN {f[k] : k \in 0 .. MaxCode} \ {0}

LEMMA FramesAre ==
  ASSUME NEW code \in [1 .. MaxCode + 1 -> Cells(Addresses)], NEW x \in Addresses
  PROVE  \E f \in [0 .. MaxCode -> Addresses] :
           /\ f[0] = x /\ FramesOf(code, x) = {f[k] : k \in 0 .. MaxCode} \ {0}
           /\ \A k \in 1 .. MaxCode : f[k] = Link(code)[f[k - 1]]
<1> DEFINE Eq(f) == f = [k \in 0 .. MaxCode |->
             IF k = 0 THEN x
             ELSE LET a == f[k - 1] IN IF a = 0 THEN 0 ELSE code[a].arg]
           h == CHOOSE f : Eq(f)
<1>1. Link(code) \in [Addresses -> Addresses]
  <2>1. \A a \in Addresses : a # 0 => a \in 1 .. MaxCode + 1
    BY DictionaryAssumption DEF Addresses
  <2>2. \A a \in 1 .. MaxCode + 1 : code[a].arg \in Addresses BY DEF Cells
  <2>3. 0 \in Addresses BY DictionaryAssumption DEF Addresses
  <2> QED BY <2>1, <2>2, <2>3 DEF Link
<1>2. PICK f \in [0 .. MaxCode -> Addresses] :
         f[0] = x /\ \A k \in 1 .. MaxCode : f[k] = Link(code)[f[k - 1]]
  <2>1. \E f : IsWalk(f, MaxCode, Addresses, x, Link(code))
    BY <1>1, WalkExists, DictionaryAssumption
  <2> QED BY <2>1 DEF IsWalk
<1>3. Eq(f)
  <2>1. ASSUME NEW k \in 0 .. MaxCode, k # 0
        PROVE  f[k] = LET a == f[k - 1] IN IF a = 0 THEN 0 ELSE code[a].arg
    <3>1. k \in 1 .. MaxCode /\ k - 1 \in 0 .. MaxCode
      BY <2>1, DictionaryAssumption
    <3>2. f[k - 1] \in Addresses BY <1>2, <3>1
    <3> QED BY <1>2, <3>1, <3>2 DEF Link
  <2> QED BY <1>2, <2>1
<1>4. Eq(h) BY <1>3
<1>5. 0 \in 0 .. MaxCode BY DictionaryAssumption
<1>6. h[0] = x BY <1>4, <1>5
<1>7. ASSUME NEW k \in 1 .. MaxCode, h[k - 1] \in Addresses
      PROVE  h[k] = Link(code)[h[k - 1]]
  <2>1. k \in 0 .. MaxCode /\ k # 0 BY DictionaryAssumption
  <2>2. h[k] = LET a == h[k - 1] IN IF a = 0 THEN 0 ELSE code[a].arg
    BY <1>4, <2>1
  <2> HIDE DEF h, Eq
  <2>3. h[k] = IF h[k - 1] = 0 THEN 0 ELSE code[h[k - 1]].arg BY <2>2
  <2>4. \A a \in Addresses : Link(code)[a] = IF a = 0 THEN 0 ELSE code[a].arg
    BY DEF Link
  <2> QED BY <1>7, <2>3, <2>4
<1>8. FramesOf(code, x) = {h[k] : k \in 0 .. MaxCode} \ {0} BY DEF FramesOf
<1>9. DOMAIN h = 0 .. MaxCode /\ h = [k \in 0 .. MaxCode |-> h[k]]
  BY <1>4
<1> HIDE DEF h, Eq
<1>10. \A k \in 0 .. MaxCode : h[k] \in Addresses
  BY <1>1, <1>6, <1>7, WalkTyped, DictionaryAssumption
<1>11. h \in [0 .. MaxCode -> Addresses] BY <1>9, <1>10
<1>12. \A k \in 1 .. MaxCode : h[k] = Link(code)[h[k - 1]]
  <2> TAKE k \in 1 .. MaxCode
  <2>1. k - 1 \in 0 .. MaxCode BY DictionaryAssumption
  <2> QED BY <1>7, <1>10, <2>1
<1> QED BY <1>6, <1>8, <1>11, <1>12

\* When every frame links to one below it, [FORGET]'s loop ends at a frame, or 0,
\* that is not above HERE, and all frames from there on are frames from x on.
LEMMA LeftKeeps ==
  ASSUME NEW d \in Memory(Addresses), NEW x \in Addresses,
         \A a \in FramesOf(d.code, x) : d.code[a].arg < a
  PROVE  \A a \in FramesOf(d.code, LeftOf(d, x)) :
           a \in FramesOf(d.code, x) /\ a <= d.dp
<1> DEFINE code == d.code  F == FramesOf(code, x) \cup {0}
<1>1. /\ code \in [1 .. MaxCode + 1 -> Cells(Addresses)] /\ d.dp \in Nat
      /\ MaxCode \in Nat /\ 0 \in 0 .. MaxCode
      /\ 0 \in Addresses /\ x <= MaxCode
      /\ \A a \in Addresses : a \in Nat
  BY Fields, DictionaryAssumption DEF Addresses
<1>2. PICK f \in [0 .. MaxCode -> Addresses] :
        /\ f[0] = x /\ FramesOf(code, x) = {f[k] : k \in 0 .. MaxCode} \ {0}
        /\ \A k \in 1 .. MaxCode : f[k] = Link(code)[f[k - 1]]
  BY <1>1, FramesAre
<1>3. \A k \in 0 .. MaxCode : f[k] \in F /\ f[k] \in Nat
  <2> TAKE k \in 0 .. MaxCode
  <2>1. f[k] \in {f[j] : j \in 0 .. MaxCode} OBVIOUS
  <2>2. f[k] \in F BY <1>2, <2>1
  <2>3. f[k] \in Addresses BY <1>2
  <2> QED BY <1>1, <2>2, <2>3
<1>4. \A a \in F : a \in Addresses /\ a \in Nat BY <1>1, <1>2
<1>5. \A a \in F : a # 0 => Link(code)[a] = code[a].arg /\ Link(code)[a] < a
  BY <1>4 DEF Link
<1>6. Link(code)[0] = 0 BY <1>1 DEF Link
<1> HIDE DEF F, code
\* The links end at 0.
<1>7. f[MaxCode] = 0
  <2> DEFINE G == {k \in 0 .. MaxCode : f[k] <= MaxCode - k}
  <2>1. 0 \in G BY <1>1, <1>2
  <2>2. ASSUME NEW k \in 1 .. MaxCode, k - 1 \in G PROVE k \in G
    <3>1. k \in 0 .. MaxCode /\ k - 1 \in 0 .. MaxCode /\ k \in Nat BY <1>1
    <3>2. f[k - 1] \in Nat /\ f[k - 1] <= MaxCode - (k - 1) /\ f[k] \in Nat
          /\ f[k - 1] \in F
      BY <1>3, <2>2, <3>1
    <3>3. f[k] = Link(code)[f[k - 1]] BY <1>2
    <3>4. CASE f[k - 1] = 0
      <4>1. f[k] = 0 BY <1>6, <3>3, <3>4
      <4>2. 0 <= MaxCode - k BY <1>1
      <4> QED BY <3>1, <4>1, <4>2
    <3>5. CASE f[k - 1] # 0
      <4>1. f[k] < f[k - 1] BY <1>5, <3>2, <3>3, <3>5
      <4>2. f[k] <= MaxCode - k BY <1>1, <3>1, <3>2, <4>1
      <4> QED BY <3>1, <4>2
    <3> QED BY <3>4, <3>5
  <2> HIDE DEF G
  <2>3. 0 .. MaxCode \subseteq G BY <1>1, <2>1, <2>2, UpTo
  <2>4. MaxCode \in G BY <1>1, <2>3
  <2>5. f[MaxCode] <= MaxCode - MaxCode /\ f[MaxCode] \in Nat BY <1>1, <1>3, <2>4 DEF G
  <2> QED BY <1>1, <2>5
<1>8. \A a \in F : Link(code)[a] \in F /\ Link(code)[a] <= a
  <2> SUFFICES ASSUME NEW a \in F, a # 0 PROVE Link(code)[a] \in F /\ Link(code)[a] <= a
    BY <1>6 DEF F
  <2>1. PICK k \in 0 .. MaxCode : a = f[k] BY <1>2 DEF F
  <2>2. k # MaxCode BY <1>7, <2>1
  <2>3. k + 1 \in 1 .. MaxCode /\ k + 1 \in 0 .. MaxCode /\ (k + 1) - 1 = k
    BY <1>1, <2>2
  <2>4. f[k + 1] = Link(code)[a] BY <1>2, <2>1, <2>3
  <2>5. f[k + 1] \in F /\ f[k + 1] \in Nat BY <1>3, <2>3
  <2>6. Link(code)[a] < a /\ a \in Nat BY <1>4, <1>5
  <2> QED BY <2>4, <2>5, <2>6
\* The loop stays on them, and ends at or below HERE.
<1>9. PICK g \in [0 .. MaxCode -> Addresses] :
        /\ g[0] = x /\ g[MaxCode] = LeftOf(d, x)
        /\ \A k \in 1 .. MaxCode : g[k] = Above(d)[g[k - 1]]
  BY LeftIs
<1>10. LeftOf(d, x) \in F /\ LeftOf(d, x) <= d.dp
  <2> DEFINE G == {k \in 0 .. MaxCode : g[k] \in F /\ (g[k] <= d.dp \/ g[k] <= MaxCode - k)}
  <2>1. 0 \in G
    <3>1. g[0] \in F BY <1>1, <1>2, <1>3, <1>9
    <3> QED BY <1>1, <1>9, <3>1
  <2>2. ASSUME NEW k \in 1 .. MaxCode, k - 1 \in G PROVE k \in G
    <3>1. k \in 0 .. MaxCode /\ k - 1 \in 0 .. MaxCode /\ k \in Nat BY <1>1
    <3> DEFINE a == g[k - 1]
    <3>2. /\ a \in F /\ a \in Nat /\ a \in Addresses
          /\ a <= d.dp \/ a <= MaxCode - (k - 1)
      BY <1>4, <2>2, <3>1
    <3>3. g[k] = IF a > d.dp THEN code[a].arg ELSE a
      <4>1. g[k] = Above(d)[a] BY <1>9
      <4> HIDE DEF a
      <4> QED BY <3>2, <4>1 DEF Above, code
    <3> HIDE DEF a
    <3>4. CASE a <= d.dp BY <1>1, <3>1, <3>2, <3>3, <3>4
    <3>5. CASE a > d.dp
      <4>1. a # 0 /\ ~ (a <= d.dp) BY <1>1, <3>2, <3>5
      <4>2. g[k] = Link(code)[a] /\ g[k] < a BY <1>5, <3>2, <3>3, <3>5, <4>1
      <4>3. g[k] \in F /\ g[k] \in Nat BY <1>4, <1>8, <3>2, <4>2
      <4>4. g[k] <= MaxCode - k BY <1>1, <3>1, <3>2, <4>1, <4>2, <4>3
      <4> QED BY <3>1, <4>3, <4>4
    <3> QED BY <1>1, <3>2, <3>4, <3>5
  <2> HIDE DEF G
  <2>3. 0 .. MaxCode \subseteq G BY <1>1, <2>1, <2>2, UpTo
  <2>4. MaxCode \in G BY <1>1, <2>3
  <2>5. /\ g[MaxCode] <= d.dp \/ g[MaxCode] <= MaxCode - MaxCode
        /\ g[MaxCode] \in Nat
    BY <1>4, <2>4 DEF G
  <2>6. g[MaxCode] <= d.dp BY <1>1, <2>5
  <2>7. g[MaxCode] \in F BY <2>4 DEF G
  <2> QED BY <1>9, <2>6, <2>7
\* And so do the frames that are left.
<1>11. LeftOf(d, x) \in Addresses BY <1>4, <1>10
<1>12. PICK h \in [0 .. MaxCode -> Addresses] :
        /\ h[0] = LeftOf(d, x)
        /\ FramesOf(code, LeftOf(d, x)) = {h[k] : k \in 0 .. MaxCode} \ {0}
        /\ \A k \in 1 .. MaxCode : h[k] = Link(code)[h[k - 1]]
  <2> DEFINE y == LeftOf(d, x)
  <2>1. y \in Addresses BY <1>11
  <2> HIDE DEF y
  <2>2. \E h \in [0 .. MaxCode -> Addresses] :
          /\ h[0] = y
          /\ FramesOf(code, y) = {h[k] : k \in 0 .. MaxCode} \ {0}
          /\ \A k \in 1 .. MaxCode : h[k] = Link(code)[h[k - 1]]
    <3>1. code \in [1 .. MaxCode + 1 -> Cells(Addresses)] BY <1>1
    <3> QED BY ONLY <2>1, <3>1, FramesAre
  <2> QED BY <2>2 DEF y
<1>13. \A k \in 0 .. MaxCode : h[k] \in {a \in F : a <= d.dp}
  <2> DEFINE S == {a \in F : a <= d.dp}
  <2>1. h[0] \in S BY <1>10, <1>12
  <2>2. \A a \in S : Link(code)[a] \in S
    <3> TAKE a \in S
    <3>1. a \in F /\ a \in Nat /\ a <= d.dp BY <1>4
    <3>2. Link(code)[a] \in F /\ Link(code)[a] <= a /\ Link(code)[a] \in Nat
      BY <1>4, <1>8, <3>1
    <3> QED BY <1>1, <3>1, <3>2
  <2> HIDE DEF S
  <2>3. \A k \in 1 .. MaxCode : h[k - 1] \in S => h[k] \in S BY <1>12, <2>2
  <2>4. \A k \in 0 .. MaxCode : h[k] \in S BY <1>1, <2>1, <2>3, WalkTyped
  <2> QED BY <2>4 DEF S
<1> QED BY <1>12, <1>13 DEF F, code

\* VERIFY.FORGET erases nothing.
LEMMA ForgetCode ==
  ASSUME NEW d \in Memory(Addresses), NEW i, NEW e,
         e = d \/ e = ForgetNFA(d, i)
  PROVE  e.code = d.code
BY ForgetIs

\* A FORGET runs every frame above HERE and leaves LAST-FORGET at a frame that is
\* left: the frames after it are some of those before it, and none is above HERE
\* (ForgetKeepsFrames).
THEOREM FramesKept == Spec => ForgetKeepsFrames
<1> DEFINE K == (\E n \in Names : Forget(n)) /\ FramesLive
                  => AreFrames' /\ \A a \in Frames' : a <= dic'.dp
<1>1. IInv /\ IInv' /\ [Next]_vars => [K]_vars
  <2> SUFFICES ASSUME IInv, IInv', FramesLive, NEW n \in Names, Forget(n)
               PROVE  AreFrames' /\ \A a \in Frames' : a <= dic'.dp
    OBVIOUS
  <2>1. dic \in Memory(Addresses) /\ dic' \in Memory(Addresses) /\ lastForget \in Addresses
    BY DEF IInv, Good, Sound, TypeOK
  <2>2. dic' = VerifyForget(dic, FindNFA(dic, n)) /\ lastForget' = FrameLeft(dic')
    BY DEF Forget
  <2>3. dic'.code = dic.code
    <3>1. dic' = dic \/ dic' = ForgetNFA(dic, FindNFA(dic, n))
      BY <2>2 DEF VerifyForget
    <3> QED BY <2>1, <3>1, ForgetCode
  <2>4. Frames = FramesOf(dic.code, lastForget) BY DEF Frames, FramesOf
  <2>5. Frames' = FramesOf(dic'.code, lastForget') BY DEF Frames, FramesOf
  <2>6. lastForget' = LeftOf(dic', lastForget) BY <2>2 DEF FrameLeft, LeftOf
  <2>7. \A a \in FramesOf(dic'.code, lastForget) :
          dic'.code[a].op = "frame" /\ dic'.code[a].arg < a
    BY <2>3, <2>4 DEF FramesLive, AreFrames
  <2>8. \A a \in FramesOf(dic'.code, LeftOf(dic', lastForget)) :
          a \in FramesOf(dic'.code, lastForget) /\ a <= dic'.dp
    BY <2>1, <2>7, LeftKeeps
  <2> QED BY <2>5, <2>6, <2>7, <2>8 DEF AreFrames
<1> QED BY <1>1, Invariant, PTL DEF Spec, ForgetKeepsFrames
=============================================================================
