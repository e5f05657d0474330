-------------------------------- MODULE Text --------------------------------
(***************************************************************************)
(* Text and numbers: ffSkip, ffScan, ffNumberQ of src/csrc/pf_words.c, and *)
(* ffCompare and ConvertNumberToText of src/csrc/pf_text.c.  A text is the *)
(* sequence of its characters, each an unsigned byte.                      *)
(***************************************************************************)
EXTENDS Cells, Sequences, SequencesExt, FiniteSetsExt

TAB == 9
LF == 10
CR == 13
BLANK == 32
HASH == 35
DOLLAR == 36
PERCENT == 37
QUOTE == 39
DASH == 45

\* A "char" has a sign.
Char(x) == IF x % 256 >= 128 THEN (x % 256) - 256 ELSE x % 256

pfCharToUpper(x) == IF x \in 97 .. 122 THEN x - 32 ELSE x

-----------------------------------------------------------------------------
\* How many characters of s there are before the first of the places.
Before(s, places) == Min(places \cup {Len(s) + 1}) - 1

Skips(c, x) == IF c = BLANK THEN x \in {BLANK, TAB} ELSE x = c
Delimits(c, x) == IF c = BLANK THEN x \in {BLANK, CR, LF, TAB} ELSE x = c

\* The number of characters that are left out, where the code has an address
\* and a count of the rest.
ffSkip(s, c) == Before(s, {i \in DOMAIN s : ~Skips(c, s[i])})
ffScan(s, c) == Before(s, {i \in DOMAIN s : Delimits(c, s[i])})

\* What Word puts into gScratch, and by how much >IN grows.
Word(s, c) ==
  LET skipped == ffSkip(s, c)
      rest == SubSeq(s, skipped + 1, Len(s))
      nc == ffScan(rest, c)
  IN [text |-> [i \in 1 .. nc |-> pfCharToUpper(rest[i])], in |-> skipped + nc + 1]

\* -1 if s comes before t, 1 if it comes after t, 0 if they are the same.
ffCompare(s, t) ==
  LET n == Min({Len(s), Len(t)})
      differ == {i \in 1 .. n : s[i] # t[i]}
  IN IF differ # {} THEN IF Char(t[Min(differ)]) > Char(s[Min(differ)]) THEN -1 ELSE 1
     ELSE IF Len(s) < Len(t) THEN -1
     ELSE IF Len(s) > Len(t) THEN 1
     ELSE 0

-----------------------------------------------------------------------------
HexDigitToNumber(x) ==
  IF x \in 48 .. 57 THEN x - 48
  ELSE IF x \in 65 .. 70 THEN x - 65 + 10
  ELSE -1

BaseOf == [x \in {HASH, DOLLAR, PERCENT} |->
             IF x = HASH THEN 10 ELSE IF x = DOLLAR THEN 16 ELSE 2]

\* Is the text a number, and which?  A base prefix or a character in quotes
\* comes first, then a sign, then digits.
ffNumberQ(s, gVarBase) ==
  LET prefixed == s[1] \in DOMAIN BaseOf
      base == IF prefixed THEN BaseOf[s[1]] ELSE gVarBase
      body == IF prefixed THEN Tail(s) ELSE s
      minus == body # <<>> /\ body[1] = DASH
      digits == IF minus THEN Tail(body) ELSE body
      accum == FoldLeft(LAMBDA a, x : Wrap(a * base + HexDigitToNumber(x)), 0, digits)
  IN IF s[1] = QUOTE /\ Len(s) = 3 /\ s[3] = QUOTE THEN [ok |-> TRUE, num |-> Wrap(Char(s[2]))]
     ELSE IF \E i \in DOMAIN digits : HexDigitToNumber(digits[i]) \notin 0 .. base - 1
     THEN [ok |-> FALSE, num |-> 0]
     ELSE [ok |-> TRUE, num |-> IF minus THEN Minus(accum) ELSE accum]

CNTT_PAD_SIZE == NBITS + 2

NumberToDigit(n) == IF n < 10 THEN n + 48 ELSE n - 10 + 65

\* The digits of the absolute value, MinChars at least, and the sign.
ConvertNumberToText(Num, Base, IfSigned, MinChars) ==
  LET IfNegative == IfSigned /\ Negative(Num)
      uNum == IF IfNegative THEN Minus(Num) ELSE Num
      left[i \in 0 .. MinChars + NBITS] == IF i = 0 THEN uNum ELSE left[i - 1] \div Base
      n == Min({i \in MinChars .. MinChars + NBITS : left[i] = 0})
      digits == [i \in 1 .. n |-> NumberToDigit(left[n - i] % Base)]
  IN IF IfNegative THEN <<DASH>> \o digits ELSE digits

-----------------------------------------------------------------------------
(* The terminal: ioEmit and ioAccept of src/csrc/pf_io.c.                  *)

\* The column after text, which began in column n.
Column(n, text) == FoldLeft(LAMBDA k, x : IF x = LF THEN 0 ELSE k + 1, n, text)

BACKSPACE == 8
DELETE == 127

\* The length of the line, at most maxChars; what was stored in the buffer, which
\* may go on behind the line with characters that were deleted; what is left of
\* the input; and how many deletes were answered with EMIT( BACKSPACE ), ' ' and
\* BACKSPACE.  After its end every getchar answers -1, stored as a character.
ioAccept(input, maxChars) ==
  LET Typed(i) == IF i \in DOMAIN input THEN input[i] ELSE 255
      Edited(s, c) ==
        IF c \notin {BACKSPACE, DELETE}
          THEN [s EXCEPT !.len = @ + 1,
                         !.stored = SubSeq(@, 1, s.len) \o <<c>> \o SubSeq(@, s.len + 2, Len(@))]
          ELSE IF s.len = 0 THEN s ELSE [s EXCEPT !.len = @ - 1, !.erased = @ + 1]
      after[i \in 0 .. Len(input) + Max({0, maxChars})] ==
        IF i = 0 THEN [len |-> 0, stored |-> <<>>, erased |-> 0, taken |-> 0, got |-> FALSE]
        ELSE LET s == after[i - 1]
             IN IF s.got \/ s.len >= maxChars THEN s
                ELSE IF Typed(i) \in {CR, LF} THEN [s EXCEPT !.taken = i, !.got = TRUE]
                ELSE Edited([s EXCEPT !.taken = i], Typed(i))
      end == after[Len(input) + Max({0, maxChars})]
  IN [len |-> end.len, stored |-> end.stored, erased |-> end.erased,
      rest |-> SubSeq(input, end.taken + 1, Len(input))]

-----------------------------------------------------------------------------
\* Bytes copied one by one, upwards and downwards.
CopyUp(mem, src, dst, n) ==
  FoldLeft(LAMBDA c, i : [c EXCEPT ![dst + i] = c[src + i]], mem, [k \in 1 .. n |-> k - 1])
CopyDown(mem, src, dst, n) ==
  FoldLeft(LAMBDA c, i : [c EXCEPT ![dst + i] = c[src + i]], mem, [k \in 1 .. n |-> n - k])

\* Bits.
Bit(x, i) == (x \div 2 ^ i) % 2
FromBits(places) == FoldSet(LAMBDA i, x : x + 2 ^ i, 0, places)
And(x, y) == FromBits({i \in 0 .. NBITS - 1 : Bit(x, i) = 1 /\ Bit(y, i) = 1})
Or(x, y) == FromBits({i \in 0 .. NBITS - 1 : Bit(x, i) = 1 \/ Bit(y, i) = 1})
Xor(x, y) == FromBits({i \in 0 .. NBITS - 1 : Bit(x, i) # Bit(y, i)})

\* C's division goes towards 0.
Quotient(x, y) ==
  LET q == (IF x < 0 THEN -x ELSE x) \div (IF y < 0 THEN -y ELSE y)
  IN IF (x < 0) = (y < 0) THEN q ELSE -q
=============================================================================
