-------------------------------- MODULE Cells --------------------------------
(***************************************************************************)
(* Cells of NBITS bits and the double arithmetic pfCatch builds from them: *)
(* D+, D-, UM*, M*, UM/MOD and MU/MOD of src/csrc/pf_inner.c.  A cell is   *)
(* its unsigned value (ucell_t); Signed reads it as cell_t.  cell_t wraps, *)
(* as the Makefiles' compilers have it.                                    *)
(***************************************************************************)
EXTENDS Integers

CONSTANT NBITS     \* sizeof(ucell_t) * 8

ASSUME CellAssumption == NBITS \in Nat \ {0} /\ NBITS % 2 = 0

\* 1 << i
Power[i \in 0 .. NBITS] == IF i = 0 THEN 1 ELSE 2 * Power[i - 1]

HIGH_BIT == Power[NBITS - 1]
W == 2 * HIGH_BIT
Cell == 0 .. W - 1

Wrap(n) == n % W
Negative(x) == x >= HIGH_BIT
Signed(x) == IF Negative(x) THEN x - W ELSE x
Minus(x) == Wrap(-x)
\* (cell_t)(x ^ y) < 0
SignsDiffer(x, y) == Negative(x) # Negative(y)

FTRUE == W - 1
FFALSE == 0
Flag(b) == IF b THEN FTRUE ELSE FFALSE

HNBITS == NBITS \div 2
HALF == Power[HNBITS]
LOWER_HALF(n) == n % HALF
UPPER_HALF(n) == n \div HALF

\* The number a double cell stands for.
Double(lo, hi) == lo + W * hi
SignedDouble(lo, hi) == lo + W * Signed(hi)

-----------------------------------------------------------------------------
\* D+ ( al ah bl bh -- sl sh )
DPlus(al, ah, bl, bh) ==
  LET sl == Wrap(al + bl)
      carry == IF sl < bl THEN 1 ELSE 0
  IN <<sl, Wrap(carry + ah + bh)>>

\* D- ( al ah bl bh -- sl sh )
DMinus(al, ah, bl, bh) ==
  LET borrow == IF al < bl THEN 1 ELSE 0
  IN <<Wrap(al - bl), Wrap(ah - bh - borrow)>>

\* UM* ( a b -- lo hi ), by halves.
UMTimes(a, b) ==
  LET ahi == UPPER_HALF(a)  alo == LOWER_HALF(a)
      bhi == UPPER_HALF(b)  blo == LOWER_HALF(b)
      m1 == ahi * blo       m2 == alo * bhi       low == alo * blo
      lo == LOWER_HALF(m1) + LOWER_HALF(m2) + UPPER_HALF(low)
      hi == ahi * bhi + UPPER_HALF(m1) + UPPER_HALF(m2) + UPPER_HALF(lo)
  IN <<LOWER_HALF(lo) * HALF + LOWER_HALF(low), Wrap(hi)>>

\* M* ( a b -- pl ph ): UM* of the absolute values, then the sign.
MTimes(a, b) ==
  LET p == UMTimes(IF Negative(a) THEN Minus(a) ELSE a, IF Negative(b) THEN Minus(b) ELSE b)
      lo == Wrap((W - 1 - p[1]) + 1)
      hi == Wrap((W - 1 - p[2]) + (IF lo = 0 THEN 1 ELSE 0))
  IN IF SignsDiffer(a, b) THEN <<lo, hi>> ELSE p

\* DULT: is the unsigned double less?
DULT(al, ah, bl, bh) == ah < bh \/ (ah = bh /\ al < bl)

\* x | 1
SetBit0(x) == IF x % 2 = 0 THEN x + 1 ELSE x

\* Subtract b from a if it fits, and note that in q.
Subtract(s) ==
  IF DULT(s.al, s.ah, s.bl, s.bh) THEN s
  ELSE LET d == DMinus(s.al, s.ah, s.bl, s.bh)
       IN [s EXCEPT !.al = d[1], !.ah = d[2], !.q = SetBit0(@)]

\* The divisor goes right and the quotient left by one bit.
Shift(s) ==
  [s EXCEPT !.q = Wrap(2 * @),
            !.bl = @ \div 2 + (s.bh % 2) * HIGH_BIT,
            !.bh = @ \div 2]

\* UM/MOD ( al ah bdiv -- rem q ): NBITS rounds and a last subtraction.
UMSlashMod(al, ah, bdiv) ==
  LET round[i \in 0 .. NBITS] ==
        IF i = 0 THEN [al |-> al, ah |-> ah, bl |-> 0, bh |-> bdiv, q |-> 0]
        ELSE Shift(Subtract(round[i - 1]))
      end == Subtract(round[NBITS])
  IN <<end.al, end.q>>

\* "bdiv <= ah": take the divisor from the high cell.
Take(s, bdiv) ==
  IF bdiv <= s.ah THEN [s EXCEPT !.ah = @ - bdiv, !.ql = SetBit0(@)] ELSE s

\* Quotient and dividend go left by one bit, each cell's top bit into the next.
ShiftLeft(s) ==
  [qh |-> Wrap(2 * s.qh) + s.ql \div HIGH_BIT, ql |-> Wrap(2 * s.ql),
   ah |-> Wrap(2 * s.ah) + s.am \div HIGH_BIT,
   am |-> Wrap(2 * s.am) + s.al \div HIGH_BIT, al |-> Wrap(2 * s.al)]

\* MU/MOD ( al am bdiv -- rem ql qh ): 2 * NBITS rounds and a last subtraction.
MUSlashMod(al, am, bdiv) ==
  LET round[i \in 0 .. 2 * NBITS] ==
        IF i = 0 THEN [ah |-> 0, am |-> am, al |-> al, qh |-> 0, ql |-> 0]
        ELSE ShiftLeft(Take(round[i - 1], bdiv))
      end == Take(round[2 * NBITS], bdiv)
  IN <<end.ah, end.ql, end.qh>>

-----------------------------------------------------------------------------
\* (+LOOP)'s test: "is the limit crossed?" and not "is it a wrap-around?"
LimitCrossed(index, limit, delta) ==
  LET diff == Wrap(index - limit)
  IN SignsDiffer(diff, Wrap(diff + delta)) /\ SignsDiffer(diff, delta)
=============================================================================
