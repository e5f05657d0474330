----------------------------- MODULE HeapProofs -----------------------------
(***************************************************************************)
(* The allocator of pf_mem.c, for every pool, block size and size asked    *)
(* for: blocks in use and free nodes tile the pool, neighbouring nodes are *)
(* always merged, and so pfAllocMem says that there is no room only when   *)
(* no gap is large enough.  Then the heap words on it: validators, the     *)
(* copy of RESIZE, and what they keep of the blocks in use.                *)
(***************************************************************************)
EXTENDS Heap, SequenceTheorems, WellFoundedInduction, TLAPS

-----------------------------------------------------------------------------
(* Multiples of the block size.                                            *)

Multiple(x) == x % BlockSize = 0

\* A multiple is the block size, so many times.
LEMMA Times ==
  ASSUME NEW x \in Int
  PROVE  Multiple(x) <=> \E k \in Int : x = BlockSize * k
  <1>1. ASSUME Multiple(x) PROVE \E k \in Int : x = BlockSize * k
    BY <1>1, MemPoolAssumption DEF Multiple
  <1>2. ASSUME NEW k \in Int, x = BlockSize * k PROVE Multiple(x)
    BY <1>2, MemPoolAssumption DEF Multiple
  <1> QED BY <1>1, <1>2

\* Sums and differences of multiples are multiples.
LEMMA Sums ==
  ASSUME NEW x \in Int, NEW y \in Int, Multiple(x), Multiple(y)
  PROVE  Multiple(x + y) /\ Multiple(x - y)
  <1>1. PICK k \in Int : x = BlockSize * k
    BY Times
  <1>2. PICK m \in Int : y = BlockSize * m
    BY Times
  <1>3. BlockSize * k + BlockSize * m = BlockSize * (k + m)
        /\ BlockSize * k - BlockSize * m = BlockSize * (k - m)
    BY MemPoolAssumption
  <1>4. x + y = BlockSize * (k + m) /\ x - y = BlockSize * (k - m)
    BY <1>1, <1>2, <1>3
  <1>5. x + y \in Int /\ x - y \in Int /\ k + m \in Int /\ k - m \in Int
    OBVIOUS
  <1> QED BY <1>4, <1>5, Times

\* A positive multiple is at least a block.
LEMMA AtLeast ==
  ASSUME NEW x \in Int, Multiple(x), x > 0
  PROVE  x >= BlockSize
  BY MemPoolAssumption DEF Multiple

\* RoundDown is the largest multiple that is not larger.
LEMMA Rounded ==
  ASSUME NEW x \in Int
  PROVE  /\ RoundDown(x) \in Int /\ Multiple(RoundDown(x))
         /\ RoundDown(x) <= x /\ x < RoundDown(x) + BlockSize
  <1>1. RoundDown(x) \in Int
    BY MemPoolAssumption DEF RoundDown
  <1>2. Multiple(RoundDown(x))
    BY MemPoolAssumption DEF RoundDown, Multiple
  <1>3. RoundDown(x) <= x /\ x < RoundDown(x) + BlockSize
    BY MemPoolAssumption DEF RoundDown
  <1> QED BY <1>1, <1>2, <1>3

\* "Allocate in whole blocks": never less, never a block more.
LEMMA WholeBlocks ==
  ASSUME NEW x \in Int
  PROVE  /\ Whole(x) \in Int /\ Multiple(Whole(x))
         /\ x <= Whole(x) /\ Whole(x) < x + BlockSize
         /\ Multiple(x) => Whole(x) = x
  <1>1. /\ Whole(x) \in Int /\ Multiple(Whole(x))
        /\ x <= Whole(x) /\ Whole(x) < x + BlockSize
    <2>1. x + BlockSize - 1 \in Int /\ Whole(x) = RoundDown(x + BlockSize - 1)
      BY MemPoolAssumption DEF Whole, RoundUp
    <2>2. /\ Whole(x) \in Int /\ Multiple(Whole(x))
          /\ Whole(x) <= x + BlockSize - 1 /\ x + BlockSize - 1 < Whole(x) + BlockSize
      BY <2>1, Rounded
    <2> QED BY <2>2, MemPoolAssumption
  <1>2. ASSUME Multiple(x), Whole(x) # x PROVE FALSE
    <2>1. Multiple(Whole(x) - x)
      BY <1>1, <1>2, Sums
    <2>2. Whole(x) - x \in Int /\ Whole(x) - x > 0
      BY <1>1, <1>2
    <2>3. Whole(x) - x >= BlockSize
      BY <2>1, <2>2, AtLeast
    <2> QED BY <1>1, <2>3, MemPoolAssumption
  <1> QED BY <1>1, <1>2

\* The pool begins and ends at multiples, and has a block.
LEMMA PoolBounds ==
  /\ First \in Nat /\ End \in Nat /\ Multiple(First) /\ Multiple(End) /\ First < End
  /\ \A a \in Places : a \in Nat /\ First <= a /\ a < End /\ Multiple(a)
  /\ \A a \in First .. End - 1 : Multiple(a) => a \in Places
  <1>1. First \in Int /\ Multiple(First) /\ PoolAddr <= First /\ First < PoolAddr + BlockSize
    <2>1. First = Whole(PoolAddr) /\ PoolAddr \in Int
      BY MemPoolAssumption DEF First, Whole
    <2> QED BY <2>1, WholeBlocks
  <1> DEFINE room == PoolAddr + PoolSize - First
  <1>2. room \in Int /\ room >= BlockSize
    BY <1>1, MemPoolAssumption
  <1>3. RoundDown(room) \in Int /\ Multiple(RoundDown(room)) /\ room < RoundDown(room) + BlockSize
    BY <1>2, Rounded
  <1>4. End = First + RoundDown(room)
    BY DEF End
  <1> HIDE DEF room
  <1>5. End \in Int /\ Multiple(End) /\ First < End
    <2>1. Multiple(First + RoundDown(room))
      BY <1>1, <1>3, Sums
    <2>2. RoundDown(room) > 0
      BY <1>2, <1>3, MemPoolAssumption
    <2> QED BY <1>1, <1>3, <1>4, <2>1, <2>2
  <1>6. First \in Nat /\ End \in Nat
    BY <1>1, <1>5, MemPoolAssumption
  <1>7. ASSUME NEW a \in Places PROVE a \in Nat /\ First <= a /\ a < End /\ Multiple(a)
    <2>1. a \in Nat /\ First <= a /\ a < End /\ Multiple(a - First)
      BY <1>6 DEF Places, Multiple
    <2>2. a - First + First = a /\ a - First \in Int
      BY <1>6, <2>1
    <2> QED BY <1>1, <2>1, <2>2, Sums
  <1>8. ASSUME NEW a \in First .. End - 1, Multiple(a) PROVE a \in Places
    <2>1. Multiple(a - First)
      BY <1>1, <1>6, <1>8, Sums
    <2> QED BY <2>1 DEF Places, Multiple
  <1> QED BY <1>1, <1>5, <1>6, <1>7, <1>8
-----------------------------------------------------------------------------
(* The free list.                                                          *)

Distinct(l) == \A i, j \in DOMAIN l : l[i] = l[j] => i = j

\* A set of numbers has a least one.
LEMMA Least ==
  ASSUME NEW S \in SUBSET Nat, S # {}
  PROVE  Min(S) \in S /\ \A i \in S : Min(S) <= i
  <1> DEFINE R == {ss \in Nat \X Nat : ss[1] < ss[2]}
  <1>1. R = OpToRel(<, Nat)
    BY DEF OpToRel
  <1>2. IsWellFoundedOn(R, Nat)
    BY <1>1, NatLessThanWellFounded
  <1>3. PICK x \in S : \A y \in S : ~ (<<y, x>> \in R)
    <2> HIDE DEF R
    <2> QED BY <1>2, WFMin
  <1>4. ASSUME NEW y \in S PROVE x <= y
    <2>1. x \in Nat /\ y \in Nat
      OBVIOUS
    <2>2. ~ (y < x)
      BY <1>3, <2>1
    <2> QED BY <2>1, <2>2
  <1> QED BY <1>4 DEF Min

\* Where a node is in the list.
LEMMA InList ==
  ASSUME NEW S, NEW l \in Seq(S), NEW a \in Nodes(l)
  PROVE  Position(l, a) \in 1 .. Len(l) /\ l[Position(l, a)] = a
  BY DEF Position, Nodes

\* dllRemoveNode removes one node.
LEMMA UnlinkNode ==
  ASSUME NEW S, NEW l \in Seq(S), Distinct(l), NEW a \in Nodes(l)
  PROVE  /\ Unlink(l, a) \in Seq(S) /\ Distinct(Unlink(l, a))
         /\ Nodes(Unlink(l, a)) = Nodes(l) \ {a}
  <1> DEFINE p == Position(l, a)
             n == Len(l)
             r == Unlink(l, a)
  <1>1. n \in Nat /\ p \in 1 .. n /\ l[p] = a /\ DOMAIN l = 1 .. n
    BY InList
  <1>2. r = SubSeq(l, 1, p - 1) \o SubSeq(l, p + 1, n)
    BY DEF Unlink, RemoveAt
  <1> HIDE DEF p, n, r
  <1>3. /\ r \in Seq(S) /\ Len(r) = n - 1 /\ DOMAIN r = 1 .. n - 1
        /\ \A i \in 1 .. n - 1 : r[i] = IF i < p THEN l[i] ELSE l[i + 1]
    <2> DEFINE x == SubSeq(l, 1, p - 1)
               y == SubSeq(l, p + 1, n)
    <2>1. x \in Seq(S) /\ Len(x) = p - 1 /\ \A i \in 1 .. p - 1 : x[i] = l[i]
      <3>1. \A i \in 1 .. p - 1 : l[i] \in S
        BY <1>1
      <3> QED BY <1>1, <3>1, SubSeqProperties
    <2>2. y \in Seq(S) /\ Len(y) = n - p /\ \A i \in 1 .. n - p : y[i] = l[p + i]
      <3>1. \A i \in p + 1 .. n : l[i] \in S
        BY <1>1 DEF n
      <3>2. /\ y \in Seq(S) /\ Len(y) = IF p + 1 <= n THEN n - (p + 1) + 1 ELSE 0
            /\ \A i \in 1 .. n - (p + 1) + 1 : y[i] = l[p + 1 + i - 1]
        BY <1>1, <3>1, SubSeqProperties
      <3> HIDE DEF y
      <3>3. n - (p + 1) + 1 = n - p /\ \A i \in Int : p + 1 + i - 1 = p + i
        BY <1>1
      <3> QED BY <1>1, <3>2, <3>3
    <2> HIDE DEF x, y
    <2>3. /\ x \o y \in Seq(S) /\ Len(x \o y) = n - 1
          /\ \A i \in 1 .. n - 1 : (x \o y)[i] = IF i <= p - 1 THEN x[i] ELSE y[i - (p - 1)]
      <3>1. p - 1 + (n - p) = n - 1
        BY <1>1
      <3>2. /\ x \o y \in Seq(S) /\ Len(x \o y) = Len(x) + Len(y)
            /\ \A i \in 1 .. Len(x) + Len(y) : (x \o y)[i] = IF i <= Len(x) THEN x[i] ELSE y[i - Len(x)]
        BY <2>1, <2>2, ConcatProperties
      <3> QED BY <2>1, <2>2, <3>1, <3>2
    <2>4. r = x \o y
      BY <1>2 DEF x, y
    <2>5. ASSUME NEW i \in 1 .. n - 1 PROVE r[i] = IF i < p THEN l[i] ELSE l[i + 1]
      <3>1. CASE i <= p - 1
        BY <1>1, <2>1, <2>3, <2>4, <3>1
      <3>2. CASE ~ (i <= p - 1)
        <4>1. i - (p - 1) \in 1 .. n - p /\ p + (i - (p - 1)) = i + 1 /\ ~ (i < p)
          BY <1>1, <3>2
        <4> QED BY <2>2, <2>3, <2>4, <3>2, <4>1
      <3> QED BY <3>1, <3>2
    <2> QED BY <1>1, <2>3, <2>4, <2>5
  <1>4. \A i \in 1 .. n - 1 :
          \E k \in 1 .. n : k # p /\ r[i] = l[k] /\ k = IF i < p THEN i ELSE i + 1
    BY <1>1, <1>3
  <1>5. \A i, j \in 1 .. n : l[i] = l[j] => i = j
    BY <1>1 DEF Distinct
  <1>6. Distinct(r)
    <2> SUFFICES ASSUME NEW i \in 1 .. n - 1, NEW j \in 1 .. n - 1, r[i] = r[j] PROVE i = j
      BY <1>3 DEF Distinct
    <2>1. PICK k \in 1 .. n : k # p /\ r[i] = l[k] /\ k = IF i < p THEN i ELSE i + 1
      BY <1>4
    <2>2. PICK m \in 1 .. n : m # p /\ r[j] = l[m] /\ m = IF j < p THEN j ELSE j + 1
      BY <1>4
    <2>3. k = m
      BY <1>5, <2>1, <2>2
    <2> QED BY <1>1, <2>1, <2>2, <2>3
  <1>7. Nodes(r) \subseteq Nodes(l) \ {a}
    <2> SUFFICES ASSUME NEW i \in 1 .. n - 1 PROVE r[i] \in Nodes(l) \ {a}
      BY <1>3 DEF Nodes
    <2> QED BY <1>1, <1>4, <1>5 DEF Nodes
  <1>8. Nodes(l) \ {a} \subseteq Nodes(r)
    <2> SUFFICES ASSUME NEW k \in 1 .. n, l[k] # a PROVE l[k] \in Nodes(r)
      BY <1>1 DEF Nodes
    <2>1. CASE k < p
      BY <1>1, <1>3, <2>1 DEF Nodes
    <2>2. CASE k > p
      <3>1. k - 1 \in 1 .. n - 1 /\ r[k - 1] = l[k]
        BY <1>1, <1>3, <2>2
      <3> QED BY <1>3, <3>1 DEF Nodes
    <2> QED BY <1>1, <2>1, <2>2
  <1> QED BY <1>3, <1>6, <1>7, <1>8 DEF r

\* dllInsertNodeBefore and dllAddNodeToTail add one.
LEMMA LinkNode ==
  ASSUME NEW S, NEW l \in Seq(S), Distinct(l), NEW a \in S, a \notin Nodes(l), NEW r,
         r = LinkLast(l, a) \/ \E next \in Nodes(l) : r = LinkBefore(l, a, next)
  PROVE  r \in Seq(S) /\ Distinct(r) /\ Nodes(r) = Nodes(l) \cup {a}
  <1> DEFINE n == Len(l)
  <1>1. n \in Nat /\ DOMAIN l = 1 .. n
    OBVIOUS
  <1>2. \E p \in 1 .. n + 1 :
          /\ r \in Seq(S) /\ Len(r) = n + 1
          /\ \A i \in 1 .. n + 1 : r[i] = IF i < p THEN l[i] ELSE IF i = p THEN a ELSE l[i - 1]
    <2>1. CASE r = LinkLast(l, a)
      <3>1. n + 1 \in 1 .. n + 1 /\ r = Append(l, a)
        BY <1>1, <2>1 DEF LinkLast
      <3>2. /\ r \in Seq(S) /\ Len(r) = n + 1
            /\ \A i \in 1 .. n + 1 : r[i] = IF i < n + 1 THEN l[i] ELSE IF i = n + 1 THEN a ELSE l[i - 1]
        BY <3>1
      <3> QED BY <3>1, <3>2
    <2>2. ASSUME NEW next \in Nodes(l), r = LinkBefore(l, a, next)
          PROVE  \E p \in 1 .. n + 1 :
                   /\ r \in Seq(S) /\ Len(r) = n + 1
                   /\ \A i \in 1 .. n + 1 :
                        r[i] = IF i < p THEN l[i] ELSE IF i = p THEN a ELSE l[i - 1]
      <3> DEFINE p == Position(l, next)
                 x == SubSeq(l, 1, p - 1)
                 y == SubSeq(l, p, n)
                 z == <<a>>
      <3>1. p \in 1 .. n
        BY InList
      <3>2. r = x \o z \o y
        BY <2>2 DEF LinkBefore, InsertAt
      <3> HIDE DEF p
      <3>3. x \in Seq(S) /\ Len(x) = p - 1 /\ \A i \in 1 .. p - 1 : x[i] = l[i]
        BY <1>1, <3>1
      <3>4. y \in Seq(S) /\ Len(y) = n - p + 1 /\ \A i \in 1 .. n - p + 1 : y[i] = l[p + i - 1]
        BY <1>1, <3>1
      <3>5. z \in Seq(S) /\ Len(z) = 1 /\ z[1] = a
        OBVIOUS
      <3> HIDE DEF x, y, z, n
      <3>6. /\ x \o z \in Seq(S) /\ Len(x \o z) = p
            /\ \A i \in 1 .. p : (x \o z)[i] = IF i < p THEN l[i] ELSE a
        <4>1. p - 1 + 1 = p /\ \A i \in 1 .. p : IF i < p THEN i \in 1 .. p - 1 ELSE i - (p - 1) = 1
          BY <1>1, <3>1
        <4>2. /\ x \o z \in Seq(S) /\ Len(x \o z) = Len(x) + Len(z)
              /\ \A i \in 1 .. Len(x) + Len(z) : (x \o z)[i] = IF i <= Len(x) THEN x[i] ELSE z[i - Len(x)]
          BY <3>3, <3>5, ConcatProperties
        <4> QED BY <1>1, <3>1, <3>3, <3>5, <4>1, <4>2
      <3>7. /\ r \in Seq(S) /\ Len(r) = n + 1
            /\ \A i \in 1 .. n + 1 : r[i] = IF i <= p THEN (x \o z)[i] ELSE y[i - p]
        <4>1. p + (n - p + 1) = n + 1
          BY <1>1, <3>1
        <4> DEFINE v == x \o z
        <4>2. /\ v \o y \in Seq(S) /\ Len(v \o y) = Len(v) + Len(y)
              /\ \A i \in 1 .. Len(v) + Len(y) : (v \o y)[i] = IF i <= Len(v) THEN v[i] ELSE y[i - Len(v)]
          BY <3>4, <3>6, ConcatProperties
        <4> QED BY <3>2, <3>4, <3>6, <4>1, <4>2
      <3>8. ASSUME NEW i \in 1 .. n + 1
            PROVE  r[i] = IF i < p THEN l[i] ELSE IF i = p THEN a ELSE l[i - 1]
        <4>1. CASE i <= p
          <5>1. i \in 1 .. p
            BY <1>1, <3>1, <4>1
          <5>2. r[i] = IF i < p THEN l[i] ELSE a
            BY <3>6, <3>7, <4>1, <5>1
          <5> QED BY <1>1, <3>1, <4>1, <5>1, <5>2
        <4>2. CASE ~ (i <= p)
          <5>1. i - p \in 1 .. n - p + 1 /\ p + (i - p) - 1 = i - 1
            BY <1>1, <3>1, <4>2
          <5>2. r[i] = y[i - p]
            BY <3>7, <4>2
          <5>3. r[i] = l[i - 1] /\ ~ (i < p) /\ i # p
            BY <3>1, <3>4, <4>2, <5>1, <5>2
          <5> QED BY <5>3
        <4> QED BY <1>1, <3>1, <4>1, <4>2
      <3>9. p \in 1 .. n + 1
        BY <1>1, <3>1
      <3> QED BY <3>7, <3>8, <3>9
    <2> QED BY <2>1, <2>2
  <1>3. PICK p \in 1 .. n + 1 :
          /\ r \in Seq(S) /\ Len(r) = n + 1
          /\ \A i \in 1 .. n + 1 : r[i] = IF i < p THEN l[i] ELSE IF i = p THEN a ELSE l[i - 1]
    BY <1>2
  <1>4. DOMAIN r = 1 .. n + 1
    BY <1>3
  <1> HIDE DEF n
  <1>5. \A i \in 1 .. n + 1 :
          \/ i = p /\ r[i] = a
          \/ \E k \in 1 .. n : i # p /\ r[i] = l[k] /\ k = IF i < p THEN i ELSE i - 1
    BY <1>1, <1>3
  <1>6. \A i, j \in 1 .. n : l[i] = l[j] => i = j
    BY <1>1 DEF Distinct
  <1>7. \A k \in 1 .. n : l[k] # a
    BY <1>1 DEF Nodes
  <1>8. Distinct(r)
    <2> SUFFICES ASSUME NEW i \in 1 .. n + 1, NEW j \in 1 .. n + 1, r[i] = r[j] PROVE i = j
      BY <1>4 DEF Distinct
    <2> QED BY <1>1, <1>5, <1>6, <1>7
  <1>9. Nodes(r) \subseteq Nodes(l) \cup {a}
    BY <1>1, <1>4, <1>5 DEF Nodes
  <1>10. Nodes(l) \cup {a} \subseteq Nodes(r)
    <2>1. a \in Nodes(r)
      <3>1. p \in DOMAIN r /\ r[p] = a
        BY <1>1, <1>3, <1>4
      <3> QED BY <3>1 DEF Nodes
    <2>2. ASSUME NEW k \in 1 .. n PROVE l[k] \in Nodes(r)
      <3>1. CASE k < p
        BY <1>1, <1>3, <1>4, <3>1 DEF Nodes
      <3>2. CASE ~ (k < p)
        <4>1. k + 1 \in 1 .. n + 1 /\ r[k + 1] = l[k]
          BY <1>1, <1>3, <3>2
        <4> QED BY <1>4, <4>1 DEF Nodes
      <3> QED BY <3>1, <3>2
    <2> QED BY <1>1, <2>1, <2>2 DEF Nodes
  <1> QED BY <1>3, <1>8, <1>9, <1>10

-----------------------------------------------------------------------------
(* Blocks.                                                                 *)

\* Blocks that begin at the places S and are e long are the whole pool, and no
\* cell is in two of them.
Tiles(S, e) ==
  /\ S \subseteq Places
  /\ \A a \in S : e[a] \in Nat \ {0} /\ Multiple(e[a]) /\ a + e[a] <= End
  /\ \A a, b \in S : a < b => a + e[a] <= b
  /\ \A c \in First .. End - 1 : \E a \in S : a <= c /\ c < a + e[a]

\* Where a block ends.
After(a, e) == a + e[a]

\* Only the extents of the blocks matter.
LEMMA SameTiles ==
  ASSUME NEW S, NEW e, NEW f, Tiles(S, e), \A a \in S : f[a] = e[a]
  PROVE  Tiles(S, f)
  BY DEF Tiles

\* Two neighbours become one block.
LEMMA Merge ==
  ASSUME NEW S, NEW e, NEW f, Tiles(S, e), NEW a \in S, NEW b \in S, After(a, e) = b,
         f[a] = e[a] + e[b], \A x \in S : x # a /\ x # b => f[x] = e[x]
  PROVE  Tiles(S \ {b}, f)
  <1>0. b = a + e[a]
    BY DEF After
  <1>1. \A x \in S : x \in Nat /\ e[x] \in Nat \ {0} /\ Multiple(e[x]) /\ x + e[x] <= End
    BY PoolBounds DEF Tiles
  <1>2. \A x \in S \ {b} :
          /\ f[x] \in Nat \ {0} /\ Multiple(f[x]) /\ x + f[x] <= End
          /\ x + f[x] = IF x = a THEN b + e[b] ELSE x + e[x]
    <2> SUFFICES ASSUME NEW x \in S \ {b}
                 PROVE  /\ f[x] \in Nat \ {0} /\ Multiple(f[x]) /\ x + f[x] <= End
                        /\ x + f[x] = IF x = a THEN b + e[b] ELSE x + e[x]
      OBVIOUS
    <2>1. CASE x = a
      <3>1. Multiple(e[a] + e[b])
        BY <1>0, <1>1, Sums, SMTT(30)
      <3> QED BY <1>0, <1>1, <2>1, <3>1, PoolBounds
    <2>2. CASE x # a
      BY <1>0, <1>1, <2>2
    <2> QED BY <2>1, <2>2
  <1>3. ASSUME NEW x \in S \ {b}, NEW y \in S \ {b}, x < y PROVE x + f[x] <= y
    <2>1. x + e[x] <= y /\ (a < y => a + e[a] <= y) /\ (b < y => b + e[b] <= y)
      BY <1>3 DEF Tiles
    <2> QED BY <1>0, <1>1, <1>2, <1>3, <2>1
  <1>4. ASSUME NEW c \in First .. End - 1 PROVE \E x \in S \ {b} : x <= c /\ c < x + f[x]
    <2>1. PICK x \in S : x <= c /\ c < x + e[x]
      BY DEF Tiles
    <2>2. a \in S \ {b} /\ c \in Int
      BY <1>0, <1>1, PoolBounds
    <2>3. CASE x = b
      BY <1>0, <1>1, <1>2, <2>1, <2>2, <2>3
    <2>4. CASE x # b
      <3>1. x = a => c < a + f[a]
        BY <1>0, <1>1, <1>2, <2>1, <2>2
      <3> QED BY <1>2, <2>1, <2>4, <3>1
    <2> QED BY <2>3, <2>4
  <1> QED BY <1>2, <1>3, <1>4 DEF Tiles

\* One block becomes two.
LEMMA Split ==
  ASSUME NEW S, NEW e, NEW f, Tiles(S, e), NEW a \in S, NEW n \in Nat \ {0}, n < e[a], Multiple(n),
         \A x \in S : x # a => f[x] = e[x], f[a] = n, f[a + n] = e[a] - n
  PROVE  Tiles(S \cup {a + n}, f) /\ a + n \notin S
  <1> DEFINE b == a + n
  <1>1. \A x \in S : x \in Nat /\ e[x] \in Nat \ {0} /\ Multiple(e[x]) /\ x + e[x] <= End
    BY PoolBounds DEF Tiles
  <1>2. b \in Nat /\ b \in Places
    <2>1. Multiple(b)
      <3>1. a \in Int /\ Multiple(a) /\ n \in Int
        BY PoolBounds DEF Tiles
      <3> QED BY <3>1, Sums
    <2>2. b \in First .. End - 1
      BY <1>1, PoolBounds DEF Tiles
    <2> QED BY <2>1, <2>2, PoolBounds
  <1>3. b \notin S
    BY <1>1 DEF Tiles
  <1>4. \A x \in S \cup {b} :
          /\ f[x] \in Nat \ {0} /\ Multiple(f[x]) /\ x + f[x] <= End
          /\ x + f[x] = IF x = a THEN b ELSE IF x = b THEN a + e[a] ELSE x + e[x]
    <2> SUFFICES ASSUME NEW x \in S \cup {b}
                 PROVE  /\ f[x] \in Nat \ {0} /\ Multiple(f[x]) /\ x + f[x] <= End
                        /\ x + f[x] = IF x = a THEN b ELSE IF x = b THEN a + e[a] ELSE x + e[x]
      OBVIOUS
    <2>1. CASE x = a
      <3>1. f[a] = n /\ e[a] \in Nat /\ a \in Nat /\ a + e[a] <= End /\ n \in Nat \ {0} /\ n < e[a]
        BY <1>1
      <3>2. a + n <= End
        BY <3>1, PoolBounds
      <3> QED BY <2>1, <3>1, <3>2
    <2>2. CASE x = b
      <3>1. Multiple(e[a] - n)
        <4>1. e[a] \in Int /\ Multiple(e[a]) /\ n \in Int
          BY <1>1
        <4> QED BY <4>1, Sums
      <3> QED BY <1>1, <1>3, <2>2, <3>1
    <2>3. CASE x # a /\ x # b
      BY <1>1, <2>3
    <2> QED BY <2>1, <2>2, <2>3
  <1>5. ASSUME NEW x \in S \cup {b}, NEW y \in S \cup {b}, x < y PROVE x + f[x] <= y
    <2>1. CASE x \in S /\ y \in S
      BY <1>1, <1>2, <1>3, <1>4, <1>5, <2>1 DEF Tiles
    <2>2. CASE x = b /\ y \in S
      <3>1. a < y /\ a + e[a] <= y
        BY <1>1, <1>2, <1>5, <2>2 DEF Tiles
      <3> QED BY <1>1, <1>4, <2>2, <3>1
    <2>3. CASE x \in S /\ y = b
      <3>1. x # a => x + e[x] <= a
        BY <1>1, <1>2, <1>5, <2>3 DEF Tiles
      <3> QED BY <1>1, <1>2, <1>4, <2>3, <3>1
    <2> QED BY <1>2, <1>5, <2>1, <2>2, <2>3
  <1>6. ASSUME NEW c \in First .. End - 1 PROVE \E x \in S \cup {b} : x <= c /\ c < x + f[x]
    <2>1. PICK x \in S : x <= c /\ c < x + e[x]
      BY DEF Tiles
    <2>2. c \in Int
      BY PoolBounds
    <2>3. CASE x = a
      <3>1. CASE c < b
        BY <1>4, <2>1, <2>3, <3>1
      <3>2. CASE ~ (c < b)
        <4>1. b <= c /\ c < b + f[b]
          BY <1>1, <1>2, <1>3, <1>4, <2>1, <2>2, <2>3, <3>2
        <4> QED BY <4>1
      <3> QED BY <3>1, <3>2
    <2>4. CASE x # a
      <3>1. c < x + f[x]
        BY <1>3, <1>4, <2>1, <2>4
      <3> QED BY <2>1, <3>1
    <2> QED BY <2>3, <2>4
  <1> QED BY <1>2, <1>3, <1>4, <1>5, <1>6 DEF Tiles

-----------------------------------------------------------------------------
(* pfFreeRawMem and pfAllocRawMem.                                         *)

\* A pool with the free list l and blocks in use at the places U, u long: they
\* tile it, and no node ends where another one begins.
Pool(l, sz, U, u) ==
  /\ l \in Seq(Places) /\ Distinct(l) /\ sz \in [Places -> 0 .. End - First]
  /\ U \cap Nodes(l) = {}
  /\ Tiles(U \cup Nodes(l), [a \in Places |-> IF a \in U THEN u[a] ELSE sz[a]])
  /\ \A a, b \in Nodes(l) : a + sz[a] # b

\* A block in use is given back: it is merged with the nodes before and after.
LEMMA FreeRaw ==
  ASSUME NEW l, NEW sz, NEW U, NEW u, NEW m \in Places, m \notin U, NEW k \in Int,
         Pool(l, sz, U \cup {m}, u), u[m] = Whole(k)
  PROVE  LET r == pfFreeRawMem(l, sz, m, k) IN Pool(r.list, r.size, U, u)
  <1> DEFINE n == Whole(k)
             lower == {a \in Nodes(l) : a + sz[a] = m}
             higher == AdjacentHigher(Nodes(l) \ lower, m + n)
             biggerAt == {i \in DOMAIN l : l[i] \notin lower \cup higher /\ sz[l[i]] >= n}
             merged == IF higher = {} THEN n ELSE n + sz[m + n]
             rest == IF higher = {} THEN l ELSE Unlink(l, m + n)
             kept == [a \in Places |-> IF a \in higher THEN 0 ELSE sz[a]]
             linked == IF biggerAt = {} THEN LinkLast(rest, m)
                       ELSE LinkBefore(rest, m, l[Min(biggerAt)])
             grown == CHOOSE a \in lower : TRUE
             r == pfFreeRawMem(l, sz, m, k)
             N == Nodes(l)
             S == U \cup {m} \cup N
             e == [a \in Places |-> IF a \in U \cup {m} THEN u[a] ELSE sz[a]]
  <1>1. /\ l \in Seq(Places) /\ Distinct(l) /\ sz \in [Places -> 0 .. End - First]
        /\ U \cap N = {} /\ m \notin N /\ m \notin U /\ Tiles(S, e)
        /\ \A a, b \in N : a + sz[a] # b
    BY DEF Pool
  <1>2. r = IF lower # {}
              THEN [list |-> rest, size |-> [kept EXCEPT ![grown] = @ + merged]]
              ELSE [list |-> linked, size |-> [kept EXCEPT ![m] = merged]]
    <2>1. m % BlockSize = 0
      BY PoolBounds DEF Multiple
    <2> QED BY <2>1 DEF pfFreeRawMem
  <1> HIDE DEF r
  <1>3. /\ S \subseteq Places /\ N \subseteq Places /\ U \subseteq Places
        /\ \A a \in S : a \in Nat /\ e[a] \in Nat \ {0} /\ Multiple(e[a]) /\ a + e[a] <= End
        /\ \A a \in N : e[a] = sz[a]
        /\ \A a \in U : e[a] = u[a]
        /\ e[m] = n
    <2>1. S \subseteq Places
      BY <1>1 DEF Tiles
    <2> QED BY <1>1, <2>1, PoolBounds DEF Tiles
  <1> HIDE DEF e
  <1>4. /\ higher = {} \/ higher = {m + n}
        /\ higher = {} <=> m + n \notin N
    <2>1. ASSUME m + n \in N PROVE m + n + sz[m + n] # m
      <3>1. m \in Nat /\ n \in Nat \ {0} /\ sz[m + n] \in Nat \ {0}
        BY <1>3, <2>1
      <3> QED BY <3>1
    <2> QED BY <2>1 DEF AdjacentHigher
  <1> HIDE DEF higher
  <1> DEFINE h == m + n
             M == N \ higher
             S1 == S \ higher
             e1 == [a \in Places |-> IF a = m THEN merged ELSE e[a]]
  <1>5. Tiles(S1, e1) /\ m \in S1
    <2>1. CASE higher = {}
      <3>1. \A a \in S : e1[a] = e[a]
        BY <1>3, <2>1
      <3> HIDE DEF e1, e, S
      <3> QED BY <1>1, <2>1, <3>1, SameTiles DEF S
    <2>2. CASE higher # {}
      <3>1. higher = {h} /\ h \in N /\ h \in S /\ m \in S /\ After(m, e) = h /\ h # m
        BY <1>3, <1>4, <2>2 DEF After
      <3>2. merged = e[m] + e[h] /\ \A x \in S : x \in Places
        BY <1>3, <2>2, <3>1
      <3> HIDE DEF merged, S, N, h
      <3>3. e1[m] = e[m] + e[h] /\ \A x \in S : x # m /\ x # h => e1[x] = e[x]
        BY <3>2
      <3> HIDE DEF e1
      <3>4. Tiles(S, e)
        BY <1>1
      <3>5. Tiles(S \ {h}, e1)
        <4>1. m \in S /\ h \in S /\ After(m, e) = h
          BY <3>1
        <4> HIDE DEF h
        <4> QED BY <3>3, <3>4, <4>1, Merge
      <3> QED BY <3>1, <3>5
    <2> QED BY <2>1, <2>2
  <1>6. /\ merged = e1[m] /\ merged \in Nat \ {0} /\ m + merged <= End
        /\ \A b \in M : m + merged # b
    <2>1. merged = e1[m]
      OBVIOUS
    <2>2. e1[m] \in Nat \ {0} /\ m + e1[m] <= End
      BY <1>5 DEF Tiles
    <2>3. ASSUME NEW b \in M PROVE m + merged # b
      <3>1. CASE higher = {}
        BY <1>4, <3>1
      <3>2. CASE higher # {}
        <4>1. h \in N /\ merged = n + sz[h] /\ b \in N /\ h + sz[h] # b
          BY <1>1, <1>4, <3>2
        <4>2. n \in Nat /\ sz[h] \in Nat /\ m \in Nat
          BY <1>3, <4>1
        <4> QED BY <4>1, <4>2
      <3> QED BY <3>1, <3>2
    <2> QED BY <2>1, <2>2, <2>3
  <1>7. /\ rest \in Seq(Places) /\ Distinct(rest) /\ Nodes(rest) = M
    <2>1. CASE higher = {}
      BY <1>1, <2>1
    <2>2. CASE higher # {}
      BY <1>1, <1>4, <2>2, UnlinkNode
    <2> QED BY <2>1, <2>2
  <1>8. kept \in [Places -> 0 .. End - First] /\ \A a \in M : kept[a] = sz[a]
    BY <1>1, <1>3, PoolBounds
  <1>9. CASE lower = {}
    <2>1. r.list = linked /\ r.size = [kept EXCEPT ![m] = merged]
      BY <1>2, <1>9
    <2>2. linked \in Seq(Places) /\ Distinct(linked) /\ Nodes(linked) = M \cup {m}
      <3>1. m \notin Nodes(rest)
        BY <1>1, <1>7
      <3>2. CASE biggerAt = {}
        <4>1. linked = LinkLast(rest, m)
          BY <3>2
        <4> HIDE DEF linked, rest
        <4> QED BY <1>7, <3>1, <4>1, LinkNode
      <3>3. CASE biggerAt # {}
        <4>1. biggerAt \in SUBSET Nat
          BY <1>1
        <4>2. Min(biggerAt) \in biggerAt
          <5> HIDE DEF biggerAt
          <5> QED BY <3>3, <4>1, Least
        <4>3. l[Min(biggerAt)] \in Nodes(rest)
          BY <1>7, <4>2 DEF Nodes
        <4>4. linked = LinkBefore(rest, m, l[Min(biggerAt)])
          BY <3>3
        <4> HIDE DEF linked, rest, biggerAt
        <4> QED BY <1>7, <3>1, <4>3, <4>4, LinkNode
      <3> QED BY <3>2, <3>3
    <2> HIDE DEF linked, merged, kept, lower
    <2>3. /\ r.size \in [Places -> 0 .. End - First] /\ r.size[m] = merged
          /\ \A a \in M : r.size[a] = sz[a]
      BY <1>1, <1>3, <1>6, <1>8, <2>1, PoolBounds
    <2>4. \A a, b \in M \cup {m} : a + r.size[a] # b
      <3>1. \A a \in M : a + sz[a] # m
        BY <1>9 DEF lower
      <3>2. m + merged # m
        BY <1>3, <1>6
      <3> QED BY <1>1, <1>6, <2>3, <3>1, <3>2
    <2>5. U \cup (M \cup {m}) = S1 /\ U \cap (M \cup {m}) = {}
      BY <1>1, <1>4
    <2> DEFINE e2 == [x \in Places |-> IF x \in U THEN u[x] ELSE r.size[x]]
    <2>6. \A a \in S1 : e2[a] = e1[a]
      BY <1>1, <1>3, <2>3, <1>6
    <2>7. Tiles(U \cup (M \cup {m}), e2)
      <3> HIDE DEF e1, e2, S1, M
      <3> QED BY <1>5, <2>5, <2>6, SameTiles
    <2> QED BY <2>1, <2>2, <2>3, <2>4, <2>5, <2>7 DEF Pool, r
  <1>10. CASE lower # {}
    <2>1. r.list = rest /\ r.size = [kept EXCEPT ![grown] = @ + merged]
      BY <1>2, <1>10
    <2>2. grown \in N /\ grown + sz[grown] = m /\ grown \in M /\ grown # m
      <3>1. grown \in lower
        BY <1>10
      <3>2. grown \notin higher
        BY <1>3, <1>4, <3>1
      <3> QED BY <1>1, <3>1, <3>2
    <2> DEFINE g == grown
               e2 == [x \in Places |-> IF x \in U THEN u[x] ELSE r.size[x]]
    <2> HIDE DEF merged, kept, lower, grown, rest
    <2>3. e1[g] = sz[g] /\ After(g, e1) = m /\ g \in S1
      BY <1>3, <2>2 DEF After
    <2>4. \A a \in M : r.size[a] = IF a = g THEN sz[g] + merged ELSE sz[a]
      <3>1. M \subseteq Places
        BY <1>3
      <3> HIDE DEF M, g
      <3>2. ASSUME NEW a \in M, a = g PROVE r.size[a] = sz[g] + merged
        BY <1>8, <2>1, <2>2, <3>1, <3>2 DEF g
      <3>3. ASSUME NEW a \in M, a # g PROVE r.size[a] = sz[a]
        BY <1>8, <2>1, <2>2, <3>1, <3>3 DEF g
      <3> QED BY <3>2, <3>3
    <2>5. U \cup M = S1 \ {m} /\ U \cap M = {}
      BY <1>1, <1>4
    <2>6. e2[g] = e1[g] + e1[m] /\ \A x \in S1 : x # g /\ x # m => e2[x] = e1[x]
      BY <1>1, <1>3, <1>6, <2>2, <2>3, <2>4
    <2>7. Tiles(U \cup M, e2)
      <3> HIDE DEF e1, e2, S1, M
      <3> QED BY <1>5, <2>3, <2>5, <2>6, Merge
    <2>8. r.size \in [Places -> 0 .. End - First]
      <3>1. sz[g] + merged \in 0 .. End - First
        BY <1>1, <1>3, <1>6, <2>2, PoolBounds, SMTT(30)
      <3>2. kept[g] = sz[g]
        BY <1>8, <2>2
      <3> QED BY <1>8, <2>1, <3>1, <3>2
    <2>9. \A a, b \in M : a + r.size[a] # b
      <3>1. g + (sz[g] + merged) = m + merged
        BY <1>1, <1>3, <1>6, <2>2
      <3> QED BY <1>1, <1>6, <2>4, <3>1
    <2> QED BY <1>7, <2>1, <2>5, <2>7, <2>8, <2>9 DEF Pool, r
  <1> QED BY <1>9, <1>10

\* Only the lengths of the blocks in use matter.
LEMMA SamePool ==
  ASSUME NEW l, NEW sz, NEW U, NEW u, NEW v, Pool(l, sz, U, u), \A a \in U : v[a] = u[a]
  PROVE  Pool(l, sz, U, v)
  <1> DEFINE S == U \cup Nodes(l)
             e == [a \in Places |-> IF a \in U THEN u[a] ELSE sz[a]]
             f == [a \in Places |-> IF a \in U THEN v[a] ELSE sz[a]]
  <1>1. Tiles(S, e)
    BY DEF Pool
  <1>2. \A a \in S : f[a] = e[a]
    BY <1>1 DEF Tiles
  <1>3. Tiles(S, f)
    <2> HIDE DEF S, e, f
    <2> QED BY <1>1, <1>2, SameTiles
  <1> QED BY <1>3 DEF Pool

\* A free node becomes a block in use.
LEMMA TakeNode ==
  ASSUME NEW l, NEW sz, NEW U, NEW u, NEW v, Pool(l, sz, U, u), NEW a \in Nodes(l),
         v[a] = sz[a], \A x \in U : v[x] = u[x]
  PROVE  Pool(Unlink(l, a), [sz EXCEPT ![a] = 0], U \cup {a}, v)
  <1> DEFINE N == Nodes(l)
             r == Unlink(l, a)
             z == [sz EXCEPT ![a] = 0]
             S == U \cup N
             e == [x \in Places |-> IF x \in U THEN u[x] ELSE sz[x]]
             f == [x \in Places |-> IF x \in U \cup {a} THEN v[x] ELSE z[x]]
  <1>1. /\ l \in Seq(Places) /\ Distinct(l) /\ sz \in [Places -> 0 .. End - First]
        /\ U \cap N = {} /\ Tiles(S, e)
        /\ \A x, y \in N : x + sz[x] # y
    BY DEF Pool
  <1>2. r \in Seq(Places) /\ Distinct(r) /\ Nodes(r) = N \ {a}
    BY <1>1, UnlinkNode
  <1>3. z \in [Places -> 0 .. End - First] /\ \A x \in N \ {a} : z[x] = sz[x]
    <2>1. a \in Places /\ N \subseteq Places
      BY <1>1 DEF Tiles
    <2> QED BY <1>1, <2>1, PoolBounds
  <1>4. U \cup {a} \cup (N \ {a}) = S /\ (U \cup {a}) \cap (N \ {a}) = {}
    BY <1>1
  <1>5. \A x \in S : f[x] = e[x]
    BY <1>1, <1>3 DEF Tiles
  <1>6. Tiles(S, f)
    <2> HIDE DEF S, e, f
    <2> QED BY <1>1, <1>5, SameTiles
  <1>7. \A x, y \in N \ {a} : x + z[x] # y
    BY <1>1, <1>3
  <1> QED BY <1>2, <1>3, <1>4, <1>6, <1>7 DEF Pool

\* A block in use is divided in two, where no other block begins.
LEMMA CutPlace ==
  ASSUME NEW l, NEW sz, NEW U, NEW u, Pool(l, sz, U, u), NEW a \in U,
         NEW n \in Nat \ {0}, n < u[a], Multiple(n)
  PROVE  a + n \in Places /\ a + n \notin U /\ a + n \notin Nodes(l)
  <1> DEFINE N == Nodes(l)
             b == a + n
             S == U \cup N
             e == [x \in Places |-> IF x \in U THEN u[x] ELSE sz[x]]
  <1>1. Tiles(S, e)
    BY DEF Pool
  <1>2. a \in S /\ S \subseteq Places /\ e[a] = u[a]
    BY <1>1 DEF Tiles
  <1>3. b \in Places /\ b \notin S
    <2>1. a \in Nat /\ a \in Int /\ Multiple(a) /\ u[a] \in Nat /\ a + u[a] <= End /\ First <= a
      <3>1. a \in Places /\ e[a] \in Nat /\ a + e[a] <= End
        BY <1>1, <1>2 DEF Tiles
      <3> HIDE DEF e
      <3> QED BY <1>2, <3>1, PoolBounds
    <2>2. n \in Int /\ n > 0
      OBVIOUS
    <2>3. Multiple(b) /\ b \in First .. End - 1
      <3>1. Multiple(b)
        BY <2>1, <2>2, Sums
      <3>2. b \in First .. End - 1
        BY <2>1, <2>2, PoolBounds
      <3> QED BY <3>1, <3>2
    <2>4. b \notin S
      <3> SUFFICES ASSUME b \in S PROVE FALSE
        OBVIOUS
      <3>1. a < b /\ b < a + u[a]
        BY <2>1
      <3>2. a + e[a] <= b
        BY <1>1, <1>2, <3>1 DEF Tiles
      <3> QED BY <1>2, <2>1, <3>1, <3>2
    <2> QED BY <2>3, <2>4, PoolBounds
  <1> QED BY <1>3

\* Both parts are blocks in use.
LEMMA CutBlock ==
  ASSUME NEW l, NEW sz, NEW U, NEW u, NEW v, Pool(l, sz, U, u), NEW a \in U,
         NEW n \in Nat \ {0}, n < u[a], Multiple(n),
         \A x \in U : x # a => v[x] = u[x], v[a] = n, v[a + n] = u[a] - n
  PROVE  Pool(l, sz, U \cup {a + n}, v)
  <1> DEFINE N == Nodes(l)
             b == a + n
             S == U \cup N
             e == [x \in Places |-> IF x \in U THEN u[x] ELSE sz[x]]
             f == [x \in Places |-> IF x \in U \cup {b} THEN v[x] ELSE sz[x]]
  <1>1. /\ l \in Seq(Places) /\ Distinct(l) /\ sz \in [Places -> 0 .. End - First]
        /\ U \cap N = {} /\ Tiles(S, e)
        /\ \A x, y \in N : x + sz[x] # y
    BY DEF Pool
  <1>2. a \in S /\ S \subseteq Places /\ e[a] = u[a]
    BY <1>1 DEF Tiles
  <1>3. b \in Places /\ b \notin S
    BY CutPlace
  <1>4. (\A x \in S : x # a => f[x] = e[x]) /\ f[a] = n /\ f[b] = e[a] - n /\ n < e[a]
    BY <1>1, <1>2, <1>3
  <1>5. Tiles(S \cup {b}, f)
    <2> HIDE DEF S, e, f
    <2>1. Tiles(S, e) /\ a \in S /\ n < e[a] /\ f[a + n] = e[a] - n /\ f[a] = n
      BY <1>1, <1>2, <1>4
    <2>2. \A x \in S : x # a => f[x] = e[x]
      BY <1>4
    <2> QED BY <2>1, <2>2, Split
  <1>6. S \cup {b} = U \cup {b} \cup N /\ (U \cup {b}) \cap N = {}
    BY <1>1, <1>3
  <1> QED BY <1>1, <1>3, <1>5, <1>6 DEF Pool

-----------------------------------------------------------------------------
(* The pool of the program.                                                *)

InUseAs(h) == {a \in Places : h[a] # 0}
LongAs(h) == [a \in Places |-> Whole(h[a])]

PoolInv == TypeOK /\ Pool(list, size, InUseAs(held), LongAs(held))

\* The blocks of the pool are well formed and none is free and in use.
LEMMA PoolFacts ==
  ASSUME PoolInv
  PROVE  /\ list \in Seq(Places) /\ Distinct(list) /\ size \in [Places -> 0 .. End - First]
         /\ InUseAs(held) \cap Nodes(list) = {}
         /\ InUseAs(held) \subseteq Places /\ Nodes(list) \subseteq Places
         /\ \A a \in Nodes(list) : size[a] \in Nat \ {0} /\ Multiple(size[a]) /\ a + size[a] <= End
         /\ \A a \in InUseAs(held) :
              Whole(held[a]) \in Nat \ {0} /\ Multiple(Whole(held[a])) /\ a + Whole(held[a]) <= End
  <1> DEFINE U == InUseAs(held)
             S == U \cup Nodes(list)
             e == [a \in Places |-> IF a \in U THEN LongAs(held)[a] ELSE size[a]]
  <1>1. /\ list \in Seq(Places) /\ Distinct(list) /\ size \in [Places -> 0 .. End - First]
        /\ U \cap Nodes(list) = {} /\ Tiles(S, e)
    BY DEF PoolInv, Pool
  <1>2. S \subseteq Places
    BY <1>1 DEF Tiles
  <1>3. \A a \in S : e[a] \in Nat \ {0} /\ Multiple(e[a]) /\ a + e[a] <= End
    <2> HIDE DEF S, e
    <2> QED BY <1>1 DEF Tiles
  <1>4. \A a \in Nodes(list) : a \in S /\ e[a] = size[a]
    BY <1>1, <1>2
  <1>5. \A a \in U : a \in S /\ e[a] = Whole(held[a])
    BY <1>1, <1>2 DEF LongAs
  <1> HIDE DEF S, e
  <1> QED BY <1>1, <1>2, <1>3, <1>4, <1>5 DEF S

\* The pool at the start is one node.
LEMMA PoolInit == Init => PoolInv
  <1> SUFFICES ASSUME Init PROVE PoolInv
    OBVIOUS
  <1> DEFINE sz0 == [a \in Places |-> 0]
             pool == pfFreeRawMem(<<>>, sz0, First, End - First)
             u == [a \in Places |-> End - First]
             e == [a \in Places |-> IF a \in {First} THEN u[a] ELSE sz0[a]]
  <1>1. First \in Places /\ End - First \in Nat \ {0} /\ Multiple(End - First)
    <2>1. First \in Int /\ End \in Int /\ First < End /\ Multiple(First) /\ Multiple(End)
      BY PoolBounds
    <2>2. Multiple(End - First)
      BY <2>1, Sums
    <2>3. First \in First .. End - 1
      BY <2>1
    <2> QED BY <2>1, <2>2, <2>3, PoolBounds
  <1>2. e[First] = End - First /\ \A a \in Places : a \in Nat /\ First <= a /\ a < End
    BY <1>1, PoolBounds
  <1>3. Tiles({First}, e)
    <2> HIDE DEF e
    <2>1. First \in Nat /\ End \in Nat
      BY PoolBounds
    <2> QED BY <1>1, <1>2, <2>1 DEF Tiles
  <1>4. <<>> \in Seq(Places) /\ Distinct(<<>>) /\ Nodes(<<>>) = {}
    BY DEF Distinct, Nodes
  <1>5. sz0 \in [Places -> 0 .. End - First]
    BY <1>1
  <1>6. Pool(<<>>, sz0, {} \cup {First}, u)
    <2>1. {} \cup {First} \cup Nodes(<<>>) = {First} /\ {} \cup {First} = {First}
      BY <1>4
    <2> QED BY <1>3, <1>4, <1>5, <2>1 DEF Pool
  <1>7. u[First] = Whole(End - First) /\ End - First \in Int
    BY <1>1, WholeBlocks
  <1>8. Pool(pool.list, pool.size, {}, u)
    <2> HIDE DEF u, sz0
    <2>1. First \notin {}
      OBVIOUS
    <2> QED BY <1>1, <1>6, <1>7, <2>1, FreeRaw
  <1>9. /\ list = pool.list /\ size = pool.size
        /\ held = [a \in Places |-> 0] /\ asked = 0 /\ result = NULL
    BY DEF Init
  <1>10. InUseAs(held) = {}
    BY <1>9 DEF InUseAs
  <1>11. Pool(list, size, InUseAs(held), LongAs(held))
    <2> HIDE DEF u, pool
    <2>1. Pool(list, size, {}, u)
      BY <1>8, <1>9
    <2>2. Pool(list, size, {}, LongAs(held))
      BY <2>1, SamePool
    <2> QED BY <1>10, <2>2
  <1>12. TypeOK
    BY <1>1, <1>9, <1>11 DEF TypeOK, Pool
  <1> QED BY <1>11, <1>12 DEF PoolInv

\* pfAllocMem.
LEMMA PoolAlloc ==
  ASSUME PoolInv, NEW n \in Int, n \in Requests, pfAllocMem(n)
  PROVE  PoolInv'
  <1> DEFINE bytes == n + Header
             raw == Whole(bytes)
             largeAt == {i \in DOMAIN list : size[list[i]] >= raw}
             a == list[Min(largeAt)]
             U == InUseAs(held)
             u == LongAs(held)
             w == LongAs(held')
             l1 == Unlink(list, a)
             z1 == [size EXCEPT ![a] = 0]
             pool == Rest(l1, z1, a, raw)
  <1>1. CASE result' = NULL /\ UNCHANGED <<list, size, held>>
    <2>1. TypeOK'
      BY <1>1 DEF PoolInv, TypeOK, pfAllocMem
    <2>2. Pool(list', size', InUseAs(held'), LongAs(held'))
      BY <1>1 DEF PoolInv
    <2> QED BY <2>1, <2>2 DEF PoolInv
  <1>2. ASSUME n > 0, largeAt # {}, list' = pool.list, size' = pool.size,
               held' = [held EXCEPT ![a] = bytes], result' = a + Header
        PROVE  PoolInv'
    <2>1. a \in Nodes(list) /\ size[a] >= raw
      <3>1. largeAt \in SUBSET Nat
        BY PoolFacts
      <3>2. Min(largeAt) \in largeAt
        <4> HIDE DEF largeAt
        <4> QED BY <1>2, <3>1, Least
      <3> QED BY <3>2 DEF Nodes
    <2>2. /\ raw \in Nat \ {0} /\ Multiple(raw) /\ bytes <= raw /\ bytes \in Nat \ {0}
          /\ bytes = n + 1
      BY <1>2, WholeBlocks, MemPoolAssumption DEF Header
    <2> HIDE DEF raw, bytes, largeAt, a
    <2>3. a \in Places /\ size[a] \in Nat \ {0} /\ Multiple(size[a]) /\ a + size[a] <= End /\ a \notin U
      BY <2>1, PoolFacts
    <2>4. a \in Nat /\ First <= a /\ a < End /\ First \in Nat /\ End \in Nat
      BY <2>3, PoolBounds
    <2>5. held' \in [Places -> 0 .. End - First] /\ held'[a] = bytes
          /\ \A x \in Places : x # a => held'[x] = held[x]
      BY <1>2, <2>1, <2>2, <2>3, <2>4 DEF PoolInv, TypeOK
    <2>6. InUseAs(held') = U \cup {a}
      BY <2>2, <2>3, <2>5 DEF InUseAs
    <2>7. w[a] = raw /\ \A x \in U : w[x] = u[x]
      BY <2>3, <2>5 DEF LongAs, InUseAs, raw
    <2> DEFINE v1 == [x \in Places |-> IF x = a THEN size[a] ELSE u[x]]
    <2>8. Pool(l1, z1, U \cup {a}, v1)
      <3>1. v1[a] = size[a] /\ \A x \in U : v1[x] = u[x]
        BY <2>3 DEF InUseAs
      <3>2. Pool(list, size, U, u)
        BY DEF PoolInv
      <3> HIDE DEF v1, U, u
      <3> QED BY <2>1, <3>1, <3>2, TakeNode
    <2>9. Pool(list', size', U \cup {a}, w)
      <3>1. CASE size[a] - raw < BlockSize
        <4>1. size[a] = raw
          <5>1. Multiple(size[a] - raw) /\ size[a] - raw \in Int
            <6>1. size[a] \in Int /\ raw \in Int
              BY <2>2, <2>3
            <6>2. Multiple(size[a]) /\ Multiple(raw)
              BY <2>2, <2>3
            <6>3. Multiple(size[a] - raw)
              BY <6>1, <6>2, Sums
            <6> QED BY <6>1, <6>3
          <5>2. ~ (size[a] - raw > 0)
            BY <3>1, <5>1, AtLeast, MemPoolAssumption
          <5> QED BY <2>1, <2>2, <2>3, <5>2
        <4>2. list' = l1 /\ size' = z1
          BY <1>2, <3>1 DEF Rest
        <4>3. \A x \in U \cup {a} : w[x] = v1[x]
          BY <2>3, <2>7, <4>1 DEF InUseAs
        <4> HIDE DEF v1, U, w, l1, z1
        <4> QED BY <2>8, <4>2, <4>3, SamePool
      <3>2. CASE ~ (size[a] - raw < BlockSize)
        <4> DEFINE b == a + raw
                   k == size[a] - raw
                   v2 == [x \in Places |-> IF x = a THEN raw ELSE IF x = b THEN k ELSE u[x]]
        <4>1. k \in Int /\ raw < size[a] /\ Multiple(k) /\ k = Whole(k)
          <5>1. size[a] \in Int /\ raw \in Int
            BY <2>2, <2>3
          <5>2. Multiple(k) /\ k \in Int
            <6>1. Multiple(size[a]) /\ Multiple(raw)
              BY <2>2, <2>3
            <6>2. Multiple(k)
              BY <5>1, <6>1, Sums
            <6> QED BY <5>1, <6>2
          <5> QED BY <3>2, <5>1, <5>2, WholeBlocks, MemPoolAssumption
        <4>2. b \in Places /\ b # a
          <5>1. Multiple(b) /\ b \in Int
            <6>1. a \in Int /\ raw \in Int /\ Multiple(a)
              BY <2>2, <2>3, PoolBounds
            <6> QED BY <2>2, <6>1, Sums
          <5>2. b \in First .. End - 1 /\ b # a
            BY <2>2, <2>3, <2>4, <4>1
          <5> QED BY <5>1, <5>2, PoolBounds
        <4>3. Pool(l1, z1, U \cup {a}, v1) /\ a \in U \cup {a} /\ raw < v1[a] /\ v1[a] = size[a]
          BY <2>3, <2>8, <4>1
        <4>4. b \notin U \cup {a}
          <5> HIDE DEF U, v1, l1, z1
          <5> QED BY <2>2, <4>3, CutPlace
        <4>5. /\ v2[a] = raw /\ v2[a + raw] = v1[a] - raw
              /\ \A x \in U \cup {a} : x # a => v2[x] = v1[x]
          BY <2>3, <4>2, <4>4 DEF InUseAs
        <4>6. Pool(l1, z1, U \cup {a} \cup {b}, v2)
          <5> HIDE DEF U, v1, l1, z1, v2
          <5> QED BY <2>2, <4>3, <4>5, CutBlock
        <4>7. list' = pfFreeRawMem(l1, z1, b, k).list /\ size' = pfFreeRawMem(l1, z1, b, k).size
          BY <1>2, <3>2 DEF Rest
        <4>8. Pool(list', size', U \cup {a}, v2)
          <5>1. v2[b] = Whole(k)
            BY <4>1, <4>2
          <5> HIDE DEF U, v1, l1, z1, v2, b, k
          <5> QED BY <4>1, <4>2, <4>4, <4>6, <4>7, <5>1, FreeRaw
        <4>9. \A x \in U \cup {a} : w[x] = v2[x]
          BY <2>3, <2>7, <4>2, <4>4 DEF InUseAs
        <4> HIDE DEF v2, U, w
        <4> QED BY <4>8, <4>9, SamePool
      <3> QED BY <3>1, <3>2
    <2>10. TypeOK'
      <3>1. result' \in {NULL} \cup First .. End
        BY <1>2, <2>4 DEF Header
      <3>2. list' \in Seq(Places) /\ size' \in [Places -> 0 .. End - First]
        BY <2>9 DEF Pool
      <3>3. asked' \in Requests \cup {0}
        BY DEF pfAllocMem
      <3> QED BY <2>5, <3>1, <3>2, <3>3 DEF TypeOK
    <2> QED BY <2>6, <2>9, <2>10 DEF PoolInv
  <1> QED BY <1>1, <1>2 DEF pfAllocMem

\* pfFreeMem.
LEMMA PoolFree ==
  ASSUME PoolInv, NEW a \in Places, pfFreeMem(a)
  PROVE  PoolInv'
  <1> DEFINE U == InUseAs(held)
             u == LongAs(held)
             U2 == InUseAs(held')
             u2 == LongAs(held')
             r == pfFreeRawMem(list, size, a, held[a])
  <1>1. /\ held[a] # 0 /\ list' = r.list /\ size' = r.size
        /\ held' = [held EXCEPT ![a] = 0] /\ asked' = asked /\ result' = result
    BY DEF pfFreeMem
  <1>2. TypeOK /\ Pool(list, size, U, u)
    BY DEF PoolInv
  <1>3. held \in [Places -> 0 .. End - First] /\ First \in Nat /\ End \in Nat /\ First < End
    BY <1>2, PoolBounds DEF TypeOK
  <1>4. held[a] \in Int /\ u[a] = Whole(held[a])
    BY <1>3 DEF LongAs
  <1>5. U2 = U \ {a} /\ U2 \cup {a} = U /\ a \notin U2
    BY <1>1, <1>3 DEF InUseAs
  <1>6. Pool(list', size', U2, u)
    <2> HIDE DEF U, U2, u, r
    <2> QED BY <1>1, <1>2, <1>4, <1>5, FreeRaw DEF r
  <1>7. \A x \in U2 : u2[x] = u[x]
    BY <1>1, <1>3, <1>5 DEF LongAs, InUseAs
  <1>8. Pool(list', size', U2, u2)
    <2> HIDE DEF U2, u, u2
    <2> QED BY <1>6, <1>7, SamePool
  <1>9. held' \in [Places -> 0 .. End - First]
    BY <1>1, <1>3
  <1>10. TypeOK'
    BY <1>1, <1>2, <1>8, <1>9 DEF TypeOK, Pool
  <1> QED BY <1>8, <1>10 DEF PoolInv

LEMMA PoolStep == PoolInv /\ [Next]_vars => PoolInv'
  <1> SUFFICES ASSUME PoolInv, [Next]_vars PROVE PoolInv'
    OBVIOUS
  <1>1. ASSUME NEW n \in Requests, pfAllocMem(n) PROVE PoolInv'
    BY <1>1, PoolAlloc, MemPoolAssumption
  <1>2. ASSUME NEW a \in Places, pfFreeMem(a) PROVE PoolInv'
    BY <1>2, PoolFree
  <1>3. CASE UNCHANGED vars
    BY <1>3 DEF vars, PoolInv, TypeOK
  <1> QED BY <1>1, <1>2, <1>3 DEF Next

\* The blocks that PoolInv speaks of are those of Partition.
LEMMA PoolParts == PoolInv => Partition
  <1> SUFFICES ASSUME PoolInv PROVE Partition
    OBVIOUS
  <1> DEFINE U == InUseAs(held)
             S == U \cup Nodes(list)
             e == [a \in Places |-> IF a \in U THEN LongAs(held)[a] ELSE size[a]]
  <1>1. Distinct(list) /\ U \cap Nodes(list) = {} /\ Tiles(S, e) /\ U = InUse
    BY DEF PoolInv, Pool, InUse, InUseAs
  <1>2. /\ S \subseteq Places
        /\ \A a \in S : BlockOf(a) = a .. a + e[a] - 1
    <2>1. S \subseteq Places
      BY <1>1 DEF Tiles
    <2> QED BY <1>1, <2>1 DEF BlockOf, LongAs, InUseAs
  <1> HIDE DEF e, S
  <1>3. /\ \A a \in S : a \in Nat /\ First <= a /\ e[a] \in Nat \ {0} /\ a + e[a] <= End
        /\ First \in Nat /\ End \in Nat
    BY <1>1, <1>2, PoolBounds DEF Tiles
  <1>4. ASSUME NEW a \in S, NEW b \in S, a # b PROVE BlockOf(a) \cap BlockOf(b) = {}
    <2>1. a < b => a + e[a] <= b
      BY <1>1 DEF Tiles
    <2>2. b < a => b + e[b] <= a
      BY <1>1 DEF Tiles
    <2>3. a < b \/ b < a
      BY <1>3, <1>4
    <2>4. BlockOf(a) = a .. a + e[a] - 1 /\ BlockOf(b) = b .. b + e[b] - 1
      BY <1>2
    <2>5. /\ a \in Nat /\ e[a] \in Nat
          /\ b \in Nat /\ e[b] \in Nat
      BY <1>3
    <2> QED BY <2>1, <2>2, <2>3, <2>4, <2>5
  <1>5. ASSUME NEW a \in S PROVE BlockOf(a) \subseteq First .. End - 1
    BY <1>2, <1>3
  <1>6. ASSUME NEW c \in First .. End - 1 PROVE \E a \in S : c \in BlockOf(a)
    <2>1. PICK a \in S : a <= c /\ c < a + e[a]
      BY <1>1 DEF Tiles
    <2> QED BY <1>2, <1>3, <2>1
  <1>7. UNION {BlockOf(a) : a \in S} = First .. End - 1
    BY <1>5, <1>6
  <1> QED BY <1>1, <1>4, <1>7 DEF Partition, Distinct, S

-----------------------------------------------------------------------------
(* The promise.                                                            *)

Alive(h) == {[addr |-> a, size |-> h[a] - Header] : a \in InUseAs(h)}

\* The blocks that are alive are where the pool has blocks in use.
LEMMA AliveBlocks ==
  ASSUME PoolInv
  PROVE  /\ \A b \in Alive(held) : b.addr \in InUseAs(held) /\ Promise!Taken(b.size) = Whole(held[b.addr])
         /\ \A a \in InUseAs(held) : \E b \in Alive(held) :
              b.addr = a /\ Promise!Taken(b.size) = Whole(held[a])
  <1>1. \A a \in Places : held[a] \in Int
    BY PoolBounds DEF PoolInv, TypeOK
  <1>2. ASSUME NEW a \in Places PROVE Promise!Taken(held[a] - Header) = Whole(held[a])
    <2>1. held[a] - Header + Header + BlockSize - 1 = held[a] + BlockSize - 1
      BY <1>1, MemPoolAssumption DEF Header
    <2> QED BY <2>1 DEF Promise!Taken, Whole, RoundUp, RoundDown
  <1>3. \A b \in Alive(held) : \E a \in InUseAs(held) : b = [addr |-> a, size |-> held[a] - Header]
    BY DEF Alive
  <1>4. \A a \in InUseAs(held) : a \in Places /\ [addr |-> a, size |-> held[a] - Header] \in Alive(held)
    BY DEF Alive, InUseAs
  <1>5. ASSUME NEW b \in Alive(held)
        PROVE  b.addr \in InUseAs(held) /\ Promise!Taken(b.size) = Whole(held[b.addr])
    <2>1. PICK a \in InUseAs(held) : b = [addr |-> a, size |-> held[a] - Header]
      BY <1>3
    <2>2. b.addr = a /\ b.size = held[a] - Header
      BY <2>1
    <2> QED BY <1>2, <1>4, <2>2
  <1>6. ASSUME NEW a \in InUseAs(held)
        PROVE  \E b \in Alive(held) : b.addr = a /\ Promise!Taken(b.size) = Whole(held[a])
    <2> DEFINE b == [addr |-> a, size |-> held[a] - Header]
    <2>1. b \in Alive(held) /\ b.addr = a /\ b.size = held[a] - Header
      BY <1>4
    <2> QED BY <1>2, <1>4, <2>1
  <1> QED BY <1>5, <1>6

\* What it is to fit.
LEMMA FitsMeans ==
  ASSUME NEW a, NEW n
  PROVE  Promise!Fits(a, n) <=>
           /\ a >= First /\ a + Promise!Taken(n) <= End
           /\ \A b \in Alive(held) : b.addr + Promise!Taken(b.size) <= a \/ a + Promise!Taken(n) <= b.addr
  BY DEF Promise!Fits, Alive, InUse, InUseAs

\* A block where no other begins before its end is as good as free: this much
\* of a free node is.
LEMMA NodeFits ==
  ASSUME PoolInv, NEW a \in Nodes(list), NEW n \in Int, Whole(n + Header) <= size[a]
  PROVE  a \in Promise!Places /\ Promise!Fits(a, n)
  <1> DEFINE U == InUseAs(held)
             S == U \cup Nodes(list)
             e == [x \in Places |-> IF x \in U THEN LongAs(held)[x] ELSE size[x]]
             raw == Whole(n + Header)
  <1>1. Tiles(S, e) /\ U \cap Nodes(list) = {}
    BY DEF PoolInv, Pool
  <1>2. a \in S /\ e[a] = size[a] /\ a \in Places /\ First <= a /\ a \in Nat
        /\ e[a] \in Nat /\ a + e[a] <= End
    BY <1>1, PoolBounds, PoolFacts
  <1>3. \A b \in U : b \in S /\ e[b] = Whole(held[b]) /\ b \in Nat /\ e[b] \in Nat /\ b # a
    BY <1>1, PoolBounds, PoolFacts DEF LongAs
  <1>4. raw \in Int
    BY WholeBlocks, MemPoolAssumption DEF Header
  <1>5. Promise!Taken(n) = raw
    BY DEF Promise!Taken, Whole, RoundUp, RoundDown
  <1>6. First \in Nat /\ End \in Nat
    BY PoolBounds
  <1> HIDE DEF S, e, raw
  <1>7. ASSUME NEW b \in U PROVE b + Whole(held[b]) <= a \/ a + raw <= b
    <2>1. (b < a => b + e[b] <= a) /\ (a < b => a + e[a] <= b)
      BY <1>1, <1>2, <1>3 DEF Tiles
    <2> QED BY <1>2, <1>3, <1>4, <2>1 DEF raw
  <1>8. a + raw <= End
    BY <1>2, <1>4, <1>6 DEF raw
  <1>9. \A b \in Alive(held) : b.addr + Promise!Taken(b.size) <= a \/ a + Promise!Taken(n) <= b.addr
    BY <1>5, <1>7, AliveBlocks
  <1>10. Promise!Fits(a, n)
    BY <1>2, <1>5, <1>6, <1>8, <1>9, FitsMeans
  <1>11. a \in Promise!Places
    BY <1>2, <1>6 DEF Places, Promise!Places
  <1> QED BY <1>10, <1>11

\* Where a request fits there is a node that is large enough: nodes do not
\* follow one another, so a gap between blocks in use is one node.
LEMMA GapIsNode ==
  ASSUME PoolInv, NEW n \in Int, n > 0, NEW a \in Promise!Places, Promise!Fits(a, n)
  PROVE  \E b \in Nodes(list) : size[b] >= Whole(n + Header)
  <1> DEFINE N == Nodes(list)
             U == InUseAs(held)
             S == U \cup N
             e == [x \in Places |-> IF x \in U THEN LongAs(held)[x] ELSE size[x]]
             raw == Whole(n + Header)
  <1>1. Tiles(S, e) /\ U \cap N = {} /\ \A x, y \in N : x + size[x] # y
    BY DEF PoolInv, Pool
  <1>2. \A x \in S : x \in Nat /\ e[x] \in Nat \ {0} /\ x + e[x] <= End
    BY <1>1, PoolBounds DEF Tiles
  <1>3. /\ \A x \in N : x \in S /\ e[x] = size[x]
        /\ \A x \in U : x \in S /\ e[x] = Whole(held[x])
    BY <1>1, PoolFacts DEF LongAs
  <1>4. raw \in Nat \ {0}
    <2>1. n + Header \in Int /\ n + Header > 0
      BY DEF Header
    <2> QED BY <2>1, WholeBlocks
  <1>5. Promise!Taken(n) = raw
    BY DEF Promise!Taken, Whole, RoundUp, RoundDown
  <1>6. First \in Nat /\ End \in Nat
    BY PoolBounds
  <1> HIDE DEF e, raw
  <1>7. /\ a \in Nat /\ First <= a /\ a + raw <= End
        /\ \A x \in U : x + e[x] <= a \/ a + raw <= x
    <2>1. a >= First /\ a + raw <= End
          /\ \A b \in Alive(held) : b.addr + Promise!Taken(b.size) <= a \/ a + raw <= b.addr
      BY <1>5, FitsMeans
    <2>2. a \in Nat
      BY <1>6 DEF Promise!Places
    <2> QED BY <1>3, <2>1, <2>2, AliveBlocks
  <1>8. PICK b \in S : b <= a /\ a < b + e[b]
    <2>1. a \in First .. End - 1
      BY <1>4, <1>6, <1>7
    <2> QED BY <1>1, <2>1 DEF Tiles
  <1>9. b \in N
    BY <1>2, <1>4, <1>7, <1>8
  <1>10. a + raw <= b + e[b]
    <2> SUFFICES ASSUME b + e[b] < a + raw PROVE FALSE
      BY <1>2, <1>4, <1>7, <1>8
    <2> DEFINE d == b + e[b]
    <2>1. d \in Nat /\ a < d /\ d < a + raw /\ d \in First .. End - 1
      BY <1>2, <1>4, <1>6, <1>7, <1>8
    <2>2. PICK c \in S : c <= d /\ d < c + e[c]
      BY <1>1, <2>1 DEF Tiles
    <2>3. c = d
      <3>1. c < b => c + e[c] <= b
        BY <1>1, <1>8 DEF Tiles
      <3>2. b < c => b + e[b] <= c
        BY <1>1, <1>8 DEF Tiles
      <3> QED BY <1>2, <1>8, <2>1, <2>2, <3>1, <3>2
    <2>4. c \in U
      BY <1>1, <1>3, <1>9, <2>3
    <2>5. d + e[d] <= a \/ a + raw <= d
      BY <1>7, <2>3, <2>4
    <2>6. e[d] \in Nat \ {0}
      BY <1>2, <2>2, <2>3
    <2> HIDE DEF d
    <2> QED BY <1>4, <1>7, <2>1, <2>5, <2>6
  <1>11. size[b] >= raw
    BY <1>2, <1>3, <1>4, <1>7, <1>8, <1>9, <1>10
  <1> QED BY <1>9, <1>11 DEF raw

\* A step of the pool is a step of the promise, or none.
LEMMA KeepsPromise == PoolInv /\ [Next]_vars => [Promise!Next]_<<Alive(held), asked, result>>
  <1> SUFFICES ASSUME PoolInv, [Next]_vars
               PROVE  Promise!Next \/ UNCHANGED <<Alive(held), asked, result>>
    OBVIOUS
  <1>1. /\ list \in Seq(Places) /\ held \in [Places -> 0 .. End - First]
        /\ First \in Nat /\ End \in Nat
    BY PoolBounds DEF PoolInv, TypeOK
  <1>2. ASSUME NEW n \in Requests, pfAllocMem(n) PROVE Promise!Next
    <2> DEFINE bytes == n + Header
               raw == Whole(bytes)
               largeAt == {i \in DOMAIN list : size[list[i]] >= raw}
               a == list[Min(largeAt)]
    <2>1. n \in Int /\ asked' = n
      BY <1>2, MemPoolAssumption DEF pfAllocMem
    <2>2. CASE (n <= 0 \/ largeAt = {}) /\ result' = NULL /\ UNCHANGED <<list, size, held>>
      <3>1. ASSUME n > 0, NEW c \in Promise!Places, Promise!Fits(c, n) PROVE FALSE
        <4>1. PICK b \in Nodes(list) : size[b] >= raw
          BY <2>1, <3>1, GapIsNode
        <4>2. PICK i \in DOMAIN list : size[list[i]] >= raw
          BY <4>1 DEF Nodes
        <4> QED BY <2>1, <2>2, <3>1, <4>2
      <3>2. Alive(held') = Alive(held) /\ result' = Promise!NULL
        BY <2>2 DEF NULL, Promise!NULL
      <3>3. Promise!Alloc(n)
        BY <2>1, <3>1, <3>2 DEF Promise!Alloc, Alive, InUse, InUseAs
      <3> QED BY <3>3 DEF Promise!Next
    <2>3. CASE n > 0 /\ largeAt # {} /\ held' = [held EXCEPT ![a] = bytes] /\ result' = a + Header
      <3>1. a \in Nodes(list) /\ size[a] >= raw
        <4>1. largeAt \in SUBSET Nat
          BY <1>1
        <4>2. Min(largeAt) \in largeAt
          <5> HIDE DEF largeAt
          <5> QED BY <2>3, <4>1, Least
        <4> QED BY <4>2 DEF Nodes
      <3> HIDE DEF largeAt, a
      <3>2. a \in Places /\ size[a] \in Nat /\ raw \in Int /\ bytes \in Int
        BY <2>1, <3>1, PoolFacts, WholeBlocks DEF Header
      <3>3. a \in Promise!Places /\ Promise!Fits(a, n)
        BY <2>1, <3>1, <3>2, NodeFits
      <3>4. a \notin InUseAs(held)
        BY <3>1, PoolFacts
      <3>5. Alive(held') = Alive(held) \cup {[addr |-> a, size |-> n]}
        <4>1. InUseAs(held') = InUseAs(held) \cup {a} /\ held'[a] = n + 1
              /\ \A x \in InUseAs(held) : held'[x] = held[x]
          BY <1>1, <2>1, <2>3, <3>2, <3>4 DEF InUseAs, Header
        <4>2. held'[a] - Header = n
          BY <2>1, <4>1 DEF Header
        <4> QED BY <4>1, <4>2 DEF Alive
      <3>6. Promise!Alloc(n)
        BY <2>1, <2>3, <3>3, <3>5 DEF Promise!Alloc, Alive, InUse, InUseAs
      <3> QED BY <3>6 DEF Promise!Next
    <2> QED BY <1>2, <2>2, <2>3 DEF pfAllocMem
  <1>3. ASSUME NEW a \in Places, pfFreeMem(a) PROVE Promise!Next
    <2> DEFINE b == [addr |-> a, size |-> held[a] - Header]
    <2>1. a \in InUseAs(held) /\ held' = [held EXCEPT ![a] = 0] /\ asked' = asked /\ result' = result
      BY <1>3 DEF pfFreeMem, InUseAs
    <2>2. b \in Alive(held)
      BY <2>1 DEF Alive
    <2>3. InUseAs(held') = InUseAs(held) \ {a} /\ \A x \in InUseAs(held') : held'[x] = held[x]
      BY <1>1, <2>1 DEF InUseAs
    <2>4. \A x \in InUseAs(held) : x # a => [addr |-> x, size |-> held[x] - Header] # b
      OBVIOUS
    <2>5. Alive(held') = Alive(held) \ {b}
      <3> HIDE DEF b
      <3>1. Alive(held') = {[addr |-> x, size |-> held[x] - Header] : x \in InUseAs(held) \ {a}}
        BY <2>3 DEF Alive
      <3> QED BY <2>4, <3>1 DEF Alive, b
    <2>6. Promise!Free(b)
      BY <2>1, <2>5 DEF Promise!Free, Alive, InUse, InUseAs
    <2>7. b \in {[addr |-> x, size |-> held[x] - Header] : x \in InUse}
      BY <2>2 DEF Alive, InUse, InUseAs
    <2> HIDE DEF b
    <2> QED BY <2>6, <2>7 DEF Promise!Next, Promise!Free
  <1>4. CASE UNCHANGED vars
    BY <1>4 DEF vars, Alive, InUseAs
  <1> QED BY <1>2, <1>3, <1>4 DEF Next

-----------------------------------------------------------------------------
(* ALLOCATE, FREE and RESIZE.                                              *)

\* The words use the pool only through pfAllocMem and pfFreeMem.
LEMMA WordsUsePool == HeapTypeOK /\ [HeapNext]_heapVars => [Next]_vars
  <1> SUFFICES ASSUME HeapTypeOK, [HeapNext]_heapVars PROVE [Next]_vars
    OBVIOUS
  <1>1. ASSUME NEW n \in Sizes PROVE 1 + n \in Requests /\ n + 1 \in Requests /\ 2 \in Requests
    BY HeapAssumption
  <1>2. ASSUME NEW n \in Sizes, ALLOCATE(n) PROVE Next
    <2>1. (IF n = 0 THEN 1 ELSE n) + 1 \in Requests
      BY <1>1, HeapAssumption
    <2> QED BY <1>2, <2>1 DEF ALLOCATE, Next
  <1>3. ASSUME NEW u \in UserAddresses, Release(u - 1) PROVE [Next]_vars
    <2>1. u - 1 - Header \in Places
      BY PoolBounds DEF UserAddresses, Header
    <2> QED BY <1>3, <2>1 DEF Release, Next
  <1>4. ASSUME NEW u \in UserAddresses \cup {0}, FREE(u) PROVE [Next]_vars
    BY <1>3, <1>4 DEF FREE, Valid
  <1>5. ASSUME NEW u \in UserAddresses, NEW n \in Sizes, RESIZE(u, n) PROVE [Next]_vars
    BY <1>1, <1>5 DEF RESIZE, Next
  <1>6. ASSUME ResizeFrees PROVE [Next]_vars
    BY <1>3, <1>6 DEF ResizeFrees
  <1>7. ASSUME NEW raw \in Places, NEW v \in Values, Fill(raw, v) PROVE UNCHANGED vars
    BY <1>7 DEF Fill
  <1>8. CASE UNCHANGED heapVars
    BY <1>8 DEF heapVars
  <1> QED BY <1>2, <1>4, <1>5, <1>6, <1>7, <1>8 DEF HeapNext

\* A place of the pool has room for a header, a validator and a cell.
LEMMA Room ==
  /\ First \in Nat /\ End \in Nat /\ Cells \subseteq Nat /\ BlockSize \in Nat /\ BlockSize >= 3
  /\ \A a \in Places : a \in Cells /\ a + 1 \in Cells /\ a + 2 \in Cells /\ a \in Nat /\ First <= a
  /\ Cells \cap Values = {} /\ DEAD \notin Cells /\ DEAD \notin Values
  /\ \A u \in UserAddresses : u \in Nat /\ u - 2 \in Places /\ u # 0
  /\ \A a \in Places : a + 2 \in UserAddresses
  <1>1. First \in Nat /\ End \in Nat /\ Cells \subseteq Nat /\ BlockSize \in Nat /\ BlockSize >= 3
    BY PoolBounds, HeapAssumption, MemPoolAssumption DEF Cells
  <1>2. ASSUME NEW a \in Places
        PROVE  a \in Cells /\ a + 1 \in Cells /\ a + 2 \in Cells /\ a \in Nat /\ First <= a
    <2>1. a \in Nat /\ First <= a /\ a < End /\ Multiple(a) /\ Multiple(End)
      BY PoolBounds
    <2>2. Multiple(End - a)
      <3>1. a \in Int /\ End \in Int
        BY <1>1, <2>1
      <3> QED BY <2>1, <3>1, Sums
    <2>3. End - a >= BlockSize
      <3>1. End - a \in Int /\ End - a > 0
        BY <1>1, <2>1
      <3> QED BY <2>2, <3>1, AtLeast
    <2> QED BY <1>1, <2>1, <2>3 DEF Cells
  <1>3. Cells \cap Values = {} /\ DEAD \notin Cells /\ DEAD \notin Values
    BY <1>1, HeapAssumption DEF DEAD
  <1>4. \A u \in UserAddresses : u \in Nat /\ u - 2 \in Places /\ u # 0
    BY <1>2 DEF UserAddresses
  <1>5. \A a \in Places : a + 2 \in UserAddresses
    BY DEF UserAddresses
  <1> QED BY <1>1, <1>2, <1>3, <1>4, <1>5

\* Blocks in use and nodes are apart.
LEMMA Apart ==
  ASSUME NEW l, NEW sz, NEW h, h \in [Places -> 0 .. End - First],
         Pool(l, sz, InUseAs(h), LongAs(h))
  PROVE  /\ \A a \in InUseAs(h) :
              /\ a \in Places /\ h[a] \in Nat \ {0} /\ Whole(h[a]) \in Nat
              /\ h[a] <= Whole(h[a]) /\ BlockSize <= Whole(h[a]) /\ a + Whole(h[a]) <= End
         /\ \A a, b \in InUseAs(h) : a < b => a + Whole(h[a]) <= b
         /\ \A a \in InUseAs(h), b \in Nodes(l) :
              /\ b \in Places /\ a # b
              /\ a < b => a + Whole(h[a]) <= b
              /\ b < a => b + BlockSize <= a
  <1> DEFINE U == InUseAs(h)
             S == U \cup Nodes(l)
             e == [a \in Places |-> IF a \in U THEN LongAs(h)[a] ELSE sz[a]]
  <1>1. U \cap Nodes(l) = {} /\ Tiles(S, e)
    BY DEF Pool
  <1>2. S \subseteq Places
    BY <1>1 DEF Tiles
  <1>3. \A a \in S : a \in Nat /\ e[a] \in Nat \ {0} /\ a + e[a] <= End /\ BlockSize <= e[a]
    <2> HIDE DEF S, e
    <2> TAKE a \in S
    <2>1. a \in Nat /\ e[a] \in Nat \ {0} /\ a + e[a] <= End /\ Multiple(e[a])
      BY <1>1, <1>2, PoolBounds DEF Tiles
    <2>2. e[a] \in Int /\ e[a] > 0
      BY <2>1
    <2>3. BlockSize <= e[a]
      BY <2>1, <2>2, AtLeast, MemPoolAssumption
    <2> QED BY <2>1, <2>3
  <1>4. \A a \in U : a \in S /\ e[a] = Whole(h[a])
    BY <1>2 DEF LongAs
  <1>5. \A a \in Nodes(l) : a \in S
    OBVIOUS
  <1>6. \A a, b \in S : a < b => a + e[a] <= b
    BY <1>1 DEF Tiles
  <1>7. ASSUME NEW a \in U PROVE h[a] \in Nat \ {0} /\ h[a] <= Whole(h[a])
    <2>1. h[a] \in Nat \ {0}
      BY PoolBounds DEF InUseAs
    <2> QED BY <2>1, WholeBlocks
  <1> HIDE DEF e, S
  <1>8. ASSUME NEW a \in U
        PROVE  /\ a \in Places /\ h[a] \in Nat \ {0} /\ Whole(h[a]) \in Nat
               /\ h[a] <= Whole(h[a]) /\ BlockSize <= Whole(h[a]) /\ a + Whole(h[a]) <= End
    BY <1>2, <1>3, <1>4, <1>7
  <1>9. ASSUME NEW a \in U, NEW b \in Nodes(l)
        PROVE  /\ b \in Places /\ a # b
               /\ a < b => a + Whole(h[a]) <= b
               /\ b < a => b + BlockSize <= a
    <2>1. a \in S /\ b \in S /\ b \in Places /\ a # b
      BY <1>1, <1>2, <1>4, <1>5
    <2>2. b < a => b + e[b] <= a
      BY <1>6, <2>1
    <2>3. a < b => a + Whole(h[a]) <= b
      BY <1>4, <1>6, <2>1
    <2>4. BlockSize \in Nat /\ a \in Nat /\ b \in Nat /\ e[b] \in Nat /\ BlockSize <= e[b]
      BY <1>3, <2>1, MemPoolAssumption
    <2> QED BY <2>1, <2>2, <2>3, <2>4
  <1>10. \A a, b \in U : a < b => a + Whole(h[a]) <= b
    BY <1>4, <1>6
  <1> QED BY <1>8, <1>9, <1>10

\* A cell of a block in use is of no other block, and of no node.
LEMMA OwnCells ==
  ASSUME NEW l, NEW sz, NEW h, h \in [Places -> 0 .. End - First],
         Pool(l, sz, InUseAs(h), LongAs(h)),
         NEW a \in InUseAs(h), NEW x \in Nat, a <= x, x < a + Whole(h[a])
  PROVE  /\ x \in Cells
         /\ \A b \in InUseAs(h) : b # a => x < b \/ b + Whole(h[b]) <= x
         /\ \A b \in Nodes(l) : x \notin b .. b + 2
  <1>1. /\ a \in Nat /\ First <= a /\ First \in Nat /\ End \in Nat
        /\ Whole(h[a]) \in Nat /\ a + Whole(h[a]) <= End
        /\ BlockSize \in Nat /\ BlockSize >= 3
    BY Apart, Room
  <1>2. x \in Cells
    BY <1>1 DEF Cells
  <1>3. ASSUME NEW b \in InUseAs(h), b # a PROVE x < b \/ b + Whole(h[b]) <= x
    <2>1. (a < b => a + Whole(h[a]) <= b) /\ (b < a => b + Whole(h[b]) <= a)
      BY Apart
    <2>2. b \in Nat /\ Whole(h[b]) \in Nat
      BY Apart, Room
    <2> QED BY <1>1, <1>3, <2>1, <2>2
  <1>4. ASSUME NEW b \in Nodes(l) PROVE x \notin b .. b + 2
    <2>1. a # b /\ (a < b => a + Whole(h[a]) <= b) /\ (b < a => b + BlockSize <= a) /\ b \in Places
      BY Apart
    <2>2. b \in Nat
      BY <2>1, Room
    <2> QED BY <1>1, <2>1, <2>2
  <1> QED BY <1>2, <1>3, <1>4

Memory == [Cells -> Cells \cup Values \cup {DEAD}]

\* What the allocator writes spares the blocks in use.
LEMMA LinkedCells ==
  ASSUME PoolInv', NEW c \in Memory
  PROVE  /\ Linked(c) \in Memory
         /\ \A x \in Cells : Linked(c)[x] = c[x] \/ Linked(c)[x] = DEAD
         /\ \A a \in InUseAs(held'), x \in Cells :
              a <= x /\ x < a + held'[a] => Linked(c)[x] = c[x]
         /\ \A a \in InUseAs(held') : c[a + 1] \notin Values => Linked(c)[a + 1] = c[a + 1]
  <1> DEFINE nodes == UNION {a .. a + 2 : a \in Nodes(list')}
             used == UNION {a .. a + held'[a] - 1 : a \in {b \in Places : held'[b] # 0}}
             r == [a \in Cells |-> IF a \in nodes \/ (a \notin used /\ c[a] \in Values)
                                   THEN DEAD ELSE c[a]]
  <1>1. Linked(c) = r
    BY DEF Linked
  <1>2. /\ held' \in [Places -> 0 .. End - First]
        /\ Pool(list', size', InUseAs(held'), LongAs(held'))
    BY DEF PoolInv, TypeOK
  <1>3. \A a \in InUseAs(held') :
          /\ a \in Nat /\ held'[a] \in Nat \ {0} /\ Whole(held'[a]) \in Nat
          /\ held'[a] <= Whole(held'[a]) /\ 3 <= Whole(held'[a])
    <2>1. \A a \in InUseAs(held') :
            /\ a \in Places /\ held'[a] \in Nat \ {0} /\ Whole(held'[a]) \in Nat
            /\ held'[a] <= Whole(held'[a]) /\ BlockSize <= Whole(held'[a])
      BY <1>2, Apart
    <2> QED BY <2>1, Room
  <1>4. ASSUME NEW a \in InUseAs(held'), NEW x \in Nat, a <= x, x < a + Whole(held'[a])
        PROVE  x \in Cells /\ x \notin nodes
    BY <1>2, <1>4, OwnCells
  <1>5. ASSUME NEW a \in InUseAs(held'), NEW x \in Cells, a <= x, x < a + held'[a]
        PROVE  r[x] = c[x]
    <2>1. x \in Nat /\ x < a + Whole(held'[a])
      BY <1>3, <1>5, Room
    <2>2. x \notin nodes
      BY <1>4, <1>5, <2>1
    <2>3. x \in used
      <3>1. x \in a .. a + held'[a] - 1
        BY <1>3, <1>5, <2>1
      <3> QED BY <3>1 DEF InUseAs
    <2> HIDE DEF nodes, used
    <2> QED BY <2>2, <2>3
  <1>6. ASSUME NEW a \in InUseAs(held'), c[a + 1] \notin Values PROVE r[a + 1] = c[a + 1]
    <2>1. a + 1 \in Nat /\ a <= a + 1 /\ a + 1 < a + Whole(held'[a])
      BY <1>3
    <2>2. a + 1 \in Cells /\ a + 1 \notin nodes
      BY <1>4, <2>1
    <2> HIDE DEF nodes, used
    <2> QED BY <1>6, <2>2
  <1>7. r \in Memory
    <2> HIDE DEF nodes, used
    <2> QED BY DEF Memory
  <1> HIDE DEF nodes, used
  <1>8. \A x \in Cells : r[x] = c[x] \/ r[x] = DEAD
    OBVIOUS
  <1> HIDE DEF r
  <1> QED BY <1>1, <1>5, <1>6, <1>7, <1>8

\* Every block in use has its validator, and any other cell with a validator
\* in it is one that RESIZE has copied there.
Validators ==
  /\ \A a \in InUseAs(held) : mem[a + 1] = a + 1
  /\ \A x \in Cells : mem[x] \in Cells => x \in stray \/ (mem[x] = x /\ x - 1 \in InUseAs(held))

HeapInv == PoolInv /\ HeapTypeOK /\ (resizing # DAMAGED => Validators)

LEMMA HeapStart == HeapInit => HeapInv
  <1> SUFFICES ASSUME HeapInit PROVE HeapInv
    OBVIOUS
  <1>1. PoolInv
    BY PoolInit DEF HeapInit
  <1>2. mem \in Memory /\ resizing = NULL /\ stray = {} /\ answer = 0
    BY DEF HeapInit, Memory
  <1>3. InUseAs(held) = {}
    BY DEF HeapInit, Init, InUseAs
  <1>4. Validators
    BY <1>3, Room DEF HeapInit, Validators
  <1> QED BY <1>1, <1>2, <1>4 DEF HeapInv, HeapTypeOK, PoolInv, Memory

\* pfAllocMem gives the program a block that was not in use, or nothing.
LEMMA AllocEffect ==
  ASSUME PoolInv, NEW n \in Requests, pfAllocMem(n)
  PROVE  /\ PoolInv' /\ n \in Int /\ \A b \in InUseAs(held) : b \in InUseAs(held') /\ held'[b] = held[b]
         /\ result' = NULL => UNCHANGED <<list, size, held>>
         /\ result' # NULL =>
              /\ n > 0 /\ result' - Header \in Places /\ result' - Header \notin InUseAs(held)
              /\ InUseAs(held') = InUseAs(held) \cup {result' - Header}
              /\ held'[result' - Header] = n + 1
  <1> DEFINE bytes == n + Header
             raw == Whole(bytes)
             largeAt == {i \in DOMAIN list : size[list[i]] >= raw}
             a == list[Min(largeAt)]
  <1>1. n \in Int /\ PoolInv'
    BY PoolAlloc, MemPoolAssumption
  <1>2. /\ list \in Seq(Places) /\ held \in [Places -> 0 .. End - First]
        /\ \A b \in Nodes(list) : b \in Places /\ b \notin InUseAs(held)
    BY PoolFacts DEF PoolInv, TypeOK
  <1>3. CASE result' = NULL /\ UNCHANGED <<list, size, held>>
    BY <1>1, <1>3
  <1>4. CASE n > 0 /\ largeAt # {} /\ held' = [held EXCEPT ![a] = bytes] /\ result' = a + Header
    <2>1. a \in Nodes(list)
      <3>1. largeAt \in SUBSET Nat
        BY <1>2
      <3>2. Min(largeAt) \in largeAt
        <4> HIDE DEF largeAt
        <4> QED BY <1>4, <3>1, Least
      <3> QED BY <3>2 DEF Nodes
    <2> HIDE DEF largeAt, a
    <2>2. a \in Places /\ a \notin InUseAs(held) /\ a \in Nat
      BY <1>2, <2>1, PoolBounds
    <2>3. result' - Header = a /\ result' # NULL
      BY <1>4, <2>2 DEF Header, NULL
    <2>4. held'[a] = n + 1 /\ \A b \in Places : b # a => held'[b] = held[b]
      BY <1>2, <1>4, <2>2 DEF Header
    <2>5. InUseAs(held') = InUseAs(held) \cup {a} /\ \A b \in InUseAs(held) : held'[b] = held[b]
      BY <1>1, <1>4, <2>2, <2>4 DEF InUseAs
    <2> QED BY <1>1, <1>4, <2>2, <2>3, <2>4, <2>5
  <1> QED BY <1>3, <1>4 DEF pfAllocMem

\* What an allocation does to the memory.
LEMMA AllocatedCells ==
  ASSUME HeapInv, resizing # DAMAGED, NEW n \in Requests, pfAllocMem(n), result' # NULL
  PROVE  LET a == result' - Header IN
           /\ Allocated \in Memory
           /\ \A x \in Cells : Allocated[x] \in Cells => mem[x] = Allocated[x]
           /\ \A b \in InUseAs(held), x \in Cells :
                b <= x /\ x < b + held[b] => Allocated[x] = mem[x]
           /\ \A b \in InUseAs(held) : Allocated[b + 1] = b + 1
  <1> DEFINE a == result' - Header
             L == Linked(mem)
  <1>1. PoolInv /\ PoolInv' /\ Validators /\ mem \in Memory
    BY AllocEffect DEF HeapInv, HeapTypeOK, Memory
  <1>2. /\ a \in Places /\ a \notin InUseAs(held) /\ InUseAs(held') = InUseAs(held) \cup {a}
        /\ \A b \in InUseAs(held) : b \in InUseAs(held') /\ held'[b] = held[b]
    BY <1>1, AllocEffect
  <1>3. /\ L \in Memory
        /\ \A x \in Cells : L[x] = mem[x] \/ L[x] = DEAD
        /\ \A b \in InUseAs(held'), x \in Cells :
              b <= x /\ x < b + held'[b] => L[x] = mem[x]
        /\ \A b \in InUseAs(held') : mem[b + 1] \notin Values => L[b + 1] = mem[b + 1]
    BY <1>1, LinkedCells
  <1>4. Allocated = [L EXCEPT ![a] = DEAD]
    BY DEF Allocated
  <1>5. Allocated \in Memory
    BY <1>3, <1>4 DEF Memory
  <1> HIDE DEF L
  <1>6. \A x \in Cells : Allocated[x] = IF x = a THEN DEAD ELSE L[x]
    BY <1>3, <1>4 DEF Memory
  <1>7. ASSUME NEW x \in Cells, Allocated[x] \in Cells PROVE mem[x] = Allocated[x]
    BY <1>3, <1>6, <1>7, Room
  <1>8. ASSUME NEW b \in InUseAs(held) PROVE a < b \/ b + Whole(held[b]) <= a
    <2>1. a \in InUseAs(held') /\ b \in InUseAs(held') /\ a # b /\ held'[b] = held[b]
      BY <1>2
    <2>2. held' \in [Places -> 0 .. End - First] /\ Pool(list', size', InUseAs(held'), LongAs(held'))
      BY <1>1 DEF PoolInv, TypeOK
    <2>3. b < a => b + Whole(held'[b]) <= a
      BY <2>1, <2>2, Apart
    <2>4. b \in Nat /\ a \in Nat
      BY <1>2, Room DEF InUseAs
    <2> QED BY <2>1, <2>3, <2>4
  <1>9. ASSUME NEW b \in InUseAs(held)
        PROVE  /\ b \in Nat /\ held[b] \in Nat \ {0} /\ Whole(held[b]) \in Nat
               /\ held[b] <= Whole(held[b]) /\ 3 <= Whole(held[b]) /\ a \in Nat
    <2>1. /\ b \in Places /\ held[b] \in Nat \ {0} /\ Whole(held[b]) \in Nat
          /\ held[b] <= Whole(held[b]) /\ BlockSize <= Whole(held[b])
      BY <1>1, Apart DEF PoolInv, TypeOK
    <2> QED BY <1>2, <2>1, Room
  <1>10. ASSUME NEW b \in InUseAs(held), NEW x \in Cells, b <= x, x < b + held[b]
         PROVE  Allocated[x] = mem[x]
    <2>1. x # a
      BY <1>8, <1>9, <1>10, Room
    <2>2. L[x] = mem[x]
      BY <1>2, <1>3, <1>10
    <2> QED BY <1>6, <2>1, <2>2
  <1>11. ASSUME NEW b \in InUseAs(held) PROVE Allocated[b + 1] = b + 1
    <2>1. b + 1 # a
      BY <1>8, <1>9
    <2>2. b + 1 \in Cells /\ mem[b + 1] = b + 1
      BY <1>1, Room DEF Validators, InUseAs
    <2>3. L[b + 1] = mem[b + 1]
      BY <1>2, <1>3, <2>2, Room
    <2> QED BY <1>6, <2>1, <2>2, <2>3
  <1> QED BY <1>5, <1>7, <1>10, <1>11

\* b's memory stays as it is.
Spared(b) ==
  /\ held'[b] = held[b]
  /\ \A x \in Cells : b + 2 <= x /\ x < b + held[b] => mem'[x] = mem[x]

LEMMA HeapAllocate ==
  ASSUME HeapInv, NEW n \in Sizes, ALLOCATE(n)
  PROVE  HeapInv' /\ \A b \in InUseAs(held) : Spared(b)
  <1> DEFINE k == (IF n = 0 THEN 1 ELSE n) + 1
             a == result' - Header
  <1>1. /\ k \in Requests /\ pfAllocMem(k) /\ resizing = NULL /\ resizing' = resizing /\ stray' = stray
        /\ \/ result' # NULL /\ mem' = Validated(Allocated, result') /\ answer' = 0
           \/ result' = NULL /\ mem' = mem /\ answer' = -1
    <2>1. k \in Requests
      BY HeapAssumption
    <2> QED BY <2>1 DEF ALLOCATE
  <1> HIDE DEF k
  <1>2. /\ PoolInv /\ Validators /\ mem \in Memory /\ stray \subseteq Cells
        /\ resizing # DAMAGED
    BY <1>1 DEF HeapInv, HeapTypeOK, Memory, NULL, DAMAGED
  <1>3. PoolInv' /\ \A b \in InUseAs(held) : b \in InUseAs(held') /\ held'[b] = held[b]
    BY <1>1, <1>2, AllocEffect
  <1>4. \A b \in InUseAs(held) : b \in Nat /\ held[b] \in Nat
    BY <1>2, Apart, Room DEF PoolInv, TypeOK
  <1>5. CASE result' = NULL
    <2>1. mem' = mem /\ answer' = -1 /\ held' = held
      BY <1>1, <1>2, <1>5, AllocEffect
    <2> QED BY <1>1, <1>2, <1>3, <2>1 DEF HeapInv, HeapTypeOK, PoolInv, Validators, Spared
  <1>6. CASE result' # NULL
    <2>1. mem' = [Allocated EXCEPT ![a + 1] = a + 1] /\ answer' = 0
          /\ a \in Places /\ a \notin InUseAs(held) /\ InUseAs(held') = InUseAs(held) \cup {a}
      <3>1. a \in Places /\ a \notin InUseAs(held) /\ InUseAs(held') = InUseAs(held) \cup {a}
        BY <1>1, <1>2, <1>6, AllocEffect
      <3>2. result' \in Int
        BY <1>3, PoolBounds DEF PoolInv, TypeOK, NULL
      <3>3. result' = a + 1
        <4>1. \A r \in Int : r = r - Header + 1
          BY DEF Header
        <4> QED BY <3>2, <4>1
      <3> QED BY <1>1, <1>6, <3>1, <3>3 DEF Validated, PF_MEMORY_VALIDATOR
    <2>2. /\ Allocated \in Memory
          /\ \A x \in Cells : Allocated[x] \in Cells => mem[x] = Allocated[x]
          /\ \A b \in InUseAs(held), x \in Cells :
                b <= x /\ x < b + held[b] => Allocated[x] = mem[x]
          /\ \A b \in InUseAs(held) : Allocated[b + 1] = b + 1
      BY <1>1, <1>2, <1>6, AllocatedCells
    <2> HIDE DEF a
    <2>3. a + 1 \in Cells /\ a \in Nat
      BY <2>1, Room
    <2>4. mem' \in Memory /\ \A x \in Cells : mem'[x] = IF x = a + 1 THEN a + 1 ELSE Allocated[x]
      BY <2>1, <2>2, <2>3 DEF Memory
    <2>5. ASSUME NEW b \in InUseAs(held), NEW x \in Cells, b <= x, x < b + held[b] PROVE x # a + 1
      <3>1. held' \in [Places -> 0 .. End - First] /\ Pool(list', size', InUseAs(held'), LongAs(held'))
        BY <1>3 DEF PoolInv, TypeOK
      <3>2. /\ a \in InUseAs(held') /\ b \in InUseAs(held') /\ a # b /\ held'[b] = held[b]
            /\ a < b => a + Whole(held'[a]) <= b
            /\ b < a => b + Whole(held'[b]) <= a
            /\ Whole(held'[a]) \in Nat /\ BlockSize <= Whole(held'[a])
            /\ Whole(held'[b]) \in Nat /\ held'[b] <= Whole(held'[b])
        BY <1>3, <2>1, <3>1, Apart
      <3> QED BY <1>4, <2>3, <2>5, <3>2, Room
    <2>6. Validators'
      <3>1. ASSUME NEW b \in InUseAs(held') PROVE mem'[b + 1] = b + 1
        BY <2>1, <2>2, <2>4, Room DEF InUseAs
      <3>2. ASSUME NEW x \in Cells, mem'[x] \in Cells
            PROVE  x \in stray' \/ (mem'[x] = x /\ x - 1 \in InUseAs(held'))
        <4>1. CASE x = a + 1
          BY <2>1, <2>3, <2>4, <4>1
        <4>2. CASE x # a + 1
          BY <1>1, <1>2, <2>1, <2>2, <2>4, <3>2, <4>2 DEF Validators
        <4> QED BY <4>1, <4>2
      <3> QED BY <3>1, <3>2 DEF Validators
    <2>7. ASSUME NEW b \in InUseAs(held) PROVE Spared(b)
      <3>1. ASSUME NEW x \in Cells, b + 2 <= x, x < b + held[b] PROVE mem'[x] = mem[x]
        <4>1. b <= x
          BY <1>4, <3>1, Room
        <4> QED BY <2>2, <2>4, <2>5, <3>1, <4>1
      <3> QED BY <1>3, <3>1 DEF Spared
    <2>8. HeapTypeOK'
      BY <1>1, <1>2, <1>3, <2>1, <2>4 DEF HeapInv, HeapTypeOK, PoolInv, Memory
    <2> QED BY <1>3, <2>6, <2>7, <2>8 DEF HeapInv
  <1> QED BY <1>5, <1>6

\* The end of FREE and of RESIZE.
LEMMA HeapRelease ==
  ASSUME HeapInv, resizing # DAMAGED, NEW u \in UserAddresses, Release(u - 1),
         mem' = Linked([mem EXCEPT ![u - 1] = DEAD]), stray' = stray,
         answer' \in {0, -1, -2, -3, -4}
  PROVE  /\ HeapInv' /\ resizing' \in {NULL, DAMAGED}
         /\ resizing' = DAMAGED \/ \A b \in InUseAs(held) : b # u - 2 => Spared(b)
  <1> DEFINE a == u - 2
             c == [mem EXCEPT ![a + 1] = DEAD]
  <1>1. a \in Places /\ a \in Nat /\ a + 1 \in Cells /\ u - 1 = a + 1 /\ u - 1 - Header = a
    BY Room DEF Header
  <1> HIDE DEF a
  <1>2. /\ PoolInv /\ Validators /\ mem \in Memory /\ stray \subseteq Cells
    BY DEF HeapInv, HeapTypeOK, Memory
  <1>3. /\ mem' = Linked(c)
        /\ \/ pfFreeMem(a) /\ resizing' = NULL
           \/ resizing' = DAMAGED /\ UNCHANGED vars
    BY <1>1 DEF Release
  <1>4. PoolInv' /\ resizing' \in {NULL, DAMAGED}
    BY <1>1, <1>2, <1>3, PoolStep DEF Next
  <1>5. c \in Memory /\ \A x \in Cells : c[x] = IF x = a + 1 THEN DEAD ELSE mem[x]
    BY <1>1, <1>2 DEF Memory
  <1> HIDE DEF c
  <1>6. /\ mem' \in Memory
        /\ \A x \in Cells : mem'[x] = c[x] \/ mem'[x] = DEAD
        /\ \A b \in InUseAs(held'), x \in Cells :
              b <= x /\ x < b + held'[b] => mem'[x] = c[x]
        /\ \A b \in InUseAs(held') : c[b + 1] \notin Values => mem'[b + 1] = c[b + 1]
    <2>1. /\ Linked(c) \in Memory
          /\ \A x \in Cells : Linked(c)[x] = c[x] \/ Linked(c)[x] = DEAD
          /\ \A b \in InUseAs(held'), x \in Cells :
                b <= x /\ x < b + held'[b] => Linked(c)[x] = c[x]
          /\ \A b \in InUseAs(held') : c[b + 1] \notin Values => Linked(c)[b + 1] = c[b + 1]
      BY <1>4, <1>5, LinkedCells
    <2> QED BY <1>3, <2>1
  <1>7. HeapTypeOK'
    BY <1>2, <1>4, <1>6 DEF PoolInv, HeapTypeOK, Memory
  <1>8. CASE resizing' = DAMAGED
    BY <1>4, <1>7, <1>8 DEF HeapInv
  <1>9. CASE pfFreeMem(a) /\ resizing' = NULL
    <2>1. /\ held \in [Places -> 0 .. End - First] /\ held[a] # 0
          /\ held' = [held EXCEPT ![a] = 0]
          /\ Pool(list, size, InUseAs(held), LongAs(held))
      BY <1>2, <1>9 DEF pfFreeMem, PoolInv, TypeOK
    <2>2. /\ InUseAs(held') = InUseAs(held) \ {a} /\ a \in InUseAs(held)
          /\ \A b \in InUseAs(held') : held'[b] = held[b]
      BY <1>1, <2>1 DEF InUseAs
    <2>3. ASSUME NEW b \in InUseAs(held') PROVE mem'[b + 1] = b + 1
      <3>1. b \in Places /\ b # a /\ b \in Nat /\ b + 1 \in Cells /\ mem[b + 1] = b + 1
        BY <1>2, <2>2, Room DEF Validators, InUseAs
      <3>2. c[b + 1] = b + 1
        BY <1>1, <1>5, <3>1
      <3> QED BY <1>6, <3>1, <3>2, Room
    <2>4. ASSUME NEW x \in Cells, mem'[x] \in Cells
          PROVE  x \in stray' \/ (mem'[x] = x /\ x - 1 \in InUseAs(held'))
      <3>1. mem'[x] = mem[x] /\ x # a + 1
        BY <1>5, <1>6, <2>4, Room
      <3>2. x - 1 # a
        BY <1>1, <3>1, Room
      <3> QED BY <1>2, <2>2, <2>4, <3>1, <3>2 DEF Validators
    <2>5. Validators'
      BY <2>3, <2>4 DEF Validators
    <2>6. ASSUME NEW b \in InUseAs(held), b # a PROVE Spared(b)
      <3>1. b \in InUseAs(held') /\ held'[b] = held[b]
        BY <2>2, <2>6
      <3>2. b \in Nat /\ Whole(held[b]) \in Nat /\ held[b] \in Nat /\ held[b] <= Whole(held[b])
            /\ Whole(held[a]) \in Nat /\ BlockSize <= Whole(held[a])
            /\ (a < b => a + Whole(held[a]) <= b) /\ (b < a => b + Whole(held[b]) <= a)
        BY <2>1, <2>2, <2>6, Apart, Room
      <3>3. ASSUME NEW x \in Cells, b + 2 <= x, x < b + held[b] PROVE mem'[x] = mem[x]
        <4>1. x # a + 1 /\ b <= x
          BY <1>1, <2>6, <3>2, <3>3, Room
        <4> QED BY <1>5, <1>6, <3>1, <3>3, <4>1
      <3> QED BY <3>1, <3>3 DEF Spared
    <2> QED BY <1>4, <1>7, <2>5, <2>6 DEF HeapInv, a
  <1> QED BY <1>3, <1>8, <1>9

LEMMA HeapFree ==
  ASSUME HeapInv, NEW u \in UserAddresses \cup {0}, FREE(u)
  PROVE  /\ HeapInv' /\ resizing' \in {NULL, DAMAGED}
         /\ resizing' = DAMAGED \/ \A b \in InUseAs(held) : b # u - 2 => Spared(b)
  <1>1. resizing = NULL /\ resizing # DAMAGED /\ stray' = stray
    BY DEF FREE, NULL, DAMAGED
  <1>2. CASE Valid(u)
    <2>1. u \in UserAddresses /\ Release(u - 1) /\ mem' = Linked([mem EXCEPT ![u - 1] = DEAD])
          /\ answer' = 0
      BY <1>2 DEF FREE, Valid
    <2> QED BY <1>1, <2>1, HeapRelease
  <1>3. CASE ~Valid(u)
    <2>1. UNCHANGED <<vars, mem, resizing, stray>> /\ answer' = -2
      BY <1>1, <1>3 DEF FREE
    <2> QED BY <1>1, <2>1 DEF HeapInv, HeapTypeOK, TypeOK, PoolInv, Validators, Spared, vars
  <1> QED BY <1>2, <1>3

LEMMA HeapResizeFrees ==
  ASSUME HeapInv, ResizeFrees
  PROVE  /\ HeapInv' /\ resizing' \in {NULL, DAMAGED}
         /\ resizing' = DAMAGED \/ \A b \in InUseAs(held) : b # resizing - 2 => Spared(b)
  <1>1. /\ resizing \in UserAddresses /\ Release(resizing - 1)
        /\ mem' = Linked([mem EXCEPT ![resizing - 1] = DEAD]) /\ stray' = stray /\ answer' = answer
    BY DEF ResizeFrees
  <1>2. resizing # DAMAGED /\ answer' \in {0, -1, -2, -3, -4}
    BY <1>1, Room DEF DAMAGED, HeapInv, HeapTypeOK
  <1> QED BY <1>1, <1>2, HeapRelease

LEMMA HeapFill ==
  ASSUME HeapInv, NEW raw \in Places, NEW v \in Values, Fill(raw, v)
  PROVE  HeapInv' /\ \A b \in InUseAs(held) : b # raw => Spared(b)
  <1> DEFINE block == raw + 2 .. raw + held[raw] - 1
  <1>1. /\ resizing = NULL /\ raw \in InUseAs(held) /\ UNCHANGED <<vars, resizing, answer>>
        /\ mem' = [x \in Cells |-> IF x \in block THEN v ELSE mem[x]] /\ stray' = stray \ block
    BY DEF Fill, InUseAs
  <1>2. PoolInv /\ Validators /\ mem \in Memory /\ stray \subseteq Cells
    BY <1>1 DEF HeapInv, HeapTypeOK, Memory, NULL, DAMAGED
  <1>3. PoolInv' /\ held' = held
    BY <1>1, <1>2 DEF PoolInv, TypeOK, vars
  <1>4. /\ held \in [Places -> 0 .. End - First]
        /\ Pool(list, size, InUseAs(held), LongAs(held))
    BY <1>2 DEF PoolInv, TypeOK
  <1>5. ASSUME NEW b \in InUseAs(held)
        PROVE  /\ b \in Nat /\ held[b] \in Nat /\ held[b] <= Whole(held[b]) /\ Whole(held[b]) \in Nat
               /\ raw \in Nat /\ held[raw] \in Nat /\ held[raw] <= Whole(held[raw])
               /\ Whole(held[raw]) \in Nat /\ 3 <= Whole(held[b])
               /\ (raw < b => raw + Whole(held[raw]) <= b) /\ (b < raw => b + Whole(held[b]) <= raw)
    BY <1>1, <1>4, Apart, Room
  <1>6. ASSUME NEW b \in InUseAs(held) PROVE b + 1 \notin block
    BY <1>5
  <1>7. ASSUME NEW b \in InUseAs(held), b # raw, NEW x \in Cells, b + 2 <= x, x < b + held[b]
        PROVE  x \notin block
    BY <1>5, <1>7, Room
  <1> HIDE DEF block
  <1>8. mem' \in Memory
    BY <1>1, <1>2 DEF Memory
  <1>9. Validators'
    <2>1. ASSUME NEW b \in InUseAs(held) PROVE mem'[b + 1] = b + 1
      BY <1>1, <1>2, <1>6, Room DEF Validators, InUseAs
    <2>2. ASSUME NEW x \in Cells, mem'[x] \in Cells
          PROVE  x \in stray' \/ (mem'[x] = x /\ x - 1 \in InUseAs(held))
      BY <1>1, <1>2, <2>2, Room DEF Validators
    <2> QED BY <1>3, <2>1, <2>2 DEF Validators
  <1>10. HeapTypeOK'
    BY <1>1, <1>2, <1>3, <1>8 DEF HeapInv, HeapTypeOK, PoolInv, Memory
  <1>11. ASSUME NEW b \in InUseAs(held), b # raw PROVE Spared(b)
    BY <1>1, <1>3, <1>7, <1>11 DEF Spared
  <1> QED BY <1>3, <1>9, <1>10, <1>11 DEF HeapInv

\* RESIZE finds room: the new block has what the old one had.
LEMMA HeapResizeCopies ==
  ASSUME HeapInv, NEW u \in UserAddresses, NEW n \in Sizes, resizing = NULL, Valid(u),
         pfAllocMem(n + 1), result' # NULL, answer' = 0, resizing' = u,
         mem' = Validated(Copied(Allocated, u - 1, result', n), result'),
         stray' = StrayCopied(u - 1, result', n)
  PROVE  /\ HeapInv' /\ \A b \in InUseAs(held) : Spared(b)
         /\ held'[result' - Header] = n + 2 /\ result' \in Nat
         /\ \A k \in 1 .. n : k <= held[u - 2] - 2 => mem'[result' + k] = mem[u + k - 1]
  <1> DEFINE a == result' - Header
             o == u - 2
             to == a + 1
             from == o + 1
             W == to .. to + n
             foreign == stray \cup {x \in Cells : x >= from - 1 + held[from - 1]}
             copies == {to + k : k \in {j \in 1 .. n : from + j \in foreign /\ mem[from + j] \in Cells}}
  <1>1. /\ PoolInv /\ Validators /\ mem \in Memory /\ stray \subseteq Cells
        /\ resizing # DAMAGED
    BY DEF HeapInv, HeapTypeOK, Memory, NULL, DAMAGED
  <1>2. n \in Int /\ n + 1 \in Requests
    BY HeapAssumption
  <1>3. /\ PoolInv' /\ n + 1 > 0
        /\ \A b \in InUseAs(held) : b \in InUseAs(held') /\ held'[b] = held[b]
        /\ a \in Places /\ a \notin InUseAs(held) /\ InUseAs(held') = InUseAs(held) \cup {a}
        /\ held'[a] = n + 1 + 1
    BY <1>1, <1>2, AllocEffect
  <1>4. /\ Allocated \in Memory
        /\ \A x \in Cells : Allocated[x] \in Cells => mem[x] = Allocated[x]
        /\ \A b \in InUseAs(held), x \in Cells :
              b <= x /\ x < b + held[b] => Allocated[x] = mem[x]
        /\ \A b \in InUseAs(held) : Allocated[b + 1] = b + 1
    BY <1>1, <1>2, AllocatedCells
  <1>5. a + 1 = result' /\ result' \in Nat /\ a \in Nat /\ n \in Nat /\ held'[a] = n + 2
    <2>1. result' \in Int
      BY <1>3, PoolBounds DEF PoolInv, TypeOK, NULL
    <2>2. \A r \in Int : r = r - Header + 1
      BY DEF Header
    <2>3. a \in Nat /\ n \in Nat /\ held'[a] = n + 2
      BY <1>2, <1>3, Room
    <2>4. a + 1 = result'
      BY <2>1, <2>2
    <2> HIDE DEF a
    <2>5. a + 1 \in Nat
      BY <2>3
    <2> QED BY <2>3, <2>4, <2>5
  <1>6. u - 1 = from /\ o \in Places /\ o \in Nat /\ o + 1 = from
    BY Room
  <1> HIDE DEF a, o
  <1>7. /\ mem' = [Copied(Allocated, from, to, n) EXCEPT ![to] = to]
        /\ stray' = StrayCopied(from, to, n)
    BY <1>5, <1>6 DEF Validated, PF_MEMORY_VALIDATOR
  <1>8. /\ held' \in [Places -> 0 .. End - First]
        /\ Pool(list', size', InUseAs(held'), LongAs(held'))
        /\ held \in [Places -> 0 .. End - First]
        /\ Pool(list, size, InUseAs(held), LongAs(held))
    BY <1>1, <1>3 DEF PoolInv, TypeOK
  <1>9. /\ Whole(held'[a]) \in Nat /\ n + 2 <= Whole(held'[a]) /\ a + Whole(held'[a]) <= End
        /\ First <= a /\ First \in Nat /\ End \in Nat
    <2>1. a \in InUseAs(held')
      BY <1>3
    <2>2. Whole(held'[a]) \in Nat /\ held'[a] <= Whole(held'[a]) /\ a + Whole(held'[a]) <= End
      BY <1>8, <2>1, Apart
    <2> QED BY <1>3, <1>5, <2>2, Room
  <1>10. W \subseteq Cells /\ to \in W
    BY <1>5, <1>9 DEF Cells
  <1>11. ASSUME NEW b \in InUseAs(held)
         PROVE  /\ b \in Nat /\ held[b] \in Nat /\ held[b] <= Whole(held[b]) /\ Whole(held[b]) \in Nat
                /\ 3 <= Whole(held[b]) /\ b \in Places
                /\ (a < b => a + Whole(held'[a]) <= b) /\ (b < a => b + Whole(held[b]) <= a)
                /\ a # b
    <2>1. a \in InUseAs(held') /\ b \in InUseAs(held') /\ held'[b] = held[b] /\ a # b
      BY <1>3
    <2>2. /\ b \in Places /\ Whole(held'[b]) \in Nat /\ held'[b] \in Nat
          /\ held'[b] <= Whole(held'[b]) /\ BlockSize <= Whole(held'[b])
          /\ (a < b => a + Whole(held'[a]) <= b) /\ (b < a => b + Whole(held'[b]) <= a)
      BY <1>8, <2>1, Apart
    <2> QED BY <2>1, <2>2, Room
  <1>12. ASSUME NEW b \in InUseAs(held), NEW x \in Nat, b <= x, x < b + Whole(held[b])
         PROVE  x \notin W
    BY <1>5, <1>9, <1>11, <1>12
  <1>13. /\ mem' \in Memory
         /\ \A x \in Cells \ W : mem'[x] = Allocated[x]
         /\ mem'[to] = to
         /\ \A k \in 1 .. n : mem'[to + k] = IF from + k \in Cells \ W THEN Allocated[from + k] ELSE DEAD
    <2> DEFINE c == Copied(Allocated, from, to, n)
    <2>1. c = [x \in Cells |->
                 IF x \notin W THEN Allocated[x]
                 ELSE IF x - to + from \in Cells \ W THEN Allocated[x - to + from] ELSE DEAD]
      BY DEF Copied
    <2>2. c \in Memory
      <3> HIDE DEF W, to, from
      <3> QED BY <1>4, <2>1 DEF Memory
    <2>3. \A x \in Cells \ W : c[x] = Allocated[x]
      BY <2>1
    <2>4. ASSUME NEW k \in 1 .. n
          PROVE  to + k \in Cells /\ to + k # to
                 /\ c[to + k] = IF from + k \in Cells \ W THEN Allocated[from + k] ELSE DEAD
      <3>1. to + k \in W /\ to + k \in Cells /\ to + k # to /\ (to + k) - to + from = from + k
        BY <1>5, <1>6, <1>10
      <3> HIDE DEF W, to, from, c
      <3>2. \A x \in Cells : x \in W =>
              c[x] = IF x - to + from \in Cells \ W THEN Allocated[x - to + from] ELSE DEAD
        BY <2>1
      <3> QED BY <3>1, <3>2
    <2> HIDE DEF c, W
    <2>5. to \in Cells /\ mem' = [c EXCEPT ![to] = to]
      BY <1>7, <1>10 DEF c
    <2> HIDE DEF to, from
    <2>6. mem' \in Memory
      BY <2>2, <2>5 DEF Memory
    <2>7. \A x \in Cells : mem'[x] = IF x = to THEN to ELSE c[x]
      BY <2>2, <2>5 DEF Memory
    <2> QED BY <1>10, <2>3, <2>4, <2>5, <2>6, <2>7
  <1>14. stray' = (stray \ W) \cup copies
    BY <1>7 DEF StrayCopied
  <1>15. stray' \subseteq Cells
    <2>1. copies \subseteq W
      BY <1>5
    <2> QED BY <1>1, <1>10, <1>14, <2>1
  <1>16. ASSUME NEW b \in InUseAs(held) PROVE Spared(b)
    <2>1. ASSUME NEW x \in Cells, b + 2 <= x, x < b + held[b] PROVE mem'[x] = mem[x]
      <3>1. x \in Nat /\ b <= x /\ x < b + Whole(held[b])
        BY <1>11, <2>1, Room
      <3>2. x \notin W
        BY <1>12, <3>1
      <3> QED BY <1>4, <1>13, <2>1, <3>1, <3>2
    <2> QED BY <1>3, <2>1 DEF Spared
  <1>17. ASSUME NEW k \in 1 .. n, k <= held[o] - 2 PROVE mem'[to + k] = mem[from + k]
    <2>1. held[o] \in Nat /\ o \in InUseAs(held)
      BY <1>6, <1>8, <1>17, PoolBounds DEF InUseAs
    <2>2. from + k \in Nat /\ o <= from + k /\ from + k < o + held[o]
      BY <1>6, <1>17, <2>1
    <2>3. from + k < o + Whole(held[o])
      BY <1>6, <1>11, <2>1, <2>2
    <2>4. from + k \notin W
      BY <1>12, <2>1, <2>2, <2>3
    <2>5. from + k \in Cells
      BY <1>8, <2>1, <2>2, <2>3, OwnCells
    <2>6. Allocated[from + k] = mem[from + k]
      BY <1>4, <2>1, <2>2, <2>5
    <2> QED BY <1>13, <2>4, <2>5, <2>6
  <1>18. ASSUME NEW b \in InUseAs(held') PROVE mem'[b + 1] = b + 1
    <2>1. CASE b = a
      BY <1>13, <2>1
    <2>2. CASE b \in InUseAs(held)
      <3>1. b + 1 \in Nat /\ b <= b + 1 /\ b + 1 < b + Whole(held[b])
        BY <1>11, <2>2
      <3>2. b + 1 \notin W
        BY <1>12, <2>2, <3>1
      <3>3. b + 1 \in Cells
        BY <1>11, <2>2, Room
      <3> QED BY <1>4, <1>13, <2>2, <3>2, <3>3
    <2> QED BY <1>3, <2>1, <2>2
  <1>19. ASSUME NEW x \in Cells, mem'[x] \in Cells
         PROVE  x \in stray' \/ (mem'[x] = x /\ x - 1 \in InUseAs(held'))
    <2>1. CASE x \notin W
      BY <1>1, <1>3, <1>4, <1>13, <1>14, <1>19, <2>1 DEF Validators
    <2>2. CASE x = to
      BY <1>3, <1>5, <1>13, <2>2
    <2>3. CASE x \in W /\ x # to
      <3>1. PICK k \in 1 .. n : x = to + k
        <4>1. x - to \in 1 .. n /\ x = to + (x - to)
          BY <1>5, <2>3
        <4> QED BY <4>1
      <3>2. from + k \in Cells /\ mem'[x] = Allocated[from + k] /\ mem[from + k] \in Cells
        <4> HIDE DEF W, to, from
        <4> QED BY <1>4, <1>13, <1>19, <3>1, Room
      <3>3. from + k \in foreign
        <4>1. CASE from + k \in stray
          BY <4>1
        <4>2. CASE (from + k) - 1 \in InUseAs(held)
          <5>1. from - 1 = o /\ (from + k) - 1 = o + k /\ o + k # o /\ o < o + k /\ k \in Nat
            BY <1>6
          <5>2. held[o] \in Nat
            BY <1>6, <1>8, PoolBounds
          <5>3. CASE o \in InUseAs(held)
            <6>1. o + Whole(held[o]) <= o + k
              BY <1>8, <4>2, <5>1, <5>3, Apart
            <6>2. held[o] <= Whole(held[o]) /\ Whole(held[o]) \in Nat
              BY <1>11, <5>3
            <6>3. from + k >= from - 1 + held[from - 1]
              BY <1>6, <5>1, <5>2, <6>1, <6>2
            <6> QED BY <3>2, <6>3
          <5>4. CASE o \notin InUseAs(held)
            <6>1. held[o] = 0
              BY <1>6, <5>4 DEF InUseAs
            <6>2. from + k >= from - 1 + held[from - 1]
              BY <1>6, <5>1, <6>1
            <6> QED BY <3>2, <6>2
          <5> QED BY <5>3, <5>4
        <4>3. from + k \in stray \/ (from + k) - 1 \in InUseAs(held)
          <5>1. \A y \in Cells : mem[y] \in Cells => y \in stray \/ y - 1 \in InUseAs(held)
            BY <1>1 DEF Validators
          <5> HIDE DEF from
          <5> QED BY <3>2, <5>1
        <4> HIDE DEF foreign
        <4> QED BY <4>1, <4>2, <4>3
      <3>4. x \in copies
        <4> HIDE DEF foreign, from, to
        <4> QED BY <3>1, <3>2, <3>3
      <3> QED BY <1>14, <3>4
    <2> QED BY <2>1, <2>2, <2>3
  <1>20. Validators'
    BY <1>18, <1>19 DEF Validators
  <1>21. HeapTypeOK'
    BY <1>3, <1>13, <1>15 DEF HeapTypeOK, PoolInv, Memory
  <1>22. ASSUME NEW k \in 1 .. n, k <= held[u - 2] - 2 PROVE mem'[result' + k] = mem[u + k - 1]
    <2>1. k <= held[o] - 2
      BY <1>22 DEF o
    <2>2. result' + k = to + k
      BY <1>5
    <2>3. from + k = u + k - 1
      BY Room DEF o
    <2> QED BY <1>17, <2>1, <2>2, <2>3
  <1> QED BY <1>3, <1>5, <1>16, <1>20, <1>21, <1>22 DEF HeapInv, a

LEMMA HeapResize ==
  ASSUME HeapInv, NEW u \in UserAddresses, NEW n \in Sizes, RESIZE(u, n)
  PROVE  HeapInv' /\ \A b \in InUseAs(held) : Spared(b)
  <1>1. resizing = NULL
    BY DEF RESIZE
  <1>2. CASE ~Valid(u)
    <2>1. UNCHANGED <<vars, mem, resizing, stray>> /\ answer' = -3
      BY <1>2 DEF RESIZE
    <2> QED BY <2>1 DEF HeapInv, HeapTypeOK, TypeOK, PoolInv, Validators, Spared, vars
  <1>3. CASE Valid(u) /\ pfAllocMem(n + 1) /\ result' = NULL
    <2>1. answer' = -4 /\ mem' = mem /\ resizing' = resizing /\ stray' = stray
      BY <1>3 DEF RESIZE
    <2>2. n + 1 \in Requests /\ PoolInv
      BY HeapAssumption DEF HeapInv
    <2>3. PoolInv' /\ UNCHANGED <<list, size, held>>
      BY <1>3, <2>2, AllocEffect
    <2> QED BY <1>3, <2>1, <2>3 DEF HeapInv, HeapTypeOK, PoolInv, Validators, Spared
  <1>4. CASE Valid(u) /\ pfAllocMem(n + 1) /\ result' # NULL
    <2>1. /\ mem' = Validated(Copied(Allocated, u - 1, result', n), result')
          /\ stray' = StrayCopied(u - 1, result', n)
          /\ resizing' = u /\ answer' = 0
      BY <1>4 DEF RESIZE
    <2> QED BY <1>1, <1>4, <2>1, HeapResizeCopies
  <1> QED BY <1>2, <1>3, <1>4 DEF RESIZE

LEMMA HeapStep == HeapInv /\ [HeapNext]_heapVars => HeapInv'
  <1> SUFFICES ASSUME HeapInv, [HeapNext]_heapVars PROVE HeapInv'
    OBVIOUS
  <1>1. ASSUME NEW n \in Sizes, ALLOCATE(n) PROVE HeapInv'
    BY <1>1, HeapAllocate
  <1>2. ASSUME NEW u \in UserAddresses \cup {0}, FREE(u) PROVE HeapInv'
    BY <1>2, HeapFree
  <1>3. ASSUME NEW u \in UserAddresses, NEW n \in Sizes, RESIZE(u, n) PROVE HeapInv'
    BY <1>3, HeapResize
  <1>4. ASSUME ResizeFrees PROVE HeapInv'
    BY <1>4, HeapResizeFrees
  <1>5. ASSUME NEW raw \in Places, NEW v \in Values, Fill(raw, v) PROVE HeapInv'
    BY <1>5, HeapFill
  <1>6. CASE UNCHANGED heapVars
    BY <1>6 DEF heapVars, vars, HeapInv, HeapTypeOK, TypeOK, PoolInv, Validators
  <1> QED BY <1>1, <1>2, <1>3, <1>4, <1>5, <1>6 DEF HeapNext

\* A block that is spared has what it had.
LEMMA SameContents ==
  ASSUME HeapInv, NEW u \in UserAddresses, Live(held, u), Spared(u - 2)
  PROVE  Live(held', u) /\ Contents(held', mem', u) = Contents(held, mem, u)
  <1> DEFINE b == u - 2
  <1>1. /\ u \in Nat /\ b \in Nat /\ b \in InUseAs(held) /\ held[b] \in Nat /\ held[b] <= Whole(held[b])
        /\ Whole(held[b]) \in Nat
        /\ held \in [Places -> 0 .. End - First]
        /\ Pool(list, size, InUseAs(held), LongAs(held))
    <2>1. /\ held \in [Places -> 0 .. End - First]
          /\ Pool(list, size, InUseAs(held), LongAs(held))
      BY DEF HeapInv, PoolInv, TypeOK
    <2>2. u \in Nat /\ b \in Nat /\ b \in InUseAs(held)
      BY Room DEF Live, InUseAs
    <2> QED BY <2>1, <2>2, Apart
  <1>2. held'[b] = held[b] /\ \A x \in Cells : b + 2 <= x /\ x < b + held[b] => mem'[x] = mem[x]
    BY DEF Spared
  <1>3. ASSUME NEW k \in 1 .. held[b] - 2 PROVE mem'[u + k - 1] = mem[u + k - 1]
    <2> DEFINE x == u + k - 1
    <2>1. x \in Nat /\ b <= x /\ b + 2 <= x /\ x < b + held[b] /\ x < b + Whole(held[b])
      BY <1>1
    <2> HIDE DEF b, x
    <2>2. x \in Cells
      BY <1>1, <2>1, OwnCells
    <2> QED BY <1>2, <2>1, <2>2 DEF x
  <1>4. Live(held', u)
    BY <1>2 DEF Live
  <1>5. Contents(held', mem', u) = Contents(held, mem, u)
    BY <1>2, <1>3 DEF Contents
  <1> QED BY <1>4, <1>5

\* Which addresses FREE and RESIZE act on.
LEMMA Accepted ==
  ASSUME HeapInv, resizing = NULL, NEW u \in UserAddresses
  PROVE  /\ Live(held, u) => Valid(u)
         /\ Valid(u) => Live(held, u) \/ u - 1 \in stray
  <1>1. Validators
    BY DEF HeapInv, NULL, DAMAGED
  <1>2. u - 2 \in Places /\ u # 0 /\ u \in Nat /\ u - 1 \in Cells /\ (u - 2) + 1 = u - 1 /\ (u - 1) - 1 = u - 2
    <2>1. u - 2 \in Places /\ u # 0 /\ u \in Nat
      BY Room
    <2>2. (u - 2) + 1 \in Cells
      BY <2>1, Room
    <2>3. (u - 2) + 1 = u - 1 /\ (u - 1) - 1 = u - 2
      BY <2>1
    <2> QED BY <2>1, <2>2, <2>3
  <1>3. ASSUME Live(held, u) PROVE Valid(u)
    <2>1. u - 2 \in InUseAs(held)
      BY <1>2, <1>3 DEF Live, InUseAs
    <2>2. mem[(u - 2) + 1] = (u - 2) + 1
      BY <1>1, <2>1 DEF Validators
    <2> QED BY <1>2, <2>2 DEF Valid, PF_MEMORY_VALIDATOR
  <1>4. ASSUME Valid(u) PROVE Live(held, u) \/ u - 1 \in stray
    <2> DEFINE x == u - 1
    <2>1. x \in Cells /\ mem[x] = x
      BY <1>2, <1>4 DEF Valid, PF_MEMORY_VALIDATOR
    <2>2. x \in stray \/ x - 1 \in InUseAs(held)
      <3> HIDE DEF x
      <3> QED BY <1>1, <2>1 DEF Validators
    <2> QED BY <1>2, <2>2 DEF Live, InUseAs
  <1> QED BY <1>3, <1>4

\* HeapKeeps, of one step and one address.
Kept(u) ==
  /\ Wrong(u, answer' # -2) => ~FREE(u)
  /\ Wrong(u, answer' # -3) => \A n \in Sizes : ~RESIZE(u, n)
  /\ Live(held, u) =>
       \/ Live(held', u) /\ Contents(held', mem', u) = Contents(held, mem, u)
       \/ u = resizing \/ resizing' = DAMAGED
       \/ FREE(u) \/ \E v \in Values : Fill(u - 2, v)
  /\ resizing' = u /\ resizing = NULL =>
       LET old == Contents(held, mem, u)
           new == Contents(held', mem', result' + 1)
       IN \A k \in DOMAIN old \cap DOMAIN new : new[k] = old[k]

LEMMA HeapKeepsStep == HeapInv /\ HeapNext => \A u \in UserAddresses : Kept(u)
  <1> SUFFICES ASSUME HeapInv, HeapNext, NEW u \in UserAddresses PROVE Kept(u)
    OBVIOUS
  <1> DEFINE b == u - 2
  <1>1. u \in Nat /\ b \in Places /\ u # 0 /\ (Live(held, u) => b \in InUseAs(held))
    BY Room DEF Live, InUseAs
  <1>2. Wrong(u, answer' # -2) => ~FREE(u)
    <2> SUFFICES ASSUME FREE(u) PROVE ~Wrong(u, answer' # -2)
      OBVIOUS
    <2>1. resizing = NULL /\ (Valid(u) => answer' = 0) /\ (~Valid(u) => answer' = -2)
      BY DEF FREE
    <2> QED BY <2>1, Accepted DEF Wrong
  <1>3. Wrong(u, answer' # -3) => \A n \in Sizes : ~RESIZE(u, n)
    <2> SUFFICES ASSUME NEW n \in Sizes, RESIZE(u, n) PROVE ~Wrong(u, answer' # -3)
      OBVIOUS
    <2>1. resizing = NULL /\ (Valid(u) => answer' \in {0, -4}) /\ (~Valid(u) => answer' = -3)
      BY DEF RESIZE
    <2> QED BY <2>1, Accepted DEF Wrong
  <1>4. ASSUME Live(held, u)
        PROVE  \/ Live(held', u) /\ Contents(held', mem', u) = Contents(held, mem, u)
               \/ u = resizing \/ resizing' = DAMAGED
               \/ FREE(u) \/ \E v \in Values : Fill(u - 2, v)
    <2> SUFFICES ASSUME u # resizing, resizing' # DAMAGED, ~FREE(u),
                        ~ \E v \in Values : Fill(u - 2, v)
                 PROVE  Spared(b)
      BY <1>4, SameContents
    <2>1. b \in InUseAs(held)
      BY <1>1, <1>4
    <2>2. \A x \in Nat : x - 2 = b => x = u
      BY <1>1
    <2>3. ASSUME NEW n \in Sizes, ALLOCATE(n) PROVE Spared(b)
      BY <2>1, <2>3, HeapAllocate
    <2>4. ASSUME NEW w \in UserAddresses \cup {0}, FREE(w) PROVE Spared(b)
      <3>1. w \in Nat /\ w # u
        BY <2>4, Room
      <3>2. b # w - 2
        BY <2>2, <3>1
      <3> HIDE DEF b
      <3> QED BY <2>1, <2>4, <3>2, HeapFree
    <2>5. ASSUME NEW w \in UserAddresses, NEW n \in Sizes, RESIZE(w, n) PROVE Spared(b)
      BY <2>1, <2>5, HeapResize
    <2>6. ASSUME ResizeFrees PROVE Spared(b)
      <3>1. resizing \in Nat
        BY <2>6, Room DEF ResizeFrees
      <3>2. b # resizing - 2
        BY <2>2, <3>1
      <3> HIDE DEF b
      <3> QED BY <2>1, <2>6, <3>2, HeapResizeFrees
    <2>7. ASSUME NEW raw \in Places, NEW v \in Values, Fill(raw, v) PROVE Spared(b)
      <3>1. raw # b
        BY <2>7
      <3> HIDE DEF b
      <3> QED BY <2>1, <2>7, <3>1, HeapFill
    <2> QED BY <2>3, <2>4, <2>5, <2>6, <2>7 DEF HeapNext
  <1>5. ASSUME resizing' = u, resizing = NULL
        PROVE  LET old == Contents(held, mem, u)
                   new == Contents(held', mem', result' + 1)
               IN \A k \in DOMAIN old \cap DOMAIN new : new[k] = old[k]
    <2>1. u # NULL /\ u # DAMAGED
      BY <1>1 DEF NULL, DAMAGED
    <2>2. PICK n \in Sizes : RESIZE(u, n)
      <3>1. ASSUME NEW n \in Sizes, ALLOCATE(n) PROVE FALSE
        BY <1>5, <2>1, <3>1 DEF ALLOCATE
      <3>2. ASSUME NEW w \in UserAddresses \cup {0}, FREE(w) PROVE FALSE
        BY <1>5, <2>1, <3>2, HeapFree
      <3>3. ASSUME NEW w \in UserAddresses, NEW n \in Sizes, RESIZE(w, n) PROVE RESIZE(u, n)
        BY <1>5, <2>1, <3>3 DEF RESIZE
      <3>4. ~ ResizeFrees
        BY <1>5, Room DEF ResizeFrees, NULL
      <3>5. ASSUME NEW raw \in Places, NEW v \in Values, Fill(raw, v) PROVE FALSE
        BY <1>5, <2>1, <3>5 DEF Fill
      <3> QED BY <3>1, <3>2, <3>3, <3>4, <3>5 DEF HeapNext
    <2>3. /\ Valid(u) /\ pfAllocMem(n + 1) /\ result' # NULL /\ answer' = 0
          /\ mem' = Validated(Copied(Allocated, u - 1, result', n), result')
          /\ stray' = StrayCopied(u - 1, result', n)
      BY <1>5, <2>1, <2>2 DEF RESIZE
    <2>4. /\ held'[result' - Header] = n + 2 /\ result' \in Nat
          /\ \A k \in 1 .. n : k <= held[u - 2] - 2 => mem'[result' + k] = mem[u + k - 1]
      BY <1>5, <2>2, <2>3, HeapResizeCopies
    <2>5. (result' + 1) - 2 = result' - Header /\ n \in Int
      <3>1. \A r \in Nat : (r + 1) - 2 = r - Header
        BY DEF Header
      <3> QED BY <2>4, <3>1, HeapAssumption
    <2>6. held[b] \in Int
      BY <1>1, PoolBounds DEF HeapInv, PoolInv, TypeOK
    <2>7. /\ DOMAIN Contents(held, mem, u) = 1 .. held[b] - 2
          /\ \A k \in 1 .. held[b] - 2 : Contents(held, mem, u)[k] = mem[u + k - 1]
      BY DEF Contents
    <2>8. /\ DOMAIN Contents(held', mem', result' + 1) = 1 .. n
          /\ \A k \in 1 .. n : Contents(held', mem', result' + 1)[k] = mem'[result' + k]
      <3>1. held'[(result' + 1) - 2] - 2 = n
        BY <2>4, <2>5
      <3>2. \A k \in 1 .. n : (result' + 1) + k - 1 = result' + k
        BY <2>4, <2>5
      <3> QED BY <3>1, <3>2 DEF Contents
    <2> SUFFICES ASSUME NEW k \in 1 .. held[b] - 2, k \in 1 .. n
                 PROVE  Contents(held', mem', result' + 1)[k] = Contents(held, mem, u)[k]
      BY <2>7, <2>8
    <2>9. k <= held[b] - 2
      BY <2>6
    <2> QED BY <2>4, <2>7, <2>8, <2>9
  <1> QED BY <1>2, <1>3, <1>4, <1>5 DEF Kept

-----------------------------------------------------------------------------
(* The theorems.                                                           *)

\* The steps of the heap words are steps of the pool.
LEMMA HeapIsPool == HeapSpec => Spec /\ []HeapInv
  <1>1. HeapInit => Init /\ HeapInv
    BY HeapStart DEF HeapInit
  <1>2. HeapInv /\ [HeapNext]_heapVars => HeapInv'
    BY HeapStep
  <1>3. HeapInv /\ [HeapNext]_heapVars => [Next]_vars
    BY WordsUsePool DEF HeapInv
  <1> QED BY <1>1, <1>2, <1>3, PTL DEF HeapSpec, Spec

(* The bookkeeping of the pool and of the heap words is well formed: the   *)
(* free list links places of the pool, pfAllocMem returns NULL or an       *)
(* address inside it, and RESIZE never writes past the pool's end.         *)
THEOREM HeapTypeCorrect == HeapSpec => []HeapTypeOK
  <1>1. HeapInv => HeapTypeOK
    BY DEF HeapInv
  <1> QED BY <1>1, HeapIsPool, PTL

(* However pf_mem.c splits, merges and frees blocks, the blocks in use and *)
(* the free nodes partition the pool.                                      *)
THEOREM PoolPartitioned == HeapSpec => []Partition
  <1>1. HeapInv => Partition
    BY PoolParts DEF HeapInv
  <1> QED BY <1>1, HeapIsPool, PTL

(* pf_mem.c keeps the allocator's promise: a block it returns is aligned,  *)
(* inside the pool and overlaps none in use, and NULL means that no gap is *)
(* large enough, however the program has allocated and freed before.       *)
THEOREM PoolKeepsPromise == HeapSpec => Implements
  <1>1. HeapInit => Promise!Init
    BY DEF HeapInit, Init, Promise!Init, InUse, NULL, Promise!NULL
  <1>2. Alive(held) = {[addr |-> a, size |-> held[a] - Header] : a \in InUse}
    BY DEF Alive, InUse, InUseAs
  <1>3. PoolInv /\ [Next]_vars
          => [Promise!Next]_<<{[addr |-> a, size |-> held[a] - Header] : a \in InUse}, asked, result>>
    BY <1>2, KeepsPromise DEF Alive, InUse, InUseAs
  <1>4. HeapInv => PoolInv
    BY DEF HeapInv
  <1> QED BY <1>1, <1>3, <1>4, HeapIsPool, PTL DEF HeapSpec, Spec, Implements, Promise!Spec

(* FREE and RESIZE act on the addresses in use and refuse the others, but  *)
(* for validators copied from past a block's end; no word touches a block  *)
(* that is not its own; and what RESIZE answers has what the old block had.*)
THEOREM HeapKept == HeapSpec => HeapKeeps
  <1>1. HeapInv /\ [HeapNext]_heapVars => [\A u \in UserAddresses : Kept(u)]_heapVars
    BY HeapKeepsStep
  <1> QED BY <1>1, HeapIsPool, PTL DEF HeapSpec, HeapKeeps, Kept

=============================================================================
