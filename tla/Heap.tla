-------------------------------- MODULE Heap --------------------------------
(***************************************************************************)
(* The heap words ALLOCATE, FREE and RESIZE of src/csrc/pf_inner.c on the  *)
(* pool of MemPool.  In front of the memory a program gets is a validator, *)
(* the address XOR a constant: it tells FREE and RESIZE a block in use     *)
(* from an address that is stale.  Freed memory keeps what was in it, but  *)
(* for the nodes of the free list.                                         *)
(***************************************************************************)
EXTENDS MemPool

CONSTANTS Sizes,   \* what programs ask ALLOCATE and RESIZE for
          Values   \* what programs fill their memory with

VARIABLES mem,      \* the cells of the pool
          resizing, \* the block RESIZE has still to free, NULL or DAMAGED
          stray,    \* validators RESIZE has copied from past a block's end
          answer    \* what the last word has left on the stack as its result

heapVars == <<vars, mem, resizing, stray, answer>>

\* The validator of an address is the address.  Everything else an allocator
\* writes (a MemListNode, NumBytes, 0xDeadBeef) is no validator of anything.
PF_MEMORY_VALIDATOR(a) == a
DEAD == -2
DAMAGED == -3

ASSUME HeapAssumption ==
  /\ BlockSize >= 3
  /\ \A v \in Values : v \in Int /\ v < DEAD
  /\ Sizes \subseteq Int
  /\ Requests = {1 + n : n \in Sizes} \cup {2}

Cells == First .. End - 1
UserAddresses == {a + 2 : a \in Places}

\* The nodes of the free list are in the free memory, where the data of the
\* program does not matter any more, but validators stay.
Linked(c) ==
  LET nodes == UNION {a .. a + 2 : a \in Nodes(list')}
      used == UNION {a .. a + held'[a] - 1 : a \in {b \in Places : held'[b] # 0}}
  IN [a \in Cells |-> IF a \in nodes \/ (a \notin used /\ c[a] \in Values)
                      THEN DEAD ELSE c[a]]

HeapInit ==
  /\ Init
  /\ mem = [a \in Cells |-> DEAD]
  /\ resizing = NULL /\ stray = {} /\ answer = 0

\* What pfAllocMem writes for the block it answers, and the word after it.
Allocated == [Linked(mem) EXCEPT ![result' - Header] = DEAD]
Validated(c, CellPtr) == [c EXCEPT ![CellPtr] = PF_MEMORY_VALIDATOR(CellPtr)]

\* "Allocate at least one cell's worth", and one for the validator.  The
\* comparison is unsigned.
ALLOCATE(n) ==
  LET Temp == IF n = 0 THEN 1 ELSE n IN
    /\ resizing = NULL
    /\ pfAllocMem(Temp + 1)
    /\ \/ result' # NULL /\ mem' = Validated(Allocated, result') /\ answer' = 0
       \/ result' = NULL /\ mem' = mem /\ answer' = -1
    /\ UNCHANGED <<resizing, stray>>

\* RESIZE has no test for a NULL address: no program gives it one.
Valid(u) == u # 0 /\ mem[u - 1] = PF_MEMORY_VALIDATOR(u - 1)

\* pfFreeMem of a block in use; of anything else it damages the pool, and
\* nothing more is known.
Release(CellPtr) ==
  \/ pfFreeMem(CellPtr - Header) /\ resizing' = NULL
  \/ held[CellPtr - Header] = 0 /\ resizing' = DAMAGED /\ UNCHANGED vars

\* Mutant of FREE: the validator is not clobbered.
FREE_KEEPS(u) ==
  /\ resizing = NULL
  /\ \/ Valid(u) /\ Release(u - 1) /\ mem' = Linked(mem) /\ answer' = 0
     \/ ~Valid(u) /\ answer' = -2 /\ UNCHANGED <<vars, mem, resizing>>
  /\ UNCHANGED stray

\* "Validate memory before freeing. Clobber validator"
FREE(u) ==
  /\ resizing = NULL
  /\ \/ /\ Valid(u)
        /\ Release(u - 1)
        /\ mem' = Linked([mem EXCEPT ![u - 1] = DEAD])
        /\ answer' = 0
     \/ ~Valid(u) /\ answer' = -2 /\ UNCHANGED <<vars, mem, resizing>>
  /\ UNCHANGED stray

\* "Copy memory including validation": n + 1 cells from the old block, past
\* its end when it grows.  What comes from inside the new block, and is
\* so copied twice, or from behind the pool is a value in the code and DEAD here:
\* a validator is not followed through two copies of one RESIZE.
Copied(c, from, to, n) ==
  [a \in Cells |->
     IF a \notin to .. to + n THEN c[a]
     ELSE IF a - to + from \in Cells \ (to .. to + n) THEN c[a - to + from] ELSE DEAD]
StrayCopied(from, to, n) ==
  LET foreign == stray \cup {a \in Cells : a >= from - 1 + held[from - 1]}
  IN (stray \ (to .. to + n)) \cup
     {to + k : k \in {j \in 1 .. n : from + j \in foreign /\ mem[from + j] \in Cells}}

RESIZE(u, n) ==
  /\ resizing = NULL
  /\ \/ ~Valid(u) /\ answer' = -3 /\ UNCHANGED <<vars, mem, resizing, stray>>
     \/ /\ Valid(u)
        /\ pfAllocMem(n + 1)
        /\ result' = NULL
        /\ answer' = -4
        /\ UNCHANGED <<mem, resizing, stray>>
     \/ /\ Valid(u)
        /\ pfAllocMem(n + 1)
        /\ result' # NULL
        /\ mem' = Validated(Copied(Allocated, u - 1, result', n), result')
        /\ stray' = StrayCopied(u - 1, result', n)
        /\ resizing' = u
        /\ answer' = 0

\* The end of RESIZE, before any other word: a step of its own for pfFreeMem.
\* "Mark old cell as dead so we can't free it twice."
ResizeFrees ==
  /\ resizing \in UserAddresses
  /\ Release(resizing - 1)
  /\ mem' = Linked([mem EXCEPT ![resizing - 1] = DEAD])
  /\ UNCHANGED <<stray, answer>>

\* The program writes to all the memory of a block it has.
Fill(raw, v) ==
  LET block == raw + 2 .. raw + held[raw] - 1 IN
    /\ resizing = NULL /\ held[raw] # 0
    /\ mem' = [a \in Cells |-> IF a \in block THEN v ELSE mem[a]]
    /\ stray' = stray \ block
    /\ UNCHANGED <<vars, resizing, answer>>

HeapNext ==
  \/ \E n \in Sizes : ALLOCATE(n)
  \/ \E u \in UserAddresses \cup {0} : FREE(u)
  \/ \E u \in UserAddresses, n \in Sizes : RESIZE(u, n)
  \/ ResizeFrees
  \/ \E raw \in Places, v \in Values : Fill(raw, v)

HeapSpec == HeapInit /\ [][HeapNext]_heapVars

-----------------------------------------------------------------------------
HeapTypeOK ==
  /\ TypeOK
  /\ mem \in [Cells -> Cells \cup Values \cup {DEAD}]
  /\ resizing \in UserAddresses \cup {NULL, DAMAGED}
  /\ stray \subseteq Cells /\ answer \in {0, -1, -2, -3, -4}

\* The memory of the block whose address is u, if h says that it is in use.
Live(h, u) == u # 0 /\ h[u - 2] # 0
Contents(h, c, u) == [k \in 1 .. h[u - 2] - 2 |-> c[u + k - 1]]

\* u is in use and refused, or accepted although nothing excuses it.
Wrong(u, accepted) ==
  IF accepted THEN ~Live(held, u) /\ u - 1 \notin stray ELSE Live(held, u)

(* FREE and RESIZE act on the addresses in use, and refuse one that was    *)
(* freed or resized and not given out again, however its memory was split, *)
(* merged and overwritten since, unless a validator was copied there from  *)
(* past the end of a block that was resized.  Whatever a word does, the    *)
(* other blocks stay as they are, and so does the block a RESIZE finds no  *)
(* room for; the block a RESIZE answers has what the old one had, as far   *)
(* as both go.                                                             *)
HeapKeeps ==
  [][\A u \in UserAddresses :
       /\ Wrong(u, answer' # -2) => ~FREE(u)
       /\ Wrong(u, answer' # -3) => \A n \in Sizes : ~RESIZE(u, n)
       /\ Live(held, u) =>
            \/ Live(held', u) /\ Contents(held', mem', u) = Contents(held, mem, u)
            \/ u = resizing \/ resizing' = DAMAGED
            \/ FREE(u) \/ \E v \in Values : Fill(u - 2, v)
       /\ resizing' = u /\ resizing = NULL =>
            LET old == Contents(held, mem, u)
                new == Contents(held', mem', result' + 1)
            IN \A k \in DOMAIN old \cap DOMAIN new : new[k] = old[k]]_heapVars
=============================================================================
