------------------------------ MODULE MemPool ------------------------------
(***************************************************************************)
(* The allocator of src/csrc/pf_mem.c (PF_NO_MALLOC builds): a pool whose  *)
(* free blocks are in a doubly linked list, kept in the blocks themselves. *)
(* An address is a number of cells; sizes are in cells, too.               *)
(***************************************************************************)
EXTENDS Integers, Sequences, SequencesExt, FiniteSetsExt

CONSTANTS BlockSize,  \* PF_MEM_BLOCK_SIZE: 16 bytes
          PoolAddr,   \* PF_MALLOC_ADDRESS
          PoolSize,   \* PF_MEM_POOL_SIZE
          Requests    \* sizes the program asks for

ASSUME MemPoolAssumption ==
  /\ BlockSize \in Nat \ {0}
  /\ PoolAddr \in Nat /\ PoolSize \in Nat
  /\ PoolSize >= 2 * BlockSize - 1   \* a block, wherever the pool begins
  /\ Requests \subseteq Int

VARIABLES list,   \* gMemList: addresses of the free nodes, first to last
          size,   \* mln_Size of the free nodes, 0 elsewhere
          held,   \* the first cell of each block in use: its NumBytes, or 0
          asked,  \* the size the last pfAllocMem was asked for
          result  \* what it returned

vars == <<list, size, held, asked, result>>

NULL == -1
Header == 1   \* sizeof(cell_t)

RoundDown(n) == (n \div BlockSize) * BlockSize

RoundUp(n) == RoundDown(n + BlockSize - 1)

\* "Allocate in whole blocks of 16 bytes."
Whole(n) == RoundUp(n)

First == RoundUp(PoolAddr)
End == First + RoundDown(PoolAddr + PoolSize - First)

Places == {a \in First .. End - 1 : (a - First) % BlockSize = 0}

Nodes(l) == {l[i] : i \in DOMAIN l}
Position(l, a) == CHOOSE i \in DOMAIN l : l[i] = a

\* dllRemoveNode, dllInsertNodeBefore, dllAddNodeToTail
Unlink(l, a) == RemoveAt(l, Position(l, a))
LinkBefore(l, a, next) == InsertAt(l, Position(l, next), a)
LinkLast(l, a) == Append(l, a)

\* The node at a block's end, if there is one.
AdjacentHigher(nodes, end) == {a \in nodes : a = end}

\* The higher neighbour leaves the list; the lower one grows in place; else
\* the block is linked before the first node as large as it was before the
\* merge.  No two nodes are adjacent to the same end of a block.
pfFreeRawMem(l, sz, mem, NumBytes) ==
  LET n == Whole(NumBytes)
      lower == {a \in Nodes(l) : a + sz[a] = mem}
      higher == AdjacentHigher(Nodes(l) \ lower, mem + n)
      biggerAt == {i \in DOMAIN l : l[i] \notin lower \cup higher /\ sz[l[i]] >= n}
      merged == IF higher = {} THEN n ELSE n + sz[mem + n]
      rest == IF higher = {} THEN l ELSE Unlink(l, mem + n)
      kept == [a \in Places |-> IF a \in higher THEN 0 ELSE sz[a]]
      linked == IF biggerAt = {} THEN LinkLast(rest, mem)
                ELSE LinkBefore(rest, mem, l[Min(biggerAt)])
      grown == CHOOSE a \in lower : TRUE
  IN IF mem % BlockSize # 0 THEN [list |-> l, size |-> sz]
     ELSE IF lower # {} THEN [list |-> rest, size |-> [kept EXCEPT ![grown] = @ + merged]]
     ELSE [list |-> linked, size |-> [kept EXCEPT ![mem] = merged]]

\* pfInitMemBlock
Init ==
  LET sz0 == [a \in Places |-> 0]
      pool == pfFreeRawMem(<<>>, sz0, First, End - First)
  IN /\ list = pool.list /\ size = pool.size
     /\ held = [a \in Places |-> 0]
     /\ asked = 0 /\ result = NULL

\* Mutants of Rest: the split off rest is dropped, and one block too long.
RestDropped(l, sz, at, n) == [list |-> l, size |-> sz]
RestTooLong(l, sz, at, n) ==
  IF size[at] - n < BlockSize THEN [list |-> l, size |-> sz]
  ELSE pfFreeRawMem(l, sz, at + n, size[at] - n + BlockSize)

\* What is left of the node at "at" when n cells of it are taken goes back.
Rest(l, sz, at, n) ==
  IF size[at] - n < BlockSize THEN [list |-> l, size |-> sz]
  ELSE pfFreeRawMem(l, sz, at + n, size[at] - n)

\* pfAllocRawMem, from pfAllocMem: the first node that is large enough.
pfAllocMem(n) ==
  LET bytes == n + Header
      raw == Whole(bytes)
      largeAt == {i \in DOMAIN list : size[list[i]] >= raw}
  IN /\ asked' = n
     /\ \/ /\ n <= 0 \/ largeAt = {}
           /\ result' = NULL
           /\ UNCHANGED <<list, size, held>>
        \/ /\ n > 0 /\ largeAt # {}
           /\ LET mem == list[Min(largeAt)]
                  pool == Rest(Unlink(list, mem), [size EXCEPT ![mem] = 0], mem, raw)
              IN /\ list' = pool.list /\ size' = pool.size
                 /\ held' = [held EXCEPT ![mem] = bytes]
                 /\ result' = mem + Header

\* Mutant of pfFreeMem: the size the program asked for, without the header.
pfFreeMemShort(mem) ==
  /\ held[mem] # 0
  /\ LET pool == pfFreeRawMem(list, size, mem, held[mem] - Header)
     IN list' = pool.list /\ size' = pool.size
  /\ held' = [held EXCEPT ![mem] = 0]
  /\ UNCHANGED <<asked, result>>

\* A program frees a block it has.
pfFreeMem(mem) ==
  /\ held[mem] # 0
  /\ LET pool == pfFreeRawMem(list, size, mem, held[mem])
     IN list' = pool.list /\ size' = pool.size
  /\ held' = [held EXCEPT ![mem] = 0]
  /\ UNCHANGED <<asked, result>>

Next ==
  \/ \E n \in Requests : pfAllocMem(n)
  \/ \E mem \in Places : pfFreeMem(mem)

Spec == Init /\ [][Next]_vars

-----------------------------------------------------------------------------
InUse == {a \in Places : held[a] # 0}
BlockOf(a) == IF held[a] # 0 THEN a .. a + Whole(held[a]) - 1 ELSE a .. a + size[a] - 1

TypeOK ==
  /\ list \in Seq(Places)
  /\ size \in [Places -> 0 .. End - First]
  /\ held \in [Places -> 0 .. End - First]
  /\ asked \in Requests \cup {0} /\ result \in {NULL} \cup First .. End

(* The blocks in use and the free nodes partition the pool: no cell is     *)
(* handed out twice, and none is lost, however blocks are split, merged    *)
(* and freed.                                                              *)
Partition ==
  LET blocks == InUse \cup Nodes(list) IN
    /\ InUse \cap Nodes(list) = {}
    /\ \A i, j \in DOMAIN list : list[i] = list[j] => i = j
    /\ \A a, b \in blocks : a # b => BlockOf(a) \cap BlockOf(b) = {}
    /\ UNION {BlockOf(a) : a \in blocks} = First .. End - 1

(* The pool implements the allocator's promise: a block it returns is      *)
(* aligned and free, and NULL means that there is no room.                 *)
Promise == INSTANCE MemPoolSpec WITH
  live <- {[addr |-> a, size |-> held[a] - Header] : a \in InUse}
Implements == Promise!Spec
=============================================================================
