---------------------------- MODULE MemPoolSpec ----------------------------
(***************************************************************************)
(* What a program that calls pfAllocMem and pfFreeMem relies on, whatever  *)
(* list the allocator keeps: a block it gets is inside the pool, aligned,  *)
(* and overlaps no block in use; NULL means that no gap between the blocks *)
(* in use is large enough.                                                 *)
(***************************************************************************)
EXTENDS Integers

CONSTANTS BlockSize,   \* blocks are multiples of it, at multiples of it
          Header,      \* the cell in front of a block that holds its size
          First, End,  \* the pool is First .. End - 1
          Requests     \* the sizes the program asks for

VARIABLES live,    \* the blocks in use
          asked,   \* the size the last Alloc was asked for
          result   \* what it returned

NULL == -1

Taken(n) == ((n + Header + BlockSize - 1) \div BlockSize) * BlockSize

Fits(a, n) ==
  /\ a >= First /\ a + Taken(n) <= End
  /\ \A b \in live : b.addr + Taken(b.size) <= a \/ a + Taken(n) <= b.addr

Places == {a \in First .. End : (a - First) % BlockSize = 0}

Init == live = {} /\ asked = 0 /\ result = NULL

Alloc(n) ==
  /\ asked' = n
  /\ \/ \E a \in Places :
          /\ n > 0 /\ Fits(a, n)
          /\ live' = live \cup {[addr |-> a, size |-> n]}
          /\ result' = a + Header
     \/ /\ n > 0 => \A a \in Places : ~Fits(a, n)
        /\ result' = NULL
        /\ UNCHANGED live

Free(b) ==
  /\ live' = live \ {b}
  /\ UNCHANGED <<asked, result>>

Next == (\E n \in Requests : Alloc(n)) \/ (\E b \in live : Free(b))

Spec == Init /\ [][Next]_<<live, asked, result>>
=============================================================================
