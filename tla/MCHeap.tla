------------------------------- MODULE MCHeap -------------------------------
(* An instance of Heap for TLC: 32-bit cells, so a block is 4 of them.      *)
EXTENDS Heap

MCSizes == {-1, 2, 7}
MCRequests == {1 + n : n \in MCSizes} \cup {2}
MCValues == {-10}
=============================================================================
