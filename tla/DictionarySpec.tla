--------------------------- MODULE DictionarySpec ---------------------------
(***************************************************************************)
(* What a Forth programmer relies on when words are defined, completed and *)
(* forgotten: the dictionary is a stack of definitions.  A definition is   *)
(* never touched by later ones, except in the cell of a deferred word; only *)
(* the latest one may still grow, become visible or get its DOES> part; and *)
(* forgetting drops the latest definitions and leaves the others alone.    *)
(***************************************************************************)
EXTENDS Naturals, Sequences

VARIABLE defs   \* [name, visible, body], oldest first; a hidden body is <<>>

N == Len(defs)

Init == defs = <<>>

Define ==
  /\ Len(defs') = N + 1
  /\ SubSeq(defs', 1, N) = defs

\* The latest definition is finished, extended or given its DOES> part, the
\* second cell of its body.
Rework ==
  /\ N > 0 /\ Len(defs') = N
  /\ \A i \in 1 .. N - 1 : defs'[i] = defs[i]
  /\ LET old == defs[N]  new == defs'[N] IN
     /\ new.name = old.name
     /\ old.visible => new.visible
     /\ Len(new.body) >= Len(old.body)
     /\ \A k \in DOMAIN old.body : k # 2 => new.body[k] = old.body[k]

\* IS: one deferred word gets another vector.
Vector ==
  /\ Len(defs') = N
  /\ \E i \in {j \in 1 .. N : defs[j].body # <<>>} :
       /\ \A j \in 1 .. N : j # i => defs'[j] = defs[j]
       /\ defs'[i] = [defs[i] EXCEPT !.body = defs'[i].body]
       /\ Len(defs'[i].body) = Len(defs[i].body)
       /\ defs[i].body[1].op = "defer"
       /\ \A k \in DOMAIN defs[i].body : k # 2 => defs'[i].body[k] = defs[i].body[k]

Forget ==
  /\ Len(defs') < N
  /\ defs' = SubSeq(defs, 1, Len(defs'))

Next == Define \/ Rework \/ Vector \/ Forget

Spec == Init /\ [][Next]_defs
=============================================================================
