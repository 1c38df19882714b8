------------------------------- MODULE Lists --------------------------------
(***************************************************************************)
(* A list filtered, as the code's comprehensions filter clients, rules and *)
(* outbounds: what is kept stays in its order.  It is SelectSeq, written   *)
(* with the set of places that are kept instead of recursively, for the    *)
(* proofs about it.                                                        *)
(***************************************************************************)
EXTENDS Naturals, Sequences, FiniteSets

\* How many of the places of S are at n or before it.
UpTo(S, n) == Cardinality({i \in S : i <= n})

\* The entries of the list at the places of S.
Selected(list, S) ==
  [k \in 1 .. Cardinality(S) |-> list[CHOOSE i \in S : UpTo(S, i) = k]]
=============================================================================
