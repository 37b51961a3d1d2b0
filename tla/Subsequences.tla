---------------------------- MODULE Subsequences ----------------------------
(***************************************************************************)
(* What is left of a list: the elements at some of its indices, in their   *)
(* order, as a list comprehension keeps them.  (SelectSeq says the same;   *)
(* this form can be reasoned about.)                                       *)
(***************************************************************************)
EXTENDS Integers, Sequences, FiniteSets

(* The k-th element kept is the one with k - 1 kept before it.             *)
Kept(s, I) ==
    [k \in 1..Cardinality(I) |-> s[CHOOSE i \in I : Cardinality({j \in I : j < i}) = k - 1]]
=============================================================================
