----------------------------- MODULE Selection -----------------------------
(***************************************************************************)
(* A comprehension "[x for x in s if ...]" over a list.                    *)
(***************************************************************************)
EXTENDS Integers, Sequences, FiniteSets

(* The elements of s at the places K, in their order.                      *)
Select(s, K) ==
    [n \in 1..Cardinality(K) |->
        s[CHOOSE k \in K : Cardinality({j \in K : j <= k}) = n]]
=============================================================================
