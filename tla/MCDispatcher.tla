---------------------------- MODULE MCDispatcher ----------------------------
(***************************************************************************)
(* Small instances for TLC of a dispatcher, or of one call through a chain *)
(* of advisors; which of them is chosen at the start, so that the states   *)
(* of the two do not multiply.                                             *)
(*                                                                         *)
(* The dispatcher: two calls of type "a", one of type "b"; f accepts type  *)
(* "a", g all calls, and e, a predicate, the first.                        *)
(*                                                                         *)
(* The chain: two around, one before and two after advisors.  Four calls   *)
(* are the outer advisor, the inner one and the inner chain, with the      *)
(* inner advisor or the inner chain a second time, one after the other or  *)
(* at the same time.                                                       *)
(***************************************************************************)
EXTENDS DispatcherTable, Combination, TLC

Calls  == {"a1", "a2", "b1"}
KindOf == [v \in Calls |-> IF v = "b1" THEN "b" ELSE "a"]

Accepts == [f |-> {"a1", "a2"}, g |-> Calls, e |-> {"a1"}]

(* f is written for type "a" itself; g for a base class of "a", but for    *)
(* "b" itself, as a Union may be.                                          *)
Far == [f |-> [v \in Calls |-> 0],
        g |-> [v \in Calls |-> IF v = "b1" THEN 0 ELSE 1],
        e |-> [v \in Calls |-> 0]]

Advisors == {[phase |-> "around", func |-> "g", key |-> {"a1", "a2"}]}

VARIABLE part

(* The lists of arguments are interchangeable: the first may be any one.   *)
MCInit ==
    /\ Init /\ ChainInit /\ args = "x"
    /\ \/ part = "dispatcher"
       \/ part = "chain" /\ specific = FALSE

MCNext ==
    /\ UNCHANGED part
    /\ \/ part = "dispatcher" /\ Next /\ UNCHANGED chainVars
       \/ part = "chain" /\ ChainNext /\ UNCHANGED vars

MCSpec == MCInit /\ [][MCNext]_<<vars, chainVars, part>>
=============================================================================
