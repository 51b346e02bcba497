--------------------------- MODULE MCCollections ---------------------------
(***************************************************************************)
(* A program works on a map or on a vector; which of them is chosen at the *)
(* start, so that the states of the two do not multiply.                   *)
(*                                                                         *)
(* The keys k1, k2 and k3 have one hash; k4 and k5 share its first level,  *)
(* so that below the root a node with three slots is promoted.             *)
(***************************************************************************)
EXTENDS PersistentMap, PersistentVector

CONSTANTS k1, k2, k3, k4, k5, v1, v2

KeyHash     == k1 :> 0 @@ k2 :> 0 @@ k3 :> 0 @@ k4 :> 4 @@ k5 :> 8
MCPairs     == (Keys \X {v1}) \cup {<<k1, v2>>}
MCBatches   == {<<Leaf(k1, v2), Leaf(k4, v1), Leaf(k1, v1)>>}

VARIABLE collection

Init == MapInit /\ VectorInit /\ collection \in {"map", "vector"}

Next ==
    /\ UNCHANGED collection
    /\ \/ collection = "map" /\ MapNext /\ UNCHANGED vectorVars
       \/ collection = "vector" /\ VectorNext /\ UNCHANGED mapVars

Spec == Init /\ [][Next]_<<mapVars, vectorVars, collection>>
=============================================================================
