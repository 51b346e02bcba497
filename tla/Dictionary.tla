----------------------------- MODULE Dictionary -----------------------------
(***************************************************************************)
(* What a PersistentMap promises, whatever its trie looks like: a          *)
(* dictionary, and a builder that can be written to until it is frozen.    *)
(***************************************************************************)
EXTENDS Integers, Sequences, TLC

CONSTANTS Keys, Pairs, Batches, NoBuilder

VARIABLES
    dict,       \* the current version
    builder,    \* what a builder holds, or NoBuilder
    frozen,     \* can that builder only be read?
    call        \* the last call

vars == <<dict, builder, frozen, call>>

Nothing     == [k \in {} |-> {}]
Drop(f, ks) == [k \in DOMAIN f \ ks |-> f[k]]

(* A batch of pairs as a dictionary: the last pair of a key wins.          *)
Last(b, k) == CHOOSE j \in DOMAIN b :
                  b[j].key = k /\ \A i \in DOMAIN b : b[i].key = k => i <= j
Batch(b)   == [k \in {b[j].key : j \in DOMAIN b} |-> b[Last(b, k)].val]

Init ==
    /\ dict = Nothing
    /\ builder = NoBuilder /\ frozen = FALSE /\ call = <<"new">>

(* One set() or delete() turns the dictionary f into g.                    *)
Edit(f, g) ==
    \/ \E <<k, v>> \in Pairs : call' = <<"set", k, v>> /\ g = (k :> v) @@ f
    \/ \E k \in Keys : call' = <<"delete", k>> /\ g = Drop(f, {k})

Change ==
    /\ builder = NoBuilder
    /\ \/ Edit(dict, dict')
       \/ \E b \in Batches : call' = <<"update", b>> /\ dict' = Batch(b) @@ dict
       \/ \E b \in Batches : /\ call' = <<"without_many", b>>
                             /\ dict' = Drop(dict, DOMAIN Batch(b))
    /\ UNCHANGED <<builder, frozen>>

Keep == call' = <<"keep">> /\ UNCHANGED <<dict, builder, frozen>>

Open ==
    /\ call' = <<"transient">>
    /\ builder = NoBuilder /\ builder' = dict
    /\ UNCHANGED <<dict, frozen>>

Write ==
    /\ builder # NoBuilder /\ ~frozen /\ Edit(builder, builder')
    /\ UNCHANGED <<dict, frozen>>

Leave ==
    /\ call' = <<"leave">>
    /\ builder # NoBuilder /\ ~frozen /\ frozen' = TRUE
    /\ UNCHANGED <<dict, builder>>

Freeze ==
    /\ call' = <<"persistent">>
    /\ builder # NoBuilder
    /\ dict' = builder /\ builder' = NoBuilder /\ frozen' = FALSE

Next == Change \/ Keep \/ Open \/ Write \/ Leave \/ Freeze

Spec == Init /\ [][Next]_vars
=============================================================================
