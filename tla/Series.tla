------------------------------- MODULE Series -------------------------------
(***************************************************************************)
(* What a PersistentVector promises: a sequence that is indexed from       *)
(* either end, and a builder that can be written to until it is frozen.    *)
(***************************************************************************)
EXTENDS Integers, Sequences

CONSTANTS Changed, NoBuilder

VARIABLES
    elements,   \* the current version
    builder,    \* what a builder holds, or NoBuilder
    frozen,     \* can that builder only be read?
    call        \* the last call, and its result

vars == <<elements, builder, frozen, call>>

(* Index i of s counts from 0, or from the end if it is negative.          *)
Position(s, i) == IF i < 0 THEN Len(s) + i + 1 ELSE i + 1

Init == elements = <<>> /\ builder = NoBuilder /\ frozen = FALSE /\ call = <<"new">>

(* One append() or set() turns the sequence s into t.                      *)
Edit(s, t) ==
    \/ call' = <<"append">> /\ t = Append(s, Len(s))
    \/ \E i \in -Len(s)..(Len(s) - 1) :
          call' = <<"set", i>> /\ t = [s EXCEPT ![Position(s, i)] = Changed]

Change ==
    /\ builder = NoBuilder
    /\ \/ Edit(elements, elements')
       \/ \E n \in 1..Len(elements') :
             /\ call' = <<"extend", n>>
             /\ elements' = elements \o [j \in 1..n |-> Len(elements) + j - 1]
       \/ \E n \in 0..Len(elements) :
             /\ call' = <<"slice", n>>
             /\ elements' = SubSeq(elements, 1, n)
    /\ UNCHANGED <<builder, frozen>>

Get ==
    /\ \E i \in -Len(elements)..(Len(elements) - 1) :
          call' = <<"get", i, elements[Position(elements, i)]>>
    /\ UNCHANGED <<elements, builder, frozen>>

Raise ==
    /\ \E i \in {-Len(elements) - 1, Len(elements)} : call' = <<"IndexError", i>>
    /\ UNCHANGED <<elements, builder, frozen>>

Open ==
    /\ call' = <<"transient">>
    /\ builder = NoBuilder /\ builder' = elements
    /\ UNCHANGED <<elements, frozen>>

Write ==
    /\ builder # NoBuilder /\ ~frozen /\ Edit(builder, builder')
    /\ UNCHANGED <<elements, frozen>>

Leave ==
    /\ call' = <<"leave">>
    /\ builder # NoBuilder /\ ~frozen /\ frozen' = TRUE
    /\ UNCHANGED <<elements, builder>>

Freeze ==
    /\ call' = <<"persistent">>
    /\ builder # NoBuilder
    /\ elements' = builder /\ builder' = NoBuilder /\ frozen' = FALSE

Next == Change \/ Get \/ Raise \/ Open \/ Write \/ Leave \/ Freeze

Spec == Init /\ [][Next]_vars
=============================================================================
