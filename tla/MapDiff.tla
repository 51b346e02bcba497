------------------------------ MODULE MapDiff ------------------------------
(***************************************************************************)
(* diff() of two versions of a map (persistent_collections/_diff.py): the  *)
(* sequence of changes it yields.  Where the code passes over two nodes or *)
(* entries because they are the same object, the operators walk them: the  *)
(* shortcut can only skip what is equal.  Sets are walked in some order.   *)
(***************************************************************************)
EXTENDS Hamt

Added(k, v)       == [type |-> "added", key |-> k, old |-> None, new |-> v]
Removed(k, v)     == [type |-> "removed", key |-> k, old |-> v, new |-> None]
Modified(k, v, w) == [type |-> "modified", key |-> k, old |-> v, new |-> w]

AllAdded(items)   == [j \in DOMAIN items |-> Added(items[j].key, items[j].val)]
AllRemoved(items) == [j \in DOMAIN items |-> Removed(items[j].key, items[j].val)]

(* _diff_mixed and _diff_collision_collision: one list against another.    *)
DiffItems(items1, items2) ==
    LET match(e) == SelectSeq(items2, LAMBDA f : f.key = e.key)
        known(f) == \E j \in DOMAIN items1 : items1[j].key = f.key
    IN  FlattenSeq([j \in DOMAIN items1 |->
            LET e == items1[j]
            IN  IF match(e) = <<>> THEN <<Removed(e.key, e.val)>>
                ELSE IF match(e)[1].val # e.val
                THEN <<Modified(e.key, e.val, match(e)[1].val)>>
                ELSE <<>>])
        \o AllAdded(SelectSeq(items2, LAMBDA f : ~known(f)))

(* _diff_materialized_entries: a leaf against a subnode.                   *)
DiffMaterialized(e1, e2) ==
    LET items1 == Range(SlotItems(e1))
        items2 == Range(SlotItems(e2))
        keys(items) == {e.key : e \in items}
    IN  AllRemoved(SetToSeq({e \in items1 : e.key \notin keys(items2)}))
        \o AllAdded(SetToSeq({e \in items2 : e.key \notin keys(items1)}))
        \o SetToSeq({Modified(e.key, e.val, f.val) :
                     <<e, f>> \in {p \in items1 \X items2 : p[1].key = p[2].key
                                                            /\ p[1].val # p[2].val}})

RECURSIVE DiffNodes(_, _)

\* mutation: a leaf that gave way to a subnode counts as removed
DiffSlotsAsTold(e1, e2) ==
    IF e1 = Empty THEN AllAdded(SlotItems(e2))
    ELSE IF e2 = Empty THEN AllRemoved(SlotItems(e1))
    ELSE IF IsSub(e1) /\ IsSub(e2) THEN DiffNodes(e1.val, e2.val)
    ELSE AllRemoved(SlotItems(e1)) \o AllAdded(SlotItems(e2))

(* One place of two nodes of the same kind.                                *)
DiffSlots(e1, e2) ==
    IF e1 = Empty THEN AllAdded(SlotItems(e2))
    ELSE IF e2 = Empty THEN AllRemoved(SlotItems(e1))
    ELSE IF IsSub(e1) /\ IsSub(e2) THEN DiffNodes(e1.val, e2.val)
    ELSE IF IsSub(e1) \/ IsSub(e2) THEN DiffMaterialized(e1, e2)
    ELSE IF e1.key # e2.key THEN <<Removed(e1.key, e1.val), Added(e2.key, e2.val)>>
    ELSE IF e1.val # e2.val THEN <<Modified(e1.key, e1.val, e2.val)>>
    ELSE <<>>

DiffBitmaps(n1, n2) ==
    LET slot(n, i) == IF i \in n.bitmap THEN n.array[Index(n, i)] ELSE Empty
    IN  FlattenSeq([j \in 1..Branch |-> DiffSlots(slot(n1, j - 1), slot(n2, j - 1))])

DiffArrays(n1, n2) ==
    FlattenSeq([j \in 1..Branch |-> DiffSlots(n1.array[j - 1], n2.array[j - 1])])

DiffNodes(n1, n2) ==
    IF n1 = EmptyNode THEN AllAdded(Items(n2))
    ELSE IF n2 = EmptyNode THEN AllRemoved(Items(n1))
    ELSE IF n1.kind = "bitmap" /\ n2.kind = "bitmap" THEN DiffBitmaps(n1, n2)
    ELSE IF n1.kind = "array" /\ n2.kind = "array" THEN DiffArrays(n1, n2)
    ELSE DiffItems(Items(n1), Items(n2))

Diff(root1, root2) == DiffNodes(root1, root2)
=============================================================================
