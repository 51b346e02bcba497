-------------------------------- MODULE Hamt --------------------------------
(***************************************************************************)
(* The trie under PersistentMap and PersistentSet                          *)
(* (persistent_collections/_hamt.py), as operators on its nodes.  Nodes    *)
(* are never changed in place, so a node is a value; "new_node is entry"   *)
(* is equality, because assoc() returns the node itself only if nothing in *)
(* it differs.                                                             *)
(*                                                                         *)
(* A slot of a bitmap node is Leaf(key, value) or Sub(node), the pairs     *)
(* (key, value) and (None, node) of its array; those of an array node are  *)
(* written the same way, and Empty where the array holds None.  Levels     *)
(* count shift in steps of BITS_PER_LEVEL.  hash_val is always the hash of *)
(* the key that goes with it, so that the key alone is passed.             *)
(***************************************************************************)
EXTENDS Integers, Sequences, FiniteSets, SequencesExt

CONSTANTS
    Keys,
    Hash,           \* the hash of each key, folded
    Branch,         \* BRANCH_FACTOR: 32 in the code
    HashLevels,     \* the levels that distinguish hashes: 7 in the code
    Threshold,      \* _ARRAY_NODE_THRESHOLD: 16 in the code
    None, Empty, KeyError

ASSUME HamtAssumption ==
    /\ Branch \in Nat /\ HashLevels \in Nat /\ Threshold \in 1..Branch
    /\ Hash \in [Keys -> 0..(Branch ^ HashLevels - 1)] /\ None \notin Keys

Leaf(k, v) == [key |-> k, val |-> v]
Sub(n)     == [key |-> None, val |-> n]
IsSub(e)   == e.key = None

BitmapNode(bitmap, array)  == [kind |-> "bitmap", bitmap |-> bitmap, array |-> array]
ArrayNode(count, array)    == [kind |-> "array", count |-> count, array |-> array]
CollisionNode(hash, pairs) == [kind |-> "collision", hash |-> hash, pairs |-> pairs]

EmptyNode == BitmapNode({}, <<>>)

Places       == 0..(Branch - 1)

(* (hash >> shift) & MASK, which is 0 where no bit of the hash is left.    *)
PlaceAt == [k \in Keys |-> [l \in 0..HashLevels |-> (Hash[k] \div Branch ^ l) % Branch]]
PlaceOf(k, l) == IF l > HashLevels THEN 0 ELSE PlaceAt[k][l]

(* _popcount(bitmap & (bit - 1))                                           *)
Popcount(bitmap, i) == Cardinality({b \in bitmap : b < i})

Index(n, i) == Popcount(n.bitmap, i) + 1

-----------------------------------------------------------------------------
(* items()                                                                 *)

RECURSIVE Items(_)

SlotItems(e) == IF e = Empty THEN <<>>
                ELSE IF IsSub(e) THEN Items(e.val)
                ELSE <<e>>

Items(n) ==
    CASE n.kind = "bitmap"    -> FlattenSeq([j \in DOMAIN n.array |-> SlotItems(n.array[j])])
      [] n.kind = "array"     -> FlattenSeq([j \in 1..Branch |-> SlotItems(n.array[j - 1])])
      [] n.kind = "collision" -> n.pairs

-----------------------------------------------------------------------------
(* find()                                                                  *)

RECURSIVE Find(_, _, _)

FindSlot(e, l, k) ==
    IF e = Empty THEN KeyError
    ELSE IF IsSub(e) THEN Find(e.val, l + 1, k)
    ELSE IF e.key = k THEN e.val ELSE KeyError

FindBitmap(n, l, k) ==
    LET i == PlaceOf(k, l)
    IN  IF i \in n.bitmap THEN FindSlot(n.array[Index(n, i)], l, k) ELSE KeyError

FindArray(n, l, k) == FindSlot(n.array[PlaceOf(k, l)], l, k)

FindCollision(n, k) ==
    LET found == SelectSeq(n.pairs, LAMBDA e : e.key = k)
    IN  IF found = <<>> THEN KeyError ELSE found[1].val

Find(n, l, k) ==
    CASE n.kind = "bitmap"    -> FindBitmap(n, l, k)
      [] n.kind = "array"     -> FindArray(n, l, k)
      [] n.kind = "collision" -> FindCollision(n, k)

-----------------------------------------------------------------------------
(* assoc(): the new node and whether the key is new                        *)

Result(n, added) == [node |-> n, added |-> added]

RECURSIVE CreateNode(_, _, _)

\* mutation: two keys of different slots stay in the order they came in
CreateNodeUnsorted(l, e1, e2) ==
    LET i1 == PlaceOf(e1.key, l)
        i2 == PlaceOf(e2.key, l)
    IN  IF l >= HashLevels THEN CollisionNode(Hash[e1.key], <<e1, e2>>)
        ELSE IF i1 = i2 THEN BitmapNode({i1}, <<Sub(CreateNode(l + 1, e1, e2))>>)
        ELSE BitmapNode({i1, i2}, <<e1, e2>>)

(* _create_node: the subtree for two leaves that met in a slot.            *)
CreateNode(l, e1, e2) ==
    LET i1 == PlaceOf(e1.key, l)
        i2 == PlaceOf(e2.key, l)
    IN  IF l >= HashLevels THEN CollisionNode(Hash[e1.key], <<e1, e2>>)
        ELSE IF i1 = i2 THEN BitmapNode({i1}, <<Sub(CreateNode(l + 1, e1, e2))>>)
        ELSE BitmapNode({i1, i2}, IF i1 < i2 THEN <<e1, e2>> ELSE <<e2, e1>>)

RECURSIVE Assoc(_, _, _, _)

(* What assoc() makes of a slot that is taken.                             *)
AssocSlot(e, l, k, v) ==
    IF IsSub(e)
    THEN LET r == Assoc(e.val, l + 1, k, v)
         IN  Result(Sub(r.node), r.added)
    ELSE IF e.key = k THEN Result(Leaf(k, v), FALSE)
    ELSE Result(Sub(CreateNode(l + 1, e, Leaf(k, v))), TRUE)

(* _promote_to_array_node                                                  *)
Promote(n, l, k, v) ==
    ArrayNode(Cardinality(n.bitmap) + 1,
              [i \in Places |-> IF i = PlaceOf(k, l) THEN Leaf(k, v)
                                ELSE IF i \in n.bitmap THEN n.array[Index(n, i)]
                                ELSE Empty])

AssocBitmap(n, l, k, v) ==
    LET i == PlaceOf(k, l)
        j == Index(n, i)
        r == AssocSlot(n.array[j], l, k, v)
    IN  IF i \in n.bitmap
        THEN Result(BitmapNode(n.bitmap, ReplaceAt(n.array, j, r.node)), r.added)
        ELSE IF Cardinality(n.bitmap) >= Threshold THEN Result(Promote(n, l, k, v), TRUE)
        ELSE Result(BitmapNode(n.bitmap \cup {i}, InsertAt(n.array, j, Leaf(k, v))), TRUE)

AssocArray(n, l, k, v) ==
    LET i == PlaceOf(k, l)
        r == AssocSlot(n.array[i], l, k, v)
    IN  IF n.array[i] = Empty
        THEN Result(ArrayNode(n.count + 1, [n.array EXCEPT ![i] = Leaf(k, v)]), TRUE)
        ELSE Result(ArrayNode(n.count, [n.array EXCEPT ![i] = r.node]), r.added)

AssocCollision(n, l, k, v) ==
    LET at == {j \in DOMAIN n.pairs : n.pairs[j].key = k}
        elevated == FoldLeft(LAMBDA m, e : Assoc(m, l, e.key, e.val).node, EmptyNode, n.pairs)
    IN  IF Hash[k] # n.hash THEN Assoc(elevated, l, k, v)
        ELSE IF at # {}
        THEN Result(CollisionNode(n.hash, [j \in DOMAIN n.pairs |->
                                      IF j \in at THEN Leaf(k, v) ELSE n.pairs[j]]), FALSE)
        ELSE Result(CollisionNode(n.hash, Append(n.pairs, Leaf(k, v))), TRUE)

Assoc(n, l, k, v) ==
    CASE n.kind = "bitmap"    -> AssocBitmap(n, l, k, v)
      [] n.kind = "array"     -> AssocArray(n, l, k, v)
      [] n.kind = "collision" -> AssocCollision(n, l, k, v)

-----------------------------------------------------------------------------
(* without(): the new node, Empty if nothing is left, or KeyError          *)

RECURSIVE Without(_, _, _)

(* What without() makes of a slot.                                         *)
WithoutSlot(e, l, k) ==
    IF e = Empty THEN KeyError
    ELSE IF IsSub(e)
    THEN LET r == Without(e.val, l + 1, k)
         IN  IF r \in {KeyError, Empty} THEN r ELSE Sub(r)
    ELSE IF e.key = k THEN Empty ELSE KeyError

WithoutBitmap(n, l, k) ==
    LET i == PlaceOf(k, l)
        j == Index(n, i)
        r == WithoutSlot(n.array[j], l, k)
    IN  IF i \notin n.bitmap \/ r = KeyError THEN KeyError
        ELSE IF r # Empty THEN BitmapNode(n.bitmap, ReplaceAt(n.array, j, r))
        ELSE IF n.bitmap = {i} THEN Empty
        ELSE BitmapNode(n.bitmap \ {i}, RemoveAt(n.array, j))

(* _pack: the slots but i, in a bitmap node.                               *)
Pack(n, i) ==
    LET left == {j \in Places \ {i} : n.array[j] # Empty}
    IN  BitmapNode(left, [j \in 1..Cardinality(left) |->
                             n.array[CHOOSE p \in left : Popcount(left, p) = j - 1]])

WithoutArray(n, l, k) ==
    LET i == PlaceOf(k, l)
        r == WithoutSlot(n.array[i], l, k)
    IN  IF r = KeyError THEN KeyError
        ELSE IF r # Empty THEN ArrayNode(n.count, [n.array EXCEPT ![i] = r])
        ELSE IF n.count - 1 < Threshold THEN Pack(n, i)
        ELSE ArrayNode(n.count - 1, [n.array EXCEPT ![i] = Empty])

WithoutCollision(n, l, k) ==
    LET left == SelectSeq(n.pairs, LAMBDA e : e.key # k)
    IN  IF left = n.pairs THEN KeyError
        ELSE IF left = <<>> THEN Empty
        ELSE IF Len(left) = 1 THEN BitmapNode({PlaceOf(k, l)}, left)
        ELSE CollisionNode(n.hash, left)

Without(n, l, k) ==
    CASE n.kind = "bitmap"    -> WithoutBitmap(n, l, k)
      [] n.kind = "array"     -> WithoutArray(n, l, k)
      [] n.kind = "collision" -> WithoutCollision(n, l, k)

-----------------------------------------------------------------------------
(* Shape                                                                   *)

SetMax(S) == IF S = {} THEN 0 ELSE CHOOSE x \in S : \A y \in S : y <= x

(* The subnodes of a node, each with the place it is in.                   *)
Subnodes(n) ==
    CASE n.kind = "bitmap"    -> {<<i, n.array[Index(n, i)].val>> :
                                    i \in {p \in n.bitmap : IsSub(n.array[Index(n, p)])}}
      [] n.kind = "array"     -> {<<i, n.array[i].val>> :
                                    i \in {p \in Places : n.array[p] # Empty /\ IsSub(n.array[p])}}
      [] n.kind = "collision" -> {}

RECURSIVE Depth(_), Sound(_, _)

Depth(n) == 1 + SetMax({Depth(s[2]) : s \in Subnodes(n)})

(* A node at level l has what its kind promises, and its keys lie where    *)
(* their hashes say.                                                       *)
Sound(n, l) ==
    /\ CASE n.kind = "bitmap" ->
              /\ Len(n.array) = Cardinality(n.bitmap) /\ Len(n.array) <= Threshold
              /\ n.array = <<>> => l = 0
              /\ \A i \in n.bitmap : LET e == n.array[Index(n, i)]
                                     IN  ~IsSub(e) => PlaceOf(e.key, l) = i
         [] n.kind = "array" ->
              /\ n.count = Cardinality({i \in Places : n.array[i] # Empty})
              /\ n.count >= Threshold
              /\ \A i \in Places : LET e == n.array[i]
                                   IN  e # Empty /\ ~IsSub(e) => PlaceOf(e.key, l) = i
         [] n.kind = "collision" ->
              /\ l >= HashLevels /\ Len(n.pairs) >= 2
              /\ \A j \in DOMAIN n.pairs : Hash[n.pairs[j].key] = n.hash
    /\ \A s \in Subnodes(n) :
          /\ Sound(s[2], l + 1)
          /\ \A e \in Range(Items(s[2])) : PlaceOf(e.key, l) = s[1]
=============================================================================
