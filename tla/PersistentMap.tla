--------------------------- MODULE PersistentMap ---------------------------
(***************************************************************************)
(* PersistentMap and TransientMap (persistent_collections/                 *)
(* persistent_map.py) on the trie of Hamt, and the structural diff of two  *)
(* versions (MapDiff).  An operation of the code takes no turns with       *)
(* others, so each is one action; what is in question is the long sequence *)
(* of calls that brings a trie into a shape no operation was tested on.    *)
(***************************************************************************)
EXTENDS MapDiff

CONSTANTS
    Pairs,          \* the pairs <<key, value>> that are set
    Batches,        \* sequences of pairs that are set or removed at once
    NoBuilder,
    MaxEdits,       \* bound: the calls between two versions that are compared
    MaxDepth        \* bound: the depth of a trie

VARIABLES
    map,        \* the current version: _root and _count
    older,      \* a version that the program has kept
    builder,    \* a TransientMap: _root, _count and _frozen, or NoBuilder
    call,       \* history: the last call
    edits       \* bounding: the calls since older was kept

mapVars == <<map, older, builder, call, edits>>

Version(root, count) == [root |-> root, count |-> count]
EmptyMap == Version(EmptyNode, 0)

MapSet(m, k, v) ==
    LET r == Assoc(m.root, 0, k, v)
    IN  IF r.node = m.root THEN m
        ELSE Version(r.node, m.count + IF r.added THEN 1 ELSE 0)

(* delete() of a key that is absent raises, and changes nothing.           *)
MapDelete(m, k) ==
    LET r == Without(m.root, 0, k)
    IN  IF r = KeyError THEN m
        ELSE IF r = Empty THEN EmptyMap
        ELSE Version(r, m.count - 1)

\* mutation: the left-hand values win
MapUpdateLeft(m, pairs) ==
    FoldLeft(LAMBDA x, e : IF Find(x.root, 0, e.key) = KeyError
                           THEN MapSet(x, e.key, e.val) ELSE x, m, pairs)

MapUpdate(m, pairs)   == FoldLeft(LAMBDA x, e : MapSet(x, e.key, e.val), m, pairs)
MapWithoutMany(m, ks) == FoldLeft(LAMBDA x, k : MapDelete(x, k), m, ks)

MapInit ==
    /\ map = EmptyMap /\ older = EmptyMap /\ builder = NoBuilder
    /\ call = <<"new">> /\ edits = 0

(* A call that makes a version of the trie m; bounded.                     *)
Edits(m, c) ==
    /\ edits < MaxEdits /\ edits' = edits + 1 /\ call' = c
    /\ Depth(m.root) <= MaxDepth

Makes(m, c) ==
    /\ builder = NoBuilder
    /\ map' = m /\ Edits(m, c)
    /\ UNCHANGED <<older, builder>>

Set(k, v) == Makes(MapSet(map, k, v), <<"set", k, v>>)
Delete(k) == Makes(MapDelete(map, k), <<"delete", k>>)

(* update() and merge() with a batch of pairs, without_many() of its keys. *)
Update(batch) == Makes(MapUpdate(map, batch), <<"update", batch>>)

WithoutMany(batch) ==
    Makes(MapWithoutMany(map, [j \in DOMAIN batch |-> batch[j].key]),
          <<"without_many", batch>>)

(* The program keeps the current version and goes on with newer ones.      *)
Keep ==
    /\ builder = NoBuilder
    /\ older' = map /\ edits' = 0 /\ call' = <<"keep">>
    /\ UNCHANGED <<map, builder>>

(* transient(); bounded to a version that has just been kept.              *)
Transient ==
    /\ builder = NoBuilder /\ edits = 0
    /\ builder' = [root |-> map.root, count |-> map.count, frozen |-> FALSE]
    /\ call' = <<"transient">> /\ UNCHANGED <<map, older, edits>>

Writes(root, count, c) ==
    /\ builder' = [root |-> root, count |-> count, frozen |-> FALSE]
    /\ Edits(builder', c) /\ UNCHANGED <<map, older>>

BuilderSet(k, v) ==
    /\ builder # NoBuilder /\ ~builder.frozen
    /\ LET r == Assoc(builder.root, 0, k, v)
       IN  Writes(r.node, builder.count + IF r.added THEN 1 ELSE 0, <<"set", k, v>>)

BuilderDelete(k) ==
    /\ builder # NoBuilder /\ ~builder.frozen
    /\ LET r == Without(builder.root, 0, k)
       IN  /\ r # KeyError
           /\ Writes(IF r = Empty THEN EmptyNode ELSE r, builder.count - 1, <<"delete", k>>)

(* The end of "with m.transient() as t".                                   *)
Leave ==
    /\ builder # NoBuilder /\ ~builder.frozen
    /\ builder' = [builder EXCEPT !.frozen = TRUE]
    /\ call' = <<"leave">> /\ UNCHANGED <<map, older, edits>>

(* persistent(); what is left of the builder can only be read.             *)
Persistent ==
    /\ builder # NoBuilder
    /\ map' = Version(builder.root, builder.count) /\ builder' = NoBuilder
    /\ call' = <<"persistent">> /\ UNCHANGED <<older, edits>>

MapNext ==
    \/ \E <<k, v>> \in Pairs : Set(k, v) \/ BuilderSet(k, v)
    \/ \E k \in Keys : Delete(k) \/ BuilderDelete(k)
    \/ \E batch \in Batches : Update(batch) \/ WithoutMany(batch)
    \/ Keep \/ Transient \/ Leave \/ Persistent

MapSpec == MapInit /\ [][MapNext]_mapVars

-----------------------------------------------------------------------------
(* Properties                                                              *)

(* What a lookup of every key gives.                                       *)
Contents(root) ==
    LET found == [k \in Keys |-> Find(root, 0, k)]
    IN  [k \in {x \in Keys : found[x] # KeyError} |-> found[k]]

(* After any sequence of calls a trie is well-formed, iterates over each   *)
(* key it finds once and with the value it finds, len() is the number of   *)
(* its keys, and delete() raises exactly for the keys that are absent.     *)
TrieCoherent ==
    \A m \in IF builder = NoBuilder THEN {map} ELSE {builder} :
        LET items == Items(m.root)
            found == Contents(m.root)
        IN  /\ Sound(m.root, 0)
            /\ Range(items) = {Leaf(k, found[k]) : k \in DOMAIN found}
            /\ Len(items) = Cardinality(DOMAIN found) /\ m.count = Len(items)
            /\ \A k \in Keys : Without(m.root, 0, k) = KeyError <=> k \notin DOMAIN found

Dict == INSTANCE Dictionary WITH
    dict <- Contents(map.root),
    builder <- IF builder = NoBuilder THEN NoBuilder ELSE Contents(builder.root),
    frozen <- builder # NoBuilder /\ builder.frozen

(* Lookups in a map answer as those in a dictionary do, through any        *)
(* sequence of updates, deletions and batches, and so do those in a        *)
(* builder; what is written to a builder shows in a map only when it is    *)
(* frozen.                                                                 *)
ImplementsDictionary == Dict!Spec

(* diff() of two versions gives each key that differs once, as added,      *)
(* removed or modified, and nothing else, whatever tries hold them.        *)
DiffExact ==
    LET was     == Contents(older.root)
        is      == Contents(map.root)
        changes == Diff(older.root, map.root)
    IN  /\ Len(changes) = Cardinality(Range(changes))
        /\ Range(changes) =
                  {Added(k, is[k]) : k \in DOMAIN is \ DOMAIN was}
             \cup {Removed(k, was[k]) : k \in DOMAIN was \ DOMAIN is}
             \cup {Modified(k, was[k], is[k]) :
                     k \in {x \in DOMAIN was \cap DOMAIN is : was[x] # is[x]}}

(* _hamt.py:14, "MAX_DEPTH = 7  # 32-bit hash / 5 bits = ~7 levels": a     *)
(* path has a node for each level of the hash and at most one that holds a *)
(* collision.                                                              *)
DepthBounded == Depth(map.root) <= HashLevels + 1
=============================================================================
