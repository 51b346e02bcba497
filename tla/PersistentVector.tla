-------------------------- MODULE PersistentVector --------------------------
(***************************************************************************)
(* PersistentVector and TransientVector (persistent_collections/           *)
(* persistent_vector.py): a trie of leaves that are full, and a tail.      *)
(* Nodes are tuples.  Levels count shift in steps of BITS; the leaves are  *)
(* at level 0.  What is appended is named by the place it is appended at,  *)
(* and set() puts Changed there.                                           *)
(***************************************************************************)
EXTENDS Integers, Sequences, SequencesExt

CONSTANTS
    Width,          \* BRANCH_FACTOR: 32 in the code
    Changed, NoTransient,
    MaxLength,      \* bound: the length of a vector
    MaxChanges      \* bound: how many elements are Changed at a time

Elements == Nat \cup {Changed}

ASSUME VectorAssumption == Width \in Nat \ {0, 1}
ASSUME TransientAssumption ==
    /\ MaxLength \in Nat
    /\ NoTransient \notin Seq(Elements) \cup [items : Seq(Elements), frozen : BOOLEAN]

VARIABLES
    vector,     \* the current version: _count, _shift, _root and _tail
    transient,  \* a TransientVector: _items and _frozen, or NoTransient
    asked       \* history: the last call, and its result

vectorVars == <<vector, transient, asked>>

Vector(count, level, root, tail) ==
    [count |-> count, level |-> level, root |-> root, tail |-> tail]

EmptyVector == Vector(0, 1, <<>>, <<>>)

(* 1 << (l * BITS).                                                        *)
Span[l \in Nat] == IF l = 0 THEN 1 ELSE Width * Span[l - 1]

Slot(i, l) == (i \div Span[l]) % Width              \* (i >> shift) & MASK

TailOffset(v) == IF v.count < Width THEN 0 ELSE ((v.count - 1) \div Width) * Width

NewPath(level, node) ==
    LET path[l \in 0..level] == IF l = 0 THEN node ELSE <<path[l - 1]>>
    IN  path[level]

(* The nodes on the way down to the leaf of index i, some of which are not *)
(* there yet, and on the way up the nodes that replace them.               *)
PushLeaf(i, level, root, leaf) ==
    LET slot(l) == Slot(i, l) + 1
        old[l \in 1..level] ==
            IF l = level THEN root
            ELSE IF slot(l + 1) > Len(old[l + 1]) THEN <<>> ELSE old[l + 1][slot(l + 1)]
        new[l \in 0..level] ==
            IF l = 0 THEN leaf
            ELSE IF slot(l) > Len(old[l]) THEN Append(old[l], NewPath(l - 1, leaf))
            ELSE ReplaceAt(old[l], slot(l), new[l - 1])
    IN  new[level]

\* mutation: the place of the next leaf, not of the one that is full
PushTailNext(count, level, root, tail) == PushLeaf(count, level, root, tail)

PushTail(count, level, root, tail) == PushLeaf(count - 1, level, root, tail)

(* The nodes on the way from the root to the leaf that holds index i.      *)
Walk(level, root, i) ==
    LET node[l \in 0..level] ==
            IF l = level THEN root ELSE node[l + 1][Slot(i, l + 1) + 1]
    IN  node

AssocNode(level, root, i, x) ==
    LET old == Walk(level, root, i)
        new[l \in 0..level] ==
            ReplaceAt(old[l], Slot(i, l) + 1, IF l = 0 THEN x ELSE new[l - 1])
    IN  new[level]

(* All elements, from the sequence of the nodes at each level.             *)
IterNode(root, level) ==
    LET nodes[l \in 0..level] ==
            IF l = level THEN <<root>> ELSE FlattenSeq(nodes[l + 1])
    IN  FlattenSeq(nodes[0])

(* append()                                                                *)
AppendTo(v, x) ==
    IF v.count - TailOffset(v) < Width
    THEN Vector(v.count + 1, v.level, v.root, Append(v.tail, x))
    ELSE IF v.count \div Width > Span[v.level]
    THEN Vector(v.count + 1, v.level + 1, <<v.root, NewPath(v.level, v.tail)>>, <<x>>)
    ELSE Vector(v.count + 1, v.level, PushTail(v.count, v.level, v.root, v.tail), <<x>>)

(* _tail and root, given an index from 0 on                                *)
SetAt(v, i, x) ==
    IF i >= TailOffset(v)
    THEN [v EXCEPT !.tail[i - TailOffset(v) + 1] = x]
    ELSE [v EXCEPT !.root = AssocNode(v.level, v.root, i, x)]

GetAt(v, i) ==
    IF i >= TailOffset(v) THEN v.tail[i - TailOffset(v) + 1]
    ELSE Walk(v.level, v.root, i)[0][Slot(i, 0) + 1]

Iterate(v) == (IF v.root = <<>> THEN <<>> ELSE IterNode(v.root, v.level)) \o v.tail

Extended(v, s) ==
    LET grown[n \in 0..Len(s)] == IF n = 0 THEN v ELSE AppendTo(grown[n - 1], s[n])
    IN  grown[Len(s)]
FromList(s)    == Extended(EmptyVector, s)

-----------------------------------------------------------------------------
VectorInit == vector = EmptyVector /\ transient = NoTransient /\ asked = <<"new">>

(* A call that makes the version v of a vector; bounded.                   *)
Gives(v, c) ==
    /\ transient = NoTransient
    /\ vector' = v /\ vector'.count <= MaxLength /\ asked' = c
    /\ UNCHANGED transient

VectorAppend == Gives(AppendTo(vector, vector.count), <<"append">>)

Extend(n) == Gives(Extended(vector, [j \in 1..n |-> vector.count + j - 1]), <<"extend", n>>)

Slice(n) ==
    /\ n <= vector.count
    /\ Gives(FromList(SubSeq(Iterate(vector), 1, n)), <<"slice", n>>)

(* An index as it is given, and from 0 on.                                 *)
Indexes    == -(vector.count + 1)..vector.count
InRange(i) == i \in -vector.count..(vector.count - 1)
Proper(i)  == IF i < 0 THEN i + vector.count ELSE i

Changes(s) == Len(SelectSeq(s, LAMBDA x : x = Changed))

VectorSet(i) ==
    /\ InRange(i) /\ Changes(Iterate(vector)) < MaxChanges
    /\ Gives(SetAt(vector, Proper(i), Changed), <<"set", i>>)

Get(i) ==
    /\ transient = NoTransient /\ InRange(i)
    /\ asked' = <<"get", i, GetAt(vector, Proper(i))>>
    /\ UNCHANGED <<vector, transient>>

(* set() and indexing                                                      *)
OutOfRange(i) ==
    /\ transient = NoTransient /\ ~InRange(i)
    /\ asked' = <<"IndexError", i>>
    /\ UNCHANGED <<vector, transient>>

VectorTransient ==
    /\ transient = NoTransient
    /\ transient' = [items |-> Iterate(vector), frozen |-> FALSE]
    /\ asked' = <<"transient">> /\ UNCHANGED vector

Stores(items, c) ==
    /\ transient' = [transient EXCEPT !.items = items]
    /\ asked' = c /\ UNCHANGED vector

BuilderAppend ==
    /\ transient # NoTransient /\ ~transient.frozen /\ Len(transient.items) < MaxLength
    /\ Stores(Append(transient.items, Len(transient.items)), <<"append">>)

BuilderSetItem(i) ==
    /\ transient # NoTransient /\ ~transient.frozen /\ i \in 0..(Len(transient.items) - 1)
    /\ Changes(transient.items) < MaxChanges
    /\ Stores(ReplaceAt(transient.items, i + 1, Changed), <<"set", i>>)

VectorLeave ==
    /\ transient # NoTransient /\ ~transient.frozen
    /\ transient' = [transient EXCEPT !.frozen = TRUE]
    /\ asked' = <<"leave">> /\ UNCHANGED vector

VectorPersistent ==
    /\ transient # NoTransient
    /\ vector' = FromList(transient.items) /\ transient' = NoTransient
    /\ asked' = <<"persistent">>

VectorNext ==
    \/ VectorAppend \/ (\E n \in 2..3 : Extend(n)) \/ (\E n \in 0..MaxLength : Slice(n))
    \/ \E i \in Indexes : VectorSet(i) \/ Get(i) \/ OutOfRange(i)
    \/ VectorTransient \/ BuilderAppend \/ VectorLeave \/ VectorPersistent
    \/ \E i \in 0..(MaxLength - 1) : BuilderSetItem(i)

VectorSpec == VectorInit /\ [][VectorNext]_vectorVars

-----------------------------------------------------------------------------
Plain == INSTANCE Series WITH
    elements <- Iterate(vector),
    builder  <- IF transient = NoTransient THEN NoTransient ELSE transient.items,
    frozen   <- transient # NoTransient /\ transient.frozen,
    call     <- asked, NoBuilder <- NoTransient

(* A vector is a sequence: each call gives what it would give on the list  *)
(* that iteration yields, whether the element is in the trie or in the     *)
(* tail and whatever levels the trie has grown by.                         *)
ImplementsSequence == Plain!Spec
=============================================================================
