-------------------------- MODULE DispatcherProofs --------------------------
(***************************************************************************)
(* The cache of a dispatcher is coherent, and the dispatcher implements a  *)
(* DispatchTable: for any functions, calls, types, priorities and contexts,*)
(* provided that handlers without predicate judge a call by its types.     *)
(***************************************************************************)
EXTENDS DispatcherTable, TLAPS, FiniteSetTheorems, SequenceTheorems,
        WellFoundedInduction

-----------------------------------------------------------------------------
(* Sequences                                                               *)

(* A nonempty set of natural numbers has a smallest member.                *)
LEMMA Smallest ==
    ASSUME NEW N \in SUBSET Nat, N # {}
    PROVE  \E n \in N : \A m \in N : n <= m
<1>. DEFINE Upto(n) == {j \in N : j <= n}
            All == {Upto(n) : n \in N}
<1>1. \A n \in Nat : IsFiniteSet(Upto(n))
    <2>. TAKE n \in Nat
    <2>1. \A j \in N : j <= n => j \in 0..n
        OBVIOUS
    <2>1a. Upto(n) \subseteq 0..n
        BY <2>1
    <2>2. IsFiniteSet(0..n)
        BY FS_Interval
    <2>. QED
        BY <2>1a, <2>2, FS_Subset
<1>2. All \subseteq FiniteSubsetsOf(Nat) /\ All # {}
    BY <1>1 DEF FiniteSubsetsOf
<1>3. PICK A \in All : \A B \in All : ~(<<B, A>> \in StrictSubsetOrdering(Nat))
    <2>. HIDE DEF All
    <2>. QED
        BY <1>2, FS_StrictSubsetOrderingWellFounded, WFMin
<1>4. PICK n \in N : A = Upto(n)
    OBVIOUS
<1>5. ASSUME NEW m \in N, m < n PROVE FALSE
    <2>1. Upto(m) \in All
        OBVIOUS
    <2>2. Upto(m) \subseteq A
        <3>1. \A j \in N : j \in Nat /\ m \in Nat /\ n \in Nat
            OBVIOUS
        <3>2. \A j \in N : j <= m => j <= n
            BY <3>1, <1>5
        <3>. QED
            BY <3>2, <1>4
    <2>3. Upto(m) # A
        <3>1. n \in A /\ n \notin Upto(m)
            BY <1>4, <1>5
        <3>. QED
            BY <3>1
    <2>4. Upto(m) \in SUBSET Nat /\ A \in SUBSET Nat
        BY <1>4
    <2>5. <<Upto(m), A>> \in StrictSubsetOrdering(Nat)
        <3>. HIDE DEF Upto
        <3>. QED
            BY <2>2, <2>3, <2>4 DEF StrictSubsetOrdering
    <2>. QED
        BY <2>1, <2>5, <1>3
<1>. QED
    BY <1>5

(* The n-th of a set of places exists: counting the members of K up to k,  *)
(* the count grows by at most one from k to k + 1.                         *)
LEMMA PlaceExists ==
    ASSUME NEW m \in Nat, NEW K \in SUBSET (1..m), NEW n \in 1..Cardinality(K)
    PROVE  \E k \in K : Cardinality({j \in K : j <= k}) = n
<1>. DEFINE Upto(k) == {j \in K : j <= k}
            Long == {k \in Nat : Cardinality(Upto(k)) >= n}
<1>0. IsFiniteSet(K) /\ Cardinality(K) \in Nat
    <2>1. IsFiniteSet(1..m)
        BY FS_Interval
    <2>2. IsFiniteSet(K)
        BY <2>1, FS_Subset
    <2>. QED
        BY <2>2, FS_CardinalityType
<1>1. \A k \in Nat : IsFiniteSet(Upto(k)) /\ Cardinality(Upto(k)) \in Nat
    <2>. TAKE k \in Nat
    <2>1. Upto(k) \subseteq K
        OBVIOUS
    <2>2. IsFiniteSet(Upto(k))
        BY <1>0, <2>1, FS_Subset
    <2>. QED
        BY <2>2, FS_CardinalityType
<1>2. Upto(m) = K
    <2>1. \A j \in K : j <= m
        OBVIOUS
    <2>. QED
        BY <2>1
<1>n. n \in Nat /\ n <= Cardinality(K)
    BY <1>0
<1>3. m \in Long
    <2>1. Cardinality(Upto(m)) >= n
        BY <1>0, <1>2, <1>n
    <2>. QED
        BY <2>1
<1>4. PICK k \in Long : \A j \in Long : k <= j
    <2>1. Long \in SUBSET Nat /\ Long # {}
        BY <1>3
    <2>. HIDE DEF Long
    <2>. QED
        BY <2>1, Smallest
<1>5. k \in Nat /\ Cardinality(Upto(k)) >= n
    BY <1>4
<1>6. k # 0
    <2>1. SUFFICES ASSUME k = 0 PROVE FALSE
        OBVIOUS
    <2>2. \A j \in K : ~(j <= 0)
        OBVIOUS
    <2>3. Upto(k) = {}
        BY <2>1, <2>2
    <2>4. Cardinality(Upto(k)) = 0
        BY <2>3, FS_EmptySet
    <2>. QED
        BY <2>4, <1>5
<1>7. k - 1 \in Nat
    BY <1>5, <1>6
<1>8. Cardinality(Upto(k - 1)) < n
    <2>1. k - 1 \notin Long
        <3>1. \A j \in Long : k <= j
            BY <1>4
        <3>2. ~(k <= k - 1)
            BY <1>5
        <3>. HIDE DEF Long
        <3>. QED
            BY <3>1, <3>2
    <2>2. ~(Cardinality(Upto(k - 1)) >= n)
        BY <2>1, <1>7
    <2>3. Cardinality(Upto(k - 1)) \in Nat
        BY <1>1, <1>7
    <2>. HIDE DEF Upto
    <2>. QED
        BY <2>2, <2>3, <1>n
<1>9. \A j \in K : j \in Nat
    OBVIOUS
<1>10. Upto(k) = Upto(k - 1) \/ (k \in K /\ Upto(k) = Upto(k - 1) \cup {k})
    <2>1. \A j \in K : j <= k <=> (j <= k - 1 \/ j = k)
        BY <1>5, <1>9
    <2>. QED
        BY <2>1
<1>11. k \in K /\ Upto(k) = Upto(k - 1) \cup {k}
    BY <1>5, <1>8, <1>10, <1>1, <1>7
<1>12. k \notin Upto(k - 1)
    BY <1>5
<1>13. Cardinality(Upto(k)) = Cardinality(Upto(k - 1)) + 1
    <2>1. IsFiniteSet(Upto(k - 1)) /\ Cardinality(Upto(k - 1)) \in Nat
        BY <1>1, <1>7
    <2>. HIDE DEF Upto
    <2>. QED
        BY <2>1, <1>11, <1>12, FS_AddElement
<1>14. Cardinality(Upto(k)) = n
    <2>1. Cardinality(Upto(k - 1)) \in Nat
        BY <1>1, <1>7
    <2>. HIDE DEF Upto
    <2>. QED
        BY <2>1, <1>n, <1>5, <1>8, <1>13
<1>. QED
    BY <1>11, <1>14

(* Select returns a sequence of members of s.                              *)
LEMMA SelectType ==
    ASSUME NEW S, NEW s \in Seq(S), NEW K \in SUBSET (DOMAIN s)
    PROVE  Select(s, K) \in Seq(S)
<1>1. DOMAIN s = 1..Len(s) /\ Len(s) \in Nat
    OBVIOUS
<1>2. Cardinality(K) \in Nat
    <2>1. IsFiniteSet(1..Len(s))
        BY <1>1, FS_Interval
    <2>2. IsFiniteSet(K)
        BY <1>1, <2>1, FS_Subset
    <2>. QED
        BY <2>2, FS_CardinalityType
<1>. DEFINE Place(n) == CHOOSE k \in K : Cardinality({j \in K : j <= k}) = n
<1>3. ASSUME NEW n \in 1..Cardinality(K)
      PROVE  s[Place(n)] \in S
    <2>1. \E k \in K : Cardinality({j \in K : j <= k}) = n
        BY <1>1, PlaceExists
    <2>2. Place(n) \in K
        BY <2>1
    <2>. HIDE DEF Place
    <2>. QED
        BY <2>2, <1>1
<1>4. Select(s, K) = [n \in 1..Cardinality(K) |-> s[Place(n)]]
    BY DEF Select
<1>. HIDE DEF Place
<1>. QED
    BY <1>2, <1>3, <1>4

(* Insert returns a sequence of the members of s and e.                    *)
LEMMA InsertType ==
    ASSUME NEW S, NEW s \in Seq(S), NEW n \in 0..Len(s), NEW e \in S
    PROVE  /\ Insert(s, n, e) \in Seq(S)
           /\ Len(Insert(s, n, e)) = Len(s) + 1
           /\ \A i \in 1..Len(s) + 1 : Insert(s, n, e)[i] =
                 IF i <= n THEN s[i] ELSE IF i = n + 1 THEN e ELSE s[i - 1]
<1>1. Len(s) \in Nat /\ n \in Nat /\ n <= Len(s)
    OBVIOUS
<1>. DEFINE a == SubSeq(s, 1, n)
            b == SubSeq(s, n + 1, Len(s))
<1>2. a \in Seq(S) /\ Len(a) = n /\ \A i \in 1..n : a[i] = s[i]
    BY <1>1
<1>3. b \in Seq(S) /\ Len(b) = Len(s) - n /\ \A i \in 1..(Len(s) - n) : b[i] = s[n + i]
    BY <1>1
<1>4. Insert(s, n, e) = a \o <<e>> \o b
    BY DEF Insert
<1>. HIDE DEF a, b
<1>. DEFINE c == a \o <<e>>
<1>5. c \in Seq(S) /\ Len(c) = n + 1 /\ \A i \in 1..(n + 1) : c[i] = IF i <= n THEN a[i] ELSE e
    BY <1>1, <1>2
<1>. HIDE DEF c
<1>6. /\ c \o b \in Seq(S) /\ Len(c \o b) = Len(s) + 1
      /\ \A i \in 1..(Len(s) + 1) : (c \o b)[i] = IF i <= n + 1 THEN c[i] ELSE b[i - (n + 1)]
    <2>1. /\ c \o b \in Seq(S) /\ Len(c \o b) = Len(c) + Len(b)
          /\ \A i \in 1..Len(c) + Len(b) :
                (c \o b)[i] = IF i <= Len(c) THEN c[i] ELSE b[i - Len(c)]
        BY <1>3, <1>5, ConcatProperties
    <2>2. Len(c) + Len(b) = Len(s) + 1
        BY <1>1, <1>3, <1>5
    <2>. QED
        BY <1>5, <2>1, <2>2
<1>7. Insert(s, n, e) = c \o b
    BY <1>4 DEF c
<1>8. \A i \in 1..Len(s) + 1 : (c \o b)[i] =
                 IF i <= n THEN s[i] ELSE IF i = n + 1 THEN e ELSE s[i - 1]
    <2>. TAKE i \in 1..Len(s) + 1
    <2>1. CASE i <= n
        <3>1. i \in 1..n /\ i \in 1..(n + 1)
            BY <2>1, <1>1
        <3>. QED
            BY <2>1, <3>1, <1>1, <1>2, <1>5, <1>6
    <2>2. CASE i = n + 1
        BY <2>2, <1>1, <1>5, <1>6
    <2>3. CASE i > n + 1
        <3>1. i - (n + 1) \in 1..(Len(s) - n) /\ n + (i - (n + 1)) = i - 1 /\ ~(i <= n + 1)
            BY <2>3, <1>1
        <3>2. (c \o b)[i] = b[i - (n + 1)]
            BY <3>1, <1>6
        <3>3. b[i - (n + 1)] = s[n + (i - (n + 1))]
            BY <3>1, <1>3
        <3>. QED
            BY <2>3, <3>1, <3>2, <3>3, <1>1
    <2>4. i <= n \/ i = n + 1 \/ i > n + 1
        BY <1>1
    <2>. QED
        BY <2>1, <2>2, <2>3, <2>4
<1>. QED
    BY <1>6, <1>7, <1>8

-----------------------------------------------------------------------------
(* Lookups                                                                 *)

Handler == [func : Funcs, priority : Priorities]

(* The first match is a function that is registered, or there is none.     *)
LEMMA FirstMatchingType ==
    ASSUME NEW hs \in Handlers, NEW v
    PROVE  FirstMatching(hs, v) \in Found
<1>1. DOMAIN hs \subseteq Nat /\ \A i \in DOMAIN hs : hs[i].func \in Funcs
    <2>1. hs \in Seq(Handler)
        BY DEF Handlers, Handler
    <2>2. DOMAIN hs = 1..Len(hs) /\ Len(hs) \in Nat /\ \A i \in DOMAIN hs : hs[i] \in Handler
        BY <2>1
    <2>. QED
        BY <2>2 DEF Handler
<1>. DEFINE hits == {i \in DOMAIN hs : v \in Matches[hs[i].func]}
            first == CHOOSE i \in hits : \A j \in hits : i <= j
<1>2. CASE hits = {}
    BY <1>2 DEF FirstMatching, Found
<1>3. CASE hits # {}
    <2>1. hits \in SUBSET Nat
        BY <1>1
    <2>2. \E i \in hits : \A j \in hits : i <= j
        <3>. HIDE DEF hits
        <3>. QED
            BY <1>3, <2>1, Smallest
    <2>3. first \in hits
        <3>. HIDE DEF hits
        <3>. QED
            BY <2>2
    <2>4. FirstMatching(hs, v) = hs[first].func
        BY <1>3 DEF FirstMatching
    <2>5. hs[first].func \in Funcs
        <3>. HIDE DEF first
        <3>. QED
            BY <2>3, <1>1
    <2>. QED
        BY <2>4, <2>5 DEF Found
<1>. QED
    BY <1>2, <1>3

(* Without predicates, calls of the same types find the same handler.      *)
LEMMA SameTypesSameMatch ==
    ASSUME JudgeByType, NEW hs \in Handlers, ~HasPredicate(hs),
           NEW v \in Values, NEW w \in Values, TypeOf[v] = TypeOf[w]
    PROVE  FirstMatching(hs, v) = FirstMatching(hs, w)
<1>1. \A i \in DOMAIN hs : hs[i].func \in Plain
    BY DEF HasPredicate
<1>2. \A i \in DOMAIN hs : v \in Matches[hs[i].func] <=> w \in Matches[hs[i].func]
    BY <1>1 DEF JudgeByType
<1>. DEFINE Hits(u) == {i \in DOMAIN hs : u \in Matches[hs[i].func]}
            FuncOf(K) == IF K = {} THEN Nobody
                         ELSE hs[CHOOSE i \in K : \A j \in K : i <= j].func
<1>3. Hits(v) = Hits(w)
    BY <1>2
<1>4. FirstMatching(hs, v) = FuncOf(Hits(v)) /\ FirstMatching(hs, w) = FuncOf(Hits(w))
    BY DEF FirstMatching
<1>. HIDE DEF Hits, FuncOf
<1>. QED
    BY <1>3, <1>4

-----------------------------------------------------------------------------
(* The inductive invariant                                                 *)

(* A saved version describes itself as the dispatcher's own table does.    *)
SavedFlags ==
    \A c \in Contexts : snapshot[c] # <<>> =>
        snapshot[c][1].hasPredicates = HasPredicate(snapshot[c][1].handlers)

SavedCoherent ==
    \A c \in Contexts : snapshot[c] # <<>> /\ ~snapshot[c][1].hasPredicates =>
        Coherent(snapshot[c][1].handlers, snapshot[c][1].cache)

TInv == TypeOK /\ SavedFlags
CInv == CacheCoherent /\ SavedCoherent

LEMMA EmptyTable ==
    <<>> \in Handlers /\ NoCache \in Caches /\ ~HasPredicate(<<>>)
<1>1. NoCache \in [{} -> Found]
    BY DEF NoCache
<1>. QED
    BY <1>1 DEF Handlers, Caches, HasPredicate

LEMMA TInvInit == Init => TInv
<1>. SUFFICES ASSUME Init PROVE TInv
    OBVIOUS
<1>1. specific \in BOOLEAN /\ fallback \in Found /\ advisors \in Seq(Advice)
    BY DispatcherAssumption DEF Init, Found
<1>2. handlers \in Handlers /\ cache \in Caches /\ hasPredicates = HasPredicate(handlers)
    BY EmptyTable DEF Init, HasPredicate
<1>3. \A c \in Contexts : snapshot[c] = <<>>
    BY DEF Init
<1>4. snapshot \in [Contexts -> Seq(Version)] /\ \A c \in Contexts : Len(snapshot[c]) <= 1
    <2>1. <<>> \in Seq(Version) /\ Len(<<>>) <= 1
        OBVIOUS
    <2>2. snapshot \in [Contexts -> Seq(Version)]
        BY <2>1 DEF Init
    <2>. QED
        BY <1>3, <2>1, <2>2
<1>. QED
    BY <1>1, <1>2, <1>3, <1>4 DEF TInv, TypeOK, SavedFlags

(* register() keeps the list in shape and the flag in step with it.        *)
LEMMA RegisterTInv ==
    ASSUME TInv, NEW f \in Funcs, NEW p \in Priorities, Register(f, p)
    PROVE  TInv'
<1>. DEFINE e == [func |-> f, priority |-> p]
            ahead == {i \in DOMAIN handlers : handlers[i].priority >= p}
            n == Cardinality(ahead)
<1>1. handlers \in Seq(Handler) /\ e \in Handler
    BY DEF TInv, TypeOK, Handlers, Handler
<1>2. n \in 0..Len(handlers)
    <2>1. ahead \subseteq 1..Len(handlers) /\ Len(handlers) \in Nat
        BY <1>1
    <2>2. IsFiniteSet(1..Len(handlers)) /\ Cardinality(1..Len(handlers)) = Len(handlers)
        <3>1. 1 \in Int /\ Len(handlers) \in Int
            BY <2>1
        <3>2. /\ IsFiniteSet(1..Len(handlers))
              /\ Cardinality(1..Len(handlers)) =
                     IF 1 > Len(handlers) THEN 0 ELSE Len(handlers) - 1 + 1
            BY <3>1, FS_Interval
        <3>. QED
            BY <2>1, <3>2
    <2>3. IsFiniteSet(ahead) /\ Cardinality(ahead) <= Len(handlers)
        <3>. HIDE DEF ahead
        <3>. QED
            BY <2>1, <2>2, FS_Subset
    <2>4. Cardinality(ahead) \in Nat
        BY <2>3, FS_CardinalityType
    <2>. HIDE DEF ahead
    <2>. QED
        BY <2>1, <2>3, <2>4
<1>3. handlers' = Insert(handlers, n, e)
    BY DEF Register, Registered
<1>. HIDE DEF n, e
<1>3a. /\ Insert(handlers, n, e) \in Seq(Handler)
       /\ Len(Insert(handlers, n, e)) = Len(handlers) + 1
       /\ \A i \in 1..Len(handlers) + 1 : Insert(handlers, n, e)[i] =
            IF i <= n THEN handlers[i] ELSE IF i = n + 1 THEN e ELSE handlers[i - 1]
    BY <1>1, <1>2, InsertType
<1>4. /\ handlers' \in Seq(Handler) /\ Len(handlers') = Len(handlers) + 1
      /\ \A i \in 1..Len(handlers) + 1 : handlers'[i] =
            IF i <= n THEN handlers[i] ELSE IF i = n + 1 THEN e ELSE handlers[i - 1]
    BY <1>3, <1>3a
<1>5. HasPredicate(handlers') = (HasPredicate(handlers) \/ f \notin Plain)
    <2>1. /\ DOMAIN handlers = 1..Len(handlers) /\ DOMAIN handlers' = 1..Len(handlers) + 1
          /\ Len(handlers) \in Nat /\ n \in Nat /\ n <= Len(handlers)
        BY <1>1, <1>2, <1>4
    <2>2. handlers'[n + 1] = e /\ n + 1 \in DOMAIN handlers' /\ e.func = f
        BY <2>1, <1>4 DEF e
    <2>3. \A i \in DOMAIN handlers : i <= n => handlers'[i] = handlers[i] /\ i \in DOMAIN handlers'
        BY <2>1, <1>4
    <2>4. ASSUME NEW i \in DOMAIN handlers, ~(i <= n)
          PROVE  handlers'[i + 1] = handlers[i] /\ i + 1 \in DOMAIN handlers'
        BY <2>1, <2>4, <1>4
    <2>5. ASSUME NEW i \in DOMAIN handlers'
          PROVE  handlers'[i] = e \/ \E j \in DOMAIN handlers : handlers'[i] = handlers[j]
        <3>1. CASE i <= n
            BY <3>1, <2>1, <1>4
        <3>2. CASE i = n + 1
            BY <3>2, <2>2
        <3>3. CASE i > n + 1
            <4>1. i - 1 \in DOMAIN handlers /\ handlers'[i] = handlers[i - 1]
                BY <3>3, <2>1, <1>4
            <4>. QED
                BY <4>1
        <3>4. i <= n \/ i = n + 1 \/ i > n + 1
            BY <2>1
        <3>. QED
            BY <3>1, <3>2, <3>3, <3>4
    <2>6. HasPredicate(handlers') => (HasPredicate(handlers) \/ f \notin Plain)
        BY <2>2, <2>5 DEF HasPredicate
    <2>7. (HasPredicate(handlers) \/ f \notin Plain) => HasPredicate(handlers')
        BY <2>2, <2>3, <2>4 DEF HasPredicate
    <2>8. HasPredicate(handlers') \in BOOLEAN /\ HasPredicate(handlers) \in BOOLEAN
        BY DEF HasPredicate
    <2>. QED
        BY <2>6, <2>7, <2>8
<1>. QED
    BY <1>4, <1>5, EmptyTable
    DEF Register, TInv, TypeOK, SavedFlags, Handlers, Handler

(* unregister() keeps the lists in shape.                                  *)
LEMMA UnregisterTInv ==
    ASSUME TInv, NEW f \in Funcs, Unregister(f)
    PROVE  TInv'
<1>1. handlers \in Seq(Handler) /\ advisors \in Seq(Advice)
    BY DEF TInv, TypeOK, Handlers, Handler
<1>2. handlers' \in Seq(Handler)
    BY <1>1, SelectType DEF Unregister, Without
<1>3. advisors' \in Seq(Advice)
    BY <1>1, SelectType DEF Unregister, Without
<1>. QED
    BY <1>2, <1>3, EmptyTable
    DEF Unregister, RefreshPredicateState, TInv, TypeOK, SavedFlags, Handlers, Handler

(* A call that searches puts the match under the type signature.           *)
LEMMA CallSearchesTInv ==
    ASSUME TInv, NEW v \in Values, CallSearches(v)
    PROVE  TInv'
<1>1. FirstMatching(handlers, v) \in Found
    BY FirstMatchingType DEF TInv, TypeOK
<1>2. TypeOf[v] \in Types
    BY DispatcherAssumption
<1>3. PICK T \in SUBSET Types : cache \in [T -> Found]
    BY DEF TInv, TypeOK, Caches
<1>4. cache' \in [T \cup {TypeOf[v]} -> Found]
    BY <1>1, <1>3 DEF CallSearches
<1>5. cache' \in Caches
    BY <1>2, <1>4 DEF Caches
<1>. QED
    BY <1>5 DEF CallSearches, TInv, TypeOK, SavedFlags

LEMMA TInvNext == TInv /\ [Next]_vars => TInv'
<1>. SUFFICES ASSUME TInv, [Next]_vars PROVE TInv'
    OBVIOUS
<1>1. ASSUME NEW f \in Funcs, Unregister(f) PROVE TInv'
    BY <1>1, UnregisterTInv
<1>2. ASSUME NEW f \in Funcs, NEW p \in Priorities, Register(f, p) PROVE TInv'
    BY <1>2, RegisterTInv
<1>3. ASSUME NEW f \in Fallbacks, Fallback(f) PROVE TInv'
    BY <1>3, DispatcherAssumption DEF Fallback, TInv, TypeOK, SavedFlags, Found
<1>4. ASSUME NEW a \in Advice, Advise(a) PROVE TInv'
    BY <1>4 DEF Advise, TInv, TypeOK, SavedFlags
<1>5. CASE Clear
    BY <1>5, EmptyTable
    DEF Clear, RefreshPredicateState, TInv, TypeOK, SavedFlags, Found
<1>6. ASSUME NEW v \in Values, CallSearches(v) PROVE TInv'
    BY <1>6, CallSearchesTInv
<1>7. ASSUME NEW v \in Values, CallCached(v) \/ CallUncached(v) \/ CallSpecific(v)
      PROVE  TInv'
    BY <1>7 DEF CallCached, CallUncached, CallSpecific, table, TInv, TypeOK, SavedFlags
<1>8. ASSUME NEW c \in Contexts, Enter(c) PROVE TInv'
    <2>. DEFINE r == [handlers |-> handlers, fallback |-> fallback, cache |-> cache,
                      hasPredicates |-> hasPredicates]
    <2>1. r \in Version /\ r.hasPredicates = HasPredicate(r.handlers)
        BY DEF TInv, TypeOK, Version, HasPredicate
    <2>2. snapshot' = [snapshot EXCEPT ![c] = <<r>>]
        BY <1>8 DEF Enter
    <2>. HIDE DEF r
    <2>3. snapshot' \in [Contexts -> Seq(Version)]
        BY <2>1, <2>2 DEF TInv, TypeOK
    <2>4. \A d \in Contexts : Len(snapshot'[d]) <= 1
        BY <2>1, <2>2 DEF TInv, TypeOK
    <2>5. SavedFlags'
        BY <2>1, <2>2 DEF TInv, TypeOK, SavedFlags
    <2>. QED
        BY <1>8, <2>3, <2>4, <2>5 DEF Enter, table, TInv, TypeOK
<1>9. ASSUME NEW c \in Contexts, Rollback(c) PROVE TInv'
    <2>1. snapshot[c] \in Seq(Version) /\ snapshot[c] # <<>>
        BY <1>9 DEF Rollback, TInv, TypeOK
    <2>2. snapshot[c][1] \in Version
        BY <2>1
    <2>. QED
        BY <1>9, <2>1, <2>2 DEF Rollback, TInv, TypeOK, SavedFlags, Version
<1>10. CASE UNCHANGED vars
    BY <1>10 DEF vars, TInv, TypeOK, SavedFlags
<1>. QED
    BY <1>1, <1>2, <1>3, <1>4, <1>5, <1>6, <1>7, <1>8, <1>9, <1>10 DEF Next

(* The attributes keep their shape, and _has_predicates tells the truth    *)
(* about the handlers, through every registration, removal and rollback.   *)
THEOREM TypeCorrect == Spec => []TypeOK
<1>1. TInv => TypeOK
    BY DEF TInv
<1>. QED
    BY <1>1, TInvInit, TInvNext, PTL DEF Spec

-----------------------------------------------------------------------------
(* Coherence                                                               *)

LEMMA CInvInit == Init => CInv
    BY DEF Init, CInv, CacheCoherent, SavedCoherent, Coherent, NoCache

LEMMA CInvNext ==
    ASSUME JudgeByType
    PROVE  TInv /\ CInv /\ [Next]_vars => CInv'
<1>. SUFFICES ASSUME TInv, CInv, [Next]_vars PROVE CInv'
    OBVIOUS
<1>0. \A hs : Coherent(hs, NoCache)
    BY DEF Coherent, NoCache
<1>1. ASSUME NEW f \in Funcs, Unregister(f) PROVE CInv'
    BY <1>0, <1>1 DEF Unregister, CInv, CacheCoherent, SavedCoherent
<1>2. ASSUME NEW f \in Funcs, NEW p \in Priorities, Register(f, p) PROVE CInv'
    BY <1>0, <1>2 DEF Register, CInv, CacheCoherent, SavedCoherent
<1>3. ASSUME NEW f \in Fallbacks, Fallback(f) PROVE CInv'
    BY <1>3 DEF Fallback, CInv, CacheCoherent, SavedCoherent
<1>4. ASSUME NEW a \in Advice, Advise(a) PROVE CInv'
    BY <1>4 DEF Advise, CInv, CacheCoherent, SavedCoherent
<1>5. CASE Clear
    BY <1>0, <1>5 DEF Clear, CInv, CacheCoherent, SavedCoherent
<1>6. ASSUME NEW v \in Values, CallSearches(v) PROVE CInv'
    <2>1. ~HasPredicate(handlers) /\ handlers \in Handlers
        BY <1>6 DEF CallSearches, TInv, TypeOK
    <2>2. ASSUME NEW w \in Values, TypeOf[w] \in DOMAIN cache'
          PROVE  cache'[TypeOf[w]] = FirstMatching(handlers, w)
        <3>1. CASE TypeOf[w] = TypeOf[v]
            <4>1. cache'[TypeOf[w]] = FirstMatching(handlers, v)
                BY <3>1, <2>2, <1>6 DEF CallSearches
            <4>. QED
                BY <4>1, <3>1, <2>1, SameTypesSameMatch
        <3>2. CASE TypeOf[w] # TypeOf[v]
            <4>1. TypeOf[w] \in DOMAIN cache /\ cache'[TypeOf[w]] = cache[TypeOf[w]]
                BY <3>2, <2>2, <1>6 DEF CallSearches
            <4>. QED
                BY <4>1, <1>6 DEF CallSearches, CInv, CacheCoherent, Coherent
        <3>. QED
            BY <3>1, <3>2
    <2>3. Coherent(handlers, cache)'
        BY <2>2, <1>6 DEF CallSearches, Coherent
    <2>. QED
        BY <2>3, <1>6 DEF CallSearches, CInv, CacheCoherent, SavedCoherent
<1>7. ASSUME NEW v \in Values, CallCached(v) \/ CallUncached(v) \/ CallSpecific(v)
      PROVE  CInv'
    BY <1>7 DEF CallCached, CallUncached, CallSpecific, table, CInv, CacheCoherent,
        SavedCoherent
<1>8. ASSUME NEW c \in Contexts, Enter(c) PROVE CInv'
    <2>. DEFINE r == [handlers |-> handlers, fallback |-> fallback, cache |-> cache,
                      hasPredicates |-> hasPredicates]
    <2>1. ~r.hasPredicates => Coherent(r.handlers, r.cache)
        BY DEF CInv, CacheCoherent
    <2>2. snapshot' = [snapshot EXCEPT ![c] = <<r>>] /\ snapshot \in [Contexts -> Seq(Version)]
        BY <1>8 DEF Enter, TInv, TypeOK
    <2>. HIDE DEF r
    <2>3. SavedCoherent'
        BY <2>1, <2>2 DEF CInv, SavedCoherent
    <2>. QED
        BY <1>8, <2>3 DEF Enter, table, CInv, CacheCoherent
<1>9. ASSUME NEW c \in Contexts, Rollback(c) PROVE CInv'
    BY <1>9 DEF Rollback, CInv, CacheCoherent, SavedCoherent
<1>10. CASE UNCHANGED vars
    BY <1>10 DEF vars, CInv, CacheCoherent, SavedCoherent
<1>. QED
    BY <1>1, <1>2, <1>3, <1>4, <1>5, <1>6, <1>7, <1>8, <1>9, <1>10 DEF Next

(* For any handlers that judge by types: what is found in _cache is what a *)
(* search would find, after any sequence of operations.                    *)
THEOREM CacheSafety ==
    ASSUME JudgeByType
    PROVE  Spec => []CacheCoherent
<1>1. CInv => CacheCoherent
    BY DEF CInv
<1>2. TInv /\ CInv /\ [Next]_vars => TInv' /\ CInv'
    BY TInvNext, CInvNext
<1>. QED
    BY <1>1, <1>2, TInvInit, CInvInit, PTL DEF Spec

(* And so every call runs the first handler that matches, or the fallback. *)
THEOREM CallsAreExact ==
    ASSUME JudgeByType
    PROVE  Spec => []RunsFirstMatching
<1>1. Init => RunsFirstMatching
    BY DEF Init, RunsFirstMatching
<1>2. CacheCoherent /\ RunsFirstMatching /\ [Next]_vars => RunsFirstMatching'
    <2>. SUFFICES ASSUME CacheCoherent, RunsFirstMatching, [Next]_vars
                  PROVE  RunsFirstMatching'
        OBVIOUS
    <2>1. CASE answer' = <<>>
        BY <2>1 DEF RunsFirstMatching
    <2>2. ASSUME NEW v \in Values, CallCached(v) \/ CallSearches(v) \/ CallUncached(v)
          PROVE  RunsFirstMatching'
        <3>1. /\ handlers' = handlers /\ fallback' = fallback
              /\ Answers(v, FirstMatching(handlers, v))
            BY <2>2 DEF CallCached, CallSearches, CallUncached, table, CacheCoherent, Coherent
        <3>2. /\ answer'.call = v
              /\ answer'.func = IF FirstMatching(handlers, v) = Nobody THEN fallback
                                ELSE FirstMatching(handlers, v)
            BY <3>1 DEF Answers
        <3>3. FirstMatching(handlers', answer'.call) = FirstMatching(handlers, v)
            BY <3>1, <3>2
        <3>. QED
            BY <3>1, <3>2, <3>3 DEF RunsFirstMatching
    <2>3. ASSUME NEW v \in Values, CallSpecific(v) PROVE RunsFirstMatching'
        BY <2>3 DEF CallSpecific, RunsFirstMatching
    <2>4. CASE UNCHANGED vars
        BY <2>4 DEF vars, RunsFirstMatching, FirstMatching
    <2>. QED
        BY <2>1, <2>2, <2>3, <2>4
        DEF Next, Unregister, Register, Fallback, Advise, Clear, Enter, Rollback
<1>. QED
    BY <1>1, <1>2, CacheSafety, PTL DEF Spec

-----------------------------------------------------------------------------
(* Selections                                                              *)

(* The function g lists the n members of a set of places in ascending      *)
(* order.                                                                  *)
Lists(g, n, K) ==
    /\ g \in [1..n -> K]
    /\ \A i, j \in 1..n : i < j => g[i] < g[j]
    /\ \A k \in K : \E i \in 1..n : g[i] = k

Picked(s, g, n) == [i \in 1..n |-> s[g[i]]]

Upto(K, k) == {j \in K : j <= k}

LEMMA UptoFinite ==
    ASSUME NEW m \in Nat, NEW K \in SUBSET (1..m)
    PROVE  /\ IsFiniteSet(K) /\ Cardinality(K) \in Nat
           /\ \A k \in K : /\ IsFiniteSet(Upto(K, k))
                           /\ Cardinality(Upto(K, k)) \in 1..Cardinality(K)
<1>1. IsFiniteSet(1..m)
    BY FS_Interval
<1>2. IsFiniteSet(K)
    BY <1>1, FS_Subset
<1>3. Cardinality(K) \in Nat
    BY <1>2, FS_CardinalityType
<1>4. ASSUME NEW k \in K
      PROVE  /\ IsFiniteSet(Upto(K, k))
             /\ Cardinality(Upto(K, k)) \in 1..Cardinality(K)
    <2>. DEFINE U == Upto(K, k)
    <2>1. U \subseteq K /\ k \in U
        BY DEF Upto
    <2>. HIDE DEF U
    <2>2. IsFiniteSet(U) /\ Cardinality(U) <= Cardinality(K)
        BY <1>2, <2>1, FS_Subset
    <2>3. Cardinality(U) \in Nat /\ Cardinality(U) # 0
        BY <2>1, <2>2, FS_CardinalityType, FS_EmptySet
    <2>. QED
        BY <1>3, <2>2, <2>3 DEF U
<1>. QED
    BY <1>2, <1>3, <1>4

(* What lists a set counts its members.                                    *)
Counts(g, n, K) ==
    /\ Cardinality(K) = n
    /\ \A i \in 1..n : Cardinality(Upto(K, g[i])) = i

LEMMA ListsCount ==
    ASSUME NEW m \in Nat, NEW K \in SUBSET (1..m), NEW n \in Nat, NEW g, Lists(g, n, K)
    PROVE  Counts(g, n, K)
<1>0. \A k \in K : k \in Nat
    OBVIOUS
<1>0a. /\ g \in [1..n -> K]
       /\ \A i, j \in 1..n : i < j => g[i] < g[j]
       /\ \A k \in K : \E i \in 1..n : g[i] = k
    BY DEF Lists
<1>0b. \A i \in 1..n : g[i] \in K
    BY <1>0a
<1>1. /\ \A i \in 1..n : g[i] \in K /\ g[i] \in Nat
      /\ \A i, j \in 1..n : i < j => g[i] < g[j]
      /\ \A k \in K : \E i \in 1..n : g[i] = k
    BY <1>0, <1>0a, <1>0b
<1>2. \A i, j \in 1..n : i <= j <=> g[i] <= g[j]
    <2>. TAKE i, j \in 1..n
    <2>1. i < j \/ i = j \/ j < i
        OBVIOUS
    <2>. QED
        BY <1>1, <2>1
<1>3. ASSUME NEW i \in 0..n, NEW U, U \subseteq K,
             \A j \in 1..i : g[j] \in U,
             \A k \in U : \E j \in 1..i : g[j] = k
      PROVE  Cardinality(U) = i
    <2>. DEFINE h == [j \in 1..i |-> g[j]]
    <2>1. \A j \in 1..i : j \in 1..n
        OBVIOUS
    <2>2. h \in [1..i -> U] /\ \A j, k \in 1..i : h[j] = h[k] => j = k
        <3>1. \A j, k \in 1..i : g[j] = g[k] => j = k
            <4>. SUFFICES ASSUME NEW j \in 1..i, NEW k \in 1..i, g[j] = g[k] PROVE j = k
                OBVIOUS
            <4>1. j \in 1..n /\ k \in 1..n /\ g[j] <= g[k] /\ g[k] <= g[j]
                BY <1>1, <2>1
            <4>. QED
                BY <1>2, <4>1
        <3>. QED
            BY <1>3, <3>1
    <2>3. \A k \in U : \E j \in 1..i : h[j] = k
        BY <1>3
    <2>. HIDE DEF h
    <2>4. ExistsBijection(1..i, U)
        <3>1. h \in Injection(1..i, U)
            BY <2>2 DEF Injection, IsInjective
        <3>2. h \in Surjection(1..i, U)
            BY <2>2, <2>3 DEF Surjection
        <3>. QED
            BY <3>1, <3>2 DEF ExistsBijection, Bijection
    <2>5. i \in Nat /\ 1 \in Int /\ i \in Int
        OBVIOUS
    <2>6. IsFiniteSet(1..i) /\ Cardinality(1..i) = IF 1 > i THEN 0 ELSE i - 1 + 1
        BY <2>5, FS_Interval
    <2>. QED
        BY <2>4, <2>5, <2>6, FS_Bijection
<1>4. Cardinality(K) = n
    <2>1. n \in 0..n /\ K \subseteq K
        OBVIOUS
    <2>. QED
        BY <1>1, <1>3, <2>1
<1>5. ASSUME NEW i \in 1..n PROVE Cardinality(Upto(K, g[i])) = i
    <2>1. \A j \in 1..i : j \in 1..n /\ g[j] \in Upto(K, g[i])
        BY <1>1, <1>2 DEF Upto
    <2>2. ASSUME NEW k \in Upto(K, g[i]) PROVE \E j \in 1..i : g[j] = k
        <3>1. PICK j \in 1..n : g[j] = k
            BY <1>1 DEF Upto
        <3>2. j <= i
            BY <1>2, <3>1 DEF Upto
        <3>. QED
            BY <3>1, <3>2
    <2>3. i \in 0..n /\ Upto(K, g[i]) \subseteq K
        BY DEF Upto
    <2>. QED
        BY <1>3, <2>1, <2>2, <2>3
<1>. QED
    BY <1>4, <1>5 DEF Counts

(* A listing exists, it is the only one, and it gives what Select returns. *)
LEMMA ListingExists ==
    ASSUME NEW m \in Nat, NEW K \in SUBSET (1..m)
    PROVE  \E n \in Nat : \E g : Lists(g, n, K)
<1>. DEFINE n == Cardinality(K)
            g == [i \in 1..n |-> CHOOSE k \in K : Cardinality(Upto(K, k)) = i]
<1>0. \A k \in K : k \in Nat
    OBVIOUS
<1>1. /\ n \in Nat
      /\ \A k \in K : /\ IsFiniteSet(Upto(K, k))
                      /\ Cardinality(Upto(K, k)) \in 1..n
    BY UptoFinite
<1>2. ASSUME NEW i \in 1..n
      PROVE  g[i] \in K /\ Cardinality(Upto(K, g[i])) = i
    <2>1. \E k \in K : Cardinality(Upto(K, k)) = i
        BY PlaceExists DEF Upto
    <2>. QED
        BY <2>1
<1>3. ASSUME NEW k \in K, NEW l \in K, k <= l
      PROVE  /\ Cardinality(Upto(K, k)) <= Cardinality(Upto(K, l))
             /\ Cardinality(Upto(K, k)) = Cardinality(Upto(K, l)) => k = l
    <2>1. Upto(K, k) \subseteq Upto(K, l) /\ l \in Upto(K, l)
        <3>1. \A j \in K : j <= k => j <= l
            BY <1>0, <1>3
        <3>2. l <= l
            BY <1>0
        <3>. QED
            BY <3>1, <3>2 DEF Upto
    <2>2. /\ Cardinality(Upto(K, k)) <= Cardinality(Upto(K, l))
          /\ Cardinality(Upto(K, l)) = Cardinality(Upto(K, k)) => Upto(K, l) = Upto(K, k)
        BY <1>1, <2>1, FS_Subset
    <2>3. l \in Upto(K, k) => k = l
        <3>1. k \in Nat /\ l \in Nat
            BY <1>0
        <3>. QED
            BY <1>3, <3>1 DEF Upto
    <2>. QED
        BY <2>1, <2>2, <2>3
<1>. HIDE DEF n
<1>4. g \in [1..n -> K]
    BY <1>2
<1>. HIDE DEF g
<1>5. ASSUME NEW i \in 1..n, NEW j \in 1..n, i < j
      PROVE  g[i] < g[j]
    <2>1. g[i] \in K /\ g[j] \in K
        BY <1>2
    <2>2. g[i] \in Nat /\ g[j] \in Nat
        BY <1>0, <2>1
    <2>3. ASSUME g[j] <= g[i] PROVE FALSE
        <3>1. Cardinality(Upto(K, g[j])) <= Cardinality(Upto(K, g[i]))
            BY <1>3, <2>1, <2>3
        <3>2. Cardinality(Upto(K, g[j])) = j /\ Cardinality(Upto(K, g[i])) = i
            BY <1>2
        <3>. QED
            BY <1>5, <3>1, <3>2
    <2>. QED
        BY <2>2, <2>3
<1>6. ASSUME NEW k \in K
      PROVE  \E i \in 1..n : g[i] = k
    <2>1. PICK i \in 1..n : Cardinality(Upto(K, k)) = i
        BY <1>1
    <2>2. g[i] \in K /\ Cardinality(Upto(K, g[i])) = i
        BY <1>2
    <2>3. g[i] \in Nat /\ k \in Nat
        BY <1>0, <2>2
    <2>4. CASE g[i] <= k
        BY <1>3, <2>1, <2>2, <2>4
    <2>5. CASE k <= g[i]
        BY <1>3, <2>1, <2>2, <2>5
    <2>. QED
        BY <2>3, <2>4, <2>5
<1>7. Lists(g, n, K)
    BY <1>4, <1>5, <1>6 DEF Lists
<1>. QED
    BY <1>1, <1>7

Agree(g, h, n) == \A i \in 1..n : g[i] = h[i]

LEMMA ListsUnique ==
    ASSUME NEW m \in Nat, NEW K \in SUBSET (1..m),
           NEW n \in Nat, NEW g, Lists(g, n, K), NEW l \in Nat, NEW h, Lists(h, l, K)
    PROVE  n = l /\ Agree(g, h, n)
<1>1. Counts(g, n, K) /\ Counts(h, l, K)
    BY ListsCount
<1>2. /\ n = l
      /\ \A i \in 1..n : Cardinality(Upto(K, g[i])) = i
      /\ \A i \in 1..l : Cardinality(Upto(K, h[i])) = i
    BY <1>1 DEF Counts
<1>3. ASSUME NEW i \in 1..n PROVE g[i] = h[i]
    <2>1. g[i] \in K
        BY DEF Lists
    <2>2. PICK j \in 1..l : h[j] = g[i]
        BY <2>1 DEF Lists
    <2>. QED
        BY <1>2, <2>2
<1>. QED
    BY <1>2, <1>3 DEF Agree

LEMMA SelectListed ==
    ASSUME NEW m \in Nat, NEW K \in SUBSET (1..m), NEW n \in Nat, NEW g, Lists(g, n, K),
           NEW s
    PROVE  Select(s, K) = Picked(s, g, n)
<1>. DEFINE Place(i) == CHOOSE k \in K : Cardinality(Upto(K, k)) = i
<1>0. Counts(g, n, K)
    BY ListsCount
<1>1. /\ Cardinality(K) = n
      /\ \A i \in 1..n : Cardinality(Upto(K, g[i])) = i
    BY <1>0 DEF Counts
<1>2. ASSUME NEW i \in 1..n PROVE Place(i) = g[i]
    <2>1. g[i] \in K
        BY DEF Lists
    <2>2. ASSUME NEW k \in K, Cardinality(Upto(K, k)) = i PROVE k = g[i]
        <3>1. PICK j \in 1..n : g[j] = k
            BY DEF Lists
        <3>. QED
            BY <1>1, <2>2, <3>1
    <2>. QED
        BY <1>1, <2>1, <2>2
<1>3. Select(s, K) = [i \in 1..n |-> s[Place(i)]]
    BY <1>1 DEF Select, Upto
<1>. HIDE DEF Place
<1>. QED
    BY <1>2, <1>3 DEF Picked

-----------------------------------------------------------------------------
(* The queues of the priorities                                            *)

Of(hs, p) == {i \in DOMAIN hs : hs[i].priority = p}

LEMMA HandlersType ==
    ASSUME NEW hs \in Handlers
    PROVE  /\ DOMAIN hs = 1..Len(hs) /\ Len(hs) \in Nat
           /\ \A i \in DOMAIN hs : /\ hs[i] \in Handler /\ i \in Nat
                                   /\ hs[i].func \in Funcs /\ hs[i].priority \in Priorities
<1>1. hs \in Seq(Handler)
    BY DEF Handlers, Handler
<1>2. DOMAIN hs = 1..Len(hs) /\ Len(hs) \in Nat /\ \A i \in DOMAIN hs : hs[i] \in Handler
    BY <1>1
<1>. QED
    BY <1>2 DEF Handler

(* What lists the handlers of a priority gives its queue.                  *)
LEMMA LevelListed ==
    ASSUME NEW hs \in Handlers, NEW p \in Priorities,
           NEW n \in Nat, NEW g, Lists(g, n, Of(hs, p))
    PROVE  /\ Level(hs)[p] = [i \in 1..n |-> hs[g[i]].func]
           /\ Level(hs)[p] \in Seq(Funcs) /\ DOMAIN Level(hs)[p] = 1..n
<1>. DEFINE funcs == [i \in DOMAIN hs |-> hs[i].func]
            m == Len(hs)
            K == Of(hs, p)
<1>1. /\ m \in Nat /\ K \in SUBSET (1..m) /\ K \subseteq DOMAIN hs
    BY HandlersType DEF Of
<1>2. Level(hs)[p] = Select(funcs, K)
    BY DEF Level, Of
<1>3. \A i \in 1..n : g[i] \in DOMAIN hs
    BY <1>1 DEF Lists
<1>. HIDE DEF m, K, funcs
<1>4. Select(funcs, K) = Picked(funcs, g, n)
    <2>1. Lists(g, n, K)
        BY DEF K
    <2>. QED
        BY ONLY <1>1, <2>1, n \in Nat, SelectListed
<1>5. Picked(funcs, g, n) = [i \in 1..n |-> hs[g[i]].func]
    BY <1>3 DEF funcs, Picked
<1>6. [i \in 1..n |-> hs[g[i]].func] \in Seq(Funcs)
    BY <1>3, HandlersType
<1>. QED
    BY <1>2, <1>4, <1>5, <1>6

LEMMA LevelExists ==
    ASSUME NEW hs \in Handlers, NEW p \in Priorities
    PROVE  \E n \in Nat : \E g : Lists(g, n, Of(hs, p))
<1>. DEFINE m == Len(hs)
            K == Of(hs, p)
<1>1. m \in Nat /\ K \in SUBSET (1..m)
    BY HandlersType DEF Of
<1>. HIDE DEF m, K
<1>2. \E n \in Nat : \E g : Lists(g, n, K)
    BY ONLY <1>1, ListingExists
<1>. QED
    BY <1>2 DEF K

LEMMA LevelType ==
    ASSUME NEW hs \in Handlers
    PROVE  Level(hs) \in [Priorities -> Seq(Funcs)]
<1>1. ASSUME NEW p \in Priorities PROVE Level(hs)[p] \in Seq(Funcs)
    <2>1. PICK n \in Nat : \E g : Lists(g, n, Of(hs, p))
        BY LevelExists
    <2>2. PICK g : Lists(g, n, Of(hs, p))
        BY <2>1
    <2>. QED
        BY <2>2, LevelListed
<1>2. Level(hs) = [p \in Priorities |-> Level(hs)[p]]
    BY DEF Level
<1>. QED
    BY <1>1, <1>2

(* Two tables whose queues are equal at each priority are equal.           *)
LEMMA LevelEqual ==
    ASSUME NEW hs, NEW l, l = [p \in Priorities |-> l[p]],
           \A p \in Priorities : Level(hs)[p] = l[p]
    PROVE  Level(hs) = l
<1>1. Level(hs) = [p \in Priorities |-> Level(hs)[p]]
    BY DEF Level
<1>. QED
    BY <1>1

LEMMA LevelEmpty == Level(<<>>) = D!Empty
<1>1. <<>> \in Handlers /\ \A p : Of(<<>>, p) = {}
    BY EmptyTable DEF Of
<1>2. ASSUME NEW p \in Priorities PROVE Level(<<>>)[p] = <<>>
    <2>1. Lists(<<>>, 0, Of(<<>>, p))
        <3>1. 1..0 = {}
            OBVIOUS
        <3>. QED
            BY <1>1, <3>1 DEF Lists
    <2>2. 0 \in Nat /\ 1..0 = {}
        OBVIOUS
    <2>3. Level(<<>>)[p] \in Seq(Funcs) /\ DOMAIN Level(<<>>)[p] = 1..0
        BY <1>1, <2>1, <2>2, LevelListed
    <2>. DEFINE l == Level(<<>>)[p]
    <2>. HIDE DEF l
    <2>4. l \in Seq(Funcs) /\ DOMAIN l = {}
        BY <2>2, <2>3 DEF l
    <2>5. l = <<>>
        BY <2>4
    <2>. QED
        BY <2>5 DEF l
<1>3. D!Empty = [p \in Priorities |-> <<>>]
    BY DEF D!Empty
<1>4. Level(<<>>) = [p \in Priorities |-> Level(<<>>)[p]]
    BY DEF Level
<1>. QED
    BY <1>2, <1>3, <1>4

(* The list is sorted by falling priority.                                 *)
Sorted(hs) == \A i, j \in DOMAIN hs : i < j => hs[i].priority >= hs[j].priority

(* Every place of a sorted list is a place of one queue, and the places    *)
(* come in the order of priority, and within a queue in its order.         *)
Pairs(l) == UNION {{p} \X DOMAIN l[p] : p \in Priorities}

Before(r, q) == q[1] < r[1] \/ (q[1] = r[1] /\ q[2] >= r[2])

LEMMA Places ==
    ASSUME NEW hs \in Handlers, Sorted(hs)
    PROVE  \E at \in [Pairs(Level(hs)) -> DOMAIN hs] :
              /\ \A i \in DOMAIN hs : \E r \in Pairs(Level(hs)) : at[r] = i
              /\ \A r \in Pairs(Level(hs)) : Level(hs)[r[1]][r[2]] = hs[at[r]].func
              /\ \A r, q \in Pairs(Level(hs)) : at[r] <= at[q] <=> Before(r, q)
              /\ \A r, q \in Pairs(Level(hs)) : at[r] = at[q] => r = q
<1>. DEFINE L == Level(hs)
            G == [p \in Priorities |-> CHOOSE g : \E n \in Nat : Lists(g, n, Of(hs, p))]
            N == [p \in Priorities |-> Len(L[p])]
            at == [r \in Pairs(L) |-> G[r[1]][r[2]]]
<1>1. ASSUME NEW p \in Priorities
      PROVE  /\ N[p] \in Nat /\ DOMAIN L[p] = 1..N[p]
             /\ Lists(G[p], N[p], Of(hs, p))
             /\ \A i \in 1..N[p] : L[p][i] = hs[G[p][i]].func
    <2>1. \E g : \E n \in Nat : Lists(g, n, Of(hs, p))
        BY LevelExists
    <2>2. PICK n \in Nat : Lists(G[p], n, Of(hs, p))
        BY <2>1
    <2>. HIDE DEF G
    <2>3. /\ L[p] = [i \in 1..n |-> hs[G[p][i]].func]
          /\ L[p] \in Seq(Funcs) /\ DOMAIN L[p] = 1..n
        BY <2>2, LevelListed
    <2>. HIDE DEF L
    <2>4. Len(L[p]) \in Nat /\ DOMAIN L[p] = 1..Len(L[p])
        BY <2>3
    <2>5. Len(L[p]) = n
        BY <2>3
    <2>. QED
        BY <2>2, <2>3, <2>5
<1>. HIDE DEF G, N, L
<1>2. ASSUME NEW r \in Pairs(L)
      PROVE  /\ r[1] \in Priorities /\ r[2] \in 1..N[r[1]] /\ r = <<r[1], r[2]>>
             /\ at[r] = G[r[1]][r[2]] /\ at[r] \in Of(hs, r[1])
             /\ at[r] \in DOMAIN hs /\ hs[at[r]].priority = r[1]
             /\ L[r[1]][r[2]] = hs[at[r]].func
    <2>1. r[1] \in Priorities /\ r[2] \in DOMAIN L[r[1]] /\ r = <<r[1], r[2]>>
        BY DEF Pairs
    <2>2. r[2] \in 1..N[r[1]] /\ Lists(G[r[1]], N[r[1]], Of(hs, r[1]))
        BY <1>1, <2>1
    <2>3. G[r[1]][r[2]] \in Of(hs, r[1])
        BY <2>2 DEF Lists
    <2>. QED
        BY <1>1, <2>1, <2>2, <2>3 DEF Of
<1>3. ASSUME NEW i \in DOMAIN hs
      PROVE  \E r \in Pairs(L) : at[r] = i
    <2>. DEFINE p == hs[i].priority
    <2>1. p \in Priorities /\ i \in Of(hs, p)
        BY HandlersType DEF Of
    <2>. HIDE DEF p
    <2>2. PICK n \in 1..N[p] : G[p][n] = i
        BY <1>1, <2>1 DEF Lists
    <2>3. <<p, n>> \in Pairs(L)
        BY <1>1, <2>1 DEF Pairs
    <2>. QED
        BY <2>2, <2>3
<1>. HIDE DEF at
<1>4. ASSUME NEW r \in Pairs(L), NEW q \in Pairs(L)
      PROVE  /\ at[r] <= at[q] <=> Before(r, q)
             /\ at[r] = at[q] => r = q
    <2>1. /\ r[1] \in Int /\ q[1] \in Int /\ at[r] \in Nat /\ at[q] \in Nat
          /\ r[2] \in Nat /\ q[2] \in Nat
        <3>1. r[1] \in Int /\ q[1] \in Int
            BY <1>2, DispatcherAssumption DEF DispatcherAssumption
        <3>2. at[r] \in Nat /\ at[q] \in Nat
            BY <1>2, HandlersType
        <3>. QED
            BY <1>1, <1>2, <3>1, <3>2
    <2>2. /\ at[r] < at[q] => r[1] >= q[1]
          /\ at[q] < at[r] => q[1] >= r[1]
        BY <1>2 DEF Sorted
    <2>3. CASE r[1] = q[1]
        <3>1. \A i, j \in 1..N[r[1]] : i < j => G[r[1]][i] < G[r[1]][j]
            BY <1>1, <1>2 DEF Lists
        <3>2. r[2] < q[2] => at[r] < at[q]
            BY <1>2, <2>3, <3>1
        <3>3. q[2] < r[2] => at[q] < at[r]
            BY <1>2, <2>3, <3>1
        <3>4. r[2] = q[2] => r = q /\ at[r] = at[q]
            BY <1>2, <2>3
        <3>. QED
            BY <2>1, <2>3, <3>2, <3>3, <3>4 DEF Before
    <2>4. CASE r[1] # q[1]
        <3>1. at[r] # at[q]
            BY <1>2, <2>4
        <3>2. at[r] < at[q] => q[1] < r[1]
            BY <2>1, <2>2, <2>4
        <3>3. at[q] < at[r] => r[1] < q[1]
            BY <2>1, <2>2, <2>4
        <3>. QED
            BY <2>1, <2>4, <3>1, <3>2, <3>3 DEF Before
    <2>. QED
        BY <2>3, <2>4
<1>5. at \in [Pairs(L) -> DOMAIN hs]
    BY <1>2 DEF at
<1>. QED
    BY <1>2, <1>3, <1>4, <1>5 DEF L

-----------------------------------------------------------------------------
(* Calls                                                                   *)

Hits(hs, v) == {i \in DOMAIN hs : v \in Matches[hs[i].func]}

(* The candidates of the table are the handlers that match, in order.      *)
LEMMA CandidatesAt ==
    ASSUME NEW hs \in Handlers, Sorted(hs), NEW v, NEW C,
           C = D!Candidates(Level(hs), v)
    PROVE  \E at :
              /\ \A r \in C : at[r] \in Hits(hs, v)
              /\ \A i \in Hits(hs, v) : \E r \in C : at[r] = i
              /\ \A r \in C : Level(hs)[r[1]][r[2]] = hs[at[r]].func
              /\ \A r, q \in C : at[r] <= at[q] <=> Before(r, q)
              /\ \A r, q \in C : at[r] = at[q] => r = q
<1>. DEFINE L == Level(hs)
<1>1. PICK at \in [Pairs(L) -> DOMAIN hs] :
              /\ \A i \in DOMAIN hs : \E r \in Pairs(L) : at[r] = i
              /\ \A r \in Pairs(L) : L[r[1]][r[2]] = hs[at[r]].func
              /\ \A r, q \in Pairs(L) : at[r] <= at[q] <=> Before(r, q)
              /\ \A r, q \in Pairs(L) : at[r] = at[q] => r = q
    BY Places
<1>. HIDE DEF L
<1>2. C = {r \in Pairs(L) : v \in Matches[L[r[1]][r[2]]]}
    BY DEF D!Candidates, Pairs, L
<1>3. ASSUME NEW r \in C
      PROVE  at[r] \in Hits(hs, v) /\ L[r[1]][r[2]] = hs[at[r]].func
    BY <1>1, <1>2 DEF Hits
<1>4. ASSUME NEW i \in Hits(hs, v)
      PROVE  \E r \in C : at[r] = i
    <2>1. PICK r \in Pairs(L) : at[r] = i
        BY <1>1 DEF Hits
    <2>2. L[r[1]][r[2]] = hs[i].func
        BY <1>1, <2>1
    <2>. QED
        BY <1>2, <2>1, <2>2 DEF Hits
<1>5. \A r, q \in C : /\ at[r] <= at[q] <=> Before(r, q)
                      /\ at[r] = at[q] => r = q
    BY <1>1, <1>2
<1>. QED
    BY <1>3, <1>4, <1>5 DEF L

(* The most urgent candidate is the first match.                           *)
LEMMA UrgentIsFirst ==
    ASSUME NEW hs \in Handlers, Sorted(hs), NEW v, NEW C,
           C = D!Candidates(Level(hs), v), C # {}
    PROVE  LET r == D!Urgent(C)
           IN  Level(hs)[r[1]][r[2]] = FirstMatching(hs, v) /\ FirstMatching(hs, v) \in Funcs
<1>. DEFINE H == Hits(hs, v)
            first == CHOOSE i \in H : \A j \in H : i <= j
            u == CHOOSE r \in C : \A q \in C : Before(r, q)
<1>1. PICK at : /\ \A r \in C : at[r] \in H
                /\ \A i \in H : \E r \in C : at[r] = i
                /\ \A r \in C : Level(hs)[r[1]][r[2]] = hs[at[r]].func
                /\ \A r, q \in C : at[r] <= at[q] <=> Before(r, q)
                /\ \A r, q \in C : at[r] = at[q] => r = q
    BY CandidatesAt
<1>2. H \in SUBSET Nat /\ H # {} /\ \A i \in H : hs[i].func \in Funcs
    <2>1. H # {}
        BY <1>1
    <2>. QED
        BY <2>1, HandlersType DEF Hits
<1>3. FirstMatching(hs, v) = hs[first].func
    BY <1>2 DEF FirstMatching, Hits
<1>4. D!Urgent(C) = u
    BY DEF D!Urgent, Before
<1>. HIDE DEF H
<1>5. first \in H /\ \A j \in H : first <= j
    <2>1. \E i \in H : \A j \in H : i <= j
        BY <1>2, Smallest
    <2>. QED
        BY <2>1
<1>. HIDE DEF first
<1>6. u \in C /\ \A q \in C : Before(u, q)
    <2>1. PICK r \in C : at[r] = first
        BY <1>1, <1>5
    <2>2. \A q \in C : Before(r, q)
        BY <1>1, <1>5, <2>1
    <2>. QED
        BY <2>2
<1>. HIDE DEF u
<1>7. at[u] = first
    <2>1. PICK r \in C : at[r] = first
        BY <1>1, <1>5
    <2>2. at[u] <= first /\ first <= at[u]
        BY <1>1, <1>5, <1>6, <2>1
    <2>3. at[u] \in Nat /\ first \in Nat
        BY <1>1, <1>2, <1>5, <1>6
    <2>. QED
        BY <2>2, <2>3
<1>8. Level(hs)[u[1]][u[2]] = hs[first].func /\ hs[first].func \in Funcs
    BY <1>1, <1>2, <1>5, <1>6, <1>7
<1>. QED
    BY <1>3, <1>4, <1>8

(* The nearest candidates are the handlers of the smallest distance.       *)
LEMMA NearestIsBest ==
    ASSUME NEW hs \in Handlers, Sorted(hs), NEW v \in Values, NEW C,
           C = D!Candidates(Level(hs), v), C # {}
    PROVE  LET near == D!Nearest(Level(hs), C, v)
               r == CHOOSE r \in C : near = {r}
           IN  /\ MostSpecific(hs, v) =
                    IF \E q \in C : near = {q} THEN Level(hs)[r[1]][r[2]] ELSE Ambiguous
               /\ MostSpecific(hs, v) \in Funcs \cup {Ambiguous}
<1>. DEFINE H == Hits(hs, v)
            dist(i) == Distance[hs[i].func][v]
            best == {i \in H : \A j \in H : dist(i) <= dist(j)}
            L == Level(hs)
            near == D!Nearest(L, C, v)
            only == CHOOSE r \in C : near = {r}
<1>1. PICK at : /\ \A r \in C : at[r] \in H
                /\ \A i \in H : \E r \in C : at[r] = i
                /\ \A r \in C : L[r[1]][r[2]] = hs[at[r]].func
                /\ \A r, q \in C : at[r] <= at[q] <=> Before(r, q)
                /\ \A r, q \in C : at[r] = at[q] => r = q
    BY CandidatesAt
<1>2. /\ H \subseteq 1..Len(hs) /\ Len(hs) \in Nat /\ H # {}
      /\ \A i \in H : hs[i].func \in Funcs
    <2>1. H # {}
        BY <1>1
    <2>. QED
        BY <2>1, HandlersType DEF Hits
<1>3. \A i \in H : dist(i) \in Nat
    BY <1>2, DispatcherAssumption DEF DispatcherAssumption
<1>4. MostSpecific(hs, v) = IF best = {} THEN Nobody
                            ELSE IF Cardinality(best) > 1 THEN Ambiguous
                            ELSE hs[CHOOSE i \in best : TRUE].func
    BY DEF MostSpecific, Hits
<1>5. near = {r \in C : at[r] \in best}
    <2>1. near = {r \in C : \A q \in C :
                    Distance[L[r[1]][r[2]]][v] <= Distance[L[q[1]][q[2]]][v]}
        BY DEF D!Nearest
    <2>2. \A r \in C : Distance[L[r[1]][r[2]]][v] = dist(at[r])
        BY <1>1
    <2>3. ASSUME NEW r \in C
          PROVE  (\A q \in C : dist(at[r]) <= dist(at[q])) <=> at[r] \in best
        <3>. HIDE DEF H, dist
        <3>. QED
            BY <1>1
    <2>. HIDE DEF dist, best, near, L, H
    <2>. QED
        BY <2>1, <2>2, <2>3
<1>6. best # {}
    <2>. DEFINE all == {dist(i) : i \in H}
    <2>1. all \in SUBSET Nat /\ all # {}
        BY <1>2, <1>3
    <2>. HIDE DEF all
    <2>2. PICK n \in all : \A m \in all : n <= m
        BY <2>1, Smallest
    <2>3. PICK i \in H : dist(i) = n
        BY DEF all
    <2>4. \A j \in H : dist(i) <= dist(j)
        BY <2>2, <2>3 DEF all
    <2>. QED
        BY <2>4
<1>7. IsFiniteSet(best) /\ Cardinality(best) \in Nat
    <2>1. best \subseteq 1..Len(hs) /\ 1 \in Int /\ Len(hs) \in Int
        BY <1>2
    <2>. HIDE DEF best
    <2>2. IsFiniteSet(1..Len(hs))
        BY <2>1, FS_Interval
    <2>3. IsFiniteSet(best)
        BY <2>1, <2>2, FS_Subset
    <2>. QED
        BY <2>3, FS_CardinalityType
<1>8. best \subseteq H
    OBVIOUS
<1>. HIDE DEF best, near, H, L, dist
<1>9. CASE \E q \in C : near = {q}
    <2>1. near = {only} /\ only \in C
        BY <1>9
    <2>. HIDE DEF only
    <2>2. best = {at[only]}
        BY <1>1, <1>5, <1>8, <2>1
    <2>3. Cardinality(best) = 1
        BY <2>2, FS_Singleton
    <2>4. MostSpecific(hs, v) = hs[at[only]].func
        <3>1. ~(Cardinality(best) > 1)
            BY <2>3
        <3>2. (CHOOSE i \in best : TRUE) = at[only]
            BY <2>2
        <3>. QED
            BY <1>4, <1>6, <3>1, <3>2
    <2>5. MostSpecific(hs, v) = L[only[1]][only[2]] /\ MostSpecific(hs, v) \in Funcs
        <3>1. L[only[1]][only[2]] = hs[at[only]].func /\ at[only] \in H
            BY <1>1, <2>1
        <3>. QED
            BY <1>2, <2>4, <3>1
    <2>. QED
        BY <1>9, <2>5 DEF near, only, L
<1>10. CASE ~\E q \in C : near = {q}
    <2>1. Cardinality(best) # 1
        <3>. SUFFICES ASSUME Cardinality(best) = 1 PROVE FALSE
            OBVIOUS
        <3>1. PICK i : best = {i}
            BY <1>7, FS_Singleton
        <3>2. PICK r \in C : at[r] = i
            BY <1>1, <1>8, <3>1
        <3>3. near = {r}
            BY <1>1, <1>5, <3>1, <3>2
        <3>. QED
            BY <1>10, <3>3
    <2>2. Cardinality(best) # 0
        BY <1>6, <1>7, FS_EmptySet
    <2>3. Cardinality(best) > 1
        BY <1>7, <2>1, <2>2
    <2>4. MostSpecific(hs, v) = Ambiguous
        BY <1>4, <1>6, <2>3
    <2>. QED
        BY <1>10, <2>4 DEF near, L
<1>. QED
    BY <1>9, <1>10

(* What a call finds, from the sorted list or from the queues.             *)
FoundFor(v) == IF specific THEN MostSpecific(handlers, v) ELSE FirstMatching(handlers, v)

LEMMA BestIsFound ==
    ASSUME TypeOK, Sorted(handlers), NEW v \in Values
    PROVE  D!Best(Level(handlers), v) =
              IF FoundFor(v) = Nobody THEN fallback ELSE FoundFor(v)
<1>. DEFINE L == Level(handlers)
            C == D!Candidates(L, v)
            near == D!Nearest(L, C, v)
            u == D!Urgent(C)
            r == CHOOSE r \in C : near = {r}
<1>1. handlers \in Handlers
    BY DEF TypeOK
<1>2. D!Best(L, v) =
        IF C = {} THEN fallback
        ELSE IF ~specific THEN L[u[1]][u[2]]
        ELSE IF \E q \in C : near = {q} THEN L[r[1]][r[2]] ELSE Ambiguous
    BY DEF D!Best
<1>3. Nobody \notin Funcs /\ Ambiguous # Nobody
    BY DispatcherAssumption DEF DispatcherAssumption
<1>4. CASE C = {}
    <2>1. Hits(handlers, v) = {}
        BY <1>1, <1>4, CandidatesAt
    <2>2. FirstMatching(handlers, v) = Nobody /\ MostSpecific(handlers, v) = Nobody
        BY <2>1 DEF FirstMatching, MostSpecific, Hits
    <2>. QED
        BY <1>2, <1>4, <2>2 DEF FoundFor
<1>5. CASE C # {}
    <2>1. L[u[1]][u[2]] = FirstMatching(handlers, v) /\ FirstMatching(handlers, v) \in Funcs
        BY <1>1, <1>5, UrgentIsFirst
    <2>2. /\ MostSpecific(handlers, v) =
                IF \E q \in C : near = {q} THEN L[r[1]][r[2]] ELSE Ambiguous
          /\ MostSpecific(handlers, v) \in Funcs \cup {Ambiguous}
        BY <1>1, <1>5, NearestIsBest
    <2>. HIDE DEF L, C, near, u, r
    <2>3. FoundFor(v) # Nobody
        BY <1>3, <2>1, <2>2 DEF FoundFor
    <2>. DEFINE b == D!Best(L, v)
    <2>4. b = IF C = {} THEN fallback
              ELSE IF ~specific THEN L[u[1]][u[2]]
              ELSE IF \E q \in C : near = {q} THEN L[r[1]][r[2]] ELSE Ambiguous
        BY <1>2
    <2>. HIDE DEF b
    <2>5. CASE specific
        <3>1. b = MostSpecific(handlers, v)
            BY <1>5, <2>2, <2>4, <2>5
        <3>. QED
            BY <2>3, <2>5, <3>1 DEF FoundFor, b, L
    <2>6. CASE ~specific
        <3>1. b = FirstMatching(handlers, v)
            BY <1>5, <2>1, <2>4, <2>6
        <3>. QED
            BY <2>3, <2>6, <3>1 DEF FoundFor, b, L
    <2>. QED
        BY <2>5, <2>6
<1>. QED
    BY <1>4, <1>5

-----------------------------------------------------------------------------
(* Changes of the list                                                     *)

(* A set of places that has with each all before it begins at 1.           *)
LEMMA Beginning ==
    ASSUME NEW m \in Nat, NEW K \in SUBSET (1..m), \A i \in K : \A j \in 1..i : j \in K
    PROVE  /\ Cardinality(K) \in 0..m
           /\ K = 1..Cardinality(K)
<1>0. PICK n \in Nat : \E g : Lists(g, n, K)
    BY ListingExists
<1>1. PICK g : Lists(g, n, K)
    BY <1>0
<1>2. Counts(g, n, K)
    BY <1>1, ListsCount
<1>3. ASSUME NEW i \in 1..n PROVE g[i] = i
    <2>0. \A k \in K : k \in Nat
        OBVIOUS
    <2>0a. g[i] \in K
        BY <1>1 DEF Lists
    <2>1. g[i] \in K /\ g[i] \in Nat
        BY <2>0, <2>0a
    <2>2. Upto(K, g[i]) = 1..g[i]
        <3>1. \A k \in K : k \in Nat /\ k >= 1
            OBVIOUS
        <3>2. \A j \in K : j <= g[i] => j \in 1..g[i]
            BY <2>1, <3>1
        <3>3. \A j \in 1..g[i] : j \in K /\ j <= g[i]
            BY <2>1
        <3>. QED
            BY <3>2, <3>3 DEF Upto
    <2>3. Cardinality(1..g[i]) = g[i]
        <3>1. 1 \in Int /\ g[i] \in Int
            BY <2>1
        <3>2. Cardinality(1..g[i]) = IF 1 > g[i] THEN 0 ELSE g[i] - 1 + 1
            BY <3>1, FS_Interval
        <3>. QED
            BY <2>1, <3>2
    <2>4. Cardinality(Upto(K, g[i])) = i
        BY <1>2 DEF Counts
    <2>. QED
        BY <2>2, <2>3, <2>4
<1>4. K = 1..n
    <2>1. \A k \in K : k \in 1..n
        BY <1>1, <1>3 DEF Lists
    <2>2. \A i \in 1..n : i \in K
        BY <1>1, <1>3 DEF Lists
    <2>. QED
        BY <2>1, <2>2
<1>5. Cardinality(K) = n
    BY <1>2 DEF Counts
<1>6. n <= m
    <2>1. CASE n = 0
        BY <2>1
    <2>2. CASE n # 0
        <3>1. n \in 1..n
            BY <2>2
        <3>2. n \in 1..m
            BY <1>4, <3>1
        <3>. QED
            BY <3>2
    <2>. QED
        BY <2>1, <2>2
<1>. QED
    BY <1>4, <1>5, <1>6
(* The handlers at least as urgent are the first ones.                     *)
LEMMA AheadFirst ==
    ASSUME NEW hs \in Handlers, Sorted(hs), NEW p \in Priorities,
           NEW n, n = Cardinality({i \in DOMAIN hs : hs[i].priority >= p})
    PROVE  /\ n \in 0..Len(hs)
           /\ \A i \in 1..Len(hs) : i <= n <=> hs[i].priority >= p
<1>. DEFINE ahead == {i \in DOMAIN hs : hs[i].priority >= p}
            m == Len(hs)
<1>1. /\ DOMAIN hs = 1..m /\ m \in Nat
      /\ \A i \in 1..m : hs[i].priority \in Int
      /\ p \in Int
    BY HandlersType, DispatcherAssumption DEF DispatcherAssumption
<1>. HIDE DEF m
<1>2. ahead \in SUBSET (1..m)
    BY <1>1
<1>3. ASSUME NEW i \in ahead, NEW j \in 1..i
      PROVE  j \in ahead
    <2>1. i \in 1..m /\ hs[i].priority >= p
        BY <1>1
    <2>2. j \in 1..m /\ (j < i \/ j = i)
        BY <1>1, <2>1
    <2>3. hs[j].priority >= hs[i].priority
        BY <1>1, <2>1, <2>2 DEF Sorted
    <2>4. hs[j].priority >= p
        BY <1>1, <2>1, <2>2, <2>3
    <2>. QED
        BY <1>1, <2>2, <2>4
<1>4. \A i \in 1..m : i \in ahead <=> hs[i].priority >= p
    BY <1>1
<1>5. n = Cardinality(ahead)
    OBVIOUS
<1>. HIDE DEF ahead
<1>6. \A i \in ahead : \A j \in 1..i : j \in ahead
    BY <1>3
<1>7. n \in 0..m /\ ahead = 1..n
    BY ONLY <1>1, <1>2, <1>5, <1>6, Beginning
<1>8. \A i \in 1..m : i \in ahead <=> i <= n
    BY <1>1, <1>7
<1>. QED
    BY <1>4, <1>7, <1>8 DEF m

(* Where the handlers go when one is put behind the first n.               *)
To(n, i) == IF i <= n THEN i ELSE i + 1

Moved(hs, n, e, hs2, m) ==
    /\ hs2 \in Handlers /\ DOMAIN hs2 = 1..(m + 1)
    /\ n + 1 \in 1..(m + 1) /\ hs2[n + 1] = e
    /\ \A i \in 1..m : /\ To(n, i) \in 1..(m + 1) /\ To(n, i) # n + 1
                       /\ hs2[To(n, i)] = hs[i]
    /\ \A k \in 1..(m + 1) : k = n + 1 \/ \E i \in 1..m : To(n, i) = k

LEMMA InsertMoves ==
    ASSUME NEW hs \in Handlers, NEW m \in Nat, m = Len(hs), NEW n \in 0..m,
           NEW e \in Handler
    PROVE  Moved(hs, n, e, Insert(hs, n, e), m)
<1>. DEFINE hs2 == Insert(hs, n, e)
<1>1. hs \in Seq(Handler) /\ n \in Nat /\ n <= m
    BY DEF Handlers, Handler
<1>1a. n \in 0..Len(hs)
    OBVIOUS
<1>1b. /\ Insert(hs, n, e) \in Seq(Handler)
       /\ Len(Insert(hs, n, e)) = Len(hs) + 1
       /\ \A i \in 1..Len(hs) + 1 : Insert(hs, n, e)[i] =
            IF i <= n THEN hs[i] ELSE IF i = n + 1 THEN e ELSE hs[i - 1]
    BY ONLY <1>1, <1>1a, e \in Handler, InsertType
<1>2. /\ hs2 \in Seq(Handler) /\ Len(hs2) = m + 1
      /\ \A i \in 1..m + 1 : hs2[i] = IF i <= n THEN hs[i]
                                      ELSE IF i = n + 1 THEN e ELSE hs[i - 1]
    BY <1>1b
<1>. HIDE DEF hs2
<1>3. hs2 \in Handlers /\ DOMAIN hs2 = 1..(m + 1)
    BY <1>2 DEF Handlers, Handler
<1>4. n + 1 \in 1..(m + 1) /\ ~(n + 1 <= n)
    BY <1>1
<1>5. hs2[n + 1] = e
    BY <1>2, <1>4
<1>6. ASSUME NEW i \in 1..m
      PROVE  /\ To(n, i) \in 1..(m + 1) /\ To(n, i) # n + 1
             /\ hs2[To(n, i)] = hs[i]
    <2>0. i \in Nat /\ 1 <= i /\ i <= m
        OBVIOUS
    <2>1. CASE i <= n
        <3>1. To(n, i) = i /\ i \in 1..(m + 1) /\ i # n + 1
            BY <1>1, <2>0, <2>1 DEF To
        <3>. QED
            BY <1>2, <2>1, <3>1
    <2>2. CASE i > n
        <3>1. /\ To(n, i) = i + 1 /\ i + 1 \in 1..(m + 1) /\ ~(i + 1 <= n) /\ i + 1 # n + 1
              /\ (i + 1) - 1 = i
            BY <1>1, <2>0, <2>2 DEF To
        <3>2. hs2[i + 1] = hs[(i + 1) - 1]
            BY <1>2, <3>1
        <3>. QED
            BY <3>1, <3>2
    <2>. QED
        BY <1>1, <2>0, <2>1, <2>2
<1>7. ASSUME NEW k \in 1..(m + 1), k # n + 1
      PROVE  \E i \in 1..m : To(n, i) = k
    <2>0. k \in Nat /\ 1 <= k /\ k <= m + 1
        OBVIOUS
    <2>1. CASE k <= n
        <3>1. k \in 1..m /\ To(n, k) = k
            BY <1>1, <2>0, <2>1 DEF To
        <3>. QED
            BY <3>1
    <2>2. CASE k > n + 1
        <3>1. k - 1 \in 1..m /\ To(n, k - 1) = k
            BY <1>1, <2>0, <2>2 DEF To
        <3>. QED
            BY <3>1
    <2>. QED
        BY <1>1, <1>7, <2>0, <2>1, <2>2
<1>8. Moved(hs, n, e, hs2, m)
    BY <1>3, <1>4, <1>5, <1>6, <1>7 DEF Moved
<1>. QED
    BY <1>8 DEF hs2

(* register(), for any list.                                               *)
Put(hs, f, p) ==
    Insert(hs, Cardinality({i \in DOMAIN hs : hs[i].priority >= p}),
           [func |-> f, priority |-> p])

LEMMA InsertSorted ==
    ASSUME NEW hs \in Handlers, Sorted(hs), NEW f \in Funcs, NEW p \in Priorities,
           NEW hs2, hs2 = Put(hs, f, p)
    PROVE  Sorted(hs2)
<1>. DEFINE m == Len(hs)
            n == Cardinality({i \in DOMAIN hs : hs[i].priority >= p})
            e == [func |-> f, priority |-> p]
<1>0. hs2 = Insert(hs, n, e)
    BY DEF Put
<1>. HIDE DEF n
<1>1. /\ m \in Nat /\ m = Len(hs) /\ DOMAIN hs = 1..m
      /\ \A i \in 1..m : hs[i].priority \in Int /\ i \in Nat
      /\ p \in Int /\ e \in Handler /\ e.priority = p
    BY HandlersType, DispatcherAssumption DEF DispatcherAssumption, Handler
<1>2. n \in 0..m /\ \A i \in 1..m : i <= n <=> hs[i].priority >= p
    <2>1. n = Cardinality({i \in DOMAIN hs : hs[i].priority >= p})
        BY DEF n
    <2>. QED
        BY ONLY hs \in Handlers, Sorted(hs), p \in Priorities, <2>1, AheadFirst
<1>. HIDE DEF e, m
<1>3. /\ DOMAIN hs2 = 1..(m + 1)
      /\ n + 1 \in 1..(m + 1) /\ hs2[n + 1] = e
      /\ \A i \in 1..m : /\ To(n, i) \in 1..(m + 1) /\ To(n, i) # n + 1
                         /\ hs2[To(n, i)] = hs[i]
      /\ \A k \in 1..(m + 1) : k = n + 1 \/ \E i \in 1..m : To(n, i) = k
    <2>1. hs2 = Insert(hs, n, e)
        BY <1>0
    <2>2. Moved(hs, n, e, Insert(hs, n, e), m)
        BY ONLY <1>1, <1>2, hs \in Handlers, InsertMoves
    <2>3. Moved(hs, n, e, hs2, m)
        BY <2>1, <2>2
    <2>. QED
        BY <2>3 DEF Moved
<1>4. ASSUME NEW k \in 1..(m + 1), NEW l \in 1..(m + 1), k < l
      PROVE  hs2[k].priority >= hs2[l].priority
    <2>0. n \in Nat /\ k \in Nat /\ l \in Nat
        BY <1>2
    <2>1. CASE k = n + 1
        <3>1. PICK j \in 1..m : To(n, j) = l
            BY <1>3, <1>4, <2>1
        <3>2. ~(j <= n)
            <4>1. SUFFICES ASSUME j <= n PROVE FALSE
                OBVIOUS
            <4>2. j = l /\ j \in Nat
                BY <1>1, <3>1, <4>1 DEF To
            <4>. QED
                BY <1>4, <2>0, <2>1, <4>1, <4>2
        <3>3. hs2[l] = hs[j] /\ hs[j].priority \in Int /\ ~(hs[j].priority >= p)
            BY <1>1, <1>2, <1>3, <3>1, <3>2
        <3>4. hs2[k].priority = p
            BY <1>1, <1>3, <2>1
        <3>. QED
            BY <1>1, <3>3, <3>4
    <2>2. CASE l = n + 1
        <3>1. PICK i \in 1..m : To(n, i) = k
            BY <1>3, <1>4, <2>2
        <3>2. i <= n
            <4>1. SUFFICES ASSUME ~(i <= n) PROVE FALSE
                OBVIOUS
            <4>2. i + 1 = k /\ i \in Nat
                BY <1>1, <3>1, <4>1 DEF To
            <4>. QED
                BY <1>4, <2>0, <2>2, <4>1, <4>2
        <3>3. hs2[k] = hs[i] /\ hs[i].priority >= p
            BY <1>2, <1>3, <3>1, <3>2
        <3>4. hs2[l].priority = p
            BY <1>1, <1>3, <2>2
        <3>. QED
            BY <3>3, <3>4
    <2>3. CASE k # n + 1 /\ l # n + 1
        <3>1. PICK i \in 1..m : To(n, i) = k
            BY <1>3, <2>3
        <3>2. PICK j \in 1..m : To(n, j) = l
            BY <1>3, <2>3
        <3>3. i < j
            BY <1>1, <1>4, <2>0, <3>1, <3>2 DEF To
        <3>4. hs2[k] = hs[i] /\ hs2[l] = hs[j]
            BY <1>3, <3>1, <3>2
        <3>5. hs[i].priority >= hs[j].priority
            BY <1>1, <3>3 DEF Sorted
        <3>. QED
            BY <3>4, <3>5
    <2>. QED
        BY <2>1, <2>2, <2>3
<1>. QED
    BY <1>3, <1>4 DEF Sorted

(* Registration puts a handler at the end of its queue.                    *)
LEMMA InsertLevel ==
    ASSUME NEW hs \in Handlers, Sorted(hs), NEW f \in Funcs, NEW p \in Priorities,
           NEW hs2, hs2 = Put(hs, f, p)
    PROVE  Level(hs2) = [Level(hs) EXCEPT ![p] = Append(@, f)]
<1>. DEFINE m == Len(hs)
            n == Cardinality({i \in DOMAIN hs : hs[i].priority >= p})
            e == [func |-> f, priority |-> p]
<1>0. hs2 = Insert(hs, n, e)
    BY DEF Put
<1>. HIDE DEF n
<1>1. /\ m \in Nat /\ m = Len(hs) /\ DOMAIN hs = 1..m
      /\ \A i \in 1..m : hs[i].priority \in Int /\ i \in Nat
      /\ p \in Int /\ e \in Handler /\ e.priority = p /\ e.func = f
    BY HandlersType, DispatcherAssumption DEF DispatcherAssumption, Handler
<1>2. n \in 0..m /\ \A i \in 1..m : i <= n <=> hs[i].priority >= p
    <2>1. n = Cardinality({i \in DOMAIN hs : hs[i].priority >= p})
        BY DEF n
    <2>. QED
        BY ONLY hs \in Handlers, Sorted(hs), p \in Priorities, <2>1, AheadFirst
<1>. HIDE DEF e, m
<1>3. hs2 = Insert(hs, n, e)
    BY <1>0
<1>4. /\ hs2 \in Handlers /\ DOMAIN hs2 = 1..(m + 1)
      /\ n + 1 \in 1..(m + 1) /\ hs2[n + 1] = e
      /\ \A i \in 1..m : /\ To(n, i) \in 1..(m + 1) /\ To(n, i) # n + 1
                         /\ hs2[To(n, i)] = hs[i]
      /\ \A k \in 1..(m + 1) : k = n + 1 \/ \E i \in 1..m : To(n, i) = k
    <2>2. Moved(hs, n, e, Insert(hs, n, e), m)
        BY ONLY <1>1, <1>2, hs \in Handlers, InsertMoves
    <2>3. Moved(hs, n, e, hs2, m)
        BY <1>3, <2>2
    <2>. QED
        BY <2>3 DEF Moved
<1>4a. hs2 \in Handlers
    BY <1>4
<1>5. \A i, j \in 1..m : i < j => To(n, i) < To(n, j)
    <2>1. n \in Nat
        BY <1>2
    <2>. QED
        BY <2>1 DEF To
<1>6. ASSUME NEW q \in Priorities, q # p
      PROVE  Level(hs2)[q] = Level(hs)[q]
    <2>0. PICK k \in Nat : \E g : Lists(g, k, Of(hs, q))
        BY LevelExists
    <2>1. PICK g : Lists(g, k, Of(hs, q))
        BY <2>0
    <2>. DEFINE g2 == [i \in 1..k |-> To(n, g[i])]
    <2>2. \A i \in 1..k : g[i] \in 1..m /\ hs[g[i]].priority = q
        BY <1>1, <2>1 DEF Lists, Of
    <2>3. \A i \in 1..k : g2[i] \in Of(hs2, q)
        BY <1>4, <2>2 DEF Of
    <2>4. \A i, j \in 1..k : i < j => g2[i] < g2[j]
        BY <1>5, <2>1, <2>2 DEF Lists
    <2>5. ASSUME NEW x \in Of(hs2, q) PROVE \E i \in 1..k : g2[i] = x
        <3>1. x \in 1..(m + 1) /\ hs2[x].priority = q
            BY <1>4 DEF Of
        <3>2. x # n + 1
            BY <1>1, <1>4, <1>6, <3>1
        <3>3. PICK i \in 1..m : To(n, i) = x
            BY <1>4, <3>1, <3>2
        <3>4. i \in Of(hs, q)
            BY <1>1, <1>4, <3>1, <3>3 DEF Of
        <3>5. PICK j \in 1..k : g[j] = i
            BY <2>1, <3>4 DEF Lists
        <3>. QED
            BY <3>3, <3>5
    <2>6. Lists(g2, k, Of(hs2, q))
        BY <2>3, <2>4, <2>5 DEF Lists
    <2>7. \A i \in 1..k : hs2[g2[i]].func = hs[g[i]].func
        BY <1>4, <2>2
    <2>. HIDE DEF g2
    <2>8. /\ Level(hs2)[q] = [i \in 1..k |-> hs2[g2[i]].func]
          /\ Level(hs2)[q] \in Seq(Funcs) /\ DOMAIN Level(hs2)[q] = 1..k
        BY ONLY <1>4a, q \in Priorities, k \in Nat, <2>6, LevelListed
    <2>9. Level(hs)[q] = [i \in 1..k |-> hs[g[i]].func]
        BY <2>1, LevelListed
    <2>. QED
        BY <2>7, <2>8, <2>9
<1>7. Level(hs2)[p] = Append(Level(hs)[p], f)
    <2>0. PICK k \in Nat : \E g : Lists(g, k, Of(hs, p))
        BY LevelExists
    <2>1. PICK g : Lists(g, k, Of(hs, p))
        BY <2>0
    <2>. DEFINE g2 == [i \in 1..(k + 1) |-> IF i <= k THEN g[i] ELSE n + 1]
    <2>2. \A i \in 1..k : /\ g[i] \in 1..m /\ hs[g[i]].priority = p
                          /\ To(n, g[i]) = g[i] /\ g[i] < n + 1
        <3>1. \A i \in 1..k : g[i] \in 1..m /\ hs[g[i]].priority = p
            BY <1>1, <2>1 DEF Lists, Of
        <3>2. \A i \in 1..k : g[i] <= n
            BY <1>1, <1>2, <3>1
        <3>. QED
            BY <1>1, <1>2, <3>1, <3>2 DEF To
    <2>3. ASSUME NEW i \in 1..(k + 1)
          PROVE  g2[i] \in Of(hs2, p)
        <3>1. CASE i <= k
            <4>1. i \in 1..k /\ g2[i] = g[i]
                BY <3>1
            <4>2. g[i] \in 1..m /\ To(n, g[i]) = g[i] /\ hs[g[i]].priority = p
                BY <2>2, <4>1
            <4>3. g[i] \in 1..(m + 1) /\ hs2[g[i]] = hs[g[i]]
                BY <1>4, <4>2
            <4>. QED
                BY <1>4, <4>1, <4>2, <4>3 DEF Of
        <3>2. CASE i = k + 1
            <4>1. g2[i] = n + 1
                BY <3>2
            <4>. QED
                BY <1>1, <1>4, <4>1 DEF Of
        <3>. QED
            BY <3>1, <3>2
    <2>4. ASSUME NEW i \in 1..(k + 1), NEW j \in 1..(k + 1), i < j
          PROVE  g2[i] < g2[j]
        <3>1. i \in 1..k /\ g2[i] = g[i]
            BY <2>4
        <3>2. CASE j <= k
            <4>1. j \in 1..k /\ g2[j] = g[j]
                BY <3>2
            <4>. QED
                BY <2>1, <2>4, <3>1, <4>1 DEF Lists
        <3>3. CASE j = k + 1
            <4>1. g2[j] = n + 1
                BY <3>3
            <4>. QED
                BY <2>2, <3>1, <4>1
        <3>. QED
            BY <3>2, <3>3
    <2>5. ASSUME NEW x \in Of(hs2, p) PROVE \E i \in 1..(k + 1) : g2[i] = x
        <3>1. x \in 1..(m + 1) /\ hs2[x].priority = p
            BY <1>4 DEF Of
        <3>2. CASE x = n + 1
            <4>1. k + 1 \in 1..(k + 1) /\ g2[k + 1] = x
                BY <3>2
            <4>. QED
                BY <4>1
        <3>3. CASE x # n + 1
            <4>1. PICK i \in 1..m : To(n, i) = x
                BY <1>4, <3>1, <3>3
            <4>2. i \in Of(hs, p)
                BY <1>1, <1>4, <3>1, <4>1 DEF Of
            <4>3. PICK j \in 1..k : g[j] = i
                BY <2>1, <4>2 DEF Lists
            <4>4. j \in 1..(k + 1) /\ g2[j] = x
                BY <2>2, <4>1, <4>3
            <4>. QED
                BY <4>4
        <3>. QED
            BY <3>2, <3>3
    <2>6. k + 1 \in Nat /\ Lists(g2, k + 1, Of(hs2, p))
        BY <2>3, <2>4, <2>5 DEF Lists
    <2>7. /\ \A i \in 1..k : hs2[g2[i]].func = hs[g[i]].func
          /\ hs2[g2[k + 1]].func = f
        <3>1. ASSUME NEW i \in 1..k PROVE hs2[g2[i]].func = hs[g[i]].func
            <4>1. g2[i] = g[i] /\ g[i] \in 1..m /\ To(n, g[i]) = g[i]
                BY <2>2
            <4>2. hs2[To(n, g[i])] = hs[g[i]]
                BY <1>4, <4>1
            <4>. QED
                BY <4>1, <4>2
        <3>2. g2[k + 1] = n + 1
            OBVIOUS
        <3>. QED
            BY <1>1, <1>4, <3>1, <3>2
    <2>. DEFINE new == Level(hs2)[p]
                old == Level(hs)[p]
                k2 == k + 1
    <2>7a. k2 \in Nat /\ Lists(g2, k2, Of(hs2, p))
        BY <2>6
    <2>. HIDE DEF g2, k2
    <2>7b. /\ Level(hs2)[p] = [i \in 1..k2 |-> hs2[g2[i]].func]
           /\ Level(hs2)[p] \in Seq(Funcs) /\ DOMAIN Level(hs2)[p] = 1..k2
        BY ONLY <1>4a, p \in Priorities, <2>7a, LevelListed
    <2>8. /\ new = [i \in 1..(k + 1) |-> hs2[g2[i]].func]
          /\ new \in Seq(Funcs) /\ DOMAIN new = 1..(k + 1)
        BY <2>7b DEF k2
    <2>9. /\ old = [i \in 1..k |-> hs[g[i]].func]
          /\ old \in Seq(Funcs) /\ DOMAIN old = 1..k
        BY <2>1, LevelListed
    <2>. HIDE DEF new, old
    <2>10. /\ new \in Seq(Funcs) /\ Len(new) = k + 1
           /\ old \in Seq(Funcs) /\ Len(old) = k
           /\ \A i \in 1..k : new[i] = old[i]
           /\ new[k + 1] = f
        BY <2>7, <2>8, <2>9
    <2>11. new = Append(old, f)
        BY <2>10
    <2>. QED
        BY <2>11 DEF new, old
<1>8. Level(hs) = [q \in Priorities |-> Level(hs)[q]]
    BY DEF Level
<1>9. Level(hs2) = [q \in Priorities |-> Level(hs2)[q]]
    BY DEF Level
<1>. DEFINE l == Level(hs)
            l2 == Level(hs2)
<1>. HIDE DEF l, l2
<1>10. l2 = [l EXCEPT ![p] = Append(@, f)]
    BY <1>6, <1>7, <1>8, <1>9 DEF l, l2
<1>. QED
    BY <1>10 DEF l, l2

-----------------------------------------------------------------------------
(* A listing of some of the places of a listing.                           *)
Through(g, h, k) == [i \in 1..k |-> g[h[i]]]

LEMMA ListsThrough ==
    ASSUME NEW n \in Nat, NEW K, NEW g, Lists(g, n, K),
           NEW k \in Nat, NEW J \in SUBSET (1..n), NEW h, Lists(h, k, J),
           NEW M \in SUBSET K, \A j \in 1..n : j \in J <=> g[j] \in M
    PROVE  Lists(Through(g, h, k), k, M)
<1>1. \A i \in 1..k : h[i] \in J /\ h[i] \in 1..n
    BY DEF Lists
<1>2. \A i \in 1..k : g[h[i]] \in M
    BY <1>1
<1>3. \A i, j \in 1..k : i < j => g[h[i]] < g[h[j]]
    BY <1>1 DEF Lists
<1>4. ASSUME NEW x \in M PROVE \E i \in 1..k : g[h[i]] = x
    <2>1. PICK j \in 1..n : g[j] = x
        BY DEF Lists
    <2>2. PICK i \in 1..k : h[i] = j
        BY <2>1 DEF Lists
    <2>. QED
        BY <2>1, <2>2
<1>. QED
    BY <1>2, <1>3, <1>4 DEF Lists, Through

(* What is left without f: a listing of the other places.                  *)
Others(hs, f) == {i \in DOMAIN hs : hs[i].func # f}

LEMMA WithoutListed ==
    ASSUME NEW hs \in Handlers, NEW f,
           NEW n \in Nat, NEW g, Lists(g, n, Others(hs, f))
    PROVE  /\ Without(hs, f) = Picked(hs, g, n)
           /\ Without(hs, f) \in Handlers
           /\ DOMAIN Without(hs, f) = 1..n
           /\ \A i \in 1..n : /\ g[i] \in DOMAIN hs
                              /\ Without(hs, f)[i] = hs[g[i]]
<1>. DEFINE m == Len(hs)
            K == Others(hs, f)
<1>1. /\ m \in Nat /\ K \in SUBSET (1..m) /\ K \subseteq DOMAIN hs
    BY HandlersType DEF Others
<1>2. Without(hs, f) = Select(hs, K)
    BY DEF Without, Others
<1>3. \A i \in 1..n : g[i] \in DOMAIN hs
    BY <1>1 DEF Lists
<1>. HIDE DEF m, K
<1>4. Lists(g, n, K)
    BY DEF K
<1>5. Select(hs, K) = Picked(hs, g, n)
    BY ONLY <1>1, <1>4, n \in Nat, SelectListed
<1>6. Picked(hs, g, n) \in Seq(Handler)
    BY <1>3, HandlersType DEF Picked
<1>7. Without(hs, f) \in Handlers
    BY <1>2, <1>5, <1>6 DEF Handlers, Handler
<1>8. DOMAIN Picked(hs, g, n) = 1..n /\ \A i \in 1..n : Picked(hs, g, n)[i] = hs[g[i]]
    BY DEF Picked
<1>. QED
    BY <1>2, <1>3, <1>5, <1>7, <1>8

LEMMA OthersExist ==
    ASSUME NEW hs \in Handlers, NEW f
    PROVE  \E n \in Nat : \E g : Lists(g, n, Others(hs, f))
<1>. DEFINE m == Len(hs)
            K == Others(hs, f)
<1>1. m \in Nat /\ K \in SUBSET (1..m)
    BY HandlersType DEF Others
<1>. HIDE DEF m, K
<1>2. \E n \in Nat : \E g : Lists(g, n, K)
    BY ONLY <1>1, ListingExists
<1>. QED
    BY <1>2 DEF K

LEMMA WithoutSorted ==
    ASSUME NEW hs \in Handlers, Sorted(hs), NEW f
    PROVE  Sorted(Without(hs, f))
<1>1. PICK n \in Nat : \E g : Lists(g, n, Others(hs, f))
    BY OthersExist
<1>2. PICK g : Lists(g, n, Others(hs, f))
    BY <1>1
<1>3. /\ DOMAIN Without(hs, f) = 1..n
      /\ \A i \in 1..n : g[i] \in DOMAIN hs /\ Without(hs, f)[i] = hs[g[i]]
    BY <1>2, WithoutListed
<1>4. \A i, j \in 1..n : i < j => g[i] < g[j]
    BY <1>2 DEF Lists
<1>. QED
    BY <1>3, <1>4 DEF Sorted

(* unregister() takes the function out of each queue.                      *)
LEMMA WithoutLevel ==
    ASSUME NEW hs \in Handlers, NEW f, NEW p \in Priorities
    PROVE  Level(Without(hs, f))[p] =
              Select(Level(hs)[p], {i \in DOMAIN Level(hs)[p] : Level(hs)[p][i] # f})
<1>. DEFINE hs2 == Without(hs, f)
            M == {i \in DOMAIN hs : hs[i].func # f /\ hs[i].priority = p}
            m == Len(hs)
<1>0. m \in Nat /\ DOMAIN hs = 1..m /\ M \in SUBSET (1..m)
    BY HandlersType
<1>. HIDE DEF m
(* Through the others, and of these those of the priority.                 *)
<1>1. PICK n1 \in Nat : \E g : Lists(g, n1, Others(hs, f))
    BY OthersExist
<1>2. PICK g1 : Lists(g1, n1, Others(hs, f))
    BY <1>1
<1>3. /\ hs2 \in Handlers /\ DOMAIN hs2 = 1..n1
      /\ \A i \in 1..n1 : g1[i] \in DOMAIN hs /\ hs2[i] = hs[g1[i]]
    BY <1>2, WithoutListed
<1>. HIDE DEF hs2
<1>4. PICK n2 \in Nat : \E g : Lists(g, n2, Of(hs2, p))
    BY <1>3, LevelExists
<1>5. PICK g2 : Lists(g2, n2, Of(hs2, p))
    BY <1>4
<1>6. Level(hs2)[p] = [i \in 1..n2 |-> hs2[g2[i]].func]
    <2>1. /\ Level(hs2)[p] = [i \in 1..n2 |-> hs2[g2[i]].func]
          /\ Level(hs2)[p] \in Seq(Funcs) /\ DOMAIN Level(hs2)[p] = 1..n2
        BY <1>3, <1>5, LevelListed
    <2>. QED
        BY <2>1
<1>7. Lists(Through(g1, g2, n2), n2, M)
    <2>1. Of(hs2, p) \in SUBSET (1..n1) /\ M \in SUBSET Others(hs, f)
        BY <1>3 DEF Of, Others
    <2>2. ASSUME NEW j \in 1..n1 PROVE j \in Of(hs2, p) <=> g1[j] \in M
        <3>1. g1[j] \in Others(hs, f)
            BY <1>2 DEF Lists
        <3>. QED
            BY <1>3, <3>1 DEF Of, Others
    <2>. HIDE DEF M
    <2>. QED
        BY ONLY n1 \in Nat, n2 \in Nat, <1>2, <1>5, <2>1, <2>2, ListsThrough
(* Through those of the priority, and of these the others.                 *)
<1>8. PICK n3 \in Nat : \E g : Lists(g, n3, Of(hs, p))
    BY LevelExists
<1>9. PICK g3 : Lists(g3, n3, Of(hs, p))
    BY <1>8
<1>. DEFINE l == Level(hs)[p]
            J == {i \in DOMAIN l : l[i] # f}
<1>10. l = [i \in 1..n3 |-> hs[g3[i]].func] /\ l \in Seq(Funcs) /\ DOMAIN l = 1..n3
    BY <1>9, LevelListed
<1>. HIDE DEF l
<1>11. J \in SUBSET (1..n3) /\ \A i \in 1..n3 : i \in J <=> hs[g3[i]].func # f
    BY <1>10
<1>. HIDE DEF J
<1>12. PICK n4 \in Nat : \E g : Lists(g, n4, J)
    BY ONLY n3 \in Nat, <1>11, ListingExists
<1>13. PICK g4 : Lists(g4, n4, J)
    BY <1>12
<1>14. Select(l, J) = Picked(l, g4, n4)
    <2>1. J \in SUBSET (1..n3)
        BY <1>11
    <2>2. PICK s : s = l
        OBVIOUS
    <2>3. PICK K : K = J
        OBVIOUS
    <2>4. K \in SUBSET (1..n3) /\ Lists(g4, n4, K)
        BY <1>13, <2>1, <2>3
    <2>5. Select(s, K) = Picked(s, g4, n4)
        BY ONLY n3 \in Nat, n4 \in Nat, <2>4, SelectListed
    <2>. QED
        BY <2>2, <2>3, <2>5
<1>15. Lists(Through(g3, g4, n4), n4, M)
    <2>1. M \in SUBSET Of(hs, p)
        BY DEF Of
    <2>2. ASSUME NEW j \in 1..n3 PROVE j \in J <=> g3[j] \in M
        <3>1. g3[j] \in Of(hs, p)
            BY <1>9 DEF Lists
        <3>. QED
            BY <1>11, <3>1 DEF Of
    <2>. HIDE DEF M
    <2>. QED
        BY ONLY n3 \in Nat, n4 \in Nat, <1>9, <1>11, <1>13, <2>1, <2>2, ListsThrough
(* Both ways come to the same places.                                      *)
<1>. HIDE DEF M
<1>16. n2 = n4 /\ Agree(Through(g1, g2, n2), Through(g3, g4, n4), n2)
    <2>1. m \in Nat /\ M \in SUBSET (1..m)
        BY <1>0
    <2>. QED
        BY ONLY n2 \in Nat, n4 \in Nat, <1>7, <1>15, <2>1, ListsUnique
<1>17. \A i \in 1..n2 : g1[g2[i]] = g3[g4[i]]
    BY <1>16 DEF Through, Agree
<1>18. \A i \in 1..n2 : g2[i] \in 1..n1 /\ hs2[g2[i]] = hs[g1[g2[i]]]
    BY <1>3, <1>5 DEF Lists, Of
<1>19. \A i \in 1..n2 : g4[i] \in 1..n3 /\ l[g4[i]] = hs[g3[g4[i]]].func
    BY <1>10, <1>11, <1>13, <1>16 DEF Lists
<1>20. Level(hs2)[p] = Picked(l, g4, n4)
    BY <1>6, <1>16, <1>17, <1>18, <1>19 DEF Picked
<1>21. Level(hs2)[p] = Select(l, J)
    BY <1>14, <1>20
<1>. QED
    BY <1>21 DEF hs2, l, J

-----------------------------------------------------------------------------
(* The list of handlers, and that of every version, is sorted.             *)

SavedSorted ==
    \A c \in Contexts : snapshot[c] # <<>> => Sorted(snapshot[c][1].handlers)

SInv == Sorted(handlers) /\ SavedSorted

LEMMA SInvInit == Init => SInv
    BY DEF Init, SInv, SavedSorted, Sorted

LEMMA SInvNext == TInv /\ SInv /\ [Next]_vars => SInv'
<1>. SUFFICES ASSUME TInv, SInv, [Next]_vars PROVE SInv'
    OBVIOUS
<1>0. handlers \in Handlers /\ Sorted(handlers)
    BY DEF TInv, TypeOK, SInv
<1>1. ASSUME NEW f \in Funcs, Unregister(f) PROVE SInv'
    <2>1. PICK hs2 : hs2 = Without(handlers, f)
        OBVIOUS
    <2>2. Sorted(hs2)
        BY <1>0, <2>1, WithoutSorted
    <2>3. handlers' = hs2 /\ snapshot' = snapshot
        BY <1>1, <2>1 DEF Unregister
    <2>4. Sorted(handlers)'
        BY <2>2, <2>3 DEF Sorted
    <2>. QED
        BY <2>3, <2>4 DEF SInv, SavedSorted
<1>2. ASSUME NEW f \in Funcs, NEW p \in Priorities, Register(f, p) PROVE SInv'
    <2>1. PICK hs2 : hs2 = Registered(f, p)
        OBVIOUS
    <2>2. Sorted(hs2)
        <3>1. hs2 = Put(handlers, f, p)
            BY <2>1 DEF Registered, Put
        <3>. QED
            BY <1>0, <3>1, InsertSorted
    <2>3. handlers' = hs2 /\ snapshot' = snapshot
        BY <1>2, <2>1 DEF Register
    <2>4. Sorted(handlers)'
        BY <2>2, <2>3 DEF Sorted
    <2>. QED
        BY <2>3, <2>4 DEF SInv, SavedSorted
<1>3. CASE Clear
    <2>1. handlers' = <<>> /\ snapshot' = snapshot
        BY <1>3 DEF Clear
    <2>2. Sorted(handlers)'
        BY <2>1 DEF Sorted
    <2>. QED
        BY <2>1, <2>2 DEF SInv, SavedSorted
<1>4. ASSUME handlers' = handlers, snapshot' = snapshot PROVE SInv'
    BY <1>4 DEF SInv, SavedSorted, Sorted
<1>5. ASSUME NEW c \in Contexts, Enter(c) PROVE SInv'
    <2>. DEFINE r == [handlers |-> handlers, fallback |-> fallback, cache |-> cache,
                      hasPredicates |-> hasPredicates]
    <2>1. Sorted(r.handlers)
        BY <1>0
    <2>2. snapshot' = [snapshot EXCEPT ![c] = <<r>>] /\ snapshot \in [Contexts -> Seq(Version)]
        BY <1>5 DEF Enter, TInv, TypeOK
    <2>. HIDE DEF r
    <2>3. SavedSorted'
        BY <2>1, <2>2 DEF SInv, SavedSorted
    <2>4. Sorted(handlers)'
        BY <1>0, <1>5 DEF Enter, table, Sorted
    <2>. QED
        BY <2>3, <2>4 DEF SInv
<1>6. ASSUME NEW c \in Contexts, Rollback(c) PROVE SInv'
    <2>1. PICK hs2 : hs2 = snapshot[c][1].handlers
        OBVIOUS
    <2>2. handlers' = hs2 /\ snapshot' = snapshot /\ Sorted(hs2)
        BY <1>6, <2>1 DEF Rollback, SInv, SavedSorted
    <2>3. Sorted(handlers)'
        BY <2>2 DEF Sorted
    <2>. QED
        BY <2>2, <2>3 DEF SInv, SavedSorted
<1>7. ASSUME NEW f \in Fallbacks, Fallback(f) PROVE SInv'
    BY <1>4, <1>7 DEF Fallback
<1>8. ASSUME NEW a \in Advice, Advise(a) PROVE SInv'
    BY <1>4, <1>8 DEF Advise
<1>9. ASSUME NEW v \in Values,
             CallCached(v) \/ CallSearches(v) \/ CallUncached(v) \/ CallSpecific(v)
      PROVE  SInv'
    BY <1>4, <1>9 DEF CallCached, CallSearches, CallUncached, CallSpecific, table
<1>10. CASE UNCHANGED vars
    BY <1>4, <1>10 DEF vars
<1>. QED
    BY <1>1, <1>2, <1>3, <1>5, <1>6, <1>7, <1>8, <1>9, <1>10 DEF Next

-----------------------------------------------------------------------------
(* Every step of the dispatcher is one of the table                        *)

SavedOf == [c \in Contexts |->
                IF snapshot[c] = <<>> THEN <<>>
                ELSE <<Level(snapshot[c][1].handlers), snapshot[c][1].fallback>>]

AnswerOf == IF answer = <<>> THEN <<>> ELSE <<answer.call, answer.func, answer.advice>>

(* The operators that the table takes from other modules are those of the  *)
(* dispatcher.                                                             *)
LEMMA SameCardinality ==
    ASSUME NEW S
    PROVE  D!Cardinality(S) = Cardinality(S)
BY DEF D!Cardinality, Cardinality

LEMMA SameSelect ==
    ASSUME NEW s, NEW K
    PROVE  D!Select(s, K) = Select(s, K)
<1>. DEFINE P(k, n) == Cardinality({j \in K : j <= k}) = n
            Q(k, n) == D!Cardinality({j \in K : j <= k}) = n
<1>1. D!Cardinality(K) = Cardinality(K)
    BY SameCardinality
<1>2. \A n : \A k \in K : P(k, n) <=> Q(k, n)
    BY SameCardinality
<1>3. D!Select(s, K) = [n \in 1..D!Cardinality(K) |-> s[CHOOSE k \in K : Q(k, n)]]
    BY DEF D!Select
<1>4. Select(s, K) = [n \in 1..Cardinality(K) |-> s[CHOOSE k \in K : P(k, n)]]
    BY DEF Select
<1>. HIDE DEF P, Q
<1>5. \A n : (CHOOSE k \in K : Q(k, n)) = (CHOOSE k \in K : P(k, n))
    BY <1>2
<1>. QED
    BY <1>1, <1>3, <1>4, <1>5

LEMMA InitMaps == Init => D!Init
<1>. SUFFICES ASSUME Init PROVE D!Init
    OBVIOUS
<1>1. Level(handlers) = D!Empty
    BY LevelEmpty DEF Init
<1>2. specific \in BOOLEAN
    BY DispatcherAssumption DEF Init, DispatcherAssumption
<1>. QED
    BY <1>1, <1>2 DEF Init, D!Init

LEMMA UnregisterMaps ==
    ASSUME TInv, NEW f \in Funcs, Unregister(f)
    PROVE  D!Unregister(f)
<1>1. PICK hs2 : hs2 = Without(handlers, f)
    OBVIOUS
<1>2. handlers' = hs2 /\ handlers \in Handlers
    BY <1>1 DEF Unregister, TInv, TypeOK
<1>. DEFINE L2 == [p \in Priorities |-> Select(Level(handlers)[p],
                       {i \in DOMAIN Level(handlers)[p] : Level(handlers)[p][i] # f})]
<1>3. \A p \in Priorities : Level(hs2)[p] = L2[p]
    BY <1>1, <1>2, WithoutLevel
<1>4. Level(hs2) = [p \in Priorities |-> Level(hs2)[p]]
    BY DEF Level
<1>. HIDE DEF L2
<1>5. L2 = [p \in Priorities |-> L2[p]]
    BY DEF L2
<1>6. Level(hs2) = L2
    BY <1>3, <1>4, <1>5
<1>7. Level(handlers)' = Level(hs2)
    BY <1>2 DEF Level
<1>8. Level(handlers)' = L2
    BY <1>6, <1>7
<1>9. advisors' = Select(advisors, {i \in DOMAIN advisors : advisors[i].func # f})
    BY DEF Unregister, Without
<1>10. answer' = <<>> /\ fallback' = fallback /\ snapshot' = snapshot
    BY DEF Unregister
<1>11. L2 = [p \in Priorities |-> D!Select(Level(handlers)[p],
                       {i \in DOMAIN Level(handlers)[p] : Level(handlers)[p][i] # f})]
    BY SameSelect DEF L2
<1>12. D!Table([p \in Priorities |-> D!Select(Level(handlers)[p],
                       {i \in DOMAIN Level(handlers)[p] : Level(handlers)[p][i] # f})],
               fallback,
               D!Select(advisors, {i \in DOMAIN advisors : advisors[i].func # f}))
    BY <1>8, <1>9, <1>10, <1>11, SameSelect DEF D!Table
<1>13. UNCHANGED SavedOf
    BY <1>10 DEF SavedOf
<1>. QED
    BY ONLY <1>12, <1>13 DEF D!Unregister, SavedOf

LEMMA RegisterMaps ==
    ASSUME TInv, SInv, NEW f \in Funcs, NEW p \in Priorities, Register(f, p)
    PROVE  D!Register(f, p)
<1>2. PICK hs2 : hs2 = Put(handlers, f, p)
    OBVIOUS
<1>3. handlers' = hs2 /\ handlers \in Handlers /\ Sorted(handlers)
    BY <1>2 DEF Register, Registered, Put, TInv, TypeOK, SInv
<1>4. Level(hs2) = [Level(handlers) EXCEPT ![p] = Append(@, f)]
    BY <1>2, <1>3, InsertLevel
<1>5. Level(handlers)' = Level(hs2)
    BY <1>3 DEF Level
<1>6. Level(handlers)' = [Level(handlers) EXCEPT ![p] = Append(@, f)]
    BY <1>4, <1>5
<1>. QED
    BY <1>6 DEF Register, D!Register, D!Table

LEMMA ClearMaps ==
    ASSUME Clear
    PROVE  D!Clear
<1>1. handlers' = <<>>
    BY DEF Clear
<1>2. Level(handlers)' = Level(<<>>)
    BY <1>1 DEF Level
<1>3. Level(handlers)' = D!Empty
    BY <1>2, LevelEmpty
<1>. QED
    BY <1>3 DEF Clear, D!Clear, D!Table

LEMMA FallbackMaps ==
    ASSUME NEW f, Fallback(f)
    PROVE  D!Fallback(f)
<1>1. Level(handlers)' = Level(handlers)
    BY DEF Fallback, Level
<1>. QED
    BY <1>1 DEF Fallback, D!Fallback, D!Table

LEMMA AdviseMaps ==
    ASSUME NEW a, Advise(a)
    PROVE  D!Advise(a)
<1>1. Level(handlers)' = Level(handlers)
    BY DEF Advise, Level
<1>. QED
    BY <1>1 DEF Advise, D!Advise, D!Table

LEMMA EnterMaps ==
    ASSUME TInv, NEW c \in Contexts, Enter(c)
    PROVE  D!Save(c)
<1>. DEFINE r == [handlers |-> handlers, fallback |-> fallback, cache |-> cache,
                  hasPredicates |-> hasPredicates]
<1>1. r.handlers = handlers /\ r.fallback = fallback
    OBVIOUS
<1>2. snapshot' = [snapshot EXCEPT ![c] = <<r>>] /\ snapshot \in [Contexts -> Seq(Version)]
    BY DEF Enter, TInv, TypeOK
<1>. HIDE DEF r
<1>3. Level(handlers)' = Level(handlers)
    BY DEF Enter, table, Level
<1>4. snapshot'[c] = <<r>> /\ <<r>> # <<>> /\ <<r>>[1] = r
    BY <1>2
<1>5. \A d \in Contexts : d # c => snapshot'[d] = snapshot[d]
    BY <1>2
<1>6. SavedOf' = [SavedOf EXCEPT ![c] = <<Level(handlers), fallback>>]
    BY <1>1, <1>4, <1>5 DEF SavedOf
<1>. QED
    BY <1>3, <1>6 DEF Enter, table, SavedOf, D!Save, D!Table

LEMMA RollbackMaps ==
    ASSUME NEW c \in Contexts, Rollback(c)
    PROVE  D!Restore(c)
<1>1. snapshot[c] # <<>> /\ handlers' = snapshot[c][1].handlers
    BY DEF Rollback
<1>2. PICK hs2 : hs2 = snapshot[c][1].handlers
    OBVIOUS
<1>3. Level(handlers)' = Level(hs2)
    BY <1>1, <1>2 DEF Level
<1>4. SavedOf[c] = <<Level(hs2), snapshot[c][1].fallback>>
    BY <1>1, <1>2 DEF SavedOf
<1>5. SavedOf[c] # <<>> /\ SavedOf[c][1] = Level(hs2)
      /\ SavedOf[c][2] = snapshot[c][1].fallback
    BY <1>4
<1>. QED
    BY <1>1, <1>3, <1>5 DEF Rollback, SavedOf, D!Restore, D!Table

LEMMA CallMaps ==
    ASSUME TInv, SInv, NEW v \in Values, Answers(v, FoundFor(v)),
           UNCHANGED <<handlers, fallback, advisors, snapshot>>
    PROVE  D!Call(v)
<1>. DEFINE func == IF FoundFor(v) = Nobody THEN fallback ELSE FoundFor(v)
            advice == IF func \in Funcs THEN AdvisorsFor(v) ELSE <<>>
<1>1. D!Best(Level(handlers), v) = func
    BY BestIsFound DEF TInv, SInv
<1>2. answer' = [call |-> v, func |-> func, advice |-> advice]
    BY DEF Answers
<1>3. Level(handlers)' = Level(handlers)
    BY DEF Level
<1>4. advice = IF func \in Funcs
               THEN Select(advisors, {i \in DOMAIN advisors : v \in advisors[i].key})
               ELSE <<>>
    BY DEF AdvisorsFor
<1>4a. advice = IF func \in Funcs
                THEN D!Select(advisors, {i \in DOMAIN advisors : v \in advisors[i].key})
                ELSE <<>>
    BY <1>4, SameSelect
<1>. HIDE DEF func, advice
<1>5. AnswerOf' = <<v, func, advice>>
    <2>1. PICK a : a = [call |-> v, func |-> func, advice |-> advice]
        OBVIOUS
    <2>2. "call" \in DOMAIN a /\ "call" \notin DOMAIN <<>>
        BY <2>1
    <2>3. a # <<>>
        BY <2>2
    <2>4. answer' = a /\ a.call = v /\ a.func = func /\ a.advice = advice
        BY <1>2, <2>1
    <2>. QED
        BY <2>3, <2>4 DEF AnswerOf
<1>6. <<v, func, advice>> # <<>>
    OBVIOUS
<1>7. AnswerOf' = <<v, D!Best(Level(handlers), v), advice>> /\ AnswerOf' # <<>>
    BY <1>1, <1>5, <1>6
<1>8. D!Runs(v, func)
    BY <1>4a, <1>5 DEF AnswerOf, D!Runs
<1>9. D!Runs(v, D!Best(Level(handlers), v))
    BY <1>1, <1>8
<1>. QED
    BY <1>3, <1>7, <1>9 DEF AnswerOf, D!Call

LEMMA StepMaps ==
    ASSUME JudgeByType
    PROVE  TInv /\ CInv /\ SInv /\ [Next]_vars => [D!Next]_(D!vars)
<1>. SUFFICES ASSUME TInv, CInv, SInv, [Next]_vars PROVE D!Next \/ UNCHANGED D!vars
    OBVIOUS
<1>1. ASSUME NEW f \in Funcs, Unregister(f) PROVE D!Next
    BY <1>1, UnregisterMaps DEF D!Next, Unregister
<1>2. ASSUME NEW f \in Funcs, NEW p \in Priorities, Register(f, p) PROVE D!Next
    BY <1>2, RegisterMaps DEF D!Next, Register
<1>3. ASSUME NEW f \in Fallbacks, Fallback(f) PROVE D!Next
    <2>1. f \in Funcs
        BY DispatcherAssumption DEF DispatcherAssumption
    <2>. QED
        BY <1>3, <2>1, FallbackMaps DEF D!Next, Fallback
<1>4. ASSUME NEW a \in Advice, Advise(a) PROVE D!Next
    BY <1>4, AdviseMaps DEF D!Next, Advise
<1>5. CASE Clear
    BY <1>5, ClearMaps DEF D!Next, Clear
<1>6. ASSUME NEW v \in Values,
             CallCached(v) \/ CallSearches(v) \/ CallUncached(v) \/ CallSpecific(v)
      PROVE  D!Next
    <2>1. Answers(v, FoundFor(v))
        <3>1. CASE CallCached(v)
            <4>1. cache[TypeOf[v]] = FoundFor(v)
                BY <3>1 DEF CallCached, CInv, CacheCoherent, Coherent, FoundFor
            <4>. QED
                BY <3>1, <4>1 DEF CallCached
        <3>2. CASE CallSearches(v)
            BY <3>2 DEF CallSearches, FoundFor
        <3>3. CASE CallUncached(v)
            BY <3>3 DEF CallUncached, FoundFor
        <3>4. CASE CallSpecific(v)
            BY <3>4 DEF CallSpecific, FoundFor
        <3>. QED
            BY <1>6, <3>1, <3>2, <3>3, <3>4
    <2>2. UNCHANGED <<specific, handlers, fallback, advisors, snapshot>>
        BY <1>6 DEF CallCached, CallSearches, CallUncached, CallSpecific, table
    <2>3. D!Call(v)
        BY <2>1, <2>2, CallMaps
    <2>. QED
        BY <2>2, <2>3 DEF D!Next
<1>7. ASSUME NEW c \in Contexts, Enter(c) PROVE D!Next
    BY <1>7, EnterMaps DEF D!Next, Enter
<1>8. ASSUME NEW c \in Contexts, Rollback(c) PROVE D!Next
    BY <1>8, RollbackMaps DEF D!Next, Rollback
<1>9. CASE UNCHANGED vars
    <2>1. Level(handlers)' = Level(handlers)
        BY <1>9 DEF vars, Level
    <2>2. SavedOf' = SavedOf /\ AnswerOf' = AnswerOf
        BY <1>9 DEF vars, SavedOf, AnswerOf
    <2>. QED
        BY <1>9, <2>1, <2>2 DEF vars, D!vars, SavedOf, AnswerOf
<1>. QED
    BY <1>1, <1>2, <1>3, <1>4, <1>5, <1>6, <1>7, <1>8, <1>9 DEF Next

(* A dispatcher keeps the promise of a DispatchTable: for any handlers     *)
(* that judge by types, any priorities and any contexts, every operation   *)
(* is the one of the table, and every call, from the cache or not, runs    *)
(* the best handler in its queues.                                         *)
THEOREM Refinement ==
    ASSUME JudgeByType
    PROVE  Spec => ImplementsTable
<1>1. TInv /\ CInv /\ SInv /\ [Next]_vars => TInv' /\ CInv' /\ SInv'
    BY TInvNext, CInvNext, SInvNext
<1>2. TInv /\ CInv /\ SInv /\ [Next]_vars => [D!Next]_(D!vars)
    BY StepMaps
<1>3. Init => TInv /\ CInv /\ SInv
    BY TInvInit, CInvInit, SInvInit
<1>. QED
    BY <1>1, <1>2, <1>3, InitMaps, PTL DEF Spec, ImplementsTable, D!Spec
=============================================================================
