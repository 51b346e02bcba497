---------------------------- MODULE VectorProofs ----------------------------
(***************************************************************************)
(* A persistent vector is the sequence of what was put into it: for every  *)
(* branch factor, and for vectors of every length.                         *)
(***************************************************************************)
EXTENDS PersistentVector, SequenceTheorems, FiniteSetTheorems, WellFoundedInduction,
        TLAPS

-----------------------------------------------------------------------------
(* Induction, and the arithmetic of places.                                *)

(* What holds at 0 and of the next number holds up to n.                   *)
LEMMA Upward ==
    ASSUME NEW n \in Nat, NEW H, 0 \in H,
           \A i \in 0..n : i \in H /\ i < n => i + 1 \in H
    PROVE  0..n \subseteq H
<1>. DEFINE Below(i) == {j \in 0..n : j < i}
            Misses   == {i \in 0..n : i \notin H}
            All      == {Below(i) : i \in Misses}
<1>. SUFFICES ASSUME Misses # {} PROVE FALSE
    OBVIOUS
<1>1. \A i \in 0..n : IsFiniteSet(Below(i))
    <2>. TAKE i \in 0..n
    <2>1. IsFiniteSet(0..n) /\ Below(i) \subseteq 0..n
        BY FS_Interval
    <2>. QED
        BY <2>1, FS_Subset
<1>2. All \subseteq FiniteSubsetsOf(Nat) /\ All # {}
    <2>1. \A i \in Misses : Below(i) \in SUBSET Nat /\ IsFiniteSet(Below(i))
        BY <1>1
    <2>. HIDE DEF Below, Misses
    <2>. QED
        BY <2>1 DEF FiniteSubsetsOf
<1>3. PICK A \in All : \A B \in All : ~(<<B, A>> \in StrictSubsetOrdering(Nat))
    <2>. HIDE DEF All
    <2>. QED
        BY <1>2, FS_StrictSubsetOrderingWellFounded, WFMin
<1>4. PICK i \in Misses : A = Below(i)
    OBVIOUS
<1>5. i - 1 \in Misses
    <2>1. i # 0 /\ i \in 1..n
        OBVIOUS
    <2>. QED
        BY <2>1
<1>6. Below(i - 1) \in All /\ Below(i - 1) \subseteq A /\ Below(i - 1) # A
    <2>1. i - 1 \in A /\ i - 1 \notin Below(i - 1)
        BY <1>4, <1>5
    <2>2. Below(i - 1) \subseteq A
        BY <1>4
    <2>. QED
        BY <1>5, <2>1, <2>2
<1>7. A \in SUBSET Nat /\ Below(i - 1) \in SUBSET Nat
    BY <1>4
<1>8. <<Below(i - 1), A>> \in StrictSubsetOrdering(Nat)
    <2>. HIDE DEF Below
    <2>. QED
        BY <1>6, <1>7 DEF StrictSubsetOrdering
<1>. QED
    BY <1>3, <1>6, <1>8

(* ... and down from n.                                                    *)
LEMMA Downward ==
    ASSUME NEW n \in Nat, NEW H, n \in H,
           \A i \in 0..n : i \in H /\ i > 0 => i - 1 \in H
    PROVE  0..n \subseteq H
<1>. DEFINE G == {i \in 0..n : n - i \in H}
<1>1. 0 \in G
    OBVIOUS
<1>2. ASSUME NEW i \in 0..n, i \in G, i < n PROVE i + 1 \in G
    <2>1. n - i \in H /\ n - i > 0 /\ n - i \in 0..n
        BY <1>2
    <2>2. (n - i) - 1 \in H
        BY <2>1
    <2>3. (n - i) - 1 = n - (i + 1) /\ i + 1 \in 0..n
        BY <1>2
    <2>. QED
        BY <2>2, <2>3
<1>. HIDE DEF G
<1>3. 0..n \subseteq G
    BY ONLY n \in Nat, <1>1, <1>2, Upward
<1>. QED
    <2>. SUFFICES ASSUME NEW i \in 0..n PROVE i \in H
        OBVIOUS
    <2>1. n - i \in 0..n /\ n - (n - i) = i
        OBVIOUS
    <2>. QED
        BY <1>3, <2>1 DEF G

(* k goes into a as many times as k times the divisor is at most a.        *)
LEMMA Division ==
    ASSUME NEW a \in Nat, NEW d \in Nat \ {0}
    PROVE  /\ a \div d \in Nat /\ a % d \in 0..(d - 1)
           /\ a = (a \div d) * d + (a % d)
           /\ \A k \in Nat : k <= a \div d <=> k * d <= a
OBVIOUS

(* Multiples of the branch factor, one by one.                             *)
LEMMA Places ==
    ASSUME NEW i \in Nat
    PROVE  i * Width \in Nat /\ (i + 1) * Width = i * Width + Width /\ Width \in Nat \ {0}
BY VectorAssumption

LEMMA Quotient ==
    ASSUME NEW a \in Nat, NEW d \in Nat \ {0}, NEW q \in Nat, NEW r \in 0..(d - 1),
           a = q * d + r
    PROVE  a \div d = q /\ a % d = r
OBVIOUS

LEMMA Twice ==
    ASSUME NEW a \in Nat, NEW d \in Nat \ {0}, NEW e \in Nat \ {0}
    PROVE  (a \div d) \div e = a \div (e * d)
OBVIOUS

(* Span is defined: on an interval by extension, and the functions on two  *)
(* intervals agree.                                                        *)
SpanUpto(n, f) == f = [i \in 0..n |-> IF i = 0 THEN 1 ELSE Width * f[i - 1]]

LEMMA SpanUptoIs ==
    ASSUME NEW n \in Nat, NEW f, SpanUpto(n, f)
    PROVE  f[0] = 1 /\ \A i \in 0..n : i > 0 => f[i] = Width * f[i - 1]
BY DEF SpanUpto

LEMMA SpanUptoExists ==
    ASSUME NEW n \in Nat
    PROVE  \E f : SpanUpto(n, f)
<1>. DEFINE H == {i \in 0..n : \E f : SpanUpto(i, f)}
<1>1. 0 \in H
    <2>1. SpanUpto(0, [i \in 0..0 |-> 1])
        BY DEF SpanUpto
    <2>. QED
        BY <2>1
<1>2. ASSUME NEW i \in 0..n, i \in H, i < n PROVE i + 1 \in H
    <2>1. PICK f : SpanUpto(i, f)
        BY <1>2
    <2>. DEFINE g == [j \in 0..(i + 1) |-> IF j <= i THEN f[j] ELSE Width * f[i]]
    <2>2. /\ f[0] = 1 /\ \A j \in 0..i : j > 0 => f[j] = Width * f[j - 1]
        BY <2>1, SpanUptoIs
    <2>3. ASSUME NEW j \in 0..(i + 1)
          PROVE  g[j] = IF j = 0 THEN 1 ELSE Width * g[j - 1]
        BY <2>2
    <2>4. SpanUpto(i + 1, g)
        BY <2>3 DEF SpanUpto
    <2>. QED
        BY <1>2, <2>4
<1>. HIDE DEF H
<1>3. 0..n \subseteq H
    BY ONLY n \in Nat, <1>1, <1>2, Upward
<1>. QED
    BY <1>3 DEF H

LEMMA SpanUptoAgree ==
    ASSUME NEW n \in Nat, NEW f, NEW g, SpanUpto(n, f), SpanUpto(n + 1, g)
    PROVE  f[n] = g[n]
<1>. DEFINE H == {i \in 0..n : f[i] = g[i]}
<1>0. /\ f[0] = 1 /\ \A i \in 0..n : i > 0 => f[i] = Width * f[i - 1]
      /\ g[0] = 1 /\ \A i \in 0..(n + 1) : i > 0 => g[i] = Width * g[i - 1]
    BY SpanUptoIs
<1>1. 0 \in H
    BY <1>0
<1>2. ASSUME NEW i \in 0..n, i \in H, i < n PROVE i + 1 \in H
    <2>1. /\ i + 1 \in 0..n /\ i + 1 \in 0..(n + 1) /\ i + 1 > 0 /\ (i + 1) - 1 = i
        BY <1>2
    <2>2. f[i + 1] = Width * f[i] /\ g[i + 1] = Width * g[i]
        BY <1>0, <2>1
    <2>. QED
        BY <1>2, <2>1, <2>2
<1>. HIDE DEF H
<1>3. 0..n \subseteq H
    BY ONLY n \in Nat, <1>1, <1>2, Upward
<1>. QED
    BY <1>3 DEF H

(* So Span, which is defined by recursion, satisfies its definition.       *)
LEMMA SpanIs ==
    /\ \A l \in Nat : Span[l] \in Nat \ {0}
    /\ Span[0] = 1
    /\ \A l \in Nat : Span[l + 1] = Width * Span[l]
<1>. DEFINE G(n) == CHOOSE f : SpanUpto(n, f)
            F == [n \in Nat |-> G(n)[n]]
<1>1. \A n \in Nat : SpanUpto(n, G(n))
    BY SpanUptoExists
<1>2. F[0] = 1
    <2>1. SpanUpto(0, G(0))
        BY <1>1
    <2>. HIDE DEF G
    <2>2. G(0)[0] = 1
        BY <2>1, SpanUptoIs
    <2>. QED
        BY <2>2
<1>3. ASSUME NEW n \in Nat PROVE F[n + 1] = Width * F[n]
    <2>1. SpanUpto(n, G(n)) /\ SpanUpto(n + 1, G(n + 1)) /\ n + 1 \in Nat
        BY <1>1
    <2>. HIDE DEF G
    <2>2. G(n)[n] = G(n + 1)[n]
        BY <2>1, SpanUptoAgree
    <2>3. G(n + 1)[n + 1] = Width * G(n + 1)[n]
        <3>1. n + 1 \in 0..(n + 1) /\ n + 1 > 0 /\ (n + 1) - 1 = n
            OBVIOUS
        <3>. QED
            BY <2>1, <3>1, SpanUptoIs
    <2>. QED
        BY <2>1, <2>2, <2>3
<1>4. F = [n \in Nat |-> IF n = 0 THEN 1 ELSE Width * F[n - 1]]
    <2>1. ASSUME NEW n \in Nat PROVE F[n] = IF n = 0 THEN 1 ELSE Width * F[n - 1]
        <3>1. CASE n = 0
            BY <1>2, <3>1
        <3>2. CASE n # 0
            <4>1. n - 1 \in Nat /\ (n - 1) + 1 = n
                BY <3>2
            <4>. HIDE DEF F
            <4>. QED
                BY <1>3, <3>2, <4>1
        <3>. QED
            BY <3>1, <3>2
    <2>2. DOMAIN F = Nat /\ F = [n \in Nat |-> F[n]]
        OBVIOUS
    <2>. HIDE DEF F
    <2>. QED
        BY <2>1, <2>2
<1>. HIDE DEF F
<1>5. Span = [l \in Nat |-> IF l = 0 THEN 1 ELSE Width * Span[l - 1]]
    BY <1>4 DEF Span
<1>6. /\ Span[0] = 1
      /\ \A l \in Nat : Span[l + 1] = Width * Span[l]
    BY <1>5
<1>7. ASSUME NEW n \in Nat PROVE Span[n] \in Nat \ {0}
    <2>. DEFINE H == {l \in 0..n : Span[l] \in Nat \ {0}}
    <2>1. 0 \in H
        BY <1>6
    <2>2. ASSUME NEW i \in 0..n, i \in H, i < n PROVE i + 1 \in H
        BY <1>6, <2>2, VectorAssumption
    <2>. HIDE DEF H
    <2>3. 0..n \subseteq H
        BY ONLY n \in Nat, <2>1, <2>2, Upward
    <2>. QED
        BY <2>3 DEF H
<1>. QED
    BY <1>6, <1>7
-----------------------------------------------------------------------------
(* Sequences.                                                              *)

LEMMA TupleIs ==
    ASSUME NEW S, NEW n \in Nat, NEW f \in [1..n -> S]
    PROVE  f \in Seq(S) /\ Len(f) = n
OBVIOUS

LEMMA SameTuple ==
    ASSUME NEW S, NEW s \in Seq(S), NEW T, NEW t \in Seq(T), Len(s) = Len(t),
           \A i \in 1..Len(s) : s[i] = t[i]
    PROVE  s = t
<1>1. s = [i \in 1..Len(s) |-> s[i]] /\ t = [i \in 1..Len(t) |-> t[i]]
    BY LenProperties
<1>. QED
    BY <1>1

(* The tuple g is f but for x at place i.                                  *)
Replaced(f, g, n, i, x) ==
    /\ f = [j \in 1..n |-> f[j]] /\ g = [j \in 1..n |-> g[j]]
    /\ \A j \in 1..n : g[j] = IF j = i THEN x ELSE f[j]

(* root[:i] + (x,) + root[i + 1:]                                          *)
LEMMA ReplaceIs ==
    ASSUME NEW n \in Nat, NEW f, NEW g, NEW i, NEW x, Replaced(f, g, n, i, x)
    PROVE  g = ReplaceAt(f, i, x)
<1>1. [f EXCEPT ![i] = x] = [j \in 1..n |-> IF j = i THEN x ELSE f[j]]
    BY DEF Replaced
<1>. QED
    BY <1>1 DEF ReplaceAt, Replaced

(* The sequences in q are what t falls into, Width places at a time.       *)
Chunked(q, t) ==
    /\ Len(t) <= Len(q) * Width
    /\ \A k \in 1..Len(q) :
          /\ (k - 1) * Width <= Len(t)
          /\ Len(q[k]) = (IF k * Width <= Len(t) THEN k * Width ELSE Len(t)) - (k - 1) * Width
          /\ \A j \in 1..Len(q[k]) : q[k][j] = t[(k - 1) * Width + j]

(* The pieces of t, Width elements each but the last, give t again.        *)
LEMMA FlattenChunks ==
    ASSUME NEW S, NEW t \in Seq(S), NEW q \in Seq(Seq(S)), Chunked(q, t)
    PROVE  FlattenSeq(q) = t
<1>. DEFINE n == Len(q)
            m == Len(t)
            End(k) == IF k * Width <= m THEN k * Width ELSE m
            F == [k \in 1..n |-> [i \in 1..End(k) |-> t[i]]]
            f == CHOOSE g : g = [k \in 1..n |-> IF k = 1 THEN q[k] ELSE g[k - 1] \o q[k]]
<1>0. /\ n \in Nat /\ m \in Nat /\ Width \in Nat \ {0}
      /\ m <= n * Width
      /\ \A k \in 1..n :
            /\ q[k] \in Seq(S)
            /\ k * Width \in Nat /\ (k - 1) * Width \in Nat
            /\ k * Width = (k - 1) * Width + Width
            /\ (k - 1) * Width <= m
            /\ Len(q[k]) = End(k) - (k - 1) * Width
            /\ \A j \in 1..Len(q[k]) : q[k][j] = t[(k - 1) * Width + j]
      /\ \A i \in 1..m : t[i] \in S
    <2>1. \A k \in Nat \ {0} :
            /\ k * Width \in Nat /\ (k - 1) * Width \in Nat
            /\ k * Width = (k - 1) * Width + Width
        BY VectorAssumption
    <2>2. n \in Nat /\ m \in Nat
        BY LenProperties
    <2>3. \A i \in 1..m : t[i] \in S
        BY ElementOfSeq
    <2>4. \A k \in 1..n : q[k] \in Seq(S)
        BY ElementOfSeq
    <2>5. \A k \in 1..n : k \in Nat \ {0}
        BY <2>2
    <2>. HIDE DEF n, m
    <2>6. /\ m <= n * Width
          /\ \A k \in 1..n :
            /\ (k - 1) * Width <= m
            /\ Len(q[k]) = End(k) - (k - 1) * Width
            /\ \A j \in 1..Len(q[k]) : q[k][j] = t[(k - 1) * Width + j]
        BY DEF Chunked, n, m
    <2>. QED
        BY <2>1, <2>2, <2>3, <2>4, <2>5, <2>6, VectorAssumption
<1>. HIDE DEF n, m
<1>1. CASE n = 0
    <2>1. FlattenSeq(q) = q
        BY <1>1 DEF FlattenSeq, n
    <2>2. q = <<>> /\ m = 0
        <3>1. m <= 0
            BY <1>0, <1>1
        <3>2. m = 0
            BY <1>0, <3>1
        <3>. QED
            BY <1>1, <3>2, EmptySeq DEF n
    <2>3. t = <<>>
        BY <2>2, EmptySeq DEF m
    <2>. QED
        BY <2>1, <2>2, <2>3
<1>2. CASE n > 0
    <2>1. \A k \in 1..n : F[k] \in Seq(S) /\ Len(F[k]) = End(k) /\ End(k) \in Nat
        <3>. TAKE k \in 1..n
        <3>1. End(k) \in Nat /\ End(k) <= m
            BY <1>0
        <3>2. F[k] \in [1..End(k) -> S]
            BY <1>0, <3>1
        <3>. HIDE DEF F, End
        <3>. QED
            BY <3>1, <3>2, TupleIs
    <2>2. F[1] = q[1]
        <3>1. /\ 1 \in 1..n /\ (1 - 1) * Width = 0
            BY <1>0, <1>2
        <3>2. /\ q[1] \in Seq(S) /\ Len(q[1]) = End(1) - (1 - 1) * Width
              /\ \A j \in 1..Len(q[1]) : q[1][j] = t[(1 - 1) * Width + j]
            <4>. HIDE DEF End
            <4>. QED
                BY <1>0, <3>1
        <3>3. \A j \in 1..End(1) : F[1][j] = t[j]
            BY <3>1
        <3>. HIDE DEF F, End
        <3>4. F[1] \in Seq(S) /\ Len(F[1]) = End(1) /\ End(1) \in Nat
            BY <2>1, <3>1
        <3>5. Len(q[1]) = End(1)
            BY <3>1, <3>2, <3>4
        <3>6. \A j \in 1..End(1) : q[1][j] = t[j]
            BY <3>1, <3>2, <3>4, <3>5
        <3>7. Len(F[1]) = Len(q[1]) /\ \A j \in 1..Len(F[1]) : F[1][j] = q[1][j]
            BY <3>3, <3>4, <3>5, <3>6
        <3>. QED
            BY ONLY <3>2, <3>4, <3>7, SameTuple
    <2>3. ASSUME NEW k \in 1..n, k # 1 PROVE F[k] = F[k - 1] \o q[k]
        <3>1. /\ k - 1 \in 1..n /\ End(k - 1) = (k - 1) * Width
            <4>1. k - 1 \in 1..n
                BY <1>0, <2>3
            <4>. QED
                BY <1>0, <4>1
        <3>2. /\ \A j \in 1..End(k) : F[k][j] = t[j]
              /\ \A j \in 1..End(k - 1) : F[k - 1][j] = t[j]
            BY <3>1
        <3>. HIDE DEF F
        <3>3. Len(q[k]) = End(k) - End(k - 1) /\ Len(q[k]) \in Nat
              /\ \A j \in 1..Len(q[k]) : q[k][j] = t[End(k - 1) + j]
            BY <1>0, <3>1, LenProperties
        <3>. HIDE DEF End
        <3>4. PICK e \in Nat : e = End(k)
            BY <2>1
        <3>5. PICK d \in Nat : d = End(k - 1)
            BY <2>1, <3>1
        <3>6. PICK a \in Seq(S) : a = F[k - 1] /\ Len(a) = d
            BY <2>1, <3>1, <3>5
        <3>7. PICK b \in Seq(S) : b = q[k] /\ Len(b) = e - d /\ Len(b) \in Nat
            BY <1>0, <3>3, <3>4, <3>5
        <3>8. PICK c \in Seq(S) : c = F[k] /\ Len(c) = e
            BY <2>1, <3>4
        <3>9. /\ a \o b \in Seq(S) /\ Len(a \o b) = d + Len(b)
              /\ \A i \in 1..(d + Len(b)) : (a \o b)[i] = IF i <= d THEN a[i] ELSE b[i - d]
            <4>1. /\ a \o b \in Seq(S) /\ Len(a \o b) = Len(a) + Len(b)
                  /\ \A i \in 1..(Len(a) + Len(b)) :
                        (a \o b)[i] = IF i <= Len(a) THEN a[i] ELSE b[i - Len(a)]
                BY ONLY a \in Seq(S), b \in Seq(S), ConcatProperties
            <4>. QED
                BY <3>6, <4>1
        <3>10. d + Len(b) = e
            BY <3>4, <3>5, <3>7
        <3>11. /\ \A i \in 1..e : c[i] = t[i]
               /\ \A i \in 1..d : a[i] = t[i]
               /\ \A i \in 1..Len(b) : b[i] = t[d + i]
            BY <3>2, <3>3, <3>4, <3>5, <3>6, <3>7, <3>8
        <3>12. PICK ab \in Seq(S) : ab = a \o b
            BY <3>9
        <3>13. ASSUME NEW i \in 1..e PROVE ab[i] = c[i]
            <4>1. CASE i <= d
                BY <3>9, <3>10, <3>11, <3>12, <4>1
            <4>2. CASE i > d
                <5>1. i - d \in 1..Len(b) /\ d + (i - d) = i
                    BY <3>10, <4>2
                <5>2. b[i - d] = t[i]
                    BY <3>11, <5>1
                <5>. QED
                    BY <3>9, <3>10, <3>11, <3>12, <4>2, <5>2
            <4>. QED
                BY <3>4, <3>5, <4>1, <4>2
        <3>14. Len(ab) = e
            BY <3>9, <3>10, <3>12
        <3>15. ab = c
            BY <3>8, <3>13, <3>14, SameTuple
        <3>. QED
            BY <3>6, <3>7, <3>8, <3>12, <3>15
    <2>4. F = [k \in 1..n |-> IF k = 1 THEN q[k] ELSE F[k - 1] \o q[k]]
        <3>1. F = [k \in 1..n |-> F[k]]
            OBVIOUS
        <3>. HIDE DEF F
        <3>. QED
            BY <2>2, <2>3, <3>1
    <2>5. f = [k \in 1..n |-> IF k = 1 THEN q[k] ELSE f[k - 1] \o q[k]]
        <3>. HIDE DEF F
        <3>. QED
            BY <2>4
    <2>6. FlattenSeq(q) = f[n]
        <3>1. n # 0
            BY <1>2
        <3>. QED
            BY <3>1 DEF FlattenSeq, n
    <2>. HIDE DEF f, F, End
    <2>. DEFINE H == {k \in 0..(n - 1) : f[k + 1] = F[k + 1]}
    <2>7. 0 \in H
        BY <1>0, <1>2, <2>2, <2>5
    <2>8. ASSUME NEW k \in 0..(n - 1), k \in H, k < n - 1 PROVE k + 1 \in H
        <3>1. /\ k + 1 \in 0..(n - 1) /\ (k + 1) + 1 \in 1..n /\ (k + 1) + 1 # 1
              /\ ((k + 1) + 1) - 1 = k + 1
            BY <1>0, <2>8
        <3>2. /\ f[(k + 1) + 1] = f[k + 1] \o q[(k + 1) + 1]
              /\ F[(k + 1) + 1] = F[k + 1] \o q[(k + 1) + 1]
            BY <2>3, <2>5, <3>1
        <3>. QED
            BY <2>8, <3>1, <3>2
    <2>. HIDE DEF H
    <2>9. 0..(n - 1) \subseteq H
        <3>1. n - 1 \in Nat
            BY <1>0, <1>2
        <3>. QED
            BY ONLY <3>1, <2>7, <2>8, Upward
    <2>10. f[n] = F[n]
        <3>1. n - 1 \in 0..(n - 1) /\ (n - 1) + 1 = n
            BY <1>0, <1>2
        <3>. QED
            BY <2>9, <3>1 DEF H
    <2>11. F[n] = t
        <3>1. End(n) = m /\ n \in 1..n
            BY <1>0, <1>2 DEF End
        <3>2. \A j \in 1..m : F[n][j] = t[j]
            BY <3>1 DEF F
        <3>. QED
            BY <1>0, <2>1, <3>1, <3>2, SameTuple DEF m
    <2>. QED
        BY <2>6, <2>10, <2>11
<1>. QED
    BY <1>0, <1>1, <1>2

-----------------------------------------------------------------------------
(* The trie of the first m leaves of a sequence s: a leaf is Width places  *)
(* of s, and a node above has the nodes below it, Width at a time.  Nodes  *)
(* are numbered from 0, level by level.                                    *)

Count(m, l) == IF m = 0 THEN 0 ELSE ((m - 1) \div Span[l]) + 1

Kids(m, l, k) ==
    LET c == Count(m, l - 1)
    IN  IF (k + 1) * Width <= c THEN Width
        ELSE IF k * Width <= c THEN c - k * Width ELSE 0

Tree(N, level, s, m) ==
    /\ \A k \in Nat : k < m => N[0][k] = [j \in 1..Width |-> s[k * Width + j]]
    /\ \A l \in 1..level, k \in Nat :
          N[l][k] = [j \in 1..Kids(m, l, k) |-> N[l - 1][k * Width + j - 1]]

(* A level has as many nodes as are needed for m leaves.                   *)
LEMMA CountIs ==
    ASSUME NEW m \in Nat, NEW l \in Nat
    PROVE  /\ Count(m, l) \in Nat
           /\ \A k \in Nat : k < Count(m, l) <=> k * Span[l] < m
<1>1. Span[l] \in Nat \ {0}
    BY SpanIs
<1>2. CASE m = 0
    BY <1>1, <1>2 DEF Count
<1>3. CASE m # 0
    <2>1. m - 1 \in Nat
        BY <1>3
    <2>2. /\ (m - 1) \div Span[l] \in Nat
          /\ \A k \in Nat : k <= (m - 1) \div Span[l] <=> k * Span[l] <= m - 1
        BY <1>1, <2>1, Division
    <2>3. \A k \in Nat : k * Span[l] \in Nat
        BY <1>1
    <2>. QED
        BY <1>3, <2>2, <2>3 DEF Count
<1>. QED
    BY <1>2, <1>3

(* Each node has Width places for those of the level below.                *)
LEMMA CountAbove ==
    ASSUME NEW m \in Nat, NEW l \in Nat
    PROVE  /\ Count(m, 0) = m
           /\ \A k \in Nat : k < Count(m, l + 1) <=> k * Width < Count(m, l)
           /\ Count(m, l) <= Count(m, l + 1) * Width
<1>1. Count(m, 0) = m
    <2>1. \A k \in Nat : k < Count(m, 0) <=> k < m
        <3>1. \A k \in Nat : k < Count(m, 0) <=> k * Span[0] < m
            BY CountIs
        <3>2. \A k \in Nat : k * Span[0] = k
            BY SpanIs
        <3>. QED
            BY <3>1, <3>2
    <2>2. Count(m, 0) \in Nat
        BY CountIs
    <2>. QED
        BY <2>1, <2>2
<1>2. ASSUME NEW k \in Nat PROVE k < Count(m, l + 1) <=> k * Width < Count(m, l)
    <2>1. k * Width \in Nat /\ k * Span[l + 1] = (k * Width) * Span[l]
        BY SpanIs, VectorAssumption
    <2>2. l + 1 \in Nat
        OBVIOUS
    <2>. QED
        BY <2>1, <2>2, CountIs
<1>3. Count(m, l) <= Count(m, l + 1) * Width
    <2>1. PICK c \in Nat : c = Count(m, l + 1)
        BY CountIs
    <2>2. ~(c * Width < Count(m, l)) /\ c * Width \in Nat
        BY <1>2, <2>1, VectorAssumption
    <2>. QED
        BY <2>1, <2>2, CountIs
<1>. QED
    BY <1>1, <1>2, <1>3

(* The children of a node: Width, or what is left for the last one.        *)
LEMMA KidsIs ==
    ASSUME NEW m \in Nat, NEW l \in Nat \ {0}, NEW k \in Nat
    PROVE  /\ Kids(m, l, k) \in 0..Width
           /\ \A j \in 1..Width : j <= Kids(m, l, k) <=> k * Width + j <= Count(m, l - 1)
<1>1. PICK c \in Nat : c = Count(m, l - 1)
    BY CountIs
<1>2. k * Width \in Nat /\ (k + 1) * Width = k * Width + Width /\ Width \in Nat
    BY VectorAssumption
<1>. QED
    BY <1>1, <1>2 DEF Kids

(* There is a trie for every sequence: it is built level by level.         *)
LEMMA TreeExists ==
    ASSUME NEW level \in Nat, NEW s, NEW m
    PROVE  \E N : Tree(N, level, s, m)
<1>. DEFINE H == {i \in 0..level : \E N : Tree(N, i, s, m)}
<1>1. 0 \in H
    <2>. DEFINE N == [l \in 0..0 |-> [k \in Nat |-> [j \in 1..Width |-> s[k * Width + j]]]]
    <2>1. Tree(N, 0, s, m)
        BY DEF Tree
    <2>. QED
        BY <2>1
<1>2. ASSUME NEW i \in 0..level, i \in H, i < level PROVE i + 1 \in H
    <2>1. PICK N : Tree(N, i, s, m)
        BY <1>2
    <2>. DEFINE K(k) == Kids(m, i + 1, k)
                M == [l \in 0..(i + 1) |->
                         IF l <= i THEN N[l]
                         ELSE [k \in Nat |-> [j \in 1..K(k) |-> N[i][k * Width + j - 1]]]]
    <2>. HIDE DEF K
    <2>2. \A l \in 0..i : M[l] = N[l]
        OBVIOUS
    <2>3. \A k \in Nat : M[i + 1][k] = [j \in 1..K(k) |-> N[i][k * Width + j - 1]]
        OBVIOUS
    <2>. HIDE DEF M
    <2>4. \A k \in Nat : k < m => M[0][k] = [j \in 1..Width |-> s[k * Width + j]]
        BY <2>1, <2>2 DEF Tree
    <2>5. ASSUME NEW l \in 1..(i + 1), NEW k \in Nat
          PROVE  M[l][k] = [j \in 1..Kids(m, l, k) |-> M[l - 1][k * Width + j - 1]]
        <3>1. CASE l <= i
            <4>1. l \in 1..i /\ l \in 0..i /\ l - 1 \in 0..i
                BY <3>1
            <4>. QED
                BY <2>1, <2>2, <4>1 DEF Tree
        <3>2. CASE l = i + 1
            <4>1. l - 1 = i /\ i \in 0..i
                BY <3>2
            <4>. QED
                BY <2>2, <2>3, <3>2, <4>1 DEF K
        <3>. QED
            BY <3>1, <3>2
    <2>6. Tree(M, i + 1, s, m)
        BY <2>4, <2>5 DEF Tree
    <2>. QED
        BY <1>2, <2>6
<1>. HIDE DEF H
<1>3. 0..level \subseteq H
    BY ONLY level \in Nat, <1>1, <1>2, Upward
<1>. QED
    BY <1>3 DEF H

Level(N, l) == {N[l][k] : k \in Nat}

Within(s, k, S) == \A j \in 1..Width : s[k * Width + j] \in S

Leaf(N, s, k, S) ==
    /\ N[0][k] \in Seq(S) /\ Len(N[0][k]) = Width
    /\ \A j \in 1..Width : N[0][k][j] = s[k * Width + j]

LEMMA LeafIs ==
    ASSUME NEW N, NEW level \in Nat, NEW s, NEW m \in Nat, Tree(N, level, s, m),
           NEW k \in Nat, k < m, NEW S, Within(s, k, S)
    PROVE  Leaf(N, s, k, S)
<1>1. N[0][k] = [j \in 1..Width |-> s[k * Width + j]]
    BY DEF Tree
<1>2. N[0][k] \in [1..Width -> S]
    BY <1>1 DEF Within
<1>3. N[0][k] \in Seq(S) /\ Len(N[0][k]) = Width
    BY ONLY <1>2, TupleIs, VectorAssumption
<1>. QED
    BY <1>1, <1>3 DEF Leaf

Node(N, m, l, k) ==
    /\ N[l][k] \in Seq(Level(N, l - 1)) /\ Len(N[l][k]) = Kids(m, l, k)
    /\ \A j \in 1..Kids(m, l, k) : N[l][k][j] = N[l - 1][k * Width + j - 1]

LEMMA NodeIs ==
    ASSUME NEW N, NEW level \in Nat, NEW s, NEW m \in Nat, Tree(N, level, s, m),
           NEW l \in 1..level, NEW k \in Nat
    PROVE  Node(N, m, l, k)
<1>1. N[l][k] = [j \in 1..Kids(m, l, k) |-> N[l - 1][k * Width + j - 1]]
    BY DEF Tree
<1>2. PICK n \in Nat : n = Kids(m, l, k)
    <2>0. l \in Nat \ {0}
        OBVIOUS
    <2>1. Kids(m, l, k) \in 0..Width
        BY <2>0, KidsIs
    <2>. QED
        BY <2>1, VectorAssumption
<1>3. N[l][k] \in [1..n -> Level(N, l - 1)]
    <2>1. \A j \in 1..n : k * Width + j - 1 \in Nat
        BY VectorAssumption
    <2>2. \A j \in 1..n : N[l - 1][k * Width + j - 1] \in Level(N, l - 1)
        BY <2>1 DEF Level
    <2>. QED
        BY <1>1, <1>2, <2>2
<1>4. N[l][k] \in Seq(Level(N, l - 1)) /\ Len(N[l][k]) = n
    BY ONLY n \in Nat, <1>3, TupleIs
<1>. QED
    BY <1>1, <1>2, <1>4 DEF Node

(* The nodes of a level, in their order.                                   *)
Row(N, m, l) == [k \in 1..Count(m, l) |-> N[l][k - 1]]

RowIn(N, m, l, S) == \A k \in Nat : k < Count(m, l) => N[l][k] \in S

RowOf(r, N, l, n, S) ==
    r \in Seq(S) /\ Len(r) = n /\ n \in Nat /\ \A k \in 1..n : r[k] = N[l][k - 1]

LEMMA RowIs ==
    ASSUME NEW N, NEW m \in Nat, NEW l \in Nat, NEW S, RowIn(N, m, l, S)
    PROVE  RowOf(Row(N, m, l), N, l, Count(m, l), S)
<1>1. PICK n \in Nat : n = Count(m, l)
    BY CountIs
<1>2. Row(N, m, l) = [k \in 1..n |-> N[l][k - 1]]
    BY <1>1 DEF Row
<1>3. Row(N, m, l) \in [1..n -> S]
    <2>1. \A k \in 1..n : k - 1 \in Nat /\ k - 1 < n
        OBVIOUS
    <2>. QED
        BY <1>1, <1>2, <2>1 DEF RowIn
<1>4. Row(N, m, l) \in Seq(S) /\ Len(Row(N, m, l)) = n
    BY ONLY n \in Nat, <1>3, TupleIs
<1>. QED
    BY <1>1, <1>2, <1>4 DEF RowOf

(* The nodes of a level, put together, are those of the level below ...    *)
LEMMA RowAbove ==
    ASSUME NEW N, NEW level \in Nat, NEW s, NEW m \in Nat, Tree(N, level, s, m),
           NEW l \in 0..(level - 1)
    PROVE  FlattenSeq(Row(N, m, l + 1)) = Row(N, m, l)
<1>. DEFINE S == Level(N, l)
            t == Row(N, m, l)
            q == Row(N, m, l + 1)
            c == Count(m, l)
            d == Count(m, l + 1)
<1>0. l \in Nat /\ l + 1 \in Nat \ {0} /\ (l + 1) - 1 = l /\ l + 1 \in 1..level
    OBVIOUS
<1>1. /\ t \in Seq(S) /\ Len(t) = c /\ c \in Nat
      /\ \A k \in 1..c : t[k] = N[l][k - 1]
    <2>1. RowIn(N, m, l, S)
        BY DEF Level, RowIn
    <2>2. RowOf(t, N, l, c, S)
        <3>. HIDE DEF S
        <3>. QED
            BY <1>0, <2>1, RowIs
    <2>. HIDE DEF t, c, S
    <2>. QED
        BY <2>2 DEF RowOf
<1>2. ASSUME NEW k \in Nat
      PROVE  /\ N[l + 1][k] \in Seq(S) /\ Len(N[l + 1][k]) = Kids(m, l + 1, k)
             /\ \A j \in 1..Kids(m, l + 1, k) : N[l + 1][k][j] = N[l][k * Width + j - 1]
             /\ Kids(m, l + 1, k) \in 0..Width
    <2>1. /\ N[l + 1][k] \in Seq(Level(N, (l + 1) - 1))
          /\ Len(N[l + 1][k]) = Kids(m, l + 1, k)
          /\ \A j \in 1..Kids(m, l + 1, k) :
                N[l + 1][k][j] = N[(l + 1) - 1][k * Width + j - 1]
        <3>1. PICK i \in 1..level : i = l + 1
            BY <1>0
        <3>2. Node(N, m, i, k)
            BY NodeIs
        <3>. QED
            BY <3>1, <3>2 DEF Node
    <2>2. Kids(m, l + 1, k) \in 0..Width
        BY <1>0, KidsIs
    <2>. QED
        BY <1>0, <2>1, <2>2
<1>3. /\ q \in Seq(Seq(S)) /\ Len(q) = d /\ d \in Nat
      /\ \A k \in 1..d : q[k] = N[l + 1][k - 1]
    <2>1. RowIn(N, m, l + 1, Seq(S))
        BY <1>2 DEF RowIn
    <2>2. l + 1 \in Nat
        OBVIOUS
    <2>3. RowOf(q, N, l + 1, d, Seq(S))
        <3>. HIDE DEF S
        <3>. QED
            BY <2>1, <2>2, RowIs
    <2>. HIDE DEF q, d, S
    <2>. QED
        BY <2>3 DEF RowOf
<1>. HIDE DEF S, t, q, c, d
<1>4. /\ \A k \in Nat : k < d <=> k * Width < c
      /\ c <= d * Width
    BY <1>0, CountAbove DEF c, d
<1>5. ASSUME NEW k \in 1..d
      PROVE  /\ (k - 1) * Width <= c
             /\ Len(q[k]) = (IF k * Width <= c THEN k * Width ELSE c) - (k - 1) * Width
             /\ \A j \in 1..Len(q[k]) : q[k][j] = t[(k - 1) * Width + j]
    <2>1. PICK i \in Nat : i = k - 1 /\ i < d
        BY <1>3
    <2>2. i + 1 = k /\ k - 1 = i
        BY <1>3, <2>1
    <2>3. PICK w \in Nat : w = i * Width
        BY Places
    <2>4. (i + 1) * Width = w + Width /\ Width \in Nat
        BY <2>3, Places
    <2>5. k * Width = w + Width /\ (k - 1) * Width = w /\ w < c
        <3>1. w < c
            BY <1>4, <2>1, <2>3
        <3>. QED
            BY <2>2, <2>3, <2>4, <3>1
    <2>6. q[k] = N[l + 1][i]
        BY <1>3, <2>2
    <2>7. PICK n \in 0..Width : n = Kids(m, l + 1, i)
        BY <1>2
    <2>8. /\ Len(q[k]) = n
          /\ \A j \in 1..n : q[k][j] = N[l][w + j - 1]
        BY <1>2, <2>3, <2>6, <2>7
    <2>9. n = (IF w + Width <= c THEN w + Width ELSE c) - w
        <3>1. n = IF w + Width <= c THEN Width ELSE IF w <= c THEN c - w ELSE 0
            BY <1>0, <2>3, <2>4, <2>7 DEF Kids, c
        <3>. QED
            BY <1>1, <2>4, <2>5, <3>1
    <2>10. ASSUME NEW j \in 1..n PROVE q[k][j] = t[w + j]
        <3>1. w + j \in 1..c /\ (w + j) - 1 = w + j - 1
            BY <1>1, <2>4, <2>5, <2>9
        <3>2. t[w + j] = N[l][(w + j) - 1]
            BY <1>1, <3>1
        <3>. QED
            BY <2>8, <3>1, <3>2
    <2>11. (k - 1) * Width <= c
        BY <1>1, <2>5
    <2>12. Len(q[k]) = (IF k * Width <= c THEN k * Width ELSE c) - (k - 1) * Width
        BY <2>5, <2>8, <2>9
    <2>13. \A j \in 1..Len(q[k]) : q[k][j] = t[(k - 1) * Width + j]
        BY <2>5, <2>8, <2>10
    <2>. QED
        BY <2>11, <2>12, <2>13
<1>6. Chunked(q, t)
    BY <1>1, <1>3, <1>4, <1>5 DEF Chunked
<1>7. FlattenSeq(q) = t
    BY ONLY <1>1, <1>3, <1>6, FlattenChunks
<1>. QED
    BY <1>7 DEF q, t

(* ... and the leaves are the sequence itself.                             *)
LEMMA LeavesAbove ==
    ASSUME NEW N, NEW level \in Nat, NEW S, NEW s \in Seq(S), NEW m \in Nat,
           m * Width <= Len(s), Tree(N, level, s, m)
    PROVE  FlattenSeq(Row(N, m, 0)) = SubSeq(s, 1, m * Width)
<1>. DEFINE t == SubSeq(s, 1, m * Width)
            q == Row(N, m, 0)
<1>0. Len(s) \in Nat /\ m * Width \in Nat /\ \A i \in 1..Len(s) : s[i] \in S
    BY LenProperties, ElementOfSeq, VectorAssumption
<1>1. /\ t \in Seq(S) /\ Len(t) = m * Width
      /\ \A i \in 1..(m * Width) : t[i] = s[i]
    <2>1. PICK n \in Nat : n = m * Width
        BY <1>0
    <2>2. \A i \in 1..n : s[i] \in S
        BY <1>0, <2>1
    <2>3. /\ SubSeq(s, 1, n) \in Seq(S)
          /\ Len(SubSeq(s, 1, n)) = IF 1 <= n THEN n - 1 + 1 ELSE 0
          /\ \A i \in 1..(n - 1 + 1) : SubSeq(s, 1, n)[i] = s[1 + i - 1]
        BY <2>2, SubSeqProperties
    <2>4. t = SubSeq(s, 1, n)
        BY <2>1
    <2>. HIDE DEF t
    <2>. QED
        BY <2>1, <2>3, <2>4
<1>2. ASSUME NEW k \in Nat, k < m
      PROVE  /\ N[0][k] \in Seq(S) /\ Len(N[0][k]) = Width
             /\ \A j \in 1..Width : /\ N[0][k][j] = s[k * Width + j]
                                    /\ k * Width + j \in 1..(m * Width)
    <2>1. k * Width + Width <= m * Width /\ k * Width \in Nat
        BY <1>2, VectorAssumption
    <2>2. \A j \in 1..Width : k * Width + j \in 1..(m * Width)
        BY <1>0, <2>1, VectorAssumption
    <2>3. Within(s, k, S)
        BY <1>0, <2>2 DEF Within
    <2>4. Leaf(N, s, k, S)
        BY <1>2, <2>3, LeafIs
    <2>. QED
        BY <2>2, <2>4 DEF Leaf
<1>3. /\ q \in Seq(Seq(S)) /\ Len(q) = m
      /\ \A k \in 1..m : q[k] = N[0][k - 1]
    <2>1. Count(m, 0) = m
        BY CountAbove
    <2>2. RowIn(N, m, 0, Seq(S))
        BY <1>2, <2>1 DEF RowIn
    <2>3. RowOf(q, N, 0, m, Seq(S))
        BY <2>1, <2>2, RowIs
    <2>. HIDE DEF q
    <2>. QED
        BY <2>3 DEF RowOf
<1>. HIDE DEF t, q
<1>4. ASSUME NEW k \in 1..m
      PROVE  /\ (k - 1) * Width <= Len(t)
             /\ Len(q[k]) = (IF k * Width <= Len(t) THEN k * Width ELSE Len(t))
                            - (k - 1) * Width
             /\ \A j \in 1..Len(q[k]) : q[k][j] = t[(k - 1) * Width + j]
    <2>1. PICK i \in Nat : i = k - 1 /\ i < m /\ k = i + 1
        OBVIOUS
    <2>2. PICK w \in Nat : w = i * Width
        BY Places
    <2>3. (i + 1) * Width = w + Width /\ Width \in Nat
        BY <2>2, Places
    <2>4. k * Width = w + Width /\ (k - 1) * Width = w
        BY <2>1, <2>2, <2>3
    <2>5. w + Width <= m * Width
        <3>1. k * Width <= m * Width
            BY VectorAssumption
        <3>. QED
            BY <2>4, <3>1
    <2>6. q[k] = N[0][i]
        BY <1>3, <2>1
    <2>7. /\ Len(q[k]) = Width
          /\ \A j \in 1..Width : q[k][j] = s[w + j] /\ w + j \in 1..(m * Width)
        BY <1>2, <2>1, <2>2, <2>6
    <2>8. \A j \in 1..Len(q[k]) : q[k][j] = t[w + j]
        BY <1>1, <2>7
    <2>9. Len(q[k]) = (IF k * Width <= Len(t) THEN k * Width ELSE Len(t)) - w
        BY <1>1, <2>3, <2>4, <2>5, <2>7
    <2>10. w <= Len(t)
        BY <1>0, <1>1, <2>3, <2>5
    <2>. QED
        BY <2>4, <2>8, <2>9, <2>10
<1>5. Chunked(q, t)
    <2>1. Len(t) <= Len(q) * Width
        <3>1. Len(q) * Width = m * Width /\ Len(t) = m * Width
            BY <1>1, <1>3
        <3>. QED
            BY <1>0, <3>1
    <2>. QED
        BY <1>3, <1>4, <2>1 DEF Chunked
<1>6. FlattenSeq(q) = t
    BY ONLY <1>1, <1>3, <1>5, FlattenChunks
<1>. QED
    BY <1>6 DEF q, t

(* What _iter_node yields, from the root of a trie.                        *)
LEMMA IterNodeIs ==
    ASSUME NEW N, NEW level \in Nat, NEW S, NEW s \in Seq(S), NEW m \in Nat \ {0},
           m * Width <= Len(s), m <= Span[level], Tree(N, level, s, m)
    PROVE  IterNode(N[level][0], level) = SubSeq(s, 1, m * Width)
<1>. DEFINE root == N[level][0]
            F == [l \in 0..level |-> Row(N, m, l)]
            f == CHOOSE g : g = [l \in 0..level |-> IF l = level THEN <<root>>
                                                    ELSE FlattenSeq(g[l + 1])]
<1>1. Row(N, m, level) = <<root>>
    <2>1. Count(m, level) = 1
        <3>1. /\ Count(m, level) \in Nat
              /\ 0 < Count(m, level) <=> 0 * Span[level] < m
              /\ 1 < Count(m, level) <=> 1 * Span[level] < m
            BY CountIs
        <3>2. Span[level] \in Nat
            BY SpanIs
        <3>. QED
            BY <3>1, <3>2
    <2>. QED
        BY <2>1 DEF Row
<1>2. \A l \in 0..level : l # level => FlattenSeq(Row(N, m, l + 1)) = Row(N, m, l)
    <2>. TAKE l \in 0..level
    <2>1. l # level => l \in 0..(level - 1)
        OBVIOUS
    <2>. QED
        BY <2>1, RowAbove
<1>3. F = [l \in 0..level |-> IF l = level THEN <<root>> ELSE FlattenSeq(F[l + 1])]
    <2>1. \A l \in 0..level : F[l] = IF l = level THEN <<root>> ELSE FlattenSeq(F[l + 1])
        BY <1>1, <1>2
    <2>2. F = [l \in 0..level |-> F[l]]
        OBVIOUS
    <2>. HIDE DEF F
    <2>. QED
        BY <2>1, <2>2
<1>4. f = [l \in 0..level |-> IF l = level THEN <<root>> ELSE FlattenSeq(f[l + 1])]
    <2>. HIDE DEF F
    <2>. QED
        BY <1>3
<1>5. IterNode(root, level) = FlattenSeq(f[0])
    BY DEF IterNode
<1>. HIDE DEF f, root
<1>. DEFINE H == {l \in 0..level : f[l] = F[l]}
<1>6. level \in H
    BY <1>1, <1>4
<1>7. ASSUME NEW i \in 0..level, i \in H, i > 0 PROVE i - 1 \in H
    <2>1. i - 1 \in 0..level /\ i - 1 # level /\ (i - 1) + 1 = i
        BY <1>7
    <2>. HIDE DEF F
    <2>2. f[i - 1] = FlattenSeq(f[i]) /\ F[i - 1] = FlattenSeq(F[i])
        BY <1>3, <1>4, <2>1
    <2>. QED
        BY <1>7, <2>1, <2>2
<1>. HIDE DEF H
<1>8. 0..level \subseteq H
    BY ONLY level \in Nat, <1>6, <1>7, Downward
<1>9. f[0] = Row(N, m, 0)
    BY <1>8 DEF H
<1>10. m \in Nat
    OBVIOUS
<1>11. FlattenSeq(Row(N, m, 0)) = SubSeq(s, 1, m * Width)
    BY ONLY <1>10, level \in Nat, s \in Seq(S), m * Width <= Len(s), Tree(N, level, s, m),
       LeavesAbove
<1>. QED
    BY <1>5, <1>9, <1>11 DEF root

-----------------------------------------------------------------------------
(* The way down to leaf p: the node it is below at each level.             *)

At(p, l) == p \div Span[l]

(* The place of the node above leaf p at a level, and its slot in the      *)
(* one above.                                                              *)
LEMMA AtIs ==
    ASSUME NEW p \in Nat, NEW l \in Nat
    PROVE  /\ At(p, l) \in Nat /\ At(p, 0) = p
           /\ Slot(p, l) \in 0..(Width - 1)
           /\ At(p, l) = At(p, l + 1) * Width + Slot(p, l)
<1>1. Span[l] \in Nat \ {0} /\ Span[0] = 1 /\ Span[l + 1] = Width * Span[l]
    BY SpanIs
<1>2. PICK a \in Nat : a = At(p, l)
    BY <1>1, Division DEF At
<1>3. At(p, 0) = p
    BY <1>1 DEF At
<1>4. At(p, l + 1) = a \div Width
    <2>1. Width \in Nat \ {0}
        BY VectorAssumption
    <2>2. (p \div Span[l]) \div Width = p \div (Width * Span[l])
        BY ONLY <1>1, <2>1, p \in Nat, Twice
    <2>. QED
        BY <1>1, <1>2, <2>2 DEF At
<1>5. Slot(p, l) = a % Width
    BY <1>2 DEF Slot, At
<1>6. a % Width \in 0..(Width - 1) /\ a = (a \div Width) * Width + (a % Width)
    BY Division, VectorAssumption
<1>. QED
    BY <1>2, <1>3, <1>4, <1>5, <1>6

(* Index i is in leaf i \div Width.                                        *)
LEMMA LeafOf ==
    ASSUME NEW i \in Nat
    PROVE  /\ i \div Width \in Nat
           /\ Slot(i, 0) \in 0..(Width - 1)
           /\ i = (i \div Width) * Width + Slot(i, 0)
           /\ \A l \in Nat : Slot(i, l + 1) = Slot(i \div Width, l)
<1>1. /\ i \div Width \in Nat /\ i % Width \in 0..(Width - 1)
      /\ i = (i \div Width) * Width + (i % Width)
    BY Division, VectorAssumption
<1>2. Slot(i, 0) = i % Width
    BY SpanIs DEF Slot
<1>3. ASSUME NEW l \in Nat PROVE Slot(i, l + 1) = Slot(i \div Width, l)
    <2>1. Span[l] \in Nat \ {0} /\ Span[l + 1] = Width * Span[l] /\ Width \in Nat \ {0}
        BY SpanIs, VectorAssumption
    <2>2. (i \div Width) \div Span[l] = i \div (Span[l] * Width)
        BY ONLY <2>1, i \in Nat, Twice
    <2>3. Span[l] * Width = Width * Span[l]
        BY <2>1
    <2>. QED
        BY <2>1, <2>2, <2>3 DEF Slot
<1>. QED
    BY <1>1, <1>2, <1>3

(* With the next leaf, the node at its place is the last of its level.     *)
LEMMA CountLast ==
    ASSUME NEW m \in Nat, NEW l \in Nat
    PROVE  /\ Count(m, l) = At(m, l) \/ Count(m, l) = At(m, l) + 1
           /\ Count(m + 1, l) = At(m, l) + 1
<1>1. PICK d \in Nat \ {0} : d = Span[l]
    BY SpanIs
<1>2. PICK a \in Nat : a = At(m, l) /\ \A k \in Nat : k <= a <=> k * d <= m
    BY <1>1, Division DEF At
<1>3. PICK c \in Nat : c = Count(m, l) /\ \A k \in Nat : k < c <=> k * d < m
    BY <1>1, CountIs
<1>4. m + 1 \in Nat
    OBVIOUS
<1>5. PICK e \in Nat : e = Count(m + 1, l) /\ \A k \in Nat : k < e <=> k * d < m + 1
    BY <1>1, <1>4, CountIs
<1>6. e = a + 1
    <2>1. \A k \in Nat : k * d < m + 1 <=> k * d <= m
        OBVIOUS
    <2>2. \A k \in Nat : k < e <=> k <= a
        BY <1>2, <1>5, <2>1
    <2>. QED
        BY <2>2
<1>7. c <= a + 1
    <2>1. \A k \in Nat : k * d < m => k * d <= m
        OBVIOUS
    <2>2. \A k \in Nat : k < c => k <= a
        BY <1>2, <1>3, <2>1
    <2>. QED
        BY <2>2
<1>8. a <= c
    <2>1. CASE a = 0
        BY <2>1
    <2>2. CASE a > 0
        <3>1. PICK b \in Nat : a = b + 1
            BY <2>2
        <3>2. (b + 1) * d <= m /\ (b + 1) * d = b * d + d
            BY <1>2, <3>1
        <3>3. b * d < m
            BY <3>2
        <3>. QED
            BY <1>3, <3>1, <3>3
    <2>. QED
        BY <2>1, <2>2
<1>. QED
    BY <1>2, <1>3, <1>5, <1>6, <1>7, <1>8

(* A leaf that is there is below a node that is there.                     *)
LEMMA Inside ==
    ASSUME NEW m \in Nat, NEW l \in Nat, NEW p \in Nat, p < m
    PROVE  At(p, l) < Count(m, l)
<1>1. PICK d \in Nat \ {0} : d = Span[l]
    BY SpanIs
<1>2. PICK a \in Nat : a = At(p, l) /\ \A k \in Nat : k <= a <=> k * d <= p
    BY <1>1, Division DEF At
<1>3. a * d <= p
    BY <1>2
<1>4. a * d < m
    BY <1>3
<1>. QED
    BY <1>1, <1>2, <1>4, CountIs

(* A trie with room for its leaves has one root.                           *)
LEMMA TopIs ==
    ASSUME NEW m \in Nat, NEW level \in Nat, m <= Span[level], NEW p \in Nat, p < m
    PROVE  At(p, level) = 0
<1>1. /\ Count(m, level) \in Nat
      /\ 1 < Count(m, level) <=> 1 * Span[level] < m
    BY CountIs
<1>2. Span[level] \in Nat
    BY SpanIs
<1>3. At(p, level) < Count(m, level) /\ At(p, level) \in Nat
    BY Inside, AtIs
<1>. QED
    BY <1>1, <1>2, <1>3

(* A child that is there.                                                  *)
LEMMA ChildIs ==
    ASSUME NEW N, NEW level \in Nat, NEW s, NEW m \in Nat, Tree(N, level, s, m),
           NEW l \in 0..(level - 1), NEW k \in Nat, NEW j \in 0..(Width - 1)
    PROVE  /\ Len(N[l + 1][k]) \in 0..Width
           /\ j + 1 <= Len(N[l + 1][k]) <=> k * Width + j < Count(m, l)
           /\ k * Width + j < Count(m, l) => N[l + 1][k][j + 1] = N[l][k * Width + j]
<1>1. PICK i \in 1..level : i = l + 1 /\ i - 1 = l /\ i \in Nat \ {0}
    OBVIOUS
<1>2. Node(N, m, i, k)
    BY NodeIs
<1>3. PICK n \in 0..Width : /\ n = Kids(m, i, k)
                            /\ \A h \in 1..Width : h <= n <=> k * Width + h <= Count(m, i - 1)
    BY <1>1, KidsIs
<1>4. PICK w \in Nat : w = k * Width
    BY Places
<1>5. PICK c \in Nat : c = Count(m, l)
    BY CountIs
<1>6. j + 1 \in 1..Width /\ Width \in Nat
    BY VectorAssumption
<1>7. Len(N[i][k]) = n
    BY <1>2, <1>3 DEF Node
<1>8. j + 1 <= n <=> w + (j + 1) <= c
    BY <1>1, <1>3, <1>4, <1>5, <1>6
<1>9. w + (j + 1) <= c <=> w + j < c
    BY <1>6
<1>10. ASSUME w + j < c PROVE N[i][k][j + 1] = N[l][w + j]
    <2>1. j + 1 \in 1..n
        BY <1>6, <1>8, <1>9, <1>10
    <2>2. N[i][k][j + 1] = N[i - 1][k * Width + (j + 1) - 1]
        BY <1>2, <1>3, <2>1 DEF Node
    <2>3. k * Width + (j + 1) - 1 = w + j
        BY <1>4
    <2>. QED
        BY <1>1, <2>2, <2>3
<1>. QED
    BY <1>1, <1>4, <1>5, <1>7, <1>8, <1>9, <1>10

(* __getitem__ and _assoc_node walk down to the leaf of the index.         *)
OnWay(f, N, level, p) == \A l \in 0..level : f[l] = N[l][At(p, l)]

(* __getitem__ and _assoc_node meet the nodes above leaf p on their way.   *)
LEMMA WalkIs ==
    ASSUME NEW N, NEW level \in Nat, NEW s, NEW m \in Nat, Tree(N, level, s, m),
           m <= Span[level], NEW i \in Nat, i \div Width < m
    PROVE  OnWay(Walk(level, N[level][0], i), N, level, i \div Width)
<1>. DEFINE root == N[level][0]
            f == CHOOSE g : g = [l \in 0..level |->
                    IF l = level THEN root ELSE g[l + 1][Slot(i, l + 1) + 1]]
<1>1. PICK p \in Nat : p = i \div Width /\ p < m
    BY LeafOf
<1>. DEFINE F == [l \in 0..level |-> N[l][At(p, l)]]
<1>2. F[level] = root
    BY <1>1, TopIs
<1>3. ASSUME NEW l \in 0..level, l # level
      PROVE  F[l] = F[l + 1][Slot(i, l + 1) + 1]
    <2>1. l \in 0..(level - 1) /\ l \in Nat /\ l + 1 \in 0..level
        BY <1>3
    <2>2. PICK k \in Nat : k = At(p, l + 1)
        BY <2>1, AtIs
    <2>3. PICK j \in 0..(Width - 1) : j = Slot(p, l)
        BY <2>1, AtIs
    <2>4. At(p, l) = k * Width + j
        BY <2>1, <2>2, <2>3, AtIs
    <2>5. At(p, l) < Count(m, l)
        BY <1>1, <2>1, Inside
    <2>6. N[l + 1][k][j + 1] = N[l][k * Width + j]
        BY <2>1, <2>4, <2>5, ChildIs
    <2>7. Slot(i, l + 1) = j
        BY <1>1, <2>1, <2>3, LeafOf
    <2>. QED
        BY <2>1, <2>2, <2>4, <2>6, <2>7
<1>4. F = [l \in 0..level |-> IF l = level THEN root ELSE F[l + 1][Slot(i, l + 1) + 1]]
    <2>1. F = [l \in 0..level |-> F[l]]
        OBVIOUS
    <2>. HIDE DEF F, root
    <2>. QED
        BY <1>2, <1>3, <2>1
<1>5. f = [l \in 0..level |-> IF l = level THEN root ELSE f[l + 1][Slot(i, l + 1) + 1]]
    <2>. HIDE DEF F
    <2>. QED
        BY <1>4
<1>6. Walk(level, root, i) = f
    BY DEF Walk
<1>. HIDE DEF f, root
<1>. DEFINE H == {l \in 0..level : f[l] = F[l]}
<1>7. level \in H
    BY <1>2, <1>5
<1>8. ASSUME NEW l \in 0..level, l \in H, l > 0 PROVE l - 1 \in H
    <2>1. l - 1 \in 0..level /\ l - 1 # level /\ (l - 1) + 1 = l
        BY <1>8
    <2>. HIDE DEF F
    <2>2. f[l - 1] = f[l][Slot(i, l) + 1] /\ F[l - 1] = F[l][Slot(i, l) + 1]
        BY <1>3, <1>5, <2>1
    <2>. QED
        BY <1>8, <2>1, <2>2
<1>. HIDE DEF H
<1>9. 0..level \subseteq H
    BY ONLY level \in Nat, <1>7, <1>8, Downward
<1>10. \A l \in 0..level : f[l] = F[l]
    BY <1>9 DEF H
<1>11. OnWay(f, N, level, p)
    BY <1>10 DEF OnWay
<1>. QED
    BY <1>1, <1>6, <1>11 DEF root

(* Two sequences that agree outside leaf p, which is one of the m leaves   *)
(* of both or the leaf that is new.                                        *)
Differ(s, m, t, n, p) ==
    /\ (n = m /\ p < m) \/ (n = m + 1 /\ p = m)
    /\ \A k \in Nat : k < m /\ k # p =>
          \A j \in 1..Width : s[k * Width + j] = t[k * Width + j]

(* Their tries have the same nodes beside the way down to leaf p.          *)
Beside(N, M, m, p, l) ==
    \A k \in Nat : k < Count(m, l) /\ k # At(p, l) => N[l][k] = M[l][k]

(* A node that is not above leaf p has the same children in both tries.    *)
LEMMA KidsBeside ==
    ASSUME NEW m \in Nat, NEW n, NEW p \in Nat, NEW l \in Nat, NEW k \in Nat,
           (n = m /\ p < m) \/ (n = m + 1 /\ p = m),
           k < Count(m, l + 1), k # At(p, l + 1)
    PROVE  Kids(n, l + 1, k) = Kids(m, l + 1, k)
<1>1. CASE n = m
    BY <1>1
<1>2. CASE n = m + 1 /\ p = m
    <2>1. PICK a \in Nat : a = At(m, l + 1)
        BY AtIs
    <2>2. PICK c \in Nat : c = Count(m, l)
        BY CountIs
    <2>3. PICK e \in Nat : e = Count(n, l)
        BY <1>2, CountIs
    <2>4. k < a
        <3>1. Count(m, l + 1) = a \/ Count(m, l + 1) = a + 1
            BY <2>1, CountLast
        <3>. QED
            BY <1>2, <2>1, <3>1
    <2>5. (k + 1) * Width <= a * Width
        BY <2>4, VectorAssumption
    <2>6. a * Width <= At(m, l) /\ At(m, l) \in Nat
        <3>1. PICK r \in 0..(Width - 1) : r = Slot(m, l)
            BY AtIs
        <3>2. At(m, l) = a * Width + r /\ At(m, l) \in Nat
            BY <2>1, <3>1, AtIs
        <3>. QED
            BY <3>2, Places
    <2>7. At(m, l) <= c /\ At(m, l) <= e
        BY <1>2, <2>2, <2>3, <2>6, CountLast
    <2>8. (k + 1) * Width \in Nat /\ a * Width \in Nat
        BY VectorAssumption
    <2>9. (k + 1) * Width <= c /\ (k + 1) * Width <= e
        BY <2>5, <2>6, <2>7, <2>8
    <2>10. (l + 1) - 1 = l
        OBVIOUS
    <2>. QED
        BY <2>2, <2>3, <2>9, <2>10 DEF Kids
<1>. QED
    BY <1>1, <1>2

(* Two tries that differ in leaf p only have all other nodes in common:    *)
(* this is why versions can share them.                                    *)
LEMMA BesideIs ==
    ASSUME NEW N, NEW M, NEW level \in Nat, NEW s, NEW t, NEW m \in Nat, NEW n \in Nat,
           NEW p \in Nat, Tree(N, level, s, m), Tree(M, level, t, n),
           Differ(s, m, t, n, p)
    PROVE  \A l \in 0..level : Beside(N, M, m, p, l)
<1>. DEFINE H == {l \in 0..level : Beside(N, M, m, p, l)}
<1>1. 0 \in H
    <2>1. Count(m, 0) = m /\ At(p, 0) = p
        BY CountAbove, AtIs
    <2>2. ASSUME NEW k \in Nat, k < m, k # p PROVE N[0][k] = M[0][k]
        <3>1. \A j \in 1..Width : s[k * Width + j] = t[k * Width + j]
            BY <2>2 DEF Differ
        <3>2. /\ N[0][k] = [j \in 1..Width |-> s[k * Width + j]]
              /\ M[0][k] = [j \in 1..Width |-> t[k * Width + j]]
            BY <2>2 DEF Tree, Differ
        <3>. QED
            BY <3>1, <3>2
    <2>3. Beside(N, M, m, p, 0)
        BY <2>1, <2>2 DEF Beside
    <2>. QED
        BY <2>3
<1>2. ASSUME NEW l \in 0..level, l \in H, l < level PROVE l + 1 \in H
    <2>0. l + 1 \in 0..level /\ l \in Nat /\ l + 1 \in 1..level /\ (l + 1) - 1 = l
        BY <1>2
    <2>1. ASSUME NEW k \in Nat, k < Count(m, l + 1), k # At(p, l + 1)
          PROVE  N[l + 1][k] = M[l + 1][k]
        <3>0. PICK i \in Nat \ {0} : i = l + 1 /\ i - 1 = l
            BY <2>0
        <3>1. PICK c \in 0..Width :
                 /\ c = Kids(m, l + 1, k)
                 /\ \A j \in 1..Width : j <= c <=> k * Width + j <= Count(m, l)
            BY <3>0, KidsIs
        <3>2. Kids(n, l + 1, k) = c
            BY <2>0, <2>1, <3>1, KidsBeside DEF Differ
        <3>3. /\ N[l + 1][k] = [j \in 1..c |-> N[l][k * Width + j - 1]]
              /\ M[l + 1][k] = [j \in 1..c |-> M[l][k * Width + j - 1]]
            BY <2>0, <3>1, <3>2 DEF Tree
        <3>4. ASSUME NEW j \in 1..c
              PROVE  N[l][k * Width + j - 1] = M[l][k * Width + j - 1]
            <4>1. PICK w \in Nat : w = k * Width
                BY Places
            <4>2. PICK h \in Nat : h = w + j - 1
                BY <4>1
            <4>3. h < Count(m, l)
                <5>1. k * Width + j <= Count(m, l)
                    BY <3>1, VectorAssumption
                <5>2. Count(m, l) \in Nat
                    BY <2>0, CountIs
                <5>. QED
                    BY <2>0, <4>1, <4>2, <5>1, <5>2
            <4>4. h # At(p, l)
                <5>1. PICK a \in Nat : a = At(p, l + 1)
                    BY <2>0, AtIs
                <5>2. PICK r \in 0..(Width - 1) : r = Slot(p, l)
                    BY <2>0, AtIs
                <5>3. At(p, l) = a * Width + r
                    BY <2>0, <5>1, <5>2, AtIs
                <5>4. j - 1 \in 0..(Width - 1) /\ h = k * Width + (j - 1)
                    BY <4>1, <4>2, VectorAssumption
                <5>5. h \div Width = k /\ (a * Width + r) \div Width = a
                    <6>1. Width \in Nat \ {0}
                        BY VectorAssumption
                    <6>2. h \div Width = k
                        BY ONLY <5>4, <6>1, h \in Nat, k \in Nat, Quotient
                    <6>3. a * Width + r \in Nat
                        BY <6>1
                    <6>4. (a * Width + r) \div Width = a
                        BY ONLY <6>1, <6>3, a \in Nat, r \in 0..(Width - 1), Quotient
                    <6>. QED
                        BY <6>2, <6>4
                <5>. QED
                    BY <2>1, <5>1, <5>3, <5>5
            <4>. QED
                BY <1>2, <4>1, <4>2, <4>3, <4>4 DEF Beside
        <3>. QED
            BY <3>3, <3>4
    <2>2. Beside(N, M, m, p, l + 1)
        BY <2>1 DEF Beside
    <2>. QED
        BY <2>0, <2>2
<1>. HIDE DEF H
<1>3. 0..level \subseteq H
    BY ONLY level \in Nat, <1>1, <1>2, Upward
<1>. QED
    BY <1>3 DEF H

-----------------------------------------------------------------------------
(* set() below the tail.                                                   *)

HasRoot(M, level, root) == root = M[level][0]

Otherwise(N, M, level, s, t, m, i, x) ==
    /\ Tree(N, level, s, m) /\ Tree(M, level, t, m) /\ m <= Span[level]
    /\ i \div Width < m /\ t[i + 1] = x
    /\ \A j \in 1..(m * Width) : j # i + 1 => t[j] = s[j]

(* _assoc_node gives the trie of the sequence with one element replaced.   *)
LEMMA AssocNodeIs ==
    ASSUME NEW N, NEW M, NEW level \in Nat, NEW s, NEW t, NEW m \in Nat,
           NEW i \in Nat, NEW x, Otherwise(N, M, level, s, t, m, i, x)
    PROVE  HasRoot(M, level, AssocNode(level, N[level][0], i, x))
<1>. /\ Tree(N, level, s, m) /\ Tree(M, level, t, m) /\ m <= Span[level]
     /\ i \div Width < m /\ t[i + 1] = x
     /\ \A j \in 1..(m * Width) : j # i + 1 => t[j] = s[j]
    BY DEF Otherwise
<1>. DEFINE root == N[level][0]
            old == Walk(level, root, i)
            f == CHOOSE g : g = [l \in 0..level |->
                    ReplaceAt(old[l], Slot(i, l) + 1, IF l = 0 THEN x ELSE g[l - 1])]
<1>1. PICK p \in Nat : p = i \div Width /\ p < m
    BY LeafOf
<1>. DEFINE F == [l \in 0..level |-> M[l][At(p, l)]]
<1>2. PICK r \in 0..(Width - 1) : r = Slot(i, 0) /\ i = p * Width + r
    BY <1>1, LeafOf
<1>3. \A l \in 0..level : old[l] = N[l][At(p, l)]
    BY <1>1, WalkIs DEF OnWay
<1>4. ASSUME NEW k \in Nat, k < m, NEW j \in 1..Width
      PROVE  t[k * Width + j] = IF k = p /\ j = r + 1 THEN x ELSE s[k * Width + j]
    <2>1. PICK w \in Nat : w = k * Width
        BY Places
    <2>2. w + j \in 1..(m * Width)
        <3>1. w + Width <= m * Width /\ m * Width \in Nat /\ Width \in Nat
            BY <1>4, <2>1, VectorAssumption
        <3>. QED
            BY <3>1
    <2>3. CASE k = p
        BY <1>2, <2>1, <2>2, <2>3
    <2>4. CASE k # p
        <3>1. w + j # i + 1
            <4>1. j - 1 \in 0..(Width - 1) /\ Width \in Nat \ {0} /\ w + (j - 1) \in Nat
                BY <2>1, VectorAssumption
            <4>2. PICK h \in Nat : h = k * Width + (j - 1)
                BY <2>1, <4>1
            <4>3. h \div Width = k
                BY ONLY <4>1, <4>2, h \in Nat, k \in Nat, Quotient
            <4>. QED
                BY <1>1, <2>1, <2>4, <4>2, <4>3
        <3>. QED
            BY <2>1, <2>2, <2>4, <3>1
    <2>. QED
        BY <2>3, <2>4
<1>5. \A l \in 0..level : Beside(N, M, m, p, l)
    <2>1. Differ(s, m, t, m, p)
        <3>1. ASSUME NEW k \in Nat, k < m, k # p, NEW j \in 1..Width
              PROVE  s[k * Width + j] = t[k * Width + j]
            BY <1>4, <3>1
        <3>2. \A k \in Nat : k < m /\ k # p =>
                 \A j \in 1..Width : s[k * Width + j] = t[k * Width + j]
            BY <3>1
        <3>3. m = m /\ p < m
            BY <1>1
        <3>. QED
            BY ONLY <3>2, <3>3, Zenon DEF Differ
    <2>. QED
        BY <2>1, BesideIs
<1>6. F[0] = ReplaceAt(old[0], Slot(i, 0) + 1, x)
    <2>1. /\ N[0][p] = [j \in 1..Width |-> s[p * Width + j]]
          /\ M[0][p] = [j \in 1..Width |-> t[p * Width + j]]
        BY <1>1 DEF Tree
    <2>2. \A j \in 1..Width : t[p * Width + j] = IF j = r + 1 THEN x ELSE s[p * Width + j]
        BY <1>1, <1>4
    <2>3. M[0][p] = ReplaceAt(N[0][p], r + 1, x)
        <3>1. Replaced(N[0][p], M[0][p], Width, r + 1, x)
            BY <2>1, <2>2 DEF Replaced
        <3>2. Width \in Nat
            BY VectorAssumption
        <3>. QED
            BY ONLY <3>1, <3>2, ReplaceIs
    <2>4. At(p, 0) = p
        BY AtIs
    <2>5. F[0] = M[0][p] /\ old[0] = N[0][p]
        BY <1>3, <2>4
    <2>. QED
        BY <1>2, <2>3, <2>5
<1>7. ASSUME NEW l \in 0..level, l # 0
      PROVE  F[l] = ReplaceAt(old[l], Slot(i, l) + 1, F[l - 1])
    <2>0. PICK e \in Nat : e = l - 1 /\ l = e + 1 /\ e \in 0..level /\ e \in 0..(level - 1)
        BY <1>7
    <2>1. PICK k \in Nat : k = At(p, l)
        BY <2>0, AtIs
    <2>2. PICK h \in 0..(Width - 1) : h = Slot(p, e)
        BY <2>0, AtIs
    <2>3. At(p, e) = k * Width + h
        BY <2>0, <2>1, <2>2, AtIs
    <2>4. PICK c \in 0..Width : c = Kids(m, l, k)
        <3>1. l \in Nat \ {0}
            BY <2>0
        <3>. QED
            BY <3>1, KidsIs
    <2>5. /\ N[l][k] = [j \in 1..c |-> N[e][k * Width + j - 1]]
          /\ M[l][k] = [j \in 1..c |-> M[e][k * Width + j - 1]]
        <3>1. l \in 1..level
            BY <2>0
        <3>. QED
            BY <2>0, <2>4, <3>1 DEF Tree
    <2>6. \A j \in 1..Width : j <= c <=> k * Width + j <= Count(m, e)
        <3>1. l \in Nat \ {0}
            BY <2>0
        <3>2. \A j \in 1..Width : j <= Kids(m, l, k) <=> k * Width + j <= Count(m, l - 1)
            BY <3>1, KidsIs
        <3>. QED
            BY <2>0, <2>4, <3>2
    <2>7. PICK w \in Nat : w = k * Width
        BY Places
    <2>8. ASSUME NEW j \in 1..c
          PROVE  M[e][w + j - 1] = IF j = h + 1 THEN M[e][At(p, e)] ELSE N[e][w + j - 1]
        <3>1. CASE j = h + 1
            BY <2>3, <2>7, <3>1
        <3>2. CASE j # h + 1
            <4>1. PICK b \in Nat : b = w + j - 1
                OBVIOUS
            <4>2. b < Count(m, e)
                <5>1. j \in 1..Width
                    BY VectorAssumption
                <5>2. w + j <= Count(m, e) /\ Count(m, e) \in Nat
                    BY <2>6, <2>7, <5>1, CountIs
                <5>. QED
                    BY <4>1, <5>2
            <4>3. b # At(p, e)
                BY <2>3, <2>7, <3>2, <4>1
            <4>. QED
                BY <1>5, <2>0, <3>2, <4>1, <4>2, <4>3 DEF Beside
        <3>. QED
            BY <3>1, <3>2
    <2>9. M[l][k] = ReplaceAt(N[l][k], h + 1, M[e][At(p, e)])
        <3>1. Replaced(N[l][k], M[l][k], c, h + 1, M[e][At(p, e)])
            BY <2>5, <2>7, <2>8 DEF Replaced
        <3>2. c \in Nat
            BY VectorAssumption
        <3>. QED
            BY ONLY <3>1, <3>2, ReplaceIs
    <2>10. Slot(i, l) = h
        BY <1>1, <2>0, <2>2, LeafOf
    <2>11. F[l] = M[l][k] /\ F[l - 1] = M[e][At(p, e)] /\ old[l] = N[l][k]
        BY <1>3, <2>0, <2>1
    <2>. QED
        BY <2>9, <2>10, <2>11
<1>. HIDE DEF old
<1>8. F = [l \in 0..level |->
             ReplaceAt(old[l], Slot(i, l) + 1, IF l = 0 THEN x ELSE F[l - 1])]
    <2>1. F = [l \in 0..level |-> F[l]]
        OBVIOUS
    <2>. HIDE DEF F
    <2>. QED
        BY <1>6, <1>7, <2>1
<1>9. f = [l \in 0..level |->
             ReplaceAt(old[l], Slot(i, l) + 1, IF l = 0 THEN x ELSE f[l - 1])]
    <2>. HIDE DEF F
    <2>. QED
        BY <1>8
<1>10. AssocNode(level, root, i, x) = f[level]
    BY DEF AssocNode, old
<1>11. F[level] = M[level][0]
    BY <1>1, TopIs
<1>. HIDE DEF f, F, root
<1>. DEFINE H == {l \in 0..level : f[l] = F[l]}
<1>12. 0 \in H
    BY <1>6, <1>9
<1>13. ASSUME NEW l \in 0..level, l \in H, l < level PROVE l + 1 \in H
    <2>1. l + 1 \in 0..level /\ l + 1 # 0 /\ (l + 1) - 1 = l
        BY <1>13
    <2>2. /\ f[l + 1] = ReplaceAt(old[l + 1], Slot(i, l + 1) + 1, f[l])
          /\ F[l + 1] = ReplaceAt(old[l + 1], Slot(i, l + 1) + 1, F[l])
        BY <1>7, <1>9, <2>1
    <2>. QED
        BY <1>13, <2>1, <2>2
<1>. HIDE DEF H
<1>14. 0..level \subseteq H
    BY ONLY level \in Nat, <1>12, <1>13, Upward
<1>15. f[level] = F[level]
    BY <1>14 DEF H
<1>. QED
    BY <1>10, <1>11, <1>15 DEF root, HasRoot

-----------------------------------------------------------------------------
(* append() with a full tail.                                              *)

(* The tuple g is f and one more, x.                                       *)
Longer(f, g, n, x) ==
    /\ f = [j \in 1..n |-> f[j]] /\ g = [j \in 1..(n + 1) |-> g[j]]
    /\ \A j \in 1..n : g[j] = f[j]
    /\ g[n + 1] = x

LEMMA AppendIs ==
    ASSUME NEW n \in Nat, NEW f, NEW g, NEW x, Longer(f, g, n, x)
    PROVE  g = Append(f, x)
<1>. DEFINE S == {f[j] : j \in 1..n} \cup {x}
<1>1. f \in [1..n -> S] /\ x \in S
    BY DEF Longer
<1>2. g \in [1..(n + 1) -> S]
    <2>1. \A j \in 1..(n + 1) : g[j] \in S
        <3>1. \A j \in 1..(n + 1) : j \in 1..n \/ j = n + 1
            OBVIOUS
        <3>. QED
            BY <3>1 DEF Longer
    <2>. HIDE DEF S
    <2>. QED
        BY <2>1 DEF Longer
<1>. HIDE DEF S
<1>3. f \in Seq(S) /\ Len(f) = n
    BY ONLY <1>1, n \in Nat, TupleIs
<1>4. n + 1 \in Nat
    OBVIOUS
<1>5. g \in Seq(S) /\ Len(g) = n + 1
    BY ONLY <1>2, <1>4, TupleIs
<1>6. /\ Append(f, x) \in Seq(S) /\ Len(Append(f, x)) = Len(f) + 1
      /\ \A j \in 1..Len(f) : Append(f, x)[j] = f[j]
      /\ Append(f, x)[Len(f) + 1] = x
    BY <1>1, <1>3, AppendProperties
<1>7. \A j \in 1..(n + 1) : g[j] = Append(f, x)[j]
    <2>1. \A j \in 1..(n + 1) : j \in 1..n \/ j = n + 1
        OBVIOUS
    <2>. QED
        BY <1>3, <1>6, <2>1 DEF Longer
<1>8. Len(g) = Len(Append(f, x))
    BY <1>3, <1>5, <1>6
<1>9. g = Append(f, x)
    BY ONLY <1>5, <1>6, <1>7, <1>8, SameTuple
<1>. QED
    BY <1>9

(* The nodes of the new leaf, from the level on where there is one to add  *)
(* it to: below, each is the first child of the next.                      *)
LEMMA Fresh ==
    ASSUME NEW m \in Nat, NEW l \in Nat, Count(m, l + 1) <= At(m, l + 1)
    PROVE  Count(m, l) <= At(m, l) /\ At(m, l) = At(m, l + 1) * Width
<1>1. PICK a \in Nat : a = At(m, l + 1)
    BY AtIs
<1>2. PICK r \in 0..(Width - 1) : r = Slot(m, l) /\ At(m, l) = a * Width + r
    <2>1. Slot(m, l) \in 0..(Width - 1)
        BY AtIs
    <2>2. At(m, l) = At(m, l + 1) * Width + Slot(m, l)
        BY AtIs
    <2>. QED
        BY <1>1, <2>1, <2>2
<1>3. PICK c \in Nat : c = Count(m, l)
    BY CountIs
<1>4. l + 1 \in Nat
    OBVIOUS
<1>5. ~(a < Count(m, l + 1))
    BY <1>1, <1>4, CountIs
<1>6. ~(a * Width < c) /\ a * Width \in Nat
    BY <1>1, <1>3, <1>5, CountAbove, Places
<1>7. a * Width + r <= c
    <2>1. c = a * Width + r \/ c = a * Width + r + 1
        BY <1>2, <1>3, CountLast
    <2>. QED
        BY <1>6, <2>1
<1>. QED
    BY <1>1, <1>2, <1>3, <1>6, <1>7

(* What becomes of the slots of the node the new leaf is below.            *)
LEMMA KidsLast ==
    ASSUME NEW m \in Nat, NEW l \in Nat
    PROVE  /\ Kids(m + 1, l + 1, At(m, l + 1)) = Slot(m, l) + 1
           /\ Count(m, l) <= At(m, l) => Kids(m, l + 1, At(m, l + 1)) = Slot(m, l)
           /\ ~(Count(m, l) <= At(m, l)) => Kids(m, l + 1, At(m, l + 1)) = Slot(m, l) + 1
<1>1. PICK a \in Nat : a = At(m, l + 1)
    BY AtIs
<1>2. PICK r \in 0..(Width - 1) : r = Slot(m, l) /\ At(m, l) = a * Width + r
    <2>1. Slot(m, l) \in 0..(Width - 1)
        BY AtIs
    <2>2. At(m, l) = At(m, l + 1) * Width + Slot(m, l)
        BY AtIs
    <2>. QED
        BY <1>1, <2>1, <2>2
<1>3. PICK w \in Nat : w = a * Width /\ (a + 1) * Width = w + Width /\ Width \in Nat
    BY Places
<1>4. (l + 1) - 1 = l
    OBVIOUS
<1>5. Count(m + 1, l) = w + r + 1
    BY <1>2, <1>3, CountLast
<1>6. Count(m, l) = w + r \/ Count(m, l) = w + r + 1
    BY <1>2, <1>3, CountLast
<1>7. Kids(m + 1, l + 1, a) = r + 1
    BY <1>3, <1>4, <1>5 DEF Kids
<1>8. Count(m, l) = w + r => Kids(m, l + 1, a) = r
    BY <1>3, <1>4 DEF Kids
<1>9. Count(m, l) = w + r + 1 => Kids(m, l + 1, a) = r + 1
    BY <1>3, <1>4 DEF Kids
<1>. QED
    BY <1>1, <1>2, <1>3, <1>6, <1>7, <1>8, <1>9

(* _new_path gives the nodes above the new leaf where there were none.     *)
LEMMA NewPathIs ==
    ASSUME NEW M, NEW level \in Nat, NEW t, NEW m \in Nat, Tree(M, level, t, m + 1),
           NEW l \in 0..level, Count(m, l) <= At(m, l)
    PROVE  NewPath(l, M[0][m]) = M[l][At(m, l)]
<1>. DEFINE leaf == M[0][m]
            f == CHOOSE g : g = [j \in 0..l |-> IF j = 0 THEN leaf ELSE <<g[j - 1]>>]
            F == [j \in 0..l |-> M[j][At(m, j)]]
            D == {j \in 0..l : Count(m, j) <= At(m, j)}
<1>1. \A j \in 0..l : Count(m, j) <= At(m, j)
    <2>0. l \in Nat
        OBVIOUS
    <2>1. l \in D
        OBVIOUS
    <2>2. ASSUME NEW j \in 0..l, j \in D, j > 0 PROVE j - 1 \in D
        <3>1. PICK e \in Nat : e = j - 1 /\ j = e + 1
            BY <2>2
        <3>2. Count(m, e) <= At(m, e)
            BY <2>2, <3>1, Fresh
        <3>. QED
            BY <3>1, <3>2
    <2>. HIDE DEF D
    <2>3. 0..l \subseteq D
        BY ONLY <2>0, <2>1, <2>2, Downward
    <2>. QED
        BY <2>3 DEF D
<1>2. F[0] = leaf
    <2>1. At(m, 0) = m
        BY AtIs
    <2>. QED
        BY <2>1
<1>3. ASSUME NEW j \in 0..l, j # 0 PROVE F[j] = <<F[j - 1]>>
    <2>1. PICK e \in Nat : e = j - 1 /\ j = e + 1 /\ e \in 0..l /\ j \in 1..level
        BY <1>3
    <2>2. PICK a \in Nat : a = At(m, j)
        BY <2>1, AtIs
    <2>3. At(m, e) = a * Width
        BY <1>1, <1>3, <2>1, <2>2, Fresh
    <2>4. Kids(m + 1, j, a) = 1
        <3>1. Slot(m, e) = 0
            <4>1. PICK r \in 0..(Width - 1) : r = Slot(m, e)
                BY AtIs
            <4>2. At(m, e) = At(m, e + 1) * Width + r
                BY <4>1, AtIs
            <4>. QED
                BY <2>1, <2>2, <2>3, <4>1, <4>2, Places
        <3>2. Kids(m + 1, j, a) = Slot(m, e) + 1
            BY <2>1, <2>2, KidsLast
        <3>. QED
            BY <3>1, <3>2
    <2>5. M[j][a] = [i \in 1..1 |-> M[e][a * Width + i - 1]]
        <3>1. M[j][a] = [i \in 1..Kids(m + 1, j, a) |-> M[j - 1][a * Width + i - 1]]
            BY <2>1 DEF Tree
        <3>. QED
            BY <2>1, <2>4, <3>1
    <2>6. a * Width + 1 - 1 = a * Width
        BY Places
    <2>7. M[j][a] = <<M[e][a * Width]>>
        BY <2>5, <2>6
    <2>. QED
        BY <2>1, <2>2, <2>3, <2>7
<1>4. F = [j \in 0..l |-> IF j = 0 THEN leaf ELSE <<F[j - 1]>>]
    <2>1. F = [j \in 0..l |-> F[j]]
        OBVIOUS
    <2>. HIDE DEF F
    <2>. QED
        BY <1>2, <1>3, <2>1
<1>5. f = [j \in 0..l |-> IF j = 0 THEN leaf ELSE <<f[j - 1]>>]
    <2>. HIDE DEF F
    <2>. QED
        BY <1>4
<1>6. NewPath(l, leaf) = f[l]
    BY DEF NewPath
<1>7. F[l] = M[l][At(m, l)]
    OBVIOUS
<1>. HIDE DEF f, F, leaf
<1>. DEFINE H == {j \in 0..l : f[j] = F[j]}
<1>8. 0 \in H
    BY <1>2, <1>5
<1>9. ASSUME NEW j \in 0..l, j \in H, j < l PROVE j + 1 \in H
    <2>1. j + 1 \in 0..l /\ j + 1 # 0 /\ (j + 1) - 1 = j
        BY <1>9
    <2>2. f[j + 1] = <<f[j]>> /\ F[j + 1] = <<F[j]>>
        BY <1>3, <1>5, <2>1
    <2>. QED
        BY <1>9, <2>1, <2>2
<1>. HIDE DEF H
<1>10. 0..l \subseteq H
    <2>1. l \in Nat
        OBVIOUS
    <2>. QED
        BY ONLY <2>1, <1>8, <1>9, Upward
<1>11. f[l] = F[l]
    BY <1>10 DEF H
<1>. QED
    BY <1>6, <1>7, <1>11 DEF leaf

(* _push_tail: the trie has room for one leaf more.                        *)
Wider(N, M, level, s, t, m) ==
    /\ Tree(N, level, s, m) /\ Tree(M, level, t, m + 1) /\ m + 1 <= Span[level]
    /\ Differ(s, m, t, m + 1, m)

(* _push_tail gives the trie of one leaf more, at the place where it       *)
(* belongs, as long as there is room.                                      *)
LEMMA PushTailIs ==
    ASSUME NEW N, NEW M, NEW level \in Nat \ {0}, NEW s, NEW t, NEW m \in Nat,
           Wider(N, M, level, s, t, m)
    PROVE  HasRoot(M, level, PushTail((m + 1) * Width, level, N[level][0], M[0][m]))
<1>. /\ Tree(N, level, s, m) /\ Tree(M, level, t, m + 1) /\ m + 1 <= Span[level]
     /\ Differ(s, m, t, m + 1, m)
    BY DEF Wider
<1>. DEFINE root == N[level][0]
            leaf == M[0][m]
            count == (m + 1) * Width
            i(l) == Slot(count - 1, l) + 1
            old == CHOOSE g : g = [l \in 1..level |->
                      IF l = level THEN root
                      ELSE IF i(l + 1) > Len(g[l + 1]) THEN <<>> ELSE g[l + 1][i(l + 1)]]
            new == CHOOSE g : g = [l \in 0..level |->
                      IF l = 0 THEN leaf
                      ELSE IF i(l) > Len(old[l]) THEN Append(old[l], NewPath(l - 1, leaf))
                      ELSE ReplaceAt(old[l], i(l), g[l - 1])]
            F == [l \in 1..level |-> N[l][At(m, l)]]
            G == [l \in 0..level |-> M[l][At(m, l)]]
<1>0. /\ level \in Nat /\ m + 1 \in Nat /\ m < m + 1
      /\ \A l \in 0..level : Beside(N, M, m, m, l)
    <2>1. level \in Nat /\ m + 1 \in Nat
        OBVIOUS
    <2>2. \A l \in 0..level : Beside(N, M, m, m, l)
        BY ONLY <2>1, m \in Nat, Tree(N, level, s, m), Tree(M, level, t, m + 1),
           Differ(s, m, t, m + 1, m), BesideIs
    <2>. QED
        BY <2>2
<1>1. ASSUME NEW l \in Nat PROVE i(l + 1) = Slot(m, l) + 1
    <2>1. PICK w \in Nat : w = m * Width /\ count = w + Width /\ Width \in Nat \ {0}
        BY Places
    <2>2. PICK j \in Nat : j = count - 1 /\ j = m * Width + (Width - 1)
        BY <2>1
    <2>3. Width - 1 \in 0..(Width - 1)
        BY <2>1
    <2>4. j \div Width = m
        BY ONLY <2>1, <2>2, <2>3, m \in Nat, j \in Nat, Quotient
    <2>5. Slot(j, l + 1) = Slot(m, l)
        BY <2>4, LeafOf
    <2>. QED
        BY <2>2, <2>5
<1>2. At(m, level) = 0
    BY <1>0, TopIs
<1>3. ASSUME NEW l \in 1..level
      PROVE  /\ Node(N, m, l, At(m, l)) /\ At(m, l) \in Nat
             /\ i(l) = Slot(m, l - 1) + 1
             /\ Slot(m, l - 1) \in 0..(Width - 1)
             /\ Len(N[l][At(m, l)]) = Kids(m, l, At(m, l))
    <2>0. l \in Nat
        OBVIOUS
    <2>1. PICK e \in Nat : e = l - 1 /\ l = e + 1
        OBVIOUS
    <2>2. At(m, l) \in Nat
        BY ONLY <2>0, m \in Nat, AtIs
    <2>3. Node(N, m, l, At(m, l))
        BY <1>0, <2>2, NodeIs
    <2>4. Slot(m, e) \in 0..(Width - 1)
        BY AtIs
    <2>. QED
        BY <1>1, <2>1, <2>2, <2>3, <2>4 DEF Node
<1>4. F[level] = root
    BY <1>2
<1>5. ASSUME NEW l \in 1..level, l # level
      PROVE  F[l] = IF i(l + 1) > Len(F[l + 1]) THEN <<>> ELSE F[l + 1][i(l + 1)]
    <2>1. l \in Nat /\ l \in 0..(level - 1) /\ l + 1 \in 1..level
        BY <1>5
    <2>2. PICK k \in Nat : k = At(m, l + 1)
        BY <2>1, AtIs
    <2>3. PICK r \in 0..(Width - 1) : r = Slot(m, l)
        BY <2>1, AtIs
    <2>4. At(m, l) = k * Width + r
        BY <2>1, <2>2, <2>3, AtIs
    <2>5. PICK n \in 0..Width : n = Len(N[l + 1][k])
        BY <1>0, <2>1, <2>2, <2>3, ChildIs
    <2>. r \in Nat /\ n \in Nat
        BY VectorAssumption
    <2>6. /\ r + 1 <= n <=> At(m, l) < Count(m, l)
          /\ At(m, l) < Count(m, l) => N[l + 1][k][r + 1] = N[l][At(m, l)]
        <3>1. /\ r + 1 <= Len(N[l + 1][k]) <=> k * Width + r < Count(m, l)
              /\ k * Width + r < Count(m, l) => N[l + 1][k][r + 1] = N[l][k * Width + r]
            BY <1>0, <2>1, ChildIs
        <3>. QED
            BY <2>4, <2>5, <3>1
    <2>7. i(l + 1) = r + 1
        BY <1>1, <2>1, <2>3
    <2>8. F[l] = N[l][At(m, l)] /\ F[l + 1] = N[l + 1][k]
        BY <2>1, <2>2
    <2>9. CASE r + 1 <= n
        <3>. HIDE DEF F, i
        <3>1. ~(i(l + 1) > Len(F[l + 1]))
            BY ONLY <2>5, <2>7, <2>8, <2>9, r \in Nat, n \in Nat
        <3>. QED
            BY <2>6, <2>7, <2>8, <2>9, <3>1
    <2>10. CASE ~(r + 1 <= n)
        <3>. HIDE DEF F, i
        <3>1. i(l + 1) > Len(F[l + 1])
            BY ONLY <2>5, <2>7, <2>8, <2>10, r \in Nat, n \in Nat
        <3>2. ~(At(m, l) < Count(m, l))
            BY <2>6, <2>10
        <3>3. Kids(m, l, At(m, l)) = 0
            <4>1. PICK e \in Nat : e = l - 1 /\ l = e + 1
                BY <2>1
            <4>2. PICK a \in Nat : a = At(m, l)
                BY <2>1, AtIs
            <4>3. ~(a * Width < Count(m, e))
                BY <3>2, <4>1, <4>2, CountAbove
            <4>4. PICK c \in Nat : c = Count(m, e)
                BY CountIs
            <4>5. PICK w \in Nat : w = a * Width /\ (a + 1) * Width = w + Width /\ Width \in Nat \ {0}
                BY Places
            <4>. QED
                BY <4>1, <4>2, <4>3, <4>4, <4>5 DEF Kids
        <3>4. N[l][At(m, l)] = <<>>
            <4>1. N[l][At(m, l)] = [j \in 1..0 |-> N[l - 1][At(m, l) * Width + j - 1]]
                <5>1. PICK h \in Nat : h = At(m, l)
                    BY <2>1, AtIs
                <5>2. N[l][h] = [j \in 1..Kids(m, l, h) |-> N[l - 1][h * Width + j - 1]]
                    BY <1>5 DEF Tree
                <5>. QED
                    BY <3>3, <5>1, <5>2
            <4>. QED
                BY <4>1
        <3>. HIDE DEF F, i
        <3>. QED
            BY <2>8, <3>1, <3>4
    <2>. QED
        BY <2>9, <2>10
<1>6. F = [l \in 1..level |->
             IF l = level THEN root
             ELSE IF i(l + 1) > Len(F[l + 1]) THEN <<>> ELSE F[l + 1][i(l + 1)]]
    <2>1. F = [l \in 1..level |-> F[l]]
        OBVIOUS
    <2>. HIDE DEF F, i, root
    <2>. QED
        BY <1>4, <1>5, <2>1
<1>7. old = [l \in 1..level |->
             IF l = level THEN root
             ELSE IF i(l + 1) > Len(old[l + 1]) THEN <<>> ELSE old[l + 1][i(l + 1)]]
    <2>. HIDE DEF F, i, root
    <2>. QED
        BY <1>6
<1>8. \A l \in 1..level : old[l] = F[l]
    <2>. HIDE DEF old, F, i
    <2>. DEFINE H == {j \in 0..(level - 1) : old[j + 1] = F[j + 1]}
    <2>0. level - 1 \in Nat
        OBVIOUS
    <2>1. level - 1 \in H
        BY <1>4, <1>7
    <2>2. ASSUME NEW j \in 0..(level - 1), j \in H, j > 0 PROVE j - 1 \in H
        <3>1. j - 1 \in 0..(level - 1) /\ j \in 1..level /\ j # level /\ (j - 1) + 1 = j
            BY <2>2
        <3>2. /\ old[j] = IF i(j + 1) > Len(old[j + 1]) THEN <<>> ELSE old[j + 1][i(j + 1)]
              /\ F[j] = IF i(j + 1) > Len(F[j + 1]) THEN <<>> ELSE F[j + 1][i(j + 1)]
            BY <1>5, <1>7, <3>1
        <3>3. old[j + 1] = F[j + 1]
            BY <2>2
        <3>4. old[j] = F[j]
            BY <3>2, <3>3
        <3>. QED
            BY <3>1, <3>4
    <2>. HIDE DEF H
    <2>3. 0..(level - 1) \subseteq H
        BY ONLY <2>0, <2>1, <2>2, Downward
    <2>4. \A j \in 0..(level - 1) : old[j + 1] = F[j + 1]
        BY <2>3 DEF H
    <2>5. \A l \in 1..level : l - 1 \in 0..(level - 1) /\ (l - 1) + 1 = l
        OBVIOUS
    <2>. QED
        BY <2>4, <2>5
<1>9. G[0] = leaf
    <2>1. At(m, 0) = m
        BY AtIs
    <2>. QED
        BY <2>1
<1>10. ASSUME NEW l \in 0..level, l # 0
       PROVE  G[l] = IF i(l) > Len(old[l]) THEN Append(old[l], NewPath(l - 1, leaf))
                     ELSE ReplaceAt(old[l], i(l), G[l - 1])
    <2>1. PICK e \in Nat : e = l - 1 /\ l = e + 1 /\ e \in 0..level /\ l \in 1..level
        BY <1>10
    <2>2. PICK a \in Nat : a = At(m, l)
        BY <1>3, <2>1
    <2>3. PICK r \in 0..(Width - 1) : r = Slot(m, e)
        BY <2>1, AtIs
    <2>4. PICK w \in Nat : w = a * Width /\ Width \in Nat
        BY Places
    <2>5. At(m, e) = w + r
        <3>1. At(m, e) = At(m, e + 1) * Width + Slot(m, e)
            BY AtIs
        <3>. QED
            BY <2>1, <2>2, <2>3, <2>4, <3>1
    <2>6. PICK x : x = M[e][At(m, e)]
        OBVIOUS
    <2>7. PICK u : u = N[l][a]
        OBVIOUS
    <2>8. PICK v : v = M[l][a]
        OBVIOUS
    <2>9. /\ G[l] = v /\ G[l - 1] = x /\ old[l] = u /\ i(l) = r + 1
        BY <1>3, <1>8, <2>1, <2>2, <2>3, <2>6, <2>7, <2>8
    <2>10. v = [j \in 1..(r + 1) |-> M[e][w + j - 1]]
        <3>1. Kids(m + 1, l, a) = r + 1
            BY <2>1, <2>2, <2>3, KidsLast
        <3>2. M[l][a] = [j \in 1..Kids(m + 1, l, a) |-> M[l - 1][a * Width + j - 1]]
            BY <2>1 DEF Tree
        <3>. QED
            BY <2>1, <2>4, <2>8, <3>1, <3>2
    <2>11. PICK n \in 0..Width : n = Kids(m, l, a)
        <3>1. l \in Nat \ {0}
            BY <2>1
        <3>. QED
            BY <3>1, KidsIs
    <2>12. u = [j \in 1..n |-> N[e][w + j - 1]] /\ Len(u) = n
        <3>1. N[l][a] = [j \in 1..Kids(m, l, a) |-> N[l - 1][a * Width + j - 1]]
            BY <2>1 DEF Tree
        <3>. QED
            BY <1>3, <2>1, <2>2, <2>4, <2>7, <2>11, <3>1
    <2>13. ASSUME NEW j \in 1..r PROVE M[e][w + j - 1] = N[e][w + j - 1]
        <3>1. PICK k \in Nat : k = w + j - 1
            OBVIOUS
        <3>2. k < At(m, e) /\ At(m, e) \in Nat
            BY <2>5, <3>1
        <3>3. At(m, e) <= Count(m, e) /\ Count(m, e) \in Nat
            <4>1. Count(m, e) \in Nat
                BY CountIs
            <4>2. Count(m, e) = At(m, e) \/ Count(m, e) = At(m, e) + 1
                BY CountLast
            <4>. QED
                BY <3>2, <4>1, <4>2
        <3>4. k < Count(m, e) /\ k # At(m, e)
            BY <3>2, <3>3
        <3>5. Beside(N, M, m, m, e)
            BY <1>0, <2>1
        <3>. QED
            BY <3>1, <3>4, <3>5 DEF Beside
    <2>14. v[r + 1] = x
        <3>1. r + 1 \in 1..(r + 1) /\ w + (r + 1) - 1 = w + r
            BY <2>4
        <3>. QED
            BY <2>5, <2>6, <2>10, <3>1
    <2>15. CASE Count(m, e) <= At(m, e)
        <3>1. n = r
            BY <2>1, <2>2, <2>3, <2>11, <2>15, KidsLast
        <3>2. Longer(u, v, r, x)
            <4>1. \A j \in 1..r : v[j] = u[j]
                BY <2>10, <2>12, <2>13, <3>1
            <4>2. u = [j \in 1..r |-> u[j]] /\ v = [j \in 1..(r + 1) |-> v[j]]
                BY <2>10, <2>12, <3>1
            <4>. QED
                BY <2>14, <4>1, <4>2 DEF Longer
        <3>3. r \in Nat
            BY <2>4
        <3>4. v = Append(u, x)
            BY ONLY <3>2, <3>3, AppendIs
        <3>5. NewPath(l - 1, leaf) = x
            BY <1>0, <2>1, <2>6, <2>15, NewPathIs
        <3>6. i(l) > Len(old[l])
            <4>. HIDE DEF i, old
            <4>. QED
                BY <2>4, <2>9, <2>12, <3>1
        <3>. HIDE DEF i, old, G, leaf
        <3>. QED
            BY <2>9, <3>4, <3>5, <3>6
    <2>16. CASE ~(Count(m, e) <= At(m, e))
        <3>1. n = r + 1
            BY <2>1, <2>2, <2>3, <2>11, <2>16, KidsLast
        <3>2. Replaced(u, v, r + 1, r + 1, x)
            <4>1. \A j \in 1..r : v[j] = u[j]
                BY <2>10, <2>12, <2>13, <3>1
            <4>2. u = [j \in 1..(r + 1) |-> u[j]] /\ v = [j \in 1..(r + 1) |-> v[j]]
                BY <2>10, <2>12, <3>1
            <4>3. \A j \in 1..(r + 1) : v[j] = IF j = r + 1 THEN x ELSE u[j]
                <5>1. \A j \in 1..(r + 1) : j \in 1..r \/ j = r + 1
                    BY <2>4
                <5>. QED
                    BY <2>14, <4>1, <5>1
            <4>. QED
                BY <4>2, <4>3 DEF Replaced
        <3>3. r + 1 \in Nat
            BY <2>4
        <3>4. v = ReplaceAt(u, r + 1, x)
            BY ONLY <3>2, <3>3, ReplaceIs
        <3>5. ~(i(l) > Len(old[l]))
            <4>. HIDE DEF i, old
            <4>. QED
                BY <2>4, <2>9, <2>12, <3>1
        <3>. HIDE DEF i, old, G, leaf
        <3>. QED
            BY <2>9, <3>4, <3>5
    <2>. QED
        BY <2>15, <2>16
<1>. HIDE DEF old
<1>11. G = [l \in 0..level |->
              IF l = 0 THEN leaf
              ELSE IF i(l) > Len(old[l]) THEN Append(old[l], NewPath(l - 1, leaf))
              ELSE ReplaceAt(old[l], i(l), G[l - 1])]
    <2>1. G = [l \in 0..level |-> G[l]]
        OBVIOUS
    <2>. HIDE DEF G, i, leaf
    <2>. QED
        BY <1>9, <1>10, <2>1
<1>12. new = [l \in 0..level |->
              IF l = 0 THEN leaf
              ELSE IF i(l) > Len(old[l]) THEN Append(old[l], NewPath(l - 1, leaf))
              ELSE ReplaceAt(old[l], i(l), new[l - 1])]
    <2>. HIDE DEF G, i, leaf
    <2>. QED
        BY <1>11
<1>13. PushTail(count, level, root, leaf) = new[level]
    BY DEF PushTail, PushLeaf, old
<1>14. G[level] = M[level][0]
    BY <1>2
<1>. HIDE DEF new, G, i, leaf, root, count
<1>. DEFINE H == {l \in 0..level : new[l] = G[l]}
<1>15. 0 \in H
    BY <1>9, <1>12
<1>16. ASSUME NEW l \in 0..level, l \in H, l < level PROVE l + 1 \in H
    <2>1. l + 1 \in 0..level /\ l + 1 # 0 /\ (l + 1) - 1 = l
        BY <1>16
    <2>2. /\ new[l + 1] = IF i(l + 1) > Len(old[l + 1])
                          THEN Append(old[l + 1], NewPath(l, leaf))
                          ELSE ReplaceAt(old[l + 1], i(l + 1), new[l])
          /\ G[l + 1] = IF i(l + 1) > Len(old[l + 1])
                        THEN Append(old[l + 1], NewPath(l, leaf))
                        ELSE ReplaceAt(old[l + 1], i(l + 1), G[l])
        BY <1>10, <1>12, <2>1
    <2>3. new[l] = G[l]
        BY <1>16
    <2>4. new[l + 1] = G[l + 1]
        BY <2>2, <2>3
    <2>. QED
        BY <2>1, <2>4
<1>. HIDE DEF H
<1>17. 0..level \subseteq H
    BY ONLY <1>0, <1>15, <1>16, Upward
<1>18. new[level] = G[level]
    BY <1>17 DEF H
<1>. QED
    BY <1>13, <1>14, <1>18 DEF root, leaf, count, HasRoot

(* append() when the trie is full: the old root and a path to the new leaf *)
(* are the children of a new root.                                         *)
Taller(N, M, level, s, t, m) ==
    /\ Tree(N, level, s, m) /\ Tree(M, level + 1, t, m + 1) /\ m = Span[level]
    /\ Differ(s, m, t, m + 1, m)

(* When there is no room, the old root and a new path are the children     *)
(* of the new root, one level higher.                                      *)
LEMMA GrowIs ==
    ASSUME NEW N, NEW M, NEW level \in Nat, NEW s, NEW t, NEW m \in Nat,
           Taller(N, M, level, s, t, m)
    PROVE  HasRoot(M, level + 1, <<N[level][0], NewPath(level, M[0][m])>>)
<1>. /\ Tree(N, level, s, m) /\ Tree(M, level + 1, t, m + 1) /\ m = Span[level]
     /\ Differ(s, m, t, m + 1, m)
    BY DEF Taller
<1>1. PICK d \in Nat \ {0} : d = Span[level] /\ Span[level + 1] = Width * d
    BY SpanIs
<1>2. Tree(M, level, t, m + 1)
    <2>1. \A l \in 1..level : l \in 1..(level + 1)
        OBVIOUS
    <2>. QED
        BY <2>1 DEF Tree
<1>3. At(m, level) = 1
    <2>1. m \div m = 1
        BY <1>1
    <2>. QED
        BY <2>1 DEF At
<1>4. At(m, level + 1) = 0 /\ Slot(m, level) = 1
    <2>0. level + 1 \in Nat
        OBVIOUS
    <2>1. PICK a \in Nat : a = At(m, level + 1)
        BY ONLY <2>0, m \in Nat, AtIs
    <2>2. PICK r \in 0..(Width - 1) : r = Slot(m, level)
        BY AtIs
    <2>3. 1 = a * Width + r
        BY <1>3, <2>1, <2>2, AtIs
    <2>4. r \in Nat /\ Width \in Nat /\ Width > 1
        BY VectorAssumption
    <2>5. a = 0
        <3>1. a * Width <= 1
            BY ONLY <2>3, <2>4, a \in Nat
        <3>. QED
            BY ONLY <2>4, <3>1, a \in Nat
    <2>. QED
        BY <2>1, <2>2, <2>3, <2>4, <2>5
<1>5. Count(m, level) = 1
    <2>1. PICK c \in Nat : c = Count(m, level) /\ \A k \in Nat : k < c <=> k * d < m
        BY <1>1, CountIs
    <2>2. 0 < c /\ ~(1 < c)
        BY <1>1, <2>1
    <2>. QED
        BY <2>1, <2>2
<1>6. N[level][0] = M[level][0]
    <2>0. level \in 0..level /\ m + 1 \in Nat
        OBVIOUS
    <2>1. Beside(N, M, m, m, level)
        BY ONLY <1>2, <2>0, m \in Nat, level \in Nat, Tree(N, level, s, m),
           Differ(s, m, t, m + 1, m), BesideIs
    <2>. QED
        BY <1>3, <1>5, <2>1 DEF Beside
<1>7. NewPath(level, M[0][m]) = M[level][1]
    <2>1. Count(m, level) <= At(m, level) /\ level \in 0..level
        BY <1>3, <1>5
    <2>2. NewPath(level, M[0][m]) = M[level][At(m, level)]
        BY ONLY <1>2, <2>1, m \in Nat, level \in Nat, NewPathIs
    <2>. QED
        BY <1>3, <2>2
<1>8. M[level + 1][0] = [j \in 1..2 |-> M[level][j - 1]]
    <2>1. Kids(m + 1, level + 1, 0) = 2
        BY <1>4, KidsLast
    <2>2. level + 1 \in 1..(level + 1) /\ (level + 1) - 1 = level
        OBVIOUS
    <2>3. M[level + 1][0] = [j \in 1..2 |-> M[level][0 * Width + j - 1]]
        <3>1. M[level + 1][0] = [j \in 1..Kids(m + 1, level + 1, 0) |->
                                    M[(level + 1) - 1][0 * Width + j - 1]]
            BY <2>2 DEF Tree
        <3>. QED
            BY <2>1, <2>2, <3>1
    <2>4. \A j \in 1..2 : 0 * Width + j - 1 = j - 1
        BY VectorAssumption
    <2>. QED
        BY <2>3, <2>4
<1>. QED
    BY <1>6, <1>7, <1>8 DEF HasRoot

-----------------------------------------------------------------------------
(* Which elements are in the trie, and which are in the tail.              *)

(* The leaves of a vector of n elements: the tail has 1 to Width of them.  *)
Leaves(n) == IF n = 0 THEN 0 ELSE (n - 1) \div Width

Rest(s, a) == SubSeq(s, a + 1, Len(s))

(* All elements but 1 to Width of them are in leaves.                      *)
LEMMA LeavesIs ==
    ASSUME NEW n \in Nat
    PROVE  /\ Leaves(n) \in Nat
           /\ Leaves(n) * Width <= n /\ n <= Leaves(n) * Width + Width
           /\ n # 0 => Leaves(n) * Width < n
<1>1. CASE n = 0
    BY <1>1, VectorAssumption DEF Leaves
<1>2. CASE n # 0
    <2>1. PICK e \in Nat : e = n - 1
        BY <1>2
    <2>2. /\ e \div Width \in Nat /\ e % Width \in 0..(Width - 1)
          /\ e = (e \div Width) * Width + (e % Width)
        BY Division, VectorAssumption
    <2>3. PICK q \in Nat : q = e \div Width
        BY <2>2
    <2>4. PICK w \in Nat : w = q * Width
        BY Places
    <2>5. Leaves(n) = q
        BY <1>2, <2>1, <2>3 DEF Leaves
    <2>6. Width \in Nat
        BY Places
    <2>7. e = w + (e % Width)
        BY <2>2, <2>3, <2>4
    <2>. QED
        BY <2>1, <2>2, <2>4, <2>5, <2>6, <2>7
<1>. QED
    BY <1>1, <1>2

(* How many leaves there are when the tail is known to fit.                *)
LEMMA LeavesAre ==
    ASSUME NEW n \in Nat, NEW m \in Nat, m * Width < n, n <= m * Width + Width
    PROVE  Leaves(n) = m
<1>1. PICK w \in Nat : w = m * Width /\ Width \in Nat \ {0}
    BY Places
<1>2. PICK e \in Nat : e = n - 1 /\ e - w \in 0..(Width - 1)
    BY <1>1
<1>3. PICK r \in 0..(Width - 1) : r = e - w
    BY <1>2
<1>4. e = m * Width + r /\ Width \in Nat \ {0}
    BY <1>1, <1>2, <1>3
<1>5. e \div Width = m
    BY ONLY <1>4, e \in Nat, m \in Nat, r \in 0..(Width - 1), Quotient
<1>. QED
    BY <1>1, <1>2, <1>5 DEF Leaves

(* _tail_offset is the number of elements in leaves.                       *)
LEMMA OffsetIs ==
    ASSUME NEW v, v.count \in Nat
    PROVE  TailOffset(v) = Leaves(v.count) * Width
<1>1. PICK n \in Nat : n = v.count
    OBVIOUS
<1>2. CASE n < Width
    <2>1. Leaves(n) = 0
        <3>1. CASE n = 0
            BY <3>1 DEF Leaves
        <3>2. CASE n # 0
            <4>1. 0 * Width < n /\ n <= 0 * Width + Width
                BY <1>2, <3>2, VectorAssumption
            <4>. QED
                BY <4>1, LeavesAre
        <3>. QED
            BY <3>1, <3>2
    <2>. QED
        BY <1>1, <1>2, <2>1, VectorAssumption DEF TailOffset
<1>3. CASE ~(n < Width)
    <2>1. n # 0
        BY <1>3, VectorAssumption
    <2>. QED
        BY <1>1, <1>3, <2>1 DEF TailOffset, Leaves
<1>. QED
    BY <1>2, <1>3

IsRest(r, s, a, n, S) ==
    r \in Seq(S) /\ Len(r) = n /\ n \in Nat /\ \A j \in 1..n : r[j] = s[a + j]

(* The tail, element by element.                                           *)
LEMMA RestIs ==
    ASSUME NEW S, NEW s \in Seq(S), NEW a \in Nat, a <= Len(s)
    PROVE  IsRest(Rest(s, a), s, a, Len(s) - a, S)
<1>1. PICK n \in Nat : n = Len(s)
    BY LenProperties
<1>2. a + 1 \in Int /\ n \in Int
    BY <1>1
<1>3. \A i \in (a + 1)..n : s[i] \in S
    BY <1>1, ElementOfSeq
<1>4. /\ SubSeq(s, a + 1, n) \in Seq(S)
      /\ Len(SubSeq(s, a + 1, n)) = IF a + 1 <= n THEN n - (a + 1) + 1 ELSE 0
      /\ \A i \in 1..(n - (a + 1) + 1) : SubSeq(s, a + 1, n)[i] = s[a + 1 + i - 1]
    BY <1>1, <1>2, <1>3, SubSeqProperties
<1>5. Rest(s, a) = SubSeq(s, a + 1, n)
    BY <1>1 DEF Rest
<1>6. n - (a + 1) + 1 = n - a /\ \A j \in 1..(n - a) : a + 1 + j - 1 = a + j
    BY <1>1
<1>. QED
    BY <1>1, <1>4, <1>5, <1>6 DEF IsRest

(* What is in the leaves and what is in the tail make up the vector.       *)
LEMMA SplitIs ==
    ASSUME NEW S, NEW s \in Seq(S), NEW a \in Nat, a <= Len(s)
    PROVE  SubSeq(s, 1, a) \o Rest(s, a) = s
<1>. DEFINE p == SubSeq(s, 1, a)
            r == Rest(s, a)
<1>1. PICK n \in Nat : n = Len(s)
    BY LenProperties
<1>2. p \in Seq(S) /\ Len(p) = a /\ \A i \in 1..a : p[i] = s[i]
    <2>1. \A i \in 1..a : s[i] \in S
        BY <1>1, ElementOfSeq
    <2>2. /\ SubSeq(s, 1, a) \in Seq(S)
          /\ Len(SubSeq(s, 1, a)) = IF 1 <= a THEN a - 1 + 1 ELSE 0
          /\ \A i \in 1..(a - 1 + 1) : SubSeq(s, 1, a)[i] = s[1 + i - 1]
        BY <2>1, SubSeqProperties
    <2>. QED
        BY <2>2
<1>3. r \in Seq(S) /\ Len(r) = n - a /\ \A j \in 1..(n - a) : r[j] = s[a + j]
    BY <1>1, RestIs DEF IsRest
<1>. HIDE DEF p, r
<1>4. /\ p \o r \in Seq(S) /\ Len(p \o r) = Len(p) + Len(r)
      /\ \A i \in 1..(Len(p) + Len(r)) :
            (p \o r)[i] = IF i <= Len(p) THEN p[i] ELSE r[i - Len(p)]
    BY <1>2, <1>3, ConcatProperties
<1>5. Len(p \o r) = Len(s)
    BY <1>1, <1>2, <1>3, <1>4
<1>6. \A i \in 1..n : (p \o r)[i] = s[i]
    <2>1. ASSUME NEW i \in 1..n, i <= a PROVE (p \o r)[i] = s[i]
        BY <1>1, <1>2, <1>3, <1>4, <2>1
    <2>2. ASSUME NEW i \in 1..n, ~(i <= a) PROVE (p \o r)[i] = s[i]
        <3>1. PICK j \in 1..(n - a) : j = i - a /\ i = a + j
            BY <2>2
        <3>. QED
            BY <1>1, <1>2, <1>3, <1>4, <2>2, <3>1
    <2>. QED
        BY <2>1, <2>2
<1>7. p \o r = s
    BY ONLY <1>1, <1>4, <1>5, <1>6, s \in Seq(S), SameTuple
<1>. QED
    BY <1>7 DEF p, r

-----------------------------------------------------------------------------
(* The vector v holds the sequence s: what of it is in full leaves before  *)
(* the last element in a trie of the right height, the rest in the tail.   *)

Holds(level, root, tail, s) ==
    LET m == Leaves(Len(s))
    IN  /\ level \in Nat \ {0} /\ m <= Span[level]
        /\ \E N : Tree(N, level, s, m) /\ root = N[level][0]
        /\ tail = Rest(s, m * Width)

Represents(v, s) ==
    \E level, root, tail :
        v = Vector(Len(s), level, root, tail) /\ Holds(level, root, tail, s)

(* The root is empty as long as there is no leaf.                          *)
LEMMA RootIs ==
    ASSUME NEW N, NEW level \in Nat \ {0}, NEW s, NEW m \in Nat, Tree(N, level, s, m)
    PROVE  N[level][0] = <<>> <=> m = 0
<1>1. PICK e \in Nat : e = level - 1 /\ level = e + 1 /\ level \in 1..level /\ 0 \in Nat
    OBVIOUS
<1>2. Node(N, m, level, 0)
    BY ONLY <1>1, level \in Nat, m \in Nat, Tree(N, level, s, m), NodeIs
<1>3. PICK c \in Nat : c = Count(m, e) /\ \A k \in Nat : k < c <=> k * Span[e] < m
    BY <1>1, CountIs
<1>4. c = 0 <=> m = 0
    <2>1. 0 < c <=> 0 < m
        BY <1>1, <1>3, SpanIs
    <2>. QED
        BY <1>3, <2>1
<1>5. Kids(m, level, 0) = 0 <=> c = 0
    <2>0. 1 \in 1..Width /\ 0 * Width + 1 = 1
        BY VectorAssumption
    <2>1. PICK n \in 0..Width : n = Kids(m, level, 0)
        BY <1>1, KidsIs
    <2>2. 1 <= n <=> 1 <= c
        <3>1. 1 <= Kids(m, level, 0) <=> 0 * Width + 1 <= Count(m, level - 1)
            BY <1>1, <2>0, KidsIs
        <3>. QED
            BY <1>1, <1>3, <2>0, <2>1, <3>1
    <2>. QED
        BY <1>3, <2>1, <2>2, VectorAssumption
<1>6. N[level][0] = <<>> <=> Len(N[level][0]) = 0
    BY <1>2, EmptySeq DEF Node
<1>. QED
    BY <1>2, <1>4, <1>5, <1>6 DEF Node

(* A vector yields the sequence it represents.                             *)
LEMMA IterateIs ==
    ASSUME NEW S, NEW s \in Seq(S), NEW v, Represents(v, s)
    PROVE  Iterate(v) = s
<1>1. PICK level, root, tail :
         v = Vector(Len(s), level, root, tail) /\ Holds(level, root, tail, s)
    BY DEF Represents
<1>2. PICK m \in Nat : m = Leaves(Len(s)) /\ m * Width <= Len(s) /\ m * Width \in Nat
    BY LenProperties, LeavesIs, Places
<1>3. PICK N : Tree(N, level, s, m) /\ root = N[level][0]
    BY <1>1, <1>2 DEF Holds
<1>4. level \in Nat \ {0} /\ m <= Span[level] /\ tail = Rest(s, m * Width)
    BY <1>1, <1>2 DEF Holds
<1>5. Iterate(v) = (IF root = <<>> THEN <<>> ELSE IterNode(root, level)) \o tail
    BY <1>1 DEF Iterate, Vector
<1>6. CASE m = 0
    <2>1. Rest(s, 0) = s
        <3>1. 0 \in Nat /\ 0 <= Len(s) /\ SubSeq(s, 1, 0) = <<>>
            BY LenProperties
        <3>2. <<>> \o Rest(s, 0) = s
            BY <3>1, SplitIs
        <3>3. Rest(s, 0) \in Seq(S)
            BY <3>1, RestIs DEF IsRest
        <3>. QED
            BY <3>2, <3>3
    <2>2. root = <<>>
        BY <1>3, <1>4, <1>6, RootIs
    <2>3. m * Width = 0
        BY <1>6, VectorAssumption
    <2>. QED
        BY <1>4, <1>5, <2>1, <2>2, <2>3
<1>7. CASE m # 0
    <2>1. root # <<>>
        BY <1>3, <1>4, <1>7, RootIs
    <2>2. IterNode(root, level) = SubSeq(s, 1, m * Width)
        <3>1. m \in Nat \ {0} /\ level \in Nat
            BY <1>4, <1>7
        <3>. QED
            BY ONLY <1>2, <1>3, <1>4, <3>1, s \in Seq(S), IterNodeIs
    <2>3. SubSeq(s, 1, m * Width) \o Rest(s, m * Width) = s
        BY <1>2, SplitIs
    <2>. QED
        BY <1>4, <1>5, <2>1, <2>2, <2>3
<1>. QED
    BY <1>6, <1>7

-----------------------------------------------------------------------------
(* append()                                                                *)

LEMMA Agree ==
    ASSUME NEW S, NEW s \in Seq(S), NEW x \in S
    PROVE  /\ Append(s, x) \in Seq(S) /\ Len(Append(s, x)) = Len(s) + 1 /\ Len(s) \in Nat
           /\ \A j \in 1..Len(s) : Append(s, x)[j] = s[j]
           /\ Append(s, x)[Len(s) + 1] = x
BY AppendProperties, LenProperties

LEMMA RestAppend ==
    ASSUME NEW S, NEW s \in Seq(S), NEW x \in S, NEW a \in Nat, a <= Len(s)
    PROVE  Rest(Append(s, x), a) = Append(Rest(s, a), x)
<1>. DEFINE t == Append(s, x)
            f == Rest(s, a)
            g == Rest(t, a)
<1>1. PICK n \in Nat : n = Len(s) /\ a <= n
    BY LenProperties
<1>2. t \in Seq(S) /\ Len(t) = n + 1 /\ t[n + 1] = x /\ \A j \in 1..n : t[j] = s[j]
    BY <1>1, Agree
<1>3. n - a \in Nat
    BY <1>1
<1>4. PICK b \in Nat : b = n - a
    BY <1>3
<1>5. IsRest(f, s, a, b, S)
    BY <1>1, <1>4, RestIs
<1>6. IsRest(g, t, a, b + 1, S)
    <2>1. a <= Len(t) /\ Len(t) - a = b + 1
        BY <1>1, <1>2, <1>4
    <2>2. IsRest(g, t, a, Len(t) - a, S)
        BY ONLY <1>2, <2>1, a \in Nat, RestIs
    <2>. QED
        BY ONLY <2>1, <2>2
<1>. HIDE DEF f, g, t
<1>7. Longer(f, g, b, x)
    <2>1. f = [j \in 1..b |-> f[j]] /\ g = [j \in 1..(b + 1) |-> g[j]]
        BY <1>5, <1>6, LenProperties DEF IsRest
    <2>2. \A j \in 1..b : g[j] = f[j]
        <3>1. ASSUME NEW j \in 1..b PROVE g[j] = f[j]
            <4>1. j \in 1..(b + 1) /\ a + j \in 1..n
                BY <1>1, <1>4
            <4>. QED
                BY <1>2, <1>5, <1>6, <4>1 DEF IsRest
        <3>. QED
            BY <3>1
    <2>3. g[b + 1] = x
        <3>1. b + 1 \in 1..(b + 1) /\ a + (b + 1) = n + 1
            BY <1>1, <1>4
        <3>2. g[b + 1] = t[a + (b + 1)]
            BY ONLY <1>6, <3>1 DEF IsRest
        <3>. QED
            BY <1>2, <3>1, <3>2
    <2>. QED
        BY <2>1, <2>2, <2>3 DEF Longer
<1>8. g = Append(f, x)
    BY <1>7, AppendIs
<1>. QED
    BY <1>8 DEF f, g, t

(* The trie is that of every sequence that begins as s does.               *)
LEMMA SameTrie ==
    ASSUME NEW N, NEW level \in Nat, NEW s, NEW t, NEW m \in Nat, Tree(N, level, s, m),
           \A j \in 1..(m * Width) : t[j] = s[j]
    PROVE  Tree(N, level, t, m)
<1>1. ASSUME NEW k \in Nat, k < m
      PROVE  N[0][k] = [j \in 1..Width |-> t[k * Width + j]]
    <2>1. k * Width + Width <= m * Width /\ k * Width \in Nat
        BY <1>1, VectorAssumption
    <2>2. \A j \in 1..Width : k * Width + j \in 1..(m * Width)
        BY <2>1, VectorAssumption
    <2>3. N[0][k] = [j \in 1..Width |-> s[k * Width + j]]
        BY <1>1 DEF Tree
    <2>. QED
        BY <2>2, <2>3
<1>. QED
    BY <1>1 DEF Tree

(* A tail of Width elements is the leaf the trie of one leaf more has.     *)
Filled(M, level, s, x, m) ==
    Len(s) = (m + 1) * Width /\ Tree(M, level, Append(s, x), m + 1)

LEMMA FullTail ==
    ASSUME NEW S, NEW s \in Seq(S), NEW x \in S, NEW m \in Nat,
           NEW M, NEW level \in Nat, Filled(M, level, s, x, m)
    PROVE  /\ Rest(s, m * Width) = M[0][m]
           /\ Rest(Append(s, x), Len(s)) = <<x>>
           /\ Differ(s, m, Append(s, x), m + 1, m)
<1>. DEFINE t == Append(s, x)
<1>1. PICK w \in Nat : w = m * Width /\ Len(s) = w + Width /\ Width \in Nat \ {0}
    BY Places DEF Filled
<1>2. /\ t \in Seq(S) /\ Len(t) = Len(s) + 1 /\ t[Len(s) + 1] = x
      /\ \A j \in 1..Len(s) : t[j] = s[j]
    BY Agree
<1>. HIDE DEF t
<1>3. Rest(s, w) = M[0][m]
    <2>1. /\ Rest(s, w) \in Seq(S) /\ Len(Rest(s, w)) = Width
          /\ \A j \in 1..Width : Rest(s, w)[j] = s[w + j]
        <3>1. w <= Len(s) /\ Len(s) - w = Width
            BY <1>1
        <3>. QED
            BY <3>1, RestIs DEF IsRest
    <2>2. Leaf(M, t, m, S)
        <3>1. Within(t, m, S)
            <4>1. \A j \in 1..Width : w + j \in 1..Len(t)
                BY ONLY <1>1, <1>2, w \in Nat
            <4>2. \A j \in 1..Width : m * Width + j \in 1..Len(t)
                BY <1>1, <4>1
            <4>. QED
                BY <1>2, <4>2, ElementOfSeq DEF Within
        <3>2. m + 1 \in Nat /\ m < m + 1 /\ Tree(M, level, t, m + 1)
            BY DEF t, Filled
        <3>. QED
            BY ONLY <3>1, <3>2, m \in Nat, level \in Nat, LeafIs
    <2>3. /\ M[0][m] \in Seq(S) /\ Len(M[0][m]) = Width
          /\ \A j \in 1..Width : M[0][m][j] = t[w + j]
        BY <1>1, <2>2 DEF Leaf
    <2>4. \A j \in 1..Width : w + j \in 1..Len(s)
        BY <1>1
    <2>5. \A j \in 1..Width : Rest(s, w)[j] = M[0][m][j]
        BY <1>2, <2>1, <2>3, <2>4
    <2>. QED
        BY ONLY <2>1, <2>3, <2>5, SameTuple
<1>4. Rest(t, Len(s)) = <<x>>
    <2>1. Len(s) \in Nat /\ Len(s) <= Len(t) /\ Len(t) - Len(s) = 1
        BY <1>1, <1>2
    <2>2. /\ Rest(t, Len(s)) \in Seq(S) /\ Len(Rest(t, Len(s))) = 1
          /\ Rest(t, Len(s))[1] = x
        <3>1. PICK a \in Nat : a = Len(s)
            BY <2>1
        <3>2. a <= Len(t) /\ Len(t) - a = 1
            BY <2>1, <3>1
        <3>3. IsRest(Rest(t, a), t, a, Len(t) - a, S)
            BY ONLY <1>2, <3>2, a \in Nat, RestIs
        <3>. QED
            BY <1>2, <3>1, <3>2, <3>3 DEF IsRest
    <2>3. <<x>> \in Seq(S) /\ Len(<<x>>) = 1 /\ <<x>>[1] = x
        OBVIOUS
    <2>4. \A j \in 1..1 : Rest(t, Len(s))[j] = <<x>>[j]
        BY <2>2, <2>3
    <2>. QED
        BY ONLY <2>2, <2>3, <2>4, SameTuple
<1>5. Differ(s, m, t, m + 1, m)
    <2>1. ASSUME NEW k \in Nat, k < m, NEW j \in 1..Width
          PROVE  s[k * Width + j] = t[k * Width + j]
        <3>1. k * Width + Width <= w /\ k * Width \in Nat
            BY <1>1, <2>1
        <3>2. k * Width + j \in 1..Len(s)
            BY <1>1, <3>1
        <3>. QED
            BY <1>2, <3>2
    <2>2. \A k \in Nat : k < m /\ k # m =>
             \A j \in 1..Width : s[k * Width + j] = t[k * Width + j]
        BY <2>1
    <2>3. m + 1 = m + 1 /\ m = m
        OBVIOUS
    <2>. QED
        BY ONLY <2>2, <2>3, Zenon DEF Differ
<1>. QED
    BY <1>1, <1>3, <1>4, <1>5 DEF t

(* append(), whether the tail has room, the trie has, or neither.          *)
LEMMA AppendToIs ==
    ASSUME NEW S, NEW s \in Seq(S), NEW x \in S, NEW v, Represents(v, s)
    PROVE  Represents(AppendTo(v, x), Append(s, x))
<1>0. PICK t : t = Append(s, x)
    OBVIOUS
<1>12. PICK level \in Nat \ {0} : \E root, tail :
         v = Vector(Len(s), level, root, tail) /\ Holds(level, root, tail, s)
    BY DEF Represents, Holds
<1>1. PICK root, tail :
         v = Vector(Len(s), level, root, tail) /\ Holds(level, root, tail, s)
    BY <1>12
<1>2. PICK n \in Nat : n = Len(s)
    BY LenProperties
<1>3. PICK m \in Nat : m = Leaves(n)
    BY LeavesIs
<1>4. PICK w \in Nat :
         w = m * Width /\ (m + 1) * Width = w + Width /\ Width \in Nat \ {0}
    BY Places
<1>5. w <= n /\ n <= w + Width
    BY <1>3, <1>4, LeavesIs
<1>6. PICK N : Tree(N, level, s, m) /\ root = N[level][0]
    BY <1>1, <1>2, <1>3 DEF Holds
<1>7. level \in Nat \ {0} /\ m <= Span[level] /\ tail = Rest(s, w)
    BY <1>1, <1>2, <1>3, <1>4 DEF Holds
<1>8. /\ t \in Seq(S) /\ Len(t) = n + 1 /\ t[n + 1] = x
      /\ \A j \in 1..n : t[j] = s[j]
    BY <1>0, <1>2, Agree
<1>9. v.count = n /\ v.level = level /\ v.root = root /\ v.tail = tail /\ TailOffset(v) = w
    <2>1. v.count = n /\ v.level = level /\ v.root = root /\ v.tail = tail
        BY <1>1, <1>2 DEF Vector
    <2>. QED
        BY <1>3, <1>4, <2>1, OffsetIs
<1>10. CASE n - w < Width
    <2>1. AppendTo(v, x) = Vector(n + 1, level, root, Append(tail, x))
        BY <1>9, <1>10 DEF AppendTo
    <2>2. Leaves(n + 1) = m
        BY <1>4, <1>5, <1>10, LeavesAre
    <2>3. Rest(t, w) = Append(tail, x)
        BY <1>0, <1>2, <1>5, <1>7, RestAppend
    <2>4. Tree(N, level, t, m)
        <3>1. \A j \in 1..(m * Width) : t[j] = s[j]
            BY <1>4, <1>5, <1>8
        <3>. QED
            BY <1>6, <1>7, <3>1, SameTrie
    <2>5. Holds(level, root, Append(tail, x), t)
        BY <1>4, <1>6, <1>7, <1>8, <2>2, <2>3, <2>4 DEF Holds
    <2>. QED
        BY <1>0, <1>8, <2>1, <2>5 DEF Represents
<1>11. CASE ~(n - w < Width)
    <2>1. n = (m + 1) * Width /\ n = w + Width
        BY <1>4, <1>5, <1>11
    <2>2. Leaves(n + 1) = m + 1
        <3>1. (m + 1) * Width < n + 1 /\ n + 1 <= (m + 1) * Width + Width
            BY <1>4, <2>1
        <3>2. m + 1 \in Nat /\ n + 1 \in Nat
            OBVIOUS
        <3>. QED
            BY ONLY <3>1, <3>2, LeavesAre
    <2>3. n \div Width = m + 1
        <3>1. /\ n = (m + 1) * Width + 0 /\ 0 \in 0..(Width - 1)
              /\ Width \in Nat \ {0} /\ m + 1 \in Nat
            BY <1>4, <2>1
        <3>. QED
            BY ONLY <3>1, n \in Nat, Quotient
    <2>4. PICK d \in Nat \ {0} : d = Span[level] /\ Span[level + 1] = Width * d
        BY <1>7, SpanIs
    <2>5. ASSUME NEW L \in Nat \ {0}, NEW M, Tree(M, L, t, m + 1), m + 1 <= Span[L]
          PROVE  /\ Holds(L, M[L][0], <<x>>, t)
                 /\ tail = M[0][m] /\ Differ(s, m, t, m + 1, m)
        <3>1. /\ Rest(s, m * Width) = M[0][m] /\ Rest(t, Len(s)) = <<x>>
              /\ Differ(s, m, t, m + 1, m)
            <4>1. L \in Nat /\ Filled(M, L, s, x, m)
                BY <1>0, <1>2, <2>1, <2>5 DEF Filled
            <4>2. /\ Rest(s, m * Width) = M[0][m] /\ Rest(Append(s, x), Len(s)) = <<x>>
                  /\ Differ(s, m, Append(s, x), m + 1, m)
                BY ONLY <4>1, s \in Seq(S), x \in S, m \in Nat, FullTail
            <4>. QED
                BY <1>0, <4>2
        <3>2. Leaves(Len(t)) = m + 1 /\ Rest(t, (m + 1) * Width) = <<x>>
            BY <1>2, <1>8, <2>1, <2>2, <3>1
        <3>. QED
            BY <1>4, <1>7, <2>5, <3>1, <3>2 DEF Holds
    <2>6. CASE n \div Width > Span[level]
        <3>1. m = Span[level] /\ m + 1 <= Span[level + 1] /\ level + 1 \in Nat \ {0}
            <4>1. m = d
                BY <1>7, <2>3, <2>4, <2>6
            <4>2. Width * d >= d + 1
                BY VectorAssumption
            <4>. QED
                BY <1>7, <2>4, <4>1, <4>2
        <3>2. PICK M : Tree(M, level + 1, t, m + 1)
            BY <3>1, TreeExists
        <3>3. /\ Holds(level + 1, M[level + 1][0], <<x>>, t)
              /\ tail = M[0][m] /\ Differ(s, m, t, m + 1, m)
            BY <2>5, <3>1, <3>2
        <3>4. <<root, NewPath(level, tail)>> = M[level + 1][0]
            <4>1. level \in Nat
                BY <1>7
            <4>2. <<N[level][0], NewPath(level, M[0][m])>> = M[level + 1][0]
                <5>1. Taller(N, M, level, s, t, m)
                    BY <1>6, <3>1, <3>2, <3>3 DEF Taller
                <5>2. HasRoot(M, level + 1, <<N[level][0], NewPath(level, M[0][m])>>)
                    BY ONLY <4>1, <5>1, m \in Nat, GrowIs
                <5>. QED
                    BY <5>2 DEF HasRoot
            <4>. QED
                BY <1>6, <3>3, <4>2
        <3>5. AppendTo(v, x) =
                 Vector(n + 1, level + 1, <<root, NewPath(level, tail)>>, <<x>>)
            BY <1>9, <1>11, <2>6 DEF AppendTo
        <3>. QED
            BY <1>0, <1>8, <3>3, <3>4, <3>5 DEF Represents
    <2>7. CASE ~(n \div Width > Span[level])
        <3>1. m + 1 <= Span[level]
            BY <2>3, <2>4, <2>7
        <3>2. PICK M : Tree(M, level, t, m + 1)
            BY <1>7, TreeExists
        <3>3. /\ Holds(level, M[level][0], <<x>>, t)
              /\ tail = M[0][m] /\ Differ(s, m, t, m + 1, m)
            BY <1>7, <2>5, <3>1, <3>2
        <3>4. PushTail(n, level, root, tail) = M[level][0]
            <4>1. PushTail((m + 1) * Width, level, N[level][0], M[0][m]) = M[level][0]
                <5>1. Wider(N, M, level, s, t, m)
                    BY <1>6, <3>1, <3>2, <3>3 DEF Wider
                <5>2. HasRoot(M, level, PushTail((m + 1) * Width, level, N[level][0], M[0][m]))
                    BY ONLY <1>7, <5>1, m \in Nat, PushTailIs
                <5>. QED
                    BY <5>2 DEF HasRoot
            <4>. QED
                BY <1>6, <2>1, <3>3, <4>1
        <3>5. AppendTo(v, x) = Vector(n + 1, level, PushTail(n, level, root, tail), <<x>>)
            BY <1>9, <1>11, <2>7 DEF AppendTo
        <3>. QED
            BY <1>0, <1>8, <3>3, <3>4, <3>5 DEF Represents
    <2>. QED
        BY <2>6, <2>7
<1>. QED
    BY <1>10, <1>11

-----------------------------------------------------------------------------
(* Indexing and set().                                                     *)

Form(v, s, n, m, w) ==
    /\ n = Len(s) /\ m = Leaves(n) /\ w = m * Width /\ w <= n /\ n <= w + Width
    /\ v = Vector(n, v.level, v.root, v.tail) /\ TailOffset(v) = w
    /\ Holds(v.level, v.root, v.tail, s)

(* The attributes of a vector follow from the sequence it represents.      *)
LEMMA FormIs ==
    ASSUME NEW S, NEW s \in Seq(S), NEW v, Represents(v, s)
    PROVE  \E n, m, w \in Nat : Form(v, s, n, m, w)
<1>1. PICK level, root, tail :
         v = Vector(Len(s), level, root, tail) /\ Holds(level, root, tail, s)
    BY DEF Represents
<1>2. PICK n \in Nat : n = Len(s)
    BY LenProperties
<1>3. PICK m \in Nat : m = Leaves(n)
    BY LeavesIs
<1>4. PICK w \in Nat : w = m * Width /\ Width \in Nat
    BY Places
<1>5. w <= n /\ n <= w + Width
    BY <1>3, <1>4, LeavesIs
<1>6. v.count = n /\ v.level = level /\ v.root = root /\ v.tail = tail
    BY <1>1, <1>2 DEF Vector
<1>7. TailOffset(v) = w
    BY <1>3, <1>4, <1>6, OffsetIs
<1>8. Form(v, s, n, m, w)
    BY <1>1, <1>2, <1>3, <1>4, <1>5, <1>6, <1>7 DEF Form
<1>. QED
    BY <1>8

(* The leaf of an index below the tail.                                    *)
LEMMA BelowTail ==
    ASSUME NEW m \in Nat, NEW i \in Nat, i < m * Width
    PROVE  /\ i \div Width \in Nat /\ i \div Width < m
           /\ Slot(i, 0) + 1 \in 1..Width
           /\ (i \div Width) * Width + (Slot(i, 0) + 1) = i + 1
<1>1. PICK p \in Nat : p = i \div Width
    BY LeafOf
<1>2. PICK r \in 0..(Width - 1) : r = Slot(i, 0)
    BY LeafOf
<1>3. i = p * Width + r
    BY <1>1, <1>2, LeafOf
<1>4. p < m
    <2>1. r \in Nat /\ Width \in Nat
        BY VectorAssumption
    <2>2. p * Width < m * Width
        BY <1>3, <2>1
    <2>. QED
        BY <2>1, <2>2
<1>5. PICK w \in Nat : w = p * Width /\ Width \in Nat
    BY Places
<1>6. r + 1 \in 1..Width /\ w + (r + 1) = i + 1
    BY <1>3, <1>5
<1>. QED
    BY <1>1, <1>2, <1>4, <1>5, <1>6

(* Indexing, in the tail and in the trie.                                  *)
LEMMA GetAtIs ==
    ASSUME NEW S, NEW s \in Seq(S), NEW v, Represents(v, s), NEW i \in Nat, i < Len(s)
    PROVE  GetAt(v, i) = s[i + 1]
<1>1. PICK n, m, w \in Nat : Form(v, s, n, m, w)
    BY FormIs
<1>2. CASE i >= w
    <2>1. PICK j \in Nat : j = i - w
        BY <1>2
    <2>2. v.tail = Rest(s, w) /\ w <= Len(s) /\ Len(s) = n
        BY <1>1 DEF Form, Holds
    <2>3. IsRest(Rest(s, w), s, w, n - w, S)
        BY <2>2, RestIs
    <2>4. j + 1 \in 1..(n - w) /\ w + (j + 1) = i + 1
        BY <1>2, <2>1, <2>2
    <2>5. v.tail[j + 1] = s[i + 1]
        BY <2>2, <2>3, <2>4 DEF IsRest
    <2>6. GetAt(v, i) = v.tail[j + 1]
        BY <1>1, <1>2, <2>1 DEF GetAt, Form
    <2>. QED
        BY <2>5, <2>6
<1>3. CASE ~(i >= w)
    <2>1. i < m * Width
        BY <1>1, <1>3 DEF Form
    <2>2. PICK p \in Nat : /\ p = i \div Width /\ p < m
                           /\ Slot(i, 0) + 1 \in 1..Width
                           /\ p * Width + (Slot(i, 0) + 1) = i + 1
        BY <2>1, BelowTail
    <2>3. PICK level \in Nat \ {0} : level = v.level /\ m <= Span[level]
        BY <1>1 DEF Form, Holds
    <2>4. PICK N : Tree(N, level, s, m) /\ v.root = N[level][0]
        BY <1>1, <2>3 DEF Form, Holds
    <2>5. OnWay(Walk(level, v.root, i), N, level, p)
        <3>1. i \div Width < m /\ level \in Nat
            BY <2>2, <2>3
        <3>2. OnWay(Walk(level, N[level][0], i), N, level, i \div Width)
            BY ONLY <2>3, <2>4, <3>1, m \in Nat, i \in Nat, WalkIs
        <3>. QED
            BY <2>2, <2>4, <3>2
    <2>6. Walk(level, v.root, i)[0] = N[0][p]
        <3>1. At(p, 0) = p
            BY AtIs
        <3>2. 0 \in 0..level
            BY <2>3
        <3>. QED
            BY <2>5, <3>1, <3>2 DEF OnWay
    <2>7. Leaf(N, s, p, S)
        <3>1. Within(s, p, S)
            <4>1. p * Width + Width <= m * Width /\ p * Width \in Nat
                BY <2>2, VectorAssumption
            <4>2. Len(s) \in Nat /\ m * Width <= Len(s)
                BY <1>1 DEF Form
            <4>3. \A j \in 1..Width : p * Width + j \in 1..Len(s)
                BY <4>1, <4>2, VectorAssumption
            <4>. QED
                BY <4>3, ElementOfSeq DEF Within
        <3>2. level \in Nat
            BY <2>3
        <3>. QED
            BY ONLY <2>2, <2>4, <3>1, <3>2, m \in Nat, LeafIs
    <2>8. N[0][p][Slot(i, 0) + 1] = s[i + 1]
        <3>1. N[0][p][Slot(i, 0) + 1] = s[p * Width + (Slot(i, 0) + 1)]
            BY <2>2, <2>7 DEF Leaf
        <3>. QED
            BY <2>2, <3>1
    <2>9. GetAt(v, i) = Walk(level, v.root, i)[0][Slot(i, 0) + 1]
        BY <1>1, <1>3, <2>3 DEF GetAt, Form
    <2>. QED
        BY <2>6, <2>8, <2>9
<1>. QED
    BY <1>2, <1>3

(* set(), in the tail and in the trie.                                     *)
LEMMA SetAtIs ==
    ASSUME NEW S, NEW s \in Seq(S), NEW x \in S, NEW v, Represents(v, s),
           NEW i \in Nat, i < Len(s)
    PROVE  Represents(SetAt(v, i, x), ReplaceAt(s, i + 1, x))
<1>1. PICK n, m, w \in Nat : Form(v, s, n, m, w)
    BY FormIs
<1>0. PICK t : t = ReplaceAt(s, i + 1, x)
    OBVIOUS
<1>2. /\ t \in Seq(S) /\ Len(t) = n /\ t[i + 1] = x /\ Len(s) = n
      /\ \A j \in 1..n : j # i + 1 => t[j] = s[j]
    <2>1. Len(s) = n /\ i + 1 \in 1..n
        BY <1>1 DEF Form
    <2>2. s \in [1..n -> S]
        BY <2>1, LenProperties
    <2>3. t = [s EXCEPT ![i + 1] = x]
        BY <1>0 DEF ReplaceAt
    <2>4. t \in [1..n -> S] /\ t[i + 1] = x /\ \A j \in 1..n : j # i + 1 => t[j] = s[j]
        BY <2>1, <2>2, <2>3
    <2>5. t \in Seq(S) /\ Len(t) = n
        BY ONLY <2>4, n \in Nat, TupleIs
    <2>. QED
        BY <2>1, <2>4, <2>5
<1>3. PICK level \in Nat \ {0} : level = v.level /\ m <= Span[level]
    BY <1>1 DEF Form, Holds
<1>4. PICK N : Tree(N, level, s, m) /\ v.root = N[level][0]
    BY <1>1, <1>3 DEF Form, Holds
<1>5. v.tail = Rest(s, w) /\ w = m * Width /\ w <= n /\ m = Leaves(n)
    BY <1>1 DEF Form, Holds
<1>6. IsRest(Rest(s, w), s, w, n - w, S) /\ IsRest(Rest(t, w), t, w, n - w, S)
    <2>1. IsRest(Rest(s, w), s, w, Len(s) - w, S)
        BY <1>2, <1>5, RestIs
    <2>2. IsRest(Rest(t, w), t, w, Len(t) - w, S)
        BY <1>2, <1>5, RestIs
    <2>. QED
        BY <1>2, <2>1, <2>2
<1>7. PICK b \in Nat : b = n - w
    BY <1>6 DEF IsRest
<1>8. CASE i >= w
    <2>1. PICK j \in Nat : j = i - w
        BY <1>8
    <2>2. Rest(t, w) = [v.tail EXCEPT ![j + 1] = x]
        <3>1. Replaced(Rest(s, w), Rest(t, w), b, j + 1, x)
            <4>1. ASSUME NEW k \in 1..b
                  PROVE  Rest(t, w)[k] = IF k = j + 1 THEN x ELSE Rest(s, w)[k]
                <5>0. w <= n
                    BY <1>5
                <5>1. w + k \in 1..n /\ (w + k = i + 1 <=> k = j + 1)
                    BY <1>7, <2>1, <5>0
                <5>2. Rest(t, w)[k] = t[w + k] /\ Rest(s, w)[k] = s[w + k]
                    BY <1>6, <1>7 DEF IsRest
                <5>. QED
                    BY <1>2, <5>1, <5>2
            <4>2. /\ Rest(s, w) = [k \in 1..b |-> Rest(s, w)[k]]
                  /\ Rest(t, w) = [k \in 1..b |-> Rest(t, w)[k]]
                BY <1>6, <1>7, LenProperties DEF IsRest
            <4>. QED
                BY <4>1, <4>2 DEF Replaced
        <3>2. Rest(t, w) = ReplaceAt(Rest(s, w), j + 1, x)
            BY ONLY <3>1, b \in Nat, ReplaceIs
        <3>. QED
            BY <1>5, <3>2 DEF ReplaceAt
    <2>3. Tree(N, level, t, m)
        <3>1. \A k \in 1..(m * Width) : t[k] = s[k]
            BY <1>2, <1>5, <1>8
        <3>2. level \in Nat
            BY <1>3
        <3>. QED
            BY ONLY <1>4, <3>1, <3>2, m \in Nat, SameTrie
    <2>4. SetAt(v, i, x) = Vector(n, level, v.root, Rest(t, w))
        <3>1. SetAt(v, i, x) = [v EXCEPT !.tail[j + 1] = x]
            BY <1>1, <1>8, <2>1 DEF SetAt, Form
        <3>2. v = Vector(n, level, v.root, v.tail)
            BY <1>1, <1>3 DEF Form
        <3>. QED
            BY <2>2, <3>1, <3>2 DEF Vector
    <2>5. Holds(level, v.root, Rest(t, w), t)
        BY <1>2, <1>3, <1>4, <1>5, <2>3 DEF Holds
    <2>. QED
        BY <1>0, <1>2, <2>4, <2>5 DEF Represents
<1>9. CASE ~(i >= w)
    <2>1. i < m * Width
        BY <1>5, <1>9
    <2>2. i \div Width < m
        BY <2>1, BelowTail
    <2>3. PICK M : Tree(M, level, t, m)
        BY <1>3, TreeExists
    <2>4. AssocNode(level, v.root, i, x) = M[level][0]
        <3>1. \A j \in 1..(m * Width) : j # i + 1 => t[j] = s[j]
            BY <1>2, <1>5
        <3>2. level \in Nat /\ t[i + 1] = x
            BY <1>2, <1>3
        <3>3. Otherwise(N, M, level, s, t, m, i, x)
            BY <1>3, <1>4, <2>2, <2>3, <3>1, <3>2 DEF Otherwise
        <3>4. HasRoot(M, level, AssocNode(level, N[level][0], i, x))
            BY ONLY <3>2, <3>3, m \in Nat, i \in Nat, AssocNodeIs
        <3>. QED
            BY <1>4, <3>4 DEF HasRoot
    <2>5. Rest(t, w) = v.tail
        <3>1. \A k \in 1..b : Rest(t, w)[k] = Rest(s, w)[k]
            <4>1. ASSUME NEW k \in 1..b PROVE Rest(t, w)[k] = Rest(s, w)[k]
                <5>1. w + k \in 1..n /\ w + k # i + 1
                    BY <1>5, <1>7, <1>9
                <5>2. Rest(t, w)[k] = t[w + k] /\ Rest(s, w)[k] = s[w + k]
                    BY <1>6, <1>7 DEF IsRest
                <5>. QED
                    BY <1>2, <5>1, <5>2
            <4>. QED
                BY <4>1
        <3>2. /\ Rest(t, w) \in Seq(S) /\ Rest(s, w) \in Seq(S)
              /\ Len(Rest(t, w)) = b /\ Len(Rest(s, w)) = b
            BY <1>6, <1>7 DEF IsRest
        <3>3. Rest(t, w) = Rest(s, w)
            BY <3>1, <3>2, SameTuple
        <3>. QED
            BY <1>5, <3>3
    <2>6. SetAt(v, i, x) = Vector(n, level, M[level][0], Rest(t, w))
        <3>1. SetAt(v, i, x) = [v EXCEPT !.root = AssocNode(level, v.root, i, x)]
            BY <1>1, <1>3, <1>9 DEF SetAt, Form
        <3>2. v = Vector(n, level, v.root, v.tail)
            BY <1>1, <1>3 DEF Form
        <3>. QED
            BY <2>4, <2>5, <3>1, <3>2 DEF Vector
    <2>7. Holds(level, M[level][0], Rest(t, w), t)
        BY <1>2, <1>3, <1>5, <2>3 DEF Holds
    <2>. QED
        BY <1>0, <1>2, <2>6, <2>7 DEF Represents
<1>. QED
    BY <1>8, <1>9

-----------------------------------------------------------------------------
(* A new vector, and the vector that + and slices give.                    *)

LEMMA EmptyIs == Represents(EmptyVector, <<>>)
<1>1. PICK N : Tree(N, 1, <<>>, 0)
    BY TreeExists
<1>2. N[1][0] = <<>>
    <2>1. 1 \in Nat \ {0} /\ 0 \in Nat
        OBVIOUS
    <2>. QED
        BY ONLY <1>1, <2>1, RootIs
<1>3. Leaves(Len(<<>>)) = 0 /\ Rest(<<>>, 0 * Width) = <<>>
    <2>1. 0 * Width = 0
        BY VectorAssumption
    <2>2. SubSeq(<<>>, 1, 0) = <<>>
        BY SubSeqEmpty
    <2>. QED
        BY <2>1, <2>2 DEF Leaves, Rest
<1>4. 0 <= Span[1]
    BY SpanIs
<1>5. Holds(1, <<>>, <<>>, <<>>)
    BY <1>1, <1>2, <1>3, <1>4 DEF Holds
<1>. QED
    BY <1>5 DEF Represents, EmptyVector

(* f[i] is what the first i elements of t make of v.                       *)
GrownUpto(n, f, v, t) ==
    f = [i \in 0..n |-> IF i = 0 THEN v ELSE AppendTo(f[i - 1], t[i])]

(* A loop of append(), step by step.                                       *)
LEMMA GrownIs ==
    ASSUME NEW n \in Nat, NEW f, NEW v, NEW t, GrownUpto(n, f, v, t)
    PROVE  f[0] = v /\ \A i \in 0..n : i > 0 => f[i] = AppendTo(f[i - 1], t[i])
BY DEF GrownUpto

LEMMA GrownExists ==
    ASSUME NEW n \in Nat, NEW v, NEW t
    PROVE  \E f : GrownUpto(n, f, v, t)
<1>. DEFINE H == {i \in 0..n : \E f : GrownUpto(i, f, v, t)}
<1>1. 0 \in H
    <2>1. GrownUpto(0, [i \in 0..0 |-> v], v, t)
        BY DEF GrownUpto
    <2>. QED
        BY <2>1
<1>2. ASSUME NEW i \in 0..n, i \in H, i < n PROVE i + 1 \in H
    <2>1. PICK f : GrownUpto(i, f, v, t)
        BY <1>2
    <2>. DEFINE g == [j \in 0..(i + 1) |-> IF j <= i THEN f[j] ELSE AppendTo(f[i], t[i + 1])]
    <2>2. f[0] = v /\ \A j \in 0..i : j > 0 => f[j] = AppendTo(f[j - 1], t[j])
        BY <2>1, GrownIs
    <2>3. ASSUME NEW j \in 0..(i + 1)
          PROVE  g[j] = IF j = 0 THEN v ELSE AppendTo(g[j - 1], t[j])
        <3>1. CASE j <= i
            BY <2>2, <3>1
        <3>2. CASE j = i + 1
            <4>1. j # 0 /\ ~(j <= i) /\ j - 1 = i /\ i \in 0..(i + 1) /\ i <= i
                BY <3>2
            <4>2. g[i] = f[i] /\ g[j] = AppendTo(f[i], t[i + 1])
                BY <4>1
            <4>. HIDE DEF g
            <4>. QED
                BY <3>2, <4>1, <4>2
        <3>. QED
            BY <3>1, <3>2
    <2>4. GrownUpto(i + 1, g, v, t)
        <3>1. g = [j \in 0..(i + 1) |-> g[j]]
            OBVIOUS
        <3>. HIDE DEF g
        <3>. QED
            BY <2>3, <3>1 DEF GrownUpto
    <2>. QED
        BY <1>2, <2>4
<1>. HIDE DEF H
<1>3. 0..n \subseteq H
    BY ONLY n \in Nat, <1>1, <1>2, Upward
<1>. QED
    BY <1>3 DEF H

LEMMA OneMore ==
    ASSUME NEW S, NEW s \in Seq(S), NEW t \in Seq(S), NEW i \in Nat, i < Len(t)
    PROVE  /\ s \o SubSeq(t, 1, i) \in Seq(S) /\ t[i + 1] \in S
           /\ s \o SubSeq(t, 1, i + 1) = Append(s \o SubSeq(t, 1, i), t[i + 1])
<1>1. /\ 1 \in 1..Len(t) /\ i + 1 \in 1..Len(t) /\ i + 1 \in Nat /\ Len(t) \in Nat
      /\ (i + 1) - 1 = i
    BY LenProperties
<1>2. t[i + 1] \in S
    BY <1>1, ElementOfSeq
<1>3. SubSeq(t, 1, i) \in Seq(S)
    <2>1. \A j \in 1..i : t[j] \in S
        BY <1>1, ElementOfSeq
    <2>. QED
        BY <2>1, SubSeqProperties
<1>4. SubSeq(t, 1, i + 1) = SubSeq(t, 1, i) \o <<t[i + 1]>>
    BY <1>1, SubSeqRecursiveSecond
<1>5. <<t[i + 1]>> \in Seq(S)
    BY <1>2
<1>6. s \o (SubSeq(t, 1, i) \o <<t[i + 1]>>) = (s \o SubSeq(t, 1, i)) \o <<t[i + 1]>>
    BY <1>3, <1>5, ConcatAssociative
<1>7. s \o SubSeq(t, 1, i) \in Seq(S)
    BY <1>3, ConcatProperties
<1>8. (s \o SubSeq(t, 1, i)) \o <<t[i + 1]>> = Append(s \o SubSeq(t, 1, i), t[i + 1])
    BY <1>2, <1>7, AppendIsConcat
<1>. QED
    BY <1>2, <1>4, <1>6, <1>7, <1>8

(* __add__ appends the elements one by one.                                *)
LEMMA ExtendedIs ==
    ASSUME NEW S, NEW s \in Seq(S), NEW t \in Seq(S), NEW v, Represents(v, s)
    PROVE  Represents(Extended(v, t), s \o t)
<1>1. PICK n \in Nat : n = Len(t)
    BY LenProperties
<1>. DEFINE f == CHOOSE g : GrownUpto(n, g, v, t)
<1>2. Extended(v, t) = f[n]
    BY <1>1 DEF Extended, GrownUpto
<1>3. GrownUpto(n, f, v, t)
    BY GrownExists
<1>. HIDE DEF f
<1>4. f[0] = v /\ \A i \in 0..n : i > 0 => f[i] = AppendTo(f[i - 1], t[i])
    BY <1>3, GrownIs
<1>. DEFINE H == {i \in 0..n : Represents(f[i], s \o SubSeq(t, 1, i))}
<1>5. 0 \in H
    <2>1. SubSeq(t, 1, 0) = <<>>
        BY SubSeqEmpty
    <2>2. s \o <<>> = s
        BY ConcatEmptySeq
    <2>3. s \o SubSeq(t, 1, 0) = s /\ f[0] = v /\ 0 \in 0..n
        BY <1>4, <2>1, <2>2
    <2>4. Represents(f[0], s \o SubSeq(t, 1, 0))
        BY <2>3
    <2>. QED
        BY <2>3, <2>4
<1>6. ASSUME NEW i \in 0..n, i \in H, i < n PROVE i + 1 \in H
    <2>1. /\ i + 1 \in 0..n /\ i + 1 > 0 /\ (i + 1) - 1 = i /\ i < Len(t) /\ i \in Nat
        BY <1>1, <1>6
    <2>2. f[i + 1] = AppendTo(f[i], t[i + 1])
        BY <1>4, <2>1
    <2>3. /\ s \o SubSeq(t, 1, i) \in Seq(S) /\ t[i + 1] \in S
          /\ s \o SubSeq(t, 1, i + 1) = Append(s \o SubSeq(t, 1, i), t[i + 1])
        BY <2>1, OneMore
    <2>4. Represents(f[i], s \o SubSeq(t, 1, i))
        BY <1>6
    <2>5. Represents(AppendTo(f[i], t[i + 1]), Append(s \o SubSeq(t, 1, i), t[i + 1]))
        BY <2>3, <2>4, AppendToIs
    <2>. QED
        BY <2>1, <2>2, <2>3, <2>5
<1>. HIDE DEF H
<1>7. 0..n \subseteq H
    BY ONLY n \in Nat, <1>5, <1>6, Upward
<1>8. Represents(f[n], s \o SubSeq(t, 1, n))
    BY <1>7 DEF H
<1>9. SubSeq(t, 1, n) = t
    BY <1>1, SubSeqFull
<1>. QED
    BY <1>2, <1>8, <1>9

(* So does from_list, to an empty vector.                                  *)
LEMMA FromListIs ==
    ASSUME NEW S, NEW s \in Seq(S)
    PROVE  Represents(FromList(s), s)
<1>1. <<>> \in Seq(S)
    OBVIOUS
<1>2. Represents(Extended(EmptyVector, s), <<>> \o s)
    BY <1>1, EmptyIs, ExtendedIs
<1>3. <<>> \o s = s
    BY ConcatEmptySeq
<1>. QED
    BY <1>2, <1>3 DEF FromList

-----------------------------------------------------------------------------
(* The specification.                                                      *)

(* The vector is what iteration says it holds, and so is what a builder    *)
(* was given.                                                              *)
VectorInv ==
    /\ Iterate(vector) \in Seq(Elements) /\ Represents(vector, Iterate(vector))
    /\ transient = NoTransient \/ transient \in [items : Seq(Elements), frozen : BOOLEAN]

(* The next version of the vector holds t.                                 *)
Becomes(t) == Iterate(vector)' = t /\ t \in Seq(Elements) /\ Represents(vector', t)

LEMMA BecomesIs ==
    ASSUME NEW t \in Seq(Elements), Represents(vector', t)
    PROVE  Becomes(t)
<1>1. PICK v : v = vector'
    OBVIOUS
<1>2. Iterate(v) = t
    BY <1>1, IterateIs
<1>. QED
    BY <1>1, <1>2 DEF Becomes, Iterate

LEMMA CountAsked ==
    ASSUME NEW S, NEW s \in Seq(S), NEW v, Represents(v, s)
    PROVE  v.count = Len(s) /\ Len(s) \in Nat
<1>1. PICK n, m, w \in Nat : Form(v, s, n, m, w)
    BY FormIs
<1>. QED
    BY <1>1 DEF Form, Vector

LEMMA ElementsAre ==
    /\ Changed \in Elements /\ \A n \in Nat : n \in Elements
    /\ MaxLength \in Nat
    /\ NoTransient \notin Seq(Elements)
    /\ NoTransient \notin [items : Seq(Elements), frozen : BOOLEAN]
BY TransientAssumption DEF Elements

(* What the actions do to the sequence.                                    *)
LEMMA AppendStep ==
    ASSUME VectorInv, VectorAppend
    PROVE  Becomes(Append(Iterate(vector), Len(Iterate(vector))))
<1>. DEFINE s == Iterate(vector)
<1>1. s \in Seq(Elements) /\ Represents(vector, s)
    BY DEF VectorInv
<1>. HIDE DEF s
<1>2. vector.count = Len(s) /\ Len(s) \in Nat
    BY <1>1, CountAsked
<1>3. Len(s) \in Elements
    BY <1>2, ElementsAre
<1>4. vector' = AppendTo(vector, Len(s))
    BY <1>2 DEF VectorAppend, Gives
<1>5. Represents(vector', Append(s, Len(s)))
    BY <1>1, <1>3, <1>4, AppendToIs
<1>6. Append(s, Len(s)) \in Seq(Elements)
    BY <1>1, <1>3, AppendProperties
<1>7. Becomes(Append(s, Len(s)))
    BY <1>5, <1>6, BecomesIs
<1>. QED
    BY <1>7 DEF s

LEMMA ExtendStep ==
    ASSUME VectorInv, NEW n \in Nat, Extend(n)
    PROVE  LET s == Iterate(vector)
               t == [j \in 1..n |-> Len(s) + j - 1]
           IN  Becomes(s \o t) /\ t \in Seq(Elements) /\ Len(t) = n
<1>. DEFINE s == Iterate(vector)
            t == [j \in 1..n |-> Len(s) + j - 1]
<1>1. s \in Seq(Elements) /\ Represents(vector, s)
    BY DEF VectorInv
<1>. HIDE DEF s
<1>2. vector.count = Len(s) /\ Len(s) \in Nat
    BY <1>1, CountAsked
<1>3. t \in [1..n -> Elements]
    <2>1. \A j \in 1..n : Len(s) + j - 1 \in Nat
        BY <1>2
    <2>. QED
        BY <2>1, ElementsAre
<1>4. t \in Seq(Elements) /\ Len(t) = n
    BY ONLY <1>3, n \in Nat, TupleIs
<1>5. vector' = Extended(vector, t)
    BY <1>2 DEF Extend, Gives
<1>. HIDE DEF t
<1>6. Represents(vector', s \o t)
    BY <1>1, <1>4, <1>5, ExtendedIs
<1>7. s \o t \in Seq(Elements)
    BY <1>1, <1>4, ConcatProperties
<1>8. Becomes(s \o t)
    BY <1>6, <1>7, BecomesIs
<1>. QED
    BY <1>4, <1>8 DEF s, t

LEMMA SliceStep ==
    ASSUME VectorInv, NEW n \in Nat, Slice(n)
    PROVE  n <= Len(Iterate(vector)) /\ Becomes(SubSeq(Iterate(vector), 1, n))
<1>. DEFINE s == Iterate(vector)
<1>1. s \in Seq(Elements) /\ Represents(vector, s)
    BY DEF VectorInv
<1>2. vector' = FromList(SubSeq(s, 1, n)) /\ n <= vector.count
    BY DEF Slice, Gives
<1>. HIDE DEF s
<1>3. vector.count = Len(s) /\ Len(s) \in Nat
    BY <1>1, CountAsked
<1>4. SubSeq(s, 1, n) \in Seq(Elements)
    <2>1. \A j \in 1..n : s[j] \in Elements
        BY <1>1, <1>2, <1>3, ElementOfSeq
    <2>. QED
        BY <2>1, SubSeqProperties
<1>5. Represents(vector', SubSeq(s, 1, n))
    BY <1>2, <1>4, FromListIs
<1>6. Becomes(SubSeq(s, 1, n))
    BY <1>4, <1>5, BecomesIs
<1>. QED
    BY <1>2, <1>3, <1>6 DEF s

LEMMA ReplaceKeeps ==
    ASSUME NEW S, NEW s \in Seq(S), NEW x \in S, NEW i
    PROVE  ReplaceAt(s, i, x) \in Seq(S) /\ Len(ReplaceAt(s, i, x)) = Len(s)
<1>1. PICK n \in Nat : n = Len(s) /\ s \in [1..n -> S]
    BY LenProperties
<1>2. [s EXCEPT ![i] = x] \in [1..n -> S]
    BY <1>1
<1>3. [s EXCEPT ![i] = x] \in Seq(S) /\ Len([s EXCEPT ![i] = x]) = n
    BY ONLY <1>2, n \in Nat, TupleIs
<1>. QED
    BY <1>1, <1>3 DEF ReplaceAt

LEMMA SetStep ==
    ASSUME VectorInv, NEW i \in Indexes, VectorSet(i)
    PROVE  LET s == Iterate(vector)
           IN  /\ i \in -Len(s)..(Len(s) - 1)
               /\ Becomes([s EXCEPT ![Plain!Position(s, i)] = Changed])
<1>. DEFINE s == Iterate(vector)
<1>1. s \in Seq(Elements) /\ Represents(vector, s)
    BY DEF VectorInv
<1>. HIDE DEF s
<1>2. vector.count = Len(s) /\ Len(s) \in Nat
    BY <1>1, CountAsked
<1>3. i \in -Len(s)..(Len(s) - 1)
    BY <1>2 DEF VectorSet, InRange
<1>4. PICK p \in Nat : p = Proper(i) /\ p < Len(s) /\ Plain!Position(s, i) = p + 1
    <2>1. CASE i < 0
        BY <1>2, <1>3, <2>1 DEF Proper, Plain!Position
    <2>2. CASE ~(i < 0)
        BY <1>2, <1>3, <2>2 DEF Proper, Plain!Position
    <2>. QED
        BY <2>1, <2>2
<1>5. vector' = SetAt(vector, p, Changed)
    BY <1>4 DEF VectorSet, Gives
<1>6. Represents(vector', ReplaceAt(s, p + 1, Changed))
    BY <1>1, <1>4, <1>5, ElementsAre, SetAtIs
<1>7. ReplaceAt(s, p + 1, Changed) \in Seq(Elements)
    BY <1>1, ElementsAre, ReplaceKeeps
<1>8. Becomes(ReplaceAt(s, p + 1, Changed))
    BY <1>6, <1>7, BecomesIs
<1>9. Becomes([s EXCEPT ![p + 1] = Changed])
    BY <1>8 DEF ReplaceAt
<1>. QED
    BY <1>3, <1>4, <1>9 DEF s

LEMMA GetStep ==
    ASSUME VectorInv, NEW i \in Indexes, Get(i)
    PROVE  LET s == Iterate(vector)
           IN  /\ i \in -Len(s)..(Len(s) - 1)
               /\ asked' = <<"get", i, s[Plain!Position(s, i)]>>
<1>. DEFINE s == Iterate(vector)
<1>1. s \in Seq(Elements) /\ Represents(vector, s)
    BY DEF VectorInv
<1>. HIDE DEF s
<1>2. vector.count = Len(s) /\ Len(s) \in Nat
    BY <1>1, CountAsked
<1>3. i \in -Len(s)..(Len(s) - 1)
    BY <1>2 DEF Get, InRange
<1>4. PICK p \in Nat : p = Proper(i) /\ p < Len(s) /\ Plain!Position(s, i) = p + 1
    <2>1. CASE i < 0
        BY <1>2, <1>3, <2>1 DEF Proper, Plain!Position
    <2>2. CASE ~(i < 0)
        BY <1>2, <1>3, <2>2 DEF Proper, Plain!Position
    <2>. QED
        BY <2>1, <2>2
<1>5. GetAt(vector, p) = s[p + 1]
    BY <1>1, <1>4, GetAtIs
<1>6. asked' = <<"get", i, GetAt(vector, p)>>
    BY <1>4 DEF Get
<1>. QED
    BY <1>3, <1>4, <1>5, <1>6 DEF s

LEMMA KeepsInv ==
    ASSUME VectorInv, UNCHANGED vector,
           transient' = NoTransient \/ transient' \in [items : Seq(Elements), frozen : BOOLEAN]
    PROVE  VectorInv' /\ Iterate(vector)' = Iterate(vector)
<1>1. Iterate(vector)' = Iterate(vector)
    BY DEF Iterate
<1>. QED
    BY <1>1 DEF VectorInv, Represents

LEMMA BecomesInv ==
    ASSUME NEW t, Becomes(t),
           transient' = NoTransient \/ transient' \in [items : Seq(Elements), frozen : BOOLEAN]
    PROVE  VectorInv'
<1>1. /\ Iterate(vector)' \in Seq(Elements)
      /\ Represents(vector', Iterate(vector)')
    BY DEF Becomes
<1>2. Represents(vector, Iterate(vector))'
    BY <1>1 DEF Represents
<1>. QED
    BY <1>1, <1>2 DEF VectorInv

(* The invariant and the first state of the sequence.                      *)
LEMMA VectorInitOK == VectorInit => VectorInv /\ Plain!Init
<1>. SUFFICES ASSUME VectorInit PROVE VectorInv /\ Plain!Init
    OBVIOUS
<1>1. vector = EmptyVector /\ transient = NoTransient /\ asked = <<"new">>
    BY DEF VectorInit
<1>2. <<>> \in Seq(Elements)
    OBVIOUS
<1>3. Iterate(vector) = <<>>
    BY <1>1, <1>2, EmptyIs, IterateIs
<1>4. VectorInv
    BY <1>1, <1>2, <1>3, EmptyIs DEF VectorInv
<1>. QED
    BY <1>1, <1>3, <1>4 DEF Plain!Init

(* A step of the vector is one of the sequence.                            *)
LEMMA VectorStepOK ==
    ASSUME VectorInv, [VectorNext]_vectorVars
    PROVE  VectorInv' /\ [Plain!Next]_(Plain!vars)
<1>. DEFINE s == Iterate(vector)
            Goal == VectorInv' /\ [Plain!Next]_(Plain!vars)
            Held == transient \in [items : Seq(Elements), frozen : BOOLEAN]
<1>1. s \in Seq(Elements) /\ (transient = NoTransient \/ Held)
    BY DEF VectorInv
<1>2. Len(s) \in Nat /\ vector.count = Len(s)
    BY <1>1, CountAsked DEF VectorInv
<1>3. CASE VectorAppend
    <2>1. Becomes(Append(s, Len(s)))
        BY <1>3, AppendStep
    <2>2. /\ transient = NoTransient /\ transient' = NoTransient /\ asked' = <<"append">>
          /\ Iterate(vector)' = Append(s, Len(s))
        BY <1>3, <2>1 DEF VectorAppend, Gives, Becomes
    <2>. HIDE DEF s
    <2>3. VectorInv'
        BY <2>1, <2>2, BecomesInv
    <2>4. Plain!Change
        BY <2>2 DEF Plain!Change, Plain!Edit, s
    <2>. QED
        BY <2>3, <2>4 DEF Plain!Next
<1>4. ASSUME NEW n \in 2..3, Extend(n) PROVE Goal
    <2>. DEFINE t == [j \in 1..n |-> Len(s) + j - 1]
    <2>1. n \in Nat
        BY <1>4
    <2>2. Becomes(s \o t) /\ t \in Seq(Elements) /\ Len(t) = n
        BY <1>4, <2>1, ExtendStep
    <2>3. /\ transient = NoTransient /\ transient' = NoTransient /\ asked' = <<"extend", n>>
          /\ Iterate(vector)' = s \o t
        BY <1>4, <2>2 DEF Extend, Gives, Becomes
    <2>4. n \in 1..Len(Iterate(vector)')
        <3>1. Len(s \o t) = Len(s) + n
            BY <1>1, <2>2, ConcatProperties
        <3>2. n \in 1..Len(s \o t)
            BY <1>2, <1>4, <3>1
        <3>. QED
            BY <2>3, <3>2
    <2>5. VectorInv'
        BY <2>2, <2>3, BecomesInv
    <2>6. Plain!Change
        BY <2>3, <2>4 DEF Plain!Change
    <2>. QED
        BY <2>5, <2>6 DEF Plain!Next
<1>5. ASSUME NEW n \in 0..MaxLength, Slice(n) PROVE Goal
    <2>1. n \in Nat
        BY ElementsAre
    <2>2. n <= Len(s) /\ Becomes(SubSeq(s, 1, n))
        BY <1>5, <2>1, SliceStep
    <2>3. /\ transient = NoTransient /\ transient' = NoTransient /\ asked' = <<"slice", n>>
          /\ Iterate(vector)' = SubSeq(s, 1, n)
        BY <1>5, <2>2 DEF Slice, Gives, Becomes
    <2>4. n \in 0..Len(s)
        BY <1>2, <2>1, <2>2
    <2>5. VectorInv'
        BY <2>2, <2>3, BecomesInv
    <2>6. Plain!Change
        BY <2>3, <2>4 DEF Plain!Change
    <2>. QED
        BY <2>5, <2>6 DEF Plain!Next
<1>6. ASSUME NEW i \in Indexes, VectorSet(i) PROVE Goal
    <2>. DEFINE t == [s EXCEPT ![Plain!Position(s, i)] = Changed]
    <2>1. i \in -Len(s)..(Len(s) - 1) /\ Becomes(t)
        BY <1>6, SetStep
    <2>2. /\ transient = NoTransient /\ transient' = NoTransient /\ asked' = <<"set", i>>
          /\ Iterate(vector)' = t
        BY <1>6, <2>1 DEF VectorSet, Gives, Becomes
    <2>3. VectorInv'
        BY <2>1, <2>2, BecomesInv
    <2>4. Plain!Change
        BY <2>1, <2>2 DEF Plain!Change, Plain!Edit
    <2>. QED
        BY <2>3, <2>4 DEF Plain!Next
<1>7. ASSUME NEW i \in Indexes, Get(i) PROVE Goal
    <2>1. /\ i \in -Len(s)..(Len(s) - 1)
          /\ asked' = <<"get", i, s[Plain!Position(s, i)]>>
        BY <1>7, GetStep
    <2>2. UNCHANGED <<vector, transient>>
        BY <1>7 DEF Get
    <2>3. VectorInv' /\ Iterate(vector)' = Iterate(vector)
        BY <1>1, <2>2, KeepsInv
    <2>4. Plain!Get
        BY <2>1, <2>2, <2>3 DEF Plain!Get
    <2>. QED
        BY <2>3, <2>4 DEF Plain!Next
<1>8. ASSUME NEW i \in Indexes, OutOfRange(i) PROVE Goal
    <2>1. UNCHANGED <<vector, transient>> /\ asked' = <<"IndexError", i>>
        BY <1>8 DEF OutOfRange
    <2>2. i \in {-Len(s) - 1, Len(s)}
        <3>1. i \in -(Len(s) + 1)..Len(s) /\ i \notin -Len(s)..(Len(s) - 1)
            BY <1>2, <1>8 DEF OutOfRange, InRange, Indexes
        <3>. QED
            BY <1>2, <3>1
    <2>3. VectorInv' /\ Iterate(vector)' = Iterate(vector)
        BY <1>1, <2>1, KeepsInv
    <2>4. Plain!Raise
        BY <2>1, <2>2, <2>3 DEF Plain!Raise
    <2>. QED
        BY <2>3, <2>4 DEF Plain!Next
<1>9. CASE VectorTransient
    <2>1. /\ transient = NoTransient /\ UNCHANGED vector /\ asked' = <<"transient">>
          /\ transient' = [items |-> s, frozen |-> FALSE]
        BY <1>9 DEF VectorTransient
    <2>. HIDE DEF s
    <2>2. transient' \in [items : Seq(Elements), frozen : BOOLEAN]
        BY <1>1, <2>1
    <2>3. VectorInv' /\ Iterate(vector)' = Iterate(vector)
        BY <2>1, <2>2, KeepsInv
    <2>4. transient' # NoTransient /\ transient'.items = s /\ transient'.frozen = FALSE
        BY <2>1, <2>2, ElementsAre
    <2>5. Plain!Open
        BY <2>1, <2>3, <2>4 DEF Plain!Open, s
    <2>. QED
        BY <2>3, <2>5 DEF Plain!Next
<1>10. ASSUME NEW t, Held, transient # NoTransient, ~transient.frozen, UNCHANGED vector,
              t \in Seq(Elements), transient' = [transient EXCEPT !.items = t],
              \/ asked' = <<"append">> /\ t = Append(transient.items, Len(transient.items))
              \/ \E i \in -Len(transient.items)..(Len(transient.items) - 1) :
                    /\ asked' = <<"set", i>>
                    /\ t = [transient.items EXCEPT
                              ![Plain!Position(transient.items, i)] = Changed]
       PROVE  Goal
    <2>1. /\ transient' \in [items : Seq(Elements), frozen : BOOLEAN]
          /\ transient'.items = t /\ transient'.frozen = FALSE
        BY <1>10
    <2>2. transient' # NoTransient /\ transient.items # NoTransient
        BY <1>10, <2>1, ElementsAre
    <2>3. VectorInv' /\ Iterate(vector)' = Iterate(vector)
        BY <1>10, <2>1, KeepsInv
    <2>4. Plain!Write
        BY <1>10, <2>1, <2>2, <2>3 DEF Plain!Write, Plain!Edit
    <2>. QED
        BY <2>3, <2>4 DEF Plain!Next
<1>11. CASE BuilderAppend
    <2>. DEFINE b == transient.items
    <2>1. /\ Held /\ transient # NoTransient /\ ~transient.frozen /\ UNCHANGED vector
          /\ asked' = <<"append">> /\ transient' = [transient EXCEPT !.items = Append(b, Len(b))]
        BY <1>1, <1>11 DEF BuilderAppend, Stores
    <2>2. Append(b, Len(b)) \in Seq(Elements)
        <3>1. b \in Seq(Elements)
            BY <2>1
        <3>2. Len(b) \in Elements
            BY <3>1, LenProperties, ElementsAre
        <3>. QED
            BY <3>1, <3>2, AppendProperties
    <2>. QED
        BY <1>10, <2>1, <2>2
<1>12. ASSUME NEW i \in 0..(MaxLength - 1), BuilderSetItem(i) PROVE Goal
    <2>. DEFINE b == transient.items
    <2>1. /\ Held /\ transient # NoTransient /\ ~transient.frozen /\ UNCHANGED vector
          /\ asked' = <<"set", i>> /\ i \in 0..(Len(b) - 1)
          /\ transient' = [transient EXCEPT !.items = ReplaceAt(b, i + 1, Changed)]
        BY <1>1, <1>12 DEF BuilderSetItem, Stores
    <2>2. b \in Seq(Elements)
        BY <2>1
    <2>3. ReplaceAt(b, i + 1, Changed) \in Seq(Elements)
        BY <2>2, ElementsAre, ReplaceKeeps
    <2>4. i \in -Len(b)..(Len(b) - 1) /\ Plain!Position(b, i) = i + 1
        BY <2>1, <2>2, LenProperties DEF Plain!Position
    <2>5. ReplaceAt(b, i + 1, Changed) = [b EXCEPT ![Plain!Position(b, i)] = Changed]
        BY <2>4 DEF ReplaceAt
    <2>. QED
        BY <1>10, <2>1, <2>3, <2>4, <2>5
<1>13. CASE VectorLeave
    <2>1. /\ Held /\ transient # NoTransient /\ ~transient.frozen /\ UNCHANGED vector
          /\ asked' = <<"leave">> /\ transient' = [transient EXCEPT !.frozen = TRUE]
        BY <1>1, <1>13 DEF VectorLeave
    <2>2. /\ transient' \in [items : Seq(Elements), frozen : BOOLEAN]
          /\ transient'.items = transient.items /\ transient'.frozen = TRUE
        BY <2>1
    <2>3. transient' # NoTransient /\ transient.items # NoTransient
        BY <2>1, <2>2, ElementsAre
    <2>4. VectorInv' /\ Iterate(vector)' = Iterate(vector)
        BY <2>1, <2>2, KeepsInv
    <2>5. Plain!Leave
        BY <2>1, <2>2, <2>3, <2>4 DEF Plain!Leave
    <2>. QED
        BY <2>4, <2>5 DEF Plain!Next
<1>14. CASE VectorPersistent
    <2>1. /\ Held /\ transient # NoTransient /\ transient' = NoTransient
          /\ asked' = <<"persistent">> /\ vector' = FromList(transient.items)
        BY <1>1, <1>14 DEF VectorPersistent
    <2>2. transient.items \in Seq(Elements) /\ transient.items # NoTransient
        BY <2>1, ElementsAre
    <2>3. Becomes(transient.items)
        <3>1. PICK t \in Seq(Elements) : t = transient.items
            BY <2>2
        <3>2. Represents(vector', t)
            BY <2>1, <3>1, FromListIs
        <3>3. Becomes(t)
            BY <3>2, BecomesIs
        <3>. QED
            BY <2>2, <3>1, <3>3
    <2>4. VectorInv'
        BY <2>1, <2>3, BecomesInv
    <2>5. Plain!Freeze
        BY <2>1, <2>2, <2>3 DEF Plain!Freeze, Becomes
    <2>. QED
        BY <2>4, <2>5 DEF Plain!Next
<1>15. CASE UNCHANGED vectorVars
    <2>1. UNCHANGED vector /\ UNCHANGED transient /\ UNCHANGED asked
        BY <1>15 DEF vectorVars
    <2>2. VectorInv' /\ Iterate(vector)' = Iterate(vector)
        BY <1>1, <2>1, KeepsInv
    <2>. QED
        BY <2>1, <2>2 DEF Plain!vars
<1>. QED
    BY <1>3, <1>4, <1>5, <1>6, <1>7, <1>8, <1>9, <1>11, <1>12, <1>13, <1>14, <1>15 DEF VectorNext

(* A vector is a sequence, for every branch factor and every length        *)
(* (persistent_vector.py:22-104, 137-143, 182-228):                        *)
(* whatever levels the trie has grown by and wherever the boundary of the  *)
(* tail is, append(), set(), indexing from either end, + and slices, and   *)
(* the builder, give what they give on the list that iteration yields.     *)
THEOREM Implements == VectorSpec => ImplementsSequence
<1>1. VectorInit => VectorInv /\ Plain!Init
    BY VectorInitOK
<1>2. VectorInv /\ [VectorNext]_vectorVars => VectorInv' /\ [Plain!Next]_(Plain!vars)
    BY VectorStepOK
<1>. QED
    BY <1>1, <1>2, PTL DEF VectorSpec, ImplementsSequence, Plain!Spec

(* Whatever append() and set() have done (persistent_vector.py:43-79,      *)
(* 182-219), in every version the nodes of the trie are exactly those      *)
(* that its length calls for: leaves that are full, Width nodes in each    *)
(* node but the last of its level, a tail of 1 to Width elements unless    *)
(* the vector is empty, and as many levels as the leaves need to be        *)
(* reached.                                                                *)
THEOREM Shape == VectorSpec => []VectorInv
<1>1. VectorInv /\ [VectorNext]_vectorVars => VectorInv'
    BY VectorStepOK
<1>. QED
    BY <1>1, VectorInitOK, PTL DEF VectorSpec
=============================================================================
