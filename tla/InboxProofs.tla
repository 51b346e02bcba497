---------------------------- MODULE InboxProofs ----------------------------
(***************************************************************************)
(* Proofs about the inbox, for any number of senders, any kinds, any       *)
(* capacity and any policy: nobody waits in vain, and the inbox implements *)
(* a mailbox.                                                              *)
(***************************************************************************)
EXTENDS InboxMailbox, SequenceTheorems, TLAPS

(* The sequence without its i-th element.                                  *)
LEMMA WithoutIs ==
    ASSUME NEW S, NEW s \in Seq(S), NEW i \in 1..Len(s)
    PROVE  /\ Without(s, i) \in Seq(S)
           /\ Len(Without(s, i)) = Len(s) - 1
           /\ \A j \in 1..(Len(s) - 1) :
                 /\ j < i  => Without(s, i)[j] = s[j]
                 /\ j >= i => Without(s, i)[j] = s[j + 1]
<1>. DEFINE l == Len(s)
            f == SubSeq(s, 1, i - 1)
            b == SubSeq(s, i + 1, l)
<1>1. l \in Nat /\ i \in 1..l /\ \A j \in 1..l : s[j] \in S
  BY LenProperties, ElementOfSeq
<1>. HIDE DEF l
<1>2. /\ f \in Seq(S)
      /\ Len(f) = i - 1
      /\ \A j \in 1..(i - 1) : f[j] = s[j]
  <2>1. \A j \in 1..(i - 1) : s[j] \in S
    BY <1>1
  <2>2. /\ f \in Seq(S)
        /\ Len(f) = IF 1 <= i - 1 THEN (i - 1) - 1 + 1 ELSE 0
        /\ \A j \in 1..((i - 1) - 1 + 1) : f[j] = s[1 + j - 1]
    BY <2>1, <1>1, SubSeqProperties
  <2>. HIDE DEF f
  <2>. QED
    BY <2>2, <1>1
<1>3. /\ b \in Seq(S)
      /\ Len(b) = l - i
      /\ \A j \in 1..(l - i) : b[j] = s[i + j]
  <2>1. \A j \in (i + 1)..l : s[j] \in S
    BY <1>1
  <2>2. /\ b \in Seq(S)
        /\ Len(b) = IF i + 1 <= l THEN l - (i + 1) + 1 ELSE 0
        /\ \A j \in 1..(l - (i + 1) + 1) : b[j] = s[(i + 1) + j - 1]
    BY <2>1, <1>1, SubSeqProperties
  <2>. HIDE DEF b
  <2>3. \A j \in 1..(l - i) : j \in 1..(l - (i + 1) + 1) /\ (i + 1) + j - 1 = i + j
    BY <1>1
  <2>4. \A j \in 1..(l - i) : b[j] = s[i + j]
    BY <2>2, <2>3
  <2>5. Len(b) = l - i
    BY <2>2, <1>1
  <2>. QED
    BY <2>2, <2>4, <2>5
<1>4. Without(s, i) = f \o b
  BY DEF Without, l
<1>. HIDE DEF f, b
<1>5. /\ f \o b \in Seq(S)
      /\ Len(f \o b) = Len(f) + Len(b)
      /\ \A j \in 1..(Len(f) + Len(b)) :
            (f \o b)[j] = IF j <= Len(f) THEN f[j] ELSE b[j - Len(f)]
  BY <1>2, <1>3, ConcatProperties
<1>6. ASSUME NEW j \in 1..(l - 1), j < i
      PROVE  (f \o b)[j] = s[j]
  <2>1. j \in 1..(Len(f) + Len(b)) /\ j <= Len(f) /\ j \in 1..(i - 1)
    BY <1>1, <1>2, <1>3, <1>6
  <2>. QED
    BY <2>1, <1>2, <1>5
<1>7. ASSUME NEW j \in 1..(l - 1), j >= i
      PROVE  (f \o b)[j] = s[j + 1]
  <2>1. j \in 1..(Len(f) + Len(b)) /\ ~(j <= Len(f)) /\ j - Len(f) = j - i + 1
        /\ j - i + 1 \in 1..(l - i) /\ i + (j - i + 1) = j + 1
    BY <1>1, <1>2, <1>3, <1>7
  <2>2. (f \o b)[j] = b[j - i + 1]
    BY <2>1, <1>5
  <2>3. b[j - i + 1] = s[i + (j - i + 1)]
    BY <2>1, <1>3
  <2>. QED
    BY <2>1, <2>2, <2>3
<1>8. Len(f \o b) = l - 1
  BY <1>1, <1>2, <1>3, <1>5
<1>. QED
  BY <1>4, <1>5, <1>6, <1>7, <1>8 DEF l

(* Removing one message from a deque.                                      *)
LEMMA WithoutElements ==
    ASSUME NEW s \in Seq(Message), NEW i \in 1..Len(s)
    PROVE  /\ Without(s, i) \in Seq(Message)
           /\ Len(Without(s, i)) = Len(s) - 1
           /\ \A j \in 1..(Len(s) - 1) :
                 /\ j < i  => Without(s, i)[j] = s[j]
                 /\ j >= i => Without(s, i)[j] = s[j + 1]
BY WithoutIs

-----------------------------------------------------------------------------
(* What every mailbox guarantees.  Its variables are those of the inbox    *)
(* that take their part; nothing is said here of how Box is made up.       *)

LEMMA MessagesLess ==
    ASSUME NEW s \in Seq(Message), NEW i \in 1..Len(s)
    PROVE  /\ M!Without(s, i) \in Seq(Message)
           /\ Len(M!Without(s, i)) = Len(s) - 1
           /\ Len(s) \in Nat /\ i \in Nat
           /\ \A j \in 1..(Len(s) - 1) :
                 /\ j < i  => M!Without(s, i)[j] = s[j]
                 /\ j >= i => M!Without(s, i)[j] = s[j + 1]
<1>1. Len(s) \in Nat /\ i \in Nat
  BY LenProperties
<1>2. /\ M!Without(s, i) \in Seq(Message)
      /\ Len(M!Without(s, i)) = Len(s) - 1
  BY WithoutElements DEF M!Without, Without
<1>3. \A j \in 1..(Len(s) - 1) :
         /\ j < i  => M!Without(s, i)[j] = s[j]
         /\ j >= i => M!Without(s, i)[j] = s[j + 1]
  BY WithoutElements DEF M!Without, Without
<1>. QED
  BY <1>1, <1>2, <1>3

(* A box that lists its messages in order still does without one of them,  *)
(* and holds the others.                                                   *)
Ascending(s) == \A i, j \in 1..Len(s) : i < j => s[i].id < s[j].id

LEMMA LessInOrder ==
    ASSUME NEW s \in Seq(Message), NEW i \in 1..Len(s), Ascending(s)
    PROVE  /\ M!Without(s, i) \in Seq(Message)
           /\ Ascending(M!Without(s, i))
           /\ \A j \in 1..Len(M!Without(s, i)) :
                 \E k \in 1..Len(s) : k # i /\ M!Without(s, i)[j] = s[k]
           /\ \A k \in 1..Len(s) : k # i =>
                 \E j \in 1..Len(M!Without(s, i)) : M!Without(s, i)[j] = s[k]
<1>. DEFINE w == M!Without(s, i)
            l == Len(s)
            at(j) == IF j < i THEN j ELSE j + 1
<1>1. /\ w \in Seq(Message) /\ Len(w) = l - 1 /\ l \in Nat /\ i \in 1..l /\ i \in Nat
      /\ \A j \in 1..(l - 1) : /\ j < i  => w[j] = s[j]
                               /\ j >= i => w[j] = s[j + 1]
  BY MessagesLess
<1>. HIDE DEF w
<1>2. ASSUME NEW j \in 1..(l - 1)
      PROVE  /\ at(j) \in 1..l /\ at(j) # i /\ w[j] = s[at(j)]
  <2>1. CASE j < i
    BY <1>1, <2>1
  <2>2. CASE j >= i
    BY <1>1, <2>2
  <2>. QED
    BY <1>1, <2>1, <2>2
<1>3. Ascending(w)
  <2>. SUFFICES ASSUME NEW j \in 1..(l - 1), NEW k \in 1..(l - 1), j < k
                PROVE  w[j].id < w[k].id
    BY <1>1 DEF Ascending
  <2>1. at(j) < at(k) /\ at(j) \in 1..l /\ at(k) \in 1..l
    BY <1>1
  <2>. HIDE DEF at
  <2>2. s[at(j)].id < s[at(k)].id
    BY <2>1 DEF Ascending
  <2>. QED
    BY <1>2, <2>2
<1>4. ASSUME NEW k \in 1..l, k # i
      PROVE  \E j \in 1..(l - 1) : w[j] = s[k]
  <2>1. CASE k < i
    <3>1. k \in 1..(l - 1) /\ at(k) = k
      BY <1>1, <2>1
    <3>. QED
      BY <1>2, <3>1
  <2>2. CASE k > i
    <3>1. k - 1 \in 1..(l - 1) /\ at(k - 1) = k
      BY <1>1, <2>2
    <3>. QED
      BY <1>2, <3>1
  <2>. QED
    BY <1>1, <1>4, <2>1, <2>2
<1>5. \A j \in 1..Len(w) : \E k \in 1..l : k # i /\ w[j] = s[k]
  <2>. HIDE DEF at, l
  <2>. QED
    BY <1>1, <1>2
<1>6. \A k \in 1..l : k # i => \E j \in 1..Len(w) : w[j] = s[k]
  BY <1>1, <1>4
<1>. QED
  BY <1>1, <1>3, <1>5, <1>6 DEF w

(* The numbers found in a sequence or a set of messages.                   *)
LEMMA NumbersOfSeq ==
    ASSUME NEW s, NEW n
    PROVE  n \in M!Numbers(M!Members(s)) <=> \E i \in 1..Len(s) : s[i].id = n
BY DEF M!Numbers, M!Members

LEMMA NumbersLess ==
    ASSUME NEW s \in Seq(Message), NEW i \in 1..Len(s), Ascending(s)
    PROVE  M!Numbers(M!Members(M!Without(s, i))) = M!Numbers(M!Members(s)) \ {s[i].id}
<1>. DEFINE w == M!Without(s, i)
<1>1. /\ \A j \in 1..Len(w) : \E k \in 1..Len(s) : k # i /\ w[j] = s[k]
      /\ \A k \in 1..Len(s) : k # i => \E j \in 1..Len(w) : w[j] = s[k]
  BY LessInOrder
<1>2. \A k \in 1..Len(s) : k # i => s[k].id # s[i].id
  <2>. SUFFICES ASSUME NEW k \in 1..Len(s), k # i PROVE s[k].id # s[i].id
    OBVIOUS
  <2>1. /\ Len(s) \in Nat /\ s[k] \in Message /\ s[i] \in Message
        /\ (k < i \/ i < k)
    BY LenProperties, ElementOfSeq
  <2>2. s[k].id \in Nat /\ s[i].id \in Nat
    BY <2>1 DEF Message
  <2>3. s[k].id < s[i].id \/ s[i].id < s[k].id
    BY <2>1 DEF Ascending
  <2>. QED
    BY <2>2, <2>3
<1>. HIDE DEF w
<1>3. ASSUME NEW n \in M!Numbers(M!Members(w))
      PROVE  n \in M!Numbers(M!Members(s)) \ {s[i].id}
  <2>1. PICK j \in 1..Len(w) : w[j].id = n
    BY NumbersOfSeq
  <2>2. PICK k \in 1..Len(s) : k # i /\ w[j] = s[k]
    BY <1>1
  <2>. QED
    BY <1>2, <2>1, <2>2, NumbersOfSeq
<1>4. ASSUME NEW n \in M!Numbers(M!Members(s)), n # s[i].id
      PROVE  n \in M!Numbers(M!Members(w))
  <2>1. PICK k \in 1..Len(s) : s[k].id = n
    BY NumbersOfSeq
  <2>2. k # i
    BY <1>4, <2>1
  <2>3. PICK j \in 1..Len(w) : w[j] = s[k]
    BY <1>1, <2>2
  <2>. QED
    BY <2>1, <2>3, NumbersOfSeq
<1>. QED
  BY <1>3, <1>4 DEF w

LEMMA NumbersMore ==
    ASSUME NEW s \in Seq(Message), NEW m \in Message
    PROVE  /\ Append(s, m) \in Seq(Message)
           /\ Len(Append(s, m)) = Len(s) + 1 /\ Len(s) \in Nat
           /\ \A i \in 1..Len(s) : Append(s, m)[i] = s[i]
           /\ Append(s, m)[Len(s) + 1] = m
           /\ M!Numbers(M!Members(Append(s, m))) = M!Numbers(M!Members(s)) \cup {m.id}
<1>. DEFINE t == Append(s, m)
            l == Len(s)
<1>1. /\ t \in Seq(Message) /\ Len(t) = l + 1 /\ l \in Nat
      /\ \A i \in 1..l : t[i] = s[i]
      /\ t[l + 1] = m
  BY AppendProperties, LenProperties
<1>. HIDE DEF t, l
<1>2. /\ 1..l \subseteq 1..(l + 1) /\ l + 1 \in 1..(l + 1)
      /\ \A i \in 1..(l + 1) : i \in 1..l \/ i = l + 1
  BY <1>1
<1>3. ASSUME NEW n
      PROVE  n \in M!Numbers(M!Members(t)) <=> n \in M!Numbers(M!Members(s)) \cup {m.id}
  <2>1. n \in M!Numbers(M!Members(t)) <=> \E i \in 1..(l + 1) : t[i].id = n
    BY <1>1, NumbersOfSeq
  <2>2. n \in M!Numbers(M!Members(s)) <=> \E i \in 1..l : s[i].id = n
    BY NumbersOfSeq DEF l
  <2>3. (\E i \in 1..(l + 1) : t[i].id = n) <=> (\E i \in 1..l : s[i].id = n) \/ m.id = n
    BY <1>1, <1>2
  <2>. QED
    BY <2>1, <2>2, <2>3
<1>4. M!Numbers(M!Members(t)) = M!Numbers(M!Members(s)) \cup {m.id}
  BY <1>3
<1>. QED
  BY <1>1, <1>4 DEF t, l

LEMMA NumbersPlus ==
    ASSUME NEW E, NEW m
    PROVE  M!Numbers(E \cup {m}) = M!Numbers(E) \cup {m.id}
BY DEF M!Numbers

-----------------------------------------------------------------------------
MailShape ==
    /\ Box \in Seq(Message) /\ delivered \in Seq(Message)
    /\ accepted \in Nat
    /\ dropped \subseteq Message /\ lost \subseteq Message

MailInv == MailShape /\ M!Accounted /\ M!InOrder

(* The part of the invariant that does not depend on kinds, with the       *)
(* numbers in the four places.                                             *)
Split(B, T, E, L, n) ==
    /\ 1..n = B \cup T \cup E \cup L
    /\ B \cap T = {} /\ E \cap L = {}
    /\ (B \cup T) \cap (E \cup L) = {}

Distinct(s) == \A i, j \in 1..Len(s) : s[i].id = s[j].id => i = j

InBox   == M!Numbers(M!Members(Box))
InTaken == M!Numbers(M!Members(delivered))

LEMMA Parts ==
    /\ M!Accounted <=> /\ Split(InBox, InTaken, M!Numbers(dropped), M!Numbers(lost), accepted)
                     /\ Distinct(delivered)
    /\ M!InOrder => Ascending(Box)
BY DEF M!Accounted, M!InOrder, Split, Distinct, Ascending, InBox, InTaken

(* A message that is in the box at place i, and its number.                *)
LEMMA Member ==
    ASSUME MailInv, NEW i \in 1..Len(Box)
    PROVE  /\ Box[i] \in Message /\ Box[i].id \in InBox
           /\ Box[i].id \in 1..accepted
           /\ Box[i].id \notin InTaken \cup M!Numbers(dropped) \cup M!Numbers(lost)
<1>1. Box[i] \in Message
  BY ElementOfSeq DEF MailInv, MailShape
<1>2. Box[i].id \in InBox
  BY NumbersOfSeq DEF InBox
<1>. QED
  BY <1>1, <1>2, Parts DEF MailInv, Split

(* Take.                                                                   *)
LEMMA TakeInv ==
    ASSUME MailInv, M!Take
    PROVE  MailInv'
<1>1. PICK i \in 1..Len(Box) :
        /\ \A j \in 1..(i - 1) : Box[j].kind # Box[i].kind
        /\ Box' = M!Without(Box, i) /\ delivered' = Append(delivered, Box[i])
        /\ UNCHANGED <<accepted, dropped, lost, expiries>>
  BY DEF M!Take
<1>. DEFINE x == Box[i]
            l == Len(delivered)
<1>2. /\ x \in Message /\ x.id \in InBox /\ x.id \in 1..accepted
      /\ x.id \notin InTaken \cup M!Numbers(dropped) \cup M!Numbers(lost)
  BY Member
<1>3. /\ Box \in Seq(Message) /\ delivered \in Seq(Message) /\ Ascending(Box)
      /\ Split(InBox, InTaken, M!Numbers(dropped), M!Numbers(lost), accepted)
      /\ Distinct(delivered)
  BY Parts DEF MailInv, MailShape
<1>4. /\ Box' \in Seq(Message) /\ Ascending(Box')
      /\ \A j \in 1..Len(Box') : \E k \in 1..Len(Box) : k # i /\ Box'[j] = Box[k]
      /\ InBox' = InBox \ {x.id}
  <2>. DEFINE w == M!Without(Box, i)
  <2>0. /\ w \in Seq(Message) /\ Ascending(w)
        /\ \A j \in 1..Len(w) : \E k \in 1..Len(Box) : k # i /\ w[j] = Box[k]
    BY <1>3, LessInOrder
  <2>1. /\ Box' \in Seq(Message) /\ Ascending(M!Without(Box, i))
        /\ \A j \in 1..Len(Box') : \E k \in 1..Len(Box) : k # i /\ Box'[j] = Box[k]
    <3>1. Box' = w
      BY <1>1
    <3>2. Ascending(M!Without(Box, i))
      BY <2>0
    <3>. HIDE DEF w
    <3>. QED
      BY <2>0, <3>1, <3>2
  <2>2. Ascending(Box')
    BY <1>1, <2>1
  <2>3. InBox' = InBox \ {x.id}
    BY <1>1, <1>3, NumbersLess DEF InBox
  <2>. QED
    BY <2>1, <2>2, <2>3
<1>. HIDE DEF x
<1>5. /\ delivered' \in Seq(Message) /\ Len(delivered') = l + 1 /\ l \in Nat
      /\ \A j \in 1..l : delivered'[j] = delivered[j]
      /\ delivered'[l + 1] = x
      /\ InTaken' = InTaken \cup {x.id}
  BY <1>1, <1>2, <1>3, NumbersMore DEF InTaken, x
<1>. HIDE DEF l
<1>6. Split(InBox, InTaken, M!Numbers(dropped), M!Numbers(lost), accepted)'
  BY <1>1, <1>2, <1>3, <1>4, <1>5 DEF Split
<1>7. \A j \in 1..(l + 1) : j \in 1..l \/ j = l + 1
  BY <1>5
<1>8. \A j \in 1..l : delivered[j].id # x.id
  BY <1>2, NumbersOfSeq DEF InTaken, l
<1>9. Distinct(delivered)'
  <2>. SUFFICES ASSUME NEW j \in 1..(l + 1), NEW k \in 1..(l + 1),
                       delivered'[j].id = delivered'[k].id
                PROVE  j = k
    BY <1>5 DEF Distinct
  <2>1. CASE j \in 1..l /\ k \in 1..l
    BY <1>3, <1>5, <2>1 DEF Distinct, l
  <2>2. CASE j = l + 1 /\ k \in 1..l
    BY <1>5, <1>8, <2>2
  <2>3. CASE j \in 1..l /\ k = l + 1
    BY <1>5, <1>8, <2>3
  <2>. QED
    BY <1>7, <2>1, <2>2, <2>3
<1>10. ASSUME NEW j \in 1..l, delivered[j].kind = x.kind
       PROVE  delivered[j].id < x.id
  BY <1>10 DEF MailInv, M!InOrder, l, x
<1>11. ASSUME NEW j \in 1..(l + 1), NEW k \in 1..(l + 1), j < k,
              delivered'[j].kind = delivered'[k].kind
       PROVE  delivered'[j].id < delivered'[k].id
  <2>1. j \in 1..l
    BY <1>5, <1>11
  <2>2. CASE k \in 1..l
    BY <1>5, <1>11, <2>1, <2>2 DEF MailInv, M!InOrder, l
  <2>3. CASE k = l + 1
    BY <1>5, <1>10, <1>11, <2>1, <2>3
  <2>. QED
    BY <1>7, <2>2, <2>3
<1>12. ASSUME NEW j \in 1..(l + 1), NEW k \in 1..Len(Box'), delivered'[j].kind = Box'[k].kind
       PROVE  delivered'[j].id < Box'[k].id
  <2>1. PICK n \in 1..Len(Box) : n # i /\ Box'[k] = Box[n]
    BY <1>4
  <2>2. CASE j \in 1..l
    BY <1>5, <1>12, <2>1, <2>2 DEF MailInv, M!InOrder, l
  <2>3. CASE j = l + 1
    <3>1. Box[n].kind = x.kind /\ delivered'[j] = x
      BY <1>5, <1>12, <2>1, <2>3
    <3>2. i < n
      <4>1. n \notin 1..(i - 1)
        BY <1>1, <3>1 DEF x
      <4>2. Len(Box) \in Nat
        BY <1>3, LenProperties
      <4>. QED
        BY <2>1, <4>1, <4>2
    <3>3. x.id < Box[n].id
      BY <1>3, <3>2 DEF Ascending, x
    <3>. QED
      BY <2>1, <3>1, <3>3
  <2>. QED
    BY <1>7, <2>2, <2>3
<1>13. M!InOrder'
  BY <1>4, <1>5, <1>11, <1>12 DEF M!InOrder, Ascending
<1>14. M!Accounted'
  BY <1>6, <1>9 DEF M!Accounted, Split, Distinct, InBox, InTaken
<1>15. MailShape'
  BY <1>1, <1>4, <1>5 DEF MailInv, MailShape
<1>. QED
  BY <1>13, <1>14, <1>15 DEF MailInv

(* A message that enters behind messages that are in the box, and leaves   *)
(* the others of the box to the evicted.                                   *)
LEMMA EnterInv ==
    ASSUME MailInv, NEW k \in Kinds, NEW rest \in Seq(Message), M!Enter(k, rest),
           Ascending(rest),
           \A j \in 1..Len(rest) : \E n \in 1..Len(Box) : rest[j] = Box[n],
           dropped' \subseteq Message,
           Split(M!Numbers(M!Members(rest)), InTaken, M!Numbers(dropped'), M!Numbers(lost),
                 accepted)
    PROVE  MailInv'
<1>. DEFINE m == [id |-> accepted + 1, kind |-> k]
            l == Len(rest)
            R == M!Numbers(M!Members(rest))
<1>1. /\ accepted' = accepted + 1 /\ Box' = Append(rest, m)
      /\ UNCHANGED <<delivered, lost, expiries>>
  BY DEF M!Enter
<1>2. accepted \in Nat /\ m \in Message /\ m.id = accepted + 1 /\ m.kind = k
  BY DEF MailInv, MailShape, Message
<1>. HIDE DEF m
<1>3. /\ Box' \in Seq(Message) /\ Len(Box') = l + 1 /\ l \in Nat
      /\ \A j \in 1..l : Box'[j] = rest[j]
      /\ Box'[l + 1] = m
      /\ InBox' = R \cup {accepted + 1}
  BY <1>1, <1>2, NumbersMore DEF InBox
<1>4. \A j \in 1..l : rest[j].id \in 1..accepted
  <2>1. \A j \in 1..l : rest[j].id \in R
    BY NumbersOfSeq
  <2>. QED
    BY <2>1 DEF Split
<1>5. Split(InBox, InTaken, M!Numbers(dropped), M!Numbers(lost), accepted)'
  <2>. DEFINE T == InTaken
              E == M!Numbers(dropped')
              L == M!Numbers(lost)
              n == accepted
  <2>1. InTaken' = T /\ M!Numbers(lost') = L /\ accepted' = n + 1 /\ InBox' = R \cup {n + 1}
        /\ n \in Nat /\ Split(R, T, E, L, n)
    BY <1>1, <1>2, <1>3 DEF InTaken
  <2>2. 1..(n + 1) = (1..n) \cup {n + 1} /\ n + 1 \notin 1..n
    BY <2>1
  <2>. HIDE DEF T, E, L, R, n
  <2>3. Split(R \cup {n + 1}, T, E, L, n + 1)
    BY <2>1, <2>2 DEF Split
  <2>. QED
    BY <2>1, <2>3 DEF E
<1>. HIDE DEF l, R
<1>6. \A j \in 1..(l + 1) : j \in 1..l \/ j = l + 1
  BY <1>3
<1>7. ASSUME NEW i \in 1..(l + 1), NEW j \in 1..(l + 1), i < j
      PROVE  Box'[i].id < Box'[j].id
  <2>1. i \in 1..l
    BY <1>3, <1>7
  <2>2. CASE j \in 1..l
    BY <1>3, <1>7, <2>1, <2>2 DEF Ascending, l
  <2>3. CASE j = l + 1
    BY <1>2, <1>3, <1>4, <2>1, <2>3
  <2>. QED
    BY <1>6, <2>2, <2>3
<1>8. ASSUME NEW i \in 1..Len(delivered), NEW j \in 1..(l + 1), delivered[i].kind = Box'[j].kind
      PROVE  delivered[i].id < Box'[j].id
  <2>1. CASE j \in 1..l
    <3>1. PICK n \in 1..Len(Box) : rest[j] = Box[n]
      BY <2>1 DEF l
    <3>. QED
      BY <1>3, <1>8, <2>1, <3>1 DEF MailInv, M!InOrder
  <2>2. CASE j = l + 1
    <3>1. delivered[i].id \in 1..accepted
      BY NumbersOfSeq DEF Split, InTaken
    <3>. QED
      BY <1>2, <1>3, <2>2, <3>1
  <2>. QED
    BY <1>6, <2>1, <2>2
<1>9. M!InOrder'
  <2>1. \A i, j \in 1..Len(delivered) :
           i < j /\ delivered[i].kind = delivered[j].kind => delivered[i].id < delivered[j].id
    BY DEF MailInv, M!InOrder
  <2>. QED
    BY <1>1, <1>3, <1>7, <1>8, <2>1 DEF M!InOrder
<1>10. M!Accounted'
  <2>1. Distinct(delivered)'
    BY <1>1, Parts DEF MailInv, Distinct
  <2>. QED
    BY <1>5, <2>1 DEF M!Accounted, Split, Distinct, InBox, InTaken
<1>11. MailShape'
  BY <1>1, <1>2, <1>3 DEF MailInv, MailShape
<1>. QED
  BY <1>9, <1>10, <1>11 DEF MailInv

LEMMA MailAcceptInv ==
    ASSUME MailInv, NEW k \in Kinds, M!Accept(k)
    PROVE  MailInv'
<1>1. /\ Box \in Seq(Message) /\ dropped \subseteq Message /\ Ascending(Box)
      /\ Split(InBox, InTaken, M!Numbers(dropped), M!Numbers(lost), accepted)
  BY Parts DEF MailInv, MailShape
<1>2. M!Enter(k, Box) /\ dropped' = dropped
  BY DEF M!Accept
<1>. QED
  BY <1>1, <1>2, EnterInv DEF InBox

LEMMA EvictInv ==
    ASSUME MailInv, NEW k \in Kinds, M!Evict(k)
    PROVE  MailInv'
<1>1. PICK i \in 1..Len(Box) :
        M!Enter(k, M!Without(Box, i)) /\ dropped' = dropped \cup {Box[i]}
  BY DEF M!Evict
<1>. DEFINE r == M!Without(Box, i)
            x == Box[i]
<1>2. /\ x \in Message /\ x.id \in InBox
      /\ x.id \notin InTaken \cup M!Numbers(dropped) \cup M!Numbers(lost)
  BY Member
<1>3. /\ Box \in Seq(Message) /\ dropped \subseteq Message /\ Ascending(Box)
      /\ Split(InBox, InTaken, M!Numbers(dropped), M!Numbers(lost), accepted)
  BY Parts DEF MailInv, MailShape
<1>4. /\ r \in Seq(Message) /\ Ascending(r)
      /\ \A j \in 1..Len(r) : \E n \in 1..Len(Box) : r[j] = Box[n]
  BY <1>3, LessInOrder
<1>5. M!Numbers(M!Members(r)) = InBox \ {x.id}
  BY <1>3, NumbersLess DEF InBox
<1>6. M!Enter(k, r) /\ dropped' = dropped \cup {x}
  BY <1>1
<1>. HIDE DEF r, x
<1>7. M!Numbers(dropped') = M!Numbers(dropped) \cup {x.id}
  BY <1>6, NumbersPlus
<1>8. Split(M!Numbers(M!Members(r)), InTaken, M!Numbers(dropped'), M!Numbers(lost), accepted)
  BY <1>2, <1>3, <1>5, <1>7 DEF Split
<1>9. dropped' \subseteq Message
  BY <1>2, <1>3, <1>6
<1>. QED
  BY <1>4, <1>6, <1>8, <1>9, EnterInv

LEMMA ExpireInv ==
    ASSUME MailInv, M!Expire
    PROVE  MailInv'
<1>1. UNCHANGED <<delivered, accepted, dropped>>
  BY DEF M!Expire
<1>2. CASE UNCHANGED <<Box, lost>>
  BY <1>1, <1>2 DEF MailInv, MailShape, M!Accounted, M!InOrder
<1>3. ASSUME NEW i \in 1..Len(Box), Box' = M!Without(Box, i), lost' = lost \cup {Box[i]}
      PROVE  MailInv'
  <2>. DEFINE x == Box[i]
  <2>1. /\ x \in Message /\ x.id \in InBox
        /\ x.id \notin InTaken \cup M!Numbers(dropped) \cup M!Numbers(lost)
    BY Member
  <2>2. /\ Box \in Seq(Message) /\ lost \subseteq Message /\ Ascending(Box)
        /\ Split(InBox, InTaken, M!Numbers(dropped), M!Numbers(lost), accepted)
        /\ Distinct(delivered)
    BY Parts DEF MailInv, MailShape
  <2>3. /\ Box' \in Seq(Message) /\ Ascending(M!Without(Box, i))
        /\ \A j \in 1..Len(Box') : \E n \in 1..Len(Box) : n # i /\ Box'[j] = Box[n]
    BY <1>3, <2>2, LessInOrder
  <2>4. Ascending(Box')
    BY <1>3, <2>3
  <2>5. InBox' = InBox \ {x.id}
    BY <1>3, <2>2, NumbersLess DEF InBox
  <2>6. lost' = lost \cup {x}
    BY <1>3
  <2>. HIDE DEF x
  <2>7. M!Numbers(lost') = M!Numbers(lost) \cup {x.id}
    BY <2>6, NumbersPlus
  <2>8. InTaken' = InTaken /\ M!Numbers(dropped') = M!Numbers(dropped)
    BY <1>1 DEF InTaken
  <2>9. Split(InBox, InTaken, M!Numbers(dropped), M!Numbers(lost), accepted)'
    BY <1>1, <2>1, <2>2, <2>5, <2>7, <2>8 DEF Split
  <2>10. Distinct(delivered)'
    BY <1>1, <2>2 DEF Distinct
  <2>11. M!Accounted'
    BY <2>9, <2>10 DEF M!Accounted, Split, Distinct, InBox, InTaken
  <2>12. ASSUME NEW j \in 1..Len(delivered), NEW n \in 1..Len(Box'), delivered[j].kind = Box'[n].kind
         PROVE  delivered[j].id < Box'[n].id
    <3>1. PICK p \in 1..Len(Box) : Box'[n] = Box[p]
      BY <2>3
    <3>. QED
      BY <2>12, <3>1 DEF MailInv, M!InOrder
  <2>13. \A j, n \in 1..Len(delivered) :
            j < n /\ delivered[j].kind = delivered[n].kind => delivered[j].id < delivered[n].id
    BY DEF MailInv, M!InOrder
  <2>14. M!InOrder'
    BY <1>1, <2>4, <2>12, <2>13 DEF M!InOrder, Ascending
  <2>15. MailShape'
    BY <1>1, <2>1, <2>2, <2>3, <2>6 DEF MailInv, MailShape
  <2>. QED
    BY <2>11, <2>14, <2>15 DEF MailInv
<1>. QED
  BY <1>2, <1>3 DEF M!Expire

(* Nothing is forgotten, doubled or overtaken by a message of its kind, in *)
(* a mailbox of any kinds and any capacity.                                *)
THEOREM MailboxSafety == M!Spec => []MailInv
<1>1. M!Init => MailInv
  <2>. SUFFICES ASSUME M!Init PROVE MailInv
    OBVIOUS
  <2>1. Box = <<>> /\ delivered = <<>> /\ accepted = 0 /\ dropped = {} /\ lost = {}
    BY DEF M!Init
  <2>2. <<>> \in Seq(Message) /\ Len(<<>>) = 0 /\ 1..0 = {}
    BY EmptySeq
  <2>3. M!Numbers({}) = {} /\ M!Members(<<>>) = {}
    BY <2>2 DEF M!Numbers, M!Members
  <2>4. MailShape
    BY <2>1, <2>2 DEF MailShape
  <2>5. M!Accounted
    BY <2>1, <2>2, <2>3 DEF M!Accounted
  <2>6. M!InOrder
    BY <2>1, <2>2 DEF M!InOrder
  <2>. QED
    BY <2>4, <2>5, <2>6 DEF MailInv
<1>2. MailInv /\ [M!Next]_(M!vars) => MailInv'
  <2>. SUFFICES ASSUME MailInv, [M!Next]_(M!vars) PROVE MailInv'
    OBVIOUS
  <2>1. ASSUME NEW k \in Kinds, M!Accept(k) PROVE MailInv'
    BY <2>1, MailAcceptInv
  <2>2. ASSUME NEW k \in Kinds, M!Evict(k) PROVE MailInv'
    BY <2>2, EvictInv
  <2>3. CASE M!Take
    BY <2>3, TakeInv
  <2>4. CASE M!Expire
    BY <2>4, ExpireInv
  <2>5. CASE UNCHANGED (M!vars)
    BY <2>5 DEF M!vars, MailInv, MailShape, M!Accounted, M!InOrder
  <2>. QED
    BY <2>1, <2>2, <2>3, <2>4, <2>5 DEF M!Next
<1>. QED
  BY <1>1, <1>2, PTL DEF M!Spec
-----------------------------------------------------------------------------
(* Event.set() leaves no sender blocked and moves nobody else.             *)
LEMMA WokenType ==
    ASSUME NEW f \in [Senders -> {"idle", "blocked", "woken"}]
    PROVE  /\ Woken(f) \in [Senders -> {"idle", "blocked", "woken"}]
           /\ \A s \in Senders : /\ Woken(f)[s] # "blocked"
                                 /\ Woken(f)[s] = "idle" <=> f[s] = "idle"
BY DEF Woken

(* SignalRoom keeps the shape of the senders, keeps who is idle, and       *)
(* leaves a sender blocked only if the contents fill the inbox.            *)
LEMMA SignalRoomEffect ==
    ASSUME TypeOK, NEW st \in Seq(Message), NEW q \in Seq(Message),
           SignalRoom(st, q)
    PROVE  /\ notFull' \in BOOLEAN
           /\ sender' \in [Senders -> {"idle", "blocked", "woken"}]
           /\ \A s \in Senders : sender'[s] = "idle" <=> sender[s] = "idle"
           /\ \A s \in Senders : sender'[s] = "blocked" =>
                /\ sender[s] = "blocked"
                /\ ~(Len(st) + Len(q) < MaxSize)
<1>1. CASE Len(st) + Len(q) < MaxSize
  <2>1. notFull' = TRUE /\ sender' = Woken(sender)
    BY <1>1 DEF SignalRoom
  <2>2. sender \in [Senders -> {"idle", "blocked", "woken"}]
    BY DEF TypeOK
  <2>3. /\ Woken(sender) \in [Senders -> {"idle", "blocked", "woken"}]
        /\ \A s \in Senders : /\ Woken(sender)[s] # "blocked"
                              /\ Woken(sender)[s] = "idle" <=> sender[s] = "idle"
    BY ONLY <2>2, WokenType
  <2>. QED
    BY ONLY <2>1, <2>3
<1>2. CASE ~(Len(st) + Len(q) < MaxSize)
  BY <1>2 DEF SignalRoom, TypeOK
<1>. QED
  BY <1>1, <1>2

(* The tail of put() on contents st and q.                                 *)
LEMMA AcceptEffect ==
    ASSUME InboxAssumption, TypeOK,
           NEW s \in Senders, NEW k \in Kinds,
           NEW st \in Seq(Message), NEW q \in Seq(Message),
           Accept(s, st, q, k)
    PROVE  /\ accepted' \in Nat /\ stash' = st /\ queue' \in Seq(Message)
           /\ reader' = IF reader = "waiting" THEN "handed" ELSE reader
           /\ hand' \in Seq(Message)
           /\ Len(hand') = IF reader' = "handed" THEN 1 ELSE 0
           /\ stale' = 0 /\ notFull' \in BOOLEAN
           /\ sender' \in [Senders -> {"idle", "blocked", "woken"}]
           /\ sending' \in [Senders -> Kinds \cup {AnyKind}]
           /\ \A t \in Senders : sender'[t] = "idle" <=> sending'[t] = AnyKind
           /\ UNCHANGED <<closed, want, delivered, lost, expiries>>
           /\ Len(queue') = IF reader = "waiting" THEN Len(q) ELSE Len(q) + 1
           /\ \A t \in Senders : sender'[t] = "blocked" =>
                /\ sender[t] = "blocked"
                /\ reader = "waiting" => Len(st) + Len(queue') >= MaxSize
<1> DEFINE m    == [id |-> accepted + 1, kind |-> k]
           q1   == Append(q, m)
           left == [sender EXCEPT ![s] = "idle"]
<1>1. m \in Message
  BY DEF Message, TypeOK
<1>2. q1 \in Seq(Message) /\ q1 # <<>> /\ Len(q1) = Len(q) + 1
  BY <1>1, AppendProperties
<1>3. Head(q1) \in Message /\ Tail(q1) \in Seq(Message)
      /\ Len(Tail(q1)) = Len(q)
  BY <1>2, HeadTailProperties, LenProperties
<1>4. /\ queue' = IF reader = "waiting" THEN Tail(q1) ELSE q1
      /\ hand' = IF reader = "waiting" THEN <<Head(q1)>> ELSE hand
      /\ reader' = IF reader = "waiting" THEN "handed" ELSE reader
      /\ accepted' = accepted + 1 /\ stash' = st /\ stale' = 0
      /\ sending' = [sending EXCEPT ![s] = AnyKind]
      /\ UNCHANGED <<closed, want, delivered, lost, expiries>>
  BY DEF Accept, Pending
<1>5. notFull' \in BOOLEAN
  BY DEF Accept, Pending, TypeOK
<1>6. queue' \in Seq(Message)
      /\ Len(queue') = IF reader = "waiting" THEN Len(q) ELSE Len(q) + 1
  BY <1>2, <1>3, <1>4
<1>7. sender' = IF reader = "waiting" /\ ~(Len(st) + Len(queue') >= MaxSize)
                THEN Woken(left) ELSE left
  BY DEF Accept, Pending
<1>8. left \in [Senders -> {"idle", "blocked", "woken"}]
  BY DEF TypeOK
<1>9. /\ sender' \in [Senders -> {"idle", "blocked", "woken"}]
      /\ \A t \in Senders : sender'[t] = "idle" <=> left[t] = "idle"
      /\ \A t \in Senders : sender'[t] = "blocked" =>
            /\ left[t] = "blocked"
            /\ reader = "waiting" => Len(st) + Len(queue') >= MaxSize
  <2>1. CASE reader = "waiting" /\ ~(Len(st) + Len(queue') >= MaxSize)
    BY <2>1, <1>7, <1>8, WokenType
  <2>2. CASE ~(reader = "waiting" /\ ~(Len(st) + Len(queue') >= MaxSize))
    BY <2>2, <1>7, <1>8
  <2>. QED
    BY <2>1, <2>2
<1>10. \A t \in Senders : left[t] = "blocked" => sender[t] = "blocked"
  BY DEF TypeOK
<1>11. \A t \in Senders : left[t] = "idle" <=> sending'[t] = AnyKind
  BY <1>4 DEF TypeOK
<1>12. sending' \in [Senders -> Kinds \cup {AnyKind}]
  BY <1>4 DEF TypeOK
<1>13. hand' \in Seq(Message) /\ Len(hand') = IF reader' = "handed" THEN 1 ELSE 0
  <2>1. CASE reader = "waiting"
    <3>1. hand' = <<Head(q1)>> /\ reader' = "handed"
      BY <2>1, <1>4
    <3>. HIDE DEF q1
    <3>. QED
      BY <3>1, <1>3
  <2>2. CASE reader # "waiting"
    BY <2>2, <1>4 DEF TypeOK
  <2>. QED
    BY <2>1, <2>2
<1>14. accepted' \in Nat
  BY <1>4 DEF TypeOK
<1>. QED
  BY <1>4, <1>5, <1>6, <1>9, <1>10, <1>11, <1>12, <1>13, <1>14

-----------------------------------------------------------------------------
(* The inductive invariant: types, and what each side may rely on while it *)
(* waits.  No further strengthening is needed, because every action that   *)
(* shrinks the deques either wakes all blocked senders or leaves the inbox *)
(* full, and the only action that fills them while a get() waits hands the *)
(* message over in the same step.                                          *)
IInv == TypeOK /\ NoStrandedSender /\ NoStarvedGet

LEMMA InitInv ==
    ASSUME InboxAssumption, Init
    PROVE  IInv
<1>1. TypeOK
  <2>1. <<>> \in Seq(Message) /\ Len(<<>>) = 0
    BY EmptySeq
  <2>2. /\ sender \in [Senders -> {"idle", "blocked", "woken"}]
        /\ sending \in [Senders -> Kinds \cup {AnyKind}]
        /\ \A s \in Senders : sender[s] = "idle" <=> sending[s] = AnyKind
    BY DEF Init
  <2>3. Len(hand) = IF reader = "handed" THEN 1 ELSE 0
    BY <2>1 DEF Init
  <2>. QED
    BY <2>1, <2>2, <2>3 DEF Init, TypeOK
<1>2. NoStrandedSender /\ NoStarvedGet
  BY DEF Init, NoStrandedSender, NoStarvedGet
<1>. QED
  BY <1>1, <1>2 DEF IInv

(* A put that is accepted preserves the invariant, provided that a sender  *)
(* still blocked finds the inbox as full as before.                        *)
LEMMA AcceptInv ==
    ASSUME InboxAssumption, IInv,
           NEW s \in Senders, NEW k \in Kinds,
           NEW st \in Seq(Message), NEW q \in Seq(Message),
           UNCHANGED config, Accept(s, st, q, k), ~closed,
           dropped' \subseteq Message,
           Len(st) + Len(q) + 1 >= Size
    PROVE  IInv'
<1>. USE DEF IInv
<1>1. TypeOK'
  <2>1. sender' \in [Senders -> {"idle", "blocked", "woken"}]
        /\ sending' \in [Senders -> Kinds \cup {AnyKind}]
        /\ \A t \in Senders : sender'[t] = "idle" <=> sending'[t] = AnyKind
    BY AcceptEffect
  <2>2. /\ reader' = IF reader = "waiting" THEN "handed" ELSE reader
        /\ want' = want
        /\ hand' \in Seq(Message)
        /\ Len(hand') = IF reader' = "handed" THEN 1 ELSE 0
    BY AcceptEffect
  <2>3. stash' \in Seq(Message) /\ queue' \in Seq(Message)
        /\ accepted' \in Nat /\ stale' = 0 /\ notFull' \in BOOLEAN
        /\ UNCHANGED <<closed, delivered, lost, expiries>>
    BY AcceptEffect
  <2>. QED
    BY <2>1, <2>2, <2>3 DEF TypeOK, config
<1>2. NoStrandedSender'
  <2>. SUFFICES ASSUME NEW t \in Senders, sender'[t] = "blocked"
                PROVE  Full' /\ ~closed'
    BY DEF NoStrandedSender
  <2>1. sender[t] = "blocked"
        /\ (reader = "waiting" => Len(stash') + Len(queue') >= MaxSize)
        /\ stash' = st /\ closed' = closed
        /\ Len(queue') = IF reader = "waiting" THEN Len(q) ELSE Len(q) + 1
    BY AcceptEffect
  <2>2. Size >= MaxSize
    BY <2>1 DEF NoStrandedSender, Full
  <2>3. Len(st) \in Nat /\ Len(q) \in Nat /\ Size \in Nat /\ MaxSize \in Nat
    BY LenProperties DEF TypeOK, Size, InboxAssumption
  <2>4. Len(stash') + Len(queue') >= MaxSize
    BY <2>1, <2>2, <2>3
  <2>. QED
    BY <2>1, <2>4 DEF Full, Size
<1>3. NoStarvedGet'
  BY AcceptEffect DEF NoStarvedGet, TypeOK
<1>. QED
  BY <1>1, <1>2, <1>3

(* A step of the reader that removes a message from the deques.            *)
LEMMA RemovalInv ==
    ASSUME InboxAssumption, IInv, UNCHANGED config, reader = "idle",
           stash' \in Seq(Message), queue' \in Seq(Message),
           delivered' \in Seq(Message),
           SignalRoom(stash', queue'), Unread
    PROVE  IInv'
<1>. USE DEF IInv
<1>1. /\ notFull' \in BOOLEAN
      /\ sender' \in [Senders -> {"idle", "blocked", "woken"}]
      /\ \A s \in Senders : sender'[s] = "idle" <=> sender[s] = "idle"
      /\ \A s \in Senders : sender'[s] = "blocked" =>
            /\ sender[s] = "blocked"
            /\ ~(Len(stash') + Len(queue') < MaxSize)
  BY SignalRoomEffect
<1>2. UNCHANGED <<closed, stale, sending, reader, want, hand, accepted,
                  dropped, lost, expiries>>
  BY DEF Unread, wait, tally
<1>3. TypeOK'
  BY <1>1, <1>2 DEF TypeOK, config
<1>4. NoStrandedSender'
  <2>1. Len(stash') \in Nat /\ Len(queue') \in Nat /\ MaxSize \in Nat
    BY LenProperties DEF InboxAssumption
  <2>. QED
    BY <1>1, <1>2, <2>1 DEF NoStrandedSender, Full, Size
<1>5. NoStarvedGet'
  BY <1>2 DEF NoStarvedGet
<1>. QED
  BY <1>3, <1>4, <1>5

-----------------------------------------------------------------------------
(* The steps of Next, one lemma for each of the two sides.                 *)

LEMMA SenderStepInv ==
    ASSUME InboxAssumption, IInv, UNCHANGED config,
           NEW s \in Senders, SenderNext(s)
    PROVE  IInv'
<1>. USE DEF IInv
<1>0. /\ Size = Len(stash) + Len(queue)
      /\ Len(stash) \in Nat /\ Len(queue) \in Nat
      /\ MaxSize \in Nat \ {0}
  BY LenProperties DEF TypeOK, Size, InboxAssumption
<1>1. ASSUME NEW k \in Kinds, PutRoom(s, k)
      PROVE  IInv'
  <2>1. Accept(s, stash, queue, k) /\ ~closed /\ dropped' \subseteq Message
    BY <1>1 DEF PutRoom, Starts, TypeOK
  <2>2. stash \in Seq(Message) /\ queue \in Seq(Message)
        /\ Len(stash) + Len(queue) + 1 >= Size
    BY <1>0 DEF TypeOK
  <2>. QED
    BY <2>1, <2>2, AcceptInv
<1>2. ASSUME NEW k \in Kinds, PutDropOldest(s, k)
      PROVE  IInv'
  <2>1. ~closed /\ Size >= MaxSize
    BY <1>2 DEF PutDropOldest, Starts, Full
  <2>2. CASE stash # <<>> /\ Accept(s, Tail(stash), queue, k)
             /\ dropped' = dropped \cup {Head(stash)}
    <3>1. /\ Head(stash) \in Message /\ Tail(stash) \in Seq(Message)
          /\ Len(Tail(stash)) = Len(stash) - 1
      BY <2>2, HeadTailProperties DEF TypeOK
    <3>2. dropped' \subseteq Message /\ queue \in Seq(Message)
      BY <2>2, <3>1 DEF TypeOK
    <3>3. Len(Tail(stash)) + Len(queue) + 1 >= Size
      BY <3>1, <1>0
    <3>. QED
      BY <2>1, <2>2, <3>1, <3>2, <3>3, AcceptInv
  <2>3. CASE stash = <<>> /\ Accept(s, stash, Tail(queue), k)
             /\ dropped' = dropped \cup {Head(queue)}
    <3>1. queue # <<>>
      BY <2>1, <2>3, <1>0, EmptySeq
    <3>2. /\ Head(queue) \in Message /\ Tail(queue) \in Seq(Message)
          /\ Len(Tail(queue)) = Len(queue) - 1
      BY <3>1, HeadTailProperties DEF TypeOK
    <3>3. dropped' \subseteq Message /\ stash \in Seq(Message)
      BY <2>3, <3>2 DEF TypeOK
    <3>4. Len(stash) + Len(Tail(queue)) + 1 >= Size
      BY <3>2, <1>0
    <3>. QED
      BY <2>1, <2>3, <3>2, <3>3, <3>4, AcceptInv
  <2>. QED
    BY <1>2, <2>2, <2>3 DEF PutDropOldest
<1>3. ASSUME NEW k \in Kinds, PutBlocks(s, k)
      PROVE  IInv'
  <2>1. /\ Full /\ ~closed /\ notFull' = FALSE
        /\ sender' = [sender EXCEPT ![s] = "blocked"]
        /\ sending' = [sending EXCEPT ![s] = k]
        /\ UNCHANGED <<stash, queue, closed, stale, reader, want, hand,
                       accepted, dropped, delivered, lost, expiries>>
    BY <1>3 DEF PutBlocks, Starts, store, wait, tally
  <2>2. k # AnyKind
    BY DEF InboxAssumption
  <2>3. TypeOK'
    BY <2>1, <2>2 DEF TypeOK, config
  <2>4. NoStrandedSender' /\ NoStarvedGet'
    BY <2>1 DEF NoStrandedSender, NoStarvedGet, Full, Size, TypeOK
  <2>. QED
    BY <2>3, <2>4
<1>4. ASSUME PutRefused(s)
      PROVE  IInv'
  BY <1>4
  DEF PutRefused, vars, TypeOK, config, NoStrandedSender, NoStarvedGet, Full,
      Size
<1>5. ASSUME PutResumes(s)
      PROVE  IInv'
  <2>1. CASE closed /\ UNCHANGED <<stash, queue, closed, notFull, stale, reader,
                         want, hand, accepted, dropped, delivered, lost, expiries>>
             /\ sender' = [sender EXCEPT ![s] = "idle"]
             /\ sending' = [sending EXCEPT ![s] = AnyKind]
    <3>1. TypeOK'
      BY <2>1 DEF TypeOK, config
    <3>2. NoStrandedSender' /\ NoStarvedGet'
      BY <2>1 DEF NoStrandedSender, NoStarvedGet, Full, Size, TypeOK
    <3>. QED
      BY <3>1, <3>2
  <2>2. CASE ~closed /\ Full /\ notFull' = FALSE
             /\ sender' = [sender EXCEPT ![s] = "blocked"]
             /\ UNCHANGED <<stash, queue, closed, stale, sending, reader, want,
                            hand, accepted, dropped, delivered, lost, expiries>>
    <3>1. sender[s] # "idle"
      BY <1>5 DEF PutResumes
    <3>2. TypeOK'
      BY <2>2, <3>1 DEF TypeOK, config
    <3>3. NoStrandedSender' /\ NoStarvedGet'
      BY <2>2 DEF NoStrandedSender, NoStarvedGet, Full, Size, TypeOK
    <3>. QED
      BY <3>2, <3>3
  <2>3. CASE ~closed /\ Accept(s, stash, queue, sending[s])
             /\ UNCHANGED dropped
    <3>1. sending[s] \in Kinds
      BY <1>5 DEF PutResumes, TypeOK
    <3>2. stash \in Seq(Message) /\ queue \in Seq(Message)
          /\ Len(stash) + Len(queue) + 1 >= Size
          /\ dropped' \subseteq Message
      BY <2>3, <1>0 DEF TypeOK
    <3>. QED
      BY <2>3, <3>1, <3>2, AcceptInv
  <2>. QED
    BY <1>5, <2>1, <2>2, <2>3 DEF PutResumes, LeavesPut, store, wait, tally
<1>6. ASSUME PutCancelled(s)
      PROVE  IInv'
  <2>1. /\ sender' = [sender EXCEPT ![s] = "idle"]
        /\ sending' = [sending EXCEPT ![s] = AnyKind]
        /\ UNCHANGED <<stash, queue, closed, notFull, stale, reader, want, hand,
                       accepted, dropped, delivered, lost, expiries>>
    BY <1>6 DEF PutCancelled, LeavesPut, store, wait, tally
  <2>2. TypeOK'
    BY <2>1 DEF TypeOK, config
  <2>3. NoStrandedSender' /\ NoStarvedGet'
    BY <2>1 DEF NoStrandedSender, NoStarvedGet, Full, Size, TypeOK
  <2>. QED
    BY <2>2, <2>3
<1>. QED
  BY <1>1, <1>2, <1>3, <1>4, <1>5, <1>6 DEF SenderNext

(* Reads that find their message in the deques.                            *)
LEMMA ScanStepInv ==
    ASSUME InboxAssumption, IInv, UNCHANGED config,
           GetStash \/ GetQueue \/ \E k \in Matches : ReceiveScans(k)
    PROVE  IInv'
<1>0. stash \in Seq(Message) /\ queue \in Seq(Message)
      /\ delivered \in Seq(Message)
  BY DEF IInv, TypeOK
<1>1. ASSUME GetStash PROVE IInv'
  <2>1. Head(stash) \in Message /\ Tail(stash) \in Seq(Message)
    BY <1>0, <1>1, HeadTailProperties DEF GetStash
  <2>2. /\ reader = "idle" /\ Unread
        /\ stash' \in Seq(Message) /\ queue' \in Seq(Message)
        /\ delivered' \in Seq(Message)
        /\ SignalRoom(stash', queue')
    BY <1>0, <1>1, <2>1, AppendProperties DEF GetStash, SignalRoom
  <2>. QED
    BY <2>2, RemovalInv
<1>2. ASSUME GetQueue PROVE IInv'
  <2>1. Head(queue) \in Message /\ Tail(queue) \in Seq(Message)
    BY <1>0, <1>2, HeadTailProperties DEF GetQueue
  <2>2. /\ reader = "idle" /\ Unread
        /\ stash' \in Seq(Message) /\ queue' \in Seq(Message)
        /\ delivered' \in Seq(Message)
        /\ SignalRoom(stash', queue')
    BY <1>0, <1>2, <2>1, AppendProperties DEF GetQueue, SignalRoom
  <2>. QED
    BY <2>2, RemovalInv
<1>3. ASSUME NEW k \in Matches, ReceiveScans(k) PROVE IInv'
  <2>1. stash' \in Seq(Message) /\ queue' \in Seq(Message)
        /\ delivered' \in Seq(Message)
    <3>1. CASE TakeStash(k)
      <4>1. PICK i \in 1..Len(stash) :
               /\ stash' = Without(stash, i)
               /\ delivered' = Append(delivered, stash[i])
               /\ UNCHANGED queue
        BY <3>1 DEF TakeStash
      <4>2. Without(stash, i) \in Seq(Message) /\ stash[i] \in Message
        BY <1>0, WithoutElements, ElementOfSeq
      <4>. QED
        BY <1>0, <4>1, <4>2, AppendProperties
    <3>2. CASE TakeQueue(k)
      <4>1. PICK i \in 1..Len(queue) :
               /\ queue' = Without(queue, i)
               /\ delivered' = Append(delivered, queue[i])
               /\ UNCHANGED stash
        BY <3>2 DEF TakeQueue
      <4>2. Without(queue, i) \in Seq(Message) /\ queue[i] \in Message
        BY <1>0, WithoutElements, ElementOfSeq
      <4>. QED
        BY <1>0, <4>1, <4>2, AppendProperties
    <3>. QED
      BY <1>3, <3>1, <3>2 DEF ReceiveScans
  <2>. QED
    BY <1>3, <2>1, RemovalInv DEF ReceiveScans
<1>. QED
  BY <1>1, <1>2, <1>3

(* Every other step of the reader leaves the deques or lengthens them.     *)
LEMMA ReaderStepInv ==
    ASSUME InboxAssumption, IInv, UNCHANGED config,
           \/ GetWaits \/ GetRefused \/ \E k \in Matches : ReceiveWaits(k)
           \/ ReaderResumes \/ TimesOut \/ Cancelled
    PROVE  IInv'
<1>. USE DEF IInv
<1>0. /\ <<>> \in Seq(Message) /\ Len(<<>>) = 0
      /\ Len(stash) \in Nat /\ Len(queue) \in Nat /\ MaxSize \in Nat
  BY EmptySeq, LenProperties DEF TypeOK, InboxAssumption
<1>1. ASSUME GetWaits PROVE IInv'
  <2>1. /\ reader = "idle" /\ Size = 0 /\ ~closed
        /\ reader' = "waiting" /\ want' = AnyKind
        /\ UNCHANGED <<stash, queue, closed, notFull, stale, sender, sending, hand,
                       accepted, dropped, delivered, lost, expiries>>
    BY <1>1 DEF GetWaits, Await, store, calls, tally
  <2>. QED
    BY <2>1 DEF TypeOK, config, NoStrandedSender, NoStarvedGet, Full, Size
<1>2. ASSUME GetRefused PROVE IInv'
  BY <1>2
  DEF GetRefused, vars, TypeOK, config, NoStrandedSender, NoStarvedGet, Full,
      Size
<1>3. ASSUME NEW k \in Matches, ReceiveWaits(k) PROVE IInv'
  <2>1. /\ reader = "idle" /\ reader' = "waiting" /\ want' = k
        /\ UNCHANGED <<stash, queue, closed, notFull, stale, sender, sending, hand,
                       accepted, dropped, delivered, lost, expiries>>
    BY <1>3 DEF ReceiveWaits, Await, store, calls, tally
  <2>2. k \in Kinds /\ k # AnyKind
    BY DEF InboxAssumption
  <2>. QED
    BY <2>1, <2>2 DEF TypeOK, config, NoStrandedSender, NoStarvedGet, Full, Size
<1>4. ASSUME Arrived PROVE Head(hand) \in Message
  BY <1>4, HeadTailProperties DEF Arrived, TypeOK
<1>5. ASSUME Returns PROVE
        /\ delivered' \in Seq(Message)
        /\ reader' = "idle" /\ want' = AnyKind /\ hand' = <<>>
        /\ UNCHANGED <<stash, queue, closed, stale, sending, accepted, dropped,
                       lost, expiries>>
  BY <1>4, <1>5, AppendProperties DEF Returns, Leaves, store, tally, TypeOK
<1>6. ASSUME GetReturns PROVE IInv'
  <2>1. Returns /\ UNCHANGED <<notFull, sender>>
    BY <1>6 DEF GetReturns
  <2>. QED
    BY <2>1, <1>5, <1>0 DEF TypeOK, config, NoStrandedSender, NoStarvedGet, Full, Size
<1>7. ASSUME ReceiveReturns PROVE IInv'
  <2>1. Returns /\ SignalRoom(stash, queue)
    BY <1>7 DEF ReceiveReturns
  <2>2. /\ notFull' \in BOOLEAN
        /\ sender' \in [Senders -> {"idle", "blocked", "woken"}]
        /\ \A s \in Senders : sender'[s] = "idle" <=> sender[s] = "idle"
        /\ \A s \in Senders : sender'[s] = "blocked" =>
              /\ sender[s] = "blocked"
              /\ ~(Len(stash) + Len(queue) < MaxSize)
    BY <2>1, SignalRoomEffect DEF TypeOK
  <2>3. TypeOK'
    BY <2>1, <2>2, <1>5, <1>0 DEF TypeOK, config
  <2>4. NoStrandedSender' /\ NoStarvedGet'
    BY <2>1, <2>2, <1>5, <1>0
    DEF NoStrandedSender, NoStarvedGet, Full, Size
  <2>. QED
    BY <2>3, <2>4
<1>8. ASSUME Arrived /\ stash' = Append(stash, Head(hand))
      PROVE  stash' \in Seq(Message) /\ Len(stash') = Len(stash) + 1
  BY <1>4, <1>8, AppendProperties DEF TypeOK
<1>9. ASSUME ReceiveStashes PROVE IInv'
  <2>1. /\ Arrived /\ stash' = Append(stash, Head(hand))
        /\ want # AnyKind
        /\ reader' = "waiting" /\ hand' = <<>>
        /\ UNCHANGED <<queue, closed, notFull, stale, sender, sending, want,
                       accepted, dropped, delivered, lost, expiries>>
    BY <1>9 DEF ReceiveStashes, SetAside, Wanted, calls, tally
  <2>2. TypeOK'
    BY <2>1, <1>8, <1>0 DEF TypeOK, config
  <2>3. NoStrandedSender' /\ NoStarvedGet'
    BY <2>1, <1>8, <1>0 DEF NoStrandedSender, NoStarvedGet, Full, Size
  <2>. QED
    BY <2>2, <2>3
<1>10. ASSUME ReceiveStashesLate PROVE IInv'
  <2>1. /\ Arrived /\ stash' = Append(stash, Head(hand))
        /\ reader' = "idle" /\ want' = AnyKind /\ hand' = <<>>
        /\ expiries' = expiries + 1
        /\ UNCHANGED <<queue, closed, notFull, stale, sender, sending,
                       accepted, dropped, delivered, lost>>
    BY <1>10 DEF ReceiveStashesLate, SetAside, Leaves, calls, tally
  <2>2. TypeOK'
    BY <2>1, <1>8, <1>0 DEF TypeOK, config
  <2>3. NoStrandedSender' /\ NoStarvedGet'
    BY <2>1, <1>8, <1>0 DEF NoStrandedSender, NoStarvedGet, Full, Size
  <2>. QED
    BY <2>2, <2>3
<1>11. ASSUME ReaderRaises PROVE IInv'
  <2>1. /\ reader = "raised" /\ reader' = "idle" /\ want' = AnyKind
        /\ UNCHANGED <<stash, queue, closed, notFull, stale, sender, sending, hand,
                       accepted, dropped, delivered, lost, expiries>>
    BY <1>11 DEF ReaderRaises, store, calls, tally
  <2>. QED
    BY <2>1 DEF TypeOK, config, NoStrandedSender, NoStarvedGet, Full, Size
<1>12. ASSUME NEW leaves \in {0, 1}, GivesUp(leaves) PROVE IInv'
  <2>1. /\ reader' = "idle" /\ want' = AnyKind /\ hand' = <<>>
        /\ expiries' = expiries + 1
        /\ stale' = IF reader = "waiting" THEN stale + leaves ELSE stale
        /\ lost' = lost \cup {hand[i] : i \in 1..Len(hand)}
        /\ UNCHANGED <<stash, queue, closed, notFull, sender, sending,
                       accepted, dropped, delivered>>
    BY <1>12 DEF GivesUp, Leaves, store, calls, tally
  <2>2. lost' \subseteq Message
    BY <2>1, ElementOfSeq DEF TypeOK
  <2>3. stale' \in Nat /\ expiries' \in Nat
    BY <2>1 DEF TypeOK
  <2>4. TypeOK'
    BY <2>1, <2>2, <2>3, <1>0 DEF TypeOK, config
  <2>5. NoStrandedSender' /\ NoStarvedGet'
    BY <2>1 DEF NoStrandedSender, NoStarvedGet, Full, Size
  <2>. QED
    BY <2>4, <2>5
<1>. QED
  BY <1>1, <1>2, <1>3, <1>6, <1>7, <1>9, <1>10, <1>11, <1>12
  DEF ReaderResumes, TimesOut, Cancelled

(* close() wakes both sides.                                               *)
LEMMA CloseInv ==
    ASSUME InboxAssumption, IInv, UNCHANGED config, Close
    PROVE  IInv'
<1>. USE DEF IInv
<1>1. /\ closed' = TRUE /\ notFull' = TRUE /\ sender' = Woken(sender)
      /\ stale' = 0
      /\ reader' = IF reader = "waiting" THEN "raised" ELSE reader
      /\ UNCHANGED <<stash, queue, sending, want, hand, accepted, dropped,
                     delivered, lost, expiries>>
  BY DEF Close, store, tally
<1>2. /\ sender' \in [Senders -> {"idle", "blocked", "woken"}]
      /\ \A s \in Senders : /\ sender'[s] # "blocked"
                            /\ sender'[s] = "idle" <=> sender[s] = "idle"
  BY <1>1, WokenType DEF TypeOK
<1>3. TypeOK'
  BY <1>1, <1>2 DEF TypeOK, config
<1>4. NoStrandedSender' /\ NoStarvedGet'
  BY <1>1, <1>2 DEF NoStrandedSender, NoStarvedGet, TypeOK
<1>. QED
  BY <1>3, <1>4

(* No step changes how the inbox was created.                              *)
LEMMA ConfigFixed ==
    ASSUME [Next]_vars
    PROVE  UNCHANGED config
<1>1. ASSUME NEW s \in Senders, SenderNext(s) PROVE UNCHANGED config
  <2>1. ASSUME NEW k \in Kinds, PutRoom(s, k) \/ PutDropOldest(s, k)
        PROVE  UNCHANGED config
    BY <2>1 DEF PutRoom, PutDropOldest, Accept
  <2>2. ASSUME NEW k \in Kinds, PutBlocks(s, k) PROVE UNCHANGED config
    BY <2>2 DEF PutBlocks
  <2>3. CASE PutRefused(s)
    BY <2>3 DEF PutRefused, vars, config
  <2>4. CASE PutResumes(s)
    BY <2>4 DEF PutResumes, Accept
  <2>5. CASE PutCancelled(s)
    BY <2>5 DEF PutCancelled
  <2>. QED
    BY <1>1, <2>1, <2>2, <2>3, <2>4, <2>5 DEF SenderNext
<1>2. CASE Get
  BY <1>2 DEF Get, GetStash, GetQueue, GetWaits, GetRefused, Unread, Await,
              vars, config
<1>3. ASSUME NEW k \in Matches, ReceiveScans(k) \/ ReceiveWaits(k)
      PROVE  UNCHANGED config
  BY <1>3 DEF ReceiveScans, ReceiveWaits, Unread, Await
<1>4. CASE ReaderResumes
  BY <1>4 DEF ReaderResumes, GetReturns, ReceiveReturns, Returns,
              ReceiveStashes, ReceiveStashesLate, ReaderRaises
<1>5. CASE TimesOut \/ Cancelled \/ Close
  BY <1>5 DEF TimesOut, Cancelled, GivesUp, Close
<1>6. CASE UNCHANGED vars
  BY <1>6 DEF vars, config
<1>. QED
  BY <1>1, <1>2, <1>3, <1>4, <1>5, <1>6 DEF Next

(* The inbox, for every number of senders, every capacity and every policy,*)
(* keeps its invariant at every step of the event loop.                    *)
THEOREM Invariance == Spec => []IInv
<1>1. Init => IInv
  BY InitInv, InboxAssumption
<1>2. IInv /\ [Next]_vars => IInv'
  <2>. SUFFICES ASSUME IInv, [Next]_vars PROVE IInv'
    OBVIOUS
  <2>0. UNCHANGED config
    BY ConfigFixed
  <2>1. ASSUME NEW s \in Senders, SenderNext(s) PROVE IInv'
    BY <2>0, <2>1, SenderStepInv, InboxAssumption
  <2>2. CASE GetStash \/ GetQueue \/ \E k \in Matches : ReceiveScans(k)
    BY <2>0, <2>2, ScanStepInv, InboxAssumption
  <2>3. CASE \/ GetWaits \/ GetRefused \/ \E k \in Matches : ReceiveWaits(k)
             \/ ReaderResumes \/ TimesOut \/ Cancelled
    BY <2>0, <2>3, ReaderStepInv, InboxAssumption
  <2>4. CASE Close
    BY <2>0, <2>4, CloseInv, InboxAssumption
  <2>5. CASE UNCHANGED vars
    BY <2>5 DEF vars, config, IInv, TypeOK, NoStrandedSender, NoStarvedGet, Full, Size
  <2>. QED
    BY <2>1, <2>2, <2>3, <2>4, <2>5 DEF Next, Get
<1>. QED
  BY <1>1, <1>2, PTL DEF Spec

(* The attributes of Inbox keep their shape (inbox.py:24-34).              *)
THEOREM TypeCorrect == Spec => []TypeOK
BY Invariance, PTL DEF IInv

(* A put() that waits for room waits only as long as there is none, and    *)
(* never on a closed inbox (inbox.py:57-64): no path of get(), receive(),  *)
(* the hand-over, eviction or close() forgets to signal.                   *)
THEOREM SenderSafety == Spec => []NoStrandedSender
BY Invariance, PTL DEF IInv

(* A get() that waits has nothing to take (inbox.py:71-94): no put can slip*)
(* a message past a waiting get().                                         *)
THEOREM GetSafety == Spec => []NoStarvedGet
BY Invariance, PTL DEF IInv

-----------------------------------------------------------------------------
(* Removing one message from a concatenation.                              *)

LEMMA Joined ==
    ASSUME NEW a \in Seq(Message), NEW b \in Seq(Message)
    PROVE  /\ a \o b \in Seq(Message)
           /\ Len(a) \in Nat /\ Len(b) \in Nat
           /\ Len(a \o b) = Len(a) + Len(b)
           /\ \A i \in 1..Len(a) : (a \o b)[i] = a[i]
           /\ \A i \in 1..Len(b) : (a \o b)[Len(a) + i] = b[i]
<1>. DEFINE m == Len(a)
            n == Len(b)
<1>1. m \in Nat /\ n \in Nat
  BY LenProperties
<1>2. /\ a \o b \in Seq(Message)
      /\ Len(a \o b) = m + n
      /\ \A i \in 1..(m + n) :
            (a \o b)[i] = IF i <= m THEN a[i] ELSE b[i - m]
  BY ConcatProperties
<1>. HIDE DEF m, n
<1>3. ASSUME NEW i \in 1..m PROVE (a \o b)[i] = a[i]
  <2>1. i \in 1..(m + n) /\ i <= m
    BY <1>1
  <2>. QED
    BY <2>1, <1>2
<1>4. ASSUME NEW i \in 1..n PROVE (a \o b)[m + i] = b[i]
  <2>1. m + i \in 1..(m + n) /\ ~(m + i <= m) /\ (m + i) - m = i
    BY <1>1
  <2>. QED
    BY <2>1, <1>2
<1>. QED
  BY <1>1, <1>2, <1>3, <1>4 DEF m, n

LEMMA WithoutLeft ==
    ASSUME NEW a \in Seq(Message), NEW b \in Seq(Message), NEW i \in 1..Len(a)
    PROVE  Without(a \o b, i) = Without(a, i) \o b
<1>. DEFINE m == Len(a)
            n == Len(b)
            w == Without(a, i)
            v == Without(a \o b, i)
<1>1. /\ m \in Nat /\ n \in Nat /\ i \in 1..m
      /\ a \o b \in Seq(Message) /\ Len(a \o b) = m + n
      /\ \A j \in 1..m : (a \o b)[j] = a[j]
      /\ \A j \in 1..n : (a \o b)[m + j] = b[j]
  BY Joined
<1>2. i \in 1..Len(a \o b)
  BY <1>1 
<1>3. /\ w \in Seq(Message) /\ Len(w) = m - 1
      /\ \A j \in 1..(m - 1) : /\ j < i  => w[j] = a[j]
                               /\ j >= i => w[j] = a[j + 1]
  BY WithoutElements
<1>4. /\ v \in Seq(Message) /\ Len(v) = (m + n) - 1
      /\ \A j \in 1..((m + n) - 1) : /\ j < i  => v[j] = (a \o b)[j]
                                     /\ j >= i => v[j] = (a \o b)[j + 1]
  <2>1. /\ v \in Seq(Message) /\ Len(v) = Len(a \o b) - 1
        /\ \A j \in 1..(Len(a \o b) - 1) :
              /\ j < i  => v[j] = (a \o b)[j]
              /\ j >= i => v[j] = (a \o b)[j + 1]
    BY <1>1, <1>2, WithoutElements
  <2>. QED
    BY <2>1, <1>1
<1>. HIDE DEF m, n, w, v
<1>5. /\ w \o b \in Seq(Message)
      /\ Len(w \o b) = (m - 1) + n
      /\ \A j \in 1..(m - 1) : (w \o b)[j] = w[j]
      /\ \A j \in 1..n : (w \o b)[(m - 1) + j] = b[j]
  <2>1. /\ w \o b \in Seq(Message)
        /\ Len(w \o b) = Len(w) + Len(b)
        /\ \A j \in 1..Len(w) : (w \o b)[j] = w[j]
        /\ \A j \in 1..Len(b) : (w \o b)[Len(w) + j] = b[j]
    BY <1>3, Joined
  <2>. QED
    BY <2>1, <1>3 DEF n
<1>6. Len(v) = Len(w \o b)
  BY <1>1, <1>4, <1>5
<1>7. ASSUME NEW j \in 1..Len(v) PROVE v[j] = (w \o b)[j]
  <2>0. j \in 1..((m + n) - 1)
    BY <1>4
  <2>1. CASE j < i
    <3>1. j \in 1..(m - 1) /\ j \in 1..m
      BY <2>0, <2>1, <1>1
    <3>. QED
      BY <3>1, <2>0, <2>1, <1>1, <1>3, <1>4, <1>5
  <2>2. CASE j >= i /\ j <= m - 1
    <3>1. j \in 1..(m - 1) /\ j + 1 \in 1..m
      BY <2>0, <2>2, <1>1
    <3>. QED
      BY <3>1, <2>0, <2>2, <1>1, <1>3, <1>4, <1>5
  <2>3. CASE j >= m
    <3>1. PICK k \in 1..n : j = (m - 1) + k
      <4>1. j - (m - 1) \in 1..n /\ j = (m - 1) + (j - (m - 1))
        BY <2>0, <2>3, <1>1
      <4>. QED
        BY <4>1
    <3>2. j >= i /\ j + 1 = m + k
      BY <3>1, <2>3, <1>1
    <3>3. v[j] = (a \o b)[m + k]
      BY <3>2, <2>0, <1>4
    <3>4. (a \o b)[m + k] = b[k] /\ (w \o b)[j] = b[k]
      BY <3>1, <1>1, <1>5
    <3>. QED
      BY <3>3, <3>4
  <2>4. j < i \/ (j >= i /\ j <= m - 1) \/ j >= m
    BY <2>0, <1>1
  <2>. QED
    BY <2>1, <2>2, <2>3, <2>4
<1>8. v = w \o b
  BY <1>4, <1>5, <1>6, <1>7, SeqEqual
<1>. QED
  BY <1>8 DEF v, w

LEMMA WithoutRight ==
    ASSUME NEW a \in Seq(Message), NEW b \in Seq(Message), NEW i \in 1..Len(b)
    PROVE  Without(a \o b, Len(a) + i) = a \o Without(b, i)
<1>. DEFINE m == Len(a)
            n == Len(b)
            w == Without(b, i)
            v == Without(a \o b, m + i)
<1>1. /\ m \in Nat /\ n \in Nat /\ i \in 1..n
      /\ a \o b \in Seq(Message) /\ Len(a \o b) = m + n
      /\ \A j \in 1..m : (a \o b)[j] = a[j]
      /\ \A j \in 1..n : (a \o b)[m + j] = b[j]
  BY Joined
<1>. HIDE DEF m, n
<1>2. m + i \in 1..Len(a \o b)
  BY <1>1
<1>3. /\ w \in Seq(Message) /\ Len(w) = n - 1
      /\ \A j \in 1..(n - 1) : /\ j < i  => w[j] = b[j]
                               /\ j >= i => w[j] = b[j + 1]
  BY WithoutElements DEF n
<1>4. /\ v \in Seq(Message) /\ Len(v) = (m + n) - 1
      /\ \A j \in 1..((m + n) - 1) : /\ j < m + i  => v[j] = (a \o b)[j]
                                     /\ j >= m + i => v[j] = (a \o b)[j + 1]
  <2>1. /\ v \in Seq(Message) /\ Len(v) = Len(a \o b) - 1
        /\ \A j \in 1..(Len(a \o b) - 1) :
              /\ j < m + i  => v[j] = (a \o b)[j]
              /\ j >= m + i => v[j] = (a \o b)[j + 1]
    BY <1>1, <1>2, WithoutElements
  <2>. QED
    BY <2>1, <1>1
<1>. HIDE DEF w, v
<1>5. /\ a \o w \in Seq(Message)
      /\ Len(a \o w) = m + (n - 1)
      /\ \A j \in 1..m : (a \o w)[j] = a[j]
      /\ \A j \in 1..(n - 1) : (a \o w)[m + j] = w[j]
  <2>1. /\ a \o w \in Seq(Message)
        /\ Len(a \o w) = Len(a) + Len(w)
        /\ \A j \in 1..Len(a) : (a \o w)[j] = a[j]
        /\ \A j \in 1..Len(w) : (a \o w)[Len(a) + j] = w[j]
    BY <1>3, Joined
  <2>. QED
    BY <2>1, <1>3 DEF m
<1>6. Len(v) = Len(a \o w)
  BY <1>1, <1>4, <1>5
<1>7. ASSUME NEW j \in 1..Len(v) PROVE v[j] = (a \o w)[j]
  <2>0. j \in 1..((m + n) - 1)
    BY <1>4
  <2>1. CASE j <= m
    <3>1. j \in 1..m /\ j < m + i
      BY <2>0, <2>1, <1>1
    <3>. QED
      BY <3>1, <2>0, <1>1, <1>4, <1>5
  <2>2. CASE j > m
    <3>1. PICK k \in 1..(n - 1) : j = m + k
      <4>1. j - m \in 1..(n - 1) /\ j = m + (j - m)
        BY <2>0, <2>2, <1>1
      <4>. QED
        BY <4>1
    <3>2. (a \o w)[j] = w[k]
      BY <3>1, <1>5
    <3>3. CASE k < i
      <4>1. j < m + i /\ k \in 1..n
        BY <3>1, <3>3, <1>1
      <4>2. v[j] = (a \o b)[m + k] /\ (a \o b)[m + k] = b[k] /\ w[k] = b[k]
        BY <4>1, <3>1, <3>3, <2>0, <1>1, <1>3, <1>4
      <4>. QED
        BY <4>2, <3>2
    <3>4. CASE k >= i
      <4>1. j >= m + i /\ k + 1 \in 1..n /\ j + 1 = m + (k + 1)
        BY <3>1, <3>4, <1>1
      <4>2. v[j] = (a \o b)[m + (k + 1)]
        BY <4>1, <2>0, <1>4
      <4>3. (a \o b)[m + (k + 1)] = b[k + 1] /\ w[k] = b[k + 1]
        BY <4>1, <3>1, <3>4, <1>1, <1>3
      <4>. QED
        BY <4>2, <4>3, <3>2
    <3>5. k < i \/ k >= i
      BY <3>1, <1>1
    <3>. QED
      BY <3>3, <3>4, <3>5
  <2>3. j <= m \/ j > m
    BY <2>0, <1>1
  <2>. QED
    BY <2>1, <2>2, <2>3
<1>8. v = a \o w
  BY <1>4, <1>5, <1>6, <1>7, SeqEqual
<1>. QED
  BY <1>8 DEF v, w, m

LEMMA WithoutFirst ==
    ASSUME NEW s \in Seq(Message), s # <<>>
    PROVE  /\ 1 \in 1..Len(s) /\ s[1] = Head(s) /\ Without(s, 1) = Tail(s)
           /\ Head(s) \in Message /\ Tail(s) \in Seq(Message)
           /\ <<Head(s)>> \o Tail(s) = s
<1>. DEFINE t == Tail(s)
<1>1. Len(s) \in Nat \ {0} /\ 1 \in 1..Len(s) /\ s[1] = Head(s)
  BY EmptySeq
<1>2. /\ Head(s) \in Message /\ t \in Seq(Message) /\ Len(t) = Len(s) - 1
      /\ \A i \in 1..Len(t) : t[i] = s[i + 1]
  BY HeadTailProperties
<1>3. /\ Without(s, 1) \in Seq(Message) /\ Len(Without(s, 1)) = Len(s) - 1
      /\ \A j \in 1..(Len(s) - 1) : j >= 1 => Without(s, 1)[j] = s[j + 1]
  BY <1>1, WithoutElements
<1>. HIDE DEF t
<1>4. Len(Without(s, 1)) = Len(t) /\ \A j \in 1..Len(t) : Without(s, 1)[j] = t[j]
  BY <1>1, <1>2, <1>3
<1>5. Without(s, 1) = t
  BY <1>2, <1>3, <1>4, SeqEqual
<1>6. s = <<Head(s)>> \o t
  <2>1. 1 \in 1..Len(s) /\ Len(s) \in 1..Len(s)
    BY <1>1
  <2>2. SubSeq(s, 1, Len(s)) = <<s[1]>> \o SubSeq(s, 1 + 1, Len(s))
    BY <2>1, SubSeqRecursiveFirst
  <2>3. SubSeq(s, 1, Len(s)) = s /\ t = SubSeq(s, 2, Len(s)) /\ 1 + 1 = 2
    BY SubSeqFull, TailIsSubSeq DEF t
  <2>. QED
    BY <2>2, <2>3, <1>1
<1>. QED
  BY <1>1, <1>2, <1>5, <1>6 DEF t

LEMMA Associative ==
    ASSUME NEW a \in Seq(Message), NEW b \in Seq(Message), NEW c \in Seq(Message)
    PROVE  (a \o b) \o c = a \o (b \o c)
BY ConcatAssociative

LEMMA NothingJoined ==
    ASSUME NEW a \in Seq(Message)
    PROVE  <<>> \in Seq(Message) /\ a \o <<>> = a /\ <<>> \o a = a
BY ConcatEmptySeq, EmptySeq

(* A message appended to the last of two sequences.                        *)
LEMMA AppendLast ==
    ASSUME NEW a \in Seq(Message), NEW b \in Seq(Message), NEW x \in Message
    PROVE  a \o Append(b, x) = Append(a \o b, x)
<1>1. <<x>> \in Seq(Message)
  OBVIOUS
<1>2. Append(b, x) = b \o <<x>>
  BY AppendIsConcat
<1>3. a \o b \in Seq(Message)
  BY Joined
<1>4. Append(a \o b, x) = (a \o b) \o <<x>>
  BY <1>3, AppendIsConcat
<1>. QED
  BY <1>1, <1>2, <1>4, Associative

-----------------------------------------------------------------------------
(* What the simulation relies on besides IInv: a message the reader sets   *)
(* aside or passes over is none it waits for, and the message in hand is   *)
(* the only one beyond the capacity.                                       *)

Unwanted ==
    reader \in {"waiting", "handed"} =>
        \A i \in 1..Len(stash) : ~Wanted(want, stash[i])

Bounded == Size + Len(hand) <= MaxSize + 1

BoxInv == IInv /\ Unwanted /\ Bounded

(* A step of the inbox is a step of the mailbox or leaves it as it is.     *)
Simulated ==
    \/ M!Next
    \/ UNCHANGED <<Box, delivered, accepted, dropped, lost, expiries>>

Kept == Unwanted' /\ Bounded' /\ Simulated

LEMMA Contents ==
    ASSUME InboxAssumption, TypeOK
    PROVE  /\ stash \in Seq(Message) /\ hand \in Seq(Message)
           /\ queue \in Seq(Message) /\ Box \in Seq(Message)
           /\ stash \o hand \in Seq(Message) /\ hand \o queue \in Seq(Message)
           /\ Box = stash \o (hand \o queue)
           /\ Len(stash) \in Nat /\ Len(hand) \in Nat /\ Len(queue) \in Nat
           /\ Len(Box) = Len(stash) + Len(hand) + Len(queue)
           /\ Size = Len(stash) + Len(queue)
           /\ MaxSize \in Nat \ {0}
           /\ reader # "handed" => hand = <<>> /\ Box = stash \o queue
           /\ reader = "handed" => Len(hand) = 1 /\ hand = <<Head(hand)>> /\ Head(hand) \in Message
<1>1. /\ stash \in Seq(Message) /\ hand \in Seq(Message) /\ queue \in Seq(Message)
      /\ Len(hand) = IF reader = "handed" THEN 1 ELSE 0
  BY DEF TypeOK
<1>2. /\ stash \o hand \in Seq(Message) /\ hand \o queue \in Seq(Message)
      /\ Len(stash \o hand) = Len(stash) + Len(hand)
      /\ Len(stash) \in Nat /\ Len(hand) \in Nat /\ Len(queue) \in Nat
  BY <1>1, Joined
<1>3. /\ Box \in Seq(Message) /\ Len(Box) = Len(stash \o hand) + Len(queue)
  BY <1>1, <1>2, Joined DEF Box
<1>4. Box = stash \o (hand \o queue)
  BY <1>1, Associative DEF Box
<1>5. ASSUME reader # "handed" PROVE hand = <<>> /\ Box = stash \o queue
  <2>1. hand = <<>>
    BY <1>1, <1>5, EmptySeq
  <2>2. hand \o queue = queue
    BY <2>1, <1>1, NothingJoined
  <2>. QED
    BY <1>4, <2>1, <2>2
<1>6. ASSUME reader = "handed"
      PROVE  Len(hand) = 1 /\ hand = <<Head(hand)>> /\ Head(hand) \in Message
  <2>1. Len(hand) = 1
    BY <1>1, <1>6
  <2>5. hand # <<>>
    BY <2>1, EmptySeq
  <2>2. /\ Head(hand) \in Message /\ Tail(hand) \in Seq(Message)
        /\ <<Head(hand)>> \o Tail(hand) = hand /\ Len(Tail(hand)) = 0
    BY <2>1, <2>5, <1>1, WithoutFirst, HeadTailProperties
  <2>3. Tail(hand) = <<>>
    BY <2>2, EmptySeq
  <2>4. <<Head(hand)>> \in Seq(Message)
    BY <2>2
  <2>. QED
    BY <2>1, <2>2, <2>3, <2>4, NothingJoined
<1>7. Len(Box) = Len(stash) + Len(hand) + Len(queue)
  BY <1>2, <1>3
<1>. QED
  BY <1>1, <1>2, <1>3, <1>4, <1>5, <1>6, <1>7 DEF Size, InboxAssumption

(* Without is the same operator in both modules.                           *)
LEMMA SameWithout ==
    ASSUME NEW s, NEW i PROVE M!Without(s, i) = Without(s, i)
BY DEF M!Without, Without

LEMMA Takes ==
    ASSUME NEW i \in 1..Len(Box),
           \A j \in 1..(i - 1) : Box[j].kind # Box[i].kind,
           Box' = Without(Box, i),
           delivered' = Append(delivered, Box[i]),
           UNCHANGED <<accepted, dropped, lost, expiries>>
    PROVE  Simulated
<1>1. M!Take
  BY SameWithout DEF M!Take
<1>. QED
  BY <1>1 DEF Simulated, M!Next

(* The tail of put() puts its message behind whatever it found, whether or *)
(* not the head of the queue goes to the reader.                           *)
LEMMA AcceptEnters ==
    ASSUME InboxAssumption, TypeOK,
           NEW s \in Senders, NEW k \in Kinds,
           NEW st \in Seq(Message), NEW q \in Seq(Message),
           Accept(s, st, q, k),
           Len(st) + Len(hand) + Len(q) <= MaxSize
    PROVE  /\ M!Enter(k, st \o hand \o q)
           /\ Len(stash') + Len(queue') + Len(hand') <= MaxSize + 1
<1>. DEFINE m  == [id |-> accepted + 1, kind |-> k]
            q1 == Append(q, m)
<1>1. /\ m \in Message /\ hand \in Seq(Message)
      /\ reader # "handed" => hand = <<>>
  BY Contents DEF Message, TypeOK
<1>2. /\ accepted' = accepted + 1 /\ stash' = st
      /\ UNCHANGED <<delivered, lost, expiries>>
      /\ queue' = IF reader = "waiting" THEN Tail(q1) ELSE q1
      /\ hand' = IF reader = "waiting" THEN <<Head(q1)>> ELSE hand
  BY DEF Accept, Pending
<1>. HIDE DEF m
<1>3. /\ q1 \in Seq(Message) /\ q1 # <<>> /\ Len(q1) = Len(q) + 1
  BY <1>1, AppendProperties
<1>4. /\ st \o hand \in Seq(Message) /\ st \o hand \o q \in Seq(Message)
      /\ Len(st \o hand) = Len(st) + Len(hand)
      /\ Len(st) \in Nat /\ Len(hand) \in Nat /\ Len(q) \in Nat
  BY <1>1, Joined
<1>5. Len(st \o hand \o q) = Len(st \o hand) + Len(q)
  BY <1>4, Joined
<1>6. Len(st \o hand \o q) <= MaxSize
  BY <1>4, <1>5
<1>7. Box' = Append(st \o hand \o q, m)
  <2>1. CASE reader = "waiting"
    <3>1. /\ Head(q1) \in Message /\ Tail(q1) \in Seq(Message)
          /\ <<Head(q1)>> \o Tail(q1) = q1
      BY <1>3, WithoutFirst
    <3>2. hand = <<>> /\ st \o hand = st
      BY <2>1, <1>1, NothingJoined
    <3>3. Box' = (st \o <<Head(q1)>>) \o Tail(q1)
      BY <2>1, <1>2 DEF Box
    <3>4. <<Head(q1)>> \in Seq(Message)
      BY <3>1
    <3>5. Box' = st \o q1
      <4>. DEFINE h == <<Head(q1)>>
                  t == Tail(q1)
      <4>1. h \in Seq(Message) /\ t \in Seq(Message) /\ h \o t = q1
            /\ Box' = (st \o h) \o t
        BY <3>1, <3>3, <3>4
      <4>. HIDE DEF h, t, q1
      <4>2. (st \o h) \o t = st \o (h \o t)
        BY <4>1, Associative
      <4>. QED
        BY <4>1, <4>2
    <3>6. st \o q1 = Append(st \o q, m)
      BY <1>1, AppendLast
    <3>. QED
      BY <3>2, <3>5, <3>6
  <2>2. CASE reader # "waiting"
    <3>1. Box' = (st \o hand) \o q1
      BY <2>2, <1>2 DEF Box
    <3>. QED
      BY <3>1, <1>1, <1>4, AppendLast
  <2>. QED
    BY <2>1, <2>2
<1>8. Len(stash') + Len(queue') + Len(hand') <= MaxSize + 1
  <2>1. CASE reader = "waiting"
    <3>1. Len(Tail(q1)) = Len(q) /\ Len(hand') = 1 /\ Len(hand) = 0
      BY <2>1, <1>1, <1>2, <1>3, <1>4, HeadTailProperties
    <3>. QED
      BY <2>1, <3>1, <1>2, <1>4 DEF InboxAssumption
  <2>2. CASE reader # "waiting"
    BY <2>2, <1>2, <1>3, <1>4 DEF InboxAssumption
  <2>. QED
    BY <2>1, <2>2
<1>. QED
  BY <1>2, <1>6, <1>7, <1>8 DEF M!Enter, m

LEMMA AcceptKeeps ==
    ASSUME InboxAssumption, BoxInv,
           NEW s \in Senders, NEW k \in Kinds,
           NEW st \in Seq(Message), NEW q \in Seq(Message),
           Accept(s, st, q, k),
           \A i \in 1..Len(st) : \E j \in 1..Len(stash) : st[i] = stash[j],
           Len(st) + Len(hand) + Len(q) <= MaxSize
    PROVE  Unwanted' /\ Bounded' /\ M!Enter(k, st \o hand \o q)
<1>1. TypeOK /\ Unwanted
  BY DEF BoxInv, IInv
<1>2. /\ stash' = st /\ want' = want
      /\ reader' = IF reader = "waiting" THEN "handed" ELSE reader
  BY DEF Accept, Pending
<1>3. Unwanted'
  <2>. SUFFICES ASSUME reader' \in {"waiting", "handed"}, NEW i \in 1..Len(stash')
                PROVE  ~Wanted(want', stash'[i])
    BY DEF Unwanted, Wanted
  <2>1. reader \in {"waiting", "handed"}
    BY <1>2
  <2>2. PICK j \in 1..Len(stash) : stash'[i] = stash[j]
    BY <1>2
  <2>3. ~Wanted(want, stash[j])
    BY <1>1, <2>1 DEF Unwanted
  <2>. QED
    BY <1>2, <2>2, <2>3
<1>4. /\ M!Enter(k, st \o hand \o q)
      /\ Len(stash') + Len(queue') + Len(hand') <= MaxSize + 1
  BY <1>1, AcceptEnters
<1>. QED
  BY <1>3, <1>4 DEF Bounded, Size

LEMMA PutSimulated ==
    ASSUME InboxAssumption, BoxInv, NEW s \in Senders, NEW k \in Kinds,
           ~Full, Accept(s, stash, queue, k), UNCHANGED dropped
    PROVE  Kept
<1>1. TypeOK
  BY DEF BoxInv, IInv
<1>2. Len(stash) + Len(hand) + Len(queue) <= MaxSize
  <2>1. /\ Len(stash) \in Nat /\ Len(queue) \in Nat /\ MaxSize \in Nat
        /\ Len(stash) + Len(queue) < MaxSize
    BY <1>1, Contents DEF Full
  <2>2. Len(hand) = 0 \/ Len(hand) = 1
    BY <1>1 DEF TypeOK
  <2>3. CASE Len(hand) = 0
    BY <2>1, <2>3
  <2>4. CASE Len(hand) = 1
    BY <2>1, <2>4
  <2>. QED
    BY <2>2, <2>3, <2>4
<1>3. Unwanted' /\ Bounded' /\ M!Enter(k, Box)
  BY <1>1, <1>2, AcceptKeeps, Contents DEF Box
<1>4. M!Accept(k)
  BY <1>3 DEF M!Accept
<1>. QED
  BY <1>3, <1>4 DEF Kept, Simulated, M!Next

(* Eviction takes the first message of the mailbox, or the second when the *)
(* first is in the hand of the reader.                                     *)
LEMMA EvictionSimulated ==
    ASSUME InboxAssumption, BoxInv, NEW s \in Senders, NEW k \in Kinds,
           PutDropOldest(s, k)
    PROVE  Kept
<1>1. TypeOK /\ Bounded
  BY DEF BoxInv, IInv
<1>2. /\ stash \in Seq(Message) /\ hand \in Seq(Message) /\ queue \in Seq(Message)
      /\ stash \o hand \in Seq(Message) /\ hand \o queue \in Seq(Message)
      /\ Len(stash) \in Nat /\ Len(hand) \in Nat /\ Len(queue) \in Nat
      /\ MaxSize \in Nat \ {0}
      /\ Len(Box) = Len(stash) + Len(hand) + Len(queue)
      /\ Box = stash \o (hand \o queue)
  BY <1>1, Contents
<1>3. /\ Len(stash) + Len(queue) >= MaxSize
      /\ Len(stash) + Len(queue) + Len(hand) <= MaxSize + 1
  BY <1>1 DEF PutDropOldest, Full, Bounded, Size
<1>4. ASSUME NEW i \in {1, 2} \cap (1..Len(Box)),
             M!Enter(k, Without(Box, i)), dropped' = dropped \cup {Box[i]}
      PROVE  Simulated
  <2>1. M!Evict(k)
    BY <1>4, SameWithout DEF M!Evict
  <2>. QED
    BY <2>1 DEF Simulated, M!Next
<1>5. CASE /\ stash # <<>> /\ dropped' = dropped \cup {Head(stash)}
           /\ Accept(s, Tail(stash), queue, k)
  <2>1. /\ 1 \in 1..Len(stash) /\ stash[1] = Head(stash)
        /\ Without(stash, 1) = Tail(stash)
        /\ Tail(stash) \in Seq(Message) /\ Len(Tail(stash)) = Len(stash) - 1
        /\ \A i \in 1..Len(Tail(stash)) : Tail(stash)[i] = stash[i + 1]
    BY <1>2, <1>5, WithoutFirst, HeadTailProperties
  <2>2. \A i \in 1..Len(Tail(stash)) :
           \E j \in 1..Len(stash) : Tail(stash)[i] = stash[j]
    <3>1. \A i \in 1..Len(Tail(stash)) : i + 1 \in 1..Len(stash)
      BY <1>2, <2>1
    <3>. QED
      BY <2>1, <3>1
  <2>3. Len(Tail(stash)) + Len(hand) + Len(queue) <= MaxSize
    BY <1>2, <1>3, <2>1
  <2>4. /\ Unwanted' /\ Bounded'
        /\ M!Enter(k, Tail(stash) \o hand \o queue)
    BY <1>2, <1>5, <2>1, <2>2, <2>3, AcceptKeeps
  <2>5. Without(Box, 1) = Without(stash, 1) \o (hand \o queue)
    BY <1>2, <2>1, WithoutLeft
  <2>6. Without(Box, 1) = Tail(stash) \o hand \o queue
    <3>. DEFINE t == Tail(stash)
    <3>1. t \in Seq(Message) /\ Without(Box, 1) = t \o (hand \o queue)
      BY <2>1, <2>5
    <3>. HIDE DEF t
    <3>2. (t \o hand) \o queue = t \o (hand \o queue)
      BY <1>2, <3>1, Associative
    <3>. QED
      BY <3>1, <3>2 DEF t
  <2>7. Box[1] = Head(stash)
    BY <1>2, <2>1, Joined
  <2>8. 1 \in {1, 2} \cap (1..Len(Box))
    BY <1>2, <2>1
  <2>9. Simulated
    BY <1>4, <1>5, <2>4, <2>6, <2>7, <2>8
  <2>. QED
    BY <2>4, <2>9 DEF Kept
<1>6. CASE /\ stash = <<>> /\ dropped' = dropped \cup {Head(queue)}
           /\ Accept(s, stash, Tail(queue), k)
  <2>0. Len(stash) = 0
    BY <1>6, EmptySeq
  <2>1. queue # <<>>
    BY <1>2, <1>3, <2>0, EmptySeq
  <2>2. /\ 1 \in 1..Len(queue) /\ queue[1] = Head(queue)
        /\ Without(queue, 1) = Tail(queue)
        /\ Tail(queue) \in Seq(Message) /\ Len(Tail(queue)) = Len(queue) - 1
    BY <1>2, <2>1, WithoutFirst, HeadTailProperties
  <2>3. Len(stash) + Len(hand) + Len(Tail(queue)) <= MaxSize
    BY <1>2, <1>3, <2>2
  <2>4. /\ Unwanted' /\ Bounded'
        /\ M!Enter(k, stash \o hand \o Tail(queue))
    BY <1>2, <1>6, <2>2, <2>3, AcceptKeeps
  <2>5. /\ Without(Box, Len(hand) + 1) = hand \o Tail(queue)
        /\ Box[Len(hand) + 1] = Head(queue)
    <3>1. Box = hand \o queue
      BY <1>2, <1>6, NothingJoined
    <3>2. Without(hand \o queue, Len(hand) + 1) = hand \o Without(queue, 1)
      BY <1>2, <2>2, WithoutRight
    <3>3. (hand \o queue)[Len(hand) + 1] = queue[1]
      BY <1>2, <2>2, Joined
    <3>. QED
      BY <2>2, <3>1, <3>2, <3>3
  <2>6. stash \o hand \o Tail(queue) = hand \o Tail(queue)
    BY <1>2, <1>6, NothingJoined
  <2>7. Len(hand) + 1 \in {1, 2} \cap (1..Len(Box))
    <3>1. Len(hand) \in {0, 1}
      BY <1>1 DEF TypeOK
    <3>2. Len(queue) >= 1
      BY <1>2, <2>2
    <3>. QED
      BY <1>2, <3>1, <3>2, <2>0
  <2>8. Simulated
    BY <1>4, <1>6, <2>4, <2>5, <2>6, <2>7
  <2>. QED
    BY <2>4, <2>8 DEF Kept
<1>. QED
  BY <1>5, <1>6 DEF PutDropOldest

(* A step that leaves the messages and the reader where they are.          *)
LEMMA Idles ==
    ASSUME BoxInv,
           UNCHANGED <<stash, hand, queue, want, delivered, accepted, dropped,
                       lost, expiries>>,
           reader' = reader \/ reader' \in {"idle", "raised"}
    PROVE  Kept
<1>1. Unwanted' /\ Bounded'
  BY DEF BoxInv, Unwanted, Bounded, Wanted, Size
<1>2. Simulated
  BY DEF Simulated, Box
<1>. QED
  BY <1>1, <1>2 DEF Kept

LEMMA SenderSimulated ==
    ASSUME InboxAssumption, BoxInv, NEW s \in Senders, SenderNext(s)
    PROVE  Kept
<1>1. ASSUME NEW k \in Kinds, PutRoom(s, k) PROVE Kept
  BY <1>1, PutSimulated DEF PutRoom
<1>2. ASSUME NEW k \in Kinds, PutDropOldest(s, k) PROVE Kept
  BY <1>2, EvictionSimulated
<1>3. ASSUME NEW k \in Kinds, PutBlocks(s, k) PROVE Kept
  BY <1>3, Idles DEF PutBlocks, store, wait, tally
<1>4. CASE PutRefused(s)
  BY <1>4, Idles DEF PutRefused, vars
<1>5. CASE PutResumes(s)
  <2>1. sending[s] \in Kinds
    BY <1>5 DEF PutResumes, BoxInv, IInv, TypeOK
  <2>2. CASE ~closed /\ ~Full /\ Accept(s, stash, queue, sending[s]) /\ UNCHANGED dropped
    BY <2>1, <2>2, PutSimulated
  <2>3. CASE UNCHANGED <<store, wait, tally, delivered, lost, expiries>>
    BY <2>3, Idles DEF store, wait, tally
  <2>. QED
    BY <1>5, <2>2, <2>3 DEF PutResumes
<1>6. CASE PutCancelled(s)
  BY <1>6, Idles DEF PutCancelled, store, wait, tally
<1>. QED
  BY <1>1, <1>2, <1>3, <1>4, <1>5, <1>6 DEF SenderNext

-----------------------------------------------------------------------------
(* The reader.                                                             *)

LEMMA BoxAfter ==
    ASSUME stash' \in Seq(Message), queue' \in Seq(Message), hand' = <<>>
    PROVE  Box' = stash' \o queue'
<1>1. (stash \o hand)' = stash'
  BY NothingJoined
<1>. QED
  BY <1>1 DEF Box

(* An idle reader takes the i-th message out of the deques.                *)
LEMMA ScanTakes ==
    ASSUME InboxAssumption, BoxInv, reader = "idle", Unread,
           stash' \in Seq(Message), queue' \in Seq(Message),
           Len(stash') + Len(queue') <= Len(stash) + Len(queue),
           NEW i \in 1..Len(stash \o queue),
           \A j \in 1..(i - 1) : (stash \o queue)[j].kind # (stash \o queue)[i].kind,
           stash' \o queue' = Without(stash \o queue, i),
           delivered' = Append(delivered, (stash \o queue)[i])
    PROVE  Kept
<1>1. TypeOK /\ Bounded
  BY DEF BoxInv, IInv
<1>2. hand = <<>> /\ Box = stash \o queue
  BY <1>1, Contents
<1>3. UNCHANGED <<reader, want, hand, accepted, dropped, lost, expiries>>
  BY DEF Unread, wait, tally
<1>4. Box' = stash' \o queue'
  BY <1>2, <1>3, BoxAfter
<1>5. Simulated
  BY <1>2, <1>3, <1>4, Takes
<1>6. Unwanted'
  BY <1>3 DEF Unwanted
<1>7. Bounded'
  <2>1. /\ Len(stash) + Len(queue) + Len(hand) <= MaxSize + 1
        /\ Len(hand') = Len(hand)
        /\ Len(hand) \in Nat /\ MaxSize \in Nat
        /\ Len(stash) \in Nat /\ Len(queue) \in Nat
    BY <1>1, <1>3, Contents DEF Bounded, Size
  <2>2. Len(stash') \in Nat /\ Len(queue') \in Nat
    BY LenProperties
  <2>3. Len(stash') + Len(queue') + Len(hand') <= MaxSize + 1
    BY <2>1, <2>2
  <2>. QED
    BY <2>3 DEF Bounded, Size
<1>. QED
  BY <1>5, <1>6, <1>7 DEF Kept

LEMMA ScanSimulated ==
    ASSUME InboxAssumption, BoxInv,
           GetStash \/ GetQueue \/ \E k \in Matches : ReceiveScans(k)
    PROVE  Kept
<1>1. TypeOK
  BY DEF BoxInv, IInv
<1>2. /\ stash \in Seq(Message) /\ queue \in Seq(Message)
      /\ Len(stash) \in Nat /\ Len(queue) \in Nat
  BY <1>1, Contents
<1>3. /\ stash \o queue \in Seq(Message)
      /\ Len(stash \o queue) = Len(stash) + Len(queue)
      /\ \A i \in 1..Len(stash) : (stash \o queue)[i] = stash[i]
      /\ \A i \in 1..Len(queue) : (stash \o queue)[Len(stash) + i] = queue[i]
  BY <1>2, Joined
(* A message of the stash, the first of its kind there.                    *)
<1>4. ASSUME NEW i \in 1..Len(stash),
             \A j \in 1..(i - 1) : stash[j].kind # stash[i].kind,
             reader = "idle", Unread, queue' = queue,
             stash' = Without(stash, i),
             delivered' = Append(delivered, stash[i])
      PROVE  Kept
  <2>1. stash' \in Seq(Message) /\ Len(stash') = Len(stash) - 1
    BY <1>2, <1>4, WithoutElements
  <2>2. stash' \o queue' = Without(stash \o queue, i)
    BY <1>2, <1>4, WithoutLeft
  <2>3. i \in 1..Len(stash \o queue) /\ \A j \in 1..(i - 1) : j \in 1..Len(stash)
    BY <1>2, <1>3
  <2>4. \A j \in 1..(i - 1) : (stash \o queue)[j].kind # (stash \o queue)[i].kind
    BY <1>3, <1>4, <2>3
  <2>5. Len(stash') + Len(queue') <= Len(stash) + Len(queue)
    BY <1>2, <1>4, <2>1
  <2>6. delivered' = Append(delivered, (stash \o queue)[i])
    BY <1>3, <1>4
  <2>. QED
    BY <1>2, <1>4, <2>1, <2>2, <2>3, <2>4, <2>5, <2>6, ScanTakes
(* A message of the queue, with none of its kind before it.                *)
<1>5. ASSUME NEW i \in 1..Len(queue),
             \A j \in 1..(i - 1) : queue[j].kind # queue[i].kind,
             \A j \in 1..Len(stash) : stash[j].kind # queue[i].kind,
             reader = "idle", Unread, stash' = stash,
             queue' = Without(queue, i),
             delivered' = Append(delivered, queue[i])
      PROVE  Kept
  <2>. DEFINE p == Len(stash) + i
  <2>1. queue' \in Seq(Message) /\ Len(queue') = Len(queue) - 1
    BY <1>2, <1>5, WithoutElements
  <2>2. stash' \o queue' = Without(stash \o queue, p)
    BY <1>2, <1>5, WithoutRight
  <2>3. p \in 1..Len(stash \o queue) /\ (stash \o queue)[p] = queue[i]
    BY <1>2, <1>3
  <2>4. ASSUME NEW j \in 1..(p - 1)
        PROVE  (stash \o queue)[j].kind # (stash \o queue)[p].kind
    <3>1. CASE j <= Len(stash)
      <4>1. j \in 1..Len(stash)
        BY <1>2, <3>1
      <4>. QED
        BY <1>3, <1>5, <2>3, <4>1
    <3>2. CASE j > Len(stash)
      <4>1. PICK n \in 1..(i - 1) : j = Len(stash) + n
        <5>1. j - Len(stash) \in 1..(i - 1) /\ j = Len(stash) + (j - Len(stash))
          BY <1>2, <3>2
        <5>. QED
          BY <5>1
      <4>2. n \in 1..Len(queue)
        BY <1>2
      <4>. QED
        BY <1>3, <1>5, <2>3, <4>1, <4>2
    <3>3. j <= Len(stash) \/ j > Len(stash)
      BY <1>2
    <3>. QED
      BY <3>1, <3>2, <3>3
  <2>5. Len(stash') + Len(queue') <= Len(stash) + Len(queue)
    BY <1>2, <1>5, <2>1
  <2>6. delivered' = Append(delivered, (stash \o queue)[p])
    BY <1>5, <2>3
  <2>. HIDE DEF p
  <2>. QED
    BY <1>2, <1>5, <2>1, <2>2, <2>3, <2>4, <2>5, <2>6, ScanTakes
<1>6. CASE GetStash
  <2>1. /\ 1 \in 1..Len(stash) /\ stash[1] = Head(stash)
        /\ Without(stash, 1) = Tail(stash)
    BY <1>2, <1>6, WithoutFirst DEF GetStash
  <2>2. /\ reader = "idle" /\ Unread /\ queue' = queue
        /\ stash' = Without(stash, 1) /\ delivered' = Append(delivered, stash[1])
    BY <1>6, <2>1 DEF GetStash
  <2>3. \A j \in 1..(1 - 1) : stash[j].kind # stash[1].kind
    OBVIOUS
  <2>4. 1 \in 1..Len(stash)
    BY <2>1
  <2>. QED
    BY <1>4, <2>2, <2>3, <2>4
<1>7. CASE GetQueue
  <2>1. /\ 1 \in 1..Len(queue) /\ queue[1] = Head(queue)
        /\ Without(queue, 1) = Tail(queue)
    BY <1>2, <1>7, WithoutFirst DEF GetQueue
  <2>2. Len(stash) = 0
    BY <1>7, EmptySeq DEF GetQueue
  <2>3. /\ reader = "idle" /\ Unread /\ stash' = stash
        /\ queue' = Without(queue, 1) /\ delivered' = Append(delivered, queue[1])
    BY <1>7, <2>1 DEF GetQueue
  <2>4. /\ \A j \in 1..(1 - 1) : queue[j].kind # queue[1].kind
        /\ \A j \in 1..Len(stash) : stash[j].kind # queue[1].kind
    BY <2>2
  <2>5. 1 \in 1..Len(queue)
    BY <2>1
  <2>. QED
    BY <1>5, <2>3, <2>4, <2>5
<1>8. ASSUME NEW k \in Matches, ReceiveScans(k)
      PROVE  Kept
  <2>1. reader = "idle" /\ Unread
    BY <1>8 DEF ReceiveScans
  <2>2. CASE TakeStash(k)
    <3>1. PICK i \in 1..Len(stash) :
             /\ FirstOf(stash, k, i) /\ stash' = Without(stash, i)
             /\ delivered' = Append(delivered, stash[i]) /\ queue' = queue
      BY <2>2 DEF TakeStash
    <3>2. \A j \in 1..(i - 1) : j \in 1..Len(stash) /\ ~(i <= j)
      BY <1>2
    <3>3. \A j \in 1..(i - 1) : stash[j].kind # stash[i].kind
      BY <3>1, <3>2 DEF FirstOf, Matching
    <3>. QED
      BY <1>4, <2>1, <3>1, <3>3
  <2>3. CASE TakeQueue(k)
    <3>1. PICK i \in 1..Len(queue) :
             /\ FirstOf(queue, k, i) /\ queue' = Without(queue, i)
             /\ delivered' = Append(delivered, queue[i]) /\ stash' = stash
      BY <2>3 DEF TakeQueue
    <3>2. \A j \in 1..(i - 1) : j \in 1..Len(queue) /\ ~(i <= j)
      BY <1>2
    <3>3. \A j \in 1..(i - 1) : queue[j].kind # queue[i].kind
      BY <3>1, <3>2 DEF FirstOf, Matching
    <3>4. \A j \in 1..Len(stash) : stash[j].kind # queue[i].kind
      BY <2>3, <3>1 DEF TakeQueue, FirstOf, Matching
    <3>. QED
      BY <1>5, <2>1, <3>1, <3>3, <3>4
  <2>. QED
    BY <1>8, <2>2, <2>3 DEF ReceiveScans
<1>. QED
  BY <1>6, <1>7, <1>8

(* The message in hand stands behind the stash.                            *)
LEMMA HandInBox ==
    ASSUME InboxAssumption, TypeOK, reader = "handed"
    PROVE  /\ Len(stash) + 1 \in 1..Len(Box)
           /\ Box[Len(stash) + 1] = Head(hand)
           /\ Without(Box, Len(stash) + 1) = stash \o queue
           /\ \A j \in 1..Len(stash) : Box[j] = stash[j]
<1>1. /\ stash \in Seq(Message) /\ hand \in Seq(Message) /\ queue \in Seq(Message)
      /\ hand \o queue \in Seq(Message) /\ Box = stash \o (hand \o queue)
      /\ Len(stash) \in Nat /\ Len(hand) = 1 /\ Len(queue) \in Nat
      /\ Len(Box) = Len(stash) + Len(hand) + Len(queue)
  BY Contents
<1>2. hand # <<>>
  BY <1>1, EmptySeq
<1>3. /\ 1 \in 1..Len(hand) /\ hand[1] = Head(hand) /\ Without(hand, 1) = Tail(hand)
      /\ Tail(hand) \in Seq(Message) /\ Len(Tail(hand)) = 0
  BY <1>1, <1>2, WithoutFirst, HeadTailProperties
<1>4. Tail(hand) = <<>>
  BY <1>3, EmptySeq
<1>5. Without(hand \o queue, 1) = queue
  <2>1. Without(hand \o queue, 1) = Without(hand, 1) \o queue
    BY <1>1, <1>3, WithoutLeft
  <2>2. <<>> \o queue = queue
    BY <1>1, NothingJoined
  <2>. QED
    BY <1>3, <1>4, <2>1, <2>2
<1>6. /\ 1 \in 1..Len(hand \o queue) /\ (hand \o queue)[1] = Head(hand)
  BY <1>1, <1>3, Joined
<1>7. Without(Box, Len(stash) + 1) = stash \o Without(hand \o queue, 1)
  BY <1>1, <1>6, WithoutRight
<1>8. /\ Box[Len(stash) + 1] = Head(hand)
      /\ \A j \in 1..Len(stash) : Box[j] = stash[j]
  BY <1>1, <1>6, Joined
<1>9. Len(stash) + 1 \in 1..Len(Box)
  BY <1>1
<1>. QED
  BY <1>5, <1>7, <1>8, <1>9

LEMMA WaitSimulated ==
    ASSUME InboxAssumption, BoxInv,
           GetWaits \/ GetRefused \/ \E k \in Matches : ReceiveWaits(k)
    PROVE  Kept
<1>1. TypeOK /\ Bounded
  BY DEF BoxInv, IInv
<1>2. ASSUME NEW k, Await(k), \A i \in 1..Len(stash) : ~Wanted(k, stash[i])
      PROVE  Kept
  <2>1. /\ want' = k
        /\ UNCHANGED <<stash, hand, queue, delivered, accepted, dropped, lost,
                       expiries>>
    BY <1>2 DEF Await, store, tally
  <2>2. Unwanted'
    BY <1>2, <2>1 DEF Unwanted, Wanted
  <2>3. Bounded' /\ Simulated
    BY <1>1, <2>1 DEF Bounded, Size, Simulated, Box
  <2>. QED
    BY <2>2, <2>3 DEF Kept
<1>3. CASE GetWaits
  <2>1. Len(stash) = 0
    BY <1>1, <1>3, Contents DEF GetWaits
  <2>. QED
    BY <1>2, <1>3, <2>1 DEF GetWaits
<1>4. CASE GetRefused
  BY <1>4, Idles DEF GetRefused, vars
<1>5. ASSUME NEW k \in Matches, ReceiveWaits(k) PROVE Kept
  <2>1. \A i \in 1..Len(stash) : stash[i].kind # k
    BY <1>5 DEF ReceiveWaits, Matching
  <2>2. k # AnyKind
    BY DEF InboxAssumption
  <2>3. \A i \in 1..Len(stash) : ~Wanted(k, stash[i])
    BY <2>1, <2>2 DEF Wanted
  <2>. QED
    BY <1>2, <1>5, <2>3 DEF ReceiveWaits
<1>. QED
  BY <1>3, <1>4, <1>5

(* get() and receive() return the message in hand: whatever is older was   *)
(* set aside because the reader did not want it.                           *)
LEMMA ReturnSimulated ==
    ASSUME InboxAssumption, BoxInv, Returns
    PROVE  Kept
<1>1. TypeOK /\ Bounded /\ Unwanted
  BY DEF BoxInv, IInv
<1>2. /\ reader = "handed" /\ Wanted(want, Head(hand))
      /\ delivered' = Append(delivered, Head(hand))
      /\ reader' = "idle" /\ hand' = <<>>
      /\ UNCHANGED <<stash, queue, accepted, dropped, lost, expiries>>
  BY DEF Returns, Arrived, Leaves, store, tally
<1>3. /\ stash \in Seq(Message) /\ queue \in Seq(Message)
      /\ Len(stash) \in Nat /\ Len(queue) \in Nat /\ Len(hand) = 1
      /\ MaxSize \in Nat
  BY <1>1, <1>2, Contents
<1>. DEFINE p == Len(stash) + 1
<1>4. /\ p \in 1..Len(Box) /\ Box[p] = Head(hand)
      /\ Without(Box, p) = stash \o queue
      /\ \A j \in 1..Len(stash) : Box[j] = stash[j]
      /\ p - 1 = Len(stash)
  BY <1>1, <1>2, <1>3, HandInBox
<1>5. \A j \in 1..Len(stash) : stash[j].kind # Head(hand).kind
  BY <1>1, <1>2 DEF Unwanted, Wanted
<1>6. Box' = stash \o queue
  BY <1>2, <1>3, BoxAfter
<1>. HIDE DEF p
<1>7. Simulated
  BY <1>2, <1>4, <1>5, <1>6, Takes
<1>8. Len(hand') = 0
  BY <1>2, EmptySeq
<1>9. Unwanted' /\ Bounded'
  BY <1>1, <1>2, <1>3, <1>8 DEF Unwanted, Bounded, Size
<1>. QED
  BY <1>7, <1>9 DEF Kept

(* A message set aside keeps its place in the mailbox.                     *)
LEMMA SetAsideKeeps ==
    ASSUME InboxAssumption, TypeOK, Arrived,
           SetAside, hand' = <<>>, UNCHANGED queue
    PROVE  /\ Box' = Box
           /\ stash' \in Seq(Message) /\ Len(stash') = Len(stash) + 1
           /\ stash'[Len(stash) + 1] = Head(hand)
           /\ \A i \in 1..Len(stash) : stash'[i] = stash[i]
<1>1. /\ stash \in Seq(Message) /\ queue \in Seq(Message)
      /\ hand = <<Head(hand)>> /\ Head(hand) \in Message
  BY Contents DEF Arrived
<1>2. /\ stash' \in Seq(Message) /\ Len(stash') = Len(stash) + 1
      /\ stash'[Len(stash) + 1] = Head(hand)
      /\ \A i \in 1..Len(stash) : stash'[i] = stash[i]
  BY <1>1, AppendProperties DEF SetAside
<1>3. stash' = stash \o hand
  <2>. DEFINE h == Head(hand)
  <2>1. h \in Message /\ hand = <<h>> /\ stash' = Append(stash, h)
    BY <1>1 DEF SetAside
  <2>. HIDE DEF h
  <2>2. Append(stash, h) = stash \o <<h>>
    BY <1>1, <2>1, AppendIsConcat
  <2>. QED
    BY <2>1, <2>2
<1>4. Box' = stash' \o queue'
  BY <1>1, <1>2, BoxAfter
<1>5. Box' = Box
  BY <1>3, <1>4 DEF Box
<1>. QED
  BY <1>2, <1>5

LEMMA ResumeSimulated ==
    ASSUME InboxAssumption, BoxInv, ReaderResumes
    PROVE  Kept
<1>1. TypeOK /\ Bounded /\ Unwanted
  BY DEF BoxInv, IInv
<1>2. CASE GetReturns \/ ReceiveReturns
  BY <1>2, ReturnSimulated DEF GetReturns, ReceiveReturns
<1>3. CASE ReceiveStashes
  <2>1. /\ Arrived /\ ~Wanted(want, Head(hand)) /\ SetAside
        /\ reader = "handed" /\ hand' = <<>>
        /\ UNCHANGED <<queue, want, accepted, dropped, delivered, lost, expiries>>
    BY <1>3 DEF ReceiveStashes, Arrived, tally
  <2>2. /\ Box' = Box
        /\ stash' \in Seq(Message) /\ Len(stash') = Len(stash) + 1
        /\ stash'[Len(stash) + 1] = Head(hand)
        /\ \A i \in 1..Len(stash) : stash'[i] = stash[i]
    BY <1>1, <2>1, SetAsideKeeps
  <2>3. /\ Len(stash) \in Nat /\ Len(hand) = 1 /\ Len(queue) \in Nat
        /\ Len(hand') = 0 /\ MaxSize \in Nat
    BY <1>1, <2>1, Contents, EmptySeq
  <2>4. Unwanted'
    <3>. SUFFICES ASSUME NEW i \in 1..Len(stash')
                  PROVE  ~Wanted(want, stash'[i])
      BY <2>1 DEF Unwanted, Wanted
    <3>1. i \in 1..Len(stash) \/ i = Len(stash) + 1
      BY <2>2, <2>3
    <3>2. CASE i \in 1..Len(stash)
      BY <1>1, <2>1, <2>2, <3>2 DEF Unwanted
    <3>3. CASE i = Len(stash) + 1
      BY <2>1, <2>2, <3>3
    <3>. QED
      BY <3>1, <3>2, <3>3
  <2>5. Bounded'
    BY <1>1, <2>1, <2>2, <2>3 DEF Bounded, Size
  <2>6. Simulated
    BY <2>1, <2>2 DEF Simulated
  <2>. QED
    BY <2>4, <2>5, <2>6 DEF Kept
<1>4. CASE ReceiveStashesLate
  <2>1. /\ Arrived /\ SetAside /\ reader = "handed"
        /\ reader' = "idle" /\ hand' = <<>>
        /\ expiries' = expiries + 1
        /\ UNCHANGED <<queue, accepted, dropped, delivered, lost>>
    BY <1>4 DEF ReceiveStashesLate, Arrived, Leaves, tally
  <2>2. Box' = Box /\ Len(stash') = Len(stash) + 1
    BY <1>1, <2>1, SetAsideKeeps
  <2>3. /\ Len(stash) \in Nat /\ Len(hand) = 1 /\ Len(queue) \in Nat
        /\ Len(hand') = 0 /\ MaxSize \in Nat
    BY <1>1, <2>1, Contents, EmptySeq
  <2>4. Unwanted' /\ Bounded'
    BY <1>1, <2>1, <2>2, <2>3 DEF Unwanted, Bounded, Size
  <2>5. M!Expire
    BY <2>1, <2>2 DEF M!Expire
  <2>. QED
    BY <2>4, <2>5 DEF Kept, Simulated, M!Next
<1>5. CASE ReaderRaises
  <2>1. /\ reader = "raised" /\ reader' = "idle"
        /\ UNCHANGED <<stash, hand, queue, delivered, accepted, dropped, lost,
                       expiries>>
    BY <1>5 DEF ReaderRaises, store, tally
  <2>2. Unwanted' /\ Bounded' /\ Simulated
    BY <1>1, <2>1 DEF Unwanted, Bounded, Size, Simulated, Box
  <2>. QED
    BY <2>2 DEF Kept
<1>. QED
  BY <1>2, <1>3, <1>4, <1>5 DEF ReaderResumes

(* A wait that ends early loses the message in hand and no other.          *)
LEMMA ExpirySimulated ==
    ASSUME InboxAssumption, BoxInv, NEW leaves \in {0, 1}, GivesUp(leaves)
    PROVE  Kept
<1>1. TypeOK /\ Bounded
  BY DEF BoxInv, IInv
<1>2. /\ expiries' = expiries + 1
      /\ lost' = lost \cup {hand[i] : i \in 1..Len(hand)}
      /\ reader' = "idle" /\ hand' = <<>>
      /\ UNCHANGED <<stash, queue, accepted, dropped, delivered>>
  BY DEF GivesUp, Leaves, store, tally
<1>3. /\ stash \in Seq(Message) /\ queue \in Seq(Message) /\ hand \in Seq(Message)
      /\ Len(hand) \in Nat /\ Len(stash) \in Nat /\ Len(queue) \in Nat
      /\ MaxSize \in Nat /\ Len(hand') = 0
      /\ reader # "handed" => hand = <<>> /\ Box = stash \o queue
      /\ reader = "handed" => Len(hand) = 1
  BY <1>1, <1>2, Contents, EmptySeq
<1>4. Unwanted' /\ Bounded'
  BY <1>1, <1>2, <1>3 DEF Unwanted, Bounded, Size
<1>5. Box' = stash \o queue
  BY <1>2, <1>3, BoxAfter
<1>6. M!Expire
  <2>1. CASE reader = "handed"
    <3>. DEFINE p == Len(stash) + 1
    <3>1. /\ p \in 1..Len(Box) /\ Box[p] = Head(hand)
          /\ Without(Box, p) = stash \o queue
      BY <1>1, <2>1, HandInBox
    <3>2. {hand[i] : i \in 1..Len(hand)} = {Head(hand)}
      <4>1. hand[1] = Head(hand) /\ Len(hand) = 1
        BY <1>3, <2>1
      <4>2. 1..1 = {1}
        OBVIOUS
      <4>. QED
        BY <4>1, <4>2
    <3>. HIDE DEF p
    <3>3. Box' = M!Without(Box, p) /\ lost' = lost \cup {Box[p]}
      BY <1>2, <1>5, <3>1, <3>2, SameWithout
    <3>. QED
      BY <1>2, <3>1, <3>3 DEF M!Expire
  <2>2. CASE reader # "handed"
    <3>1. {hand[i] : i \in 1..Len(hand)} = {}
      <4>1. Len(hand) = 0
        BY <1>3, <2>2, EmptySeq
      <4>. QED
        BY <4>1
    <3>. QED
      BY <1>2, <1>3, <1>5, <2>2, <3>1 DEF M!Expire
  <2>. QED
    BY <2>1, <2>2
<1>. QED
  BY <1>4, <1>6 DEF Kept, Simulated, M!Next

LEMMA StepSimulated ==
    ASSUME InboxAssumption, BoxInv, [Next]_vars
    PROVE  Kept
<1>1. ASSUME NEW s \in Senders, SenderNext(s) PROVE Kept
  BY <1>1, SenderSimulated
<1>2. CASE GetStash \/ GetQueue \/ \E k \in Matches : ReceiveScans(k)
  BY <1>2, ScanSimulated
<1>3. CASE GetWaits \/ GetRefused \/ \E k \in Matches : ReceiveWaits(k)
  BY <1>3, WaitSimulated
<1>4. CASE ReaderResumes
  BY <1>4, ResumeSimulated
<1>5. CASE TimesOut \/ Cancelled
  BY <1>5, ExpirySimulated DEF TimesOut, Cancelled
<1>6. CASE Close
  <2>1. reader' = reader \/ reader' = "raised"
    BY <1>6 DEF Close
  <2>. QED
    BY <1>6, <2>1, Idles DEF Close, store, tally
<1>7. CASE UNCHANGED vars
  BY <1>7, Idles DEF vars
<1>. QED
  BY <1>1, <1>2, <1>3, <1>4, <1>5, <1>6, <1>7 DEF Next, Get

(* The two deques, the event and the futures of inbox.py:24-187 behave as  *)
(* one bounded mailbox, for every number of senders, every capacity and    *)
(* every policy.                                                           *)
THEOREM Refinement == Spec => ImplementsMailbox
<1>1. Init => M!Init /\ Unwanted /\ Bounded
  <2>. SUFFICES ASSUME Init PROVE M!Init /\ Unwanted /\ Bounded
    OBVIOUS
  <2>1. TypeOK
    BY InitInv, InboxAssumption DEF IInv
  <2>2. /\ stash = <<>> /\ hand = <<>> /\ queue = <<>>
        /\ <<>> \in Seq(Message) /\ Len(<<>>) = 0
    BY EmptySeq DEF Init
  <2>3. Box = <<>>
    BY <2>2, NothingJoined DEF Box
  <2>4. M!Init
    BY <2>3 DEF Init, M!Init
  <2>5. Unwanted
    BY DEF Init, Unwanted
  <2>6. Bounded
    BY <2>2, InboxAssumption DEF Bounded, Size, InboxAssumption
  <2>. QED
    BY <2>4, <2>5, <2>6
<1>2. /\ IInv /\ Unwanted /\ Bounded /\ [Next]_vars
      => Unwanted' /\ Bounded' /\ [M!Next]_(M!vars)
  <2>. SUFFICES ASSUME IInv, Unwanted, Bounded, [Next]_vars
                PROVE  Unwanted' /\ Bounded' /\ [M!Next]_(M!vars)
    OBVIOUS
  <2>1. Kept
    BY StepSimulated, InboxAssumption DEF BoxInv
  <2>. QED
    BY <2>1 DEF Kept, Simulated, M!vars
<1>3. Spec => [](Unwanted /\ Bounded)
  BY <1>1, <1>2, Invariance, PTL DEF Spec
<1>. QED
  BY <1>1, <1>2, <1>3, Invariance, PTL DEF Spec, ImplementsMailbox, M!Spec

(* No message put() has accepted is forgotten or delivered twice, and of   *)
(* two messages of one kind the later one is never delivered first         *)
(* (inbox.py:96-187): what holds of a mailbox holds of the inbox.          *)
THEOREM Delivery == Spec => []EachOnceInOrder
<1>1. MailInv => EachOnceInOrder
  BY DEF MailInv, EachOnceInOrder
<1>. QED
  BY <1>1, Refinement, MailboxSafety, PTL DEF ImplementsMailbox
=============================================================================
