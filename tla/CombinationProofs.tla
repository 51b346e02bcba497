------------------------- MODULE CombinationProofs -------------------------
(***************************************************************************)
(* Proofs about the chain of advisors, for any number of advisors, any     *)
(* arguments and any number of proceed() calls.                            *)
(***************************************************************************)
EXTENDS Combination, SequenceTheorems, TLAPS

(* A part of the inner chain reads args while it is the deepest call, so   *)
(* nobody has set them since.                                              *)
ArgsCurrent ==
    ~overlapped => \A c \in DOMAIN calls :
        (Running(c) /\ calls[c].level = Inner) => calls[c].given = args

(* What a trace says: an around advisor is listed when it has returned,    *)
(* the parts of an inner chain one by one.                                 *)
PartType  == [phase : {"before", "primary", "after", "around"}, number : Int]
EntryType == [call : Nat, part : PartType]

Earned(e) ==
    /\ e.call \in DOMAIN calls
    /\ calls[e.call].level # Inner => ~Running(e.call)
    /\ calls[e.call].level = Inner =>
           \E k \in 1..calls[e.call].returned : e.part = Part(k)

Listed == trace \in Seq(EntryType) /\ \A i \in DOMAIN trace : Earned(trace[i])

Unfinished ==
    \A c \in DOMAIN calls :
        (Running(c) /\ calls[c].level = Inner) => calls[c].returned < NumParts

IInv == /\ ChainTypeOK /\ ArgsCurrent /\ Listed /\ Unfinished
        /\ RightArgs /\ TraceNested /\ TraceOrdered

LEMMA Numbers ==
    ASSUME CombinationAssumption
    PROVE  Inner \in Nat /\ NumParts \in Nat /\ NumParts > 0 /\ Inner > 0
BY DEF CombinationAssumption, Inner, NumParts

LEMMA PartTyped ==
    ASSUME CombinationAssumption, NEW i \in 1..NumParts
    PROVE  Part(i) \in PartType
<1>1. /\ i \in Int /\ NumParts + 1 - i \in Int
      /\ 1 \in Int
    BY Numbers
<1>2. \A q \in {"before", "primary", "after"}, n \in Int :
          [phase |-> q, number |-> n] \in PartType
    BY DEF PartType
<1>. QED
    BY <1>1, <1>2 DEF Part

LEMMA CallTyped ==
    ASSUME CombinationAssumption, NEW l \in 1..Inner, NEW g \in Args, NEW b \in Nat,
           NEW f \in BOOLEAN
    PROVE  LET k == Call(l, g, b, g, f)
           IN  /\ k \in CallType
               /\ k.level = l /\ k.given = g /\ k.caller = b /\ k.state = "running"
               /\ k.returned = 0 /\ k.seen = {g} /\ k.left = f
<1>1. 0 \in 0..NumParts
    BY Numbers
<1>. QED
    BY <1>1 DEF Call, CallType

LEMMA PartsDue ==
    ASSUME CombinationAssumption, NEW j \in 1..NumParts, NEW i \in 1..(j - 1)
    PROVE  Due(Part(i), Part(j))
BY DEF CombinationAssumption, NumParts, Part, Due

LEMMA InitInv ==
    ASSUME CombinationAssumption, ChainInit
    PROVE  IInv
<1>. DEFINE k == Call(1, args, 0, args, FALSE)
<1>1. /\ k \in CallType /\ k.level = 1 /\ k.given = args /\ k.caller = 0
      /\ k.returned = 0 /\ k.seen = {args}
  <2>1. 1 \in 1..Inner /\ args \in Args /\ 0 \in Nat /\ FALSE \in BOOLEAN
    BY Numbers DEF ChainInit
  <2>. QED
    BY ZenonT(40), <2>1, CallTyped DEF Call
<1>2. calls = <<k>>
    BY DEF ChainInit
<1>. HIDE DEF k
<1>3. calls \in Seq(CallType) /\ DOMAIN calls = {1} /\ calls[1] = k
    BY <1>1, <1>2
<1>4. Placed(1)
    BY <1>1, <1>3 DEF Placed
<1>5. ChainTypeOK
    BY <1>3, <1>4 DEF ChainTypeOK, ChainInit
<1>6. ArgsCurrent /\ RightArgs /\ Unfinished
    BY <1>1, <1>3, Numbers DEF ArgsCurrent, RightArgs, Unfinished
<1>7. Listed /\ TraceNested /\ TraceOrdered
    BY DEF ChainInit, Listed, TraceNested, TraceOrdered
<1>. QED
    BY <1>5, <1>6, <1>7 DEF IInv

LEMMA ProceedInv ==
    ASSUME CombinationAssumption, IInv,
           NEW c \in DOMAIN calls, NEW a \in Args, Proceed(c, a)
    PROVE  IInv'
<1>. DEFINE new == Call(calls[c].level + 1, a, c, a, ~Running(c))
<1>0. PICK n : n = Len(calls) + 1
    OBVIOUS
<1>1. /\ calls \in Seq(CallType) /\ c \in 1..Len(calls) /\ calls[c] \in CallType
      /\ calls[c].level < Inner /\ calls[c].level + 1 \in 1..Inner /\ c \in Nat \ {0}
  <2>1. calls \in Seq(CallType) /\ calls[c] \in CallType
    BY DEF IInv, ChainTypeOK
  <2>2. calls[c].level \in 1..Inner
    BY <2>1 DEF CallType
  <2>. QED
    BY <2>1, <2>2, Numbers DEF Proceed
<1>2. /\ new \in CallType /\ new.level = calls[c].level + 1 /\ new.given = a
      /\ new.caller = c /\ new.state = "running" /\ new.returned = 0 /\ new.seen = {a}
      /\ new.left = ~Running(c)
  <2>1. PICK f \in BOOLEAN : f = ~Running(c)
    BY DEF Running
  <2>2. new = Call(calls[c].level + 1, a, c, a, f)
    BY <2>1
  <2>3. /\ new \in CallType /\ new.level = calls[c].level + 1 /\ new.given = a
        /\ new.caller = c /\ new.state = "running" /\ new.returned = 0 /\ new.seen = {a}
        /\ new.left = f
    BY ZenonT(40), <1>1, <2>1, <2>2, CallTyped DEF Call
  <2>. QED
    BY <2>1, <2>3
<1>3. calls' = Append(calls, new) /\ args' = a
    BY DEF Proceed
<1>. HIDE DEF new
<1>4. /\ calls' \in Seq(CallType)
      /\ n \in Nat /\ n \notin DOMAIN calls
      /\ DOMAIN calls' = DOMAIN calls \cup {n} /\ calls'[n] = new
      /\ \A d \in DOMAIN calls : calls'[d] = calls[d] /\ d \in 1..(n - 1)
    BY <1>0, <1>1, <1>2, <1>3
<1>5. \A d \in DOMAIN calls : Running(d)' <=> Running(d)
    BY <1>4 DEF Running
<1>6. ChainTypeOK'
  <2>1. ASSUME NEW d \in DOMAIN calls PROVE Placed(d)'
    <3>1. Placed(d) /\ calls'[d] = calls[d] /\ d \in Nat
      BY <1>4 DEF IInv, ChainTypeOK
    <3>2. CASE calls[d].caller = 0 /\ calls[d].level = 1
      BY <3>1, <3>2 DEF Placed
    <3>3. CASE calls[d].caller \in 1..(d - 1)
      <4>1. calls[d].caller \in DOMAIN calls
        BY <1>1, <3>1, <3>3
      <4>. QED
        BY <1>4, <1>5, <3>1, <3>3, <4>1 DEF Placed
    <3>. QED
      BY <3>1, <3>2, <3>3 DEF Placed
  <2>2. Placed(n)'
    <3>1. n \in Nat /\ c \in 1..(n - 1)
      BY <1>4
    <3>2. calls'[c] = calls[c] /\ (Running(c)' <=> Running(c))
      BY <1>4, <1>5
    <3>. QED
      BY <1>2, <1>4, <3>1, <3>2 DEF Placed
  <2>3. args' \in Args /\ overlapped' \in BOOLEAN
    BY <1>3 DEF IInv, ChainTypeOK, Proceed
  <2>4. \A d \in DOMAIN calls' : Placed(d)'
    BY <1>4, <2>1, <2>2
  <2>5. CallType' = CallType
    BY DEF CallType, Inner, NumParts
  <2>. QED
    BY <1>4, <2>3, <2>4, <2>5 DEF ChainTypeOK
<1>7. ArgsCurrent'
  <2>. SUFFICES ASSUME ~overlapped', NEW d \in DOMAIN calls',
                       Running(d)', calls'[d].level = Inner
                PROVE  calls'[d].given = args'
    BY DEF ArgsCurrent, Inner
  <2>1. CASE d = n
    BY <1>2, <1>3, <1>4, <2>1
  <2>2. CASE d \in DOMAIN calls
    <3>1. Deeper(c)
      BY <1>1, <1>4, <1>5, <2>2 DEF Deeper
    <3>. QED
      BY <3>1 DEF Proceed
  <2>. QED
    BY <1>4, <2>1, <2>2
<1>8. RightArgs'
  <2>1. overlapped => overlapped'
    BY DEF Proceed
  <2>. QED
    BY <1>2, <1>4, <2>1 DEF IInv, RightArgs
<1>9. Unfinished'
    BY <1>2, <1>4, <1>5, Numbers DEF IInv, Unfinished, Inner, NumParts
<1>10. trace' = trace
    BY DEF Proceed
<1>11. \A i \in DOMAIN trace : trace[i].call \in DOMAIN calls
    BY DEF IInv, Listed, Earned
<1>12. Listed'
  <2>1. ASSUME NEW i \in DOMAIN trace PROVE Earned(trace[i])'
    <3>1. Earned(trace[i])
      BY DEF IInv, Listed
    <3>. QED
      BY <1>4, <1>5, <1>10, <1>11, <3>1 DEF Earned, Inner, Part, NumParts
  <2>. QED
    BY <1>10, <2>1 DEF IInv, Listed
<1>13. TraceNested' /\ TraceOrdered'
    BY <1>4, <1>10, <1>11 DEF IInv, TraceNested, TraceOrdered
<1>. QED
    BY <1>6, <1>7, <1>8, <1>9, <1>12, <1>13 DEF IInv

(* The steps that end a call or a part of it: callers, levels and          *)
(* arguments stay as they are.                                             *)
Settles(c) ==
    /\ calls' \in Seq(CallType) /\ DOMAIN calls' = DOMAIN calls
    /\ \A d \in DOMAIN calls :
           /\ d # c => /\ calls'[d].state = calls[d].state
                       /\ calls'[d].returned = calls[d].returned
                       /\ calls'[d].seen = calls[d].seen
           /\ calls'[d].caller = calls[d].caller
           /\ calls'[d].level = calls[d].level
           /\ calls'[d].given = calls[d].given
           /\ Running(d)' => Running(d)
           /\ calls[d].left => calls'[d].left
           /\ calls[d].caller = c /\ Running(d)' /\ ~calls'[d].left => Running(c)'
    /\ args' = args /\ overlapped' = overlapped

LEMMA SettlesTypeOK ==
    ASSUME CombinationAssumption, IInv, NEW c \in DOMAIN calls, Settles(c)
    PROVE  ChainTypeOK'
<1>1. \A d \in DOMAIN calls' : Placed(d)'
  <2>. SUFFICES ASSUME NEW d \in DOMAIN calls' PROVE Placed(d)'
    OBVIOUS
  <2>1. /\ d \in DOMAIN calls /\ Placed(d) /\ d \in Nat
        /\ calls \in Seq(CallType)
    BY DEF IInv, ChainTypeOK, Settles
  <2>2. /\ calls'[d].caller = calls[d].caller
        /\ calls'[d].level = calls[d].level
        /\ Running(d)' => Running(d)
        /\ calls[d].left => calls'[d].left
    BY <2>1 DEF Settles
  <2>3. CASE calls[d].caller = 0 /\ calls[d].level = 1
    BY <2>2, <2>3 DEF Placed
  <2>4. CASE calls[d].caller \in 1..(d - 1)
    <3>1. calls[d].caller \in DOMAIN calls
      BY <2>1, <2>4
    <3>2. /\ calls'[calls[d].caller].level = calls[calls[d].caller].level
          /\ calls[d].caller # c =>
                calls'[calls[d].caller].state = calls[calls[d].caller].state
      BY <3>1 DEF Settles
    <3>3. calls[d].caller = c => (Running(d)' /\ ~calls'[d].left => Running(c)')
      BY <2>1 DEF Settles
    <3>4. Running(d) /\ ~calls[d].left => Running(calls[d].caller)
      BY <2>1, <2>4 DEF Placed
    <3>5. calls[d].level = calls[calls[d].caller].level + 1
      BY <2>1, <2>4 DEF Placed
    <3>6. Running(d)' /\ ~calls'[d].left => Running(calls[d].caller)'
      BY <2>2, <3>2, <3>3, <3>4 DEF Running
    <3>. QED
      BY <2>2, <2>4, <3>2, <3>5, <3>6 DEF Placed
  <2>. QED
    BY <2>1, <2>3, <2>4 DEF Placed
<1>2. CallType' = CallType
  BY DEF CallType, Inner, NumParts
<1>. QED
  BY <1>1, <1>2 DEF IInv, ChainTypeOK, Settles

LEMMA AppendTrace ==
    ASSUME CombinationAssumption, IInv, NEW c \in DOMAIN calls, Running(c), Settles(c),
           NEW p \in PartType, trace' = Append(trace, Entry(c, p)),
           \A d \in DOMAIN calls : calls'[d].returned \in Nat /\ calls'[d].returned >= calls[d].returned,
           calls[c].level # Inner => ~Running(c)',
           calls[c].level = Inner =>
               /\ calls[c].returned < NumParts
               /\ calls'[c].returned = calls[c].returned + 1
               /\ p = Part(calls[c].returned + 1)
    PROVE  Listed' /\ TraceNested' /\ TraceOrdered'
<1>. DEFINE e == Entry(c, p)
<1>0. PICK n : n = Len(trace) + 1
    OBVIOUS
<1>1. /\ c \in Nat \ {0} /\ trace \in Seq(EntryType) /\ calls[c] \in CallType
      /\ Placed(c)
    BY DEF IInv, ChainTypeOK, Listed
<1>2. e \in EntryType /\ e.call = c /\ e.part = p
    BY <1>1 DEF Entry, EntryType
<1>. HIDE DEF e
<1>3. /\ trace' \in Seq(EntryType)
      /\ DOMAIN trace' = DOMAIN trace \cup {n} /\ trace'[n] = e
      /\ \A i \in DOMAIN trace : trace'[i] = trace[i] /\ i < n /\ i \in Nat
      /\ n \in Nat /\ n \notin DOMAIN trace
    BY <1>0, <1>1, <1>2 DEF e
<1>4. /\ calls[c].returned \in Nat /\ calls[c].level \in 1..Inner
      /\ \A d \in DOMAIN calls : calls[d].returned \in Nat /\ calls[d].level \in Nat
  <2>1. \A d \in DOMAIN calls : calls[d] \in CallType
    BY DEF IInv, ChainTypeOK
  <2>. QED
    BY <1>1, <2>1, Numbers DEF CallType
<1>5. ASSUME NEW i \in DOMAIN trace PROVE Earned(trace[i])
    BY DEF IInv, Listed
<1>6. ASSUME NEW i \in DOMAIN trace' PROVE Earned(trace[i])'
  <2>1. CASE i = n
    <3>1. calls'[c].level = calls[c].level /\ c \in DOMAIN calls'
      BY DEF Settles
    <3>2. calls[c].level = Inner =>
              /\ calls'[c].returned \in 1..calls'[c].returned
              /\ p = Part(calls'[c].returned)
      BY <1>4
    <3>. QED
      BY ZenonT(40), <1>2, <1>3, <2>1, <3>1, <3>2 DEF Earned, Inner, Part, NumParts
  <2>2. CASE i \in DOMAIN trace
    <3>1. trace'[i] = trace[i] /\ Earned(trace[i]) /\ trace[i].call \in DOMAIN calls
      BY <1>3, <1>5, <2>2 DEF Earned
    <3>2. /\ calls'[trace[i].call].level = calls[trace[i].call].level
          /\ 1..calls[trace[i].call].returned \subseteq 1..calls'[trace[i].call].returned
          /\ Running(trace[i].call)' => Running(trace[i].call)
          /\ trace[i].call \in DOMAIN calls'
      BY SMTT(30), <1>4, <3>1 DEF Settles
    <3>. QED
      BY <3>1, <3>2 DEF Earned, Inner, Part, NumParts
  <2>. QED
    BY <1>3, <2>1, <2>2
<1>7. Listed'
    BY <1>3, <1>6 DEF Listed, EntryType, PartType
<1>8. ASSUME NEW i \in DOMAIN trace, calls[c].caller = trace[i].call PROVE calls[c].left
  <2>1. SUFFICES ASSUME ~calls[c].left PROVE FALSE
    OBVIOUS
  <2>2. trace[i].call \in DOMAIN calls /\ trace[i].call # 0
    BY <1>5 DEF Earned, IInv, ChainTypeOK
  <2>3. /\ Running(trace[i].call)
        /\ calls[c].level = calls[trace[i].call].level + 1
    BY <1>1, <1>8, <2>1, <2>2 DEF Placed
  <2>4. calls[trace[i].call].level # Inner
    BY <1>4, <2>2, <2>3, Numbers
  <2>. QED
    BY <1>5, <2>3, <2>4 DEF Earned
<1>9. calls[c].caller # c
    BY <1>1 DEF Placed
<1>10. \A i \in DOMAIN trace : trace[i].call \in DOMAIN calls
    BY <1>5 DEF Earned
<1>11. TraceNested'
  <2>. SUFFICES ASSUME NEW i \in DOMAIN trace', NEW j \in DOMAIN trace', i <= j,
                       calls'[trace'[j].call].caller = trace'[i].call
                PROVE  calls'[trace'[j].call].left
    BY DEF TraceNested
  <2>1. trace'[j].call \in DOMAIN calls
    BY <1>2, <1>3, <1>10
  <2>2. /\ calls'[trace'[j].call].caller = calls[trace'[j].call].caller
        /\ calls[trace'[j].call].left => calls'[trace'[j].call].left
    BY <2>1 DEF Settles
  <2>3. CASE j = n
    BY <1>2, <1>3, <1>8, <1>9, <2>2, <2>3
  <2>4. CASE j \in DOMAIN trace
    <3>1. i \in DOMAIN trace
      BY <1>3, <2>4
    <3>. QED
      BY ZenonT(40), <1>3, <2>2, <2>4, <3>1 DEF IInv, TraceNested
  <2>. QED
    BY <1>3, <2>3, <2>4
<1>12. ASSUME NEW i \in DOMAIN trace, trace[i].call = c PROVE Due(trace[i].part, p)
  <2>1. calls[c].level = Inner
    BY <1>5, <1>12 DEF Earned
  <2>2. PICK k \in 1..calls[c].returned : trace[i].part = Part(k)
    BY <1>5, <1>12, <2>1 DEF Earned
  <2>3. /\ calls[c].returned + 1 \in 1..NumParts
        /\ k \in 1..((calls[c].returned + 1) - 1)
    BY <1>4, <2>1, Numbers
  <2>. QED
    BY <2>1, <2>2, <2>3, PartsDue
<1>13. TraceOrdered'
  <2>. SUFFICES ASSUME NEW i \in DOMAIN trace', NEW j \in DOMAIN trace', i < j,
                       trace'[i].call = trace'[j].call
                PROVE  Due(trace'[i].part, trace'[j].part)
    BY DEF TraceOrdered, Due
  <2>1. CASE j = n
    BY <1>2, <1>3, <1>12, <2>1
  <2>2. CASE j \in DOMAIN trace
    BY <1>3, <2>2 DEF IInv, TraceOrdered
  <2>. QED
    BY <1>3, <2>1, <2>2
<1>. QED
    BY <1>7, <1>11, <1>13

LEMMA PartReturnsInv ==
    ASSUME CombinationAssumption, IInv, NEW c \in DOMAIN calls, PartReturns(c)
    PROVE  IInv'
<1>0. PICK i : i = calls[c].returned + 1
    OBVIOUS
<1>1. /\ calls \in Seq(CallType) /\ calls[c] \in CallType /\ args \in Args
      /\ calls[c].state = "running" /\ calls[c].level = Inner /\ Running(c)
    BY DEF IInv, ChainTypeOK, PartReturns, Running
<1>2. calls[c].returned \in Nat /\ i \in 1..NumParts /\ calls[c].returned < NumParts
  <2>1. calls[c].returned \in 0..NumParts
    BY <1>1 DEF CallType
  <2>2. calls[c].returned < NumParts
    BY <1>1 DEF IInv, Unfinished
  <2>. QED
    BY <1>0, <2>1, <2>2, Numbers
<1>. DEFINE next == [calls[c] EXCEPT
                        !.returned = i,
                        !.state = IF i = NumParts THEN "returned" ELSE @,
                        !.seen  = IF i = NumParts THEN @ ELSE @ \cup {args}]
<1>3. /\ next \in CallType /\ next.returned = i /\ next.level = calls[c].level
      /\ next.given = calls[c].given /\ next.caller = calls[c].caller
      /\ next.left = calls[c].left
      /\ i < NumParts => next.state = "running"
      /\ i = NumParts => next.state = "returned"
      /\ next.seen \subseteq calls[c].seen \cup {args}
  <2>1. /\ calls[c].seen \in SUBSET Args /\ i \in 0..NumParts
        /\ calls[c].seen \cup {args} \in SUBSET Args
    BY <1>1, <1>2, Numbers DEF CallType
  <2>. DEFINE s == IF i = NumParts THEN "returned" ELSE calls[c].state
              t == IF i = NumParts THEN calls[c].seen ELSE calls[c].seen \cup {args}
  <2>2. /\ s \in {"running", "returned", "raised"} /\ t \in SUBSET Args
        /\ i = NumParts => s = "returned"
        /\ i < NumParts => s = "running"
        /\ t \subseteq calls[c].seen \cup {args}
    <3>1. CASE i = NumParts
      BY <2>1, <3>1, <1>2, Numbers
    <3>2. CASE i # NumParts
      BY <1>1, <2>1, <3>2
    <3>. QED
      BY <3>1, <3>2
  <2>3. next = [calls[c] EXCEPT !.returned = i, !.state = s, !.seen = t]
    OBVIOUS
  <2>. HIDE DEF s, t, next
  <2>4. /\ next \in CallType /\ next.returned = i /\ next.level = calls[c].level
        /\ next.given = calls[c].given /\ next.caller = calls[c].caller
        /\ next.state = s /\ next.seen = t /\ next.left = calls[c].left
    BY <1>1, <2>1, <2>2, <2>3 DEF CallType
  <2>. QED
    BY <2>2, <2>4
<1>4. /\ calls' = [calls EXCEPT ![c] = next] /\ args' = args
      /\ overlapped' = overlapped /\ trace' = Append(trace, Entry(c, Part(i)))
  <2>1. calls' = [calls EXCEPT ![c].returned = i,
                               ![c].state = IF i = NumParts THEN "returned" ELSE @,
                               ![c].seen  = IF i = NumParts THEN @ ELSE @ \cup {args}]
    BY <1>0 DEF PartReturns
  <2>2. calls' = [calls EXCEPT ![c] = next]
    <3>1. next \in CallType
      BY <1>3
    <3>2. calls[c] \in CallType
      BY <1>1
    <3>3. DOMAIN calls[c] = DOMAIN next
      BY <3>1, <3>2 DEF CallType
    <3>. QED
      BY <1>1, <2>1, <3>2 DEF CallType
  <2>3. /\ args' = args /\ overlapped' = overlapped
        /\ trace' = Append(trace, Entry(c, Part(i)))
    BY <1>0 DEF PartReturns
  <2>. QED
    BY <2>2, <2>3
<1>. HIDE DEF next
<1>5. /\ calls' \in Seq(CallType) /\ DOMAIN calls' = DOMAIN calls /\ calls'[c] = next
      /\ \A d \in DOMAIN calls : d # c => calls'[d] = calls[d]
    BY <1>1, <1>3, <1>4
<1>7. \A d \in DOMAIN calls : calls[d].caller # c
  <2>1. ASSUME NEW d \in DOMAIN calls, calls[d].caller = c PROVE FALSE
    <3>1. Placed(d) /\ calls[d] \in CallType /\ c # 0
      BY DEF IInv, ChainTypeOK
    <3>2. calls[d].level = Inner + 1 /\ calls[d].level \in 1..Inner
      BY <1>1, <2>1, <3>1 DEF Placed, CallType
    <3>. QED
      BY <3>2, Numbers
  <2>. QED
    BY <2>1
<1>6. Settles(c)
    BY <1>1, <1>3, <1>4, <1>5, <1>7 DEF Settles, Running
<1>8. ChainTypeOK'
    BY <1>6, SettlesTypeOK
<1>9. ArgsCurrent'
    BY <1>6 DEF IInv, ArgsCurrent, Settles, Inner
<1>10. Unfinished'
    BY <1>2, <1>3, <1>5, Numbers DEF IInv, Unfinished, Running, Inner, NumParts
<1>11. RightArgs'
  <2>1. ~overlapped => calls[c].given = args
    BY <1>1 DEF IInv, ArgsCurrent
  <2>. QED
    BY <1>3, <1>4, <1>5, <2>1 DEF IInv, RightArgs
<1>12. Part(i) \in PartType
    BY <1>2, PartTyped
<1>13. \A d \in DOMAIN calls :
           calls'[d].returned \in Nat /\ calls'[d].returned >= calls[d].returned
  <2>1. \A d \in DOMAIN calls : calls[d] \in CallType
    BY <1>1
  <2>2. \A d \in DOMAIN calls : calls[d].returned \in Nat
    BY <2>1, Numbers DEF CallType
  <2>. QED
    BY <1>0, <1>2, <1>3, <1>5, <2>2
<1>14. Listed' /\ TraceNested' /\ TraceOrdered'
    BY <1>0, <1>1, <1>2, <1>3, <1>4, <1>5, <1>6, <1>12, <1>13, AppendTrace
<1>. QED
    BY <1>8, <1>9, <1>10, <1>11, <1>14 DEF IInv

LEMMA LeaveInv ==
    ASSUME CombinationAssumption, IInv, NEW c \in DOMAIN calls,
           AroundReturns(c) \/ Raises(c)
    PROVE  IInv'
<1>1. PICK s \in {"returned", "raised"} : calls' = Ended(c, s)
    BY DEF AroundReturns, Raises
<1>2. /\ calls \in Seq(CallType) /\ calls[c] \in CallType /\ Running(c)
      /\ args' = args /\ overlapped' = overlapped
    BY DEF IInv, ChainTypeOK, AroundReturns, Raises
<1>3. ASSUME NEW d \in DOMAIN calls
      PROVE  /\ calls'[d] \in CallType
             /\ calls'[d].level = calls[d].level /\ calls'[d].given = calls[d].given
             /\ calls'[d].caller = calls[d].caller /\ calls'[d].returned = calls[d].returned
             /\ calls'[d].seen = calls[d].seen
             /\ calls'[d].state = IF d = c THEN s ELSE calls[d].state
             /\ calls'[d].left = (calls[d].left \/ (calls[d].caller = c /\ Running(d)))
  <2>. DEFINE u == IF d = c THEN s ELSE calls[d].state
              f == calls[d].left \/ (calls[d].caller = c /\ Running(d))
  <2>1. calls[d] \in CallType
    BY <1>2
  <2>2. u \in {"running", "returned", "raised"} /\ f \in BOOLEAN
    BY <2>1 DEF CallType, Running
  <2>3. calls'[d] = [calls[d] EXCEPT !.state = u, !.left = f]
    BY <1>1, <2>1 DEF Ended, CallType
  <2>. HIDE DEF u, f
  <2>4. /\ calls'[d] \in CallType
        /\ calls'[d].level = calls[d].level /\ calls'[d].given = calls[d].given
        /\ calls'[d].caller = calls[d].caller /\ calls'[d].returned = calls[d].returned
        /\ calls'[d].seen = calls[d].seen /\ calls'[d].state = u /\ calls'[d].left = f
    BY <2>1, <2>2, <2>3 DEF CallType
  <2>. QED
    BY <2>4 DEF u, f
<1>5. calls' \in Seq(CallType) /\ DOMAIN calls' = DOMAIN calls
  <2>. DEFINE F(d) == [calls[d] EXCEPT !.state = IF d = c THEN s ELSE @,
                               !.left  = @ \/ (calls[d].caller = c /\ Running(d))]
  <2>0. calls' = [d \in DOMAIN calls |-> F(d)]
    BY <1>1 DEF Ended
  <2>. HIDE DEF F
  <2>4. DOMAIN calls' = DOMAIN calls /\ calls' = [d \in DOMAIN calls |-> calls'[d]]
    BY <2>0
  <2>1. /\ DOMAIN calls' = DOMAIN calls /\ DOMAIN calls = 1..Len(calls)
        /\ Len(calls) \in Nat /\ calls' = [d \in DOMAIN calls |-> calls'[d]]
    BY <1>2, <2>4
  <2>2. \A d \in 1..Len(calls) : calls'[d] \in CallType
    BY <1>3, <2>1
  <2>3. calls' \in [1..Len(calls) -> CallType]
    BY <2>1, <2>2
  <2>. QED
    BY <2>1, <2>3, SeqDef
<1>6. Settles(c) /\ ~Running(c)'
  <2>1. \A d \in DOMAIN calls : Running(d)' => Running(d)
    BY <1>2, <1>3 DEF Running
  <2>2. ~Running(c)'
    BY <1>3 DEF Running
  <2>. QED
    BY <1>2, <1>3, <1>5, <2>1, <2>2 DEF Settles
<1>7. ChainTypeOK'
    BY <1>6, SettlesTypeOK
<1>8. ArgsCurrent'
    BY <1>6 DEF IInv, ArgsCurrent, Settles, Inner
<1>9. Unfinished'
    BY <1>3, <1>5, <1>6 DEF IInv, Unfinished, Settles, Inner, NumParts
<1>10. RightArgs'
    BY <1>3, <1>5, <1>6 DEF IInv, RightArgs, Settles
<1>11. \A d \in DOMAIN calls : calls[d].returned \in Nat
  <2>1. \A d \in DOMAIN calls : calls[d] \in CallType
    BY <1>2
  <2>. QED
    BY <2>1, Numbers DEF CallType
<1>12. \A d \in DOMAIN calls : calls'[d].returned = calls[d].returned
    BY <1>3, <1>5
<1>13. CASE AroundReturns(c)
  <2>. DEFINE p == [phase |-> "around", number |-> calls[c].level]
  <2>1. /\ p \in PartType /\ calls[c].level # Inner
        /\ trace' = Append(trace, Entry(c, p))
    <3>1. calls[c].level \in 1..Inner /\ calls[c].level < Inner
      BY <1>2, <1>13 DEF AroundReturns, CallType
    <3>2. calls[c].level \in Int /\ calls[c].level # Inner
      BY <3>1, Numbers
    <3>. QED
      BY <1>13, <3>2 DEF AroundReturns, PartType
  <2>. HIDE DEF p
  <2>2. Listed' /\ TraceNested' /\ TraceOrdered'
    <3>1. \A d \in DOMAIN calls :
              calls'[d].returned \in Nat /\ calls'[d].returned >= calls[d].returned
      BY <1>11, <1>12
    <3>. QED
      BY <1>2, <1>6, <2>1, <3>1, AppendTrace
  <2>. QED
    BY <1>7, <1>8, <1>9, <1>10, <2>2 DEF IInv
<1>14. CASE Raises(c)
  <2>1. trace' = trace
    BY <1>14 DEF Raises
  <2>2. ASSUME NEW i \in DOMAIN trace PROVE Earned(trace[i]) /\ Earned(trace[i])'
    <3>1. Earned(trace[i]) /\ trace[i].call \in DOMAIN calls
      BY DEF IInv, Listed, Earned
    <3>2. /\ calls'[trace[i].call].level = calls[trace[i].call].level
          /\ Running(trace[i].call)' => Running(trace[i].call)
      <4>1. PICK d \in DOMAIN calls : d = trace[i].call
        BY <3>1
      <4>2. calls'[d].level = calls[d].level /\ (Running(d)' => Running(d))
        BY <1>6, <4>1 DEF Settles
      <4>3. trace'[i] = trace[i]
        BY <2>1
      <4>4. Running(trace[i].call)' = Running(d)'
        BY <4>1, <4>3 DEF Running
      <4>. QED
        BY <4>1, <4>2, <4>4
    <3>3. trace[i].call \in DOMAIN calls'
      BY <1>5, <3>1
    <3>. QED
      BY <1>12, <3>3, <2>1, <3>1, <3>2 DEF Earned, Inner, Part, NumParts
  <2>3. Listed'
    BY <2>1, <2>2 DEF IInv, Listed, EntryType, PartType
  <2>4. TraceNested' /\ TraceOrdered'
    BY <1>6, <2>1, <2>2 DEF IInv, TraceNested, TraceOrdered, Settles, Earned
  <2>. QED
    BY <1>7, <1>8, <1>9, <1>10, <2>3, <2>4 DEF IInv
<1>. QED
    BY <1>13, <1>14

(* The invariant is inductive.                                             *)
THEOREM Invariance == ASSUME CombinationAssumption PROVE ChainSpec => []IInv
<1>1. IInv /\ [ChainNext]_chainVars => IInv'
  <2>. SUFFICES ASSUME IInv, [ChainNext]_chainVars PROVE IInv'
    OBVIOUS
  <2>1. CASE ChainNext
    BY <2>1, ProceedInv, PartReturnsInv, LeaveInv DEF ChainNext
  <2>2. CASE UNCHANGED chainVars
    BY ZenonT(40), <2>2 DEF chainVars, IInv, ChainTypeOK, Placed, CallType, ArgsCurrent, Listed, EntryType, PartType,
        Earned, Unfinished, RightArgs, TraceNested, TraceOrdered, Running, Inner,
        NumParts, Part, Due
  <2>. QED
    BY <2>1, <2>2
<1>. QED
    BY <1>1, InitInv, PTL DEF ChainSpec

(* The calls of a chain form a tree: each is one level below its caller,   *)
(* and one that runs although its caller has ended is known to be left.    *)
THEOREM TypeCorrect == ASSUME CombinationAssumption PROVE ChainSpec => []ChainTypeOK
BY Invariance, PTL DEF IInv

(* As long as proceed() calls do not overlap, each part of the chain is    *)
(* called with the arguments of the proceed() that led to it.              *)
THEOREM ArgumentsKept == ASSUME CombinationAssumption PROVE ChainSpec => []RightArgs
BY Invariance, PTL DEF IInv

(* An around advisor is listed after all that ran inside it, however its   *)
(* proceed() calls overlap and whatever raises, but for what a proceed()   *)
(* does that outlives it.                                                  *)
THEOREM NestedTrace == ASSUME CombinationAssumption PROVE ChainSpec => []TraceNested
BY Invariance, PTL DEF IInv

(* Each proceed() runs its parts once and in the documented order.         *)
THEOREM OrderedTrace == ASSUME CombinationAssumption PROVE ChainSpec => []TraceOrdered
BY Invariance, PTL DEF IInv
=============================================================================
