------------------------ MODULE CircuitBreakerProofs ------------------------
(***************************************************************************)
(* Proofs about the circuit breaker, for any callers, threshold, timeout   *)
(* and number of probes.                                                   *)
(***************************************************************************)
EXTENDS CircuitBreaker, FiniteSetTheorems, TLAPS

(* The inductive invariant.  NoEarlyProbe is about the time since the      *)
(* circuit opened while the code compares the time since the last failure: *)
(* the latter is never the longer one.                                     *)
QuietSinceOpen == state = "open" => quiet <= sinceOpen

IInv == TypeOK /\ CountsMatchState /\ QuietSinceOpen /\ SlotsAreOwed

(* The callers that work on a probe of the current recovery.               *)
Working == admitted \cap probes

LEMMA UpToType ==
    ASSUME NEW b \in Nat, NEW n \in Nat
    PROVE  /\ UpTo(b, n) \in 0..b
           /\ UpTo(b, n) < b <=> n < b
BY DEF UpTo

LEMMA WorkingFinite ==
    ASSUME BreakerAssumption, TypeOK
    PROVE  /\ IsFiniteSet(Working)
           /\ Cardinality(Working) \in Nat
BY FS_Subset, FS_CardinalityType DEF BreakerAssumption, TypeOK, Working

(* Letting a caller go removes at most one probe under way.                *)
LEMMA LeavesWorking ==
    ASSUME BreakerAssumption, TypeOK, NEW c \in Callers,
           admitted' = admitted \ {c}, probes' = probes
    PROVE  /\ Cardinality(Working') \in Nat
           /\ c \in probes /\ c \in admitted =>
                Cardinality(Working') = Cardinality(Working) - 1
           /\ c \notin probes => Working' = Working
<1>1. CASE c \in Working
  <2>1. Working' = Working \ {c}
    BY DEF Working
  <2>. QED
    BY <1>1, <2>1, WorkingFinite, FS_RemoveElement, FS_CardinalityType, FS_Subset
       DEF Working
<1>2. CASE c \notin Working
  <2>1. Working' = Working
    BY <1>2 DEF Working
  <2>. QED
    BY <1>2, <2>1, WorkingFinite DEF Working
<1>. QED
  BY <1>1, <1>2

LEMMA InitInv ==
    ASSUME BreakerAssumption, Init
    PROVE  IInv
<1>1. abandoned \in BOOLEAN
  BY DEF Init
<1>2. TypeOK
  BY <1>1 DEF BreakerAssumption, Init, TypeOK
<1>3. CountsMatchState /\ QuietSinceOpen /\ SlotsAreOwed
  BY DEF BreakerAssumption, Init, CountsMatchState, QuietSinceOpen, SlotsAreOwed
<1>. QED
  BY <1>2, <1>3 DEF IInv

(* Each outcome is recorded in one step with the effect on the breaker, so *)
(* the steps are named after that effect: first the admissions.            *)
LEMMA AllowInv ==
    ASSUME BreakerAssumption, IInv, NEW c \in Callers, Allow(c)
    PROVE  IInv'
<1>. USE DEF IInv
<1>1. TypeOK'
  <2>1. abandoned' \in BOOLEAN
    BY DEF Allow, AllowClosed, AllowFirst, AllowProbe, TypeOK
  <2>. QED
    BY <2>1 DEF Allow, AllowClosed, AllowFirst, AllowProbe, TypeOK, breaker,
                BreakerAssumption
<1>2. CountsMatchState'
  BY DEF Allow, AllowClosed, AllowFirst, AllowProbe, TypeOK, breaker,
         CountsMatchState, BreakerAssumption
<1>3. QuietSinceOpen'
  BY DEF Allow, AllowClosed, AllowFirst, AllowProbe, breaker, QuietSinceOpen
<1>4. SlotsAreOwed'
  <2>1. CASE AllowClosed(c)
    BY <2>1 DEF AllowClosed, SlotsAreOwed, breaker
  <2>2. CASE AllowFirst(c)
    <3>1. Working' = {c}
      BY <2>2 DEF AllowFirst, Working
    <3>2. Cardinality(Working') = 1
      BY <3>1, FS_Singleton
    <3>. QED
      BY <2>2, <3>2 DEF AllowFirst, SlotsAreOwed, Working
  <2>3. CASE AllowProbe(c)
    <3>1. Working' = Working \cup {c} /\ c \notin Working
      BY <2>3 DEF AllowProbe, Working
    <3>2. Cardinality(Working') = Cardinality(Working) + 1
      BY <3>1, WorkingFinite, FS_AddElement
    <3>. QED
      BY <2>3, <3>2, WorkingFinite
         DEF AllowProbe, SlotsAreOwed, Working, TypeOK
  <2>. QED
    BY <2>1, <2>2, <2>3 DEF Allow
<1>. QED
  BY <1>1, <1>2, <1>3, <1>4

LEMMA RecordFailureInv ==
    ASSUME BreakerAssumption, IInv, NEW c \in Callers, RecordFailure(c)
    PROVE  IInv'
<1>. USE DEF IInv
<1>1. abandoned' \in BOOLEAN
  BY DEF RecordFailure, TypeOK
<1>2. CASE FailsProbing
  BY <1>1, <1>2
     DEF RecordFailure, FailsProbing, Opens, TypeOK, CountsMatchState,
         QuietSinceOpen, SlotsAreOwed, BreakerAssumption
<1>3. CASE FailsOtherwise
  <2>1. /\ failureCount' \in 0..FailureThreshold
        /\ failureCount' >= FailureThreshold <=>
              failureCount + 1 >= FailureThreshold
    BY <1>3 DEF FailsOtherwise, UpTo, TypeOK, BreakerAssumption
  <2>2. /\ state' \in {"closed", "open"}
        /\ state' = "open" <=> failureCount' >= FailureThreshold
        /\ sinceOpen' \in 0..RecoveryTimeout
    BY <1>3, <2>1
       DEF FailsOtherwise, TypeOK, CountsMatchState, BreakerAssumption
  <2>3. UNCHANGED <<successCount, halfOpenCalls, probes>> /\ quiet' = 0
        /\ admitted' = admitted \ {c} /\ state # "half_open"
    BY <1>3 DEF RecordFailure, FailsOtherwise
  <2>4. TypeOK'
    BY <1>1, <2>1, <2>2, <2>3 DEF TypeOK, BreakerAssumption
  <2>. QED
    BY <2>1, <2>2, <2>3, <2>4
       DEF TypeOK, CountsMatchState, QuietSinceOpen, SlotsAreOwed,
           BreakerAssumption
<1>. QED
  BY <1>2, <1>3 DEF RecordFailure

LEMMA RecordSuccessInv ==
    ASSUME BreakerAssumption, IInv, NEW c \in Callers, RecordSuccess(c)
    PROVE  IInv'
<1>. USE DEF IInv
<1>1. abandoned' = abandoned /\ abandoned' \in BOOLEAN
  BY DEF RecordSuccess, TypeOK
<1>2. TypeOK' /\ CountsMatchState' /\ QuietSinceOpen'
  BY <1>1 DEF RecordSuccess, SucceedsProbing, SucceedsOtherwise, Reset, TypeOK,
              CountsMatchState, QuietSinceOpen, BreakerAssumption
<1>3. SlotsAreOwed'
  <2>. SUFFICES ASSUME state' = "half_open", ~abandoned'
                PROVE  successCount' + Cardinality(Working') >= halfOpenCalls'
    BY DEF SlotsAreOwed, Working
  <2>1. /\ state = "half_open" /\ ~abandoned
        /\ successCount' = successCount + 1 /\ halfOpenCalls' = halfOpenCalls
    BY <1>1 DEF RecordSuccess, SucceedsProbing, SucceedsOtherwise, Reset
  <2>2. successCount + Cardinality(Working) >= halfOpenCalls
    BY <2>1 DEF SlotsAreOwed, Working
  <2>3. /\ Cardinality(Working') \in Nat
        /\ Cardinality(Working') >= Cardinality(Working) - 1
    BY LeavesWorking, WorkingFinite DEF RecordSuccess
  <2>. QED
    BY <2>1, <2>2, <2>3, WorkingFinite DEF TypeOK
<1>. QED
  BY <1>2, <1>3

LEMMA AbandonsInv ==
    ASSUME BreakerAssumption, IInv, NEW c \in Callers, Abandons(c)
    PROVE  IInv'
<1>. USE DEF IInv
<1>1. abandoned' \in BOOLEAN
  BY DEF Abandons
<1>2. TypeOK' /\ CountsMatchState' /\ QuietSinceOpen'
  BY <1>1 DEF Abandons, breaker, TypeOK, CountsMatchState, QuietSinceOpen
<1>3. SlotsAreOwed'
  <2>. SUFFICES ASSUME state' = "half_open", ~abandoned'
                PROVE  successCount' + Cardinality(Working') >= halfOpenCalls'
    BY DEF SlotsAreOwed, Working
  <2>1. ~abandoned /\ c \notin probes
    BY DEF Abandons
  <2>2. Working' = Working
    BY <2>1, LeavesWorking DEF Abandons
  <2>. QED
    BY <2>1, <2>2 DEF Abandons, breaker, SlotsAreOwed, Working
<1>. QED
  BY <1>2, <1>3

LEMMA TickInv ==
    ASSUME BreakerAssumption, IInv, Tick
    PROVE  IInv'
<1>. USE DEF IInv
<1>1. abandoned' \in BOOLEAN
  BY DEF Tick, TypeOK
<1>2. quiet' \in 0..RecoveryTimeout /\ sinceOpen' \in 0..RecoveryTimeout
      /\ (quiet <= sinceOpen => quiet' <= sinceOpen')
  BY DEF Tick, UpTo, TypeOK, BreakerAssumption
<1>. QED
  BY <1>1, <1>2 DEF Tick, breaker, TypeOK, CountsMatchState, QuietSinceOpen,
                    SlotsAreOwed

LEMMA NextInv ==
    ASSUME BreakerAssumption, IInv, [Next]_vars
    PROVE  IInv'
<1>1. CASE Tick
  BY <1>1, TickInv
<1>2. CASE CallReset
  <2>1. abandoned' \in BOOLEAN
    BY <1>2 DEF CallReset, IInv, TypeOK
  <2>. QED
    BY <1>2, <2>1 DEF CallReset, Reset, IInv, TypeOK, CountsMatchState,
                      QuietSinceOpen, SlotsAreOwed, BreakerAssumption
<1>3. ASSUME NEW c \in Callers, Allow(c) PROVE IInv'
  BY <1>3, AllowInv
<1>4. ASSUME NEW c \in Callers, Records(c) PROVE IInv'
  BY <1>4, RecordFailureInv, RecordSuccessInv DEF Records
<1>5. ASSUME NEW c \in Callers, Abandons(c) PROVE IInv'
  BY <1>5, AbandonsInv
<1>6. CASE UNCHANGED vars
  BY <1>6 DEF vars, IInv, TypeOK, CountsMatchState, QuietSinceOpen, SlotsAreOwed
<1>. QED
  BY <1>1, <1>2, <1>3, <1>4, <1>5, <1>6 DEF Next, Refuse

(* The circuit breaker keeps its invariant, whatever its callers record    *)
(* and however late they do.                                               *)
THEOREM Invariance == Spec => []IInv
<1>1. Init => IInv
  BY InitInv, BreakerAssumption
<1>2. IInv /\ [Next]_vars => IInv'
  BY NextInv, BreakerAssumption
<1>. QED
  BY <1>1, <1>2, PTL DEF Spec

(* The attributes have their shape.                                        *)
THEOREM TypeCorrect == Spec => []TypeOK
<1>1. IInv => TypeOK
  BY DEF IInv
<1>. QED
  BY <1>1, Invariance, PTL

(* The counters belong to the state.                                       *)
THEOREM Consistency == Spec => []CountsMatchState
<1>1. IInv => CountsMatchState
  BY DEF IInv
<1>. QED
  BY <1>1, Invariance, PTL

(* A recovery is undecided only because of outcomes still to come.         *)
THEOREM SlotsOwed == Spec => []SlotsAreOwed
<1>1. IInv => SlotsAreOwed
  BY DEF IInv
<1>. QED
  BY <1>1, Invariance, PTL

(* No request passes before recovery_timeout since the circuit opened.     *)
THEOREM ProbeTiming == Spec => NoEarlyProbe
<1>1. IInv /\ [Next]_vars =>
        [state = "open" /\ state' = "half_open" => sinceOpen >= RecoveryTimeout]_vars
  <2>. SUFFICES ASSUME IInv, Next, state = "open", state' = "half_open"
                PROVE  sinceOpen >= RecoveryTimeout
    OBVIOUS
  <2>1. PICK c \in Callers : AllowFirst(c)
    BY DEF Next, Tick, CallReset, Reset, Allow, AllowClosed, AllowProbe, Refuse,
           Records, RecordFailure, FailsProbing, FailsOtherwise, Opens,
           RecordSuccess, SucceedsProbing, SucceedsOtherwise, Abandons, breaker,
           vars
  <2>. QED
    BY <2>1, BreakerAssumption
       DEF AllowFirst, IInv, TypeOK, QuietSinceOpen, BreakerAssumption
<1>. QED
  BY <1>1, Invariance, PTL DEF Spec, NoEarlyProbe
=============================================================================
