--------------------------- MODULE CircuitBreaker ---------------------------
(***************************************************************************)
(* CircuitBreaker (asyncio_actors/circuit_breaker.py) and the callers that *)
(* share it.  A caller asks allow_request(), does its work and records the *)
(* outcome when it has one: the breaker may have changed state meanwhile.  *)
(*                                                                         *)
(* Time matters only as the time since the last failure, and beyond        *)
(* recovery_timeout no further; the failure count matters only up to the   *)
(* threshold.  Both are kept up to that value, so no run is cut short.     *)
(***************************************************************************)
EXTENDS Integers, FiniteSets

CONSTANTS
    Callers,
    FailureThreshold,
    RecoveryTimeout,
    HalfOpenMaxCalls

ASSUME BreakerAssumption ==
    /\ IsFiniteSet(Callers)
    /\ FailureThreshold \in Nat \ {0}
    /\ RecoveryTimeout \in Nat
    /\ HalfOpenMaxCalls \in Nat \ {0}

VARIABLES
    state,          \* _state
    failureCount,   \* _failure_count, up to FailureThreshold
    successCount,   \* _success_count
    halfOpenCalls,  \* _half_open_calls
    quiet,          \* now - _last_failure_time, up to RecoveryTimeout
    admitted,       \* the callers that were let through and work
    sinceOpen,      \* history: time since the circuit opened, likewise
    probes,         \* history: callers let through since it last half-opened
    abandoned       \* history: one of these probes was never recorded

breaker == <<state, failureCount, successCount, halfOpenCalls>>
vars    == <<state, failureCount, successCount, halfOpenCalls, quiet, admitted,
             sinceOpen, probes, abandoned>>

UpTo(bound, n) == IF n > bound THEN bound ELSE n

(* The clock has run for an unknown time when the program starts.          *)
Init ==
    /\ state = "closed"
    /\ failureCount = 0 /\ successCount = 0 /\ halfOpenCalls = 0
    /\ quiet \in 0..RecoveryTimeout
    /\ admitted = {}
    /\ sinceOpen = RecoveryTimeout /\ probes = {} /\ abandoned = FALSE

Tick ==
    /\ quiet' = UpTo(RecoveryTimeout, quiet + 1)
    /\ sinceOpen' = UpTo(RecoveryTimeout, sinceOpen + 1)
    /\ UNCHANGED <<breaker, admitted, probes, abandoned>>

(* allow_request() returns True.                                           *)
AllowClosed(c) ==
    /\ c \notin admitted /\ state = "closed"
    /\ admitted' = admitted \cup {c}
    /\ UNCHANGED <<breaker, quiet, sinceOpen, probes, abandoned>>

\* mutation: does not wait for the timeout
AllowFirstEarly(c) ==
    /\ c \notin admitted /\ state = "open"
    /\ state' = "half_open"
    /\ halfOpenCalls' = 1 /\ successCount' = 0
    /\ admitted' = admitted \cup {c}
    /\ probes' = {c} /\ abandoned' = FALSE
    /\ UNCHANGED <<failureCount, quiet, sinceOpen>>

AllowFirst(c) ==
    /\ c \notin admitted /\ state = "open"
    /\ quiet >= RecoveryTimeout
    /\ state' = "half_open"
    /\ halfOpenCalls' = 1 /\ successCount' = 0
    /\ admitted' = admitted \cup {c}
    /\ probes' = {c} /\ abandoned' = FALSE
    /\ UNCHANGED <<failureCount, quiet, sinceOpen>>

AllowProbe(c) ==
    /\ c \notin admitted /\ state = "half_open"
    /\ halfOpenCalls < HalfOpenMaxCalls
    /\ halfOpenCalls' = halfOpenCalls + 1
    /\ admitted' = admitted \cup {c}
    /\ probes' = probes \cup {c}
    /\ UNCHANGED <<state, failureCount, successCount, quiet, sinceOpen, abandoned>>

\* mutation: a refused request counts as a failure
RefuseRestarts(c) ==
    /\ c \notin admitted
    /\ \/ state = "open" /\ quiet < RecoveryTimeout
       \/ state = "half_open" /\ halfOpenCalls >= HalfOpenMaxCalls
    /\ quiet' = 0
    /\ UNCHANGED <<breaker, admitted, sinceOpen, probes, abandoned>>

(* ... or False.                                                           *)
Refuse(c) ==
    /\ c \notin admitted
    /\ \/ state = "open" /\ quiet < RecoveryTimeout
       \/ state = "half_open" /\ halfOpenCalls >= HalfOpenMaxCalls
    /\ UNCHANGED vars

Opens == state' = "open" /\ sinceOpen' = 0

\* mutation: a failed probe is not counted
FailsProbingIgnored ==
    /\ state = "half_open"
    /\ UNCHANGED <<breaker, sinceOpen>>

(* record_failure() while recovery is tested ...                           *)
FailsProbing ==
    /\ state = "half_open"
    /\ Opens
    /\ halfOpenCalls' = 0 /\ successCount' = 0
    /\ UNCHANGED failureCount

(* ... and in the other states, OPEN included.                             *)
FailsOtherwise ==
    /\ state # "half_open"
    /\ failureCount' = UpTo(FailureThreshold, failureCount + 1)
    /\ IF failureCount' >= FailureThreshold
       THEN state' = "open" /\ sinceOpen' = IF state = "open" THEN sinceOpen ELSE 0
       ELSE UNCHANGED <<state, sinceOpen>>
    /\ UNCHANGED <<successCount, halfOpenCalls>>

RecordFailure(c) ==
    /\ c \in admitted
    /\ admitted' = admitted \ {c}
    /\ quiet' = 0
    /\ FailsProbing \/ FailsOtherwise
    /\ UNCHANGED <<probes, abandoned>>

\* mutation: the failures are not forgotten
ResetKeepsFailures ==
    /\ state' = "closed"
    /\ successCount' = 0 /\ halfOpenCalls' = 0
    /\ UNCHANGED failureCount

(* reset()                                                                 *)
Reset ==
    /\ state' = "closed"
    /\ failureCount' = 0 /\ successCount' = 0 /\ halfOpenCalls' = 0

\* mutation: counts one success too many as enough
SucceedsProbingLate ==
    /\ state = "half_open"
    /\ IF successCount + 1 > HalfOpenMaxCalls
       THEN Reset
       ELSE /\ successCount' = successCount + 1
            /\ UNCHANGED <<state, failureCount, halfOpenCalls>>

(* record_success() while recovery is tested: a success counts whenever    *)
(* its request was let through.                                            *)
SucceedsProbing ==
    /\ state = "half_open"
    /\ IF successCount + 1 >= HalfOpenMaxCalls
       THEN Reset
       ELSE /\ successCount' = successCount + 1
            /\ UNCHANGED <<state, failureCount, halfOpenCalls>>

SucceedsOtherwise ==
    /\ state # "half_open"
    /\ failureCount' = IF state = "closed" THEN 0 ELSE failureCount
    /\ UNCHANGED <<state, successCount, halfOpenCalls>>

RecordSuccess(c) ==
    /\ c \in admitted
    /\ admitted' = admitted \ {c}
    /\ SucceedsProbing \/ SucceedsOtherwise
    /\ UNCHANGED <<quiet, sinceOpen, probes, abandoned>>

(* The caller is cancelled, or raises what "except Exception" lets pass:   *)
(* no outcome is ever recorded.                                            *)
Abandons(c) ==
    /\ c \in admitted
    /\ admitted' = admitted \ {c}
    /\ abandoned' = (abandoned \/ c \in probes)
    /\ UNCHANGED <<breaker, quiet, sinceOpen, probes>>

CallReset ==
    /\ Reset
    /\ UNCHANGED <<quiet, admitted, sinceOpen, probes, abandoned>>

Allow(c)   == AllowClosed(c) \/ AllowFirst(c) \/ AllowProbe(c)
Records(c) == RecordFailure(c) \/ RecordSuccess(c)

Next ==
    \/ Tick
    \/ CallReset
    \/ \E c \in Callers : Allow(c) \/ Refuse(c) \/ Records(c) \/ Abandons(c)

Spec == Init /\ [][Next]_vars

(* The clock runs, clients keep asking, and an outcome that is not         *)
(* abandoned is recorded.                                                  *)
FairSpec ==
    /\ Spec
    /\ WF_vars(Tick)
    /\ \A c \in Callers : WF_vars(Allow(c)) /\ WF_vars(Records(c) \/ Abandons(c))

-----------------------------------------------------------------------------
(* The attributes have their shape.                                        *)
TypeOK ==
    /\ state \in {"closed", "open", "half_open"}
    /\ failureCount \in 0..FailureThreshold
    /\ successCount \in 0..HalfOpenMaxCalls
    /\ halfOpenCalls \in 0..HalfOpenMaxCalls
    /\ quiet \in 0..RecoveryTimeout /\ sinceOpen \in 0..RecoveryTimeout
    /\ admitted \subseteq Callers /\ probes \subseteq Callers
    /\ abandoned \in BOOLEAN

(* The counters belong to the state, however late the outcomes are         *)
(* recorded: a closed circuit is below its threshold and has no probe      *)
(* counted, an open one keeps nothing of the last recovery, and one that   *)
(* tests recovery has let a first probe through and is still undecided.    *)
CountsMatchState ==
    /\ state = "closed" <=> failureCount < FailureThreshold
    /\ state # "half_open" => successCount = 0 /\ halfOpenCalls = 0
    /\ state = "half_open" => /\ halfOpenCalls \in 1..HalfOpenMaxCalls
                              /\ successCount < HalfOpenMaxCalls

(* Recovery is undecided only because of outcomes still to come: every     *)
(* slot taken in allow_request() has been counted as a success or belongs  *)
(* to a caller at work, unless a caller abandoned its probe.  This is what *)
(* keeps HALF_OPEN, which no timeout leaves, from refusing for ever.       *)
SlotsAreOwed ==
    state = "half_open" /\ ~abandoned =>
        successCount + Cardinality(admitted \cap probes) >= halfOpenCalls

(* No request reaches the failing service until recovery_timeout has       *)
(* passed since the circuit opened, whichever late outcomes arrive.        *)
NoEarlyProbe ==
    [][state = "open" /\ state' = "half_open" => sinceOpen >= RecoveryTimeout]_vars

(* A circuit does not stay open for ever: late failures postpone the       *)
(* probe, but only as many as there were requests under way.               *)
OpenEnds == state = "open" ~> state # "open"

(* Testing recovery comes to a verdict, unless a probe is abandoned.       *)
ProbingEnds == state = "half_open" ~> (state # "half_open" \/ abandoned)
=============================================================================
