--------------------------- MODULE RestartPolicy ---------------------------
(***************************************************************************)
(* RestartPolicy (asyncio_actors/supervision.py): how often an actor may   *)
(* be restarted within a sliding window.  ActorSystem keeps of it only the *)
(* number of restarts in the window; CountSuffices says why that is right. *)
(***************************************************************************)
EXTENDS Selection

CONSTANTS
    RestartLimit,   \* max_restarts
    RestartWindow,  \* restart_window_seconds
    LastTime        \* bound: the clock

ASSUME PolicyAssumption ==
    RestartLimit \in Nat /\ RestartWindow \in Nat /\ LastTime \in Nat

VARIABLES
    now,        \* time.monotonic()
    times,      \* _restart_times
    granted,    \* history: when restarts were allowed, since reset()
    answer      \* history: the answer of should_restart(), while it is new

policyVars == <<now, times, granted, answer>>

PolicyInit == now = 0 /\ times = <<>> /\ granted = <<>> /\ answer = "none"

Passes ==
    /\ now' \in (now + 1)..LastTime
    /\ answer' = "none" /\ UNCHANGED <<times, granted>>

\* mutation: what is just as old as the window still counts
WithinClosed(s) == {i \in DOMAIN s : s[i] >= now - RestartWindow}

(* The places of what is younger than the window is long.                  *)
Within(s) == {i \in DOMAIN s : s[i] > now - RestartWindow}

\* mutation: one restart too many
ShouldRestartOnceMore ==
    LET kept == Select(times, Within(times))
    IN  /\ IF Len(kept) > RestartLimit
           THEN times' = kept /\ answer' = "refused" /\ UNCHANGED granted
           ELSE /\ times' = Append(kept, now) /\ answer' = "allowed"
                /\ granted' = Append(granted, now)
        /\ UNCHANGED now

ShouldRestart ==
    LET kept == Select(times, Within(times))
    IN  /\ IF Len(kept) >= RestartLimit
           THEN times' = kept /\ answer' = "refused" /\ UNCHANGED granted
           ELSE /\ times' = Append(kept, now) /\ answer' = "allowed"
                /\ granted' = Append(granted, now)
        /\ UNCHANGED now

(* reset()                                                                 *)
Forgets ==
    /\ times' = <<>> /\ granted' = <<>> /\ answer' = "none"
    /\ UNCHANGED now

PolicyNext == Passes \/ ShouldRestart \/ Forgets

PolicySpec == PolicyInit /\ [][PolicyNext]_policyVars

-----------------------------------------------------------------------------
(* In no window, wherever it begins, is an actor restarted more than       *)
(* max_restarts times: whatever was evicted and refused on the way, a      *)
(* restart and the one max_restarts later are a window apart.              *)
RateKept ==
    \A i \in DOMAIN granted : i + RestartLimit \in DOMAIN granted =>
        granted[i + RestartLimit] - granted[i] >= RestartWindow

(* A restart is refused only if max_restarts of those allowed are younger  *)
(* than the window: refused ones do not count, nor does one that is just   *)
(* as old as the window.                                                   *)
RefusedOnlyIfFull ==
    answer = "refused" =>
        Cardinality({i \in DOMAIN granted : granted[i] > now - RestartWindow}) >= RestartLimit

(* To know how many restarts are remembered is enough to say what          *)
(* should_restart() may do: it forgets some of them and allows one more,   *)
(* or it refuses because there are max_restarts and forgets none.          *)
CountSuffices ==
    [][ShouldRestart =>
        \/ \E kept \in 0..Len(times) : kept < RestartLimit /\ Len(times') = kept + 1
        \/ Len(times) >= RestartLimit /\ UNCHANGED times]_policyVars
=============================================================================
