---------------------------- MODULE MCRestarts ----------------------------
(***************************************************************************)
(* An actor system, or a restart policy on its own; which of them is       *)
(* chosen at the start, so that the states of the two do not multiply.     *)
(***************************************************************************)
EXTENDS ActorSystem, RestartPolicy

VARIABLE part

MCInit == Init /\ PolicyInit /\ part \in {"system", "policy"}

MCNext ==
    /\ UNCHANGED part
    /\ \/ part = "system" /\ Next /\ UNCHANGED policyVars
       \/ part = "policy" /\ PolicyNext /\ UNCHANGED vars

(* ActorSystem's Fairness, where there is a system.                        *)
MCFairness ==
    /\ \A a \in Slots : WF_vars(part = "system" /\ Runs(a))
    /\ WF_vars(part = "system" /\ Exited)

MCSpec == MCInit /\ [][MCNext]_<<vars, policyVars, part>> /\ MCFairness
=============================================================================
