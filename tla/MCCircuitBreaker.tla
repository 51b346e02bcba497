-------------------------- MODULE MCCircuitBreaker --------------------------
(***************************************************************************)
(* Three callers share a circuit breaker: enough for two probes and an     *)
(* outcome of a request admitted before the circuit opened.                *)
(***************************************************************************)
EXTENDS CircuitBreaker
=============================================================================
