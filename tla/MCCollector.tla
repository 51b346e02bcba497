---------------------------- MODULE MCCollector ----------------------------
(***************************************************************************)
(* Three tasks, one at a time or all at once: two can fail or be cancelled *)
(* while a third waits in line, runs on, or is created late.               *)
(***************************************************************************)
EXTENDS Collector
=============================================================================
