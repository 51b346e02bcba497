--------------------------- MODULE MCActorSystem ---------------------------
(* Small instances of ActorSystem for TLC: one slot, its clients, a watcher. *)
EXTENDS ActorSystem, TLC
=============================================================================
