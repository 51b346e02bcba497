---------------------------- MODULE InboxMailbox ----------------------------
(***************************************************************************)
(* The inbox of inbox.py implements a mailbox whose contents are the stash,*)
(* the message on its way to the reader and the queue.                     *)
(***************************************************************************)
EXTENDS Inbox

M == INSTANCE Mailbox WITH box <- Box, taken <- delivered, evicted <- dropped,
                          Capacity <- MaxSize

(* Whatever the interleaving of senders, reader, timeouts and close, the   *)
(* two deques, the event and the futures together behave as one sequence   *)
(* with an end to write to and a head to read from: of two messages of one *)
(* kind the reader never sees the later one first, eviction takes one of   *)
(* the two oldest messages, no message is doubled, and one is lost only if *)
(* the reader's wait ends early.                                           *)
ImplementsMailbox == M!Spec

(* Hence no message put() has accepted is forgotten or delivered twice, it *)
(* is in the deques, on its way, delivered, evicted or lost with a wait    *)
(* that ended early; and of two messages of one kind that are delivered,   *)
(* the one accepted first is delivered first.                              *)
EachOnceInOrder == M!Accounted /\ M!InOrder
=============================================================================
