------------------------------ MODULE MCInbox ------------------------------
(* Small instances of Inbox for TLC: two senders and two kinds of message, *)
(* read by Inbox's own get() and receive() or by Actor.receive().          *)
EXTENDS InboxMailbox, ActorInbox, TLC
=============================================================================
