----------------------------- MODULE ActorInbox -----------------------------
(***************************************************************************)
(* The inbox when its reader is an actor that calls Actor.receive(match)   *)
(* (actor.py:246-314).  The actor looks inside the envelopes, so it scans  *)
(* the two deques itself instead of calling Inbox.receive, and it does not *)
(* touch the event _not_full.                                              *)
(***************************************************************************)
EXTENDS Inbox

(* _scan_inbox_for_match: the stash, then the queue.                       *)
ActorScans(k) ==
    /\ selective /\ reader = "idle"
    /\ TakeStash(k) \/ TakeQueue(k)
    /\ Unread /\ UNCHANGED <<notFull, sender>>

ActorWaits(k) == ReceiveWaits(k)

ActorReturns == want # AnyKind /\ Returns /\ UNCHANGED <<notFull, sender>>

ActorNext ==
    \/ \E s \in Senders : SenderNext(s)
    \/ Get
    \/ \E k \in Matches : ActorScans(k) \/ ActorWaits(k)
    \/ GetReturns \/ ActorReturns \/ ReceiveStashes \/ ReceiveStashesLate
    \/ ReaderRaises
    \/ TimesOut \/ Cancelled
    \/ Close

ActorSpec == Init /\ [][ActorNext]_vars
=============================================================================
