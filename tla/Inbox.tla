------------------------------- MODULE Inbox -------------------------------
(***************************************************************************)
(* The bounded inbox of an actor: asyncio_actors/inbox.py.                 *)
(*                                                                         *)
(* One step of the event loop, from one await to the next, is one action.  *)
(* Any number of sender tasks call put(); one reader, the actor's own      *)
(* task, calls get() and receive(): those are the only readers the package *)
(* has, so at most one future of _waiters is still pending and it is the   *)
(* last one.  The futures before it were cancelled from outside and only   *)
(* their number matters: stale.                                            *)
(*                                                                         *)
(* A message is its acceptance number and its kind, the Python class that  *)
(* receive(match) compares.                                                *)
(***************************************************************************)
EXTENDS Integers, Sequences, FiniteSets

CONSTANTS
    Senders,     \* the tasks that call put()
    Kinds,       \* the classes of messages
    Matches,     \* the kinds receive() is called with
    AnyKind,     \* what a plain get() asks for
    MaxSize,     \* _maxsize
    Policies,    \* the overflow policies an inbox may be created with
    MaxMsgs,     \* bound: messages accepted in a behaviour
    MaxExpiries  \* bound: timeouts and cancellations of the reader

ASSUME InboxAssumption ==
    /\ MaxSize \in Nat \ {0}
    /\ Policies \subseteq {"block", "drop_oldest", "raise"}
    /\ Matches \subseteq Kinds
    /\ AnyKind \notin Kinds
    /\ MaxMsgs \in Nat
    /\ MaxExpiries \in Nat

VARIABLES
    policy,     \* _policy, chosen when the inbox is created
    selective,  \* does the reader ever call receive(), or get() alone?
    stash,      \* _stash: set aside by receive()
    queue,      \* _queue
    closed,     \* _closed
    notFull,    \* the value of the event _not_full
    stale,      \* futures in _waiters that are already cancelled
    sender,     \* where each sender stands in put()
    sending,    \* the kind of the message each sender holds
    reader,     \* where the reader stands in get() or receive()
    want,       \* the kind the reader waits for
    hand,       \* the result of the reader's future, until the reader resumes
    accepted,   \* history: number of messages put() has accepted
    delivered,  \* history: messages returned to the reader, in order
    dropped,    \* history: messages evicted by DROP_OLDEST
    lost,       \* history: messages in hand when the reader's wait ended early
    expiries    \* number of timeouts and cancellations so far

config == <<policy, selective>>
store  == <<stash, queue>>
wait   == <<reader, want, hand>>
calls  == <<sender, sending>>
tally  == <<accepted, dropped>>
vars   == <<policy, selective, stash, queue, closed, notFull, stale, sender,
            sending, reader, want, hand, accepted, delivered, dropped, lost,
            expiries>>

Message == [id : Nat \ {0}, kind : Kinds]

(* What the inbox holds, oldest first: the message in hand left the head   *)
(* of the queue and returns to the end of the stash when it does not match.*)
Box == stash \o hand \o queue

Size == Len(stash) + Len(queue)

Full == Size >= MaxSize

Wanted(k, m) == k \in {AnyKind, m.kind}

Init ==
    /\ policy \in Policies /\ selective \in BOOLEAN
    /\ stash = <<>> /\ queue = <<>>
    /\ closed = FALSE /\ notFull = TRUE /\ stale = 0
    /\ sender = [s \in Senders |-> "idle"]
    /\ sending = [s \in Senders |-> AnyKind]
    /\ reader = "idle" /\ want = AnyKind /\ hand = <<>>
    /\ accepted = 0 /\ delivered = <<>> /\ dropped = {} /\ lost = {}
    /\ expiries = 0

(* Event.set() completes the wait() of every blocked sender.               *)
Woken(senders) ==
    [s \in Senders |-> IF senders[s] = "blocked" THEN "woken" ELSE senders[s]]

(* "if not self.full: self._not_full.set()", on the contents st and q.     *)
SignalRoomWhenEmpty(st, q) ==          \* mutation: waits for an empty inbox
    IF st = <<>> /\ q = <<>>
    THEN notFull' = TRUE /\ sender' = Woken(sender)
    ELSE UNCHANGED <<notFull, sender>>

\* mutation: get() does not set the event
SignalRoomNever(st, q) == UNCHANGED <<notFull, sender>>

SignalRoom(st, q) ==
    IF Len(st) + Len(q) < MaxSize
    THEN notFull' = TRUE /\ sender' = Woken(sender)
    ELSE UNCHANGED <<notFull, sender>>

-----------------------------------------------------------------------------
(* Senders                                                                 *)

(* _notify_waiters finds a pending future.                                 *)
PendingAtHead == reader = "waiting" /\ stale = 0  \* mutation: "if" for "while"
Pending == reader = "waiting"

(* The tail of put(): append, clear the event if full, _notify_waiters.    *)
(* A pending reader takes the head of the queue, whatever its kind; done   *)
(* futures in front of it are discarded.  The sender s leaves put().       *)
Accept(s, st, q, k) ==
    LET q1     == Append(q, [id |-> accepted + 1, kind |-> k])
        q2     == IF Pending THEN Tail(q1) ELSE q1
        full   == Len(st) + Len(q2) >= MaxSize
        left   == [sender EXCEPT ![s] = "idle"]
    IN  /\ accepted' = accepted + 1
        /\ stash' = st
        /\ queue' = q2
        /\ reader' = IF Pending THEN "handed" ELSE reader
        /\ hand' = IF Pending THEN <<Head(q1)>> ELSE hand
        /\ stale' = 0
        /\ notFull' = (~full /\ (Pending \/ notFull))
        /\ sender' = IF Pending /\ ~full THEN Woken(left) ELSE left
        /\ sending' = [sending EXCEPT ![s] = AnyKind]
        /\ UNCHANGED <<config, closed, want, delivered, lost, expiries>>

Sending == {s \in Senders : sender[s] # "idle"}

Starts(s) == /\ sender[s] = "idle"
             /\ ~closed
             /\ accepted + Cardinality(Sending) < MaxMsgs

PutRoom(s, k) ==
    /\ Starts(s) /\ ~Full
    /\ Accept(s, stash, queue, k)
    /\ UNCHANGED dropped

(* _drop_oldest takes the head of the stash, else the head of the queue.   *)
PutDropOldest(s, k) ==
    /\ Starts(s) /\ Full /\ policy = "drop_oldest"
    /\ \/ /\ stash # <<>>
          /\ dropped' = dropped \cup {Head(stash)}
          /\ Accept(s, Tail(stash), queue, k)
       \/ /\ stash = <<>>
          /\ dropped' = dropped \cup {Head(queue)}
          /\ Accept(s, stash, Tail(queue), k)

PutBlocks(s, k) ==
    /\ Starts(s) /\ Full /\ policy = "block"
    /\ notFull' = FALSE
    /\ sender' = [sender EXCEPT ![s] = "blocked"]
    /\ sending' = [sending EXCEPT ![s] = k]
    /\ UNCHANGED <<config, store, closed, stale, wait, tally, delivered, lost,
                   expiries>>

(* A closed inbox, or a full one under RAISE: put() raises at once.        *)
PutRefused(s) ==
    /\ sender[s] = "idle"
    /\ closed \/ (Full /\ policy = "raise")
    /\ UNCHANGED vars

LeavesPut(s) ==
    /\ sender' = [sender EXCEPT ![s] = "idle"]
    /\ sending' = [sending EXCEPT ![s] = AnyKind]

(* The loop of put() after its wait() was completed.                       *)
PutResumes(s) ==
    /\ sender[s] = "woken"
    /\ \/ /\ closed
          /\ LeavesPut(s)
          /\ UNCHANGED <<config, store, closed, notFull, stale, wait, tally,
                         delivered, lost, expiries>>
       \/ /\ ~closed /\ Full
          /\ notFull' = FALSE
          /\ sender' = [sender EXCEPT ![s] = "blocked"]
          /\ UNCHANGED <<config, store, closed, stale, sending, wait, tally,
                         delivered, lost, expiries>>
       \/ /\ ~closed /\ ~Full
          /\ Accept(s, stash, queue, sending[s])
          /\ UNCHANGED dropped

(* The sender's task is cancelled inside wait().                           *)
PutCancelled(s) ==
    /\ sender[s] # "idle"
    /\ LeavesPut(s)
    /\ UNCHANGED <<config, store, closed, notFull, stale, wait, tally,
                   delivered, lost, expiries>>

-----------------------------------------------------------------------------
(* The reader                                                              *)

Unread == UNCHANGED <<config, closed, stale, sending, wait, tally, lost,
                      expiries>>

GetStash ==
    /\ reader = "idle" /\ stash # <<>>
    /\ stash' = Tail(stash)
    /\ delivered' = Append(delivered, Head(stash))
    /\ SignalRoom(Tail(stash), queue)
    /\ Unread /\ UNCHANGED queue

GetQueue ==
    /\ reader = "idle" /\ stash = <<>> /\ queue # <<>>
    /\ queue' = Tail(queue)
    /\ delivered' = Append(delivered, Head(queue))
    /\ SignalRoom(stash, Tail(queue))
    /\ Unread /\ UNCHANGED stash

(* _await_queued_message on behalf of a call that wants k.                 *)
Await(k) ==
    /\ reader' = "waiting"
    /\ want' = k
    /\ UNCHANGED <<config, store, closed, notFull, stale, calls, hand, tally,
                   delivered, lost, expiries>>

GetWaitsOnQueue ==                     \* mutation: the stash is not looked at
    /\ reader = "idle" /\ queue = <<>> /\ ~closed
    /\ Await(AnyKind)

GetWaits ==
    /\ reader = "idle" /\ Size = 0 /\ ~closed
    /\ Await(AnyKind)

GetRefused ==
    /\ reader = "idle" /\ Size = 0 /\ closed
    /\ UNCHANGED vars

Matching(s, k) == {i \in 1..Len(s) : s[i].kind = k}

(* The i-th message of s is the first of kind k.                           *)
FirstOf(s, k, i) ==
    /\ i \in Matching(s, k)
    /\ \A j \in Matching(s, k) : i <= j

Without(s, i) == SubSeq(s, 1, i - 1) \o SubSeq(s, i + 1, Len(s))

(* receive() found its match while scanning: the stash, then the queue.    *)
TakeStash(k) ==
    \E i \in 1..Len(stash) :
        /\ FirstOf(stash, k, i)
        /\ stash' = Without(stash, i)
        /\ delivered' = Append(delivered, stash[i])
        /\ UNCHANGED queue

TakeQueue(k) ==
    /\ Matching(stash, k) = {}
    /\ \E i \in 1..Len(queue) :
        /\ FirstOf(queue, k, i)
        /\ queue' = Without(queue, i)
        /\ delivered' = Append(delivered, queue[i])
        /\ UNCHANGED stash

ReceiveScans(k) ==
    /\ selective /\ reader = "idle"
    /\ TakeStash(k) \/ TakeQueue(k)
    /\ SignalRoom(stash', queue')
    /\ Unread

(* receive() does not look at _closed before it waits.                     *)
ReceiveWaits(k) ==
    /\ selective /\ reader = "idle"
    /\ Matching(stash, k) = {} /\ Matching(queue, k) = {}
    /\ Await(k)

(* The reader resumes with the message its future was completed with.      *)
Arrived == reader = "handed" /\ hand # <<>>

Leaves == reader' = "idle" /\ want' = AnyKind /\ hand' = <<>>

Returns ==
    /\ Arrived /\ Wanted(want, Head(hand))
    /\ delivered' = Append(delivered, Head(hand))
    /\ Leaves
    /\ UNCHANGED <<config, store, closed, stale, sending, tally, lost,
                   expiries>>

(* get() returns as it is; receive() signals room once more.               *)
GetReturns == /\ want = AnyKind
              /\ Returns
              /\ UNCHANGED <<notFull, sender>>

ReceiveReturns == /\ want # AnyKind
                  /\ Returns
                  /\ SignalRoom(stash, queue)

SetAsideFirst == stash' = hand \o stash \* mutation: appendleft()
SetAside == stash' = Append(stash, Head(hand))

(* A message that does not match joins the stash and receive() waits on,   *)
(* without a second look at the queue ...                                  *)
ReceiveStashes ==
    /\ Arrived /\ ~Wanted(want, Head(hand))
    /\ SetAside
    /\ reader' = "waiting" /\ hand' = <<>>
    /\ UNCHANGED <<config, queue, closed, notFull, stale, calls, want, tally,
                   delivered, lost, expiries>>

(* ... or raises TimeoutError because its deadline has passed.             *)
ReceiveStashesLate ==
    /\ Arrived /\ ~Wanted(want, Head(hand))
    /\ expiries < MaxExpiries
    /\ expiries' = expiries + 1
    /\ SetAside
    /\ Leaves
    /\ UNCHANGED <<config, queue, closed, notFull, stale, calls, tally,
                   delivered, lost>>

(* The reader's future failed because the inbox was closed.                *)
ReaderRaises ==
    /\ reader = "raised"
    /\ reader' = "idle" /\ want' = AnyKind
    /\ UNCHANGED <<config, store, closed, notFull, stale, calls, hand, tally,
                   delivered, lost, expiries>>

(* The wait ends before the future is used: a timeout passed to get() or   *)
(* receive() removes the future from _waiters, a cancellation from outside *)
(* (the run loop's wait_for around get(), Task.cancel()) leaves it there.  *)
(* A result already set is never looked at again.                          *)
GivesUp(leaves) ==
    /\ reader # "idle"
    /\ expiries < MaxExpiries
    /\ expiries' = expiries + 1
    /\ stale' = IF reader = "waiting" THEN stale + leaves ELSE stale
    /\ lost' = lost \cup {hand[i] : i \in 1..Len(hand)}
    /\ Leaves
    /\ UNCHANGED <<config, store, closed, notFull, calls, tally, delivered>>

TimesOut  == GivesUp(0)
Cancelled == GivesUp(1)

Close ==
    /\ closed' = TRUE
    /\ notFull' = TRUE
    /\ sender' = Woken(sender)
    /\ stale' = 0
    /\ reader' = IF reader = "waiting" THEN "raised" ELSE reader
    /\ UNCHANGED <<config, store, sending, want, hand, tally, delivered, lost,
                   expiries>>

-----------------------------------------------------------------------------
SenderNext(s) ==
    \/ \E k \in Kinds : PutRoom(s, k) \/ PutDropOldest(s, k) \/ PutBlocks(s, k)
    \/ PutRefused(s) \/ PutResumes(s) \/ PutCancelled(s)

Get == GetStash \/ GetQueue \/ GetWaits \/ GetRefused

ReaderResumes ==
    \/ GetReturns \/ ReceiveReturns \/ ReceiveStashes \/ ReceiveStashesLate
    \/ ReaderRaises

Next ==
    \/ \E s \in Senders : SenderNext(s)
    \/ Get
    \/ \E k \in Matches : ReceiveScans(k) \/ ReceiveWaits(k)
    \/ ReaderResumes
    \/ TimesOut \/ Cancelled
    \/ Close

Spec == Init /\ [][Next]_vars

(* A ready task is eventually stepped by the event loop, and the actor's   *)
(* run loop always calls get() again (actor.py:349-353).  Nobody is        *)
(* obliged to call, to give up or to close.                                *)
Fairness ==
    /\ \A s \in Senders : WF_vars(PutResumes(s))
    /\ WF_vars(Get)
    /\ WF_vars(ReaderResumes)

FairSpec == Spec /\ Fairness
-----------------------------------------------------------------------------
(* Properties                                                              *)

(* Every variable keeps the shape the attributes of Inbox have; a future   *)
(* holds a result exactly while the reader has yet to resume with it.      *)
TypeOK ==
    /\ policy \in Policies /\ selective \in BOOLEAN
    /\ stash \in Seq(Message) /\ queue \in Seq(Message)
    /\ closed \in BOOLEAN /\ notFull \in BOOLEAN
    /\ stale \in Nat
    /\ sender \in [Senders -> {"idle", "blocked", "woken"}]
    /\ sending \in [Senders -> Kinds \cup {AnyKind}]
    /\ \A s \in Senders : sender[s] = "idle" <=> sending[s] = AnyKind
    /\ reader \in {"idle", "waiting", "handed", "raised"}
    /\ want \in Kinds \cup {AnyKind}
    /\ reader = "idle" => want = AnyKind
    /\ hand \in Seq(Message)
    /\ Len(hand) = IF reader = "handed" THEN 1 ELSE 0
    /\ accepted \in Nat
    /\ delivered \in Seq(Message)
    /\ dropped \subseteq Message /\ lost \subseteq Message
    /\ expiries \in Nat

(* No lost wakeup of a sender: put() stays in wait() only while the inbox  *)
(* is full and open.  Every path that makes room, eviction, get(),         *)
(* receive(), the hand-over in _notify_waiters and close(), must signal.   *)
NoStrandedSender ==
    \A s \in Senders : sender[s] = "blocked" => Full /\ ~closed

(* No lost wakeup of the reader: while get() waits, nothing it could take  *)
(* is in the inbox and the inbox is open.                                  *)
NoStarvedGet ==
    reader = "waiting" /\ want = AnyKind => Size = 0 /\ ~closed

(* Room never goes begging: while a sender waits in put(), it gets out, or *)
(* another message is accepted, if the reader goes on calling get().       *)
(* Event.set() wakes all senders and the room is for who runs first, so a  *)
(* particular sender may be passed over for ever by others that put again. *)
(* (A reader that waits in receive() for a kind nobody can put any more    *)
(* leaves the senders of a full inbox where they are.)                     *)
RoomIsTaken ==
    \A s \in Senders, n \in 0..MaxMsgs :
        (~selective /\ sender[s] # "idle" /\ accepted = n)
            ~> (sender[s] = "idle" \/ accepted > n)

(* An accepted message leaves the inbox, if the reader goes on calling     *)
(* get().                                                                  *)
MessagesLeave ==
    \A n \in 1..MaxMsgs :
        (~selective /\ \E i \in 1..Len(Box) : Box[i].id = n)
            ~> (\A i \in 1..Len(Box) : Box[i].id # n)
=============================================================================
