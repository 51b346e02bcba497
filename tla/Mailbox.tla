------------------------------ MODULE Mailbox ------------------------------
(***************************************************************************)
(* What an inbox promises, without tasks, events or futures: a bounded     *)
(* sequence of messages.  A message enters at the end.  The reader takes   *)
(* the oldest message, or the oldest of the kind it asks for.  A full      *)
(* mailbox may make room by evicting its oldest message, or the next one   *)
(* when the oldest is already on its way to the reader.  A message is lost *)
(* on that way if the reader's wait ends early, and in no other case: every*)
(* accepted message is in the box, taken, evicted or lost, and in one of   *)
(* them only.                                                              *)
(***************************************************************************)
EXTENDS Integers, Sequences

CONSTANTS Kinds, Capacity

VARIABLES
    box,       \* the messages that can still be read, oldest first
    taken,     \* the messages the reader was given, in order
    accepted,  \* how many messages have entered
    evicted,   \* the messages that made room
    lost,      \* the messages lost on their way to the reader
    expiries   \* how many waits of the reader have ended early

vars == <<box, taken, accepted, evicted, lost, expiries>>

Init == /\ box = <<>> /\ taken = <<>> /\ accepted = 0
        /\ evicted = {} /\ lost = {} /\ expiries = 0

Without(s, i) == SubSeq(s, 1, i - 1) \o SubSeq(s, i + 1, Len(s))

(* A message of kind k enters behind the messages rest.                    *)
Enter(k, rest) ==
    /\ Len(rest) <= Capacity
    /\ accepted' = accepted + 1
    /\ box' = Append(rest, [id |-> accepted + 1, kind |-> k])
    /\ UNCHANGED <<taken, lost, expiries>>

Accept(k) == Enter(k, box) /\ UNCHANGED evicted

Evict(k) ==
    \E i \in {1, 2} \cap (1..Len(box)) :
        /\ Enter(k, Without(box, i))
        /\ evicted' = evicted \cup {box[i]}

Take ==
    \E i \in 1..Len(box) :
        /\ \A j \in 1..(i - 1) : box[j].kind # box[i].kind
        /\ box' = Without(box, i)
        /\ taken' = Append(taken, box[i])
        /\ UNCHANGED <<accepted, evicted, lost, expiries>>

Expire ==
    /\ expiries' = expiries + 1
    /\ \/ UNCHANGED <<box, lost>>
       \/ \E i \in 1..Len(box) :
             box' = Without(box, i) /\ lost' = lost \cup {box[i]}
    /\ UNCHANGED <<taken, accepted, evicted>>

Next == (\E k \in Kinds : Accept(k) \/ Evict(k)) \/ Take \/ Expire

Spec == Init /\ [][Next]_vars
-----------------------------------------------------------------------------
(* What follows for the reader.                                            *)

Members(s) == {s[i] : i \in 1..Len(s)}

Numbers(S) == {m.id : m \in S}

(* Every accepted message is in exactly one place: in the box, taken,      *)
(* evicted or lost.                                                        *)
Accounted ==
    /\ 1..accepted = Numbers(Members(box)) \cup Numbers(Members(taken))
                        \cup Numbers(evicted) \cup Numbers(lost)
    /\ Numbers(Members(box)) \cap Numbers(Members(taken)) = {}
    /\ Numbers(evicted) \cap Numbers(lost) = {}
    /\ (Numbers(Members(box)) \cup Numbers(Members(taken)))
          \cap (Numbers(evicted) \cup Numbers(lost)) = {}
    /\ \A i, j \in 1..Len(taken) : taken[i].id = taken[j].id => i = j

(* Of two messages of one kind the one accepted first is read first, if    *)
(* both are read; the box lists the messages in the order of acceptance.   *)
InOrder ==
    /\ \A i, j \in 1..Len(box) : i < j => box[i].id < box[j].id
    /\ \A i, j \in 1..Len(taken) :
          i < j /\ taken[i].kind = taken[j].kind => taken[i].id < taken[j].id
    /\ \A i \in 1..Len(taken) : \A j \in 1..Len(box) :
          taken[i].kind = box[j].kind => taken[i].id < box[j].id
=============================================================================
