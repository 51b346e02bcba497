-------------------------- MODULE SupervisorProofs --------------------------
(***************************************************************************)
(* Proofs about a supervisor, for any number of children, any restart      *)
(* types, and any number of exits, messages and actors.                    *)
(***************************************************************************)
EXTENDS Supervisor, FiniteSetTheorems, SequenceTheorems, WellFoundedInduction, TLAPS

-----------------------------------------------------------------------------
(* Types                                                                   *)

LEMMA Bounds ==
    /\ NumSpecs \in Nat \ {0} /\ MaxExits \in Nat /\ MaxMsgs \in Nat /\ MaxActors \in Nat
    /\ Settings \subseteq Strategies \X [Specs -> RestartTypes]
BY SupervisorAssumption, Zenon DEF SupervisorAssumption

LEMMA FunctionIsSeq ==
    ASSUME NEW S, NEW n \in Nat, NEW f \in [1..n -> S]
    PROVE  f \in Seq(S) /\ Len(f) = n
<1>1. f \in Seq(S)
  BY SeqDef
<1>. QED
  BY <1>1, LenProperties

(* The records of actors.                                                  *)
Tasks == {"new", "running", "stopping", "backoff", "renewing", "done"}

Actor == [spec : Specs, running : BOOLEAN, closed : BOOLEAN, task : Tasks,
          cancel : BOOLEAN, crashed : BOOLEAN, plan : Seq(1..MaxActors),
          next : 0..MaxActors, mail : Seq(1..MaxMsgs)]

(* A task replaces actors that exist.                                      *)
PlansKnown == \A a \in Ids : \A i \in DOMAIN actors[a].plan : actors[a].plan[i] \in Ids

TInv == TypeOK /\ PlansKnown

LEMMA ActorsType ==
    ASSUME TypeOK
    PROVE  /\ actors \in Seq(Actor) /\ Ids = 1..Len(actors) /\ Len(actors) \in Nat
           /\ \A a \in Ids : actors[a] \in Actor
           /\ \A a \in Ids :
                 /\ actors[a].spec \in Specs /\ actors[a].running \in BOOLEAN
                 /\ actors[a].closed \in BOOLEAN /\ actors[a].task \in Tasks
                 /\ actors[a].cancel \in BOOLEAN /\ actors[a].crashed \in BOOLEAN
                 /\ actors[a].plan \in Seq(1..MaxActors)
                 /\ actors[a].next \in 0..MaxActors /\ actors[a].mail \in Seq(1..MaxMsgs)
<1>1. actors \in Seq(Actor)
  BY DEF TypeOK, Actor, Tasks
<1>2. Ids = 1..Len(actors) /\ Len(actors) \in Nat /\ \A a \in Ids : actors[a] \in Actor
  BY <1>1 DEF Ids
<1>. QED
  BY <1>1, <1>2 DEF Actor

(* A new child.                                                            *)
LEMMA ChildType ==
    ASSUME NEW s \in Specs, NEW m \in Seq(1..MaxMsgs)
    PROVE  /\ Child(s, m) \in Actor
           /\ Child(s, m).spec = s /\ Child(s, m).task = "new" /\ Child(s, m).next = 0
           /\ Child(s, m).running = FALSE /\ Child(s, m).plan = <<>> /\ Child(s, m).mail = m
BY Bounds DEF Child, Actor, Tasks

(* The actors after stop() and cancel(), with what they keep.              *)
Halted(ss, S, self) ==
    /\ ss \in Seq(Actor) /\ Len(ss) = Len(actors)
    /\ \A b \in Ids :
          /\ ss[b].spec = actors[b].spec /\ ss[b].task = actors[b].task
          /\ ss[b].crashed = actors[b].crashed /\ ss[b].plan = actors[b].plan
          /\ ss[b].next = actors[b].next /\ ss[b].mail = actors[b].mail
    /\ \A b \in Ids \ S : ss[b] = actors[b]
    /\ \A b \in S \cap Ids : ss[b].running = FALSE
    /\ \A b \in S \cap Ids : ss[b].cancel = (IF b = self THEN actors[b].cancel
                                             ELSE actors[b].task # "done")

LEMMA StoppedHalts ==
    ASSUME TypeOK, NEW S, NEW self
    PROVE  Halted(Stopped(actors, S, self), S, self)
<1>. DEFINE ss == Stopped(actors, S, self)
<1>1. ASSUME NEW b \in Ids
      PROVE  /\ ss[b] \in Actor
             /\ ss[b].spec = actors[b].spec /\ ss[b].task = actors[b].task
             /\ ss[b].crashed = actors[b].crashed /\ ss[b].plan = actors[b].plan
             /\ ss[b].next = actors[b].next /\ ss[b].mail = actors[b].mail
             /\ b \notin S => ss[b] = actors[b]
             /\ b \in S => ss[b].running = FALSE
             /\ b \in S => ss[b].cancel = (IF b = self THEN actors[b].cancel
                                           ELSE actors[b].task # "done")
  <2>. DEFINE r == actors[b]
  <2>1. r \in Actor
    BY ActorsType
  <2>2. ss[b] = IF b \notin S THEN r ELSE IF b = self THEN StopOne(r) ELSE CancelOne(StopOne(r))
    BY DEF Stopped, Ids
  <2>. HIDE DEF r, ss
  <2>3. CASE b \notin S
    BY <2>1, <2>2, <2>3 DEF r
  <2>4. CASE b \in S /\ b = self
    BY <2>1, <2>2, <2>4 DEF r, StopOne, Actor
  <2>5. CASE b \in S /\ b # self
    <3>1. ss[b] = [[r EXCEPT !.running = FALSE, !.closed = TRUE] EXCEPT !.cancel = (r.task # "done")]
      BY <2>1, <2>2, <2>5 DEF StopOne, CancelOne, Actor
    <3>. QED
      BY <2>1, <2>5, <3>1 DEF r, Actor
  <2>. QED
    BY <2>3, <2>4, <2>5
<1>2. ss = [b \in 1..Len(actors) |-> ss[b]]
  BY ActorsType DEF Stopped, Ids
<1>3. ss \in Seq(Actor) /\ Len(ss) = Len(actors)
  <2>1. ss \in [1..Len(actors) -> Actor]
    <3>. HIDE DEF ss
    <3>. QED
      BY <1>1, <1>2, ActorsType
  <2>. HIDE DEF ss
  <2>. QED
    BY <2>1, ActorsType, FunctionIsSeq
<1>. HIDE DEF ss
<1>4. Halted(ss, S, self)
  BY <1>1, <1>3 DEF Halted
<1>. QED
  BY <1>4 DEF ss

(* Facts of SequenceTheorems, for sequences of actors.                     *)
LEMMA ActorsElement ==
    ASSUME NEW s \in Seq(Actor)
    PROVE  Len(s) \in Nat /\ DOMAIN s = 1..Len(s) /\ \A i \in 1..Len(s) : s[i] \in Actor
BY ElementOfSeq, LenProperties

(* One more number than 1..l.                                              *)
LEMMA OneMore ==
    ASSUME NEW l \in Nat
    PROVE  /\ 1..l \subseteq 1..(l + 1) /\ l + 1 \in 1..(l + 1) /\ l + 1 \notin 1..l
           /\ \A i \in 1..(l + 1) : i \in 1..l \/ i = l + 1
OBVIOUS

LEMMA ActorsAppend ==
    ASSUME NEW s \in Seq(Actor), NEW c \in Actor
    PROVE  /\ Append(s, c) \in Seq(Actor) /\ Len(Append(s, c)) = Len(s) + 1
           /\ Append(s, c)[Len(s) + 1] = c
           /\ \A i \in 1..Len(s) : Append(s, c)[i] = s[i]
BY AppendProperties

LEMMA ActorsExcept ==
    ASSUME NEW s \in Seq(Actor), NEW i \in 1..Len(s), NEW r \in Actor
    PROVE  /\ [s EXCEPT ![i] = r] \in Seq(Actor) /\ Len([s EXCEPT ![i] = r]) = Len(s)
           /\ \A j \in 1..Len(s) : [s EXCEPT ![i] = r][j] = IF j = i THEN r ELSE s[j]
BY ExceptSeq

(* What _start_child does to the actors.                                   *)
LEMMA ReplacedEffect ==
    ASSUME NEW ss \in Seq(Actor), NEW p \in 1..Len(ss),
           Len(ss) < MaxActors
    PROVE  /\ Replaced(ss, p) \in Seq(Actor) /\ Len(Replaced(ss, p)) = Len(ss) + 1
           /\ Replaced(ss, p)[Len(ss) + 1] = Child(ss[p].spec, ss[p].mail)
           /\ Replaced(ss, p)[p] = [ss[p] EXCEPT !.next = Len(ss) + 1, !.mail = <<>>]
           /\ \A b \in 1..Len(ss) : b # p => Replaced(ss, p)[b] = ss[b]
<1>. DEFINE n == Len(ss) + 1
            r == [ss[p] EXCEPT !.next = n, !.mail = <<>>]
            qs == [ss EXCEPT ![p] = r]
            c == Child(ss[p].spec, ss[p].mail)
<1>1. ss[p] \in Actor /\ ss[p].spec \in Specs /\ ss[p].mail \in Seq(1..MaxMsgs)
  <2>1. ss[p] \in Actor
    BY ActorsElement
  <2>. QED
    BY <2>1 DEF Actor
<1>2. n \in 0..MaxActors
  <2>1. Len(ss) \in Nat
    BY ActorsElement
  <2>. QED
    BY <2>1, Bounds
<1>3. r \in Actor
  <2>. HIDE DEF n
  <2>1. <<>> \in Seq(1..MaxMsgs)
    OBVIOUS
  <2>. QED
    BY <1>1, <1>2, <2>1 DEF Actor
<1>4. c \in Actor
  BY <1>1, ChildType
<1>5. Replaced(ss, p) = Append(qs, c)
  <2>1. [ss EXCEPT ![p].next = Len(ss) + 1, ![p].mail = <<>>] = qs
    OBVIOUS
  <2>. QED
    BY <2>1 DEF Replaced
<1>. HIDE DEF r, c
<1>6. qs \in Seq(Actor) /\ Len(qs) = Len(ss)
      /\ \A b \in 1..Len(ss) : qs[b] = IF b = p THEN r ELSE ss[b]
  BY <1>3, ActorsExcept
<1>. HIDE DEF qs
<1>7. /\ Append(qs, c) \in Seq(Actor) /\ Len(Append(qs, c)) = n
      /\ Append(qs, c)[n] = c
      /\ \A b \in 1..Len(ss) : Append(qs, c)[b] = qs[b]
  BY <1>4, <1>6, ActorsAppend
<1>. QED
  BY <1>5, <1>6, <1>7 DEF r, c

(* What a step that replaces the first actor of todo does.                 *)
Renewed(ss, a, todo) ==
    LET n == Len(actors) + 1
        p == Head(todo)
    IN  /\ n \in 1..MaxActors /\ p \in Ids /\ Ids' = 1..n
        /\ actors' \in Seq(Actor) /\ Len(actors') = n
        /\ actors'[n].spec = actors[p].spec /\ actors'[n].mail = actors[p].mail
        /\ actors'[n].task = "new" /\ actors'[n].next = 0 /\ actors'[n].plan = <<>>
        /\ actors'[n].running = FALSE
        /\ \A b \in Ids :
              /\ actors'[b].spec = actors[b].spec
              /\ actors'[b].running = ss[b].running /\ actors'[b].cancel = ss[b].cancel
              /\ actors'[b].next = (IF b = p THEN n ELSE actors[b].next)
              /\ actors'[b].mail = (IF b = p THEN <<>> ELSE actors[b].mail)
        /\ \A b \in Ids \ {a} :
              actors'[b].task = actors[b].task /\ actors'[b].plan = actors[b].plan
        /\ actors'[a].task = (IF Len(todo) = 1 THEN "done" ELSE "renewing")
        /\ actors'[a].plan = Tail(todo)
        /\ children' = Entered(children, p, n)
        /\ UNCHANGED <<config, sup, exits, sent, handled>>

LEMMA ReplaceEffect ==
    ASSUME TypeOK, NEW S, NEW self, NEW ss, Halted(ss, S, self),
           NEW a \in Ids, NEW todo \in Seq(Ids), todo # <<>>, Replace(a, ss, todo)
    PROVE  Renewed(ss, a, todo)
<1>. DEFINE n == Len(actors) + 1
            p == Head(todo)
            rs == Replaced(ss, p)
            t == IF Len(todo) = 1 THEN "done" ELSE "renewing"
<1>1. /\ p \in Ids /\ Ids = 1..Len(actors) /\ Len(actors) \in Nat /\ Len(actors) < MaxActors
      /\ ss \in Seq(Actor) /\ Len(ss) = Len(actors) /\ n \in 1..MaxActors
  <2>1. Ids = 1..Len(actors) /\ Len(actors) \in Nat
    BY ActorsType
  <2>2. Len(actors) < MaxActors /\ ss \in Seq(Actor) /\ Len(ss) = Len(actors)
    BY DEF Replace, Halted
  <2>3. p \in Ids
    OBVIOUS
  <2>. QED
    BY <2>1, <2>2, <2>3, Bounds
<1>2. Tail(todo) \in Seq(1..MaxActors)
  <2>1. Tail(todo) \in Seq(Ids)
    BY HeadTailProperties
  <2>2. Ids \subseteq 1..MaxActors
    BY <1>1, Bounds
  <2>. QED
    BY <2>1, <2>2, SeqMonotonic
<1>3. /\ rs \in Seq(Actor) /\ Len(rs) = n
      /\ rs[n] = Child(ss[p].spec, ss[p].mail)
      /\ rs[p] = [ss[p] EXCEPT !.next = n, !.mail = <<>>]
      /\ \A b \in Ids : b # p => rs[b] = ss[b]
  <2>1. p \in 1..Len(ss) /\ Len(ss) < MaxActors /\ ss \in Seq(Actor)
    BY <1>1
  <2>. HIDE DEF p
  <2>2. /\ Replaced(ss, p) \in Seq(Actor) /\ Len(Replaced(ss, p)) = Len(ss) + 1
        /\ Replaced(ss, p)[Len(ss) + 1] = Child(ss[p].spec, ss[p].mail)
        /\ Replaced(ss, p)[p] = [ss[p] EXCEPT !.next = Len(ss) + 1, !.mail = <<>>]
        /\ \A b \in 1..Len(ss) : b # p => Replaced(ss, p)[b] = ss[b]
    BY <2>1, ReplacedEffect, Zenon
  <2>3. Len(ss) + 1 = n /\ Ids = 1..Len(ss)
    BY <1>1
  <2>. HIDE DEF n
  <2>. QED
    BY <2>2, <2>3
<1>4. actors' = [rs EXCEPT ![a] = [rs[a] EXCEPT !.task = t, !.plan = Tail(todo)]]
  <2>1. actors' = [rs EXCEPT ![a].task = t, ![a].plan = Tail(todo)]
    BY DEF Replace
  <2>. HIDE DEF rs, t
  <2>. QED
    BY <1>1, <1>3, <2>1
<1>. HIDE DEF rs, p
<1>5. \A b \in Ids : /\ ss[b] \in Actor
                     /\ rs[b] \in Actor
                     /\ rs[b].spec = actors[b].spec /\ rs[b].running = ss[b].running
                     /\ rs[b].cancel = ss[b].cancel
                     /\ rs[b].task = actors[b].task /\ rs[b].plan = actors[b].plan
                     /\ rs[b].next = (IF b = p THEN n ELSE actors[b].next)
                     /\ rs[b].mail = (IF b = p THEN <<>> ELSE actors[b].mail)
  <2>. SUFFICES ASSUME NEW b \in Ids
                PROVE  /\ ss[b] \in Actor
                       /\ rs[b] \in Actor
                       /\ rs[b].spec = actors[b].spec /\ rs[b].running = ss[b].running
                       /\ rs[b].cancel = ss[b].cancel
                       /\ rs[b].task = actors[b].task /\ rs[b].plan = actors[b].plan
                       /\ rs[b].next = (IF b = p THEN n ELSE actors[b].next)
                       /\ rs[b].mail = (IF b = p THEN <<>> ELSE actors[b].mail)
    OBVIOUS
  <2>1. ss[b] \in Actor /\ rs[b] \in Actor
    BY <1>1, <1>3
  <2>2. CASE b = p
    BY ZenonT(40), <1>3, <2>1, <2>2 DEF Halted, Actor
  <2>3. CASE b # p
    BY <1>3, <2>1, <2>3 DEF Halted
  <2>. QED
    BY <2>1, <2>2, <2>3
<1>6. /\ [rs[a] EXCEPT !.task = t, !.plan = Tail(todo)] \in Actor
      /\ t \in Tasks
  <2>1. t \in Tasks
    BY DEF Tasks
  <2>. HIDE DEF t
  <2>2. rs[a] \in Actor
    BY <1>5
  <2>. QED
    BY <1>2, <2>1, <2>2 DEF Actor
<1>7. /\ actors' \in Seq(Actor) /\ Len(actors') = n
      /\ \A b \in 1..n : actors'[b] = IF b = a THEN [rs[a] EXCEPT !.task = t, !.plan = Tail(todo)]
                                      ELSE rs[b]
  <2>. DEFINE r == [rs[a] EXCEPT !.task = t, !.plan = Tail(todo)]
  <2>1. r \in Actor /\ rs \in Seq(Actor) /\ a \in 1..Len(rs) /\ actors' = [rs EXCEPT ![a] = r]
    BY <1>1, <1>3, <1>4, <1>6
  <2>. HIDE DEF r
  <2>2. /\ actors' \in Seq(Actor) /\ Len(actors') = n
        /\ \A b \in 1..n : actors'[b] = IF b = a THEN r ELSE rs[b]
    BY <1>3, <2>1, ActorsExcept
  <2>. QED
    BY <2>2 DEF r
<1>8. /\ actors'[a].task = t /\ actors'[a].plan = Tail(todo)
      /\ actors'[a].spec = rs[a].spec /\ actors'[a].running = rs[a].running
      /\ actors'[a].cancel = rs[a].cancel /\ actors'[a].next = rs[a].next
      /\ actors'[a].mail = rs[a].mail
  <2>1. rs[a] \in Actor /\ a \in 1..n
    BY <1>1, <1>5
  <2>. HIDE DEF t
  <2>. QED
    BY <1>7, <2>1 DEF Actor
<1>9. \A b \in Ids \ {a} : actors'[b] = rs[b]
  BY <1>1, <1>7
<1>10. actors'[n] = Child(actors[p].spec, actors[p].mail) /\ actors[p].spec \in Specs
       /\ actors[p].mail \in Seq(1..MaxMsgs)
  <2>1. n \in 1..n /\ n # a
    BY <1>1
  <2>2. ss[p].spec = actors[p].spec /\ ss[p].mail = actors[p].mail
    BY <1>1 DEF Halted, p
  <2>. QED
    BY <1>1, <1>3, <1>7, <2>1, <2>2, ActorsType DEF p
<1>11. /\ actors'[n].spec = actors[p].spec /\ actors'[n].mail = actors[p].mail
       /\ actors'[n].task = "new" /\ actors'[n].next = 0 /\ actors'[n].plan = <<>>
       /\ actors'[n].running = FALSE
  <2>. DEFINE s == actors[p].spec  m == actors[p].mail
  <2>1. s \in Specs /\ m \in Seq(1..MaxMsgs) /\ actors'[n] = Child(s, m)
    BY <1>10
  <2>. HIDE DEF s, m, n
  <2>2. /\ actors'[n].spec = s /\ actors'[n].mail = m
        /\ actors'[n].task = "new" /\ actors'[n].next = 0 /\ actors'[n].plan = <<>>
        /\ actors'[n].running = FALSE
    BY <2>1 DEF Child
  <2>. QED
    BY <2>2 DEF s, m
<1>12. children' = Entered(children, p, n) /\ UNCHANGED <<config, sup, exits, sent, handled>>
  BY DEF Replace, p
<1>13. Ids' = 1..n
  BY <1>1, <1>7 DEF Ids
<1>14. \A b \in Ids :
          /\ actors'[b].spec = actors[b].spec
          /\ actors'[b].running = ss[b].running /\ actors'[b].cancel = ss[b].cancel
          /\ actors'[b].next = (IF b = p THEN n ELSE actors[b].next)
          /\ actors'[b].mail = (IF b = p THEN <<>> ELSE actors[b].mail)
  BY <1>5, <1>8, <1>9
<1>15. \A b \in Ids \ {a} :
          actors'[b].task = actors[b].task /\ actors'[b].plan = actors[b].plan
  BY <1>5, <1>9
<1>. QED
  BY <1>1, <1>7, <1>8, <1>11, <1>12, <1>13, <1>14, <1>15 DEF Renewed, p

-----------------------------------------------------------------------------
(* Steps that concern one actor                                            *)

(* Neither runs nor will: _watch_child has passed the message loop, or a   *)
(* cancellation waits for its first step.                                  *)
Retired(a) == ~actors[a].running /\ (actors[a].task = "new" => actors[a].cancel)

(* Only a task in its loop runs, and not when it has been cancelled.       *)
RunsInLoop(a) ==
    actors[a].running => actors[a].task = "running" /\ ~actors[a].cancel

(* A step of actor a, or of those who hold a ref of it, that creates none. *)
LocalStep(a) ==
    /\ actors' \in Seq(Actor) /\ Len(actors') = Len(actors) /\ Ids' = Ids
    /\ \A b \in Ids \ {a} : actors'[b] = actors[b]
    /\ actors'[a].spec = actors[a].spec /\ actors'[a].next = actors[a].next
    /\ Retired(a) => Retired(a)'
    /\ RunsInLoop(a) => RunsInLoop(a)'
    /\ \/ actors'[a].task = "renewing" /\ actors[a].task = "renewing"
          /\ actors'[a].plan = actors[a].plan
       \/ actors'[a].task # "renewing" /\ actors'[a].plan = <<>>
    /\ actors[a].task = "done" => actors'[a].task = "done"
    /\ UNCHANGED <<config, sup, children, overlapped>>

(* The same with the inbox as it was.                                      *)
SilentStep(a) ==
    /\ LocalStep(a)
    /\ actors'[a].mail = actors[a].mail
    /\ UNCHANGED <<sent, handled>>
    /\ exits' \in 0..MaxExits

(* One record is replaced by another.                                      *)
LEMMA RecordChanged ==
    ASSUME TypeOK, NEW a \in Ids, NEW r \in Actor, actors' = [actors EXCEPT ![a] = r]
    PROVE  /\ actors' \in Seq(Actor) /\ Len(actors') = Len(actors) /\ Ids' = Ids
           /\ actors'[a] = r /\ \A b \in Ids \ {a} : actors'[b] = actors[b]
<1>1. actors \in Seq(Actor) /\ a \in 1..Len(actors) /\ Ids = 1..Len(actors)
  BY ActorsType
<1>2. /\ actors' \in Seq(Actor) /\ Len(actors') = Len(actors)
      /\ \A b \in 1..Len(actors) : actors'[b] = IF b = a THEN r ELSE actors[b]
  BY <1>1, ActorsExcept
<1>3. Ids' = 1..Len(actors')
  BY <1>2, ActorsElement DEF Ids
<1>. QED
  BY <1>1, <1>2, <1>3

LEMMA DoneStep ==
    ASSUME TypeOK, NEW a \in Ids, actors[a].task # "running", Done(a)
    PROVE  SilentStep(a)
<1>. DEFINE r == [actors[a] EXCEPT !.task = "done", !.cancel = FALSE, !.plan = <<>>]
<1>1. r \in Actor /\ actors' = [actors EXCEPT ![a] = r]
  <2>1. actors[a] \in Actor /\ <<>> \in Seq(1..MaxActors)
    BY ActorsType
  <2>. QED
    BY <2>1, ActorsType DEF Done, Actor, Tasks
<1>2. /\ r.spec = actors[a].spec /\ r.next = actors[a].next /\ r.mail = actors[a].mail
      /\ r.running = actors[a].running /\ r.task = "done" /\ r.plan = <<>>
  BY ActorsType DEF Actor
<1>3. /\ UNCHANGED <<config, sup, children, sent, handled, overlapped>>
      /\ exits' \in 0..MaxExits
      /\ actors[a].task # "running"
  BY Bounds DEF Done, TypeOK
<1>4. actors[a].plan = <<>> \/ actors[a].task = "renewing"
  BY DEF TypeOK
<1>. HIDE DEF r
<1>. QED
  BY <1>1, <1>2, <1>3, <1>4, RecordChanged DEF SilentStep, LocalStep, Retired, RunsInLoop

LEMMA BeginsStep ==
    ASSUME TypeOK, NEW a \in Ids, Begins(a)
    PROVE  SilentStep(a)
<1>. DEFINE r == [actors[a] EXCEPT !.task = "running", !.running = TRUE]
<1>1. r \in Actor /\ actors' = [actors EXCEPT ![a] = r]
  <2>1. actors[a] \in Actor /\ <<>> \in Seq(1..MaxActors)
    BY ActorsType
  <2>. QED
    BY <2>1, ActorsType DEF Begins, Sets, Actor, Tasks
<1>2. /\ r.spec = actors[a].spec /\ r.next = actors[a].next /\ r.mail = actors[a].mail
      /\ r.task = "running" /\ r.cancel = actors[a].cancel /\ r.plan = actors[a].plan
  BY ActorsType DEF Actor
<1>3. /\ UNCHANGED <<config, sup, children, sent, handled, overlapped>>
      /\ exits' \in 0..MaxExits
      /\ actors[a].task = "new" /\ ~actors[a].cancel
  BY Bounds DEF Begins, Sets, TypeOK
<1>4. actors[a].plan = <<>> \/ actors[a].task = "renewing"
  BY DEF TypeOK
<1>. HIDE DEF r
<1>. QED
  BY <1>1, <1>2, <1>3, <1>4, RecordChanged DEF SilentStep, LocalStep, Retired, RunsInLoop

LEMMA SwallowStep ==
    ASSUME TypeOK, NEW a \in Ids, CancelSwallowed(a)
    PROVE  SilentStep(a)
<1>. DEFINE r == [actors[a] EXCEPT !.task = "stopping", !.cancel = FALSE]
<1>1. r \in Actor /\ actors' = [actors EXCEPT ![a] = r]
  <2>1. actors[a] \in Actor /\ <<>> \in Seq(1..MaxActors)
    BY ActorsType
  <2>. QED
    BY <2>1, ActorsType DEF CancelSwallowed, Sets, Actor, Tasks
<1>2. /\ r.spec = actors[a].spec /\ r.next = actors[a].next /\ r.mail = actors[a].mail
      /\ r.running = actors[a].running /\ r.task = "stopping" /\ r.plan = actors[a].plan
  BY ActorsType DEF Actor
<1>3. /\ UNCHANGED <<config, sup, children, sent, handled, overlapped>>
      /\ exits' \in 0..MaxExits
      /\ actors[a].task = "running" /\ actors[a].cancel
  BY Bounds DEF CancelSwallowed, Sets, TypeOK
<1>4. actors[a].plan = <<>> \/ actors[a].task = "renewing"
  BY DEF TypeOK
<1>. HIDE DEF r
<1>. QED
  BY <1>1, <1>2, <1>3, <1>4, RecordChanged DEF SilentStep, LocalStep, Retired, RunsInLoop

LEMMA PollFailsStep ==
    ASSUME TypeOK, NEW a \in Ids, PollFails(a)
    PROVE  SilentStep(a)
<1>. DEFINE r == [actors[a] EXCEPT !.task = "stopping", !.running = FALSE]
<1>1. r \in Actor /\ actors' = [actors EXCEPT ![a] = r]
  <2>1. actors[a] \in Actor /\ <<>> \in Seq(1..MaxActors)
    BY ActorsType
  <2>. QED
    BY <2>1, ActorsType DEF PollFails, Sets, Actor, Tasks
<1>2. /\ r.spec = actors[a].spec /\ r.next = actors[a].next /\ r.mail = actors[a].mail
      /\ r.running = FALSE /\ r.task = "stopping" /\ r.plan = actors[a].plan
  BY ActorsType DEF Actor
<1>3. /\ UNCHANGED <<config, sup, children, sent, handled, overlapped>>
      /\ exits' \in 0..MaxExits
      /\ actors[a].task = "running"
  BY Bounds DEF PollFails, Sets, TypeOK
<1>4. actors[a].plan = <<>> \/ actors[a].task = "renewing"
  BY DEF TypeOK
<1>. HIDE DEF r
<1>. QED
  BY <1>1, <1>2, <1>3, <1>4, RecordChanged DEF SilentStep, LocalStep, Retired, RunsInLoop

LEMMA ExitsStep ==
    ASSUME TypeOK, NEW a \in Ids, NEW crash \in BOOLEAN, NEW closes \in BOOLEAN, Exits(a, crash, closes)
    PROVE  SilentStep(a)
<1>. DEFINE r == [actors[a] EXCEPT !.task = "stopping", !.running = FALSE,
                                !.crashed = crash, !.closed = actors[a].closed \/ closes]
<1>1. r \in Actor /\ actors' = [actors EXCEPT ![a] = r]
  <2>1. actors[a] \in Actor /\ <<>> \in Seq(1..MaxActors)
    BY ActorsType
  <2>2. r \in Actor
    BY <2>1 DEF Actor, Tasks
  <2>3. actors' = [actors EXCEPT ![a] = r]
    BY ActorsType DEF Exits
  <2>. QED
    BY <2>2, <2>3
<1>2. /\ r.spec = actors[a].spec /\ r.next = actors[a].next /\ r.mail = actors[a].mail
      /\ r.running = FALSE /\ r.task = "stopping" /\ r.plan = actors[a].plan
  BY ActorsType DEF Actor
<1>3. /\ UNCHANGED <<config, sup, children, sent, handled, overlapped>>
      /\ exits' \in 0..MaxExits
      /\ actors[a].task = "running"
  BY Bounds DEF Exits, TypeOK
<1>4. actors[a].plan = <<>> \/ actors[a].task = "renewing"
  BY DEF TypeOK
<1>. HIDE DEF r
<1>. QED
  BY <1>1, <1>2, <1>3, <1>4, RecordChanged DEF SilentStep, LocalStep, Retired, RunsInLoop

LEMMA BackoffStep ==
    ASSUME TypeOK, NEW a \in Ids, actors[a].task = "stopping", Sets([actors EXCEPT ![a].task = "backoff"])
    PROVE  SilentStep(a)
<1>. DEFINE r == [actors[a] EXCEPT !.task = "backoff"]
<1>1. r \in Actor /\ actors' = [actors EXCEPT ![a] = r]
  <2>1. actors[a] \in Actor /\ <<>> \in Seq(1..MaxActors)
    BY ActorsType
  <2>. QED
    BY <2>1, ActorsType DEF Sets, Actor, Tasks
<1>2. /\ r.spec = actors[a].spec /\ r.next = actors[a].next /\ r.mail = actors[a].mail
      /\ r.running = actors[a].running /\ r.task = "backoff" /\ r.plan = actors[a].plan
  BY ActorsType DEF Actor
<1>3. /\ UNCHANGED <<config, sup, children, sent, handled, overlapped>>
      /\ exits' \in 0..MaxExits
      /\ actors[a].task = "stopping"
  BY Bounds DEF Sets, TypeOK
<1>4. actors[a].plan = <<>> \/ actors[a].task = "renewing"
  BY DEF TypeOK
<1>. HIDE DEF r
<1>. QED
  BY <1>1, <1>2, <1>3, <1>4, RecordChanged DEF SilentStep, LocalStep, Retired, RunsInLoop

LEMMA StopRaisesStep ==
    ASSUME TypeOK, NEW a \in Ids, StopRaises(a)
    PROVE  SilentStep(a)
<1>. DEFINE r == [actors[a] EXCEPT !.task = "backoff", !.crashed = TRUE]
<1>1. r \in Actor /\ actors' = [actors EXCEPT ![a] = r]
  <2>1. actors[a] \in Actor /\ <<>> \in Seq(1..MaxActors)
    BY ActorsType
  <2>2. r \in Actor
    BY <2>1 DEF Actor, Tasks
  <2>3. actors' = [actors EXCEPT ![a] = r]
    BY ActorsType DEF StopRaises
  <2>. QED
    BY <2>2, <2>3
<1>2. /\ r.spec = actors[a].spec /\ r.next = actors[a].next /\ r.mail = actors[a].mail
      /\ r.running = actors[a].running /\ r.task = "backoff" /\ r.plan = actors[a].plan
  BY ActorsType DEF Actor
<1>3. /\ UNCHANGED <<config, sup, children, sent, handled, overlapped>>
      /\ exits' \in 0..MaxExits
      /\ actors[a].task = "stopping"
  <2>1. exits \in 0..MaxExits /\ exits < MaxExits /\ exits' = exits + 1
    BY DEF StopRaises, TypeOK
  <2>2. exits' \in 0..MaxExits
    BY <2>1, Bounds
  <2>. QED
    BY <2>2 DEF StopRaises
<1>4. actors[a].plan = <<>> \/ actors[a].task = "renewing"
  BY DEF TypeOK
<1>. HIDE DEF r
<1>. QED
  BY <1>1, <1>2, <1>3, <1>4, RecordChanged DEF SilentStep, LocalStep, Retired, RunsInLoop

LEMMA StopChildStep ==
    ASSUME TypeOK, NEW a \in Ids, StopChild(a)
    PROVE  SilentStep(a)
<1>. DEFINE q == StopOne(actors[a])
            r == IF actors[a].task = "running" THEN CancelOne(q) ELSE q
<1>1. /\ q \in Actor /\ q.spec = actors[a].spec /\ q.next = actors[a].next
      /\ q.mail = actors[a].mail /\ q.running = FALSE /\ q.task = actors[a].task
      /\ q.plan = actors[a].plan /\ q.cancel = actors[a].cancel
  BY ActorsType DEF StopOne, Actor
<1>2. actors' = [actors EXCEPT ![a] = r]
  BY DEF StopChild
<1>. HIDE DEF q
<1>3. /\ r \in Actor /\ r.spec = actors[a].spec /\ r.next = actors[a].next
      /\ r.mail = actors[a].mail /\ r.running = FALSE /\ r.task = actors[a].task
      /\ r.plan = actors[a].plan /\ (actors[a].task = "new" => r.cancel = actors[a].cancel)
  <2>1. CASE actors[a].task = "running"
    <3>1. r = [q EXCEPT !.cancel = (q.task # "done")] /\ (q.task # "done") \in BOOLEAN
      BY <2>1 DEF CancelOne
    <3>. DEFINE d == (q.task # "done")
    <3>. HIDE DEF d
    <3>2. r = [q EXCEPT !.cancel = d] /\ d \in BOOLEAN
      BY <3>1 DEF d
    <3>. QED
      BY <1>1, <2>1, <3>2 DEF Actor
  <2>. QED
    BY <1>1, <2>1
<1>4. /\ UNCHANGED <<config, sup, children, sent, handled, overlapped>>
      /\ exits' \in 0..MaxExits
  BY Bounds DEF StopChild, TypeOK
<1>5. actors[a].plan = <<>> \/ actors[a].task = "renewing"
  BY DEF TypeOK
<1>. HIDE DEF r
<1>. QED
  BY <1>2, <1>3, <1>4, <1>5, RecordChanged DEF SilentStep, LocalStep, Retired, RunsInLoop

(* A message is handled, and one is sent.                                  *)
HandlesStep(a) ==
    LET m == actors[a].mail
        s == actors[a].spec
    IN  /\ LocalStep(a) /\ UNCHANGED <<exits, sent>>
        /\ m # <<>> /\ actors'[a].mail = Tail(m)
        /\ handled' = [handled EXCEPT ![s] = Append(handled[s], Head(m))]

SendsStep(a) ==
    /\ LocalStep(a) /\ UNCHANGED <<exits, handled>>
    /\ actors[a].next = 0
    /\ sent' = sent + 1 /\ sent' \in 1..MaxMsgs
    /\ actors'[a].mail = Append(actors[a].mail, sent + 1)

LEMMA HandlesEffect ==
    ASSUME TypeOK, NEW a \in Ids, Handles(a)
    PROVE  HandlesStep(a)
<1>. DEFINE r == [actors[a] EXCEPT !.mail = Tail(actors[a].mail)]
<1>0. actors[a].mail \in Seq(1..MaxMsgs) /\ actors[a].mail # <<>>
  BY ActorsType DEF Handles
<1>1. Tail(actors[a].mail) \in Seq(1..MaxMsgs)
  <2>. DEFINE m == actors[a].mail
  <2>1. m \in Seq(1..MaxMsgs) /\ m # <<>>
    BY <1>0
  <2>. HIDE DEF m
  <2>2. Tail(m) \in Seq(1..MaxMsgs)
    BY <2>1, HeadTailProperties
  <2>. QED
    BY <2>2 DEF m
<1>2. r \in Actor /\ actors' = [actors EXCEPT ![a] = r]
  BY <1>1, ActorsType DEF Handles, Actor
<1>3. /\ r.spec = actors[a].spec /\ r.next = actors[a].next /\ r.mail = Tail(actors[a].mail)
      /\ r.running = actors[a].running /\ r.task = actors[a].task /\ r.plan = actors[a].plan
      /\ r.cancel = actors[a].cancel
  BY ActorsType DEF Actor
<1>4. actors[a].plan = <<>> \/ actors[a].task = "renewing"
  BY DEF TypeOK
<1>5. UNCHANGED <<config, sup, children, exits, sent, overlapped>>
  BY DEF Handles
<1>6. handled' = [handled EXCEPT ![actors[a].spec] =
                    Append(handled[actors[a].spec], Head(actors[a].mail))]
  BY DEF Handles
<1>. HIDE DEF r
<1>7. LocalStep(a)
  BY <1>2, <1>3, <1>4, <1>5, RecordChanged DEF LocalStep, Retired, RunsInLoop
<1>. QED
  BY <1>0, <1>2, <1>3, <1>5, <1>6, <1>7, RecordChanged DEF HandlesStep

LEMMA SendsEffect ==
    ASSUME TypeOK, NEW a \in Ids, Sends(a)
    PROVE  SendsStep(a)
<1>. DEFINE r == [actors[a] EXCEPT !.mail = Append(actors[a].mail, sent + 1)]
<1>1. sent + 1 \in 1..MaxMsgs /\ sent' = sent + 1
  BY Bounds DEF Sends, TypeOK
<1>2. Append(actors[a].mail, sent + 1) \in Seq(1..MaxMsgs)
  BY <1>1, ActorsType
<1>3. r \in Actor /\ actors' = [actors EXCEPT ![a] = r]
  <2>1. actors[a] \in Actor
    BY ActorsType
  <2>2. r \in Actor
    BY <1>2, <2>1 DEF Actor
  <2>3. actors' = [actors EXCEPT ![a] = r]
    BY <1>1, ActorsType DEF Sends
  <2>. QED
    BY <2>2, <2>3
<1>4. /\ r.spec = actors[a].spec /\ r.next = actors[a].next
      /\ r.mail = Append(actors[a].mail, sent + 1)
      /\ r.running = actors[a].running /\ r.task = actors[a].task /\ r.plan = actors[a].plan
      /\ r.cancel = actors[a].cancel
  BY ActorsType DEF Actor
<1>5. actors[a].plan = <<>> \/ actors[a].task = "renewing"
  BY DEF TypeOK
<1>6. UNCHANGED <<config, sup, children, exits, handled, overlapped>> /\ actors[a].next = 0
  BY DEF Sends
<1>. HIDE DEF r
<1>7. LocalStep(a)
  BY <1>3, <1>4, <1>5, <1>6, RecordChanged DEF LocalStep, Retired, RunsInLoop
<1>. QED
  BY <1>1, <1>3, <1>4, <1>6, <1>7, RecordChanged DEF SendsStep

-----------------------------------------------------------------------------
(* Restarts                                                                *)

(* A nonempty set of natural numbers has a smallest member.                *)
LEMMA Smallest ==
    ASSUME NEW N \in SUBSET Nat, N # {}
    PROVE  \E n \in N : \A m \in N : n <= m
<1>. DEFINE Upto(n) == {j \in N : j <= n}
            All == {Upto(n) : n \in N}
<1>1. \A n \in Nat : IsFiniteSet(Upto(n))
    <2>. TAKE n \in Nat
    <2>1. \A j \in N : j <= n => j \in 0..n
        OBVIOUS
    <2>1a. Upto(n) \subseteq 0..n
        BY <2>1
    <2>2. IsFiniteSet(0..n)
        BY FS_Interval
    <2>. QED
        BY <2>1a, <2>2, FS_Subset
<1>2. All \subseteq FiniteSubsetsOf(Nat) /\ All # {}
    BY <1>1 DEF FiniteSubsetsOf
<1>3. PICK A \in All : \A B \in All : ~(<<B, A>> \in StrictSubsetOrdering(Nat))
    <2>. HIDE DEF All
    <2>. QED
        BY <1>2, FS_StrictSubsetOrderingWellFounded, WFMin
<1>4. PICK n \in N : A = Upto(n)
    OBVIOUS
<1>5. ASSUME NEW m \in N, m < n PROVE FALSE
    <2>1. Upto(m) \in All
        OBVIOUS
    <2>2. Upto(m) \subseteq A
        <3>1. \A j \in N : j \in Nat /\ m \in Nat /\ n \in Nat
            OBVIOUS
        <3>2. \A j \in N : j <= m => j <= n
            BY <3>1, <1>5
        <3>. QED
            BY <3>2, <1>4
    <2>3. Upto(m) # A
        <3>1. n \in A /\ n \notin Upto(m)
            BY <1>4, <1>5
        <3>. QED
            BY <3>1
    <2>4. Upto(m) \in SUBSET Nat /\ A \in SUBSET Nat
        BY <1>4
    <2>5. <<Upto(m), A>> \in StrictSubsetOrdering(Nat)
        <3>. HIDE DEF Upto
        <3>. QED
            BY <2>2, <2>3, <2>4 DEF StrictSubsetOrdering
    <2>. QED
        BY <2>1, <2>5, <1>3
<1>. QED
    BY <1>5

LEMMA First ==
    ASSUME NEW T \in SUBSET Nat, T # {}
    PROVE  (CHOOSE i \in T : \A j \in T : i <= j) \in T
BY Smallest

(* What a restart concerns: the actor itself, or the children from one on. *)
LEMMA ConcernedPart ==
    ASSUME TypeOK, NEW a \in Ids
    PROVE  /\ Concerned(a) \in Seq(Ids)
           /\ strategy = "one_for_one" => Concerned(a) = <<a>>
           /\ strategy # "one_for_one" =>
                \E m \in Nat : \A i \in DOMAIN Concerned(a) :
                    i + m \in DOMAIN children /\ Concerned(a)[i] = children[i + m]
<1>. DEFINE c == Concerned(a)
<1>1. /\ children \in Seq(Ids) /\ Len(children) \in Nat /\ DOMAIN children = 1..Len(children)
      /\ \A i \in DOMAIN children : children[i] \in Ids
  BY DEF TypeOK
<1>2. strategy \in Strategies
  BY Bounds DEF TypeOK
<1>3. CASE strategy = "one_for_one"
  <2>1. c = <<a>>
    BY <1>3 DEF Concerned
  <2>. QED
    BY <1>3, <2>1
<1>4. CASE strategy = "one_for_all"
  <2>1. c = children
    BY <1>4 DEF Concerned
  <2>2. \A i \in DOMAIN c : i + 0 \in DOMAIN children /\ c[i] = children[i + 0]
    BY <1>1, <2>1
  <2>. QED
    BY <1>1, <1>4, <2>1, <2>2
<1>5. CASE strategy = "rest_for_one"
  <2>. DEFINE same == {i \in DOMAIN children : actors[children[i]].spec = actors[a].spec}
              m == CHOOSE i \in same : \A j \in same : i <= j
  <2>1. c = IF same = {} THEN <<>> ELSE SubSeq(children, m, Len(children))
    BY <1>5 DEF Concerned
  <2>2. CASE same = {}
    <3>1. c = <<>>
      BY <2>1, <2>2
    <3>2. c \in Seq(Ids) /\ DOMAIN c = {}
      BY <3>1
    <3>. QED
      BY <1>5, <3>2
  <2>3. CASE same # {}
    <3>1. m \in same
      <4>1. same \in SUBSET Nat
        BY <1>1
      <4>. HIDE DEF same
      <4>. QED
        BY <2>3, <4>1, First
    <3>2. m \in 1..Len(children)
      BY <1>1, <3>1
    <3>. HIDE DEF m, same
    <3>3. c = SubSeq(children, m, Len(children))
      BY <2>1, <2>3
    <3>4. /\ c \in Seq(Ids) /\ Len(c) = Len(children) - m + 1
          /\ \A i \in 1..Len(c) : c[i] = children[m + i - 1]
      BY <1>1, <3>2, <3>3, SubSeqProperties
    <3>5. m - 1 \in Nat /\ \A i \in DOMAIN c : i + (m - 1) \in DOMAIN children
                                              /\ c[i] = children[i + (m - 1)]
      BY <1>1, <3>2, <3>4
    <3>. QED
      BY <1>5, <3>4, <3>5
  <2>. QED
    BY <2>2, <2>3
<1>. QED
  BY <1>2, <1>3, <1>4, <1>5 DEF Strategies

(* The first actor of a restart is replaced: those it concerns are stopped *)
(* first, or (again) the loop of a restart goes on.                        *)
Group(a) == IF strategy = "one_for_one" THEN {}
            ELSE {Concerned(a)[i] : i \in DOMAIN Concerned(a)}

RestartStep(a) ==
    /\ actors[a].task \in {"stopping", "backoff"}
    /\ Concerned(a) # <<>> /\ Concerned(a) \in Seq(Ids)
    /\ \E ss : Halted(ss, Group(a), a) /\ Renewed(ss, a, Concerned(a))
    /\ overlapped' = (overlapped \/ \E b \in Ids : actors[b].task = "renewing")

RenewalStep(a) ==
    /\ actors[a].task = "renewing"
    /\ actors[a].plan # <<>> /\ actors[a].plan \in Seq(Ids)
    /\ Renewed(actors, a, actors[a].plan)
    /\ overlapped' = overlapped

LEMMA RestartEffect ==
    ASSUME TypeOK, NEW a \in Ids, HandleChildExit(a),
           actors[a].task \in {"stopping", "backoff"}
    PROVE  SilentStep(a) \/ RestartStep(a)
<1>. DEFINE todo == Concerned(a)
            ss == Stopped(actors, Group(a), a)
<1>1. CASE todo = <<>>
  <2>1. Done(a)
    BY <1>1 DEF HandleChildExit
  <2>. QED
    BY <2>1, DoneStep
<1>2. CASE todo # <<>>
  <2>1. /\ Replace(a, ss, todo)
        /\ overlapped' = (overlapped \/ \E b \in Ids : actors[b].task = "renewing")
    BY <1>2 DEF HandleChildExit, Restarts, Group
  <2>2. todo \in Seq(Ids)
    BY ConcernedPart
  <2>3. Halted(ss, Group(a), a)
    BY StoppedHalts
  <2>. HIDE DEF todo, ss
  <2>4. Renewed(ss, a, todo)
    BY <1>2, <2>1, <2>2, <2>3, ReplaceEffect
  <2>. QED
    BY <1>2, <2>1, <2>2, <2>3, <2>4 DEF RestartStep, todo
<1>. QED
  BY <1>1, <1>2

LEMMA ActorsHalted ==
    ASSUME TypeOK, NEW a
    PROVE  Halted(actors, {}, a)
BY ActorsType DEF Halted

LEMMA RenewalEffect ==
    ASSUME TInv, NEW a \in Ids, Renews(a)
    PROVE  RenewalStep(a)
<1>. DEFINE todo == actors[a].plan
<1>1. TypeOK /\ Halted(actors, {}, a)
  BY ActorsHalted DEF TInv
<1>2. Replace(a, actors, todo) /\ actors[a].task = "renewing" /\ overlapped' = overlapped
  BY DEF Renews
<1>3. todo # <<>> /\ todo \in Seq(1..MaxActors) /\ \A i \in DOMAIN todo : todo[i] \in Ids
  BY <1>1, <1>2, ActorsType DEF TInv, TypeOK, PlansKnown
<1>. HIDE DEF todo
<1>4. todo \in Seq(Ids)
  <2>1. todo \in [1..Len(todo) -> Ids] /\ Len(todo) \in Nat
    BY <1>3
  <2>. QED
    BY <2>1, FunctionIsSeq
<1>5. Renewed(actors, a, todo)
  BY <1>1, <1>2, <1>3, <1>4, ReplaceEffect
<1>. QED
  BY <1>2, <1>3, <1>4, <1>5 DEF RenewalStep, todo

(* The first start of a child, and the end of the supervisor.              *)
StartStep(s) ==
    LET n == Len(actors) + 1
    IN  /\ sup = "starting" /\ s \in Specs
        /\ s = Cardinality({actors[a].spec : a \in Ids}) + 1
        /\ n \in 1..MaxActors /\ Ids' = 1..n
        /\ actors' \in Seq(Actor) /\ Len(actors') = n
        /\ \A b \in Ids : actors'[b] = actors[b]
        /\ actors'[n].spec = s /\ actors'[n].mail = <<>>
        /\ actors'[n].task = "new" /\ actors'[n].next = 0 /\ actors'[n].plan = <<>>
        /\ actors'[n].running = FALSE
        /\ children' = Append(children, n)
        /\ sup' \in {"up", "starting"}
        /\ UNCHANGED <<config, exits, sent, handled, overlapped>>

LEMMA StartEffect ==
    ASSUME TypeOK, Starts
    PROVE  \E s \in Specs : StartStep(s)
<1>. DEFINE n == Len(actors) + 1
<1>1. PICK s \in Specs :
          /\ s = Cardinality({actors[a].spec : a \in Ids}) + 1
          /\ Len(actors) < MaxActors
          /\ actors' = Append(actors, Child(s, <<>>))
          /\ children' = Append(children, Len(actors) + 1)
          /\ sup' = IF s = NumSpecs THEN "up" ELSE "starting"
  BY DEF Starts
<1>2. sup = "starting" /\ UNCHANGED <<config, exits, sent, handled, overlapped>>
  BY DEF Starts
<1>3. actors \in Seq(Actor) /\ Ids = 1..Len(actors) /\ Len(actors) \in Nat
  BY ActorsType
<1>4. n \in 1..MaxActors
  BY <1>1, <1>3, Bounds
<1>. DEFINE c == Child(s, <<>>)
<1>5. /\ c \in Actor /\ c.spec = s /\ c.task = "new" /\ c.next = 0
      /\ c.running = FALSE /\ c.plan = <<>> /\ c.mail = <<>>
  <2>. DEFINE m == <<>>
  <2>1. m \in Seq(1..MaxMsgs) /\ c = Child(s, m)
    OBVIOUS
  <2>2. m = <<>>
    OBVIOUS
  <2>. HIDE DEF m, c
  <2>. QED
    BY ZenonT(40), <2>1, <2>2, ChildType
<1>. HIDE DEF c
<1>6. /\ actors' \in Seq(Actor) /\ Len(actors') = n /\ actors'[n] = c
      /\ \A b \in Ids : actors'[b] = actors[b]
  BY <1>1, <1>3, <1>5, ActorsAppend DEF c
<1>7. Ids' = 1..n
  BY <1>6, ActorsElement DEF Ids
<1>8. StartStep(s)
  BY <1>1, <1>2, <1>4, <1>5, <1>6, <1>7 DEF StartStep
<1>. QED
  BY <1>8

StopsStep ==
    /\ Halted(actors', {children[i] : i \in DOMAIN children}, 0)
    /\ Ids' = Ids /\ children' = <<>> /\ sup' = "stopped"
    /\ UNCHANGED <<config, exits, sent, handled, overlapped>>

LEMMA StopsEffect ==
    ASSUME TypeOK, Stops
    PROVE  StopsStep
<1>. DEFINE S == {children[i] : i \in DOMAIN children}
<1>1. Halted(actors', S, 0)
  BY StoppedHalts DEF Stops
<1>2. Ids' = Ids
  <2>1. actors' \in Seq(Actor) /\ Len(actors') = Len(actors)
    BY <1>1 DEF Halted
  <2>. QED
    BY <2>1, ActorsElement, ActorsType DEF Ids
<1>. QED
  BY <1>1, <1>2 DEF Stops, StopsStep

-----------------------------------------------------------------------------
(* The kinds of steps                                                      *)

LEMMA StepKinds ==
    ASSUME TInv, Next
    PROVE  \/ \E a \in Ids : \/ SilentStep(a) \/ HandlesStep(a) \/ SendsStep(a)
                             \/ RestartStep(a) \/ RenewalStep(a)
           \/ \E s \in Specs : StartStep(s)
           \/ StopsStep
<1>. USE DEF TInv
<1>1. ASSUME NEW a \in Ids, Watches(a)
      PROVE  \/ SilentStep(a) \/ HandlesStep(a) \/ RestartStep(a) \/ RenewalStep(a)
  <2>1. CASE Begins(a)
    BY <2>1, BeginsStep
  <2>2. CASE CancelEnds(a)
    <3>1. Done(a) /\ actors[a].task # "running"
      BY <2>2 DEF CancelEnds
    <3>. QED
      BY <3>1, DoneStep
  <2>3. CASE CancelSwallowed(a)
    BY <2>3, SwallowStep
  <2>4. CASE PollFails(a)
    BY <2>4, PollFailsStep
  <2>5. CASE StopReturns(a)
    <3>1. actors[a].task = "stopping"
      BY <2>5 DEF StopReturns
    <3>2. \/ Sets([actors EXCEPT ![a].task = "backoff"])
          \/ HandleChildExit(a)
          \/ Done(a)
      BY <2>5 DEF StopReturns
    <3>3. CASE Sets([actors EXCEPT ![a].task = "backoff"])
      BY <3>1, <3>3, BackoffStep
    <3>4. CASE HandleChildExit(a)
      BY <3>1, <3>4, RestartEffect
    <3>5. CASE Done(a)
      BY <3>1, <3>5, DoneStep
    <3>. QED
      BY <3>2, <3>3, <3>4, <3>5
  <2>6. CASE BackoffEnds(a)
    <3>1. actors[a].task = "backoff" /\ HandleChildExit(a)
      BY <2>6 DEF BackoffEnds
    <3>. QED
      BY <3>1, RestartEffect
  <2>7. CASE Renews(a)
    BY <2>7, RenewalEffect
  <2>8. CASE Handles(a)
    BY <2>8, HandlesEffect
  <2>. QED
    BY <1>1, <2>1, <2>2, <2>3, <2>4, <2>5, <2>6, <2>7, <2>8 DEF Watches
<1>2. ASSUME NEW a \in Ids, NEW crash \in BOOLEAN, NEW closes \in BOOLEAN, Exits(a, crash, closes)
      PROVE  SilentStep(a)
  BY <1>2, ExitsStep
<1>3. ASSUME NEW a \in Ids, StopRaises(a)
      PROVE  SilentStep(a)
  BY <1>3, StopRaisesStep
<1>4. ASSUME NEW a \in Ids, StopChild(a)
      PROVE  SilentStep(a)
  BY <1>4, StopChildStep
<1>5. ASSUME NEW a \in Ids, Sends(a)
      PROVE  SendsStep(a)
  BY <1>5, SendsEffect
<1>6. CASE Starts
  BY <1>6, StartEffect
<1>7. CASE Stops
  BY <1>7, StopsEffect
<1>. QED
  BY <1>1, <1>2, <1>3, <1>4, <1>5, <1>6, <1>7 DEF Next

-----------------------------------------------------------------------------
(* Types, and plans                                                        *)

LEMMA InitTyped == ASSUME Init PROVE TInv
<1>. DEFINE R == [spec : Specs, running : BOOLEAN, closed : BOOLEAN, task : Tasks,
                  cancel : BOOLEAN, crashed : BOOLEAN, plan : Seq(1..MaxActors),
                  next : 0..MaxActors, mail : Seq(1..MaxMsgs)]
<1>1. actors = <<>> /\ children = <<>> /\ Ids = {} /\ sup = "starting"
  BY DEF Init, Ids
<1>2. <<strategy, restart>> \in Settings
  <2>1. PICK s \in Settings : strategy = s[1] /\ restart = s[2]
    BY DEF Init
  <2>2. s \in Strategies \X [Specs -> RestartTypes]
    BY <2>1, Bounds
  <2>. QED
    BY <2>1, <2>2
<1>3. exits \in 0..MaxExits /\ sent \in 0..MaxMsgs /\ handled \in [Specs -> Seq(1..MaxMsgs)]
  BY Bounds DEF Init
<1>6. overlapped \in BOOLEAN
  BY DEF Init
<1>4. actors \in Seq(R) /\ children \in Seq(Ids)
  <2>. HIDE DEF R
  <2>. QED
    BY <1>1
<1>5. TypeOK
  BY <1>1, <1>2, <1>3, <1>4, <1>6 DEF TypeOK, Tasks
<1>. QED
  BY <1>1, <1>5 DEF TInv, PlansKnown

(* What is left to show when the records are known to be of their type.    *)
LEMMA TypedAfter ==
    ASSUME TInv, actors' \in Seq(Actor), UNCHANGED config,
           sup' \in {"starting", "up", "stopped"},
           \A a \in Ids' : (actors'[a].plan # <<>>) = (actors'[a].task = "renewing"),
           \A a \in Ids' : \A i \in DOMAIN actors'[a].plan : actors'[a].plan[i] \in Ids',
           children' \in Seq(Ids'),
           exits' \in 0..MaxExits, sent' \in 0..MaxMsgs,
           handled' \in [Specs -> Seq(1..MaxMsgs)], overlapped' \in BOOLEAN
    PROVE  TInv'
<1>1. <<strategy', restart'>> \in Settings
  BY DEF TInv, TypeOK, config
<1>2. actors' \in Seq([spec : Specs, running : BOOLEAN, closed : BOOLEAN,
                       task : {"new", "running", "stopping", "backoff",
                               "renewing", "done"},
                       cancel : BOOLEAN, crashed : BOOLEAN,
                       plan : Seq(1..MaxActors), next : 0..MaxActors,
                       mail : Seq(1..MaxMsgs)])
  BY DEF Actor, Tasks
<1>. QED
  BY <1>1, <1>2 DEF TInv, TypeOK, PlansKnown

LEMMA LocalTyped ==
    ASSUME TInv, NEW a \in Ids, LocalStep(a),
           exits' \in 0..MaxExits, sent' \in 0..MaxMsgs,
           handled' \in [Specs -> Seq(1..MaxMsgs)]
    PROVE  TInv'
<1>1. /\ actors' \in Seq(Actor) /\ Ids' = Ids /\ UNCHANGED <<config, sup, children, overlapped>>
      /\ \A b \in Ids \ {a} : actors'[b] = actors[b]
      /\ \/ actors'[a].task = "renewing" /\ actors[a].task = "renewing"
            /\ actors'[a].plan = actors[a].plan
         \/ actors'[a].task # "renewing" /\ actors'[a].plan = <<>>
  BY DEF LocalStep
<1>2. /\ \A b \in Ids : (actors[b].plan # <<>>) = (actors[b].task = "renewing")
      /\ \A b \in Ids : \A i \in DOMAIN actors[b].plan : actors[b].plan[i] \in Ids
      /\ children \in Seq(Ids) /\ sup \in {"starting", "up", "stopped"}
      /\ overlapped \in BOOLEAN
  BY DEF TInv, TypeOK, PlansKnown
<1>3. ASSUME NEW b \in Ids
      PROVE  /\ (actors'[b].plan # <<>>) = (actors'[b].task = "renewing")
             /\ \A i \in DOMAIN actors'[b].plan : actors'[b].plan[i] \in Ids
  <2>1. CASE b # a
    BY <1>1, <1>2, <2>1
  <2>2. CASE b = a /\ actors'[a].task = "renewing" /\ actors'[a].plan = actors[a].plan
             /\ actors[a].task = "renewing"
    BY <1>2, <2>2
  <2>3. CASE b = a /\ actors'[a].task # "renewing" /\ actors'[a].plan = <<>>
    <3>1. DOMAIN actors'[a].plan = {}
      BY <2>3
    <3>. QED
      BY <2>3, <3>1
  <2>. QED
    BY <1>1, <2>1, <2>2, <2>3
<1>. QED
  BY <1>1, <1>2, <1>3, TypedAfter

(* An entry of _children is replaced, or one is added.                     *)
LEMMA EntryReplaced ==
    ASSUME NEW ch \in Seq(Ids), NEW p \in Ids, NEW n, NEW S, Ids \subseteq S, n \in S,
           \E i \in 1..Len(ch) : ch[i] = p
    PROVE  /\ Entered(ch, p, n) \in Seq(S) /\ Len(Entered(ch, p, n)) = Len(ch)
           /\ \A i \in 1..Len(ch) : /\ ch[i] = p => Entered(ch, p, n)[i] = n
                                    /\ ch[i] # p => Entered(ch, p, n)[i] = ch[i]
<1>1. DOMAIN ch = 1..Len(ch) /\ Len(ch) \in Nat /\ \A i \in 1..Len(ch) : ch[i] \in Ids
  OBVIOUS
<1>. DEFINE f == [i \in 1..Len(ch) |-> IF ch[i] = p THEN n ELSE ch[i]]
<1>2. Entered(ch, p, n) = f
  BY <1>1 DEF Entered
<1>3. f \in [1..Len(ch) -> S] /\ \A i \in 1..Len(ch) : f[i] = IF ch[i] = p THEN n ELSE ch[i]
  BY <1>1
<1>. HIDE DEF f
<1>4. f \in Seq(S) /\ Len(f) = Len(ch)
  BY <1>1, <1>3, FunctionIsSeq
<1>. QED
  BY <1>2, <1>3, <1>4

LEMMA EntryAdded ==
    ASSUME NEW ch \in Seq(Ids), NEW p \in Ids, NEW n, NEW S, Ids \subseteq S, n \in S,
           \A i \in 1..Len(ch) : ch[i] # p
    PROVE  /\ Entered(ch, p, n) \in Seq(S) /\ Len(Entered(ch, p, n)) = Len(ch) + 1
           /\ Entered(ch, p, n)[Len(ch) + 1] = n
           /\ \A i \in 1..Len(ch) : Entered(ch, p, n)[i] = ch[i]
<1>1. DOMAIN ch = 1..Len(ch) /\ Len(ch) \in Nat /\ \A i \in 1..Len(ch) : ch[i] \in Ids
  OBVIOUS
<1>2. Entered(ch, p, n) = Append(ch, n)
  BY <1>1 DEF Entered
<1>3. ch \in Seq(S)
  <2>1. ch \in [1..Len(ch) -> S]
    BY <1>1
  <2>. QED
    BY <1>1, <2>1, FunctionIsSeq
<1>4. /\ Append(ch, n) \in Seq(S) /\ Len(Append(ch, n)) = Len(ch) + 1
      /\ Append(ch, n)[Len(ch) + 1] = n
      /\ \A i \in 1..Len(ch) : Append(ch, n)[i] = ch[i]
  BY <1>3, AppendProperties
<1>. QED
  BY <1>2, <1>4

(* The rest of a plan.                                                     *)
LEMMA RestOfPlan ==
    ASSUME NEW todo \in Seq(Ids), todo # <<>>
    PROVE  /\ Head(todo) = todo[1] /\ 1 \in DOMAIN todo
           /\ Tail(todo) \in Seq(Ids)
           /\ (Tail(todo) = <<>>) = (Len(todo) = 1)
           /\ \A i \in DOMAIN Tail(todo) : i + 1 \in DOMAIN todo /\ Tail(todo)[i] = todo[i + 1]
<1>1. /\ Tail(todo) \in Seq(Ids) /\ Len(Tail(todo)) = Len(todo) - 1
      /\ \A i \in 1..Len(Tail(todo)) : Tail(todo)[i] = todo[i + 1]
  BY HeadTailProperties
<1>2. Len(todo) \in Nat /\ Len(todo) > 0 /\ DOMAIN todo = 1..Len(todo) /\ Head(todo) = todo[1]
  OBVIOUS
<1>3. DOMAIN Tail(todo) = 1..Len(Tail(todo)) /\ (Tail(todo) = <<>>) = (Len(Tail(todo)) = 0)
  <2>. DEFINE rest == Tail(todo)
  <2>1. rest \in Seq(Ids)
    BY <1>1
  <2>. HIDE DEF rest
  <2>2. DOMAIN rest = 1..Len(rest) /\ (rest = <<>>) = (Len(rest) = 0)
    BY <2>1, EmptySeq
  <2>. QED
    BY <2>2 DEF rest
<1>. QED
  BY <1>1, <1>2, <1>3

LEMMA RenewedTyped ==
    ASSUME TInv, NEW S, NEW self, NEW ss, Halted(ss, S, self),
           NEW a \in Ids, NEW todo \in Seq(Ids), todo # <<>>, Renewed(ss, a, todo),
           overlapped' \in BOOLEAN
    PROVE  TInv'
<1>. DEFINE n == Len(actors) + 1
            p == Head(todo)
            rest == Tail(todo)
<1>1. /\ n \in 1..MaxActors /\ p \in Ids /\ Ids' = 1..n
      /\ actors' \in Seq(Actor) /\ Len(actors') = n
      /\ actors'[n].task = "new" /\ actors'[n].plan = <<>>
      /\ \A b \in Ids \ {a} :
            actors'[b].task = actors[b].task /\ actors'[b].plan = actors[b].plan
      /\ actors'[a].task = (IF Len(todo) = 1 THEN "done" ELSE "renewing")
      /\ actors'[a].plan = rest
      /\ children' = Entered(children, p, n)
      /\ UNCHANGED <<config, sup, exits, sent, handled>>
  BY DEF Renewed
<1>2. /\ \A b \in Ids : (actors[b].plan # <<>>) = (actors[b].task = "renewing")
      /\ \A b \in Ids : \A i \in DOMAIN actors[b].plan : actors[b].plan[i] \in Ids
      /\ children \in Seq(Ids) /\ sup \in {"starting", "up", "stopped"}
      /\ exits \in 0..MaxExits /\ sent \in 0..MaxMsgs
      /\ handled \in [Specs -> Seq(1..MaxMsgs)]
      /\ Ids = 1..Len(actors) /\ Len(actors) \in Nat
  BY ActorsType DEF TInv, TypeOK, PlansKnown
<1>3. /\ rest \in Seq(Ids) /\ (rest = <<>>) = (Len(todo) = 1)
      /\ \A i \in DOMAIN rest : rest[i] \in Ids
  BY RestOfPlan
<1>4. Ids \subseteq Ids' /\ n \in Ids'
  BY <1>1, <1>2
<1>5. ASSUME NEW b \in Ids'
      PROVE  /\ (actors'[b].plan # <<>>) = (actors'[b].task = "renewing")
             /\ \A i \in DOMAIN actors'[b].plan : actors'[b].plan[i] \in Ids'
  <2>. HIDE DEF rest, p
  <2>1. CASE b = n
    <3>1. DOMAIN actors'[n].plan = {}
      BY <1>1
    <3>. QED
      BY <1>1, <2>1, <3>1
  <2>2. CASE b \in Ids /\ b # a
    <3>1. actors'[b].task = actors[b].task /\ actors'[b].plan = actors[b].plan
      BY <1>1, <2>2
    <3>. QED
      BY <1>2, <1>4, <2>2, <3>1
  <2>3. CASE b = a
    BY <1>1, <1>3, <1>4, <2>3
  <2>4. b = n \/ b \in Ids
    <3>1. b \in 1..n /\ Ids = 1..Len(actors) /\ Len(actors) \in Nat
      BY <1>1, <1>2
    <3>. QED
      BY <3>1
  <2>. QED
    BY <2>1, <2>2, <2>3, <2>4
<1>6. children' \in Seq(Ids')
  <2>. HIDE DEF n, p
  <2>. QED
    <3>1. /\ Ids \subseteq Ids' /\ n \in Ids' /\ p \in Ids /\ children \in Seq(Ids)
          /\ children' = Entered(children, p, n)
      BY <1>1, <1>2, <1>4
    <3>2. CASE \E i \in 1..Len(children) : children[i] = p
      BY <3>1, <3>2, EntryReplaced
    <3>3. CASE \A i \in 1..Len(children) : children[i] # p
      BY <3>1, <3>3, EntryAdded
    <3>. QED
      BY <3>2, <3>3
<1>. HIDE DEF n, p, rest
<1>. QED
  BY <1>1, <1>2, <1>5, <1>6, TypedAfter

LEMMA StartTyped ==
    ASSUME TInv, NEW s \in Specs, StartStep(s)
    PROVE  TInv'
<1>. DEFINE n == Len(actors) + 1
<1>1. /\ Ids' = 1..n /\ actors' \in Seq(Actor) /\ \A b \in Ids : actors'[b] = actors[b]
      /\ actors'[n].task = "new" /\ actors'[n].plan = <<>>
      /\ children' = Append(children, n) /\ sup' \in {"up", "starting"}
      /\ UNCHANGED <<config, exits, sent, handled, overlapped>>
  BY DEF StartStep
<1>2. /\ \A b \in Ids : (actors[b].plan # <<>>) = (actors[b].task = "renewing")
      /\ \A b \in Ids : \A i \in DOMAIN actors[b].plan : actors[b].plan[i] \in Ids
      /\ children \in Seq(Ids)
      /\ exits \in 0..MaxExits /\ sent \in 0..MaxMsgs
      /\ handled \in [Specs -> Seq(1..MaxMsgs)] /\ overlapped \in BOOLEAN
      /\ Ids = 1..Len(actors) /\ Len(actors) \in Nat
  BY ActorsType DEF TInv, TypeOK, PlansKnown
<1>3. Ids \subseteq Ids' /\ n \in Ids'
  BY <1>1, <1>2
<1>4. ASSUME NEW b \in Ids'
      PROVE  /\ (actors'[b].plan # <<>>) = (actors'[b].task = "renewing")
             /\ \A i \in DOMAIN actors'[b].plan : actors'[b].plan[i] \in Ids'
  <2>1. CASE b = n
    <3>1. DOMAIN actors'[n].plan = {}
      BY <1>1
    <3>. QED
      BY <1>1, <2>1, <3>1
  <2>2. CASE b \in Ids
    BY <1>1, <1>2, <1>3, <2>2
  <2>. QED
    BY <1>1, <1>2, <2>1, <2>2
<1>5. children' \in Seq(Ids')
  <2>. HIDE DEF n
  <2>1. children \in Seq(Ids')
    BY <1>2, <1>3, SeqMonotonic
  <2>. QED
    BY <1>1, <1>3, <2>1, AppendProperties
<1>. HIDE DEF n
<1>. QED
  BY <1>1, <1>2, <1>4, <1>5, TypedAfter

LEMMA StopsTyped ==
    ASSUME TInv, StopsStep
    PROVE  TInv'
<1>1. /\ actors' \in Seq(Actor) /\ Ids' = Ids /\ children' = <<>> /\ sup' = "stopped"
      /\ \A b \in Ids : actors'[b].task = actors[b].task /\ actors'[b].plan = actors[b].plan
      /\ UNCHANGED <<config, exits, sent, handled, overlapped>>
  BY DEF StopsStep, Halted
<1>2. /\ \A b \in Ids : (actors[b].plan # <<>>) = (actors[b].task = "renewing")
      /\ \A b \in Ids : \A i \in DOMAIN actors[b].plan : actors[b].plan[i] \in Ids
      /\ exits \in 0..MaxExits /\ sent \in 0..MaxMsgs
      /\ handled \in [Specs -> Seq(1..MaxMsgs)] /\ overlapped \in BOOLEAN
  BY DEF TInv, TypeOK, PlansKnown
<1>3. children' \in Seq(Ids')
  BY <1>1
<1>4. /\ \A b \in Ids' : (actors'[b].plan # <<>>) = (actors'[b].task = "renewing")
      /\ \A b \in Ids' : \A i \in DOMAIN actors'[b].plan : actors'[b].plan[i] \in Ids'
  BY <1>1, <1>2
<1>. QED
  BY <1>1, <1>2, <1>3, <1>4, TypedAfter

LEMMA StepTyped == ASSUME TInv, [Next]_vars PROVE TInv'
<1>. USE DEF TInv
<1>1. ASSUME NEW a \in Ids, SilentStep(a) PROVE TInv'
  <2>1. /\ LocalStep(a) /\ exits' \in 0..MaxExits /\ sent' \in 0..MaxMsgs
        /\ handled' \in [Specs -> Seq(1..MaxMsgs)]
    BY <1>1 DEF SilentStep, TypeOK
  <2>. QED
    BY <2>1, LocalTyped
<1>2. ASSUME NEW a \in Ids, HandlesStep(a) PROVE TInv'
  <2>. DEFINE m == actors[a].mail
              s == actors[a].spec
  <2>1. /\ LocalStep(a) /\ UNCHANGED <<exits, sent>> /\ m # <<>>
        /\ handled' = [handled EXCEPT ![s] = Append(handled[s], Head(m))]
    BY <1>2 DEF HandlesStep
  <2>2. /\ s \in Specs /\ m \in Seq(1..MaxMsgs) /\ exits \in 0..MaxExits /\ sent \in 0..MaxMsgs
        /\ handled \in [Specs -> Seq(1..MaxMsgs)]
    BY ActorsType DEF TypeOK
  <2>. HIDE DEF m, s
  <2>3. Head(m) \in 1..MaxMsgs
    BY <2>1, <2>2, HeadTailProperties
  <2>4. handled' \in [Specs -> Seq(1..MaxMsgs)]
    BY <2>1, <2>2, <2>3
  <2>. QED
    BY <2>1, <2>2, <2>4, LocalTyped
<1>3. ASSUME NEW a \in Ids, SendsStep(a) PROVE TInv'
  <2>1. /\ LocalStep(a) /\ exits' \in 0..MaxExits /\ sent' \in 0..MaxMsgs
        /\ handled' \in [Specs -> Seq(1..MaxMsgs)]
    BY <1>3 DEF SendsStep, TypeOK
  <2>. QED
    BY <2>1, LocalTyped
<1>4. ASSUME NEW a \in Ids, RestartStep(a) PROVE TInv'
  <2>1. PICK ss : Halted(ss, Group(a), a) /\ Renewed(ss, a, Concerned(a))
    BY <1>4 DEF RestartStep
  <2>2. Concerned(a) # <<>> /\ Concerned(a) \in Seq(Ids)
    BY <1>4 DEF RestartStep
  <2>0. overlapped' \in BOOLEAN
    BY <1>4 DEF RestartStep, TypeOK
  <2>. DEFINE todo == Concerned(a)
              S == Group(a)
  <2>3. /\ Halted(ss, S, a) /\ Renewed(ss, a, todo)
        /\ todo # <<>> /\ todo \in Seq(Ids)
    BY <2>1, <2>2
  <2>. HIDE DEF todo, S
  <2>. QED
    BY <2>0, <2>3, RenewedTyped
<1>5. ASSUME NEW a \in Ids, RenewalStep(a) PROVE TInv'
  <2>1. Halted(actors, {}, a)
    BY ActorsHalted
  <2>2. /\ actors[a].plan # <<>> /\ actors[a].plan \in Seq(Ids)
        /\ Renewed(actors, a, actors[a].plan) /\ overlapped' \in BOOLEAN
    BY <1>5 DEF RenewalStep, TypeOK
  <2>. DEFINE todo == actors[a].plan
  <2>3. todo # <<>> /\ todo \in Seq(Ids) /\ Renewed(actors, a, todo)
    BY <2>2
  <2>. HIDE DEF todo
  <2>. QED
    BY <2>1, <2>2, <2>3, RenewedTyped
<1>6. CASE Next
  BY <1>1, <1>2, <1>3, <1>4, <1>5, <1>6, StepKinds, StartTyped, StopsTyped
<1>7. CASE UNCHANGED vars
  BY <1>7 DEF vars, TypeOK, PlansKnown, Ids
<1>. QED
  BY <1>6, <1>7

(* The attributes of the supervisor and of its children keep their shape,  *)
(* and a task has actors left to replace exactly while it is in the loop   *)
(* of _restart_all or _restart_rest.                                       *)
THEOREM TypeCorrect == Spec => []TypeOK
<1>1. Init => TInv
  BY InitTyped
<1>2. TInv /\ [Next]_vars => TInv'
  BY StepTyped
<1>3. TInv => TypeOK
  BY DEF TInv
<1>. QED
  BY <1>1, <1>2, <1>3, PTL DEF Spec

-----------------------------------------------------------------------------
(* One actor at work for each spec                                         *)

(* Who has been replaced is out of work; under ONE_FOR_ONE its task is the *)
(* one that replaced it and is over.                                       *)
ReplacedRetired ==
    \A a \in Ids : actors[a].next # 0 =>
        Retired(a) /\ (strategy = "one_for_one" => actors[a].task = "done")

LoopRuns == \A a \in Ids : RunsInLoop(a)

(* Whom a restart loop has yet to replace is out of work, although others  *)
(* may replace it first.                                                   *)
PlansRetired ==
    \A a \in Ids : actors[a].task = "renewing" =>
        /\ strategy # "one_for_one"
        /\ \A i \in DOMAIN actors[a].plan : Retired(actors[a].plan[i])

(* _children lists newest actors, each once.                               *)
ChildrenNewest ==
    \A i \in DOMAIN children :
        /\ actors[children[i]].next = 0
        /\ \A j \in DOMAIN children : children[i] = children[j] => i = j

(* No newest actor is missing in _children, nor any spec.                  *)
Manages ==
    sup # "stopped" =>
        \A a \in Ids :
            /\ actors[a].next = 0 => \E i \in DOMAIN children : children[i] = a
            /\ \E i \in DOMAIN children : actors[children[i]].spec = actors[a].spec

(* The specs started so far are the first ones.                            *)
SpecsStarted == \E m \in Nat : {actors[a].spec : a \in Ids} = 1..m

RestartInv ==
    /\ ReplacedRetired /\ LoopRuns /\ PlansRetired /\ ChildrenNewest /\ Manages
    /\ SpecsStarted
    /\ strategy = "one_for_one" => ~overlapped

(* What else holds as long as no two restarts overlap: a spec has one      *)
(* newest actor; there is one restart loop at most, and those it has yet   *)
(* to replace are newest, each listed once.                                *)
Unique ==
    \A a, b \in Ids :
        actors[a].spec = actors[b].spec /\ actors[a].next = 0 /\ actors[b].next = 0 => a = b

OneRestart ==
    \A a \in Ids : actors[a].task = "renewing" =>
        /\ \A b \in Ids : actors[b].task = "renewing" => b = a
        /\ \A i \in DOMAIN actors[a].plan :
              /\ actors[actors[a].plan[i]].next = 0
              /\ \A j \in DOMAIN actors[a].plan :
                    actors[a].plan[i] = actors[a].plan[j] => i = j

CalmInv == Unique /\ OneRestart

RInv == TInv /\ RestartInv /\ (~overlapped => CalmInv)

LEMMA InitRestart == ASSUME Init PROVE RestartInv /\ CalmInv
<1>1. Ids = {} /\ DOMAIN children = {} /\ overlapped = FALSE
  BY DEF Init, Ids
<1>2. {actors[a].spec : a \in Ids} = 1..0
  BY <1>1
<1>3. SpecsStarted
  BY <1>2 DEF SpecsStarted
<1>. QED
  BY <1>1, <1>3 DEF RestartInv, ReplacedRetired, LoopRuns, PlansRetired, ChildrenNewest,
     Manages, CalmInv, Unique, OneRestart

(* What a step of one actor keeps.                                         *)
LEMMA LocalFrame ==
    ASSUME TInv, NEW a \in Ids, LocalStep(a)
    PROVE  /\ Ids' = Ids /\ strategy' = strategy /\ sup' = sup /\ children' = children
           /\ overlapped' = overlapped
           /\ \A b \in Ids : actors'[b].spec = actors[b].spec /\ actors'[b].next = actors[b].next
           /\ \A b \in Ids : Retired(b) => Retired(b)'
           /\ \A b \in Ids : RunsInLoop(b) => RunsInLoop(b)'
           /\ \A b \in Ids : actors'[b].task = "renewing" =>
                 actors[b].task = "renewing" /\ actors'[b].plan = actors[b].plan
           /\ \A b \in Ids : actors[b].task = "done" => actors'[b].task = "done"
           /\ \A b \in Ids : \A i \in DOMAIN actors[b].plan : actors[b].plan[i] \in Ids
           /\ \A i \in DOMAIN children : children[i] \in Ids
<1>1. /\ Ids' = Ids /\ UNCHANGED <<config, sup, children, overlapped>>
      /\ \A b \in Ids \ {a} : actors'[b] = actors[b]
      /\ actors'[a].spec = actors[a].spec /\ actors'[a].next = actors[a].next
      /\ Retired(a) => Retired(a)'
      /\ RunsInLoop(a) => RunsInLoop(a)'
      /\ \/ actors'[a].task = "renewing" /\ actors[a].task = "renewing"
            /\ actors'[a].plan = actors[a].plan
         \/ actors'[a].task # "renewing" /\ actors'[a].plan = <<>>
      /\ actors[a].task = "done" => actors'[a].task = "done"
  BY DEF LocalStep
<1>2. \A b \in Ids : Retired(b) => Retired(b)'
  BY <1>1 DEF Retired
<1>3. \A b \in Ids : RunsInLoop(b) => RunsInLoop(b)'
  BY <1>1 DEF RunsInLoop
<1>4. /\ \A b \in Ids : \A i \in DOMAIN actors[b].plan : actors[b].plan[i] \in Ids
      /\ \A i \in DOMAIN children : children[i] \in Ids
  <2>1. children \in Seq(Ids)
    BY DEF TInv, TypeOK
  <2>. QED
    BY <2>1 DEF TInv, PlansKnown
<1>. QED
  BY <1>1, <1>2, <1>3, <1>4 DEF config

LEMMA LocalRestart ==
    ASSUME TInv, RestartInv, NEW a \in Ids, LocalStep(a)
    PROVE  RestartInv'
<1>1. ReplacedRetired'
  BY LocalFrame DEF RestartInv, ReplacedRetired
<1>2. LoopRuns'
  BY LocalFrame DEF RestartInv, LoopRuns
<1>3. PlansRetired'
  <2>. SUFFICES ASSUME NEW b \in Ids, actors'[b].task = "renewing"
                PROVE  /\ strategy # "one_for_one"
                       /\ \A i \in DOMAIN actors[b].plan : Retired(actors[b].plan[i])'
    BY LocalFrame DEF PlansRetired, Retired
  <2>1. actors[b].task = "renewing"
    BY LocalFrame
  <2>. QED
    BY <2>1, LocalFrame DEF RestartInv, PlansRetired, Retired
<1>4. ChildrenNewest'
  BY LocalFrame DEF RestartInv, ChildrenNewest
<1>5. Manages'
  BY LocalFrame DEF RestartInv, Manages
<1>6. SpecsStarted'
  <2>1. {actors'[b].spec : b \in Ids'} = {actors[b].spec : b \in Ids}
    BY LocalFrame
  <2>. QED
    BY <2>1 DEF RestartInv, SpecsStarted
<1>7. (strategy = "one_for_one" => ~overlapped)'
  BY LocalFrame DEF RestartInv
<1>. QED
  BY <1>1, <1>2, <1>3, <1>4, <1>5, <1>6, <1>7 DEF RestartInv

LEMMA LocalCalm ==
    ASSUME TInv, CalmInv, NEW a \in Ids, LocalStep(a)
    PROVE  CalmInv'
<1>1. Unique'
  BY LocalFrame DEF CalmInv, Unique
<1>2. OneRestart'
  <2>. SUFFICES ASSUME NEW b \in Ids, actors'[b].task = "renewing"
                PROVE  /\ \A c \in Ids : actors'[c].task = "renewing" => c = b
                       /\ \A i \in DOMAIN actors[b].plan :
                             /\ actors'[actors[b].plan[i]].next = 0
                             /\ \A j \in DOMAIN actors[b].plan :
                                   actors[b].plan[i] = actors[b].plan[j] => i = j
    BY LocalFrame DEF OneRestart
  <2>1. actors[b].task = "renewing"
    BY LocalFrame
  <2>. QED
    BY <2>1, LocalFrame DEF CalmInv, OneRestart
<1>. QED
  BY <1>1, <1>2 DEF CalmInv

(* Who is out of work when an actor is replaced.                           *)
LEMMA RenewedRetires ==
    ASSUME TInv, LoopRuns, NEW S, NEW ss, NEW a \in Ids, Halted(ss, S, a),
           NEW todo \in Seq(Ids), todo # <<>>, Renewed(ss, a, todo),
           actors[a].task # "running"
    PROVE  /\ Retired(a)'
           /\ \A b \in Ids : Retired(b) \/ b \in S => Retired(b)'
           /\ LoopRuns'
<1>. DEFINE n == Len(actors) + 1
<1>1. /\ \A b \in Ids : /\ actors'[b].running = ss[b].running
                        /\ actors'[b].cancel = ss[b].cancel
      /\ \A b \in Ids \ {a} : actors'[b].task = actors[b].task
      /\ actors'[a].task \in {"done", "renewing"}
      /\ actors'[n].running = FALSE /\ Ids' = 1..n
  BY DEF Renewed
<1>2. /\ \A b \in Ids \ S : ss[b] = actors[b]
      /\ \A b \in S \cap Ids : ss[b].running = FALSE
      /\ \A b \in S \cap Ids : ss[b].cancel = (IF b = a THEN actors[b].cancel
                                               ELSE actors[b].task # "done")
  BY DEF Halted
<1>3. \A b \in Ids : actors[b].running => actors[b].task = "running" /\ ~actors[b].cancel
  BY DEF LoopRuns, RunsInLoop
<1>4. /\ Ids = 1..Len(actors) /\ Len(actors) \in Nat
      /\ \A b \in Ids : actors[b].running \in BOOLEAN /\ actors[b].cancel \in BOOLEAN
  BY ActorsType DEF TInv
<1>5. ASSUME NEW b \in Ids
      PROVE  /\ actors'[b].running => actors[b].running /\ b \notin S /\ b # a
             /\ b \in S /\ b # a /\ actors[b].task = "new" => actors'[b].cancel
             /\ b \notin S => actors'[b].cancel = actors[b].cancel
  <2>1. CASE b \in S
    <3>1. ss[b].running = FALSE
      BY <1>2, <2>1
    <3>2. b # a /\ actors[b].task = "new" => ss[b].cancel = TRUE
      BY <1>2, <2>1
    <3>. QED
      BY <1>1, <2>1, <3>1, <3>2
  <2>2. CASE b \notin S
    <3>1. ss[b] = actors[b]
      BY <1>2, <2>2
    <3>2. actors'[b].running = actors[b].running /\ actors'[b].cancel = actors[b].cancel
      BY <1>1, <3>1
    <3>. QED
      BY <1>3, <2>2, <3>2
  <2>. QED
    BY <2>1, <2>2
<1>6. Retired(a)'
  BY <1>1, <1>5 DEF Retired
<1>7. \A b \in Ids : Retired(b) \/ b \in S => Retired(b)'
  BY <1>1, <1>5, <1>6 DEF Retired
<1>8. LoopRuns'
  <2>. SUFFICES ASSUME NEW b \in Ids', actors'[b].running
                PROVE  actors'[b].task = "running" /\ ~actors'[b].cancel
    BY DEF LoopRuns, RunsInLoop
  <2>1. b \in Ids
    BY <1>1, <1>4
  <2>. QED
    BY <1>1, <1>3, <1>5, <2>1
<1>. QED
  BY <1>6, <1>7, <1>8

(* What a step does in which the task of a replaces p, the first of todo,  *)
(* by n, and has the rest yet to replace.                                  *)
FirstReplaced(a, todo, n, p, rest) ==
    /\ n \in Nat /\ n # 0 /\ p \in Ids /\ n \notin Ids /\ Ids' = Ids \cup {n}
    /\ children \in Seq(Ids)
    /\ actors'[n].spec = actors[p].spec /\ actors'[n].next = 0
    /\ actors'[n].task = "new" /\ actors'[n].running = FALSE
    /\ \A b \in Ids : /\ actors'[b].spec = actors[b].spec
                      /\ actors'[b].next = (IF b = p THEN n ELSE actors[b].next)
    /\ \A b \in Ids \ {a} :
          actors'[b].task = actors[b].task /\ actors'[b].plan = actors[b].plan
    /\ actors'[a].task = (IF Len(todo) = 1 THEN "done" ELSE "renewing")
    /\ actors'[a].plan = rest
    /\ children' = Entered(children, p, n)
    /\ strategy' = strategy /\ sup' = sup
    /\ p = todo[1] /\ 1 \in DOMAIN todo /\ (rest = <<>>) = (Len(todo) = 1)
    /\ \A i \in DOMAIN rest : i + 1 \in DOMAIN todo /\ rest[i] = todo[i + 1]
                             /\ i \in Nat \ {0}
    /\ \A i \in DOMAIN todo : todo[i] \in Ids

LEMMA RenewedFrame ==
    ASSUME TInv, NEW ss, NEW a \in Ids,
           NEW todo \in Seq(Ids), todo # <<>>, Renewed(ss, a, todo),
           NEW n, n = Len(actors) + 1, NEW p, p = Head(todo), NEW rest, rest = Tail(todo)
    PROVE  FirstReplaced(a, todo, n, p, rest)
<1>1. /\ n # 0 /\ p \in Ids /\ Ids' = 1..n
      /\ actors'[n].spec = actors[p].spec /\ actors'[n].next = 0
      /\ actors'[n].task = "new" /\ actors'[n].running = FALSE
      /\ \A b \in Ids : /\ actors'[b].spec = actors[b].spec
                        /\ actors'[b].next = (IF b = p THEN n ELSE actors[b].next)
      /\ \A b \in Ids \ {a} :
            actors'[b].task = actors[b].task /\ actors'[b].plan = actors[b].plan
      /\ actors'[a].task = (IF Len(todo) = 1 THEN "done" ELSE "renewing")
      /\ actors'[a].plan = rest
      /\ children' = Entered(children, p, n)
      /\ strategy' = strategy /\ sup' = sup
  BY DEF Renewed, config
<1>2. n \in Nat /\ n \notin Ids /\ Ids' = Ids \cup {n} /\ children \in Seq(Ids)
  <2>1. Ids = 1..Len(actors) /\ Len(actors) \in Nat
    BY ActorsType DEF TInv
  <2>2. children \in Seq(Ids)
    BY DEF TInv, TypeOK
  <2>3. /\ 1..Len(actors) \subseteq 1..n /\ n \in 1..n /\ n \notin 1..Len(actors)
        /\ \A i \in 1..n : i \in 1..Len(actors) \/ i = n
    BY <2>1, OneMore
  <2>4. n \in Nat
    BY <2>1
  <2>. QED
    BY <1>1, <2>1, <2>2, <2>3, <2>4
<1>3. /\ p = todo[1] /\ 1 \in DOMAIN todo /\ (rest = <<>>) = (Len(todo) = 1)
      /\ \A i \in DOMAIN rest : i + 1 \in DOMAIN todo /\ rest[i] = todo[i + 1] /\ i \in Nat \ {0}
      /\ \A i \in DOMAIN todo : todo[i] \in Ids
  <2>1. rest \in Seq(Ids)
    BY RestOfPlan
  <2>2. \A i \in DOMAIN rest : i \in Nat \ {0}
    BY <2>1
  <2>. QED
    BY <2>2, RestOfPlan
<1>. QED
  BY <1>1, <1>2, <1>3 DEF FirstReplaced

(* What such a step does to _children: the entry of p becomes one of n, or *)
(* n gets an entry of its own.                                             *)
LEMMA RenewedChildren ==
    ASSUME NEW n, NEW p \in Ids, Ids' = Ids \cup {n}, children \in Seq(Ids),
           children' = Entered(children, p, n)
    PROVE  \/ /\ \E i \in DOMAIN children : children[i] = p
              /\ DOMAIN children' = DOMAIN children
              /\ \A i \in DOMAIN children :
                    children'[i] = IF children[i] = p THEN n ELSE children[i]
           \/ /\ \A i \in DOMAIN children : children[i] # p
              /\ \E e : /\ e \notin DOMAIN children
                        /\ DOMAIN children' = DOMAIN children \cup {e}
                        /\ children'[e] = n
                        /\ \A i \in DOMAIN children : children'[i] = children[i]
<1>. DEFINE l == Len(children)
<1>1. l \in Nat /\ DOMAIN children = 1..l
  OBVIOUS
<1>2. CASE \E i \in 1..l : children[i] = p
  <2>1. children' = [i \in DOMAIN children |-> IF children[i] = p THEN n ELSE children[i]]
    BY <1>1, <1>2 DEF Entered
  <2>. QED
    BY <1>1, <1>2, <2>1
<1>3. CASE \A i \in 1..l : children[i] # p
  <2>. DEFINE T == Ids'
              e == l + 1
  <2>1. Ids \subseteq T /\ n \in T
    OBVIOUS
  <2>. HIDE DEF T
  <2>2. children \in Seq(T) /\ children' = Append(children, n)
    BY <1>1, <1>3, <2>1, SeqMonotonic DEF Entered
  <2>3. /\ DOMAIN children' = 1..e /\ children'[e] = n
        /\ \A i \in 1..l : children'[i] = children[i]
    BY <2>1, <2>2, AppendProperties
  <2>. HIDE DEF l
  <2>4. 1..e = 1..l \cup {e} /\ e \notin 1..l
    BY <1>1
  <2>5. /\ \A i \in DOMAIN children : children[i] # p
        /\ e \notin DOMAIN children
        /\ DOMAIN children' = DOMAIN children \cup {e}
        /\ children'[e] = n
        /\ \A i \in DOMAIN children : children'[i] = children[i]
    BY <1>1, <1>3, <2>3, <2>4
  <2>. QED
    BY <2>5
<1>. QED
  BY <1>1, <1>2, <1>3

LEMMA RenewedRestart ==
    ASSUME TInv, RestartInv, NEW S, NEW ss, NEW a \in Ids, Halted(ss, S, a),
           NEW todo \in Seq(Ids), todo # <<>>, Renewed(ss, a, todo),
           actors[a].task # "running",
           strategy = "one_for_one" => todo = <<a>> /\ ~overlapped',
           \A i \in DOMAIN todo : todo[i] = a \/ todo[i] \in S \/ Retired(todo[i])
    PROVE  RestartInv'
<1>. DEFINE n == Len(actors) + 1
            p == Head(todo)
            rest == Tail(todo)
<1>0. FirstReplaced(a, todo, n, p, rest)
  <2>1. n = Len(actors) + 1 /\ p = Head(todo) /\ rest = Tail(todo)
    OBVIOUS
  <2>. HIDE DEF n, p, rest
  <2>. QED
    BY <2>1, RenewedFrame
<1>. HIDE DEF n, p, rest
<1>1. /\ n \in Nat /\ n # 0 /\ p \in Ids /\ n \notin Ids /\ Ids' = Ids \cup {n}
      /\ children \in Seq(Ids)
      /\ actors'[n].spec = actors[p].spec /\ actors'[n].next = 0
      /\ actors'[n].task = "new" /\ actors'[n].running = FALSE
      /\ \A b \in Ids : /\ actors'[b].spec = actors[b].spec
                        /\ actors'[b].next = (IF b = p THEN n ELSE actors[b].next)
      /\ \A b \in Ids \ {a} :
            actors'[b].task = actors[b].task /\ actors'[b].plan = actors[b].plan
      /\ actors'[a].task = (IF Len(todo) = 1 THEN "done" ELSE "renewing")
      /\ actors'[a].plan = rest
      /\ children' = Entered(children, p, n)
      /\ strategy' = strategy /\ sup' = sup
  BY <1>0 DEF FirstReplaced
<1>2. /\ p = todo[1] /\ 1 \in DOMAIN todo
      /\ \A i \in DOMAIN rest : i + 1 \in DOMAIN todo /\ rest[i] = todo[i + 1] /\ i \in Nat \ {0}
      /\ \A i \in DOMAIN todo : todo[i] \in Ids
  BY <1>0 DEF FirstReplaced
<1>3. /\ Retired(a)'
      /\ \A b \in Ids : Retired(b) \/ b \in S => Retired(b)'
      /\ LoopRuns'
  BY RenewedRetires DEF RestartInv
<1>. DEFINE Out(q) == ~actors'[q].running /\ (actors'[q].task = "new" => actors'[q].cancel)
<1>4. \A i \in DOMAIN todo : todo[i] \in Ids /\ Out(todo[i])
  <2>. SUFFICES ASSUME NEW i \in DOMAIN todo
                PROVE  Out(todo[i])
    BY <1>2
  <2>. DEFINE q == todo[i]
  <2>1. q \in Ids /\ (q = a \/ q \in S \/ Retired(q))
    BY <1>2
  <2>. HIDE DEF q
  <2>2. Out(q)
    BY <1>3, <2>1 DEF Retired
  <2>. QED
    BY <2>2 DEF q
<1>5. Out(p)
  BY <1>2, <1>4
<1>7. ReplacedRetired'
  <2>. SUFFICES ASSUME NEW b \in Ids', actors'[b].next # 0
                PROVE  Retired(b)' /\ (strategy = "one_for_one" => actors'[b].task = "done")
    BY <1>1 DEF ReplacedRetired, Retired
  <2>1. b \in Ids
    BY <1>1
  <2>2. CASE b = p
    <3>1. strategy = "one_for_one" => p = a /\ Len(todo) = 1
      BY DEF p
    <3>. QED
      BY <1>1, <1>5, <2>2, <3>1 DEF Retired
  <2>3. CASE b # p
    <3>1. actors[b].next # 0
      BY <1>1, <2>1, <2>3
    <3>2. Retired(b) /\ (strategy = "one_for_one" => actors[b].task = "done")
      BY <2>1, <3>1 DEF RestartInv, ReplacedRetired
    <3>3. strategy = "one_for_one" => Len(todo) = 1
      OBVIOUS
    <3>4. strategy = "one_for_one" => actors'[b].task = "done"
      BY <1>1, <2>1, <3>2, <3>3
    <3>. QED
      BY <1>3, <2>1, <3>2, <3>4
  <2>. QED
    BY <2>2, <2>3
<1>8. PlansRetired'
  <2>. SUFFICES ASSUME NEW b \in Ids', actors'[b].task = "renewing"
                PROVE  /\ strategy # "one_for_one"
                       /\ \A i \in DOMAIN actors'[b].plan : Out(actors'[b].plan[i])
    BY <1>1 DEF PlansRetired, Retired
  <2>1. CASE b = n
    BY <1>1, <2>1
  <2>2. CASE b \in Ids \ {a}
    <3>1. /\ strategy # "one_for_one" /\ actors'[b].plan = actors[b].plan
          /\ \A i \in DOMAIN actors[b].plan : actors[b].plan[i] \in Ids /\ Retired(actors[b].plan[i])
      BY <1>1, <2>2 DEF RestartInv, PlansRetired, TInv, PlansKnown
    <3>2. ASSUME NEW i \in DOMAIN actors[b].plan PROVE Out(actors[b].plan[i])
      <4>. DEFINE q == actors[b].plan[i]
      <4>1. q \in Ids /\ Retired(q)
        BY <3>1
      <4>. HIDE DEF q
      <4>2. Out(q)
        BY <1>3, <4>1 DEF Retired
      <4>. QED
        BY <4>2 DEF q
    <3>. QED
      BY <3>1, <3>2
  <2>3. CASE b = a
    <3>1. Len(todo) # 1 /\ actors'[b].plan = rest
      BY <1>1, <2>3
    <3>2. strategy # "one_for_one"
      BY <3>1
    <3>. QED
      BY <1>2, <1>4, <3>1, <3>2
  <2>. QED
    BY <1>1, <2>1, <2>2, <2>3
<1>9. \/ /\ \E i \in DOMAIN children : children[i] = p
         /\ DOMAIN children' = DOMAIN children
         /\ \A i \in DOMAIN children :
               children'[i] = IF children[i] = p THEN n ELSE children[i]
      \/ /\ \A i \in DOMAIN children : children[i] # p
         /\ \E e : /\ e \notin DOMAIN children
                   /\ DOMAIN children' = DOMAIN children \cup {e}
                   /\ children'[e] = n
                   /\ \A i \in DOMAIN children : children'[i] = children[i]
  BY <1>1, RenewedChildren
<1>10. \A i \in DOMAIN children : children[i] \in Ids /\ children[i] # n
  BY <1>1
<1>11. \A i \in DOMAIN children : /\ actors[children[i]].next = 0
                                  /\ \A j \in DOMAIN children : children[i] = children[j] => i = j
  BY DEF RestartInv, ChildrenNewest
<1>12. ChildrenNewest'
  <2>. SUFFICES ASSUME NEW i \in DOMAIN children'
                PROVE  /\ actors'[children'[i]].next = 0
                       /\ \A j \in DOMAIN children' : children'[i] = children'[j] => i = j
    BY DEF ChildrenNewest
  <2>1. \A k \in DOMAIN children : children[k] # p => actors'[children[k]].next = 0
    BY <1>1, <1>10, <1>11
  <2>2. CASE \E k \in DOMAIN children : children[k] = p
    <3>1. /\ DOMAIN children' = DOMAIN children
          /\ \A k \in DOMAIN children : children'[k] = IF children[k] = p THEN n ELSE children[k]
      BY <1>9, <2>2
    <3>2. actors'[children'[i]].next = 0
      BY <1>1, <2>1, <3>1
    <3>3. ASSUME NEW j \in DOMAIN children', children'[i] = children'[j]
          PROVE  children[i] = children[j]
      <4>1. /\ i \in DOMAIN children /\ j \in DOMAIN children
            /\ children'[i] = IF children[i] = p THEN n ELSE children[i]
            /\ children'[j] = IF children[j] = p THEN n ELSE children[j]
            /\ children[i] # n /\ children[j] # n
        BY <1>10, <3>1
      <4>. QED
        BY <3>3, <4>1
    <3>. QED
      BY <1>11, <3>1, <3>2, <3>3
  <2>3. CASE \A k \in DOMAIN children : children[k] # p
    <3>1. PICK e : /\ e \notin DOMAIN children
                   /\ DOMAIN children' = DOMAIN children \cup {e}
                   /\ children'[e] = n
                   /\ \A k \in DOMAIN children : children'[k] = children[k]
      BY <1>9, <2>3
    <3>2. actors'[children'[i]].next = 0
      <4>1. CASE i = e
        BY <1>1, <3>1, <4>1
      <4>2. CASE i \in DOMAIN children
        BY <2>1, <2>3, <3>1, <4>2
      <4>. QED
        BY <3>1, <4>1, <4>2
    <3>3. ASSUME NEW j \in DOMAIN children', children'[i] = children'[j]
          PROVE  i = j
      BY <1>10, <1>11, <3>1, <3>3
    <3>. QED
      BY <3>2, <3>3
  <2>. QED
    BY <2>2, <2>3
<1>13. ASSUME NEW c \in Ids, c # p, \E i \in DOMAIN children : children[i] = c
       PROVE  \E i \in DOMAIN children' : children'[i] = c
  BY <1>9, <1>13
<1>14. \E i \in DOMAIN children' : children'[i] = n
  BY <1>9
<1>15. Manages'
  <2>. SUFFICES ASSUME sup # "stopped", NEW b \in Ids'
                PROVE  /\ actors'[b].next = 0 => \E i \in DOMAIN children' : children'[i] = b
                       /\ \E i \in DOMAIN children' : actors'[children'[i]].spec = actors'[b].spec
    BY <1>1 DEF Manages
  <2>1. \A d \in Ids :
            /\ actors[d].next = 0 => \E i \in DOMAIN children : children[i] = d
            /\ \E i \in DOMAIN children : actors[children[i]].spec = actors[d].spec
    BY DEF RestartInv, Manages
  <2>2. actors'[b].next = 0 => \E i \in DOMAIN children' : children'[i] = b
    BY ZenonT(40), <1>1, <1>13, <1>14, <2>1
  <2>3. PICK d \in Ids : actors[d].spec = actors'[b].spec
    BY <1>1
  <2>4. PICK i \in DOMAIN children : actors[children[i]].spec = actors[d].spec
    BY <2>1
  <2>5. PICK c \in Ids : c = children[i] /\ actors[c].spec = actors'[b].spec
    BY <1>10, <2>3, <2>4
  <2>6. CASE c = p
    <3>1. PICK j \in DOMAIN children' : children'[j] = n
      BY <1>14
    <3>2. actors'[children'[j]].spec = actors'[b].spec
      BY <1>1, <2>5, <2>6, <3>1
    <3>. QED
      BY <2>2, <3>2
  <2>7. CASE c # p
    <3>1. PICK j \in DOMAIN children' : children'[j] = c
      BY <1>13, <2>5, <2>7
    <3>. QED
      BY <1>1, <2>2, <2>5, <3>1
  <2>. QED
    BY <2>2, <2>6, <2>7
<1>16. SpecsStarted'
  <2>1. {actors'[b].spec : b \in Ids'} = {actors[b].spec : b \in Ids}
    BY <1>1
  <2>. QED
    BY <2>1 DEF RestartInv, SpecsStarted
<1>17. (strategy = "one_for_one" => ~overlapped)'
  BY <1>1
<1>. QED
  BY <1>3, <1>7, <1>8, <1>12, <1>15, <1>16, <1>17 DEF RestartInv

LEMMA RenewedCalm ==
    ASSUME TInv, CalmInv, NEW ss, NEW a \in Ids,
           NEW todo \in Seq(Ids), todo # <<>>, Renewed(ss, a, todo),
           \A b \in Ids : actors[b].task = "renewing" => b = a,
           \A i \in DOMAIN todo :
              /\ actors[todo[i]].next = 0
              /\ \A j \in DOMAIN todo : todo[i] = todo[j] => i = j
    PROVE  CalmInv'
<1>. DEFINE n == Len(actors) + 1
            p == Head(todo)
            rest == Tail(todo)
<1>0. FirstReplaced(a, todo, n, p, rest)
  <2>1. n = Len(actors) + 1 /\ p = Head(todo) /\ rest = Tail(todo)
    OBVIOUS
  <2>. HIDE DEF n, p, rest
  <2>. QED
    BY <2>1, RenewedFrame
<1>. HIDE DEF n, p, rest
<1>1. /\ n \in Nat /\ n # 0 /\ p \in Ids /\ n \notin Ids /\ Ids' = Ids \cup {n}
      /\ children \in Seq(Ids)
      /\ actors'[n].spec = actors[p].spec /\ actors'[n].next = 0
      /\ actors'[n].task = "new" /\ actors'[n].running = FALSE
      /\ \A b \in Ids : /\ actors'[b].spec = actors[b].spec
                        /\ actors'[b].next = (IF b = p THEN n ELSE actors[b].next)
      /\ \A b \in Ids \ {a} :
            actors'[b].task = actors[b].task /\ actors'[b].plan = actors[b].plan
      /\ actors'[a].task = (IF Len(todo) = 1 THEN "done" ELSE "renewing")
      /\ actors'[a].plan = rest
      /\ children' = Entered(children, p, n)
      /\ strategy' = strategy /\ sup' = sup
  BY <1>0 DEF FirstReplaced
<1>2. /\ p = todo[1] /\ 1 \in DOMAIN todo
      /\ \A i \in DOMAIN rest : i + 1 \in DOMAIN todo /\ rest[i] = todo[i + 1] /\ i \in Nat \ {0}
      /\ \A i \in DOMAIN todo : todo[i] \in Ids
  BY <1>0 DEF FirstReplaced
<1>5. actors[p].next = 0
  BY <1>2
<1>6. Unique'
  <2>. SUFFICES ASSUME NEW b \in Ids', NEW c \in Ids', actors'[b].spec = actors'[c].spec,
                       actors'[b].next = 0, actors'[c].next = 0
                PROVE  b = c
    BY DEF Unique
  <2>1. \A d \in Ids : actors'[d].next = 0 => d # p /\ actors[d].next = 0
    BY <1>1
  <2>2. \A d \in Ids : actors[d].next = 0 /\ actors[d].spec = actors[p].spec => d = p
    BY <1>1, <1>5 DEF CalmInv, Unique
  <2>3. CASE b \in Ids /\ c \in Ids
    BY <1>1, <2>1, <2>3 DEF CalmInv, Unique
  <2>4. CASE b = n /\ c \in Ids
    BY <1>1, <2>1, <2>2, <2>4
  <2>5. CASE b \in Ids /\ c = n
    BY <1>1, <2>1, <2>2, <2>5
  <2>. QED
    BY <1>1, <2>3, <2>4, <2>5
<1>8. OneRestart'
  <2>. SUFFICES ASSUME NEW b \in Ids', actors'[b].task = "renewing"
                PROVE  /\ \A c \in Ids' : actors'[c].task = "renewing" => c = b
                       /\ \A i \in DOMAIN actors'[b].plan :
                             /\ actors'[actors'[b].plan[i]].next = 0
                             /\ \A j \in DOMAIN actors'[b].plan :
                                   actors'[b].plan[i] = actors'[b].plan[j] => i = j
    BY <1>1 DEF OneRestart
  <2>1. \A c \in Ids' : actors'[c].task = "renewing" => c = a
    BY <1>1
  <2>2. b = a
    BY <2>1
  <2>4. ASSUME NEW i \in DOMAIN rest
        PROVE  /\ actors'[rest[i]].next = 0
               /\ \A j \in DOMAIN rest : rest[i] = rest[j] => i = j
    <3>1. i + 1 \in DOMAIN todo /\ rest[i] = todo[i + 1] /\ i \in Nat \ {0} /\ i + 1 # 1
      BY <1>2
    <3>2. rest[i] \in Ids /\ rest[i] # p /\ actors[rest[i]].next = 0
      BY <1>2, <3>1
    <3>3. actors'[rest[i]].next = 0
      BY <1>1, <3>2
    <3>4. ASSUME NEW j \in DOMAIN rest, rest[i] = rest[j] PROVE i = j
      <4>1. j + 1 \in DOMAIN todo /\ rest[j] = todo[j + 1] /\ j \in Nat
        BY <1>2
      <4>2. i + 1 = j + 1
        BY <3>1, <3>4, <4>1
      <4>. QED
        BY <3>1, <4>1, <4>2
    <3>. QED
      BY <3>3, <3>4
  <2>. QED
    BY <1>1, <2>1, <2>2, <2>4
<1>. QED
  BY <1>6, <1>8 DEF CalmInv

LEMMA UpTo == ASSUME NEW k \in Nat PROVE Cardinality(1..k) = k
BY FS_Interval

(* A first start adds an actor of a spec that has none yet.                *)
LEMMA StartFrame ==
    ASSUME TInv, RestartInv, NEW s \in Specs, StartStep(s),
           NEW n, n = Len(actors) + 1
    PROVE  /\ n # 0 /\ n \notin Ids /\ Ids' = Ids \cup {n} /\ children \in Seq(Ids)
           /\ strategy' = strategy /\ sup = "starting" /\ overlapped' = overlapped
           /\ \A b \in Ids : actors'[b] = actors[b]
           /\ actors'[n].spec = s /\ actors'[n].task = "new" /\ actors'[n].next = 0
           /\ actors'[n].running = FALSE
           /\ \A b \in Ids : actors[b].spec # s
           /\ \A b \in Ids : \A i \in DOMAIN actors[b].plan : actors[b].plan[i] \in Ids
           /\ children' = Append(children, n)
           /\ SpecsStarted'
<1>1. /\ n # 0 /\ Ids' = 1..n /\ sup = "starting" /\ strategy' = strategy
      /\ overlapped' = overlapped
      /\ \A b \in Ids : actors'[b] = actors[b]
      /\ actors'[n].spec = s /\ actors'[n].task = "new" /\ actors'[n].next = 0
      /\ actors'[n].running = FALSE
      /\ children' = Append(children, n)
      /\ s = Cardinality({actors[b].spec : b \in Ids}) + 1
  BY DEF StartStep, config
<1>2. /\ n \notin Ids /\ Ids' = Ids \cup {n} /\ children \in Seq(Ids)
      /\ \A b \in Ids : \A i \in DOMAIN actors[b].plan : actors[b].plan[i] \in Ids
  <2>1. Ids = 1..Len(actors) /\ Len(actors) \in Nat /\ children \in Seq(Ids)
        /\ \A b \in Ids : \A i \in DOMAIN actors[b].plan : actors[b].plan[i] \in Ids
    BY ActorsType DEF TInv, TypeOK, PlansKnown
  <2>2. /\ 1..Len(actors) \subseteq 1..n /\ n \in 1..n /\ n \notin 1..Len(actors)
        /\ \A i \in 1..n : i \in 1..Len(actors) \/ i = n
    BY <2>1, OneMore
  <2>. QED
    BY <1>1, <2>1, <2>2
<1>3. PICK m \in Nat : {actors[b].spec : b \in Ids} = 1..m
  BY DEF RestartInv, SpecsStarted
<1>4. s = m + 1
  <2>1. Cardinality(1..m) = m
    BY UpTo
  <2>. QED
    BY <1>1, <1>3, <2>1
<1>5. \A b \in Ids : actors[b].spec # s
  <2>1. \A b \in Ids : actors[b].spec \in 1..m
    BY <1>3
  <2>. QED
    BY <1>4, <2>1
<1>6. {actors'[b].spec : b \in Ids'} = 1..(m + 1)
  <2>1. {actors'[b].spec : b \in Ids'} = {actors[b].spec : b \in Ids} \cup {s}
    BY <1>1, <1>2
  <2>2. 1..(m + 1) = 1..m \cup {m + 1}
    OBVIOUS
  <2>. QED
    BY <1>3, <1>4, <2>1, <2>2
<1>7. SpecsStarted'
  BY <1>6 DEF SpecsStarted
<1>. QED
  BY <1>1, <1>2, <1>5, <1>7

LEMMA StartRestart ==
    ASSUME TInv, RestartInv, NEW s \in Specs, StartStep(s)
    PROVE  RestartInv' /\ (CalmInv => CalmInv')
<1>. DEFINE n == Len(actors) + 1
<1>1. /\ n # 0 /\ n \notin Ids /\ Ids' = Ids \cup {n} /\ children \in Seq(Ids)
      /\ strategy' = strategy /\ sup = "starting" /\ overlapped' = overlapped
      /\ \A b \in Ids : actors'[b] = actors[b]
      /\ actors'[n].spec = s /\ actors'[n].task = "new" /\ actors'[n].next = 0
      /\ actors'[n].running = FALSE
      /\ \A b \in Ids : actors[b].spec # s
      /\ \A b \in Ids : \A i \in DOMAIN actors[b].plan : actors[b].plan[i] \in Ids
      /\ children' = Append(children, n)
      /\ SpecsStarted'
  BY StartFrame
<1>. HIDE DEF n
<1>. DEFINE l == Len(children)
            k == l + 1
<1>2. /\ l \in Nat /\ DOMAIN children = 1..l /\ \A i \in 1..l : children[i] \in Ids
      /\ DOMAIN children' = 1..k /\ children'[k] = n
      /\ \A i \in 1..l : children'[i] = children[i]
  <2>1. children \in Seq(Ids') /\ n \in Ids'
    BY <1>1, SeqMonotonic
  <2>. QED
    BY <1>1, <2>1, AppendProperties
<1>3. /\ 1..l \subseteq 1..k /\ k \in 1..k /\ k \notin 1..l
      /\ \A i \in 1..k : i \in 1..l \/ i = k
  BY <1>2
<1>. HIDE DEF l, k
<1>4. ReplacedRetired'
  BY <1>1 DEF RestartInv, ReplacedRetired, Retired
<1>5. LoopRuns'
  BY <1>1 DEF RestartInv, LoopRuns, RunsInLoop
<1>6. PlansRetired'
  <2>. DEFINE Out(q) == ~actors'[q].running /\ (actors'[q].task = "new" => actors'[q].cancel)
  <2>. SUFFICES ASSUME NEW b \in Ids', actors'[b].task = "renewing"
                PROVE  /\ strategy # "one_for_one"
                       /\ \A i \in DOMAIN actors'[b].plan : Out(actors'[b].plan[i])
    BY <1>1 DEF PlansRetired, Retired
  <2>1. b \in Ids /\ actors'[b] = actors[b]
    BY <1>1
  <2>2. /\ strategy # "one_for_one"
        /\ \A i \in DOMAIN actors[b].plan : Retired(actors[b].plan[i]) /\ actors[b].plan[i] \in Ids
    BY <1>1, <2>1 DEF RestartInv, PlansRetired
  <2>3. \A q \in Ids : Retired(q) => Out(q)
    BY <1>1 DEF Retired
  <2>. HIDE DEF Out
  <2>. QED
    BY <2>1, <2>2, <2>3
<1>7. ChildrenNewest'
  BY <1>1, <1>2, <1>3 DEF RestartInv, ChildrenNewest
<1>8. Manages'
  <2>1. \A b \in Ids : /\ actors[b].next = 0 => \E i \in 1..l : children[i] = b
                       /\ \E i \in 1..l : actors[children[i]].spec = actors[b].spec
    BY <1>1, <1>2 DEF RestartInv, Manages
  <2>2. ASSUME NEW b \in Ids'
        PROVE  /\ actors'[b].next = 0 => \E i \in 1..k : children'[i] = b
               /\ \E i \in 1..k : actors'[children'[i]].spec = actors'[b].spec
    <3>1. CASE b = n
      BY <1>2, <1>3, <3>1
    <3>2. CASE b \in Ids
      <4>1. PICK i \in 1..l : actors[children[i]].spec = actors[b].spec
        BY <2>1, <3>2
      <4>2. i \in 1..k /\ children'[i] = children[i] /\ children[i] \in Ids
        BY <1>2, <1>3
      <4>3. actors'[children'[i]].spec = actors'[b].spec
        BY <1>1, <3>2, <4>1, <4>2
      <4>4. ASSUME actors'[b].next = 0 PROVE \E j \in 1..k : children'[j] = b
        <5>1. PICK j \in 1..l : children[j] = b
          BY <1>1, <2>1, <3>2, <4>4
        <5>. QED
          BY <1>2, <1>3, <5>1
      <4>. QED
        BY <4>2, <4>3, <4>4
    <3>. QED
      BY <1>1, <3>1, <3>2
  <2>. QED
    BY <1>2, <2>2 DEF Manages
<1>9. (strategy = "one_for_one" => ~overlapped)'
  BY <1>1 DEF RestartInv
<1>10. ASSUME CalmInv PROVE Unique'
  BY <1>1, <1>10 DEF CalmInv, Unique
<1>11. ASSUME CalmInv PROVE OneRestart'
  <2>. SUFFICES ASSUME NEW b \in Ids', actors'[b].task = "renewing"
                PROVE  /\ \A c \in Ids' : actors'[c].task = "renewing" => c = b
                       /\ \A i \in DOMAIN actors'[b].plan :
                             /\ actors'[actors'[b].plan[i]].next = 0
                             /\ \A j \in DOMAIN actors'[b].plan :
                                   actors'[b].plan[i] = actors'[b].plan[j] => i = j
    BY <1>1 DEF OneRestart
  <2>1. b \in Ids /\ actors'[b] = actors[b]
    BY <1>1
  <2>. QED
    BY <1>1, <1>11, <2>1 DEF CalmInv, OneRestart
<1>. QED
  BY <1>1, <1>4, <1>5, <1>6, <1>7, <1>8, <1>9, <1>10, <1>11 DEF RestartInv, CalmInv

LEMMA StopsRestart ==
    ASSUME TInv, RestartInv, StopsStep
    PROVE  RestartInv' /\ (CalmInv => CalmInv')
<1>. DEFINE S == {children[i] : i \in DOMAIN children}
<1>1. /\ Ids' = Ids /\ children' = <<>> /\ sup' = "stopped"
      /\ strategy' = strategy /\ overlapped' = overlapped
      /\ Halted(actors', S, 0)
  BY DEF StopsStep, config
<1>2. /\ \A b \in Ids :
            /\ actors'[b].spec = actors[b].spec /\ actors'[b].task = actors[b].task
            /\ actors'[b].plan = actors[b].plan /\ actors'[b].next = actors[b].next
      /\ \A b \in Ids \ S : actors'[b] = actors[b]
      /\ \A b \in S \cap Ids : actors'[b].running = FALSE
      /\ \A b \in S \cap Ids : b # 0 => actors'[b].cancel = (actors[b].task # "done")
  BY <1>1 DEF Halted
<1>3. \A b \in Ids : b # 0
  <2>1. Ids = 1..Len(actors)
    BY ActorsType DEF TInv
  <2>. QED
    BY <2>1
<1>. HIDE DEF S
<1>4. ASSUME NEW b \in Ids
      PROVE  /\ Retired(b) => Retired(b)'
             /\ RunsInLoop(b) => RunsInLoop(b)'
  <2>1. CASE b \in S
    BY <1>2, <1>3, <2>1 DEF Retired, RunsInLoop
  <2>2. CASE b \notin S
    <3>1. actors'[b] = actors[b]
      BY <1>2, <2>2
    <3>. QED
      BY <3>1 DEF Retired, RunsInLoop
  <2>. QED
    BY <2>1, <2>2
<1>5. \A b \in Ids : \A i \in DOMAIN actors[b].plan : actors[b].plan[i] \in Ids
  BY DEF TInv, PlansKnown
<1>6. ReplacedRetired'
  BY <1>1, <1>2, <1>4 DEF RestartInv, ReplacedRetired
<1>7. LoopRuns'
  BY <1>1, <1>4 DEF RestartInv, LoopRuns
<1>8. PlansRetired'
  <2>. SUFFICES ASSUME NEW b \in Ids, actors[b].task = "renewing"
                PROVE  /\ strategy # "one_for_one"
                       /\ \A i \in DOMAIN actors[b].plan : Retired(actors[b].plan[i])'
    BY <1>1, <1>2 DEF PlansRetired, Retired
  <2>1. ASSUME NEW i \in DOMAIN actors[b].plan
        PROVE  Retired(actors[b].plan[i])'
    <3>1. PICK q \in Ids : q = actors[b].plan[i]
      BY <1>5
    <3>2. Retired(q)'
      BY <1>4, <3>1 DEF RestartInv, PlansRetired
    <3>. QED
      BY <1>2, <3>1, <3>2 DEF Retired
  <2>. QED
    BY <2>1 DEF RestartInv, PlansRetired
<1>9. ChildrenNewest' /\ Manages'
  BY <1>1 DEF ChildrenNewest, Manages
<1>10. SpecsStarted'
  <2>1. {actors'[b].spec : b \in Ids'} = {actors[b].spec : b \in Ids}
    BY <1>1, <1>2
  <2>. QED
    BY <2>1 DEF RestartInv, SpecsStarted
<1>11. (strategy = "one_for_one" => ~overlapped)'
  BY <1>1 DEF RestartInv
<1>12. ASSUME CalmInv PROVE Unique'
  BY <1>1, <1>2, <1>12 DEF CalmInv, Unique
<1>13. ASSUME CalmInv PROVE OneRestart'
  <2>. SUFFICES ASSUME NEW b \in Ids, actors[b].task = "renewing"
                PROVE  /\ \A c \in Ids : actors[c].task = "renewing" => c = b
                       /\ \A i \in DOMAIN actors[b].plan :
                             /\ actors'[actors[b].plan[i]].next = 0
                             /\ \A j \in DOMAIN actors[b].plan :
                                   actors[b].plan[i] = actors[b].plan[j] => i = j
    BY <1>1, <1>2 DEF OneRestart
  <2>. QED
    BY <1>2, <1>5, <1>13 DEF CalmInv, OneRestart
<1>. QED
  BY <1>6, <1>7, <1>8, <1>9, <1>10, <1>11, <1>12, <1>13 DEF RestartInv, CalmInv

(* Whom a restart replaces: under ONE_FOR_ONE the actor whose task it is,  *)
(* else children that the restart has just stopped.                        *)
LEMMA RestartKept ==
    ASSUME TInv, RestartInv, NEW a \in Ids, RestartStep(a)
    PROVE  RestartInv' /\ (~overlapped' /\ CalmInv => CalmInv')
<1>. DEFINE todo == Concerned(a)
            S == Group(a)
<1>1. PICK ss : Halted(ss, S, a) /\ Renewed(ss, a, todo)
  BY DEF RestartStep
<1>2. /\ todo # <<>> /\ todo \in Seq(Ids) /\ actors[a].task \in {"stopping", "backoff"}
      /\ overlapped' = (overlapped \/ \E b \in Ids : actors[b].task = "renewing")
  BY DEF RestartStep
<1>3. /\ strategy = "one_for_one" => todo = <<a>>
      /\ strategy # "one_for_one" =>
           \E m \in Nat : \A i \in DOMAIN todo :
               i + m \in DOMAIN children /\ todo[i] = children[i + m]
  BY ConcernedPart DEF TInv
<1>4. strategy # "one_for_one" => S = {todo[i] : i \in DOMAIN todo}
  BY DEF Group
<1>. HIDE DEF todo, S
<1>5. strategy = "one_for_one" => ~overlapped'
  BY <1>2 DEF RestartInv, PlansRetired
<1>6. ASSUME NEW i \in DOMAIN todo
      PROVE  /\ actors[todo[i]].next = 0
             /\ todo[i] = a \/ todo[i] \in S \/ Retired(todo[i])
             /\ \A j \in DOMAIN todo : todo[i] = todo[j] => i = j
  <2>1. CASE strategy = "one_for_one"
    <3>1. DOMAIN todo = {1} /\ todo[1] = a
      BY <1>3, <2>1
    <3>2. actors[a].next = 0
      BY <1>2, <2>1 DEF RestartInv, ReplacedRetired
    <3>. QED
      BY <3>1, <3>2
  <2>2. CASE strategy # "one_for_one"
    <3>1. PICK m \in Nat : \A j \in DOMAIN todo :
              j + m \in DOMAIN children /\ todo[j] = children[j + m]
      BY <1>3, <2>2
    <3>2. \A k \in DOMAIN children :
              /\ actors[children[k]].next = 0
              /\ \A l \in DOMAIN children : children[k] = children[l] => k = l
      BY DEF RestartInv, ChildrenNewest
    <3>3. actors[todo[i]].next = 0 /\ todo[i] \in S
      BY <1>4, <2>2, <3>1, <3>2
    <3>4. ASSUME NEW j \in DOMAIN todo, todo[i] = todo[j]
          PROVE  i = j
      <4>1. i + m = j + m
        BY <3>1, <3>2, <3>4
      <4>2. i \in Nat /\ j \in Nat
        BY <1>2
      <4>. QED
        BY <4>1, <4>2
    <3>. QED
      BY <3>3, <3>4
  <2>. QED
    BY <2>1, <2>2
<1>7. actors[a].task # "running"
  BY <1>2
<1>8. RestartInv'
  BY <1>1, <1>2, <1>3, <1>5, <1>6, <1>7, RenewedRestart
<1>9. ASSUME ~overlapped', CalmInv
      PROVE  CalmInv'
  <2>1. \A b \in Ids : actors[b].task = "renewing" => b = a
    BY <1>2, <1>9
  <2>. QED
    BY <1>1, <1>2, <1>6, <1>9, <2>1, RenewedCalm
<1>. QED
  BY <1>8, <1>9

LEMMA RenewalKept ==
    ASSUME TInv, RestartInv, NEW a \in Ids, RenewalStep(a)
    PROVE  RestartInv' /\ (CalmInv => CalmInv')
<1>. DEFINE todo == actors[a].plan
<1>1. /\ actors[a].task = "renewing" /\ todo # <<>> /\ todo \in Seq(Ids)
      /\ Renewed(actors, a, todo)
  BY DEF RenewalStep
<1>2. Halted(actors, {}, a)
  BY ActorsHalted DEF TInv
<1>3. /\ strategy # "one_for_one"
      /\ \A i \in DOMAIN todo : todo[i] = a \/ todo[i] \in {} \/ Retired(todo[i])
  BY <1>1 DEF RestartInv, PlansRetired
<1>4. CalmInv => /\ \A b \in Ids : actors[b].task = "renewing" => b = a
                 /\ \A i \in DOMAIN todo :
                       /\ actors[todo[i]].next = 0
                       /\ \A j \in DOMAIN todo : todo[i] = todo[j] => i = j
  BY <1>1 DEF CalmInv, OneRestart
<1>. HIDE DEF todo
<1>5. RestartInv'
  BY <1>1, <1>2, <1>3, RenewedRestart
<1>6. CalmInv => CalmInv'
  BY <1>1, <1>4, RenewedCalm
<1>. QED
  BY <1>5, <1>6

LEMMA StepRestart == ASSUME RInv, [Next]_vars PROVE RInv'
<1>1. TInv'
  BY StepTyped DEF RInv
<1>2. TInv /\ RestartInv
  BY DEF RInv
<1>3. CASE Next
  <2>1. ASSUME NEW a \in Ids, LocalStep(a)
        PROVE  RestartInv' /\ overlapped' = overlapped /\ (CalmInv => CalmInv')
    BY <1>2, <2>1, LocalRestart, LocalCalm, LocalFrame
  <2>2. \A a \in Ids : SilentStep(a) \/ HandlesStep(a) \/ SendsStep(a) => LocalStep(a)
    BY DEF SilentStep, HandlesStep, SendsStep
  <2>3. ASSUME NEW a \in Ids, RestartStep(a)
        PROVE  RestartInv' /\ (~overlapped' => ~overlapped) /\ (~overlapped' /\ CalmInv => CalmInv')
    <3>1. overlapped => overlapped'
      BY <2>3 DEF RestartStep
    <3>. QED
      BY <1>2, <2>3, <3>1, RestartKept
  <2>4. ASSUME NEW a \in Ids, RenewalStep(a)
        PROVE  RestartInv' /\ overlapped' = overlapped /\ (CalmInv => CalmInv')
    <3>1. overlapped' = overlapped
      BY <2>4 DEF RenewalStep
    <3>. QED
      BY <1>2, <2>4, <3>1, RenewalKept
  <2>5. ASSUME NEW s \in Specs, StartStep(s)
        PROVE  RestartInv' /\ overlapped' = overlapped /\ (CalmInv => CalmInv')
    <3>1. overlapped' = overlapped
      BY <2>5 DEF StartStep
    <3>. QED
      BY <1>2, <2>5, <3>1, StartRestart
  <2>6. CASE StopsStep
    <3>1. overlapped' = overlapped
      BY <2>6 DEF StopsStep
    <3>. QED
      BY <1>1, <1>2, <2>6, <3>1, StopsRestart DEF RInv
  <2>. QED
    BY <1>1, <1>2, <1>3, <2>1, <2>2, <2>3, <2>4, <2>5, <2>6, StepKinds DEF RInv
<1>4. CASE UNCHANGED vars
  BY <1>1, <1>4 DEF RInv, vars, RestartInv, CalmInv, Unique, ReplacedRetired, LoopRuns,
     PlansRetired, OneRestart, ChildrenNewest, Manages, SpecsStarted, Retired, RunsInLoop, Ids
<1>. QED
  BY <1>3, <1>4

(* RInv holds in every reachable state.                                    *)
THEOREM RestartInvariance == Spec => []RInv
<1>1. Init => RInv
  BY InitTyped, InitRestart DEF RInv
<1>2. RInv /\ [Next]_vars => RInv'
  BY StepRestart
<1>. QED
  BY <1>1, <1>2, PTL DEF Spec

(* An actor that was replaced, whose refs lead on to another, does not     *)
(* run, however the restarts of siblings overlap with its own and with     *)
(* crashes, stops and the end of the supervisor; and as long as no restart *)
(* began while the loop of another was under way, a spec has one newest    *)
(* actor, so one at most runs for it.                                      *)
THEOREM OneAtWork == Spec => []OneRunning
<1>1. ASSUME RInv PROVE OneRunning
  <2>1. \A a \in Ids : actors[a].running => actors[a].next = 0
    BY <1>1 DEF RInv, RestartInv, ReplacedRetired, Retired
  <2>2. ~overlapped => Unique
    BY <1>1 DEF RInv, CalmInv
  <2>. QED
    BY <2>1, <2>2 DEF OneRunning, Unique
<1>. QED
  BY <1>1, RestartInvariance, PTL

(* Under ONE_FOR_ONE no restart overlaps another.                          *)
THEOREM AloneNeverOverlaps ==
    Spec => [](strategy = "one_for_one" => ~overlapped)
<1>1. RInv => (strategy = "one_for_one" => ~overlapped)
  BY DEF RInv, RestartInv
<1>. QED
  BY <1>1, RestartInvariance, PTL

(* However restarts overlap, on_stop finds in _children exactly the newest *)
(* actors, each once, and one at least of every spec started so far.       *)
THEOREM NoneEscapes == Spec => []AllManaged
<1>1. ASSUME RInv PROVE AllManaged
  <2>. SUFFICES ASSUME sup # "stopped"
                PROVE  /\ {children[i] : i \in DOMAIN children}
                             = {a \in Ids : actors[a].next = 0}
                       /\ \A i, j \in DOMAIN children : children[i] = children[j] => i = j
                       /\ \A a \in Ids : \E i \in DOMAIN children :
                              actors[children[i]].spec = actors[a].spec
    BY DEF AllManaged
  <2>1. RestartInv /\ children \in Seq(Ids)
    BY <1>1 DEF RInv, TInv, TypeOK
  <2>2. \A a \in Ids :
            /\ actors[a].next = 0 => \E i \in DOMAIN children : children[i] = a
            /\ \E i \in DOMAIN children : actors[children[i]].spec = actors[a].spec
    BY <2>1 DEF RestartInv, Manages
  <2>3. \A i \in DOMAIN children :
            /\ children[i] \in Ids /\ actors[children[i]].next = 0
            /\ \A j \in DOMAIN children : children[i] = children[j] => i = j
    BY <2>1 DEF RestartInv, ChildrenNewest
  <2>. QED
    BY <2>2, <2>3
<1>. QED
  BY <1>1, RestartInvariance, PTL

-----------------------------------------------------------------------------
(* The messages                                                            *)

Msgs == 1..MaxMsgs

In(q, k) == \E i \in DOMAIN q : q[i] = k

LEMMA AppendIn ==
    ASSUME NEW q \in Seq(Msgs), NEW x \in Msgs
    PROVE  /\ \A k : In(Append(q, x), k) <=> In(q, k) \/ k = x
           /\ Ascending(q) /\ (\A k \in Msgs : In(q, k) => k < x) => Ascending(Append(q, x))
           /\ Once(q) /\ ~In(q, x) => Once(Append(q, x))
<1>. DEFINE r == Append(q, x)
            l == Len(q)
<1>1. /\ l \in Nat /\ DOMAIN q = 1..l /\ \A i \in 1..l : q[i] \in Msgs
      /\ r \in Seq(Msgs) /\ Len(r) = l + 1 /\ r[l + 1] = x /\ \A i \in 1..l : r[i] = q[i]
  BY AppendProperties
<1>. HIDE DEF r
<1>2. /\ DOMAIN r = 1..(l + 1) /\ l + 1 \in DOMAIN r /\ 1..l \subseteq DOMAIN r
      /\ \A i \in DOMAIN r : i \in 1..l \/ i = l + 1
  BY <1>1
<1>3. \A k : In(r, k) <=> In(q, k) \/ k = x
  BY <1>1, <1>2 DEF In
<1>4. ASSUME Ascending(q), \A k \in Msgs : In(q, k) => k < x
      PROVE  Ascending(r)
  <2>. SUFFICES ASSUME NEW i \in DOMAIN r, NEW j \in DOMAIN r, i < j
                PROVE  r[i] < r[j]
    BY DEF Ascending
  <2>1. i \in 1..l
    BY <1>1, <1>2
  <2>2. CASE j \in 1..l
    BY <1>1, <1>4, <2>1, <2>2 DEF Ascending
  <2>3. CASE j = l + 1
    <3>1. r[i] \in Msgs /\ In(q, r[i])
      BY <1>1, <2>1 DEF In
    <3>. QED
      BY <1>1, <1>4, <2>3, <3>1
  <2>. QED
    BY <1>2, <2>2, <2>3
<1>5. ASSUME Once(q), ~In(q, x)
      PROVE  Once(r)
  <2>1. \A i \in 1..l : r[i] # x
    BY <1>1, <1>5 DEF In
  <2>. QED
    BY <1>1, <1>2, <1>5, <2>1 DEF Once
<1>. QED
  BY <1>3, <1>4, <1>5 DEF r

LEMMA TailIn ==
    ASSUME NEW q \in Seq(Msgs), q # <<>>, Ascending(q)
    PROVE  /\ Head(q) \in Msgs /\ In(q, Head(q)) /\ Tail(q) \in Seq(Msgs)
           /\ \A k : In(Tail(q), k) <=> In(q, k) /\ k # Head(q)
           /\ \A k \in Msgs : In(Tail(q), k) => Head(q) < k
           /\ Ascending(Tail(q))
<1>. DEFINE r == Tail(q)
            l == Len(q)
            h == Head(q)
<1>1. /\ l \in Nat /\ l > 0 /\ DOMAIN q = 1..l /\ \A i \in 1..l : q[i] \in Msgs
      /\ h = q[1] /\ r \in Seq(Msgs) /\ Len(r) = l - 1 /\ \A i \in 1..(l - 1) : r[i] = q[i + 1]
  BY HeadTailProperties
<1>. HIDE DEF r, h
<1>2. DOMAIN r = 1..(l - 1)
  BY <1>1
<1>3. h \in Msgs /\ In(q, h)
  BY <1>1 DEF In
<1>4. \A i \in 1..l : i # 1 => h < q[i] /\ i - 1 \in 1..(l - 1) /\ r[i - 1] = q[i]
  BY <1>1 DEF Ascending
<1>5. \A i \in 1..(l - 1) : i + 1 \in 1..l /\ i + 1 # 1 /\ r[i] = q[i + 1]
  BY <1>1
<1>6. \A k : In(r, k) <=> In(q, k) /\ k # h
  <2>1. ASSUME NEW k, In(r, k) PROVE In(q, k) /\ k # h
    <3>1. PICK i \in 1..(l - 1) : r[i] = k
      BY <1>2, <2>1 DEF In
    <3>2. i + 1 \in 1..l /\ i + 1 # 1 /\ q[i + 1] = k
      BY <1>5, <3>1
    <3>3. h < k /\ h \in Int /\ k \in Int
      BY <1>1, <1>3, <1>4, <3>2 DEF Msgs
    <3>4. k # h
      BY <3>3
    <3>. QED
      BY <1>1, <3>2, <3>4 DEF In
  <2>2. ASSUME NEW k, In(q, k), k # h PROVE In(r, k)
    <3>1. PICK i \in 1..l : q[i] = k
      BY <1>1, <2>2 DEF In
    <3>2. i # 1
      BY <1>1, <2>2, <3>1
    <3>. QED
      BY <1>2, <1>4, <3>1, <3>2 DEF In
  <2>. QED
    BY <2>1, <2>2
<1>7. \A k \in Msgs : In(r, k) => h < k
  BY <1>2, <1>4, <1>5 DEF In
<1>8. Ascending(r)
  <2>. SUFFICES ASSUME NEW i \in DOMAIN r, NEW j \in DOMAIN r, i < j
                PROVE  r[i] < r[j]
    BY DEF Ascending
  <2>1. i + 1 \in DOMAIN q /\ j + 1 \in DOMAIN q /\ i + 1 < j + 1
    BY <1>1, <1>2
  <2>. QED
    BY <1>2, <1>5, <2>1 DEF Ascending
<1>. QED
  BY <1>1, <1>3, <1>6, <1>7, <1>8 DEF r, h

LEMMA EmptyIn == Ascending(<<>>) /\ Once(<<>>) /\ \A k : ~In(<<>>, k)
BY DEF Ascending, Once, In

(* Where a message is, and that nothing is held or handled before it was   *)
(* sent.                                                                   *)
Placed ==
    /\ \A k \in 1..sent : (\E a \in Ids : Holds(a, k)) \/ (\E s \in Specs : Delivers(s, k))
    /\ \A a \in Ids : \A k \in Msgs : Holds(a, k) =>
           /\ k <= sent /\ actors[a].next = 0
           /\ \A b \in Ids : Holds(b, k) => b = a
           /\ \A s \in Specs : ~Delivers(s, k)
    /\ \A s \in Specs : \A k \in Msgs : Delivers(s, k) =>
           k <= sent /\ \A t \in Specs : Delivers(t, k) => s = t

Sorted ==
    /\ \A a \in Ids : Ascending(actors[a].mail)
    /\ \A s \in Specs : Once(handled[s])

MailInv == Placed /\ Sorted

(* What is handled for a spec, in the order of sending, is older than what *)
(* waits for it: so it is while a spec has one newest actor.               *)
InTurn ==
    /\ \A s \in Specs : Ascending(handled[s])
    /\ \A a \in Ids : \A k, l \in Msgs :
           Delivers(actors[a].spec, k) /\ Holds(a, l) => k < l

MInv == RInv /\ MailInv /\ (~overlapped => InTurn)

LEMMA InitMail == ASSUME Init PROVE MailInv /\ InTurn
<1>1. Ids = {} /\ sent = 0 /\ handled = [s \in Specs |-> <<>>] /\ 1..sent = {}
  BY DEF Init, Ids
<1>2. \A s \in Specs : /\ handled[s] = <<>> /\ Ascending(handled[s]) /\ Once(handled[s])
                       /\ \A k : ~In(handled[s], k)
  BY <1>1, EmptyIn
<1>. QED
  BY <1>1, <1>2 DEF MailInv, Placed, Sorted, InTurn, Delivers, In

(* Nothing is sent or handled, and nothing moves.                          *)
LEMMA UnmovedMail ==
    ASSUME MailInv, Ids' = Ids, UNCHANGED <<sent, handled>>,
           \A b \in Ids : /\ actors'[b].mail = actors[b].mail
                          /\ actors'[b].next = actors[b].next
                          /\ actors'[b].spec = actors[b].spec
    PROVE  MailInv' /\ (InTurn => InTurn')
<1>1. /\ \A b \in Ids : \A k : Holds(b, k)' <=> Holds(b, k)
      /\ \A s : \A k : Delivers(s, k)' <=> Delivers(s, k)
  BY DEF Holds, Delivers
<1>2. Placed'
  BY <1>1 DEF MailInv, Placed
<1>3. Sorted'
  BY DEF MailInv, Sorted
<1>4. InTurn => InTurn'
  BY <1>1 DEF InTurn, Holds, Delivers
<1>. QED
  BY <1>2, <1>3, <1>4 DEF MailInv

LEMMA MailTyped ==
    ASSUME TInv
    PROVE  /\ \A a \in Ids : actors[a].mail \in Seq(Msgs) /\ actors[a].spec \in Specs
           /\ handled \in [Specs -> Seq(Msgs)] /\ sent \in Nat
           /\ \A a \in Ids : \A k : Holds(a, k) => k \in Msgs
           /\ \A s \in Specs : \A k : Delivers(s, k) => k \in Msgs
<1>1. /\ \A a \in Ids : actors[a].mail \in Seq(Msgs) /\ actors[a].spec \in Specs
      /\ handled \in [Specs -> Seq(Msgs)] /\ sent \in Nat
  BY ActorsType DEF TInv, TypeOK, Msgs
<1>2. ASSUME NEW q \in Seq(Msgs) PROVE \A i \in DOMAIN q : q[i] \in Msgs
  OBVIOUS
<1>3. \A a \in Ids : \A k : Holds(a, k) => k \in Msgs
  BY <1>1, <1>2 DEF Holds
<1>4. \A s \in Specs : \A k : Delivers(s, k) => k \in Msgs
  BY <1>1, <1>2 DEF Delivers
<1>. QED
  BY <1>1, <1>3, <1>4

LEMMA HandlesMail ==
    ASSUME TInv, MailInv, NEW a \in Ids, HandlesStep(a)
    PROVE  MailInv' /\ (Unique /\ InTurn => InTurn')
<1>0. actors[a].spec \in Specs /\ actors[a].mail \in Seq(Msgs)
  BY MailTyped
<1>a. PICK m \in Seq(Msgs) : m = actors[a].mail
  BY <1>0
<1>b. PICK s \in Specs : s = actors[a].spec
  BY <1>0
<1>. DEFINE h == Head(m)
<1>1. /\ Ids' = Ids /\ \A b \in Ids \ {a} : actors'[b] = actors[b]
      /\ actors'[a].spec = s /\ actors'[a].next = actors[a].next
      /\ sent' = sent /\ m # <<>> /\ actors'[a].mail = Tail(m)
      /\ handled' = [handled EXCEPT ![s] = Append(handled[s], h)]
  BY <1>a, <1>b DEF HandlesStep, LocalStep
<1>2. /\ handled \in [Specs -> Seq(Msgs)] /\ Ascending(m)
      /\ \A b \in Ids : \A k : Holds(b, k) => k \in Msgs
      /\ \A t \in Specs : \A k : Delivers(t, k) => k \in Msgs
  BY MailTyped, <1>a DEF MailInv, Sorted
<1>. DEFINE g == handled[s]
<1>3. /\ h \in Msgs /\ In(m, h)
      /\ \A k : In(Tail(m), k) <=> In(m, k) /\ k # h
      /\ \A k \in Msgs : In(Tail(m), k) => h < k
      /\ Ascending(Tail(m))
  <2>. HIDE DEF h
  <2>1. m \in Seq(Msgs) /\ m # <<>> /\ Ascending(m)
    BY <1>1, <1>2
  <2>. QED
    BY <2>1, TailIn DEF h
<1>. HIDE DEF h
<1>4. /\ \A k : In(Append(g, h), k) <=> In(g, k) \/ k = h
      /\ Ascending(g) /\ (\A k \in Msgs : In(g, k) => k < h) => Ascending(Append(g, h))
      /\ Once(g) /\ ~In(g, h) => Once(Append(g, h))
  <2>1. g \in Seq(Msgs) /\ h \in Msgs
    BY <1>2, <1>3
  <2>. HIDE DEF g
  <2>. QED
    BY <2>1, AppendIn
<1>5. /\ handled'[s] = Append(g, h) /\ \A t \in Specs \ {s} : handled'[t] = handled[t]
  BY <1>1, <1>2
<1>6. /\ Holds(a, h) /\ \A k : Holds(a, k)' <=> Holds(a, k) /\ k # h
      /\ \A b \in Ids \ {a} : \A k : Holds(b, k)' <=> Holds(b, k)
      /\ \A k : Delivers(s, k)' <=> Delivers(s, k) \/ k = h
      /\ \A t \in Specs \ {s} : \A k : Delivers(t, k)' <=> Delivers(t, k)
  <2>1. Holds(a, h) /\ \A k : Holds(a, k)' <=> Holds(a, k) /\ k # h
    <3>1. \A k : Holds(a, k) <=> In(m, k)
      BY <1>a DEF Holds, In
    <3>. DEFINE r == Tail(m)
    <3>2. actors'[a].mail = r
      BY <1>1
    <3>. HIDE DEF r
    <3>3. \A k : Holds(a, k)' <=> In(r, k)
      BY <3>2 DEF Holds, In
    <3>. QED
      BY <1>3, <3>1, <3>3 DEF r
  <2>2. \A b \in Ids \ {a} : \A k : Holds(b, k)' <=> Holds(b, k)
    BY <1>1 DEF Holds
  <2>3. \A k : Delivers(s, k)' <=> Delivers(s, k) \/ k = h
    BY <1>4, <1>5 DEF Delivers, In
  <2>4. \A t \in Specs \ {s} : \A k : Delivers(t, k)' <=> Delivers(t, k)
    BY <1>5 DEF Delivers
  <2>. QED
    BY <2>1, <2>2, <2>3, <2>4
<1>7. \A b \in Ids : /\ actors'[b].spec = actors[b].spec
                     /\ actors'[b].next = actors[b].next
  BY <1>1, <1>b
<1>8. /\ h <= sent /\ actors[a].next = 0
      /\ \A b \in Ids : Holds(b, h) => b = a
      /\ \A t \in Specs : ~Delivers(t, h)
  BY <1>3, <1>6 DEF MailInv, Placed
<1>9. Placed'
  <2>1. ASSUME NEW k \in 1..sent
        PROVE  (\E b \in Ids : Holds(b, k)') \/ (\E t \in Specs : Delivers(t, k)')
    <3>1. (\E b \in Ids : Holds(b, k)) \/ (\E t \in Specs : Delivers(t, k))
      BY DEF MailInv, Placed
    <3>. QED
      BY <1>2, <1>6, <3>1
  <2>2. ASSUME NEW b \in Ids, NEW k \in Msgs, Holds(b, k)'
        PROVE  /\ k <= sent /\ actors'[b].next = 0
               /\ \A c \in Ids : Holds(c, k)' => c = b
               /\ \A t \in Specs : ~Delivers(t, k)'
    <3>1. Holds(b, k) /\ k # h
      BY <1>6, <1>8, <2>2
    <3>2. /\ k <= sent /\ actors[b].next = 0
          /\ \A c \in Ids : Holds(c, k) => c = b
          /\ \A t \in Specs : ~Delivers(t, k)
      BY <3>1 DEF MailInv, Placed
    <3>. QED
      BY <1>6, <1>7, <3>1, <3>2
  <2>3. ASSUME NEW t \in Specs, NEW k \in Msgs, Delivers(t, k)'
        PROVE  k <= sent /\ \A u \in Specs : Delivers(u, k)' => t = u
    <3>1. CASE k = h
      BY <1>6, <1>8, <2>3, <3>1
    <3>2. CASE k # h
      BY <1>6, <2>3, <3>2 DEF MailInv, Placed
    <3>. QED
      BY <3>1, <3>2
  <2>. QED
    BY <1>1, <2>1, <2>2, <2>3 DEF Placed
<1>10. Sorted'
  <2>1. Once(g) /\ ~In(g, h)
    BY <1>8 DEF MailInv, Sorted, Delivers, In
  <2>2. \A t \in Specs : Once(handled'[t])
    BY <1>4, <1>5, <2>1 DEF MailInv, Sorted
  <2>3. \A b \in Ids : Ascending(actors'[b].mail)
    BY <1>1, <1>3 DEF MailInv, Sorted
  <2>. QED
    BY <1>1, <2>2, <2>3 DEF Sorted
<1>11. ASSUME Unique, InTurn PROVE InTurn'
  <2>1. \A k \in Msgs : Delivers(s, k) => k < h
    BY <1>3, <1>6, <1>11, <1>b DEF InTurn
  <2>2. Ascending(handled'[s])
    <3>1. Ascending(g) /\ \A k \in Msgs : In(g, k) => k < h
      BY <1>2, <1>11, <2>1 DEF InTurn, Delivers, In
    <3>. QED
      BY <1>4, <1>5, <3>1
  <2>3. \A t \in Specs : Ascending(handled'[t])
    BY <1>5, <1>11, <2>2 DEF InTurn
  <2>5. ASSUME NEW b \in Ids, NEW k \in Msgs, NEW l \in Msgs,
               Delivers(actors[b].spec, k)', Holds(b, l)'
        PROVE  k < l
    <3>1. actors[b].spec \in Specs
      BY MailTyped
    <3>2. PICK t \in Specs : t = actors[b].spec
      BY <3>1
    <3>3. Holds(b, l) /\ Delivers(t, k)'
      BY <1>6, <1>7, <2>5, <3>2 DEF Delivers
    <3>4. actors[b].next = 0
      BY <3>3 DEF MailInv, Placed
    <3>5. CASE Delivers(t, k)
      BY <1>11, <3>2, <3>3, <3>5 DEF InTurn
    <3>6. CASE ~Delivers(t, k)
      <4>1. t = s /\ k = h
        BY <1>6, <3>3, <3>6
      <4>2. b = a
        BY <1>8, <1>11, <1>b, <3>2, <3>4, <4>1 DEF Unique
      <4>. QED
        BY <1>1, <1>3, <2>5, <4>1, <4>2 DEF Holds, In
    <3>. QED
      BY <3>5, <3>6
  <2>. QED
    BY <1>1, <1>7, <2>3, <2>5 DEF InTurn, Delivers
<1>. QED
  BY <1>9, <1>10, <1>11 DEF MailInv

LEMMA SendsMail ==
    ASSUME TInv, MailInv, NEW a \in Ids, SendsStep(a)
    PROVE  MailInv' /\ (InTurn => InTurn')
<1>0. actors[a].mail \in Seq(Msgs) /\ sent + 1 \in Msgs /\ sent \in Nat
  BY MailTyped DEF SendsStep, Msgs
<1>a. PICK m \in Seq(Msgs) : m = actors[a].mail
  BY <1>0
<1>b. PICK x \in Msgs : x = sent + 1
  BY <1>0
<1>1. /\ Ids' = Ids /\ \A b \in Ids \ {a} : actors'[b] = actors[b]
      /\ actors'[a].spec = actors[a].spec /\ actors'[a].next = actors[a].next
      /\ actors[a].next = 0
      /\ sent' = x /\ handled' = handled /\ actors'[a].mail = Append(m, x)
  BY <1>a, <1>b DEF SendsStep, LocalStep
<1>2. /\ Ascending(m)
      /\ \A b \in Ids : actors[b].spec \in Specs
      /\ \A b \in Ids : \A k : Holds(b, k) => k \in Msgs /\ k < x
      /\ \A t \in Specs : \A k : Delivers(t, k) => k \in Msgs /\ k < x
  <2>1. \A k \in Msgs : k <= sent => k < x
    BY <1>0, <1>b DEF Msgs
  <2>. QED
    BY <1>a, <2>1, MailTyped DEF MailInv, Placed, Sorted
<1>3. \A k : Holds(a, k) <=> In(m, k)
  BY <1>a DEF Holds, In
<1>4. /\ \A k : In(Append(m, x), k) <=> In(m, k) \/ k = x
      /\ Ascending(Append(m, x))
  BY <1>2, <1>3, AppendIn
<1>5. /\ \A k : Holds(a, k)' <=> Holds(a, k) \/ k = x
      /\ \A b \in Ids \ {a} : \A k : Holds(b, k)' <=> Holds(b, k)
      /\ \A t : \A k : Delivers(t, k)' <=> Delivers(t, k)
  <2>. DEFINE r == Append(m, x)
  <2>1. actors'[a].mail = r
    BY <1>1
  <2>. HIDE DEF r
  <2>2. \A k : Holds(a, k)' <=> In(r, k)
    BY <2>1 DEF Holds, In
  <2>3. \A k : Holds(a, k)' <=> Holds(a, k) \/ k = x
    BY <1>3, <1>4, <2>2 DEF r
  <2>4. \A b \in Ids \ {a} : \A k : Holds(b, k)' <=> Holds(b, k)
    BY <1>1 DEF Holds
  <2>5. \A t : \A k : Delivers(t, k)' <=> Delivers(t, k)
    BY <1>1 DEF Delivers
  <2>. QED
    BY <2>3, <2>4, <2>5
<1>6. \A b \in Ids : /\ actors'[b].spec = actors[b].spec
                     /\ actors'[b].next = actors[b].next
  BY <1>1
<1>7. /\ \A k \in 1..x : k \in 1..sent \/ k = x
      /\ \A k \in Msgs : k <= sent => k <= x
      /\ \A k \in Msgs : ~(k < k)
      /\ x <= x
  BY <1>0, <1>b DEF Msgs
<1>8. Placed'
  <2>1. ASSUME NEW k \in 1..x
        PROVE  (\E b \in Ids : Holds(b, k)') \/ (\E t \in Specs : Delivers(t, k)')
    <3>1. CASE k = x
      BY <1>5, <3>1
    <3>2. CASE k \in 1..sent
      <4>1. (\E b \in Ids : Holds(b, k)) \/ (\E t \in Specs : Delivers(t, k))
        BY <3>2 DEF MailInv, Placed
      <4>. QED
        BY <1>5, <4>1
    <3>. QED
      BY <1>7, <3>1, <3>2
  <2>2. ASSUME NEW b \in Ids, NEW k \in Msgs, Holds(b, k)'
        PROVE  /\ k <= x /\ actors'[b].next = 0
               /\ \A c \in Ids : Holds(c, k)' => c = b
               /\ \A t \in Specs : ~Delivers(t, k)'
    <3>1. CASE k = x
      <4>1. \A c \in Ids : Holds(c, k)' => c = a
        BY <1>2, <1>5, <1>7, <3>1
      <4>2. b = a
        BY <2>2, <4>1
      <4>. QED
        BY <1>1, <1>2, <1>5, <1>7, <3>1, <4>1, <4>2
    <3>2. CASE k # x
      <4>1. Holds(b, k)
        BY <1>5, <2>2, <3>2
      <4>2. /\ k <= sent /\ actors[b].next = 0
            /\ \A c \in Ids : Holds(c, k) => c = b
            /\ \A t \in Specs : ~Delivers(t, k)
        BY <4>1 DEF MailInv, Placed
      <4>. QED
        BY <1>5, <1>6, <1>7, <3>2, <4>2
    <3>. QED
      BY <3>1, <3>2
  <2>3. ASSUME NEW t \in Specs, NEW k \in Msgs, Delivers(t, k)'
        PROVE  k <= x /\ \A u \in Specs : Delivers(u, k)' => t = u
    BY <1>5, <1>7, <2>3 DEF MailInv, Placed
  <2>. QED
    BY <1>1, <2>1, <2>2, <2>3 DEF Placed
<1>9. Sorted'
  <2>1. \A t \in Specs : Once(handled'[t])
    BY <1>1 DEF MailInv, Sorted
  <2>2. \A b \in Ids : Ascending(actors'[b].mail)
    BY <1>1, <1>4 DEF MailInv, Sorted
  <2>. QED
    BY <1>1, <2>1, <2>2 DEF Sorted
<1>10. ASSUME InTurn PROVE InTurn'
  <2>1. \A t \in Specs : Ascending(handled'[t])
    BY <1>1, <1>10 DEF InTurn
  <2>3. ASSUME NEW b \in Ids, NEW k \in Msgs, NEW l \in Msgs,
               Delivers(actors[b].spec, k)', Holds(b, l)'
        PROVE  k < l
    <3>1. PICK t \in Specs : t = actors[b].spec
      BY <1>2
    <3>2. Delivers(t, k)
      BY <1>1, <1>6, <2>3, <3>1 DEF Delivers
    <3>3. CASE Holds(b, l)
      BY <1>10, <3>1, <3>2, <3>3 DEF InTurn
    <3>4. CASE l = x
      BY <1>2, <3>2, <3>4
    <3>. QED
      BY <1>5, <2>3, <3>3, <3>4
  <2>. QED
    BY <1>1, <1>6, <2>1, <2>3 DEF InTurn, Delivers
<1>. QED
  BY <1>8, <1>9, <1>10 DEF MailInv

(* The inbox passes to the actor that replaces another.                    *)
LEMMA RenewedMail ==
    ASSUME TInv, MailInv, NEW S, NEW ss, NEW a \in Ids,
           NEW todo \in Seq(Ids), todo # <<>>, Renewed(ss, a, todo)
    PROVE  MailInv' /\ (InTurn => InTurn')
<1>. DEFINE p == Head(todo)
<1>a. p \in Ids /\ Len(actors) + 1 \in Nat /\ Len(actors) + 1 \notin Ids
      /\ 1..(Len(actors) + 1) = Ids \cup {Len(actors) + 1}
  <2>1. p \in Ids
    BY RestOfPlan
  <2>2. Ids = 1..Len(actors) /\ Len(actors) \in Nat
    BY ActorsType DEF TInv
  <2>. QED
    BY <2>1, <2>2
<1>b. PICK n \in Nat : n = Len(actors) + 1
  BY <1>a
<1>1. /\ n # 0 /\ n \notin Ids /\ Ids' = Ids \cup {n} /\ p \in Ids
      /\ actors'[n].spec = actors[p].spec /\ actors'[n].mail = actors[p].mail
      /\ actors'[n].next = 0
      /\ \A b \in Ids : /\ actors'[b].spec = actors[b].spec
                        /\ actors'[b].next = (IF b = p THEN n ELSE actors[b].next)
                        /\ actors'[b].mail = (IF b = p THEN <<>> ELSE actors[b].mail)
      /\ sent' = sent /\ handled' = handled
  <2>1. n # 0
    BY <1>b, ActorsType DEF TInv
  <2>. QED
    BY <1>a, <1>b, <2>1 DEF Renewed
<1>. HIDE DEF p
<1>2. /\ \A b \in Ids : actors[b].spec \in Specs
      /\ \A b \in Ids : \A k : Holds(b, k) => k \in Msgs
  BY MailTyped
<1>3. /\ \A k : ~Holds(p, k)'
      /\ \A k : Holds(n, k)' <=> Holds(p, k)
      /\ \A b \in Ids \ {p} : \A k : Holds(b, k)' <=> Holds(b, k)
      /\ \A t : \A k : Delivers(t, k)' <=> Delivers(t, k)
  <2>1. \A k : ~Holds(p, k)'
    BY <1>1, EmptyIn DEF Holds, In
  <2>. QED
    BY <1>1, <2>1 DEF Holds, Delivers
<1>4. Placed'
  <2>1. ASSUME NEW k \in 1..sent
        PROVE  (\E b \in Ids' : Holds(b, k)') \/ (\E t \in Specs : Delivers(t, k)')
    <3>1. (\E b \in Ids : Holds(b, k)) \/ (\E t \in Specs : Delivers(t, k))
      BY DEF MailInv, Placed
    <3>. QED
      BY <1>1, <1>3, <3>1
  <2>2. ASSUME NEW b \in Ids', NEW k \in Msgs, Holds(b, k)'
        PROVE  /\ k <= sent /\ actors'[b].next = 0
               /\ \A c \in Ids' : Holds(c, k)' => c = b
               /\ \A t \in Specs : ~Delivers(t, k)'
    <3>1. CASE b = n
      <4>1. Holds(p, k)
        BY <1>3, <2>2, <3>1
      <4>2. /\ k <= sent /\ \A c \in Ids : Holds(c, k) => c = p
            /\ \A t \in Specs : ~Delivers(t, k)
        BY <1>1, <4>1 DEF MailInv, Placed
      <4>. QED
        BY <1>1, <1>3, <3>1, <4>2
    <3>2. CASE b \in Ids
      <4>1. b # p /\ Holds(b, k)
        BY <1>3, <2>2, <3>2
      <4>2. /\ k <= sent /\ actors[b].next = 0
            /\ \A c \in Ids : Holds(c, k) => c = b
            /\ \A t \in Specs : ~Delivers(t, k)
        BY <3>2, <4>1 DEF MailInv, Placed
      <4>. QED
        BY <1>1, <1>3, <3>2, <4>1, <4>2
    <3>. QED
      BY <1>1, <3>1, <3>2
  <2>3. ASSUME NEW t \in Specs, NEW k \in Msgs, Delivers(t, k)'
        PROVE  k <= sent /\ \A u \in Specs : Delivers(u, k)' => t = u
    BY <1>3, <2>3 DEF MailInv, Placed
  <2>. QED
    BY <1>1, <2>1, <2>2, <2>3 DEF Placed
<1>5. Sorted'
  <2>1. \A t \in Specs : Once(handled'[t])
    BY <1>1 DEF MailInv, Sorted
  <2>2. ASSUME NEW b \in Ids'
        PROVE  Ascending(actors'[b].mail)
    BY <1>1, EmptyIn DEF MailInv, Sorted
  <2>. QED
    BY <2>1, <2>2 DEF Sorted
<1>6. ASSUME InTurn PROVE InTurn'
  <2>1. \A t \in Specs : Ascending(handled'[t])
    BY <1>1, <1>6 DEF InTurn
  <2>3. ASSUME NEW b \in Ids', NEW k \in Msgs, NEW l \in Msgs, NEW t \in Specs,
               t = actors'[b].spec, Delivers(t, k), Holds(b, l)'
        PROVE  k < l
    <3>1. CASE b = n
      BY <1>1, <1>3, <1>6, <2>3, <3>1 DEF InTurn
    <3>2. CASE b \in Ids
      BY <1>1, <1>3, <1>6, <2>3, <3>2 DEF InTurn
    <3>. QED
      BY <1>1, <3>1, <3>2
  <2>4. \A b \in Ids' : actors'[b].spec \in Specs
    BY <1>1, <1>2
  <2>5. ASSUME NEW b \in Ids', NEW k \in Msgs, NEW l \in Msgs,
               Delivers(actors[b].spec, k)', Holds(b, l)'
        PROVE  k < l
    <3>1. PICK t \in Specs : t = actors'[b].spec
      BY <2>4
    <3>2. Delivers(t, k)
      BY <1>1, <2>5, <3>1 DEF Delivers
    <3>. QED
      BY <2>3, <2>5, <3>1, <3>2
  <2>. QED
    BY <2>1, <2>5 DEF InTurn
<1>. QED
  BY <1>4, <1>5, <1>6 DEF MailInv

LEMMA StartMail ==
    ASSUME TInv, MailInv, NEW s \in Specs, StartStep(s)
    PROVE  MailInv' /\ (InTurn => InTurn')
<1>a. Len(actors) + 1 \in Nat /\ Len(actors) + 1 \notin Ids
      /\ 1..(Len(actors) + 1) = Ids \cup {Len(actors) + 1}
  <2>2. Ids = 1..Len(actors) /\ Len(actors) \in Nat
    BY ActorsType DEF TInv
  <2>. QED
    BY <2>2
<1>b. PICK n \in Nat : n = Len(actors) + 1
  BY <1>a
<1>1. /\ n \notin Ids /\ Ids' = Ids \cup {n}
      /\ actors'[n].mail = <<>> /\ \A b \in Ids : actors'[b] = actors[b]
      /\ sent' = sent /\ handled' = handled
  BY <1>a, <1>b DEF StartStep
<1>2. /\ \A k : ~Holds(n, k)'
      /\ \A b \in Ids : \A k : Holds(b, k)' <=> Holds(b, k)
      /\ \A t : \A k : Delivers(t, k)' <=> Delivers(t, k)
  <2>1. \A k : ~Holds(n, k)'
    BY <1>1, EmptyIn DEF Holds, In
  <2>. QED
    BY <1>1, <2>1 DEF Holds, Delivers
<1>3. Placed'
  <2>1. ASSUME NEW k \in 1..sent
        PROVE  (\E b \in Ids' : Holds(b, k)') \/ (\E t \in Specs : Delivers(t, k)')
    <3>1. (\E b \in Ids : Holds(b, k)) \/ (\E t \in Specs : Delivers(t, k))
      BY DEF MailInv, Placed
    <3>. QED
      BY <1>1, <1>2, <3>1
  <2>2. ASSUME NEW b \in Ids', NEW k \in Msgs, Holds(b, k)'
        PROVE  /\ k <= sent /\ actors'[b].next = 0
               /\ \A c \in Ids' : Holds(c, k)' => c = b
               /\ \A t \in Specs : ~Delivers(t, k)'
    <3>1. b \in Ids /\ Holds(b, k)
      BY <1>1, <1>2, <2>2
    <3>2. /\ k <= sent /\ actors[b].next = 0
          /\ \A c \in Ids : Holds(c, k) => c = b
          /\ \A t \in Specs : ~Delivers(t, k)
      BY <3>1 DEF MailInv, Placed
    <3>. QED
      BY <1>1, <1>2, <3>1, <3>2
  <2>3. ASSUME NEW t \in Specs, NEW k \in Msgs, Delivers(t, k)'
        PROVE  k <= sent /\ \A u \in Specs : Delivers(u, k)' => t = u
    BY <1>2, <2>3 DEF MailInv, Placed
  <2>. QED
    BY <1>1, <2>1, <2>2, <2>3 DEF Placed
<1>4. Sorted'
  <2>1. \A t \in Specs : Once(handled'[t])
    BY <1>1 DEF MailInv, Sorted
  <2>2. ASSUME NEW b \in Ids'
        PROVE  Ascending(actors'[b].mail)
    BY <1>1, EmptyIn DEF MailInv, Sorted
  <2>. QED
    BY <2>1, <2>2 DEF Sorted
<1>5. ASSUME InTurn PROVE InTurn'
  <2>1. \A t \in Specs : Ascending(handled'[t])
    BY <1>1, <1>5 DEF InTurn
  <2>3. ASSUME NEW b \in Ids', NEW k \in Msgs, NEW l \in Msgs,
               Delivers(actors[b].spec, k)', Holds(b, l)'
        PROVE  k < l
    <3>1. b \in Ids /\ Holds(b, l)
      BY <1>1, <1>2, <2>3
    <3>2. Delivers(actors[b].spec, k)
      BY <1>1, <2>3, <3>1 DEF Delivers
    <3>. QED
      BY <1>5, <3>1, <3>2 DEF InTurn
  <2>. QED
    BY <2>1, <2>3 DEF InTurn
<1>. QED
  BY <1>3, <1>4, <1>5 DEF MailInv

LEMMA StepMail == ASSUME MInv, [Next]_vars PROVE MInv'
<1>1. RInv'
  BY StepRestart DEF MInv
<1>2. TInv /\ MailInv /\ (~overlapped => Unique /\ InTurn)
  BY DEF MInv, RInv, CalmInv
<1>3. CASE Next
  <2>1. ASSUME NEW a \in Ids, SilentStep(a)
        PROVE  MailInv' /\ (~overlapped' => InTurn')
    BY <1>2, <2>1, UnmovedMail DEF SilentStep, LocalStep
  <2>2. ASSUME NEW a \in Ids, HandlesStep(a)
        PROVE  MailInv' /\ (~overlapped' => InTurn')
    <3>1. overlapped' = overlapped
      BY <2>2 DEF HandlesStep, LocalStep
    <3>. QED
      BY <1>2, <2>2, <3>1, HandlesMail
  <2>3. ASSUME NEW a \in Ids, SendsStep(a)
        PROVE  MailInv' /\ (~overlapped' => InTurn')
    <3>1. overlapped' = overlapped
      BY <2>3 DEF SendsStep, LocalStep
    <3>. QED
      BY <1>2, <2>3, <3>1, SendsMail
  <2>4. ASSUME NEW a \in Ids, RestartStep(a)
        PROVE  MailInv' /\ (~overlapped' => InTurn')
    <3>. DEFINE todo == Concerned(a)
    <3>1. PICK ss : Renewed(ss, a, todo)
      BY <2>4 DEF RestartStep
    <3>2. todo \in Seq(Ids) /\ todo # <<>> /\ (overlapped => overlapped')
      BY <2>4 DEF RestartStep
    <3>. HIDE DEF todo
    <3>. QED
      BY <1>2, <3>1, <3>2, RenewedMail
  <2>5. ASSUME NEW a \in Ids, RenewalStep(a)
        PROVE  MailInv' /\ (~overlapped' => InTurn')
    <3>. DEFINE todo == actors[a].plan
    <3>1. /\ todo \in Seq(Ids) /\ todo # <<>> /\ Renewed(actors, a, todo)
          /\ overlapped' = overlapped
      BY <2>5 DEF RenewalStep
    <3>. HIDE DEF todo
    <3>. QED
      BY <1>2, <3>1, RenewedMail
  <2>6. ASSUME NEW s \in Specs, StartStep(s)
        PROVE  MailInv' /\ (~overlapped' => InTurn')
    <3>1. overlapped' = overlapped
      BY <2>6 DEF StartStep
    <3>. QED
      BY <1>2, <2>6, <3>1, StartMail
  <2>7. ASSUME StopsStep
        PROVE  MailInv' /\ (~overlapped' => InTurn')
    <3>1. /\ Ids' = Ids /\ UNCHANGED <<sent, handled, overlapped>>
          /\ \A b \in Ids : /\ actors'[b].mail = actors[b].mail
                            /\ actors'[b].next = actors[b].next
                            /\ actors'[b].spec = actors[b].spec
      BY <2>7 DEF StopsStep, Halted
    <3>. QED
      BY <1>2, <3>1, UnmovedMail
  <2>. QED
    BY <1>1, <1>2, <1>3, <2>1, <2>2, <2>3, <2>4, <2>5, <2>6, <2>7, StepKinds DEF MInv
<1>4. CASE UNCHANGED vars
  <2>1. MailInv' /\ (~overlapped' => InTurn')
    BY <1>2, <1>4, UnmovedMail DEF vars, Ids
  <2>. QED
    BY <1>1, <2>1 DEF MInv
<1>. QED
  BY <1>3, <1>4

(* MInv holds in every reachable state.                                    *)
THEOREM MailInvariance == Spec => []MInv
<1>1. Init => MInv
  BY InitTyped, InitRestart, InitMail DEF MInv, RInv
<1>2. MInv /\ [Next]_vars => MInv'
  BY StepMail
<1>. QED
  BY <1>1, <1>2, PTL DEF Spec

(* No message is lost or doubled, and none stays behind with an actor that *)
(* was replaced, when _start_child hands the inbox of a child on to the    *)
(* next one, however restarts overlap; unless they do, a spec handles its  *)
(* messages in the order they were sent.                                   *)
THEOREM NoMailLost == Spec => []MailKept
<1>1. ASSUME MInv PROVE MailKept
  <2>1. MailInv /\ TypeOK /\ (~overlapped => InTurn)
    BY <1>1 DEF MInv, RInv, TInv
  <2>2. 1..sent \subseteq Msgs
    BY <2>1, Bounds DEF TypeOK, Msgs
  <2>. QED
    BY <2>1, <2>2 DEF MailInv, Placed, Sorted, InTurn, MailKept
<1>. QED
  BY <1>1, MailInvariance, PTL

=============================================================================
