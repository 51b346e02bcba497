----------------------------- MODULE Supervisor -----------------------------
(***************************************************************************)
(* A supervisor and its children: asyncio_actors/supervisor.py.            *)
(*                                                                         *)
(* _start_child creates an actor together with the task that runs          *)
(* _watch_child for it, so actor and task share a number, the index into   *)
(* actors.  One step of the event loop, from one await to the next, is one *)
(* action: stop() never suspends, so a loop that stops several children is *)
(* one step, and _start_child suspends once, at its end.  The message loop *)
(* of a child is the one of ActorSystem; here it is reduced to the ways a  *)
(* child may end.                                                          *)
(***************************************************************************)
EXTENDS Integers, Sequences, FiniteSets

CONSTANTS
    NumSpecs,     \* the length of children_specs
    Settings,     \* pairs of a strategy and the restart types of the specs
    MaxExits,     \* bound: children that end without the supervisor's doing
    MaxMsgs,      \* bound: messages sent
    MaxActors     \* bound: actors created

Specs == 1..NumSpecs
Strategies == {"one_for_one", "one_for_all", "rest_for_one"}
RestartTypes == {"permanent", "transient", "temporary"}

ASSUME SupervisorAssumption ==
    /\ NumSpecs \in Nat \ {0}
    /\ Settings \subseteq Strategies \X [Specs -> RestartTypes]
    /\ MaxExits \in Nat /\ MaxMsgs \in Nat /\ MaxActors \in Nat

VARIABLES
    strategy,  \* strategy of the supervisor
    restart,   \* the restart type of each spec
    sup,       \* "starting", "up" or "stopped"
    actors,    \* every child created so far, with its task
    children,  \* _children: numbers of actors
    exits,     \* how many children ended by themselves
    sent,      \* history: number of messages accepted
    handled,   \* history: messages handled for each spec, in order
    overlapped \* history: has a restart begun while a restart loop was under way?

config == <<strategy, restart>>
vars   == <<strategy, restart, sup, actors, children, exits, sent, handled,
            overlapped>>

(* A new child of spec s whose inbox holds mail.                           *)
Child(s, mail) ==
    [spec    |-> s,
     task    |-> "new",     \* where _watch_child is suspended
     running |-> FALSE,     \* _running
     closed  |-> FALSE,     \* _closed of its inbox
     cancel  |-> FALSE,     \* a cancellation of the task is under way
     crashed |-> FALSE,     \* does _run end with an exception?
     plan    |-> <<>>,      \* actors that the task has yet to replace
     next    |-> 0,         \* _ref_target, 0 for itself
     mail    |-> mail]      \* the inbox

Init ==
    /\ \E s \in Settings : strategy = s[1] /\ restart = s[2]
    /\ sup = "starting"
    /\ actors = <<>> /\ children = <<>>
    /\ exits = 0 /\ sent = 0 /\ handled = [s \in Specs |-> <<>>]
    /\ overlapped = FALSE

Ids == DOMAIN actors

-----------------------------------------------------------------------------
(* Stopping and starting                                                   *)

(* actor.stop() and task.cancel() for the actors S, by the task of actor   *)
(* self (0 for the supervisor's own).  However often a suspended task is   *)
(* cancelled, one CancelledError is raised in it.                          *)
StopOne(r)   == [r EXCEPT !.running = FALSE, !.closed = TRUE]
CancelOne(r) == [r EXCEPT !.cancel = (r.task # "done")]

Stopped(as, S, self) ==
    [a \in DOMAIN as |->
        IF a \notin S THEN as[a]
        ELSE IF a = self THEN StopOne(as[a])
        ELSE CancelOne(StopOne(as[a]))]

\* mutation: no drain_into()
ReplacedEmpty(as, p) ==
    Append([as EXCEPT ![p].next = Len(as) + 1], Child(as[p].spec, <<>>))

(* _start_child in place of actor p: the new actor gets what p's inbox     *)
(* holds, by sharing it or by drain_into(), and the refs of p.             *)
Replaced(as, p) ==
    Append([as EXCEPT ![p].next = Len(as) + 1, ![p].mail = <<>>],
           Child(as[p].spec, as[p].mail))

EnteredLast(ch, p, n) == Append(ch, n)   \* mutation: the old entry stays

(* Its entry in _children, or a new one if p has none.                     *)
Entered(ch, p, n) ==
    IF \E i \in DOMAIN ch : ch[i] = p
    THEN [i \in DOMAIN ch |-> IF ch[i] = p THEN n ELSE ch[i]]
    ELSE Append(ch, n)

(* The task of a replaces the first actor of todo and goes on with the     *)
(* others after a pass of the event loop.                                  *)
Replace(a, as, todo) ==
    /\ Len(actors) < MaxActors
    /\ actors' = [Replaced(as, Head(todo)) EXCEPT
                    ![a].task = IF Len(todo) = 1 THEN "done" ELSE "renewing",
                    ![a].plan = Tail(todo)]
    /\ children' = Entered(children, Head(todo), Len(actors) + 1)
    /\ UNCHANGED <<config, sup, exits, sent, handled>>

Done(a) ==
    /\ actors' = [actors EXCEPT ![a].task = "done", ![a].cancel = FALSE,
                                ![a].plan = <<>>]
    /\ UNCHANGED <<config, sup, children, exits, sent, handled, overlapped>>

\* mutation: REST_FOR_ONE begins one child too late
ConcernedAfter(a) ==
    CASE strategy = "one_for_one" -> <<a>>
      [] strategy = "one_for_all" -> children
      [] strategy = "rest_for_one" ->
            SelectSeq(children, LAMBDA b : actors[b].spec > actors[a].spec)

(* The actors that a restart of actor a concerns.                          *)
Concerned(a) ==
    CASE strategy = "one_for_one" -> <<a>>
      [] strategy = "one_for_all" -> children
      [] strategy = "rest_for_one" ->
            LET same == {i \in DOMAIN children :
                            actors[children[i]].spec = actors[a].spec}
            IN  IF same = {} THEN <<>>
                ELSE SubSeq(children, CHOOSE i \in same : \A j \in same : i <= j,
                            Len(children))

(* A restart begins.  The loop of an earlier one may be between two of its *)
(* passes: only the tasks that a restart concerns are cancelled by it.     *)
Restarts(a, as, todo) ==
    /\ Replace(a, as, todo)
    /\ overlapped' = (overlapped \/ \E b \in Ids : actors[b].task = "renewing")

\* mutation: the siblings are not stopped
HandleChildExitUnstopped(a) ==
    IF Concerned(a) = <<>> THEN Done(a)
    ELSE Restarts(a, actors, Concerned(a))

(* _handle_child_exit.                                                     *)
HandleChildExit(a) ==
    LET todo == Concerned(a)
        S    == IF strategy = "one_for_one" THEN {}
                ELSE {todo[i] : i \in DOMAIN todo}
    IN  IF todo = <<>> THEN Done(a)
        ELSE Restarts(a, Stopped(actors, S, a), todo)

-----------------------------------------------------------------------------
(* _watch_child for actor a                                                *)

Sets(r) ==
    /\ actors' = r
    /\ UNCHANGED <<config, sup, children, exits, sent, handled, overlapped>>

Begins(a) ==
    /\ actors[a].task = "new" /\ ~actors[a].cancel
    /\ Sets([actors EXCEPT ![a].task = "running", ![a].running = TRUE])

(* A cancellation that arrives anywhere but in the message loop ends the   *)
(* task.                                                                   *)
CancelEnds(a) ==
    /\ actors[a].task \in {"new", "stopping", "backoff", "renewing"}
    /\ actors[a].cancel
    /\ Done(a)

(* In the message loop _run swallows it, because stop() came first: to the *)
(* watcher this is a clean exit.                                           *)
CancelSwallowed(a) ==
    /\ actors[a].task = "running" /\ actors[a].cancel
    /\ Sets([actors EXCEPT ![a].task = "stopping", ![a].cancel = FALSE])

Handles(a) ==
    /\ actors[a].task = "running" /\ ~actors[a].cancel
    /\ actors[a].mail # <<>>
    /\ handled' = [handled EXCEPT ![actors[a].spec] = Append(@, Head(actors[a].mail))]
    /\ actors' = [actors EXCEPT ![a].mail = Tail(@)]
    /\ UNCHANGED <<config, sup, children, exits, sent, overlapped>>

(* A hook raises, on_error() decides to stop, or (closes) a hook calls     *)
(* stop().                                                                 *)
Exits(a, crash, closes) ==
    /\ actors[a].task = "running" /\ ~actors[a].cancel
    /\ exits < MaxExits
    /\ exits' = exits + 1
    /\ actors' = [actors EXCEPT ![a].task = "stopping", ![a].running = FALSE,
                                ![a].crashed = crash, ![a].closed = @ \/ closes]
    /\ UNCHANGED <<config, sup, children, sent, handled, overlapped>>

(* A closed and empty inbox ends the message loop.                         *)
PollFails(a) ==
    /\ actors[a].task = "running" /\ ~actors[a].cancel
    /\ actors[a].closed /\ actors[a].mail = <<>>
    /\ Sets([actors EXCEPT ![a].task = "stopping", ![a].running = FALSE])

\* mutation: PERMANENT is treated as TRANSIENT
StopReturnsNever(a) ==
    /\ actors[a].task = "stopping" /\ ~actors[a].cancel
    /\ IF actors[a].crashed /\ restart[actors[a].spec] # "temporary"
       THEN Sets([actors EXCEPT ![a].task = "backoff"])
       ELSE Done(a)

(* on_stop() is over and _run returns or raises.                           *)
StopReturns(a) ==
    LET type == restart[actors[a].spec]
    IN  /\ actors[a].task = "stopping" /\ ~actors[a].cancel
        /\ \/ /\ actors[a].crashed /\ type # "temporary"
              /\ Sets([actors EXCEPT ![a].task = "backoff"])
           \/ /\ ~actors[a].crashed /\ type = "permanent"
              /\ HandleChildExit(a)
           \/ /\ IF actors[a].crashed THEN type = "temporary" ELSE type # "permanent"
              /\ Done(a)

(* on_stop() raises, whatever came before.  (A temporary child is done     *)
(* either way.)                                                            *)
StopRaises(a) ==
    /\ actors[a].task = "stopping" /\ ~actors[a].cancel
    /\ restart[actors[a].spec] # "temporary"
    /\ exits < MaxExits
    /\ exits' = exits + 1
    /\ actors' = [actors EXCEPT ![a].task = "backoff", ![a].crashed = TRUE]
    /\ UNCHANGED <<config, sup, children, sent, handled, overlapped>>

(* The backoff of at least 0.1 s is over.                                  *)
BackoffEnds(a) ==
    /\ actors[a].task = "backoff" /\ ~actors[a].cancel
    /\ HandleChildExit(a)

(* The loop of _restart_all and _restart_rest after its sleep(0).          *)
Renews(a) ==
    /\ actors[a].task = "renewing" /\ ~actors[a].cancel
    /\ Replace(a, actors, actors[a].plan)
    /\ UNCHANGED overlapped

-----------------------------------------------------------------------------
(* The supervisor and its environment                                      *)

(* on_start: one child per step.                                           *)
Starts ==
    /\ sup = "starting"
    /\ \E s \in Specs :
        /\ s = Cardinality({actors[a].spec : a \in Ids}) + 1
        /\ Len(actors) < MaxActors
        /\ actors' = Append(actors, Child(s, <<>>))
        /\ children' = Append(children, Len(actors) + 1)
        /\ sup' = IF s = NumSpecs THEN "up" ELSE "starting"
    /\ UNCHANGED <<config, exits, sent, handled, overlapped>>

(* on_stop.                                                                *)
Stops ==
    /\ sup # "stopped"
    /\ sup' = "stopped"
    /\ actors' = Stopped(actors, {children[i] : i \in DOMAIN children}, 0)
    /\ children' = <<>>
    /\ UNCHANGED <<config, exits, sent, handled, overlapped>>

(* A ref of a child is asked to stop it.                                   *)
StopChild(a) ==
    /\ exits < MaxExits
    /\ actors[a].next = 0
    /\ exits' = exits + 1
    /\ actors' = [actors EXCEPT ![a] =
                    IF @.task = "running" THEN CancelOne(StopOne(@)) ELSE StopOne(@)]
    /\ UNCHANGED <<config, sup, children, sent, handled, overlapped>>

(* A message sent to any ref of a child reaches the newest actor.          *)
Sends(a) ==
    /\ actors[a].next = 0 /\ ~actors[a].closed
    /\ sent < MaxMsgs
    /\ sent' = sent + 1
    /\ actors' = [actors EXCEPT ![a].mail = Append(@, sent + 1)]
    /\ UNCHANGED <<config, sup, children, exits, handled, overlapped>>

Watches(a) ==
    \/ Begins(a) \/ CancelEnds(a) \/ CancelSwallowed(a) \/ PollFails(a)
    \/ StopReturns(a) \/ BackoffEnds(a) \/ Renews(a) \/ Handles(a)

Next ==
    \/ \E a \in Ids : Watches(a)
    \/ \E a \in Ids, crash, closes \in BOOLEAN : Exits(a, crash, closes)
    \/ \E a \in Ids : StopRaises(a) \/ StopChild(a) \/ Sends(a)
    \/ Starts \/ Stops

Spec == Init /\ [][Next]_vars

(* Tasks are stepped, on_stop() and the backoff end, on_start goes on.     *)
FairSpec ==
    /\ Spec
    /\ \A a \in 1..MaxActors : WF_vars(a \in Ids /\ Watches(a))
    /\ WF_vars(Starts)

-----------------------------------------------------------------------------
(* Properties                                                              *)

(* The attributes keep their shape, and a task has actors left to replace  *)
(* exactly while it is in a restart loop.                                  *)
TypeOK ==
    /\ <<strategy, restart>> \in Settings
    /\ sup \in {"starting", "up", "stopped"}
    /\ actors \in Seq([spec : Specs, running : BOOLEAN, closed : BOOLEAN,
                       task : {"new", "running", "stopping", "backoff",
                               "renewing", "done"},
                       cancel : BOOLEAN, crashed : BOOLEAN,
                       plan : Seq(1..MaxActors), next : 0..MaxActors,
                       mail : Seq(1..MaxMsgs)])
    /\ \A a \in Ids : (actors[a].plan # <<>>) = (actors[a].task = "renewing")
    /\ children \in Seq(Ids)
    /\ exits \in 0..MaxExits /\ sent \in 0..MaxMsgs
    /\ handled \in [Specs -> Seq(1..MaxMsgs)]
    /\ overlapped \in BOOLEAN

(* Unless two restarts overlapped, a spec has one newest actor.  However   *)
(* restarts overlap, and whatever crashes and stops come between, an actor *)
(* that was replaced, whose refs lead on to another, does not run: neither *)
(* the message loop nor a start still under way outlives the restart.      *)
OneRunning ==
    /\ ~overlapped => \A a, b \in Ids :
          /\ actors[a].spec = actors[b].spec
          /\ actors[a].next = 0 /\ actors[b].next = 0
          => a = b
    /\ \A a \in Ids : actors[a].running => actors[a].next = 0

(* While the supervisor is up, the children it can stop, _children, are    *)
(* exactly the newest actors, each of them once, although the loops of     *)
(* overlapping restarts write to it from snapshots: none runs unmanaged,   *)
(* and no spec that was started is without a child.                        *)
AllManaged ==
    sup # "stopped" =>
        /\ {children[i] : i \in DOMAIN children}
              = {a \in Ids : actors[a].next = 0}
        /\ \A i, j \in DOMAIN children : children[i] = children[j] => i = j
        /\ \A a \in Ids : \E i \in DOMAIN children :
               actors[children[i]].spec = actors[a].spec

Holds(a, k)    == \E i \in DOMAIN actors[a].mail : actors[a].mail[i] = k
Delivers(s, k) == \E i \in DOMAIN handled[s] : handled[s][i] = k

Ascending(seq) == \A i, j \in DOMAIN seq : i < j => seq[i] < seq[j]
Once(seq)      == \A i, j \in DOMAIN seq : seq[i] = seq[j] => i = j

(* No message is lost or doubled when an inbox passes from an actor to the *)
(* one that replaces it, however restarts overlap, and none stays behind:  *)
(* a message was handled once or waits in the inbox of one actor, a newest *)
(* one, in the order of sending.  Unless two restarts overlapped, a spec   *)
(* also handles its messages in that order.                                *)
MailKept ==
    /\ \A k \in 1..sent : \/ \E a \in Ids : Holds(a, k)
                          \/ \E s \in Specs : Delivers(s, k)
    /\ \A a \in Ids : \A k \in 1..sent : Holds(a, k) =>
           /\ actors[a].next = 0
           /\ \A b \in Ids : Holds(b, k) => b = a
           /\ \A s \in Specs : ~Delivers(s, k)
    /\ \A s, t \in Specs : \A k \in 1..sent :
           Delivers(s, k) /\ Delivers(t, k) => s = t
    /\ \A a \in Ids : Ascending(actors[a].mail)
    /\ \A s \in Specs : /\ Once(handled[s])
                        /\ ~overlapped => Ascending(handled[s])

(* The settings under which a stop by the supervisor is not mistaken for   *)
(* an exit that calls for a restart.                                       *)
Tame == strategy = "one_for_one" \/ \A s \in Specs : restart[s] # "permanent"

(* A permanent child is brought back as long as the supervisor is up.      *)
Recovers ==
    \A s \in Specs :
        (Tame /\ sup = "up" /\ restart[s] = "permanent")
            ~> (sup = "stopped"
                  \/ \E a \in Ids : actors[a].spec = s /\ actors[a].running)

(* A child that crashed is replaced, by its own task or by the restart of  *)
(* a sibling that cancelled it.                                            *)
CrashedAreReplaced ==
    \A a \in 1..MaxActors :
        (a \in Ids /\ actors[a].task = "backoff" /\ Tame)
            ~> (sup = "stopped" \/ (a \in Ids /\ actors[a].next # 0))

(* supervisor.py:181, "Restart the failed child and all children started   *)
(* after it.": each of them is restarted as one child, not as two.         *)
OneChildEach ==
    \A i, j \in DOMAIN children :
        actors[children[i]].spec = actors[children[j]].spec => i = j

(* supervisor.py:210, on_stop is to "Stop all children.": once it has, no  *)
(* child is started.                                                       *)
NoLateStart == [][sup = "stopped" => Len(actors') = Len(actors)]_vars
=============================================================================
