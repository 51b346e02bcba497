---------------------------- MODULE ActorSystem ----------------------------
(***************************************************************************)
(* An actor system and the actors it supervises: Actor._run, ActorRef      *)
(* (asyncio_actors/actor.py) and ActorSystem (asyncio_actors/system.py).   *)
(*                                                                         *)
(* A slot is one call of spawn() and the _supervise task it starts; the    *)
(* task runs one incarnation of the actor after the other.  One step of    *)
(* the event loop, from one await to the next, is one action.  The inbox   *)
(* is the mailbox that module Inbox refines, read by get() alone; its      *)
(* bound plays no role here.  Hooks (on_start, on_message, on_error,       *)
(* on_stop) may fail wherever user code may raise, and do not swallow a    *)
(* cancellation.                                                           *)
(***************************************************************************)
EXTENDS Integers, Sequences, FiniteSets

CONSTANTS
    Slots,          \* calls of spawn()
    Names,          \* names given to spawn()
    Clients,        \* each sends one message, with send() or ask()
    Watchers,       \* each calls watch() once
    None,           \* no slot, no client
    MaxRestarts,    \* RestartPolicy.max_restarts
    MaxCrashes,     \* bound: crashes of one slot
    HoldsResult     \* wait_for() returns a result that is ready even if its
                    \* caller is being cancelled (Python 3.11; FALSE from 3.12)

ASSUME ActorSystemAssumption ==
    /\ MaxRestarts \in Nat
    /\ MaxCrashes \in Nat
    /\ HoldsResult \in BOOLEAN
    /\ None \notin Slots \cup Clients

VARIABLES
    system,    \* "running" until __aexit__, which waits in "exiting"
    registry,  \* _registry: name -> slot
    phase,     \* where the _supervise task of each slot is suspended
    running,   \* _running of the slot's incarnation
    cancel,    \* Task.cancel() was called and is not delivered yet
    outcome,   \* does _run end with an exception?
    inbox,     \* the messages in the inbox, oldest first
    closed,    \* the inbox's _closed
    current,   \* the message the actor took from the inbox
    recent,    \* restarts inside the policy's window
    crashes,   \* crashes so far
    life,      \* number of the incarnation
    reply,     \* the state of each client's reply future
    watch,     \* each watcher's future and the incarnation it watches
    stopped,   \* history: slots whose ref was asked to stop
    queued,    \* history: the messages put() accepted, in order
    taken,     \* history: the messages handed to on_message, in order
    discarded, \* history: messages thrown away with a closed inbox
    broken     \* history: incarnations whose on_stop() raised

actor   == <<phase, running, cancel, outcome, current>>
mail    == <<inbox, closed, queued, discarded>>
restart == <<recent, crashes, life>>
vars    == <<system, registry, phase, running, cancel, outcome, inbox, closed,
             current, recent, crashes, life, reply, watch, stopped, queued,
             taken, discarded, broken>>

(* The phases in which _task is set, so that stop() cancels it.            *)
InLoop == {"starting", "polling", "arrived", "handling", "erring"}

Phases == {"none", "created", "stopping", "backoff", "gone"} \cup InLoop

Init ==
    /\ system = "running"
    /\ registry = [n \in Names |-> None]
    /\ phase = [a \in Slots |-> "none"]
    /\ running = [a \in Slots |-> FALSE]
    /\ cancel = [a \in Slots |-> FALSE]
    /\ outcome = [a \in Slots |-> "clean"]
    /\ inbox = [a \in Slots |-> <<>>]
    /\ closed = [a \in Slots |-> FALSE]
    /\ current = [a \in Slots |-> None]
    /\ recent = [a \in Slots |-> 0]
    /\ crashes = [a \in Slots |-> 0]
    /\ life = [a \in Slots |-> 1]
    /\ reply = [c \in Clients |-> "unsent"]
    /\ watch = [w \in Watchers |-> [slot |-> None, life |-> 0, done |-> FALSE]]
    /\ stopped = {}
    /\ queued = [a \in Slots |-> <<>>]
    /\ taken = [a \in Slots |-> <<>>]
    /\ discarded = {}
    /\ broken = {}

-----------------------------------------------------------------------------
(* The _supervise task of a slot                                           *)

(* It suspends next in phase p.                                            *)
Goto(a, p) == phase' = [phase EXCEPT ![a] = p]

(* _supervise removes the slot from _actors and its name from _registry.   *)
Removed(a) ==
    registry' = [n \in Names |-> IF registry[n] = a THEN None ELSE registry[n]]

(* The end of _run, whatever the reason: its finally block up to on_stop().*)
Leave(a, how) ==
    /\ Goto(a, "stopping")
    /\ running' = [running EXCEPT ![a] = FALSE]
    /\ cancel' = [cancel EXCEPT ![a] = FALSE]
    /\ outcome' = [outcome EXCEPT ![a] = how]
    /\ current' = [current EXCEPT ![a] = None]

(* The head of the message loop, "while self._running".                    *)
Loop(a) ==
    \/ /\ running[a]
       /\ Goto(a, "polling")
       /\ current' = [current EXCEPT ![a] = None]
       /\ UNCHANGED <<running, cancel, outcome>>
    \/ /\ ~running[a]
       /\ Leave(a, "clean")

MayCrash(a) == crashes[a] < MaxCrashes

CountCrash(a) == crashes' = [crashes EXCEPT ![a] = @ + 1]

(* The task's first step: the loop of _supervise and the start of _run.    *)
Begins(a) ==
    /\ phase[a] = "created"
    /\ \/ /\ system = "running"
          /\ Goto(a, "starting")
          /\ running' = [running EXCEPT ![a] = TRUE]
          /\ UNCHANGED registry
       \/ /\ system # "running"
          /\ Goto(a, "gone")
          /\ Removed(a)
          /\ UNCHANGED running
    /\ UNCHANGED <<system, cancel, outcome, current, mail, restart, reply,
                   watch, stopped, taken, broken>>

Quiet == UNCHANGED <<system, registry, mail, recent, life, watch, stopped, broken>>

Started(a) ==
    /\ phase[a] = "starting" /\ ~cancel[a]
    /\ Loop(a)
    /\ Quiet /\ UNCHANGED <<crashes, reply, taken>>

StartFails(a) ==
    /\ phase[a] = "starting" /\ ~cancel[a] /\ MayCrash(a)
    /\ Leave(a, "crash")
    /\ CountCrash(a)
    /\ Quiet /\ UNCHANGED <<reply, taken>>

(* get() returns a message: its future has a result.                       *)
Arrives(a) ==
    /\ phase[a] = "polling" /\ ~cancel[a] /\ inbox[a] # <<>>
    /\ Goto(a, "arrived")
    /\ current' = [current EXCEPT ![a] = Head(inbox[a])]
    /\ inbox' = [inbox EXCEPT ![a] = Tail(@)]
    /\ UNCHANGED <<system, registry, running, cancel, outcome, closed, queued,
                   discarded, restart, reply, watch, stopped, taken, broken>>

(* The one second of wait_for() ends after the result was set and before   *)
(* the task has seen it: the loop continues without the message.           *)
ArrivesLate(a) ==
    /\ phase[a] = "arrived" /\ ~cancel[a]
    /\ Loop(a)
    /\ Quiet /\ UNCHANGED <<crashes, reply, taken>>

(* get() raises RuntimeError on a closed and empty inbox: break.           *)
PollFails(a) ==
    /\ phase[a] = "polling" /\ ~cancel[a] /\ closed[a] /\ inbox[a] = <<>>
    /\ Leave(a, "clean")
    /\ Quiet /\ UNCHANGED <<crashes, reply, taken>>

(* The envelope is opened and on_message() begins.                         *)
Takes(a) ==
    /\ phase[a] = "arrived"
    /\ cancel[a] => HoldsResult
    /\ Goto(a, "handling")
    /\ cancel' = [cancel EXCEPT ![a] = FALSE]
    /\ taken' = [taken EXCEPT ![a] = Append(@, current[a])]
    /\ UNCHANGED <<running, outcome, current, crashes, reply>>
    /\ Quiet

(* The future of the message in work, if a caller still waits for it.      *)
Resolve(a, how) ==
    reply' = [reply EXCEPT ![current[a]] = IF @ = "waiting" THEN how ELSE @]

(* reply() inside on_message().                                            *)
Replies(a) ==
    /\ phase[a] = "handling" /\ ~cancel[a]
    /\ reply[current[a]] = "waiting"
    /\ Resolve(a, "answered")
    /\ Quiet /\ UNCHANGED <<actor, crashes, taken>>

Handled(a) ==
    /\ phase[a] = "handling" /\ ~cancel[a]
    /\ Resolve(a, "answered")
    /\ Loop(a)
    /\ Quiet /\ UNCHANGED <<crashes, taken>>

HandlerFails(a) ==
    /\ phase[a] = "handling" /\ ~cancel[a]
    /\ Resolve(a, "failed")
    /\ Goto(a, "erring")
    /\ Quiet /\ UNCHANGED <<running, cancel, outcome, current, crashes, taken>>

\* mutation: a message whose handler failed is tried again
ErrorRetries(a) ==
    /\ phase[a] = "erring" /\ ~cancel[a]
    /\ Loop(a)
    /\ inbox' = [inbox EXCEPT ![a] = <<current[a]>> \o @]
    /\ UNCHANGED <<system, registry, closed, queued, discarded, restart, reply,
                   watch, stopped, taken, broken>>

(* What on_error() decides: RESTART, STOP, or ESCALATE (or it raises).     *)
ErrorRestart(a) ==
    /\ phase[a] = "erring" /\ ~cancel[a]
    /\ Loop(a)
    /\ Quiet /\ UNCHANGED <<crashes, reply, taken>>

ErrorStop(a) ==
    /\ phase[a] = "erring" /\ ~cancel[a]
    /\ Leave(a, "clean")
    /\ Quiet /\ UNCHANGED <<crashes, reply, taken>>

ErrorEscalate(a) ==
    /\ phase[a] = "erring" /\ ~cancel[a] /\ MayCrash(a)
    /\ Leave(a, "crash")
    /\ CountCrash(a)
    /\ Quiet /\ UNCHANGED <<reply, taken>>

(* A cancellation is delivered.  Only stop() cancels, after it has cleared *)
(* _running, so _run swallows the CancelledError.                          *)
CancelLands(a) ==
    /\ phase[a] \in InLoop /\ cancel[a]
    /\ Leave(a, "clean")
    /\ Quiet /\ UNCHANGED <<crashes, reply, taken>>

\* mutation: only a clean end notifies
NotifiedIfClean(a) ==
    watch' = [w \in Watchers |->
                IF /\ watch[w].slot = a /\ watch[w].life = life[a]
                   /\ outcome[a] = "clean"
                THEN [watch[w] EXCEPT !.done = TRUE] ELSE watch[w]]

(* _notify_watchers of the incarnation.                                    *)
Notified(a) ==
    watch' = [w \in Watchers |->
                IF watch[w].slot = a /\ watch[w].life = life[a]
                THEN [watch[w] EXCEPT !.done = TRUE] ELSE watch[w]]

(* _run is over: _supervise goes on.  RestartPolicy drops the restarts     *)
(* that have left its window and allows another if fewer than MaxRestarts  *)
(* remain.                                                                 *)
Supervise(a, how) ==
    \/ /\ how = "crash"
       /\ \E kept \in 0..recent[a] :
             /\ kept < MaxRestarts
             /\ recent' = [recent EXCEPT ![a] = kept + 1]
       /\ Goto(a, "backoff")
       /\ UNCHANGED registry
    \/ /\ how = "crash" => recent[a] >= MaxRestarts
       /\ Goto(a, "gone")
       /\ Removed(a)
       /\ UNCHANGED recent

Stops(a) ==
    /\ phase[a] = "stopping"
    /\ Notified(a)
    /\ Supervise(a, outcome[a])
    /\ UNCHANGED <<system, running, cancel, outcome, current, mail, crashes,
                   life, reply, stopped, taken, broken>>

(* on_stop() raises: _notify_watchers is not reached.                      *)
StopFails(a) ==
    /\ phase[a] = "stopping" /\ MayCrash(a)
    /\ CountCrash(a)
    /\ broken' = broken \cup {<<a, life[a]>>}
    /\ Supervise(a, "crash")
    /\ UNCHANGED <<system, running, cancel, outcome, current, mail, life,
                   reply, watch, stopped, taken>>

\* mutation: the new actor never takes over the inbox
RestartsEmpty(a) ==
    /\ phase[a] = "backoff"
    /\ system = "running"
    /\ Goto(a, "starting")
    /\ running' = [running EXCEPT ![a] = TRUE]
    /\ life' = [life EXCEPT ![a] = @ + 1]
    /\ outcome' = [outcome EXCEPT ![a] = "clean"]
    /\ inbox' = [inbox EXCEPT ![a] = <<>>]
    /\ closed' = [closed EXCEPT ![a] = FALSE]
    /\ discarded' = discarded \cup {inbox[a][i] : i \in 1..Len(inbox[a])}
    /\ UNCHANGED <<system, registry, cancel, current, recent, crashes, reply,
                   watch, stopped, queued, taken, broken>>

\* mutation: no second look at system._running after the backoff
RestartsAnyway(a) ==
    /\ phase[a] = "backoff"
    /\ Goto(a, "starting")
    /\ running' = [running EXCEPT ![a] = TRUE]
    /\ life' = [life EXCEPT ![a] = @ + 1]
    /\ outcome' = [outcome EXCEPT ![a] = "clean"]
    /\ closed' = [closed EXCEPT ![a] = FALSE]
    /\ inbox' = [inbox EXCEPT ![a] = IF closed[a] THEN <<>> ELSE @]
    /\ UNCHANGED <<system, registry, cancel, current, recent, crashes, reply,
                   watch, stopped, queued, taken, discarded, broken>>

(* The backoff is over.  A new actor takes over the inbox, unless it was   *)
(* closed: then the new actor's own inbox is empty and open.               *)
Restarts(a) ==
    /\ phase[a] = "backoff"
    /\ system = "running"
    /\ Goto(a, "starting")
    /\ running' = [running EXCEPT ![a] = TRUE]
    /\ life' = [life EXCEPT ![a] = @ + 1]
    /\ outcome' = [outcome EXCEPT ![a] = "clean"]
    /\ \/ /\ closed[a]
          /\ inbox' = [inbox EXCEPT ![a] = <<>>]
          /\ closed' = [closed EXCEPT ![a] = FALSE]
          /\ discarded' = discarded \cup {inbox[a][i] : i \in 1..Len(inbox[a])}
       \/ /\ ~closed[a]
          /\ UNCHANGED <<inbox, closed, discarded>>
    /\ UNCHANGED <<system, registry, cancel, current, recent, crashes, reply,
                   watch, stopped, queued, taken, broken>>

GivesUp(a) ==
    /\ phase[a] = "backoff"
    /\ system # "running"
    /\ Goto(a, "gone")
    /\ Removed(a)
    /\ UNCHANGED <<system, running, cancel, outcome, current, mail, restart,
                   reply, watch, stopped, taken, broken>>

-----------------------------------------------------------------------------
(* Callers                                                                 *)

Spawn(a, n) ==
    /\ system = "running" /\ phase[a] = "none"
    /\ registry[n] = None
    /\ Goto(a, "created")
    /\ registry' = [registry EXCEPT ![n] = a]
    /\ UNCHANGED <<system, running, cancel, outcome, current, mail, restart,
                   reply, watch, stopped, taken, broken>>

Spawned == {a \in Slots : phase[a] # "none"}

(* send() and ask(): a closed inbox raises at once.                        *)
Sends(c, a, asks) ==
    /\ a \in Spawned /\ reply[c] = "unsent"
    /\ \/ /\ closed[a]
          /\ reply' = [reply EXCEPT ![c] = "refused"]
          /\ UNCHANGED <<inbox, queued>>
       \/ /\ ~closed[a]
          /\ reply' = [reply EXCEPT ![c] = IF asks THEN "waiting" ELSE "sent"]
          /\ inbox' = [inbox EXCEPT ![a] = Append(@, c)]
          /\ queued' = [queued EXCEPT ![a] = Append(@, c)]
    /\ UNCHANGED <<system, registry, actor, closed, restart, watch, stopped,
                   taken, discarded, broken>>

(* The timeout of ask() cancels the reply future.                          *)
AskExpires(c) ==
    /\ reply[c] = "waiting"
    /\ reply' = [reply EXCEPT ![c] = "expired"]
    /\ UNCHANGED <<system, registry, actor, mail, restart, watch, stopped,
                   taken, broken>>

\* mutation: _running is left to the task's own finally block
StopAllCancelsOnly(A) ==
    /\ closed' = [a \in Slots |-> closed[a] \/ a \in A]
    /\ cancel' = [a \in Slots |-> cancel[a] \/ (a \in A /\ phase[a] \in InLoop)]
    /\ UNCHANGED running

(* Actor.stop() of the slots A, from a task that is none of theirs.        *)
StopAll(A) ==
    /\ running' = [a \in Slots |-> running[a] /\ a \notin A]
    /\ closed' = [a \in Slots |-> closed[a] \/ a \in A]
    /\ cancel' = [a \in Slots |-> cancel[a] \/ (a \in A /\ phase[a] \in InLoop)]

Stop(a) ==
    /\ a \in Spawned
    /\ StopAll({a})
    /\ stopped' = stopped \cup {a}
    /\ UNCHANGED <<system, registry, phase, outcome, current, inbox, queued,
                   discarded, restart, reply, watch, taken, broken>>

(* stop() called by a hook of the actor itself: no cancellation.           *)
StopSelf(a) ==
    /\ phase[a] \in {"starting", "handling", "erring"} /\ ~cancel[a]
    /\ running' = [running EXCEPT ![a] = FALSE]
    /\ closed' = [closed EXCEPT ![a] = TRUE]
    /\ stopped' = stopped \cup {a}
    /\ UNCHANGED <<system, registry, phase, cancel, outcome, current, inbox,
                   queued, discarded, restart, reply, watch, taken, broken>>

(* watch() resolves at once when the actor does not run and has no task.   *)
Watch(w, a) ==
    /\ a \in Spawned /\ watch[w].slot = None
    /\ watch' = [watch EXCEPT ![w] =
                   [slot |-> a, life |-> life[a],
                    done |-> ~running[a] /\ phase[a] \notin InLoop]]
    /\ UNCHANGED <<system, registry, actor, mail, restart, reply, stopped,
                   taken, broken>>

(* __aexit__: stop every actor, then gather() the _supervise tasks.        *)
Exit ==
    /\ system = "running"
    /\ system' = "exiting"
    /\ StopAll({a \in Spawned : phase[a] # "gone"})
    /\ UNCHANGED <<registry, phase, outcome, current, inbox, queued, discarded,
                   restart, reply, watch, stopped, taken, broken>>

\* mutation: no gather() of the supervision tasks
ExitedAtOnce ==
    /\ system = "exiting"
    /\ system' = "exited"
    /\ registry' = [n \in Names |-> None]
    /\ UNCHANGED <<actor, mail, restart, reply, watch, stopped, taken, broken>>

Exited ==
    /\ system = "exiting"
    /\ \A a \in Spawned : phase[a] = "gone"
    /\ system' = "exited"
    /\ registry' = [n \in Names |-> None]
    /\ UNCHANGED <<actor, mail, restart, reply, watch, stopped, taken, broken>>

-----------------------------------------------------------------------------
(* What the event loop does with the task of slot a by itself.             *)
Runs(a) ==
    \/ Begins(a) \/ Started(a) \/ Arrives(a) \/ Takes(a) \/ PollFails(a)
    \/ ErrorRestart(a) \/ ErrorStop(a) \/ CancelLands(a) \/ Stops(a)
    \/ Restarts(a) \/ GivesUp(a)

(* What user code and the clock decide.                                    *)
Decides(a) ==
    \/ StartFails(a) \/ ArrivesLate(a) \/ Replies(a) \/ Handled(a)
    \/ HandlerFails(a) \/ ErrorEscalate(a) \/ StopFails(a) \/ StopSelf(a)

Calls ==
    \/ \E a \in Slots, n \in Names : Spawn(a, n)
    \/ \E c \in Clients, a \in Slots, asks \in BOOLEAN : Sends(c, a, asks)
    \/ \E c \in Clients : AskExpires(c)
    \/ \E a \in Slots : Stop(a)
    \/ \E w \in Watchers, a \in Slots : Watch(w, a)
    \/ Exit \/ Exited

Next == (\E a \in Slots : Runs(a) \/ Decides(a)) \/ Calls

Spec == Init /\ [][Next]_vars

(* Ready tasks are stepped, a backoff and the hooks on_start, on_error and *)
(* on_stop end, gather() returns.  A message handler may run for ever.     *)
Fairness == (\A a \in Slots : WF_vars(Runs(a))) /\ WF_vars(Exited)

FairSpec == Spec /\ Fairness

-----------------------------------------------------------------------------
(* Properties                                                              *)

(* The attributes keep their shape, and a message is held exactly between  *)
(* the get() that returned it and the end of its handling.                 *)
TypeOK ==
    /\ system \in {"running", "exiting", "exited"}
    /\ registry \in [Names -> Slots \cup {None}]
    /\ phase \in [Slots -> Phases]
    /\ running \in [Slots -> BOOLEAN] /\ cancel \in [Slots -> BOOLEAN]
    /\ outcome \in [Slots -> {"clean", "crash"}]
    /\ inbox \in [Slots -> Seq(Clients)] /\ closed \in [Slots -> BOOLEAN]
    /\ current \in [Slots -> Clients \cup {None}]
    /\ \A a \in Slots : current[a] # None
                          <=> phase[a] \in {"arrived", "handling", "erring"}
    /\ recent \in [Slots -> Nat] /\ \A a \in Slots : recent[a] <= MaxRestarts
    /\ crashes \in [Slots -> Nat] /\ life \in [Slots -> Nat \ {0}]
    /\ reply \in [Clients -> {"unsent", "sent", "refused", "waiting",
                              "answered", "failed", "expired"}]
    /\ watch \in [Watchers -> [slot : Slots \cup {None}, life : Nat,
                               done : BOOLEAN]]
    /\ stopped \subseteq Slots
    /\ queued \in [Slots -> Seq(Clients)] /\ taken \in [Slots -> Seq(Clients)]
    /\ discarded \subseteq Clients
    /\ broken \subseteq Slots \X Nat

(* A task that is not in its loop has nothing to cancel, and a task with a *)
(* cancellation under way has stopped running and has closed its inbox: so *)
(* the CancelledError that lands is always the one that _run may swallow.  *)
CancelMeansStopped ==
    \A a \in Slots :
        cancel[a] => phase[a] \in InLoop /\ ~running[a] /\ closed[a]

(* Nobody waits for the end of an actor that has ended: a watch() future   *)
(* is open only while the incarnation it watches is up, or when on_stop()  *)
(* of that incarnation raised.                                             *)
NoForgottenWatcher ==
    \A w \in Watchers :
        watch[w].slot # None /\ ~watch[w].done =>
            \/ /\ watch[w].life = life[watch[w].slot]
               /\ phase[watch[w].slot] \in InLoop \cup {"stopping"}
            \/ <<watch[w].slot, watch[w].life>> \in broken

Range_(s) == {s[i] : i \in 1..Len(s)}

(* Restarts do not disturb the mail: whatever crashes lie between, the     *)
(* messages of a slot reach on_message() in the order they were accepted,  *)
(* none of them twice.                                                     *)
HandledInOrder ==
    \A a \in Slots : \A i, j \in 1..Len(taken[a]) : i < j =>
        \E p, q \in 1..Len(queued[a]) :
            p < q /\ queued[a][p] = taken[a][i] /\ queued[a][q] = taken[a][j]

(* A restart throws accepted messages away only if stop() had closed the   *)
(* inbox before.                                                           *)
DiscardedOnlyIfStopped ==
    \A a \in Slots : Range_(queued[a]) \cap discarded # {} => a \in stopped

(* After "async with ActorSystem()" no task, running actor or name is left,*)
(* and no actor starts again.                                              *)
NothingLeft ==
    system = "exited" =>
        /\ \A a \in Slots : phase[a] \in {"none", "gone"} /\ ~running[a]
        /\ \A n \in Names : registry[n] = None

(* Leaving the system terminates even when a handler never does.           *)
ExitCompletes == system = "exiting" ~> system = "exited"

(* system.py:120, "Clean / intentional shutdown - do not restart.": an     *)
(* actor whose ref was asked to stop is never started again.               *)
StopIsFinal ==
    [][\A a \in stopped : life'[a] = life[a]]_vars
=============================================================================
