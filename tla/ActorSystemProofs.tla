------------------------- MODULE ActorSystemProofs -------------------------
(***************************************************************************)
(* Proofs about an actor system, for any number of slots, names, clients,  *)
(* watchers, restarts and crashes, and for either behaviour of wait_for(). *)
(***************************************************************************)
EXTENDS ActorSystem, RestartPolicy, SequenceTheorems, FiniteSetTheorems,
        WellFoundedInduction, TLAPS

-----------------------------------------------------------------------------
(* Types                                                                   *)

(* What TypeOK says of a slot's task.                                      *)
TaskType ==
    /\ phase \in [Slots -> Phases]
    /\ running \in [Slots -> BOOLEAN] /\ cancel \in [Slots -> BOOLEAN]
    /\ outcome \in [Slots -> {"clean", "crash"}]
    /\ current \in [Slots -> Clients \cup {None}]
    /\ \A a \in Slots : current[a] # None
                          <=> phase[a] \in {"arrived", "handling", "erring"}

LEMMA LeaveType ==
    ASSUME TaskType, NEW a \in Slots, NEW how \in {"clean", "crash"}, Leave(a, how)
    PROVE  TaskType'
BY ActorSystemAssumption DEF TaskType, Leave, Goto, Phases, InLoop

LEMMA LoopType ==
    ASSUME TaskType, NEW a \in Slots, Loop(a)
    PROVE  TaskType'
<1>1. CASE Leave(a, "clean")
  BY <1>1, LeaveType
<1>2. CASE running[a] /\ Goto(a, "polling") /\ current' = [current EXCEPT ![a] = None]
           /\ UNCHANGED <<running, cancel, outcome>>
  BY <1>2 DEF TaskType, Goto, Phases, InLoop
<1>. QED
  BY <1>1, <1>2 DEF Loop

LEMMA NotifiedType ==
    ASSUME NEW a \in Slots, Notified(a),
           watch \in [Watchers -> [slot : Slots \cup {None}, life : Nat, done : BOOLEAN]]
    PROVE  watch' \in [Watchers -> [slot : Slots \cup {None}, life : Nat, done : BOOLEAN]]
<1>. DEFINE W == [slot : Slots \cup {None}, life : Nat, done : BOOLEAN]
<1>1. ASSUME NEW w \in Watchers
      PROVE  [watch[w] EXCEPT !.done = TRUE] \in W
  <2>1. watch[w] \in W
    OBVIOUS
  <2>. QED
    BY <2>1
<1>. QED
  BY <1>1 DEF Notified

LEMMA SuperviseType ==
    ASSUME ActorSystemAssumption, TypeOK, NEW a \in Slots, NEW how, Supervise(a, how),
           phase[a] = "stopping"
    PROVE  /\ phase' \in [Slots -> Phases]
           /\ \A b \in Slots : current[b] # None
                                 <=> phase'[b] \in {"arrived", "handling", "erring"}
           /\ registry' \in [Names -> Slots \cup {None}]
           /\ recent' \in [Slots -> Nat] /\ \A b \in Slots : recent'[b] <= MaxRestarts
<1>. USE DEF TypeOK, ActorSystemAssumption, Goto, Phases, InLoop
<1>1. ASSUME NEW kept \in 0..recent[a], kept < MaxRestarts,
             recent' = [recent EXCEPT ![a] = kept + 1],
             Goto(a, "backoff"), UNCHANGED registry
      PROVE  /\ phase' \in [Slots -> Phases]
             /\ \A b \in Slots : current[b] # None
                                   <=> phase'[b] \in {"arrived", "handling", "erring"}
             /\ registry' \in [Names -> Slots \cup {None}]
             /\ recent' \in [Slots -> Nat] /\ \A b \in Slots : recent'[b] <= MaxRestarts
  <2>1. recent' \in [Slots -> Nat] /\ \A b \in Slots : recent'[b] <= MaxRestarts
    BY <1>1
  <2>. QED
    BY <1>1, <2>1
<1>2. CASE Goto(a, "gone") /\ Removed(a) /\ UNCHANGED recent
  BY <1>2 DEF Removed
<1>. HIDE DEF Goto
<1>. QED
  BY <1>1, <1>2 DEF Supervise

LEMMA RunsType ==
    ASSUME TypeOK, NEW a \in Slots, Runs(a)
    PROVE  TypeOK'
<1>. USE ActorSystemAssumption DEF TypeOK, Quiet, mail, restart, actor
<1>0. TaskType
  BY DEF TaskType
<1>1. CASE Begins(a)
  <2>1. CASE system = "running" /\ Goto(a, "starting")
             /\ running' = [running EXCEPT ![a] = TRUE] /\ UNCHANGED registry
    BY <1>1, <2>1 DEF Begins, Goto, Phases, InLoop
  <2>2. CASE Goto(a, "gone") /\ Removed(a) /\ UNCHANGED running
    BY <1>1, <2>2 DEF Begins, Goto, Removed, Phases, InLoop
  <2>. QED
    BY <1>1, <2>1, <2>2 DEF Begins
<1>2. CASE Started(a)
  BY <1>2, <1>0, LoopType DEF Started, TaskType
<1>3. CASE Arrives(a)
  BY <1>3 DEF Arrives, Goto, Phases, InLoop
<1>4. CASE Takes(a)
  BY <1>4 DEF Takes, Goto, Phases, InLoop
<1>5. CASE PollFails(a)
  BY <1>5, <1>0, LeaveType DEF PollFails, TaskType
<1>6. CASE ErrorRestart(a)
  BY <1>6, <1>0, LoopType DEF ErrorRestart, TaskType
<1>7. CASE ErrorStop(a)
  BY <1>7, <1>0, LeaveType DEF ErrorStop, TaskType
<1>8. CASE CancelLands(a)
  BY <1>8, <1>0, LeaveType DEF CancelLands, TaskType
<1>9. CASE Stops(a)
  <2>1. watch' \in [Watchers -> [slot : Slots \cup {None}, life : Nat, done : BOOLEAN]]
    BY <1>9, NotifiedType DEF Stops
  <2>2. Supervise(a, outcome[a]) /\ phase[a] = "stopping"
    BY <1>9 DEF Stops
  <2>. QED
    BY <1>9, <2>1, <2>2, SuperviseType DEF Stops
<1>10. CASE Restarts(a)
  <2>1. discarded' \subseteq Clients /\ inbox' \in [Slots -> Seq(Clients)]
        /\ closed' \in [Slots -> BOOLEAN]
    <3>1. {inbox[a][i] : i \in 1..Len(inbox[a])} \subseteq Clients
      OBVIOUS
    <3>2. CASE UNCHANGED <<inbox, closed, discarded>>
      BY <3>2
    <3>3. CASE /\ inbox' = [inbox EXCEPT ![a] = <<>>]
               /\ closed' = [closed EXCEPT ![a] = FALSE]
               /\ discarded' = discarded \cup {inbox[a][i] : i \in 1..Len(inbox[a])}
      BY <3>1, <3>3
    <3>. QED
      BY <1>10, <3>2, <3>3 DEF Restarts
  <2>2. life' \in [Slots -> Nat \ {0}] /\ phase' \in [Slots -> Phases]
        /\ running' \in [Slots -> BOOLEAN] /\ outcome' \in [Slots -> {"clean", "crash"}]
    BY <1>10 DEF Restarts, Goto, Phases, InLoop
  <2>3. \A b \in Slots : current'[b] # None
                           <=> phase'[b] \in {"arrived", "handling", "erring"}
    BY <1>10 DEF Restarts, Goto, Phases, InLoop
  <2>. QED
    BY <1>10, <2>1, <2>2, <2>3 DEF Restarts
<1>11. CASE GivesUp(a)
  BY <1>11 DEF GivesUp, Goto, Removed, Phases, InLoop
<1>. QED
  BY <1>1, <1>2, <1>3, <1>4, <1>5, <1>6, <1>7, <1>8, <1>9, <1>10, <1>11 DEF Runs

LEMMA DecidesType ==
    ASSUME TypeOK, NEW a \in Slots, Decides(a)
    PROVE  TypeOK'
<1>. USE ActorSystemAssumption DEF TypeOK, Quiet, mail, restart, actor
<1>0. TaskType
  BY DEF TaskType
<1>1. CASE StartFails(a)
  BY <1>1, <1>0, LeaveType DEF StartFails, CountCrash, TaskType
<1>2. CASE ArrivesLate(a)
  BY <1>2, <1>0, LoopType DEF ArrivesLate, TaskType
<1>3. CASE Replies(a)
  BY <1>3 DEF Replies, Resolve
<1>4. CASE Handled(a)
  BY <1>4, <1>0, LoopType DEF Handled, Resolve, TaskType
<1>5. CASE HandlerFails(a)
  BY <1>5 DEF HandlerFails, Resolve, Goto, Phases, InLoop
<1>6. CASE ErrorEscalate(a)
  BY <1>6, <1>0, LeaveType DEF ErrorEscalate, CountCrash, TaskType
<1>7. CASE StopFails(a)
  <2>1. Supervise(a, "crash") /\ phase[a] = "stopping"
    BY <1>7 DEF StopFails
  <2>2. broken' \subseteq Slots \X Nat /\ crashes' \in [Slots -> Nat]
    BY <1>7 DEF StopFails, CountCrash
  <2>. QED
    BY <1>7, <2>1, <2>2, SuperviseType DEF StopFails
<1>8. CASE StopSelf(a)
  BY <1>8 DEF StopSelf
<1>. QED
  BY <1>1, <1>2, <1>3, <1>4, <1>5, <1>6, <1>7, <1>8 DEF Decides

LEMMA StopAllType ==
    ASSUME NEW A, StopAll(A)
    PROVE  /\ running' \in [Slots -> BOOLEAN] /\ closed' \in [Slots -> BOOLEAN]
           /\ cancel' \in [Slots -> BOOLEAN]
<1>1. \A p, q : (p /\ q) \in BOOLEAN /\ (p \/ q) \in BOOLEAN
  OBVIOUS
<1>. QED
  BY <1>1 DEF StopAll

LEMMA CallsType ==
    ASSUME TypeOK, Calls
    PROVE  TypeOK'
<1>. USE ActorSystemAssumption DEF TypeOK, mail, restart, actor
<1>1. ASSUME NEW a \in Slots, NEW n \in Names, Spawn(a, n)
      PROVE  TypeOK'
  BY <1>1 DEF Spawn, Goto, Phases, InLoop
<1>2. ASSUME NEW c \in Clients, NEW a \in Slots, NEW asks \in BOOLEAN, Sends(c, a, asks)
      PROVE  TypeOK'
  <2>1. reply' \in [Clients -> {"unsent", "sent", "refused", "waiting",
                               "answered", "failed", "expired"}]
    BY <1>2 DEF Sends
  <2>2. CASE UNCHANGED <<inbox, queued>>
    BY <1>2, <2>1, <2>2 DEF Sends
  <2>3. CASE /\ inbox' = [inbox EXCEPT ![a] = Append(@, c)]
             /\ queued' = [queued EXCEPT ![a] = Append(@, c)]
    BY <1>2, <2>1, <2>3 DEF Sends
  <2>. QED
    BY <1>2, <2>2, <2>3 DEF Sends
<1>3. ASSUME NEW c \in Clients, AskExpires(c)
      PROVE  TypeOK'
  BY <1>3 DEF AskExpires
<1>4. ASSUME NEW a \in Slots, Stop(a)
      PROVE  TypeOK'
  BY <1>4, StopAllType DEF Stop
<1>5. ASSUME NEW w \in Watchers, NEW a \in Slots, Watch(w, a)
      PROVE  TypeOK'
  BY <1>5 DEF Watch
<1>6. CASE Exit
  BY <1>6, StopAllType DEF Exit
<1>7. CASE Exited
  BY <1>7 DEF Exited
<1>. HIDE DEF TypeOK
<1>. QED
  BY <1>1, <1>2, <1>3, <1>4, <1>5, <1>6, <1>7 DEF Calls

(* The attributes of a slot keep their shape, and a message is held        *)
(* exactly between get() and the end of its handling.                      *)
THEOREM TypeCorrect == Spec => []TypeOK
<1>1. Init => TypeOK
  BY ActorSystemAssumption DEF Init, TypeOK, Phases, InLoop
<1>2. TypeOK /\ [Next]_vars => TypeOK'
  <2>1. CASE UNCHANGED vars
    BY <2>1 DEF TypeOK, vars
  <2>. QED
    BY <2>1, RunsType, DecidesType, CallsType DEF Next
<1>. QED
  BY <1>1, <1>2, PTL DEF Spec

-----------------------------------------------------------------------------
(* The tasks and those who watch them                                      *)

(* Only a task in its loop runs.                                           *)
RunningInLoop == \A a \in Slots : running[a] => phase[a] \in InLoop

(* CancelMeansStopped is inductive by itself; NothingLeft and              *)
(* NoForgottenWatcher are with RunningInLoop.                              *)
TaskInv ==
    /\ CancelMeansStopped
    /\ RunningInLoop
    /\ NothingLeft
    /\ NoForgottenWatcher

(* What the four say of the variables of a task, when it leaves its loop   *)
(* or goes on in it and nothing else of theirs changes.                    *)
LEMMA LeaveTask ==
    ASSUME TypeOK, TaskInv, NEW a \in Slots, NEW how, Leave(a, how), phase[a] \in InLoop,
           UNCHANGED <<system, registry, closed, life, watch, broken>>
    PROVE  TaskInv'
<1>. USE DEF TypeOK, TaskInv, Leave, Goto, InLoop
<1>1. CancelMeansStopped' /\ RunningInLoop'
  BY DEF CancelMeansStopped, RunningInLoop
<1>2. NothingLeft'
  BY DEF NothingLeft
<1>3. NoForgottenWatcher'
  BY ActorSystemAssumption DEF NoForgottenWatcher
<1>. QED
  BY <1>1, <1>2, <1>3

LEMMA StayTask ==
    ASSUME TypeOK, TaskInv, NEW a \in Slots, NEW p \in InLoop, Goto(a, p), phase[a] \in InLoop,
           cancel' = cancel \/ cancel' = [cancel EXCEPT ![a] = FALSE],
           UNCHANGED <<system, registry, running, closed, life, watch, broken>>
    PROVE  TaskInv'
<1>. USE DEF TypeOK, TaskInv, Goto, InLoop
<1>1. CancelMeansStopped' /\ RunningInLoop'
  BY DEF CancelMeansStopped, RunningInLoop
<1>2. NothingLeft'
  BY DEF NothingLeft
<1>3. NoForgottenWatcher'
  BY ActorSystemAssumption DEF NoForgottenWatcher
<1>. QED
  BY <1>1, <1>2, <1>3

LEMMA LoopTask ==
    ASSUME TypeOK, TaskInv, NEW a \in Slots, Loop(a), phase[a] \in InLoop,
           UNCHANGED <<system, registry, closed, life, watch, broken>>
    PROVE  TaskInv'
BY LeaveTask, StayTask DEF Loop, InLoop

(* _supervise goes on after the end of _run: whoever watched this          *)
(* incarnation has been told, or its on_stop() raised.                     *)
LEMMA SuperviseTask ==
    ASSUME TypeOK, TaskInv, NEW a \in Slots, NEW how, Supervise(a, how),
           phase[a] = "stopping", NoForgottenWatcher',
           UNCHANGED <<system, running, cancel, closed>>
    PROVE  TaskInv'
<1>. USE DEF TypeOK, TaskInv, InLoop
<1>1. \E p \in {"backoff", "gone"} : phase' = [phase EXCEPT ![a] = p]
  BY DEF Supervise, Goto
<1>2. CancelMeansStopped' /\ RunningInLoop'
  BY <1>1 DEF CancelMeansStopped, RunningInLoop
<1>3. NothingLeft'
  BY <1>1 DEF NothingLeft
<1>. QED
  BY <1>2, <1>3

LEMMA RunsTask ==
    ASSUME TypeOK, TaskInv, NEW a \in Slots, Runs(a)
    PROVE  TaskInv'
<1>. USE DEF Quiet, mail, restart
<1>1. CASE Begins(a)
  <2>. USE <1>1, ActorSystemAssumption DEF TypeOK, TaskInv, Begins, Goto, InLoop
  <2>1. CancelMeansStopped' /\ RunningInLoop'
    <3>1. CASE /\ phase' = [phase EXCEPT ![a] = "starting"]
               /\ running' = [running EXCEPT ![a] = TRUE]
      BY <3>1 DEF CancelMeansStopped, RunningInLoop
    <3>2. CASE phase' = [phase EXCEPT ![a] = "gone"] /\ UNCHANGED running
      BY <3>2 DEF CancelMeansStopped, RunningInLoop
    <3>. QED
      BY <3>1, <3>2
  <2>2. NothingLeft'
    BY DEF NothingLeft, Removed
  <2>3. NoForgottenWatcher'
    BY DEF NoForgottenWatcher
  <2>. QED
    BY <2>1, <2>2, <2>3
<1>2. CASE Started(a)
  BY <1>2, LoopTask DEF Started, InLoop
<1>3. CASE Arrives(a)
  BY <1>3, StayTask DEF Arrives, InLoop
<1>4. CASE Takes(a)
  BY <1>4, StayTask DEF Takes, InLoop
<1>5. CASE PollFails(a)
  BY <1>5, LeaveTask DEF PollFails, InLoop
<1>6. CASE ErrorRestart(a)
  BY <1>6, LoopTask DEF ErrorRestart, InLoop
<1>7. CASE ErrorStop(a)
  BY <1>7, LeaveTask DEF ErrorStop, InLoop
<1>8. CASE CancelLands(a)
  BY <1>8, LeaveTask DEF CancelLands, InLoop
<1>9. CASE Stops(a)
  <2>1. ASSUME NEW w \in Watchers, watch'[w].slot # None, ~watch'[w].done
        PROVE  /\ watch'[w] = watch[w]
               /\ ~(watch[w].slot = a /\ watch[w].life = life[a])
    BY <1>9, <2>1 DEF Stops, Notified, TypeOK
  <2>2. \A b \in Slots : b # a => phase'[b] = phase[b]
    BY <1>9 DEF Stops, Supervise, Goto, TypeOK
  <2>3. NoForgottenWatcher'
    <3>. SUFFICES ASSUME NEW w \in Watchers, watch'[w].slot # None, ~watch'[w].done
                  PROVE  \/ /\ watch'[w].life = life'[watch'[w].slot]
                            /\ phase'[watch'[w].slot] \in InLoop \cup {"stopping"}
                         \/ <<watch'[w].slot, watch'[w].life>> \in broken'
      BY DEF NoForgottenWatcher
    <3>1. watch'[w] = watch[w] /\ ~(watch[w].slot = a /\ watch[w].life = life[a])
      BY <2>1
    <3>2. \/ /\ watch[w].life = life[watch[w].slot]
             /\ phase[watch[w].slot] \in InLoop \cup {"stopping"}
          \/ <<watch[w].slot, watch[w].life>> \in broken
      BY <3>1 DEF TaskInv, NoForgottenWatcher
    <3>3. watch[w].slot \in Slots
      BY <3>1 DEF TypeOK
    <3>. QED
      BY <1>9, <2>2, <3>1, <3>2, <3>3 DEF Stops
  <2>. QED
    <3>1. PICK how : how = outcome[a]
      OBVIOUS
    <3>2. /\ Supervise(a, how) /\ phase[a] = "stopping"
          /\ UNCHANGED <<system, running, cancel, closed>>
      BY <1>9, <3>1 DEF Stops
    <3>3. TypeOK /\ TaskInv
      OBVIOUS
    <3>. QED
      BY ONLY <2>3, <3>2, <3>3, a \in Slots, SuperviseTask
<1>10. CASE Restarts(a)
  <2>. USE <1>10, ActorSystemAssumption DEF TypeOK, TaskInv, Restarts, Goto, InLoop
  <2>1. CancelMeansStopped' /\ RunningInLoop'
    <3>1. /\ phase' = [phase EXCEPT ![a] = "starting"]
          /\ running' = [running EXCEPT ![a] = TRUE]
          /\ UNCHANGED <<system, cancel>>
      OBVIOUS
    <3>2. CancelMeansStopped'
      BY <3>1 DEF CancelMeansStopped
    <3>3. RunningInLoop'
      BY <3>1 DEF RunningInLoop
    <3>. QED
      BY <3>2, <3>3
  <2>2. NothingLeft'
    BY DEF NothingLeft
  <2>3. NoForgottenWatcher'
    BY DEF NoForgottenWatcher
  <2>. QED
    BY <2>1, <2>2, <2>3
<1>11. CASE GivesUp(a)
  <2>. USE <1>11, ActorSystemAssumption DEF TypeOK, TaskInv, GivesUp, Goto, InLoop
  <2>1. CancelMeansStopped' /\ RunningInLoop'
    BY DEF CancelMeansStopped, RunningInLoop
  <2>2. NothingLeft'
    BY DEF NothingLeft, Removed
  <2>3. NoForgottenWatcher'
    BY DEF NoForgottenWatcher
  <2>. QED
    BY <2>1, <2>2, <2>3
<1>. QED
  BY <1>1, <1>2, <1>3, <1>4, <1>5, <1>6, <1>7, <1>8, <1>9, <1>10, <1>11 DEF Runs

LEMMA DecidesTask ==
    ASSUME TypeOK, TaskInv, NEW a \in Slots, Decides(a)
    PROVE  TaskInv'
<1>. USE DEF Quiet, mail, restart
<1>1. CASE StartFails(a)
  BY <1>1, LeaveTask DEF StartFails, InLoop
<1>2. CASE ArrivesLate(a)
  BY <1>2, LoopTask DEF ArrivesLate, InLoop
<1>3. CASE Replies(a)
  BY <1>3 DEF Replies, actor, TaskInv, CancelMeansStopped, RunningInLoop, NothingLeft,
              NoForgottenWatcher
<1>4. CASE Handled(a)
  BY <1>4, LoopTask DEF Handled, InLoop
<1>5. CASE HandlerFails(a)
  BY <1>5, StayTask DEF HandlerFails, InLoop
<1>6. CASE ErrorEscalate(a)
  BY <1>6, LeaveTask DEF ErrorEscalate, InLoop
<1>7. CASE StopFails(a)
  <2>1. NoForgottenWatcher'
    BY <1>7 DEF StopFails, Supervise, Goto, TaskInv, NoForgottenWatcher, TypeOK
  <2>. QED
    BY <1>7, <2>1, SuperviseTask DEF StopFails
<1>8. CASE StopSelf(a)
  BY <1>8 DEF StopSelf, TypeOK, TaskInv, CancelMeansStopped, RunningInLoop, NothingLeft,
              NoForgottenWatcher
<1>. QED
  BY <1>1, <1>2, <1>3, <1>4, <1>5, <1>6, <1>7, <1>8 DEF Decides

LEMMA StopAllTask ==
    ASSUME TypeOK, TaskInv, NEW A, StopAll(A),
           system' = system \/ system' = "exiting",
           UNCHANGED <<registry, phase, life, watch, broken>>
    PROVE  TaskInv'
<1>. USE DEF TypeOK, TaskInv, StopAll
<1>1. CancelMeansStopped'
  BY DEF CancelMeansStopped
<1>2. RunningInLoop'
  BY DEF RunningInLoop
<1>3. NothingLeft'
  BY DEF NothingLeft
<1>4. NoForgottenWatcher'
  BY DEF NoForgottenWatcher
<1>. QED
  BY <1>1, <1>2, <1>3, <1>4

LEMMA CallsTask ==
    ASSUME TypeOK, TaskInv, Calls
    PROVE  TaskInv'
<1>. USE DEF mail, restart, actor
<1>1. ASSUME NEW a \in Slots, NEW n \in Names, Spawn(a, n)
      PROVE  TaskInv'
  <2>. USE <1>1, ActorSystemAssumption DEF TypeOK, TaskInv, Spawn, Goto, InLoop
  <2>1. CancelMeansStopped' /\ RunningInLoop' /\ NothingLeft'
    BY DEF CancelMeansStopped, RunningInLoop, NothingLeft
  <2>2. NoForgottenWatcher'
    BY DEF NoForgottenWatcher
  <2>. QED
    BY <2>1, <2>2
<1>2. ASSUME NEW c \in Clients, NEW a \in Slots, NEW asks \in BOOLEAN, Sends(c, a, asks)
      PROVE  TaskInv'
  BY <1>2 DEF Sends, TaskInv, CancelMeansStopped, RunningInLoop, NothingLeft,
              NoForgottenWatcher
<1>3. ASSUME NEW c \in Clients, AskExpires(c)
      PROVE  TaskInv'
  BY <1>3 DEF AskExpires, TaskInv, CancelMeansStopped, RunningInLoop, NothingLeft,
              NoForgottenWatcher
<1>4. ASSUME NEW a \in Slots, Stop(a)
      PROVE  TaskInv'
  BY <1>4, StopAllTask DEF Stop
<1>5. ASSUME NEW w \in Watchers, NEW a \in Slots, Watch(w, a)
      PROVE  TaskInv'
  <2>1. CancelMeansStopped' /\ RunningInLoop' /\ NothingLeft'
    BY <1>5 DEF Watch, TaskInv, CancelMeansStopped, RunningInLoop, NothingLeft
  <2>. DEFINE d == ~running[a] /\ phase[a] \notin InLoop
  <2>2. watch' = [watch EXCEPT ![w] = [slot |-> a, life |-> life[a], done |-> d]]
    BY <1>5 DEF Watch
  <2>3. ~d => running[a] \/ phase[a] \in InLoop
    OBVIOUS
  <2>. HIDE DEF d
  <2>4. NoForgottenWatcher'
    BY <1>5, <2>2, <2>3 DEF Watch, TaskInv, RunningInLoop, NoForgottenWatcher, TypeOK
  <2>. QED
    BY <2>1, <2>4 DEF TaskInv
<1>6. CASE Exit
  BY <1>6, StopAllTask DEF Exit
<1>7. CASE Exited
  BY <1>7 DEF Exited, Spawned, TypeOK, Phases, InLoop, TaskInv, CancelMeansStopped,
              RunningInLoop, NothingLeft, NoForgottenWatcher
<1>. QED
  BY <1>1, <1>2, <1>3, <1>4, <1>5, <1>6, <1>7 DEF Calls

(* The four parts of TaskInv hold in every reachable state.                *)
THEOREM TaskInvariance == Spec => []TaskInv
<1>1. Init => TaskInv
  BY DEF Init, TaskInv, CancelMeansStopped, RunningInLoop, NothingLeft, NoForgottenWatcher
<1>2. TypeOK /\ TaskInv /\ [Next]_vars => TaskInv'
  <2>1. CASE UNCHANGED vars
    BY <2>1 DEF vars, TaskInv, CancelMeansStopped, RunningInLoop, NothingLeft,
                NoForgottenWatcher
  <2>. QED
    BY <2>1, RunsTask, DecidesTask, CallsTask DEF Next
<1>. QED
  BY <1>1, <1>2, TypeCorrect, PTL DEF Spec

(* A cancellation under way is one of stop(), so the CancelledError that   *)
(* lands may be swallowed by _run.                                         *)
THEOREM CancelSafety == Spec => []CancelMeansStopped
<1>1. TaskInv => CancelMeansStopped
  BY DEF TaskInv
<1>. QED
  BY <1>1, TaskInvariance, PTL

(* Nobody waits for the end of an incarnation that has ended, unless its   *)
(* on_stop() raised.                                                       *)
THEOREM WatchersTold == Spec => []NoForgottenWatcher
<1>1. TaskInv => NoForgottenWatcher
  BY DEF TaskInv
<1>. QED
  BY <1>1, TaskInvariance, PTL

(* Leaving the system leaves no task, running actor or name behind.        *)
THEOREM ExitLeavesNothing == Spec => []NothingLeft
<1>1. TaskInv => NothingLeft
  BY DEF TaskInv
<1>. QED
  BY <1>1, TaskInvariance, PTL

-----------------------------------------------------------------------------
(* Sequences                                                               *)

(* Facts of SequenceTheorems, for sequences of messages.                   *)
LEMMA Concat ==
    ASSUME NEW s \in Seq(Clients), NEW t \in Seq(Clients)
    PROVE  /\ s \o t \in Seq(Clients)
           /\ Len(s \o t) = Len(s) + Len(t)
           /\ \A i \in 1..Len(s) + Len(t) :
                  (s \o t)[i] = IF i <= Len(s) THEN s[i] ELSE t[i - Len(s)]
BY ConcatProperties

LEMMA Front ==
    ASSUME NEW s \in Seq(Clients), NEW t \in Seq(Clients), NEW i \in 1..Len(s)
    PROVE  i \in 1..Len(s \o t) /\ (s \o t)[i] = s[i]
<1>1. Len(s) \in Nat /\ Len(t) \in Nat
  OBVIOUS
<1>. QED
  BY <1>1, Concat

LEMMA Back ==
    ASSUME NEW s \in Seq(Clients), NEW t \in Seq(Clients), NEW i \in 1..Len(t)
    PROVE  Len(s) + i \in 1..Len(s \o t) /\ (s \o t)[Len(s) + i] = t[i]
<1>1. Len(s) \in Nat /\ Len(t) \in Nat
  OBVIOUS
<1>. QED
  BY <1>1, Concat

LEMMA AtEnd ==
    ASSUME NEW s \in Seq(Clients), NEW c \in Clients, NEW i \in 1..Len(Append(s, c))
    PROVE  \/ i = Len(s) + 1 /\ Append(s, c)[i] = c
           \/ i \in 1..Len(s) /\ Append(s, c)[i] = s[i]
<1>1. Len(s) \in Nat
  OBVIOUS
<1>. QED
  BY <1>1, AppendProperties

LEMMA Regroup ==
    ASSUME NEW s \in Seq(Clients), NEW t \in Seq(Clients), NEW u \in Seq(Clients)
    PROVE  (s \o t) \o u = s \o (t \o u)
BY ConcatAssociative

LEMMA Blank ==
    ASSUME NEW s \in Seq(Clients)
    PROVE  s \o <<>> = s /\ <<>> \o s = s
BY ConcatEmptySeq

(* A sequence is its head followed by its tail.                            *)
LEMMA ConsIsSeq ==
    ASSUME NEW s \in Seq(Clients), s # <<>>
    PROVE  <<Head(s)>> \o Tail(s) = s
<1>1. /\ Head(s) \in Clients /\ Tail(s) \in Seq(Clients) /\ Len(Tail(s)) = Len(s) - 1
      /\ \A i \in 1..Len(Tail(s)) : Tail(s)[i] = s[i + 1]
  BY HeadTailProperties
<1>2. <<Head(s)>> \in Seq(Clients) /\ Len(<<Head(s)>>) = 1
  BY <1>1
<1>3. /\ <<Head(s)>> \o Tail(s) \in Seq(Clients)
      /\ Len(<<Head(s)>> \o Tail(s)) = Len(s)
      /\ \A i \in 1..Len(s) : (<<Head(s)>> \o Tail(s))[i] 
                  = IF i <= 1 THEN <<Head(s)>>[i] ELSE Tail(s)[i - 1]
  BY <1>1, <1>2, Concat
<1>4. \A i \in 1..Len(s) : (<<Head(s)>> \o Tail(s))[i] = s[i]
  BY <1>1, <1>3
<1>. QED
  BY <1>3, <1>4, SeqEqual

(* The three lemmas say that messages move along a line without any change *)
(* of the line: a new one at its end, one from the inbox to the loop, and   *)
(* one from the loop to the handler.                                       *)
LEMMA AppendLast ==
    ASSUME NEW s \in Seq(Clients), NEW t \in Seq(Clients), NEW u \in Seq(Clients), NEW c \in Clients
    PROVE  s \o t \o Append(u, c) = Append(s \o t \o u, c)
<1>1. s \o t \in Seq(Clients) /\ <<c>> \in Seq(Clients)
  BY Concat
<1>2. s \o t \o u \in Seq(Clients)
  BY <1>1, Concat
<1>3. Append(u, c) = u \o <<c>>
  BY AppendIsConcat
<1>4. Append(s \o t \o u, c) = s \o t \o u \o <<c>>
  BY <1>2, AppendIsConcat
<1>. QED
  BY <1>1, <1>3, <1>4, Regroup

LEMMA MiddleFirst ==
    ASSUME NEW s \in Seq(Clients), NEW u \in Seq(Clients), u # <<>>
    PROVE  s \o <<Head(u)>> \o Tail(u) = s \o <<>> \o u
<1>1. /\ <<Head(u)>> \in Seq(Clients) /\ Tail(u) \in Seq(Clients)
  BY HeadTailProperties
<1>2. s \o <<Head(u)>> \o Tail(u) = s \o u
  BY <1>1, ConsIsSeq, Regroup
<1>. QED
  BY <1>2, Blank

LEMMA MiddleLast ==
    ASSUME NEW s \in Seq(Clients), NEW u \in Seq(Clients), NEW c \in Clients
    PROVE  Append(s, c) \o <<>> \o u = s \o <<c>> \o u
<1>1. Append(s, c) \in Seq(Clients) /\ Append(s, c) = s \o <<c>>
  BY AppendIsConcat
<1>. QED
  BY <1>1, Blank
-----------------------------------------------------------------------------
(* The mail                                                                *)

(* The message get() has returned and the loop has not yet looked at.      *)
Held(a) == IF phase[a] = "arrived" THEN <<current[a]>> ELSE <<>>

(* What has been handled and what is still to be handled, in order.        *)
Line(a) == taken[a] \o Held(a) \o inbox[a]

(* The elements of s occur in q, in the same order.                        *)
Follows(s, q) ==
    /\ \A i \in 1..Len(s) : \E p \in 1..Len(q) : q[p] = s[i]
    /\ \A i, j \in 1..Len(s) : i < j =>
            \E p, r \in 1..Len(q) : p < r /\ q[p] = s[i] /\ q[r] = s[j]

MailInOrder == \A a \in Slots : Follows(Line(a), queued[a])

(* A client sends one message: its place in the queues is unique.          *)
SentOnce ==
    /\ \A a \in Slots : \A i \in 1..Len(queued[a]) : reply[queued[a][i]] # "unsent"
    /\ \A a, b \in Slots : \A i \in 1..Len(queued[a]), j \in 1..Len(queued[b]) :
            queued[a][i] = queued[b][j] => a = b /\ i = j
    /\ \A c \in discarded : reply[c] # "unsent"

(* Before the exit, an inbox is closed by stop() only.                     *)
ClosedByStop == \A a \in Slots : closed[a] /\ system = "running" => a \in stopped

MailInv == MailInOrder /\ SentOnce /\ ClosedByStop /\ DiscardedOnlyIfStopped

LEMMA LineType ==
    ASSUME TypeOK, NEW a \in Slots
    PROVE  Held(a) \in Seq(Clients) /\ Line(a) \in Seq(Clients)
<1>1. phase[a] = "arrived" => current[a] \in Clients
  BY DEF TypeOK
<1>. QED
  BY <1>1 DEF Held, Line, TypeOK

(* Leaving out a part of a sequence keeps the order of the rest.           *)
LEMMA DropFollows ==
    ASSUME NEW s \in Seq(Clients), NEW t \in Seq(Clients), NEW u \in Seq(Clients), NEW q,
           Follows(s \o t \o u, q)
    PROVE  Follows(s \o u, q)
<1>. DEFINE all == s \o t \o u  rest == s \o u
<1>. DEFINE at(i) == IF i <= Len(s) THEN i ELSE i + Len(t)
<1>1. ASSUME NEW i \in 1..Len(rest)
      PROVE  at(i) \in 1..Len(all) /\ rest[i] = all[at(i)]
  <2>1. s \o t \in Seq(Clients) /\ Len(s \o t) = Len(s) + Len(t)
        /\ Len(s) \in Nat /\ Len(t) \in Nat /\ Len(u) \in Nat
    BY Concat
  <2>2. Len(all) = Len(s) + Len(t) + Len(u) /\ Len(rest) = Len(s) + Len(u)
    BY <2>1, Concat
  <2>3. CASE i <= Len(s)
    <3>1. (s \o t)[i] = s[i]
      BY <2>1, <2>2, <2>3, Concat
    <3>. QED
      BY <2>1, <2>2, <2>3, <3>1, Concat
  <2>4. CASE i > Len(s)
    <3>1. rest[i] = u[i - Len(s)]
      BY <2>1, <2>2, <2>4, Concat
    <3>2. all[i + Len(t)] = u[i + Len(t) - Len(s \o t)]
      BY <2>1, <2>2, <2>4, Concat
    <3>. QED
      BY <2>1, <2>2, <2>4, <3>1, <3>2
  <2>. QED
    BY <2>1, <2>3, <2>4
<1>2. \A i, j \in 1..Len(rest) : i < j => at(i) < at(j)
  <2>1. Len(s) \in Nat /\ Len(t) \in Nat
    OBVIOUS
  <2>. QED
    BY <2>1
<1>3. Follows(all, q)
  OBVIOUS
<1>. HIDE DEF at, all, rest
<1>4. Follows(rest, q)
  <2>1. ASSUME NEW i \in 1..Len(rest)
        PROVE  \E p \in 1..Len(q) : q[p] = rest[i]
    <3>1. PICK p \in 1..Len(q) : q[p] = all[at(i)]
      BY <1>1, <1>3 DEF Follows
    <3>. QED
      BY <1>1, <3>1
  <2>2. ASSUME NEW i \in 1..Len(rest), NEW j \in 1..Len(rest), i < j
        PROVE  \E p, r \in 1..Len(q) : p < r /\ q[p] = rest[i] /\ q[r] = rest[j]
    <3>1. at(i) \in 1..Len(all) /\ at(j) \in 1..Len(all) /\ at(i) < at(j)
      BY <1>1, <1>2, <2>2
    <3>2. PICK p \in 1..Len(q), r \in 1..Len(q) : p < r /\ q[p] = all[at(i)] /\ q[r] = all[at(j)]
      BY <1>3, <3>1 DEF Follows
    <3>. QED
      BY <1>1, <3>2
  <2>. QED
    BY <2>1, <2>2 DEF Follows
<1>. QED
  BY <1>4 DEF rest

(* A new message is the last one.                                          *)
LEMMA AppendFollows ==
    ASSUME NEW s \in Seq(Clients), NEW q \in Seq(Clients), NEW c \in Clients, Follows(s, q)
    PROVE  Follows(Append(s, c), Append(q, c))
<1>. DEFINE t == Append(s, c)  r == Append(q, c)
<1>1. /\ Len(t) = Len(s) + 1 /\ t[Len(t)] = c /\ \A i \in 1..Len(s) : t[i] = s[i]
      /\ Len(r) = Len(q) + 1 /\ r[Len(r)] = c /\ \A i \in 1..Len(q) : r[i] = q[i]
      /\ Len(s) \in Nat /\ Len(q) \in Nat
  OBVIOUS
<1>. HIDE DEF t, r
<1>2. ASSUME NEW i \in 1..Len(t)
      PROVE  \E p \in 1..Len(r) : r[p] = t[i]
  <2>1. CASE i \in 1..Len(s)
    <3>1. PICK p \in 1..Len(q) : q[p] = s[i]
      BY <2>1 DEF Follows
    <3>. QED
      BY <1>1, <2>1, <3>1
  <2>2. CASE i = Len(t)
    BY <1>1, <2>2
  <2>. QED
    BY <1>1, <2>1, <2>2
<1>3. ASSUME NEW i \in 1..Len(t), NEW j \in 1..Len(t), i < j
      PROVE  \E p, k \in 1..Len(r) : p < k /\ r[p] = t[i] /\ r[k] = t[j]
  <2>1. i \in 1..Len(s) /\ t[i] = s[i]
    BY <1>1, <1>3
  <2>2. CASE j \in 1..Len(s)
    <3>1. PICK p \in 1..Len(q), k \in 1..Len(q) : p < k /\ q[p] = s[i] /\ q[k] = s[j]
      BY <1>3, <2>1, <2>2 DEF Follows
    <3>. QED
      BY <1>1, <2>1, <2>2, <3>1
  <2>3. CASE j = Len(t)
    <3>1. PICK p \in 1..Len(q) : q[p] = s[i]
      BY <2>1 DEF Follows
    <3>2. p < Len(r) /\ Len(r) \in 1..Len(r) /\ p \in 1..Len(r)
      BY <1>1
    <3>. QED
      BY <1>1, <2>1, <2>3, <3>1, <3>2
  <2>. QED
    BY <1>1, <2>2, <2>3
<1>. QED
  BY <1>2, <1>3 DEF t, r, Follows

(* A step that accepts, throws away and handles no message may at most     *)
(* drop the one that the loop holds.                                       *)
LEMMA MailFrame ==
    ASSUME TypeOK, TypeOK', MailInv,
           UNCHANGED <<inbox, queued, taken, discarded>>,
           \A a \in Slots : Held(a)' \in {Held(a), <<>>},
           \A c \in Clients : reply[c] # "unsent" => reply'[c] # "unsent",
           stopped \subseteq stopped', ClosedByStop'
    PROVE  MailInv'
<1>1. ASSUME NEW a \in Slots
      PROVE  Follows(Line(a)', queued[a])
  <2>1. Follows(Line(a), queued[a])
    BY DEF MailInv, MailInOrder
  <2>2. CASE Held(a)' = Held(a)
    BY <2>1, <2>2 DEF Line
  <2>3. CASE Held(a)' = <<>>
    <3>1. taken[a] \in Seq(Clients) /\ inbox[a] \in Seq(Clients)
      BY DEF TypeOK
    <3>2. Line(a)' = taken[a] \o inbox[a]
      BY <2>3, <3>1 DEF Line
    <3>. QED
      BY <2>1, <3>1, <3>2, LineType, DropFollows DEF Line
  <2>. QED
    BY <2>2, <2>3
<1>2. MailInOrder'
  BY <1>1 DEF MailInOrder
<1>3. SentOnce'
  BY DEF MailInv, SentOnce, TypeOK
<1>4. DiscardedOnlyIfStopped'
  BY DEF MailInv, DiscardedOnlyIfStopped, Range_
<1>. QED
  BY <1>2, <1>3, <1>4 DEF MailInv

(* The same of the steps of a task.                                        *)
LEMMA TaskMail ==
    ASSUME TypeOK, TypeOK', MailInv, NEW a \in Slots, NEW p \in Phases \ {"arrived"},
           Goto(a, p), UNCHANGED <<system, mail, taken, stopped>>,
           \A b \in Slots : b # a => current'[b] = current[b],
           \A c \in Clients : reply[c] # "unsent" => reply'[c] # "unsent"
    PROVE  MailInv'
<1>1. \A b \in Slots : Held(b)' \in {Held(b), <<>>}
  BY DEF Held, Goto, TypeOK
<1>2. ClosedByStop'
  BY DEF MailInv, ClosedByStop, mail
<1>. QED
  BY <1>1, <1>2, MailFrame DEF mail

LEMMA LeaveMail ==
    ASSUME TypeOK, TypeOK', MailInv, NEW a \in Slots, NEW how, Leave(a, how) \/ Loop(a),
           UNCHANGED <<system, mail, taken, stopped>>,
           \A c \in Clients : reply[c] # "unsent" => reply'[c] # "unsent"
    PROVE  MailInv'
<1>1. \A b \in Slots : b # a => current'[b] = current[b]
  <2>1. current' = [current EXCEPT ![a] = None]
    BY DEF Leave, Loop
  <2>. QED
    BY <2>1 DEF TypeOK
<1>2. \E p \in {"stopping", "polling"} : Goto(a, p)
  BY DEF Leave, Loop
<1>. QED
  BY <1>1, <1>2, TaskMail DEF Phases, InLoop

LEMMA SuperviseMail ==
    ASSUME TypeOK, TypeOK', MailInv, NEW a \in Slots, NEW how, Supervise(a, how),
           UNCHANGED <<system, mail, taken, stopped, current, reply>>
    PROVE  MailInv'
<1>1. \E p \in {"backoff", "gone"} : Goto(a, p)
  BY DEF Supervise
<1>. QED
  BY <1>1, TaskMail DEF Phases

(* The future of a message is never unsent again.                          *)
LEMMA ResolveMail ==
    ASSUME TypeOK, NEW a \in Slots, NEW how \in {"answered", "failed"}, Resolve(a, how)
    PROVE  \A c \in Clients : reply[c] # "unsent" => reply'[c] # "unsent"
BY DEF Resolve, TypeOK

LEMMA ArrivesMail ==
    ASSUME TypeOK, TypeOK', MailInv, NEW a \in Slots, Arrives(a)
    PROVE  MailInv'
<1>. USE DEF Arrives
<1>1. ASSUME NEW b \in Slots
      PROVE  Line(b)' = Line(b)
  <2>1. CASE b # a
    <3>1. taken'[b] = taken[b] /\ inbox'[b] = inbox[b]
      BY <2>1 DEF TypeOK
    <3>2. phase'[b] = phase[b] /\ current'[b] = current[b]
      BY <2>1 DEF Goto, TypeOK
    <3>3. Held(b)' = Held(b)
      BY <3>2 DEF Held
    <3>. QED
      BY <3>1, <3>3 DEF Line
  <2>2. CASE b = a
    <3>1. Held(a) = <<>> /\ Held(a)' = <<Head(inbox[a])>>
      BY DEF Held, Goto, TypeOK
    <3>2. /\ taken[a] \in Seq(Clients) /\ inbox[a] \in Seq(Clients) /\ inbox[a] # <<>>
          /\ taken'[a] = taken[a] /\ inbox'[a] = Tail(inbox[a])
      BY DEF TypeOK
    <3>3. taken[a] \o <<>> \o inbox[a] = taken[a] \o <<Head(inbox[a])>> \o Tail(inbox[a])
      BY <3>2, MiddleFirst
    <3>. QED
      BY <2>2, <3>1, <3>2, <3>3 DEF Line
  <2>. QED
    BY <2>1, <2>2
<1>2. MailInOrder'
  BY <1>1 DEF MailInv, MailInOrder
<1>. QED
  BY <1>2 DEF MailInv, SentOnce, ClosedByStop, DiscardedOnlyIfStopped

LEMMA TakesMail ==
    ASSUME TypeOK, TypeOK', MailInv, NEW a \in Slots, Takes(a)
    PROVE  MailInv'
<1>. USE DEF Takes, Quiet, mail
<1>1. ASSUME NEW b \in Slots
      PROVE  Line(b)' = Line(b)
  <2>1. CASE b # a
    BY <2>1 DEF Line, Held, Goto, TypeOK
  <2>2. CASE b = a
    <3>1. Held(a) = <<current[a]>> /\ Held(a)' = <<>>
      BY DEF Held, Goto, TypeOK
    <3>2. /\ taken[a] \in Seq(Clients) /\ inbox[a] \in Seq(Clients) /\ current[a] \in Clients
          /\ taken'[a] = Append(taken[a], current[a]) /\ inbox'[a] = inbox[a]
      BY ActorSystemAssumption DEF TypeOK
    <3>3. taken[a] \o <<current[a]>> \o inbox[a]
            = Append(taken[a], current[a]) \o <<>> \o inbox[a]
      BY <3>2, MiddleLast
    <3>. QED
      BY <2>2, <3>1, <3>2, <3>3 DEF Line
  <2>. QED
    BY <2>1, <2>2
<1>2. MailInOrder'
  BY <1>1 DEF MailInv, MailInOrder
<1>. QED
  BY <1>2 DEF MailInv, SentOnce, ClosedByStop, DiscardedOnlyIfStopped

(* What a restart throws away was accepted by this slot and by no other.   *)
LEMMA RestartsMail ==
    ASSUME TypeOK, TypeOK', MailInv, NEW a \in Slots, Restarts(a)
    PROVE  MailInv'
<1>. USE DEF Restarts
<1>1. CASE UNCHANGED <<inbox, closed, discarded>>
  <2>1. \A b \in Slots : b # a => current'[b] = current[b]
    OBVIOUS
  <2>. QED
    BY <1>1, <2>1, TaskMail DEF mail, Phases, InLoop
<1>2. CASE /\ closed[a]
           /\ inbox' = [inbox EXCEPT ![a] = <<>>]
           /\ closed' = [closed EXCEPT ![a] = FALSE]
           /\ discarded' = discarded \cup {inbox[a][i] : i \in 1..Len(inbox[a])}
  <2>0. inbox[a] \in Seq(Clients) /\ taken[a] \in Seq(Clients) /\ queued[a] \in Seq(Clients)
    BY DEF TypeOK
  <2>1. Held(a) = <<>> /\ Held(a)' = <<>>
    BY DEF Held, Goto, TypeOK
  <2>2. Follows(taken[a] \o inbox[a], queued[a])
    <3>1. Line(a) = taken[a] \o inbox[a]
      BY <2>0, <2>1 DEF Line
    <3>. QED
      BY <3>1 DEF MailInv, MailInOrder
  <2>3. MailInOrder'
    <3>. SUFFICES ASSUME NEW b \in Slots
                  PROVE  Follows(Line(b)', queued[b])
      BY DEF MailInOrder
    <3>1. CASE b # a
      <4>1. Line(b)' = Line(b)
        <5>1. taken'[b] = taken[b] /\ inbox'[b] = inbox[b]
          BY <1>2, <3>1 DEF TypeOK
        <5>2. Held(b)' = Held(b)
          BY <3>1 DEF Held, Goto, TypeOK
        <5>. QED
          BY <5>1, <5>2 DEF Line
      <4>. QED
        BY <4>1 DEF MailInv, MailInOrder
    <3>2. CASE b = a
      <4>1. Line(a)' = taken[a] \o <<>>
        <5>1. taken' = taken /\ inbox'[a] = <<>> /\ Held(a)' = <<>>
          BY <1>2, <2>1 DEF TypeOK
        <5>. QED
          BY <2>0, <5>1 DEF Line
      <4>2. Follows(taken[a] \o inbox[a] \o <<>>, queued[a])
        <5>1. taken[a] \o inbox[a] \in Seq(Clients)
          BY <2>0, Concat
        <5>2. taken[a] \o inbox[a] \o <<>> = taken[a] \o inbox[a]
          BY ONLY <5>1, Blank
        <5>. QED
          BY ONLY <2>2, <5>2
      <4>3. <<>> \in Seq(Clients)
        OBVIOUS
      <4>. QED
        BY <2>0, <3>2, <4>1, <4>2, <4>3, DropFollows
    <3>. QED
      BY <3>1, <3>2
  <2>4. ASSUME NEW i \in 1..Len(inbox[a])
        PROVE  \E p \in 1..Len(queued[a]) : queued[a][p] = inbox[a][i]
    <3>1. /\ Len(taken[a]) + i \in 1..Len(taken[a] \o inbox[a])
          /\ (taken[a] \o inbox[a])[Len(taken[a]) + i] = inbox[a][i]
      BY <2>0, Back
    <3>2. \A k \in 1..Len(taken[a] \o inbox[a]) : \E p \in 1..Len(queued[a]) :
              queued[a][p] = (taken[a] \o inbox[a])[k]
      BY ONLY <2>2 DEF Follows
    <3>3. \E p \in 1..Len(queued[a]) :
              queued[a][p] = (taken[a] \o inbox[a])[Len(taken[a]) + i]
      BY ONLY <3>1, <3>2
    <3>. QED
      BY ONLY <3>1, <3>3
  <2>5. SentOnce'
    BY <1>2, <2>4 DEF MailInv, SentOnce
  <2>6. ClosedByStop'
    BY <1>2 DEF MailInv, ClosedByStop, TypeOK
  <2>7. a \in stopped
    BY <1>2 DEF MailInv, ClosedByStop
  <2>8. DiscardedOnlyIfStopped'
    <3>. SUFFICES ASSUME NEW b \in Slots, NEW i \in 1..Len(queued[b]),
                         queued[b][i] \in discarded'
                  PROVE  b \in stopped
      BY DEF DiscardedOnlyIfStopped, Range_
    <3>1. CASE queued[b][i] \in discarded
      BY <3>1 DEF MailInv, DiscardedOnlyIfStopped, Range_
    <3>2. CASE \E j \in 1..Len(inbox[a]) : queued[b][i] = inbox[a][j]
      <4>1. PICK p \in 1..Len(queued[a]) : queued[a][p] = queued[b][i]
        BY <2>4, <3>2
      <4>. QED
        BY <2>7, <4>1 DEF MailInv, SentOnce
    <3>. QED
      BY <1>2, <3>1, <3>2
  <2>. QED
    BY <2>3, <2>5, <2>6, <2>8 DEF MailInv
<1>. QED
  BY <1>1, <1>2

LEMMA SendsMail ==
    ASSUME TypeOK, TypeOK', MailInv, NEW c \in Clients, NEW a \in Slots,
           NEW asks \in BOOLEAN, Sends(c, a, asks)
    PROVE  MailInv'
<1>. USE DEF Sends, actor
<1>1. reply[c] = "unsent" /\ reply'[c] # "unsent"
      /\ \A d \in Clients : d # c => reply'[d] = reply[d]
  BY DEF TypeOK
<1>2. \A b \in Slots : Held(b)' = Held(b)
  BY DEF Held
<1>3. ClosedByStop'
  BY DEF MailInv, ClosedByStop
<1>4. CASE UNCHANGED <<inbox, queued>>
  BY <1>1, <1>2, <1>3, <1>4, MailFrame
<1>5. CASE /\ inbox' = [inbox EXCEPT ![a] = Append(@, c)]
           /\ queued' = [queued EXCEPT ![a] = Append(@, c)]
  <2>0. /\ inbox[a] \in Seq(Clients) /\ taken[a] \in Seq(Clients)
        /\ queued[a] \in Seq(Clients) /\ Held(a) \in Seq(Clients)
        /\ queued'[a] = Append(queued[a], c) /\ inbox'[a] = Append(inbox[a], c)
        /\ \A b \in Slots : b # a => queued'[b] = queued[b] /\ inbox'[b] = inbox[b]
    BY <1>5, LineType DEF TypeOK
  <2>1. ASSUME NEW i \in 1..Len(queued'[a])
        PROVE  \/ i = Len(queued[a]) + 1 /\ queued'[a][i] = c
               \/ i \in 1..Len(queued[a]) /\ queued'[a][i] = queued[a][i]
    <3>. DEFINE q == queued[a]
    <3>1. q \in Seq(Clients) /\ queued'[a] = Append(q, c)
      BY <2>0
    <3>. HIDE DEF q
    <3>2. \/ i = Len(q) + 1 /\ queued'[a][i] = c
          \/ i \in 1..Len(q) /\ queued'[a][i] = q[i]
      BY <3>1, AtEnd
    <3>. QED
      BY <3>2 DEF q
  <2>4. MailInOrder'
    <3>. SUFFICES ASSUME NEW b \in Slots
                  PROVE  Follows(Line(b)', queued'[b])
      BY DEF MailInOrder
    <3>1. CASE b # a
      BY <1>2, <2>0, <3>1 DEF Line, MailInv, MailInOrder
    <3>2. CASE b = a
      <4>1. Line(a)' = Append(Line(a), c)
        <5>. DEFINE s == taken[a]  h == Held(a)  u == inbox[a]
        <5>1. s \in Seq(Clients) /\ h \in Seq(Clients) /\ u \in Seq(Clients)
          BY <2>0
        <5>2. Line(a) = s \o h \o u /\ Line(a)' = s \o h \o Append(u, c)
          BY <1>2, <2>0 DEF Line
        <5>. HIDE DEF s, h, u
        <5>. QED
          BY <5>1, <5>2, AppendLast
      <4>2. Line(a) \in Seq(Clients) /\ queued[a] \in Seq(Clients)
        BY <2>0, LineType
      <4>3. Follows(Line(a), queued[a])
        BY DEF MailInv, MailInOrder
      <4>. DEFINE l == Line(a)  q == queued[a]
      <4>4. l \in Seq(Clients) /\ q \in Seq(Clients) /\ Follows(l, q)
        BY <4>2, <4>3
      <4>5. Line(a)' = Append(l, c) /\ queued'[a] = Append(q, c)
        BY <2>0, <4>1
      <4>. HIDE DEF l, q
      <4>. QED
        BY <3>2, <4>4, <4>5, AppendFollows
    <3>. QED
      BY <3>1, <3>2
  <2>2. SentOnce'
    <3>1. ASSUME NEW b \in Slots, NEW i \in 1..Len(queued'[b])
          PROVE  \/ b = a /\ i = Len(queued[a]) + 1 /\ queued'[b][i] = c
                 \/ /\ i \in 1..Len(queued[b]) /\ queued'[b][i] = queued[b][i]
                    /\ queued[b][i] \in Clients \ {c}
      <4>1. queued[b] \in Seq(Clients)
        BY DEF TypeOK
      <4>2. \A j \in 1..Len(queued[b]) : queued[b][j] \in Clients \ {c}
        BY <1>1, <4>1 DEF MailInv, SentOnce
      <4>3. CASE b # a
        BY <2>0, <4>2, <4>3
      <4>4. CASE b = a
        BY <2>1, <4>2, <4>4
      <4>. QED
        BY <4>3, <4>4
    <3>2. \A b \in Slots : \A i \in 1..Len(queued'[b]) : reply'[queued'[b][i]] # "unsent"
      BY <1>1, <3>1 DEF MailInv, SentOnce
    <3>3. \A b, d \in Slots : \A i \in 1..Len(queued'[b]), j \in 1..Len(queued'[d]) :
              queued'[b][i] = queued'[d][j] => b = d /\ i = j
      <4>. SUFFICES ASSUME NEW b \in Slots, NEW d \in Slots, NEW i \in 1..Len(queued'[b]),
                           NEW j \in 1..Len(queued'[d]), queued'[b][i] = queued'[d][j]
                    PROVE  b = d /\ i = j
        OBVIOUS
      <4>1. CASE queued'[b][i] = c
        <5>0. queued'[d][j] = c
          BY <4>1
        <5>1. b = a /\ i = Len(queued[a]) + 1
          BY <3>1, <4>1
        <5>2. d = a /\ j = Len(queued[a]) + 1
          BY <3>1, <5>0
        <5>. QED
          BY <5>1, <5>2
      <4>2. CASE queued'[b][i] # c
        <5>1. /\ i \in 1..Len(queued[b]) /\ j \in 1..Len(queued[d])
              /\ queued[b][i] = queued[d][j]
          BY <3>1, <4>2
        <5>. QED
          BY <5>1 DEF MailInv, SentOnce
      <4>. QED
        BY <4>1, <4>2
    <3>4. \A d \in discarded' : reply'[d] # "unsent"
      BY <1>1 DEF MailInv, SentOnce, TypeOK
    <3>. QED
      BY <3>2, <3>3, <3>4 DEF SentOnce
  <2>3. DiscardedOnlyIfStopped'
    <3>. SUFFICES ASSUME NEW b \in Slots, NEW i \in 1..Len(queued'[b]),
                         queued'[b][i] \in discarded
                  PROVE  b \in stopped
      BY DEF DiscardedOnlyIfStopped, Range_
    <3>1. c \notin discarded
      BY <1>1 DEF MailInv, SentOnce
    <3>2. queued[b] \in Seq(Clients)
      BY DEF TypeOK
    <3>3. i \in 1..Len(queued[b]) /\ queued'[b][i] = queued[b][i]
      BY <2>0, <2>1, <3>1
    <3>. QED
      BY <3>3 DEF MailInv, DiscardedOnlyIfStopped, Range_
  <2>. QED
    BY <1>3, <2>2, <2>3, <2>4 DEF MailInv
<1>. QED
  BY <1>4, <1>5

LEMMA RunsMail ==
    ASSUME TypeOK, TypeOK', MailInv, NEW a \in Slots, Runs(a)
    PROVE  MailInv'
<1>. USE DEF Quiet, mail, restart, Phases, InLoop
<1>1. CASE Begins(a)
  <2>1. \E p \in {"starting", "gone"} : Goto(a, p)
    BY <1>1 DEF Begins
  <2>. QED
    BY <1>1, <2>1, TaskMail DEF Begins
<1>2. CASE Started(a)
  BY <1>2, LeaveMail DEF Started
<1>3. CASE Arrives(a)
  BY <1>3, ArrivesMail
<1>4. CASE Takes(a)
  BY <1>4, TakesMail
<1>5. CASE PollFails(a)
  BY <1>5, LeaveMail DEF PollFails
<1>6. CASE ErrorRestart(a)
  BY <1>6, LeaveMail DEF ErrorRestart
<1>7. CASE ErrorStop(a)
  BY <1>7, LeaveMail DEF ErrorStop
<1>8. CASE CancelLands(a)
  BY <1>8, LeaveMail DEF CancelLands
<1>9. CASE Stops(a)
  BY <1>9, SuperviseMail DEF Stops
<1>10. CASE Restarts(a)
  BY <1>10, RestartsMail
<1>11. CASE GivesUp(a)
  BY <1>11, TaskMail DEF GivesUp
<1>. QED
  BY <1>1, <1>2, <1>3, <1>4, <1>5, <1>6, <1>7, <1>8, <1>9, <1>10, <1>11 DEF Runs

LEMMA DecidesMail ==
    ASSUME TypeOK, TypeOK', MailInv, NEW a \in Slots, Decides(a)
    PROVE  MailInv'
<1>. USE DEF Quiet, mail
<1>1. CASE StartFails(a)
  BY <1>1, LeaveMail DEF StartFails
<1>2. CASE ArrivesLate(a)
  BY <1>2, LeaveMail DEF ArrivesLate
<1>3. CASE Replies(a)
  <2>1. \A b \in Slots : Held(b)' = Held(b)
    BY <1>3 DEF Replies, actor, Held
  <2>2. ClosedByStop'
    BY <1>3 DEF Replies, MailInv, ClosedByStop
  <2>. QED
    BY <1>3, <2>1, <2>2, ResolveMail, MailFrame DEF Replies
<1>4. CASE Handled(a)
  BY <1>4, ResolveMail, LeaveMail DEF Handled
<1>5. CASE HandlerFails(a)
  BY <1>5, ResolveMail, TaskMail DEF HandlerFails, Phases, InLoop
<1>6. CASE ErrorEscalate(a)
  BY <1>6, LeaveMail DEF ErrorEscalate
<1>7. CASE StopFails(a)
  BY <1>7, SuperviseMail DEF StopFails
<1>8. CASE StopSelf(a)
  <2>1. \A b \in Slots : Held(b)' = Held(b)
    BY <1>8 DEF StopSelf, Held
  <2>2. ClosedByStop'
    BY <1>8 DEF StopSelf, MailInv, ClosedByStop, TypeOK
  <2>. QED
    BY <1>8, <2>1, <2>2, MailFrame DEF StopSelf
<1>. QED
  BY <1>1, <1>2, <1>3, <1>4, <1>5, <1>6, <1>7, <1>8 DEF Decides

LEMMA CallsMail ==
    ASSUME TypeOK, TypeOK', MailInv, Calls
    PROVE  MailInv'
<1>. USE DEF mail, restart, actor
<1>1. ASSUME NEW a \in Slots, NEW n \in Names, Spawn(a, n)
      PROVE  MailInv'
  BY <1>1, TaskMail DEF Spawn, Phases
<1>2. ASSUME NEW c \in Clients, NEW a \in Slots, NEW asks \in BOOLEAN, Sends(c, a, asks)
      PROVE  MailInv'
  BY <1>2, SendsMail
<1>. DEFINE Silent == \A b \in Slots : Held(b)' = Held(b)
<1>3. ASSUME NEW c \in Clients, AskExpires(c)
      PROVE  MailInv'
  <2>1. Silent /\ ClosedByStop'
    BY <1>3 DEF AskExpires, Held, MailInv, ClosedByStop
  <2>2. \A d \in Clients : reply[d] # "unsent" => reply'[d] # "unsent"
    BY <1>3 DEF AskExpires, TypeOK
  <2>. QED
    BY <1>3, <2>1, <2>2, MailFrame DEF AskExpires
<1>4. ASSUME NEW a \in Slots, Stop(a)
      PROVE  MailInv'
  <2>1. Silent /\ ClosedByStop'
    BY <1>4 DEF Stop, StopAll, Held, MailInv, ClosedByStop
  <2>. QED
    BY <1>4, <2>1, MailFrame DEF Stop
<1>5. ASSUME NEW w \in Watchers, NEW a \in Slots, Watch(w, a)
      PROVE  MailInv'
  <2>1. Silent /\ ClosedByStop'
    BY <1>5 DEF Watch, Held, MailInv, ClosedByStop
  <2>. QED
    BY <1>5, <2>1, MailFrame DEF Watch
<1>6. CASE Exit
  <2>1. Silent /\ ClosedByStop'
    BY <1>6 DEF Exit, Held, ClosedByStop
  <2>. QED
    BY <1>6, <2>1, MailFrame DEF Exit
<1>7. CASE Exited
  <2>1. Silent /\ ClosedByStop'
    BY <1>7 DEF Exited, Held, ClosedByStop
  <2>. QED
    BY <1>7, <2>1, MailFrame DEF Exited
<1>. QED
  BY <1>1, <1>2, <1>3, <1>4, <1>5, <1>6, <1>7 DEF Calls

LEMMA InitMail == Init => MailInv
<1>. SUFFICES ASSUME Init PROVE MailInv
  OBVIOUS
<1>1. ASSUME NEW a \in Slots
      PROVE  Line(a) = <<>> /\ queued[a] = <<>>
  BY DEF Init, Line, Held
<1>2. MailInOrder
  BY <1>1 DEF MailInOrder, Follows
<1>. QED
  BY <1>1, <1>2 DEF Init, MailInv, SentOnce, ClosedByStop, DiscardedOnlyIfStopped

(* MailInv holds in every reachable state.                                 *)
THEOREM MailInvariance == Spec => []MailInv
<1>1. TypeOK /\ TypeOK' /\ MailInv /\ [Next]_vars => MailInv'
  <2>1. CASE UNCHANGED vars
    BY <2>1 DEF vars, MailInv, MailInOrder, Line, Held, SentOnce, ClosedByStop,
                DiscardedOnlyIfStopped
  <2>. QED
    BY <2>1, RunsMail, DecidesMail, CallsMail DEF Next
<1>. QED
  BY <1>1, InitMail, TypeCorrect, PTL DEF Spec

(* What was handled is the first part of the line.                         *)
LEMMA TakenInLine ==
    ASSUME TypeOK, NEW a \in Slots, NEW i \in 1..Len(taken[a])
    PROVE  i \in 1..Len(Line(a)) /\ Line(a)[i] = taken[a][i]
<1>1. /\ taken[a] \in Seq(Clients) /\ inbox[a] \in Seq(Clients) /\ Held(a) \in Seq(Clients)
      /\ Held(a) \o inbox[a] \in Seq(Clients)
  BY LineType, Concat DEF TypeOK
<1>2. Line(a) = taken[a] \o (Held(a) \o inbox[a])
  BY <1>1, Regroup DEF Line
<1>. DEFINE s == taken[a]  t == Held(a) \o inbox[a]
<1>3. s \in Seq(Clients) /\ t \in Seq(Clients) /\ i \in 1..Len(s)
  BY <1>1
<1>4. Line(a) = s \o t /\ taken[a] = s
  BY <1>2
<1>. HIDE DEF s, t
<1>. QED
  BY <1>3, <1>4, Front

(* However often an actor crashes, its messages are handled in the order   *)
(* they were accepted.                                                     *)
THEOREM OrderKept == Spec => []HandledInOrder
<1>1. TypeOK /\ MailInv => HandledInOrder
  <2>. SUFFICES ASSUME TypeOK, MailInv, NEW a \in Slots
                PROVE  \A i, j \in 1..Len(taken[a]) : i < j =>
                          \E p, q \in 1..Len(queued[a]) :
                             p < q /\ queued[a][p] = taken[a][i] /\ queued[a][q] = taken[a][j]
    BY DEF HandledInOrder
  <2>4. Follows(Line(a), queued[a])
    BY DEF MailInv, MailInOrder
  <2>. QED
    BY <2>4, TakenInLine DEF Follows
<1>. QED
  BY <1>1, MailInvariance, TypeCorrect, PTL

HandledOnce ==
    \A a, b \in Slots : \A i \in 1..Len(taken[a]), j \in 1..Len(taken[b]) :
        taken[a][i] = taken[b][j] => a = b /\ i = j

(* No message is handled twice, by one actor or by two.                    *)
THEOREM NoneTwice == Spec => []HandledOnce
<1>1. TypeOK /\ MailInv => HandledOnce
  <2>. SUFFICES ASSUME TypeOK, MailInv
                PROVE  HandledOnce
    OBVIOUS
  <2>2. ASSUME NEW a \in Slots, NEW i \in 1..Len(taken[a])
        PROVE  \E p \in 1..Len(queued[a]) : queued[a][p] = taken[a][i]
    BY TakenInLine DEF MailInv, MailInOrder, Follows
  <2>3. ASSUME NEW a \in Slots, NEW i \in 1..Len(taken[a]), NEW j \in 1..Len(taken[a]),
               i < j
        PROVE  taken[a][i] # taken[a][j]
    <3>1. PICK p \in 1..Len(queued[a]), q \in 1..Len(queued[a]) :
               p < q /\ queued[a][p] = taken[a][i] /\ queued[a][q] = taken[a][j]
      <4>1. /\ i \in 1..Len(Line(a)) /\ Line(a)[i] = taken[a][i]
            /\ j \in 1..Len(Line(a)) /\ Line(a)[j] = taken[a][j]
        BY TakenInLine
      <4>2. Follows(Line(a), queued[a])
        BY DEF MailInv, MailInOrder
      <4>. QED
        BY <2>3, <4>1, <4>2 DEF Follows
    <3>. QED
      BY <3>1 DEF MailInv, SentOnce
  <2>4. ASSUME NEW a \in Slots, NEW b \in Slots, NEW i \in 1..Len(taken[a]),
               NEW j \in 1..Len(taken[b]), taken[a][i] = taken[b][j]
        PROVE  a = b
    BY <2>2, <2>4 DEF MailInv, SentOnce
  <2>5. \A a \in Slots : Len(taken[a]) \in Nat
    BY DEF TypeOK
  <2>. QED
    BY <2>3, <2>4, <2>5 DEF HandledOnce
<1>. QED
  BY <1>1, MailInvariance, TypeCorrect, PTL

(* An accepted message is thrown away only if the actor was asked to stop. *)
THEOREM NothingDiscarded == Spec => []DiscardedOnlyIfStopped
<1>1. MailInv => DiscardedOnlyIfStopped
  BY DEF MailInv
<1>. QED
  BY <1>1, MailInvariance, PTL
-----------------------------------------------------------------------------
(* The restart policy                                                      *)

(* A nonempty set of natural numbers has a smallest member.                *)
LEMMA Smallest ==
    ASSUME NEW N \in SUBSET Nat, N # {}
    PROVE  \E n \in N : \A m \in N : n <= m
<1>. DEFINE Upto(n) == {j \in N : j <= n}
            All == {Upto(n) : n \in N}
<1>1. \A n \in Nat : IsFiniteSet(Upto(n))
  <2>. TAKE n \in Nat
  <2>1. \A j \in N : j <= n => j \in 0..n
    OBVIOUS
  <2>1a. Upto(n) \subseteq 0..n
    BY <2>1
  <2>2. IsFiniteSet(0..n)
    BY FS_Interval
  <2>. QED
    BY <2>1a, <2>2, FS_Subset
<1>2. All \subseteq FiniteSubsetsOf(Nat) /\ All # {}
  BY <1>1 DEF FiniteSubsetsOf
<1>3. PICK A \in All : \A B \in All : ~(<<B, A>> \in StrictSubsetOrdering(Nat))
  <2>. HIDE DEF All
  <2>. QED
    BY <1>2, FS_StrictSubsetOrderingWellFounded, WFMin
<1>4. PICK n \in N : A = Upto(n)
  OBVIOUS
<1>5. ASSUME NEW m \in N, m < n PROVE FALSE
  <2>1. Upto(m) \in All
    OBVIOUS
  <2>2. Upto(m) \subseteq A
    <3>1. \A j \in N : j \in Nat /\ m \in Nat /\ n \in Nat
      OBVIOUS
    <3>2. \A j \in N : j <= m => j <= n
      BY <3>1, <1>5
    <3>. QED
      BY <3>2, <1>4
  <2>3. Upto(m) # A
    <3>1. n \in A /\ n \notin Upto(m)
      BY <1>4, <1>5
    <3>. QED
      BY <3>1
  <2>4. Upto(m) \in SUBSET Nat /\ A \in SUBSET Nat
    BY <1>4
  <2>5. <<Upto(m), A>> \in StrictSubsetOrdering(Nat)
    <3>. HIDE DEF Upto
    <3>. QED
      BY <2>2, <2>3, <2>4 DEF StrictSubsetOrdering
  <2>. QED
    BY <2>1, <2>5, <1>3
<1>. QED
  BY <1>5

(* What is selected from one place on is the rest of the sequence.         *)
LEMMA SelectRest ==
    ASSUME NEW S, NEW s \in Seq(S), NEW e \in 0..Len(s)
    PROVE  Select(s, (e + 1)..Len(s)) = [n \in 1..(Len(s) - e) |-> s[e + n]]
<1>. DEFINE K == (e + 1)..Len(s)
            Upto(k) == {j \in K : j <= k}
<1>1. PICK l \in Nat : l = Len(s) /\ e \in Nat /\ e <= l
  BY LenProperties
<1>2. Cardinality(K) = l - e
  <2>1. e + 1 \in Int /\ l \in Int
    BY <1>1
  <2>2. Cardinality((e + 1)..l) = IF e + 1 > l THEN 0 ELSE l - (e + 1) + 1
    BY ONLY <2>1, FS_Interval
  <2>. QED
    BY <1>1, <2>2
<1>3. \A k \in K : Cardinality(Upto(k)) = k - e
  <2>. TAKE k \in K
  <2>1. Upto(k) = (e + 1)..k
    BY <1>1
  <2>2. e + 1 \in Int /\ k \in Int
    BY <1>1
  <2>3. Cardinality((e + 1)..k) = IF e + 1 > k THEN 0 ELSE k - (e + 1) + 1
    BY ONLY <2>2, FS_Interval
  <2>4. Cardinality((e + 1)..k) = k - e
    <3>1. k \in Int /\ e + 1 <= k
      BY <1>1
    <3>. QED
      BY <1>1, <2>3, <3>1
  <2>. HIDE DEF Upto
  <2>. QED
    BY <2>1, <2>4
<1>4. ASSUME NEW n \in 1..(l - e)
      PROVE  (CHOOSE k \in K : Cardinality(Upto(k)) = n) = e + n
  <2>1. e + n \in K /\ Cardinality(Upto(e + n)) = n
    BY <1>1, <1>3
  <2>2. ASSUME NEW k \in K, Cardinality(Upto(k)) = n PROVE k = e + n
    BY <1>1, <1>3, <2>2
  <2>. HIDE DEF K, Upto
  <2>. QED
    BY <2>1, <2>2
<1>5. Select(s, K) = [n \in 1..(l - e) |-> s[e + n]]
  <2>1. Select(s, K) = [n \in 1..(l - e) |-> s[CHOOSE k \in K : Cardinality(Upto(k)) = n]]
    BY <1>2 DEF Select
  <2>. HIDE DEF K, Upto
  <2>. QED
    BY <1>4, <2>1
<1>. QED
  BY <1>1, <1>5

(* Times are noted in their order, and none is ahead of the clock.         *)
Dated(s) ==
    /\ \A i \in 1..Len(s) : s[i] <= now
    /\ \A i, j \in 1..Len(s) : i < j => s[i] <= s[j]

(* What the policy remembers are the last restarts that were allowed; what *)
(* it has evicted has left the window.                                     *)
Remembers(e) ==
    /\ Len(times) = Len(granted) - e /\ Len(times) <= RestartLimit
    /\ \A i \in 1..Len(times) : times[i] = granted[e + i]
    /\ \A i \in 1..e : granted[i] <= now - RestartWindow

PolicyInv ==
    /\ now \in Nat /\ times \in Seq(Nat) /\ granted \in Seq(Nat)
    /\ Dated(granted)
    /\ \E e \in 0..Len(granted) : Remembers(e)
    /\ RateKept /\ RefusedOnlyIfFull

(* The restarts inside the window are the last ones: they are what an      *)
(* eviction leaves.                                                        *)
LEMMA Evicts ==
    ASSUME PolicyInv
    PROVE  \E e \in 0..Len(granted) :
              /\ Select(times, Within(times)) \in Seq(Nat)
              /\ Len(Select(times, Within(times))) = Len(granted) - e
              /\ Len(granted) - e <= Len(times)
              /\ \A i \in 1..(Len(granted) - e) :
                    Select(times, Within(times))[i] = granted[e + i]
              /\ \A i \in 1..e : granted[i] <= now - RestartWindow
              /\ \A i \in (e + 1)..Len(granted) : granted[i] > now - RestartWindow
<1>. DEFINE n == Len(granted)
            p == Len(times)
            c == now - RestartWindow
<1>1. /\ n \in Nat /\ p \in Nat /\ c \in Int
      /\ \A i \in 1..p : times[i] \in Nat
      /\ \A i \in 1..n : granted[i] \in Nat
  BY PolicyAssumption, LenProperties, ElementOfSeq DEF PolicyInv, PolicyAssumption
<1>2. PICK e \in 0..n : Remembers(e)
  BY DEF PolicyInv
<1>. HIDE DEF n, p, c
<1>3. /\ p = n - e /\ \A i \in 1..p : times[i] = granted[e + i]
      /\ \A i \in 1..e : granted[i] <= c
  BY <1>2 DEF Remembers, n, p, c
<1>4. \A i, j \in 1..n : i < j => granted[i] <= granted[j]
  BY DEF PolicyInv, Dated, n
<1>5. PICK d \in 0..p : Within(times) = (d + 1)..p
  <2>1. Within(times) = {i \in 1..p : times[i] > c}
    BY DEF PolicyInv, Within, p, c
  <2>2. CASE Within(times) = {}
    <3>1. (p + 1)..p = {} /\ p \in 0..p
      BY <1>1
    <3>. QED
      BY <2>2, <3>1
  <2>3. CASE Within(times) # {}
    <3>1. PICK i \in Within(times) : \A j \in Within(times) : i <= j
      <4>1. Within(times) \in SUBSET Nat
        BY <1>1, <2>1
      <4>. QED
        BY <2>3, <4>1, Smallest
    <3>2. i \in 1..p /\ times[i] > c
      BY <2>1
    <3>3. \A j \in i..p : times[j] > c
      <4>. TAKE j \in i..p
      <4>1. times[i] = granted[e + i] /\ times[j] = granted[e + j] /\ j \in 1..p
        BY <1>1, <1>3, <3>2
      <4>2. e + i \in 1..n /\ e + j \in 1..n /\ (i = j \/ e + i < e + j)
        BY <1>1, <1>3, <3>2
      <4>3. granted[e + i] <= granted[e + j]
        BY <1>1, <1>4, <4>2
      <4>. QED
        BY <1>1, <3>2, <4>1, <4>3
    <3>4. Within(times) = i..p
      BY <1>1, <2>1, <3>1, <3>2, <3>3
    <3>5. i - 1 \in 0..p /\ (i - 1) + 1 = i
      BY <1>1, <3>2
    <3>. QED
      BY <3>4, <3>5
  <2>. QED
    BY <2>2, <2>3
<1>6. \A i \in 1..p : times[i] > c <=> i \in (d + 1)..p
  BY <1>5 DEF PolicyInv, Within, p, c
<1>7. Select(times, Within(times)) = [i \in 1..(p - d) |-> times[d + i]]
  <2>1. Select(times, (d + 1)..Len(times)) = [i \in 1..(Len(times) - d) |-> times[d + i]]
    BY SelectRest DEF PolicyInv, p
  <2>. QED
    BY <1>5, <2>1 DEF p
<1>. DEFINE r == Select(times, Within(times))
<1>8. r \in Seq(Nat) /\ Len(r) = p - d /\ \A i \in 1..(p - d) : r[i] = times[d + i]
  BY <1>1, <1>7
<1>. HIDE DEF r
<1>9. /\ e + d \in 0..n /\ p - d = n - (e + d)
      /\ n - (e + d) <= p
      /\ \A i \in 1..(n - (e + d)) : r[i] = granted[(e + d) + i]
  <2>1. \A i \in 1..(p - d) : d + i \in 1..p /\ e + (d + i) = (e + d) + i
    BY <1>1
  <2>. QED
    BY <1>1, <1>3, <1>8, <2>1
<1>10. \A i \in 1..(e + d) : granted[i] <= c
  <2>. TAKE i \in 1..(e + d)
  <2>1. CASE i <= e
    BY <1>3, <2>1
  <2>2. CASE i > e
    <3>1. i - e \in 1..p /\ i - e \notin (d + 1)..p /\ e + (i - e) = i
      BY <1>1, <2>2
    <3>. QED
      BY <1>1, <1>3, <1>6, <3>1
  <2>. QED
    BY <2>1, <2>2
<1>11. \A i \in (e + d + 1)..n : granted[i] > c
  <2>. TAKE i \in (e + d + 1)..n
  <2>1. i - e \in 1..p /\ i - e \in (d + 1)..p /\ e + (i - e) = i
    BY <1>1, <1>3
  <2>. QED
    BY <1>3, <1>6, <2>1
<1>. QED
  BY <1>8, <1>9, <1>10, <1>11 DEF n, p, c, r

(* What should_restart() does, in terms of all restarts it has allowed: it *)
(* keeps those inside the window, the last n - e of n.                     *)
Answers(e, n) ==
    /\ \A i \in 1..e : granted[i] <= now - RestartWindow
    /\ \A i \in (e + 1)..n : granted[i] > now - RestartWindow
    /\ n - e <= Len(times)
    /\ \/ /\ n - e >= RestartLimit /\ answer' = "refused" /\ UNCHANGED granted
          /\ times' \in Seq(Nat) /\ Len(times') = n - e
          /\ \A i \in 1..(n - e) : times'[i] = granted[e + i]
       \/ /\ n - e < RestartLimit /\ answer' = "allowed"
          /\ granted' \in Seq(Nat) /\ Len(granted') = n + 1 /\ granted'[n + 1] = now
          /\ \A i \in 1..n : granted'[i] = granted[i]
          /\ times' \in Seq(Nat) /\ Len(times') = n - e + 1
          /\ \A i \in 1..(n - e + 1) : times'[i] = granted'[e + i]

LEMMA Asked ==
    ASSUME PolicyInv, ShouldRestart
    PROVE  \E e \in 0..Len(granted) : Answers(e, Len(granted))
<1>. DEFINE r == Select(times, Within(times))
<1>1. PICK n \in Nat : n = Len(granted)
  BY LenProperties DEF PolicyInv
<1>2. PICK e \in 0..n :
         /\ r \in Seq(Nat) /\ Len(r) = n - e /\ n - e <= Len(times)
         /\ \A i \in 1..(n - e) : r[i] = granted[e + i]
         /\ \A i \in 1..e : granted[i] <= now - RestartWindow
         /\ \A i \in (e + 1)..n : granted[i] > now - RestartWindow
  BY <1>1, Evicts
<1>3. \/ Len(r) >= RestartLimit /\ times' = r /\ answer' = "refused" /\ UNCHANGED granted
      \/ /\ Len(r) < RestartLimit /\ times' = Append(r, now) /\ answer' = "allowed"
         /\ granted' = Append(granted, now)
  BY <1>2, PolicyAssumption DEF ShouldRestart, PolicyAssumption
<1>. HIDE DEF r
<1>4. CASE Len(r) >= RestartLimit /\ times' = r /\ answer' = "refused" /\ UNCHANGED granted
  BY <1>1, <1>2, <1>4 DEF Answers
<1>5. CASE /\ Len(r) < RestartLimit /\ times' = Append(r, now) /\ answer' = "allowed"
           /\ granted' = Append(granted, now)
  <2>1. /\ granted' \in Seq(Nat) /\ Len(granted') = n + 1 /\ granted'[n + 1] = now
        /\ \A i \in 1..n : granted'[i] = granted[i]
    BY <1>1, <1>5, AppendProperties DEF PolicyInv
  <2>2. /\ times' \in Seq(Nat) /\ Len(times') = n - e + 1 /\ times'[n - e + 1] = now
        /\ \A i \in 1..(n - e) : times'[i] = r[i]
    <3>1. r \in Seq(Nat) /\ now \in Nat
      BY <1>2 DEF PolicyInv
    <3>2. /\ Append(r, now) \in Seq(Nat) /\ Len(Append(r, now)) = Len(r) + 1
          /\ \A i \in 1..Len(r) : Append(r, now)[i] = r[i]
          /\ Append(r, now)[Len(r) + 1] = now
      BY ONLY <3>1, AppendProperties
    <3>3. times' = Append(r, now) /\ Len(r) = n - e
      BY <1>2, <1>5
    <3>. QED
      BY ONLY <3>2, <3>3
  <2>3. \A i \in 1..(n - e + 1) : times'[i] = granted'[e + i]
    <3>. TAKE i \in 1..(n - e + 1)
    <3>1. CASE i \in 1..(n - e)
      <4>1. e + i \in 1..n
        BY <1>2, <3>1
      <4>. QED
        BY <1>2, <2>1, <2>2, <3>1, <4>1
    <3>2. CASE i = n - e + 1
      BY <1>2, <2>1, <2>2, <3>2
    <3>. QED
      BY <1>2, <3>1, <3>2
  <2>. QED
    BY <1>1, <1>2, <1>5, <2>1, <2>2, <2>3 DEF Answers
<1>. QED
  BY <1>3, <1>4, <1>5

(* The answer of should_restart() is right, and leaves the policy in order.*)
LEMMA AskedInv ==
    ASSUME PolicyInv, ShouldRestart
    PROVE  PolicyInv'
<1>. DEFINE c == now - RestartWindow
<1>0. now' = now
  BY DEF ShouldRestart
<1>1. PICK n \in Nat : n = Len(granted)
  BY LenProperties DEF PolicyInv
<1>2. /\ now \in Nat /\ times \in Seq(Nat) /\ granted \in Seq(Nat)
      /\ \A i \in 1..n : granted[i] \in Nat /\ granted[i] <= now
      /\ \A i, j \in 1..n : i < j => granted[i] <= granted[j]
      /\ RestartLimit \in Nat /\ RestartWindow \in Nat /\ c \in Int
      /\ DOMAIN granted = 1..n
  BY <1>1, PolicyAssumption DEF PolicyInv, Dated, PolicyAssumption
<1>3. PICK e \in 0..n : Answers(e, n)
  BY <1>1, Asked
<1>4. CASE /\ n - e >= RestartLimit /\ answer' = "refused" /\ UNCHANGED granted
           /\ times' \in Seq(Nat) /\ Len(times') = n - e
           /\ \A i \in 1..(n - e) : times'[i] = granted[e + i]
  <2>1. Remembers(e)'
    <3>1. Len(times') <= RestartLimit
      <4>1. Len(times) <= RestartLimit /\ Len(times) \in Nat
        BY LenProperties DEF PolicyInv, Remembers
      <4>. QED
        BY <1>2, <1>3, <1>4, <4>1 DEF Answers
    <3>. QED
      BY <1>0, <1>1, <1>3, <1>4, <3>1 DEF Remembers, Answers
  <2>2. RateKept'
    BY <1>4 DEF PolicyInv, RateKept
  <2>3. RefusedOnlyIfFull'
    <3>1. {i \in 1..n : granted[i] > c} = (e + 1)..n
      <4>1. /\ \A i \in 1..e : granted[i] <= c
            /\ \A i \in (e + 1)..n : granted[i] > c
        BY <1>3 DEF Answers
      <4>2. \A i \in 1..n : granted[i] \in Int /\ c \in Int
        BY <1>2
      <4>. HIDE DEF c
      <4>3. \A i \in 1..n : granted[i] > c <=> i \in (e + 1)..n
        <5>1. \A i \in 1..n : i \in 1..e \/ i \in (e + 1)..n
          OBVIOUS
        <5>2. \A i \in 1..e : i \in 1..n /\ i \notin (e + 1)..n
          OBVIOUS
        <5>3. \A i \in 1..e : ~(granted[i] > c)
          BY <4>1, <4>2, <5>2
        <5>. QED
          BY <4>1, <5>1, <5>2, <5>3
      <4>. QED
        BY <4>3
    <3>2. Cardinality((e + 1)..n) = n - e
      <4>1. e + 1 \in Int /\ n \in Int
        BY <1>3
      <4>2. Cardinality((e + 1)..n) = IF e + 1 > n THEN 0 ELSE n - (e + 1) + 1
        BY ONLY <4>1, FS_Interval
      <4>. QED
        BY <4>2
    <3>. QED
      BY <1>0, <1>2, <1>4, <3>1, <3>2 DEF RefusedOnlyIfFull
  <2>. QED
    BY <1>0, <1>1, <1>2, <1>4, <2>1, <2>2, <2>3 DEF PolicyInv, Dated
<1>5. CASE /\ n - e < RestartLimit /\ answer' = "allowed"
           /\ granted' \in Seq(Nat) /\ Len(granted') = n + 1 /\ granted'[n + 1] = now
           /\ \A i \in 1..n : granted'[i] = granted[i]
           /\ times' \in Seq(Nat) /\ Len(times') = n - e + 1
           /\ \A i \in 1..(n - e + 1) : times'[i] = granted'[e + i]
  <2>1. \A i \in 1..(n + 1) : i \in 1..n \/ i = n + 1
    OBVIOUS
  <2>2. Dated(granted)'
    <3>1. \A i \in 1..(n + 1) : granted'[i] <= now
      <4>1. \A i \in 1..n : granted'[i] <= now
        BY <1>2, <1>5
      <4>2. granted'[n + 1] <= now
        BY <1>2, <1>5
      <4>. QED
        BY <2>1, <4>1, <4>2
    <3>2. ASSUME NEW i \in 1..(n + 1), NEW j \in 1..(n + 1), i < j
          PROVE  granted'[i] <= granted'[j]
      <4>1. i \in 1..n
        BY <3>2
      <4>2. CASE j \in 1..n
        BY <1>2, <1>5, <3>2, <4>1, <4>2
      <4>3. CASE j = n + 1
        BY <1>5, <3>1, <4>3
      <4>. QED
        BY <2>1, <4>2, <4>3
    <3>. QED
      BY <1>0, <1>5, <3>1, <3>2 DEF Dated
  <2>3. Remembers(e)' /\ e \in 0..Len(granted')
    <3>1. \A i \in 1..e : granted'[i] <= now - RestartWindow
      BY <1>3, <1>5 DEF Answers
    <3>2. n - e + 1 <= RestartLimit /\ n - e + 1 = n + 1 - e /\ e \in 0..(n + 1)
      BY <1>2, <1>5
    <3>. QED
      BY <1>0, <1>5, <3>1, <3>2 DEF Remembers
  <2>4. RateKept'
    <3>. SUFFICES ASSUME NEW i \in 1..(n + 1), i + RestartLimit \in 1..(n + 1)
                  PROVE  granted'[i + RestartLimit] - granted'[i] >= RestartWindow
      BY <1>5 DEF RateKept
    <3>1. CASE i + RestartLimit <= n
      <4>1. i \in 1..n /\ i + RestartLimit \in 1..n
        BY <1>2, <3>1
      <4>2. granted[i + RestartLimit] - granted[i] >= RestartWindow
        BY <1>2, <4>1 DEF PolicyInv, RateKept
      <4>. QED
        BY <1>5, <4>1, <4>2
    <3>2. CASE i + RestartLimit = n + 1
      <4>1. i \in 1..e /\ i \in 1..n
        BY <1>2, <1>3, <1>5, <3>2
      <4>2. granted[i] <= c /\ granted[i] \in Nat
        BY <1>2, <1>3, <4>1 DEF Answers
      <4>3. granted'[i + RestartLimit] = now /\ granted'[i] = granted[i]
        BY <1>5, <3>2, <4>1
      <4>. QED
        BY <1>2, <4>2, <4>3
    <3>. QED
      BY <1>2, <3>1, <3>2
  <2>5. RefusedOnlyIfFull'
    BY <1>5 DEF RefusedOnlyIfFull
  <2>. QED
    BY <1>0, <1>2, <1>5, <2>2, <2>3, <2>4, <2>5 DEF PolicyInv
<1>. QED
  BY <1>3, <1>4, <1>5 DEF Answers

(* The restarts that the policy remembers are the last it has allowed, and *)
(* it has evicted none that is inside the window (supervision.py:22-34).   *)
THEOREM PolicyInvariance == PolicySpec => []PolicyInv
<1>1. PolicyInit => PolicyInv
  <2>. SUFFICES ASSUME PolicyInit PROVE PolicyInv
    OBVIOUS
  <2>1. times = <<>> /\ granted = <<>> /\ now = 0 /\ answer = "none"
    BY DEF PolicyInit
  <2>2. Len(granted) = 0 /\ 0 \in 0..0 /\ 1..0 = {} /\ granted \in Seq(Nat)
    BY <2>1, EmptySeq
  <2>3. Remembers(0)
    BY <2>1, <2>2, PolicyAssumption DEF Remembers, PolicyAssumption
  <2>4. RateKept /\ RefusedOnlyIfFull /\ Dated(granted)
    BY <2>1, <2>2 DEF RateKept, RefusedOnlyIfFull, Dated
  <2>. QED
    BY <2>1, <2>2, <2>3, <2>4 DEF PolicyInv
<1>2. PolicyInv /\ [PolicyNext]_policyVars => PolicyInv'
  <2>. SUFFICES ASSUME PolicyInv, [PolicyNext]_policyVars PROVE PolicyInv'
    OBVIOUS
  <2>1. CASE ShouldRestart
    BY <2>1, AskedInv
  <2>2. CASE Passes
    <3>1. now' \in Nat /\ now < now' /\ UNCHANGED <<times, granted>> /\ answer' = "none"
      BY <2>2, PolicyAssumption DEF Passes, PolicyInv, PolicyAssumption
    <3>2. PICK n \in Nat : n = Len(granted) /\ \A i \in 1..n : granted[i] \in Nat
      BY LenProperties, ElementOfSeq DEF PolicyInv
    <3>3. Dated(granted)'
      BY <3>1, <3>2 DEF PolicyInv, Dated
    <3>4. PICK e \in 0..n : Remembers(e)
      BY <3>2 DEF PolicyInv
    <3>5. Remembers(e)'
      <4>1. \A i \in 1..e : granted[i] <= now' - RestartWindow
        <5>. TAKE i \in 1..e
        <5>1. granted[i] <= now - RestartWindow /\ granted[i] \in Nat
          BY <3>2, <3>4 DEF Remembers
        <5>. QED
          BY <3>1, <5>1, PolicyAssumption DEF PolicyInv, PolicyAssumption
      <4>. QED
        BY <3>1, <3>4, <4>1 DEF Remembers
    <3>6. RateKept' /\ RefusedOnlyIfFull'
      BY <3>1 DEF PolicyInv, RateKept, RefusedOnlyIfFull
    <3>. QED
      BY <3>1, <3>2, <3>3, <3>5, <3>6 DEF PolicyInv
  <2>3. CASE Forgets
    <3>1. times' = <<>> /\ granted' = <<>> /\ now' = now /\ answer' = "none"
      BY <2>3 DEF Forgets
    <3>2. Len(granted') = 0 /\ 0 \in 0..0 /\ 1..0 = {} /\ granted' \in Seq(Nat)
      BY <3>1, EmptySeq
    <3>3. Remembers(0)'
      BY <3>1, <3>2, PolicyAssumption DEF Remembers, PolicyAssumption
    <3>4. RateKept' /\ RefusedOnlyIfFull' /\ Dated(granted)'
      BY <3>1, <3>2 DEF RateKept, RefusedOnlyIfFull, Dated
    <3>. QED
      BY <3>1, <3>2, <3>3, <3>4 DEF PolicyInv
  <2>4. CASE UNCHANGED policyVars
    BY <2>4 DEF policyVars, PolicyInv, Dated, Remembers, RateKept, RefusedOnlyIfFull
  <2>. QED
    BY <2>1, <2>2, <2>3, <2>4 DEF PolicyNext
<1>. QED
  BY <1>1, <1>2, PTL DEF PolicySpec

(* An actor is restarted at most max_restarts times in any window of       *)
(* restart_window_seconds, and a restart is refused only if that many lie  *)
(* in the last one (supervision.py:29-34), for every limit, every window   *)
(* and every course of time.                                               *)
THEOREM LimitIsExact == PolicySpec => [](RateKept /\ RefusedOnlyIfFull)
<1>1. PolicyInv => RateKept /\ RefusedOnlyIfFull
  BY DEF PolicyInv
<1>. QED
  BY <1>1, PolicyInvariance, PTL

(* should_restart() does to the number of restarts in the window what      *)
(* Supervise of ActorSystem does to it (system.py:124).                    *)
THEOREM CountIsEnough == PolicySpec => CountSuffices
<1>1. /\ PolicyInv /\ [PolicyNext]_policyVars
      => [ShouldRestart =>
            \/ \E kept \in 0..Len(times) : kept < RestartLimit /\ Len(times') = kept + 1
            \/ Len(times) >= RestartLimit /\ UNCHANGED times]_policyVars
  <2>. SUFFICES ASSUME PolicyInv, ShouldRestart
                PROVE  \/ \E kept \in 0..Len(times) :
                              kept < RestartLimit /\ Len(times') = kept + 1
                       \/ Len(times) >= RestartLimit /\ UNCHANGED times
    OBVIOUS
  <2>1. PICK n \in Nat : n = Len(granted)
    BY LenProperties DEF PolicyInv
  <2>2. PICK p \in Nat : p = Len(times)
    BY LenProperties DEF PolicyInv
  <2>3. PICK e \in 0..n : Answers(e, n)
    BY <2>1, Asked
  <2>4. PICK d \in 0..n : Remembers(d)
    BY <2>1 DEF PolicyInv
  <2>5. p = n - d /\ p <= RestartLimit /\ \A i \in 1..p : times[i] = granted[d + i]
    BY <2>1, <2>2, <2>4 DEF Remembers
  <2>6. CASE n - e < RestartLimit /\ Len(times') = n - e + 1
    <3>1. n - e \in 0..p
      BY <2>2, <2>3 DEF Answers
    <3>. QED
      BY <2>2, <2>6, <3>1
  <2>7. CASE /\ n - e >= RestartLimit /\ times' \in Seq(Nat) /\ Len(times') = n - e
             /\ \A i \in 1..(n - e) : times'[i] = granted[e + i]
    <3>1. p = n - e /\ d = e /\ p >= RestartLimit
      BY <2>2, <2>3, <2>4, <2>5, <2>7, PolicyAssumption DEF Answers, PolicyAssumption
    <3>2. Len(times') = Len(times) /\ \A i \in 1..Len(times) : times'[i] = times[i]
      BY <2>2, <2>5, <2>7, <3>1
    <3>3. times' = times
      BY <2>7, <3>2, SeqEqual DEF PolicyInv
    <3>. QED
      BY <2>2, <3>1, <3>3
  <2>. QED
    BY <2>3, <2>6, <2>7 DEF Answers
<1>. QED
  BY <1>1, PolicyInvariance, PTL DEF PolicySpec, CountSuffices
=============================================================================
