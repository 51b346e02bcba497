----------------------------- MODULE Collector -----------------------------
(***************************************************************************)
(* CollectorTaskGroup (taskgroup_collect/_collector.py): its parent, the   *)
(* tasks of the group, whoever cancels either, and the semaphore that      *)
(* limits how many coroutines run at once.                                 *)
(*                                                                         *)
(* An action is what one task does between two suspensions.  A task that   *)
(* has ended reports to the group in a callback of its own, _on_task_done, *)
(* which the event loop runs later.                                        *)
(***************************************************************************)
EXTENDS Integers, FiniteSets

CONSTANTS
    NumTasks,       \* bound: how many tasks are created
    Limits          \* the values of "limit"; one >= NumTasks stands for None

ASSUME CollectorAssumption ==
    NumTasks \in Nat /\ Limits \subseteq Nat \ {0}

Tasks == 1..NumTasks
Ended == {"ok", "error", "base", "cancelled"}

VARIABLES
    limit,      \* _limit
    pc,         \* the parent: "body", "waiting" in __aexit__, or "done"
    et,         \* how the body ended: "none", "error", "base", "cancelled"
    fut,        \* _on_completed_fut: "none", "pending", "set", "cancelled"
    due,        \* the parent has a cancellation not yet delivered
    cancels,    \* parent.cancelling() > 0
    aborting,   \* _aborting
    propagate,  \* propagate_cancellation_error is set
    made,       \* len(_task_order): task i is the i-th created
    tasks,      \* _tasks
    errors,     \* _errors: the tasks whose exceptions were collected
    baseError,  \* _base_error is set
    st,         \* where each task is
    pending,    \* the tasks that have a cancellation not yet delivered
    raised,     \* what __aexit__ raised, "nothing" included
    outcomes,   \* _outcomes_result
    told,       \* history: which of these were cancelled by others
    heard       \* history: a cancellation of the parent reached the group

parent == <<pc, et, fut, due, cancels, aborting, propagate, raised, outcomes, heard>>
group  == <<made, tasks, errors, baseError>>
slots  == <<st, pending>>
vars   == <<limit, parent, group, slots, told>>

Init ==
    /\ limit \in Limits
    /\ pc = "body" /\ et = "none" /\ fut = "none"
    /\ due = FALSE /\ cancels = FALSE
    /\ aborting = FALSE /\ propagate = FALSE
    /\ made = 0 /\ tasks = {} /\ errors = {} /\ baseError = FALSE
    /\ st = [t \in Tasks |-> "none"]
    /\ pending = {}
    /\ raised = "nothing" /\ outcomes = <<>>
    /\ told = {} /\ heard = FALSE

Alive == {t \in Tasks : st[t] \notin Ended \cup {"none"}}

-----------------------------------------------------------------------------
(* create_task(), by the body, by a task of the group or by others.        *)
Create ==
    /\ made < NumTasks
    /\ pc = "body" \/ tasks # {}
    /\ ~aborting
    /\ made' = made + 1
    /\ tasks' = tasks \cup {made'}
    /\ st' = [st EXCEPT ![made'] = "new"]
    /\ UNCHANGED <<limit, parent, errors, baseError, pending, told>>

(* _with_semaphore(): a slot that is free, and not promised to a waiter,   *)
(* is taken at once.  asyncio.Semaphore serves its waiters in order; here  *)
(* it may serve any of them.                                               *)
InLine  == {t \in Tasks : st[t] = "queued" /\ t \notin pending}
Holders == {t \in Tasks : st[t] \in {"granted", "running"}}

Begins(t) ==
    /\ st[t] = "new" /\ t \notin pending
    /\ st' = [st EXCEPT ![t] =
                IF Cardinality(Holders) < limit /\ InLine = {}
                THEN "running" ELSE "queued"]
    /\ UNCHANGED <<limit, parent, group, pending, told>>

Proceeds(t) ==
    /\ st[t] = "granted" /\ t \notin pending
    /\ st' = [st EXCEPT ![t] = "running"]
    /\ UNCHANGED <<limit, parent, group, pending, told>>

\* mutation: a coroutine that raises does not wake the next in line
BecomesSilently(t, result) ==
    /\ pending' = pending \ {t} /\ told' = told \ {t}
    /\ IF t \in Holders /\ InLine # {} /\ result = "ok"
       THEN \E u \in InLine : st' = [st EXCEPT ![t] = result, ![u] = "granted"]
       ELSE st' = [st EXCEPT ![t] = result]

(* A task that ends gives its slot to one whose wait was not cancelled.    *)
Becomes(t, result) ==
    /\ pending' = pending \ {t} /\ told' = told \ {t}
    /\ IF t \in Holders /\ InLine # {}
       THEN \E u \in InLine : st' = [st EXCEPT ![t] = result, ![u] = "granted"]
       ELSE st' = [st EXCEPT ![t] = result]

(* The cancellation comes before the coroutine runs: it never does.        *)
NeverRuns(t) ==
    /\ st[t] \in {"new", "queued", "granted"} /\ t \in pending
    /\ Becomes(t, "cancelled")
    /\ UNCHANGED <<limit, parent, group>>

Ends(t) ==
    /\ st[t] = "running"
    /\ \E result \in {"ok", "error", "cancelled"} : Becomes(t, result)
    /\ UNCHANGED <<limit, parent, group>>

(* The coroutine catches its CancelledError and goes on.                   *)
Swallows(t) ==
    /\ st[t] = "running" /\ t \in pending
    /\ pending' = pending \ {t} /\ told' = told \ {t}
    /\ UNCHANGED <<limit, parent, group, st>>

(* task.cancel() of a task of the group, by others than the group.         *)
CancelTask(t) ==
    /\ t \in Alive \ pending
    /\ pending' = pending \cup {t}
    /\ told' = told \cup {t}
    /\ UNCHANGED <<limit, parent, group, st>>

(* parent.cancel(): a future that is awaited and not done is cancelled, or *)
(* the cancellation waits for the next step.                               *)
CancelParent ==
    /\ pc # "done"
    /\ cancels' = TRUE
    /\ IF fut = "pending"
       THEN fut' = "cancelled" /\ UNCHANGED due
       ELSE due' = TRUE /\ UNCHANGED fut
    /\ UNCHANGED <<pc, et, aborting, propagate, raised, outcomes, heard>>

Cancel ==
    /\ CancelParent
    /\ UNCHANGED <<limit, group, slots, told>>

(* KeyboardInterrupt or SystemExit in a task stops the event loop; its     *)
(* runner then cancels every task, the parent too.                         *)
EndsBase(t) ==
    /\ st[t] = "running"
    /\ baseError = FALSE /\ pc # "done" /\ \A u \in Tasks : st[u] # "base"
    /\ st' = [st EXCEPT ![t] = "base"]
    /\ pending' = (pending \cup Alive) \ {t}
    /\ told' = (told \cup Alive) \ {t}
    /\ CancelParent
    /\ UNCHANGED <<limit, group>>

-----------------------------------------------------------------------------
\* mutation: the first error cancels the siblings, as in asyncio.TaskGroup
OnTaskDoneAborting(t) ==
    /\ t \in tasks /\ st[t] \in Ended
    /\ tasks' = tasks \ {t}
    /\ fut' = IF fut = "pending" /\ tasks' = {} THEN "set" ELSE fut
    /\ errors' = IF st[t] \in {"error", "base"} THEN errors \cup {t} ELSE errors
    /\ baseError' = (baseError \/ st[t] = "base")
    /\ pending' = IF st[t] = "error" THEN pending \cup (tasks' \cap Alive) ELSE pending
    /\ UNCHANGED <<limit, pc, et, due, cancels, aborting, propagate, raised,
                   outcomes, heard, made, st, told>>

\* mutation: returns for a cancelled task before it looks at the future
OnTaskDoneEarly(t) ==
    /\ t \in tasks /\ st[t] \in Ended
    /\ tasks' = tasks \ {t}
    /\ fut' = IF fut = "pending" /\ tasks' = {} /\ st[t] # "cancelled"
              THEN "set" ELSE fut
    /\ errors' = IF st[t] \in {"error", "base"} THEN errors \cup {t} ELSE errors
    /\ baseError' = (baseError \/ st[t] = "base")
    /\ UNCHANGED <<limit, pc, et, due, cancels, aborting, propagate, raised,
                   outcomes, heard, made, slots, told>>

(* The callback of a task that has ended.                                  *)
OnTaskDone(t) ==
    /\ t \in tasks /\ st[t] \in Ended
    /\ tasks' = tasks \ {t}
    /\ fut' = IF fut = "pending" /\ tasks' = {} THEN "set" ELSE fut
    /\ errors' = IF st[t] \in {"error", "base"} THEN errors \cup {t} ELSE errors
    /\ baseError' = (baseError \/ st[t] = "base")
    /\ UNCHANGED <<limit, pc, et, due, cancels, aborting, propagate, raised,
                   outcomes, heard, made, slots, told>>

(* _abort()                                                                *)
Abort ==
    /\ aborting' = TRUE
    /\ pending' = pending \cup (tasks \cap Alive)

(* The loop of _aexit() awaits a new future; a cancellation that is due    *)
(* cancels it on the spot.                                                 *)
Waits(late) ==
    /\ tasks # {}
    /\ pc' = "waiting"
    /\ fut' = IF late THEN "cancelled" ELSE "pending"
    /\ due' = FALSE
    /\ UNCHANGED <<raised, outcomes>>

\* mutation: the cancellation is not repeated when errors are raised
FinishesForgetting(late) ==
    /\ tasks = {}
    /\ pc' = "done" /\ fut' = "none"
    /\ outcomes' = [t \in 1..made |-> st[t]]
    /\ raised' = IF baseError' THEN "base"
                 ELSE IF propagate' /\ errors = {} THEN "cancelled"
                 ELSE IF errors # {} \/ et' = "error" THEN "group"
                 ELSE "nothing"
    /\ due' = late

\* mutation: the cancellation is raised although there are errors
FinishesCancelled(late) ==
    /\ tasks = {}
    /\ pc' = "done" /\ fut' = "none"
    /\ outcomes' = [t \in 1..made |-> st[t]]
    /\ raised' = IF baseError' THEN "base"
                 ELSE IF propagate' THEN "cancelled"
                 ELSE IF errors # {} \/ et' = "error" THEN "group"
                 ELSE "nothing"
    /\ due' = (late \/ (raised' = "group" /\ cancels))

(* The rest of _aexit(), once no task is left.  A cancellation that gives  *)
(* way to errors is repeated: the parent meets it at its next await.       *)
Finishes(late) ==
    /\ tasks = {}
    /\ pc' = "done" /\ fut' = "none"
    /\ outcomes' = [t \in 1..made |-> st[t]]
    /\ raised' = IF baseError' THEN "base"
                 ELSE IF propagate' /\ errors = {} THEN "cancelled"
                 ELSE IF errors # {} \/ et' = "error" THEN "group"
                 ELSE "nothing"
    /\ due' = (late \/ (raised' = "group" /\ cancels))

(* The body ends, by itself or by an exception, and __aexit__ begins.      *)
Exit(e) ==
    /\ pc = "body"
    /\ et' = e
    /\ baseError' = (baseError \/ e = "base")
    /\ propagate' = (e = "cancelled")
    /\ heard' = (e = "cancelled" /\ due)
    /\ IF e = "none" THEN UNCHANGED <<aborting, pending>> ELSE Abort
    /\ LET late == due /\ e # "cancelled" IN Waits(late) \/ Finishes(late)
    /\ UNCHANGED <<limit, cancels, made, tasks, errors, st, told>>

(* The body catches its CancelledError and goes on.                        *)
BodySwallows ==
    /\ pc = "body" /\ due
    /\ due' = FALSE
    /\ UNCHANGED <<limit, pc, et, fut, cancels, aborting, propagate, raised,
                   outcomes, heard, group, slots, told>>

\* mutation: a wait that was cancelled is not repeated
ResumesOnce ==
    /\ pc = "waiting" /\ fut \in {"set", "cancelled"}
    /\ UNCHANGED <<limit, et, baseError, cancels, made, tasks, errors, st, told>>
    /\ LET cancelled == due \/ fut = "cancelled" IN
       /\ heard' = (heard \/ cancelled)
       /\ IF cancelled /\ ~aborting
          THEN propagate' = TRUE /\ Abort
          ELSE UNCHANGED <<propagate, aborting, pending>>
    /\ pc' = "done" /\ fut' = "none" /\ due' = FALSE
    /\ outcomes' = [t \in 1..made |-> st[t]]
    /\ raised' = IF baseError THEN "base"
                 ELSE IF propagate' /\ errors = {} THEN "cancelled"
                 ELSE IF errors # {} \/ et = "error" THEN "group"
                 ELSE "nothing"

(* The parent resumes from its await: with CancelledError if the future    *)
(* was cancelled, or if cancel() came after the future was set.            *)
Resumes ==
    /\ pc = "waiting" /\ fut \in {"set", "cancelled"}
    /\ UNCHANGED <<limit, et, baseError, cancels, made, tasks, errors, st, told>>
    /\ LET cancelled == due \/ fut = "cancelled" IN
       /\ heard' = (heard \/ cancelled)
       /\ IF cancelled /\ ~aborting
          THEN propagate' = TRUE /\ Abort
          ELSE UNCHANGED <<propagate, aborting, pending>>
    /\ Waits(FALSE) \/ Finishes(FALSE)

-----------------------------------------------------------------------------
Steps(t) == Begins(t) \/ Proceeds(t) \/ NeverRuns(t)

Next ==
    \/ Create
    \/ \E t \in Tasks : \/ Steps(t) \/ Ends(t) \/ EndsBase(t) \/ Swallows(t)
                        \/ CancelTask(t) \/ OnTaskDone(t)
    \/ Cancel
    \/ \E e \in {"none", "error", "base", "cancelled"} : Exit(e)
    \/ BodySwallows
    \/ Resumes

Spec == Init /\ [][Next]_vars

(* The event loop runs what is ready, and every coroutine ends some time.  *)
FairSpec ==
    /\ Spec
    /\ \A t \in Tasks : /\ WF_vars(Steps(t)) /\ WF_vars(OnTaskDone(t))
                        /\ WF_vars(Ends(t))
    /\ WF_vars(Resumes)

-----------------------------------------------------------------------------
(* The attributes have their shape.                                        *)
TypeOK ==
    /\ limit \in Limits
    /\ pc \in {"body", "waiting", "done"}
    /\ et \in {"none", "error", "base", "cancelled"}
    /\ fut \in {"none", "pending", "set", "cancelled"}
    /\ pc = "waiting" <=> fut # "none"
    /\ due \in BOOLEAN /\ aborting \in BOOLEAN /\ propagate \in BOOLEAN
    /\ baseError \in BOOLEAN /\ heard \in BOOLEAN
    /\ cancels \in BOOLEAN /\ made \in 0..NumTasks
    /\ tasks \subseteq 1..made /\ errors \subseteq 1..made
    /\ st \in [Tasks -> Ended \cup {"none", "new", "queued", "granted", "running"}]
    /\ pending \subseteq Tasks /\ told \subseteq Tasks
    /\ raised \in {"nothing", "base", "cancelled", "group"}

(* Nothing outlives the group: when __aexit__ is over every task created   *)
(* has ended and reported, and its final result is in outcomes().          *)
Drained ==
    pc = "done" =>
        /\ tasks = {}
        /\ outcomes \in [1..made -> Ended]
        /\ \A t \in 1..made : outcomes[t] = st[t]

Failed(kind) == \E t \in Tasks : st[t] = kind

(* No error is lost, whatever cancellations come with it: KeyboardInterrupt *)
(* and SystemExit come first, then all errors of tasks and body together.  *)
ErrorsReported ==
    pc = "done" =>
        /\ raised = "base" <=> et = "base" \/ Failed("base")
        /\ raised = "group" <=> /\ raised # "base"
                                /\ et = "error" \/ Failed("error")
        /\ errors = {t \in Tasks : st[t] \in {"error", "base"}}

(* A cancellation of the parent that reached the group is not lost: it is  *)
(* raised, or waits behind the errors, unless a base error takes over.     *)
CancelKept ==
    pc = "done" /\ heard => raised \in {"cancelled", "base"} \/ due

(* The purpose of the group: a failing task leaves its siblings alone.     *)
(* Only a failing or cancelled parent makes the group cancel a task.       *)
SiblingsUntouched ==
    \A t \in pending : t \in told \/ et # "none" \/ heard

(* __aexit__ ends, given that the coroutines end.                          *)
ExitEnds == pc = "waiting" ~> pc = "done"

(* Every task in line for the semaphore gets a slot, or its cancellation.  *)
Served == \A t \in Tasks : st[t] = "queued" ~> st[t] # "queued"
=============================================================================
