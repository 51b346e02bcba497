-------------------------- MODULE CollectorProofs --------------------------
(***************************************************************************)
(* Proofs about the task group, for any number of tasks, any limit and any *)
(* number of cancellations.                                                *)
(***************************************************************************)
EXTENDS Collector, TLAPS

(* What is known before __aexit__, and of an aborted group: who asked for  *)
(* it is remembered in et or in propagate_cancellation_error.              *)
BeforeExit ==
    /\ pc = "body" => et = "none" /\ ~heard /\ ~aborting /\ ~propagate
    /\ et # "none" => aborting
    /\ aborting => propagate \/ et \in {"error", "base"}
    /\ propagate => et \in {"none", "cancelled"}

(* A cancellation on its way or received is counted by the parent.         *)
CancelsCounted ==
    /\ due \/ fut = "cancelled" \/ heard => cancels
    /\ heard => aborting

(* The group knows every task that lives, and those alone are at large.    *)
Tracked ==
    /\ \A t \in Tasks : st[t] = "none" <=> t > made
    /\ \A t \in Tasks : st[t] \notin Ended \cup {"none"} => t \in tasks

(* The flags, which some provers want apart from the rest.                 *)
Flags == /\ due \in BOOLEAN /\ aborting \in BOOLEAN /\ propagate \in BOOLEAN
         /\ baseError \in BOOLEAN /\ heard \in BOOLEAN /\ cancels \in BOOLEAN

(* The errors collected are those of the tasks that have reported.         *)
Collected ==
    /\ errors = {t \in Tasks \ tasks : st[t] \in {"error", "base"}}
    /\ baseError <=> et = "base" \/ \E t \in Tasks \ tasks : st[t] = "base"

IInv == /\ TypeOK /\ BeforeExit /\ CancelsCounted /\ Tracked /\ Collected
        /\ SiblingsUntouched /\ Drained /\ ErrorsReported /\ CancelKept

LEMMA InitInv ==
    ASSUME CollectorAssumption, Init
    PROVE  IInv
<1>. USE DEF Init
<1>1. TypeOK
  <2>1. Flags
    BY DEF Flags
  <2>. QED
    BY <2>1 DEF Flags, CollectorAssumption, TypeOK, Tasks
<1>2. Tracked /\ Collected
  BY DEF CollectorAssumption, Tracked, Collected, Tasks, Ended
<1>. QED
  BY <1>1, <1>2 DEF IInv, BeforeExit, CancelsCounted, SiblingsUntouched, Drained,
                    ErrorsReported, CancelKept

LEMMA CreateInv ==
    ASSUME CollectorAssumption, IInv, Create
    PROVE  IInv'
<1>. USE DEF IInv, Create, parent
<1>1. made' \in Tasks /\ made' = made + 1 /\ made \in Nat
  BY DEF TypeOK, CollectorAssumption, Tasks
<1>2. TypeOK'
  BY <1>1 DEF TypeOK, CollectorAssumption, Tasks
<1>3. BeforeExit' /\ CancelsCounted'
  BY DEF BeforeExit, CancelsCounted
<1>4. Tracked'
  BY <1>1 DEF Tracked, TypeOK, Tasks, Ended
<1>5. Collected'
  BY <1>1 DEF Tracked, Collected, TypeOK, Tasks, Ended
<1>6. SiblingsUntouched'
  BY DEF SiblingsUntouched
<1>7. pc # "done"
  BY DEF Drained
<1>. QED
  BY <1>2, <1>3, <1>4, <1>5, <1>6, <1>7 DEF Drained, ErrorsReported, CancelKept

(* A step of a task, or a cancellation from outside: a task that has ended *)
(* or is not yet created stays so, and the parent's flags alone may change.*)
LEMMA MovesInv ==
    ASSUME CollectorAssumption, IInv,
           UNCHANGED <<limit, pc, et, aborting, propagate, raised, outcomes,
                       heard, made, tasks, errors, baseError>>,
           Flags', fut' \in {"none", "pending", "set", "cancelled"},
           fut' = "none" <=> fut = "none",
           CancelsCounted', pc = "done" => due' = due,
           st' \in [Tasks -> Ended \cup {"none", "new", "queued", "granted", "running"}],
           \A t \in Tasks : st'[t] = "none" <=> st[t] = "none",
           \A t \in Tasks : st[t] \in Ended => st'[t] = st[t],
           pending' \subseteq Tasks, told' \subseteq Tasks,
           \A t \in pending' \ told' : t \in pending \ told
    PROVE  IInv'
<1>. USE DEF IInv
<1>1. TypeOK'
  BY DEF TypeOK, Flags
<1>2. BeforeExit'
  BY DEF BeforeExit
<1>3. Tracked'
  BY DEF Tracked
<1>4. \A t \in Tasks : t \notin tasks => st'[t] = st[t]
  BY DEF Tracked, Ended
<1>5. Collected'
  BY <1>4 DEF Collected
<1>6. SiblingsUntouched'
  BY DEF SiblingsUntouched
<1>7. pc = "done" => tasks = {} /\ \A t \in Tasks : st'[t] = st[t]
  BY <1>4 DEF Drained
<1>8. Drained' /\ CancelKept'
  <2>1. 1..made \subseteq Tasks
    BY DEF TypeOK, CollectorAssumption, Tasks
  <2>. QED
    BY <2>1, <1>7 DEF Drained, CancelKept
<1>9. ErrorsReported'
  <2>. SUFFICES ASSUME pc = "done"
                PROVE  ErrorsReported'
    BY DEF ErrorsReported
  <2>1. \A k : Failed(k)' <=> Failed(k)
    BY <1>7 DEF Failed
  <2>2. {t \in Tasks : st'[t] \in {"error", "base"}}
          = {t \in Tasks : st[t] \in {"error", "base"}}
    BY <1>7
  <2>. QED
    BY <2>1, <2>2 DEF ErrorsReported
<1>. QED
  BY <1>1, <1>2, <1>3, <1>5, <1>6, <1>8, <1>9

(* A task gets its result, and one in line perhaps its slot.               *)
LEMMA BecomesMoves ==
    ASSUME TypeOK, NEW t \in Tasks, NEW r \in Ended, Becomes(t, r),
           st[t] \notin Ended \cup {"none"}
    PROVE  /\ st' \in [Tasks -> Ended \cup {"none", "new", "queued", "granted", "running"}]
           /\ \A u \in Tasks : st'[u] = "none" <=> st[u] = "none"
           /\ \A u \in Tasks : st[u] \in Ended => st'[u] = st[u]
           /\ pending' \subseteq Tasks /\ told' \subseteq Tasks
           /\ \A u \in pending' \ told' : u \in pending \ told
<1>1. pending' = pending \ {t} /\ told' = told \ {t}
  BY DEF Becomes
<1>2. CASE st' = [st EXCEPT ![t] = r]
  BY <1>1, <1>2 DEF TypeOK, Ended
<1>3. ASSUME NEW u \in InLine, st' = [st EXCEPT ![t] = r, ![u] = "granted"]
      PROVE  /\ st' \in [Tasks -> Ended \cup {"none", "new", "queued", "granted", "running"}]
             /\ \A v \in Tasks : st'[v] = "none" <=> st[v] = "none"
             /\ \A v \in Tasks : st[v] \in Ended => st'[v] = st[v]
  BY <1>3 DEF TypeOK, Ended, InLine
<1>. QED
  BY <1>1, <1>2, <1>3 DEF Becomes, TypeOK

LEMMA TaskInv ==
    ASSUME CollectorAssumption, IInv, NEW t \in Tasks,
           \/ Begins(t) \/ Proceeds(t) \/ NeverRuns(t) \/ Ends(t)
           \/ Swallows(t) \/ CancelTask(t)
    PROVE  IInv'
<1>. USE DEF IInv
<1>1. /\ UNCHANGED <<limit, parent, group>> /\ Flags'
      /\ fut' \in {"none", "pending", "set", "cancelled"} /\ CancelsCounted'
  <2>1. UNCHANGED <<limit, parent, group>>
    BY DEF Begins, Proceeds, NeverRuns, Ends, Swallows, CancelTask
  <2>2. Flags'
    BY <2>1 DEF parent, group, TypeOK, Flags
  <2>. QED
    BY <2>1, <2>2 DEF parent, group, TypeOK, CancelsCounted
<1>. DEFINE Moved ==
       /\ st' \in [Tasks -> Ended \cup {"none", "new", "queued", "granted", "running"}]
       /\ \A u \in Tasks : st'[u] = "none" <=> st[u] = "none"
       /\ \A u \in Tasks : st[u] \in Ended => st'[u] = st[u]
       /\ pending' \subseteq Tasks /\ told' \subseteq Tasks
       /\ \A u \in pending' \ told' : u \in pending \ told
<1>2. CASE Begins(t)
  <2>1. Moved
    BY <1>2 DEF Begins, TypeOK, Ended
  <2>. QED
    BY <1>1, <2>1, MovesInv DEF parent, group
<1>3. CASE Proceeds(t)
  <2>1. Moved
    BY <1>3 DEF Proceeds, TypeOK, Ended
  <2>. QED
    BY <1>1, <2>1, MovesInv DEF parent, group
<1>4. CASE NeverRuns(t)
  <2>1. Moved
    BY <1>4, BecomesMoves DEF NeverRuns, Ended
  <2>. QED
    BY <1>1, <2>1, MovesInv DEF parent, group
<1>5. CASE Ends(t)
  <2>1. Moved
    BY <1>5, BecomesMoves DEF Ends, Ended
  <2>. QED
    BY <1>1, <2>1, MovesInv DEF parent, group
<1>6. CASE Swallows(t) \/ CancelTask(t)
  <2>1. Moved
    BY <1>6 DEF Swallows, CancelTask, TypeOK
  <2>. QED
    BY <1>1, <2>1, MovesInv DEF parent, group
<1>. QED
  BY <1>2, <1>3, <1>4, <1>5, <1>6

(* cancel() of the parent.                                                 *)
LEMMA CancelParentEffect ==
    ASSUME IInv, CancelParent, UNCHANGED <<limit, baseError>>
    PROVE  /\ Flags' /\ CancelsCounted' /\ pc # "done"
           /\ fut' \in {"none", "pending", "set", "cancelled"}
           /\ fut' = "none" <=> fut = "none"
           /\ UNCHANGED <<pc, et, aborting, propagate, raised, outcomes, heard>>
<1>. USE DEF IInv, CancelParent
<1>1. Flags'
  BY DEF TypeOK, Flags
<1>2. CancelsCounted'
  BY DEF CancelsCounted
<1>. QED
  BY <1>1, <1>2 DEF TypeOK

LEMMA CancelInv ==
    ASSUME CollectorAssumption, IInv, Cancel
    PROVE  IInv'
<1>1. CancelParent /\ UNCHANGED <<limit, made, tasks, errors, baseError, st, pending, told>>
  BY DEF Cancel, group, slots
<1>2. \A t \in pending' \ told' : t \in pending \ told
  BY <1>1
<1>. QED
  BY <1>1, <1>2, CancelParentEffect, MovesInv DEF IInv, TypeOK

LEMMA EndsBaseInv ==
    ASSUME CollectorAssumption, IInv, NEW t \in Tasks, EndsBase(t)
    PROVE  IInv'
<1>1. CancelParent /\ UNCHANGED <<limit, made, tasks, errors, baseError>>
  BY DEF EndsBase, group
<1>2. /\ st[t] = "running" /\ st' = [st EXCEPT ![t] = "base"]
      /\ pending' = (pending \cup Alive) \ {t}
      /\ told' = (told \cup Alive) \ {t}
  BY DEF EndsBase
<1>3. /\ st' \in [Tasks -> Ended \cup {"none", "new", "queued", "granted", "running"}]
      /\ \A u \in Tasks : st'[u] = "none" <=> st[u] = "none"
      /\ \A u \in Tasks : st[u] \in Ended => st'[u] = st[u]
  BY <1>2 DEF IInv, TypeOK, Ended
<1>4. /\ pending' \subseteq Tasks /\ told' \subseteq Tasks
      /\ \A u \in pending' \ told' : u \in pending \ told
  BY <1>2 DEF IInv, TypeOK, Alive
<1>. QED
  BY <1>1, <1>3, <1>4, CancelParentEffect, MovesInv

LEMMA OnTaskDoneInv ==
    ASSUME CollectorAssumption, IInv, NEW t \in Tasks, OnTaskDone(t)
    PROVE  IInv'
<1>. USE DEF IInv
<1>1. /\ t \in tasks /\ st[t] \in Ended /\ tasks' = tasks \ {t}
      /\ fut' = IF fut = "pending" /\ tasks' = {} THEN "set" ELSE fut
      /\ errors' = IF st[t] \in {"error", "base"} THEN errors \cup {t} ELSE errors
      /\ baseError' = (baseError \/ st[t] = "base")
      /\ UNCHANGED <<limit, pc, et, due, cancels, aborting, propagate, raised,
                     outcomes, heard, made, st, pending, told>>
  BY DEF OnTaskDone, slots
<1>2. TypeOK'
  <2>1. Flags'
    BY <1>1 DEF TypeOK, Flags
  <2>2. fut' \in {"none", "pending", "set", "cancelled"} /\ fut' = "none" <=> fut = "none"
    BY <1>1 DEF TypeOK
  <2>3. tasks' \subseteq 1..made /\ errors' \subseteq 1..made
    BY <1>1 DEF TypeOK
  <2>. QED
    BY <1>1, <2>1, <2>2, <2>3 DEF TypeOK, Flags
<1>3. BeforeExit' /\ CancelsCounted' /\ SiblingsUntouched'
  BY <1>1 DEF BeforeExit, CancelsCounted, SiblingsUntouched
<1>4. Tracked'
  BY <1>1 DEF Tracked, Ended
<1>5. Collected'
  <2>1. Tasks \ tasks' = (Tasks \ tasks) \cup {t}
    BY <1>1
  <2>2. errors' = {u \in Tasks \ tasks' : st[u] \in {"error", "base"}}
    BY <1>1, <2>1 DEF Collected
  <2>3. baseError' <=> et = "base" \/ \E u \in Tasks \ tasks' : st[u] = "base"
    BY <1>1, <2>1 DEF Collected
  <2>. QED
    BY <1>1, <2>2, <2>3 DEF Collected
<1>6. pc' # "done"
  BY <1>1 DEF Drained
<1>. QED
  BY <1>2, <1>3, <1>4, <1>5, <1>6 DEF Drained, ErrorsReported, CancelKept

(* The end of __aexit__: what it raises, from what the group has recorded. *)
LEMMA FinishesInv ==
    ASSUME CollectorAssumption, NEW late, Finishes(late),
           UNCHANGED <<made, tasks, errors, st, cancels>>, TypeOK', BeforeExit',
           CancelsCounted', Tracked', Collected'
    PROVE  Drained' /\ ErrorsReported' /\ CancelKept'
<1>1. /\ tasks' = {} /\ pc' = "done"
      /\ outcomes' = [t \in 1..made' |-> st'[t]]
      /\ raised' = IF baseError' THEN "base"
                   ELSE IF propagate' /\ errors' = {} THEN "cancelled"
                   ELSE IF errors' # {} \/ et' = "error" THEN "group"
                   ELSE "nothing"
      /\ raised' = "group" /\ cancels' => due'
  BY DEF Finishes
<1>2. \A t \in Tasks : st'[t] \in Ended \cup {"none"}
  BY <1>1 DEF Tracked
<1>3. Drained'
  <2>1. \A t \in 1..made' : t \in Tasks /\ ~(t > made')
    BY DEF TypeOK, CollectorAssumption, Tasks
  <2>2. \A t \in 1..made' : st'[t] \in Ended
    BY <1>2, <2>1 DEF Tracked
  <2>. QED
    BY <1>1, <2>2 DEF Drained
<1>4. errors' = {t \in Tasks : st'[t] \in {"error", "base"}}
  BY <1>1 DEF Collected
<1>5. baseError' <=> et' = "base" \/ Failed("base")'
  BY <1>1 DEF Collected, Failed
<1>6. ~baseError' => (errors' # {} <=> Failed("error")')
  BY <1>4, <1>5 DEF Failed
<1>7. ErrorsReported'
  <2>1. raised' = "base" <=> baseError'
    BY <1>1
  <2>2. et' = "error" => ~propagate'
    BY DEF BeforeExit
  <2>3. raised' = "group" <=> ~baseError' /\ (et' = "error" \/ errors' # {})
    BY <1>1, <2>2
  <2>. QED
    BY <1>4, <1>5, <1>6, <2>1, <2>3 DEF ErrorsReported
<1>8. CancelKept'
  <2>. SUFFICES ASSUME heard', ~baseError'
                PROVE  raised' = "cancelled" \/ due'
    BY <1>1 DEF CancelKept
  <2>1. cancels' /\ (propagate' \/ et' = "error")
    BY <1>5 DEF CancelsCounted, BeforeExit
  <2>. QED
    BY <1>1, <2>1
<1>. QED
  BY <1>3, <1>7, <1>8

LEMMA ExitInv ==
    ASSUME CollectorAssumption, IInv,
           NEW e \in {"none", "error", "base", "cancelled"}, Exit(e)
    PROVE  IInv'
<1>. USE DEF IInv
<1>. DEFINE late == due /\ e # "cancelled"
<1>1. /\ pc = "body" /\ et' = e
      /\ baseError' = (baseError \/ e = "base")
      /\ propagate' = (e = "cancelled")
      /\ heard' = (e = "cancelled" /\ due)
      /\ UNCHANGED <<limit, cancels, made, tasks, errors, st, told>>
      /\ Waits(late) \/ Finishes(late)
  BY DEF Exit
<1>2. /\ aborting' = (e # "none")
      /\ pending' \subseteq Tasks
      /\ e = "none" => pending' = pending
  BY <1>1 DEF Exit, Abort, BeforeExit, TypeOK, Alive
<1>3. et = "none" /\ ~heard /\ ~aborting /\ ~propagate
  BY <1>1 DEF BeforeExit
<1>4. /\ pc' \in {"waiting", "done"}
      /\ fut' \in {"none", "pending", "set", "cancelled"}
      /\ pc' = "waiting" <=> fut' # "none"
      /\ due' => cancels
      /\ fut' = "cancelled" => cancels
      /\ due' \in BOOLEAN
      /\ raised' \in {"nothing", "base", "cancelled", "group"}
  BY <1>1 DEF Waits, Finishes, TypeOK, CancelsCounted
<1>5. TypeOK'
  <2>1. Flags'
    BY <1>1, <1>2, <1>4 DEF TypeOK, Flags
  <2>. QED
    BY <1>1, <1>2, <1>4, <2>1 DEF TypeOK, Flags
<1>6. BeforeExit'
  BY <1>1, <1>2, <1>4 DEF BeforeExit
<1>7. CancelsCounted'
  BY <1>1, <1>2, <1>4 DEF CancelsCounted
<1>8. Tracked' /\ Collected'
  BY <1>1, <1>3 DEF Tracked, Collected
<1>9. SiblingsUntouched'
  BY <1>1, <1>2, <1>3 DEF SiblingsUntouched
<1>10. CASE Waits(late)
  BY <1>5, <1>6, <1>7, <1>8, <1>9, <1>10
     DEF Waits, Drained, ErrorsReported, CancelKept
<1>11. CASE Finishes(late)
  BY <1>1, <1>5, <1>6, <1>7, <1>8, <1>9, <1>11, FinishesInv
<1>. QED
  BY <1>1, <1>10, <1>11

LEMMA ResumesInv ==
    ASSUME CollectorAssumption, IInv, Resumes
    PROVE  IInv'
<1>. USE DEF IInv
<1>. DEFINE cancelled == due \/ fut = "cancelled"
<1>1. /\ pc = "waiting" /\ fut \in {"set", "cancelled"}
      /\ heard' = (heard \/ cancelled)
      /\ UNCHANGED <<limit, et, baseError, cancels, made, tasks, errors, st, told>>
      /\ Waits(FALSE) \/ Finishes(FALSE)
  BY DEF Resumes
<1>2. /\ propagate' = (propagate \/ (cancelled /\ ~aborting))
      /\ aborting' = (aborting \/ cancelled)
      /\ pending' \subseteq Tasks
      /\ ~cancelled => pending' = pending
      /\ aborting => pending' = pending
  BY DEF Resumes, Abort, Alive, TypeOK
<1>3. /\ pc' \in {"waiting", "done"}
      /\ fut' \in {"none", "pending", "set", "cancelled"}
      /\ pc' = "waiting" <=> fut' # "none"
      /\ due' => cancels
      /\ fut' # "cancelled"
      /\ due' \in BOOLEAN
      /\ raised' \in {"nothing", "base", "cancelled", "group"}
  BY <1>1 DEF Waits, Finishes, TypeOK
<1>4. TypeOK'
  <2>1. Flags'
    BY <1>1, <1>2, <1>3 DEF TypeOK, Flags
  <2>. QED
    BY <1>1, <1>2, <1>3, <2>1 DEF TypeOK, Flags
<1>5. BeforeExit'
  BY <1>1, <1>2, <1>3 DEF BeforeExit
<1>6. CancelsCounted'
  BY <1>1, <1>2, <1>3 DEF CancelsCounted
<1>7. Tracked' /\ Collected'
  BY <1>1 DEF Tracked, Collected
<1>8. SiblingsUntouched'
  BY <1>1, <1>2 DEF SiblingsUntouched
<1>9. CASE Waits(FALSE)
  BY <1>4, <1>5, <1>6, <1>7, <1>8, <1>9
     DEF Waits, Drained, ErrorsReported, CancelKept
<1>10. CASE Finishes(FALSE)
  BY <1>1, <1>4, <1>5, <1>6, <1>7, <1>8, <1>10, FinishesInv
<1>. QED
  BY <1>1, <1>9, <1>10

LEMMA NextInv ==
    ASSUME CollectorAssumption, IInv, [Next]_vars
    PROVE  IInv'
<1>1. CASE Create
  BY <1>1, CreateInv
<1>2. ASSUME NEW t \in Tasks,
             \/ Steps(t) \/ Ends(t) \/ EndsBase(t) \/ Swallows(t)
             \/ CancelTask(t) \/ OnTaskDone(t)
      PROVE  IInv'
  BY <1>2, TaskInv, EndsBaseInv, OnTaskDoneInv DEF Steps
<1>3. CASE Cancel
  BY <1>3, CancelInv
<1>4. ASSUME NEW e \in {"none", "error", "base", "cancelled"}, Exit(e)
      PROVE  IInv'
  BY <1>4, ExitInv
<1>5. CASE BodySwallows
  <2>1. /\ pc = "body" /\ due' = FALSE
        /\ UNCHANGED <<limit, pc, et, fut, cancels, aborting, propagate, raised,
                       outcomes, heard, made, tasks, errors, baseError, st,
                       pending, told>>
    BY <1>5 DEF BodySwallows, group, slots
  <2>2. Flags'
    BY <2>1 DEF IInv, TypeOK, Flags
  <2>3. CancelsCounted'
    BY <2>1 DEF IInv, CancelsCounted
  <2>4. \A t \in pending' \ told' : t \in pending \ told
    BY <2>1
  <2>. QED
    BY <2>1, <2>2, <2>3, <2>4, MovesInv DEF IInv, TypeOK
<1>6. CASE Resumes
  BY <1>6, ResumesInv
<1>7. CASE UNCHANGED vars
  <2>1. Flags' /\ CancelsCounted'
    BY <1>7 DEF vars, parent, group, slots, IInv, TypeOK, Flags, CancelsCounted
  <2>2. \A t \in pending' \ told' : t \in pending \ told
    BY <1>7 DEF vars, slots
  <2>. QED
    BY <1>7, <2>1, <2>2, MovesInv DEF vars, parent, group, slots, IInv, TypeOK
<1>. QED
  BY <1>1, <1>2, <1>3, <1>4, <1>5, <1>6, <1>7 DEF Next

(* The task group keeps its invariant, for any number of tasks.            *)
THEOREM Invariance == Spec => []IInv
<1>1. Init => IInv
  BY InitInv, CollectorAssumption
<1>2. IInv /\ [Next]_vars => IInv'
  BY NextInv, CollectorAssumption
<1>. QED
  BY <1>1, <1>2, PTL DEF Spec

(* The attributes have their shape.                                        *)
THEOREM TypeCorrect == Spec => []TypeOK
<1>1. IInv => TypeOK
  BY DEF IInv
<1>. QED
  BY <1>1, Invariance, PTL

(* Nothing outlives the group.                                             *)
THEOREM NothingOutlives == Spec => []Drained
<1>1. IInv => Drained
  BY DEF IInv
<1>. QED
  BY <1>1, Invariance, PTL

(* No error is lost.                                                       *)
THEOREM NoErrorLost == Spec => []ErrorsReported
<1>1. IInv => ErrorsReported
  BY DEF IInv
<1>. QED
  BY <1>1, Invariance, PTL

(* No cancellation of the parent is lost.                                  *)
THEOREM NoCancelLost == Spec => []CancelKept
<1>1. IInv => CancelKept
  BY DEF IInv
<1>. QED
  BY <1>1, Invariance, PTL

(* A failing task leaves its siblings alone.                               *)
THEOREM Independence == Spec => []SiblingsUntouched
<1>1. IInv => SiblingsUntouched
  BY DEF IInv
<1>. QED
  BY <1>1, Invariance, PTL
=============================================================================
