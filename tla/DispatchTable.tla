--------------------------- MODULE DispatchTable ---------------------------
(***************************************************************************)
(* What a dispatcher promises, without sorted list and without cache: the  *)
(* handlers stand in a queue per priority, in the order of registration,   *)
(* and a call runs the best one for its arguments.  A version saves the    *)
(* queues and the fallback.                                                *)
(***************************************************************************)
EXTENDS Selection

CONSTANTS
    Funcs, Values, Priorities, Contexts, Advice,
    Matches,     \* the calls each handler accepts
    Distance,    \* how far a handler's types are from those of a call
    Nobody, Ambiguous

VARIABLES
    specific,    \* is the nearest handler the best, or the most urgent one?
    level,       \* the queue of each priority
    fallback,
    advice,      \* the advisors, in the order of registration
    saved,       \* the version each context would go back to
    answer       \* what the last step, if a call, has run

vars == <<specific, level, fallback, advice, saved, answer>>

Empty == [p \in Priorities |-> <<>>]

Init ==
    /\ specific \in BOOLEAN
    /\ level = Empty /\ fallback = Nobody /\ advice = <<>>
    /\ saved = [c \in Contexts |-> <<>>]
    /\ answer = <<>>

(* A handler is named by its queue and its place there.                    *)
Candidates(l, v) ==
    {r \in UNION {{p} \X DOMAIN l[p] : p \in Priorities} : v \in Matches[l[r[1]][r[2]]]}

(* The most urgent of the candidates, and of these the one that came first.*)
Urgent(hits) ==
    CHOOSE r \in hits : \A q \in hits : q[1] < r[1] \/ (q[1] = r[1] /\ q[2] >= r[2])

Nearest(l, hits, v) ==
    {r \in hits : \A q \in hits :
        Distance[l[r[1]][r[2]]][v] <= Distance[l[q[1]][q[2]]][v]}

Best(l, v) ==
    LET hits    == Candidates(l, v)
        func(r) == l[r[1]][r[2]]
    IN  IF hits = {} THEN fallback
        ELSE IF ~specific THEN func(Urgent(hits))
        ELSE IF \E r \in hits : Nearest(l, hits, v) = {r}
             THEN func(CHOOSE r \in hits : Nearest(l, hits, v) = {r})
        ELSE Ambiguous

-----------------------------------------------------------------------------
Table(l, f, a) == answer' = <<>> /\ fallback' = f /\ advice' = a /\ level' = l

Register(f, p) ==
    /\ Table([level EXCEPT ![p] = Append(@, f)], fallback, advice)
    /\ UNCHANGED saved

Unregister(f) ==
    /\ Table([p \in Priorities |->
                  Select(level[p], {i \in DOMAIN level[p] : level[p][i] # f})],
             fallback, Select(advice, {i \in DOMAIN advice : advice[i].func # f}))
    /\ UNCHANGED saved

Fallback(f) == Table(level, f, advice) /\ UNCHANGED saved

Advise(a) == Table(level, fallback, Append(advice, a)) /\ UNCHANGED saved

Clear == Table(Empty, Nobody, <<>>) /\ UNCHANGED saved

Save(c) ==
    /\ saved' = [saved EXCEPT ![c] = <<level, fallback>>]
    /\ Table(level, fallback, advice)

(* A version covers the handlers, not their advisors.                      *)
Restore(c) ==
    /\ saved[c] # <<>>
    /\ Table(saved[c][1], saved[c][2], advice)
    /\ UNCHANGED saved

(* A call leaves an answer: the best handler, with the advisors it has for *)
(* the call.  It changes nothing.                                          *)
Runs(v, func) ==
    answer' = <<v, func,
                IF func \in Funcs
                THEN Select(advice, {i \in DOMAIN advice : v \in advice[i].key})
                ELSE <<>> >>

Call(v) ==
    /\ answer' # <<>>
    /\ Runs(v, Best(level, v))
    /\ UNCHANGED <<level, fallback, advice, saved>>

Next ==
    /\ UNCHANGED specific
    /\ \/ \E v \in Values : Call(v)
       \/ \E c \in Contexts : Save(c) \/ Restore(c)
       \/ \E a \in Advice : Advise(a)
       \/ \E f \in Funcs : \/ Fallback(f) \/ Unregister(f)
                          \/ \E p \in Priorities : Register(f, p)
       \/ Clear

Spec == Init /\ [][Next]_vars
=============================================================================
