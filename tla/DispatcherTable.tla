-------------------------- MODULE DispatcherTable --------------------------
(***************************************************************************)
(* The dispatcher of _dispatcher.py implements a DispatchTable: the        *)
(* handlers of one priority are, in their order, the queue of that level.  *)
(***************************************************************************)
EXTENDS Dispatcher

Level(hs) ==
    LET funcs == [i \in DOMAIN hs |-> hs[i].func]
    IN  [p \in Priorities |-> Select(funcs, {i \in DOMAIN hs : hs[i].priority = p})]

D == INSTANCE DispatchTable WITH
    level    <- Level(handlers),
    advice   <- advisors,
    saved    <- [c \in Contexts |->
                    IF snapshot[c] = <<>> THEN <<>>
                    ELSE <<Level(snapshot[c][1].handlers), snapshot[c][1].fallback>>],
    answer   <- IF answer = <<>> THEN <<>> ELSE <<answer.call, answer.func, answer.advice>>

(* Every call runs the handler of the highest priority that accepts it,    *)
(* the first registered of these, or the nearest with specificity=True,    *)
(* for whatever sequence of registrations, removals, calls, snapshots and  *)
(* rollbacks has led there: sorting and caching do not show.               *)
ImplementsTable == D!Spec
=============================================================================
