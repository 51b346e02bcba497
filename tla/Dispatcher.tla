----------------------------- MODULE Dispatcher -----------------------------
(***************************************************************************)
(* The handler table of live_dispatch: Dispatcher of _dispatcher.py and    *)
(* VersionedContext of _versioned.py.  All of it is synchronous, call_async*)
(* too up to the point where the handler runs, so each method is one       *)
(* action.                                                                 *)
(*                                                                         *)
(* A call is a value that stands for its arguments.  What _Handler.matches *)
(* computes from signature, annotations and predicate is given by Matches; *)
(* how far the annotations are from the arguments, by Distance.  A         *)
(* registration that is refused with a TypeError changes nothing.          *)
(***************************************************************************)
EXTENDS Selection

CONSTANTS
    Funcs,         \* functions that may be registered
    Values,        \* calls
    Types,
    TypeOf,        \* the types of the positional arguments of each call
    Matches,       \* the calls each function accepts as a handler
    Plain,         \* the functions without @predicate
    Distance,      \* sum of the MRO distances of a function and a call
    Priorities,
    Modes,         \* values of the parameter specificity
    Fallbacks,     \* functions that may be the fallback
    Advice,        \* advisors: records of a phase, a function and a type_key
    Contexts,      \* instances of VersionedContext
    Nobody,        \* no handler, no fallback
    Ambiguous,     \* AmbiguousDispatchError
    MaxHandlers,   \* bound: length of _handlers
    MaxAdvisors    \* bound: number of advisors

ASSUME DispatcherAssumption ==
    /\ TypeOf \in [Values -> Types]
    /\ Matches \in [Funcs -> SUBSET Values]
    /\ Plain \subseteq Funcs /\ Fallbacks \subseteq Funcs
    /\ Distance \in [Funcs -> [Values -> Nat]]
    /\ Priorities \subseteq Int /\ Modes \subseteq BOOLEAN
    /\ \A a \in Advice : a.func \in Funcs /\ a.key \subseteq Values
    /\ Nobody \notin Funcs /\ Ambiguous \notin Funcs \cup {Nobody}
    /\ MaxHandlers \in Nat /\ MaxAdvisors \in Nat

(* Functions without predicate accept or refuse all calls of the same      *)
(* types.  A runtime_checkable Protocol with a data member does not: its   *)
(* isinstance() looks at the attributes of the instance.                   *)
JudgeByType ==
    \A f \in Plain : \A v, w \in Values :
        TypeOf[v] = TypeOf[w] => (v \in Matches[f] <=> w \in Matches[f])

VARIABLES
    specific,        \* _specificity
    handlers,        \* _handlers
    fallback,        \* _fallback
    cache,           \* _cache
    hasPredicates,   \* _has_predicates
    advisors,        \* _before_, _after_ and _around_advisors, in one sequence
    snapshot,        \* _snapshot of each context: <<>> for None, or a record in <<>>
    answer           \* history: what the last step, if a call, has run

table == <<handlers, fallback, cache, hasPredicates>>
vars  == <<specific, handlers, fallback, cache, hasPredicates, advisors, snapshot,
           answer>>

NoCache == [t \in {} |-> Nobody]

Init ==
    /\ specific \in Modes
    /\ handlers = <<>> /\ fallback = Nobody
    /\ cache = NoCache /\ hasPredicates = FALSE
    /\ advisors = <<>>
    /\ snapshot = [c \in Contexts |-> <<>>]
    /\ answer = <<>>

-----------------------------------------------------------------------------
(* Changes of the table                                                    *)

(* A sequence with e behind its first n elements.                          *)
Insert(s, n, e) == SubSeq(s, 1, n) \o <<e>> \o SubSeq(s, n + 1, Len(s))

\* mutation: sorts in front of handlers of the same priority
RegisteredFirst(f, p) ==
    Insert(handlers, Cardinality({i \in DOMAIN handlers : handlers[i].priority > p}),
           [func |-> f, priority |-> p])

(* append() and a stable sort by falling priority: the new handler comes   *)
(* after those at least as urgent.                                         *)
Registered(f, p) ==
    Insert(handlers, Cardinality({i \in DOMAIN handlers : handlers[i].priority >= p}),
           [func |-> f, priority |-> p])

Register(f, p) ==
    /\ Len(handlers) < MaxHandlers
    /\ handlers' = Registered(f, p)
    /\ hasPredicates' = (hasPredicates \/ f \notin Plain)
    /\ cache' = NoCache
    /\ answer' = <<>>
    /\ UNCHANGED <<specific, fallback, advisors, snapshot>>

Fallback(f) ==
    /\ fallback' = f
    /\ answer' = <<>>
    /\ UNCHANGED <<specific, handlers, cache, hasPredicates, advisors, snapshot>>

(* before(), after() and around().                                         *)
Advise(a) ==
    /\ Len(advisors) < MaxAdvisors
    /\ advisors' = Append(advisors, a)
    /\ answer' = <<>>
    /\ UNCHANGED <<specific, handlers, fallback, cache, hasPredicates, snapshot>>

(* _refresh_predicate_state                                                *)
HasPredicate(hs) == \E i \in DOMAIN hs : hs[i].func \notin Plain
RefreshPredicateState == hasPredicates' = HasPredicate(handlers')

(* The members of s whose func is not f.                                   *)
Without(s, f) == Select(s, {i \in DOMAIN s : s[i].func # f})

\* mutation: keeps the cache
UnregisterKeeping(f) ==
    /\ handlers' = Without(handlers, f) /\ advisors' = Without(advisors, f)
    /\ RefreshPredicateState
    /\ answer' = <<>>
    /\ UNCHANGED <<specific, fallback, cache, snapshot>>

Unregister(f) ==
    /\ handlers' = Without(handlers, f) /\ advisors' = Without(advisors, f)
    /\ RefreshPredicateState
    /\ cache' = NoCache
    /\ answer' = <<>>
    /\ UNCHANGED <<specific, fallback, snapshot>>

Clear ==
    /\ handlers' = <<>> /\ fallback' = Nobody
    /\ advisors' = <<>>
    /\ RefreshPredicateState
    /\ cache' = NoCache
    /\ answer' = <<>>
    /\ UNCHANGED <<specific, snapshot>>

-----------------------------------------------------------------------------
(* Calls                                                                   *)

(* _find_first_matching                                                    *)
FirstMatching(hs, v) ==
    LET hits == {i \in DOMAIN hs : v \in Matches[hs[i].func]}
    IN  IF hits = {} THEN Nobody
        ELSE hs[CHOOSE i \in hits : \A j \in hits : i <= j].func

(* _find_handler_by_specificity                                            *)
MostSpecific(hs, v) ==
    LET hits  == {i \in DOMAIN hs : v \in Matches[hs[i].func]}
        dist(i) == Distance[hs[i].func][v]
        best  == {i \in hits : \A j \in hits : dist(i) <= dist(j)}
    IN  IF best = {} THEN Nobody
        ELSE IF Cardinality(best) > 1 THEN Ambiguous
        ELSE hs[CHOOSE i \in best : TRUE].func

(* The before, after and around advisors of a call, in one sequence.       *)
AdvisorsFor(v) == Select(advisors, {i \in DOMAIN advisors : v \in advisors[i].key})

(* __call__ and the other entry points once the handler is found: without  *)
(* handler and fallback, as when it is ambiguous, they raise TypeError.    *)
Answers(v, h) ==
    LET func == IF h = Nobody THEN fallback ELSE h
    IN  answer' = [call   |-> v,
                   func   |-> func,
                   advice |-> IF func \in Funcs THEN AdvisorsFor(v) ELSE <<>>]

(* The type signature is in the cache.                                     *)
CallCached(v) ==
    /\ ~specific /\ ~hasPredicates /\ TypeOf[v] \in DOMAIN cache
    /\ Answers(v, cache[TypeOf[v]])
    /\ UNCHANGED <<specific, table, advisors, snapshot>>

(* It is not, and is remembered.                                           *)
CallSearches(v) ==
    /\ ~specific /\ ~hasPredicates /\ TypeOf[v] \notin DOMAIN cache
    /\ Answers(v, FirstMatching(handlers, v))
    /\ cache' = [t \in DOMAIN cache \cup {TypeOf[v]} |->
                    IF t = TypeOf[v] THEN FirstMatching(handlers, v) ELSE cache[t]]
    /\ UNCHANGED <<specific, handlers, fallback, hasPredicates, advisors, snapshot>>

(* With keyword arguments or predicates the cache is passed over.          *)
CallUncached(v) ==
    /\ ~specific
    /\ Answers(v, FirstMatching(handlers, v))
    /\ UNCHANGED <<specific, table, advisors, snapshot>>

CallSpecific(v) ==
    /\ specific
    /\ Answers(v, MostSpecific(handlers, v))
    /\ UNCHANGED <<specific, table, advisors, snapshot>>

-----------------------------------------------------------------------------
(* Versions                                                                *)

(* VersionedContext.__enter__                                              *)
Enter(c) ==
    /\ snapshot' = [snapshot EXCEPT ![c] =
           <<[handlers |-> handlers, fallback |-> fallback, cache |-> cache,
              hasPredicates |-> hasPredicates]>>]
    /\ answer' = <<>>
    /\ UNCHANGED <<specific, table, advisors>>

\* mutation: does not go back to the saved _has_predicates
RollbackPart(c) ==
    /\ snapshot[c] # <<>>
    /\ LET saved == snapshot[c][1]
       IN  /\ handlers' = saved.handlers /\ fallback' = saved.fallback
           /\ cache' = saved.cache
    /\ answer' = <<>>
    /\ UNCHANGED <<specific, hasPredicates, advisors, snapshot>>

Rollback(c) ==
    /\ snapshot[c] # <<>>
    /\ LET saved == snapshot[c][1]
       IN  /\ handlers' = saved.handlers /\ fallback' = saved.fallback
           /\ cache' = saved.cache /\ hasPredicates' = saved.hasPredicates
    /\ answer' = <<>>
    /\ UNCHANGED <<specific, advisors, snapshot>>

Next ==
    \/ \E f \in Funcs : Unregister(f) \/ \E p \in Priorities : Register(f, p)
    \/ \E f \in Fallbacks : Fallback(f)
    \/ \E a \in Advice : Advise(a)
    \/ Clear
    \/ \E v \in Values :
           CallCached(v) \/ CallSearches(v) \/ CallUncached(v) \/ CallSpecific(v)
    \/ \E c \in Contexts : Enter(c) \/ Rollback(c)

Spec == Init /\ [][Next]_vars

-----------------------------------------------------------------------------
(* Properties                                                              *)

Found    == Funcs \cup {Nobody}
Handlers == Seq([func : Funcs, priority : Priorities])
Caches   == UNION {[T -> Found] : T \in SUBSET Types}
Version  == [handlers : Handlers, fallback : Found, cache : Caches,
             hasPredicates : BOOLEAN]

(* The attributes of Dispatcher and VersionedContext.  _has_predicates is  *)
(* set, refreshed and rolled back with the list it describes.              *)
TypeOK ==
    /\ specific \in BOOLEAN
    /\ handlers \in Handlers /\ fallback \in Found /\ cache \in Caches
    /\ hasPredicates = HasPredicate(handlers)
    /\ advisors \in Seq(Advice)
    /\ snapshot \in [Contexts -> Seq(Version)]
    /\ \A c \in Contexts : Len(snapshot[c]) <= 1

(* Every answer in the cache ch is right for the handlers hs, for all calls*)
(* of these types and not just for the one that was cached.                *)
Coherent(hs, ch) ==
    \A v \in Values :
        TypeOf[v] \in DOMAIN ch => ch[TypeOf[v]] = FirstMatching(hs, v)

(* Whatever was registered, unregistered, called, saved and rolled back:   *)
(* as long as _find_handler consults _cache, it finds there what           *)
(* _find_first_matching would return now.                                  *)
CacheCoherent == ~hasPredicates => Coherent(handlers, cache)

(* "Call the first matching handler by priority/order" (README.md), or the *)
(* fallback: true of every call only if JudgeByType is.                    *)
RunsFirstMatching ==
    (answer # <<>> /\ ~specific) =>
        LET h == FirstMatching(handlers, answer.call)
        IN  answer.func = IF h = Nobody THEN fallback ELSE h
=============================================================================
