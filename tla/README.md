# hulista: specifications, model checks and proofs

hulista is a family of small Python packages for functional and concurrent
programming. This directory holds TLA+ specifications of its stateful parts,
small instances of them that TLC checks exhaustively, and invariants that the
TLA+ proof system TLAPS proves for instances of any size.

Contents:
[the system](#the-system) ·
[how the code is modelled](#how-the-code-is-modelled) ·
[the modules](#the-modules) ·
[the runs](#the-runs) ·
[disagreements](#disagreements-between-code-and-documentation) ·
[the proofs](#the-proofs) ·
[limits](#what-is-not-shown) ·
[plan](#plan)

## The system

| Component | State | Operations | What is hard |
|---|---|---|---|
| **Inbox** (`asyncio_actors/inbox.py`) | two deques (`_stash`, `_queue`), an event `_not_full`, futures of waiting readers, `_closed` | `put`, `get`, `receive(match)`, `close`, `drain_into` | a message travels from `put` through a future to the reader; timeouts, cancellations and other senders come in between; three overflow policies |
| **Actor, actor system** (`actor.py`, `system.py`) | `_running`, `_task`, inbox, watchers, registry, the tasks of `_supervise` | `spawn`, `send`, `ask`, `reply`, `watch`, `stop`, hooks, restart, `__aexit__` | `stop()` may land between any two awaits; crash and backoff; replacement takes over the inbox; exit meets actors in every phase |
| **Supervisor** (`supervisor.py`) | `_children`, one watcher task per child | `on_start`, `on_stop`, restart of one, all or the rest | restarts that overlap each other, stops and crashes |
| **Restart policy** (`supervision.py`) | times of the restarts in a sliding window | `should_restart`, `reset` | boundary of the window; refused restarts are not recorded |
| **Circuit breaker** (`circuit_breaker.py`) | state, three counters, time of the last failure | `allow_request`, `record_failure`, `record_success`, `reset` | outcomes recorded long after the request was let through, or never |
| **Collector** (`taskgroup_collect/_collector.py`) | set of tasks, errors, a completion future, abort flag, semaphore | `create_task`, `__aexit__`, done callbacks | cancellation, errors and completion at the same time |
| **Dispatcher** (`live_dispatch/_dispatcher.py`, `_versioned.py`) | handler table, cache, advisors, saved versions | `register`, `unregister`, call, `replace`, snapshot and rollback | cache that outlives a change of the table; lossless rollback |
| **Method combinations** (`live_dispatch/_combinations.py`) | the arguments and the trace that the functions of a chain share | a call through its advisors, `proceed` | `proceed` called again, with other arguments, or while another one runs; exceptions in between |
| **Persistent map** (`persistent_collections/_hamt.py`, `persistent_map.py`, `_diff.py`) | immutable tries of three kinds of nodes, transient builders | `set`, `delete`, `update`, `merge`, `without_many`, `transient`, `diff` | node promotion and packing, hash collisions, tries of different shapes for the same keys |
| **Persistent vector** (`persistent_vector.py`) | an immutable trie and a tail | `append`, `set`, indexing, `+`, slices, `transient` | growth by a level, multiples of the branch factor |
| **Sealed types, combinators, with-update, bridge, meta-package** | none or fixed at import | – | pure or one-line code |

How they interact: an `ActorSystem` runs one `_supervise` task for each spawned
actor, and that task runs `Actor._run`, which reads the actor's `Inbox`. Other
tasks reach the inbox through an `ActorRef`, with `send` and `ask`. A
`Supervisor` is an actor that owns further actors and runs a `_watch_child` task
for each; an old `ActorRef` follows `_ref_target` to the newest actor. Circuit
breaker, collector, dispatcher and collections are libraries used by
themselves. Everything in `asyncio_actors` and `taskgroup_collect` runs on one
event loop, so the unit of interleaving is what happens between two awaits.

What makes each correct:

- inbox: no sender or reader sleeps through its wakeup, and room is taken while
  somebody waits for it; no message is lost,
  doubled or overtaken by a younger one of its kind;
- actor system: a stop is final, nobody waits for an actor that has ended, mail
  survives crashes in order, and the exit of the system ends and leaves nothing;
- restart policy: never more than the limit in any window, and nothing less refused;
- supervisor: a replaced actor does not run on, each newest one is known to the supervisor,
  one actor per spec unless restarts overlap, mail passed on,
  crashed children replaced, none started after the supervisor has stopped;
- circuit breaker: the counters fit the state, no early probe, and neither OPEN
  nor HALF_OPEN lasts for ever;
- collector: all tasks end before the group does, failing tasks leave siblings
  alone, and neither an error nor a cancellation is lost;
- dispatcher: an answer from the cache equals the one computed from scratch;
- method combinations: every part of a chain gets the arguments of the
  `proceed` that led to it, and the trace tells what ran, in what order, inside what;
- collections: whatever nodes hold them, a map is a dictionary, a vector is a
  list, and a diff is what differs.

## How the code is modelled

One action is what one task does from the point where the event loop resumes it
to its next suspension, with everything that code calls. Awaits that cannot
suspend, such as `Actor.stop()`, are part of the action around them. Which ready
task runs next is left open, as is everything user code decides: whether a
hook, a handler or a coroutine returns, raises or goes on.

`asyncio` is modelled from the way this code uses it: a future that is done
resumes its waiter in a later step, and a cancellation or a timeout may come
between the two; `Event.set()` wakes all waiters, which look again when they
run; `Task.cancel()` cancels the future a task awaits or is delivered at its
next await, and several cancellations before that make one `CancelledError`.

Data is reduced to what the properties tell apart. A message is its acceptance
number and its kind, or just a number or its sender; an exception is a kind of
exception; time is the time since an event, cut off where the code no longer
distinguishes it.

Variables marked *history* record what happened and never influence a guard of
the code's own actions. Alternatives marked `mutation:` stand before the
definition they distort; no specification uses them. They document which error
in the code each property excludes.

## The modules

### Inbox, ActorInbox, Mailbox, InboxMailbox

`Inbox` has the attributes of `Inbox` as variables, plus where each sender
stands in `put()` (`sender`, `sending`), where the reader stands (`reader`,
`want`) and the result its future holds before it resumes (`hand`). Senders are
any number of tasks; there is one reader, the actor's own task, because
`_run` and `Actor.receive` are the only callers of `get()` and `receive()`.

| Code | Actions |
|---|---|
| `put`, with `_notify_waiters` and `_drop_oldest` | `PutRoom`, `PutDropOldest`, `PutRefused`, `PutBlocks`, `PutResumes`, `PutCancelled` |
| `get` | `GetStash`, `GetQueue`, `GetWaits`, `GetRefused`, `GetReturns` |
| `receive` | `ReceiveScans`, `ReceiveWaits`, `ReceiveReturns`, `ReceiveStashes`, `ReceiveStashesLate` |
| the reader's wait ends early | `TimesOut`, `Cancelled`, `ReaderRaises` |
| `close` | `Close` |

`ActorInbox` replaces the reader by `Actor.receive`, which looks inside the
envelopes and therefore scans the deques itself. `Mailbox` is what an inbox
promises, without tasks or futures: a bounded sequence with an end to write to,
from which the reader takes the oldest message, or the oldest of a kind. In it every
accepted message is in the box, taken, evicted or lost, one of the two oldest
is evicted, and one is lost only when a wait of the reader ends early. `Accounted`
(each accepted message is in one of those places, and in one only) and `InOrder` (of
two messages of one kind the older is read first) follow from that and are
proved in `InboxProofs`. `InboxMailbox` is the refinement: stash, message in
hand and queue, in this order, are the sequence. `EachOnceInOrder` is what the two
say of an inbox; no run needs it beside `ImplementsMailbox`, which implies it.

### ActorSystem

A *slot* is one call of `spawn()` and the `_supervise` task it starts; `phase`
says at which await that task is suspended. The slot keeps its inbox through
restarts, as the code hands the inbox of the crashed actor to the next one.

| Code | Actions |
|---|---|
| `spawn`, first step of `_supervise` | `Spawn`, `Begins` |
| `_run`: `on_start` and the message loop | `Started`, `StartFails`, `Arrives`, `ArrivesLate`, `PollFails`, `Takes`, `Handled`, `HandlerFails`, `Replies` |
| `_run`: `on_error` | `ErrorRestart`, `ErrorStop`, `ErrorEscalate` |
| `_run`: cancellation, `on_stop`, `_notify_watchers` | `CancelLands`, `Stops`, `StopFails` |
| `_supervise`: crash, backoff, replacement | `Stops` and `StopFails` (decision), `Restarts`, `GivesUp` |
| `ActorRef` | `Sends`, `AskExpires`, `Stop`, `Watch`; `StopSelf` is `stop()` called by a hook |
| `ActorSystem.__aexit__` | `Exit`, `Exited` |

`HoldsResult` tells Python versions apart: up to 3.11 `wait_for()` returns a
result that is ready even if its caller is being cancelled; from 3.12 on the
cancellation wins. `pyproject.toml` supports both; the runs are for 3.12, and what
3.11 changes is said [below](#disagreements-between-code-and-documentation).

Of the restart policy `ActorSystem` keeps the number of restarts still inside the
window (`recent`), which may shrink whenever the actor asks for a restart.
`CountSuffices`, a theorem about `RestartPolicy`, says why that is enough.

### RestartPolicy

The policy of one actor, with the clock (`now`) and the recorded times (`times`).
`granted` and `answer` are history: when restarts were allowed, and the last answer.

| Code | Actions |
|---|---|
| `should_restart` | `ShouldRestart`; `Within` is its list comprehension |
| `reset` | `Forgets` |
| `time.monotonic()` | `Passes` |

Times are integers in any unit. The code only compares the difference of two times
with the window, so nothing depends on how fine the unit is.

### Supervisor

Every child ever created has a number; its record holds the actor
(`running`, `closed`, `mail`, `next` for `_ref_target`) and its watcher task
(`task`, `cancel`, `plan` for the rest of a restart loop).

| Code | Actions |
|---|---|
| `on_start`, `on_stop` | `Starts`, `Stops` |
| `_watch_child` | `Begins`, `StopReturns`, `StopRaises`, `BackoffEnds`, `CancelEnds` |
| `_handle_child_exit`, `_restart_all`, `_restart_rest`, `_start_child` | `HandleChildExit` within these, `Renews` for the loop after each `sleep(0)` |
| the child's `_run`, reduced to the ways it may end | `Handles`, `Exits`, `PollFails`, `CancelSwallowed` |
| `ActorRef.send`, `ActorRef.stop` | `Sends`, `StopChild` |

A restart loop of `ONE_FOR_ALL` or `REST_FOR_ONE` suspends in a `sleep(0)` after each
child. Only the tasks a restart concerns are cancelled by it, so a backoff or an
exit elsewhere may end in between and begin a restart of its own, which reads and
writes the same `_children`. The history variable `overlapped` remembers that; how
long a backoff lasts compared with such a loop is left open. What the properties say
whether or not restarts overlap, and what only as long as they do not, shows in them.

### CircuitBreaker

Callers that were let through are in `admitted` until they record an outcome or
abandon it, as happens to a caller that is cancelled: the pattern in the class's
docstring records nothing then. `quiet` is the time since
`_last_failure_time`, `sinceOpen` the time since the circuit opened; both stop at
`RecoveryTimeout`, beyond which the code cannot tell times apart, and
`failureCount` stops at the threshold for the same reason. `AllowClosed`,
`AllowFirst`, `AllowProbe` and `Refuse` are `allow_request()`; `RecordFailure`,
`RecordSuccess` and `CallReset` are the methods of these names.

### Collector

The parent is in the body, waits in `_aexit` or is done; `st` says for each task
whether it is new, in line for the semaphore, has been promised a slot, runs or
has ended, and how. A task that has ended is in `tasks` until its callback runs.

| Code | Actions |
|---|---|
| `create_task` | `Create` |
| `_with_semaphore` | `Begins`, `Proceeds`, `NeverRuns`, and `Becomes` when the slot is released |
| `_on_task_done` | `OnTaskDone` |
| `__aexit__`, `_aexit`, `_abort` | `Exit` up to the first await, `Resumes` for each pass of the loop, `Finishes` for the rest |
| the coroutines, the body | `Ends`, `EndsBase`, `Swallows`, `BodySwallows` |
| `Task.cancel()` from outside | `Cancel`, `CancelTask` |

`limit=None` is a limit no smaller than the number of tasks. The semaphore may
serve its waiters in any order. `KeyboardInterrupt` and `SystemExit` in a task
stop the event loop, whose runner then cancels every task, the parent included.

### Selection, Dispatcher, DispatchTable, DispatcherTable

A *call* is a value that stands for its arguments. Which calls a function accepts,
through annotations or `@predicate`, is the constant `Matches`; the sum of its MRO
distances is `Distance`. `advisors` is one sequence for the three lists of the
code, whose members carry their phase.

| Code | Actions |
|---|---|
| `register`, `fallback`, `before` / `after` / `around` | `Register`, `Fallback`, `Advise` |
| `unregister`, `clear` | `Unregister`, `Clear` |
| `__call__`, `call_traced`, `call_async`, `call_async_traced` up to the start of the handler | `CallCached`, `CallSearches`, `CallUncached` (keyword arguments or predicates), `CallSpecific` |
| `VersionedContext.__enter__`, `rollback` | `Enter`, `Rollback` |

`DispatchTable` is what a dispatcher promises: a queue of handlers per priority,
and a call runs the first handler of the highest priority that accepts it, or
the nearest one. It has no sorted list, no cache and no flag. `DispatcherTable`
is the refinement. `Select` of `Selection` stands for the list comprehensions.

`JudgeByType` says that a function without predicate accepts or refuses all calls
of the same types. The cache rests on it, and it holds for classes and unions
of classes; the instance of the run `dispatcher` satisfies it.

### Combination

One call of a dispatcher through its advisors. `calls` are the calls of
`proceed()` so far, each with the level it is at, the arguments it was given, its
caller, and the arguments its parts have seen; `args` is the `nonlocal` variable that all
functions of a chain share. A step is what runs between two awaits; the
synchronous chain is the case in which no two calls overlap, and has no steps of
its own.

| Code | Actions |
|---|---|
| `outermost_proceed(*args, **kwargs)` | `ChainInit` |
| `proceed()` called by an around advisor: `this_proceed`, `innermost_proceed` | `Proceed` |
| `run_primary_with_before_after`, from one part to the next | `PartReturns` |
| the rest of `this_proceed` when the advisor returns | `AroundReturns` |
| an exception in an advisor or the handler | `Raises` |

An around advisor need not await the `proceed()` calls it makes: with `gather()` it raises as
soon as one of them does, and with `create_task()` it may return before them, or be
gone when they begin. `left`, a history, marks the calls that their caller has left like this.

### Hamt, MapDiff, PersistentMap, Dictionary

`Hamt` has the nodes of the trie as values and `find`, `assoc`, `without` and `items` of
each kind of node as recursive operators. A node is never changed in place, so
identity of nodes is equality. `Hash`, `Branch`, `HashLevels` and `Threshold` are
the hash of each key, `BRANCH_FACTOR`, the number of levels that distinguish hashes,
and `_ARRAY_NODE_THRESHOLD`.

`MapDiff` is `diff()`. Where the code skips two nodes because they are the same
object, the operators walk them, which gives the same changes.

| Code | Actions of `PersistentMap` |
|---|---|
| `set`, `delete` | `Set`, `Delete` |
| `update`, `merge`; `without_many` | `Update`; `WithoutMany` |
| `transient`, `TransientMap.__setitem__`, `__delitem__`, `__exit__`, `persistent` | `Transient`, `BuilderSet`, `BuilderDelete`, `Leave`, `Persistent` |
| a program keeps a version, to compare later ones with it | `Keep` |

`Dictionary` is what map and builder promise: functions from keys to values, and a
builder whose writes show in a map only when it is frozen. `PersistentSet` keeps its
elements as keys of the same trie, so `add` and `discard` are `Assoc` and `Without`
with one value.

### PersistentVector, Series

A node of the vector's trie is a sequence, and the elements of the tail are another.
Elements appended are named by the index they get, so that a wrong place shows.

| Code | Actions |
|---|---|
| `append`, `__add__`, `set` | `VectorAppend`, `Extend`, `VectorSet` |
| `__getitem__` of an index, a slice; an index out of range | `Get`, `Slice`; `OutOfRange` |
| `transient`, `TransientVector.append`, `__setitem__`, `__exit__`, `persistent` | `VectorTransient`, `BuilderAppend`, `BuilderSetItem`, `VectorLeave`, `VectorPersistent` |

`Series` is the same interface on a plain sequence: it says of every call what
the elements are afterwards and what the call returns.

## The runs

TLC explores each instance completely.

| Run | Instance | Properties |
|---|---|---|
| `inbox` | `MCInbox.cfg`: 2 senders, 2 kinds, capacity 2, each policy, 4 messages, 1 timeout or cancellation | `NoStrandedSender`, `NoStarvedGet`, `ImplementsMailbox`, `RoomIsTaken`, `MessagesLeave` |
| `actor_system` | `MCRestarts.cfg`: 1 slot, 2 clients, 1 watcher, 1 restart, 2 crashes, Python 3.12; or a restart policy with limit 2, window 3 and a clock up to 9 | `RateKept`, `RefusedOnlyIfFull`, `CancelMeansStopped`, `NoForgottenWatcher`, `HandledInOrder`, `DiscardedOnlyIfStopped`, `NothingLeft`, `ExitCompletes` |
| `supervisor` | `MCSupervisor.cfg`: 2 children, 6 settings, 2 exits, 1 message | `OneRunning`, `AllManaged`, `MailKept`, `Recovers`, `CrashedAreReplaced` |
| `breaker` | `MCCircuitBreaker.cfg`: 3 callers, threshold 2, timeout 2, 2 probes | `CountsMatchState`, `SlotsAreOwed`, `NoEarlyProbe`, `OpenEnds`, `ProbingEnds` |
| `collector` | `MCCollector.cfg`: 3 tasks, limit 1 or none | `Drained`, `ErrorsReported`, `CancelKept`, `SiblingsUntouched`, `ExitEnds`, `Served` |
| `dispatcher` | `MCDispatcher.cfg`: 3 functions, one of them a predicate, 3 calls of 2 types, 2 priorities, 2 handlers, 1 advisor, 1 version, both modes; or a chain of 2 around, 1 before and 2 after advisors, 2 argument tuples, 4 calls | `TypeOK`, `CacheCoherent`, `RunsFirstMatching`, `ImplementsTable`, `RightArgs`, `TraceNested`, `TraceOrdered` |
| `collections` | `MCCollections.cfg`: map with 5 keys, 3 of one hash, 4 slots, 2 levels; vector of up to 12 elements with 2 slots | `TrieCoherent`, `DiffExact`, `ImplementsDictionary`, `ImplementsSequence` |
| `actor_receive`, `stop_in_backoff`, `supervisor_overlap`, `supervisor_stop`, `path_grows` | see [below](#disagreements-between-code-and-documentation) | one each, violated |

The type invariants of `Inbox`, `ActorSystem`, `Supervisor`, `CircuitBreaker`,
`Collector` and `Combination` are proved, for every instance, and in no run.

`MCRestarts` holds the actor system and the restart policy side by side: `part`
chooses at the start which of them moves, so their states do not multiply. `MCDispatcher`
does the same with the dispatcher's tables and the chain of one call.

Why the bounds are enough:

- *inbox*: with capacity 2 and four messages the inbox fills, blocks both
  senders, evicts, is refilled while a message is in hand, and empties again. Two
  senders suffice for one to take the room another was woken for; two kinds
  suffice for `receive` to set a message aside.
- *actor_system*: two crashes with one restart show a restart and a refusal; two
  clients show a message handled before, during and after a crash. Slots share
  nothing but the registry and `_running`, so one slot shows what happens in
  each. In the policy, nine units of time are three windows, with a restart
  and a refusal at every distance from the one before, the boundary included.
- *supervisor*: two exits overlap: a child crashes in the restart of its
  sibling, and since a backoff may be as short as it likes, even the restarts do.
  `MaxActors` does not cut anything off: no behaviour creates a seventh actor. The way in
  which restarts overlap with real backoffs needs three children, `supervisor_overlap`; the
  theorems of `SupervisorProofs` hold for any number of them.
- *breaker*: three callers are two probes and one request from before the
  circuit opened. Only `Callers` bounds the instance.
- *collector*: three tasks are one that fails, one in line and one created late.
  Cancellations are not bounded.
- *dispatcher*: two handlers show every order of priority and registration, a tie
  in specificity, and a list a version goes back to that is longer or shorter
  than the present one. Two calls of one type are one that fills the cache and
  one that is answered from it. The number of calls and rollbacks is not bounded.
- *dispatcher*, the chain: four calls are the outer around advisor, the inner one, the
  inner chain, and one of the latter two a second time, after the first or at the same
  time. Two advisors of a phase show its order; that of several before advisors is
  left to `OrderedTrace`, which holds for any number.
- *collections*: `k1`, `k2` and `k3` have equal hashes; `k4` and `k5` share their place in
  the root and differ on the second level. With a threshold of 2 that level's node is
  promoted when it gets a third slot, and packed when it loses one. A map starts empty and any number of calls may follow; `MaxEdits` bounds
  only the calls between the version kept by `Keep` and the version compared with it,
  and between `transient()` and `persistent()`. `MaxDepth` is needed because tries may grow
  without bound (`path_grows`). A builder is taken of a version just kept, and
  the map rests while it is open; nothing is shared but immutable nodes. Batches of
  `update` are one with a repeated key. A vector with 2 slots
  grows a level at its 7th and its 11th element, so one of 12 elements has a trie of
  three levels above the leaves. (A path made inside such a trie, the last branch of
  `_push_tail`, takes 15 elements: only the theorems of `VectorProofs` reach it.) `MaxChanges` is the number of elements that are
  `Changed` at a time.

`ImplementsMailbox` allows a message to be *lost* in one case, which is
real: the reader's wait ends (the run loop's `wait_for(…, 1.0)` expires or its
task is cancelled) after `put()` has completed the future and before `get()`
resumes.

`Recovers` and `CrashedAreReplaced` are stated for `Tame` settings: `ONE_FOR_ONE` with any
restart types, or the other strategies with children that are not permanent. Under the
other settings the stop of a permanent sibling is mistaken for a clean exit, see below,
and one restart calls for the next. The safety properties are proved for all settings.

### Fairness

Liveness is checked under weak fairness of the steps the event loop takes by
itself: a task that is ready is resumed, a timer that was set expires. Beyond
that each module assumes of user code:

- *inbox*: the reader goes on calling `get()`. `RoomIsTaken` and
  `MessagesLeave` are restricted to readers that never call `receive()`: a
  reader that waits for one kind while the inbox is full of others waits for
  ever, and so do its senders. `RoomIsTaken` promises progress to the senders
  together, not to each: `Event.set()` wakes all, the room is for who runs first
  (`inbox.py:59-62`), and a sender that puts again and again may leave another in
  `put()` for ever.
- *actor system*: hooks end; a message handler may run for ever, and the exit of
  the system ends all the same (`Handled` is not fair).
- *supervisor*: `on_start` and `on_stop` end; children need neither end nor
  handle their messages.
- *circuit breaker*: callers keep asking, and a caller at work some day records
  its outcome or abandons it.
- *collector*: every coroutine ends some day. The body may run for ever.

Restart policy, dispatcher, chains and collections have no liveness properties: a
chain ends as soon as its advisors do, and nothing in the others waits. `MCFairness`
is the fairness of `ActorSystem`, for the behaviours that have one.

`CHECK_DEADLOCK FALSE` stands where the program stops: the system has been left,
the supervisor's children have ended, the group is done, the chain has returned.

## Disagreements between code and documentation

Each of these is a run that TLC is expected to find violated.

- **`actor_receive`: `NoStrandedSender`.** `asyncio-actors/README.md:148` describes
  `BLOCK` as "Await until space available". `Actor.receive(match)` removes a message at
  `actor.py:312` without setting `_not_full`; a blocked sender waits on before an
  inbox with room. `Inbox.receive` sets the event.
- **`stop_in_backoff`: `StopIsFinal`.** `system.py:120` says of a clean shutdown
  "do not restart". `stop()` between a crash and the end of the backoff finds no
  task; `_supervise` then looks at the system's `_running` only and starts a new
  actor, with an empty inbox because the old one is closed.
- **`supervisor_overlap`: `OneChildEach`.** `supervisor.py:181` says "Restart the failed
  child and all children started after it." Of three transient children A, B, C, let B and
  then A crash so that their backoffs end in the same pass of the event loop. B's task takes
  the snapshot [B, C] of `_children` and replaces B. While it is in `sleep(0)`, A's task, whose
  backoff nothing has cancelled, takes [A, B', C] and replaces A. Both loops go on to replace
  the same C; the second no longer finds it in `_children` and appends an entry
  (`supervisor.py:108-109`). Two actors of C's spec run from then on. The run excludes backoffs
  that are shorter than a restart loop (`BackoffsAreLonger`), so that the trace does not
  rest on one.
- **`supervisor_stop`: `NoLateStart`.** `supervisor.py:210` says "Stop all children."
  `actor.stop()` and `task.cancel()` cancel one task once, `Actor._run` swallows it,
  and `_watch_child` takes that for a clean exit and restarts a permanent child,
  which outlives its supervisor.
- **`path_grows`: `DepthBounded`.** `_hamt.py:14` reads "MAX_DEPTH = 7  # 32-bit hash /
  5 bits = ~7 levels". A collision node that loses all but one pair becomes a
  bitmap node where it was (`_hamt.py:375`), below the last level of the hash.
  The next key of that hash makes a collision node one level further down.
  Deleting and setting one of two keys of equal hash, such as `-1` and `-2`, in
  turn lengthens the path by one node each time; after about a thousand times
  `find` ends in a `RecursionError`. `TrieCoherent` and `ImplementsDictionary` show
  that up to there the answers stay right.

Met while modelling, and no run of their own:

- `on_stop()` that raises skips `_notify_watchers()`; `NoForgottenWatcher` excepts it.
- For the same reason as in `supervisor_stop`, a permanent child that `_restart_all` or
  `_restart_rest` stops may begin a restart within theirs, and children are started
  twice; hence `Tame` in the liveness properties.
- A `HALF_OPEN` probe whose caller is cancelled keeps its slot until `reset()`;
  `ProbingEnds` excepts circuits with an abandoned probe.
- `record_success()` of a request let through before the circuit opened counts
  towards the recovery in `HALF_OPEN`.
- `_versioned.py:23` calls the rollback "lossless"; advisors registered or
  unregistered since the snapshot stay as they are. `DispatchTable` says so too.
- `proceed()` in `_combinations.py:230` stores its arguments in variables of the
  whole chain: of two concurrent calls, the parts of the first that have not yet
  begun run with the arguments of the second. `RightArgs` excepts overlapping
  calls.
- `README.md:192` of live-dispatch says that a call runs "the first matching handler
  by priority/order". A `@runtime_checkable` Protocol with a data member, an
  annotation `_dispatcher.py:51` lists as supported, is matched by the attributes of the
  instance, but `_find_handler` remembers the answer under the type. With `Matches`
  such that a handler accepts one of two calls of a type, TLC finds
  `RunsFirstMatching` violated after two calls; `JudgeByType` excludes it.
- `inbox.py:138` says that `receive` raises `TimeoutError` "If no matching message
  arrives within timeout". While it waits, `put()` hands over the head of the queue,
  which may be an older message that does not match, and leaves the matching one
  it has just appended; `receive` stashes the former and waits again without
  looking (`inbox.py:157-170`).
- `README.md:192-193` of asyncio-actors says that "the in-flight handler task is
  cancelled so shutdown does not hang". On Python 3.11 `wait_for()` drops a
  cancellation that meets a message just handed over: the handler starts after
  `stop()` and nobody cancels it. With `HoldsResult = TRUE` TLC finds `ExitCompletes`
  violated.
- `None` is a legal key of a dictionary, but in a trie it marks a subnode
  (`_hamt.py:176`): `PersistentMap.from_dict({None: 1})[None]` is an
  `AttributeError`. `HamtAssumption` excludes it.
- `_paths.py:79` says that "Intermediate empty maps are pruned"; `dissoc_in` leaves
  them. `dispatch_actor.py:271-273` says that overrides of a more derived class win when
  types overlap; the handler of the base class is registered first and wins.

## The proofs

TLC explores one instance; these theorems hold for every value of the constants
that satisfies the assumption named in the component's module.

| Module | Theorems | Assumption |
|---|---|---|
| `InboxProofs` | `TypeCorrect`, `SenderSafety`, `GetSafety`, `Invariance`, `Refinement`, `Delivery`, and `MailboxSafety` of the abstract mailbox | `InboxAssumption`: any senders and kinds, any capacity above 0 |
| `ActorSystemProofs` | `TypeCorrect`, `TaskInvariance`, `CancelSafety`, `WatchersTold`, `ExitLeavesNothing`, `MailInvariance`, `OrderKept`, `NoneTwice`, `NothingDiscarded` | `ActorSystemAssumption`: any number of slots, clients and watchers, any limits |
| | `PolicyInvariance`, `LimitIsExact`, `CountIsEnough` | `PolicyAssumption`: any limit, any window |
| `SupervisorProofs` | `TypeCorrect`, `RestartInvariance`, `OneAtWork`, `AloneNeverOverlaps`, `NoneEscapes`, `MailInvariance`, `NoMailLost` | `SupervisorAssumption`: any children, strategies and restart types |
| `CircuitBreakerProofs` | `TypeCorrect`, `Consistency`, `SlotsOwed`, `ProbeTiming` | `BreakerAssumption`: finitely many callers, any thresholds above 0, any timeout |
| `CollectorProofs` | `TypeCorrect`, `NothingOutlives`, `NoErrorLost`, `NoCancelLost`, `Independence` | `CollectorAssumption`: any number of tasks, any limit above 0 |
| `DispatcherProofs` | `TypeCorrect`; `CacheSafety`, `CallsAreExact` and `Refinement`, which also assume `JudgeByType` | `DispatcherAssumption`: any functions, calls, types, priorities and contexts |
| `CombinationProofs` | `TypeCorrect`, `ArgumentsKept`, `NestedTrace`, `OrderedTrace` | `CombinationAssumption`: any number of advisors of each phase, any arguments |
| `VectorProofs` | `Implements`, `Shape` | `VectorAssumption`: any branch factor of at least 2; `TransientAssumption`: `NoTransient` is no builder |

The bounds `MaxMsgs`, `MaxExpiries`, `MaxHandlers`, `MaxAdvisors`, `MaxCalls`,
`MaxRestarts`, `MaxCrashes`, `MaxExits`, `MaxActors`, `MaxLength`, `MaxChanges` and
`LastTime` are arbitrary in these proofs: none of them rests on a bound.

**Inbox.** `IInv` is `TypeOK`, `NoStrandedSender` and `NoStarvedGet`, and is
inductive as it stands: what shrinks the deques wakes every blocked sender or
leaves the inbox full, and the only step that fills them while a `get()` waits
hands the message over at once. `Refinement` needs two more facts, which TLC found
invariant before they were proved: `Unwanted`, a message in the stash is none the
waiting reader asks for, so what `put()` hands over is the oldest of its kind;
and `Bounded`, the message on its way is the only one beyond the capacity, so
`put()` never enters behind more than `Capacity` messages. Then `put` is `Accept` or
`Evict` of `Mailbox`, what `get` and `receive` return is `Take`, a wait that ends early
is `Expire`, and all else, the hand-over and the stashing of a message that does not
match included, leaves the sequence as it is (`StepSimulated`). `Joined`,
`WithoutLeft` and `WithoutRight` say what happens to a concatenation when one part
loses an element.

**Mailbox.** `MailInv` is the shape of the variables, `Accounted` and `InOrder`. `InOrder`
includes that a message in the box is younger than every message of its kind that was
taken, which is what `Take`, guarded by "no older one of this kind", preserves.
`Delivery` carries both over to the inbox, through `Refinement`.

**Actor system.** `TaskInv` is about tasks: `CancelMeansStopped`, `NothingLeft` and
`NoForgottenWatcher` with `RunningInLoop` (only a task in its loop runs). `MailInv` is
about messages: `MailInOrder` says that what a slot has handled, what it holds and
what is in its inbox, in this order, are messages of its queue in the order of
acceptance, through every restart; `SentOnce` that a message has one place in one
queue; `ClosedByStop` that before the exit only `stop()` closes an inbox, without
which `DiscardedOnlyIfStopped` is not inductive. Steps that leave a part of the
state alone share one lemma each (`LeaveTask`, `StayTask`, `MailFrame`).

**Restart policy.** `RateKept` speaks of restarts the policy no longer remembers, so
`PolicyInv` says what was forgotten: the remembered times are the last ones of
`granted`, those before them have left the window, and times never fall. As they
ascend, what the filter keeps is an end of the list (`Evicts`): after it the
remembered times are *all* the restarts in the window, and comparing their number with
the limit is exact both ways. Without the evicted part the invariant is not inductive.
`CountSuffices` then only needs that no more than `RestartLimit` times are
remembered: an eviction followed by a refusal has evicted nothing.

**Supervisor.** `StepKinds` shows once and for all that every step is one of a few
kinds: one actor changes its own record, hands over to a successor, starts or
continues a group restart, is started, or all are stopped. Each invariant is then shown
for the kinds. `RestartInv` is what holds however restarts overlap: those replaced are out
of work for good (`ReplacedRetired`), and so are those a loop has yet to replace, whoever
replaces them first (`PlansRetired`); only a task in its message loop runs (`LoopRuns`);
`_children` lists newest actors, each once (`ChildrenNewest`), misses none and no spec
(`Manages`). That an actor which is replaced a second time is not in `_children`, so that
a new entry is right, is where the two last ones meet. `CalmInv` is what holds until two
restarts overlap: every spec has one newest actor (`Unique`), and there is one restart loop
whose actors are all newest (`OneRestart`), without which `Unique` is not inductive. Under
`ONE_FOR_ONE` nothing ever overlaps. `MailInv` adds that every message sent is with one newest
actor or was handled for one spec (`Placed`), in ascending order within each inbox (`Sorted`);
`InTurn`, that a spec handles messages in the order of sending, needs `Unique` and holds as
long as it does: with two newest actors of a spec either may be first.

**Circuit breaker.** `NoEarlyProbe` speaks of the time since the circuit opened,
the code compares the time since the last failure; `QuietSinceOpen` says that the
latter is never longer. `SlotsAreOwed` needs the cardinality of `Working`, the
callers at work on a probe, to change by one with each admission and outcome.

**Collector.** The four properties are about the end of the group. `BeforeExit`
relates the flags of `_aexit` to what started the abort, `CancelsCounted` says that
a cancellation on its way is counted, `Tracked` that every live task is in
`_tasks`, and `Collected` that `_errors` holds exactly the errors of the tasks
whose callback has run. With these, the parent's last step finds `_tasks` empty and
all errors collected. `MovesInv` and `FinishesInv` are the lemmas for steps of tasks
and for the exit.

**Dispatcher.** `CacheCoherent` alone is not inductive: a rollback brings back a
cache with its handlers, so the invariant also says of every saved version that
its flag describes its handlers (`SavedFlags`) and that its cache is coherent
(`SavedCoherent`). The step that matters is a search that fills the cache: the
answer found for one call is right for all calls of the same types
(`SameTypesSameMatch`), which is where `JudgeByType` enters. The lemmas before
it (`Smallest`, `PlaceExists`, `SelectType`, `InsertType`) are about the
sequences that registration and removal build; the smallest member of a set is
found through the well-foundedness of the subset order on finite sets.

`Refinement` adds `SInv`: the list of handlers and that of every version are sorted
by falling priority, through registration, removal and rollback. The argument is about
places: `Lists(g, n, K)` says that `g` runs through the places `K` in ascending order;
there is one such listing, and `Select` follows it (`ListsUnique`, `SelectListed`). A
handler is inserted behind the last one of its queue (`InsertLevel`), which fails
for a list that is not sorted; a removal commutes with the split into queues, because
both ways round list the same places (`WithoutLevel`). For calls, the places of a
sorted list correspond to those of the queues, in order (`Places`), so the first match is
the most urgent candidate (`UrgentIsFirst`) and the nearest handlers correspond, the
ambiguous case included (`NearestIsBest`). Each action is then one of the table's (`RegisterMaps`
and the lemmas behind it); a call from the cache needs `CacheCoherent`.

**Method combinations.** `RightArgs` speaks of what the parts have seen, so it needs
`ArgsCurrent`: while no two calls overlap, a running inner chain was given what
`args` holds. `NestedTrace` and `OrderedTrace` need `Listed`, which ties each entry of the
trace to the progress of its call (an around advisor is listed when it has returned,
the k-th part when k parts have), `Placed`, a part of `ChainTypeOK` which says that a running
call that was not left has a running caller, and `Unfinished`. With these an entry of a
call that its advisor awaited cannot come behind the advisor's own: the advisor would
still be running. `ProceedInv`, `PartReturnsInv` and `LeaveInv` are the
steps; `AppendTrace` is what the steps that extend the trace have in common.

**Vector.** `Implements` says that for every branch factor and every length the
calls give what they give on a list. `VectorInv` says that the vector `Represents`
the elements it iterates over: the tail holds those from `TailOffset` on, and the
root is the `Tree` of the others, the trie that their number calls for, with `Count`
nodes on each level and `Kids` children to each node. `Represents` names the trie by what each node
holds, not by how it was made. So every operation is shown to make *the* trie of
its result, and nothing needs to be known of the calls before.

- *Reading.* `WalkIs` follows the slots of an index down to its leaf, `GetAtIs` adds
  the tail, `IterateIs` flattens the levels one by one (`RowIs`, `FlattenChunks`).
- *Writing.* Two tries that differ in one leaf have all nodes beside its path in
  common (`BesideIs`). Hence the path that `AssocNode` and `PushLeaf` copy is all that
  changes (`AssocNodeIs`, `PushTailIs`), and a new level has the old root as its first
  node (`GrowIs`).
- *Boundaries.* A full tail is the next leaf (`FullTail`), and `AppendToIs` shows that
  the root has no slot for it exactly when `append` takes the trie for full,
  `count \div Width > Span[level]`. `OffsetIs` is the same for the tail: a multiple of
  `Width` elements leaves it full, not empty.

`VectorInv` quantifies over all sequences of elements, so TLC cannot evaluate it;
what TLC checks is `ImplementsSequence`, which follows from it. The library's induction
theorems, which take an operator, cannot be used here; `Upward` and `Downward` have a set
in its place: one that contains 0, and `i + 1` with each of its members `i` below `n`, contains
all of `0..n`, as there would be a least number it misses. With them each recursive
function of the module is shown to be the explicit one (`SpanIs`, `NewPathIs`,
`GrownIs`, …).

Checked by TLC only:

- all liveness properties and what depends on `ENABLED`, which the prover does not
  handle;
- `ImplementsDictionary`, `TrieCoherent` and `DiffExact` of the map: its operators are
  recursive in the nodes, and what they compute for every trie would need an induction
  over nodes. Unlike the vector's, the shape of a map's trie is not determined by
  what it holds: it depends on the calls before, and its depth is not even bounded
  by the hash (`path_grows`).

## What is not shown

- **Not modelled yet**: `verify_exhaustive` and the sealed-type checks, the nested
  paths and the set algebra of `PersistentSet`. See the plan.
- **Not modelled on purpose**: the thread bridge, the dispatch actor, fp-combinators,
  with-update, `collect_results`, freeze and thaw, and the result conversions, which have
  no state of their own; `ask_result`, which is `ask` with its exceptions turned
  into values.
- **Inbox**: that a particular sender ever leaves `put()`, which the code does not ensure;
  two readers of one inbox; `receive()` on an inbox that is closed
  already waits for ever, which no document excludes.
- **Actor system**: hooks that swallow a cancellation; senders blocked by a full
  inbox, which module `Inbox` covers; several actors whose handlers wait for each
  other. An `ask()` still in the inbox when the actor stops is answered by its
  timeout only.
- **Supervisor**: what `_run` does between two messages, which `ActorSystem` covers.
- **Collector**: a task that awaits another task of a group with a limit may wait
  for ever, as would any code that does so under a semaphore.
- **Dispatcher**: calls from several threads; a class that is registered with an ABC
  after a call has cached its absence (`Matches` is constant); a handler's `TypeError`,
  which the dispatch actor takes for the absence of a handler.
- **Collections**: keys that are not equal to themselves, keys whose hash changes,
  subclasses; negative indices of a transient vector, which are those of a list; for
  the map, the real branch factor of 32 and 7 levels (the vector is proved for every
  branch factor).

## Plan

Done: inbox, actor system, restart policy, supervisor, breaker, collector, dispatcher
with versions, method combinations, map with diff, vector. Next, in this order:

1. `Paths`: `assoc_in`, `update_in` and `dissoc_in` against nested functions, on top of
   `Dictionary`.
2. `Sealed`: the registry of subclasses and `verify_exhaustive` as operators, against
   the set of concrete classes that no handler accepts.
3. The set algebra of `PersistentSet`.

Theorems wanted: for the map, that `Set` and `Delete` keep `TrieCoherent`, with the nodes
given as functions from paths instead of recursive values; for `Paths` and `Sealed`, whatever
does not need an induction over data.
