---------------------------- MODULE Combination ----------------------------
(***************************************************************************)
(* One call of a dispatcher through its advisors: the chain that           *)
(* _run_combination_chain and _run_combination_chain_async build           *)
(* (live_dispatch/_combinations.py).  Around advisors are nested; what     *)
(* lies inside the last of them is the inner chain of before advisors,     *)
(* primary handler and after advisors.  args stands for args and kwargs.   *)
(*                                                                         *)
(* An action is what runs between two awaits.  The synchronous chain is    *)
(* the case in which no two calls of proceed() overlap.                    *)
(***************************************************************************)
EXTENDS Integers, Sequences

CONSTANTS
    Arounds, Befores, Afters,   \* how many advisors of each phase apply
    Args,                       \* the arguments calls are made with
    MaxCalls                    \* bound: how many calls of the chain begin

ASSUME CombinationAssumption ==
    Arounds \in Nat /\ Befores \in Nat /\ Afters \in Nat /\ MaxCalls \in Nat

VARIABLES
    args,       \* the variable that all functions of the chain share
    calls,      \* the calls of outermost_proceed and of proceed() so far
    trace,      \* the trace: what has returned, and in which call
    overlapped  \* history: a proceed() began while another one was at work

chainVars == <<args, calls, trace, overlapped>>

Inner    == Arounds + 1             \* the level inside all around advisors
NumParts == Befores + 1 + Afters    \* the length of the inner chain

\* mutation: after advisors in the order of their registration
PartInOrder(i) == IF i <= Befores THEN [phase |-> "before", number |-> i]
                  ELSE IF i = Befores + 1 THEN [phase |-> "primary", number |-> 1]
                  ELSE [phase |-> "after", number |-> i - Befores - 1]

(* The parts of the inner chain in the order in which they run.            *)
Part(i) == IF i <= Befores THEN [phase |-> "before", number |-> i]
           ELSE IF i = Befores + 1 THEN [phase |-> "primary", number |-> 1]
           ELSE [phase |-> "after", number |-> NumParts + 1 - i]

(* A call that begins; in the inner chain its first part runs at once.     *)
Call(level, given, caller, current, left) ==
    [level |-> level, given |-> given, caller |-> caller, state |-> "running",
     returned |-> 0, seen |-> IF level = Inner THEN {current} ELSE {given},
     left |-> left]   \* history: did its caller end before it?

ChainInit ==
    /\ args \in Args
    /\ calls = <<Call(1, args, 0, args, FALSE)>>
    /\ trace = <<>> /\ overlapped = FALSE

Running(c)  == calls[c].state = "running"
Deeper(c)   == \E d \in DOMAIN calls : calls[d].level > calls[c].level /\ Running(d)
Entry(c, p) == [call |-> c, part |-> p]

\* mutation: the innermost proceed() does not store its arguments
ProceedUnstored(c, a) ==
    /\ calls[c].level < Inner /\ Len(calls) < MaxCalls
    /\ args' = IF calls[c].level = Arounds THEN args ELSE a
    /\ calls' = Append(calls, Call(calls[c].level + 1, a, c, args', ~Running(c)))
    /\ overlapped' = (overlapped \/ Deeper(c))
    /\ UNCHANGED trace

(* An around advisor, or a task it has started, calls proceed(): any       *)
(* number of times, with arguments of its choice, and in an async chain    *)
(* even while an earlier proceed() of its own still runs, or when the      *)
(* advisor itself has ended.                                               *)
Proceed(c, a) ==
    /\ calls[c].level < Inner /\ Len(calls) < MaxCalls
    /\ args' = a
    /\ calls' = Append(calls, Call(calls[c].level + 1, a, c, args', ~Running(c)))
    /\ overlapped' = (overlapped \/ Deeper(c))
    /\ UNCHANGED trace

(* A part of the inner chain returns and the next one is called, with what *)
(* args holds by then.                                                     *)
PartReturns(c) ==
    /\ Running(c) /\ calls[c].level = Inner
    /\ LET i == calls[c].returned + 1
       IN  /\ trace' = Append(trace, Entry(c, Part(i)))
           /\ calls' = [calls EXCEPT
                ![c].returned = i,
                ![c].state = IF i = NumParts THEN "returned" ELSE @,
                ![c].seen  = IF i = NumParts THEN @ ELSE @ \cup {args}]
    /\ UNCHANGED <<args, overlapped>>

(* Call c ends, and leaves those of its own that still run.                *)
Ended(c, state) ==
    [d \in DOMAIN calls |->
        [calls[d] EXCEPT !.state = IF d = c THEN state ELSE @,
                         !.left  = @ \/ (calls[d].caller = c /\ Running(d))]]

\* mutation: an around advisor is listed when it has started its proceed()
AroundReturnsEarly(c) ==
    /\ Running(c) /\ calls[c].level < Inner
    /\ trace' = Append(trace, Entry(c, [phase |-> "around", number |-> calls[c].level]))
    /\ calls' = IF \E d \in DOMAIN calls : calls[d].caller = c /\ Running(d) THEN calls
                ELSE Ended(c, "returned")
    /\ UNCHANGED <<args, overlapped>>

(* An around advisor returns; it need not have awaited what it called.     *)
AroundReturns(c) ==
    /\ Running(c) /\ calls[c].level < Inner
    /\ trace' = Append(trace, Entry(c, [phase |-> "around", number |-> calls[c].level]))
    /\ calls' = Ended(c, "returned")
    /\ UNCHANGED <<args, overlapped>>

(* A part or an around advisor raises, as gather() makes it do when one of *)
(* several proceed() fails: nothing after it runs in this call, and who    *)
(* called proceed() may catch the exception and go on.                     *)
Raises(c) ==
    /\ Running(c)
    /\ calls' = Ended(c, "raised")
    /\ UNCHANGED <<args, trace, overlapped>>

ChainNext ==
    \E c \in DOMAIN calls :
        \/ \E a \in Args : Proceed(c, a)
        \/ PartReturns(c)
        \/ AroundReturns(c)
        \/ Raises(c)

ChainSpec == ChainInit /\ [][ChainNext]_chainVars

-----------------------------------------------------------------------------
CallType == [level : 1..Inner, given : Args, caller : Nat,
             state : {"running", "returned", "raised"},
             returned : 0..NumParts, seen : SUBSET Args, left : BOOLEAN]

(* A call made by proceed() is one level below the call that made it, and  *)
(* if that call has ended first, the call is known to have been left.      *)
Placed(c) ==
    \/ calls[c].caller = 0 /\ calls[c].level = 1
    \/ /\ calls[c].caller \in 1..(c - 1)
       /\ calls[c].level = calls[calls[c].caller].level + 1
       /\ Running(c) /\ ~calls[c].left => Running(calls[c].caller)

(* The shape of a chain.                                                   *)
ChainTypeOK ==
    /\ args \in Args /\ overlapped \in BOOLEAN
    /\ calls \in Seq(CallType)
    /\ \A c \in DOMAIN calls : Placed(c)

(* As long as no two proceed() of a call overlap, every before advisor,    *)
(* primary handler and after advisor is called with the arguments of the   *)
(* proceed() that led to it, although these are read from variables that   *)
(* the whole chain shares and reads again after each await.                *)
RightArgs ==
    ~overlapped => \A c \in DOMAIN calls : calls[c].seen \subseteq {calls[c].given}

(* The trace is nested as the calls are: when an around advisor is listed, *)
(* everything that ran inside it has been listed before, however its       *)
(* proceed() calls overlapped and whatever raised.  Only what a proceed()  *)
(* does that the advisor left at work, or that was called when it had      *)
(* ended, is listed after it.                                              *)
TraceNested ==
    \A i, j \in DOMAIN trace :
        i <= j /\ calls[trace[j].call].caller = trace[i].call
            => calls[trace[j].call].left

(* p is due before q: before advisors in the order of their registration,  *)
(* then the primary handler, then after advisors in the reverse order.     *)
Due(p, q) ==
    \/ p.phase = "before" /\ q.phase # "before"
    \/ p.phase = "before" /\ q.phase = "before" /\ p.number < q.number
    \/ p.phase = "primary" /\ q.phase = "after"
    \/ p.phase = "after" /\ q.phase = "after" /\ p.number > q.number

(* Each proceed() runs the parts inside it once and in the documented      *)
(* order, however the proceed() calls of a chain overlap.                  *)
TraceOrdered ==
    \A i, j \in DOMAIN trace :
        (i < j /\ trace[i].call = trace[j].call) => Due(trace[i].part, trace[j].part)
=============================================================================
