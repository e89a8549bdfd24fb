------------------------------ MODULE CallQueue ------------------------------
(***************************************************************************)
(* crl::queue over a pool of threads (or over the main thread alone): the  *)
(* first to push on an empty list has the pool run ProcessCallback, and    *)
(* whoever has run it looks once more.  The atomic flag _queued is what    *)
(* keeps two threads of the pool from processing one queue.                *)
(***************************************************************************)
EXTENDS CallList

VARIABLES
    queued,      \* _queued
    scheduled    \* ProcessCallbacks the pool has not started yet

vars == <<listVars, queued, scheduled>>

TypeOK ==
    /\ ListTypeOK
    /\ queued \in BOOLEAN
    /\ scheduled \in Nat

Init ==
    /\ ListInit
    /\ stage = [w \in Workers |-> "idle"]
    /\ queued = FALSE
    /\ scheduled = 0

-----------------------------------------------------------------------------
(* Mutant of WakeAsync: the flag is set, but not tested.                   *)
WakeAlways ==
    /\ queued' = TRUE
    /\ scheduled' = scheduled + 1

(* wake_async: test_and_set of the flag.                                   *)
WakeAsync ==
    /\ queued' = TRUE
    /\ scheduled' = IF queued THEN scheduled ELSE scheduled + 1

WakeByPusher(p) ==
    /\ step[p] = "wake"
    /\ step' = [step EXCEPT ![p] = AfterAsync(p)]
    /\ WakeAsync
    /\ UNCHANGED <<stack, made, expected, sync, takeVars, history>>

(* Mutant of Start: a turn of the pool that nobody has asked for.          *)
StartUnasked(w) ==
    /\ stage[w] = "idle" /\ queued
    /\ scheduled' = scheduled - 1
    /\ stage' = [stage EXCEPT ![w] = "take"]
    /\ UNCHANGED <<stack, pushVars, chain, history, queued>>

(* The pool runs ProcessCallback on a free thread.                         *)
Start(w) ==
    /\ stage[w] = "idle" /\ scheduled > 0
    /\ scheduled' = scheduled - 1
    /\ stage' = [stage EXCEPT ![w] = "take"]
    /\ UNCHANGED <<stack, pushVars, chain, history, queued>>

(* process, after the list: the flag is cleared ...                        *)
ClearFlag(w) ==
    /\ stage[w] = "next" /\ chain[w] = <<>>
    /\ queued' = FALSE
    /\ stage' = [stage EXCEPT ![w] = "check"]
    /\ UNCHANGED <<stack, pushVars, chain, history, scheduled>>

(* Mutant of CheckAgain: what was pushed meanwhile is left to its pusher.  *)
CheckNothing(w) ==
    /\ stage[w] = "check"
    /\ stage' = [stage EXCEPT ![w] = "idle"]
    /\ UNCHANGED <<stack, pushVars, chain, history, queued, scheduled>>

(* ... the list is looked at again ...                                     *)
CheckAgain(w) ==
    /\ stage[w] = "check"
    /\ stage' = [stage EXCEPT ![w] = IF stack = <<>> THEN "idle" ELSE "wake"]
    /\ UNCHANGED <<stack, pushVars, chain, history, queued, scheduled>>

(* ... and the pool asked for another turn.                                *)
WakeByWorker(w) ==
    /\ stage[w] = "wake"
    /\ stage' = [stage EXCEPT ![w] = "idle"]
    /\ WakeAsync
    /\ UNCHANGED <<stack, pushVars, chain, history>>

-----------------------------------------------------------------------------
Pusher(p) ==
    \/ Push(p) /\ UNCHANGED <<queued, scheduled>>
    \/ WakeByPusher(p)

Worker(w) ==
    \/ Process(w) /\ UNCHANGED <<queued, scheduled>>
    \/ Start(w)
    \/ ClearFlag(w)
    \/ CheckAgain(w)
    \/ WakeByWorker(w)

Next == (\E p \in Pushers : Pusher(p)) \/ (\E w \in Workers : Worker(w))

Spec == Init /\ [][Next]_vars

(* Threads run: a started push goes on, and so does each thread of the     *)
(* pool (any of which will do to start a callback).                        *)
Fairness ==
    /\ \A p \in Pushers : WF_vars(Pusher(p))
    /\ \A w \in Workers : WF_vars(Worker(w))

FairSpec == Spec /\ Fairness

-----------------------------------------------------------------------------
(* Only one thread at a time is between the exchange of the list and the   *)
(* release of the flag, whatever the order of pushes, wakes and turns of   *)
(* the pool: objects on a queue need no locks.                             *)
Processing(w) == stage[w] \in {"take", "next", "call"}

OneProcessor ==
    \A v, w \in Workers : Processing(v) /\ Processing(w) => v = w

(* Whatever is in the list will be taken: a turn is scheduled or under way *)
(* (the flag is set), or a thread that is about to set it is on its way.   *)
NobodyIsForgotten ==
    stack # <<>> =>
        \/ queued
        \/ \E p \in Pushers : step[p] = "wake"
        \/ \E w \in Workers : stage[w] \in {"check", "wake"}

(* The queue keeps the promise of CallOrder: one call at a time, in the    *)
(* order of the pushes, although the list holds them in reverse.           *)
Order == INSTANCE CallOrder
CallsInOrder == Order!Spec

(* ... and as long as threads run, every call is made.                     *)
EveryCallIsMade == Order!FairSpec

-----------------------------------------------------------------------------
(* Why, as an invariant that every step preserves.  The flag is a token:   *)
(* it is set exactly while one turn is scheduled or one thread processes.  *)
TokenInv ==
    /\ scheduled \in {0, 1}
    /\ queued <=> scheduled = 1 \/ \E w \in Workers : Processing(w)
    /\ scheduled = 1 => \A w \in Workers : ~Processing(w)
    /\ OneProcessor

(* The calls that were pushed are those that were made, then those that    *)
(* the one thread that processes has taken, then those in the list.        *)
OrderInv ==
    /\ \A w \in Workers : stage[w] \notin {"next", "call"} => chain[w] = <<>>
    /\ \A w \in Workers : stage[w] = "call" =>
         chain[w] # <<>> /\ running = {Head(chain[w])}
    /\ (\A w \in Workers : stage[w] # "call") => running = {}
    /\ (\A w \in Workers : chain[w] = <<>>) => asked = ran \o Reverse(stack)
    /\ \A w \in Workers :
         chain[w] # <<>> => asked = (ran \o chain[w]) \o Reverse(stack)

IInv ==
    /\ \A p \in Pushers : step[p] # "idle" => made[p] \in 1 .. MaxCalls
    /\ TokenInv
    /\ OrderInv
    /\ NobodyIsForgotten
=============================================================================
