----------------------------- MODULE CallThread -----------------------------
(***************************************************************************)
(* crl::object_on_thread: a list whose calls one thread of its own makes.  *)
(* The thread sleeps on a condition variable while the list is empty, and  *)
(* the first to push on an empty list notifies it.                         *)
(*                                                                         *)
(* The mutex is not a variable: the predicate is tested and the sleep      *)
(* begun under it, and so is the notification sent, so that each is one    *)
(* step.  Workers has one element.                                         *)
(***************************************************************************)
EXTENDS CallList

VARIABLE queued    \* _queued

vars == <<listVars, queued>>

TypeOK == ListTypeOK /\ queued \in BOOLEAN

(* The thread begins with a look at the list.                              *)
Init ==
    /\ ListInit
    /\ stage = [w \in Workers |-> "take"]
    /\ queued = FALSE

-----------------------------------------------------------------------------
(* wake_async: test_and_set ...                                            *)
TestAndSet(p) ==
    /\ step[p] = "wake"
    /\ queued' = TRUE
    /\ step' = [step EXCEPT ![p] = IF queued THEN AfterAsync(p) ELSE "notify"]
    /\ UNCHANGED <<stack, made, expected, sync, takeVars, history>>

(* ... and, if it was not set, notify_one under the mutex.                 *)
Notify(p) ==
    /\ step[p] = "notify"
    /\ step' = [step EXCEPT ![p] = AfterAsync(p)]
    /\ stage' = [w \in Workers |->
                   IF stage[w] = "asleep" THEN "wait" ELSE stage[w]]
    /\ UNCHANGED <<stack, made, expected, sync, chain, history, queued>>

(* run, after the list: the flag is cleared ...                            *)
ClearFlag(w) ==
    /\ stage[w] = "next" /\ chain[w] = <<>>
    /\ queued' = FALSE
    /\ stage' = [stage EXCEPT ![w] = "wait"]
    /\ UNCHANGED <<stack, pushVars, chain, history>>

(* ... and the thread sleeps unless the list is not empty by now.          *)
Wait(w) ==
    /\ stage[w] = "wait"
    /\ stage' = [stage EXCEPT ![w] = IF stack = <<>> THEN "asleep" ELSE "take"]
    /\ UNCHANGED <<stack, pushVars, chain, history, queued>>

(* A condition variable may wake without being notified.                   *)
WakeSpuriously(w) ==
    /\ stage[w] = "asleep"
    /\ stage' = [stage EXCEPT ![w] = "wait"]
    /\ UNCHANGED <<stack, pushVars, chain, history, queued>>

-----------------------------------------------------------------------------
Pusher(p) ==
    \/ Push(p) /\ UNCHANGED queued
    \/ TestAndSet(p)
    \/ Notify(p)

Worker(w) ==
    \/ Process(w) /\ UNCHANGED queued
    \/ ClearFlag(w)
    \/ Wait(w)

Next ==
    \/ \E p \in Pushers : Pusher(p)
    \/ \E w \in Workers : Worker(w) \/ WakeSpuriously(w)

Spec == Init /\ [][Next]_vars

(* Threads run; nothing promises a spurious wake.                          *)
Fairness ==
    /\ \A p \in Pushers : WF_vars(Pusher(p))
    /\ \A w \in Workers : WF_vars(Worker(w))

FairSpec == Spec /\ Fairness

-----------------------------------------------------------------------------
(* The calls are made one at a time and in order, as on a queue.           *)
Order == INSTANCE CallOrder
OrderedCalls == Order!Spec

(* runner() "Returns a lambda that runs arbitrary callable on the objects  *)
(* queue" (crl_common_object_async.h:108): every call that was pushed is   *)
(* made.                                                                   *)
PushedIsMade ==
    \A call \in Calls :
        (\E i \in DOMAIN asked : asked[i] = call)
            ~> (\E i \in DOMAIN ran : ran[i] = call)
=============================================================================
