----------------------------- MODULE PtsWaiter -----------------------------
(***************************************************************************)
(* The pts counter of one update stream (data/data_pts_waiter.h, .cpp).    *)
(*                                                                         *)
(* An update u carries u.pts, the value of the stream's counter once it is *)
(* applied, and u.count, how many counter values it stands for.  The       *)
(* waiter decides whether an update is applied at once, is known already,  *)
(* or is held until the updates before it arrive.  The main thread calls   *)
(* it, so each operation below is one uninterrupted call.                  *)
(***************************************************************************)
EXTENDS Naturals

VARIABLES
    good,                \* _good: everything up to this pts is applied
    last,                \* _last: the largest pts heard of
    count,               \* _count: good plus the counts heard since
    queue,               \* _queue: the updates held back by a gap
    requesting,          \* _requesting: a difference is being fetched
    waitingForSkipped,   \* _waitingForSkipped
    waitingForShortPoll, \* _waitingForShortPoll (channels only)
    whenGetDiff,         \* Updates holds an armed deadline for this waiter
    applied              \* what has taken effect in the client's data

waiterVars == <<good, last, count, queue, requesting, waitingForSkipped,
                waitingForShortPoll, whenGetDiff, applied>>

-----------------------------------------------------------------------------
Larger(a, b) == IF a < b THEN b ELSE a

Inited == good > 0

(* PtsWaiter::init: the state at pts is complete, what was held is stale.  *)
InitTo(pts) ==
    /\ good' = pts
    /\ last' = pts
    /\ count' = pts
    /\ queue' = {}

-----------------------------------------------------------------------------
(* What updated() and check() make of an update.                           *)

Known(u) == u.pts <= good /\ u.count > 0

(* Mutant of Complete: a gap of one pts passes unnoticed.                  *)
CompleteWithinOne(u) ==
    Larger(last, u.pts) \in {count + u.count, count + u.count + 1}

Complete(u) == Larger(last, u.pts) = count + u.count

GapBefore(u) == ~requesting /\ ~Known(u) /\ Inited /\ ~Complete(u)

(* Mutant of Passes: what check() found is ignored.                        *)
PassesUnlessKnown(u) == requesting \/ ~Known(u)

(* updated() returns true: the caller applies u now.                       *)
Passes(u) == requesting \/ (~Known(u) /\ (GapBefore(u) => u.count = 0))

(* The flag and the deadline as check() leaves them.                       *)
WaitingAfter(u) == waitingForSkipped \/ GapBefore(u)
ArmedAfter(u) == whenGetDiff \/ GapBefore(u)

(* Mutant of Count: the count is subtracted.                               *)
CountDown(u) ==
    /\ good' = good
    /\ last' = Larger(last, u.pts)
    /\ count' = count - u.count

(* The counters as updated() leaves them.  Nothing is held by a waiter     *)
(* that is not inited, so its init() finds the queue empty.                *)
Count(u) ==
    \/ /\ requesting \/ Known(u)
       /\ UNCHANGED <<good, last, count>>
    \/ /\ ~requesting /\ ~Known(u) /\ ~Inited
       /\ good' = u.pts /\ last' = u.pts /\ count' = u.pts
    \/ /\ ~requesting /\ ~Known(u) /\ Inited
       /\ last' = Larger(last, u.pts)
       /\ count' = count + u.count
       /\ good' = IF Complete(u) THEN last' ELSE good

-----------------------------------------------------------------------------
(* Mutant of ApplyNow: what was released stays in the queue.               *)
ApplyKeepingQueue(u) ==
    /\ applied' = applied \cup queue \cup {u}
    /\ waitingForSkipped' = FALSE
    /\ whenGetDiff' = (ArmedAfter(u) /\ waitingForShortPoll)
    /\ UNCHANGED queue

(* The end of updateAndApply for an update that passed: with held updates  *)
(* it joins them and all of them are applied.                              *)
ApplyNow(u) ==
    \/ /\ ~WaitingAfter(u) \/ queue = {}
       /\ applied' = applied \cup {u}
       /\ waitingForSkipped' = WaitingAfter(u)
       /\ whenGetDiff' = ArmedAfter(u)
       /\ UNCHANGED queue
    \/ /\ WaitingAfter(u) /\ queue # {}
       /\ applied' = applied \cup queue \cup {u}
       /\ waitingForSkipped' = FALSE
       /\ whenGetDiff' = (ArmedAfter(u) /\ waitingForShortPoll)
       /\ queue' = {}

(* Mutant of UpdateAndApply: the update is held, the timer not started.    *)
HoldWithoutTimer(u) ==
    /\ Count(u)
    /\ \/ Passes(u) /\ ApplyNow(u)
       \/ /\ ~Passes(u)
          /\ queue' = IF GapBefore(u) THEN queue \cup {u} ELSE queue
          /\ waitingForSkipped' = WaitingAfter(u)
          /\ UNCHANGED <<whenGetDiff, applied>>
    /\ UNCHANGED <<requesting, waitingForShortPoll>>

(* updateAndApply(channel, pts, count, update).                            *)
UpdateAndApply(u) ==
    /\ Count(u)
    /\ \/ Passes(u) /\ ApplyNow(u)
       \/ /\ ~Passes(u) /\ GapBefore(u)
          /\ queue' = queue \cup {u}
          /\ waitingForSkipped' = TRUE
          /\ whenGetDiff' = TRUE
          /\ UNCHANGED applied
       \/ /\ ~Passes(u) /\ ~GapBefore(u)
          /\ UNCHANGED <<queue, waitingForSkipped, whenGetDiff, applied>>
    /\ UNCHANGED <<requesting, waitingForShortPoll>>

(* updateAndApply(channel, pts, count), for what only counts: the caller   *)
(* has put "own" into effect, and applySkippedUpdates() is unconditional.  *)
CountAndRelease(u, own) ==
    /\ Count(u)
    /\ \/ /\ Passes(u) /\ WaitingAfter(u)
          /\ applied' = applied \cup own \cup queue
          /\ queue' = {}
          /\ waitingForSkipped' = FALSE
          /\ whenGetDiff' = (ArmedAfter(u) /\ waitingForShortPoll)
       \/ /\ ~(Passes(u) /\ WaitingAfter(u))
          /\ applied' = applied \cup own
          /\ waitingForSkipped' = WaitingAfter(u)
          /\ whenGetDiff' = ArmedAfter(u)
          /\ UNCHANGED queue
    /\ UNCHANGED <<requesting, waitingForShortPoll>>

=============================================================================
