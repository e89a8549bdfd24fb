--------------------------- MODULE CommonUpdates ---------------------------
(***************************************************************************)
(* Api::Updates (api/api_updates.cpp) for the account's common pts stream: *)
(* updates pushed by the server and updates carried by the answers of API  *)
(* requests, the waiter that orders them, and getDifference(), which       *)
(* fetches what was missed, with its retry after an error.                 *)
(*                                                                         *)
(* Everything of the client runs on the main thread.  A handler that feeds *)
(* a container of updates is taken apart into one step per update; while   *)
(* "feeding" is not empty no other step of the client is possible, so the  *)
(* handler stays atomic towards the rest.                                  *)
(*                                                                         *)
(* Server and network are what src/ assumes of them: an update appended to *)
(* the log is sent once, as a push or inside the answer of a request; an   *)
(* answer to getDifference covers the log up to its pts.                   *)
(***************************************************************************)
EXTENDS PtsWaiter, PtsCover

CONSTANTS
    Counts,     \* the pts counts an update can have
    StartPts,   \* the stream's pts when the client starts
    MaxPts,     \* bound: the server stops publishing here
    Ordered     \* TRUE: the connection keeps the order of the log

ASSUME CountsAssumption == Counts \subseteq Nat
ASSUME PtsAssumption == StartPts \in Nat \ {0} /\ MaxPts \in Nat
                        /\ StartPts <= MaxPts
ASSUME OrderedAssumption == Ordered \in BOOLEAN

VARIABLES
    serverPts,   \* the pts of the server's state
    log,         \* the updates the server has made
    net,         \* messages on their way to the client
    difference,  \* the getDifference / getState request
    retryTimer,  \* _getDifferenceTimeAfterFail is set
    feeding      \* what the running handler has still to feed

vars == <<waiterVars, serverPts, log, net, difference, retryTimer, feeding>>

-----------------------------------------------------------------------------
(* "push": for mtpUpdateReceived; "result": updates in an API answer, for  *)
(* applyUpdates; "affected": an answer with a pts and a count only.        *)
Sources == {"push", "result", "affected"}
Update == [pts : Nat, count : Nat, by : Sources]

(* "tooLong" is updatesTooLong, sent in place of pushes.                   *)
Message == [type : {"updates"}, by : Sources \cup {"tooLong"},
            ups : SUBSET Update]
             \cup [type : {"difference"}, pts : Nat, final : BOOLEAN]

TypeOK ==
    /\ good \in Nat /\ last \in Nat /\ count \in Nat
    /\ queue \subseteq Update
    /\ requesting \in BOOLEAN
    /\ waitingForSkipped \in BOOLEAN
    /\ waitingForShortPoll \in BOOLEAN
    /\ whenGetDiff \in BOOLEAN
    /\ applied \subseteq Update
    /\ serverPts \in Nat
    /\ log \subseteq Update
    /\ net \subseteq Message
    /\ difference \in {"none", "sent", "answered", "failed"}
    /\ retryTimer \in BOOLEAN
    /\ feeding \subseteq Update

(* Updates::Updates: requesting until the answer to updates.getState.      *)
Init ==
    /\ good = 0 /\ last = 0 /\ count = 0
    /\ queue = {}
    /\ requesting = TRUE
    /\ waitingForSkipped = FALSE
    /\ waitingForShortPoll = FALSE
    /\ whenGetDiff = FALSE
    /\ applied = {}
    /\ serverPts = StartPts
    /\ log = {}
    /\ net = {}
    /\ difference = "sent"
    /\ retryTimer = FALSE
    /\ feeding = {}

-----------------------------------------------------------------------------
(* The server and the network.                                             *)

Publish(c, by) ==
    LET u == [pts |-> serverPts + c, count |-> c, by |-> by]
    IN  /\ u.pts <= MaxPts
        /\ u \notin log
        /\ serverPts' = u.pts
        /\ log' = log \cup {u}
        /\ net' = net \cup {[type |-> "updates", by |-> by, ups |-> {u}]}
        /\ UNCHANGED <<waiterVars, difference, retryTimer, feeding>>

MessagePts(m) ==
    IF m.type = "difference" THEN {m.pts} ELSE {u.pts : u \in m.ups}

SentBefore(n, m) ==
    \E q \in MessagePts(n) : \A p \in MessagePts(m) :
        q < p \/ (q = p /\ n.type = "updates" /\ m.type = "difference")

MayArrive(m) ==
    /\ m \in net
    /\ feeding = {}
    /\ Ordered => \A n \in net : ~SentBefore(n, m)

(* The server puts two pushes next to each other into one container.       *)
Group(m, n) ==
    /\ {m.type, n.type} = {"updates"} /\ {m.by, n.by} = {"push"}
    /\ SentBefore(m, n)
    /\ \A k \in net : ~(SentBefore(m, k) /\ SentBefore(k, n))
    /\ net' = (net \ {m, n})
                \cup {[type |-> "updates", by |-> "push",
                       ups |-> m.ups \cup n.ups]}
    /\ UNCHANGED <<waiterVars, serverPts, log, difference, retryTimer,
                   feeding>>

TooLong(m) ==
    /\ m.type = "updates" /\ m.by = "push"
    /\ net' = (net \ {m}) \cup {[m EXCEPT !.by = "tooLong"]}
    /\ UNCHANGED <<waiterVars, serverPts, log, difference, retryTimer,
                   feeding>>

(* The request that carried the updates was cancelled before its answer.   *)
DropResult(m) ==
    /\ m.type = "updates" /\ m.by \in {"result", "affected"}
    /\ net' = net \ {m}
    /\ UNCHANGED <<waiterVars, serverPts, log, difference, retryTimer,
                   feeding>>

(* A slice ends at any update the client misses, short of the last one.    *)
Answer(pts) ==
    /\ difference = "sent"
    /\ \/ pts = serverPts
       \/ Inited /\ good < pts /\ pts < serverPts /\ \E u \in log : u.pts = pts
    /\ net' = net \cup {[type |-> "difference", pts |-> pts,
                         final |-> pts = serverPts]}
    /\ difference' = "answered"
    /\ UNCHANGED <<waiterVars, serverPts, log, retryTimer, feeding>>

-----------------------------------------------------------------------------
(* Updates::getDifference: a no-op while one is requested.                 *)
GetDifference ==
    /\ whenGetDiff' = FALSE
    /\ \/ /\ requesting
          /\ UNCHANGED <<requesting, queue, retryTimer, difference>>
       \/ /\ ~requesting
          /\ requesting' = TRUE
          /\ queue' = {}
          /\ retryTimer' = FALSE
          /\ difference' = "sent"
    /\ UNCHANGED <<good, last, count, waitingForSkipped, waitingForShortPoll,
                   applied>>

(* mtpUpdateReceived drops a push while a difference is requested; the     *)
(* updates of an answer reach applyUpdates in any case.                    *)
Receive(m) ==
    /\ MayArrive(m)
    /\ m.type = "updates" /\ m.by \in {"push", "result"}
    /\ net' = net \ {m}
    /\ feeding' = IF m.by = "push" /\ requesting THEN {} ELSE m.ups
    /\ UNCHANGED <<waiterVars, serverPts, log, difference, retryTimer>>

(* updatesTooLong: getDifference, unless dropped like any push.            *)
ReceiveTooLong(m) ==
    /\ MayArrive(m)
    /\ m.type = "updates" /\ m.by = "tooLong"
    /\ net' = net \ {m}
    /\ \/ requesting /\ UNCHANGED <<waiterVars, difference, retryTimer>>
       \/ ~requesting /\ GetDifference
    /\ UNCHANGED <<serverPts, log, feeding>>

NextToFeed(u) == u \in feeding /\ \A v \in feeding : u.pts <= v.pts

(* feedUpdate -> updateAndApply.                                           *)
FeedUpdate(u) ==
    /\ NextToFeed(u)
    /\ feeding' = feeding \ {u}
    /\ UpdateAndApply(u)
    /\ UNCHANGED <<serverPts, log, net, difference, retryTimer>>

(* feedUpdate for a message whose users or chats are not loaded.           *)
FeedNotLoaded(u) ==
    /\ NextToFeed(u)
    /\ ~requesting
    /\ feeding' = feeding \ {u}
    /\ GetDifference
    /\ UNCHANGED <<serverPts, log, net>>

(* ApiWrap::applyAffectedMessages, applyAffectedHistory: the caller has    *)
(* changed the messages itself, only the pts is counted.                   *)
ReceiveAffected(m, u) ==
    /\ MayArrive(m)
    /\ m.type = "updates" /\ m.by = "affected" /\ u \in m.ups
    /\ net' = net \ {m}
    /\ CountAndRelease(u, {u})
    /\ UNCHANGED <<serverPts, log, difference, retryTimer, feeding>>

(* mtpNewSessionCreated: the pushes of the old session are gone, and the   *)
(* MTProto layer sends an unanswered request once more.                    *)
NewSession ==
    /\ feeding = {}
    /\ net' = {m \in net : m.type = "updates"
                             /\ m.by \in {"result", "affected"}}
    /\ \/ /\ difference = "answered"
          /\ difference' = "sent"
          /\ whenGetDiff' = FALSE
          /\ UNCHANGED <<good, last, count, queue, requesting,
                         waitingForSkipped, waitingForShortPoll, applied,
                         retryTimer>>
       \/ difference # "answered" /\ GetDifference
    /\ UNCHANGED <<serverPts, log, feeding>>

(* getDifferenceByPts at its deadline.                                     *)
GetDifferenceByPts ==
    /\ feeding = {}
    /\ whenGetDiff
    /\ GetDifference
    /\ UNCHANGED <<serverPts, log, net, feeding>>

(* _byMinChannelTimer, after an update of a channel that is not loaded.    *)
MinChannelTimer ==
    /\ feeding = {}
    /\ GetDifference
    /\ UNCHANGED <<serverPts, log, net, feeding>>

(* Mutant of Merge: the last update of the difference is left out.         *)
MergeExceptLast(pts) ==
    /\ applied' = applied \cup
         {u \in log : u.count > 0 /\ good < u.pts /\ u.pts < pts}
    /\ InitTo(pts)

(* feedDifference with what the answer brings, then setState.              *)
Merge(pts) ==
    /\ applied' = applied \cup
         {u \in log : u.count > 0 /\ good < u.pts /\ u.pts <= pts}
    /\ InitTo(pts)

(* differenceDone with a final difference, and stateDone of the first      *)
(* updates.getState.                                                       *)
DifferenceDone(m) ==
    /\ MayArrive(m)
    /\ m.type = "difference" /\ m.final
    /\ net' = net \ {m}
    /\ Merge(m.pts)
    /\ requesting' = FALSE
    /\ difference' = "none"
    /\ UNCHANGED <<waitingForSkipped, waitingForShortPoll, whenGetDiff,
                   serverPts, log, retryTimer, feeding>>

(* differenceDone with a slice: requesting is reset and getDifference      *)
(* asks for the rest, in one go.                                           *)
DifferenceSlice(m) ==
    /\ MayArrive(m)
    /\ m.type = "difference" /\ ~m.final
    /\ net' = net \ {m}
    /\ Merge(m.pts)
    /\ requesting' = TRUE
    /\ whenGetDiff' = FALSE
    /\ retryTimer' = FALSE
    /\ difference' = "sent"
    /\ UNCHANGED <<waitingForSkipped, waitingForShortPoll, serverPts, log,
                   feeding>>

(* differenceFail: requesting stays set until the retry.                   *)
DifferenceFail ==
    /\ feeding = {}
    /\ difference = "sent" /\ Inited
    /\ difference' = "failed"
    /\ retryTimer' = TRUE
    /\ UNCHANGED <<waiterVars, serverPts, log, net, feeding>>

(* Mutant of GetDifferenceAfterFail: the time of the retry is not reset.   *)
RetryKeepsTimer ==
    /\ feeding = {}
    /\ retryTimer
    /\ requesting' = TRUE
    /\ queue' = {}
    /\ whenGetDiff' = FALSE
    /\ difference' = "sent"
    /\ UNCHANGED <<good, last, count, waitingForSkipped, waitingForShortPoll,
                   applied, serverPts, log, net, feeding, retryTimer>>

(* Mutant of GetDifferenceAfterFail: "requesting" is not reset before.     *)
RetryWhileRequesting ==
    /\ feeding = {}
    /\ retryTimer
    /\ GetDifference
    /\ UNCHANGED <<serverPts, log, net, feeding>>

(* getDifferenceAfterFail at its deadline: resets requesting, so that its  *)
(* getDifference is not a no-op.                                           *)
GetDifferenceAfterFail ==
    /\ feeding = {}
    /\ retryTimer
    /\ requesting' = TRUE
    /\ queue' = {}
    /\ whenGetDiff' = FALSE
    /\ retryTimer' = FALSE
    /\ difference' = "sent"
    /\ UNCHANGED <<good, last, count, waitingForSkipped, waitingForShortPoll,
                   applied, serverPts, log, net, feeding>>

-----------------------------------------------------------------------------
Server ==
    \/ \E c \in Counts, by \in Sources : Publish(c, by)
    \/ \E m, n \in net : Group(m, n)
    \/ \E m \in net : TooLong(m) \/ DropResult(m)
    \/ \E pts \in 1 .. MaxPts : Answer(pts)

Client ==
    \/ \E m \in net :
         \/ Receive(m)
         \/ ReceiveTooLong(m)
         \/ \E u \in log : ReceiveAffected(m, u)
         \/ DifferenceDone(m)
         \/ DifferenceSlice(m)
    \/ \E u \in feeding : FeedUpdate(u) \/ FeedNotLoaded(u)
    \/ NewSession
    \/ GetDifferenceByPts
    \/ MinChannelTimer
    \/ DifferenceFail
    \/ GetDifferenceAfterFail

Next == Server \/ Client

Spec == Init /\ [][Next]_vars

(* The main thread feeds what it received and its timers fire; the         *)
(* connection delivers; the server does not fail for ever.                 *)
Fairness ==
    /\ WF_vars(\E u \in feeding : FeedUpdate(u))
    /\ WF_vars(GetDifferenceByPts)
    /\ WF_vars(GetDifferenceAfterFail)
    /\ SF_vars(\E pts \in 1 .. MaxPts : Answer(pts))
    /\ SF_vars(\E m \in net : DifferenceDone(m) \/ DifferenceSlice(m))
    /\ SF_vars(\E m \in net : Receive(m) \/ ReceiveTooLong(m))
    /\ SF_vars(\E m \in net, u \in log : ReceiveAffected(m, u))

FairSpec == Spec /\ Fairness

-----------------------------------------------------------------------------
(* Nothing is lost below the counter: the client asks for differences from *)
(* "good" and ignores what is not above it (PtsWaiter::updated), so an     *)
(* update below it that was never applied would never come back.           *)
NoUpdateLost ==
    \A u \in log : u.count > 0 /\ u.pts <= good => u \in applied

(* getDifferenceAfterFail resets "requesting" without asking whether a     *)
(* request is under way: its timer must never be set while one is, or two  *)
(* differences from the same pts would be under way.                       *)
RetryNeverOverlaps ==
    /\ requesting <=> difference # "none"
    /\ retryTimer <=> difference = "failed"

(* "1s wait for skipped seq or pts in updates" (data_pts_waiter.h:24): as  *)
(* long as the client has heard of updates it does not have and is not     *)
(* asking for them, the deadline for getDifference is armed.               *)
GapIsWaitedFor == last # count => requesting \/ whenGetDiff

(* What the waiter holds back is new, and someone will release it: it is   *)
(* ahead of the counter, below the largest pts heard, and the flag that    *)
(* applySkippedUpdates looks at is set.                                    *)
HeldIsAhead ==
    \A u \in queue :
        /\ good < u.pts /\ u.pts <= last
        /\ u \in log \ applied
        /\ waitingForSkipped /\ ~requesting

(* Outside of a difference an update takes effect only together with all   *)
(* the updates before it, whatever order they came in (what an "affected"  *)
(* answer counts was done by the client itself).                           *)
AppliedInOrder ==
    [][~requesting =>
         \A u \in applied' \ applied : u.by # "affected" =>
           \A v \in log : v.count > 0 /\ v.pts < u.pts => v \in applied']_vars

(* The detailed client keeps the promise of SyncedLog.                     *)
Abstract == INSTANCE SyncedLog WITH seen <- applied, synced <- good
AbstractSpec == Abstract!Spec

(* A push or its replacement by updatesTooLong is never the end of it:     *)
(* over a connection that keeps the order, every pushed update is applied, *)
(* through races with differences, new sessions, retries and gaps left by  *)
(* cancelled requests.                                                     *)
PushedIsApplied ==
    \A p \in 1 .. MaxPts, c \in Counts \ {0} :
        LET u == [pts |-> p, count |-> c, by |-> "push"]
        IN  (u \in log) ~> (u \in applied)

(* A pts once heard of is reached, in whatever order messages come.        *)
HeardIsReached ==
    \A p \in 1 .. MaxPts : (last >= p) ~> (good >= p)
-----------------------------------------------------------------------------
(* Why nothing is lost, as an invariant that every step preserves.  The    *)
(* counters only compare two numbers, so the argument counts points: an    *)
(* update stands for "count" points of the stream ending at its pts, no    *)
(* two updates share one, and a point is covered when its update is        *)
(* applied or held.                                                        *)
Covered == CoveredBy(applied \cup queue, good, last)

(* No update has p strictly inside of its points.                          *)
Boundary(p) == \A w \in log : w.pts <= p \/ p <= w.pts - w.count

LogInv ==
    /\ \A u \in log : u.pts <= serverPts /\ Boundary(u.pts)
    /\ \A u, v \in log :
         u.count > 0 /\ v.count > 0 /\ u.pts = v.pts => u = v

NetInv ==
    /\ \A m \in net : m.type = "updates" =>
         /\ \A u \in m.ups :
              /\ u \in log
              /\ u \in applied \cup queue => Known(u)
              /\ u \notin feeding
              /\ m.by = "affected" => u.by = "affected"
         /\ \A n \in net \ {m} : n.type = "updates" => m.ups \cap n.ups = {}
    /\ \A u \in feeding :
         /\ u \in log
         /\ u \in applied \cup queue => Known(u)
    /\ \A m \in net : m.type = "difference" =>
         /\ difference = "answered"
         /\ \A n \in net : n.type = "difference" => n = m
         /\ good <= m.pts /\ m.pts > 0 /\ m.pts <= serverPts
         /\ Boundary(m.pts)

CountersInv ==
    /\ good <= last /\ last <= serverPts /\ serverPts > 0
    /\ Boundary(good) /\ Boundary(last)
    /\ applied \subseteq log
    /\ ~requesting => good > 0
    /\ ~requesting => count <= good + Cardinality(Covered)

IInv ==
    /\ LogInv
    /\ NetInv
    /\ CountersInv
    /\ RetryNeverOverlaps
    /\ HeldIsAhead
    /\ NoUpdateLost
=============================================================================
