--------------------------- MODULE ChannelUpdates ---------------------------
(***************************************************************************)
(* Api::Updates and ChannelData for the pts stream of one channel: updates *)
(* pushed by the server, answers that count, answers that only tell the    *)
(* channel's pts, getChannelDifference() with its retry timer, and the     *)
(* short poll that keeps an open channel up to date when the server does   *)
(* not push.                                                               *)
(*                                                                         *)
(* All of the client runs on the main thread, one handler per step.        *)
(***************************************************************************)
EXTENDS PtsWaiter

CONSTANTS
    Counts,       \* the pts counts an update can have
    StartPts,     \* the channel's pts when the client starts
    MaxPts,       \* bound: the server stops publishing here
    Ordered,      \* TRUE: the connection keeps the order of the stream
    Probes,       \* TRUE: answers tell the channel's pts (ptsReceived)
    ServerFails   \* TRUE: getChannelDifference can fail

ASSUME CountsAssumption == Counts \subseteq Nat
ASSUME PtsAssumption == StartPts \in Nat \ {0} /\ MaxPts \in Nat
                        /\ StartPts <= MaxPts
ASSUME FlagsAssumption == {Ordered, Probes, ServerFails} \subseteq BOOLEAN

VARIABLES
    start,       \* where this client began to follow the stream, 0: not yet
    serverPts,   \* the pts of the server's state
    log,         \* the updates the server has made
    net,         \* messages on their way to the client
    difference,  \* the getChannelDifference request
    retryTimer,  \* the channel is in _whenGetDiffAfterFail
    active       \* the channel is in _activeChats

vars == <<waiterVars, start, serverPts, log, net, difference, retryTimer,
          active>>

-----------------------------------------------------------------------------
Update == [pts : Nat, count : Nat]

(* "push": an update; "affected": an answer with pts and count; "pts": an  *)
(* answer that tells the pts; "tooLong": updateChannelTooLong.             *)
Message == [type : {"push", "affected"}, up : Update, pts : Nat]
             \cup [type : {"pts", "tooLong"}, pts : Nat]
             \cup [type : {"difference"}, pts : Nat, final : BOOLEAN]

TypeOK ==
    /\ good \in Nat /\ last \in Nat /\ count \in Nat
    /\ queue \subseteq Update
    /\ requesting \in BOOLEAN
    /\ waitingForSkipped \in BOOLEAN
    /\ waitingForShortPoll \in BOOLEAN
    /\ whenGetDiff \in BOOLEAN
    /\ applied \subseteq Update
    /\ start \in Nat
    /\ serverPts \in Nat
    /\ log \subseteq Update
    /\ net \subseteq Message
    /\ difference \in {"none", "sent", "answered", "failed"}
    /\ retryTimer \in BOOLEAN
    /\ active \in BOOLEAN

(* The channel was loaded with its pts, or has not been loaded yet.        *)
Init ==
    /\ start \in {0, StartPts}
    /\ good = start /\ last = start /\ count = start
    /\ queue = {}
    /\ requesting = FALSE
    /\ waitingForSkipped = FALSE
    /\ waitingForShortPoll = FALSE
    /\ whenGetDiff = FALSE
    /\ applied = {}
    /\ serverPts = StartPts
    /\ log = {}
    /\ net = {}
    /\ difference = "none"
    /\ retryTimer = FALSE
    /\ active = FALSE

-----------------------------------------------------------------------------
(* The server and the network.                                             *)

(* The server pushes a new update, answers a request of this client with   *)
(* it, only says that there is one, or says nothing at all.                *)
Publish(c, news) ==
    LET u == [pts |-> serverPts + c, count |-> c]
    IN  /\ u.pts <= MaxPts
        /\ u \notin log
        /\ serverPts' = u.pts
        /\ log' = log \cup {u}
        /\ net' = net \cup
             CASE news \in {"push", "affected"} ->
                    {[type |-> news, up |-> u, pts |-> u.pts]}
               [] news = "tooLong" -> {[type |-> news, pts |-> u.pts]}
               [] news = "silence" -> {}
        /\ UNCHANGED <<waiterVars, start, difference, retryTimer, active>>

(* The answer to a request for history, a dialog or a search.              *)
TellPts ==
    /\ Probes \/ ~Inited
    /\ net' = net \cup {[type |-> "pts", pts |-> serverPts]}
    /\ UNCHANGED <<waiterVars, start, serverPts, log, difference, retryTimer,
                   active>>

(* A slice ends at any update the client misses, short of the last one.    *)
Answer(pts) ==
    /\ difference = "sent"
    /\ \/ pts = serverPts
       \/ good < pts /\ pts < serverPts /\ \E u \in log : u.pts = pts
    /\ net' = net \cup {[type |-> "difference", pts |-> pts,
                         final |-> pts = serverPts]}
    /\ difference' = "answered"
    /\ UNCHANGED <<waiterVars, start, serverPts, log, retryTimer, active>>

MayArrive(m) ==
    /\ m \in net
    /\ Ordered => \A n \in net : m.pts <= n.pts

-----------------------------------------------------------------------------
(* The client begins to follow the stream where it first learns a pts.     *)
Follow == start' = IF start = 0 THEN good' ELSE start

(* Updates::getChannelDifference in a waiter that is (or was just set)     *)
(* not requesting.                                                         *)
RequestDifference ==
    /\ requesting' = TRUE
    /\ queue' = {}
    /\ whenGetDiff' = FALSE
    /\ retryTimer' = FALSE
    /\ difference' = "sent"

MayRequest == Inited /\ ~requesting

(* feedUpdate: a channel's update is dropped while its difference is       *)
(* requested.                                                              *)
ReceivePush(m) ==
    /\ MayArrive(m)
    /\ m.type = "push"
    /\ net' = net \ {m}
    /\ \/ requesting /\ UNCHANGED <<waiterVars, start>>
       \/ ~requesting /\ UpdateAndApply(m.up) /\ Follow
    /\ UNCHANGED <<serverPts, log, difference, retryTimer, active>>

(* ApiWrap::applyAffectedHistory, applyAffectedMessages.                   *)
ReceiveAffected(m) ==
    /\ MayArrive(m)
    /\ m.type = "affected"
    /\ net' = net \ {m}
    /\ CountAndRelease(m.up, {m.up})
    /\ Follow
    /\ UNCHANGED <<serverPts, log, difference, retryTimer, active>>

(* ChannelData::ptsReceived.                                               *)
PtsReceived(m) ==
    /\ MayArrive(m)
    /\ m.type = "pts"
    /\ net' = net \ {m}
    /\ CountAndRelease([pts |-> m.pts, count |-> 0], {})
    /\ Follow
    /\ UNCHANGED <<serverPts, log, difference, retryTimer, active>>

(* feedUpdate of updateChannelTooLong.  It may carry no pts, and then asks *)
(* in any case; only one that carries its pts can be known already.        *)
ChannelTooLong(m) ==
    /\ MayArrive(m)
    /\ m.type = "tooLong"
    /\ net' = net \ {m}
    /\ \/ MayRequest /\ RequestDifference
       \/ /\ ~MayRequest
          /\ whenGetDiff' = FALSE
          /\ UNCHANGED <<requesting, queue, retryTimer, difference>>
       \/ /\ good >= m.pts
          /\ UNCHANGED <<requesting, queue, whenGetDiff, retryTimer,
                         difference>>
    /\ UNCHANGED <<good, last, count, waitingForSkipped, waitingForShortPoll,
                   applied, start, serverPts, log, active>>

(* getDifferenceByPts at the channel's deadline: the deadline is gone even *)
(* when the request is not sent.                                           *)
GetDifferenceByPts ==
    /\ whenGetDiff
    /\ \/ MayRequest /\ RequestDifference
       \/ /\ ~MayRequest
          /\ whenGetDiff' = FALSE
          /\ UNCHANGED <<requesting, queue, retryTimer, difference>>
    /\ UNCHANGED <<good, last, count, waitingForSkipped, waitingForShortPoll,
                   applied, start, serverPts, log, net, active>>

(* Mutant of AfterFinal: the channel stays "requesting".                   *)
AfterFinalRequesting ==
    /\ difference' = "none"
    /\ waitingForShortPoll' = (waitingForShortPoll \/ active)
    /\ whenGetDiff' = (whenGetDiff \/ active)
    /\ UNCHANGED <<requesting, retryTimer>>

(* Mutant of AfterFinal: the short poll of an open channel is not renewed. *)
AfterFinalNoPoll ==
    /\ requesting' = FALSE
    /\ difference' = "none"
    /\ UNCHANGED <<waitingForShortPoll, whenGetDiff, retryTimer>>

(* The last difference: an open channel is polled again later.             *)
AfterFinal ==
    /\ requesting' = FALSE
    /\ difference' = "none"
    /\ waitingForShortPoll' = (waitingForShortPoll \/ active)
    /\ whenGetDiff' = (whenGetDiff \/ active)
    /\ UNCHANGED retryTimer

(* Mutant of AfterSlice: the rest of the difference is not asked for.      *)
AfterSliceStop ==
    /\ requesting' = FALSE
    /\ difference' = "none"
    /\ UNCHANGED <<waitingForShortPoll, whenGetDiff, retryTimer>>

(* A slice: the rest is asked for at once.                                 *)
AfterSlice ==
    /\ requesting' = TRUE
    /\ whenGetDiff' = FALSE
    /\ retryTimer' = FALSE
    /\ difference' = "sent"
    /\ UNCHANGED waitingForShortPoll

(* channelDifferenceDone.  A "too long" answer has the history read anew,  *)
(* which is as good as the updates.                                        *)
DifferenceDone(m) ==
    /\ MayArrive(m)
    /\ m.type = "difference"
    /\ net' = net \ {m}
    /\ applied' = applied \cup
         {u \in log : u.count > 0 /\ good < u.pts /\ u.pts <= m.pts}
    /\ InitTo(m.pts)
    /\ \/ m.final /\ AfterFinal
       \/ ~m.final /\ AfterSlice
    /\ UNCHANGED <<waitingForSkipped, start, serverPts, log, active>>

(* channelDifferenceFail: the timer is set, requesting stays as it is.     *)
DifferenceFail ==
    /\ ServerFails
    /\ difference = "sent"
    /\ difference' = "failed"
    /\ retryTimer' = TRUE
    /\ UNCHANGED <<waiterVars, start, serverPts, log, net, active>>

(* getDifferenceAfterFail at the channel's deadline.                       *)
GetDifferenceAfterFail ==
    /\ retryTimer
    /\ \/ MayRequest /\ RequestDifference
       \/ /\ ~MayRequest
          /\ retryTimer' = FALSE
          /\ whenGetDiff' = FALSE
          /\ UNCHANGED <<requesting, queue, difference>>
    /\ UNCHANGED <<good, last, count, waitingForSkipped, waitingForShortPoll,
                   applied, start, serverPts, log, net, active>>

(* addActiveChat: the channel is shown.                                    *)
Open ==
    /\ ~active
    /\ active' = TRUE
    /\ waitingForShortPoll' = TRUE
    /\ whenGetDiff' = TRUE
    /\ UNCHANGED <<good, last, count, queue, requesting, waitingForSkipped,
                   applied, start, serverPts, log, net, difference,
                   retryTimer>>

Close ==
    /\ active
    /\ active' = FALSE
    /\ UNCHANGED <<waiterVars, start, serverPts, log, net, difference,
                   retryTimer>>

(* ApiWrap::deleteHistory, when the channel is left.                       *)
StopShortPoll ==
    /\ waitingForShortPoll
    /\ waitingForShortPoll' = FALSE
    /\ whenGetDiff' = (whenGetDiff /\ waitingForSkipped)
    /\ UNCHANGED <<good, last, count, queue, requesting, waitingForSkipped,
                   applied, start, serverPts, log, net, difference,
                   retryTimer, active>>

-----------------------------------------------------------------------------
News == {"push", "affected", "tooLong", "silence"}

Server ==
    \/ \E c \in Counts, news \in News : Publish(c, news)
    \/ TellPts
    \/ \E pts \in 1 .. MaxPts : Answer(pts)

Client ==
    \/ \E m \in net :
         \/ ReceivePush(m)
         \/ ReceiveAffected(m)
         \/ PtsReceived(m)
         \/ ChannelTooLong(m)
         \/ DifferenceDone(m)
    \/ GetDifferenceByPts
    \/ DifferenceFail
    \/ GetDifferenceAfterFail
    \/ Open
    \/ Close
    \/ StopShortPoll

Next == Server \/ Client

Spec == Init /\ [][Next]_vars

(* Timers fire, the server answers, the connection delivers.               *)
Fairness ==
    /\ WF_vars(GetDifferenceByPts)
    /\ WF_vars(GetDifferenceAfterFail)
    /\ SF_vars(\E pts \in 1 .. MaxPts : Answer(pts))
    /\ SF_vars(\E m \in net : DifferenceDone(m))
    /\ SF_vars(\E m \in net : ReceivePush(m) \/ ReceiveAffected(m)
                                \/ PtsReceived(m) \/ ChannelTooLong(m))

FairSpec == Spec /\ Fairness

-----------------------------------------------------------------------------
(* From where the client began to follow the channel nothing is lost below *)
(* the counter, which differences start from and pushes are compared with. *)
NoUpdateLost ==
    \A u \in log :
        u.count > 0 /\ start > 0 /\ start < u.pts /\ u.pts <= good
            => u \in applied

(* The retry timer and the request it repeats never overlap.               *)
RetryNeverOverlaps ==
    /\ requesting <=> difference # "none"
    /\ retryTimer => difference = "failed"

(* An open channel whose poll is on is asked about, or will be: the        *)
(* deadline survives races of updates, gaps, answers and slices.  (This is *)
(* for a channel whose pts was known before it was shown: the deadline of  *)
(* another is spent by a getChannelDifference that returns at once.)       *)
PollStaysOn ==
    Inited =>
        [](active /\ waitingForShortPoll => requesting \/ whenGetDiff)

(* Such a channel catches up with the server even if nothing is pushed, as *)
(* long as it stays open and followed and no call fails.                   *)
OpenChannelCatchesUp ==
    Inited =>
        \A p \in StartPts .. MaxPts :
            (active /\ serverPts >= p)
                ~> \/ good >= p \/ difference = "failed"
                   \/ ~active \/ ~waitingForShortPoll

(* "growing timeout for getChannelDifference calls, if it fails"           *)
(* (api_updates.h:186): a call that failed is made again.                  *)
FailedIsRetried == (difference = "failed") ~> (difference # "failed")

=============================================================================
