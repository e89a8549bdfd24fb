------------------------ MODULE ChannelUpdates_proofs ------------------------
(***************************************************************************)
(* Proofs about ChannelUpdates, for every set of counts and every MaxPts:  *)
(* the types, that the retry and a request exclude one another, that the   *)
(* short poll of an open channel survives every race, and that no update   *)
(* is lost below the counter from where the client follows the channel.    *)
(***************************************************************************)
EXTENDS ChannelUpdates, PtsCover_proofs

(* The initial state has the types of the variables.                       *)
LEMMA InitTypeOK == Init => TypeOK
  <1> SUFFICES ASSUME Init PROVE TypeOK
    OBVIOUS
  <1>1. start \in Nat /\ StartPts \in Nat
    BY PtsAssumption DEF Init
  <1> QED
    BY <1>1, Zenon DEF Init, TypeOK

(* Both ways to hand an update to the waiter keep the types.               *)
LEMMA WaiterType ==
  ASSUME TypeOK, NEW u \in Update, NEW own \in SUBSET Update,
         UpdateAndApply(u) \/ CountAndRelease(u, own)
  PROVE  /\ good' \in Nat /\ last' \in Nat /\ count' \in Nat
         /\ queue' \subseteq Update
         /\ requesting' \in BOOLEAN
         /\ waitingForSkipped' \in BOOLEAN
         /\ waitingForShortPoll' \in BOOLEAN
         /\ whenGetDiff' \in BOOLEAN
         /\ applied' \subseteq Update
  <1>1. GapBefore(u) \in BOOLEAN
    BY DEF GapBefore
  <1>2. good' \in Nat /\ last' \in Nat /\ count' \in Nat
    BY DEF TypeOK, UpdateAndApply, CountAndRelease, Count, Larger, Complete,
           Update
  <1>3. CASE UpdateAndApply(u)
    BY <1>1, <1>2, <1>3
       DEF TypeOK, UpdateAndApply, ApplyNow, WaitingAfter, ArmedAfter
  <1>4. CASE CountAndRelease(u, own)
    BY <1>1, <1>2, <1>4 DEF TypeOK, CountAndRelease, WaitingAfter, ArmedAfter
  <1> QED
    BY <1>3, <1>4

(* Every step keeps the types of the variables.                            *)
LEMMA NextTypeOK == TypeOK /\ [Next]_vars => TypeOK'
  <1> SUFFICES ASSUME TypeOK, [Next]_vars PROVE TypeOK'
    OBVIOUS
  <1>1. CASE Server
    <2>1. ASSUME NEW c \in Counts, NEW news \in News, Publish(c, news)
          PROVE  TypeOK'
      <3> DEFINE u == [pts |-> serverPts + c, count |-> c]
      <3>1. c \in Nat /\ serverPts + c \in Nat /\ u \in Update
        BY CountsAssumption DEF TypeOK, Update
      <3>2. /\ [type |-> "push", up |-> u, pts |-> u.pts] \in Message
            /\ [type |-> "affected", up |-> u, pts |-> u.pts] \in Message
            /\ [type |-> "tooLong", pts |-> u.pts] \in Message
        BY <3>1 DEF Message
      <3>3. net' \subseteq Message
        BY <2>1, <3>2 DEF TypeOK, Publish, News
      <3> QED
        BY <2>1, <3>1, <3>3 DEF TypeOK, Publish, waiterVars
    <2>2. CASE TellPts
      BY <2>2 DEF TypeOK, TellPts, waiterVars, Message
    <2>3. ASSUME NEW pts \in 1 .. MaxPts, Answer(pts) PROVE TypeOK'
      <3>1. pts \in Nat /\ (pts = serverPts) \in BOOLEAN
        BY PtsAssumption
      <3>2. [type |-> "difference", pts |-> pts, final |-> pts = serverPts]
              \in Message
        BY <3>1 DEF Message
      <3> QED
        BY <2>3, <3>2 DEF TypeOK, Answer, waiterVars
    <2> QED
      BY <1>1, <2>1, <2>2, <2>3 DEF Server
  <1>2. CASE Client
    <2>1. ASSUME NEW m \in net, ReceivePush(m) \/ ReceiveAffected(m)
          PROVE  TypeOK'
      <3>1. m.up \in Update /\ {m.up} \in SUBSET Update
        BY <2>1 DEF TypeOK, ReceivePush, ReceiveAffected, Message
      <3>2. start' \in Nat
        BY <2>1, <3>1, WaiterType
           DEF TypeOK, ReceivePush, ReceiveAffected, Follow
      <3>3. CASE UNCHANGED waiterVars
        BY <2>1, <3>2, <3>3
           DEF TypeOK, ReceivePush, ReceiveAffected, waiterVars
      <3>4. CASE UpdateAndApply(m.up) \/ CountAndRelease(m.up, {m.up})
        BY <2>1, <3>1, <3>2, <3>4, WaiterType
           DEF TypeOK, ReceivePush, ReceiveAffected
      <3> QED
        BY <2>1, <3>3, <3>4 DEF ReceivePush, ReceiveAffected
    <2>2. ASSUME NEW m \in net, PtsReceived(m) PROVE TypeOK'
      <3>1. /\ [pts |-> m.pts, count |-> 0] \in Update
            /\ {} \in SUBSET Update
        BY DEF TypeOK, Message, Update
      <3> QED
        BY <2>2, <3>1, WaiterType DEF TypeOK, PtsReceived, Follow
    <2>3. ASSUME NEW m \in net, ChannelTooLong(m) PROVE TypeOK'
      BY <2>3 DEF TypeOK, ChannelTooLong, RequestDifference
    <2>4. ASSUME NEW m \in net, DifferenceDone(m) PROVE TypeOK'
      <3>1. m.pts \in Nat
        BY DEF TypeOK, Message
      <3> QED
        BY <2>4, <3>1
           DEF TypeOK, DifferenceDone, AfterFinal, AfterSlice, InitTo
    <2>5. CASE GetDifferenceByPts \/ GetDifferenceAfterFail
      BY <2>5 DEF TypeOK, GetDifferenceByPts, GetDifferenceAfterFail,
                  RequestDifference
    <2>6. CASE DifferenceFail \/ Open \/ Close \/ StopShortPoll
      BY <2>6 DEF TypeOK, DifferenceFail, Open, Close, StopShortPoll,
                  waiterVars
    <2> QED
      BY <1>2, <2>1, <2>2, <2>3, <2>4, <2>5, <2>6 DEF Client
  <1>3. CASE UNCHANGED vars
    BY <1>3 DEF TypeOK, vars, waiterVars
  <1> QED
    BY <1>1, <1>2, <1>3 DEF Next

(* Type correctness of the stream of a channel (PtsWaiter, ChannelData).   *)
THEOREM TypeCorrect == Spec => []TypeOK
  BY InitTypeOK, NextTypeOK, PTL DEF Spec
-----------------------------------------------------------------------------
(* Requests, answers and retries.                                          *)

(* One answer at most is on its way, and only to a request it answers.     *)
OneAnswer ==
    /\ \A m \in net : m.type = "difference" => difference = "answered"
    /\ \A m, n \in net :
         m.type = "difference" /\ n.type = "difference" => m = n

RetryInv == RetryNeverOverlaps /\ OneAnswer

(* Every step keeps requests, answers and retries apart.                   *)
LEMMA NextRetryInv == TypeOK /\ RetryInv /\ [Next]_vars => RetryInv'
  <1> SUFFICES ASSUME TypeOK, RetryInv, [Next]_vars PROVE RetryInv'
    OBVIOUS
  <1> USE DEF RetryInv, RetryNeverOverlaps, OneAnswer
  <1>1. CASE Server
    <2>1. ASSUME NEW c \in Counts, NEW news \in News, Publish(c, news)
          PROVE  RetryInv'
      <3>1. \A m \in net' : m.type = "difference" => m \in net
        BY <2>1 DEF Publish, News
      <3> QED
        BY <2>1, <3>1 DEF Publish, waiterVars
    <2>2. CASE TellPts
      <3>1. \A m \in net' : m.type = "difference" => m \in net
        BY <2>2 DEF TellPts
      <3> QED
        BY <2>2, <3>1 DEF TellPts, waiterVars
    <2>3. ASSUME NEW pts \in 1 .. MaxPts, Answer(pts) PROVE RetryInv'
      <3> DEFINE a == [type |-> "difference", pts |-> pts,
                       final |-> pts = serverPts]
      <3>1. \A m \in net' : m.type = "difference" => m = a
        BY <2>3 DEF Answer
      <3> QED
        BY <2>3, <3>1 DEF Answer, waiterVars
    <2> QED
      BY <1>1, <2>1, <2>2, <2>3 DEF Server
  <1>2. CASE Client
    <2>1. ASSUME NEW m \in net,
                 ReceivePush(m) \/ ReceiveAffected(m) \/ PtsReceived(m)
          PROVE  RetryInv'
      BY <2>1 DEF ReceivePush, ReceiveAffected, PtsReceived, UpdateAndApply,
                  CountAndRelease, waiterVars
    <2>2. ASSUME NEW m \in net, ChannelTooLong(m) PROVE RetryInv'
      BY <2>2 DEF ChannelTooLong, MayRequest, RequestDifference
    <2>3. ASSUME NEW m \in net, DifferenceDone(m) PROVE RetryInv'
      <3>1. difference = "answered" /\ ~retryTimer
        BY <2>3 DEF DifferenceDone
      <3>2. \A n \in net' : n.type # "difference"
        BY <2>3 DEF DifferenceDone
      <3> QED
        BY <2>3, <3>1, <3>2 DEF DifferenceDone, AfterFinal, AfterSlice
    <2>4. CASE GetDifferenceByPts \/ GetDifferenceAfterFail
      BY <2>4 DEF GetDifferenceByPts, GetDifferenceAfterFail, MayRequest,
                  RequestDifference
    <2>5. CASE DifferenceFail \/ Open \/ Close \/ StopShortPoll
      BY <2>5 DEF DifferenceFail, Open, Close, StopShortPoll, waiterVars
    <2> QED
      BY <1>2, <2>1, <2>2, <2>3, <2>4, <2>5 DEF Client
  <1>3. CASE UNCHANGED vars
    BY <1>3 DEF vars, waiterVars
  <1> QED
    BY <1>1, <1>2, <1>3 DEF Next

(* The retry after a failure and a request never overlap, whatever races   *)
(* between the failed call, the short poll and updateChannelTooLong        *)
(* (Updates::channelDifferenceFail, getDifferenceAfterFail).               *)
THEOREM RetriesNeverOverlap == Spec => []RetryNeverOverlaps
  <1>1. Init => RetryInv
    BY DEF Init, RetryInv, RetryNeverOverlaps, OneAnswer
  <1>2. RetryInv => RetryNeverOverlaps
    BY DEF RetryInv
  <1> QED
    BY <1>1, <1>2, TypeCorrect, NextRetryInv, PTL DEF Spec
-----------------------------------------------------------------------------
(* The short poll.                                                         *)

(* The channel stays inited: no answer takes its pts back to zero.         *)
PollInv ==
    /\ Inited /\ good <= last
    /\ \A m \in net : m.type = "difference" => m.pts > 0
    /\ active /\ waitingForShortPoll => requesting \/ whenGetDiff

(* Both ways to hand an update to the waiter keep the channel inited and   *)
(* its poll armed.                                                         *)
LEMMA WaiterPoll ==
  ASSUME TypeOK, PollInv, NEW u \in Update, NEW own \in SUBSET Update,
         UpdateAndApply(u) \/ CountAndRelease(u, own), UNCHANGED active
  PROVE  /\ Inited' /\ good' <= last'
         /\ active' /\ waitingForShortPoll' => requesting' \/ whenGetDiff'
  <1>1. Inited' /\ good' <= last'
    BY DEF TypeOK, PollInv, UpdateAndApply, CountAndRelease, Count, Larger,
           Complete, Inited, Update
  <1>2. CASE UpdateAndApply(u)
    BY <1>1, <1>2 DEF TypeOK, PollInv, UpdateAndApply, ApplyNow, ArmedAfter
  <1>3. CASE CountAndRelease(u, own)
    BY <1>1, <1>3 DEF TypeOK, PollInv, CountAndRelease, ArmedAfter
  <1> QED
    BY <1>2, <1>3

(* Every step keeps the poll of an open channel.                           *)
LEMMA NextPollInv == TypeOK /\ PollInv /\ [Next]_vars => PollInv'
  <1> SUFFICES ASSUME TypeOK, PollInv, [Next]_vars PROVE PollInv'
    OBVIOUS
  <1>1. CASE Server
    <2>1. ASSUME NEW c \in Counts, NEW news \in News, Publish(c, news)
          PROVE  PollInv'
      <3>1. \A m \in net' : m.type = "difference" => m \in net
        BY <2>1 DEF Publish, News
      <3> QED
        BY <2>1, <3>1 DEF PollInv, Inited, Publish, waiterVars
    <2>2. CASE TellPts
      <3>1. \A m \in net' : m.type = "difference" => m \in net
        BY <2>2 DEF TellPts
      <3> QED
        BY <2>2, <3>1 DEF PollInv, Inited, TellPts, waiterVars
    <2>3. ASSUME NEW pts \in 1 .. MaxPts, Answer(pts) PROVE PollInv'
      <3>1. \A m \in net' : m \in net \/ m.pts = pts
        BY <2>3 DEF Answer
      <3> QED
        BY <2>3, <3>1, PtsAssumption DEF PollInv, Inited, Answer, waiterVars
    <2> QED
      BY <1>1, <2>1, <2>2, <2>3 DEF Server
  <1>2. CASE Client
    <2>1. ASSUME NEW m \in net, ReceivePush(m) \/ ReceiveAffected(m)
          PROVE  PollInv'
      <3>1. m.up \in Update /\ {m.up} \in SUBSET Update
        BY <2>1 DEF TypeOK, ReceivePush, ReceiveAffected, Message
      <3>2. CASE UNCHANGED waiterVars
        BY <2>1, <3>2
           DEF PollInv, Inited, ReceivePush, ReceiveAffected, waiterVars
      <3>3. CASE UpdateAndApply(m.up) \/ CountAndRelease(m.up, {m.up})
        <4>1. net' \subseteq net /\ UNCHANGED active
          BY <2>1 DEF ReceivePush, ReceiveAffected
        <4> QED
          BY <3>1, <3>3, <4>1, WaiterPoll DEF PollInv
      <3> QED
        BY <2>1, <3>2, <3>3 DEF ReceivePush, ReceiveAffected
    <2>2. ASSUME NEW m \in net, PtsReceived(m) PROVE PollInv'
      <3>1. /\ [pts |-> m.pts, count |-> 0] \in Update
            /\ {} \in SUBSET Update
        BY DEF TypeOK, Message, Update
      <3> QED
        BY <2>2, <3>1, WaiterPoll DEF PollInv, PtsReceived
    <2>3. ASSUME NEW m \in net, ChannelTooLong(m) PROVE PollInv'
      BY <2>3 DEF PollInv, Inited, ChannelTooLong, MayRequest,
                  RequestDifference
    <2>4. ASSUME NEW m \in net, DifferenceDone(m) PROVE PollInv'
      <3>1. m.pts \in Nat /\ m.pts > 0
        BY <2>4 DEF TypeOK, Message, PollInv, DifferenceDone
      <3>2. Inited' /\ good' <= last'
        BY <2>4, <3>1 DEF DifferenceDone, InitTo, Inited
      <3> QED
        BY <2>4, <3>2
           DEF TypeOK, PollInv, DifferenceDone, AfterFinal, AfterSlice
    <2>5. CASE GetDifferenceByPts \/ GetDifferenceAfterFail
      BY <2>5 DEF PollInv, Inited, GetDifferenceByPts,
                  GetDifferenceAfterFail, MayRequest, RequestDifference
    <2>6. CASE DifferenceFail \/ Open \/ Close \/ StopShortPoll
      BY <2>6 DEF PollInv, Inited, DifferenceFail, Open, Close,
                  StopShortPoll, waiterVars
    <2> QED
      BY <1>2, <2>1, <2>2, <2>3, <2>4, <2>5, <2>6 DEF Client
  <1>3. CASE UNCHANGED vars
    BY <1>3 DEF PollInv, Inited, vars, waiterVars
  <1> QED
    BY <1>1, <1>2, <1>3 DEF Next

(* The deadline of an open channel's short poll survives every race of     *)
(* updates, gaps, answers, slices and failures                             *)
(* (Updates::channelDifferenceDone, PtsWaiter::checkForWaiting).           *)
THEOREM PollIsKept == Spec => PollStaysOn
  <1>1. Init /\ Inited => PollInv
    BY PtsAssumption DEF Init, PollInv, Inited
  <1>2. PollInv => (active /\ waitingForShortPoll => requesting \/ whenGetDiff)
    BY DEF PollInv
  <1> QED
    BY <1>1, <1>2, TypeCorrect, NextPollInv, PTL DEF Spec, PollStaysOn
-----------------------------------------------------------------------------
(* Nothing is lost: what the counters say about the log.                   *)

Covered == CoveredBy(applied \cup queue, good, last)

LogInv == Tiled(log) /\ \A u \in log : u.pts <= serverPts

(* What a message on its way may still tell the client.                    *)
Carries(m) == m.type \in {"push", "affected"}

StreamNetInv ==
    /\ \A m \in net : Carries(m) =>
         /\ m.up \in log /\ m.up.pts > 0
         /\ m.up \in applied \cup queue => Known(m.up)
         /\ \A n \in net : Carries(n) /\ n.up = m.up => n = m
    /\ \A m \in net : m.type \in {"pts", "difference"} =>
         m.pts > 0 /\ m.pts <= serverPts /\ Uncut(log, m.pts)
    /\ \A m \in net : m.type = "difference" => good <= m.pts

CountersInv ==
    /\ start <= good /\ good <= last /\ last <= serverPts /\ serverPts > 0
    /\ Inited <=> start > 0
    /\ Uncut(log, good) /\ Uncut(log, last)
    /\ applied \subseteq log
    /\ ~Inited => ~requesting /\ queue = {}
    /\ ~requesting => count <= good + Cardinality(Covered)

HeldInv ==
    \A v \in queue :
        /\ good < v.pts /\ v.pts <= last
        /\ v \in log \ applied
        /\ waitingForSkipped /\ ~requesting

StreamInv ==
    /\ LogInv
    /\ StreamNetInv
    /\ CountersInv
    /\ HeldInv
    /\ NoUpdateLost
-----------------------------------------------------------------------------
(* Handing the waiter an update of the log, or a pts an answer told.       *)

Handed(u, own) ==
    \/ UpdateAndApply(u) /\ own = {u}
    \/ CountAndRelease(u, own)

HasNews(u, own) ==
    /\ u.pts > 0 /\ u.pts <= serverPts /\ Uncut(log, u.pts)
    /\ \/ /\ u \in log /\ own = {u}
          /\ u \in applied \cup queue => Known(u)
       \/ u.count = 0 /\ own = {}

(* What the two calls have in common: how they move updates between "the   *)
(* queue" and "applied" depends on the counters only.                      *)
LEMMA HandedMoves ==
  ASSUME TypeOK, CountersInv, HeldInv, NEW u \in Update, NEW own,
         Handed(u, own)
  PROVE  /\ UNCHANGED requesting
         /\ applied \subseteq applied'
         /\ applied' \cup queue' \subseteq applied \cup queue \cup own
         /\ requesting => UNCHANGED <<good, last, count>> /\ queue' = {}
         /\ ~requesting /\ Known(u) =>
              UNCHANGED <<good, last, count, queue>>
         /\ ~requesting /\ ~Known(u) /\ ~Inited =>
              /\ good' = u.pts /\ last' = u.pts /\ count' = u.pts
              /\ queue' = {}
         /\ ~requesting /\ ~Known(u) /\ Inited =>
              /\ last' = Larger(last, u.pts)
              /\ count' = count + u.count
              /\ good' = IF Complete(u) THEN last' ELSE good
              /\ applied' \cup queue' = applied \cup queue \cup own
              /\ Complete(u) => queue' = {}
  <1>1. requesting => queue = {}
    BY DEF HeldInv
  <1>2. queue # {} => waitingForSkipped
    BY DEF HeldInv
  <1>3. ~Inited => queue = {}
    BY DEF CountersInv
  <1>4. CASE UpdateAndApply(u) /\ own = {u}
    BY <1>1, <1>2, <1>3, <1>4
       DEF TypeOK, UpdateAndApply, ApplyNow, Count, Passes, GapBefore, Inited,
           WaitingAfter, ArmedAfter
  <1>5. CASE CountAndRelease(u, own)
    BY <1>1, <1>2, <1>3, <1>5
       DEF TypeOK, CountAndRelease, Count, Passes, GapBefore, Inited,
           WaitingAfter, ArmedAfter
  <1> QED
    BY <1>4, <1>5 DEF Handed

(* What stays in the queue is still held for a reason.                     *)
LEMMA HandedHolds ==
  ASSUME TypeOK, LogInv, CountersInv, HeldInv, NEW u \in Update, NEW own,
         Handed(u, own), HasNews(u, own), UNCHANGED log
  PROVE  HeldInv'
  <1>1. /\ good \in Nat /\ last \in Nat /\ good <= last
        /\ u.pts \in Nat /\ u.count \in Nat
    BY DEF TypeOK, CountersInv, Update
  <1>2. SUFFICES ASSUME NEW v \in queue'
                 PROVE  /\ good' < v.pts /\ v.pts <= last'
                        /\ v \in log /\ v \notin applied'
                        /\ waitingForSkipped' /\ ~requesting
    BY HandedMoves DEF HeldInv
  <1>3. v \in log /\ v \in Update /\ v.pts \in Nat
    <2>1. v \in applied \cup queue \cup own
      BY <1>2, HandedMoves
    <2>2. v \in log
      BY <2>1 DEF HeldInv, CountersInv, HasNews
    <2> QED
      BY <2>2 DEF TypeOK, Update
  <1>4. ~requesting /\ (Inited \/ Known(u))
    BY <1>2, HandedMoves
  <1>5. CASE Known(u)
    <2>1. /\ v \in queue /\ UNCHANGED <<good, last, queue>>
          /\ applied' \subseteq applied \cup {u}
          /\ UNCHANGED waitingForSkipped
      <3>1. own \subseteq {u}
        BY DEF HasNews
      <3>2. ~Passes(u) /\ ~GapBefore(u)
        BY <1>4, <1>5 DEF Passes, GapBefore
      <3>3. UNCHANGED <<good, last, queue>>
        BY <1>4, <1>5, HandedMoves
      <3>4. CASE UpdateAndApply(u)
        BY <1>2, <3>2, <3>3, <3>4 DEF UpdateAndApply
      <3>5. CASE CountAndRelease(u, own)
        BY <1>2, <3>1, <3>2, <3>3, <3>5
           DEF CountAndRelease, WaitingAfter, TypeOK
      <3> QED
        BY <3>4, <3>5 DEF Handed
    <2>2. v # u
      BY <1>1, <1>5, <2>1 DEF Known, HeldInv
    <2> QED
      BY <1>3, <1>4, <2>1, <2>2 DEF HeldInv
  <1>6. CASE ~Known(u)
    <2>1. /\ ~Complete(u) /\ good' = good /\ last' = Larger(last, u.pts)
          /\ Inited
      BY <1>2, <1>4, <1>6, HandedMoves
    <2>2. GapBefore(u)
      BY <1>4, <1>6, <2>1 DEF GapBefore
    <2>3. waitingForSkipped' /\ applied' \cap queue' = {}
      <3>1. \/ own = {u} /\ u \notin applied \cup queue
            \/ own = {}
        BY <1>6 DEF HasNews
      <3>2. CASE UpdateAndApply(u) /\ own = {u}
        <4>1. u \notin applied \cup queue
          BY <3>1, <3>2
        <4> QED
          BY <1>2, <2>2, <3>2, <4>1
             DEF UpdateAndApply, ApplyNow, WaitingAfter, HeldInv
      <3>3. CASE CountAndRelease(u, own)
        BY <1>2, <2>2, <3>1, <3>3 DEF CountAndRelease, WaitingAfter, HeldInv
      <3> QED
        BY <3>2, <3>3 DEF Handed
    <2>4. CASE v = u /\ v \notin queue
      <3>1. u.count > 0
        <4>1. CASE UpdateAndApply(u)
          BY <1>1, <1>2, <1>4, <1>6, <2>2, <2>4, <4>1
             DEF UpdateAndApply, ApplyNow, Passes
        <4>2. CASE CountAndRelease(u, own)
          BY <1>2, <2>4, <4>2 DEF CountAndRelease
        <4> QED
          BY <4>1, <4>2 DEF Handed
      <3> QED
        BY <1>1, <1>3, <1>2, <1>4, <1>6, <2>1, <2>3, <2>4, <3>1
           DEF Known, Larger
    <2>5. CASE v \in queue
      BY <1>1, <1>2, <1>3, <1>4, <2>1, <2>3, <2>5 DEF HeldInv, Larger
    <2>6. v \in queue \cup {u}
      <3>1. CASE UpdateAndApply(u)
        BY <1>2, <3>1 DEF UpdateAndApply, ApplyNow
      <3>2. CASE CountAndRelease(u, own)
        BY <1>2, <3>2 DEF CountAndRelease
      <3> QED
        BY <3>1, <3>2 DEF Handed
    <2> QED
      BY <2>4, <2>5, <2>6
  <1> QED
    BY <1>5, <1>6
-----------------------------------------------------------------------------
(* Counting what is covered.                                               *)

(* What is covered once u is heard too.                                    *)
CoveredWith(u, own) ==
    CoveredBy(applied \cup queue \cup own, good, Larger(last, u.pts))

(* What is covered lies between the counter and the largest pts heard.     *)
LEMMA CoveredSize ==
  ASSUME TypeOK, good <= last
  PROVE  /\ Cardinality(Covered) \in Nat
         /\ Cardinality(Covered) <= last - good
  <1>1. good \in Nat /\ last \in Nat
    BY DEF TypeOK
  <1> QED
    BY <1>1, CoveredBound DEF Covered

(* An update that is new covers "count" points more, a pts told none less. *)
LEMMA Hearing ==
  ASSUME TypeOK, LogInv, CountersInv, HeldInv, NEW u \in Update, NEW own,
         HasNews(u, own), ~Known(u)
  PROVE  /\ Cardinality(CoveredWith(u, own)) \in Nat
         /\ Cardinality(Covered) + u.count
              <= Cardinality(CoveredWith(u, own))
         /\ Cardinality(CoveredWith(u, own)) <= Larger(last, u.pts) - good
  <1> DEFINE top == Larger(last, u.pts)
             S == applied \cup queue
  <1>1. /\ u.pts \in Nat /\ u.count \in Nat
        /\ good \in Nat /\ last \in Nat /\ good <= last
    BY DEF TypeOK, Update, CountersInv
  <1>2. top \in Nat /\ last <= top /\ u.pts <= top /\ good <= top
    BY <1>1 DEF Larger
  <1>3. S \subseteq log
    BY DEF CountersInv, HeldInv
  <1> HIDE DEF top
  <1>4. Cardinality(Covered) + u.count
          <= Cardinality(CoveredBy(S \cup own, good, top))
    <2>1. CASE u \in log /\ own = {u}
      <3>1. u \notin S
        BY <1>1, <2>1 DEF HasNews
      <3>2. u.count = 0 \/ good <= u.pts - u.count
        BY <1>1, <2>1 DEF Known, CountersInv, Uncut
      <3> HIDE DEF S
      <3>3. Tiled(log)
        BY DEF LogInv
      <3>4. Cardinality(CoveredBy(S, good, last)) + u.count
              <= Cardinality(CoveredBy(S \cup {u}, good, top))
        BY <1>1, <1>2, <1>3, <2>1, <3>1, <3>2, <3>3, CoveredGrows
      <3> QED
        BY <2>1, <3>4 DEF Covered, S
    <2>2. CASE u.count = 0 /\ own = {}
      <3>1. S \subseteq S \cup own
        OBVIOUS
      <3>2. Cardinality(CoveredBy(S, good, last))
              <= Cardinality(CoveredBy(S \cup own, good, top))
        BY <1>1, <1>2, <3>1, CoveredMonotone
      <3>3. Cardinality(CoveredBy(S, good, last)) \in Nat
        BY <1>1, CoveredBound
      <3> QED
        BY <2>2, <3>2, <3>3 DEF Covered
    <2> QED
      BY <2>1, <2>2 DEF HasNews
  <1>5. /\ Cardinality(CoveredBy(S \cup own, good, top)) \in Nat
        /\ Cardinality(CoveredBy(S \cup own, good, top)) <= top - good
    BY <1>1, <1>2, CoveredBound
  <1> QED
    BY <1>4, <1>5 DEF CoveredWith, top

(* When nothing is missing up to the largest pts heard, every update up to *)
(* it that the client follows is applied, held, or the one just heard.     *)
LEMMA CompleteHasAll ==
  ASSUME TypeOK, LogInv, CountersInv, HeldInv, NoUpdateLost, ~requesting,
         Inited, NEW u \in Update, NEW own, HasNews(u, own), ~Known(u),
         Complete(u),
         NEW w \in log, w.count > 0, start < w.pts,
         w.pts <= Larger(last, u.pts)
  PROVE  w \in applied \cup queue \cup own
  <1> DEFINE top == Larger(last, u.pts)
             S == applied \cup queue \cup own
             n == Cardinality(Covered)
             k == Cardinality(CoveredWith(u, own))
  <1>1. /\ u.pts \in Nat /\ u.count \in Nat /\ w.pts \in Nat
        /\ good \in Nat /\ last \in Nat /\ count \in Nat /\ good <= last
    BY DEF TypeOK, Update, CountersInv
  <1>2. top \in Nat /\ good <= top
    BY <1>1 DEF Larger
  <1>3. /\ n \in Nat /\ count <= good + n /\ top = count + u.count
        /\ k \in Nat /\ n + u.count <= k /\ k <= top - good
    BY <1>1, CoveredSize, Hearing DEF CountersInv, Complete
  <1>4. S \subseteq log
    BY DEF CountersInv, HeldInv, HasNews
  <1> HIDE DEF top, n, k, S
  <1>5. k = top - good
    BY <1>1, <1>2, <1>3
  <1>6. Cardinality(CoveredBy(S, good, top)) = top - good
    BY <1>5 DEF k, S, top, CoveredWith
  <1>7. CASE w.pts <= good
    BY <1>7 DEF NoUpdateLost, CountersInv, S
  <1>8. CASE good < w.pts
    <2>1. w.pts <= top /\ Tiled(log)
      BY DEF top, LogInv
    <2>2. w \in S
      BY <1>1, <1>2, <1>4, <1>6, <1>8, <2>1, CoveredAll
    <2> QED
      BY <2>2 DEF S
  <1> QED
    BY <1>1, <1>7, <1>8

(* Nothing is lost below the counter, and the counters stay consistent.    *)
LEMMA HandedCounts ==
  ASSUME TypeOK, LogInv, CountersInv, HeldInv, NoUpdateLost,
         NEW u \in Update, NEW own, Handed(u, own), HasNews(u, own),
         Follow, UNCHANGED <<log, serverPts>>
  PROVE  CountersInv' /\ NoUpdateLost'
  <1>1. /\ u.pts \in Nat /\ u.count \in Nat /\ u.pts <= serverPts
        /\ 0 < u.pts
        /\ good \in Nat /\ last \in Nat /\ count \in Nat /\ start \in Nat
        /\ serverPts \in Nat /\ good <= last
    BY DEF TypeOK, CountersInv, HasNews, Update
  <1>2. applied' \subseteq log'
    BY HandedMoves DEF CountersInv, HeldInv, HasNews
  <1>3. UNCHANGED requesting
    BY HandedMoves
  <1>4. CASE Known(u) \/ requesting
    <2>1. UNCHANGED <<good, last, count>> /\ applied \subseteq applied'
      BY <1>4, HandedMoves
    <2>2. Inited /\ start > 0 /\ UNCHANGED start
      <3>1. Inited
        BY <1>1, <1>4 DEF Known, CountersInv, Inited
      <3> QED
        BY <1>1, <3>1 DEF CountersInv, Follow
    <2>3. NoUpdateLost'
      BY <2>1, <2>2 DEF NoUpdateLost
    <2>4. ASSUME ~requesting PROVE count' <= good' + Cardinality(Covered')
      <3>1. UNCHANGED queue
        BY <1>4, <2>4, HandedMoves
      <3>2. Covered' = CoveredBy(applied' \cup queue, good, last)
        BY <2>1, <3>1 DEF Covered
      <3>3. applied \cup queue \subseteq applied' \cup queue
        BY <2>1
      <3> DEFINE k == Cardinality(Covered)
                 n == Cardinality(Covered')
      <3>4. k \in Nat /\ n \in Nat /\ k <= n
        BY <1>1, <3>2, <3>3, CoveredBound, CoveredMonotone DEF Covered
      <3>5. count <= good + k
        BY <2>4 DEF CountersInv
      <3> HIDE DEF k, n
      <3>6. count <= good + n
        BY <1>1, <3>4, <3>5
      <3> QED
        BY <2>1, <3>6 DEF n
    <2>5. Inited'
      BY <2>1, <2>2 DEF Inited
    <2> QED
      BY <1>2, <1>3, <2>1, <2>2, <2>3, <2>4, <2>5
         DEF CountersInv, Uncut, Inited
  <1>5. CASE ~requesting /\ ~Known(u) /\ ~Inited
    <2>1. good' = u.pts /\ last' = u.pts /\ count' = u.pts /\ queue' = {}
      BY <1>5, HandedMoves
    <2>2. start' = u.pts
      BY <1>1, <1>5, <2>1 DEF Follow, CountersInv
    <2>3. Inited' /\ start' > 0
      BY <1>1, <2>1, <2>2 DEF Inited
    <2>4. NoUpdateLost'
      <3>1. \A w \in log' : w.pts \in Nat
        BY DEF LogInv, Tiled
      <3> QED
        BY <1>1, <2>1, <2>2, <3>1 DEF NoUpdateLost
    <2>5. count' <= good' + Cardinality(Covered')
      <3>1. Cardinality(Covered') = 0
        BY <1>1, <2>1, CoveredNone DEF Covered
      <3> QED
        BY <1>1, <2>1, <3>1
    <2>6. Uncut(log', good') /\ Uncut(log', last')
      BY <2>1 DEF HasNews
    <2> QED
      BY <1>1, <1>2, <2>1, <2>2, <2>3, <2>4, <2>5, <2>6 DEF CountersInv
  <1>6. CASE ~requesting /\ ~Known(u) /\ Inited
    <2>1. /\ last' = Larger(last, u.pts)
          /\ count' = count + u.count
          /\ good' = IF Complete(u) THEN last' ELSE good
          /\ applied' \cup queue' = applied \cup queue \cup own
          /\ applied \subseteq applied'
          /\ Complete(u) => queue' = {}
      BY <1>6, HandedMoves
    <2>2. start > 0 /\ UNCHANGED start
      BY <1>1, <1>6 DEF CountersInv, Follow
    <2>3. /\ last' \in Nat /\ good <= last' /\ last' <= serverPts
          /\ Uncut(log, last')
      BY <1>1, <2>1 DEF CountersInv, Larger, HasNews
    <2>4. good' \in Nat /\ good <= good' /\ good' <= last'
      BY <1>1, <2>1, <2>3
    <2>5. Inited' /\ start' <= good' /\ Uncut(log', good')
      BY <1>1, <1>6, <2>1, <2>2, <2>3, <2>4 DEF CountersInv, Inited
    <2>6. CASE Complete(u)
      <3>1. applied' = applied \cup queue \cup own /\ good' = last'
        BY <2>1, <2>6
      <3>2. NoUpdateLost'
        BY <1>6, <2>1, <2>2, <2>6, <3>1, CompleteHasAll DEF NoUpdateLost
      <3>3. Cardinality(Covered') = 0
        BY <2>3, <3>1, CoveredNone DEF Covered
      <3>4. count' <= good' + Cardinality(Covered')
        BY <1>1, <2>1, <2>6, <3>1, <3>3 DEF Complete
      <3> QED
        BY <1>2, <2>2, <2>3, <2>4, <2>5, <3>2, <3>4 DEF CountersInv
    <2>7. CASE ~Complete(u)
      <3>1. good' = good
        BY <2>1, <2>7
      <3>2. NoUpdateLost'
        BY <2>1, <2>2, <3>1 DEF NoUpdateLost
      <3>3. Covered' = CoveredWith(u, own)
        BY <2>1, <3>1 DEF Covered, CoveredWith
      <3>4. count' <= good' + Cardinality(Covered')
        <4> DEFINE k == Cardinality(Covered)
                   n == Cardinality(Covered')
        <4>1. n \in Nat /\ k + u.count <= n
          BY <1>6, <3>3, Hearing
        <4>2. k \in Nat /\ count <= good + k
          BY <1>1, <1>6, CoveredSize DEF CountersInv
        <4> HIDE DEF k, n
        <4>3. count + u.count <= good + n
          BY <1>1, <4>1, <4>2
        <4> QED
          BY <2>1, <3>1, <4>3 DEF n
      <3> QED
        BY <1>2, <2>2, <2>3, <2>4, <2>5, <3>2, <3>4 DEF CountersInv
    <2> QED
      BY <2>6, <2>7
  <1> QED
    BY <1>4, <1>5, <1>6
-----------------------------------------------------------------------------
(* The invariant, step by step.                                            *)

(* A channel that is loaded, or not loaded yet, establishes the invariant. *)
LEMMA InitStreamInv == Init => StreamInv
  <1> SUFFICES ASSUME Init PROVE StreamInv
    OBVIOUS
  <1>1. StartPts \in Nat /\ StartPts > 0 /\ start \in Nat
    BY PtsAssumption DEF Init
  <1>2. LogInv /\ StreamNetInv /\ HeldInv /\ NoUpdateLost
    BY DEF Init, LogInv, Tiled, StreamNetInv, HeldInv, NoUpdateLost
  <1>3. Cardinality(Covered) = 0
    BY <1>1, CoveredNone DEF Init, Covered
  <1>4. CountersInv
    BY <1>1, <1>3 DEF Init, CountersInv, Uncut, Inited
  <1> QED
    BY <1>2, <1>4 DEF StreamInv

(* Steps that leave the counters alone.                                    *)
LEMMA Quiet ==
  ASSUME StreamInv,
         UNCHANGED <<good, last, count, queue, requesting, waitingForSkipped,
                     applied, start, serverPts, log>>
  PROVE  LogInv' /\ CountersInv' /\ HeldInv' /\ NoUpdateLost'
  <1>1. Covered' = Covered
    BY DEF Covered
  <1> QED
    BY <1>1 DEF StreamInv, LogInv, CountersInv, HeldInv, NoUpdateLost, Inited

(* A difference is asked for: what was held is dropped.                    *)
LEMMA Asking ==
  ASSUME StreamInv, UNCHANGED <<good, last, applied, start, serverPts, log>>,
         Inited, requesting', queue' = {}
  PROVE  LogInv' /\ CountersInv' /\ HeldInv' /\ NoUpdateLost'
  BY DEF StreamInv, LogInv, CountersInv, HeldInv, NoUpdateLost, Inited

(* Messages taken away, and updates dropped, leave the rest consistent.    *)
LEMMA NetShrinks ==
  ASSUME StreamInv, net' \subseteq net,
         applied' \cup queue' \subseteq applied \cup queue,
         UNCHANGED <<good, serverPts, log>>
  PROVE  StreamNetInv'
  <1>1. \A u \in log : Known(u) => Known(u)'
    BY DEF Known
  <1>2. \A m \in net' : Carries(m) =>
         /\ m.up \in log' /\ m.up.pts > 0
         /\ m.up \in applied' \cup queue' => Known(m.up)'
         /\ \A n \in net' : Carries(n) /\ n.up = m.up => n = m
    BY <1>1 DEF StreamInv, StreamNetInv
  <1>3. \A m \in net' : m.type \in {"pts", "difference"} =>
         m.pts > 0 /\ m.pts <= serverPts' /\ Uncut(log', m.pts)
    BY DEF StreamInv, StreamNetInv
  <1>4. \A m \in net' : m.type = "difference" => good' <= m.pts
    BY DEF StreamInv, StreamNetInv
  <1> QED
    BY <1>2, <1>3, <1>4 DEF StreamNetInv, Carries, Known

(* A new update of the server keeps the invariant: it is above all others. *)
LEMMA PublishInv ==
  ASSUME TypeOK, StreamInv, NEW c \in Counts, NEW news \in News,
         Publish(c, news)
  PROVE  StreamInv'
  <1>0. PICK u : u = [pts |-> serverPts + c, count |-> c]
    OBVIOUS
  <1> DEFINE msg == [type |-> news, up |-> u, pts |-> u.pts]
  <1>1. /\ u \in Update /\ u.pts = serverPts + c /\ u.count = c
        /\ c \in Nat /\ serverPts \in Nat /\ serverPts > 0
        /\ good \in Nat /\ last \in Nat
        /\ good <= last /\ last <= serverPts
    BY <1>0, CountsAssumption DEF TypeOK, Update, StreamInv, CountersInv
  <1>2. /\ u \notin log /\ serverPts' = u.pts /\ log' = log \cup {u}
        /\ UNCHANGED <<waiterVars, start>>
    BY <1>0 DEF Publish
  <1>3. \A w \in log : w.pts \in Nat /\ w.count \in Nat /\ w.pts <= serverPts
    BY DEF StreamInv, LogInv, Tiled
  <1>4. ASSUME NEW p \in Nat, Uncut(log, p), p <= serverPts
        PROVE  Uncut(log', p)
    BY <1>1, <1>2, <1>4 DEF Uncut
  <1>5. LogInv'
    <2>1. \A w \in log' : w.pts <= serverPts'
      BY <1>1, <1>2, <1>3
    <2>2. \A w \in log : Uncut(log', w.pts)
      BY <1>3, <1>4 DEF StreamInv, LogInv, Tiled
    <2>3. Uncut(log', u.pts)
      BY <1>1, <1>2, <1>3 DEF Uncut
    <2>4. \A w \in log' : w.pts \in Nat /\ w.count \in Nat
      BY <1>1, <1>2, <1>3
    <2>5. \A v, w \in log' :
            v.count > 0 /\ w.count > 0 /\ v.pts = w.pts => v = w
      <3>1. \A w \in log : ~(u.count > 0 /\ w.pts = u.pts)
        BY <1>1, <1>3
      <3> QED
        BY <1>2, <3>1 DEF StreamInv, LogInv, Tiled
    <2>6. \A w \in log' : Uncut(log', w.pts)
      BY <1>2, <2>2, <2>3
    <2> QED
      BY <2>1, <2>4, <2>5, <2>6 DEF LogInv, Tiled
  <1>6. StreamNetInv'
    <2>1. \A m \in net' : m \in net \/ m = msg
                             \/ m = [type |-> "tooLong", pts |-> u.pts]
      BY <1>0 DEF Publish, News
    <2>2. /\ \A m \in net' : Carries(m) => m \in net \/ m = msg
          /\ \A m \in net' : m.type \in {"pts", "difference"} => m \in net
      BY <2>1 DEF Carries, News
    <2>3. u \notin applied \cup queue
      BY <1>2 DEF StreamInv, CountersInv, HeldInv
    <2>4. \A m \in net : Carries(m) => m.up \in log
      BY DEF StreamInv, StreamNetInv
    <2>5. msg.up = u
      OBVIOUS
    <2>6. UNCHANGED <<good, applied, queue>>
      BY <1>2 DEF waiterVars
    <2> HIDE DEF msg
    <2>7. \A m \in net' : Carries(m) =>
           /\ m.up \in log' /\ m.up.pts > 0
           /\ m.up \in applied \cup queue => Known(m.up)
           /\ \A n \in net' : Carries(n) /\ n.up = m.up => n = m
      <3>1. u.pts > 0
        BY <1>1
      <3> QED
        BY <1>2, <2>2, <2>3, <2>4, <2>5, <3>1 DEF StreamInv, StreamNetInv
    <2>8. \A m \in net' : m.type \in {"pts", "difference"} =>
           m.pts > 0 /\ m.pts <= serverPts' /\ Uncut(log', m.pts)
      <3> SUFFICES ASSUME NEW m \in net, m.type \in {"pts", "difference"}
                   PROVE  /\ m.pts > 0 /\ m.pts <= serverPts'
                          /\ Uncut(log', m.pts)
        BY <2>2
      <3>1. m.pts \in Nat
        BY DEF TypeOK, Message
      <3>2. m.pts > 0 /\ m.pts <= serverPts /\ Uncut(log, m.pts)
        BY DEF StreamInv, StreamNetInv
      <3> QED
        BY <1>1, <1>2, <1>4, <3>1, <3>2
    <2>9. \A m \in net' : m.type = "difference" => good <= m.pts
      BY <2>2 DEF StreamInv, StreamNetInv
    <2> QED
      BY <2>6, <2>7, <2>8, <2>9 DEF StreamNetInv, Carries, Known
  <1>7. CountersInv'
    <2>1. UNCHANGED <<good, last, count, applied, queue, requesting>>
      BY <1>2 DEF waiterVars
    <2>2. Covered' = Covered
      BY <2>1 DEF Covered
    <2>3. last <= serverPts' /\ serverPts' > 0
      BY <1>1, <1>2
    <2>4. Uncut(log', good) /\ Uncut(log', last)
      BY <1>1, <1>4 DEF StreamInv, CountersInv
    <2> QED
      BY <1>2, <2>1, <2>2, <2>3, <2>4 DEF StreamInv, CountersInv, Inited
  <1>8. HeldInv'
    BY <1>2 DEF StreamInv, HeldInv, waiterVars
  <1>9. NoUpdateLost'
    <2>1. ~(u.count > 0 /\ u.pts <= good)
      BY <1>1
    <2> QED
      BY <1>2, <2>1 DEF StreamInv, NoUpdateLost, waiterVars
  <1> QED
    BY <1>5, <1>6, <1>7, <1>8, <1>9 DEF StreamInv

(* The pts of a state of the server, told or reached by an answer, cuts no *)
(* update in two.                                                          *)
LEMMA TellInv ==
  ASSUME TypeOK, StreamInv,
         TellPts \/ \E pts \in 1 .. MaxPts : Answer(pts)
  PROVE  StreamInv'
  <1>1. UNCHANGED <<waiterVars, start, serverPts, log>>
    BY DEF TellPts, Answer
  <1>2. /\ good \in Nat /\ last \in Nat /\ serverPts \in Nat
        /\ good <= serverPts /\ serverPts > 0 /\ Uncut(log, serverPts)
    BY DEF TypeOK, StreamInv, CountersInv, LogInv, Uncut
  <1>3. \A m \in net' \ net :
          /\ ~Carries(m) /\ m.pts > 0 /\ m.pts <= serverPts
          /\ Uncut(log, m.pts) /\ good <= m.pts
    <2>1. CASE TellPts
      BY <1>2, <2>1 DEF TellPts, Carries
    <2>2. ASSUME NEW pts \in 1 .. MaxPts, Answer(pts)
          PROVE  \A m \in net' \ net :
                   /\ ~Carries(m) /\ m.pts > 0 /\ m.pts <= serverPts
                   /\ Uncut(log, m.pts) /\ good <= m.pts
      <3>1. pts \in Nat /\ pts > 0
        BY PtsAssumption
      <3>2. good <= pts /\ pts <= serverPts /\ Uncut(log, pts)
        BY <1>2, <2>2, <3>1 DEF Answer, StreamInv, LogInv, Tiled
      <3>3. \A m \in net' \ net : m.type = "difference" /\ m.pts = pts
        BY <2>2 DEF Answer
      <3> QED
        BY <3>1, <3>2, <3>3 DEF Carries
    <2> QED
      BY <2>1, <2>2
  <1>4. StreamNetInv'
    <2>1. UNCHANGED <<good, applied, queue, log, serverPts>>
      BY <1>1 DEF waiterVars
    <2> QED
      BY <1>3, <2>1 DEF StreamInv, StreamNetInv, Carries, Known
  <1>5. LogInv' /\ CountersInv' /\ HeldInv' /\ NoUpdateLost'
    BY <1>1, Quiet DEF waiterVars
  <1> QED
    BY <1>4, <1>5 DEF StreamInv

(* An update, or a pts, that the client has received.                      *)
LEMMA HandInv ==
  ASSUME TypeOK, RetryInv, StreamInv, NEW u \in Update, NEW own,
         Handed(u, own), HasNews(u, own), Follow,
         net' \subseteq net, UNCHANGED <<serverPts, log, difference>>,
         \A m \in net' : Carries(m) => m.up \notin own
  PROVE  StreamInv'
  <1>1. CountersInv' /\ NoUpdateLost' /\ HeldInv'
    BY HandedCounts, HandedHolds DEF StreamInv
  <1>2. LogInv'
    BY DEF StreamInv, LogInv
  <1>3. applied' \cup queue' \subseteq applied \cup queue \cup own
    BY HandedMoves DEF StreamInv
  <1>4. good <= good' /\ good \in Nat /\ good' \in Nat
    <2>1. /\ good \in Nat /\ last \in Nat /\ good <= last
          /\ u.pts \in Nat /\ u.count \in Nat
      BY DEF TypeOK, StreamInv, CountersInv, Update
    <2>2. \/ good' = good
          \/ good' = Larger(last, u.pts)
          \/ ~Inited /\ good' = u.pts
      <3>1. CASE requesting \/ Known(u)
        BY <3>1, HandedMoves DEF StreamInv
      <3>2. CASE ~requesting /\ ~Known(u) /\ Inited
        BY <3>2, HandedMoves DEF StreamInv
      <3>3. CASE ~requesting /\ ~Known(u) /\ ~Inited
        BY <3>3, HandedMoves DEF StreamInv
      <3> QED
        BY <3>1, <3>2, <3>3
    <2> QED
      BY <2>1, <2>2 DEF Larger, Inited
  <1>5. StreamNetInv'
    <2>1. \A w \in log : Known(w) => Known(w)'
      <3>1. \A w \in log : w.pts \in Nat
        BY DEF StreamInv, LogInv, Tiled
      <3> QED
        BY <1>4, <3>1 DEF Known
    <2>2. \A m \in net' : Carries(m) =>
           /\ m.up \in log' /\ m.up.pts > 0
           /\ m.up \in applied' \cup queue' => Known(m.up)'
           /\ \A n \in net' : Carries(n) /\ n.up = m.up => n = m
      BY <1>3, <2>1 DEF StreamInv, StreamNetInv
    <2>3. \A m \in net' : m.type \in {"pts", "difference"} =>
           m.pts > 0 /\ m.pts <= serverPts' /\ Uncut(log', m.pts)
      BY DEF StreamInv, StreamNetInv
    <2>4. \A m \in net' : m.type = "difference" => good' <= m.pts
      <3> SUFFICES ASSUME NEW m \in net', m.type = "difference"
                   PROVE  good' <= m.pts
        OBVIOUS
      <3>1. requesting
        BY DEF RetryInv, RetryNeverOverlaps, OneAnswer
      <3>2. good' = good
        BY <3>1, HandedMoves DEF StreamInv
      <3> QED
        BY <3>2 DEF StreamInv, StreamNetInv
    <2> QED
      BY <2>2, <2>3, <2>4 DEF StreamNetInv, Carries, Known
  <1> QED
    BY <1>1, <1>2, <1>5 DEF StreamInv

(* feedUpdate, applyAffectedHistory and ptsReceived keep the invariant.    *)
LEMMA ReceiveInv ==
  ASSUME TypeOK, RetryInv, StreamInv, NEW m \in net,
         ReceivePush(m) \/ ReceiveAffected(m) \/ PtsReceived(m)
  PROVE  StreamInv'
  <1>1. net' = net \ {m} /\ UNCHANGED <<serverPts, log, difference>>
    BY DEF ReceivePush, ReceiveAffected, PtsReceived
  <1>2. CASE UNCHANGED <<waiterVars, start>>
    <2>1. StreamNetInv'
      BY <1>1, <1>2, NetShrinks DEF waiterVars
    <2> QED
      BY <1>1, <1>2, <2>1, Quiet DEF StreamInv, waiterVars
  <1>3. CASE /\ Carries(m) /\ Follow
             /\ UpdateAndApply(m.up) \/ CountAndRelease(m.up, {m.up})
    <2>1. m.up \in Update /\ m.up \in log
      BY <1>3 DEF StreamInv, StreamNetInv, TypeOK
    <2>2. Handed(m.up, {m.up})
      BY <1>3 DEF Handed
    <2>3. HasNews(m.up, {m.up})
      BY <1>3, <2>1 DEF HasNews, StreamInv, StreamNetInv, LogInv, Tiled
    <2>4. \A n \in net' : Carries(n) => n.up \notin {m.up}
      BY <1>1, <1>3 DEF StreamInv, StreamNetInv
    <2> QED
      BY <1>1, <1>3, <2>1, <2>2, <2>3, <2>4, HandInv
  <1>4. CASE PtsReceived(m)
    <2> DEFINE u == [pts |-> m.pts, count |-> 0]
    <2>1. m.type = "pts" /\ CountAndRelease(u, {}) /\ Follow
      BY <1>4 DEF PtsReceived
    <2>2. u \in Update
      BY DEF TypeOK, Message, Update
    <2>3. HasNews(u, {}) /\ Handed(u, {})
      BY <2>1 DEF HasNews, Handed, StreamInv, StreamNetInv
    <2> HIDE DEF u
    <2> QED
      BY <1>1, <2>1, <2>2, <2>3, HandInv
  <1> QED
    BY <1>2, <1>3, <1>4 DEF ReceivePush, ReceiveAffected, Carries

(* Every handler that may ask for a difference keeps the invariant.        *)
LEMMA AskInv ==
  ASSUME TypeOK, StreamInv,
         \/ \E m \in net : ChannelTooLong(m)
         \/ GetDifferenceByPts
         \/ GetDifferenceAfterFail
  PROVE  StreamInv'
  <1>1. /\ UNCHANGED <<good, last, count, waitingForSkipped, applied, start,
                       serverPts, log>>
        /\ net' \subseteq net
        /\ \/ MayRequest /\ RequestDifference
           \/ UNCHANGED <<requesting, queue>>
    BY DEF ChannelTooLong, GetDifferenceByPts, GetDifferenceAfterFail
  <1>2. CASE MayRequest /\ RequestDifference
    <2>1. Inited /\ requesting' /\ queue' = {}
      BY <1>2 DEF MayRequest, RequestDifference
    <2>2. StreamNetInv'
      BY <1>1, <2>1, NetShrinks
    <2> QED
      BY <1>1, <2>1, <2>2, Asking DEF StreamInv
  <1>3. CASE UNCHANGED <<requesting, queue>>
    <2>1. StreamNetInv'
      BY <1>1, <1>3, NetShrinks
    <2> QED
      BY <1>1, <1>3, <2>1, Quiet DEF StreamInv
  <1> QED
    BY <1>1, <1>2, <1>3

(* A difference: everything up to its pts is applied.                      *)
LEMMA DoneInv ==
  ASSUME TypeOK, RetryInv, StreamInv, NEW m \in net, DifferenceDone(m)
  PROVE  StreamInv'
  <1>1. /\ m.type = "difference" /\ requesting /\ Inited
        /\ m.pts \in Nat /\ m.pts > 0 /\ m.pts <= serverPts
        /\ Uncut(log, m.pts) /\ good <= m.pts /\ start <= good
        /\ good \in Nat /\ start \in Nat /\ start > 0
    BY DEF DifferenceDone, RetryInv, RetryNeverOverlaps, OneAnswer, StreamInv,
           StreamNetInv, CountersInv, TypeOK, Message
  <1>2. /\ good' = m.pts /\ last' = m.pts /\ count' = m.pts /\ queue' = {}
        /\ applied' = applied \cup
             {u \in log : u.count > 0 /\ good < u.pts /\ u.pts <= m.pts}
        /\ net' = net \ {m}
        /\ UNCHANGED <<start, log, serverPts>>
    BY DEF DifferenceDone, InitTo
  <1>3. \A n \in net' : n.type # "difference"
    BY <1>1, <1>2 DEF RetryInv, OneAnswer
  <1>4. \A u \in log : u.pts \in Nat
    BY DEF StreamInv, LogInv, Tiled
  <1>5. LogInv' /\ HeldInv'
    BY <1>2 DEF StreamInv, LogInv, HeldInv
  <1>6. NoUpdateLost'
    BY <1>1, <1>2, <1>4 DEF StreamInv, NoUpdateLost
  <1>7. CountersInv'
    <2>1. Cardinality(Covered') = 0
      BY <1>1, <1>2, CoveredNone DEF Covered
    <2>2. count' <= good' + Cardinality(Covered')
      BY <1>1, <1>2, <2>1
    <2>3. Inited' /\ start' <= good'
      BY <1>1, <1>2 DEF Inited
    <2> QED
      BY <1>1, <1>2, <2>2, <2>3 DEF StreamInv, CountersInv
  <1>8. StreamNetInv'
    <2>1. \A u \in log : Known(u) => Known(u)'
      BY <1>1, <1>2, <1>4 DEF Known
    <2>2. \A u \in log : u \in applied' \cup queue' =>
            u \in applied \/ Known(u)'
      BY <1>2 DEF Known
    <2>3. \A n \in net' : Carries(n) =>
           /\ n.up \in log' /\ n.up.pts > 0
           /\ n.up \in applied' \cup queue' => Known(n.up)'
           /\ \A k \in net' : Carries(k) /\ k.up = n.up => k = n
      BY <1>2, <2>1, <2>2 DEF StreamInv, StreamNetInv
    <2>4. \A n \in net' : n.type \in {"pts", "difference"} =>
           n.pts > 0 /\ n.pts <= serverPts' /\ Uncut(log', n.pts)
      BY <1>2 DEF StreamInv, StreamNetInv
    <2> QED
      BY <1>3, <2>3, <2>4 DEF StreamNetInv, Carries, Known
  <1> QED
    BY <1>5, <1>6, <1>7, <1>8 DEF StreamInv

(* Every step of the stream, the server and the network keeps the          *)
(* invariant.                                                              *)
LEMMA NextStreamInv ==
  TypeOK /\ RetryInv /\ StreamInv /\ [Next]_vars => StreamInv'
  <1> SUFFICES ASSUME TypeOK, RetryInv, StreamInv, [Next]_vars
               PROVE  StreamInv'
    OBVIOUS
  <1>1. CASE Server
    BY <1>1, PublishInv, TellInv DEF Server
  <1>2. CASE Client
    <2>1. CASE DifferenceFail \/ Open \/ Close \/ StopShortPoll
      <3>1. UNCHANGED <<good, last, count, queue, requesting, applied, start,
                        waitingForSkipped, serverPts, log, net>>
        BY <2>1 DEF DifferenceFail, Open, Close, StopShortPoll, waiterVars
      <3> QED
        BY <3>1, Quiet, NetShrinks DEF StreamInv
    <2> QED
      BY <1>2, <2>1, ReceiveInv, AskInv, DoneInv DEF Client
  <1>3. CASE UNCHANGED vars
    <2>1. UNCHANGED <<good, last, count, queue, requesting, applied, start,
                      waitingForSkipped, serverPts, log, net>>
      BY <1>3 DEF vars, waiterVars
    <2> QED
      BY <2>1, Quiet, NetShrinks DEF StreamInv
  <1> QED
    BY <1>1, <1>2, <1>3 DEF Next

(* From where the client began to follow the channel, an update below its  *)
(* counter has been applied, whatever was pushed, answered, told,          *)
(* reordered, dropped while a difference was asked for, or fetched in      *)
(* slices (PtsWaiter::updated, Updates::channelDifferenceDone).            *)
THEOREM NothingIsLost == Spec => []NoUpdateLost
  <1>1. Init => RetryInv
    BY DEF Init, RetryInv, RetryNeverOverlaps, OneAnswer
  <1>2. StreamInv => NoUpdateLost
    BY DEF StreamInv
  <1> QED
    BY <1>1, <1>2, TypeCorrect, NextRetryInv, InitStreamInv, NextStreamInv,
       PTL DEF Spec
=============================================================================
