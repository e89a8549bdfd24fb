------------------------ MODULE CommonUpdates_proofs ------------------------
(***************************************************************************)
(* Proofs about CommonUpdates, for every set of counts and every MaxPts:   *)
(* no update is lost below the counter, gaps are waited for, updates take  *)
(* effect in order, and the client implements SyncedLog.                   *)
(***************************************************************************)
EXTENDS CommonUpdates, PtsCover_proofs

(* The initial state has the types of the variables.                       *)
LEMMA InitTypeOK == Init => TypeOK
  <1>1. 0 \in Nat /\ StartPts \in Nat
    BY PtsAssumption
  <1> QED
    BY <1>1, Zenon DEF Init, TypeOK

(* Counting an update keeps the counters natural numbers.                  *)
LEMMA CountType ==
  ASSUME TypeOK, NEW u \in Update, Count(u)
  PROVE  good' \in Nat /\ last' \in Nat /\ count' \in Nat
  BY DEF TypeOK, Count, Larger, Complete, Update

(* An answer is a message.                                                 *)
LEMMA AnswerType ==
  ASSUME NEW p \in Nat, NEW f \in BOOLEAN
  PROVE  [type |-> "difference", pts |-> p, final |-> f] \in Message
  BY DEF Message

(* Both ways to hand an update to the waiter keep the types.               *)
LEMMA WaiterType ==
  ASSUME TypeOK, NEW u \in Update, NEW own \in SUBSET Update,
         UpdateAndApply(u) \/ CountAndRelease(u, own)
  PROVE  /\ good' \in Nat /\ last' \in Nat /\ count' \in Nat
         /\ queue' \subseteq Update
         /\ requesting' \in BOOLEAN
         /\ waitingForSkipped' \in BOOLEAN
         /\ waitingForShortPoll' \in BOOLEAN
         /\ whenGetDiff' \in BOOLEAN
         /\ applied' \subseteq Update
  <1>1. GapBefore(u) \in BOOLEAN
    BY DEF GapBefore
  <1>2. good' \in Nat /\ last' \in Nat /\ count' \in Nat
    BY CountType DEF UpdateAndApply, CountAndRelease
  <1>3. CASE UpdateAndApply(u)
    BY <1>1, <1>2, <1>3
       DEF TypeOK, UpdateAndApply, ApplyNow, WaitingAfter, ArmedAfter
  <1>4. CASE CountAndRelease(u, own)
    BY <1>1, <1>2, <1>4 DEF TypeOK, CountAndRelease, WaitingAfter, ArmedAfter
  <1> QED
    BY <1>3, <1>4

(* Every step keeps the types of the variables.                            *)
LEMMA NextTypeOK == TypeOK /\ [Next]_vars => TypeOK'
  <1> SUFFICES ASSUME TypeOK, [Next]_vars PROVE TypeOK'
    OBVIOUS
  <1>1. CASE Server
    <2>1. ASSUME NEW c \in Counts, NEW by \in Sources, Publish(c, by)
          PROVE  TypeOK'
      BY <2>1, CountsAssumption DEF TypeOK, Publish, waiterVars, Update, Message
    <2>2. ASSUME NEW m \in net, NEW n \in net, Group(m, n) PROVE TypeOK'
      BY <2>2 DEF TypeOK, Group, waiterVars, Message, Sources
    <2>3. ASSUME NEW m \in net, TooLong(m) \/ DropResult(m) PROVE TypeOK'
      BY <2>3 DEF TypeOK, TooLong, DropResult, waiterVars, Message
    <2>4. ASSUME NEW pts \in 1 .. MaxPts, Answer(pts) PROVE TypeOK'
      <3>1. pts \in Nat /\ (pts = serverPts) \in BOOLEAN
        BY PtsAssumption
      <3>2. [type |-> "difference", pts |-> pts, final |-> pts = serverPts]
              \in Message
        BY <3>1, AnswerType
      <3> QED
        BY <2>4, <3>2 DEF TypeOK, Answer, waiterVars
    <2> QED
      BY <1>1, <2>1, <2>2, <2>3, <2>4 DEF Server
  <1>2. CASE Client
    <2>1. ASSUME NEW m \in net, Receive(m) PROVE TypeOK'
      BY <2>1 DEF TypeOK, Receive, waiterVars, Message
    <2>2. ASSUME NEW m \in net, ReceiveTooLong(m) PROVE TypeOK'
      BY <2>2 DEF TypeOK, ReceiveTooLong, GetDifference, waiterVars
    <2>3. ASSUME NEW m \in net, NEW u \in log, ReceiveAffected(m, u)
          PROVE  TypeOK'
      <3>1. u \in Update /\ {u} \in SUBSET Update
        BY DEF TypeOK
      <3> QED
        BY <2>3, <3>1, WaiterType DEF TypeOK, ReceiveAffected
    <2>4. ASSUME NEW m \in net, DifferenceDone(m) \/ DifferenceSlice(m)
          PROVE  TypeOK'
      <3>1. m.pts \in Nat
        BY <2>4 DEF TypeOK, DifferenceDone, DifferenceSlice, Message
      <3> QED
        BY <2>4, <3>1
           DEF TypeOK, DifferenceDone, DifferenceSlice, Merge, InitTo
    <2>5. ASSUME NEW u \in feeding, FeedUpdate(u) PROVE TypeOK'
      <3>1. u \in Update
        BY DEF TypeOK
      <3> QED
        BY <2>5, <3>1, WaiterType DEF TypeOK, FeedUpdate
    <2>6. ASSUME NEW u \in feeding, FeedNotLoaded(u) PROVE TypeOK'
      BY <2>6 DEF TypeOK, FeedNotLoaded, GetDifference
    <2>7. CASE NewSession
      BY <2>7 DEF TypeOK, NewSession, GetDifference
    <2>8. CASE GetDifferenceByPts \/ MinChannelTimer
      BY <2>8 DEF TypeOK, GetDifferenceByPts, MinChannelTimer, GetDifference
    <2>9. CASE DifferenceFail \/ GetDifferenceAfterFail
      BY <2>9 DEF TypeOK, DifferenceFail, GetDifferenceAfterFail, waiterVars
    <2> QED
      BY <1>2, <2>1, <2>2, <2>3, <2>4, <2>5, <2>6, <2>7, <2>8, <2>9
         DEF Client
  <1>3. CASE UNCHANGED vars
    BY <1>3 DEF TypeOK, vars, waiterVars
  <1> QED
    BY <1>1, <1>2, <1>3 DEF Next

(* Type correctness: the counters stay natural numbers, the client only    *)
(* ever handles updates of the log's type (PtsWaiter, Api::Updates).       *)
THEOREM TypeCorrect == Spec => []TypeOK
  BY InitTypeOK, NextTypeOK, PTL DEF Spec
-----------------------------------------------------------------------------
(* What is covered.                                                        *)

(* The log is tiled by the points of its updates.                          *)
LEMMA LogIsTiled ==
  ASSUME TypeOK, LogInv
  PROVE  Tiled(log)
  BY DEF TypeOK, LogInv, Boundary, Tiled, Uncut, Update

(* What is covered lies between the counter and the largest pts heard.     *)
LEMMA CoveredSize ==
  ASSUME TypeOK, good <= last
  PROVE  /\ Cardinality(Covered) \in Nat
         /\ Cardinality(Covered) <= last - good
  <1>1. good \in Nat /\ last \in Nat
    BY DEF TypeOK
  <1> QED
    BY <1>1, CoveredBound DEF Covered

(* What is covered once u is heard too.                                    *)
CoveredWith(u) ==
    CoveredBy(applied \cup queue \cup {u}, good, Larger(last, u.pts))

(* Hearing an update that is new adds its points to what is covered.       *)
LEMMA Hearing ==
  ASSUME TypeOK, LogInv, CountersInv, HeldIsAhead,
         NEW u \in log, ~Known(u), u \notin applied \cup queue
  PROVE  /\ Cardinality(CoveredWith(u)) \in Nat
         /\ Cardinality(Covered) + u.count <= Cardinality(CoveredWith(u))
         /\ Cardinality(CoveredWith(u)) <= Larger(last, u.pts) - good
  <1> DEFINE top == Larger(last, u.pts)
  <1>1. /\ u.pts \in Nat /\ u.count \in Nat
        /\ good \in Nat /\ last \in Nat /\ good <= last
    BY DEF TypeOK, Update, CountersInv
  <1>2. top \in Nat /\ last <= top /\ u.pts <= top /\ good <= top
    BY <1>1 DEF Larger
  <1>3. u.count = 0 \/ good <= u.pts - u.count
    BY <1>1 DEF Known, CountersInv, Boundary
  <1>4. applied \cup queue \subseteq log
    BY DEF CountersInv, HeldIsAhead
  <1> HIDE DEF top
  <1>5. Cardinality(Covered) + u.count
          <= Cardinality(CoveredBy(applied \cup queue \cup {u}, good, top))
    BY <1>1, <1>2, <1>3, <1>4, LogIsTiled, CoveredGrows DEF Covered
  <1>6. LET C == CoveredBy(applied \cup queue \cup {u}, good, top)
        IN  Cardinality(C) \in Nat /\ Cardinality(C) <= top - good
    BY <1>1, <1>2, CoveredBound
  <1> QED
    BY <1>5, <1>6 DEF CoveredWith, top

(* When nothing is missing up to the largest pts heard, every update up to *)
(* it is applied, held, or the one just heard.                             *)
LEMMA CompleteHasAll ==
  ASSUME TypeOK, LogInv, CountersInv, HeldIsAhead, NoUpdateLost, ~requesting,
         NEW u \in log, ~Known(u), u \notin applied \cup queue, Complete(u),
         NEW w \in log, w.count > 0, w.pts <= Larger(last, u.pts)
  PROVE  w \in applied \cup queue \cup {u}
  <1> DEFINE top == Larger(last, u.pts)
             S == applied \cup queue \cup {u}
             n == Cardinality(Covered)
             k == Cardinality(CoveredWith(u))
  <1>1. /\ u.pts \in Nat /\ u.count \in Nat /\ w.pts \in Nat
        /\ good \in Nat /\ last \in Nat /\ count \in Nat /\ good <= last
    BY DEF TypeOK, Update, CountersInv
  <1>2. top \in Nat /\ good <= top
    BY <1>1 DEF Larger
  <1>3. /\ n \in Nat /\ count <= good + n /\ top = count + u.count
        /\ k \in Nat /\ n + u.count <= k /\ k <= top - good
    BY <1>1, CoveredSize, Hearing DEF CountersInv, Complete
  <1>4. S \subseteq log
    BY DEF CountersInv, HeldIsAhead
  <1> HIDE DEF top, n, k, S
  <1>5. k = top - good
    BY <1>1, <1>2, <1>3
  <1>6. Cardinality(CoveredBy(S, good, top)) = top - good
    BY <1>5 DEF k, S, top, CoveredWith
  <1>7. CASE w.pts <= good
    BY <1>7 DEF NoUpdateLost, S
  <1>8. CASE good < w.pts
    <2>1. w.pts <= top
      BY DEF top
    <2>2. w \in S
      BY <1>1, <1>2, <1>4, <1>6, <1>8, <2>1, LogIsTiled, CoveredAll
    <2> QED
      BY <2>2 DEF S
  <1> QED
    BY <1>1, <1>7, <1>8
-----------------------------------------------------------------------------
(* Handing an update of the log to the waiter, by either call.             *)

Handed(u) == UpdateAndApply(u) \/ CountAndRelease(u, {u})

(* What the two calls have in common: how they move updates between "the   *)
(* queue" and "applied" depends on the counters only.                      *)
LEMMA HandedMoves ==
  ASSUME TypeOK, HeldIsAhead, NEW u \in log, Handed(u)
  PROVE  /\ UNCHANGED requesting
         /\ applied \subseteq applied'
         /\ applied' \cup queue' \subseteq applied \cup queue \cup {u}
         /\ requesting => UNCHANGED <<good, last, count>> /\ queue' = {}
         /\ ~requesting /\ Known(u) =>
              UNCHANGED <<good, last, count, queue>>
         /\ ~requesting /\ ~Known(u) /\ Inited =>
              /\ last' = Larger(last, u.pts)
              /\ count' = count + u.count
              /\ good' = IF Complete(u) THEN last' ELSE good
              /\ applied' \cup queue' = applied \cup queue \cup {u}
              /\ Complete(u) => queue' = {}
  <1>1. requesting => queue = {}
    BY DEF HeldIsAhead
  <1>2. queue # {} => waitingForSkipped
    BY DEF HeldIsAhead
  <1>3. CASE UpdateAndApply(u)
    BY <1>1, <1>2, <1>3
       DEF TypeOK, UpdateAndApply, ApplyNow, Count, Passes, GapBefore, Inited,
           WaitingAfter, ArmedAfter
  <1>4. CASE CountAndRelease(u, {u})
    BY <1>1, <1>2, <1>4
       DEF TypeOK, CountAndRelease, Count, Passes, GapBefore, Inited,
           WaitingAfter, ArmedAfter
  <1> QED
    BY <1>3, <1>4 DEF Handed

(* What stays in the queue is still held for a reason.                     *)
LEMMA HandedHolds ==
  ASSUME TypeOK, CountersInv, HeldIsAhead, NEW u \in log, Handed(u),
         u \in applied \cup queue => Known(u), UNCHANGED log
  PROVE  HeldIsAhead'
  <1>1. u \in Update /\ good \in Nat /\ last \in Nat /\ good <= last
    BY DEF TypeOK, CountersInv
  <1>2. SUFFICES ASSUME NEW v \in queue'
                 PROVE  /\ good' < v.pts /\ v.pts <= last'
                        /\ v \in log /\ v \notin applied'
                        /\ waitingForSkipped' /\ ~requesting
    BY HandedMoves DEF HeldIsAhead
  <1>3. v \in Update /\ v \in log
    BY <1>2, HandedMoves DEF TypeOK, HeldIsAhead, CountersInv
  <1>4. ~requesting /\ (Inited \/ Known(u))
    BY <1>2, HandedMoves DEF CountersInv, Inited
  <1>5. CASE Known(u)
    <2>1. /\ v \in queue /\ UNCHANGED <<good, last, queue>>
          /\ applied' \subseteq applied \cup {u}
          /\ UNCHANGED waitingForSkipped
      BY <1>1, <1>2, <1>4, <1>5, HandedMoves
         DEF Handed, UpdateAndApply, CountAndRelease, Passes, GapBefore,
             WaitingAfter, HeldIsAhead
    <2>2. v # u
      BY <1>1, <1>5, <2>1 DEF Known, HeldIsAhead, Update
    <2> QED
      BY <1>3, <1>4, <2>1, <2>2 DEF HeldIsAhead
  <1>6. CASE ~Known(u)
    <2>1. ~Complete(u) /\ good' = good /\ last' = Larger(last, u.pts)
      BY <1>2, <1>4, <1>6, HandedMoves
    <2>2. GapBefore(u) /\ u \notin applied \cup queue
      BY <1>4, <1>6, <2>1 DEF GapBefore
    <2>3. waitingForSkipped' /\ applied' \cap queue' = {}
      BY <1>2, <1>4, <1>6, <2>2
         DEF Handed, UpdateAndApply, ApplyNow, CountAndRelease, Passes,
             WaitingAfter, HeldIsAhead
    <2>4. CASE v = u
      <3>1. u.count > 0
        BY <1>1, <1>2, <1>4, <1>6, <2>2, <2>4
           DEF Handed, UpdateAndApply, ApplyNow, CountAndRelease, Passes,
               WaitingAfter, Update
      <3> QED
        BY <1>1, <1>3, <1>4, <1>6, <2>1, <2>3, <2>4, <3>1
           DEF Known, Larger, Update
    <2>5. CASE v # u
      <3>1. v \in queue
        BY <1>2, <2>3, <2>5, HandedMoves
      <3> QED
        BY <1>1, <1>3, <1>4, <2>1, <2>3, <3>1
           DEF HeldIsAhead, Larger, Update
    <2> QED
      BY <2>4, <2>5
  <1> QED
    BY <1>5, <1>6

(* Nothing is lost below the counter, and the counters stay consistent.    *)
LEMMA HandedCounts ==
  ASSUME TypeOK, LogInv, CountersInv, HeldIsAhead, NoUpdateLost,
         NEW u \in log, Handed(u),
         u \in applied \cup queue => Known(u), UNCHANGED <<log, serverPts>>
  PROVE  CountersInv' /\ NoUpdateLost'
  <1>1. /\ u \in Update /\ u.pts \in Nat /\ u.count \in Nat
        /\ good \in Nat /\ last \in Nat /\ count \in Nat /\ serverPts \in Nat
        /\ good <= last /\ u.pts <= serverPts
    BY DEF TypeOK, CountersInv, LogInv, Update
  <1>2. applied' \subseteq log' /\ queue' \subseteq log
    BY HandedMoves DEF CountersInv, HeldIsAhead
  <1>3. ~requesting => Inited
    BY DEF CountersInv, Inited
  <1>4. CASE requesting
    BY <1>2, <1>4, HandedMoves DEF CountersInv, NoUpdateLost, Boundary
  <1>5. CASE ~requesting /\ Known(u)
    <2>1. /\ UNCHANGED <<good, last, count, queue, requesting>>
          /\ applied \subseteq applied'
      BY <1>5, HandedMoves
    <2>2. NoUpdateLost'
      BY <2>1 DEF NoUpdateLost
    <2>3. Covered' = CoveredBy(applied' \cup queue, good, last)
      BY <2>1 DEF Covered
    <2>4. applied \cup queue \subseteq applied' \cup queue
      BY <2>1
    <2>5. /\ Cardinality(Covered) \in Nat /\ Cardinality(Covered') \in Nat
          /\ Cardinality(Covered) <= Cardinality(Covered')
      BY <1>1, <2>3, <2>4, CoveredBound, CoveredMonotone DEF Covered
    <2>6. count' <= good' + Cardinality(Covered')
      <3>1. count <= good + Cardinality(Covered)
        BY <1>5 DEF CountersInv
      <3> DEFINE k == Cardinality(Covered)
                 n == Cardinality(Covered')
      <3>2. k \in Nat /\ n \in Nat /\ k <= n /\ count <= good + k
        BY <2>5, <3>1
      <3> HIDE DEF k, n
      <3>3. count <= good + n
        BY <1>1, <3>2
      <3> QED
        BY <2>1, <3>3 DEF n
    <2> QED
      BY <1>2, <2>1, <2>2, <2>6 DEF CountersInv, Boundary
  <1>6. CASE ~requesting /\ ~Known(u)
    <2>1. u \notin applied \cup queue
      BY <1>6
    <2>2. /\ ~requesting' /\ last' = Larger(last, u.pts)
          /\ count' = count + u.count
          /\ good' = IF Complete(u) THEN last' ELSE good
          /\ applied' \cup queue' = applied \cup queue \cup {u}
          /\ applied \subseteq applied'
          /\ Complete(u) => queue' = {}
      BY <1>3, <1>6, HandedMoves
    <2>3. /\ good <= last' /\ last' <= serverPts /\ last' \in Nat
          /\ good' <= last' /\ good' > 0 /\ Boundary(last') /\ Boundary(good')
      <3>1. last' = last \/ last' = u.pts
        BY <2>2 DEF Larger
      <3>2. Boundary(last') /\ last' <= serverPts /\ last' \in Nat
        BY <1>1, <3>1 DEF LogInv, CountersInv
      <3>3. good <= last'
        BY <1>1, <2>2 DEF Larger
      <3>4. good > 0
        BY <1>3, <1>6 DEF Inited
      <3>5. good' = good \/ good' = last'
        BY <2>2
      <3> QED
        BY <1>1, <3>2, <3>3, <3>4, <3>5 DEF CountersInv
    <2>4. (Boundary(good) /\ Boundary(last))'
      BY <2>3 DEF Boundary
    <2>5. CASE Complete(u)
      <3>1. applied' = applied \cup queue \cup {u} /\ good' = last'
        BY <2>2, <2>5
      <3>2. NoUpdateLost'
        BY <1>6, <2>1, <2>2, <2>5, <3>1, CompleteHasAll DEF NoUpdateLost
      <3>3. Cardinality(Covered') = 0
        BY <2>3, <3>1, CoveredNone DEF Covered
      <3>4. count' <= good' + Cardinality(Covered')
        BY <1>1, <2>2, <2>5, <3>1, <3>3 DEF Complete
      <3> QED
        BY <1>1, <1>2, <2>2, <2>3, <2>4, <3>2, <3>4 DEF CountersInv
    <2>6. CASE ~Complete(u)
      <3>1. good' = good
        BY <2>2, <2>6
      <3>2. NoUpdateLost'
        BY <2>2, <3>1 DEF NoUpdateLost
      <3>3. Covered' = CoveredWith(u)
        BY <2>2, <3>1 DEF Covered, CoveredWith
      <3>4. count' <= good' + Cardinality(Covered')
        <4> DEFINE k == Cardinality(Covered)
                   n == Cardinality(Covered')
        <4>1. n \in Nat /\ k + u.count <= n
          BY <2>1, <1>6, <3>3, Hearing
        <4>2. k \in Nat /\ count <= good + k
          BY <1>1, <1>6, CoveredSize DEF CountersInv
        <4> HIDE DEF k, n
        <4>3. count + u.count <= good + n
          BY <1>1, <4>1, <4>2
        <4> QED
          BY <2>2, <3>1, <4>3 DEF n
      <3> QED
        BY <1>1, <1>2, <2>2, <2>3, <2>4, <3>2, <3>4 DEF CountersInv
    <2> QED
      BY <2>5, <2>6
  <1> QED
    BY <1>4, <1>5, <1>6
-----------------------------------------------------------------------------
(* The invariant, step by step.                                            *)

(* Updates::Updates establishes the invariant.                             *)
LEMMA InitInv == Init => IInv
  <1> SUFFICES ASSUME Init PROVE IInv
    OBVIOUS
  <1>1. LogInv /\ NetInv /\ RetryNeverOverlaps /\ HeldIsAhead /\ NoUpdateLost
    BY DEF Init, LogInv, NetInv, RetryNeverOverlaps, HeldIsAhead, NoUpdateLost
  <1>2. CountersInv
    BY PtsAssumption DEF Init, CountersInv, Boundary
  <1> QED
    BY <1>1, <1>2 DEF IInv

(* Steps of the network that leave the client alone.                       *)
LEMMA NetworkStep ==
  ASSUME TypeOK, IInv, UNCHANGED <<waiterVars, serverPts, log, retryTimer>>,
         requesting' <=> difference' # "none",
         retryTimer' <=> difference' = "failed"
  PROVE  LogInv' /\ CountersInv' /\ RetryNeverOverlaps' /\ HeldIsAhead'
           /\ NoUpdateLost'
  <1>1. Covered' = Covered
    BY DEF Covered, waiterVars
  <1> QED
    BY <1>1 DEF IInv, LogInv, CountersInv, RetryNeverOverlaps, HeldIsAhead,
                NoUpdateLost, Boundary, waiterVars

(* A new update of the server keeps the invariant: it is above all others. *)
LEMMA PublishInv ==
  ASSUME TypeOK, IInv, NEW c \in Counts, NEW by \in Sources, Publish(c, by)
  PROVE  IInv'
  <1>0. PICK u : u = [pts |-> serverPts + c, count |-> c, by |-> by]
    OBVIOUS
  <1> DEFINE msg == [type |-> "updates", by |-> by, ups |-> {u}]
  <1>1. /\ u \in Update /\ u.pts = serverPts + c /\ u.count = c
        /\ c \in Nat /\ serverPts \in Nat /\ u.by = by
    BY <1>0, CountsAssumption DEF TypeOK, Update
  <1>2. /\ msg.type = "updates" /\ msg.by = by /\ msg.ups = {u}
    OBVIOUS
  <1>3. /\ u \notin log /\ serverPts' = u.pts /\ log' = log \cup {u}
        /\ net' = net \cup {msg}
        /\ UNCHANGED <<waiterVars, difference, retryTimer, feeding>>
    BY <1>0 DEF Publish
  <1> HIDE DEF msg
  <1>4. \A p \in Nat : Boundary(p) /\ p <= serverPts => Boundary(p)'
    BY <1>1, <1>3 DEF Boundary
  <1>5. \A w \in log : w \in Update /\ w.pts \in Nat
    BY DEF TypeOK, Update
  <1>6. LogInv'
    <2>1. \A w \in log' : w.pts <= serverPts'
      BY <1>1, <1>3, <1>5 DEF IInv, LogInv
    <2>2. \A w \in log : Boundary(w.pts)'
      BY <1>3, <1>4, <1>5 DEF IInv, LogInv
    <2>3. Boundary(u.pts)'
      BY <1>1, <1>3, <1>5, <2>1 DEF Boundary
    <2>4. \A v, w \in log' :
            v.count > 0 /\ w.count > 0 /\ v.pts = w.pts => v = w
      BY <1>1, <1>3, <1>5 DEF IInv, LogInv
    <2>5. \A w \in log' : Boundary(w.pts)'
      BY <1>3, <2>2, <2>3
    <2> QED
      BY <2>1, <2>4, <2>5 DEF LogInv, Boundary
  <1>7. NetInv'
    <2>1. u \notin applied \cup queue /\ u \notin feeding
      BY <1>3 DEF IInv, NetInv, CountersInv, HeldIsAhead
    <2>2. \A m \in net : m.type = "updates" => m.ups \subseteq log
      BY DEF IInv, NetInv
    <2>3. \A m \in net : m.type = "difference" =>
            m.pts \in Nat /\ m.pts <= serverPts'
      <3>1. \A m \in net : m.type = "difference" => m.pts \in Nat
        BY DEF TypeOK, Message
      <3> QED
        BY <1>1, <1>3, <3>1 DEF IInv, NetInv
    <2>4. \A m \in net : m.type = "difference" => Boundary(m.pts)'
      BY <1>4, <2>3 DEF IInv, NetInv
    <2>5. \A m \in net' : m.type = "updates" =>
            /\ \A w \in m.ups :
                 /\ w \in log'
                 /\ w \in applied \cup queue => Known(w)
                 /\ w \notin feeding
                 /\ m.by = "affected" => w.by = "affected"
            /\ \A n \in net' \ {m} : n.type = "updates" =>
                 m.ups \cap n.ups = {}
      BY <1>1, <1>2, <1>3, <2>1, <2>2 DEF IInv, NetInv
    <2>6. \A w \in feeding : w \in log' /\ (w \in applied \cup queue => Known(w))
      BY <1>3 DEF IInv, NetInv
    <2>7. \A m \in net' : m.type = "difference" => m \in net
      BY <1>2, <1>3
    <2>8. UNCHANGED <<good, applied, queue, feeding, difference>>
      BY <1>3 DEF waiterVars
    <2>9. \A m \in net' : m.type = "difference" =>
            /\ difference' = "answered"
            /\ \A n \in net' : n.type = "difference" => n = m
            /\ good' <= m.pts /\ m.pts > 0 /\ m.pts <= serverPts'
            /\ Boundary(m.pts)'
      BY <2>3, <2>4, <2>7, <2>8 DEF IInv, NetInv
    <2> QED
      BY <2>5, <2>6, <2>8, <2>9 DEF NetInv, Known, Boundary
  <1>8. CountersInv'
    <2>1. good \in Nat /\ last \in Nat /\ count \in Nat
      BY DEF TypeOK
    <2>2. UNCHANGED <<good, last, count, applied, queue, requesting>>
      BY <1>3 DEF waiterVars
    <2>3. Covered' = Covered
      BY <2>2 DEF Covered
    <2>4. good <= last /\ last <= serverPts' /\ serverPts' > 0
      BY <1>1, <1>3, <2>1 DEF IInv, CountersInv
    <2>5. Boundary(good)' /\ Boundary(last)'
      BY <1>1, <1>4, <2>1, <2>2 DEF IInv, CountersInv, Boundary
    <2> QED
      BY <1>3, <2>2, <2>3, <2>4, <2>5 DEF IInv, CountersInv, Boundary
  <1>9. RetryNeverOverlaps' /\ HeldIsAhead'
    BY <1>3 DEF IInv, RetryNeverOverlaps, HeldIsAhead, waiterVars
  <1>10. NoUpdateLost'
    <2>1. ~(u.count > 0 /\ u.pts <= good)
      BY <1>1 DEF TypeOK, IInv, CountersInv
    <2> QED
      BY <1>3, <2>1 DEF IInv, NoUpdateLost, waiterVars
  <1> QED
    BY <1>6, <1>7, <1>8, <1>9, <1>10 DEF IInv

(* Putting two pushes into one container keeps the invariant.              *)
LEMMA GroupInv ==
  ASSUME TypeOK, IInv, NEW m \in net, NEW n \in net, Group(m, n)
  PROVE  IInv'
  <1> DEFINE msg == [type |-> "updates", by |-> "push",
                     ups |-> m.ups \cup n.ups]
  <1>1. msg.type = "updates" /\ msg.by = "push" /\ msg.ups = m.ups \cup n.ups
    OBVIOUS
  <1>2. /\ m.type = "updates" /\ n.type = "updates"
        /\ net' = (net \ {m, n}) \cup {msg}
        /\ UNCHANGED <<waiterVars, serverPts, log, difference, retryTimer,
                       feeding>>
    BY DEF Group
  <1> HIDE DEF msg
  <1>3. NetInv'
    BY <1>1, <1>2 DEF IInv, NetInv, Known, Boundary, waiterVars
  <1>4. LogInv' /\ CountersInv' /\ RetryNeverOverlaps' /\ HeldIsAhead'
          /\ NoUpdateLost'
    BY <1>2, NetworkStep DEF IInv, RetryNeverOverlaps, waiterVars
  <1> QED
    BY <1>3, <1>4 DEF IInv

(* Replacing a push by updatesTooLong keeps the invariant.                 *)
LEMMA TooLongInv ==
  ASSUME TypeOK, IInv, NEW m \in net, TooLong(m) \/ DropResult(m)
  PROVE  IInv'
  <1> DEFINE msg == [m EXCEPT !.by = "tooLong"]
  <1>1. m.type = "updates" => msg.type = "updates" /\ msg.ups = m.ups
                                /\ msg.by = "tooLong"
    BY DEF TypeOK, Message
  <1>2. /\ m.type = "updates"
        /\ net' = (net \ {m}) \cup {msg} \/ net' = net \ {m}
        /\ UNCHANGED <<waiterVars, serverPts, log, difference, retryTimer,
                       feeding>>
    BY DEF TooLong, DropResult
  <1> HIDE DEF msg
  <1>3. NetInv'
    BY <1>1, <1>2 DEF IInv, NetInv, Known, Boundary, waiterVars
  <1>4. LogInv' /\ CountersInv' /\ RetryNeverOverlaps' /\ HeldIsAhead'
          /\ NoUpdateLost'
    BY <1>2, NetworkStep DEF IInv, RetryNeverOverlaps, waiterVars
  <1> QED
    BY <1>3, <1>4 DEF IInv

(* An answer ends where no update is cut in two.                           *)
LEMMA AnswerInv ==
  ASSUME TypeOK, IInv, NEW pts \in 1 .. MaxPts, Answer(pts)
  PROVE  IInv'
  <1> DEFINE msg == [type |-> "difference", pts |-> pts,
                     final |-> pts = serverPts]
  <1>1. msg.type = "difference" /\ msg.pts = pts
    OBVIOUS
  <1>2. /\ difference = "sent" /\ difference' = "answered"
        /\ net' = net \cup {msg}
        /\ UNCHANGED <<waiterVars, serverPts, log, retryTimer, feeding>>
    BY DEF Answer
  <1>3. good <= pts /\ pts > 0 /\ pts <= serverPts /\ Boundary(pts)
    <2>1. /\ pts \in Nat /\ pts > 0 /\ good \in Nat /\ serverPts \in Nat
          /\ last \in Nat /\ good <= last /\ last <= serverPts
      BY PtsAssumption DEF TypeOK, IInv, CountersInv
    <2>2. CASE pts = serverPts
      BY <2>1, <2>2 DEF IInv, LogInv, Boundary
    <2>3. CASE good < pts /\ pts < serverPts /\ \E u \in log : u.pts = pts
      BY <2>1, <2>3 DEF IInv, LogInv
    <2> QED
      BY <2>2, <2>3 DEF Answer
  <1> HIDE DEF msg
  <1>4. NetInv'
    BY <1>1, <1>2, <1>3 DEF IInv, NetInv, Known, Boundary, waiterVars
  <1>5. LogInv' /\ CountersInv' /\ RetryNeverOverlaps' /\ HeldIsAhead'
          /\ NoUpdateLost'
    BY <1>2, NetworkStep DEF IInv, RetryNeverOverlaps, waiterVars
  <1> QED
    BY <1>4, <1>5 DEF IInv

(* Taking messages away, and updates that are fed, leaves the network      *)
(* consistent.                                                             *)
LEMMA NetShrinks ==
  ASSUME IInv, net' \subseteq net, feeding' \subseteq feeding,
         applied' \cup queue' \subseteq applied \cup queue,
         UNCHANGED <<good, log, serverPts>>,
         \A m \in net' : m.type = "difference" => difference' = "answered"
  PROVE  NetInv'
  <1>1. \A u \in log : Known(u) => Known(u)'
    BY DEF Known
  <1>2. \A m \in net : m.type = "updates" => m.ups \subseteq log
    BY DEF IInv, NetInv
  <1>3. \A m \in net' : m.type = "updates" =>
         /\ \A u \in m.ups :
              /\ u \in log'
              /\ u \in applied' \cup queue' => Known(u)'
              /\ u \notin feeding'
              /\ m.by = "affected" => u.by = "affected"
         /\ \A n \in net' \ {m} : n.type = "updates" => m.ups \cap n.ups = {}
    BY <1>1, <1>2 DEF IInv, NetInv
  <1>4. \A u \in feeding' :
         /\ u \in log'
         /\ u \in applied' \cup queue' => Known(u)'
    BY <1>1 DEF IInv, NetInv
  <1>5. \A m \in net' : m.type = "difference" =>
         /\ difference' = "answered"
         /\ \A n \in net' : n.type = "difference" => n = m
         /\ good' <= m.pts /\ m.pts > 0 /\ m.pts <= serverPts'
         /\ \A w \in log' : w.pts <= m.pts \/ m.pts <= w.pts - w.count
    BY DEF IInv, NetInv, Boundary
  <1> QED
    BY <1>3, <1>4, <1>5 DEF NetInv, Boundary, Known

(* While a difference is asked for only what is applied matters.           *)
LEMMA Asking ==
  ASSUME IInv, UNCHANGED <<good, last, applied, log, serverPts>>,
         requesting', queue' = {}
  PROVE  LogInv' /\ CountersInv' /\ HeldIsAhead' /\ NoUpdateLost'
  BY DEF IInv, LogInv, CountersInv, HeldIsAhead, NoUpdateLost, Boundary

(* A step that ends in a sent getDifference keeps the invariant.           *)
LEMMA AskingNow ==
  ASSUME IInv, GetDifference, UNCHANGED <<log, serverPts>>
  PROVE  /\ LogInv' /\ CountersInv' /\ HeldIsAhead' /\ NoUpdateLost'
         /\ difference = "answered" => difference' = "answered"
         /\ difference' \in {"sent", difference}
  <1>1. requesting' /\ queue' = {}
    BY DEF GetDifference, IInv, HeldIsAhead
  <1>2. UNCHANGED <<good, last, count, applied>>
    BY DEF GetDifference
  <1> QED
    BY <1>1, <1>2, Asking DEF GetDifference, IInv, RetryNeverOverlaps

(* mtpUpdateReceived and applyUpdates keep the invariant.                  *)
LEMMA ReceiveInv ==
  ASSUME TypeOK, IInv, NEW m \in net, Receive(m)
  PROVE  IInv'
  <1>1. /\ feeding = {} /\ m.type = "updates" /\ net' = net \ {m}
        /\ feeding' \subseteq m.ups
        /\ UNCHANGED <<waiterVars, serverPts, log, difference, retryTimer>>
    BY DEF Receive, MayArrive
  <1>2. NetInv'
    BY <1>1 DEF IInv, NetInv, Known, Boundary, waiterVars
  <1>3. LogInv' /\ CountersInv' /\ RetryNeverOverlaps' /\ HeldIsAhead'
          /\ NoUpdateLost'
    BY <1>1, NetworkStep DEF IInv, RetryNeverOverlaps, waiterVars
  <1> QED
    BY <1>2, <1>3 DEF IInv

(* updatesTooLong keeps the invariant.                                     *)
LEMMA ReceiveTooLongInv ==
  ASSUME TypeOK, IInv, NEW m \in net, ReceiveTooLong(m)
  PROVE  IInv'
  <1>1. /\ net' \subseteq net
        /\ UNCHANGED <<serverPts, log, feeding>>
    BY DEF ReceiveTooLong
  <1>2. CASE UNCHANGED <<waiterVars, difference, retryTimer>>
    <2>1. NetInv'
      BY <1>1, <1>2, NetShrinks DEF IInv, NetInv, waiterVars
    <2> QED
      BY <1>1, <1>2, <2>1, NetworkStep
         DEF IInv, RetryNeverOverlaps, waiterVars
  <1>3. CASE ~requesting /\ GetDifference
    <2>1. /\ requesting' /\ difference' = "sent" /\ ~retryTimer'
          /\ applied' \cup queue' \subseteq applied \cup queue
          /\ UNCHANGED good
      BY <1>3 DEF GetDifference
    <2>2. \A n \in net' : n.type # "difference"
      BY <1>1, <1>3 DEF IInv, NetInv, RetryNeverOverlaps
    <2>3. NetInv'
      BY <1>1, <2>1, <2>2, NetShrinks
    <2> QED
      BY <1>1, <1>3, <2>1, <2>3, AskingNow DEF IInv, RetryNeverOverlaps
  <1> QED
    BY <1>2, <1>3 DEF ReceiveTooLong

(* getDifference from any of the client's handlers.                        *)
LEMMA AskInv ==
  ASSUME TypeOK, IInv, GetDifference, UNCHANGED <<log, serverPts, net>>,
         feeding' \subseteq feeding
  PROVE  IInv'
  <1>1. /\ requesting' /\ UNCHANGED good
        /\ applied' \cup queue' \subseteq applied \cup queue
    BY DEF GetDifference, IInv, HeldIsAhead
  <1>2. \A n \in net' : n.type = "difference" => difference' = "answered"
    BY AskingNow DEF IInv, NetInv
  <1>3. NetInv'
    BY <1>1, <1>2, NetShrinks
  <1>4. RetryNeverOverlaps'
    BY DEF GetDifference, IInv, RetryNeverOverlaps
  <1> QED
    BY <1>3, <1>4, AskingNow DEF IInv

(* mtpNewSessionCreated keeps the invariant.                               *)
LEMMA NewSessionInv ==
  ASSUME TypeOK, IInv, NewSession
  PROVE  IInv'
  <1>1. /\ requesting' /\ queue' = {}
        /\ UNCHANGED <<good, last, applied, log, serverPts, feeding>>
    BY DEF NewSession, GetDifference, IInv, HeldIsAhead, RetryNeverOverlaps
  <1>2. net' \subseteq net /\ \A m \in net' : m.type # "difference"
    BY DEF NewSession
  <1>3. NetInv'
    BY <1>1, <1>2, NetShrinks
  <1>4. RetryNeverOverlaps'
    BY DEF NewSession, GetDifference, IInv, RetryNeverOverlaps
  <1> QED
    BY <1>1, <1>3, <1>4, Asking DEF IInv

(* getDifferenceAfterFail keeps the invariant.                             *)
LEMMA RetryInv ==
  ASSUME TypeOK, IInv, DifferenceFail \/ GetDifferenceAfterFail
  PROVE  IInv'
  <1>1. /\ requesting' /\ queue' = {}
        /\ UNCHANGED <<good, last, applied, log, serverPts, net, feeding>>
        /\ RetryNeverOverlaps'
    BY DEF DifferenceFail, GetDifferenceAfterFail, IInv, HeldIsAhead,
           RetryNeverOverlaps, waiterVars
  <1>2. \A m \in net' : m.type # "difference"
    BY <1>1 DEF DifferenceFail, GetDifferenceAfterFail, IInv, NetInv,
                RetryNeverOverlaps
  <1>3. NetInv'
    BY <1>1, <1>2, NetShrinks
  <1> QED
    BY <1>1, <1>3, Asking DEF IInv

(* A difference: everything up to its pts is applied.                      *)
LEMMA MergeInv ==
  ASSUME TypeOK, IInv, NEW m \in net, DifferenceDone(m) \/ DifferenceSlice(m)
  PROVE  IInv'
  <1>1. /\ m.type = "difference" /\ difference = "answered"
        /\ good <= m.pts /\ m.pts > 0 /\ m.pts <= serverPts
        /\ Boundary(m.pts) /\ m.pts \in Nat
        /\ \A n \in net' : n.type # "difference"
    BY DEF DifferenceDone, DifferenceSlice, IInv, NetInv, TypeOK, Message
  <1>2. /\ good' = m.pts /\ last' = m.pts /\ count' = m.pts /\ queue' = {}
        /\ applied' = applied \cup
             {u \in log : u.count > 0 /\ good < u.pts /\ u.pts <= m.pts}
        /\ net' \subseteq net
        /\ feeding = {}
        /\ UNCHANGED <<log, serverPts, feeding>>
    BY DEF DifferenceDone, DifferenceSlice, Merge, InitTo, MayArrive
  <1>3. good \in Nat /\ \A u \in log : u \in Update /\ u.pts \in Nat
    BY DEF TypeOK, Update
  <1>4. LogInv' /\ HeldIsAhead'
    BY <1>2 DEF IInv, LogInv, HeldIsAhead, Boundary
  <1>5. NoUpdateLost'
    BY <1>1, <1>2, <1>3 DEF IInv, NoUpdateLost
  <1>6. CountersInv'
    <2>1. Cardinality(Covered') = 0
      BY <1>1, <1>2, CoveredNone DEF Covered
    <2>2. count' <= good' + Cardinality(Covered')
      BY <1>1, <1>2, <2>1
    <2> QED
      BY <1>1, <1>2, <2>2 DEF IInv, CountersInv, Boundary
  <1>7. NetInv'
    <2>1. \A u \in log : Known(u) => Known(u)'
      BY <1>1, <1>2, <1>3 DEF Known
    <2>2. \A u \in log : u \in applied' \/ u \in queue' =>
            u \in applied \/ Known(u)'
      BY <1>1, <1>2, <1>3 DEF Known
    <2> QED
      BY <1>1, <1>2, <2>1, <2>2 DEF IInv, NetInv
  <1>8. RetryNeverOverlaps'
    BY <1>1 DEF DifferenceDone, DifferenceSlice, IInv, RetryNeverOverlaps
  <1> QED
    BY <1>4, <1>5, <1>6, <1>7, <1>8 DEF IInv

(* An update that left the network, or the container being fed.            *)
LEMMA HandInv ==
  ASSUME TypeOK, IInv, NEW u \in log, Handed(u),
         u \in applied \cup queue => Known(u),
         UNCHANGED <<log, serverPts, difference, retryTimer>>,
         net' \subseteq net, feeding' \subseteq feeding,
         u \notin feeding',
         \A m \in net' : m.type = "updates" => u \notin m.ups
  PROVE  IInv'
  <1>1. CountersInv' /\ NoUpdateLost' /\ HeldIsAhead'
    BY HandedCounts, HandedHolds DEF IInv
  <1>2. LogInv'
    BY DEF IInv, LogInv, Boundary
  <1>3. requesting' = requesting /\ RetryNeverOverlaps'
    BY HandedMoves DEF IInv, RetryNeverOverlaps
  <1>4. applied' \cup queue' \subseteq applied \cup queue \cup {u}
    BY HandedMoves DEF IInv
  <1>5. good' \in Nat /\ good <= good'
    <2>1. u \in Update /\ good \in Nat /\ last \in Nat /\ good <= last
      BY DEF TypeOK, IInv, CountersInv
    <2>2. good' = good \/ good' = Larger(last, u.pts)
      <3>1. ~requesting => Inited
        BY DEF IInv, CountersInv, Inited
      <3> QED
        BY <3>1, HandedMoves DEF IInv
    <2> QED
      BY <2>1, <2>2 DEF Larger, Update
  <1>6. NetInv'
    <2>1. \A w \in log : Known(w) => Known(w)'
      BY <1>5 DEF Known, TypeOK, Update
    <2>2. \A m \in net : m.type = "updates" => m.ups \subseteq log
      BY DEF IInv, NetInv
    <2>3. \A m \in net' : m.type = "difference" =>
            requesting /\ good' = good
      BY HandedMoves DEF IInv, NetInv, RetryNeverOverlaps
    <2>4. \A m \in net' : m.type = "updates" =>
         /\ \A w \in m.ups :
              /\ w \in log'
              /\ w \in applied' \cup queue' => Known(w)'
              /\ w \notin feeding'
              /\ m.by = "affected" => w.by = "affected"
         /\ \A n \in net' \ {m} : n.type = "updates" => m.ups \cap n.ups = {}
      BY <1>4, <2>1, <2>2 DEF IInv, NetInv
    <2>5. \A w \in feeding' :
         /\ w \in log'
         /\ w \in applied' \cup queue' => Known(w)'
      BY <1>4, <2>1 DEF IInv, NetInv
    <2>6. \A m \in net' : m.type = "difference" =>
         /\ difference' = "answered"
         /\ \A n \in net' : n.type = "difference" => n = m
         /\ good' <= m.pts /\ m.pts > 0 /\ m.pts <= serverPts'
         /\ \A w \in log' : w.pts <= m.pts \/ m.pts <= w.pts - w.count
      BY <2>3 DEF IInv, NetInv, Boundary
    <2> QED
      BY <2>4, <2>5, <2>6 DEF NetInv, Boundary, Known
  <1> QED
    BY <1>1, <1>2, <1>3, <1>6 DEF IInv

(* Every step of Api::Updates, server and network keeps the invariant.     *)
LEMMA NextInv == TypeOK /\ IInv /\ [Next]_vars => IInv'
  <1> SUFFICES ASSUME TypeOK, IInv, [Next]_vars PROVE IInv'
    OBVIOUS
  <1>1. CASE Server
    BY <1>1, PublishInv, GroupInv, TooLongInv, AnswerInv DEF Server
  <1>2. CASE Client
    <2>1. ASSUME NEW m \in net, NEW u \in log, ReceiveAffected(m, u)
          PROVE  IInv'
      <3>1. /\ m.type = "updates" /\ u \in m.ups /\ net' = net \ {m}
            /\ UNCHANGED <<log, serverPts, difference, retryTimer, feeding>>
            /\ Handed(u)
        BY <2>1 DEF ReceiveAffected, Handed
      <3>2. /\ u \in applied \cup queue => Known(u)
            /\ u \notin feeding'
            /\ \A n \in net' : n.type = "updates" => u \notin n.ups
        BY <3>1 DEF IInv, NetInv
      <3> QED
        BY <3>1, <3>2, HandInv
    <2>2. ASSUME NEW u \in feeding, FeedUpdate(u) PROVE IInv'
      <3>1. /\ feeding' = feeding \ {u} /\ Handed(u)
            /\ UNCHANGED <<log, serverPts, difference, retryTimer, net>>
        BY <2>2 DEF FeedUpdate, Handed
      <3>2. /\ u \in log
            /\ u \in applied \cup queue => Known(u)
            /\ \A n \in net' : n.type = "updates" => u \notin n.ups
        BY <3>1 DEF IInv, NetInv
      <3> QED
        BY <3>1, <3>2, HandInv
    <2>3. ASSUME NEW u \in feeding, FeedNotLoaded(u) PROVE IInv'
      BY <2>3, AskInv DEF FeedNotLoaded
    <2>4. CASE GetDifferenceByPts \/ MinChannelTimer
      BY <2>4, AskInv DEF GetDifferenceByPts, MinChannelTimer
    <2> QED
      BY <1>2, <2>1, <2>2, <2>3, <2>4, ReceiveInv, ReceiveTooLongInv,
         MergeInv, NewSessionInv, RetryInv DEF Client
  <1>3. CASE UNCHANGED vars
    BY <1>3 DEF vars, waiterVars, IInv, LogInv, NetInv, CountersInv,
                RetryNeverOverlaps, HeldIsAhead, NoUpdateLost, Covered, Known,
                Boundary
  <1> QED
    BY <1>1, <1>2, <1>3 DEF Next

(* The invariant holds in every behaviour of Api::Updates.                 *)
LEMMA Invariant == Spec => [](TypeOK /\ IInv)
  BY InitTypeOK, NextTypeOK, InitInv, NextInv, PTL DEF Spec

(* An update below the counter has been applied, whatever was pushed,      *)
(* answered, reordered, cancelled or fetched: updated() may ignore it, and *)
(* a difference may start at the counter.                                  *)
THEOREM NothingIsLost == Spec => []NoUpdateLost
  <1>1. IInv => NoUpdateLost
    BY DEF IInv
  <1> QED
    BY <1>1, Invariant, PTL

(* The retry timer, which resets "requesting" without a look, is never set *)
(* while a difference is under way.                                        *)
THEOREM RetriesNeverOverlap == Spec => []RetryNeverOverlaps
  <1>1. IInv => RetryNeverOverlaps
    BY DEF IInv
  <1> QED
    BY <1>1, Invariant, PTL

(* What the waiter holds is new, and the flag that releases it is set.     *)
THEOREM HeldUpdatesAreAhead == Spec => []HeldIsAhead
  <1>1. IInv => HeldIsAhead
    BY DEF IInv
  <1> QED
    BY <1>1, Invariant, PTL
-----------------------------------------------------------------------------
(* When every update counts.                                               *)

AllCount == \A u \in log : u.count > 0

(* With no zero among the counts, every update of the log counts.          *)
LEMMA AllCountInv ==
  ASSUME 0 \notin Counts
  PROVE  Spec => []AllCount
  <1>1. Init => AllCount
    BY DEF Init, AllCount
  <1>2. TypeOK /\ IInv /\ AllCount /\ [Next]_vars => AllCount'
    <2> SUFFICES ASSUME TypeOK, AllCount, [Next]_vars PROVE AllCount'
      OBVIOUS
    <2>1. ASSUME NEW c \in Counts, NEW by \in Sources, Publish(c, by)
          PROVE  AllCount'
      <3>1. c \in Nat /\ c > 0
        BY CountsAssumption
      <3> QED
        BY <2>1, <3>1 DEF Publish, AllCount
    <2>2. CASE UNCHANGED log
      BY <2>2 DEF AllCount
    <2> QED
      BY <2>1, <2>2
         DEF Next, Server, Client, vars, Group, TooLong, DropResult, Answer,
             Receive, ReceiveTooLong, ReceiveAffected, DifferenceDone,
             DifferenceSlice, FeedUpdate, FeedNotLoaded, NewSession,
             GetDifferenceByPts, MinChannelTimer, DifferenceFail,
             GetDifferenceAfterFail
  <1> QED
    BY <1>1, <1>2, Invariant, PTL DEF Spec

(* Handing the waiter an update that counts keeps gaps waited for.         *)
LEMMA HandedGap ==
  ASSUME TypeOK, IInv, NEW u \in log, Handed(u), u.count > 0,
         GapIsWaitedFor
  PROVE  GapIsWaitedFor'
  <1>1. u \in Update /\ (~requesting => Inited)
    BY DEF TypeOK, IInv, CountersInv, Inited
  <1>2. /\ u.count # 0
        /\ requesting' = requesting
    BY <1>1, HandedMoves DEF IInv, Update
  <1>3. CASE requesting
    BY <1>2, <1>3 DEF GapIsWaitedFor
  <1>4. CASE ~requesting /\ Known(u)
    <2>1. UNCHANGED <<last, count>>
      BY <1>1, <1>4, HandedMoves DEF IInv
    <2>2. ~Passes(u) /\ ~GapBefore(u)
      BY <1>4 DEF Passes, GapBefore
    <2>3. whenGetDiff => whenGetDiff'
      BY <2>2 DEF Handed, UpdateAndApply, CountAndRelease, ArmedAfter
    <2> QED
      BY <1>2, <2>1, <2>3 DEF GapIsWaitedFor
  <1>5. CASE ~requesting /\ ~Known(u) /\ Complete(u)
    BY <1>1, <1>5, HandedMoves DEF GapIsWaitedFor, Complete, IInv
  <1>6. CASE ~requesting /\ ~Known(u) /\ ~Complete(u)
    <2>1. GapBefore(u) /\ ~Passes(u)
      BY <1>1, <1>2, <1>6 DEF GapBefore, Passes
    <2>2. whenGetDiff'
      BY <2>1 DEF Handed, UpdateAndApply, CountAndRelease, ArmedAfter
    <2> QED
      BY <2>2 DEF GapIsWaitedFor
  <1> QED
    BY <1>3, <1>4, <1>5, <1>6

(* A gap the client has heard of is being asked for, or the deadline for   *)
(* asking is armed: PtsWaiter's 1s wait for skipped pts, provided that     *)
(* every update counts.                                                    *)
THEOREM GapsAreWaitedFor ==
  ASSUME 0 \notin Counts
  PROVE  Spec => []GapIsWaitedFor
  <1>1. Init => GapIsWaitedFor
    BY DEF Init, GapIsWaitedFor
  <1>2. /\ TypeOK /\ IInv /\ AllCount /\ GapIsWaitedFor
        /\ [Next]_vars
        => GapIsWaitedFor'
    <2> SUFFICES ASSUME TypeOK, IInv, AllCount, GapIsWaitedFor, [Next]_vars
                 PROVE  GapIsWaitedFor'
      OBVIOUS
    <2>1. ASSUME NEW m \in net, NEW u \in log, ReceiveAffected(m, u)
          PROVE  GapIsWaitedFor'
      BY <2>1, HandedGap DEF ReceiveAffected, Handed, AllCount
    <2>2. ASSUME NEW u \in feeding, FeedUpdate(u) PROVE GapIsWaitedFor'
      BY <2>2, HandedGap DEF FeedUpdate, Handed, AllCount, IInv, NetInv
    <2>3. CASE \E m \in net : DifferenceDone(m) \/ DifferenceSlice(m)
      BY <2>3 DEF DifferenceDone, DifferenceSlice, Merge, InitTo,
                  GapIsWaitedFor
    <2>4. CASE GetDifference
      BY <2>4 DEF GetDifference, GapIsWaitedFor
    <2>5. CASE NewSession \/ GetDifferenceAfterFail
      BY <2>5 DEF NewSession, GetDifference, GetDifferenceAfterFail,
                  GapIsWaitedFor, IInv, RetryNeverOverlaps
    <2>6. CASE UNCHANGED waiterVars
      BY <2>6 DEF waiterVars, GapIsWaitedFor
    <2>7. CASE Server
      BY <2>6, <2>7 DEF Server, Publish, Group, TooLong, DropResult, Answer
    <2>8. CASE Client
      BY <2>1, <2>2, <2>3, <2>4, <2>5, <2>6, <2>8
         DEF Client, Receive, ReceiveTooLong, FeedNotLoaded,
             GetDifferenceByPts, MinChannelTimer, DifferenceFail
    <2> QED
      BY <2>6, <2>7, <2>8 DEF Next, vars
  <1> QED
    BY <1>1, <1>2, Invariant, AllCountInv, PTL DEF Spec

(* Outside of a difference updates take effect in the order of the stream. *)
THEOREM UpdatesApplyInOrder ==
  ASSUME 0 \notin Counts
  PROVE  Spec => AppliedInOrder
  <1> DEFINE InOrder ==
        ~requesting =>
          \A u \in applied' \ applied : u.by # "affected" =>
            \A v \in log : v.count > 0 /\ v.pts < u.pts => v \in applied'
  <1>1. ASSUME TypeOK, IInv, IInv', AllCount, NEW u \in log, Handed(u),
               UNCHANGED log, ~requesting,
               u.by = "affected" \/ UpdateAndApply(u),
               NEW w \in applied' \ applied, w.by # "affected",
               NEW v \in log, v.count > 0, v.pts < w.pts
        PROVE  v \in applied'
    <2>1. /\ u \in Update /\ v \in Update /\ good \in Nat /\ last \in Nat
          /\ Inited /\ u.count > 0 /\ u.count # 0
      BY <1>1 DEF TypeOK, IInv, CountersInv, Inited, AllCount, Update
    <2>2. w \in queue \cup {u}
      BY <1>1, HandedMoves DEF IInv
    <2>3. CASE Known(u)
      BY <1>1, <2>1, <2>2, <2>3
         DEF Handed, UpdateAndApply, CountAndRelease, Passes, GapBefore,
             WaitingAfter
    <2>4. CASE ~Known(u) /\ ~Complete(u)
      BY <1>1, <2>1, <2>2, <2>4
         DEF Handed, UpdateAndApply, CountAndRelease, Passes, GapBefore,
             WaitingAfter
    <2>5. CASE ~Known(u) /\ Complete(u)
      <3>1. good' = Larger(last, u.pts)
        BY <1>1, <2>1, <2>5, HandedMoves DEF IInv
      <3>2. w \in Update /\ w.pts <= Larger(last, u.pts)
        BY <1>1, <2>1, <2>2 DEF IInv, HeldIsAhead, Larger, TypeOK, Update
      <3>3. v.pts <= good'
        BY <1>1, <2>1, <3>1, <3>2 DEF Larger, Update
      <3> QED
        BY <1>1, <3>3 DEF IInv, NoUpdateLost
    <2> QED
      BY <2>3, <2>4, <2>5
  <1>2. TypeOK /\ IInv /\ IInv' /\ AllCount /\ [Next]_vars => [InOrder]_vars
    <2> SUFFICES ASSUME TypeOK, IInv, IInv', AllCount, Next, ~requesting
                 PROVE  InOrder
      OBVIOUS
    <2>1. ASSUME NEW m \in net, NEW u \in log, ReceiveAffected(m, u)
          PROVE  InOrder
      BY <1>1, <2>1 DEF ReceiveAffected, Handed, IInv, NetInv
    <2>2. ASSUME NEW u \in feeding, FeedUpdate(u) PROVE InOrder
      BY <1>1, <2>2 DEF FeedUpdate, Handed, IInv, NetInv
    <2>3. CASE \E m \in net : DifferenceDone(m) \/ DifferenceSlice(m)
      BY <2>3 DEF DifferenceDone, DifferenceSlice, MayArrive, IInv, NetInv,
                  RetryNeverOverlaps
    <2>4. CASE UNCHANGED applied
      BY <2>4
    <2>5. CASE Server
      BY <2>4, <2>5 DEF Server, Publish, Group, TooLong, DropResult, Answer,
                        waiterVars
    <2>6. CASE Client
      BY <2>1, <2>2, <2>3, <2>4, <2>6
         DEF Client, Receive, ReceiveTooLong, FeedNotLoaded, NewSession,
             GetDifferenceByPts, MinChannelTimer, DifferenceFail,
             GetDifferenceAfterFail, GetDifference, waiterVars
    <2> QED
      BY <2>5, <2>6 DEF Next
  <1> QED
    BY <1>2, Invariant, AllCountInv, PTL DEF Spec, AppliedInOrder

-----------------------------------------------------------------------------
(* The client implements SyncedLog.                                        *)

(* Every step of the client is a step of SyncedLog or stutters.            *)
LEMMA StepRefines ==
  ASSUME TypeOK, IInv, TypeOK', IInv', [Next]_vars
  PROVE  [Abstract!Next]_<<log, applied, good>>
  <1>1. ASSUME NEW c \in Counts, NEW by \in Sources, Publish(c, by)
        PROVE  Abstract!Next
    <2>1. PICK u : u = [pts |-> serverPts + c, count |-> c, by |-> by]
      OBVIOUS
    <2>2. /\ u \notin log /\ log' = log \cup {u}
          /\ UNCHANGED <<applied, good>>
      BY <1>1, <2>1 DEF Publish, waiterVars
    <2>3. u.count > 0 => u.pts > good
      <3>1. /\ u.pts = serverPts + c /\ u.count = c /\ c \in Nat
            /\ serverPts \in Nat /\ good \in Nat /\ last \in Nat
            /\ good <= last /\ last <= serverPts
        BY <2>1, CountsAssumption DEF TypeOK, IInv, CountersInv
      <3> QED
        BY <3>1
    <2>4. u \in log' /\ Abstract!Publish(u)
      BY <2>2, <2>3 DEF Abstract!Publish
    <2> QED
      BY <2>4 DEF Abstract!Next
  <1>2. ASSUME UNCHANGED log, applied \subseteq applied', good <= good'
        PROVE  Abstract!Next
    <2>1. applied' \ applied \subseteq log /\ good' >= good
      BY <1>2 DEF IInv, CountersInv, TypeOK
    <2>2. applied' = applied \cup (applied' \ applied)
      BY <1>2
    <2>3. \A u \in log : u.count > 0 /\ u.pts <= good' => u \in applied'
      BY <1>2 DEF IInv, NoUpdateLost
    <2>4. Abstract!See(applied' \ applied, good')
      BY <1>2, <2>1, <2>2, <2>3 DEF Abstract!See
    <2> QED
      BY <2>4 DEF Abstract!Next
  <1>3. ASSUME NEW u \in log, Handed(u), UNCHANGED log
        PROVE  Abstract!Next
    <2>1. /\ u \in Update /\ good \in Nat /\ last \in Nat /\ good <= last
          /\ ~requesting => Inited
      BY DEF TypeOK, IInv, CountersInv, Inited
    <2>2. good <= good'
      BY <1>3, <2>1, HandedMoves DEF IInv, Larger, Update
    <2> QED
      BY <1>2, <1>3, <2>2, HandedMoves DEF IInv
  <1>4. CASE UNCHANGED <<log, applied, good>>
    BY <1>4
  <1>5. CASE Server
    BY <1>1, <1>4, <1>5
       DEF Server, Group, TooLong, DropResult, Answer, waiterVars
  <1>6. CASE \E m \in net : DifferenceDone(m) \/ DifferenceSlice(m)
    BY <1>2, <1>6 DEF DifferenceDone, DifferenceSlice, Merge, InitTo, IInv,
                      NetInv
  <1>7. CASE Client
    BY <1>3, <1>4, <1>6, <1>7
       DEF Client, Receive, ReceiveTooLong, FeedNotLoaded, NewSession,
           GetDifferenceByPts, MinChannelTimer, DifferenceFail,
           GetDifferenceAfterFail, GetDifference, waiterVars,
           ReceiveAffected, FeedUpdate, Handed, IInv, NetInv
  <1> QED
    BY <1>4, <1>5, <1>7 DEF Next, vars, waiterVars

(* Api::Updates keeps the promise of SyncedLog: the counter only grows,    *)
(* and never past an update that has not been applied.                     *)
THEOREM ImplementsSyncedLog == Spec => AbstractSpec
  <1>1. Init => Abstract!Init
    BY DEF Init, Abstract!Init
  <1> QED
    BY <1>1, StepRefines, Invariant, PTL DEF Spec, AbstractSpec, Abstract!Spec
=============================================================================
