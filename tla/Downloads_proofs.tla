------------------------- MODULE Downloads_proofs -------------------------
(***************************************************************************)
(* Proofs about Downloads, for any number of files, parts and sessions:    *)
(* the types, the balance of the sessions, and that no part of a file is   *)
(* lost.                                                                   *)
(*                                                                         *)
(* The handlers are functions on the record mgr that call each other, so   *)
(* most lemmas say what one of these functions makes of a sound manager.   *)
(***************************************************************************)
EXTENDS Downloads, FiniteSetTheorems, TLAPS

-----------------------------------------------------------------------------
(* The manager.                                                            *)

Statuses == {"new", "loading", "done", "failed", "gone"}

Managers ==
  [sessions : Seq(Sessions), total : Nat, timeouts : 0 .. RemoveTimeouts - 1,
   removeIndex : 0 .. MaxSessions, removeTimes : 0 .. MaxRemoves,
   removed : BOOLEAN, kill : BOOLEAN, queue : Seq(Tasks),
   status : [Tasks -> Statuses], next : [Tasks -> 0 .. Parts],
   sent : [Tasks -> SUBSET Requests],
   unchecked : [Tasks -> SUBSET (Offsets \X (1 .. MaxSessions))],
   hashes : [Tasks -> SUBSET Offsets], token : [Tasks -> Tokens],
   posted : [Tasks -> BOOLEAN], fed : [Tasks -> SUBSET Offsets],
   orphaned : [Tasks -> BOOLEAN], clash : BOOLEAN]

Typed(d) == d \in Managers /\ Len(d.sessions) \in 1 .. MaxSessions

(* What asking for parts leaves alone.                                     *)
SameFiles(d, e) ==
  /\ e.queue = d.queue /\ e.status = d.status /\ e.unchecked = d.unchecked
  /\ e.hashes = d.hashes /\ e.token = d.token /\ e.posted = d.posted
  /\ e.fed = d.fed /\ e.orphaned = d.orphaned /\ e.clash = d.clash
  /\ Len(e.sessions) = Len(d.sessions)

(* A part is waited for in a session there is, and one that was taken from *)
(* its file; a request is the only one for its place, and one of hashes    *)
(* the only one of its file, for a part that waits for them.               *)
Placed(d) ==
  \A t \in Tasks :
    /\ \A r \in d.sent[t] : r.session \in 1 .. Len(d.sessions) /\ r.offset < d.next[t]
    /\ \A part \in d.unchecked[t] :
         part[2] \in 1 .. Len(d.sessions) /\ part[1] < d.next[t]
    /\ \A r, s \in d.sent[t] : r.offset = s.offset => r = s
    /\ \A r, s \in d.sent[t] : r.kind = "hashes" /\ s.kind = "hashes" => r = s
    /\ \A r \in d.sent[t] : r.kind = "hashes" =>
         \E part \in d.unchecked[t] : part[1] = r.offset

(* The last session is charged x more while its requests are moved.        *)
Counted(d, x) ==
  /\ \A i \in 1 .. Len(d.sessions) :
       d.sessions[i].requested =
         Cardinality(InSession(d, i)) + (IF i = Len(d.sessions) THEN x ELSE 0)
  /\ d.total = Cardinality(Asked(d))
  /\ d.kill => d.total = 0

Idle(d) ==
  \A t \in Tasks :
    /\ d.status[t] # "loading" => d.sent[t] = {} /\ d.unchecked[t] = {}
    /\ d.status[t] = "new" => d.next[t] = 0
    /\ d.status[t] = "done" => d.next[t] = Parts

(* No part is lost, but for the places of M, that a handler works on.      *)
Kept(d, M) ==
  \A t \in Tasks : d.status[t] \in {"loading", "done"} =>
    \A o \in 0 .. d.next[t] - 1 :
      \/ o \in d.fed[t]
      \/ <<t, o>> \in M
      \/ \E r \in d.sent[t] : r.offset = o
      \/ \E part \in d.unchecked[t] : part[1] = o

(* Hashes are asked for, but for the files of H.                           *)
HashesKnown(d, H) ==
  \A t \in Tasks : d.unchecked[t] # {} =>
    \/ t \in H
    \/ d.posted[t]
    \/ d.orphaned[t]
    \/ \E r \in d.sent[t] : r.kind = "hashes"

Sound(d, x, M, H) ==
  /\ Typed(d) /\ Placed(d) /\ Counted(d, x) /\ Idle(d)
  /\ Kept(d, M) /\ HashesKnown(d, H)

InQueue(d) ==
  \A t \in Tasks : d.status[t] = "loading" => \E i \in DOMAIN d.queue : d.queue[i] = t

-----------------------------------------------------------------------------
(* Sets and folds.                                                         *)

LEMMA SmallestExists ==
  ASSUME NEW S \in SUBSET Nat, S # {}
  PROVE  \E x \in S : \A y \in S : x <= y
  <1>1. PICK x \in S : \A y \in S : <<y, x>> \notin OpToRel(<, Nat)
    BY NatLessThanWellFounded, WFMin, Zenon
  <1>2. \A y \in S : ~(y < x)
    BY <1>1 DEF OpToRel
  <1> QED
    BY <1>2

(* A set without which each of its elements is no longer one of B.         *)
LEMMA MinimalSet ==
  ASSUME NEW S, IsFiniteSet(S), NEW B \in SUBSET SUBSET S, B # {}
  PROVE  \E s \in B : \A x \in s : s \ {x} \notin B
  <1> DEFINE N == {n \in Nat : \E s \in B : Cardinality(s) = n}
  <1>1. \A s \in B : IsFiniteSet(s) /\ Cardinality(s) \in Nat
    BY FS_Subset, FS_CardinalityType
  <1>2. N # {} /\ N \in SUBSET Nat
    BY <1>1
  <1>3. PICK n \in N : \A m \in N : n <= m
    <2> HIDE DEF N
    <2> QED
      BY <1>2, SmallestExists
  <1>4. PICK s \in B : Cardinality(s) = n
    BY <1>3
  <1>5. ASSUME NEW x \in s, s \ {x} \in B
        PROVE  FALSE
    <2>1. Cardinality(s \ {x}) = Cardinality(s) - 1
      BY <1>1, FS_RemoveElement
    <2>2. Cardinality(s \ {x}) \in N
      BY <1>1, <1>5
    <2>3. n <= Cardinality(s \ {x})
      BY <1>3, <2>2
    <2> QED
      BY <1>1, <1>4, <2>1, <2>3
  <1> QED
    BY <1>5

(* What sending parts may change: files that are in the queue and have     *)
(* parts left.                                                             *)
OnlySends(d, e) ==
  /\ e.queue = d.queue /\ e.status = d.status /\ e.unchecked = d.unchecked
  /\ e.hashes = d.hashes /\ e.token = d.token /\ e.posted = d.posted
  /\ e.fed = d.fed /\ e.orphaned = d.orphaned
  /\ Len(e.sessions) = Len(d.sessions)
  /\ d.clash => e.clash
  /\ \A u \in Tasks :
       /\ d.next[u] = Parts => e.next[u] = Parts /\ e.sent[u] = d.sent[u]
       /\ \A r \in e.sent[u] : r \in d.sent[u] \/ r.kind = "part"

(* What moving requests may change; unless too much is requested, there is *)
(* always another session than the last one.                               *)
OnlyMoves(d, e) ==
  /\ e.queue = d.queue /\ e.status = d.status /\ e.next = d.next
  /\ Len(e.sessions) = Len(d.sessions) /\ e.total <= d.total
  /\ d.clash => e.clash
  /\ d.total <= Charge /\ ~d.clash => ~e.clash

LeftBehind(d, t, session) ==
  \/ \E r \in d.sent[t] : r.session = session
  \/ \E part \in d.unchecked[t] : part[2] = session

(* The folds of the handlers: what is done with x, which is a request, a   *)
(* part, or a place in the queue; t is a file or, for "task", a session.   *)
FoldStep(how, d, t, x, e) ==
  IF how = "cancel" THEN CancelRequest(t, e, x)
  ELSE IF how = "move" THEN MoveRequest(t, e, x)
  ELSE IF how = "finish" THEN Finish(e, t, x)
  ELSE IF how = "again" THEN Place(e, t, "part", x.offset, x.session)
  ELSE IF how = "feed" THEN Feed([e EXCEPT !.unchecked[t] = @ \ {x}], t, x[1])
  ELSE IF how = "task" THEN MoveTask(e, d.queue[x], t)
  ELSE TrySendNext(e)

Picked(how, s) == IF how = "task" THEN Max(s) ELSE CHOOSE x \in s : TRUE

IsFold(F, S, base, how, d, t) ==
  F = [s \in SUBSET S |->
         IF s = {} THEN base
         ELSE FoldStep(how, d, t, Picked(how, s), F[s \ {Picked(how, s)}])]

(* What holds of each of them when the elements of s are dealt with.       *)
HeldWhileCancelled(d, t, x, M, H, s, e) ==
  /\ Sound(e, x, M, H)
  /\ e.queue = d.queue /\ e.status = d.status /\ e.next = d.next
  /\ e.unchecked = d.unchecked /\ e.clash = d.clash
  /\ Len(e.sessions) = Len(d.sessions)
  /\ e.sent[t] = d.sent[t] \ s

HeldWhileFinished(d, t, x, M, H, s, e) ==
  /\ Sound(e, x, M, H) /\ SameFiles(d, e) /\ e.next = d.next
  /\ e.sent[t] = d.sent[t] \ s
  /\ \A u \in Tasks : u # t => e.sent[u] = d.sent[u]

HeldWhileMoved(d, t, x, M, H, s, e) ==
  /\ Sound(e, x, M, H) /\ OnlyMoves(d, e)
  /\ e.unchecked = d.unchecked
  /\ \A u \in Tasks : u # t => e.sent[u] = d.sent[u]
  /\ \A r \in d.sent[t] :
       r.session = Len(d.sessions) /\ r \notin s => r \in e.sent[t]
  /\ ~e.clash => \A r \in e.sent[t] :
       r.session = Len(d.sessions) => r \in d.sent[t] /\ r \notin s

HeldWhileAgain(d, t, x, M, H, s, e) ==
  /\ Sound(e, x, M, H) /\ SameFiles(d, e) /\ e.next = d.next
  /\ \A u \in Tasks : u # t => e.sent[u] = d.sent[u]
  /\ \A r \in s : \E q \in e.sent[t] : q.offset = r.offset
  /\ \A q \in e.sent[t] : q.kind = "part" /\ \E r \in s : q.offset = r.offset

HeldWhileFed(d, t, x, M, H, s, e) ==
  /\ Sound(e, x, M, H) /\ InQueue(e)
  /\ e.unchecked[t] = d.unchecked[t] \ s /\ e.clash = d.clash
  /\ e.status[t] \in {"loading", "done"}
  /\ \A r \in e.sent[t] : r.kind # "hashes"

HeldWhileTasks(d, t, x, M, H, s, e) ==
  /\ Sound(e, x, M, H) /\ OnlyMoves(d, e)
  /\ ~e.clash => \A i \in s : ~LeftBehind(e, d.queue[i], t)

HeldWhileSent(d, t, x, M, H, s, e) ==
  /\ Typed(e) /\ OnlySends(d, e)
  /\ Sound(d, x, M, H) => Sound(e, x, M, H) /\ e.clash = d.clash

Held(how, d, t, x, M, H, s, e) ==
  /\ how = "cancel" => HeldWhileCancelled(d, t, x, M, H, s, e)
  /\ how = "move" => HeldWhileMoved(d, t, x, M, H, s, e)
  /\ how = "finish" => HeldWhileFinished(d, t, x, M, H, s, e)
  /\ how = "again" => HeldWhileAgain(d, t, x, M, H, s, e)
  /\ how = "feed" => HeldWhileFed(d, t, x, M, H, s, e)
  /\ how = "task" => HeldWhileTasks(d, t, x, M, H, s, e)
  /\ how = "next" => HeldWhileSent(d, t, x, M, H, s, e)

Picks(how, S) == \A s \in SUBSET S : s # {} => Picked(how, s) \in s

LEMMA FoldExists ==
  ASSUME NEW S, IsFiniteSet(S), NEW base, NEW how, NEW d, NEW t, Picks(how, S)
  PROVE  \E F : IsFold(F, S, base, how, d, t)
  <1> DEFINE D(n) == {s \in SUBSET S : Cardinality(s) <= n}
             Op(y, e) == FoldStep(how, d, t, y, e)
             Pick(s) == Picked(how, s)
             Upto(g, n) == g = [s \in D(n) |->
                                  IF s = {} THEN base
                                  ELSE Op(Pick(s), g[s \ {Pick(s)}])]
             Failing == {n \in Nat : ~\E g : Upto(g, n)}
  <1>1. \A s \in SUBSET S : IsFiniteSet(s) /\ Cardinality(s) \in Nat
    BY FS_Subset, FS_CardinalityType
  <1>2. \A s \in SUBSET S : s # {} =>
          /\ Pick(s) \in s /\ s \ {Pick(s)} \in SUBSET S
          /\ Cardinality(s \ {Pick(s)}) = Cardinality(s) - 1
    <2> SUFFICES ASSUME NEW s \in SUBSET S, s # {}
                 PROVE  /\ Pick(s) \in s /\ s \ {Pick(s)} \in SUBSET S
                        /\ Cardinality(s \ {Pick(s)}) = Cardinality(s) - 1
      OBVIOUS
    <2>1. Pick(s) \in s
      BY DEF Picks
    <2> HIDE DEF Pick
    <2> QED
      BY <1>1, <2>1, FS_RemoveElement
  <1> HIDE DEF Op, Pick
  <1>3. Failing = {}
    <2> SUFFICES ASSUME Failing # {} PROVE FALSE
      OBVIOUS
    <2>1. Failing \in SUBSET Nat
      OBVIOUS
    <2>2. PICK n \in Failing : \A m \in Failing : n <= m
      <3> HIDE DEF Failing
      <3> QED
        BY <2>1, SmallestExists
    <2>3. n \in Nat /\ ~\E g : Upto(g, n)
      BY <2>2
    <2>4. CASE n = 0
      <3> DEFINE g == [s \in D(0) |-> base]
      <3>1. \A s \in D(0) : s = {}
        <4> SUFFICES ASSUME NEW s \in D(0) PROVE s = {}
          OBVIOUS
        <4>1. Cardinality(s) = 0
          BY <1>1
        <4> QED
          BY <1>1, <4>1, FS_EmptySet
      <3>2. [s \in D(0) |-> base] =
              [s \in D(0) |-> IF s = {} THEN base
                              ELSE Op(Pick(s), g[s \ {Pick(s)}])]
        BY <3>1
      <3>3. Upto(g, 0)
        BY <3>2
      <3> QED
        BY <2>3, <2>4, <3>3
    <2>5. CASE n # 0
      <3>1. n - 1 \in Nat /\ n - 1 \notin Failing
        <4>1. n - 1 \in Nat /\ ~(n <= n - 1)
          BY <2>3, <2>5
        <4> HIDE DEF Failing
        <4> QED
          BY <2>2, <4>1
      <3>2. PICK g : Upto(g, n - 1)
        BY <3>1
      <3> DEFINE f == [s \in D(n) |->
                         IF s \in D(n - 1) THEN g[s]
                         ELSE Op(Pick(s), g[s \ {Pick(s)}])]
      <3>3. \A s \in D(n) : s # {} => s \ {Pick(s)} \in D(n - 1)
        BY <1>1, <1>2, <2>3
      <3>4. \A s \in D(n - 1) : s \in D(n)
        BY <1>1, <2>3
      <3>5. {} \in D(n - 1)
        BY <3>1, FS_EmptySet
      <3>6. \A s \in D(n - 1) :
              g[s] = IF s = {} THEN base ELSE Op(Pick(s), g[s \ {Pick(s)}])
        BY <3>2
      <3> HIDE DEF D
      <3>7. \A s \in D(n - 1) : f[s] = g[s]
        BY <3>4
      <3>8. \A s \in D(n) :
              f[s] = IF s = {} THEN base ELSE Op(Pick(s), f[s \ {Pick(s)}])
        <4> SUFFICES ASSUME NEW s \in D(n)
                     PROVE  f[s] = IF s = {} THEN base
                                   ELSE Op(Pick(s), f[s \ {Pick(s)}])
          OBVIOUS
        <4>1. s # {} => f[s \ {Pick(s)}] = g[s \ {Pick(s)}]
          BY <3>3, <3>7
        <4>2. CASE s \in D(n - 1)
          BY <3>6, <3>7, <4>1, <4>2
        <4>3. CASE s \notin D(n - 1)
          BY <3>5, <4>1, <4>3
        <4> QED
          BY <4>2, <4>3
      <3>9. DOMAIN f = D(n) /\ f = [s \in D(n) |-> f[s]]
        OBVIOUS
      <3> HIDE DEF f
      <3>10. f = [s \in D(n) |-> IF s = {} THEN base
                                 ELSE Op(Pick(s), f[s \ {Pick(s)}])]
        BY <3>8, <3>9
      <3> QED
        BY <2>3, <3>10
    <2> QED
      BY <2>4, <2>5
  <1>4. Cardinality(S) \in Nat /\ S \in SUBSET S
    BY <1>1
  <1>5. PICK g : Upto(g, Cardinality(S))
    BY <1>3, <1>4
  <1>6. D(Cardinality(S)) = SUBSET S
    <2>1. \A s \in SUBSET S : Cardinality(s) <= Cardinality(S)
      BY FS_Subset
    <2> QED
      BY <2>1
  <1>7. g = [s \in SUBSET S |-> IF s = {} THEN base
                                ELSE Op(Pick(s), g[s \ {Pick(s)}])]
    BY <1>5, <1>6
  <1> QED
    BY <1>7 DEF Op, Pick, IsFold

(* What each step keeps holds of the whole.                                *)
LEMMA FoldHolds ==
  ASSUME NEW S, IsFiniteSet(S), NEW base, NEW how, NEW d, NEW t, Picks(how, S),
         NEW x, NEW M, NEW H, NEW F, IsFold(F, S, base, how, d, t),
         Held(how, d, t, x, M, H, {}, base),
         \A s \in SUBSET S, y \in S : \A e :
           y \notin s /\ Held(how, d, t, x, M, H, s, e) =>
             Held(how, d, t, x, M, H, s \cup {y}, FoldStep(how, d, t, y, e))
  PROVE  Held(how, d, t, x, M, H, S, F[S])
  <1> DEFINE B == {s \in SUBSET S : ~Held(how, d, t, x, M, H, s, F[s])}
             Pick(s) == Picked(how, s)
             Op(y, e) == FoldStep(how, d, t, y, e)
  <1>1. \A s \in SUBSET S :
          F[s] = IF s = {} THEN base ELSE Op(Pick(s), F[s \ {Pick(s)}])
    BY DEF IsFold
  <1>2. \A s \in SUBSET S : s # {} => Pick(s) \in s
    BY DEF Picks
  <1>3. \A s \in SUBSET S, y \in S : \A e :
           y \notin s /\ Held(how, d, t, x, M, H, s, e) =>
             Held(how, d, t, x, M, H, s \cup {y}, Op(y, e))
    OBVIOUS
  <1> HIDE DEF Pick, Op
  <1>4. B = {}
    <2> SUFFICES ASSUME B # {} PROVE FALSE
      OBVIOUS
    <2>1. PICK s \in B : \A y \in s : s \ {y} \notin B
      <3>1. B \in SUBSET SUBSET S
        OBVIOUS
      <3> HIDE DEF B
      <3> QED
        BY <3>1, MinimalSet
    <2>2. s \in SUBSET S /\ ~Held(how, d, t, x, M, H, s, F[s])
      BY <2>1
    <2>3. s # {}
      BY <1>1, <2>2
    <2>4. /\ Pick(s) \in s /\ Pick(s) \in S
          /\ s \ {Pick(s)} \in SUBSET S /\ Pick(s) \notin s \ {Pick(s)}
          /\ (s \ {Pick(s)}) \cup {Pick(s)} = s
      BY <1>2, <2>2, <2>3
    <2>5. Held(how, d, t, x, M, H, s \ {Pick(s)}, F[s \ {Pick(s)}])
      BY <2>1, <2>4
    <2>6. F[s] = Op(Pick(s), F[s \ {Pick(s)}])
      BY <1>1, <2>2, <2>3
    <2>7. Held(how, d, t, x, M, H, (s \ {Pick(s)}) \cup {Pick(s)},
               Op(Pick(s), F[s \ {Pick(s)}]))
      BY <1>3, <2>4, <2>5
    <2> QED
      BY <2>2, <2>4, <2>6, <2>7
  <1>5. S \in SUBSET S
    OBVIOUS
  <1> QED
    BY <1>4, <1>5

-----------------------------------------------------------------------------
(* Sessions and what is requested in them.                                 *)

LEMMA ConstantsAre ==
  /\ Parts \in Nat \ {0} /\ StartWaited \in Nat \ {0} /\ MaxWaited \in Nat \ {0}
  /\ MaxSessions \in Nat \ {0} /\ RetrySuccesses \in Nat \ {0}
  /\ RemoveTimeouts \in Nat \ {0} /\ MaxRemoves \in Nat \ {0}
  /\ StartWaited <= MaxWaited /\ MaxTimeouts \in Nat /\ MaxTroubles \in Nat
  /\ IsFiniteSet(Tasks) /\ CdnTasks \subseteq Tasks
  BY SizesAssumption

LEMMA ChargeIs == Charge \in Nat
  <1>1. MaxWaited \in Nat /\ MaxSessions \in Nat
    BY ConstantsAre
  <1> QED
    BY <1>1 DEF Charge

LEMMA NewSessionIs == NewSession \in Sessions
  BY ConstantsAre DEF NewSession, Sessions

(* Of some sessions there is a first one in which the least is requested.  *)
LEMMA LeastExists ==
  ASSUME NEW ss \in Seq(Sessions), NEW S \in SUBSET DOMAIN ss, S # {}
  PROVE  \E i \in S : \A j \in S :
           \/ ss[i].requested < ss[j].requested
           \/ ss[i].requested = ss[j].requested /\ i <= j
  <1> DEFINE Amounts == {ss[i].requested : i \in S}
  <1>1. \A i \in S : i \in Nat /\ ss[i].requested \in Nat
    <2>1. \A i \in S : i \in Nat /\ ss[i] \in Sessions
      OBVIOUS
    <2>2. \A one \in Sessions : one.requested \in Nat
      BY DEF Sessions
    <2> QED
      BY <2>1, <2>2
  <1>2. PICK least \in Amounts : \A a \in Amounts : least <= a
    <2>1. Amounts \in SUBSET Nat /\ Amounts # {}
      BY <1>1
    <2> HIDE DEF Amounts
    <2> QED
      BY <2>1, SmallestExists
  <1> DEFINE First == {i \in S : ss[i].requested = least}
  <1>3. PICK i \in First : \A j \in First : i <= j
    <2>1. First \in SUBSET Nat /\ First # {}
      BY <1>1, <1>2
    <2> HIDE DEF First
    <2> QED
      BY <2>1, SmallestExists
  <1>4. least \in Nat
    BY <1>1, <1>2
  <1>5. ASSUME NEW j \in S
        PROVE  \/ ss[i].requested < ss[j].requested
               \/ ss[i].requested = ss[j].requested /\ i <= j
    <2>1. ss[i].requested = least /\ least <= ss[j].requested
      BY <1>2, <1>3
    <2>2. ss[j].requested \in Nat
      BY <1>1
    <2> QED
      BY <1>3, <1>4, <2>1, <2>2
  <1> QED
    BY <1>3, <1>5

LEMMA SessionFacts ==
  ASSUME NEW d, Typed(d)
  PROVE  /\ d.sessions \in Seq(Sessions) /\ Len(d.sessions) \in Nat
         /\ Len(d.sessions) \in 1 .. MaxSessions
         /\ DOMAIN d.sessions = 1 .. Len(d.sessions)
         /\ \A i \in 1 .. Len(d.sessions) :
              /\ d.sessions[i] \in Sessions
              /\ d.sessions[i].requested \in Nat /\ d.sessions[i].successes \in Nat
              /\ d.sessions[i].max \in StartWaited .. MaxWaited
  <1>1. d.sessions \in Seq(Sessions) /\ Len(d.sessions) \in 1 .. MaxSessions
    BY DEF Typed, Managers
  <1>2. /\ Len(d.sessions) \in Nat /\ DOMAIN d.sessions = 1 .. Len(d.sessions)
        /\ \A i \in 1 .. Len(d.sessions) : d.sessions[i] \in Sessions
    BY <1>1
  <1>3. \A one \in Sessions :
          /\ one.requested \in Nat /\ one.successes \in Nat
          /\ one.max \in StartWaited .. MaxWaited
    BY DEF Sessions
  <1> QED
    BY <1>1, <1>2, <1>3

(* chooseSessionIndex.                                                     *)
LEMMA ChooseSessionIs ==
  ASSUME NEW d, Typed(d)
  PROVE  /\ ChooseSession(d) \in 1 .. Len(d.sessions)
         /\ \A j \in 1 .. Len(d.sessions) :
              LET i == ChooseSession(d)
              IN  \/ d.sessions[i].requested < d.sessions[j].requested
                  \/ d.sessions[i].requested = d.sessions[j].requested /\ i <= j
  <1>1. /\ d.sessions \in Seq(Sessions) /\ DOMAIN d.sessions = 1 .. Len(d.sessions)
        /\ 1 \in DOMAIN d.sessions
    BY SessionFacts
  <1>2. \E i \in DOMAIN d.sessions : \A j \in DOMAIN d.sessions :
           \/ d.sessions[i].requested < d.sessions[j].requested
           \/ d.sessions[i].requested = d.sessions[j].requested /\ i <= j
    BY <1>1, LeastExists
  <1> QED
    BY <1>1, <1>2 DEF ChooseSession

LEMMA BestSessionIs ==
  ASSUME NEW d, Typed(d)
  PROVE  BestSession(d) = 0 \/ BestSession(d) \in 1 .. Len(d.sessions)
  <1> DEFINE room == {i \in DOMAIN d.sessions : HasRoom(d, i)}
  <1>1. d.sessions \in Seq(Sessions) /\ DOMAIN d.sessions = 1 .. Len(d.sessions)
    BY SessionFacts
  <1>2. CASE room = {}
    BY <1>2 DEF BestSession
  <1>3. CASE room # {}
    <2>1. \E i \in room : \A j \in room :
             \/ d.sessions[i].requested < d.sessions[j].requested
             \/ d.sessions[i].requested = d.sessions[j].requested /\ i <= j
      <3>1. room \in SUBSET DOMAIN d.sessions
        OBVIOUS
      <3> HIDE DEF room
      <3> QED
        BY <1>1, <1>3, <3>1, LeastExists
    <2>2. BestSession(d) \in room
      <3>1. BestSession(d) = CHOOSE i \in room : \A j \in room :
             \/ d.sessions[i].requested < d.sessions[j].requested
             \/ d.sessions[i].requested = d.sessions[j].requested /\ i <= j
        BY <1>3 DEF BestSession
      <3> HIDE DEF room
      <3> QED
        BY <2>1, <3>1
    <2> QED
      BY <1>1, <2>2
  <1> QED
    BY <1>2, <1>3

Charged(d, e, session, delta) ==
  \A i \in 1 .. Len(d.sessions) :
    e.sessions[i].requested =
      d.sessions[i].requested + (IF i = session THEN delta ELSE 0)

AllFree(e) == \A i \in 1 .. Len(e.sessions) : e.sessions[i].requested = 0

(* changeRequestedAmount.                                                  *)
LEMMA ChangeAmountIs ==
  ASSUME NEW d, Typed(d), NEW session \in 1 .. Len(d.sessions), NEW delta \in {1, -1},
         d.sessions[session].requested + delta \in Nat, d.total + delta \in Nat,
         NEW e, e = ChangeAmount(d, session, delta)
  PROVE  /\ Typed(e) /\ SameFiles(d, e) /\ e.next = d.next /\ e.sent = d.sent
         /\ Charged(d, e, session, delta) /\ e.total = d.total + delta
         /\ delta = 1 => ~e.kill
         /\ delta = -1 /\ e.kill => d.kill \/ AllFree(e)
  <1> DEFINE one == [d.sessions[session] EXCEPT !.requested = @ + delta]
             ss == [d.sessions EXCEPT ![session] = one]
             idle == \A i \in 1 .. Len(d.sessions) : ss[i].requested = 0
             kill == IF delta > 0 THEN FALSE ELSE d.kill \/ idle
  <1>1. /\ d.sessions \in Seq(Sessions) /\ Len(d.sessions) \in Nat
        /\ DOMAIN d.sessions = 1 .. Len(d.sessions)
        /\ d.sessions[session] \in Sessions
    BY SessionFacts
  <1>2. d \in Managers
    BY DEF Typed
  <1>3. e = [d EXCEPT !.sessions = ss, !.total = @ + delta, !.kill = kill]
    BY <1>1, <1>2 DEF ChangeAmount, Managers
  <1>4. one \in Sessions /\ one.requested = d.sessions[session].requested + delta
    BY <1>1 DEF Sessions
  <1> HIDE DEF one
  <1>5. /\ ss \in Seq(Sessions) /\ Len(ss) = Len(d.sessions)
        /\ \A i \in 1 .. Len(d.sessions) :
             ss[i] = IF i = session THEN one ELSE d.sessions[i]
    BY <1>1, <1>4
  <1>6. kill \in BOOLEAN
    BY <1>2 DEF Managers
  <1>7. /\ delta = 1 => kill = FALSE
        /\ delta = -1 /\ kill => d.kill \/ idle
    OBVIOUS
  <1>8. \A i \in 1 .. Len(d.sessions) :
          ss[i].requested = d.sessions[i].requested + (IF i = session THEN delta ELSE 0)
    <2>1. \A i \in 1 .. Len(d.sessions) : d.sessions[i].requested \in Nat
      BY SessionFacts
    <2> HIDE DEF ss
    <2> QED
      BY <1>4, <1>5, <2>1
  <1> HIDE DEF ss, kill, idle
  <1>9. /\ e.sessions = ss /\ e.total = d.total + delta /\ e.kill = kill
        /\ e.timeouts = d.timeouts /\ e.removeIndex = d.removeIndex
        /\ e.removeTimes = d.removeTimes /\ e.removed = d.removed
        /\ e.queue = d.queue /\ e.status = d.status /\ e.next = d.next
        /\ e.sent = d.sent /\ e.unchecked = d.unchecked /\ e.hashes = d.hashes
        /\ e.token = d.token /\ e.posted = d.posted /\ e.fed = d.fed
        /\ e.orphaned = d.orphaned /\ e.clash = d.clash
    BY <1>2, <1>3 DEF Managers
  <1>10. e \in Managers
    <2>1. d.total + delta \in Nat
      OBVIOUS
    <2> QED
      BY ONLY <1>2, <1>3, <1>5, <1>6, <2>1, ZenonT(60) DEF Managers
  <1> QED
    BY <1>5, <1>7, <1>8, <1>9, <1>10 DEF Typed, SameFiles, Charged, AllFree, idle

LEMMA PlacesAre ==
  ASSUME NEW d
  PROVE  /\ IsFiniteSet(Asked(d)) /\ Cardinality(Asked(d)) \in Nat
         /\ \A i : /\ IsFiniteSet(InSession(d, i))
                   /\ Cardinality(InSession(d, i)) \in Nat
                   /\ Cardinality(InSession(d, i)) <= Cardinality(Asked(d))
                   /\ InSession(d, i) \subseteq Asked(d)
  <1>1. IsFiniteSet(Tasks \X Offsets)
    <2>1. IsFiniteSet(Tasks) /\ IsFiniteSet(Offsets)
      <3>1. 0 \in Int /\ Parts - 1 \in Int
        BY ConstantsAre
      <3> QED
        BY <3>1, ConstantsAre, FS_Interval DEF Offsets
    <2> QED
      BY <2>1, FS_Product
  <1>2. Asked(d) \in SUBSET (Tasks \X Offsets)
    BY DEF Asked
  <1>3. IsFiniteSet(Asked(d)) /\ Cardinality(Asked(d)) \in Nat
    BY <1>1, <1>2, FS_Subset, FS_CardinalityType
  <1>4. ASSUME NEW i
        PROVE  /\ IsFiniteSet(InSession(d, i))
               /\ Cardinality(InSession(d, i)) \in Nat
               /\ Cardinality(InSession(d, i)) <= Cardinality(Asked(d))
               /\ InSession(d, i) \subseteq Asked(d)
    <2>1. InSession(d, i) \in SUBSET Asked(d)
      BY DEF InSession, Asked
    <2> QED
      BY <1>3, <2>1, FS_Subset, FS_CardinalityType
  <1> QED
    BY <1>3, <1>4

-----------------------------------------------------------------------------
(* Requests that come and go.                                              *)

LEMMA FileFacts ==
  ASSUME NEW d, Typed(d), NEW t \in Tasks
  PROVE  /\ d.sent[t] \in SUBSET Requests
         /\ d.unchecked[t] \in SUBSET (Offsets \X (1 .. MaxSessions))
         /\ d.next[t] \in 0 .. Parts /\ d.status[t] \in Statuses
         /\ d.token[t] \in Tokens /\ d.fed[t] \in SUBSET Offsets
         /\ \A r \in d.sent[t] : r.offset \in Offsets
         /\ \A part \in d.unchecked[t] : part[1] \in Offsets
  <1>1. d \in Managers
    BY DEF Typed
  <1>2. /\ d.sent[t] \in SUBSET Requests
        /\ d.unchecked[t] \in SUBSET (Offsets \X (1 .. MaxSessions))
        /\ d.next[t] \in 0 .. Parts /\ d.status[t] \in Statuses
        /\ d.token[t] \in Tokens /\ d.fed[t] \in SUBSET Offsets
    BY <1>1 DEF Managers
  <1>3. \A r \in Requests : r.offset \in Offsets
    BY DEF Requests
  <1> QED
    BY <1>2, <1>3

MoreAsked(d, e, t, r) ==
  /\ e.sent[t] = d.sent[t] \cup {r}
  /\ \A u \in Tasks : u # t => e.sent[u] = d.sent[u]

LessAsked(d, e, t, r) ==
  /\ e.sent[t] = d.sent[t] \ {r}
  /\ \A u \in Tasks : u # t => e.sent[u] = d.sent[u]

(* The places under way when the request r has come, or has been sent.     *)
PlaceOf(t, r) == <<t, r.offset>>

PlaceIsFree(d, e, t, r) ==
  /\ PlaceOf(t, r) \in Asked(d) /\ PlaceOf(t, r) \in InSession(d, r.session)
  /\ Asked(e) = Asked(d) \ {PlaceOf(t, r)}
  /\ InSession(e, r.session) = InSession(d, r.session) \ {PlaceOf(t, r)}
  /\ \A i : i # r.session => InSession(e, i) = InSession(d, i)

PlaceIsTaken(d, e, t, r) ==
  /\ PlaceOf(t, r) \notin Asked(d) /\ \A i : PlaceOf(t, r) \notin InSession(d, i)
  /\ Asked(e) = Asked(d) \cup {PlaceOf(t, r)}
  /\ InSession(e, r.session) = InSession(d, r.session) \cup {PlaceOf(t, r)}
  /\ \A i : i # r.session => InSession(e, i) = InSession(d, i)

FreeAt(d, t, o) == \A s \in d.sent[t] : s.offset # o

LEMMA AskedLess ==
  ASSUME NEW d, NEW e, Typed(d), Placed(d), NEW t \in Tasks, NEW r \in d.sent[t],
         LessAsked(d, e, t, r)
  PROVE  PlaceIsFree(d, e, t, r)
  <1> DEFINE place == PlaceOf(t, r)
  <1>0. /\ e.sent[t] = d.sent[t] \ {r} /\ place = <<t, r.offset>>
        /\ \A u \in Tasks : u # t => e.sent[u] = d.sent[u]
    BY DEF LessAsked, PlaceOf
  <1> HIDE DEF place
  <1>1. r.offset \in Offsets
    BY FileFacts
  <1>2. \A s \in d.sent[t] : s.offset = r.offset => s = r
    BY DEF Placed
  <1>3. \A p \in Tasks \X Offsets : p = <<p[1], p[2]>>
    OBVIOUS
  <1>4. \A p \in Tasks \X Offsets :
          (\E s \in e.sent[p[1]] : s.offset = p[2]) <=>
            (\E s \in d.sent[p[1]] : s.offset = p[2]) /\ p # place
    <2> SUFFICES ASSUME NEW p \in Tasks \X Offsets
                 PROVE  (\E s \in e.sent[p[1]] : s.offset = p[2]) <=>
                          (\E s \in d.sent[p[1]] : s.offset = p[2]) /\ p # place
      OBVIOUS
    <2>1. p[1] \in Tasks /\ p = <<p[1], p[2]>>
      OBVIOUS
    <2>2. CASE p[1] = t
      <3>1. p = place <=> p[2] = r.offset
        BY <1>0, <2>1, <2>2
      <3> QED
        BY <1>0, <1>2, <2>2, <3>1
    <2>3. CASE p[1] # t
      <3>1. p # place
        BY <1>0, <2>3
      <3> QED
        BY <1>0, <2>1, <2>3, <3>1
    <2> QED
      BY <2>2, <2>3
  <1>5. \A i : \A p \in Tasks \X Offsets :
          (\E s \in e.sent[p[1]] : s.offset = p[2] /\ s.session = i) <=>
            /\ \E s \in d.sent[p[1]] : s.offset = p[2] /\ s.session = i
            /\ p # place \/ i # r.session
    <2> SUFFICES ASSUME NEW i, NEW p \in Tasks \X Offsets
                 PROVE  (\E s \in e.sent[p[1]] : s.offset = p[2] /\ s.session = i) <=>
                          /\ \E s \in d.sent[p[1]] : s.offset = p[2] /\ s.session = i
                          /\ p # place \/ i # r.session
      OBVIOUS
    <2>1. p[1] \in Tasks /\ p = <<p[1], p[2]>>
      OBVIOUS
    <2>2. CASE p[1] = t
      <3>1. p = place <=> p[2] = r.offset
        BY <1>0, <2>1, <2>2
      <3> QED
        BY <1>0, <1>2, <2>2, <3>1
    <2>3. CASE p[1] # t
      <3>1. p # place
        BY <1>0, <2>3
      <3> QED
        BY <1>0, <2>1, <2>3, <3>1
    <2> QED
      BY <2>2, <2>3
  <1>6. place \in Tasks \X Offsets /\ place[1] = t /\ place[2] = r.offset
    BY <1>0, <1>1
  <1>7. place \in Asked(d) /\ place \in InSession(d, r.session)
    BY <1>6 DEF Asked, InSession
  <1>8. Asked(e) = Asked(d) \ {place}
    BY <1>4 DEF Asked
  <1>9. InSession(e, r.session) = InSession(d, r.session) \ {place}
    BY <1>5 DEF InSession
  <1>10. ASSUME NEW i, i # r.session PROVE InSession(e, i) = InSession(d, i)
    BY <1>5, <1>10 DEF InSession
  <1> QED
    BY <1>7, <1>8, <1>9, <1>10 DEF PlaceIsFree, place

LEMMA AskedMore ==
  ASSUME NEW d, NEW e, Typed(d), NEW t \in Tasks, NEW r, r.offset \in Offsets,
         MoreAsked(d, e, t, r), FreeAt(d, t, r.offset)
  PROVE  PlaceIsTaken(d, e, t, r)
  <1> DEFINE place == PlaceOf(t, r)
  <1>0. /\ e.sent[t] = d.sent[t] \cup {r} /\ place = <<t, r.offset>>
        /\ \A u \in Tasks : u # t => e.sent[u] = d.sent[u]
        /\ \A s \in d.sent[t] : s.offset # r.offset
    BY DEF MoreAsked, PlaceOf, FreeAt
  <1> HIDE DEF place
  <1>1. \A p \in Tasks \X Offsets : p = <<p[1], p[2]>>
    OBVIOUS
  <1>2. place \in Tasks \X Offsets /\ place[1] = t /\ place[2] = r.offset
    BY <1>0
  <1>3. \A p \in Tasks \X Offsets :
          (\E s \in e.sent[p[1]] : s.offset = p[2]) <=>
            (\E s \in d.sent[p[1]] : s.offset = p[2]) \/ p = place
    <2> SUFFICES ASSUME NEW p \in Tasks \X Offsets
                 PROVE  (\E s \in e.sent[p[1]] : s.offset = p[2]) <=>
                          (\E s \in d.sent[p[1]] : s.offset = p[2]) \/ p = place
      OBVIOUS
    <2>1. p[1] \in Tasks /\ p = <<p[1], p[2]>>
      OBVIOUS
    <2>2. CASE p[1] = t
      <3>1. p = place <=> p[2] = r.offset
        BY <1>0, <2>1, <2>2
      <3> QED
        BY <1>0, <2>2, <3>1
    <2>3. CASE p[1] # t
      <3>1. p # place
        BY <1>0, <2>3
      <3> QED
        BY <1>0, <2>1, <2>3, <3>1
    <2> QED
      BY <2>2, <2>3
  <1>4. \A i : \A p \in Tasks \X Offsets :
          (\E s \in e.sent[p[1]] : s.offset = p[2] /\ s.session = i) <=>
            \/ \E s \in d.sent[p[1]] : s.offset = p[2] /\ s.session = i
            \/ p = place /\ i = r.session
    <2> SUFFICES ASSUME NEW i, NEW p \in Tasks \X Offsets
                 PROVE  (\E s \in e.sent[p[1]] : s.offset = p[2] /\ s.session = i) <=>
                          \/ \E s \in d.sent[p[1]] : s.offset = p[2] /\ s.session = i
                          \/ p = place /\ i = r.session
      OBVIOUS
    <2>1. p[1] \in Tasks /\ p = <<p[1], p[2]>>
      OBVIOUS
    <2>2. CASE p[1] = t
      <3>1. p = place <=> p[2] = r.offset
        BY <1>0, <2>1, <2>2
      <3> QED
        BY <1>0, <2>2, <3>1
    <2>3. CASE p[1] # t
      <3>1. p # place
        BY <1>0, <2>3
      <3> QED
        BY <1>0, <2>1, <2>3, <3>1
    <2> QED
      BY <2>2, <2>3
  <1>5. place \notin Asked(d) /\ \A i : place \notin InSession(d, i)
    BY <1>0, <1>2 DEF Asked, InSession
  <1>6. Asked(e) = Asked(d) \cup {place}
    BY <1>2, <1>3 DEF Asked
  <1>7. InSession(e, r.session) = InSession(d, r.session) \cup {place}
    BY <1>2, <1>4 DEF InSession
  <1>8. ASSUME NEW i, i # r.session PROVE InSession(e, i) = InSession(d, i)
    BY <1>4, <1>8 DEF InSession
  <1> QED
    BY <1>5, <1>6, <1>7, <1>8 DEF PlaceIsTaken, place

(* More may be excused.                                                    *)
LEMMA SoundMore ==
  ASSUME NEW d, NEW x, NEW M, NEW H, Sound(d, x, M, H), NEW M2, NEW H2,
         M \subseteq M2, H \subseteq H2
  PROVE  Sound(d, x, M2, H2)
  BY DEF Sound, Kept, HashesKnown

(* What a sound manager is apart from its amounts stays sound when files   *)
(* are given more, and sessions are added.                                 *)
LEMMA SoundStays ==
  ASSUME NEW d, NEW x, NEW M, NEW H, Sound(d, x, M, H), NEW e, Typed(e),
         e.sent = d.sent, e.unchecked = d.unchecked, e.status = d.status,
         e.next = d.next, e.total = d.total, e.kill = d.kill,
         \A t \in Tasks : /\ d.fed[t] \subseteq e.fed[t]
                          /\ d.posted[t] => e.posted[t]
                          /\ d.orphaned[t] => e.orphaned[t],
         Len(e.sessions) = Len(d.sessions) \/ x = 0,
         Len(e.sessions) >= Len(d.sessions),
         \A i \in 1 .. Len(d.sessions) : e.sessions[i].requested = d.sessions[i].requested,
         \A i \in 1 .. Len(e.sessions) :
           i > Len(d.sessions) => e.sessions[i].requested = 0
  PROVE  Sound(e, x, M, H)
  <1>1. Len(d.sessions) \in Nat /\ Len(e.sessions) \in Nat
    BY SessionFacts DEF Sound
  <1>2. Asked(e) = Asked(d) /\ \A i : InSession(e, i) = InSession(d, i)
    BY DEF Asked, InSession
  <1>3. Placed(e)
    <2>1. \A i \in 1 .. Len(d.sessions) : i \in 1 .. Len(e.sessions)
      BY <1>1
    <2>2. Placed(d)
      BY DEF Sound
    <2> QED
      BY <2>1, <2>2 DEF Placed
  <1>4. Counted(e, x)
    <2>1. Counted(d, x) /\ Placed(d)
      BY DEF Sound
    <2>2. \A i : i \notin 1 .. Len(d.sessions) => InSession(d, i) = {}
      BY <2>1 DEF Placed, InSession
    <2>3. ASSUME NEW i \in 1 .. Len(e.sessions)
          PROVE  e.sessions[i].requested =
                   Cardinality(InSession(e, i)) + (IF i = Len(e.sessions) THEN x ELSE 0)
      <3>1. CASE i \in 1 .. Len(d.sessions) /\ Len(e.sessions) = Len(d.sessions)
        BY <1>2, <2>1, <3>1 DEF Counted
      <3>2. CASE i \in 1 .. Len(d.sessions) /\ x = 0
        BY <1>2, <2>1, <3>2 DEF Counted
      <3>3. CASE i \notin 1 .. Len(d.sessions)
        <4>1. InSession(e, i) = {} /\ e.sessions[i].requested = 0 /\ x = 0
          BY <1>1, <1>2, <2>2, <3>3
        <4> QED
          BY <4>1, FS_EmptySet
      <3> QED
        BY <3>1, <3>2, <3>3
    <2> QED
      BY <1>2, <2>1, <2>3 DEF Counted
  <1>5. Idle(e)
    BY DEF Sound, Idle
  <1>6. Kept(e, M)
    BY DEF Sound, Kept
  <1>7. HashesKnown(e, H)
    BY DEF Sound, HashesKnown
  <1> QED
    BY <1>3, <1>4, <1>5, <1>6, <1>7 DEF Sound

(* placeSentRequest, whatever else is requested.                           *)
SamePlans(d, e) ==
  /\ e.queue = d.queue /\ e.status = d.status /\ e.unchecked = d.unchecked
  /\ e.hashes = d.hashes /\ e.token = d.token /\ e.posted = d.posted
  /\ e.fed = d.fed /\ e.orphaned = d.orphaned
  /\ Len(e.sessions) = Len(d.sessions)

LEMMA OneMore ==
  ASSUME NEW d, Typed(d), NEW session \in 1 .. Len(d.sessions),
         NEW e, e = ChangeAmount(d, session, 1)
  PROVE  /\ Typed(e) /\ SameFiles(d, e) /\ e.next = d.next /\ e.sent = d.sent
         /\ Charged(d, e, session, 1) /\ e.total = d.total + 1 /\ ~e.kill
  <1>1. d.sessions[session].requested \in Nat /\ d.total \in Nat
    BY SessionFacts DEF Typed, Managers
  <1>2. /\ d.sessions[session].requested + 1 \in Nat /\ d.total + 1 \in Nat
        /\ 1 \in {1, -1}
    BY <1>1
  <1> QED
    BY <1>2, ChangeAmountIs

LEMMA OneLess ==
  ASSUME NEW d, Typed(d), NEW session \in 1 .. Len(d.sessions),
         d.sessions[session].requested # 0, d.total # 0,
         NEW e, e = ChangeAmount(d, session, -1)
  PROVE  /\ Typed(e) /\ SameFiles(d, e) /\ e.next = d.next /\ e.sent = d.sent
         /\ Charged(d, e, session, -1) /\ e.total = d.total - 1
         /\ e.kill => d.kill \/ AllFree(e)
  <1>1. d.sessions[session].requested \in Nat /\ d.total \in Nat
    BY SessionFacts DEF Typed, Managers
  <1> DEFINE delta == -1
  <1>2. /\ d.sessions[session].requested + delta \in Nat /\ d.total + delta \in Nat
        /\ delta \in {1, -1} /\ delta = -1 /\ e = ChangeAmount(d, session, delta)
    BY <1>1
  <1> HIDE DEF delta
  <1>3. /\ Typed(e) /\ SameFiles(d, e) /\ e.next = d.next /\ e.sent = d.sent
        /\ Charged(d, e, session, delta) /\ e.total = d.total + delta
        /\ delta = -1 /\ e.kill => d.kill \/ AllFree(e)
    BY <1>2, ChangeAmountIs
  <1>4. e.total = d.total - 1
    BY <1>1, <1>2, <1>3
  <1>5. Charged(d, e, session, -1)
    BY <1>3 DEF delta
  <1> QED
    BY <1>2, <1>3, <1>4, <1>5

Kinds == {"part", "reupload", "hashes"}

NewRequest(d, e, t, kind, o, session) ==
  \E r \in Requests : /\ r.offset = o /\ r.kind = kind /\ r.session = session
                      /\ MoreAsked(d, e, t, r)

LEMMA PlaceChanges ==
  ASSUME NEW d, Typed(d), NEW t \in Tasks, NEW kind \in Kinds,
         NEW o \in Offsets, NEW session \in 1 .. Len(d.sessions),
         NEW e, e = Place(d, t, kind, o, session)
  PROVE  /\ Typed(e) /\ SamePlans(d, e) /\ e.next = d.next
         /\ FreeAt(d, t, o) => e.clash = d.clash
         /\ ~FreeAt(d, t, o) \/ d.clash => e.clash
         /\ NewRequest(d, e, t, kind, o, session)
         /\ Charged(d, e, session, 1) /\ e.total = d.total + 1 /\ ~e.kill
  <1> DEFINE c == ChangeAmount(d, session, 1)
             r == [offset |-> o, kind |-> kind, token |-> d.token[t],
                   session |-> session, old |-> FALSE,
                   amount |-> c.sessions[session].requested]
             clash == c.clash \/ \E other \in d.sent[t] : other.offset = o
             sent == [c.sent EXCEPT ![t] = @ \cup {r}]
  <1>1. d.sessions[session].requested \in Nat /\ d.total \in Nat
    BY SessionFacts DEF Typed, Managers
  <1>2. /\ Typed(c) /\ SameFiles(d, c) /\ c.next = d.next /\ c.sent = d.sent
        /\ Charged(d, c, session, 1) /\ c.total = d.total + 1 /\ ~c.kill
    <2> HIDE DEF c
    <2>1. c = ChangeAmount(d, session, 1)
      BY DEF c
    <2> QED
      BY ONLY <2>1, OneMore, Typed(d), session \in 1 .. Len(d.sessions)
  <1>3. e = [c EXCEPT !.sent[t] = @ \cup {r}, !.clash = clash]
    BY DEF Place
  <1> HIDE DEF c
  <1>4. r \in Requests
    <2>1. c.sessions[session].requested \in Nat
      BY <1>2, SessionFacts DEF SameFiles
    <2>2. d.token[t] \in Tokens /\ session \in 1 .. MaxSessions
      BY ConstantsAre, FileFacts, SessionFacts
    <2> QED
      BY <2>1, <2>2 DEF Requests, Kinds
  <1>5. r.offset = o /\ r.kind = kind /\ r.session = session
    OBVIOUS
  <1> HIDE DEF r
  <1>6. d \in Managers /\ c \in Managers
    BY <1>2 DEF Typed
  <1>7. /\ sent \in [Tasks -> SUBSET Requests]
        /\ sent[t] = d.sent[t] \cup {r}
        /\ \A u \in Tasks : u # t => sent[u] = d.sent[u]
    <2>1. c.sent \in [Tasks -> SUBSET Requests] /\ c.sent = d.sent
      BY <1>2, <1>6 DEF Managers
    <2> QED
      BY <1>4, <2>1
  <1>8. clash \in BOOLEAN /\ c.clash = d.clash
    <2>1. c.clash \in BOOLEAN
      BY <1>6 DEF Managers
    <2> QED
      BY <1>2, <2>1 DEF SameFiles
  <1>9. e = [c EXCEPT !.sent = sent, !.clash = clash]
    BY <1>3, <1>6 DEF Managers
  <1>10. /\ FreeAt(d, t, o) => clash = d.clash
         /\ ~FreeAt(d, t, o) \/ d.clash => clash
    <2>1. d.clash \in BOOLEAN
      BY <1>6 DEF Managers
    <2> QED
      BY <1>8, <2>1 DEF FreeAt
  <1> HIDE DEF sent, clash
  <1>11. /\ e.sent = sent /\ e.clash = clash /\ e.sessions = c.sessions
         /\ e.total = c.total /\ e.kill = c.kill /\ e.next = c.next
         /\ SamePlans(c, e)
    BY <1>6, <1>9 DEF Managers, SamePlans
  <1>12. e \in Managers
    BY <1>6, <1>7, <1>8, <1>9, ZenonT(60) DEF Managers
  <1>13. Typed(e) /\ SamePlans(d, e)
    BY <1>2, <1>11, <1>12 DEF Typed, SameFiles, SamePlans
  <1>14. Charged(d, e, session, 1)
    BY <1>2, <1>11 DEF Charged
  <1>15. NewRequest(d, e, t, kind, o, session)
    BY <1>4, <1>5, <1>7, <1>11 DEF NewRequest, MoreAsked
  <1> QED
    BY <1>2, <1>10, <1>11, <1>13, <1>14, <1>15

(* makeRequest and placeSentRequest: the place is no longer excused.       *)
LEMMA PlaceIs ==
  ASSUME NEW d, NEW x \in Nat, NEW M, NEW H, Sound(d, x, M, H), NEW t \in Tasks,
         NEW kind \in Kinds, NEW o \in Offsets,
         NEW session \in 1 .. Len(d.sessions),
         d.status[t] = "loading", o < d.next[t],
         FreeAt(d, t, o),
         kind = "hashes" =>
           /\ \E part \in d.unchecked[t] : part[1] = o
           /\ \A r \in d.sent[t] : r.kind # "hashes",
         NEW e, e = Place(d, t, kind, o, session),
         NEW M2, \A p \in M : p # <<t, o>> => p \in M2,
         NEW H2, \A u \in H : u \in H2 \/ (u = t /\ kind = "hashes")
  PROVE  /\ Sound(e, x, M2, H2) /\ SameFiles(d, e) /\ e.next = d.next
         /\ NewRequest(d, e, t, kind, o, session)
         /\ Charged(d, e, session, 1) /\ e.total = d.total + 1
  <1>1. Typed(d) /\ Placed(d) /\ Counted(d, x) /\ Idle(d) /\ Kept(d, M) /\ HashesKnown(d, H)
    BY DEF Sound
  <1>2. /\ Typed(e) /\ SamePlans(d, e) /\ e.next = d.next
        /\ FreeAt(d, t, o) => e.clash = d.clash
        /\ ~FreeAt(d, t, o) \/ d.clash => e.clash
        /\ NewRequest(d, e, t, kind, o, session) /\ Charged(d, e, session, 1)
        /\ e.total = d.total + 1 /\ ~e.kill
    <2>1. /\ Typed(d) /\ t \in Tasks /\ kind \in Kinds
          /\ o \in Offsets /\ session \in 1 .. Len(d.sessions)
          /\ e = Place(d, t, kind, o, session)
      BY <1>1
    <2> QED
      BY ONLY <2>1, PlaceChanges
  <1>3. PICK r \in Requests :
             /\ r.offset = o /\ r.kind = kind /\ r.session = session
             /\ MoreAsked(d, e, t, r)
    BY <1>2 DEF NewRequest
  <1>a. /\ e.sent[t] = d.sent[t] \cup {r}
        /\ \A u \in Tasks : u # t => e.sent[u] = d.sent[u]
        /\ \A s \in d.sent[t] : s.offset # o
    BY <1>3 DEF MoreAsked, FreeAt
  <1> DEFINE place == PlaceOf(t, r)
  <1>4. e.clash = d.clash
    BY <1>2
  <1>5. SameFiles(d, e)
    BY <1>2, <1>4 DEF SamePlans, SameFiles
  <1>6. Len(d.sessions) \in Nat /\ Len(e.sessions) = Len(d.sessions)
    BY <1>1, <1>5, SessionFacts DEF SameFiles
  <1>7. /\ place \notin Asked(d) /\ \A i : place \notin InSession(d, i)
        /\ Asked(e) = Asked(d) \cup {place}
        /\ InSession(e, session) = InSession(d, session) \cup {place}
        /\ \A i : i # session => InSession(e, i) = InSession(d, i)
    <2>1. PlaceIsTaken(d, e, t, r)
      BY <1>1, <1>3, AskedMore
    <2> QED
      BY <1>3, <2>1 DEF PlaceIsTaken
  <1> HIDE DEF place
  <1>8. Counted(e, x)
    <2>1. Cardinality(Asked(e)) = Cardinality(Asked(d)) + 1
      <3>1. IsFiniteSet(Asked(d)) /\ place \notin Asked(d)
        BY <1>7, PlacesAre
      <3> QED
        BY <1>7, <3>1, FS_AddElement
    <2>2. Cardinality(InSession(e, session)) = Cardinality(InSession(d, session)) + 1
      <3>1. IsFiniteSet(InSession(d, session)) /\ place \notin InSession(d, session)
        BY <1>7, PlacesAre
      <3> QED
        BY <1>7, <3>1, FS_AddElement
    <2>3. e.total = Cardinality(Asked(e))
      BY <1>a, <1>1, <1>2, <2>1 DEF Counted
    <2>4. ASSUME NEW i \in 1 .. Len(e.sessions)
          PROVE  e.sessions[i].requested =
                   Cardinality(InSession(e, i)) + (IF i = Len(e.sessions) THEN x ELSE 0)
      <3>1. Cardinality(InSession(d, i)) \in Nat /\ i \in 1 .. Len(d.sessions)
        BY <1>6, PlacesAre
      <3>2. d.sessions[i].requested =
              Cardinality(InSession(d, i)) + (IF i = Len(d.sessions) THEN x ELSE 0)
        BY <1>1, <3>1 DEF Counted
      <3>3. CASE i = session
        <4>1. e.sessions[i].requested = d.sessions[i].requested + 1
          BY <1>a, <1>2, <3>1, <3>3 DEF Charged
        <4>2. Cardinality(InSession(e, i)) = Cardinality(InSession(d, i)) + 1
          BY <2>2, <3>3
        <4>3. (IF i = Len(e.sessions) THEN x ELSE 0) \in Nat
          OBVIOUS
        <4> QED
          BY <1>6, <3>1, <3>2, <4>1, <4>2, <4>3
      <3>4. CASE i # session
        <4>1. /\ e.sessions[i].requested = d.sessions[i].requested + 0
              /\ InSession(e, i) = InSession(d, i)
          BY <1>a, <1>2, <1>7, <3>1, <3>4 DEF Charged
        <4> QED
          BY <1>6, <3>1, <3>2, <4>1
      <3> QED
        BY <3>3, <3>4
    <2> QED
      BY <1>a, <1>2, <2>3, <2>4 DEF Counted
  <1>9. Placed(e)
    <2> SUFFICES ASSUME NEW u \in Tasks
                 PROVE /\ \A s \in e.sent[u] :
                            s.session \in 1 .. Len(e.sessions) /\ s.offset < e.next[u]
                       /\ \A part \in e.unchecked[u] :
                            part[2] \in 1 .. Len(e.sessions) /\ part[1] < e.next[u]
                       /\ \A q, s \in e.sent[u] : q.offset = s.offset => q = s
                       /\ \A q, s \in e.sent[u] :
                            q.kind = "hashes" /\ s.kind = "hashes" => q = s
                       /\ \A s \in e.sent[u] : s.kind = "hashes" =>
                            \E part \in e.unchecked[u] : part[1] = s.offset
      BY DEF Placed
    <2>1. /\ e.unchecked = d.unchecked /\ e.next = d.next
          /\ Len(e.sessions) = Len(d.sessions)
      BY <1>a, <1>2, <1>5 DEF SameFiles
    <2>2. CASE u # t
      <3>1. e.sent[u] = d.sent[u]
        BY <1>a, <1>2, <2>2
      <3> QED
        BY <1>1, <2>1, <3>1 DEF Placed
    <2>3. CASE u = t
      BY <1>a, <1>1, <1>3, <2>1, <2>3 DEF Placed
    <2> QED
      BY <2>2, <2>3
  <1>10. Idle(e)
    <2>1. \A u \in Tasks : e.status[u] # "loading" => e.sent[u] = d.sent[u]
      BY <1>a, <1>2, <1>5 DEF SameFiles
    <2> QED
      BY <1>a, <1>1, <1>2, <1>5, <2>1 DEF Idle, SameFiles
  <1>11. Kept(e, M2)
    <2> SUFFICES ASSUME NEW u \in Tasks, e.status[u] \in {"loading", "done"},
                        NEW q \in 0 .. e.next[u] - 1
                 PROVE  \/ q \in e.fed[u]
                        \/ <<u, q>> \in M2
                        \/ \E s \in e.sent[u] : s.offset = q
                        \/ \E part \in e.unchecked[u] : part[1] = q
      BY DEF Kept
    <2>1. \/ q \in d.fed[u]
          \/ <<u, q>> \in M
          \/ \E s \in d.sent[u] : s.offset = q
          \/ \E part \in d.unchecked[u] : part[1] = q
      BY <1>a, <1>1, <1>2, <1>5 DEF Kept, SameFiles
    <2>2. e.fed = d.fed /\ e.unchecked = d.unchecked /\ d.sent[u] \subseteq e.sent[u]
      BY <1>a, <1>2, <1>3, <1>5 DEF SameFiles
    <2>3. CASE <<u, q>> \in M
      <3>1. CASE u = t /\ q = o
        BY <1>a, <1>3, <3>1
      <3>2. CASE ~(u = t /\ q = o)
        <4>1. <<u, q>> # <<t, o>>
          BY <3>2
        <4> QED
          BY <2>3, <4>1
      <3> QED
        BY <3>1, <3>2
    <2> QED
      BY <2>1, <2>2, <2>3
  <1>12. HashesKnown(e, H2)
    <2> SUFFICES ASSUME NEW u \in Tasks, e.unchecked[u] # {}
                 PROVE  \/ u \in H2
                        \/ e.posted[u]
                        \/ e.orphaned[u]
                        \/ \E s \in e.sent[u] : s.kind = "hashes"
      BY DEF HashesKnown
    <2>1. \/ u \in H
          \/ d.posted[u]
          \/ d.orphaned[u]
          \/ \E s \in d.sent[u] : s.kind = "hashes"
      BY <1>1, <1>5 DEF HashesKnown, SameFiles
    <2>2. /\ e.posted = d.posted /\ e.orphaned = d.orphaned
          /\ d.sent[u] \subseteq e.sent[u]
      BY <1>a, <1>2, <1>3, <1>5 DEF SameFiles
    <2> QED
      BY <1>a, <1>3, <2>1, <2>2
  <1>13. Sound(e, x, M2, H2)
    BY <1>a, <1>2, <1>8, <1>9, <1>10, <1>11, <1>12 DEF Sound
  <1> QED
    BY <1>a, <1>2, <1>3, <1>5, <1>13

(* finishSentRequest: the place is excused, and the file if it is to ask   *)
(* for hashes again.                                                       *)
HasPart(d, t, o) == \E part \in d.unchecked[t] : part[1] = o

LEMMA FinishIs ==
  ASSUME NEW d, NEW x \in Nat, NEW M, NEW H, Sound(d, x, M, H),
         NEW t \in Tasks, NEW r \in d.sent[t],
         NEW M2, NEW H2, M \subseteq M2, H \subseteq H2,
         PlaceOf(t, r) \in M2 \/ HasPart(d, t, r.offset),
         r.kind = "hashes" => t \in H2 \/ d.unchecked[t] = {},
         NEW e, e = Finish(d, t, r)
  PROVE  /\ Sound(e, x, M2, H2) /\ SameFiles(d, e) /\ e.next = d.next
         /\ LessAsked(d, e, t, r) /\ Charged(d, e, r.session, -1)
         /\ r.session \in 1 .. Len(d.sessions) /\ e.total = d.total - 1
  <1> DEFINE c == [d EXCEPT !.sent[t] = @ \ {r}]
             place == PlaceOf(t, r)
  <1>1. Typed(d) /\ Placed(d) /\ Counted(d, x) /\ Idle(d) /\ Kept(d, M) /\ HashesKnown(d, H)
    BY DEF Sound
  <1>2. r.session \in 1 .. Len(d.sessions)
    BY <1>1 DEF Placed
  <1>3. /\ Typed(c) /\ LessAsked(d, c, t, r) /\ SameFiles(d, c)
        /\ c.next = d.next /\ c.sessions = d.sessions /\ c.total = d.total
        /\ c.kill = d.kill
    <2>1. d \in Managers
      BY <1>1 DEF Typed
    <2>2. d.sent \in [Tasks -> SUBSET Requests]
      BY <2>1 DEF Managers
    <2> DEFINE sent == [d.sent EXCEPT ![t] = @ \ {r}]
    <2>3. /\ sent \in [Tasks -> SUBSET Requests] /\ sent[t] = d.sent[t] \ {r}
          /\ \A u \in Tasks : u # t => sent[u] = d.sent[u]
      BY <2>2
    <2>4. c = [d EXCEPT !.sent = sent]
      BY <2>1 DEF Managers
    <2> HIDE DEF c, sent
    <2>5. /\ c.sent = sent /\ c.next = d.next /\ c.sessions = d.sessions
          /\ c.total = d.total /\ c.kill = d.kill /\ SameFiles(d, c)
      BY <2>1, <2>4 DEF Managers, SameFiles
    <2>6. c \in Managers
      BY <2>1, <2>3, <2>4 DEF Managers
    <2> QED
      BY <1>1, <2>3, <2>5, <2>6 DEF Typed, LessAsked
  <1>4. e = ChangeAmount(c, r.session, -1)
    BY DEF Finish
  <1> HIDE DEF c
  <1>5. PlaceIsFree(d, c, t, r)
    BY <1>1, <1>3, AskedLess
  <1>6. /\ place \in Asked(d) /\ place \in InSession(d, r.session)
        /\ Asked(c) = Asked(d) \ {place}
        /\ InSession(c, r.session) = InSession(d, r.session) \ {place}
        /\ \A i : i # r.session => InSession(c, i) = InSession(d, i)
    BY <1>5 DEF PlaceIsFree
  <1> HIDE DEF place
  <1>7. /\ Cardinality(Asked(c)) = Cardinality(Asked(d)) - 1
        /\ Cardinality(InSession(c, r.session)) =
             Cardinality(InSession(d, r.session)) - 1
    <2>1. IsFiniteSet(Asked(d)) /\ IsFiniteSet(InSession(d, r.session))
      BY PlacesAre
    <2>2. Cardinality(Asked(c)) = Cardinality(Asked(d)) - 1
      BY ONLY <1>6, <2>1, FS_RemoveElement
    <2> DEFINE S == InSession(d, r.session)
    <2>3. Cardinality(InSession(c, r.session)) = Cardinality(S) - 1
      <3>1. IsFiniteSet(S) /\ place \in S /\ InSession(c, r.session) = S \ {place}
        BY <1>6, <2>1
      <3> HIDE DEF S
      <3>2. Cardinality(S \ {place}) = Cardinality(S) - 1
        BY <3>1, FS_RemoveElement
      <3> QED
        BY <3>1, <3>2
    <2> QED
      BY <2>2, <2>3
  <1>8. /\ Cardinality(Asked(c)) \in Nat
        /\ \A i : /\ Cardinality(InSession(d, i)) \in Nat
                  /\ Cardinality(InSession(c, i)) \in Nat
    BY PlacesAre
  <1>9. d.total # 0 /\ d.sessions[r.session].requested # 0 /\ ~d.kill
    <2>1. d.total = Cardinality(Asked(d))
      BY <1>1 DEF Counted
    <2>2. d.sessions[r.session].requested =
            Cardinality(InSession(d, r.session))
              + (IF r.session = Len(d.sessions) THEN x ELSE 0)
      BY <1>1, <1>2 DEF Counted
    <2>3. Cardinality(Asked(d)) \in Nat /\ (IF r.session = Len(d.sessions) THEN x ELSE 0) \in Nat
      BY PlacesAre
    <2>4. d.total # 0
      BY <1>7, <1>8, <2>1, <2>3
    <2> QED
      BY <1>1, <1>7, <1>8, <2>2, <2>3, <2>4 DEF Counted
  <1>10. /\ Typed(e) /\ SameFiles(c, e) /\ e.next = c.next /\ e.sent = c.sent
         /\ Charged(c, e, r.session, -1) /\ e.total = c.total - 1
         /\ e.kill => c.kill \/ AllFree(e)
    <2>1. r.session \in 1 .. Len(c.sessions)
      BY <1>2, <1>3
    <2>2. c.sessions[r.session].requested # 0 /\ c.total # 0
      BY <1>3, <1>9
    <2> QED
      BY ONLY <1>3, <1>4, <2>1, <2>2, OneLess
  <1>11. /\ SameFiles(d, e) /\ e.next = d.next /\ LessAsked(d, e, t, r)
         /\ Charged(d, e, r.session, -1) /\ e.total = d.total - 1
         /\ e.kill => AllFree(e)
    BY <1>3, <1>9, <1>10 DEF SameFiles, LessAsked, Charged
  <1>12. Len(d.sessions) \in Nat /\ Len(e.sessions) = Len(d.sessions)
    BY <1>1, <1>11, SessionFacts DEF SameFiles
  <1>13. Asked(e) = Asked(c) /\ \A i : InSession(e, i) = InSession(c, i)
    BY <1>10 DEF Asked, InSession
  <1>14. /\ e.sent[t] = d.sent[t] \ {r}
         /\ \A u \in Tasks : u # t => e.sent[u] = d.sent[u]
    BY <1>11 DEF LessAsked
  <1>15. Placed(e)
    <2>1. /\ e.unchecked = d.unchecked /\ e.next = d.next
          /\ Len(e.sessions) = Len(d.sessions)
      BY <1>11 DEF SameFiles
    <2>2. \A u \in Tasks : e.sent[u] \subseteq d.sent[u]
      BY <1>14
    <2> QED
      BY <1>1, <2>1, <2>2 DEF Placed
  <1>16. Counted(e, x)
    <2>1. e.total = Cardinality(Asked(e))
      BY <1>1, <1>7, <1>11, <1>13 DEF Counted
    <2>2. ASSUME NEW i \in 1 .. Len(e.sessions)
          PROVE  e.sessions[i].requested =
                   Cardinality(InSession(e, i)) + (IF i = Len(e.sessions) THEN x ELSE 0)
      <3>1. d.sessions[i].requested =
              Cardinality(InSession(d, i)) + (IF i = Len(d.sessions) THEN x ELSE 0)
        BY <1>1, <1>12 DEF Counted
      <3>2. (IF i = Len(e.sessions) THEN x ELSE 0) \in Nat
        OBVIOUS
      <3>3. CASE i = r.session
        <4>1. e.sessions[i].requested = d.sessions[i].requested + (-1)
          BY <1>11, <1>12, <3>3 DEF Charged
        <4>2. Cardinality(InSession(e, i)) = Cardinality(InSession(d, i)) - 1
          BY <1>7, <1>13, <3>3
        <4>3. /\ Cardinality(InSession(d, i)) \in Nat /\ Len(e.sessions) = Len(d.sessions)
              /\ d.sessions[i].requested \in Nat
          BY <1>1, <1>8, <1>12, SessionFacts
        <4> DEFINE a == d.sessions[i].requested
                   b == Cardinality(InSession(d, i))
                   y == IF i = Len(e.sessions) THEN x ELSE 0
        <4>4. /\ a = b + y /\ a \in Nat /\ b \in Nat /\ y \in Nat
              /\ e.sessions[i].requested = a + (-1)
              /\ Cardinality(InSession(e, i)) = b - 1
          BY <3>1, <3>2, <4>1, <4>2, <4>3
        <4> HIDE DEF a, b, y
        <4>5. e.sessions[i].requested = Cardinality(InSession(e, i)) + y
          BY <4>4
        <4> QED
          BY <4>5 DEF y
      <3>4. CASE i # r.session
        <4>1. e.sessions[i].requested = d.sessions[i].requested + 0
          BY <1>11, <1>12, <3>4 DEF Charged
        <4>2. InSession(e, i) = InSession(d, i)
          BY <1>6, <1>13, <3>4
        <4>3. d.sessions[i].requested \in Nat
          BY <1>1, <1>12, SessionFacts
        <4>4. e.sessions[i].requested = d.sessions[i].requested
          BY <4>1, <4>3
        <4> QED
          BY <1>12, <3>1, <4>2, <4>4
      <3> QED
        BY <3>3, <3>4
    <2>3. ASSUME e.kill PROVE e.total = 0
      <3>1. AllFree(e)
        BY <1>11, <2>3
      <3>2. \A i \in 1 .. Len(e.sessions) : InSession(e, i) = {}
        <4> SUFFICES ASSUME NEW i \in 1 .. Len(e.sessions) PROVE InSession(e, i) = {}
          OBVIOUS
        <4>1. 0 = Cardinality(InSession(e, i)) + (IF i = Len(e.sessions) THEN x ELSE 0)
          BY <2>2, <3>1 DEF AllFree
        <4>2. /\ Cardinality(InSession(e, i)) \in Nat
              /\ (IF i = Len(e.sessions) THEN x ELSE 0) \in Nat
          BY PlacesAre
        <4>3. Cardinality(InSession(e, i)) = 0
          BY <4>1, <4>2
        <4> QED
          BY <4>3, PlacesAre, FS_EmptySet
      <3>3. Asked(e) = {}
        <4> SUFFICES ASSUME NEW p \in Asked(e) PROVE FALSE
          OBVIOUS
        <4>1. p \in Tasks \X Offsets /\ p[1] \in Tasks
          BY DEF Asked
        <4>2. PICK s \in e.sent[p[1]] : s.offset = p[2]
          BY DEF Asked
        <4>3. s.session \in 1 .. Len(e.sessions)
          BY <1>15, <4>1, <4>2 DEF Placed
        <4>4. p \in InSession(e, s.session)
          BY <4>1, <4>2 DEF InSession
        <4> QED
          BY <3>2, <4>3, <4>4
      <3> QED
        BY <2>1, <3>3, FS_EmptySet
    <2> QED
      BY <2>1, <2>2, <2>3 DEF Counted
  <1>17. Idle(e)
    <2>1. \A u \in Tasks : e.sent[u] \subseteq d.sent[u]
      BY <1>14
    <2> QED
      BY <1>1, <1>11, <2>1 DEF Idle, SameFiles
  <1>18. Kept(e, M2)
    <2> SUFFICES ASSUME NEW u \in Tasks, e.status[u] \in {"loading", "done"},
                        NEW q \in 0 .. e.next[u] - 1
                 PROVE  \/ q \in e.fed[u]
                        \/ <<u, q>> \in M2
                        \/ \E s \in e.sent[u] : s.offset = q
                        \/ \E part \in e.unchecked[u] : part[1] = q
      BY DEF Kept
    <2>1. \/ q \in d.fed[u]
          \/ <<u, q>> \in M
          \/ \E s \in d.sent[u] : s.offset = q
          \/ \E part \in d.unchecked[u] : part[1] = q
      BY <1>1, <1>11 DEF Kept, SameFiles
    <2>2. e.fed = d.fed /\ e.unchecked = d.unchecked
      BY <1>11 DEF SameFiles
    <2>3. ASSUME NEW s \in d.sent[u], s.offset = q
          PROVE  \/ <<u, q>> \in M2
                 \/ \E z \in e.sent[u] : z.offset = q
                 \/ \E part \in e.unchecked[u] : part[1] = q
      <3>1. CASE u = t /\ s = r
        BY <2>2, <2>3, <3>1 DEF PlaceOf, HasPart
      <3>2. CASE ~(u = t /\ s = r)
        <4>1. s \in e.sent[u]
          BY <1>14, <3>2
        <4> QED
          BY <2>3, <4>1
      <3> QED
        BY <3>1, <3>2
    <2> QED
      BY <2>1, <2>2, <2>3
  <1>19. HashesKnown(e, H2)
    <2> SUFFICES ASSUME NEW u \in Tasks, e.unchecked[u] # {}
                 PROVE  \/ u \in H2
                        \/ e.posted[u]
                        \/ e.orphaned[u]
                        \/ \E s \in e.sent[u] : s.kind = "hashes"
      BY DEF HashesKnown
    <2>1. \/ u \in H
          \/ d.posted[u]
          \/ d.orphaned[u]
          \/ \E s \in d.sent[u] : s.kind = "hashes"
      BY <1>1, <1>11 DEF HashesKnown, SameFiles
    <2>2. /\ e.posted = d.posted /\ e.orphaned = d.orphaned
          /\ e.unchecked = d.unchecked
      BY <1>11 DEF SameFiles
    <2>3. ASSUME NEW s \in d.sent[u], s.kind = "hashes"
          PROVE  u \in H2 \/ \E z \in e.sent[u] : z.kind = "hashes"
      <3>1. CASE u = t /\ s = r
        BY <2>2, <2>3, <3>1
      <3>2. CASE ~(u = t /\ s = r)
        <4>1. s \in e.sent[u]
          BY <1>14, <3>2
        <4> QED
          BY <2>3, <4>1
      <3> QED
        BY <3>1, <3>2
    <2> QED
      BY <2>1, <2>2, <2>3
  <1>20. Sound(e, x, M2, H2)
    BY <1>10, <1>15, <1>16, <1>17, <1>18, <1>19 DEF Sound
  <1> QED
    BY <1>2, <1>11, <1>20

-----------------------------------------------------------------------------
(* Changes of a file apart from its requests.                              *)

SameRequests(d, e) ==
  /\ e.sessions = d.sessions /\ e.total = d.total /\ e.kill = d.kill
  /\ e.sent = d.sent /\ e.next = d.next

PartsArePlaced(d) ==
  \A t \in Tasks :
    /\ \A part \in d.unchecked[t] :
         part[2] \in 1 .. Len(d.sessions) /\ part[1] < d.next[t]
    /\ \A r \in d.sent[t] : r.kind = "hashes" => HasPart(d, t, r.offset)

LEMMA SoundEdited ==
  ASSUME NEW d, NEW x, NEW M, NEW H, Sound(d, x, M, H), NEW e, Typed(e),
         SameRequests(d, e), PartsArePlaced(e), Idle(e),
         NEW M2, NEW H2, Kept(e, M2), HashesKnown(e, H2)
  PROVE  Sound(e, x, M2, H2)
  <1>1. Placed(d) /\ Counted(d, x)
    BY DEF Sound
  <1>2. /\ e.sessions = d.sessions /\ e.total = d.total /\ e.kill = d.kill
        /\ e.sent = d.sent /\ e.next = d.next
    BY DEF SameRequests
  <1>3. Asked(e) = Asked(d) /\ \A i : InSession(e, i) = InSession(d, i)
    BY <1>2 DEF Asked, InSession
  <1>4. Counted(e, x)
    BY <1>1, <1>2, <1>3 DEF Counted
  <1>5. Placed(e)
    <2> SUFFICES ASSUME NEW u \in Tasks
                 PROVE /\ \A s \in e.sent[u] :
                            s.session \in 1 .. Len(e.sessions) /\ s.offset < e.next[u]
                       /\ \A part \in e.unchecked[u] :
                            part[2] \in 1 .. Len(e.sessions) /\ part[1] < e.next[u]
                       /\ \A q, s \in e.sent[u] : q.offset = s.offset => q = s
                       /\ \A q, s \in e.sent[u] :
                            q.kind = "hashes" /\ s.kind = "hashes" => q = s
                       /\ \A s \in e.sent[u] : s.kind = "hashes" =>
                            \E part \in e.unchecked[u] : part[1] = s.offset
      BY DEF Placed
    <2>1. /\ \A s \in e.sent[u] :
               s.session \in 1 .. Len(e.sessions) /\ s.offset < e.next[u]
          /\ \A q, s \in e.sent[u] : q.offset = s.offset => q = s
          /\ \A q, s \in e.sent[u] :
               q.kind = "hashes" /\ s.kind = "hashes" => q = s
      BY <1>1, <1>2 DEF Placed
    <2>2. /\ \A part \in e.unchecked[u] :
               part[2] \in 1 .. Len(e.sessions) /\ part[1] < e.next[u]
          /\ \A s \in e.sent[u] : s.kind = "hashes" =>
               \E part \in e.unchecked[u] : part[1] = s.offset
      BY DEF PartsArePlaced, HasPart
    <2> QED
      BY <2>1, <2>2
  <1> QED
    BY <1>4, <1>5 DEF Sound

(* A sound manager's parts are in their places.                            *)
LEMMA PartsPlaced ==
  ASSUME NEW d, NEW x, NEW M, NEW H, Sound(d, x, M, H)
  PROVE  PartsArePlaced(d)
  BY DEF Sound, Placed, PartsArePlaced, HasPart

SameOthers(f, g, t) == \A u \in Tasks : u # t => f[u] = g[u]

(* The call that asks for hashes is posted, or made.                       *)
SameButPosted(d, e) ==
  /\ SameRequests(d, e) /\ e.queue = d.queue /\ e.status = d.status
  /\ e.unchecked = d.unchecked /\ e.hashes = d.hashes /\ e.token = d.token
  /\ e.fed = d.fed /\ e.orphaned = d.orphaned /\ e.clash = d.clash

LEMMA PostedIs ==
  ASSUME NEW d, Typed(d), NEW t \in Tasks, NEW b \in BOOLEAN,
         NEW e, e = [d EXCEPT !.posted[t] = b]
  PROVE  /\ Typed(e) /\ SameButPosted(d, e)
         /\ e.posted[t] <=> b
         /\ SameOthers(e.posted, d.posted, t)
  <1> DEFINE posted == [d.posted EXCEPT ![t] = b]
  <1>1. d \in Managers
    BY DEF Typed
  <1>2. d.posted \in [Tasks -> BOOLEAN]
    BY <1>1 DEF Managers
  <1>3. /\ posted \in [Tasks -> BOOLEAN] /\ posted[t] = b
        /\ \A u \in Tasks : u # t => posted[u] = d.posted[u]
    BY <1>2
  <1>4. e = [d EXCEPT !.posted = posted]
    BY <1>1 DEF Managers
  <1> HIDE DEF posted
  <1>5. e.posted = posted /\ SameButPosted(d, e) /\ e \in Managers
    BY <1>1, <1>3, <1>4, ZenonT(60) DEF Managers, SameButPosted, SameRequests
  <1> QED
    BY <1>3, <1>5 DEF Typed, SameOthers, SameButPosted, SameRequests

(* cancelRequest: hashes are asked for again later.                        *)
AfterCancel(d, e) ==
  /\ e.queue = d.queue /\ e.status = d.status /\ e.next = d.next
  /\ e.unchecked = d.unchecked /\ e.clash = d.clash
  /\ Len(e.sessions) = Len(d.sessions) /\ e.total = d.total - 1

LEMMA CancelRequestIs ==
  ASSUME NEW d, NEW x \in Nat, NEW M, NEW H, Sound(d, x, M, H),
         NEW t \in Tasks, NEW r \in d.sent[t], NEW M2, M \subseteq M2,
         PlaceOf(t, r) \in M2 \/ HasPart(d, t, r.offset),
         NEW e, e = CancelRequest(t, d, r)
  PROVE  /\ Sound(e, x, M2, H) /\ AfterCancel(d, e) /\ LessAsked(d, e, t, r)
         /\ r.session \in 1 .. Len(d.sessions)
  <1> DEFINE f == Finish(d, t, r)
             b == f.posted[t] \/ (r.kind = "hashes" /\ d.unchecked[t] # {})
             H2 == IF r.kind = "hashes" THEN H \cup {t} ELSE H
  <1>1. /\ Sound(f, x, M2, H2) /\ SameFiles(d, f) /\ f.next = d.next
        /\ LessAsked(d, f, t, r) /\ r.session \in 1 .. Len(d.sessions)
        /\ f.total = d.total - 1
    <2>1. H \subseteq H2 /\ (r.kind = "hashes" => t \in H2 \/ d.unchecked[t] = {})
      OBVIOUS
    <2> HIDE DEF H2, f
    <2>2. f = Finish(d, t, r)
      BY DEF f
    <2>3. /\ x \in Nat /\ Sound(d, x, M, H) /\ t \in Tasks /\ r \in d.sent[t]
          /\ M \subseteq M2
      OBVIOUS
    <2>4. PlaceOf(t, r) \in M2 \/ HasPart(d, t, r.offset)
      OBVIOUS
    <2>5. /\ Sound(f, x, M2, H2) /\ SameFiles(d, f) /\ f.next = d.next
          /\ LessAsked(d, f, t, r) /\ Charged(d, f, r.session, -1)
          /\ r.session \in 1 .. Len(d.sessions) /\ f.total = d.total - 1
      BY ONLY <2>1, <2>2, <2>3, <2>4, FinishIs, SMTT(40)
    <2> QED
      BY <2>5
  <1> HIDE DEF f
  <1>2. Typed(f)
    BY <1>1 DEF Sound
  <1>3. f.posted \in [Tasks -> BOOLEAN]
    BY <1>2 DEF Typed, Managers
  <1>4. e = [f EXCEPT !.posted[t] = b]
    <2>1. f \in Managers
      BY <1>2 DEF Typed
    <2> QED
      BY <2>1 DEF CancelRequest, f, Managers
  <1>5. b \in BOOLEAN
    BY <1>3
  <1> HIDE DEF b
  <1>6. Typed(e) /\ SameButPosted(f, e) /\ (e.posted[t] <=> b) /\ SameOthers(e.posted, f.posted, t)
    BY <1>2, <1>4, <1>5, PostedIs
  <1>7. Placed(f) /\ Idle(f) /\ Kept(f, M2) /\ HashesKnown(f, H2)
    BY <1>1 DEF Sound
  <1>8. SameRequests(f, e) /\ PartsArePlaced(e) /\ Idle(e) /\ Kept(e, M2)
    BY <1>6, <1>7 DEF SameButPosted, SameRequests, PartsArePlaced, Placed, HasPart, Idle, Kept
  <1>9. HashesKnown(e, H)
    <2> SUFFICES ASSUME NEW u \in Tasks, e.unchecked[u] # {}
                 PROVE  \/ u \in H
                        \/ e.posted[u]
                        \/ e.orphaned[u]
                        \/ \E s \in e.sent[u] : s.kind = "hashes"
      BY DEF HashesKnown
    <2>1. /\ e.unchecked = f.unchecked /\ e.orphaned = f.orphaned /\ e.sent = f.sent
          /\ f.unchecked = d.unchecked
      BY <1>1, <1>6 DEF SameButPosted, SameRequests, SameFiles
    <2>2. \/ u \in H2
          \/ f.posted[u]
          \/ f.orphaned[u]
          \/ \E s \in f.sent[u] : s.kind = "hashes"
      BY <1>7, <2>1 DEF HashesKnown
    <2>3. f.posted[u] => e.posted[u]
      BY <1>6 DEF SameOthers, b
    <2>4. u \in H2 => u \in H \/ (u = t /\ r.kind = "hashes")
      OBVIOUS
    <2>5. u = t /\ r.kind = "hashes" => e.posted[u]
      BY <1>6, <2>1 DEF b
    <2> QED
      BY <2>1, <2>2, <2>3, <2>4, <2>5
  <1>10. Sound(e, x, M2, H)
    BY <1>1, <1>6, <1>8, <1>9, SoundEdited
  <1>11. AfterCancel(d, e) /\ LessAsked(d, e, t, r)
    BY <1>1, <1>6 DEF AfterCancel, LessAsked, SameButPosted, SameRequests, SameFiles
  <1> QED
    BY <1>1, <1>10, <1>11
-----------------------------------------------------------------------------
(* A file that is ended.                                                   *)

OfFile(t) == {<<t, o>> : o \in Offsets}

LEMMA SentIsFinite ==
  ASSUME NEW d, Typed(d), Placed(d), NEW t \in Tasks
  PROVE  IsFiniteSet(d.sent[t])
  <1> DEFINE f == [r \in d.sent[t] |-> r.offset]
  <1>1. IsFiniteSet(Offsets)
    <2>1. 0 \in Int /\ Parts - 1 \in Int
      BY ConstantsAre
    <2> QED
      BY <2>1, FS_Interval DEF Offsets
  <1>2. \A r \in d.sent[t] : r.offset \in Offsets
    BY FileFacts
  <1>3. \A r, s \in d.sent[t] : r.offset = s.offset => r = s
    BY DEF Placed
  <1>4. f \in Injection(d.sent[t], Offsets)
    BY <1>2, <1>3 DEF Injection, IsInjective
  <1> HIDE DEF f
  <1> QED
    BY <1>1, <1>4, FS_Injection

LEMMA PicksAny ==
  ASSUME NEW how, how # "task", NEW S
  PROVE  Picks(how, S)
  BY DEF Picks, Picked

LEMMA CancelStep ==
  ASSUME NEW d, NEW x \in Nat, NEW M, NEW H, NEW t \in Tasks, OfFile(t) \subseteq M,
         NEW s, NEW e, HeldWhileCancelled(d, t, x, M, H, s, e),
         NEW y \in d.sent[t], y \notin s
  PROVE  HeldWhileCancelled(d, t, x, M, H, s \cup {y}, CancelRequest(t, e, y))
  <1> DEFINE g == CancelRequest(t, e, y)
  <1>1. Sound(e, x, M, H) /\ e.sent[t] = d.sent[t] \ s
    BY DEF HeldWhileCancelled
  <1>2. y \in e.sent[t]
    BY <1>1
  <1>3. PlaceOf(t, y) \in M
    <2>1. Typed(e)
      BY <1>1 DEF Sound
    <2>2. y.offset \in Offsets
      BY <1>2, <2>1, FileFacts
    <2> QED
      BY <2>2 DEF OfFile, PlaceOf
  <1>4. g = CancelRequest(t, e, y) /\ M \subseteq M
    OBVIOUS
  <1> HIDE DEF g
  <1>5. Sound(g, x, M, H) /\ AfterCancel(e, g) /\ LessAsked(e, g, t, y)
    BY <1>1, <1>2, <1>3, <1>4, CancelRequestIs
  <1>6. g.sent[t] = d.sent[t] \ (s \cup {y})
    BY <1>1, <1>5 DEF LessAsked
  <1>7. HeldWhileCancelled(d, t, x, M, H, s \cup {y}, g)
    BY <1>5, <1>6 DEF AfterCancel, HeldWhileCancelled
  <1> QED
    BY <1>7 DEF g

LEMMA CancelAll ==
  ASSUME NEW d, NEW x \in Nat, NEW M, NEW H, Sound(d, x, M, H),
         NEW t \in Tasks, OfFile(t) \subseteq M,
         NEW e, e = FoldSet(LAMBDA r, c : CancelRequest(t, c, r), d, d.sent[t])
  PROVE  HeldWhileCancelled(d, t, x, M, H, d.sent[t], e)
  <1> DEFINE S == d.sent[t]
             Folds(F) == F = [s \in SUBSET S |->
                                IF s = {} THEN d
                                ELSE CancelRequest(t, F[s \ {CHOOSE r \in s : TRUE}],
                                                   CHOOSE r \in s : TRUE)]
             F == CHOOSE F : Folds(F)
  <1>1. IsFiniteSet(S) /\ Picks("cancel", S)
    BY SentIsFinite, PicksAny DEF Sound
  <1>2. \E G : Folds(G)
    <2>1. PICK G : IsFold(G, S, d, "cancel", d, t)
      BY <1>1, FoldExists
    <2>2. Folds(G)
      BY <2>1 DEF IsFold, FoldStep, Picked
    <2> HIDE DEF Folds
    <2> QED
      BY <2>2
  <1>3. Folds(F)
    BY <1>2
  <1>4. e = F[S]
    BY DEF FoldSet, MapThenFoldSet
  <1>5. IsFold(F, S, d, "cancel", d, t)
    <2> HIDE DEF F
    <2> QED
      BY <1>3 DEF IsFold, FoldStep, Picked
  <1> HIDE DEF F, S
  <1>6. Held("cancel", d, t, x, M, H, {}, d)
    BY DEF Held, HeldWhileCancelled
  <1>7. \A s \in SUBSET S, y \in S : \A c :
          y \notin s /\ Held("cancel", d, t, x, M, H, s, c) =>
            Held("cancel", d, t, x, M, H, s \cup {y}, FoldStep("cancel", d, t, y, c))
    <2> SUFFICES ASSUME NEW s \in SUBSET S, NEW y \in S, NEW c, y \notin s,
                        Held("cancel", d, t, x, M, H, s, c)
                 PROVE  Held("cancel", d, t, x, M, H, s \cup {y},
                             FoldStep("cancel", d, t, y, c))
      OBVIOUS
    <2>1. HeldWhileCancelled(d, t, x, M, H, s, c) /\ y \in d.sent[t]
      BY DEF Held, S
    <2>2. HeldWhileCancelled(d, t, x, M, H, s \cup {y}, CancelRequest(t, c, y))
      BY <2>1, CancelStep
    <2> QED
      BY <2>2 DEF Held, FoldStep
  <1>8. Held("cancel", d, t, x, M, H, S, F[S])
    BY ONLY <1>1, <1>5, <1>6, <1>7, FoldHolds
  <1> QED
    BY <1>4, <1>8 DEF Held, S
-----------------------------------------------------------------------------
(* Changes of one field of the manager.                                    *)

SameBut(d, e, what) ==
  /\ SameRequests(d, e)
  /\ what # "queue" => e.queue = d.queue
  /\ what # "status" => e.status = d.status
  /\ what # "unchecked" => e.unchecked = d.unchecked
  /\ what # "hashes" => e.hashes = d.hashes
  /\ what # "token" => e.token = d.token
  /\ what # "posted" => e.posted = d.posted
  /\ what # "fed" => e.fed = d.fed
  /\ what # "orphaned" => e.orphaned = d.orphaned
  /\ what # "clash" => e.clash = d.clash

(* f is g but for t.                                                       *)
SetAt(f, g, t, value) == f[t] = value /\ SameOthers(f, g, t)

LEMMA UncheckedIs ==
  ASSUME NEW d, Typed(d), NEW t \in Tasks,
         NEW S \in SUBSET (Offsets \X (1 .. MaxSessions)),
         NEW e, e = [d EXCEPT !.unchecked[t] = S]
  PROVE  Typed(e) /\ SameBut(d, e, "unchecked") /\ SetAt(e.unchecked, d.unchecked, t, S)
  <1> DEFINE new == [d.unchecked EXCEPT ![t] = S]
  <1>1. d \in Managers
    BY DEF Typed
  <1>2. d.unchecked \in [Tasks -> SUBSET (Offsets \X (1 .. MaxSessions))]
    BY <1>1 DEF Managers
  <1>3. /\ new \in [Tasks -> SUBSET (Offsets \X (1 .. MaxSessions))] /\ new[t] = S
        /\ \A u \in Tasks : u # t => new[u] = d.unchecked[u]
    BY <1>2
  <1>4. e = [d EXCEPT !.unchecked = new]
    BY <1>1 DEF Managers
  <1> HIDE DEF new
  <1>5. e.unchecked = new /\ SameBut(d, e, "unchecked") /\ e \in Managers
    BY <1>1, <1>3, <1>4, ZenonT(60) DEF Managers, SameBut, SameRequests
  <1> QED
    BY <1>3, <1>5 DEF Typed, SameOthers, SetAt, SameBut, SameRequests

LEMMA StatusIs ==
  ASSUME NEW d, Typed(d), NEW t \in Tasks, NEW s \in Statuses,
         NEW e, e = [d EXCEPT !.status[t] = s]
  PROVE  Typed(e) /\ SameBut(d, e, "status") /\ SetAt(e.status, d.status, t, s)
  <1> DEFINE new == [d.status EXCEPT ![t] = s]
  <1>1. d \in Managers
    BY DEF Typed
  <1>2. d.status \in [Tasks -> Statuses]
    BY <1>1 DEF Managers
  <1>3. /\ new \in [Tasks -> Statuses] /\ new[t] = s
        /\ \A u \in Tasks : u # t => new[u] = d.status[u]
    BY <1>2
  <1>4. e = [d EXCEPT !.status = new]
    BY <1>1 DEF Managers
  <1> HIDE DEF new
  <1>5. e.status = new /\ SameBut(d, e, "status") /\ e \in Managers
    BY <1>1, <1>3, <1>4, ZenonT(60) DEF Managers, SameBut, SameRequests
  <1> QED
    BY <1>3, <1>5 DEF Typed, SameOthers, SetAt, SameBut, SameRequests

LEMMA HashesAre ==
  ASSUME NEW d, Typed(d), NEW t \in Tasks, NEW S \in SUBSET Offsets,
         NEW e, e = [d EXCEPT !.hashes[t] = S]
  PROVE  Typed(e) /\ SameBut(d, e, "hashes")
  <1> DEFINE new == [d.hashes EXCEPT ![t] = S]
  <1>1. d \in Managers
    BY DEF Typed
  <1>2. d.hashes \in [Tasks -> SUBSET Offsets]
    BY <1>1 DEF Managers
  <1>3. new \in [Tasks -> SUBSET Offsets]
    BY <1>2
  <1>4. e = [d EXCEPT !.hashes = new]
    BY <1>1 DEF Managers
  <1> HIDE DEF new
  <1>5. SameBut(d, e, "hashes") /\ e \in Managers
    BY <1>1, <1>3, <1>4, ZenonT(60) DEF Managers, SameBut, SameRequests
  <1> QED
    BY <1>5 DEF Typed, SameBut, SameRequests

LEMMA FedIs ==
  ASSUME NEW d, Typed(d), NEW t \in Tasks, NEW S \in SUBSET Offsets,
         NEW e, e = [d EXCEPT !.fed[t] = S]
  PROVE  Typed(e) /\ SameBut(d, e, "fed") /\ SetAt(e.fed, d.fed, t, S)
  <1> DEFINE new == [d.fed EXCEPT ![t] = S]
  <1>1. d \in Managers
    BY DEF Typed
  <1>2. d.fed \in [Tasks -> SUBSET Offsets]
    BY <1>1 DEF Managers
  <1>3. /\ new \in [Tasks -> SUBSET Offsets] /\ new[t] = S
        /\ \A u \in Tasks : u # t => new[u] = d.fed[u]
    BY <1>2
  <1>4. e = [d EXCEPT !.fed = new]
    BY <1>1 DEF Managers
  <1> HIDE DEF new
  <1>5. e.fed = new /\ SameBut(d, e, "fed") /\ e \in Managers
    BY <1>1, <1>3, <1>4, ZenonT(60) DEF Managers, SameBut, SameRequests
  <1> QED
    BY <1>3, <1>5 DEF Typed, SameOthers, SetAt, SameBut, SameRequests

LEMMA QueueIs ==
  ASSUME NEW d, Typed(d), NEW q \in Seq(Tasks), NEW e, e = [d EXCEPT !.queue = q]
  PROVE  Typed(e) /\ SameBut(d, e, "queue") /\ e.queue = q
  <1>1. d \in Managers
    BY DEF Typed
  <1>2. e.queue = q /\ SameBut(d, e, "queue") /\ e \in Managers
    BY <1>1, Zenon DEF Managers, SameBut, SameRequests
  <1> QED
    BY <1>2 DEF Typed, SameBut, SameRequests

(* cancelAllRequests and cancelOnFail.                                     *)
LEMMA FailedIs ==
  ASSUME NEW d, NEW M, NEW H, Sound(d, 0, M, H), InQueue(d), NEW t \in Tasks,
         M \subseteq OfFile(t), H \subseteq {t}, NEW e, e = Failed(d, t)
  PROVE  /\ Sound(e, 0, {}, {}) /\ InQueue(e) /\ e.clash = d.clash
         /\ SetAt(e.status, d.status, t, "failed")
  <1> DEFINE f == FoldSet(LAMBDA r, c : CancelRequest(t, c, r), d, d.sent[t])
             g == [f EXCEPT !.unchecked[t] = {}]
             All == OfFile(t)
  <1>1. HeldWhileCancelled(d, t, 0, All, {t}, d.sent[t], f)
    <2>1. Sound(d, 0, All, {t})
      BY SoundMore
    <2>2. OfFile(t) \subseteq All
      OBVIOUS
    <2> HIDE DEF All, f
    <2>3. f = FoldSet(LAMBDA r, c : CancelRequest(t, c, r), d, d.sent[t])
      BY DEF f
    <2>4. 0 \in Nat
      OBVIOUS
    <2> QED
      BY <2>1, <2>2, <2>3, <2>4, CancelAll
  <1>2. e = [g EXCEPT !.status[t] = "failed"]
    BY DEF Failed, Cancelled
  <1> HIDE DEF f
  <1>3. Sound(f, 0, All, {t}) /\ f.sent[t] = {}
    BY <1>1 DEF HeldWhileCancelled
  <1>4. Typed(f) /\ Placed(f) /\ Idle(f) /\ Kept(f, All) /\ HashesKnown(f, {t})
    BY <1>3 DEF Sound
  <1>5. Typed(g) /\ SameBut(f, g, "unchecked") /\ SetAt(g.unchecked, f.unchecked, t, {})
    <2>1. g = [f EXCEPT !.unchecked[t] = {}]
          /\ {} \in SUBSET (Offsets \X (1 .. MaxSessions))
      OBVIOUS
    <2> HIDE DEF g
    <2> QED
      BY <1>4, <2>1, UncheckedIs
  <1> HIDE DEF g
  <1>6. /\ Typed(e) /\ SameBut(g, e, "status")
        /\ SetAt(e.status, g.status, t, "failed")
    <2>1. "failed" \in Statuses
      BY DEF Statuses
    <2> QED
      BY <1>2, <1>5, <2>1, StatusIs
  <1>7. /\ SameRequests(f, e) /\ e.queue = f.queue /\ e.fed = f.fed
        /\ e.posted = f.posted /\ e.orphaned = f.orphaned /\ e.clash = f.clash
        /\ e.status[t] = "failed" /\ e.unchecked[t] = {} /\ e.sent[t] = {}
        /\ \A u \in Tasks : u # t => /\ e.status[u] = f.status[u]
                                     /\ e.unchecked[u] = f.unchecked[u]
        /\ e.sent = f.sent /\ e.next = f.next /\ e.sessions = f.sessions
    BY <1>3, <1>5, <1>6 DEF SameBut, SameRequests, SetAt, SameOthers
  <1>8. PartsArePlaced(e)
    <2> SUFFICES ASSUME NEW u \in Tasks
                 PROVE  /\ \A part \in e.unchecked[u] :
                             part[2] \in 1 .. Len(e.sessions) /\ part[1] < e.next[u]
                        /\ \A r \in e.sent[u] : r.kind = "hashes" => HasPart(e, u, r.offset)
      BY DEF PartsArePlaced
    <2>1. CASE u = t
      BY <1>7, <2>1
    <2>2. CASE u # t
      BY <1>4, <1>7, <2>2 DEF Placed, HasPart
    <2> QED
      BY <2>1, <2>2
  <1>9. Idle(e)
    <2> SUFFICES ASSUME NEW u \in Tasks
                 PROVE  /\ e.status[u] # "loading" => e.sent[u] = {} /\ e.unchecked[u] = {}
                        /\ e.status[u] = "new" => e.next[u] = 0
                        /\ e.status[u] = "done" => e.next[u] = Parts
      BY DEF Idle
    <2>1. CASE u = t
      BY <1>7, <2>1
    <2>2. CASE u # t
      BY <1>4, <1>7, <2>2 DEF Idle
    <2> QED
      BY <2>1, <2>2
  <1>10. Kept(e, {})
    <2> SUFFICES ASSUME NEW u \in Tasks, e.status[u] \in {"loading", "done"},
                        NEW q \in 0 .. e.next[u] - 1
                 PROVE  \/ q \in e.fed[u]
                        \/ <<u, q>> \in {}
                        \/ \E s \in e.sent[u] : s.offset = q
                        \/ \E part \in e.unchecked[u] : part[1] = q
      BY DEF Kept
    <2>1. u # t
      BY <1>7
    <2>2. <<u, q>> \notin All
      BY <2>1 DEF OfFile
    <2> HIDE DEF All
    <2>3. \/ q \in f.fed[u]
          \/ <<u, q>> \in All
          \/ \E s \in f.sent[u] : s.offset = q
          \/ \E part \in f.unchecked[u] : part[1] = q
      BY <1>4, <1>7, <2>1 DEF Kept
    <2> QED
      BY <1>7, <2>1, <2>2, <2>3
  <1>11. HashesKnown(e, {})
    <2> SUFFICES ASSUME NEW u \in Tasks, e.unchecked[u] # {}
                 PROVE  \/ u \in {}
                        \/ e.posted[u]
                        \/ e.orphaned[u]
                        \/ \E s \in e.sent[u] : s.kind = "hashes"
      BY DEF HashesKnown
    <2>1. u # t
      BY <1>7
    <2> QED
      BY <1>4, <1>7, <2>1 DEF HashesKnown
  <1>12. Sound(e, 0, {}, {})
    BY <1>3, <1>6, <1>7, <1>8, <1>9, <1>10, <1>11, SoundEdited
  <1>13. f.queue = d.queue /\ f.status = d.status /\ f.clash = d.clash
    BY <1>1 DEF HeldWhileCancelled
  <1>14. SetAt(e.status, d.status, t, "failed")
    BY <1>7, <1>13 DEF SetAt, SameOthers
  <1>15. InQueue(e)
    <2> SUFFICES ASSUME NEW u \in Tasks, e.status[u] = "loading"
                 PROVE  \E i \in DOMAIN e.queue : e.queue[i] = u
      BY DEF InQueue
    <2>1. u # t /\ d.status[u] = "loading"
      BY <1>7, <1>13
    <2> QED
      BY <1>7, <1>13, <2>1 DEF InQueue
  <1> QED
    BY <1>7, <1>12, <1>13, <1>14, <1>15
-----------------------------------------------------------------------------
(* Asking for more.                                                        *)

(* requestMoreCdnFileHashes: no hashes are owed to the file then, unless   *)
(* the Ensures of placeSentRequest has failed.                             *)
LEMMA AskForHashesIs ==
  ASSUME NEW d, NEW x \in Nat, NEW M, NEW H, Sound(d, x, M, H), NEW t \in Tasks,
         NEW H2, \A u \in H : u \in H2 \/ u = t,
         NEW e, e = AskForHashes(d, t)
  PROVE  /\ Typed(e) /\ e.queue = d.queue /\ e.status = d.status
         /\ d.clash => e.clash
         /\ ~e.clash => Sound(e, x, M, H2)
  <1>1. Typed(d) /\ Placed(d) /\ Idle(d) /\ Kept(d, M) /\ HashesKnown(d, H)
    BY DEF Sound
  <1> DEFINE parts == d.unchecked[t]
             first == CHOOSE part \in parts : \A other \in parts : part[1] <= other[1]
  <1>2. CASE parts = {} \/ \E r \in d.sent[t] : r.kind = "hashes"
    <2>1. e = d
      BY <1>2 DEF AskForHashes
    <2>2. HashesKnown(d, H2)
      BY <1>1, <1>2 DEF HashesKnown
    <2>3. Sound(d, x, M, H2)
      BY <2>2 DEF Sound
    <2> QED
      BY <1>1, <2>1, <2>3
  <1>3. CASE ~(parts = {} \/ \E r \in d.sent[t] : r.kind = "hashes")
    <2>1. /\ parts # {} /\ \A r \in d.sent[t] : r.kind # "hashes"
          /\ e = Place(d, t, "hashes", first[1], first[2])
      BY <1>3 DEF AskForHashes
    <2>2. \A part \in parts : part[1] \in Offsets /\ part[1] \in Nat
      BY <1>1, FileFacts DEF Offsets
    <2>3. first \in parts
      <3> DEFINE N == {part[1] : part \in parts}
      <3>1. N \in SUBSET Nat /\ N # {}
        BY <2>1, <2>2
      <3>2. PICK n \in N : \A m \in N : n <= m
        <4> HIDE DEF N
        <4> QED
          BY <3>1, SmallestExists
      <3>3. PICK part \in parts : part[1] = n
        BY <3>2
      <3>4. \A other \in parts : part[1] <= other[1]
        BY <3>2, <3>3
      <3> QED
        BY <3>3, <3>4
    <2> HIDE DEF first
    <2>4. /\ first[1] \in Offsets /\ first[1] < d.next[t]
          /\ first[2] \in 1 .. Len(d.sessions)
          /\ HasPart(d, t, first[1])
      BY <1>1, <2>2, <2>3 DEF Placed, HasPart
    <2>5. d.status[t] = "loading"
      BY <1>1, <2>1 DEF Idle
    <2> DEFINE o == first[1]
               session == first[2]
    <2>6. o \in Offsets /\ session \in 1 .. Len(d.sessions) /\ "hashes" \in Kinds
          /\ e = Place(d, t, "hashes", o, session) /\ o < d.next[t]
          /\ HasPart(d, t, o)
      BY <2>1, <2>4 DEF Kinds
    <2> HIDE DEF o, session
    <2>7. /\ Typed(e) /\ SamePlans(d, e) /\ e.next = d.next
          /\ FreeAt(d, t, o) => e.clash = d.clash
          /\ ~FreeAt(d, t, o) \/ d.clash => e.clash
      <3>1. Typed(d) /\ t \in Tasks
        BY <1>1
      <3>2. /\ Typed(e) /\ SamePlans(d, e) /\ e.next = d.next
            /\ FreeAt(d, t, o) => e.clash = d.clash
            /\ ~FreeAt(d, t, o) \/ d.clash => e.clash
            /\ NewRequest(d, e, t, "hashes", o, session)
            /\ Charged(d, e, session, 1) /\ e.total = d.total + 1 /\ ~e.kill
        BY ONLY <2>6, <3>1, PlaceChanges
      <3> QED
        BY <3>2
    <2>8. ASSUME ~e.clash PROVE Sound(e, x, M, H2)
      <3>1. FreeAt(d, t, o)
        BY <2>7, <2>8
      <3>2. \A p \in M : p # <<t, o>> => p \in M
        OBVIOUS
      <3>3. \A u \in H : u \in H2 \/ (u = t /\ "hashes" = "hashes")
        OBVIOUS
      <3>4. "hashes" = "hashes" =>
              /\ \E part \in d.unchecked[t] : part[1] = o
              /\ \A r \in d.sent[t] : r.kind # "hashes"
        BY <2>1, <2>6 DEF HasPart
      <3>5. x \in Nat /\ Sound(d, x, M, H) /\ t \in Tasks
        OBVIOUS
      <3>6. /\ Sound(e, x, M, H2) /\ SameFiles(d, e) /\ e.next = d.next
            /\ NewRequest(d, e, t, "hashes", o, session)
            /\ Charged(d, e, session, 1) /\ e.total = d.total + 1
        BY ONLY <2>5, <2>6, <3>1, <3>2, <3>3, <3>4, <3>5, PlaceIs
      <3> QED
        BY <3>6
    <2> QED
      BY <2>7, <2>8 DEF SamePlans
  <1> QED
    BY <1>2, <1>3

(* Takes the next part of a file: its place is excused until it is asked   *)
(* for.                                                                    *)
TakesNext(d, e, t) ==
  /\ Typed(e) /\ SameFiles(d, e) /\ e.sessions = d.sessions
  /\ e.total = d.total /\ e.kill = d.kill /\ e.sent = d.sent
  /\ SetAt(e.next, d.next, t, d.next[t] + 1)

LEMMA NextIs ==
  ASSUME NEW d, Typed(d), NEW t \in Tasks, d.next[t] < Parts,
         NEW e, e = [d EXCEPT !.next[t] = @ + 1]
  PROVE  TakesNext(d, e, t)
  <1> DEFINE new == [d.next EXCEPT ![t] = @ + 1]
  <1>1. d \in Managers
    BY DEF Typed
  <1>2. d.next \in [Tasks -> 0 .. Parts]
    BY <1>1 DEF Managers
  <1>3. d.next[t] + 1 \in 0 .. Parts
    BY <1>2, ConstantsAre
  <1>4. /\ new \in [Tasks -> 0 .. Parts] /\ new[t] = d.next[t] + 1
        /\ \A u \in Tasks : u # t => new[u] = d.next[u]
    BY <1>2, <1>3
  <1>5. e = [d EXCEPT !.next = new]
    BY <1>1 DEF Managers
  <1> HIDE DEF new
  <1>6. /\ e.next = new /\ SameFiles(d, e) /\ e.sessions = d.sessions
        /\ e.total = d.total /\ e.kill = d.kill /\ e.sent = d.sent
        /\ e \in Managers
    BY <1>1, <1>4, <1>5, ZenonT(60) DEF Managers, SameFiles
  <1> QED
    BY <1>4, <1>6 DEF Typed, SetAt, SameOthers, TakesNext

LEMMA NextIsSound ==
  ASSUME NEW d, NEW x, NEW M, NEW H, Sound(d, x, M, H), NEW t \in Tasks,
         d.next[t] < Parts, d.status[t] = "loading", NEW o, o = d.next[t],
         NEW e, TakesNext(d, e, t), NEW M2, M \subseteq M2, <<t, o>> \in M2
  PROVE  Sound(e, x, M2, H) /\ FreeAt(e, t, o) /\ e.next[t] = o + 1
  <1>1. Typed(d) /\ Placed(d) /\ Counted(d, x) /\ Idle(d) /\ Kept(d, M) /\ HashesKnown(d, H)
    BY DEF Sound
  <1>2. /\ Typed(e) /\ SameFiles(d, e) /\ e.sessions = d.sessions
        /\ e.total = d.total /\ e.kill = d.kill /\ e.sent = d.sent
        /\ SetAt(e.next, d.next, t, d.next[t] + 1)
    BY DEF TakesNext
  <1>3. /\ e.next[t] = o + 1 /\ \A u \in Tasks : u # t => e.next[u] = d.next[u]
        /\ e.unchecked = d.unchecked /\ e.status = d.status /\ e.fed = d.fed
        /\ e.posted = d.posted /\ e.orphaned = d.orphaned
    BY <1>2 DEF SetAt, SameOthers, SameFiles
  <1>4. \A u \in Tasks : d.next[u] \in Nat /\ e.next[u] \in Nat
                         /\ d.next[u] <= e.next[u]
    <2>1. \A u \in Tasks : d.next[u] \in Nat
      BY <1>1, FileFacts, ConstantsAre
    <2> QED
      BY <1>3, <2>1
  <1>5. \A u \in Tasks :
          /\ \A r \in d.sent[u] : r.offset \in Nat
          /\ \A part \in d.unchecked[u] : part[1] \in Nat
    BY <1>1, FileFacts DEF Offsets
  <1>6. Placed(e)
    <2> SUFFICES ASSUME NEW u \in Tasks
                 PROVE /\ \A s \in e.sent[u] :
                            s.session \in 1 .. Len(e.sessions) /\ s.offset < e.next[u]
                       /\ \A part \in e.unchecked[u] :
                            part[2] \in 1 .. Len(e.sessions) /\ part[1] < e.next[u]
                       /\ \A q, s \in e.sent[u] : q.offset = s.offset => q = s
                       /\ \A q, s \in e.sent[u] :
                            q.kind = "hashes" /\ s.kind = "hashes" => q = s
                       /\ \A s \in e.sent[u] : s.kind = "hashes" =>
                            \E part \in e.unchecked[u] : part[1] = s.offset
      BY DEF Placed
    <2>1. \A s \in d.sent[u] : s.session \in 1 .. Len(d.sessions) /\ s.offset < d.next[u]
      BY <1>1 DEF Placed
    <2>2. \A part \in d.unchecked[u] :
             part[2] \in 1 .. Len(d.sessions) /\ part[1] < d.next[u]
      BY <1>1 DEF Placed
    <2>3. \A s \in e.sent[u] : s.session \in 1 .. Len(e.sessions) /\ s.offset < e.next[u]
      BY <1>2, <1>4, <1>5, <2>1
    <2>4. \A part \in e.unchecked[u] :
             part[2] \in 1 .. Len(e.sessions) /\ part[1] < e.next[u]
      BY <1>2, <1>3, <1>4, <1>5, <2>2
    <2> QED
      BY <1>1, <1>2, <1>3, <2>3, <2>4 DEF Placed
  <1>7. Counted(e, x)
    <2>1. Asked(e) = Asked(d) /\ \A i : InSession(e, i) = InSession(d, i)
      BY <1>2 DEF Asked, InSession
    <2> QED
      BY <1>1, <1>2, <2>1 DEF Counted
  <1>8. Idle(e)
    BY <1>1, <1>2, <1>3 DEF Idle
  <1>9. Kept(e, M2)
    <2> SUFFICES ASSUME NEW u \in Tasks, e.status[u] \in {"loading", "done"},
                        NEW q \in 0 .. e.next[u] - 1
                 PROVE  \/ q \in e.fed[u]
                        \/ <<u, q>> \in M2
                        \/ \E s \in e.sent[u] : s.offset = q
                        \/ \E part \in e.unchecked[u] : part[1] = q
      BY DEF Kept
    <2>1. q \in 0 .. d.next[u] - 1 \/ (u = t /\ q = o)
      BY <1>3, <1>4
    <2> QED
      BY <1>1, <1>2, <1>3, <2>1 DEF Kept
  <1>10. HashesKnown(e, H)
    BY <1>1, <1>2, <1>3 DEF HashesKnown
  <1>11. FreeAt(e, t, o)
    <2>1. \A s \in d.sent[t] : s.offset < o /\ s.offset \in Nat
      BY <1>1, <1>5 DEF Placed
    <2> QED
      BY <1>2, <1>4, <2>1 DEF FreeAt
  <1> QED
    BY <1>2, <1>3, <1>6, <1>7, <1>8, <1>9, <1>10, <1>11 DEF Sound
SentMore(d, e, x, M, H) ==
  /\ Typed(e) /\ OnlySends(d, e)
  /\ Sound(d, x, M, H) => Sound(e, x, M, H) /\ e.clash = d.clash

LEMMA SentNothing ==
  ASSUME NEW d, Typed(d), NEW x, NEW M, NEW H
  PROVE  SentMore(d, d, x, M, H)
  BY DEF SentMore, OnlySends

(* trySendNextPart.                                                        *)
LEMMA TrySendNextIs ==
  ASSUME NEW d, Typed(d), NEW x \in Nat, NEW M, NEW H, NEW e, e = TrySendNext(d)
  PROVE  SentMore(d, e, x, M, H)
  <1> DEFINE session == BestSession(d)
             I == {i \in 1 .. Len(d.queue) : Ready(d, d.queue[i])}
             first == SelectInSeq(d.queue, LAMBDA t : Ready(d, t))
  <1>1. session = 0 \/ session \in 1 .. Len(d.sessions)
    BY BestSessionIs
  <1>2. d.queue \in Seq(Tasks)
    BY DEF Typed, Managers
  <1>3. first = 0 \/ first \in I
    <2>1. first = IF I # {} THEN Min(I) ELSE 0
      BY DEF SelectInSeq
    <2>2. I # {} => Min(I) \in I
      <3> SUFFICES ASSUME I # {} PROVE Min(I) \in I
        OBVIOUS
      <3>1. I \in SUBSET Nat
        OBVIOUS
      <3> HIDE DEF I
      <3>2. \E i \in I : \A j \in I : i <= j
        BY <3>1, SmallestExists
      <3> QED
        BY <3>2 DEF Min
    <2> HIDE DEF I
    <2> QED
      BY <2>1, <2>2
  <1>4. CASE session = 0 \/ first = 0
    <2>1. e = d
      BY <1>4 DEF TrySendNext
    <2> QED
      BY <2>1, SentNothing
  <1>5. CASE ~(session = 0 \/ first = 0)
    <2> DEFINE t == d.queue[first]
               g == [d EXCEPT !.next[t] = @ + 1]
               o == d.next[t]
    <2>1. e = Place(g, t, "part", o, session)
      BY <1>5 DEF TrySendNext
    <2>2. /\ t \in Tasks /\ Ready(d, t) /\ session \in 1 .. Len(d.sessions)
      <3>1. first \in I /\ first \in 1 .. Len(d.queue)
        BY <1>3, <1>5
      <3> HIDE DEF first
      <3>2. t \in Tasks
        BY <1>2, <3>1
      <3> QED
        BY <1>1, <1>5, <3>1, <3>2
    <2> HIDE DEF first, t, session, I
    <2>3. d.status[t] = "loading" /\ d.next[t] < Parts
      BY <2>2 DEF Ready
    <2>4. o \in Offsets /\ o \in Nat
      BY <2>2, <2>3, FileFacts, ConstantsAre DEF Offsets
    <2> DEFINE N == M \cup {<<t, o>>}
    <2>a. TakesNext(d, g, t)
      BY <2>2, <2>3, NextIs
    <2>5. /\ Typed(g) /\ SameFiles(d, g) /\ g.sessions = d.sessions
          /\ g.total = d.total /\ g.kill = d.kill /\ g.sent = d.sent
          /\ SetAt(g.next, d.next, t, o + 1)
      BY <2>a DEF TakesNext
    <2>6. Sound(d, x, M, H) => /\ Sound(g, x, N, H)
                               /\ FreeAt(g, t, o) /\ g.next[t] = o + 1
      <3>1. o = d.next[t] /\ M \subseteq N /\ <<t, o>> \in N
        OBVIOUS
      <3> HIDE DEF g, o, N
      <3> QED
        BY <2>a, <2>2, <2>3, <3>1, NextIsSound
    <2> HIDE DEF g, o
    <2>7. /\ Typed(e) /\ SamePlans(g, e) /\ e.next = g.next
          /\ FreeAt(g, t, o) => e.clash = g.clash
          /\ ~FreeAt(g, t, o) \/ g.clash => e.clash
          /\ NewRequest(g, e, t, "part", o, session)
      <3>1. /\ Typed(g) /\ t \in Tasks /\ "part" \in Kinds /\ o \in Offsets
            /\ session \in 1 .. Len(g.sessions)
        BY <2>2, <2>4, <2>5 DEF Kinds
      <3>2. /\ Typed(e) /\ SamePlans(g, e) /\ e.next = g.next
            /\ FreeAt(g, t, o) => e.clash = g.clash
            /\ ~FreeAt(g, t, o) \/ g.clash => e.clash
            /\ NewRequest(g, e, t, "part", o, session)
            /\ Charged(g, e, session, 1) /\ e.total = g.total + 1 /\ ~e.kill
        BY ONLY <2>1, <3>1, PlaceChanges
      <3> QED
        BY <3>2
    <2>8. OnlySends(d, e)
      <3>1. PICK r \in Requests : r.kind = "part" /\ MoreAsked(g, e, t, r)
        BY <2>7 DEF NewRequest
      <3>2. \A u \in Tasks :
              /\ d.next[u] = Parts => e.next[u] = Parts /\ e.sent[u] = d.sent[u]
              /\ \A q \in e.sent[u] : q \in d.sent[u] \/ q.kind = "part"
        <4> SUFFICES ASSUME NEW u \in Tasks
                     PROVE  /\ d.next[u] = Parts =>
                                 e.next[u] = Parts /\ e.sent[u] = d.sent[u]
                            /\ \A q \in e.sent[u] : q \in d.sent[u] \/ q.kind = "part"
          OBVIOUS
        <4>1. CASE u = t
          <5>1. d.next[t] # Parts
            BY <2>2, <2>3, FileFacts, ConstantsAre
          <5>2. e.sent[t] = d.sent[t] \cup {r}
            BY <2>5, <3>1 DEF MoreAsked
          <5> QED
            BY <3>1, <4>1, <5>1, <5>2
        <4>2. CASE u # t
          <5>1. e.sent[u] = d.sent[u]
            BY <2>5, <3>1, <4>2 DEF MoreAsked
          <5>2. e.next[u] = d.next[u]
            BY <2>5, <2>7, <4>2 DEF SetAt, SameOthers
          <5> QED
            BY <5>1, <5>2
        <4> QED
          BY <4>1, <4>2
      <3>3. d.clash => e.clash
        BY <2>5, <2>7 DEF SameFiles
      <3> QED
        BY <2>5, <2>7, <3>2, <3>3 DEF OnlySends, SameFiles, SamePlans
    <2>9. ASSUME Sound(d, x, M, H) PROVE Sound(e, x, M, H) /\ e.clash = d.clash
      <3>1. /\ Sound(g, x, N, H) /\ FreeAt(g, t, o)
            /\ g.next[t] = o + 1 /\ x \in Nat
        BY <2>6, <2>9
      <3> DEFINE kind == "part"
      <3>2. \A p \in N : p # <<t, o>> => p \in M
        OBVIOUS
      <3>3. /\ x \in Nat /\ Sound(g, x, N, H) /\ t \in Tasks /\ kind \in Kinds
            /\ o \in Offsets /\ session \in 1 .. Len(g.sessions) /\ g.status[t] = "loading"
            /\ o < g.next[t] /\ FreeAt(g, t, o)
            /\ e = Place(g, t, kind, o, session)
        BY <2>1, <2>2, <2>3, <2>4, <2>5, <3>1 DEF Kinds, SameFiles
      <3>4. kind = "hashes" => /\ \E part \in g.unchecked[t] : part[1] = o
                               /\ \A q \in g.sent[t] : q.kind # "hashes"
        OBVIOUS
      <3>5. \A u \in H : u \in H \/ (u = t /\ kind = "hashes")
        OBVIOUS
      <3> HIDE DEF N, kind, o, session
      <3>6. /\ Sound(e, x, M, H) /\ SameFiles(g, e) /\ e.next = g.next
            /\ NewRequest(g, e, t, kind, o, session)
            /\ Charged(g, e, session, 1) /\ e.total = g.total + 1
        BY ONLY <3>2, <3>3, <3>4, <3>5, PlaceIs
      <3> QED
        BY <2>5, <2>7, <3>1, <3>6 DEF SameFiles
    <2> QED
      BY <2>7, <2>8, <2>9 DEF SentMore
  <1> QED
    BY <1>4, <1>5

LEMMA SentMoreThen ==
  ASSUME NEW d, NEW e, NEW f, NEW x, NEW M, NEW H,
         SentMore(d, e, x, M, H), SentMore(e, f, x, M, H)
  PROVE  SentMore(d, f, x, M, H)
  BY DEF SentMore, OnlySends

(* checkSendNext.                                                          *)
LEMMA CheckSendNextIs ==
  ASSUME NEW d, Typed(d), NEW x \in Nat, NEW M, NEW H, NEW e, e = CheckSendNext(d)
  PROVE  SentMore(d, e, x, M, H)
  <1> DEFINE S == 1 .. Parts * Cardinality(Tasks)
             Folds(F) == F = [s \in SUBSET S |->
                                IF s = {} THEN d
                                ELSE TrySendNext(F[s \ {CHOOSE i \in s : TRUE}])]
             F == CHOOSE F : Folds(F)
  <1>1. IsFiniteSet(S) /\ Picks("next", S)
    <2>1. Parts \in Nat /\ Cardinality(Tasks) \in Nat
      BY ConstantsAre, FS_CardinalityType
    <2>2. 1 \in Int /\ Parts * Cardinality(Tasks) \in Int
      BY <2>1
    <2>3. IsFiniteSet(S)
      BY <2>2, FS_Interval
    <2> QED
      BY <2>3, PicksAny
  <1>2. \E G : Folds(G)
    <2>1. PICK G : IsFold(G, S, d, "next", d, 0)
      BY <1>1, FoldExists
    <2>2. Folds(G)
      BY <2>1 DEF IsFold, FoldStep, Picked
    <2> HIDE DEF Folds
    <2> QED
      BY <2>2
  <1>3. Folds(F)
    BY <1>2
  <1>4. e = F[S]
    BY DEF CheckSendNext, FoldSet, MapThenFoldSet
  <1>5. IsFold(F, S, d, "next", d, 0)
    <2> HIDE DEF F
    <2> QED
      BY <1>3 DEF IsFold, FoldStep, Picked
  <1> HIDE DEF F, S
  <1>6. Held("next", d, 0, x, M, H, {}, d)
    BY SentNothing DEF Held, HeldWhileSent, SentMore
  <1>7. \A s \in SUBSET S, y \in S : \A c :
          y \notin s /\ Held("next", d, 0, x, M, H, s, c) =>
            Held("next", d, 0, x, M, H, s \cup {y}, FoldStep("next", d, 0, y, c))
    <2> SUFFICES ASSUME NEW s \in SUBSET S, NEW y \in S, NEW c, y \notin s,
                        Held("next", d, 0, x, M, H, s, c)
                 PROVE  Held("next", d, 0, x, M, H, s \cup {y},
                             FoldStep("next", d, 0, y, c))
      OBVIOUS
    <2>1. SentMore(d, c, x, M, H)
      BY DEF Held, HeldWhileSent, SentMore
    <2>2. SentMore(c, TrySendNext(c), x, M, H)
      BY <2>1, TrySendNextIs DEF SentMore
    <2>3. SentMore(d, TrySendNext(c), x, M, H)
      BY <2>1, <2>2, SentMoreThen
    <2> QED
      BY <2>3 DEF Held, HeldWhileSent, SentMore, FoldStep
  <1>8. Held("next", d, 0, x, M, H, S, F[S])
    BY ONLY <1>1, <1>5, <1>6, <1>7, FoldHolds
  <1> QED
    BY <1>4, <1>8 DEF Held, HeldWhileSent, SentMore
-----------------------------------------------------------------------------
(* The queue, and parts that are given.                                    *)

(* What is left of a sequence when one element of it is taken out.         *)
LEMMA RemoveAtIs ==
  ASSUME NEW S, NEW s \in Seq(S), NEW i \in DOMAIN s
  PROVE  /\ RemoveAt(s, i) \in Seq(S)
         /\ \A j \in DOMAIN s : j # i =>
              \E k \in DOMAIN RemoveAt(s, i) : RemoveAt(s, i)[k] = s[j]
  <1> DEFINE r == RemoveAt(s, i)
             a == SubSeq(s, 1, i - 1)
             b == SubSeq(s, i + 1, Len(s))
  <1>1. Len(s) \in Nat /\ DOMAIN s = 1 .. Len(s) /\ i \in 1 .. Len(s)
    OBVIOUS
  <1>2. /\ a \in Seq(S) /\ Len(a) = i - 1
        /\ \A k \in 1 .. i - 1 : a[k] = s[k]
    BY <1>1
  <1>3. /\ b \in Seq(S) /\ Len(b) = Len(s) - i
        /\ \A k \in 1 .. Len(s) - i : b[k] = s[i + k]
    BY <1>1
  <1>4. r = a \o b
    BY DEF RemoveAt
  <1> HIDE DEF a, b, r
  <1>5. /\ r \in Seq(S) /\ Len(r) = Len(s) - 1 /\ DOMAIN r = 1 .. Len(s) - 1
        /\ \A k \in 1 .. i - 1 : r[k] = a[k]
        /\ \A k \in 1 .. Len(s) - i : r[i - 1 + k] = b[k]
    <2>1. r \in Seq(S) /\ Len(r) = Len(a) + Len(b)
      <3>1. a \in Seq(S) /\ b \in Seq(S) /\ r = a \o b
        BY <1>2, <1>3, <1>4
      <3> QED
        BY ONLY <3>1
    <2>2. Len(r) = Len(s) - 1 /\ Len(r) \in Nat
      BY <1>1, <1>2, <1>3, <2>1
    <2>3. DOMAIN r = 1 .. Len(r)
      BY <2>1
    <2>4. \A k \in 1 .. Len(r) : r[k] = IF k <= Len(a) THEN a[k] ELSE b[k - Len(a)]
      BY <1>2, <1>3, <1>4, <2>1
    <2>5. \A k \in 1 .. i - 1 : k \in 1 .. Len(r) /\ k <= Len(a)
      BY <1>1, <1>2, <2>2
    <2>6. \A k \in 1 .. Len(s) - i :
            /\ i - 1 + k \in 1 .. Len(r) /\ ~(i - 1 + k <= Len(a))
            /\ i - 1 + k - Len(a) = k
      BY <1>1, <1>2, <2>2
    <2> QED
      BY SMTT(30), <2>1, <2>2, <2>3, <2>4, <2>5, <2>6
  <1>6. ASSUME NEW j \in DOMAIN s, j # i
        PROVE  \E k \in DOMAIN r : r[k] = s[j]
    <2>1. CASE j < i
      <3>1. j \in 1 .. i - 1 /\ j \in 1 .. Len(s) - 1
        BY <1>1, <2>1
      <3> QED
        BY <1>2, <1>5, <3>1
    <2>2. CASE j > i
      <3>1. /\ j - i \in 1 .. Len(s) - i /\ i + (j - i) = j
            /\ (i - 1) + (j - i) = j - 1 /\ j - 1 \in 1 .. Len(s) - 1
        BY <1>1, <2>2
      <3>2. r[j - 1] = b[j - i] /\ b[j - i] = s[j]
        BY <1>2, <1>3, <1>5, <3>1
      <3> QED
        BY <1>5, <3>1, <3>2
    <2> QED
      BY <1>1, <1>6, <2>1, <2>2
  <1> QED
    BY <1>5, <1>6 DEF r

LEMMA RemoveFirstIs ==
  ASSUME NEW S, NEW s \in Seq(S), NEW t
  PROVE  /\ RemoveFirst(s, t) \in Seq(S)
         /\ \A j \in DOMAIN s : s[j] # t =>
              \E k \in DOMAIN RemoveFirst(s, t) : RemoveFirst(s, t)[k] = s[j]
  <1> DEFINE I == {i \in 1 .. Len(s) : s[i] = t}
  <1>1. CASE I = {}
    <2>1. RemoveFirst(s, t) = s
      BY <1>1 DEF RemoveFirst
    <2> QED
      BY <2>1
  <1>2. CASE I # {}
    <2>1. RemoveFirst(s, t) = RemoveAt(s, Min(I))
      BY <1>2 DEF RemoveFirst, SelectInSeq
    <2>2. Min(I) \in I
      <3>1. I \in SUBSET Nat
        OBVIOUS
      <3> HIDE DEF I
      <3>2. \E i \in I : \A j \in I : i <= j
        BY <1>2, <3>1, SmallestExists
      <3> QED
        BY <3>2 DEF Min
    <2>3. \A i \in I : i \in DOMAIN s /\ s[i] = t
      OBVIOUS
    <2> DEFINE n == Min(I)
    <2>4. n \in DOMAIN s /\ s[n] = t /\ RemoveFirst(s, t) = RemoveAt(s, n)
      BY <2>1, <2>2, <2>3
    <2> HIDE DEF n
    <2>5. /\ RemoveAt(s, n) \in Seq(S)
          /\ \A j \in DOMAIN s : j # n =>
               \E k \in DOMAIN RemoveAt(s, n) : RemoveAt(s, n)[k] = s[j]
      BY <2>4, RemoveAtIs
    <2> QED
      BY <2>4, <2>5
  <1> QED
    BY <1>1, <1>2

(* What is not t stays in the queue.                                       *)
OthersQueued(d, e, t) ==
  \A i \in DOMAIN d.queue : d.queue[i] # t =>
    \E k \in DOMAIN e.queue : e.queue[k] = d.queue[i]

(* DownloadManagerMtproto::remove.                                         *)
LEMMA RemovedIs ==
  ASSUME NEW d, NEW x \in Nat, NEW M, NEW H, Sound(d, x, M, H),
         NEW t \in Tasks, NEW e, e = Removed(d, t)
  PROVE  /\ Sound(e, x, M, H) /\ OthersQueued(d, e, t) /\ e.clash = d.clash
         /\ e.status = d.status /\ e.unchecked = d.unchecked
         /\ e.fed = d.fed /\ e.posted = d.posted /\ e.orphaned = d.orphaned
         /\ d.next[t] = Parts => e.next[t] = Parts /\ e.sent[t] = d.sent[t]
         /\ \A r \in e.sent[t] : r \in d.sent[t] \/ r.kind = "part"
  <1> DEFINE rest == RemoveFirst(d.queue, t)
             q == [d EXCEPT !.queue = rest]
  <1>1. Typed(d) /\ Placed(d) /\ Idle(d) /\ Kept(d, M) /\ HashesKnown(d, H)
    BY DEF Sound
  <1>2. /\ rest \in Seq(Tasks)
        /\ \A j \in DOMAIN d.queue : d.queue[j] # t =>
             \E k \in DOMAIN rest : rest[k] = d.queue[j]
    <2>1. d.queue \in Seq(Tasks)
      BY <1>1 DEF Typed, Managers
    <2> QED
      BY <2>1, RemoveFirstIs
  <1>3. e = CheckSendNext(q)
    <2>1. d \in Managers
      BY <1>1 DEF Typed
    <2> QED
      BY <2>1 DEF Removed, Managers
  <1> HIDE DEF rest
  <1>4. Typed(q) /\ SameBut(d, q, "queue") /\ q.queue = rest
    BY <1>1, <1>2, QueueIs
  <1> HIDE DEF q
  <1>5. Sound(q, x, M, H)
    <2>1. SameRequests(d, q)
      BY <1>4 DEF SameBut
    <2>2. PartsArePlaced(q) /\ Idle(q) /\ Kept(q, M) /\ HashesKnown(q, H)
      BY <1>1, <1>4 DEF SameBut, SameRequests, PartsArePlaced, HasPart, Placed, Idle,
                        Kept, HashesKnown
    <2> QED
      BY <1>4, <2>1, <2>2, SoundEdited
  <1>6. SentMore(q, e, x, M, H)
    BY <1>3, <1>4, CheckSendNextIs
  <1>7. Sound(e, x, M, H) /\ e.clash = q.clash /\ OnlySends(q, e)
    BY <1>5, <1>6 DEF SentMore
  <1>8. /\ e.queue = rest /\ e.status = d.status /\ e.unchecked = d.unchecked
        /\ e.fed = d.fed /\ e.posted = d.posted /\ e.orphaned = d.orphaned
        /\ e.clash = d.clash
    BY <1>4, <1>7 DEF OnlySends, SameBut
  <1>9. /\ d.next[t] = Parts => e.next[t] = Parts /\ e.sent[t] = d.sent[t]
        /\ \A r \in e.sent[t] : r \in d.sent[t] \/ r.kind = "part"
    BY <1>4, <1>7 DEF OnlySends, SameBut, SameRequests
  <1> QED
    BY <1>2, <1>7, <1>8, <1>9 DEF OthersQueued

(* feedPart: the place is no longer excused.                               *)
LEMMA FeedIs ==
  ASSUME NEW d, NEW x \in Nat, NEW M, NEW H, Sound(d, x, M, H), InQueue(d),
         NEW t \in Tasks, d.status[t] = "loading", NEW o \in Offsets,
         NEW M2, \A p \in M : p # <<t, o>> => p \in M2, NEW e, e = Feed(d, t, o)
  PROVE  /\ Sound(e, x, M2, H) /\ InQueue(e) /\ e.clash = d.clash
         /\ e.unchecked = d.unchecked /\ e.status[t] \in {"loading", "done"}
         /\ \A r \in e.sent[t] : r \in d.sent[t] \/ r.kind = "part"
  <1> DEFINE g == [d EXCEPT !.fed[t] = @ \cup {o}]
             c == Removed(g, t)
  <1>1. Typed(d) /\ Placed(d) /\ Idle(d) /\ Kept(d, M) /\ HashesKnown(d, H)
    BY DEF Sound
  <1>2. /\ Typed(g) /\ SameBut(d, g, "fed")
        /\ o \in g.fed[t] /\ \A u \in Tasks : d.fed[u] \subseteq g.fed[u]
    <2> DEFINE S == d.fed[t] \cup {o}
    <2>1. g = [d EXCEPT !.fed[t] = S] /\ o \in S /\ d.fed[t] \subseteq S
      OBVIOUS
    <2>2. S \in SUBSET Offsets
      BY <1>1, FileFacts
    <2> HIDE DEF g, S
    <2>3. Typed(g) /\ SameBut(d, g, "fed") /\ SetAt(g.fed, d.fed, t, S)
      BY <1>1, <2>1, <2>2, FedIs
    <2> QED
      BY <2>1, <2>3 DEF SetAt, SameOthers
  <1>3. e = IF Waits(d, t) \/ d.next[t] < Parts THEN g
            ELSE [c EXCEPT !.status[t] = "done"]
    BY DEF Feed
  <1> HIDE DEF g
  <1>4. /\ g.status = d.status /\ g.queue = d.queue /\ g.unchecked = d.unchecked
        /\ g.clash = d.clash /\ g.sent = d.sent /\ g.next = d.next
    BY <1>2 DEF SameBut, SameRequests
  <1>5. Sound(g, x, M2, H)
    <2>1. PartsArePlaced(g) /\ Idle(g) /\ HashesKnown(g, H) /\ SameRequests(d, g)
      BY <1>1, <1>2 DEF SameBut, SameRequests, PartsArePlaced, HasPart, Placed, Idle,
                        HashesKnown
    <2>2. Kept(g, M2)
      <3> SUFFICES ASSUME NEW u \in Tasks, g.status[u] \in {"loading", "done"},
                          NEW q \in 0 .. g.next[u] - 1
                   PROVE  \/ q \in g.fed[u]
                          \/ <<u, q>> \in M2
                          \/ \E s \in g.sent[u] : s.offset = q
                          \/ \E part \in g.unchecked[u] : part[1] = q
        BY DEF Kept
      <3>1. \/ q \in d.fed[u]
            \/ <<u, q>> \in M
            \/ \E s \in d.sent[u] : s.offset = q
            \/ \E part \in d.unchecked[u] : part[1] = q
        BY <1>1, <1>4 DEF Kept
      <3>2. <<u, q>> \in M => q \in g.fed[u] \/ <<u, q>> \in M2
        <4>1. CASE u = t /\ q = o
          BY <1>2, <4>1
        <4>2. CASE ~(u = t /\ q = o)
          <5>1. <<u, q>> # <<t, o>>
            BY <4>2
          <5> QED
            BY <5>1
        <4> QED
          BY <4>1, <4>2
      <3> QED
        BY <1>2, <1>4, <3>1, <3>2
    <2> QED
      BY <1>2, <2>1, <2>2, SoundEdited
  <1>6. CASE Waits(d, t) \/ d.next[t] < Parts
    <2>1. e = g
      BY <1>3, <1>6
    <2>2. InQueue(e)
      BY <1>4, <2>1 DEF InQueue
    <2> QED
      BY <1>4, <1>5, <2>1, <2>2
  <1>7. CASE ~(Waits(d, t) \/ d.next[t] < Parts)
    <2>1. d.sent[t] = {} /\ d.unchecked[t] = {}
      BY <1>7 DEF Waits
    <2>2. d.next[t] = Parts
      BY <1>1, <1>7, FileFacts, ConstantsAre
    <2>3. c = Removed(g, t)
      OBVIOUS
    <2> HIDE DEF c
    <2>4. /\ Sound(c, x, M2, H) /\ OthersQueued(g, c, t) /\ c.clash = g.clash
          /\ c.status = g.status /\ c.unchecked = g.unchecked
          /\ g.next[t] = Parts => c.next[t] = Parts /\ c.sent[t] = g.sent[t]
      <3>1. Sound(g, x, M2, H) /\ x \in Nat /\ t \in Tasks
        BY <1>5
      <3> QED
        BY ONLY <2>3, <3>1, RemovedIs
    <2>5. Typed(c) /\ Placed(c) /\ Idle(c) /\ Kept(c, M2) /\ HashesKnown(c, H)
      BY <2>4 DEF Sound
    <2>6. /\ Typed(e) /\ SameBut(c, e, "status")
          /\ SetAt(e.status, c.status, t, "done")
      <3>1. "done" \in Statuses /\ e = [c EXCEPT !.status[t] = "done"]
        BY <1>3, <1>7 DEF Statuses
      <3> QED
        BY <2>5, <3>1, StatusIs
    <2>7. /\ SameRequests(c, e) /\ e.queue = c.queue /\ e.unchecked = c.unchecked
          /\ e.fed = c.fed /\ e.posted = c.posted /\ e.orphaned = c.orphaned
          /\ e.clash = c.clash /\ e.sent = c.sent /\ e.next = c.next
          /\ e.sessions = c.sessions /\ e.status[t] = "done"
          /\ \A u \in Tasks : u # t => e.status[u] = c.status[u]
      BY <2>6 DEF SameBut, SameRequests, SetAt, SameOthers
    <2>8. c.status[t] = "loading" /\ e.sent[t] = {} /\ e.unchecked[t] = {}
      BY <1>4, <2>1, <2>2, <2>4, <2>7
    <2>9. PartsArePlaced(e) /\ HashesKnown(e, H)
      BY <2>5, <2>7 DEF PartsArePlaced, HasPart, Placed, HashesKnown
    <2>10. Idle(e)
      <3> SUFFICES ASSUME NEW u \in Tasks
                   PROVE  /\ e.status[u] # "loading" => e.sent[u] = {} /\ e.unchecked[u] = {}
                          /\ e.status[u] = "new" => e.next[u] = 0
                          /\ e.status[u] = "done" => e.next[u] = Parts
        BY DEF Idle
      <3>1. CASE u = t
        BY <1>4, <2>2, <2>4, <2>7, <2>8, <3>1
      <3>2. CASE u # t
        BY <2>5, <2>7, <3>2 DEF Idle
      <3> QED
        BY <3>1, <3>2
    <2>11. Kept(e, M2)
      <3>1. \A u \in Tasks : e.status[u] \in {"loading", "done"} =>
                                c.status[u] \in {"loading", "done"}
        BY <2>7, <2>8
      <3> QED
        BY <2>5, <2>7, <3>1 DEF Kept
    <2>12. Sound(e, x, M2, H)
      BY <2>4, <2>6, <2>7, <2>9, <2>10, <2>11, SoundEdited
    <2>13. InQueue(e)
      <3> SUFFICES ASSUME NEW u \in Tasks, e.status[u] = "loading"
                   PROVE  \E i \in DOMAIN e.queue : e.queue[i] = u
        BY DEF InQueue
      <3>1. u # t /\ d.status[u] = "loading"
        BY <1>4, <2>4, <2>7
      <3>2. PICK i \in DOMAIN d.queue : d.queue[i] = u
        BY <3>1 DEF InQueue
      <3>3. \E k \in DOMAIN c.queue : c.queue[k] = u
        BY <1>4, <2>4, <3>1, <3>2 DEF OthersQueued
      <3> QED
        BY <2>7, <3>3
    <2> QED
      BY <1>4, <2>4, <2>7, <2>8, <2>12, <2>13
  <1> QED
    BY <1>6, <1>7
-----------------------------------------------------------------------------
(* Sessions that are widened, added or blamed.                             *)

SameWork(d, e) ==
  /\ e.queue = d.queue /\ e.status = d.status /\ e.unchecked = d.unchecked
  /\ e.hashes = d.hashes /\ e.token = d.token /\ e.posted = d.posted
  /\ e.fed = d.fed /\ e.orphaned = d.orphaned /\ e.clash = d.clash
  /\ e.sent = d.sent /\ e.next = d.next /\ e.total = d.total /\ e.kill = d.kill

(* The same is requested of the sessions, and nothing of new ones.         *)
SameRequested(d, e) ==
  /\ Len(e.sessions) >= Len(d.sessions)
  /\ \A i \in 1 .. Len(d.sessions) : e.sessions[i].requested = d.sessions[i].requested
  /\ \A i \in 1 .. Len(e.sessions) :
       i > Len(d.sessions) => e.sessions[i].requested = 0

LEMMA SessionsAre ==
  ASSUME NEW d, Typed(d), NEW ss \in Seq(Sessions), Len(ss) \in 1 .. MaxSessions,
         NEW e, e = [d EXCEPT !.sessions = ss]
  PROVE  Typed(e) /\ SameWork(d, e) /\ e.sessions = ss /\ e.timeouts = d.timeouts
  <1>1. d \in Managers
    BY DEF Typed
  <1>2. /\ e.sessions = ss /\ SameWork(d, e) /\ e.timeouts = d.timeouts
        /\ e \in Managers
    BY <1>1 DEF Managers, SameWork
  <1> QED
    BY <1>2 DEF Typed

LEMMA TimeoutsAre ==
  ASSUME NEW d, Typed(d), NEW n \in 0 .. RemoveTimeouts - 1,
         NEW e, e = [d EXCEPT !.timeouts = n]
  PROVE  Typed(e) /\ SameWork(d, e) /\ e.sessions = d.sessions
  <1>1. d \in Managers
    BY DEF Typed
  <1>2. e.sessions = d.sessions /\ SameWork(d, e) /\ e \in Managers
    BY <1>1 DEF Managers, SameWork
  <1> QED
    BY <1>2 DEF Typed

LEMMA NoSuccessesIs ==
  ASSUME NEW d, Typed(d), NEW e, e = NoSuccesses(d)
  PROVE  /\ Typed(e) /\ SameWork(d, e) /\ SameRequested(d, e)
         /\ Len(e.sessions) = Len(d.sessions) /\ e.timeouts = d.timeouts
  <1> DEFINE ss == [i \in 1 .. Len(d.sessions) |-> [d.sessions[i] EXCEPT !.successes = 0]]
  <1>1. /\ d.sessions \in Seq(Sessions) /\ Len(d.sessions) \in Nat
        /\ Len(d.sessions) \in 1 .. MaxSessions
        /\ DOMAIN d.sessions = 1 .. Len(d.sessions)
        /\ \A i \in 1 .. Len(d.sessions) : d.sessions[i] \in Sessions
    BY SessionFacts
  <1>2. \A i \in 1 .. Len(d.sessions) :
          ss[i] \in Sessions /\ ss[i].requested = d.sessions[i].requested
    BY <1>1 DEF Sessions
  <1>3. e = [d EXCEPT !.sessions = ss]
    BY <1>1 DEF NoSuccesses
  <1>4. ss \in Seq(Sessions) /\ Len(ss) = Len(d.sessions)
    <2>1. ss = [i \in 1 .. Len(d.sessions) |-> ss[i]]
      OBVIOUS
    <2> HIDE DEF ss
    <2> QED
      BY <1>1, <1>2, <2>1
  <1> HIDE DEF ss
  <1>5. Typed(e) /\ SameWork(d, e) /\ e.sessions = ss /\ e.timeouts = d.timeouts
    BY <1>1, <1>3, <1>4, SessionsAre
  <1>6. SameRequested(d, e)
    BY <1>1, <1>2, <1>4, <1>5 DEF SameRequested
  <1> QED
    BY <1>4, <1>5, <1>6

LEMMA SameWorkThen ==
  ASSUME NEW d, NEW e, NEW f, SameWork(d, e), SameWork(e, f)
  PROVE  SameWork(d, f)
  BY DEF SameWork

LEMMA LesserIs ==
  ASSUME NEW a \in Int, NEW b \in Int
  PROVE  Lesser(a, b) \in {a, b} /\ Lesser(a, b) <= a /\ Lesser(a, b) <= b
  BY DEF Lesser

(* requestSucceeded.                                                       *)
LEMMA SucceededIs ==
  ASSUME NEW d, Typed(d), NEW request, request.session \in 1 .. Len(d.sessions),
         NEW slow, NEW wait, NEW e, e = Succeeded(d, request, slow, wait)
  PROVE  Typed(e) /\ SameWork(d, e) /\ SameRequested(d, e)
  <1> DEFINE i == request.session
             max == d.sessions[i].max
             wider == IF request.amount = max THEN Lesser(max + 1, MaxWaited) ELSE max
             one == [d.sessions[i] EXCEPT
                       !.max = wider,
                       !.successes = Lesser(@ + 1, RetrySuccesses * MaxRemoves)]
             ss == [d.sessions EXCEPT ![i] = one]
             grown == [d EXCEPT !.sessions = ss]
             reset == NoSuccesses(grown)
             more == Append(reset.sessions, NewSession)
  <1>1. /\ d.sessions \in Seq(Sessions) /\ Len(d.sessions) \in Nat
        /\ Len(d.sessions) \in 1 .. MaxSessions
        /\ DOMAIN d.sessions = 1 .. Len(d.sessions)
        /\ \A k \in 1 .. Len(d.sessions) :
             /\ d.sessions[k] \in Sessions
             /\ d.sessions[k].requested \in Nat /\ d.sessions[k].successes \in Nat
             /\ d.sessions[k].max \in StartWaited .. MaxWaited
    BY SessionFacts
  <1>2. d \in Managers /\ d.timeouts \in 0 .. RemoveTimeouts - 1
    BY DEF Typed, Managers
  <1>3. [d EXCEPT !.sessions[i].max = wider,
                  !.sessions[i].successes = Lesser(@ + 1, RetrySuccesses * MaxRemoves)]
          = grown
    <2>1. d.sessions[i] \in Sessions
      BY <1>1
    <2> HIDE DEF wider
    <2> QED
      BY <1>1, <1>2, <2>1 DEF Managers, Sessions
  <1>4. one \in Sessions /\ one.requested = d.sessions[i].requested
    <2>1. max \in StartWaited .. MaxWaited /\ StartWaited \in Nat /\ MaxWaited \in Nat
      BY <1>1, ConstantsAre
    <2>2. wider \in StartWaited .. MaxWaited
      <3>1. max + 1 \in Int /\ MaxWaited \in Int
        BY <2>1
      <3>2. Lesser(max + 1, MaxWaited) = max + 1 \/ Lesser(max + 1, MaxWaited) = MaxWaited
        BY DEF Lesser
      <3>3. Lesser(max + 1, MaxWaited) <= MaxWaited
        BY <3>1, LesserIs
      <3> HIDE DEF max
      <3> QED
        BY <2>1, <3>1, <3>2, <3>3
    <2> DEFINE s == Lesser(d.sessions[i].successes + 1, RetrySuccesses * MaxRemoves)
    <2>3. s \in Nat
      <3>1. RetrySuccesses * MaxRemoves \in Nat
        BY ConstantsAre
      <3>2. d.sessions[i].successes + 1 \in Nat
        BY <1>1
      <3> QED
        BY <3>1, <3>2 DEF Lesser
    <2>4. one = [d.sessions[i] EXCEPT !.max = wider, !.successes = s]
      BY <1>1 DEF Sessions
    <2> HIDE DEF wider, s, one
    <2> QED
      BY <1>1, <2>2, <2>3, <2>4 DEF Sessions
  <1> HIDE DEF one
  <1>5. /\ ss \in Seq(Sessions) /\ Len(ss) = Len(d.sessions)
        /\ \A k \in 1 .. Len(d.sessions) : ss[k].requested = d.sessions[k].requested
    BY <1>1, <1>4
  <1>6. grown = [d EXCEPT !.sessions = ss]
    OBVIOUS
  <1> HIDE DEF ss, grown
  <1>7. /\ Typed(grown) /\ SameWork(d, grown) /\ grown.sessions = ss
        /\ grown.timeouts = d.timeouts
    BY <1>1, <1>5, <1>6, SessionsAre
  <1>8. /\ Typed(reset) /\ SameWork(grown, reset) /\ SameRequested(grown, reset)
        /\ Len(reset.sessions) = Len(d.sessions) /\ reset.timeouts = d.timeouts
    <2>1. reset = NoSuccesses(grown)
      OBVIOUS
    <2> HIDE DEF reset
    <2>2. /\ Typed(reset) /\ SameWork(grown, reset) /\ SameRequested(grown, reset)
          /\ Len(reset.sessions) = Len(grown.sessions)
          /\ reset.timeouts = grown.timeouts
      BY <1>7, <2>1, NoSuccessesIs
    <2> QED
      BY <1>5, <1>7, <2>2
  <1> HIDE DEF reset
  <1>9. /\ SameWork(d, reset)
        /\ \A k \in 1 .. Len(d.sessions) :
             reset.sessions[k].requested = d.sessions[k].requested
    BY <1>5, <1>7, <1>8, SameWorkThen DEF SameRequested
  <1>10. \/ e = d
         \/ e = grown
         \/ d.timeouts > 0 /\ e = [reset EXCEPT !.timeouts = @ - 1]
         \/ e = reset
         \/ Len(d.sessions) # MaxSessions /\ e = [reset EXCEPT !.sessions = Append(@, NewSession)]
    <2> DEFINE wide == [d EXCEPT
                          !.sessions[i].max = wider,
                          !.sessions[i].successes =
                            Lesser(@ + 1, RetrySuccesses * MaxRemoves)]
               enough(w) == \A j \in DOMAIN d.sessions :
                              w.sessions[j].successes
                                >= (d.removeTimes + 1) * RetrySuccesses
               full == Len(d.sessions) = MaxSessions \/ (d.removed /\ wait)
               late == request.old \/ request.amount > max \/ slow
    <2>1. e = IF late THEN d
              ELSE IF ~enough(wide) THEN wide
              ELSE IF d.timeouts > 0 THEN [NoSuccesses(wide) EXCEPT !.timeouts = @ - 1]
              ELSE IF full THEN NoSuccesses(wide)
              ELSE [NoSuccesses(wide) EXCEPT !.sessions = Append(@, NewSession)]
      BY DEF Succeeded
    <2>2. wide = grown
      BY <1>3
    <2>3. NoSuccesses(wide) = reset
      <3> HIDE DEF wide
      <3> QED
        BY <2>2 DEF reset
    <2>4. ~full => Len(d.sessions) # MaxSessions
      OBVIOUS
    <2> HIDE DEF wide, enough, full, late
    <2> QED
      BY <2>1, <2>2, <2>3, <2>4
  <1>11. CASE e = d
    BY <1>1, <1>11 DEF SameWork, SameRequested
  <1>12. CASE e = grown
    BY <1>1, <1>5, <1>7, <1>12 DEF SameRequested
  <1>13. CASE e = reset
    BY <1>1, <1>8, <1>9, <1>13 DEF SameRequested
  <1>14. CASE d.timeouts > 0 /\ e = [reset EXCEPT !.timeouts = @ - 1]
    <2> DEFINE n == d.timeouts - 1
    <2>1. n \in 0 .. RemoveTimeouts - 1
      BY <1>2, <1>14, ConstantsAre
    <2>2. e = [reset EXCEPT !.timeouts = n]
      <3>1. reset \in Managers
        BY <1>8 DEF Typed
      <3> QED
        BY <1>8, <1>14, <3>1 DEF Managers
    <2> HIDE DEF n
    <2>3. Typed(e) /\ SameWork(reset, e) /\ e.sessions = reset.sessions
      BY <1>8, <2>1, <2>2, TimeoutsAre
    <2>4. SameWork(d, e)
      BY <1>9, <2>3, SameWorkThen
    <2> QED
      BY <1>1, <1>8, <1>9, <2>3, <2>4 DEF SameRequested
  <1>15. CASE /\ Len(d.sessions) # MaxSessions
              /\ e = [reset EXCEPT !.sessions = Append(@, NewSession)]
    <2>1. reset \in Managers /\ reset.sessions \in Seq(Sessions)
      BY <1>8, SessionFacts DEF Typed
    <2>2. e = [reset EXCEPT !.sessions = more]
      BY <1>15, <2>1 DEF Managers
    <2>3. /\ more \in Seq(Sessions) /\ Len(more) = Len(d.sessions) + 1
          /\ \A k \in 1 .. Len(d.sessions) : more[k] = reset.sessions[k]
          /\ more[Len(d.sessions) + 1] = NewSession
      BY <1>8, <2>1, NewSessionIs
    <2>4. Len(more) \in 1 .. MaxSessions
      BY <1>1, <1>15, <2>3, ConstantsAre
    <2> HIDE DEF more
    <2>5. Typed(e) /\ SameWork(reset, e) /\ e.sessions = more
      BY <1>8, <2>2, <2>3, <2>4, SessionsAre
    <2>6. SameWork(d, e)
      BY <1>9, <2>5, SameWorkThen
    <2>7. SameRequested(d, e)
      <3>1. \A k \in 1 .. Len(more) : k > Len(d.sessions) => k = Len(d.sessions) + 1
        BY <1>1, <2>3
      <3>2. NewSession.requested = 0
        BY DEF NewSession
      <3> QED
        BY <1>1, <1>9, <2>3, <2>5, <3>1, <3>2, SMTT(40) DEF SameRequested
    <2> QED
      BY <2>5, <2>6, <2>7
  <1> QED
    BY <1>10, <1>11, <1>12, <1>13, <1>14, <1>15

LEMMA SucceededIsSound ==
  ASSUME NEW d, NEW M, NEW H, Sound(d, 0, M, H), NEW request,
         request.session \in 1 .. Len(d.sessions),
         NEW slow, NEW wait, NEW e, e = Succeeded(d, request, slow, wait)
  PROVE  /\ Sound(e, 0, M, H) /\ SameWork(d, e)
         /\ Len(e.sessions) >= Len(d.sessions)
  <1>1. Typed(e) /\ SameWork(d, e) /\ SameRequested(d, e)
    BY SucceededIs DEF Sound
  <1>2. Sound(e, 0, M, H)
    BY <1>1, SoundStays DEF SameWork, SameRequested
  <1> QED
    BY <1>1, <1>2 DEF SameRequested
-----------------------------------------------------------------------------
(* Requests that are moved to another session.                             *)

LEMMA ClashIs ==
  ASSUME NEW d, Typed(d), NEW b \in BOOLEAN, NEW e, e = [d EXCEPT !.clash = b]
  PROVE  Typed(e) /\ SameBut(d, e, "clash") /\ (e.clash <=> b)
  <1>1. d \in Managers
    BY DEF Typed
  <1>2. SameBut(d, e, "clash") /\ e.clash = b /\ e \in Managers
    BY <1>1 DEF Managers, SameBut, SameRequests
  <1> QED
    BY <1>2 DEF Typed, SameBut, SameRequests

(* A failed check says nothing about the rest.                             *)
LEMMA ClashIsSound ==
  ASSUME NEW d, NEW x, NEW M, NEW H, Sound(d, x, M, H), NEW e, Typed(e),
         SameBut(d, e, "clash")
  PROVE  Sound(e, x, M, H)
  <1>1. SameRequests(d, e)
    BY DEF SameBut
  <1>2. PartsArePlaced(e) /\ Idle(e) /\ Kept(e, M) /\ HashesKnown(e, H)
    BY DEF Sound, SameBut, SameRequests, PartsArePlaced, HasPart, Placed, Idle, Kept,
           HashesKnown
  <1> QED
    BY <1>1, <1>2, SoundEdited

(* The Asserts of removeSession: the last session, which is charged, is    *)
(* not chosen.                                                             *)
LEMMA AnotherIsChosen ==
  ASSUME NEW d, NEW M, NEW H, Sound(d, Charge, M, H), Len(d.sessions) > 1,
         d.total <= Charge
  PROVE  ChooseSession(d) < Len(d.sessions)
  <1> DEFINE n == Len(d.sessions)
             c == ChooseSession(d)
             a == Cardinality(InSession(d, 1))
             b == Cardinality(InSession(d, n))
  <1>1. Typed(d) /\ Counted(d, Charge)
    BY DEF Sound
  <1>2. n \in Nat /\ n > 1
    BY <1>1, SessionFacts
  <1>3. /\ c \in 1 .. n
        /\ \/ d.sessions[c].requested < d.sessions[1].requested
           \/ d.sessions[c].requested = d.sessions[1].requested /\ c <= 1
    BY <1>1, <1>2, ChooseSessionIs
  <1>4. a \in Nat /\ b \in Nat /\ a <= Cardinality(Asked(d)) /\ Charge \in Nat
    BY PlacesAre, ChargeIs
  <1>5. Cardinality(Asked(d)) \in Nat /\ Cardinality(Asked(d)) <= Charge
    BY <1>1, PlacesAre DEF Counted
  <1>6. d.sessions[1].requested = a + 0 /\ d.sessions[n].requested = b + Charge
    <2>1. 1 \in 1 .. n /\ n \in 1 .. n /\ 1 # n
      <3> HIDE DEF n
      <3> QED
        BY <1>2
    <2> QED
      BY <1>1, <2>1 DEF Counted
  <1> HIDE DEF c, n, a, b
  <1>7. c # n
    BY <1>2, <1>3, <1>4, <1>5, <1>6
  <1>8. c < n
    BY <1>2, <1>3, <1>7
  <1> QED
    BY <1>8 DEF c, n

LEMMA MovesNothing ==
  ASSUME NEW d, Typed(d)
  PROVE  OnlyMoves(d, d)
  <1>1. d.total \in Nat
    BY DEF Typed, Managers
  <1> QED
    BY <1>1 DEF OnlyMoves

LEMMA OnlyMovesThen ==
  ASSUME NEW d, NEW e, NEW f, Typed(d), Typed(e), Typed(f),
         OnlyMoves(d, e), OnlyMoves(e, f)
  PROVE  OnlyMoves(d, f)
  <1>1. d.total \in Nat /\ e.total \in Nat /\ f.total \in Nat /\ Charge \in Nat
    BY ChargeIs DEF Typed, Managers
  <1>2. f.total <= d.total /\ (d.total <= Charge => e.total <= Charge)
    BY <1>1 DEF OnlyMoves
  <1> QED
    BY <1>2 DEF OnlyMoves

(* One request: it is made anew in another session, or not at all if it is *)
(* one of hashes.                                                          *)
MovedFrom(d, e, t, r) ==
  /\ OnlyMoves(d, e) /\ e.unchecked = d.unchecked
  /\ SameOthers(e.sent, d.sent, t)
  /\ \A q \in d.sent[t] : q # r => q \in e.sent[t]
  /\ ~e.clash => \A q \in e.sent[t] :
       q.session = Len(d.sessions) => q \in d.sent[t] /\ q # r

LEMMA MoveRequestIs ==
  ASSUME NEW d, NEW M, NEW H, Sound(d, Charge, M, H), Len(d.sessions) > 1,
         NEW t \in Tasks, NEW r \in d.sent[t], r.session = Len(d.sessions),
         NEW e, e = MoveRequest(t, d, r)
  PROVE  Sound(e, Charge, M, H) /\ MovedFrom(d, e, t, r)
  <1> DEFINE c == CancelRequest(t, d, r)
             chosen == ChooseSession(c)
             p == Place(c, t, "part", r.offset, chosen)
             M1 == M \cup {PlaceOf(t, r)}
  <1>1. Typed(d) /\ Placed(d) /\ Idle(d)
    BY DEF Sound
  <1>2. Charge \in Nat /\ d.total \in Nat /\ d.total - 1 <= d.total
    BY <1>1, ChargeIs DEF Typed, Managers
  <1>3. e = IF r.kind = "hashes" THEN c
            ELSE [p EXCEPT !.clash = @ \/ chosen >= r.session]
    BY DEF MoveRequest
  <1>4. CASE r.kind = "hashes"
    <2>1. HasPart(d, t, r.offset)
      BY <1>1, <1>4 DEF Placed, HasPart
    <2>2. e = CancelRequest(t, d, r) /\ M \subseteq M
      BY <1>3, <1>4
    <2>3. Sound(e, Charge, M, H) /\ AfterCancel(d, e) /\ LessAsked(d, e, t, r)
      BY <1>2, <2>1, <2>2, CancelRequestIs
    <2>4. OnlyMoves(d, e)
      BY <1>2, <2>3 DEF AfterCancel, OnlyMoves
    <2> QED
      BY <2>3, <2>4 DEF MovedFrom, AfterCancel, LessAsked, SameOthers
  <1>5. CASE r.kind # "hashes"
    <2>1. Sound(c, Charge, M1, H) /\ AfterCancel(d, c) /\ LessAsked(d, c, t, r)
      <3>1. c = CancelRequest(t, d, r) /\ PlaceOf(t, r) \in M1 /\ M \subseteq M1
        OBVIOUS
      <3> HIDE DEF c, M1
      <3> QED
        BY <1>2, <3>1, CancelRequestIs
    <2> HIDE DEF c
    <2>2. Typed(c)
      BY <2>1 DEF Sound
    <2>3. chosen \in 1 .. Len(c.sessions) /\ Len(c.sessions) = Len(d.sessions)
      BY <2>1, <2>2, ChooseSessionIs DEF AfterCancel
    <2>4. c.total \in Nat /\ c.total = d.total - 1 /\ Len(d.sessions) \in Nat
      BY <1>1, <2>1, <2>2, SessionFacts DEF AfterCancel, Typed, Managers
    <2>5. d.total <= Charge => chosen < Len(d.sessions)
      <3> SUFFICES ASSUME d.total <= Charge PROVE chosen < Len(d.sessions)
        OBVIOUS
      <3>1. c.total <= Charge /\ Len(c.sessions) > 1
        BY <1>2, <2>3, <2>4
      <3> QED
        BY <2>1, <2>3, <3>1, AnotherIsChosen
    <2> HIDE DEF chosen
    <2>6. r.offset \in Offsets /\ r.offset < c.next[t] /\ c.status[t] = "loading"
      <3>1. d.status[t] = "loading"
        BY <1>1 DEF Idle
      <3> QED
        BY <1>1, <2>1, <3>1, FileFacts DEF Placed, AfterCancel
    <2>7. FreeAt(c, t, r.offset)
      BY <1>1, <2>1 DEF FreeAt, LessAsked, Placed
    <2>8. p = Place(c, t, "part", r.offset, chosen)
      OBVIOUS
    <2> HIDE DEF p
    <2> DEFINE kind == "part"
    <2>9. kind \in Kinds /\ kind # "hashes" /\ p = Place(c, t, kind, r.offset, chosen)
      BY <2>8 DEF Kinds
    <2> HIDE DEF kind
    <2>10. \A q \in M1 : q # <<t, r.offset>> => q \in M
      BY DEF PlaceOf
    <2> HIDE DEF M1
    <2>11. /\ Sound(p, Charge, M, H) /\ SameFiles(c, p) /\ p.next = c.next
           /\ NewRequest(c, p, t, kind, r.offset, chosen)
           /\ Charged(c, p, chosen, 1) /\ p.total = c.total + 1
      <3> DEFINE o == r.offset
      <3>1. /\ Charge \in Nat /\ Sound(c, Charge, M1, H) /\ t \in Tasks
            /\ kind \in Kinds /\ o \in Offsets /\ chosen \in 1 .. Len(c.sessions)
            /\ c.status[t] = "loading" /\ o < c.next[t] /\ FreeAt(c, t, o)
            /\ p = Place(c, t, kind, o, chosen)
        BY <1>2, <2>1, <2>3, <2>6, <2>7, <2>9
      <3>2. kind = "hashes" => /\ \E part \in c.unchecked[t] : part[1] = o
                               /\ \A q \in c.sent[t] : q.kind # "hashes"
        BY <2>9
      <3>3. \A q \in M1 : q # <<t, o>> => q \in M
        BY <2>10
      <3>4. \A u \in H : u \in H \/ (u = t /\ kind = "hashes")
        OBVIOUS
      <3> HIDE DEF o
      <3>5. /\ Sound(p, Charge, M, H) /\ SameFiles(c, p) /\ p.next = c.next
            /\ NewRequest(c, p, t, kind, o, chosen)
            /\ Charged(c, p, chosen, 1) /\ p.total = c.total + 1
        BY ONLY <3>1, <3>2, <3>3, <3>4, PlaceIs, SMTT(60)
      <3> QED
        BY <3>5 DEF o
    <2>12. Typed(p) /\ p.clash \in BOOLEAN
      BY <2>11 DEF Sound, Typed, Managers
    <2> DEFINE b == p.clash \/ chosen >= r.session
    <2>13. b \in BOOLEAN /\ e = [p EXCEPT !.clash = b]
      <3>1. p \in Managers
        BY <2>12 DEF Typed
      <3> QED
        BY <1>3, <1>5, <3>1 DEF Managers
    <2>14. b <=> p.clash \/ chosen >= r.session
      OBVIOUS
    <2> HIDE DEF b
    <2>15. Typed(e) /\ SameBut(p, e, "clash") /\ (e.clash <=> b)
      BY <2>12, <2>13, ClashIs
    <2>16. Sound(e, Charge, M, H)
      BY <2>11, <2>15, ClashIsSound
    <2>17. /\ e.queue = p.queue /\ e.status = p.status /\ e.next = p.next
           /\ e.sessions = p.sessions /\ e.sent = p.sent /\ e.total = p.total
           /\ e.unchecked = p.unchecked
      BY <2>15 DEF SameBut, SameRequests
    <2>18. e.clash <=> d.clash \/ ~(chosen < Len(d.sessions))
      <3>1. chosen >= r.session <=> ~(chosen < Len(d.sessions))
        BY <2>3, <2>4
      <3>2. p.clash = d.clash
        BY <2>1, <2>11 DEF SameFiles, AfterCancel
      <3> QED
        BY <2>14, <2>15, <3>1, <3>2
    <2>19. OnlyMoves(d, e)
      <3>1. /\ e.queue = d.queue /\ e.status = d.status /\ e.next = d.next
            /\ Len(e.sessions) = Len(d.sessions)
        BY <2>1, <2>11, <2>17 DEF SameFiles, AfterCancel
      <3>2. e.total <= d.total
        BY <1>2, <2>4, <2>11, <2>17
      <3> QED
        BY <2>5, <2>18, <3>1, <3>2 DEF OnlyMoves
    <2>20. PICK new \in Requests : new.session = chosen /\ MoreAsked(c, p, t, new)
      BY <2>11 DEF NewRequest
    <2>21. /\ e.sent[t] = (d.sent[t] \ {r}) \cup {new}
           /\ SameOthers(e.sent, d.sent, t)
      BY <2>1, <2>17, <2>20 DEF MoreAsked, LessAsked, SameOthers
    <2>22. ~e.clash => new.session # Len(d.sessions)
      BY <2>3, <2>4, <2>18, <2>20
    <2>23. e.unchecked = d.unchecked
      BY <2>1, <2>11, <2>17 DEF SameFiles, AfterCancel
    <2> QED
      BY <2>16, <2>19, <2>21, <2>22, <2>23 DEF MovedFrom
  <1> QED
    BY <1>4, <1>5

LEMMA MoveStep ==
  ASSUME NEW d, NEW M, NEW H, NEW t \in Tasks, Typed(d), Len(d.sessions) > 1,
         NEW s, NEW e, HeldWhileMoved(d, t, Charge, M, H, s, e),
         NEW y \in d.sent[t], y.session = Len(d.sessions), y \notin s
  PROVE  HeldWhileMoved(d, t, Charge, M, H, s \cup {y}, MoveRequest(t, e, y))
  <1> DEFINE g == MoveRequest(t, e, y)
  <1>1. /\ Sound(e, Charge, M, H) /\ OnlyMoves(d, e) /\ e.unchecked = d.unchecked
        /\ \A u \in Tasks : u # t => e.sent[u] = d.sent[u]
        /\ \A r \in d.sent[t] :
             r.session = Len(d.sessions) /\ r \notin s => r \in e.sent[t]
        /\ ~e.clash => \A r \in e.sent[t] :
             r.session = Len(d.sessions) => r \in d.sent[t] /\ r \notin s
    BY DEF HeldWhileMoved
  <1>2. y \in e.sent[t] /\ Len(e.sessions) = Len(d.sessions) /\ Typed(e)
    BY <1>1 DEF OnlyMoves, Sound
  <1>3. g = MoveRequest(t, e, y)
    OBVIOUS
  <1> HIDE DEF g
  <1>4. Sound(g, Charge, M, H) /\ MovedFrom(e, g, t, y)
    BY <1>1, <1>2, <1>3, MoveRequestIs
  <1>5. OnlyMoves(d, g)
    <2>1. OnlyMoves(e, g) /\ Typed(g)
      BY <1>4 DEF MovedFrom, Sound
    <2> QED
      BY <1>1, <1>2, <2>1, OnlyMovesThen
  <1>6. g.unchecked = d.unchecked /\ \A u \in Tasks : u # t => g.sent[u] = d.sent[u]
    BY <1>1, <1>4 DEF MovedFrom, SameOthers
  <1>7. \A r \in d.sent[t] :
          r.session = Len(d.sessions) /\ r \notin s \cup {y} => r \in g.sent[t]
    BY <1>1, <1>4 DEF MovedFrom
  <1>8. ~g.clash => \A r \in g.sent[t] :
          r.session = Len(d.sessions) => r \in d.sent[t] /\ r \notin s \cup {y}
    <2>1. ~g.clash => ~e.clash
      BY <1>4 DEF MovedFrom, OnlyMoves
    <2> QED
      BY <1>1, <1>2, <1>4, <2>1 DEF MovedFrom
  <1>9. HeldWhileMoved(d, t, Charge, M, H, s \cup {y}, g)
    BY <1>4, <1>5, <1>6, <1>7, <1>8 DEF HeldWhileMoved
  <1> QED
    BY <1>9 DEF g

LEMMA MoveAll ==
  ASSUME NEW d, NEW M, NEW H, Sound(d, Charge, M, H), NEW t \in Tasks,
         Len(d.sessions) > 1,
         NEW e, e = FoldSet(LAMBDA r, c : MoveRequest(t, c, r), d,
                            {r \in d.sent[t] : r.session = Len(d.sessions)})
  PROVE  HeldWhileMoved(d, t, Charge, M, H,
                        {r \in d.sent[t] : r.session = Len(d.sessions)}, e)
  <1> DEFINE S == {r \in d.sent[t] : r.session = Len(d.sessions)}
             Folds(F) == F = [s \in SUBSET S |->
                                IF s = {} THEN d
                                ELSE MoveRequest(t, F[s \ {CHOOSE r \in s : TRUE}],
                                                 CHOOSE r \in s : TRUE)]
             F == CHOOSE F : Folds(F)
  <1>1. Typed(d) /\ IsFiniteSet(S) /\ Picks("move", S)
    <2>1. Typed(d) /\ IsFiniteSet(d.sent[t])
      BY SentIsFinite DEF Sound
    <2>2. S \in SUBSET d.sent[t]
      OBVIOUS
    <2> HIDE DEF S
    <2> QED
      BY <2>1, <2>2, FS_Subset, PicksAny
  <1>2. \E G : Folds(G)
    <2>1. PICK G : IsFold(G, S, d, "move", d, t)
      <3> HIDE DEF S
      <3> QED
        BY <1>1, FoldExists
    <2>2. Folds(G)
      BY <2>1 DEF IsFold, FoldStep, Picked
    <2> HIDE DEF Folds
    <2> QED
      BY <2>2
  <1>3. Folds(F)
    BY <1>2
  <1>4. e = F[S]
    BY DEF FoldSet, MapThenFoldSet
  <1>5. IsFold(F, S, d, "move", d, t)
    <2> HIDE DEF F
    <2> QED
      BY <1>3 DEF IsFold, FoldStep, Picked
  <1>6. \A y \in S : y \in d.sent[t] /\ y.session = Len(d.sessions)
    OBVIOUS
  <1> HIDE DEF F
  <1>7. Held("move", d, t, Charge, M, H, {}, d)
    <2>1. OnlyMoves(d, d)
      BY <1>1, MovesNothing
    <2>2. HeldWhileMoved(d, t, Charge, M, H, {}, d)
      BY <2>1 DEF HeldWhileMoved
    <2> QED
      BY <2>2 DEF Held
  <1> HIDE DEF S
  <1>8. \A s \in SUBSET S, y \in S : \A c :
          y \notin s /\ Held("move", d, t, Charge, M, H, s, c) =>
            Held("move", d, t, Charge, M, H, s \cup {y}, FoldStep("move", d, t, y, c))
    <2> SUFFICES ASSUME NEW s \in SUBSET S, NEW y \in S, NEW c, y \notin s,
                        Held("move", d, t, Charge, M, H, s, c)
                 PROVE  Held("move", d, t, Charge, M, H, s \cup {y},
                             FoldStep("move", d, t, y, c))
      OBVIOUS
    <2>1. HeldWhileMoved(d, t, Charge, M, H, s, c)
      BY DEF Held
    <2>2. HeldWhileMoved(d, t, Charge, M, H, s \cup {y}, MoveRequest(t, c, y))
      BY <1>1, <1>6, <2>1, MoveStep
    <2> QED
      BY <2>2 DEF Held, FoldStep
  <1>9. Held("move", d, t, Charge, M, H, S, F[S])
    BY ONLY <1>1, <1>5, <1>7, <1>8, FoldHolds
  <1> QED
    BY <1>4, <1>9 DEF Held, S

(* DownloadMtprotoTask::removeSession.                                     *)
StaysAway(d, e, session) ==
  ~e.clash => \A u \in Tasks : ~LeftBehind(d, u, session) => ~LeftBehind(e, u, session)

LEMMA MoveTaskIs ==
  ASSUME NEW d, NEW M, NEW H, Sound(d, Charge, M, H), NEW t \in Tasks,
         Len(d.sessions) > 1, NEW session, session = Len(d.sessions),
         NEW e, e = MoveTask(d, t, session)
  PROVE  /\ Sound(e, Charge, M, H) /\ OnlyMoves(d, e)
         /\ StaysAway(d, e, session)
         /\ ~e.clash => ~LeftBehind(e, t, session)
  <1> DEFINE chosen == ChooseSession(d)
             parts == {<<part[1], IF part[2] = session THEN chosen ELSE part[2]>> :
                         part \in d.unchecked[t]}
             moved == \E part \in d.unchecked[t] : part[2] = session
             g == [d EXCEPT !.unchecked[t] = parts]
             b == d.clash \/ (moved /\ chosen >= session)
             f == [g EXCEPT !.clash = b]
             S == {r \in d.sent[t] : r.session = session}
  <1>1. Typed(d) /\ Placed(d) /\ Idle(d) /\ Kept(d, M) /\ HashesKnown(d, H)
    BY DEF Sound
  <1>2. /\ d \in Managers /\ d.clash \in BOOLEAN /\ d.total \in Nat
        /\ d.unchecked[t] \in SUBSET (Offsets \X (1 .. MaxSessions))
        /\ Len(d.sessions) \in Nat /\ Len(d.sessions) \in 1 .. MaxSessions
    BY <1>1, FileFacts, SessionFacts DEF Typed, Managers
  <1>3. chosen \in 1 .. Len(d.sessions)
    BY <1>1, ChooseSessionIs
  <1>4. d.total <= Charge => chosen < session
    BY AnotherIsChosen
  <1> HIDE DEF chosen
  <1>5. /\ parts \in SUBSET (Offsets \X (1 .. MaxSessions))
        /\ \A p \in d.unchecked[t] : \E q \in parts : q[1] = p[1]
    <2>1. \A p \in d.unchecked[t] :
            /\ p[1] \in Offsets /\ p[2] \in 1 .. MaxSessions
            /\ p[2] \in 1 .. Len(d.sessions)
      BY <1>1, <1>2 DEF Placed
    <2>2. chosen \in 1 .. MaxSessions
      <3> HIDE DEF parts
      <3> QED
        BY <1>2, <1>3, ConstantsAre
    <2> DEFINE to(p) == IF p[2] = session THEN chosen ELSE p[2]
    <2>3. \A p \in d.unchecked[t] : p[1] \in Offsets /\ to(p) \in 1 .. MaxSessions
      BY <2>1, <2>2
    <2>4. parts = {<<p[1], to(p)>> : p \in d.unchecked[t]}
      OBVIOUS
    <2> HIDE DEF to, parts
    <2>5. parts \in SUBSET (Offsets \X (1 .. MaxSessions))
      BY <2>3, <2>4
    <2>6. \A p \in d.unchecked[t] : \E q \in parts : q[1] = p[1]
      <3>1. \A p \in d.unchecked[t] : <<p[1], to(p)>> \in parts
        BY <2>4
      <3> QED
        BY <3>1
    <2> QED
      BY <2>5, <2>6
  <1>6. \A q \in parts : \E p \in d.unchecked[t] :
          /\ q[1] = p[1]
          /\ p[2] = session => q[2] = chosen
          /\ p[2] # session => q[2] = p[2]
    OBVIOUS
  <1>7. e = FoldSet(LAMBDA r, c : MoveRequest(t, c, r), f, S)
    <2>1. [d EXCEPT !.unchecked[t] = parts,
                    !.clash = @ \/ (moved /\ chosen >= session)] = f
      <3> HIDE DEF parts, moved
      <3> QED
        BY <1>2 DEF Managers
    <2> HIDE DEF f
    <2> QED
      BY <2>1 DEF MoveTask, chosen
  <1> HIDE DEF parts, moved
  <1>8. b \in BOOLEAN /\ (b <=> d.clash \/ (moved /\ chosen >= session))
    BY <1>2 DEF moved
  <1> HIDE DEF b
  <1>9. Typed(g) /\ SameBut(d, g, "unchecked") /\ SetAt(g.unchecked, d.unchecked, t, parts)
    BY <1>1, <1>5, UncheckedIs
  <1> HIDE DEF g
  <1>10. Typed(f) /\ SameBut(g, f, "clash") /\ (f.clash <=> b)
    BY <1>8, <1>9, ClashIs
  <1> HIDE DEF f
  <1>11. /\ SameRequests(d, f) /\ f.sessions = d.sessions /\ f.sent = d.sent
         /\ f.next = d.next /\ f.status = d.status /\ f.queue = d.queue
         /\ f.fed = d.fed /\ f.posted = d.posted /\ f.orphaned = d.orphaned
         /\ f.total = d.total /\ f.unchecked[t] = parts
         /\ \A u \in Tasks : u # t => f.unchecked[u] = d.unchecked[u]
    BY <1>9, <1>10 DEF SameBut, SameRequests, SetAt, SameOthers
  <1>12. Sound(f, Charge, M, H)
    <2>1. PartsArePlaced(f)
      <3> SUFFICES ASSUME NEW u \in Tasks
                   PROVE  /\ \A part \in f.unchecked[u] :
                               /\ part[2] \in 1 .. Len(f.sessions)
                               /\ part[1] < f.next[u]
                          /\ \A r \in f.sent[u] :
                               r.kind = "hashes" => HasPart(f, u, r.offset)
        BY DEF PartsArePlaced
      <3>1. CASE u = t
        <4>1. \A p \in d.unchecked[t] :
                p[2] \in 1 .. Len(d.sessions) /\ p[1] < d.next[t]
          BY <1>1 DEF Placed
        <4>2. \A q \in parts : q[2] \in 1 .. Len(d.sessions) /\ q[1] < d.next[t]
          BY <1>3, <1>6, <4>1
        <4>3. \A r \in d.sent[t] : r.kind = "hashes" =>
                \E p \in d.unchecked[t] : p[1] = r.offset
          BY <1>1 DEF Placed
        <4>4. \A r \in d.sent[t] : r.kind = "hashes" =>
                \E q \in parts : q[1] = r.offset
          BY <1>5, <4>3
        <4> QED
          BY <1>11, <3>1, <4>2, <4>4 DEF HasPart
      <3>2. CASE u # t
        BY <1>1, <1>11, <3>2 DEF Placed, HasPart
      <3> QED
        BY <3>1, <3>2
    <2>2. d.unchecked[t] = {} <=> parts = {}
      BY <1>5, <1>6
    <2>3. Idle(f)
      BY <1>1, <1>11, <2>2 DEF Idle
    <2>4. Kept(f, M)
      BY <1>1, <1>5, <1>11 DEF Kept
    <2>5. HashesKnown(f, H)
      BY <1>1, <1>11, <2>2 DEF HashesKnown
    <2> QED
      BY <1>10, <1>11, <2>1, <2>3, <2>4, <2>5, SoundEdited
  <1>13. HeldWhileMoved(f, t, Charge, M, H, S, e)
    <2> HIDE DEF S
    <2>1. S = {r \in f.sent[t] : r.session = Len(f.sessions)}
      BY <1>11 DEF S
    <2>2. e = FoldSet(LAMBDA r, c : MoveRequest(t, c, r), f,
                      {r \in f.sent[t] : r.session = Len(f.sessions)})
      BY <1>7, <2>1
    <2>3. Len(f.sessions) > 1
      BY <1>11
    <2>4. HeldWhileMoved(f, t, Charge, M, H,
                         {r \in f.sent[t] : r.session = Len(f.sessions)}, e)
      BY <1>12, <2>2, <2>3, MoveAll
    <2> QED
      BY <2>1, <2>4
  <1>14. \A r \in S : r.session = session
    OBVIOUS
  <1>15. \A r \in d.sent[t] : r.session = session => r \in S
    OBVIOUS
  <1> HIDE DEF S
  <1>16. /\ Sound(e, Charge, M, H) /\ OnlyMoves(f, e) /\ e.unchecked = f.unchecked
         /\ \A u \in Tasks : u # t => e.sent[u] = f.sent[u]
         /\ ~e.clash => \A r \in e.sent[t] :
              r.session = Len(f.sessions) => r \in f.sent[t] /\ r \notin S
    BY <1>13 DEF HeldWhileMoved
  <1>17. chosen >= session <=> ~(chosen < session)
    BY <1>2, <1>3
  <1>18. OnlyMoves(d, e)
    <2>1. OnlyMoves(d, f)
      BY <1>2, <1>4, <1>8, <1>10, <1>11, <1>17 DEF OnlyMoves
    <2>2. Typed(e)
      BY <1>16 DEF Sound
    <2> QED
      BY <1>1, <1>10, <1>16, <2>1, <2>2, OnlyMovesThen
  <1>19. ~e.clash => ~LeftBehind(e, t, session)
    <2> SUFFICES ASSUME ~e.clash PROVE ~LeftBehind(e, t, session)
      OBVIOUS
    <2>1. ~f.clash
      BY <1>16 DEF OnlyMoves
    <2>2. \A r \in e.sent[t] : r.session # session
      BY <1>11, <1>15, <1>16
    <2>3. \A q \in parts : q[2] # session
      <3>1. ~(moved /\ ~(chosen < session))
        BY <1>8, <1>10, <1>17, <2>1
      <3>2. \A p \in d.unchecked[t] : p[2] = session => chosen # session
        BY <1>2, <1>3, <3>1 DEF moved
      <3> QED
        BY <1>6, <3>2
    <2> QED
      BY <1>11, <1>16, <2>2, <2>3 DEF LeftBehind
  <1>20. StaysAway(d, e, session)
    BY <1>11, <1>16, <1>19 DEF StaysAway, LeftBehind
  <1> QED
    BY <1>16, <1>18, <1>19, <1>20

LEMMA TaskStep ==
  ASSUME NEW d, NEW M, NEW H, NEW session, Typed(d), session = Len(d.sessions),
         session > 1, NEW s, s \subseteq DOMAIN d.queue,
         NEW e, HeldWhileTasks(d, session, Charge, M, H, s, e),
         NEW y \in DOMAIN d.queue
  PROVE  HeldWhileTasks(d, session, Charge, M, H, s \cup {y},
                        MoveTask(e, d.queue[y], session))
  <1> DEFINE t == d.queue[y]
             g == MoveTask(e, t, session)
  <1>1. \A i \in DOMAIN d.queue : d.queue[i] \in Tasks
    BY DEF Typed, Managers
  <1>2. t \in Tasks /\ g = MoveTask(e, t, session)
    BY <1>1
  <1>3. /\ Sound(e, Charge, M, H) /\ OnlyMoves(d, e)
        /\ ~e.clash => \A i \in s : ~LeftBehind(e, d.queue[i], session)
    BY DEF HeldWhileTasks
  <1>4. Len(e.sessions) = Len(d.sessions) /\ Typed(e)
    BY <1>3 DEF OnlyMoves, Sound
  <1> HIDE DEF t, g
  <1>5. /\ Sound(g, Charge, M, H) /\ OnlyMoves(e, g) /\ StaysAway(e, g, session)
        /\ ~g.clash => ~LeftBehind(g, t, session)
    BY <1>2, <1>3, <1>4, MoveTaskIs
  <1>6. OnlyMoves(d, g)
    <2>1. Typed(g)
      BY <1>5 DEF Sound
    <2> QED
      BY <1>3, <1>4, <1>5, <2>1, OnlyMovesThen
  <1>7. ~g.clash => \A i \in s \cup {y} : ~LeftBehind(g, d.queue[i], session)
    <2> SUFFICES ASSUME ~g.clash, NEW i \in s \cup {y}
                 PROVE  ~LeftBehind(g, d.queue[i], session)
      OBVIOUS
    <2>1. ~e.clash
      BY <1>5 DEF OnlyMoves
    <2>2. CASE i \in s
      <3>1. d.queue[i] \in Tasks /\ ~LeftBehind(e, d.queue[i], session)
        BY <1>1, <1>3, <2>1, <2>2
      <3> QED
        BY <1>5, <3>1 DEF StaysAway
    <2>3. CASE i = y
      BY <1>5, <2>3 DEF t
    <2> QED
      BY <2>2, <2>3
  <1>8. HeldWhileTasks(d, session, Charge, M, H, s \cup {y}, g)
    BY <1>5, <1>6, <1>7 DEF HeldWhileTasks
  <1> QED
    BY <1>8 DEF g, t

LEMMA MaxIsIn ==
  ASSUME NEW n \in Nat, NEW s \in SUBSET (1 .. n), s # {}
  PROVE  Max(s) \in s
  <1> DEFINE back == {n - i : i \in s}
  <1>1. back \in SUBSET Nat /\ back # {}
    <2>1. \A i \in s : n - i \in Nat
      OBVIOUS
    <2> QED
      BY <2>1
  <1> HIDE DEF back
  <1>2. PICK x \in back : \A y \in back : x <= y
    BY <1>1, SmallestExists
  <1>3. PICK i \in s : x = n - i
    BY <1>2 DEF back
  <1>4. \A j \in s : i >= j
    <2> SUFFICES ASSUME NEW j \in s PROVE i >= j
      OBVIOUS
    <2>1. n - j \in back
      BY DEF back
    <2>2. n - i <= n - j /\ i \in Int /\ j \in Int
      BY <1>2, <1>3, <2>1
    <2> QED
      BY <2>2
  <1> QED
    BY <1>4 DEF Max

LEMMA PicksLast ==
  ASSUME NEW d, Typed(d)
  PROVE  IsFiniteSet(DOMAIN d.queue) /\ Picks("task", DOMAIN d.queue)
  <1> DEFINE S == DOMAIN d.queue
             n == Len(d.queue)
  <1>1. n \in Nat /\ S = 1 .. n
    <2>1. d.queue \in Seq(Tasks)
      BY DEF Typed, Managers
    <2> QED
      BY <2>1
  <1> HIDE DEF S, n
  <1>2. IsFiniteSet(S)
    <2>1. 1 \in Int /\ n \in Int
      BY <1>1
    <2> QED
      BY <1>1, <2>1, FS_Interval
  <1>3. \A s \in SUBSET S : s # {} => Max(s) \in s
    BY <1>1, MaxIsIn
  <1>4. Picks("task", S)
    BY <1>3 DEF Picks, Picked
  <1> QED
    BY <1>2, <1>4 DEF S

LEMMA MoveTasks ==
  ASSUME NEW d, NEW M, NEW H, Sound(d, Charge, M, H), NEW session,
         session = Len(d.sessions), session > 1,
         NEW q, q = d.queue,
         NEW e, e = FoldLeft(LAMBDA c, t : MoveTask(c, t, session), d, q)
  PROVE  HeldWhileTasks(d, session, Charge, M, H, DOMAIN q, e)
  <1> DEFINE S == DOMAIN q
             Folds(F) == F = [s \in SUBSET S |->
                                IF s = {} THEN d
                                ELSE MoveTask(F[s \ {Max(s)}], q[Max(s)], session)]
             F == CHOOSE F : Folds(F)
  <1>1. Typed(d)
    BY DEF Sound
  <1>2. IsFiniteSet(S) /\ Picks("task", S)
    BY <1>1, PicksLast
  <1>3. \E G : Folds(G)
    <2>1. PICK G : IsFold(G, S, d, "task", d, session)
      BY <1>2, FoldExists
    <2>2. Folds(G)
      BY <2>1 DEF IsFold, FoldStep, Picked
    <2> QED
      BY <2>2
  <1>4. Folds(F)
    BY <1>3
  <1>5. e = F[S]
    BY DEF FoldLeft, MapThenFoldSet
  <1>6. IsFold(F, S, d, "task", d, session)
    <2> HIDE DEF F
    <2> QED
      BY <1>4 DEF IsFold, FoldStep, Picked
  <1> HIDE DEF F, S
  <1>7. Held("task", d, session, Charge, M, H, {}, d)
    <2>1. HeldWhileTasks(d, session, Charge, M, H, {}, d)
      BY <1>1, MovesNothing DEF HeldWhileTasks
    <2> QED
      BY <2>1 DEF Held
  <1>8. \A s \in SUBSET S, y \in S : \A c :
          y \notin s /\ Held("task", d, session, Charge, M, H, s, c) =>
            Held("task", d, session, Charge, M, H, s \cup {y},
                 FoldStep("task", d, session, y, c))
    <2> SUFFICES ASSUME NEW s \in SUBSET S, NEW y \in S, NEW c, y \notin s,
                        Held("task", d, session, Charge, M, H, s, c)
                 PROVE  Held("task", d, session, Charge, M, H, s \cup {y},
                             FoldStep("task", d, session, y, c))
      OBVIOUS
    <2>1. HeldWhileTasks(d, session, Charge, M, H, s, c)
      BY DEF Held
    <2>2. s \subseteq DOMAIN d.queue /\ y \in DOMAIN d.queue
      BY DEF S
    <2>3. HeldWhileTasks(d, session, Charge, M, H, s \cup {y},
                         MoveTask(c, d.queue[y], session))
      BY <1>1, <2>1, <2>2, TaskStep
    <2> QED
      BY <2>3 DEF Held, FoldStep
  <1>9. Held("task", d, session, Charge, M, H, S, F[S])
    BY ONLY <1>2, <1>6, <1>7, <1>8, FoldHolds
  <1> QED
    BY <1>5, <1>9 DEF Held, S

-----------------------------------------------------------------------------
(* A session that is removed.                                              *)

LEMMA SameWorkIsSound ==
  ASSUME NEW d, NEW x, NEW M, NEW H, Sound(d, x, M, H), NEW e, SameWork(d, e),
         Len(e.sessions) = Len(d.sessions)
  PROVE  Placed(e) /\ Idle(e) /\ Kept(e, M) /\ HashesKnown(e, H)
  BY DEF Sound, SameWork, Placed, Idle, Kept, HashesKnown

(* The last session is charged.                                            *)
Blocked(d, n) ==
  [d EXCEPT !.removeTimes = IF d.removeIndex = n THEN Lesser(@ + 1, MaxRemoves)
                            ELSE 1,
            !.removeIndex = n,
            !.sessions[n].requested = @ + Charge]

LEMMA BlockedIs ==
  ASSUME NEW d, NEW M, NEW H, Sound(d, 0, M, H), NEW n, n = Len(d.sessions),
         NEW e, e = Blocked(d, n)
  PROVE  Sound(e, Charge, M, H) /\ SameWork(d, e) /\ Len(e.sessions) = n
  <1> DEFINE times == IF d.removeIndex = n THEN Lesser(d.removeTimes + 1, MaxRemoves)
                      ELSE 1
             one == [d.sessions[n] EXCEPT !.requested = @ + Charge]
             ss == [d.sessions EXCEPT ![n] = one]
  <1>1. Typed(d) /\ d \in Managers /\ d.removeTimes \in 0 .. MaxRemoves
    BY DEF Sound, Typed, Managers
  <1>2. /\ d.sessions \in Seq(Sessions) /\ Len(d.sessions) \in Nat
        /\ n \in 1 .. MaxSessions /\ n \in 1 .. n /\ Len(d.sessions) = n
        /\ DOMAIN d.sessions = 1 .. n
        /\ \A i \in 1 .. n : /\ d.sessions[i] \in Sessions
                             /\ d.sessions[i].requested \in Nat
    BY <1>1, SessionFacts
  <1>3. e = [d EXCEPT !.removeTimes = times, !.removeIndex = n, !.sessions = ss]
    BY <1>1, <1>2 DEF Managers, Sessions, Blocked
  <1>4. times \in 0 .. MaxRemoves
    <2>1. MaxRemoves \in Nat /\ MaxRemoves >= 1 /\ d.removeTimes + 1 \in Nat
      BY <1>1, ConstantsAre
    <2> QED
      BY <2>1 DEF Lesser
  <1>5. one \in Sessions /\ one.requested = d.sessions[n].requested + Charge
    <2> DEFINE s == d.sessions[n]
               r == s.requested + Charge
    <2>1. s \in Sessions /\ s.requested \in Nat
      BY <1>2
    <2>2. one = [s EXCEPT !.requested = r]
      BY <2>1 DEF Sessions
    <2> HIDE DEF s
    <2>3. r \in Nat
      BY <2>1, ChargeIs
    <2>4. r = s.requested + Charge
      OBVIOUS
    <2> HIDE DEF r, one
    <2>5. one \in Sessions /\ one.requested = r
      BY <2>1, <2>2, <2>3 DEF Sessions
    <2> QED
      BY <2>4, <2>5 DEF s
  <1> HIDE DEF times, one
  <1>6. /\ ss \in Seq(Sessions) /\ Len(ss) = n
        /\ \A i \in 1 .. n :
             ss[i].requested = d.sessions[i].requested + (IF i = n THEN Charge ELSE 0)
    <2>1. ss \in Seq(Sessions) /\ Len(ss) = n
      BY <1>2, <1>5
    <2>2. \A i \in 1 .. n : ss[i] = IF i = n THEN one ELSE d.sessions[i]
      BY <1>2
    <2>3. \A i \in 1 .. n : d.sessions[i].requested + 0 = d.sessions[i].requested
      BY <1>2
    <2> HIDE DEF ss
    <2> QED
      BY <1>5, <2>1, <2>2, <2>3
  <1> HIDE DEF ss
  <1>7. /\ e \in Managers /\ SameWork(d, e) /\ e.sessions = ss
    <2>1. n \in 0 .. MaxSessions
      BY <1>2, ConstantsAre
    <2>2. ss \in Seq(Sessions)
      BY <1>6
    <2> QED
      BY ONLY <1>1, <1>3, <1>4, <2>1, <2>2 DEF Managers, SameWork
  <1>8. Typed(e) /\ Len(e.sessions) = n
    BY <1>2, <1>6, <1>7 DEF Typed
  <1>9. Placed(e) /\ Idle(e) /\ Kept(e, M) /\ HashesKnown(e, H)
    BY <1>2, <1>7, <1>8, SameWorkIsSound
  <1>10. Counted(e, Charge)
    <2>1. Counted(d, 0)
      BY DEF Sound
    <2>2. Asked(e) = Asked(d) /\ \A i : InSession(e, i) = InSession(d, i)
      BY <1>7 DEF Asked, InSession, SameWork
    <2>3. \A i \in 1 .. n : /\ d.sessions[i].requested = Cardinality(InSession(d, i))
                            /\ Cardinality(InSession(d, i)) \in Nat
      <3>1. \A i \in 1 .. n : Cardinality(InSession(d, i)) \in Nat
        BY PlacesAre
      <3> QED
        BY <2>1, <3>1 DEF Counted
    <2>4. \A i \in 1 .. n :
            e.sessions[i].requested =
              Cardinality(InSession(e, i)) + (IF i = n THEN Charge ELSE 0)
      BY <1>6, <1>7, <2>2, <2>3
    <2> QED
      BY <1>7, <1>8, <2>1, <2>2, <2>4 DEF Counted, SameWork
  <1> QED
    BY <1>7, <1>8, <1>9, <1>10 DEF Sound

Aged(r) == [r EXCEPT !.old = TRUE]

LEMMA AgedIs ==
  ASSUME NEW r \in Requests
  PROVE  /\ Aged(r) \in Requests /\ Aged(r).offset = r.offset
         /\ Aged(r).kind = r.kind /\ Aged(r).session = r.session
  BY DEF Aged, Requests

(* The requests of d are those of e, and are old.                          *)
Ages(d, e) ==
  \A t \in Tasks :
    /\ \A q \in e.sent[t] : \E r \in d.sent[t] : q = Aged(r)
    /\ \A r \in d.sent[t] : Aged(r) \in e.sent[t]

(* The last session is popped.                                             *)
Drops(d, e, n) ==
  /\ Len(e.sessions) = n - 1 /\ \A i \in 1 .. n - 1 : e.sessions[i] = d.sessions[i]
  /\ e.queue = d.queue /\ e.status = d.status /\ e.unchecked = d.unchecked
  /\ e.fed = d.fed /\ e.posted = d.posted /\ e.orphaned = d.orphaned
  /\ e.next = d.next /\ e.total = d.total /\ e.kill = d.kill

Dropped(d, n, b) ==
  [d EXCEPT !.sessions = [i \in 1 .. n - 1 |-> @[i]],
            !.removed = TRUE,
            !.clash = b,
            !.sent = [t \in Tasks |-> {[r EXCEPT !.old = TRUE] : r \in d.sent[t]}]]

LEMMA DroppedIs ==
  ASSUME NEW d, Typed(d), NEW n, n = Len(d.sessions), n > 1, NEW b \in BOOLEAN,
         NEW e, e = Dropped(d, n, b)
  PROVE  Typed(e) /\ Drops(d, e, n) /\ Ages(d, e) /\ (e.clash <=> b)
  <1> DEFINE ss == [i \in 1 .. n - 1 |-> d.sessions[i]]
             sent == [t \in Tasks |-> {Aged(r) : r \in d.sent[t]}]
  <1>1. d \in Managers
    BY DEF Typed
  <1>2. /\ d.sessions \in Seq(Sessions) /\ n \in Nat /\ n \in 1 .. MaxSessions
        /\ \A i \in 1 .. n : d.sessions[i] \in Sessions
    BY SessionFacts
  <1>3. e = [d EXCEPT !.sessions = ss, !.removed = TRUE, !.clash = b, !.sent = sent]
    BY <1>1 DEF Managers, Aged, Dropped
  <1>4. /\ ss \in Seq(Sessions) /\ Len(ss) = n - 1
        /\ \A i \in 1 .. n - 1 : ss[i] = d.sessions[i]
    <2>1. n - 1 \in Nat /\ \A i \in 1 .. n - 1 : i \in 1 .. n
      BY <1>2
    <2> QED
      BY <1>2, <2>1
  <1>5. sent \in [Tasks -> SUBSET Requests]
    <2>1. \A t \in Tasks : \A r \in d.sent[t] : Aged(r) \in Requests
      BY FileFacts, AgedIs
    <2> QED
      BY <2>1
  <1>6. \A t \in Tasks : sent[t] = {Aged(r) : r \in d.sent[t]}
    OBVIOUS
  <1> HIDE DEF ss, sent
  <1>7. /\ e \in Managers /\ e.sessions = ss /\ e.sent = sent /\ (e.clash <=> b)
        /\ e.queue = d.queue /\ e.status = d.status /\ e.unchecked = d.unchecked
        /\ e.fed = d.fed /\ e.posted = d.posted /\ e.orphaned = d.orphaned
        /\ e.next = d.next /\ e.total = d.total /\ e.kill = d.kill
    BY ONLY <1>1, <1>3, <1>4, <1>5, b \in BOOLEAN DEF Managers
  <1>8. Len(e.sessions) \in 1 .. MaxSessions
    BY <1>2, <1>4, <1>7, ConstantsAre
  <1>9. Ages(d, e)
    BY <1>6, <1>7 DEF Ages
  <1> QED
    BY <1>4, <1>7, <1>8, <1>9 DEF Typed, Drops

LEMMA DroppedIsSound ==
  ASSUME NEW d, NEW M, NEW H, Sound(d, Charge, M, H), NEW n, n = Len(d.sessions),
         n > 1, \A t \in Tasks : ~LeftBehind(d, t, n),
         NEW e, Typed(e), Drops(d, e, n), Ages(d, e)
  PROVE  Sound(e, 0, M, H)
  <1>1. Typed(d) /\ Placed(d) /\ Counted(d, Charge) /\ Idle(d) /\ Kept(d, M)
        /\ HashesKnown(d, H)
    BY DEF Sound
  <1>2. /\ n \in Nat /\ \A i \in 1 .. n - 1 : i \in 1 .. n /\ i # n
        /\ \A i \in 1 .. n : i # n => i \in 1 .. n - 1
    BY <1>1, SessionFacts
  <1>3. \A t \in Tasks : \A r \in d.sent[t] :
          /\ Aged(r).offset = r.offset /\ Aged(r).kind = r.kind
          /\ Aged(r).session = r.session
    <2>1. \A t \in Tasks : \A r \in d.sent[t] : r \in Requests
      BY <1>1, FileFacts
    <2> QED
      BY <2>1, AgedIs
  <1>4. \A t \in Tasks :
          /\ \A q \in e.sent[t] : \E r \in d.sent[t] :
               /\ q = Aged(r) /\ q.offset = r.offset /\ q.kind = r.kind
               /\ q.session = r.session
          /\ \A r \in d.sent[t] : \E q \in e.sent[t] :
               q.offset = r.offset /\ q.kind = r.kind /\ q.session = r.session
    BY <1>3 DEF Ages
  <1>5. \A t \in Tasks : e.sent[t] = {} <=> d.sent[t] = {}
    BY <1>4
  <1>6. Placed(e)
    <2> SUFFICES ASSUME NEW t \in Tasks
                 PROVE  /\ \A r \in e.sent[t] :
                             r.session \in 1 .. Len(e.sessions) /\ r.offset < e.next[t]
                        /\ \A part \in e.unchecked[t] :
                             part[2] \in 1 .. Len(e.sessions) /\ part[1] < e.next[t]
                        /\ \A r, s \in e.sent[t] : r.offset = s.offset => r = s
                        /\ \A r, s \in e.sent[t] :
                             r.kind = "hashes" /\ s.kind = "hashes" => r = s
                        /\ \A r \in e.sent[t] : r.kind = "hashes" =>
                             \E part \in e.unchecked[t] : part[1] = r.offset
      BY DEF Placed
    <2>1. /\ \A r \in d.sent[t] : r.session \in 1 .. n - 1 /\ r.offset < d.next[t]
          /\ \A part \in d.unchecked[t] : part[2] \in 1 .. n - 1 /\ part[1] < d.next[t]
      <3>1. /\ \A r \in d.sent[t] : r.session # n
            /\ \A part \in d.unchecked[t] : part[2] # n
        BY DEF LeftBehind
      <3> QED
        BY <1>1, <1>2, <3>1 DEF Placed
    <2>2. /\ \A r, s \in d.sent[t] : r.offset = s.offset => r = s
          /\ \A r, s \in d.sent[t] : r.kind = "hashes" /\ s.kind = "hashes" => r = s
          /\ \A r \in d.sent[t] : r.kind = "hashes" =>
               \E part \in d.unchecked[t] : part[1] = r.offset
      BY <1>1 DEF Placed
    <2>3. /\ Len(e.sessions) = n - 1 /\ e.unchecked = d.unchecked /\ e.next = d.next
      BY DEF Drops
    <2>4. \A r, s \in e.sent[t] : r.offset = s.offset => r = s
      BY <1>4, <2>2
    <2>5. \A r, s \in e.sent[t] : r.kind = "hashes" /\ s.kind = "hashes" => r = s
      BY <1>4, <2>2
    <2>6. \A r \in e.sent[t] : r.kind = "hashes" =>
            \E part \in e.unchecked[t] : part[1] = r.offset
      BY <1>4, <2>2, <2>3
    <2>7. \A r \in e.sent[t] :
            r.session \in 1 .. Len(e.sessions) /\ r.offset < e.next[t]
      BY <1>4, <2>1, <2>3
    <2> QED
      BY <2>1, <2>3, <2>4, <2>5, <2>6, <2>7
  <1>7. Counted(e, 0)
    <2>1. Asked(e) = Asked(d)
      <3>1. \A place \in Tasks \X Offsets :
              (\E r \in e.sent[place[1]] : r.offset = place[2])
                <=> (\E r \in d.sent[place[1]] : r.offset = place[2])
        BY <1>4
      <3> QED
        BY <3>1 DEF Asked
    <2>2. \A i : InSession(e, i) = InSession(d, i)
      <3>1. \A i : \A place \in Tasks \X Offsets :
              (\E r \in e.sent[place[1]] : r.offset = place[2] /\ r.session = i)
                <=> (\E r \in d.sent[place[1]] : r.offset = place[2] /\ r.session = i)
        BY <1>4
      <3> QED
        BY <3>1 DEF InSession
    <2>3. \A i \in 1 .. n - 1 :
            /\ e.sessions[i].requested = Cardinality(InSession(d, i)) + 0
            /\ Cardinality(InSession(d, i)) \in Nat
      <3>1. \A i \in 1 .. n - 1 : Cardinality(InSession(d, i)) \in Nat
        BY PlacesAre
      <3> QED
        BY <1>1, <1>2, <3>1 DEF Counted, Drops
    <2>4. \A i \in 1 .. Len(e.sessions) :
            e.sessions[i].requested =
              Cardinality(InSession(e, i)) + (IF i = Len(e.sessions) THEN 0 ELSE 0)
      BY <2>2, <2>3 DEF Drops
    <2> QED
      BY <1>1, <2>1, <2>4 DEF Counted, Drops
  <1>8. Idle(e)
    BY <1>1, <1>5 DEF Idle, Drops
  <1>9. Kept(e, M)
    BY <1>1, <1>4 DEF Kept, Drops
  <1>10. HashesKnown(e, H)
    BY <1>1, <1>4 DEF HashesKnown, Drops
  <1> QED
    BY <1>6, <1>7, <1>8, <1>9, <1>10 DEF Sound

(* removeSession of the manager.                                           *)
LEMMA RemoveSessionIs ==
  ASSUME NEW d, Sound(d, 0, {}, {}), InQueue(d), Len(d.sessions) > 1,
         NEW e, e = RemoveSession(d)
  PROVE  /\ Typed(e)
         /\ ~e.clash => Sound(e, 0, {}, {}) /\ InQueue(e)
         /\ d.total <= Charge /\ ~d.clash => ~e.clash
  <1> DEFINE n == Len(d.sessions)
             blocked == Blocked(d, n)
             moved == FoldLeft(LAMBDA c, t : MoveTask(c, t, n), blocked, d.queue)
             b == moved.clash \/ moved.sessions[n].requested # Charge
  <1>1. e = Dropped(moved, n, b)
    BY DEF RemoveSession, Blocked, Dropped
  <1>2. n = Len(d.sessions) /\ n > 1
    OBVIOUS
  <1> HIDE DEF n
  <1>3. Sound(blocked, Charge, {}, {}) /\ SameWork(d, blocked) /\ Len(blocked.sessions) = n
    <2>1. blocked = Blocked(d, n)
      OBVIOUS
    <2> HIDE DEF blocked, moved, b
    <2> QED
      BY <1>2, <2>1, BlockedIs
  <1> HIDE DEF blocked
  <1>4. HeldWhileTasks(blocked, n, Charge, {}, {}, DOMAIN d.queue, moved)
    <2>1. blocked.queue = d.queue
      BY <1>3 DEF SameWork
    <2> DEFINE q == d.queue
    <2>2. moved = FoldLeft(LAMBDA c, t : MoveTask(c, t, n), blocked, q) /\ q = blocked.queue
      BY <2>1
    <2> HIDE DEF q, moved
    <2>3. HeldWhileTasks(blocked, n, Charge, {}, {}, DOMAIN q, moved)
      BY <1>2, <1>3, <2>2, MoveTasks
    <2> QED
      BY <2>3 DEF q
  <1> HIDE DEF moved
  <1>5. /\ Sound(moved, Charge, {}, {}) /\ OnlyMoves(blocked, moved)
        /\ ~moved.clash => \A i \in DOMAIN d.queue : ~LeftBehind(moved, d.queue[i], n)
    <2>1. blocked.queue = d.queue
      BY <1>3 DEF SameWork
    <2> QED
      BY <1>4, <2>1 DEF HeldWhileTasks
  <1>6. /\ Typed(moved) /\ Idle(moved) /\ Counted(moved, Charge)
        /\ moved.queue = d.queue /\ moved.status = d.status /\ Len(moved.sessions) = n
    BY <1>3, <1>5 DEF Sound, OnlyMoves, SameWork
  <1>7. ~moved.clash => \A t \in Tasks : ~LeftBehind(moved, t, n)
    <2> SUFFICES ASSUME ~moved.clash, NEW t \in Tasks PROVE ~LeftBehind(moved, t, n)
      OBVIOUS
    <2>1. CASE d.status[t] = "loading"
      <3>1. PICK i \in DOMAIN d.queue : d.queue[i] = t
        BY <2>1 DEF InQueue
      <3> QED
        BY <1>5, <3>1
    <2>2. CASE d.status[t] # "loading"
      BY <1>6, <2>2 DEF Idle, LeftBehind
    <2> QED
      BY <2>1, <2>2
  <1>8. ~moved.clash => moved.sessions[n].requested = Charge
    <2> SUFFICES ASSUME ~moved.clash PROVE moved.sessions[n].requested = Charge
      OBVIOUS
    <2>1. InSession(moved, n) = {}
      BY <1>7 DEF InSession, LeftBehind
    <2>2. n \in 1 .. n
      BY <1>2, <1>6, SessionFacts
    <2>3. moved.sessions[n].requested = Cardinality({}) + Charge
      BY <1>6, <2>1, <2>2 DEF Counted
    <2> QED
      BY <2>3, FS_EmptySet, ChargeIs
  <1>9. b \in BOOLEAN /\ (b <=> moved.clash \/ moved.sessions[n].requested # Charge)
    BY <1>6 DEF Typed, Managers
  <1> HIDE DEF b
  <1>10. Typed(e) /\ Drops(moved, e, n) /\ Ages(moved, e) /\ (e.clash <=> b)
    BY <1>1, <1>2, <1>6, <1>9, DroppedIs
  <1>11. ~e.clash => ~moved.clash
    BY <1>9, <1>10
  <1>12. ~e.clash => Sound(e, 0, {}, {})
    BY <1>2, <1>5, <1>6, <1>7, <1>10, <1>11, DroppedIsSound
  <1>13. InQueue(e)
    BY <1>6, <1>10 DEF InQueue, Drops
  <1>14. d.total <= Charge /\ ~d.clash => ~e.clash
    <2>1. d.total <= Charge /\ ~d.clash => ~moved.clash
      BY <1>3, <1>5 DEF SameWork, OnlyMoves
    <2> QED
      BY <1>8, <1>9, <1>10, <2>1
  <1> QED
    BY <1>10, <1>12, <1>13, <1>14

(* sessionTimedOut.                                                        *)
LEMMA TimedOutIs ==
  ASSUME NEW d, Sound(d, 0, {}, {}), InQueue(d), NEW session \in Nat,
         NEW e, e = TimedOut(d, session)
  PROVE  Typed(e) /\ (~e.clash => Sound(e, 0, {}, {}) /\ InQueue(e))
  <1> DEFINE reset == NoSuccesses(d)
             more == [reset EXCEPT !.timeouts = @ + 1]
             none == [reset EXCEPT !.timeouts = 0]
  <1>1. Typed(d)
    BY DEF Sound
  <1>2. \/ e = d
        \/ e = reset
        \/ d.timeouts + 1 < RemoveTimeouts /\ e = more
        \/ Len(d.sessions) # 1 /\ e = RemoveSession(none)
    BY DEF TimedOut
  <1>3. reset = NoSuccesses(d)
    OBVIOUS
  <1> HIDE DEF reset
  <1>4. /\ Typed(reset) /\ SameWork(d, reset) /\ SameRequested(d, reset)
        /\ Len(reset.sessions) = Len(d.sessions) /\ reset.timeouts = d.timeouts
    BY <1>1, <1>3, NoSuccessesIs
  <1>5. Sound(reset, 0, {}, {}) /\ InQueue(reset)
    BY <1>4, SoundStays DEF SameWork, SameRequested, InQueue
  <1>6. ASSUME NEW n \in 0 .. RemoveTimeouts - 1, NEW f, f = [reset EXCEPT !.timeouts = n]
        PROVE  Sound(f, 0, {}, {}) /\ InQueue(f) /\ Len(f.sessions) = Len(d.sessions)
    <2>1. Typed(f) /\ SameWork(reset, f) /\ f.sessions = reset.sessions
      BY <1>4, <1>6, TimeoutsAre
    <2>2. /\ Len(f.sessions) = Len(reset.sessions)
          /\ Len(reset.sessions) \in Nat
      BY <1>4, <2>1, SessionFacts
    <2>3. Sound(f, 0, {}, {})
      BY <1>5, <2>1, <2>2, SoundStays DEF SameWork
    <2> QED
      BY <1>4, <1>5, <2>1, <2>3 DEF SameWork, InQueue
  <1>7. CASE e = d
    BY <1>1, <1>7
  <1>8. CASE e = reset
    BY <1>4, <1>5, <1>8
  <1>9. CASE d.timeouts + 1 < RemoveTimeouts /\ e = more
    <2> DEFINE n == d.timeouts + 1
    <2>1. n \in 0 .. RemoveTimeouts - 1
      <3>1. d.timeouts \in 0 .. RemoveTimeouts - 1
        BY <1>1 DEF Typed, Managers
      <3> QED
        BY <1>9, <3>1, ConstantsAre
    <2>2. e = [reset EXCEPT !.timeouts = n]
      <3>1. reset \in Managers
        BY <1>4 DEF Typed
      <3> QED
        BY <1>4, <1>9, <3>1 DEF Managers
    <2> HIDE DEF n
    <2>3. Sound(e, 0, {}, {}) /\ InQueue(e)
      BY <1>6, <2>1, <2>2
    <2> QED
      BY <2>3 DEF Sound
  <1>10. CASE Len(d.sessions) # 1 /\ e = RemoveSession(none)
    <2>1. 0 \in 0 .. RemoveTimeouts - 1
      BY ConstantsAre
    <2>2. none = [reset EXCEPT !.timeouts = 0]
      OBVIOUS
    <2> HIDE DEF none
    <2>3. Sound(none, 0, {}, {}) /\ InQueue(none) /\ Len(none.sessions) = Len(d.sessions)
      BY <1>6, <2>1, <2>2
    <2>4. Len(none.sessions) > 1
      <3> DEFINE k == Len(d.sessions)
      <3>1. k \in Nat /\ k \in 1 .. MaxSessions
        BY <1>1, SessionFacts
      <3>2. k # 1 /\ Len(none.sessions) = k
        BY <1>10, <2>3
      <3> HIDE DEF k
      <3>3. k > 1
        BY <3>1, <3>2, ConstantsAre
      <3> QED
        BY <3>2, <3>3
    <2> QED
      BY <1>10, <2>3, <2>4, RemoveSessionIs
  <1> QED
    BY <1>2, <1>7, <1>8, <1>9, <1>10

-----------------------------------------------------------------------------
(* Parts that wait for hashes.                                             *)

(* What a handler leaves, unless a check has failed.                       *)
Fine(d) == Typed(d) /\ (~d.clash => Sound(d, 0, {}, {}) /\ InQueue(d))

LEMMA FineSends ==
  ASSUME NEW d, Fine(d), NEW e, e = CheckSendNext(d)
  PROVE  Fine(e)
  <1>1. Typed(d)
    BY DEF Fine
  <1>2. SentMore(d, e, 0, {}, {})
    BY <1>1, CheckSendNextIs
  <1>3. ~e.clash => Sound(e, 0, {}, {}) /\ InQueue(e)
    BY <1>2 DEF Fine, SentMore, OnlySends, InQueue
  <1> QED
    BY <1>2, <1>3 DEF Fine, SentMore

(* No hashes are owed to a file without parts that wait for them.          *)
LEMMA NoneOwed ==
  ASSUME NEW d, NEW x, NEW M, NEW H, Sound(d, x, M, H), NEW t \in Tasks,
         NEW H2, \A u \in H : u \in H2 \/ u = t,
         d.unchecked[t] # {} => t \in H2 \/ d.orphaned[t]
  PROVE  Sound(d, x, M, H2)
  <1>1. HashesKnown(d, H)
    BY DEF Sound
  <1>2. HashesKnown(d, H2)
    BY <1>1 DEF HashesKnown
  <1> QED
    BY <1>2 DEF Sound

(* One part whose hash has come is given.                                  *)
LEMMA FeedStep ==
  ASSUME NEW d, NEW M, NEW H, NEW t \in Tasks, t \in H, NEW s,
         NEW e, HeldWhileFed(d, t, 0, M, H, s, e),
         NEW y \in d.unchecked[t], y \notin s, y[1] \in Offsets
  PROVE  HeldWhileFed(d, t, 0, M, H, s \cup {y},
                      Feed([e EXCEPT !.unchecked[t] = @ \ {y}], t, y[1]))
  <1> DEFINE S == e.unchecked[t] \ {y}
             g == [e EXCEPT !.unchecked[t] = @ \ {y}]
             o == y[1]
             f == Feed(g, t, o)
             M1 == M \cup {<<t, o>>}
  <1>1. /\ Sound(e, 0, M, H) /\ InQueue(e)
        /\ e.unchecked[t] = d.unchecked[t] \ s /\ e.clash = d.clash
        /\ \A r \in e.sent[t] : r.kind # "hashes"
    BY DEF HeldWhileFed
  <1>2. Typed(e) /\ Placed(e) /\ Idle(e) /\ Kept(e, M) /\ HashesKnown(e, H)
    BY <1>1 DEF Sound
  <1>3. y \in e.unchecked[t] /\ e.status[t] = "loading"
    BY <1>1, <1>2 DEF Idle
  <1>4. Typed(g) /\ SameBut(e, g, "unchecked") /\ SetAt(g.unchecked, e.unchecked, t, S)
    <2>1. S \in SUBSET (Offsets \X (1 .. MaxSessions))
      BY <1>2, FileFacts
    <2>2. g = [e EXCEPT !.unchecked[t] = S]
      OBVIOUS
    <2> HIDE DEF S, g
    <2> QED
      BY <1>2, <2>1, <2>2, UncheckedIs
  <1>5. o \in Offsets /\ f = Feed(g, t, o)
    OBVIOUS
  <1>6. \A p \in M1 : p # <<t, o>> => p \in M
    OBVIOUS
  <1>7. /\ \A p \in S : p \in e.unchecked[t]
        /\ \A p \in e.unchecked[t] : p \in S \/ p[1] = o
    OBVIOUS
  <1>8. S = d.unchecked[t] \ (s \cup {y})
    BY <1>1
  <1>9. M \subseteq M1 /\ <<t, o>> \in M1
    OBVIOUS
  <1> HIDE DEF g, f, o, M1, S
  <1>10. /\ SameRequests(e, g) /\ g.sent = e.sent /\ g.next = e.next
         /\ g.sessions = e.sessions /\ g.queue = e.queue
         /\ g.status = e.status /\ g.fed = e.fed /\ g.posted = e.posted
         /\ g.orphaned = e.orphaned /\ g.clash = e.clash /\ g.unchecked[t] = S
         /\ \A u \in Tasks : u # t => g.unchecked[u] = e.unchecked[u]
    BY <1>4 DEF SameBut, SameRequests, SetAt, SameOthers
  <1>11. Sound(g, 0, M1, H)
    <2>1. PartsArePlaced(g)
      BY <1>1, <1>2, <1>7, <1>10 DEF PartsArePlaced, HasPart, Placed
    <2>2. Idle(g)
      BY <1>2, <1>3, <1>10 DEF Idle
    <2>3. Kept(g, M1)
      <3> SUFFICES ASSUME NEW u \in Tasks, g.status[u] \in {"loading", "done"},
                          NEW q \in 0 .. g.next[u] - 1
                   PROVE  \/ q \in g.fed[u]
                          \/ <<u, q>> \in M1
                          \/ \E r \in g.sent[u] : r.offset = q
                          \/ \E part \in g.unchecked[u] : part[1] = q
        BY DEF Kept
      <3>1. \/ q \in e.fed[u]
            \/ <<u, q>> \in M
            \/ \E r \in e.sent[u] : r.offset = q
            \/ \E part \in e.unchecked[u] : part[1] = q
        BY <1>2, <1>10 DEF Kept
      <3>2. CASE u = t
        BY <1>7, <1>9, <1>10, <3>1, <3>2
      <3>3. CASE u # t
        BY <1>9, <1>10, <3>1, <3>3
      <3> QED
        BY <3>2, <3>3
    <2>4. HashesKnown(g, H)
      BY <1>2, <1>10 DEF HashesKnown
    <2> QED
      BY <1>1, <1>4, <1>10, <2>1, <2>2, <2>3, <2>4, SoundEdited
  <1>12. InQueue(g) /\ g.status[t] = "loading"
    BY <1>1, <1>3, <1>10 DEF InQueue
  <1>13. /\ Sound(f, 0, M, H) /\ InQueue(f) /\ f.clash = g.clash
         /\ f.unchecked = g.unchecked /\ f.status[t] \in {"loading", "done"}
         /\ \A r \in f.sent[t] : r \in g.sent[t] \/ r.kind = "part"
    <2> DEFINE x == 0
    <2>1. /\ x \in Nat /\ Sound(g, x, M1, H) /\ InQueue(g) /\ t \in Tasks
          /\ g.status[t] = "loading" /\ o \in Offsets /\ f = Feed(g, t, o)
      BY <1>5, <1>11, <1>12
    <2> HIDE DEF x
    <2>2. Sound(f, x, M, H) /\ InQueue(f) /\ f.clash = g.clash
      BY ONLY <1>6, <2>1, FeedIs
    <2>3. f.unchecked = g.unchecked /\ f.status[t] \in {"loading", "done"}
      BY ONLY <1>6, <2>1, FeedIs
    <2>4. \A r \in f.sent[t] : r \in g.sent[t] \/ r.kind = "part"
      BY ONLY <1>6, <2>1, FeedIs
    <2> QED
      BY <2>2, <2>3, <2>4 DEF x
  <1>14. \A r \in f.sent[t] : r.kind # "hashes"
    BY <1>1, <1>10, <1>13
  <1>15. HeldWhileFed(d, t, 0, M, H, s \cup {y}, f)
    BY <1>1, <1>8, <1>10, <1>13, <1>14 DEF HeldWhileFed
  <1> QED
    BY <1>15 DEF f, g, o

LEMMA PartsAreFinite ==
  ASSUME NEW d, Typed(d), NEW t \in Tasks, NEW S, S \subseteq d.unchecked[t]
  PROVE  IsFiniteSet(S)
  <1>1. IsFiniteSet(Offsets)
    <2>1. 0 \in Int /\ Parts - 1 \in Int
      BY ConstantsAre
    <2> QED
      BY <2>1, FS_Interval DEF Offsets
  <1>2. IsFiniteSet(1 .. MaxSessions)
    <2>1. 1 \in Int /\ MaxSessions \in Int
      BY ConstantsAre
    <2> QED
      BY <2>1, FS_Interval
  <1>3. IsFiniteSet(Offsets \X (1 .. MaxSessions))
    BY <1>1, <1>2, FS_Product
  <1>4. S \subseteq Offsets \X (1 .. MaxSessions)
    BY FileFacts
  <1> QED
    BY <1>3, <1>4, FS_Subset

LEMMA FeedAll ==
  ASSUME NEW d, NEW M, NEW H, Sound(d, 0, M, H), InQueue(d), NEW t \in Tasks, t \in H,
         d.status[t] = "loading", \A r \in d.sent[t] : r.kind # "hashes",
         NEW S, S \subseteq d.unchecked[t],
         NEW e, e = FoldSet(LAMBDA part, c :
                              Feed([c EXCEPT !.unchecked[t] = @ \ {part}], t, part[1]),
                            d, S)
  PROVE  HeldWhileFed(d, t, 0, M, H, S, e)
  <1> DEFINE Step(y, c) == Feed([c EXCEPT !.unchecked[t] = @ \ {y}], t, y[1])
             Folds(F) == F = [s \in SUBSET S |->
                                IF s = {} THEN d
                                ELSE Step(CHOOSE r \in s : TRUE,
                                          F[s \ {CHOOSE r \in s : TRUE}])]
             F == CHOOSE F : Folds(F)
  <1>1. Typed(d)
    BY DEF Sound
  <1>2. IsFiniteSet(S) /\ Picks("feed", S)
    BY <1>1, PartsAreFinite, PicksAny
  <1>3. \E G : Folds(G)
    <2>1. PICK G : IsFold(G, S, d, "feed", d, t)
      BY <1>2, FoldExists
    <2>2. Folds(G)
      BY <2>1 DEF IsFold, FoldStep, Picked
    <2> QED
      BY <2>2
  <1>4. Folds(F)
    BY <1>3
  <1>5. e = F[S]
    BY DEF FoldSet, MapThenFoldSet
  <1>6. IsFold(F, S, d, "feed", d, t)
    <2> HIDE DEF F
    <2> QED
      BY <1>4 DEF IsFold, FoldStep, Picked
  <1> HIDE DEF F
  <1>7. Held("feed", d, t, 0, M, H, {}, d)
    <2>1. HeldWhileFed(d, t, 0, M, H, {}, d)
      BY DEF HeldWhileFed
    <2> QED
      BY <2>1 DEF Held
  <1>8. \A s \in SUBSET S, y \in S : \A c :
          y \notin s /\ Held("feed", d, t, 0, M, H, s, c) =>
            Held("feed", d, t, 0, M, H, s \cup {y}, FoldStep("feed", d, t, y, c))
    <2> SUFFICES ASSUME NEW s \in SUBSET S, NEW y \in S, NEW c, y \notin s,
                        Held("feed", d, t, 0, M, H, s, c)
                 PROVE  Held("feed", d, t, 0, M, H, s \cup {y},
                             FoldStep("feed", d, t, y, c))
      OBVIOUS
    <2>1. HeldWhileFed(d, t, 0, M, H, s, c) /\ y \in d.unchecked[t]
      BY DEF Held
    <2>2. y[1] \in Offsets
      BY <1>1, <2>1, FileFacts
    <2>3. HeldWhileFed(d, t, 0, M, H, s \cup {y},
                       Feed([c EXCEPT !.unchecked[t] = @ \ {y}], t, y[1]))
      BY <2>1, <2>2, FeedStep
    <2> QED
      BY <2>3 DEF Held, FoldStep
  <1>9. Held("feed", d, t, 0, M, H, S, F[S])
    BY ONLY <1>2, <1>6, <1>7, <1>8, FoldHolds
  <1> QED
    BY <1>5, <1>9 DEF Held

LEMMA FineIs ==
  ASSUME NEW d, Sound(d, 0, {}, {}), InQueue(d)
  PROVE  Fine(d)
  BY DEF Fine, Sound

(* Hashes that are known say nothing about the rest.                       *)
LEMMA HashesAreSound ==
  ASSUME NEW d, NEW x, NEW M, NEW H, Sound(d, x, M, H), InQueue(d), NEW t \in Tasks,
         NEW hashes \in SUBSET Offsets,
         NEW e, e = [d EXCEPT !.hashes[t] = @ \cup hashes]
  PROVE  Sound(e, x, M, H) /\ InQueue(e) /\ SameBut(d, e, "hashes")
  <1> DEFINE S == d.hashes[t] \cup hashes
  <1>1. Typed(d) /\ Placed(d) /\ Idle(d) /\ Kept(d, M) /\ HashesKnown(d, H)
    BY DEF Sound
  <1>2. S \in SUBSET Offsets
    BY <1>1 DEF Typed, Managers
  <1>3. e = [d EXCEPT !.hashes[t] = S]
    OBVIOUS
  <1> HIDE DEF S
  <1>4. Typed(e) /\ SameBut(d, e, "hashes")
    BY <1>1, <1>2, <1>3, HashesAre
  <1>5. SameRequests(d, e) /\ PartsArePlaced(e) /\ Idle(e) /\ Kept(e, M)
        /\ HashesKnown(e, H)
    BY <1>1, <1>4 DEF SameBut, SameRequests, PartsArePlaced, HasPart, Placed, Idle,
                      Kept, HashesKnown
  <1>6. Sound(e, x, M, H)
    BY <1>4, <1>5, SoundEdited
  <1> QED
    BY <1>4, <1>6 DEF SameBut, InQueue

(* getCdnFileHashesDone, after the request is finished.                    *)
LEMMA HashesCameIs ==
  ASSUME NEW d, NEW H, Sound(d, 0, {}, H), InQueue(d), NEW t \in Tasks, H = {t},
         d.status[t] = "loading", \A r \in d.sent[t] : r.kind # "hashes",
         NEW hashes \in SUBSET Offsets, NEW good \in BOOLEAN,
         NEW e, e = HashesCame(d, t, hashes, good)
  PROVE  Fine(e)
  <1> DEFINE known == [d EXCEPT !.hashes[t] = @ \cup hashes]
             checked == {part \in d.unchecked[t] : part[1] \in known.hashes[t]}
             given == FoldSet(LAMBDA part, c :
                                Feed([c EXCEPT !.unchecked[t] = @ \ {part}], t, part[1]),
                              known, checked)
  <1>1. e = IF checked = {} \/ ~good THEN Failed(known, t)
            ELSE IF given.status[t] = "done" THEN given
            ELSE AskForHashes(given, t)
    BY DEF HashesCame
  <1>2. known = [d EXCEPT !.hashes[t] = @ \cup hashes] /\ checked \subseteq d.unchecked[t]
    OBVIOUS
  <1> HIDE DEF known
  <1>3. Sound(known, 0, {}, H) /\ InQueue(known) /\ SameBut(d, known, "hashes")
    <2>1. Sound(d, 0, {}, H) /\ InQueue(d) /\ t \in Tasks /\ hashes \in SUBSET Offsets
      OBVIOUS
    <2> QED
      BY ONLY <1>2, <2>1, HashesAreSound
  <1> HIDE DEF checked
  <1>4. CASE checked = {} \/ ~good
    <2>1. e = Failed(known, t) /\ {} \subseteq OfFile(t) /\ H \subseteq {t}
      BY <1>1, <1>4
    <2>2. Sound(e, 0, {}, {}) /\ InQueue(e)
      BY <1>3, <2>1, FailedIs
    <2> QED
      BY <2>2, FineIs
  <1>5. CASE ~(checked = {} \/ ~good)
    <2>1. /\ known.status[t] = "loading" /\ checked \subseteq known.unchecked[t]
          /\ t \in H /\ \A r \in known.sent[t] : r.kind # "hashes"
      BY <1>2, <1>3 DEF SameBut, SameRequests
    <2>2. given = FoldSet(LAMBDA part, c :
                            Feed([c EXCEPT !.unchecked[t] = @ \ {part}], t, part[1]),
                          known, checked)
      OBVIOUS
    <2> HIDE DEF given
    <2>3. HeldWhileFed(known, t, 0, {}, H, checked, given)
      BY <1>3, <2>1, <2>2, FeedAll
    <2>4. Sound(given, 0, {}, H) /\ InQueue(given)
      BY <2>3 DEF HeldWhileFed
    <2>5. \A u \in H : u \in {} \/ u = t
      OBVIOUS
    <2>6. CASE given.status[t] = "done"
      <3>1. given.unchecked[t] = {} /\ e = given
        BY <1>1, <1>5, <2>4, <2>6 DEF Sound, Idle
      <3>2. Sound(given, 0, {}, {})
        BY <2>4, <2>5, <3>1, NoneOwed
      <3> QED
        BY <2>4, <3>1, <3>2, FineIs
    <2>7. CASE given.status[t] # "done"
      <3>1. e = AskForHashes(given, t) /\ 0 \in Nat
        BY <1>1, <1>5, <2>7
      <3>2. /\ Typed(e) /\ e.queue = given.queue /\ e.status = given.status
            /\ given.clash => e.clash
            /\ ~e.clash => Sound(e, 0, {}, {})
        BY <2>4, <2>5, <3>1, AskForHashesIs
      <3> QED
        BY <2>4, <3>2 DEF Fine, InQueue
    <2> QED
      BY <2>6, <2>7
  <1> QED
    BY <1>4, <1>5

(* cdnPartLoaded, after the request is finished: its place is excused.     *)
LEMMA CheckedPartIs ==
  ASSUME NEW d, NEW request, NEW t \in Tasks, NEW M, M = {PlaceOf(t, request)},
         Sound(d, 0, M, {}), InQueue(d), d.status[t] = "loading",
         request.offset \in Offsets, request.offset < d.next[t],
         request.session \in 1 .. Len(d.sessions),
         NEW good \in BOOLEAN, NEW e, e = CheckedPart(d, t, request, good)
  PROVE  Fine(e)
  <1> DEFINE o == request.offset
             S == d.unchecked[t] \cup {<<o, request.session>>}
             g == IF \E part \in d.unchecked[t] : part[1] = o THEN d
                  ELSE [d EXCEPT !.unchecked[t] = @ \cup {<<o, request.session>>}]
  <1>1. Typed(d) /\ Placed(d) /\ Idle(d) /\ Kept(d, M) /\ HashesKnown(d, {})
    BY DEF Sound
  <1>2. e = IF o \in d.hashes[t] THEN (IF good THEN Feed(d, t, o) ELSE Failed(d, t))
            ELSE AskForHashes(g, t)
    BY DEF CheckedPart
  <1>3. /\ o \in Offsets /\ o < d.next[t]
        /\ M = {<<t, o>>} /\ \A p \in M : p # <<t, o>> => p \in {}
    BY DEF PlaceOf
  <1>4. S \in SUBSET (Offsets \X (1 .. MaxSessions))
    <2>1. request.session \in 1 .. MaxSessions
      <3>1. Len(d.sessions) \in Nat /\ Len(d.sessions) \in 1 .. MaxSessions
        BY <1>1, SessionFacts
      <3> HIDE DEF o, S, g
      <3> QED
        BY <3>1, ConstantsAre
    <2> QED
      BY <1>1, <2>1, FileFacts
  <1> HIDE DEF o
  <1>5. CASE o \in d.hashes[t] /\ good
    <2>1. e = Feed(d, t, o) /\ 0 \in Nat
      BY <1>2, <1>5
    <2> HIDE DEF S, g
    <2>2. Sound(e, 0, {}, {}) /\ InQueue(e)
      BY <1>3, <2>1, FeedIs
    <2> QED
      BY <2>2, FineIs
  <1>6. CASE o \in d.hashes[t] /\ ~good
    <2>1. e = Failed(d, t) /\ M \subseteq OfFile(t) /\ {} \subseteq {t}
      BY <1>2, <1>3, <1>6 DEF OfFile
    <2> HIDE DEF S, g
    <2>2. Sound(e, 0, {}, {}) /\ InQueue(e)
      BY <2>1, FailedIs
    <2> QED
      BY <2>2, FineIs
  <1>7. CASE o \notin d.hashes[t]
    <2> DEFINE H == {t}
    <2>1. t \in H /\ {} \subseteq H /\ M \subseteq M /\ \A u \in H : u \in {} \/ u = t
      OBVIOUS
    <2> HIDE DEF H
    <2>2. e = AskForHashes(g, t)
      BY <1>2, <1>7
    <2>3. Sound(g, 0, {}, H) /\ InQueue(g)
      <3>1. CASE \E part \in d.unchecked[t] : part[1] = o
        <4>1. g = d
          BY <3>1
        <4> HIDE DEF g
        <4>2. Sound(d, 0, M, H)
          BY <2>1, SoundMore
        <4>3. Kept(d, {})
          BY <1>1, <1>3, <3>1 DEF Kept
        <4> QED
          BY <4>1, <4>2, <4>3 DEF Sound
      <3>2. CASE ~\E part \in d.unchecked[t] : part[1] = o
        <4>1. g = [d EXCEPT !.unchecked[t] = S]
          BY <3>2
        <4>2. /\ \A p \in S : p \in d.unchecked[t] \/ p = <<o, request.session>>
              /\ <<o, request.session>> \in S /\ \A p \in d.unchecked[t] : p \in S
          OBVIOUS
        <4> HIDE DEF g, S
        <4>3. Typed(g) /\ SameBut(d, g, "unchecked") /\ SetAt(g.unchecked, d.unchecked, t, S)
          BY <1>1, <1>4, <4>1, UncheckedIs
        <4>4. /\ SameRequests(d, g) /\ g.sent = d.sent /\ g.next = d.next
              /\ g.sessions = d.sessions /\ g.queue = d.queue
              /\ g.status = d.status /\ g.fed = d.fed /\ g.posted = d.posted
              /\ g.orphaned = d.orphaned /\ g.unchecked[t] = S
              /\ \A u \in Tasks : u # t => g.unchecked[u] = d.unchecked[u]
          BY <4>3 DEF SameBut, SameRequests, SetAt, SameOthers
        <4>5. PartsArePlaced(g)
          <5> SUFFICES ASSUME NEW u \in Tasks
                       PROVE  /\ \A part \in g.unchecked[u] :
                                   /\ part[2] \in 1 .. Len(g.sessions)
                                   /\ part[1] < g.next[u]
                              /\ \A r \in g.sent[u] :
                                   r.kind = "hashes" => HasPart(g, u, r.offset)
            BY DEF PartsArePlaced
          <5>1. CASE u = t
            <6>1. \A p \in d.unchecked[t] :
                    p[2] \in 1 .. Len(d.sessions) /\ p[1] < d.next[t]
              BY <1>1 DEF Placed
            <6>2. \A p \in S : p[2] \in 1 .. Len(d.sessions) /\ p[1] < d.next[t]
              BY <1>3, <4>2, <6>1
            <6>3. \A r \in d.sent[t] : r.kind = "hashes" => HasPart(g, t, r.offset)
              BY <1>1, <4>2, <4>4 DEF Placed, HasPart
            <6> QED
              BY <4>4, <5>1, <6>2, <6>3
          <5>2. CASE u # t
            BY <1>1, <4>4, <5>2 DEF Placed, HasPart
          <5> QED
            BY <5>1, <5>2
        <4>6. Idle(g)
          BY <1>1, <4>4 DEF Idle
        <4>7. Kept(g, {})
          <5> SUFFICES ASSUME NEW u \in Tasks, g.status[u] \in {"loading", "done"},
                              NEW q \in 0 .. g.next[u] - 1
                       PROVE  \/ q \in g.fed[u]
                              \/ \E r \in g.sent[u] : r.offset = q
                              \/ \E part \in g.unchecked[u] : part[1] = q
            BY DEF Kept
          <5>1. \/ q \in d.fed[u]
                \/ <<u, q>> \in M
                \/ \E r \in d.sent[u] : r.offset = q
                \/ \E part \in d.unchecked[u] : part[1] = q
            BY <1>1, <4>4 DEF Kept
          <5>2. <<u, q>> \in M => u = t /\ q = o
            BY <1>3
          <5> QED
            BY <4>2, <4>4, <5>1, <5>2
        <4>8. HashesKnown(g, H)
          BY <1>1, <2>1, <4>4 DEF HashesKnown
        <4>9. Sound(g, 0, {}, H)
          BY <4>3, <4>4, <4>5, <4>6, <4>7, <4>8, SoundEdited
        <4> QED
          BY <4>4, <4>9 DEF InQueue
      <3> QED
        BY <3>1, <3>2
    <2> HIDE DEF g, S
    <2>4. /\ Typed(e) /\ e.queue = g.queue /\ e.status = g.status
          /\ g.clash => e.clash
          /\ ~e.clash => Sound(e, 0, {}, {})
      <3>1. 0 \in Nat
        OBVIOUS
      <3> QED
        BY <2>1, <2>2, <2>3, <3>1, AskForHashesIs
    <2> QED
      BY <2>3, <2>4 DEF Fine, InQueue
  <1> QED
    BY <1>5, <1>6, <1>7

-----------------------------------------------------------------------------
(* changeCDNParams: all requests of a file are finished, and made again.   *)

LEMMA FinishStep ==
  ASSUME NEW d, NEW x \in Nat, NEW M, NEW H, NEW t \in Tasks, OfFile(t) \subseteq M,
         t \in H, NEW s, NEW e, HeldWhileFinished(d, t, x, M, H, s, e),
         NEW y \in d.sent[t], y \notin s
  PROVE  HeldWhileFinished(d, t, x, M, H, s \cup {y}, Finish(e, t, y))
  <1> DEFINE g == Finish(e, t, y)
  <1>1. /\ Sound(e, x, M, H) /\ SameFiles(d, e) /\ e.next = d.next
        /\ e.sent[t] = d.sent[t] \ s
        /\ \A u \in Tasks : u # t => e.sent[u] = d.sent[u]
    BY DEF HeldWhileFinished
  <1>2. y \in e.sent[t]
    BY <1>1
  <1>3. PlaceOf(t, y) \in M
    <2>1. Typed(e)
      BY <1>1 DEF Sound
    <2>2. y.offset \in Offsets
      BY <1>2, <2>1, FileFacts
    <2> QED
      BY <2>2 DEF OfFile, PlaceOf
  <1>4. g = Finish(e, t, y) /\ M \subseteq M /\ H \subseteq H
    OBVIOUS
  <1> HIDE DEF g
  <1>5. /\ Sound(g, x, M, H) /\ SameFiles(e, g) /\ g.next = e.next
        /\ LessAsked(e, g, t, y)
    BY <1>1, <1>2, <1>3, <1>4, FinishIs
  <1>6. /\ g.sent[t] = d.sent[t] \ (s \cup {y})
        /\ \A u \in Tasks : u # t => g.sent[u] = d.sent[u]
    BY <1>1, <1>5 DEF LessAsked
  <1>7. HeldWhileFinished(d, t, x, M, H, s \cup {y}, g)
    BY <1>1, <1>5, <1>6 DEF SameFiles, HeldWhileFinished
  <1> QED
    BY <1>7 DEF g

LEMMA FinishAll ==
  ASSUME NEW d, NEW x \in Nat, NEW M, NEW H, Sound(d, x, M, H),
         NEW t \in Tasks, OfFile(t) \subseteq M, t \in H, NEW S, S = d.sent[t],
         NEW e, e = FoldSet(LAMBDA r, c : Finish(c, t, r), d, S)
  PROVE  HeldWhileFinished(d, t, x, M, H, S, e)
  <1> DEFINE Folds(F) == F = [s \in SUBSET S |->
                                IF s = {} THEN d
                                ELSE Finish(F[s \ {CHOOSE r \in s : TRUE}], t,
                                            CHOOSE r \in s : TRUE)]
             F == CHOOSE F : Folds(F)
  <1>1. IsFiniteSet(S) /\ Picks("finish", S)
    BY SentIsFinite, PicksAny DEF Sound
  <1>2. \E G : Folds(G)
    <2>1. PICK G : IsFold(G, S, d, "finish", d, t)
      BY <1>1, FoldExists
    <2>2. Folds(G)
      BY <2>1 DEF IsFold, FoldStep, Picked
    <2> HIDE DEF Folds
    <2> QED
      BY <2>2
  <1>3. Folds(F)
    BY <1>2
  <1>4. e = F[S]
    BY DEF FoldSet, MapThenFoldSet
  <1>5. IsFold(F, S, d, "finish", d, t)
    <2> HIDE DEF F
    <2> QED
      BY <1>3 DEF IsFold, FoldStep, Picked
  <1> HIDE DEF F
  <1>6. Held("finish", d, t, x, M, H, {}, d)
    BY DEF Held, HeldWhileFinished, SameFiles
  <1>7. \A s \in SUBSET S, y \in S : \A c :
          y \notin s /\ Held("finish", d, t, x, M, H, s, c) =>
            Held("finish", d, t, x, M, H, s \cup {y}, FoldStep("finish", d, t, y, c))
    <2> SUFFICES ASSUME NEW s \in SUBSET S, NEW y \in S, NEW c, y \notin s,
                        Held("finish", d, t, x, M, H, s, c)
                 PROVE  Held("finish", d, t, x, M, H, s \cup {y},
                             FoldStep("finish", d, t, y, c))
      OBVIOUS
    <2>1. HeldWhileFinished(d, t, x, M, H, s, c) /\ y \in d.sent[t]
      BY DEF Held
    <2>2. HeldWhileFinished(d, t, x, M, H, s \cup {y}, Finish(c, t, y))
      BY <2>1, FinishStep
    <2> QED
      BY <2>2 DEF Held, FoldStep
  <1>8. Held("finish", d, t, x, M, H, S, F[S])
    BY ONLY <1>1, <1>5, <1>6, <1>7, FoldHolds
  <1> QED
    BY <1>4, <1>8 DEF Held

(* Requests that may be made again: each has a place of its own.           *)
Distinct(d, t, S) ==
  /\ \A r, s \in S : r.offset = s.offset => r = s
  /\ \A r \in S : /\ r.offset \in Offsets /\ r.offset < d.next[t]
                  /\ r.session \in 1 .. Len(d.sessions)

LEMMA AgainStep ==
  ASSUME NEW d, NEW x \in Nat, NEW M, NEW H, NEW t \in Tasks,
         d.status[t] = "loading", NEW S, Distinct(d, t, S), NEW s \in SUBSET S,
         NEW e, HeldWhileAgain(d, t, x, M, H, s, e), NEW y \in S, y \notin s
  PROVE  HeldWhileAgain(d, t, x, M, H, s \cup {y},
                        Place(e, t, "part", y.offset, y.session))
  <1> DEFINE kind == "part"
             o == y.offset
             i == y.session
             N == M \cup {<<t, o>>}
             g == Place(e, t, kind, o, i)
  <1>1. /\ Sound(e, x, M, H) /\ SameFiles(d, e) /\ e.next = d.next
        /\ \A u \in Tasks : u # t => e.sent[u] = d.sent[u]
        /\ \A r \in s : \E q \in e.sent[t] : q.offset = r.offset
        /\ \A q \in e.sent[t] : q.kind = "part" /\ \E r \in s : q.offset = r.offset
    BY DEF HeldWhileAgain
  <1>2. /\ o \in Offsets /\ o < e.next[t] /\ i \in 1 .. Len(e.sessions)
        /\ e.status[t] = "loading"
    BY <1>1 DEF Distinct, SameFiles
  <1>3. FreeAt(e, t, o)
    <2> SUFFICES ASSUME NEW q \in e.sent[t], q.offset = o PROVE FALSE
      BY DEF FreeAt
    <2>1. PICK r \in s : q.offset = r.offset
      BY <1>1
    <2>2. r \in S /\ r.offset = y.offset
      BY <2>1
    <2> QED
      BY <2>2 DEF Distinct
  <1>4. kind \in Kinds /\ kind = "part" /\ o = y.offset /\ i = y.session
    BY DEF Kinds
  <1>5. g = Place(e, t, kind, o, i)
    OBVIOUS
  <1>6. kind = "hashes" => /\ \E part \in e.unchecked[t] : part[1] = o
                           /\ \A q \in e.sent[t] : q.kind # "hashes"
    OBVIOUS
  <1>7. /\ M \subseteq N /\ H \subseteq H
        /\ \A p \in N : p # <<t, o>> => p \in M
    OBVIOUS
  <1>8. \A u \in H : u \in H \/ (u = t /\ kind = "hashes")
    OBVIOUS
  <1> HIDE DEF kind, o, i, g, N
  <1>9. /\ Sound(g, x, M, H) /\ SameFiles(e, g) /\ g.next = e.next
        /\ NewRequest(e, g, t, kind, o, i)
        /\ Charged(e, g, i, 1) /\ g.total = e.total + 1
    <2>1. Sound(e, x, N, H)
      BY <1>1, <1>7, SoundMore
    <2>2. /\ x \in Nat /\ Sound(e, x, N, H) /\ t \in Tasks /\ kind \in Kinds
          /\ o \in Offsets /\ i \in 1 .. Len(e.sessions) /\ e.status[t] = "loading"
          /\ o < e.next[t] /\ FreeAt(e, t, o) /\ g = Place(e, t, kind, o, i)
      BY <1>1, <1>2, <1>3, <1>4, <1>5, <2>1
    <2>3. \A p \in N : p # <<t, o>> => p \in M
      BY <1>7
    <2> QED
      BY ONLY <1>6, <1>8, <2>2, <2>3, PlaceIs
  <1>10. PICK new \in Requests :
          new.offset = o /\ new.kind = kind /\ MoreAsked(e, g, t, new)
    BY <1>9 DEF NewRequest
  <1>11. /\ SameFiles(d, g) /\ g.next = d.next
         /\ \A u \in Tasks : u # t => g.sent[u] = d.sent[u]
    BY <1>1, <1>9, <1>10 DEF SameFiles, MoreAsked
  <1>12. \A r \in s \cup {y} : \E q \in g.sent[t] : q.offset = r.offset
    BY <1>1, <1>4, <1>10 DEF MoreAsked
  <1>13. \A q \in g.sent[t] :
           q.kind = "part" /\ \E r \in s \cup {y} : q.offset = r.offset
    BY <1>1, <1>4, <1>10 DEF MoreAsked
  <1>14. HeldWhileAgain(d, t, x, M, H, s \cup {y}, g)
    BY <1>9, <1>11, <1>12, <1>13 DEF HeldWhileAgain
  <1> QED
    BY <1>14 DEF g, kind, o, i

LEMMA AgainAll ==
  ASSUME NEW d, NEW x \in Nat, NEW M, NEW H, Sound(d, x, M, H), NEW t \in Tasks,
         d.status[t] = "loading", d.sent[t] = {},
         NEW S, IsFiniteSet(S), Distinct(d, t, S),
         NEW e, e = FoldSet(LAMBDA r, c : Place(c, t, "part", r.offset, r.session), d, S)
  PROVE  HeldWhileAgain(d, t, x, M, H, S, e)
  <1> DEFINE Step(r, c) == Place(c, t, "part", r.offset, r.session)
             Folds(F) == F = [s \in SUBSET S |->
                                IF s = {} THEN d
                                ELSE Step(CHOOSE r \in s : TRUE,
                                          F[s \ {CHOOSE r \in s : TRUE}])]
             F == CHOOSE F : Folds(F)
  <1>1. Picks("again", S)
    BY PicksAny
  <1>2. \E G : Folds(G)
    <2>1. PICK G : IsFold(G, S, d, "again", d, t)
      BY <1>1, FoldExists
    <2>2. Folds(G)
      BY <2>1 DEF IsFold, FoldStep, Picked
    <2> HIDE DEF Folds
    <2> HIDE DEF Folds
    <2> QED
      BY <2>2
  <1>3. Folds(F)
    BY <1>2
  <1>4. e = F[S]
    BY DEF FoldSet, MapThenFoldSet
  <1>5. IsFold(F, S, d, "again", d, t)
    <2> HIDE DEF F
    <2> QED
      BY <1>3 DEF IsFold, FoldStep, Picked
  <1> HIDE DEF F
  <1>6. Held("again", d, t, x, M, H, {}, d)
    <2>1. HeldWhileAgain(d, t, x, M, H, {}, d)
      BY DEF HeldWhileAgain, SameFiles
    <2> QED
      BY <2>1 DEF Held
  <1>7. \A s \in SUBSET S, y \in S : \A c :
          y \notin s /\ Held("again", d, t, x, M, H, s, c) =>
            Held("again", d, t, x, M, H, s \cup {y}, FoldStep("again", d, t, y, c))
    <2> SUFFICES ASSUME NEW s \in SUBSET S, NEW y \in S, NEW c, y \notin s,
                        Held("again", d, t, x, M, H, s, c)
                 PROVE  Held("again", d, t, x, M, H, s \cup {y},
                             FoldStep("again", d, t, y, c))
      OBVIOUS
    <2>1. HeldWhileAgain(d, t, x, M, H, s, c)
      BY DEF Held
    <2>2. HeldWhileAgain(d, t, x, M, H, s \cup {y},
                         Place(c, t, "part", y.offset, y.session))
      BY <2>1, AgainStep
    <2> QED
      BY <2>2 DEF Held, FoldStep
  <1>8. Held("again", d, t, x, M, H, S, F[S])
    BY ONLY <1>1, <1>5, <1>6, <1>7, IsFiniteSet(S), FoldHolds
  <1> QED
    BY <1>4, <1>8 DEF Held

(* The token and the hashes of the CDN: who waits for hashes may be        *)
(* forgotten.                                                              *)
CdnOf(d, t, token, hashes) ==
  [d EXCEPT !.token[t] = token, !.hashes[t] = @ \cup hashes,
            !.orphaned[t] = @ \/ d.unchecked[t] # {}]

CdnOnly(d, e, t) ==
  /\ SameRequests(d, e) /\ e.queue = d.queue /\ e.status = d.status
  /\ e.unchecked = d.unchecked /\ e.posted = d.posted /\ e.fed = d.fed
  /\ e.clash = d.clash /\ \A u \in Tasks : d.orphaned[u] => e.orphaned[u]
  /\ d.unchecked[t] # {} => e.orphaned[t]

LEMMA CdnOfIs ==
  ASSUME NEW d, Typed(d), NEW t \in Tasks, NEW token \in Tokens,
         NEW hashes \in SUBSET Offsets, NEW e, e = CdnOf(d, t, token, hashes)
  PROVE  Typed(e) /\ CdnOnly(d, e, t)
  <1> DEFINE b == d.orphaned[t] \/ d.unchecked[t] # {}
             tokens == [d.token EXCEPT ![t] = token]
             known == [d.hashes EXCEPT ![t] = @ \cup hashes]
             orphaned == [d.orphaned EXCEPT ![t] = b]
  <1>1. /\ d \in Managers /\ d.token \in [Tasks -> Tokens]
        /\ d.hashes \in [Tasks -> SUBSET Offsets]
        /\ d.orphaned \in [Tasks -> BOOLEAN] /\ d.orphaned[t] \in BOOLEAN
    BY DEF Typed, Managers
  <1>2. e = [d EXCEPT !.token = tokens, !.hashes = known, !.orphaned = orphaned]
    BY <1>1 DEF CdnOf, Managers
  <1>3. b \in BOOLEAN /\ (d.orphaned[t] => b) /\ (d.unchecked[t] # {} => b)
    BY <1>1
  <1> HIDE DEF b
  <1>4. tokens \in [Tasks -> Tokens]
    BY <1>1
  <1>5. known \in [Tasks -> SUBSET Offsets]
    <2>1. d.hashes[t] \cup hashes \in SUBSET Offsets
      BY <1>1
    <2> QED
      BY <1>1, <2>1
  <1>6. orphaned \in [Tasks -> BOOLEAN]
    BY <1>1, <1>3
  <1>7. orphaned[t] = b /\ \A u \in Tasks : u # t => orphaned[u] = d.orphaned[u]
    BY <1>1
  <1>8. \A u \in Tasks : d.orphaned[u] => orphaned[u]
    <2> HIDE DEF orphaned
    <2> QED
      BY <1>3, <1>7, Zenon
  <1>9. d.unchecked[t] # {} => orphaned[t]
    <2> HIDE DEF orphaned
    <2> QED
      BY <1>3, <1>7, Zenon
  <1> HIDE DEF tokens, known, orphaned
  <1>10. /\ e \in Managers /\ SameRequests(d, e) /\ e.queue = d.queue
         /\ e.status = d.status /\ e.unchecked = d.unchecked /\ e.posted = d.posted
         /\ e.fed = d.fed /\ e.clash = d.clash /\ e.orphaned = orphaned
    BY ONLY <1>1, <1>2, <1>4, <1>5, <1>6, Zenon DEF Managers, SameRequests
  <1>11. Typed(e)
    BY <1>10 DEF Typed, SameRequests
  <1> QED
    BY <1>8, <1>9, <1>10, <1>11, Zenon DEF CdnOnly

(* What is asked for again is not lost.                                    *)
LEMMA ChangeCdnIs ==
  ASSUME NEW d, NEW t \in Tasks, NEW request, NEW M, M = {PlaceOf(t, request)},
         NEW H, H = {t}, Sound(d, 0, M, H), InQueue(d), d.status[t] = "loading",
         request.offset \in Offsets, request.offset < d.next[t],
         request.session \in 1 .. Len(d.sessions), FreeAt(d, t, request.offset),
         NEW token \in Tokens, NEW hashes \in SUBSET Offsets,
         NEW e, e = ChangeCdn(d, t, request, token, hashes)
  PROVE  Fine(e)
  <1> DEFINE changed == CdnOf(d, t, token, hashes)
             S == d.sent[t]
             ended == FoldSet(LAMBDA r, c : Finish(c, t, r), changed, S)
             again == FoldSet(LAMBDA r, c : Place(c, t, "part", r.offset, r.session),
                              ended, S)
             o == request.offset
             i == request.session
             N == M \cup OfFile(t)
  <1>1. Typed(d) /\ Placed(d) /\ Idle(d) /\ Kept(d, M) /\ HashesKnown(d, H)
    BY DEF Sound
  <1>2. e = Place(again, t, "part", o, i)
    BY DEF ChangeCdn, CdnOf
  <1>3. /\ changed = CdnOf(d, t, token, hashes)
        /\ ended = FoldSet(LAMBDA r, c : Finish(c, t, r), changed, S)
        /\ again = FoldSet(LAMBDA r, c : Place(c, t, "part", r.offset, r.session),
                           ended, S)
    OBVIOUS
  <1>4. M \subseteq N /\ OfFile(t) \subseteq N /\ H \subseteq H /\ t \in H
    OBVIOUS
  <1>5. \A p \in M : p # <<t, o>> => p \in {}
    BY DEF PlaceOf
  <1>6. /\ o \in Offsets /\ o < d.next[t] /\ i \in 1 .. Len(d.sessions)
        /\ FreeAt(d, t, o) /\ S = d.sent[t]
    OBVIOUS
  <1>7. \A u \in Tasks : \A q : <<u, q>> \in M => u = t
    BY DEF PlaceOf
  <1> HIDE DEF changed, ended, again, o, i, N, S
  <1>8. Typed(changed) /\ CdnOnly(d, changed, t)
    BY <1>1, <1>3, CdnOfIs
  <1>9. /\ changed.sent = d.sent /\ changed.next = d.next /\ changed.status = d.status
        /\ changed.queue = d.queue /\ changed.unchecked = d.unchecked
        /\ changed.fed = d.fed /\ changed.posted = d.posted
        /\ changed.sessions = d.sessions /\ SameRequests(d, changed)
        /\ \A u \in Tasks : d.orphaned[u] => changed.orphaned[u]
        /\ d.unchecked[t] # {} => changed.orphaned[t]
    BY <1>8 DEF CdnOnly, SameRequests
  <1>10. Sound(changed, 0, M, H)
    <2>1. PartsArePlaced(changed) /\ Idle(changed)
      BY <1>1, <1>9 DEF PartsArePlaced, HasPart, Placed, Idle
    <2>2. Kept(changed, M)
      BY <1>1, <1>9 DEF Kept
    <2>3. HashesKnown(changed, H)
      BY <1>1, <1>9 DEF HashesKnown
    <2> QED
      BY <1>8, <1>9, <2>1, <2>2, <2>3, SoundEdited
  <1>11. 0 \in Nat
    OBVIOUS
  <1>12. HeldWhileFinished(changed, t, 0, N, H, S, ended)
    <2>1. Sound(changed, 0, N, H) /\ S = changed.sent[t]
      BY <1>4, <1>6, <1>9, <1>10, SoundMore
    <2> QED
      BY <1>3, <1>4, <1>11, <2>1, FinishAll
  <1>13. /\ Sound(ended, 0, N, H) /\ SameFiles(changed, ended) /\ ended.next = d.next
         /\ ended.sent[t] = {} /\ Len(ended.sessions) = Len(d.sessions)
         /\ \A u \in Tasks : u # t => ended.sent[u] = d.sent[u]
         /\ ended.status[t] = "loading"
    BY <1>6, <1>9, <1>12 DEF HeldWhileFinished, SameFiles
  <1>14. HeldWhileAgain(ended, t, 0, N, H, S, again)
    <2>1. IsFiniteSet(S)
      BY <1>1, <1>6, SentIsFinite
    <2>2. Distinct(ended, t, S)
      BY <1>1, <1>6, <1>13, FileFacts DEF Distinct, Placed
    <2> QED
      BY <1>3, <1>11, <1>13, <2>1, <2>2, AgainAll
  <1>15. /\ Sound(again, 0, N, H) /\ SameFiles(ended, again) /\ again.next = d.next
         /\ \A u \in Tasks : u # t => again.sent[u] = d.sent[u]
         /\ \A r \in S : \E q \in again.sent[t] : q.offset = r.offset
         /\ \A q \in again.sent[t] : q.kind = "part" /\ \E r \in S : q.offset = r.offset
    BY <1>13, <1>14 DEF HeldWhileAgain
  <1>16. /\ again.status = d.status /\ again.unchecked = d.unchecked
         /\ again.fed = d.fed /\ again.queue = d.queue
         /\ again.orphaned = changed.orphaned
         /\ Len(again.sessions) = Len(d.sessions)
    BY <1>9, <1>13, <1>15 DEF SameFiles
  <1>17. Sound(again, 0, M, {})
    <2>1. Kept(again, M)
      BY <1>1, <1>6, <1>15, <1>16 DEF Kept
    <2>2. Sound(again, 0, M, H)
      BY <1>15, <2>1 DEF Sound
    <2>3. \A u \in H : u \in {} \/ u = t
      OBVIOUS
    <2>4. again.unchecked[t] # {} => again.orphaned[t]
      BY <1>9, <1>16
    <2> QED
      BY <2>2, <2>3, <2>4, NoneOwed
  <1>18. FreeAt(again, t, o)
    BY <1>6, <1>15 DEF FreeAt
  <1>19. Sound(e, 0, {}, {}) /\ SameFiles(again, e)
    <2> DEFINE kind == "part"
    <2>1. /\ 0 \in Nat /\ Sound(again, 0, M, {}) /\ t \in Tasks /\ kind \in Kinds
          /\ o \in Offsets /\ i \in 1 .. Len(again.sessions)
          /\ again.status[t] = "loading" /\ o < again.next[t] /\ FreeAt(again, t, o)
          /\ e = Place(again, t, kind, o, i)
      BY <1>2, <1>6, <1>11, <1>15, <1>16, <1>17, <1>18 DEF Kinds
    <2>2. kind = "hashes" => /\ \E part \in again.unchecked[t] : part[1] = o
                             /\ \A q \in again.sent[t] : q.kind # "hashes"
      OBVIOUS
    <2>3. \A u \in {} : u \in {} \/ (u = t /\ kind = "hashes")
      OBVIOUS
    <2> HIDE DEF kind
    <2>4. /\ Sound(e, 0, {}, {}) /\ SameFiles(again, e) /\ e.next = again.next
          /\ NewRequest(again, e, t, kind, o, i)
          /\ Charged(again, e, i, 1) /\ e.total = again.total + 1
      BY ONLY <1>5, <2>1, <2>2, <2>3, PlaceIs
    <2> QED
      BY <2>4
  <1>20. InQueue(e)
    BY <1>16, <1>19 DEF InQueue, SameFiles
  <1> QED
    BY <1>19, <1>20, FineIs

-----------------------------------------------------------------------------
(* Answers.                                                                *)

(* The request has been finished, and its place is free.                   *)
Answered(e, t, request) ==
  /\ InQueue(e) /\ e.status[t] = "loading"
  /\ request.offset \in Offsets /\ request.offset < e.next[t]
  /\ request.session \in 1 .. Len(e.sessions) /\ FreeAt(e, t, request.offset)

LEMMA FinishedIs ==
  ASSUME NEW d, Sound(d, 0, {}, {}), InQueue(d), NEW t \in Tasks,
         NEW request \in d.sent[t], NEW M, M = {PlaceOf(t, request)}, NEW H, H = {t},
         NEW e, e = Finish(d, t, request)
  PROVE  /\ Answered(e, t, request) /\ Sound(e, 0, M, H)
         /\ request.kind # "hashes" => Sound(e, 0, M, {})
         /\ request.kind = "hashes" =>
              Sound(e, 0, {}, H) /\ \A r \in e.sent[t] : r.kind # "hashes"
  <1>1. Typed(d) /\ Placed(d) /\ Idle(d)
    BY DEF Sound
  <1>2. /\ 0 \in Nat /\ {} \subseteq M /\ {} \subseteq H /\ PlaceOf(t, request) \in M
        /\ t \in H /\ {} \subseteq {}
    OBVIOUS
  <1>3. /\ Sound(e, 0, M, H) /\ SameFiles(d, e) /\ e.next = d.next
        /\ LessAsked(d, e, t, request)
        /\ request.session \in 1 .. Len(d.sessions)
    BY <1>2, FinishIs
  <1>4. request.kind # "hashes" => Sound(e, 0, M, {})
    BY <1>2, FinishIs
  <1>5. request.kind = "hashes" => Sound(e, 0, {}, H)
    <2> SUFFICES ASSUME request.kind = "hashes" PROVE Sound(e, 0, {}, H)
      OBVIOUS
    <2>1. HasPart(d, t, request.offset)
      BY <1>1 DEF Placed, HasPart
    <2> QED
      BY <1>2, <2>1, FinishIs
  <1>6. request.kind = "hashes" => \A r \in e.sent[t] : r.kind # "hashes"
    BY <1>1, <1>3 DEF Placed, LessAsked
  <1>7. d.status[t] = "loading"
    BY <1>1 DEF Idle
  <1>8. request.offset \in Offsets /\ request.offset < d.next[t]
    BY <1>1, FileFacts DEF Placed
  <1>9. FreeAt(e, t, request.offset)
    BY <1>1, <1>3 DEF Placed, LessAsked, FreeAt
  <1>10. InQueue(e)
    BY <1>3 DEF InQueue, SameFiles
  <1>11. Answered(e, t, request)
    BY <1>3, <1>7, <1>8, <1>9, <1>10 DEF Answered, SameFiles
  <1> QED
    BY <1>3, <1>4, <1>5, <1>6, <1>11

LEMMA WidenedIs ==
  ASSUME NEW d, NEW M, Sound(d, 0, M, {}), NEW t \in Tasks, NEW request,
         Answered(d, t, request), NEW slow, NEW wait,
         NEW e, e = Succeeded(d, request, slow, wait)
  PROVE  Sound(e, 0, M, {}) /\ Answered(e, t, request)
  <1>1. request.session \in 1 .. Len(d.sessions)
    BY DEF Answered
  <1>2. Sound(e, 0, M, {}) /\ SameWork(d, e) /\ Len(e.sessions) >= Len(d.sessions)
    BY <1>1, SucceededIsSound
  <1>3. Len(d.sessions) \in Nat /\ Len(e.sessions) \in Nat
    BY <1>2, SessionFacts DEF Sound
  <1>4. request.session \in 1 .. Len(e.sessions)
    BY <1>1, <1>2, <1>3
  <1> QED
    BY <1>2, <1>4 DEF Answered, SameWork, InQueue, FreeAt

(* The place is asked for anew.                                            *)
LEMMA PlacedAnew ==
  ASSUME NEW d, NEW M, Sound(d, 0, M, {}), NEW t \in Tasks, NEW request,
         M = {PlaceOf(t, request)}, Answered(d, t, request),
         NEW kind \in Kinds, kind # "hashes",
         NEW e, e = Place(d, t, kind, request.offset, request.session)
  PROVE  Fine(e)
  <1> DEFINE o == request.offset
             i == request.session
  <1>1. /\ 0 \in Nat /\ Sound(d, 0, M, {}) /\ t \in Tasks /\ kind \in Kinds
        /\ o \in Offsets /\ i \in 1 .. Len(d.sessions)
        /\ d.status[t] = "loading" /\ o < d.next[t] /\ FreeAt(d, t, o)
        /\ e = Place(d, t, kind, o, i)
    BY DEF Answered
  <1>2. kind = "hashes" => /\ \E part \in d.unchecked[t] : part[1] = o
                           /\ \A q \in d.sent[t] : q.kind # "hashes"
    OBVIOUS
  <1>3. \A u \in {} : u \in {} \/ (u = t /\ kind = "hashes")
    OBVIOUS
  <1>4. \A p \in M : p # <<t, o>> => p \in {}
    BY DEF PlaceOf
  <1> HIDE DEF o, i
  <1>5. /\ Sound(e, 0, {}, {}) /\ SameFiles(d, e) /\ e.next = d.next
        /\ NewRequest(d, e, t, kind, o, i)
        /\ Charged(d, e, i, 1) /\ e.total = d.total + 1
    BY ONLY <1>1, <1>2, <1>3, <1>4, PlaceIs
  <1>6. InQueue(e)
    BY <1>5 DEF Answered, InQueue, SameFiles
  <1> QED
    BY <1>5, <1>6, FineIs

(* cancelOnFail, also while the place of an answer is excused.             *)
LEMMA FailedIsFine ==
  ASSUME NEW d, NEW M, NEW H, Sound(d, 0, M, H), InQueue(d), NEW t \in Tasks,
         M \subseteq OfFile(t), H \subseteq {t}, NEW e, e = Failed(d, t)
  PROVE  Fine(e)
  BY FailedIs, FineIs

-----------------------------------------------------------------------------
(* Files and sessions.                                                     *)

LEMMA PostedCallIs ==
  ASSUME NEW d, Sound(d, 0, {}, {}), InQueue(d), NEW t \in Tasks,
         NEW e, e = AskForHashes([d EXCEPT !.posted[t] = FALSE], t)
  PROVE  Fine(e)
  <1> DEFINE g == [d EXCEPT !.posted[t] = FALSE]
             H == {t}
  <1>1. Typed(d) /\ Placed(d) /\ Idle(d) /\ Kept(d, {}) /\ HashesKnown(d, {})
    BY DEF Sound
  <1>2. g = [d EXCEPT !.posted[t] = FALSE] /\ FALSE \in BOOLEAN /\ e = AskForHashes(g, t)
    OBVIOUS
  <1>3. t \in H /\ \A u \in H : u \in {} \/ u = t
    OBVIOUS
  <1> HIDE DEF g, H
  <1>4. Typed(g) /\ SameButPosted(d, g) /\ SameOthers(g.posted, d.posted, t)
    BY <1>1, <1>2, PostedIs
  <1>5. /\ SameRequests(d, g) /\ g.sent = d.sent /\ g.next = d.next
        /\ g.sessions = d.sessions /\ g.queue = d.queue /\ g.status = d.status
        /\ g.unchecked = d.unchecked /\ g.fed = d.fed /\ g.orphaned = d.orphaned
        /\ \A u \in Tasks : u # t => g.posted[u] = d.posted[u]
    BY <1>4 DEF SameButPosted, SameRequests, SameOthers
  <1>6. PartsArePlaced(g) /\ Idle(g) /\ Kept(g, {})
    BY <1>1, <1>5 DEF PartsArePlaced, HasPart, Placed, Idle, Kept
  <1>7. HashesKnown(g, H)
    BY <1>1, <1>3, <1>5 DEF HashesKnown
  <1>8. Sound(g, 0, {}, H)
    BY <1>4, <1>5, <1>6, <1>7, SoundEdited
  <1>9. /\ Typed(e) /\ e.queue = g.queue /\ e.status = g.status
        /\ g.clash => e.clash
        /\ ~e.clash => Sound(e, 0, {}, {})
    <2>1. 0 \in Nat
      OBVIOUS
    <2>2. Sound(g, 0, {}, H) /\ e = AskForHashes(g, t)
      BY <1>2, <1>8
    <2>3. \A u \in H : u \in {} \/ u = t
      BY <1>3
    <2> QED
      BY <2>1, <2>2, <2>3, AskForHashesIs
  <1> QED
    BY ONLY <1>5, <1>9, InQueue(d) DEF Fine, InQueue

LEMMA ConsIs ==
  ASSUME NEW q \in Seq(Tasks), NEW t \in Tasks
  PROVE  /\ Cons(t, q) \in Seq(Tasks)
         /\ \E k \in DOMAIN Cons(t, q) : Cons(t, q)[k] = t
         /\ \A i \in DOMAIN q : \E k \in DOMAIN Cons(t, q) : Cons(t, q)[k] = q[i]
  <1> DEFINE r == Cons(t, q)
  <1>1. r = <<t>> \o q
    BY DEF Cons
  <1> HIDE DEF r
  <1>2. /\ r \in Seq(Tasks) /\ Len(r) = Len(q) + 1 /\ Len(q) \in Nat
        /\ DOMAIN r = 1 .. Len(q) + 1 /\ DOMAIN q = 1 .. Len(q)
        /\ r[1] = t /\ \A i \in 1 .. Len(q) : r[i + 1] = q[i]
    BY <1>1
  <1>3. \E k \in DOMAIN r : r[k] = t
    BY <1>2
  <1>4. \A i \in DOMAIN q : i + 1 \in DOMAIN r
    BY <1>2
  <1> QED
    BY <1>2, <1>3, <1>4 DEF r

LEMMA StartIs ==
  ASSUME NEW d, Sound(d, 0, {}, {}), InQueue(d), NEW t \in Tasks,
         d.status[t] = "new",
         NEW e, e = Enqueued([d EXCEPT !.status[t] = "loading"], t)
  PROVE  Fine(e)
  <1> DEFINE g == [d EXCEPT !.status[t] = "loading"]
             q == Cons(t, g.queue)
             f == [g EXCEPT !.queue = q]
  <1>1. Typed(d) /\ Placed(d) /\ Idle(d) /\ Kept(d, {}) /\ HashesKnown(d, {})
    BY DEF Sound
  <1>2. e = CheckSendNext(f)
    BY DEF Enqueued
  <1>3. "loading" \in Statuses /\ g = [d EXCEPT !.status[t] = "loading"]
    BY DEF Statuses
  <1> HIDE DEF g
  <1>4. Typed(g) /\ SameBut(d, g, "status") /\ SetAt(g.status, d.status, t, "loading")
    BY <1>1, <1>3, StatusIs
  <1>5. /\ q \in Seq(Tasks) /\ \E k \in DOMAIN q : q[k] = t
        /\ \A i \in DOMAIN g.queue : \E k \in DOMAIN q : q[k] = g.queue[i]
    <2>1. g.queue \in Seq(Tasks)
      BY <1>4 DEF Typed, Managers
    <2> QED
      BY <2>1, ConsIs
  <1>6. f = [g EXCEPT !.queue = q]
    OBVIOUS
  <1> HIDE DEF q, f
  <1>7. Typed(f) /\ SameBut(g, f, "queue") /\ f.queue = q
    BY <1>4, <1>5, <1>6, QueueIs
  <1>8. /\ SameRequests(d, f) /\ f.sent = d.sent /\ f.next = d.next
        /\ f.sessions = d.sessions /\ g.queue = d.queue /\ f.status[t] = "loading"
        /\ \A u \in Tasks : u # t => f.status[u] = d.status[u]
        /\ f.unchecked = d.unchecked /\ f.fed = d.fed /\ f.posted = d.posted
        /\ f.orphaned = d.orphaned
    BY <1>4, <1>7 DEF SameBut, SameRequests, SetAt, SameOthers
  <1>9. PartsArePlaced(f)
    BY <1>1, <1>8 DEF PartsArePlaced, HasPart, Placed
  <1>10. Idle(f)
    BY <1>1, <1>8 DEF Idle
  <1>11. Kept(f, {})
    <2> SUFFICES ASSUME NEW u \in Tasks, f.status[u] \in {"loading", "done"},
                        NEW o \in 0 .. f.next[u] - 1
                 PROVE  \/ o \in f.fed[u]
                        \/ \E r \in f.sent[u] : r.offset = o
                        \/ \E part \in f.unchecked[u] : part[1] = o
      BY DEF Kept
    <2>1. CASE u = t
      <3>1. f.next[u] = 0
        BY <1>1, <1>8, <2>1 DEF Idle
      <3> QED
        BY <3>1
    <2>2. CASE u # t
      BY <1>1, <1>8, <2>2 DEF Kept
    <2> QED
      BY <2>1, <2>2
  <1>12. HashesKnown(f, {})
    BY <1>1, <1>8 DEF HashesKnown
  <1>13. Sound(f, 0, {}, {})
    BY <1>7, <1>8, <1>9, <1>10, <1>11, <1>12, SoundEdited
  <1>14. InQueue(f)
    <2> SUFFICES ASSUME NEW u \in Tasks, f.status[u] = "loading"
                 PROVE  \E k \in DOMAIN q : q[k] = u
      BY <1>7 DEF InQueue
    <2>1. CASE u = t
      BY <1>5, <2>1
    <2>2. CASE u # t
      BY <1>5, <1>8, <2>2 DEF InQueue
    <2> QED
      BY <2>1, <2>2
  <1>15. Fine(f)
    BY <1>13, <1>14, FineIs
  <1> QED
    BY <1>2, <1>15, FineSends

LEMMA DestroyIs ==
  ASSUME NEW d, Sound(d, 0, {}, {}), InQueue(d), NEW t \in Tasks,
         d.status[t] \in {"done", "failed"},
         NEW e, e = [Removed(d, t) EXCEPT !.status[t] = "gone", !.posted[t] = FALSE]
  PROVE  Fine(e)
  <1> DEFINE c == Removed(d, t)
             g == [c EXCEPT !.status[t] = "gone"]
  <1>1. /\ 0 \in Nat /\ c = Removed(d, t) /\ Idle(d) /\ d.status[t] # "loading"
    BY DEF Sound
  <1> HIDE DEF c
  <1>2. /\ Sound(c, 0, {}, {}) /\ OthersQueued(d, c, t)
        /\ c.status = d.status /\ c.unchecked = d.unchecked
    BY <1>1, RemovedIs
  <1>3. Typed(c) /\ Placed(c) /\ Idle(c) /\ Kept(c, {}) /\ HashesKnown(c, {})
    BY <1>2 DEF Sound
  <1>4. c.sent[t] = {} /\ c.unchecked[t] = {}
    BY <1>1, <1>2, <1>3 DEF Idle
  <1>5. g = [c EXCEPT !.status[t] = "gone"] /\ "gone" \in Statuses
    BY DEF Statuses
  <1>6. e = [g EXCEPT !.posted[t] = FALSE] /\ FALSE \in BOOLEAN
    <2>1. c \in Managers
      BY <1>3 DEF Typed
    <2> QED
      BY <1>1, <2>1 DEF Managers
  <1> HIDE DEF g
  <1>7. Typed(g) /\ SameBut(c, g, "status") /\ SetAt(g.status, c.status, t, "gone")
    BY <1>3, <1>5, StatusIs
  <1>8. Typed(e) /\ SameButPosted(g, e) /\ SameOthers(e.posted, g.posted, t)
    BY <1>6, <1>7, PostedIs
  <1>9. /\ SameRequests(c, e) /\ e.sent = c.sent /\ e.next = c.next
        /\ e.sessions = c.sessions /\ e.queue = c.queue /\ e.unchecked = c.unchecked
        /\ e.fed = c.fed /\ e.orphaned = c.orphaned /\ e.status[t] = "gone"
        /\ \A u \in Tasks : u # t => e.posted[u] = c.posted[u] /\ e.status[u] = c.status[u]
    BY <1>7, <1>8 DEF SameBut, SameButPosted, SameRequests, SetAt, SameOthers
  <1>10. PartsArePlaced(e)
    BY <1>3, <1>9 DEF PartsArePlaced, HasPart, Placed
  <1>11. Idle(e)
    <2> SUFFICES ASSUME NEW u \in Tasks
                 PROVE  /\ e.status[u] # "loading" => e.sent[u] = {} /\ e.unchecked[u] = {}
                        /\ e.status[u] = "new" => e.next[u] = 0
                        /\ e.status[u] = "done" => e.next[u] = Parts
      BY DEF Idle
    <2>1. CASE u = t
      BY <1>4, <1>9, <2>1
    <2>2. CASE u # t
      BY <1>3, <1>9, <2>2 DEF Idle
    <2> QED
      BY <2>1, <2>2
  <1>12. Kept(e, {})
    <2>1. \A u \in Tasks : e.status[u] \in {"loading", "done"} => u # t
      BY <1>9
    <2> QED
      BY <1>3, <1>9, <2>1 DEF Kept
  <1>13. HashesKnown(e, {})
    BY <1>3, <1>4, <1>9 DEF HashesKnown
  <1>14. Sound(e, 0, {}, {})
    BY <1>2, <1>8, <1>9, <1>10, <1>11, <1>12, <1>13, SoundEdited
  <1>15. InQueue(e)
    <2> SUFFICES ASSUME NEW u \in Tasks, e.status[u] = "loading"
                 PROVE  \E k \in DOMAIN e.queue : e.queue[k] = u
      BY DEF InQueue
    <2>1. u # t /\ d.status[u] = "loading"
      BY <1>2, <1>9
    <2>2. PICK i \in DOMAIN d.queue : d.queue[i] = u
      BY <2>1 DEF InQueue
    <2> QED
      BY <1>2, <1>9, <2>1, <2>2 DEF OthersQueued
  <1> QED
    BY <1>14, <1>15, FineIs

LEMMA KilledIs ==
  ASSUME NEW d, Sound(d, 0, {}, {}), InQueue(d), d.kill,
         NEW e, e = [d EXCEPT
                       !.sessions = [i \in DOMAIN d.sessions |-> NewSession],
                       !.timeouts = 0, !.removeIndex = 0, !.removeTimes = 0,
                       !.removed = FALSE, !.total = 0, !.kill = FALSE]
  PROVE  Sound(e, 0, {}, {}) /\ InQueue(e)
  <1> DEFINE n == Len(d.sessions)
             ss == [i \in 1 .. n |-> NewSession]
  <1>1. /\ Typed(d) /\ Placed(d) /\ Counted(d, 0) /\ Idle(d) /\ Kept(d, {})
        /\ HashesKnown(d, {}) /\ d \in Managers
    BY DEF Sound, Typed
  <1>2. n \in Nat /\ n \in 1 .. MaxSessions /\ DOMAIN d.sessions = 1 .. n
    BY <1>1, SessionFacts
  <1>3. ss \in Seq(Sessions) /\ Len(ss) = n /\ \A i \in 1 .. n : ss[i].requested = 0
    <2>1. NewSession \in Sessions /\ NewSession.requested = 0
      BY NewSessionIs DEF NewSession
    <2> HIDE DEF n
    <2> QED
      BY <1>2, <2>1
  <1>4. /\ 0 \in 0 .. RemoveTimeouts - 1 /\ 0 \in 0 .. MaxSessions
        /\ 0 \in 0 .. MaxRemoves /\ 0 \in Nat
    BY ConstantsAre
  <1>5. e = [d EXCEPT !.sessions = ss, !.timeouts = 0, !.removeIndex = 0,
                      !.removeTimes = 0, !.removed = FALSE, !.total = 0,
                      !.kill = FALSE]
    BY <1>2
  <1> HIDE DEF ss
  <1>6. /\ e \in Managers /\ e.sessions = ss /\ e.total = 0 /\ ~e.kill
        /\ e.queue = d.queue /\ e.status = d.status /\ e.unchecked = d.unchecked
        /\ e.fed = d.fed /\ e.posted = d.posted /\ e.orphaned = d.orphaned
        /\ e.sent = d.sent /\ e.next = d.next
    BY ONLY <1>1, <1>3, <1>4, <1>5 DEF Managers
  <1>7. Typed(e) /\ Len(e.sessions) = n
    BY <1>2, <1>3, <1>6 DEF Typed
  <1>8. Placed(e) /\ Idle(e) /\ Kept(e, {}) /\ HashesKnown(e, {})
    BY <1>1, <1>6, <1>7 DEF Placed, Idle, Kept, HashesKnown
  <1>9. Counted(e, 0)
    <2>1. Asked(d) = {}
      <3>1. Cardinality(Asked(d)) = 0 /\ IsFiniteSet(Asked(d))
        BY <1>1, PlacesAre DEF Counted
      <3> QED
        BY <3>1, FS_EmptySet
    <2>2. \A i : InSession(d, i) = {}
      BY <2>1, PlacesAre
    <2>3. Asked(e) = Asked(d) /\ \A i : InSession(e, i) = InSession(d, i)
      BY <1>6 DEF Asked, InSession
    <2>4. Asked(e) = {} /\ \A i : InSession(e, i) = {}
      BY <2>1, <2>2, <2>3
    <2>5. Cardinality({}) = 0
      BY FS_EmptySet
    <2>6. /\ Len(e.sessions) = n
          /\ \A i \in 1 .. n :
               /\ e.sessions[i].requested = 0 /\ Cardinality(InSession(e, i)) = 0
          /\ e.total = 0 /\ Cardinality(Asked(e)) = 0
      BY <1>3, <1>6, <1>7, <2>4, <2>5
    <2> HIDE DEF n
    <2> QED
      BY <1>2, <2>6 DEF Counted
  <1>10. InQueue(e)
    BY <1>6 DEF InQueue
  <1> QED
    BY <1>7, <1>8, <1>9, <1>10 DEF Sound

-----------------------------------------------------------------------------
(* The inductive invariant.                                                *)

Inv ==
  /\ Sound(mgr, 0, {}, {}) /\ InQueue(mgr)
  /\ timeouts \in 0 .. MaxTimeouts /\ troubles \in 0 .. MaxTroubles

LEMMA Becoming ==
  ASSUME NEW m, Sound(m, 0, {}, {}), InQueue(m), NEW d, Fine(d),
         NEW e, e = IF d.clash THEN [m EXCEPT !.clash = TRUE] ELSE d
  PROVE  Sound(e, 0, {}, {}) /\ InQueue(e)
  <1>1. CASE d.clash
    <2>1. e = [m EXCEPT !.clash = TRUE] /\ TRUE \in BOOLEAN /\ Typed(m)
      BY <1>1 DEF Sound
    <2>2. Typed(e) /\ SameBut(m, e, "clash")
      BY <2>1, ClashIs
    <2> QED
      BY <2>2, ClashIsSound DEF SameBut, InQueue
  <1>2. CASE ~d.clash
    BY <1>2 DEF Fine
  <1> QED
    BY <1>1, <1>2

LEMMA InitIsSound ==
  ASSUME Init
  PROVE  Inv
  <1>1. /\ Parts \in Nat /\ MaxTroubles \in Nat /\ MaxTimeouts \in Nat
        /\ 1 \in 1 .. MaxSessions /\ 0 \in 0 .. RemoveTimeouts - 1
        /\ 0 \in 0 .. MaxSessions /\ 0 \in 0 .. MaxRemoves
        /\ 0 \in 0 .. Parts /\ 0 \in Tokens /\ 0 \in 0 .. MaxTimeouts
        /\ 0 \in 0 .. MaxTroubles /\ 0 \in Nat
    BY ConstantsAre DEF Tokens
  <1>2. <<NewSession>> \in Seq(Sessions) /\ Len(<<NewSession>>) = 1
        /\ <<NewSession>>[1] = NewSession /\ <<>> \in Seq(Tasks)
    BY NewSessionIs
  <1>3. "new" \in Statuses /\ NewSession.requested = 0
    BY DEF Statuses, NewSession
  <1>4. /\ mgr.sessions = <<NewSession>> /\ mgr.total = 0 /\ ~mgr.kill
        /\ mgr.status = [t \in Tasks |-> "new"] /\ mgr.next = [t \in Tasks |-> 0]
        /\ mgr.sent = [t \in Tasks |-> {}] /\ mgr.unchecked = [t \in Tasks |-> {}]
        /\ mgr \in Managers
    BY <1>1, <1>2, <1>3 DEF Init, Managers
  <1>5. Typed(mgr) /\ Len(mgr.sessions) = 1
    BY <1>1, <1>2, <1>4 DEF Typed
  <1>6. \A t \in Tasks : /\ mgr.status[t] = "new" /\ mgr.next[t] = 0
                         /\ mgr.sent[t] = {} /\ mgr.unchecked[t] = {}
    BY <1>4
  <1>7. /\ Placed(mgr) /\ Idle(mgr) /\ Kept(mgr, {}) /\ HashesKnown(mgr, {})
        /\ InQueue(mgr)
    BY <1>6 DEF Placed, Idle, Kept, HashesKnown, InQueue
  <1>8. Counted(mgr, 0)
    <2>1. Asked(mgr) = {} /\ InSession(mgr, 1) = {}
      BY <1>6 DEF Asked, InSession
    <2>2. \A i \in 1 .. Len(mgr.sessions) : i = 1 /\ mgr.sessions[i].requested = 0
      BY <1>2, <1>3, <1>4, <1>5
    <2>3. Cardinality({}) = 0
      BY FS_EmptySet
    <2> QED
      BY <1>4, <1>5, <2>1, <2>2, <2>3 DEF Counted
  <1>9. timeouts \in 0 .. MaxTimeouts /\ troubles \in 0 .. MaxTroubles
    BY <1>1 DEF Init
  <1> QED
    BY <1>5, <1>7, <1>8, <1>9 DEF Inv, Sound


-----------------------------------------------------------------------------
(* The steps.  What a handler makes of a sound manager is fine.            *)

LEMMA FedIsFine ==
  ASSUME NEW d, NEW M, Sound(d, 0, M, {}), NEW t \in Tasks, NEW request,
         M = {PlaceOf(t, request)}, Answered(d, t, request),
         NEW e, e = Feed(d, t, request.offset)
  PROVE  Fine(e)
  <1> DEFINE o == request.offset
             N == {}
  <1>1. o \in Offsets /\ InQueue(d) /\ d.status[t] = "loading" /\ 0 \in Nat
    BY DEF Answered
  <1>2. \A p \in M : p # <<t, o>> => p \in N
    BY DEF PlaceOf
  <1>3. e = Feed(d, t, o) /\ N = {}
    OBVIOUS
  <1> HIDE DEF o, N
  <1>4. Sound(e, 0, N, {}) /\ InQueue(e)
    BY <1>1, <1>2, <1>3, FeedIs
  <1>5. Sound(e, 0, {}, {}) /\ InQueue(e)
    BY <1>3, <1>4
  <1> QED
    BY <1>5, FineIs

LEMMA PartCameIs ==
  ASSUME NEW d, Sound(d, 0, {}, {}), InQueue(d), NEW t \in Tasks,
         NEW request \in d.sent[t], request.kind = "part",
         NEW slow, NEW wait, NEW good \in BOOLEAN,
         NEW done, done = Succeeded(Finish(d, t, request), request, slow, wait),
         NEW e, e = IF request.token = 0 THEN Feed(done, t, request.offset)
                    ELSE CheckedPart(done, t, request, good)
  PROVE  Fine(CheckSendNext(e))
  <1> DEFINE c == Finish(d, t, request)
             M == {PlaceOf(t, request)}
             H == {t}
  <1>1. /\ c = Finish(d, t, request) /\ M = {PlaceOf(t, request)} /\ H = {t}
        /\ done = Succeeded(c, request, slow, wait)
    OBVIOUS
  <1> HIDE DEF c, M, H
  <1>2. Answered(c, t, request) /\ Sound(c, 0, M, {})
    BY <1>1, FinishedIs
  <1>3. Sound(done, 0, M, {}) /\ Answered(done, t, request)
    BY <1>1, <1>2, WidenedIs
  <1>4. Fine(e)
    <2>1. CASE request.token = 0
      <3>1. e = Feed(done, t, request.offset)
        BY <2>1
      <3> QED
        BY <1>1, <1>3, <3>1, FedIsFine
    <2>2. CASE request.token # 0
      <3>1. e = CheckedPart(done, t, request, good)
        BY <2>2
      <3>2. /\ InQueue(done) /\ done.status[t] = "loading"
            /\ request.offset \in Offsets /\ request.offset < done.next[t]
            /\ request.session \in 1 .. Len(done.sessions)
        BY <1>3 DEF Answered
      <3> QED
        BY <1>1, <1>3, <3>1, <3>2, CheckedPartIs
    <2> QED
      BY <2>1, <2>2
  <1> QED
    BY <1>4, FineSends

LEMMA CdnChangedIs ==
  ASSUME NEW d, NEW t \in Tasks, NEW request, NEW M, M = {PlaceOf(t, request)},
         NEW H, H = {t}, Sound(d, 0, M, H), Answered(d, t, request),
         NEW token \in Tokens, NEW hashes \in SUBSET Offsets,
         NEW e, e = ChangeCdn(d, t, request, token, hashes)
  PROVE  Fine(e)
  <1>1. /\ InQueue(d) /\ d.status[t] = "loading"
        /\ request.offset \in Offsets /\ request.offset < d.next[t]
        /\ request.session \in 1 .. Len(d.sessions) /\ FreeAt(d, t, request.offset)
    BY DEF Answered
  <1> QED
    BY <1>1, ChangeCdnIs

LEMMA RedirectedIs ==
  ASSUME NEW d, Sound(d, 0, {}, {}), InQueue(d), NEW t \in Tasks,
         NEW request \in d.sent[t], request.kind = "part", NEW token \in Tokens,
         NEW hashes \in SUBSET Offsets, NEW slow, NEW wait, NEW valid \in BOOLEAN,
         NEW done, done = Succeeded(Finish(d, t, request), request, slow, wait),
         NEW e, e = IF valid THEN ChangeCdn(done, t, request, token, hashes)
                    ELSE Failed(done, t)
  PROVE  Fine(CheckSendNext(e))
  <1> DEFINE c == Finish(d, t, request)
             M == {PlaceOf(t, request)}
             H == {t}
             N == {}
  <1>1. /\ c = Finish(d, t, request) /\ M = {PlaceOf(t, request)} /\ H = {t}
        /\ done = Succeeded(c, request, slow, wait) /\ N = {}
    OBVIOUS
  <1> HIDE DEF c, M, H, N
  <1>2. Answered(c, t, request) /\ Sound(c, 0, M, {})
    BY <1>1, FinishedIs
  <1>3. Sound(done, 0, M, {}) /\ Answered(done, t, request)
    BY <1>1, <1>2, WidenedIs
  <1>4. Fine(e)
    <2>1. CASE valid
      <3>1. e = ChangeCdn(done, t, request, token, hashes)
        BY <2>1
      <3>2. Sound(done, 0, M, N) /\ M \subseteq M /\ N \subseteq H
        BY <1>1, <1>3
      <3>3. Sound(done, 0, M, H)
        BY <3>2, SoundMore
      <3> QED
        BY <1>1, <1>3, <3>1, <3>3, CdnChangedIs
    <2>2. CASE ~valid
      <3>1. e = Failed(done, t)
        BY <2>2
      <3>2. Sound(done, 0, M, N) /\ M \subseteq OfFile(t) /\ N \subseteq {t}
            /\ InQueue(done)
        BY <1>1, <1>3 DEF Answered, OfFile, PlaceOf
      <3> QED
        BY <3>1, <3>2, FailedIsFine
    <2> QED
      BY <2>1, <2>2
  <1> QED
    BY <1>4, FineSends

(* ReuploadNeeded and ReferenceRefreshed.                                  *)
LEMMA RepeatedIs ==
  ASSUME NEW d, Sound(d, 0, {}, {}), InQueue(d), NEW t \in Tasks,
         NEW request \in d.sent[t], request.kind = "part",
         NEW kind \in Kinds, kind # "hashes",
         NEW e, e = Place(Finish(d, t, request), t, kind,
                          request.offset, request.session)
  PROVE  Fine(e)
  <1> DEFINE c == Finish(d, t, request)
             M == {PlaceOf(t, request)}
             H == {t}
  <1>1. /\ c = Finish(d, t, request) /\ M = {PlaceOf(t, request)} /\ H = {t}
        /\ e = Place(c, t, kind, request.offset, request.session)
    OBVIOUS
  <1> HIDE DEF c, M, H
  <1>2. Answered(c, t, request) /\ Sound(c, 0, M, {})
    BY <1>1, FinishedIs
  <1> QED
    BY <1>1, <1>2, PlacedAnew

LEMMA ReuploadDoneIs ==
  ASSUME NEW d, Sound(d, 0, {}, {}), InQueue(d), NEW t \in Tasks,
         NEW request \in d.sent[t], request.kind = "reupload",
         NEW hashes \in SUBSET Offsets,
         NEW e, e = Place([Finish(d, t, request) EXCEPT !.hashes[t] = @ \cup hashes],
                          t, "part", request.offset, request.session)
  PROVE  Fine(e)
  <1> DEFINE c == Finish(d, t, request)
             f == [c EXCEPT !.hashes[t] = @ \cup hashes]
             kind == "part"
             M == {PlaceOf(t, request)}
             H == {t}
  <1>1. /\ c = Finish(d, t, request) /\ M = {PlaceOf(t, request)} /\ H = {t}
        /\ f = [c EXCEPT !.hashes[t] = @ \cup hashes] /\ kind \in Kinds
        /\ kind # "hashes" /\ e = Place(f, t, kind, request.offset, request.session)
    BY DEF Kinds
  <1> HIDE DEF c, M, H, f, kind
  <1>2. Answered(c, t, request) /\ Sound(c, 0, M, {})
    BY <1>1, FinishedIs
  <1>3. InQueue(c)
    BY <1>2 DEF Answered
  <1>4. Sound(f, 0, M, {}) /\ InQueue(f) /\ SameBut(c, f, "hashes")
    BY <1>1, <1>2, <1>3, HashesAreSound
  <1>5. Answered(f, t, request)
    BY <1>2, <1>4 DEF Answered, SameBut, SameRequests, FreeAt
  <1> QED
    BY <1>1, <1>4, <1>5, PlacedAnew

LEMMA TokenInvalidIs ==
  ASSUME NEW d, Sound(d, 0, {}, {}), InQueue(d), NEW t \in Tasks,
         NEW request \in d.sent[t],
         NEW e, e = ChangeCdn(Finish(d, t, request), t, request, 0, {})
  PROVE  Fine(e)
  <1> DEFINE c == Finish(d, t, request)
             M == {PlaceOf(t, request)}
             H == {t}
             token == 0
             hashes == {}
  <1>1. /\ c = Finish(d, t, request) /\ M = {PlaceOf(t, request)} /\ H = {t}
        /\ e = ChangeCdn(c, t, request, token, hashes)
        /\ token \in Tokens /\ hashes \in SUBSET Offsets
    BY ConstantsAre DEF Tokens
  <1> HIDE DEF c, M, H, token, hashes
  <1>2. Answered(c, t, request) /\ Sound(c, 0, M, H)
    BY <1>1, FinishedIs
  <1> QED
    BY <1>1, <1>2, CdnChangedIs

LEMMA HashesDoneIs ==
  ASSUME NEW d, Sound(d, 0, {}, {}), InQueue(d), NEW t \in Tasks,
         NEW request \in d.sent[t], request.kind = "hashes",
         NEW hashes \in SUBSET Offsets, NEW good \in BOOLEAN,
         NEW e, e = HashesCame(Finish(d, t, request), t, hashes, good)
  PROVE  Fine(e)
  <1> DEFINE c == Finish(d, t, request)
             M == {PlaceOf(t, request)}
             H == {t}
  <1>1. /\ c = Finish(d, t, request) /\ M = {PlaceOf(t, request)} /\ H = {t}
        /\ e = HashesCame(c, t, hashes, good)
    OBVIOUS
  <1> HIDE DEF c, M, H
  <1>2. /\ Answered(c, t, request) /\ Sound(c, 0, {}, H)
        /\ \A r \in c.sent[t] : r.kind # "hashes"
    BY <1>1, FinishedIs
  <1>3. InQueue(c) /\ c.status[t] = "loading"
    BY <1>2 DEF Answered
  <1> QED
    BY <1>1, <1>2, <1>3, HashesCameIs

(* RequestFailed and Cancel.                                               *)
LEMMA EndedIs ==
  ASSUME NEW d, Sound(d, 0, {}, {}), InQueue(d), NEW t \in Tasks,
         NEW e, e = Failed(d, t)
  PROVE  Fine(e)
  <1> DEFINE N == {}
  <1>1. N \subseteq OfFile(t) /\ N \subseteq {t} /\ Sound(d, 0, N, N)
    OBVIOUS
  <1> HIDE DEF N
  <1> QED
    BY <1>1, FailedIsFine

-----------------------------------------------------------------------------
(* Each step keeps the invariant.                                          *)

LEMMA FineStep ==
  ASSUME Inv, NEW d, Fine(d), Becomes(d),
         timeouts' \in 0 .. MaxTimeouts, troubles' \in 0 .. MaxTroubles
  PROVE  Inv'
  <1>1. Sound(mgr, 0, {}, {}) /\ InQueue(mgr)
    BY DEF Inv
  <1>2. mgr' = IF d.clash THEN [mgr EXCEPT !.clash = TRUE] ELSE d
    BY DEF Becomes
  <1>3. Sound(mgr', 0, {}, {}) /\ InQueue(mgr')
    BY <1>1, <1>2, Becoming
  <1> QED
    BY <1>3 DEF Inv

LEMMA TroubleIs ==
  ASSUME Inv, Trouble
  PROVE  troubles' \in 0 .. MaxTroubles /\ troubles' \in Tokens
  BY ConstantsAre DEF Inv, Trouble, Tokens

LEMMA AnswerStep ==
  ASSUME Inv, NEW t \in Tasks, NEW request \in mgr.sent[t], Answer(t, request)
  PROVE  Inv'
  <1>1. Sound(mgr, 0, {}, {}) /\ InQueue(mgr)
    BY DEF Inv
  <1>2. timeouts' \in 0 .. MaxTimeouts
    BY DEF Inv, Answer
  <1>3. NoTrouble => troubles' \in 0 .. MaxTroubles
    BY DEF Inv, NoTrouble
  <1>4. Trouble => troubles' \in 0 .. MaxTroubles /\ troubles' \in Tokens
    BY TroubleIs
  <1>5. CASE PartCame(t, request)
    <2>1. request.kind = "part" /\ NoTrouble
      BY <1>5 DEF PartCame
    <2>2. PICK slow, wait, good \in BOOLEAN :
            LET done == Succeeded(Finish(mgr, t, request), request, slow, wait)
            IN  Becomes(CheckSendNext(
                   IF request.token = 0 THEN Feed(done, t, request.offset)
                   ELSE CheckedPart(done, t, request, good)))
      BY <1>5 DEF PartCame
    <2> DEFINE done == Succeeded(Finish(mgr, t, request), request, slow, wait)
               e == IF request.token = 0 THEN Feed(done, t, request.offset)
                    ELSE CheckedPart(done, t, request, good)
    <2>3. Becomes(CheckSendNext(e))
      BY <2>2
    <2>4. Fine(CheckSendNext(e))
      BY <1>1, <2>1, PartCameIs
    <2> HIDE DEF e
    <2> QED
      BY <1>2, <1>3, <2>1, <2>3, <2>4, FineStep
  <1>6. CASE Redirected(t, request)
    <2>1. request.kind = "part" /\ Trouble
      BY <1>6 DEF Redirected
    <2>2. PICK hashes \in SUBSET Offsets : \E slow, wait, valid \in BOOLEAN :
            LET done == Succeeded(Finish(mgr, t, request), request, slow, wait)
            IN  Becomes(CheckSendNext(
                   IF valid THEN ChangeCdn(done, t, request, troubles', hashes)
                   ELSE Failed(done, t)))
      BY <1>6 DEF Redirected
    <2>3. PICK slow, wait, valid \in BOOLEAN :
            LET done == Succeeded(Finish(mgr, t, request), request, slow, wait)
            IN  Becomes(CheckSendNext(
                   IF valid THEN ChangeCdn(done, t, request, troubles', hashes)
                   ELSE Failed(done, t)))
      BY <2>2
    <2> DEFINE done == Succeeded(Finish(mgr, t, request), request, slow, wait)
               e == IF valid THEN ChangeCdn(done, t, request, troubles', hashes)
                    ELSE Failed(done, t)
    <2>4. Becomes(CheckSendNext(e))
      BY <2>3
    <2>5. Fine(CheckSendNext(e))
      BY <1>1, <1>4, <2>1, RedirectedIs
    <2> HIDE DEF e
    <2> QED
      BY <1>2, <1>4, <2>1, <2>4, <2>5, FineStep
  <1>7. CASE ReuploadNeeded(t, request)
    <2> DEFINE kind == "reupload"
               e == Place(Finish(mgr, t, request), t, kind,
                          request.offset, request.session)
    <2>1. request.kind = "part" /\ Trouble /\ Becomes(e)
      BY <1>7 DEF ReuploadNeeded
    <2>2. kind \in Kinds /\ kind # "hashes"
      BY DEF Kinds
    <2> HIDE DEF kind
    <2>3. Fine(e)
      BY <1>1, <2>1, <2>2, RepeatedIs
    <2> HIDE DEF e
    <2> QED
      BY <1>2, <1>4, <2>1, <2>3, FineStep
  <1>8. CASE ReuploadDone(t, request)
    <2>1. request.kind = "reupload" /\ NoTrouble
      BY <1>8 DEF ReuploadDone
    <2>2. PICK hashes \in SUBSET Offsets :
            Becomes(Place([Finish(mgr, t, request) EXCEPT
                             !.hashes[t] = @ \cup hashes],
                          t, "part", request.offset, request.session))
      BY <1>8 DEF ReuploadDone
    <2> DEFINE e == Place([Finish(mgr, t, request) EXCEPT
                             !.hashes[t] = @ \cup hashes],
                          t, "part", request.offset, request.session)
    <2>3. Becomes(e)
      BY <2>2
    <2>4. Fine(e)
      BY <1>1, <2>1, ReuploadDoneIs
    <2> HIDE DEF e
    <2> QED
      BY <1>2, <1>3, <2>1, <2>3, <2>4, FineStep
  <1>9. CASE TokenInvalid(t, request)
    <2> DEFINE e == ChangeCdn(Finish(mgr, t, request), t, request, 0, {})
    <2>1. Trouble /\ Becomes(e)
      BY <1>9 DEF TokenInvalid
    <2>2. Fine(e)
      BY <1>1, TokenInvalidIs
    <2> HIDE DEF e
    <2> QED
      BY <1>2, <1>4, <2>1, <2>2, FineStep
  <1>10. CASE HashesDone(t, request)
    <2>1. request.kind = "hashes" /\ NoTrouble
      BY <1>10 DEF HashesDone
    <2>2. PICK hashes \in SUBSET Offsets : \E good \in BOOLEAN :
            Becomes(HashesCame(Finish(mgr, t, request), t, hashes, good))
      BY <1>10 DEF HashesDone
    <2>3. PICK good \in BOOLEAN :
            Becomes(HashesCame(Finish(mgr, t, request), t, hashes, good))
      BY <2>2
    <2> DEFINE e == HashesCame(Finish(mgr, t, request), t, hashes, good)
    <2>4. Becomes(e)
      BY <2>3
    <2>5. Fine(e)
      BY <1>1, <2>1, HashesDoneIs
    <2> HIDE DEF e
    <2> QED
      BY <1>2, <1>3, <2>1, <2>4, <2>5, FineStep
  <1>11. CASE ReferenceRefreshed(t, request)
    <2> DEFINE kind == "part"
               e == Place(Finish(mgr, t, request), t, kind,
                          request.offset, request.session)
    <2>1. request.kind = "part" /\ Trouble /\ Becomes(e)
      BY <1>11 DEF ReferenceRefreshed
    <2>2. kind \in Kinds /\ kind # "hashes"
      BY DEF Kinds
    <2> HIDE DEF kind
    <2>3. Fine(e)
      BY <1>1, <2>1, <2>2, RepeatedIs
    <2> HIDE DEF e
    <2> QED
      BY <1>2, <1>4, <2>1, <2>3, FineStep
  <1>12. CASE RequestFailed(t, request)
    <2> DEFINE e == Failed(mgr, t)
    <2>1. NoTrouble /\ Becomes(e)
      BY <1>12 DEF RequestFailed
    <2>2. Fine(e)
      BY <1>1, EndedIs
    <2> HIDE DEF e
    <2> QED
      BY <1>2, <1>3, <2>1, <2>2, FineStep
  <1> QED
    BY <1>5, <1>6, <1>7, <1>8, <1>9, <1>10, <1>11, <1>12 DEF Answer

LEMMA FileStep ==
  ASSUME Inv, NEW t \in Tasks, PostedCall(t) \/ Start(t) \/ Cancel(t) \/ Destroy(t)
  PROVE  Inv'
  <1>1. Sound(mgr, 0, {}, {}) /\ InQueue(mgr)
    BY DEF Inv
  <1>2. timeouts' \in 0 .. MaxTimeouts /\ troubles' \in 0 .. MaxTroubles
    BY DEF Inv, PostedCall, Start, Cancel, Destroy
  <1>3. CASE PostedCall(t)
    <2> DEFINE e == AskForHashes([mgr EXCEPT !.posted[t] = FALSE], t)
    <2>1. Becomes(e)
      BY <1>3 DEF PostedCall
    <2>2. Fine(e)
      BY <1>1, PostedCallIs
    <2> HIDE DEF e
    <2> QED
      BY <1>2, <2>1, <2>2, FineStep
  <1>4. CASE Start(t)
    <2> DEFINE e == Enqueued([mgr EXCEPT !.status[t] = "loading"], t)
    <2>1. Becomes(e) /\ mgr.status[t] = "new"
      BY <1>4 DEF Start
    <2>2. Fine(e)
      BY <1>1, <2>1, StartIs
    <2> HIDE DEF e
    <2> QED
      BY <1>2, <2>1, <2>2, FineStep
  <1>5. CASE Cancel(t)
    <2> DEFINE e == Failed(mgr, t)
    <2>1. Becomes(e)
      BY <1>5 DEF Cancel
    <2>2. Fine(e)
      BY <1>1, EndedIs
    <2> HIDE DEF e
    <2> QED
      BY <1>2, <2>1, <2>2, FineStep
  <1>6. CASE Destroy(t)
    <2> DEFINE e == [Removed(mgr, t) EXCEPT !.status[t] = "gone", !.posted[t] = FALSE]
    <2>1. Becomes(e) /\ mgr.status[t] \in {"done", "failed"}
      BY <1>6 DEF Destroy
    <2>2. Fine(e)
      BY <1>1, <2>1, DestroyIs
    <2> HIDE DEF e
    <2> QED
      BY <1>2, <2>1, <2>2, FineStep
  <1> QED
    BY <1>3, <1>4, <1>5, <1>6

LEMMA SessionStep ==
  ASSUME Inv, NEW session \in 1 .. MaxSessions, SessionTimedOut(session)
  PROVE  Inv'
  <1> DEFINE e == TimedOut(mgr, session)
  <1>1. Sound(mgr, 0, {}, {}) /\ InQueue(mgr)
    BY DEF Inv
  <1>2. timeouts' \in 0 .. MaxTimeouts /\ troubles' \in 0 .. MaxTroubles
    BY ConstantsAre DEF Inv, SessionTimedOut
  <1>3. Becomes(e)
    BY DEF SessionTimedOut
  <1>4. Fine(e)
    <2>1. session \in Nat
      BY ConstantsAre
    <2> QED
      BY <1>1, <2>1, TimedOutIs DEF Fine
  <1> HIDE DEF e
  <1> QED
    BY <1>2, <1>3, <1>4, FineStep

LEMMA KillStep ==
  ASSUME Inv, KillSessions
  PROVE  Inv'
  <1>1. Sound(mgr, 0, {}, {}) /\ InQueue(mgr) /\ mgr.kill
    BY DEF Inv, KillSessions
  <1>2. mgr' = [mgr EXCEPT
                 !.sessions = [i \in DOMAIN mgr.sessions |-> NewSession],
                 !.timeouts = 0, !.removeIndex = 0, !.removeTimes = 0,
                 !.removed = FALSE, !.total = 0, !.kill = FALSE]
    BY DEF KillSessions
  <1>3. Sound(mgr', 0, {}, {}) /\ InQueue(mgr')
    BY <1>1, <1>2, KilledIs
  <1>4. timeouts' \in 0 .. MaxTimeouts /\ troubles' \in 0 .. MaxTroubles
    BY DEF Inv, KillSessions
  <1> QED
    BY <1>3, <1>4 DEF Inv

LEMMA StepIsSound ==
  ASSUME Inv, [Next]_vars
  PROVE  Inv'
  <1>1. CASE \E t \in Tasks : \E request \in mgr.sent[t] : Answer(t, request)
    BY <1>1, AnswerStep
  <1>2. CASE \E t \in Tasks : PostedCall(t) \/ Start(t) \/ Cancel(t) \/ Destroy(t)
    BY <1>2, FileStep
  <1>3. CASE \E session \in 1 .. MaxSessions : SessionTimedOut(session)
    BY <1>3, SessionStep
  <1>4. CASE KillSessions
    BY <1>4, KillStep
  <1>5. CASE UNCHANGED vars
    BY <1>5 DEF Inv, vars
  <1> QED
    BY <1>1, <1>2, <1>3, <1>4, <1>5 DEF Next

(* Whatever files are started, cancelled or redirected, and whatever       *)
(* answers and time-outs come, the manager is sound.                       *)
THEOREM ManagerIsSound == Spec => []Inv
  <1>1. Init => Inv
    BY InitIsSound
  <1>2. Inv /\ [Next]_vars => Inv'
    BY StepIsSound
  <1> QED
    BY <1>1, <1>2, PTL DEF Spec

-----------------------------------------------------------------------------
(* What it means.                                                          *)

(* The types of the manager's state, which include that there are between  *)
(* one and kMaxSessionsCount sessions, and that no amount of a session or  *)
(* of the datacenter falls below zero (changeRequestedAmount).             *)
THEOREM TypeCorrect == Spec => []TypeOK
  <1>1. Inv => TypeOK
    <2>1. Inv => mgr \in Managers /\ Len(mgr.sessions) \in 1 .. MaxSessions
      BY DEF Inv, Sound, Typed
    <2> QED
      BY <2>1 DEF Inv, TypeOK, Managers, Statuses
  <1> QED
    BY <1>1, ManagerIsSound, PTL

(* The amounts of the sessions are those of the requests under way, one    *)
(* for each place, in sessions that there are; the sessions are stopped    *)
(* only while nothing is requested (changeRequestedAmount, killSessions);  *)
(* and a session that is removed leaves nothing behind and gives all its   *)
(* requests to others (removeSession), as long as no more is requested     *)
(* than it is charged meanwhile.                                           *)
THEOREM BalanceIsKept == Spec => []Balanced
  <1>1. ASSUME Inv
        PROVE  Balanced
    <2>1. /\ Sound(mgr, 0, {}, {}) /\ InQueue(mgr) /\ Typed(mgr)
          /\ Placed(mgr) /\ Counted(mgr, 0)
      BY <1>1 DEF Inv, Sound
    <2>2. /\ DOMAIN mgr.sessions = 1 .. Len(mgr.sessions)
          /\ Len(mgr.sessions) \in Nat
      BY <2>1, SessionFacts
    <2>3. \A i \in DOMAIN mgr.sessions :
            mgr.sessions[i].requested = Cardinality(InSession(mgr, i))
      <3> SUFFICES ASSUME NEW i \in 1 .. Len(mgr.sessions)
                   PROVE  mgr.sessions[i].requested = Cardinality(InSession(mgr, i))
        BY <2>2
      <3>1. Cardinality(InSession(mgr, i)) \in Nat
        BY <2>1, PlacesAre, FS_CardinalityType
      <3>2. \/ mgr.sessions[i].requested = Cardinality(InSession(mgr, i)) + 0
            \/ mgr.sessions[i].requested = Cardinality(InSession(mgr, i))
        BY <2>1 DEF Counted
      <3> QED
        BY <3>1, <3>2
    <2>4. mgr.total = Cardinality(Asked(mgr)) /\ (mgr.kill => mgr.total = 0)
      BY <2>1 DEF Counted
    <2>5. ASSUME NEW t \in Tasks
          PROVE  /\ \A r, s \in mgr.sent[t] : r.offset = s.offset => r = s
                 /\ \A r \in mgr.sent[t] : r.session \in DOMAIN mgr.sessions
                 /\ \A part \in mgr.unchecked[t] : part[2] \in DOMAIN mgr.sessions
      BY <2>1, <2>2 DEF Placed
    <2>6. ASSUME Alive, Len(mgr.sessions) > 1, mgr.total <= Charge
          PROVE  ~RemoveSession(mgr).clash
      BY <2>1, <2>6, RemoveSessionIs DEF Alive
    <2> QED
      BY <2>3, <2>4, <2>5, <2>6 DEF Balanced
  <1> QED
    BY <1>1, ManagerIsSound, PTL

(* A part that a file has gone past was given, is asked for, or waits for  *)
(* hashes that are asked for or were forgotten by changeCDNParams, however *)
(* its requests are moved, repeated, redirected or cancelled; so a file    *)
(* that is done was given whole.                                           *)
THEOREM PartsAreKept == Spec => []NoPartIsLost
  <1>1. ASSUME Inv, NEW t \in Tasks, mgr.status[t] \in {"loading", "done"},
               NEW o \in 0 .. mgr.next[t] - 1
        PROVE  \/ o \in mgr.fed[t]
               \/ \E r \in mgr.sent[t] : r.offset = o
               \/ /\ \E part \in mgr.unchecked[t] : part[1] = o
                  /\ HashesAreAskedFor(t)
    <2>1. Kept(mgr, {}) /\ HashesKnown(mgr, {})
      BY <1>1 DEF Inv, Sound
    <2>2. \/ o \in mgr.fed[t]
          \/ \E r \in mgr.sent[t] : r.offset = o
          \/ \E part \in mgr.unchecked[t] : part[1] = o
      BY <1>1, <2>1 DEF Kept
    <2>3. mgr.unchecked[t] # {} => HashesAreAskedFor(t)
      BY <2>1 DEF HashesKnown, HashesAreAskedFor
    <2> QED
      BY <2>2, <2>3
  <1>2. ASSUME Inv, NEW t \in Tasks, mgr.status[t] = "done"
        PROVE  mgr.fed[t] = Offsets
    <2>1. /\ mgr.sent[t] = {} /\ mgr.unchecked[t] = {} /\ mgr.next[t] = Parts
          /\ mgr.fed[t] \subseteq Offsets
      BY <1>2 DEF Inv, Sound, Typed, Managers, Idle
    <2>2. \A o \in Offsets : o \in mgr.fed[t]
      BY <1>1, <1>2, <2>1, ConstantsAre DEF Offsets
    <2> QED
      BY <2>1, <2>2
  <1>3. Inv => NoPartIsLost
    BY <1>1, <1>2 DEF NoPartIsLost
  <1> QED
    BY <1>3, ManagerIsSound, PTL

=============================================================================
