----------------------- MODULE SessionRequests_proofs -----------------------
(***************************************************************************)
(* Proofs about SessionRequests, for every set of requests and every bound *)
(* on messages and failures: the types, that no request is forgotten, that *)
(* a session of the server executes a request once, and that an answered   *)
(* request is not on its way to be sent again.                             *)
(***************************************************************************)
EXTENDS SessionRequests, FiniteSetTheorems, TLAPS

-----------------------------------------------------------------------------
(* Sets of numbers.                                                        *)

(* A set of naturals that has an element has a smallest one.               *)
LEMMA SmallestExists ==
  ASSUME NEW S \in SUBSET Nat, S # {}
  PROVE  \E x \in S : \A y \in S : x <= y
  <1>1. PICK x \in S : \A y \in S : <<y, x>> \notin OpToRel(<, Nat)
    BY NatLessThanWellFounded, WFMin, Zenon
  <1>2. \A y \in S : ~(y < x)
    BY <1>1 DEF OpToRel
  <1> QED
    BY <1>2

(* Min finds it.                                                           *)
LEMMA MinIsSmallest ==
  ASSUME NEW S \in SUBSET Nat, S # {}
  PROVE  Min(S) \in S /\ \A y \in S : Min(S) <= y
  BY SmallestExists DEF Min

(* Sets of ids and their sizes.                                            *)
LEMMA IdsAreFinite ==
  ASSUME NEW S \in SUBSET Ids
  PROVE  /\ IsFiniteSet(S) /\ S \subseteq Nat
         /\ Cardinality(S) \in Nat /\ Cardinality(S) <= MaxMsgId
  <1>1. MaxMsgId \in Nat
    BY BoundsAssumption
  <1>2. IsFiniteSet(1 .. MaxMsgId) /\ Cardinality(1 .. MaxMsgId) = MaxMsgId
    <2>1. /\ IsFiniteSet(1 .. MaxMsgId)
          /\ Cardinality(1 .. MaxMsgId) =
                IF 1 > MaxMsgId THEN 0 ELSE MaxMsgId - 1 + 1
      BY <1>1, FS_Interval
    <2> QED
      BY <1>1, <2>1
  <1>3. S \in SUBSET (1 .. MaxMsgId)
    BY DEF Ids
  <1>4. IsFiniteSet(S) /\ Cardinality(S) <= Cardinality(1 .. MaxMsgId)
    BY <1>2, <1>3, FS_Subset
  <1> QED
    BY <1>2, <1>3, <1>4, FS_CardinalityType

(* Counting the requests up to each of them numbers them one by one.       *)
LEMMA CountingNumbers ==
  ASSUME NEW R \in SUBSET Nat, IsFiniteSet(R)
  PROVE  /\ Cardinality(R) \in Nat
         /\ \A r \in R :
              /\ Cardinality({q \in R : q <= r}) \in 1 .. Cardinality(R)
              /\ \A s \in R : r # s => Cardinality({q \in R : q <= r})
                                         # Cardinality({q \in R : q <= s})
  <1> DEFINE Upto(r) == {q \in R : q <= r}
  <1>1. Cardinality(R) \in Nat
    BY FS_CardinalityType
  <1>2. \A r \in R : /\ Upto(r) \in SUBSET R
                     /\ IsFiniteSet(Upto(r))
                     /\ Cardinality(Upto(r)) \in Nat
                     /\ Cardinality(Upto(r)) <= Cardinality(R)
                     /\ Cardinality(Upto(r)) # 0
    <2> SUFFICES ASSUME NEW r \in R
                 PROVE  /\ Upto(r) \in SUBSET R
                        /\ IsFiniteSet(Upto(r))
                        /\ Cardinality(Upto(r)) \in Nat
                        /\ Cardinality(Upto(r)) <= Cardinality(R)
                        /\ Cardinality(Upto(r)) # 0
      OBVIOUS
    <2>1. Upto(r) \in SUBSET R /\ r \in Upto(r)
      OBVIOUS
    <2> HIDE DEF Upto
    <2>2. IsFiniteSet(Upto(r)) /\ Cardinality(Upto(r)) <= Cardinality(R)
      BY <2>1, FS_Subset
    <2>3. Cardinality(Upto(r)) # 0
      BY <2>1, <2>2, FS_EmptySet
    <2> QED
      BY <2>1, <2>2, <2>3, FS_CardinalityType
  <1>3. \A r, s \in R : r < s => Cardinality(Upto(r)) # Cardinality(Upto(s))
    <2> SUFFICES ASSUME NEW r \in R, NEW s \in R, r < s,
                        Cardinality(Upto(s)) = Cardinality(Upto(r))
                 PROVE  FALSE
      OBVIOUS
    <2>0. \A q \in R : q \in Nat
      OBVIOUS
    <2>1. Upto(r) \in SUBSET Upto(s) /\ s \in Upto(s) /\ s \notin Upto(r)
      <3>1. \A q \in R : q <= r => q <= s
        BY <2>0
      <3>2. s <= s /\ ~(s <= r)
        BY <2>0
      <3> QED
        BY <3>1, <3>2
    <2>2. IsFiniteSet(Upto(s))
      BY <1>2
    <2> HIDE DEF Upto
    <2>3. Upto(s) = Upto(r)
      BY <2>1, <2>2, FS_Subset
    <2> QED
      BY <2>1, <2>3
  <1>4. \A r \in R : Cardinality(Upto(r)) \in 1 .. Cardinality(R)
    <2> HIDE DEF Upto
    <2> QED
      BY <1>1, <1>2
  <1>5. \A r, s \in R : r # s => Cardinality(Upto(r)) # Cardinality(Upto(s))
    <2> SUFFICES ASSUME NEW r \in R, NEW s \in R, r # s
                 PROVE  Cardinality(Upto(r)) # Cardinality(Upto(s))
      OBVIOUS
    <2>1. r < s \/ s < r
      OBVIOUS
    <2> HIDE DEF Upto
    <2> QED
      BY <1>3, <2>1
  <1> QED
    BY <1>1, <1>4, <1>5

-----------------------------------------------------------------------------
(* What is true of the ids in every state.                                 *)

BadMessage(m) == [type |-> "bad", id |-> m, why |-> "fatal"]

(* Ids that were given stay with their request, and nothing is remembered  *)
(* under an id that no request was given.                                  *)
IdsOfRequests ==
  /\ \A m \in Ids : owner[m] # None => m <= lastId /\ owner[m] \in asked
  /\ \A r \in Requests : msgId[r] # None => owner[msgId[r]] = r
  /\ \A m \in haveSent \cup resendingIds : owner[m] # None
  /\ \A u \in up : \A m \in u.messages : owner[m] # None
  /\ \A m \in Ids : BadMessage(m) \in down => owner[m] # None
  /\ \A i \in DOMAIN received : received[i].request \in asked

(* The request being cancelled expects its answer until it is forgotten,   *)
(* and the request taken by tryToSend is one that was made.                *)
RequestsInHand ==
  /\ cancelling.request = None => cancelling = Nobody
  /\ cancelling.request # None => cancelling.request \in callbacks \ delayed
  /\ cancelling.msgId # None => owner[cancelling.msgId] = cancelling.request
  /\ taken.request = None => taken = Nothing
  /\ taken.request # None => taken.request \in asked
  /\ IsFiniteSet(asked)

TypeInv == TypeOK /\ IdsOfRequests /\ RequestsInHand

-----------------------------------------------------------------------------
(* The two kinds of step that move messages.                               *)

(* Before the first message of a session all ids are given anew.           *)
Renewing == ~started \/ taken.renew

(* SendOne and SendContainer send these requests under these ids.          *)
Sends(requests, new) ==
  /\ requests \in SUBSET asked
  /\ new \in [requests -> Ids]
  /\ lastId' \in Ids /\ lastId <= lastId'
  /\ \A r \in requests :
       \/ new[r] = msgId[r]
       \/ /\ new[r] > lastId /\ new[r] <= lastId'
          /\ msgId[r] = None \/ Renewing
  /\ \A r, q \in requests : new[r] = new[q] => r = q
  /\ Numbered(requests, new)

(* All that SendOne and SendContainer do.                                  *)
SendingStep(requests, new) ==
  /\ Sends(requests, new)
  /\ \E u \in Upward : /\ up' = up \cup {u}
                       /\ \A m \in u.messages : \E r \in requests : new[r] = m
  /\ \/ /\ requests = {taken.request} /\ taken # Nothing
        /\ UNCHANGED <<toSend, started>>
     \/ /\ requests \subseteq toSend /\ taken = Nothing
        /\ toSend' = toSend \ requests /\ started' = TRUE
  /\ taken' = Nothing
  /\ stateData' \subseteq Ids /\ checkTimer' \in BOOLEAN
  /\ sentContainers' \in [Ids -> SUBSET Ids]
  /\ stateRequests' \in [Ids -> SUBSET Ids]
  /\ UNCHANGED <<mainVars, received, forced, connected, receivedIds, down,
                 serverVars>>

(* Handlers of what is received return lost messages to _toSend and end    *)
(* those that are in _haveSent or wait there to be sent again.             *)
Moves(lost, sent, resent) ==
  /\ lost \in SUBSET haveSent /\ sent \in SUBSET haveSent
  /\ resent \in SUBSET (resendingIds \ haveSent)
  /\ haveSent' = haveSent \ (lost \cup sent)
  /\ resendingIds' = (resendingIds \cup lost) \ resent
  /\ toSend' = (toSend \cup Owners(lost)) \ Owners(resent)

(* An id is the id of one request only, before and after sending.          *)
LEMMA SendsIds ==
  ASSUME TypeInv, NEW requests, NEW new, Sends(requests, new)
  PROVE  /\ \A r \in requests : /\ owner'[new[r]] = r /\ msgId'[r] = new[r]
                                 /\ new[r] <= lastId'
         /\ \A r \in Requests \ requests : msgId'[r] = msgId[r]
         /\ \A m \in Ids : owner[m] # None => owner'[m] = owner[m]
         /\ \A m \in Ids : \/ owner'[m] = owner[m]
                           \/ /\ owner[m] = None /\ m > lastId
                              /\ owner'[m] \in requests
                              /\ m = new[owner'[m]]
         /\ owner' \in [Ids -> Requests \cup {None}]
         /\ msgId' \in [Requests -> Ids \cup {None}]
  <1>1. /\ requests \subseteq Requests /\ asked \subseteq Requests
        /\ \A r \in requests : r # None
        /\ \A r \in requests : r \in Requests
        /\ lastId \in Nat
    BY RequestsAssumption DEF TypeInv, TypeOK, Sends, Ids, None
  <1>2. \A r \in requests : new[r] \in Ids
    BY DEF Sends
  <1>3. \A m \in Ids : \A r \in requests :
           new[r] = m => (CHOOSE q \in requests : new[q] = m) = r
    BY DEF Sends
  <1>4. \A r \in requests : owner'[new[r]] = r
    BY <1>2, <1>3 DEF Sends, Numbered
  <1>5. \A m \in Ids : (\A r \in requests : new[r] # m) => owner'[m] = owner[m]
    BY DEF Sends, Numbered
  <1>6. \A r \in requests :
           new[r] = msgId[r] \/ (owner[new[r]] = None /\ new[r] > lastId)
    <2> SUFFICES ASSUME NEW r \in requests, new[r] # msgId[r]
                 PROVE  owner[new[r]] = None /\ new[r] > lastId
      OBVIOUS
    <2>1. new[r] > lastId
      BY DEF Sends
    <2> QED
      BY <1>1, <1>2, <2>1 DEF TypeInv, IdsOfRequests, Ids
  <1>7. \A r \in requests : new[r] = msgId[r] => owner[new[r]] = r
    BY <1>1, <1>2 DEF TypeInv, IdsOfRequests, Ids, None
  <1>8. msgId' = [r \in Requests |-> IF r \in requests THEN new[r] ELSE msgId[r]]
    BY DEF Sends, Numbered
  <1>9. msgId' \in [Requests -> Ids \cup {None}]
    BY <1>2, <1>8 DEF TypeInv, TypeOK
  <1>10. owner' \in [Ids -> Requests \cup {None}]
    <2>1. \A m \in Ids : owner'[m] \in Requests \cup {None}
      BY <1>1, <1>4, <1>5 DEF TypeInv, TypeOK
    <2> QED
      BY <2>1 DEF Sends, Numbered
  <1>11. \A r \in requests : new[r] <= lastId'
    BY <1>1, <1>2, <1>7 DEF TypeInv, IdsOfRequests, Sends, Ids
  <1> QED
    BY <1>1, <1>4, <1>5, <1>6, <1>7, <1>8, <1>9, <1>10, <1>11

(* What is in _haveSent and among the resent after sending.                *)
LEMMA SendsMaps ==
  ASSUME TypeInv, NEW requests, NEW new, Sends(requests, new)
  PROVE  /\ haveSent' \subseteq Ids /\ resendingIds' \subseteq Ids
         /\ ackedIds' \subseteq Ids
         /\ \A m \in Ids : m \in haveSent' <=>
              \/ \E r \in requests : new[r] = m
              \/ m \in haveSent /\ \A r \in requests : msgId[r] # m
         /\ \A m \in Ids : m \in resendingIds' <=>
              m \in resendingIds /\ \A r \in requests : msgId[r] # m
  <1>1. \A r \in requests : new[r] \in Ids
    BY DEF Sends
  <1>2. haveSent \subseteq Ids /\ resendingIds \subseteq Ids /\ ackedIds \subseteq Ids
    BY DEF TypeInv, TypeOK
  <1> QED
    BY <1>1, <1>2 DEF Sends, Numbered, Renamed

(* SendOne is such a step.                                                 *)
LEMMA SendOneSends ==
  ASSUME TypeInv, SendOne
  PROVE  \E new : /\ Sends({taken.request}, new)
                  /\ up' = up \cup {[id |-> new[taken.request],
                                     messages |-> {new[taken.request]},
                                     query |-> None]}
                  /\ sentContainers' = [c \in Ids |->
                        Renamed(sentContainers[c], {taken.request}, new)]
  <1> DEFINE r == taken.request
             isNew == NeedsId(r, taken.renew)
             id == IF isNew THEN lastId + 1 ELSE msgId[r]
             new == [q \in {r} |-> id]
  <1>1. r \in asked /\ r \in Requests /\ lastId \in Nat
    BY DEF TypeInv, TypeOK, RequestsInHand, SendOne, PrivateIsFree, Ids, None
  <1>2. new[r] = id
    OBVIOUS
  <1>3. /\ id \in Ids
        /\ Numbered({r}, new)
        /\ lastId' = IF isNew THEN id ELSE lastId
        /\ up' = up \cup {[id |-> id, messages |-> {id}, query |-> None]}
        /\ sentContainers' = [c \in Ids |-> Renamed(sentContainers[c], {r}, new)]
    BY DEF SendOne
  <1>4. lastId' \in Ids /\ lastId <= lastId'
    <2>1. CASE isNew
      BY <1>1, <1>3, <2>1 DEF Ids
    <2>2. CASE ~isNew
      <3>1. id = msgId[r] /\ owner[id] = r /\ lastId' = lastId
        BY <1>1, <1>3, <2>2 DEF TypeInv, IdsOfRequests, Ids, None
      <3>2. id <= lastId /\ id >= 1
        BY <1>1, <1>3, <3>1, RequestsAssumption
           DEF TypeInv, IdsOfRequests, Ids, None
      <3> QED
        BY <1>1, <3>1, <3>2 DEF TypeInv, TypeOK, Ids, None
    <2> QED
      BY <2>1, <2>2
  <1>5. \/ new[r] = msgId[r]
        \/ /\ new[r] > lastId /\ new[r] <= lastId'
           /\ msgId[r] = None \/ Renewing
    BY <1>1, <1>2, <1>3 DEF NeedsId, Renewing
  <1>6. new \in [{r} -> Ids]
    BY <1>2, <1>3
  <1> HIDE DEF new, id, isNew
  <1>7. Sends({r}, new)
    BY <1>1, <1>3, <1>4, <1>5, <1>6 DEF Sends
  <1> QED
    BY <1>2, <1>3, <1>7

(* A container leaves with its messages and, perhaps, a state request; all *)
(* of them are numbered one after another, the container last.             *)
LEMMA SendContainerSends ==
  ASSUME TypeInv, NEW requests \in SUBSET toSend, SendContainer(requests)
  PROVE  \E new : \E container \in Ids : \E query \in Ids \cup {None} :
            /\ Sends(requests, new)
            /\ up' = up \cup {[id |-> container,
                               messages |-> {new[r] : r \in requests},
                               query |-> query]}
            /\ container > lastId
            /\ sentContainers' = [c \in Ids |->
                  IF c = container THEN {new[r] : r \in requests}
                  ELSE Renamed(sentContainers[c], requests, new)]
            /\ stateRequests' \in [Ids -> SUBSET Ids]
  <1> DEFINE R == {r \in requests : NeedsId(r, ~started)}
             Upto(r) == Cardinality({q \in R : q <= r})
             new == [r \in requests |->
                        IF r \in R THEN lastId + Upto(r) ELSE msgId[r]]
             query == lastId + Cardinality(R) + 1
             container == IF stateData = {} THEN query ELSE query + 1
             asks == IF stateData = {} THEN None ELSE query
  <1>1. /\ requests \in SUBSET asked /\ requests \subseteq Requests
        /\ \A r \in requests : r \in Nat /\ r # None
        /\ lastId \in Nat
    BY RequestsAssumption DEF TypeInv, TypeOK, Ids, None
  <1>2. R \in SUBSET Nat /\ IsFiniteSet(R)
    <2>1. R \in SUBSET asked /\ R \in SUBSET Nat
      BY <1>1
    <2>2. IsFiniteSet(asked)
      BY DEF TypeInv, RequestsInHand
    <2> HIDE DEF R
    <2>3. IsFiniteSet(R)
      BY <2>1, <2>2, FS_Subset
    <2> QED
      BY <2>1, <2>3
  <1>3. /\ container \in Ids
        /\ Numbered(requests, new)
        /\ lastId' = container
        /\ sentContainers' = [c \in Ids |->
              IF c = container THEN {new[r] : r \in requests}
              ELSE Renamed(sentContainers[c], requests, new)]
        /\ stateRequests' =
              IF stateData = {} THEN stateRequests
              ELSE [stateRequests EXCEPT ![query] = stateData]
        /\ up' = up \cup {[id |-> container,
                           messages |-> {new[r] : r \in requests},
                           query |-> asks]}
    BY DEF SendContainer
  <1>4. /\ Cardinality(R) \in Nat
        /\ \A r \in R : /\ Upto(r) \in 1 .. Cardinality(R)
                        /\ \A q \in R : r # q => Upto(r) # Upto(q)
    <2> HIDE DEF R
    <2> QED
      BY <1>2, CountingNumbers
  <1>5. /\ \A r \in requests : r \notin R => msgId[r] # None
        /\ \A r \in R : msgId[r] = None \/ Renewing
        /\ \A r \in requests : r \in R \/ r \notin R
    BY DEF NeedsId, Renewing
  <1>6. \A r \in R : r \in requests
    OBVIOUS
  <1> HIDE DEF R, Upto
  <1>7. /\ container > lastId /\ query \in Nat
        /\ query <= container /\ container \in Nat
        /\ query > lastId /\ query \in Ids
    BY <1>1, <1>3, <1>4, BoundsAssumption DEF Ids
  <1>8. \A r \in R : /\ new[r] = lastId + Upto(r)
                     /\ new[r] \in Ids /\ new[r] > lastId
                     /\ new[r] < query /\ new[r] < container
    <2> SUFFICES ASSUME NEW r \in R
                 PROVE  /\ new[r] = lastId + Upto(r)
                        /\ new[r] \in Ids /\ new[r] > lastId
                        /\ new[r] < query /\ new[r] < container
      OBVIOUS
    <2>1. new[r] = lastId + Upto(r)
      BY <1>6
    <2>2. Upto(r) \in 1 .. Cardinality(R)
      BY <1>4
    <2> HIDE DEF new
    <2>3. new[r] > lastId /\ new[r] < query /\ new[r] \in Nat
      BY <1>1, <1>4, <2>1, <2>2
    <2>4. new[r] < container /\ new[r] <= MaxMsgId
      BY <1>3, <1>4, <1>7, <2>3, BoundsAssumption DEF Ids
    <2> QED
      BY <1>1, <1>7, <2>1, <2>3, <2>4, BoundsAssumption DEF Ids
  <1>9. \A r \in requests : r \notin R =>
            /\ new[r] = msgId[r] /\ new[r] \in Ids
            /\ new[r] <= lastId /\ owner[new[r]] = r
    <2> SUFFICES ASSUME NEW r \in requests, r \notin R
                 PROVE  /\ new[r] = msgId[r] /\ new[r] \in Ids
                        /\ new[r] <= lastId /\ owner[new[r]] = r
      OBVIOUS
    <2>1. new[r] = msgId[r] /\ msgId[r] # None
      BY <1>5
    <2>2. msgId[r] \in Ids /\ owner[msgId[r]] = r
      BY <1>1, <2>1 DEF TypeInv, TypeOK, IdsOfRequests
    <2> QED
      BY <1>1, <2>1, <2>2 DEF TypeInv, IdsOfRequests
  <1>10. \A r, q \in requests : new[r] = new[q] => r = q
    <2> SUFFICES ASSUME NEW r \in requests, NEW q \in requests, new[r] = new[q]
                 PROVE  r = q
      OBVIOUS
    <2> HIDE DEF new
    <2>1. CASE r \in R /\ q \in R
      <3>1. Upto(r) \in Nat /\ Upto(q) \in Nat
        BY <1>4, <2>1
      <3>2. lastId + Upto(r) = lastId + Upto(q)
        BY <1>8, <2>1
      <3> QED
        BY <1>1, <1>4, <2>1, <3>1, <3>2
    <2>2. CASE r \notin R /\ q \notin R
      BY <1>9, <2>2
    <2>3. CASE r \in R /\ q \notin R
      <3>1. new[r] > lastId /\ new[q] <= lastId /\ new[q] \in Nat
        BY <1>8, <1>9, <2>3 DEF Ids
      <3> QED
        BY <1>1, <3>1
    <2>4. CASE r \notin R /\ q \in R
      <3>1. new[q] > lastId /\ new[r] <= lastId /\ new[r] \in Nat
        BY <1>8, <1>9, <2>4 DEF Ids
      <3> QED
        BY <1>1, <3>1
    <2> QED
      BY <2>1, <2>2, <2>3, <2>4
  <1>11. new \in [requests -> Ids]
    <2>1. \A r \in requests : new[r] \in Ids
      BY <1>8, <1>9
    <2> QED
      BY <2>1
  <1>12. asks \in Ids \cup {None}
    BY <1>7
  <1>13. stateRequests' \in [Ids -> SUBSET Ids]
    BY <1>3, <1>7 DEF TypeInv, TypeOK
  <1> HIDE DEF new, container, query
  <1>14. Sends(requests, new)
    <2>1. \A r \in requests :
            \/ new[r] = msgId[r]
            \/ /\ new[r] > lastId /\ new[r] <= lastId'
               /\ msgId[r] = None \/ Renewing
      <3> SUFFICES ASSUME NEW r \in requests, new[r] # msgId[r]
                   PROVE  /\ new[r] > lastId /\ new[r] <= lastId'
                          /\ msgId[r] = None \/ Renewing
        OBVIOUS
      <3>1. r \in R
        BY <1>9
      <3>2. new[r] < container /\ new[r] \in Nat /\ container \in Nat
        BY <1>7, <1>8, <3>1 DEF Ids
      <3> QED
        BY <1>3, <1>5, <1>8, <3>1, <3>2
    <2>2. lastId' \in Ids /\ lastId <= lastId'
      BY <1>1, <1>3, <1>7
    <2> QED
      BY <1>1, <1>3, <1>10, <1>11, <2>1, <2>2 DEF Sends
  <1> QED
    BY <1>3, <1>7, <1>12, <1>13, <1>14

(* Both are sending steps.                                                 *)
LEMMA SendOneStep ==
  ASSUME TypeInv, SendOne
  PROVE  \E new : SendingStep({taken.request}, new)
  <1> DEFINE r == taken.request
  <1>1. PICK new : /\ Sends({r}, new)
                   /\ up' = up \cup {[id |-> new[r], messages |-> {new[r]},
                                      query |-> None]}
                   /\ sentContainers' = [c \in Ids |->
                         Renamed(sentContainers[c], {r}, new)]
    BY SendOneSends
  <1> DEFINE u == [id |-> new[r], messages |-> {new[r]}, query |-> None]
  <1>2. new[r] \in Ids
    BY <1>1 DEF Sends
  <1>3. /\ u \in Upward /\ up' = up \cup {u}
        /\ \A m \in u.messages : \E q \in {r} : new[q] = m
    BY <1>1, <1>2 DEF Upward
  <1>4. sentContainers' \in [Ids -> SUBSET Ids]
    BY <1>1, <1>2 DEF Renamed, TypeInv, TypeOK
  <1>5. /\ toSend' = toSend /\ taken' = Nothing /\ taken # Nothing
        /\ UNCHANGED <<mainVars, received, forced, connected, receivedIds,
                       down, serverVars, started, stateData, checkTimer,
                       stateRequests>>
    BY DEF SendOne, PrivateIsFree, sessionVars
  <1>6. /\ stateData' \subseteq Ids
        /\ checkTimer' \in BOOLEAN /\ stateRequests' \in [Ids -> SUBSET Ids]
    BY <1>5 DEF TypeInv, TypeOK
  <1> HIDE DEF u, r
  <1>7. SendingStep({r}, new)
    BY <1>1, <1>3, <1>4, <1>5, <1>6 DEF SendingStep, r
  <1> QED
    BY <1>7 DEF r

LEMMA SendContainerStep ==
  ASSUME TypeInv, NEW requests \in SUBSET toSend, SendContainer(requests)
  PROVE  \E new : SendingStep(requests, new)
  <1>1. PICK new : \E container \in Ids : \E query \in Ids \cup {None} :
            /\ Sends(requests, new)
            /\ up' = up \cup {[id |-> container,
                               messages |-> {new[r] : r \in requests},
                               query |-> query]}
            /\ container > lastId
            /\ sentContainers' = [c \in Ids |->
                  IF c = container THEN {new[r] : r \in requests}
                  ELSE Renamed(sentContainers[c], requests, new)]
            /\ stateRequests' \in [Ids -> SUBSET Ids]
    BY SendContainerSends
  <1>2. PICK container \in Ids : \E query \in Ids \cup {None} :
            /\ up' = up \cup {[id |-> container,
                               messages |-> {new[r] : r \in requests},
                               query |-> query]}
            /\ sentContainers' = [c \in Ids |->
                  IF c = container THEN {new[r] : r \in requests}
                  ELSE Renamed(sentContainers[c], requests, new)]
    BY <1>1
  <1>3. PICK query \in Ids \cup {None} :
            up' = up \cup {[id |-> container,
                            messages |-> {new[r] : r \in requests},
                            query |-> query]}
    BY <1>2
  <1> DEFINE u == [id |-> container, messages |-> {new[r] : r \in requests},
                   query |-> query]
  <1>4. \A r \in requests : new[r] \in Ids
    BY <1>1 DEF Sends
  <1>5. /\ u \in Upward /\ up' = up \cup {u}
        /\ \A m \in u.messages : \E r \in requests : new[r] = m
    BY <1>3, <1>4 DEF Upward
  <1>6. sentContainers' \in [Ids -> SUBSET Ids]
    BY <1>2, <1>4 DEF Renamed, TypeInv, TypeOK
  <1>7. /\ toSend' = toSend \ requests /\ taken' = Nothing /\ taken = Nothing
        /\ started' = TRUE /\ stateData' = {} /\ checkTimer' = TRUE
        /\ UNCHANGED <<mainVars, received, forced, connected, receivedIds,
                       down, serverVars>>
    BY DEF SendContainer, CanSend, PrivateIsFree
  <1> HIDE DEF u
  <1>8. SendingStep(requests, new)
    BY <1>1, <1>5, <1>6, <1>7 DEF SendingStep
  <1> QED
    BY <1>8

(* The first message of a request that is sent again stands for all of its *)
(* messages when the request is taken out of _toSend.                      *)
LEMMA UnneededOwners ==
  ASSUME TypeInv, NEW resent \in SUBSET Ids, NEW waiting \in SUBSET Requests
  PROVE  /\ Unneeded(resent, waiting) \subseteq resent
         /\ LeftToSend(waiting, Unneeded(resent, waiting))
              = waiting \ Owners(resent)
  <1>1. Unneeded(resent, waiting) \subseteq resent
    BY DEF Unneeded
  <1>2. \A m \in resent : owner[m] \in waiting =>
           \E n \in Unneeded(resent, waiting) : owner[n] = owner[m]
    <2> SUFFICES ASSUME NEW m \in resent, owner[m] \in waiting
                 PROVE  \E n \in Unneeded(resent, waiting) : owner[n] = owner[m]
      OBVIOUS
    <2> DEFINE S == {n \in resent : owner[n] = owner[m]}
    <2>1. S \in SUBSET Nat /\ S # {}
      <3>1. \A n \in resent : n \in Nat
        BY DEF Ids
      <3> QED
        BY <3>1
    <2>2. PICK n \in S : \A k \in S : n <= k
      <3> HIDE DEF S
      <3> QED
        BY <2>1, SmallestExists
    <2>3. n \in Unneeded(resent, waiting)
      BY <2>2 DEF Unneeded
    <2> QED
      BY <2>2, <2>3
  <1>3. None \notin waiting
    BY RequestsAssumption DEF None
  <1> QED
    BY <1>1, <1>2, <1>3 DEF LeftToSend, Owners

(* Newest keeps some of the ids.                                           *)
LEMMA NewestKeeps ==
  ASSUME NEW ids PROVE Newest(ids) \subseteq ids
  BY DEF Newest

(* What requestsAcked does to the messages.                                *)
LEMMA RequestsAckedMoves ==
  ASSUME TypeInv, NEW ids \in SUBSET Ids, NEW byResponse \in BOOLEAN,
         RequestsAcked(ids, byResponse)
  PROVE  /\ \E sent, resent :
              /\ Moves({}, sent, resent)
              /\ \A m \in sent \cup resent :
                    (byResponse /\ m \in ids) \/ owner[m] \notin callbacks
              /\ byResponse => ids \cap haveSent \subseteq sent
              /\ byResponse => (ids \cap resendingIds) \ haveSent \subseteq resent
              /\ ackedIds' = Newest(ackedIds \cup sent
                                      \cup Unneeded(resent, toSend))
         /\ ackedIds' \subseteq Ids
         /\ sentContainers' \in [Ids -> SUBSET Ids]
         /\ stateRequests' \in [Ids -> SUBSET Ids]
  <1> DEFINE ended == Ended(ids, byResponse) \cup Ended(Inner(ids), FALSE)
             sent == ended \cap haveSent
             resent == (ended \cap resendingIds) \ sent
             unneeded == Unneeded(resent, toSend)
  <1>1. /\ haveSent' = haveSent \ sent
        /\ resendingIds' = resendingIds \ resent
        /\ toSend' = LeftToSend(toSend, unneeded)
        /\ ackedIds' = Newest(ackedIds \cup sent \cup unneeded)
        /\ sentContainers' = Without(sentContainers, ids)
        /\ stateRequests' = Without(stateRequests, ids)
    BY DEF RequestsAcked
  <1>2. /\ sent \in SUBSET haveSent
        /\ resent \in SUBSET (resendingIds \ haveSent)
    OBVIOUS
  <1>3. /\ \A m \in ended : (byResponse /\ m \in ids) \/ owner[m] \notin callbacks
        /\ byResponse => ids \subseteq ended
    BY DEF Ended
  <1>4. /\ resent \in SUBSET Ids /\ sent \in SUBSET Ids
        /\ toSend \in SUBSET Requests /\ ackedIds \in SUBSET Ids
    BY DEF TypeInv, TypeOK
  <1>5. unneeded \subseteq resent /\ toSend' = toSend \ Owners(resent)
    <2> HIDE DEF resent
    <2> QED
      BY <1>1, <1>4, UnneededOwners
  <1>6. /\ byResponse => ids \cap haveSent \subseteq sent
        /\ byResponse => (ids \cap resendingIds) \ haveSent \subseteq resent
    BY <1>3
  <1>7. /\ sentContainers' \in [Ids -> SUBSET Ids]
        /\ stateRequests' \in [Ids -> SUBSET Ids]
    BY <1>1 DEF Without, TypeInv, TypeOK
  <1>8. sent \subseteq ended /\ resent \subseteq ended
    OBVIOUS
  <1> HIDE DEF ended, sent, resent
  <1>9. Moves({}, sent, resent)
    BY <1>1, <1>2, <1>5 DEF Moves, Owners
  <1>10. ackedIds' \subseteq Ids
    BY <1>1, <1>4, <1>5, NewestKeeps
  <1>11. \A m \in sent \cup resent :
            (byResponse /\ m \in ids) \/ owner[m] \notin callbacks
    BY <1>3, <1>8
  <1> QED
    BY <1>1, <1>6, <1>7, <1>9, <1>10, <1>11

(* What resend does.                                                       *)
LEMMA ResendMoves ==
  ASSUME TypeInv, NEW ids, Resend(ids)
  PROVE  /\ \E lost : Moves(lost, {}, {}) /\ forced' = forced \cup Owners(lost)
         /\ sentContainers' \in [Ids -> SUBSET Ids]
         /\ UNCHANGED <<ackedIds, stateRequests>>
  <1> DEFINE found == (ids \cup Inner(ids)) \cap haveSent
  <1>1. /\ haveSent' = haveSent \ found
        /\ resendingIds' = resendingIds \cup found
        /\ toSend' = toSend \cup Owners(found)
        /\ forced' = forced \cup Owners(found)
        /\ sentContainers' = Without(sentContainers, ids)
        /\ UNCHANGED <<ackedIds, stateRequests>>
    BY DEF Resend
  <1>2. found \in SUBSET haveSent
    OBVIOUS
  <1>3. sentContainers' \in [Ids -> SUBSET Ids]
    BY <1>1 DEF Without, TypeInv, TypeOK
  <1> HIDE DEF found
  <1>4. Moves(found, {}, {})
    BY <1>1, <1>2 DEF Moves, Owners
  <1> QED
    BY <1>1, <1>3, <1>4

(* What setState(ConnectedState) and resendAll do.                         *)
LEMMA ConnectedMoves ==
  ASSUME TypeInv, Connected
  PROVE  Moves(haveSent, {}, {}) /\ forced' = forced \cup Owners(haveSent)
  BY DEF Connected, Moves, Owners

(* What handleMsgsStates does.                                             *)
LEMMA HandleInfoMoves ==
  ASSUME TypeInv, NEW d \in down, HandleInfo(d)
  PROVE  /\ \E lost, sent, resent :
              /\ Moves(lost, sent, resent)
              /\ forced' = forced \cup Owners(lost)
              /\ \A m \in sent \cup resent : owner[m] \notin callbacks
         /\ ackedIds' \subseteq Ids
         /\ stateRequests' \in [Ids -> SUBSET Ids]
         /\ UNCHANGED sentContainers
  <1>1. d.id \in Ids
    BY DEF HandleInfo, TypeInv, TypeOK, Downward
  <1>2. CASE stateRequests[d.id] = {}
    <2>1. UNCHANGED <<toSend, haveSent, forced, resendingIds, ackedIds,
                      stateRequests, sentContainers>>
      BY <1>2 DEF HandleInfo, idVars
    <2>2. Owners({}) = {}
      BY DEF Owners
    <2>3. Moves({}, {}, {}) /\ forced' = forced \cup Owners({})
      BY <2>1, <2>2 DEF Moves
    <2> QED
      BY <2>1, <2>3 DEF TypeInv, TypeOK
  <1>3. CASE stateRequests[d.id] # {}
    <2> DEFINE lost == (stateRequests[d.id] \ d.received) \cap haveSent
               acked == stateRequests[d.id] \cap d.received
                           \cap (haveSent \cup resendingIds)
               ended == Ended(acked, FALSE)
               resent == (ended \cap resendingIds) \ haveSent
               waiting == toSend \cup Owners(lost)
               unneeded == Unneeded(resent, waiting)
    <2>1. /\ haveSent' = haveSent \ (lost \cup ended)
          /\ resendingIds' = (resendingIds \cup lost) \ resent
          /\ toSend' = LeftToSend(waiting, unneeded)
          /\ forced' = forced \cup Owners(lost)
          /\ ackedIds' = Newest(ackedIds \cup unneeded \cup (ended \cap haveSent))
          /\ stateRequests' = Without(stateRequests, {d.id})
          /\ UNCHANGED sentContainers
      BY <1>3 DEF HandleInfo
    <2>2. /\ lost \in SUBSET haveSent
          /\ resent \in SUBSET (resendingIds \ haveSent)
          /\ resent \subseteq ended
      OBVIOUS
    <2>3. \A m \in ended : owner[m] \notin callbacks
      BY DEF Ended
    <2>4. /\ lost \in SUBSET Ids /\ resent \in SUBSET Ids
          /\ ackedIds \in SUBSET Ids /\ haveSent \in SUBSET Ids
          /\ toSend \in SUBSET Requests
      BY DEF TypeInv, TypeOK
    <2>5. stateRequests' \in [Ids -> SUBSET Ids]
      BY <2>1 DEF Without, TypeInv, TypeOK
    <2> HIDE DEF lost, ended, resent
    <2>6. waiting \in SUBSET Requests
      BY <2>4 DEF Owners, TypeInv, TypeOK
    <2>7. unneeded \subseteq resent /\ toSend' = waiting \ Owners(resent)
      <3> HIDE DEF waiting
      <3> QED
        BY <2>1, <2>4, <2>6, UnneededOwners
    <2>8. Moves(lost, ended \cap haveSent, resent)
      BY <2>1, <2>2, <2>7 DEF Moves
    <2>9. ackedIds' \subseteq Ids
      <3> HIDE DEF unneeded
      <3> QED
        BY <2>1, <2>4, <2>7, NewestKeeps
    <2>10. \A m \in (ended \cap haveSent) \cup resent : owner[m] \notin callbacks
      BY <2>2, <2>3
    <2> QED
      BY <2>1, <2>5, <2>8, <2>9, <2>10
  <1> QED
    BY <1>2, <1>3

-----------------------------------------------------------------------------
(* Types.                                                                  *)

LEMMA InitTypeInv == Init => TypeInv
  <1> SUFFICES ASSUME Init PROVE TypeInv
    OBVIOUS
  <1>1. TypeOK
    <2>1. received \in Seq([request : Requests, result : {"done", "again"}])
      BY DEF Init
    <2>2. /\ cancelling \in [request : Requests \cup {None},
                            msgId : Ids \cup {None},
                            next : {"toSend", "haveSent"}]
          /\ taken \in [request : Requests \cup {None}, renew : BOOLEAN]
      BY DEF Init, Nobody, Nothing
    <2> QED
      BY <2>1, <2>2 DEF Init, TypeOK
  <1>2. IdsOfRequests
    BY <1>1 DEF Init, IdsOfRequests, TypeOK, None
  <1>3. RequestsInHand
    BY FS_EmptySet DEF Init, RequestsInHand, Nobody, Nothing, None
  <1> QED
    BY <1>1, <1>2, <1>3 DEF TypeInv

(* The owners of messages that are kept are requests that were made.       *)
LEMMA OwnersWereAsked ==
  ASSUME TypeInv, NEW ids \in SUBSET Ids
  PROVE  Owners(ids) \subseteq asked /\ Owners(ids) \subseteq Requests
  BY DEF Owners, TypeInv, TypeOK, IdsOfRequests

(* The main thread.                                                        *)
LEMMA MainNextTypeInv ==
  ASSUME TypeInv, MainNext
  PROVE  TypeInv'
  <1> USE RequestsAssumption
          DEF mainVars, idVars, sessionVars, historyVars, serverVars, None
  <1>1. ASSUME NEW r \in Requests, SendRequest(r)
        PROVE  TypeInv'
    <2>1. TypeOK'
      BY <1>1 DEF TypeInv, TypeOK, SendRequest, SendPrepared
    <2>2. IdsOfRequests'
      BY <1>1 DEF TypeInv, TypeOK, IdsOfRequests, SendRequest, SendPrepared
    <2>3. RequestsInHand'
      <3>1. IsFiniteSet(asked')
        BY <1>1, FS_AddElement DEF TypeInv, RequestsInHand, SendRequest
      <3> QED
        BY <1>1, <3>1
           DEF TypeInv, TypeOK, RequestsInHand, SendRequest, MainIsFree, Nobody
    <2> QED
      BY <2>1, <2>2, <2>3 DEF TypeInv
  <1>2. ASSUME NEW r \in Requests, Cancel(r)
        PROVE  TypeInv'
    <2>1. TypeOK'
      BY <1>2 DEF TypeInv, TypeOK, Cancel
    <2>2. IdsOfRequests'
      BY <1>2 DEF TypeInv, IdsOfRequests, Cancel
    <2>3. RequestsInHand'
      BY <1>2 DEF TypeInv, IdsOfRequests, RequestsInHand, Cancel
    <2> QED
      BY <2>1, <2>2, <2>3 DEF TypeInv
  <1>3. ASSUME NEW r \in Requests, SendDelayed(r)
        PROVE  TypeInv'
    <2>1. TypeOK'
      BY <1>3 DEF TypeInv, TypeOK, SendDelayed, SendPrepared
    <2>2. IdsOfRequests'
      BY <1>3 DEF TypeInv, TypeOK, IdsOfRequests, SendDelayed, SendPrepared
    <2>3. RequestsInHand'
      BY <1>3 DEF TypeInv, RequestsInHand, SendDelayed
    <2> QED
      BY <2>1, <2>2, <2>3 DEF TypeInv
  <1>4. CASE CancelToSend
    <2>1. TypeOK'
      BY <1>4 DEF TypeInv, TypeOK, CancelToSend
    <2>2. IdsOfRequests'
      BY <1>4 DEF TypeInv, IdsOfRequests, CancelToSend
    <2>3. RequestsInHand'
      BY <1>4 DEF TypeInv, TypeOK, RequestsInHand, CancelToSend, MainIsFree
    <2> QED
      BY <2>1, <2>2, <2>3 DEF TypeInv
  <1>5. CASE CancelHaveSent
    <2>1. cancelling.request \in callbacks \ delayed
      BY <1>5 DEF TypeInv, RequestsInHand, CancelHaveSent, MainIsFree
    <2>2. TypeOK'
      BY <1>5, <2>1 DEF TypeInv, TypeOK, CancelHaveSent, Nobody
    <2>3. IdsOfRequests'
      BY <1>5 DEF TypeInv, IdsOfRequests, CancelHaveSent
    <2>4. RequestsInHand'
      BY <1>5 DEF TypeInv, RequestsInHand, CancelHaveSent, Nobody
    <2> QED
      BY <2>2, <2>3, <2>4 DEF TypeInv
  <1>6. CASE ProcessCallback
    <2> DEFINE Entry == [request : Requests, result : {"done", "again"}]
    <2>1. received \in Seq(Entry) /\ received # <<>>
      BY <1>6 DEF TypeInv, TypeOK, ProcessCallback
    <2>2. /\ received' = Tail(received) /\ received' \in Seq(Entry)
          /\ Len(received') = Len(received) - 1 /\ Len(received) \in Nat
          /\ \A i \in DOMAIN received' : received'[i] = received[i + 1]
      <3> HIDE DEF Entry
      <3> QED
        BY <1>6, <2>1 DEF ProcessCallback
    <2>3. TypeOK'
      BY <1>6, <2>2 DEF TypeInv, TypeOK, ProcessCallback
    <2>4. \A i \in DOMAIN received' : i + 1 \in DOMAIN received
      <3> HIDE DEF Entry
      <3> QED
        BY <2>1, <2>2
    <2>5. IdsOfRequests'
      BY <1>6, <2>2, <2>4 DEF TypeInv, IdsOfRequests, ProcessCallback
    <2>6. RequestsInHand'
      BY <1>6
         DEF TypeInv, RequestsInHand, ProcessCallback, MainIsFree, Nobody
    <2> QED
      BY <2>3, <2>5, <2>6 DEF TypeInv
  <1> QED
    BY <1>1, <1>2, <1>3, <1>4, <1>5, <1>6 DEF MainNext

(* A step that sends.                                                      *)
LEMMA SendsTypeInv ==
  ASSUME TypeInv, NEW requests, NEW new, SendingStep(requests, new)
  PROVE  TypeInv'
  <1> USE DEF mainVars, serverVars
  <1>0. /\ Sends(requests, new)
        /\ toSend' \subseteq toSend /\ taken' = Nothing
        /\ started' \in BOOLEAN
        /\ UNCHANGED <<mainVars, received, forced, connected, receivedIds, down,
                       serverVars>>
    BY DEF SendingStep, TypeInv, TypeOK
  <1>1. /\ \A r \in requests : new[r] \in Ids /\ r \in asked /\ r \in Requests
        /\ lastId' \in Ids /\ lastId <= lastId'
    BY <1>0 DEF Sends, TypeInv, TypeOK
  <1>2. PICK w \in Upward : /\ up' = up \cup {w}
                           /\ \A m \in w.messages : \E r \in requests : new[r] = m
    BY DEF SendingStep
  <1>3. TypeOK'
    BY <1>0, <1>1, <1>2, SendsIds, SendsMaps
       DEF SendingStep, TypeInv, TypeOK, Nothing
  <1>4. IdsOfRequests'
    <2>1. \A m \in Ids : owner'[m] # None => m <= lastId' /\ owner'[m] \in asked
      <3> SUFFICES ASSUME NEW m \in Ids, owner'[m] # None
                   PROVE  m <= lastId' /\ owner'[m] \in asked
        OBVIOUS
      <3>1. CASE owner'[m] = owner[m]
        BY <1>1, <3>1 DEF TypeInv, TypeOK, IdsOfRequests, Ids, None
      <3>2. CASE owner'[m] # owner[m]
        <4>1. owner'[m] \in requests /\ m = new[owner'[m]] /\ m > lastId
          BY <1>0, <3>2, SendsIds
        <4>2. m <= lastId'
          BY <1>0, <4>1, SendsIds
        <4> QED
          BY <1>1, <4>1, <4>2
      <3> QED
        BY <3>1, <3>2
    <2>2. \A r \in Requests : msgId'[r] # None => owner'[msgId'[r]] = r
      <3> SUFFICES ASSUME NEW r \in Requests, msgId'[r] # None
                   PROVE  owner'[msgId'[r]] = r
        OBVIOUS
      <3>1. CASE r \in requests
        BY <1>0, <3>1, SendsIds
      <3>2. CASE r \notin requests
        <4>1. msgId'[r] = msgId[r] /\ msgId[r] \in Ids /\ owner[msgId[r]] = r
          BY <1>0, <3>2, SendsIds DEF TypeInv, TypeOK, IdsOfRequests
        <4>2. r # None
          BY RequestsAssumption DEF None
        <4> QED
          BY <1>0, <4>1, <4>2, SendsIds
      <3> QED
        BY <3>1, <3>2
    <2>3. \A r \in requests : owner'[new[r]] # None
      BY <1>0, <1>1, RequestsAssumption, SendsIds DEF None
    <2>4. \A m \in haveSent' \cup resendingIds' : owner'[m] # None
      <3> SUFFICES ASSUME NEW m \in haveSent' \cup resendingIds'
                   PROVE  owner'[m] # None
        OBVIOUS
      <3>1. m \in Ids
        BY <1>0, SendsMaps
      <3>2. \/ \E r \in requests : new[r] = m
            \/ m \in haveSent \cup resendingIds
        BY <1>0, <3>1, SendsMaps
      <3>3. m \in haveSent \cup resendingIds => owner'[m] # None
        BY <1>0, <3>1, SendsIds DEF TypeInv, IdsOfRequests
      <3> QED
        BY <2>3, <3>2, <3>3
    <2>5. \A u \in up' : \A m \in u.messages : owner'[m] # None
      BY <1>0, <1>2, <2>3, SendsIds DEF TypeInv, TypeOK, IdsOfRequests, Upward
    <2>6. \A m \in Ids : BadMessage(m) \in down' => owner'[m] # None
      BY <1>0, SendsIds DEF TypeInv, IdsOfRequests
    <2>7. \A i \in DOMAIN received' : received'[i].request \in asked'
      BY <1>0 DEF TypeInv, IdsOfRequests
    <2> QED
      BY <1>0, <2>1, <2>2, <2>4, <2>5, <2>6, <2>7
         DEF IdsOfRequests, BadMessage
  <1>5. RequestsInHand'
    <2>1. cancelling.msgId # None => owner'[cancelling.msgId] = cancelling.request
      <3>1. cancelling.msgId \in Ids \cup {None}
        BY DEF TypeInv, TypeOK
      <3>2. cancelling.msgId # None => cancelling.request # None
        BY DEF TypeInv, RequestsInHand, Nobody
      <3> QED
        BY <1>0, <3>1, <3>2, SendsIds DEF TypeInv, RequestsInHand
    <2> QED
      BY <1>0, <2>1 DEF TypeInv, RequestsInHand, Nothing, None
  <1> QED
    BY <1>3, <1>4, <1>5 DEF TypeInv

(* A step that moves messages between the maps.                            *)
LEMMA MovesTypeInv ==
  ASSUME TypeInv, NEW lost, NEW sent, NEW resent, Moves(lost, sent, resent),
         forced' = forced \cup Owners(lost),
         connected' \in BOOLEAN, receivedIds' \subseteq Ids \X Nat,
         ackedIds' \subseteq Ids,
         sentContainers' \in [Ids -> SUBSET Ids],
         stateRequests' \in [Ids -> SUBSET Ids],
         down' \subseteq down,
         UNCHANGED <<mainVars, msgId, taken, checkTimer, historyVars, started,
                     stateData, up, serverVars>>,
         received' \in Seq([request : Requests, result : {"done", "again"}]),
         \A i \in DOMAIN received' : received'[i].request \in asked
  PROVE  TypeInv'
  <1> USE DEF mainVars, historyVars, serverVars
  <1>1. lost \subseteq Ids /\ Owners(lost) \subseteq asked
          /\ Owners(lost) \subseteq Requests
    <2>1. lost \in SUBSET Ids
      BY DEF Moves, TypeInv, TypeOK
    <2> QED
      BY <2>1, OwnersWereAsked
  <1>2. /\ haveSent' \subseteq haveSent /\ toSend' \subseteq asked
        /\ resendingIds' \subseteq resendingIds \cup haveSent
    BY <1>1 DEF Moves, TypeInv, TypeOK
  <1>4. TypeOK'
    BY <1>1, <1>2 DEF TypeInv, TypeOK
  <1>5. IdsOfRequests'
    BY <1>2 DEF TypeInv, TypeOK, IdsOfRequests, BadMessage
  <1>6. RequestsInHand'
    BY DEF TypeInv, RequestsInHand
  <1> QED
    BY <1>4, <1>5, <1>6 DEF TypeInv

(* Sending, the timers and the connection.                                 *)
LEMMA SendingTypeInv ==
  ASSUME TypeInv,
         \/ \E r \in toSend : TakeOne(r)
         \/ SendOne \/ SendState
         \/ \E requests \in SUBSET toSend : SendContainer(requests)
  PROVE  TypeInv'
  <1> USE DEF idVars, sessionVars
  <1>1. ASSUME NEW r \in toSend, TakeOne(r)
        PROVE  TypeInv'
    <2>1. r \in asked /\ r \in Requests
      BY DEF TypeInv, TypeOK
    <2>2. TypeOK'
      BY <1>1, <2>1 DEF TypeInv, TypeOK, TakeOne, mainVars, historyVars, serverVars
    <2>3. IdsOfRequests'
      BY <1>1 DEF TypeInv, IdsOfRequests, TakeOne, mainVars, historyVars
    <2>4. RequestsInHand'
      BY <1>1, <2>1, RequestsAssumption
         DEF TypeInv, RequestsInHand, TakeOne, mainVars, historyVars, None
    <2> QED
      BY <2>2, <2>3, <2>4 DEF TypeInv
  <1>2. CASE SendOne
    BY <1>2, SendOneStep, SendsTypeInv
  <1>3. CASE SendState
    <2>1. TypeOK'
      <3>1. CASE stateData = {}
        BY <1>3, <3>1
           DEF TypeInv, TypeOK, SendState, mainVars, historyVars, serverVars
      <3>2. CASE stateData # {}
        BY <1>3, <3>2 DEF TypeInv, TypeOK, SendState, Upward, mainVars, serverVars
      <3> QED
        BY <3>1, <3>2
    <2>2. lastId <= lastId' /\ lastId \in Nat /\ lastId' \in Nat
      BY <1>3, <2>1 DEF TypeInv, TypeOK, SendState, Ids, None
    <2>3. \A u \in up' : u \in up \/ u.messages = {}
      BY <1>3 DEF SendState
    <2>4. IdsOfRequests'
      <3>1. \A m \in Ids : owner[m] # None => m <= lastId'
        BY <2>2 DEF TypeInv, IdsOfRequests, Ids
      <3> QED
        BY <1>3, <2>3, <3>1
           DEF TypeInv, IdsOfRequests, BadMessage, SendState, mainVars
    <2>5. RequestsInHand'
      BY <1>3 DEF TypeInv, RequestsInHand, SendState, mainVars
    <2> QED
      BY <2>1, <2>4, <2>5 DEF TypeInv
  <1>4. ASSUME NEW requests \in SUBSET toSend, SendContainer(requests)
        PROVE  TypeInv'
    BY <1>4, SendContainerStep, SendsTypeInv
  <1> QED
    BY <1>1, <1>2, <1>3, <1>4

LEMMA TimersTypeInv ==
  ASSUME TypeInv,
         \/ \E old \in SUBSET haveSent : CheckSentRequests(old)
         \/ \E c \in Ids : ClearOldContainer(c)
         \/ Connected \/ Disconnect
  PROVE  TypeInv'
  <1> USE DEF idVars, sessionVars
  <1>0. /\ \A i \in DOMAIN received : received[i].request \in asked
        /\ received \in Seq([request : Requests, result : {"done", "again"}])
        /\ receivedIds \subseteq Ids \X Nat /\ connected \in BOOLEAN
        /\ ackedIds \subseteq Ids
        /\ sentContainers \in [Ids -> SUBSET Ids]
        /\ stateRequests \in [Ids -> SUBSET Ids]
    BY DEF TypeInv, TypeOK, IdsOfRequests
  <1>1. ASSUME NEW old \in SUBSET haveSent, CheckSentRequests(old)
        PROVE  TypeInv'
    <2>1. TypeOK'
      BY <1>1 DEF TypeInv, TypeOK, CheckSentRequests, mainVars, historyVars,
                  serverVars
    <2>2. IdsOfRequests'
      BY <1>1 DEF TypeInv, IdsOfRequests, BadMessage, CheckSentRequests,
                  mainVars, historyVars
    <2>3. RequestsInHand'
      BY <1>1 DEF TypeInv, RequestsInHand, CheckSentRequests, mainVars,
                  historyVars
    <2> QED
      BY <2>1, <2>2, <2>3 DEF TypeInv
  <1>2. ASSUME NEW c \in Ids, ClearOldContainer(c)
        PROVE  TypeInv'
    <2>1. /\ UNCHANGED <<mainVars, msgId, taken, checkTimer, historyVars,
                         started, stateData, up, serverVars, received,
                         receivedIds, connected, down>>
          /\ Resend({c})
      BY <1>2 DEF ClearOldContainer
    <2>2. /\ \E lost : Moves(lost, {}, {}) /\ forced' = forced \cup Owners(lost)
          /\ sentContainers' \in [Ids -> SUBSET Ids]
          /\ UNCHANGED <<ackedIds, stateRequests>>
      BY <2>1, ResendMoves
    <2> QED
      BY <1>0, <2>1, <2>2, MovesTypeInv
  <1>3. CASE Connected
    <2>1. /\ UNCHANGED <<mainVars, msgId, taken, checkTimer, historyVars,
                         started, stateData, up, serverVars, received,
                         receivedIds, ackedIds, sentContainers, stateRequests,
                         down>>
          /\ connected' \in BOOLEAN
      BY <1>3 DEF Connected
    <2> QED
      BY <1>0, <1>3, <2>1, ConnectedMoves, MovesTypeInv
  <1>4. CASE Disconnect
    <2>1. TypeOK'
      <3>1. up' = {} /\ down' = {} /\ connected' = FALSE /\ troubles' = troubles + 1
        BY <1>4 DEF Disconnect, Trouble
      <3>2. UNCHANGED <<mainVars, toSend, haveSent, received, msgId, forced,
                        sessionVars, taken, idVars, checkTimer, historyVars,
                        known, epoch, fresh>>
        BY <1>4 DEF Disconnect
      <3>3. troubles' \in Nat
        BY <3>1 DEF TypeInv, TypeOK
      <3> QED
        BY <3>1, <3>2, <3>3 DEF TypeInv, TypeOK, mainVars, historyVars
    <2>2. IdsOfRequests'
      BY <1>4 DEF TypeInv, IdsOfRequests, Disconnect, mainVars, historyVars
    <2>3. RequestsInHand'
      BY <1>4 DEF TypeInv, RequestsInHand, Disconnect, mainVars, historyVars
    <2> QED
      BY <2>1, <2>2, <2>3 DEF TypeInv
  <1> QED
    BY <1>1, <1>2, <1>3, <1>4

(* What is received: all handlers but the restart of a session move        *)
(* messages, and the entries they add for the main thread are of requests  *)
(* that were made.                                                         *)
LEMMA AnsweredTypes ==
  ASSUME TypeInv, NEW m \in Ids, NEW result \in {"done", "again"}
  PROVE  LET entry == [request |-> owner[m], result |-> result]
         IN  owner[m] # None =>
               /\ Append(received, entry)
                    \in Seq([request : Requests, result : {"done", "again"}])
               /\ \A i \in DOMAIN Append(received, entry) :
                     Append(received, entry)[i].request \in asked
  <1> DEFINE entry == [request |-> owner[m], result |-> result]
             Entry == [request : Requests, result : {"done", "again"}]
             longer == Append(received, entry)
  <1> SUFFICES ASSUME owner[m] # None
               PROVE  /\ longer \in Seq(Entry)
                      /\ \A i \in DOMAIN longer : longer[i].request \in asked
    OBVIOUS
  <1>1. entry \in Entry /\ entry.request \in asked
    BY DEF TypeInv, TypeOK, IdsOfRequests
  <1>2. /\ received \in Seq(Entry)
        /\ \A i \in DOMAIN received : received[i].request \in asked
    BY DEF TypeInv, TypeOK, IdsOfRequests
  <1> HIDE DEF entry, Entry
  <1>3. longer \in Seq(Entry)
    BY <1>1, <1>2
  <1>4. \A i \in DOMAIN longer : longer[i] = entry \/
           (i \in DOMAIN received /\ longer[i] = received[i])
    BY <1>1, <1>2
  <1> QED
    BY <1>1, <1>2, <1>3, <1>4

(* The handlers.                                                           *)
LEMMA HandlersTypeInv ==
  ASSUME TypeInv, NEW d \in down,
         \/ HandleResult(d) \/ HandleAck(d) \/ HandleBad(d)
         \/ HandleInfo(d) \/ HandleNewSession(d)
  PROVE  TypeInv'
  <1>0. /\ \A i \in DOMAIN received : received[i].request \in asked
        /\ received \in Seq([request : Requests, result : {"done", "again"}])
        /\ receivedIds \subseteq Ids \X Nat /\ connected \in BOOLEAN
        /\ ackedIds \subseteq Ids
        /\ sentContainers \in [Ids -> SUBSET Ids]
        /\ stateRequests \in [Ids -> SUBSET Ids]
        /\ d \in Downward
    BY DEF TypeInv, TypeOK, IdsOfRequests
  <1>1. CASE HandleResult(d)
    <2>1. /\ d.id \in Ids /\ d.epoch \in Nat /\ d.result \in {"done", "again"}
      BY <1>0, <1>1 DEF HandleResult, Downward
    <2>2. /\ UNCHANGED <<mainVars, msgId, taken, checkTimer, historyVars,
                         started, stateData, up, serverVars, connected, forced>>
          /\ receivedIds' = receivedIds \cup {<<d.id, d.epoch>>}
          /\ down' \subseteq down
      BY <1>1 DEF HandleResult, Receive, KeepsNumbers, KeepsSession, serverVars
    <2>3. receivedIds' \subseteq Ids \X Nat
      BY <1>0, <2>1, <2>2
    <2>4. forced' = forced \cup Owners({})
      BY <2>2 DEF Owners
    <2>5. CASE <<d.id, d.epoch>> \in receivedIds
      <3>1. UNCHANGED <<toSend, haveSent, received, ackedIds, sentContainers,
                        stateRequests, resendingIds>>
        BY <1>1, <2>5 DEF HandleResult, idVars
      <3>2. Moves({}, {}, {})
        BY <3>1 DEF Moves, Owners
      <3> QED
        BY <1>0, <2>2, <2>3, <2>4, <3>1, <3>2, MovesTypeInv
    <2>6. CASE <<d.id, d.epoch>> \notin receivedIds
      <3>1. RequestsAcked({d.id}, TRUE) /\ Answered(d.id, d.result)
        BY <1>1, <2>6 DEF HandleResult
      <3>2. /\ \E sent, resent : Moves({}, sent, resent)
            /\ ackedIds' \subseteq Ids
            /\ sentContainers' \in [Ids -> SUBSET Ids]
            /\ stateRequests' \in [Ids -> SUBSET Ids]
        BY <2>1, <3>1, RequestsAckedMoves
      <3>3. /\ received' \in Seq([request : Requests, result : {"done", "again"}])
            /\ \A i \in DOMAIN received' : received'[i].request \in asked
        BY <1>0, <2>1, <3>1, AnsweredTypes DEF Answered
      <3> QED
        BY <2>2, <2>3, <2>4, <3>2, <3>3, <1>0, MovesTypeInv
    <2> QED
      BY <2>5, <2>6
  <1>2. CASE HandleAck(d)
    <2>1. d.id \in Ids
      BY <1>0, <1>2 DEF HandleAck, Downward
    <2>2. /\ UNCHANGED <<mainVars, msgId, taken, checkTimer, historyVars,
                         started, stateData, up, serverVars, connected, forced,
                         received, receivedIds>>
          /\ down' \subseteq down
          /\ RequestsAcked({d.id}, FALSE)
      BY <1>2 DEF HandleAck, Receive, KeepsNumbers, KeepsSession, serverVars
    <2>3. forced' = forced \cup Owners({})
      BY <2>2 DEF Owners
    <2>4. /\ \E sent, resent : Moves({}, sent, resent)
          /\ ackedIds' \subseteq Ids
          /\ sentContainers' \in [Ids -> SUBSET Ids]
          /\ stateRequests' \in [Ids -> SUBSET Ids]
      BY <2>1, <2>2, RequestsAckedMoves
    <2> QED
      BY <1>0, <2>2, <2>3, <2>4, MovesTypeInv
  <1>3. CASE HandleInfo(d)
    <2>1. /\ UNCHANGED <<mainVars, msgId, taken, checkTimer, historyVars,
                         started, stateData, up, serverVars, connected,
                         received, receivedIds>>
          /\ down' \subseteq down
      BY <1>3 DEF HandleInfo, Receive, KeepsNumbers, KeepsSession, serverVars
    <2>2. /\ \E lost, sent, resent : /\ Moves(lost, sent, resent)
                                     /\ forced' = forced \cup Owners(lost)
          /\ ackedIds' \subseteq Ids
          /\ stateRequests' \in [Ids -> SUBSET Ids]
          /\ sentContainers' \in [Ids -> SUBSET Ids]
      BY <1>0, <1>3, HandleInfoMoves
    <2> QED
      BY <1>0, <2>1, <2>2, MovesTypeInv
  <1>4. ASSUME NEW ids, Resend(ids), down' \subseteq down,
               UNCHANGED <<mainVars, msgId, taken, checkTimer, historyVars,
                           started, stateData, up, serverVars, connected,
                           received, receivedIds>>
        PROVE  TypeInv'
    BY <1>0, <1>4, ResendMoves, MovesTypeInv
  <1>5. CASE HandleNewSession(d)
    <2>1. /\ UNCHANGED <<mainVars, msgId, taken, checkTimer, historyVars,
                         started, stateData, up, serverVars, connected,
                         received, receivedIds>>
          /\ down' \subseteq down
          /\ Resend({m \in haveSent : m < d.first})
      BY <1>5 DEF HandleNewSession, Receive, KeepsNumbers, KeepsSession,
                  serverVars
    <2> QED
      BY <1>4, <2>1
  <1>6. CASE HandleBad(d)
    <2>1. /\ d.id \in Ids /\ d.why \in {"again", "session", "fatal"}
          /\ d = [type |-> "bad", id |-> d.id, why |-> d.why]
      BY <1>0, <1>6 DEF HandleBad, Downward
    <2>2. UNCHANGED <<mainVars, msgId, taken, checkTimer, historyVars, troubles>>
      BY <1>6 DEF HandleBad, KeepsNumbers
    <2>3. CASE d.why = "again" /\ Resend({d.id}) /\ down' = down \ {d}
                 /\ KeepsSession /\ UNCHANGED <<received, receivedIds>>
      BY <1>4, <2>2, <2>3 DEF KeepsSession, serverVars
    <2>4. CASE ResetSession
      <3>1. TypeOK'
        <4>1. /\ known' \in [Ids -> {"no", "done", "again", "refused"}]
              /\ epoch' \in Nat /\ fresh' = TRUE
          BY <2>4 DEF ResetSession, NewServerSession, TypeInv, TypeOK
        <4>2. /\ connected' = FALSE /\ started' = FALSE
              /\ stateData' = {} /\ receivedIds' = {}
              /\ up' = {} /\ down' = {}
              /\ UNCHANGED <<toSend, haveSent, received, forced, idVars>>
          BY <2>4 DEF ResetSession
        <4> QED
          BY <2>2, <4>1, <4>2 DEF TypeInv, TypeOK, mainVars, historyVars, idVars
      <3>2. IdsOfRequests'
        BY <2>2, <2>4 DEF ResetSession, TypeInv, IdsOfRequests, mainVars,
                          historyVars, idVars
      <3>3. RequestsInHand'
        BY <2>2 DEF TypeInv, RequestsInHand, mainVars, historyVars
      <3> QED
        BY <3>1, <3>2, <3>3 DEF TypeInv
    <2>5. CASE /\ d.why = "fatal"
               /\ down' = down \ {d}
               /\ received' = Append(received, [request |-> owner[d.id],
                                                result |-> "again"])
               /\ KeepsSession
               /\ UNCHANGED <<toSend, haveSent, forced, idVars, receivedIds>>
      <3>1. owner[d.id] # None
        BY <2>1, <2>5 DEF TypeInv, IdsOfRequests, BadMessage
      <3>2. /\ received' \in Seq([request : Requests, result : {"done", "again"}])
            /\ \A i \in DOMAIN received' : received'[i].request \in asked
        BY <2>1, <2>5, <3>1, AnsweredTypes
      <3>3. /\ UNCHANGED <<toSend, haveSent, forced, ackedIds, sentContainers,
                           stateRequests, resendingIds, receivedIds, started,
                           stateData, up, serverVars, connected>>
            /\ down' \subseteq down
        BY <2>2, <2>5 DEF idVars, KeepsSession, serverVars
      <3>4. Moves({}, {}, {}) /\ forced' = forced \cup Owners({})
        BY <3>3 DEF Moves, Owners
      <3> QED
        BY <1>0, <2>2, <3>2, <3>3, <3>4, MovesTypeInv
    <2>6. CASE /\ down' = down \ {d}
               /\ KeepsSession
               /\ UNCHANGED <<toSend, haveSent, received, forced, idVars,
                              receivedIds>>
      <3>1. /\ UNCHANGED <<toSend, haveSent, forced, ackedIds, sentContainers,
                           stateRequests, resendingIds, receivedIds, started,
                           stateData, up, serverVars, connected, received>>
            /\ down' \subseteq down
        BY <2>2, <2>6 DEF idVars, KeepsSession, serverVars
      <3>2. Moves({}, {}, {}) /\ forced' = forced \cup Owners({})
        BY <3>1 DEF Moves, Owners
      <3> QED
        BY <1>0, <2>2, <3>1, <3>2, MovesTypeInv
    <2> QED
      BY <1>6, <2>3, <2>4, <2>5, <2>6 DEF HandleBad
  <1> QED
    BY <1>1, <1>2, <1>3, <1>5, <1>6

(* The server answers with messages of its types.                          *)
LEMMA ServerTypeInv ==
  ASSUME TypeInv, ServerNext
  PROVE  TypeInv'
  <1>1. ASSUME NEW u \in up, ServerReceives(u)
        PROVE  TypeInv'
    <2>1. /\ u \in Upward /\ u.id \in Ids /\ u.messages \in SUBSET Ids
          /\ u.query \in Ids \cup {None}
      BY DEF TypeInv, TypeOK, Upward
    <2>2. PICK again \in SUBSET {m \in u.messages : known[m] = "no"} :
             /\ again # {} => Trouble
             /\ again = {} => UNCHANGED troubles
             /\ known' = [m \in Ids |->
                    IF m \in again THEN "again"
                    ELSE IF m \in u.messages /\ known[m] = "no" THEN "done"
                    ELSE known[m]]
      BY <1>1 DEF ServerReceives
    <2>3. /\ known' \in [Ids -> {"no", "done", "again", "refused"}]
          /\ \A m \in u.messages : known'[m] # "no"
      BY <2>1, <2>2 DEF TypeInv, TypeOK
    <2>4. troubles' \in Nat
      BY <2>2 DEF Trouble, TypeInv, TypeOK
    <2>5. /\ up' = up \ {u} /\ fresh' = FALSE
          /\ UNCHANGED <<ClientVars, epoch>>
      BY <1>1 DEF ServerReceives
    <2>6. /\ down' \subseteq Downward
          /\ \A m \in Ids : BadMessage(m) \in down' => BadMessage(m) \in down
      <3> DEFINE results == {[type |-> "result", id |-> m, epoch |-> epoch,
                              result |-> known'[m]] :
                                m \in {n \in u.messages : known'[n] # "refused"}}
                 acks == {[type |-> "ack", id |-> c] : c \in {u.id} \ u.messages}
                 infos == {[type |-> "info", id |-> q,
                            received |-> {m \in stateRequests[q] : known'[m] # "no"}] :
                               q \in {u.query} \ {None}}
                 sessions == {[type |-> "session",
                               first |-> Min(u.messages \cup {u.id})] :
                                  new \in {TRUE} \cap {fresh}}
      <3>1. down' = down \cup results \cup acks \cup infos \cup sessions
        BY <1>1 DEF ServerReceives
      <3>2. epoch \in Nat
        BY DEF TypeInv, TypeOK
      <3>3. /\ results \subseteq Downward
            /\ \A d \in results : d.type = "result"
        <4>1. \A m \in u.messages : known'[m] # "refused" =>
                 known'[m] \in {"done", "again"}
          BY <2>1, <2>3
        <4> QED
          BY <2>1, <3>2, <4>1 DEF Downward
      <3>4. acks \subseteq Downward /\ \A d \in acks : d.type = "ack"
        BY <2>1 DEF Downward
      <3>5. infos \subseteq Downward /\ \A d \in infos : d.type = "info"
        <4>1. \A q \in {u.query} \ {None} : q \in Ids /\ stateRequests[q] \subseteq Ids
          BY <2>1 DEF TypeInv, TypeOK
        <4> QED
          BY <4>1 DEF Downward
      <3>6. sessions \subseteq Downward /\ \A d \in sessions : d.type = "session"
        <4>1. Min(u.messages \cup {u.id}) \in Ids
          <5> DEFINE S == u.messages \cup {u.id}
          <5>1. S \in SUBSET Ids /\ S # {}
            BY <2>1
          <5>2. S \in SUBSET Nat
            BY <5>1, IdsAreFinite
          <5> HIDE DEF S
          <5>3. Min(S) \in S
            BY <5>1, <5>2, MinIsSmallest
          <5>4. Min(S) \in Ids
            BY <5>1, <5>3
          <5> QED
            BY <5>4 DEF S
        <4> QED
          BY <4>1 DEF Downward
      <3> HIDE DEF results, acks, infos, sessions
      <3>7. down \subseteq Downward
        BY DEF TypeInv, TypeOK
      <3>8. \A m \in Ids : BadMessage(m).type = "bad"
        BY DEF BadMessage
      <3> QED
        BY <3>1, <3>3, <3>4, <3>5, <3>6, <3>7, <3>8
    <2>7. TypeOK'
      BY <2>3, <2>4, <2>5, <2>6 DEF TypeInv, TypeOK, ClientVars, mainVars,
         sessionVars, idVars, historyVars
    <2>8. IdsOfRequests'
      BY <2>5, <2>6 DEF TypeInv, IdsOfRequests, BadMessage, ClientVars,
         mainVars, idVars, historyVars
    <2>9. RequestsInHand'
      BY <2>5 DEF TypeInv, RequestsInHand, ClientVars, mainVars, historyVars
    <2> QED
      BY <2>7, <2>8, <2>9 DEF TypeInv
  <1>2. ASSUME NEW u \in up, NEW why \in {"again", "session", "fatal"},
               ServerRejects(u, why)
        PROVE  TypeInv'
    <2>1. /\ u \in Upward /\ u.id \in Ids
      BY DEF TypeInv, TypeOK, Upward
    <2>2. /\ up' = up \ {u} /\ UNCHANGED <<ClientVars, epoch, fresh>>
          /\ known' \in [Ids -> {"no", "done", "again", "refused"}]
          /\ troubles' \in Nat
      BY <1>2, <2>1 DEF ServerRejects, Trouble, TypeInv, TypeOK
    <2>3. /\ down' = down \cup {[type |-> "bad", id |-> u.id, why |-> why]}
          /\ why = "fatal" => u.messages = {u.id}
      BY <1>2 DEF ServerRejects
    <2>4. down' \subseteq Downward
      BY <2>1, <2>3 DEF Downward, TypeInv, TypeOK
    <2>5. \A m \in Ids : BadMessage(m) \in down' => owner[m] # None
      <3> SUFFICES ASSUME NEW m \in Ids, BadMessage(m) \in down'
                   PROVE  owner[m] # None
        OBVIOUS
      <3>1. CASE BadMessage(m) \in down
        BY <3>1 DEF TypeInv, IdsOfRequests
      <3>2. CASE BadMessage(m) \notin down
        <4>1. why = "fatal" /\ m = u.id
          BY <2>3, <3>2 DEF BadMessage
        <4> QED
          BY <2>3, <4>1 DEF TypeInv, IdsOfRequests
      <3> QED
        BY <3>1, <3>2
    <2>6. TypeOK'
      BY <2>2, <2>4 DEF TypeInv, TypeOK, ClientVars, mainVars, sessionVars,
         idVars, historyVars
    <2>7. IdsOfRequests'
      BY <2>2, <2>5 DEF TypeInv, IdsOfRequests, BadMessage, ClientVars,
         mainVars, idVars, historyVars
    <2>8. RequestsInHand'
      BY <2>2 DEF TypeInv, RequestsInHand, ClientVars, mainVars, historyVars
    <2> QED
      BY <2>6, <2>7, <2>8 DEF TypeInv
  <1>3. CASE ServerForgets
    <2>1. /\ UNCHANGED <<ClientVars, up, down>> /\ fresh' = TRUE
          /\ known' \in [Ids -> {"no", "done", "again", "refused"}]
          /\ epoch' \in Nat /\ troubles' \in Nat
      BY <1>3 DEF ServerForgets, NewServerSession, Trouble, TypeInv, TypeOK
    <2>2. TypeOK'
      BY <2>1 DEF TypeInv, TypeOK, ClientVars, mainVars, sessionVars,
         idVars, historyVars
    <2>3. IdsOfRequests'
      BY <2>1 DEF TypeInv, IdsOfRequests, BadMessage, ClientVars, mainVars,
         idVars, historyVars
    <2>4. RequestsInHand'
      BY <2>1 DEF TypeInv, RequestsInHand, ClientVars, mainVars, historyVars
    <2> QED
      BY <2>2, <2>3, <2>4 DEF TypeInv
  <1> QED
    BY <1>1, <1>2, <1>3 DEF ServerNext

(* All steps keep the types.                                               *)
LEMMA NextTypeInv == TypeInv /\ [Next]_vars => TypeInv'
  <1> SUFFICES ASSUME TypeInv, [Next]_vars
               PROVE  TypeInv'
    OBVIOUS
  <1>1. CASE MainNext
    BY <1>1, MainNextTypeInv
  <1>2. CASE PrivateNext
    BY <1>2, SendingTypeInv, TimersTypeInv, HandlersTypeInv DEF PrivateNext
  <1>3. CASE ServerNext
    BY <1>3, ServerTypeInv
  <1>4. CASE UNCHANGED vars
    BY <1>4 DEF vars, mainVars, idVars, sessionVars, historyVars, serverVars,
       TypeInv, TypeOK, IdsOfRequests, BadMessage, RequestsInHand
  <1> QED
    BY <1>1, <1>2, <1>3, <1>4 DEF Next

(* Every variable of a session, of its server and of the main thread keeps *)
(* its type, and ids are remembered under the request they were given to.  *)
THEOREM TypeInvCorrect == Spec => []TypeInv
  <1> QED
    BY InitTypeInv, NextTypeInv, PTL DEF Spec

THEOREM TypeCorrect == Spec => []TypeOK
  <1>1. TypeInv => TypeOK
    BY DEF TypeInv
  <1> QED
    BY <1>1, TypeInvCorrect, PTL

-----------------------------------------------------------------------------
(* No request is forgotten, as long as _ackedIds has room.                 *)

(* _ackedIds holds fewer ids than kIdsBufferSize.                          *)
RoomForAcked == Cardinality(ackedIds) < BufferSize

(* A set of ids that has an element has a largest one.                     *)
LEMMA LargestExists ==
  ASSUME NEW S \in SUBSET Ids, S # {}
  PROVE  \E x \in S : \A y \in S : y <= x
  <1> DEFINE T == {MaxMsgId - x : x \in S}
  <1>1. MaxMsgId \in Nat /\ \A x \in S : x \in Nat /\ x <= MaxMsgId
    BY BoundsAssumption DEF Ids
  <1>2. T \in SUBSET Nat /\ T # {}
    BY <1>1
  <1>3. PICK t \in T : \A s \in T : t <= s
    <2> HIDE DEF T
    <2> QED
      BY <1>2, SmallestExists
  <1>4. PICK x \in S : t = MaxMsgId - x
    OBVIOUS
  <1>5. \A y \in S : MaxMsgId - x <= MaxMsgId - y
    BY <1>3, <1>4
  <1> QED
    BY <1>1, <1>5

(* Nothing was trimmed if there is room afterwards.                        *)
LEMMA NothingTrimmed ==
  ASSUME NEW ids \in SUBSET Ids, Cardinality(Newest(ids)) < BufferSize
  PROVE  Newest(ids) = ids
  <1> DEFINE trimmed == ids \ Newest(ids)
  <1> SUFFICES ASSUME trimmed # {}
               PROVE  FALSE
    BY DEF Newest
  <1>1. PICK t \in trimmed : \A m \in trimmed : m <= t
    <2>1. trimmed \in SUBSET Ids
      OBVIOUS
    <2> HIDE DEF trimmed
    <2> QED
      BY <2>1, LargestExists
  <1> DEFINE newer == {n \in ids : n > t}
  <1>2. ~(Cardinality(newer) < BufferSize)
    BY DEF Newest
  <1>3. newer \in SUBSET Newest(ids)
    <2> SUFFICES ASSUME NEW n \in ids, n > t
                 PROVE  n \in Newest(ids)
      OBVIOUS
    <2>1. n \in Nat /\ t \in Nat
      BY DEF Ids
    <2>2. n \notin trimmed
      BY <1>1, <2>1
    <2> QED
      BY <2>2
  <1>4. Newest(ids) \in SUBSET Ids /\ newer \in SUBSET Ids
    BY DEF Newest
  <1>5. /\ IsFiniteSet(Newest(ids)) /\ Cardinality(Newest(ids)) \in Nat
        /\ Cardinality(newer) \in Nat
    <2> HIDE DEF newer
    <2> QED
      BY <1>4, IdsAreFinite
  <1> HIDE DEF newer
  <1>6. Cardinality(newer) <= Cardinality(Newest(ids))
    BY <1>3, <1>5, FS_Subset
  <1>7. BufferSize \in Nat
    BY BoundsAssumption
  <1> QED
    BY <1>2, <1>5, <1>6, <1>7

(* Messages that move keep their requests in the session, but for those    *)
(* that end.                                                               *)
LEMMA MovesKeep ==
  ASSUME TypeInv, NEW lost, NEW sent, NEW resent, Moves(lost, sent, resent),
         UNCHANGED owner,
         NEW r \in toSend \cup Owners(haveSent)
  PROVE  \/ r \in toSend' \cup Owners(haveSent)'
         \/ \E m \in sent \cup resent : owner[m] = r
  BY DEF Moves, Owners

(* Nothing is forgotten when all that ends was not waited for.             *)
LEMMA MovesForgetNothing ==
  ASSUME TypeInv, NotForgotten,
         NEW lost, NEW sent, NEW resent, Moves(lost, sent, resent),
         \A m \in sent \cup resent : owner[m] \notin callbacks,
         UNCHANGED <<mainVars, historyVars, taken>>,
         \A i \in DOMAIN received : i \in DOMAIN received' /\ received'[i] = received[i]
  PROVE  NotForgotten'
  <1> SUFFICES ASSUME NEW r \in callbacks, r # cancelling.request
               PROVE  \/ r \in toSend' \cup delayed' \cup {taken'.request}
                                \cup Owners(haveSent)'
                      \/ \E i \in DOMAIN received' : received'[i].request = r
    BY DEF NotForgotten, mainVars
  <1>1. UNCHANGED <<owner, delayed, taken>>
    BY DEF mainVars, historyVars
  <1>2. CASE r \in toSend \cup Owners(haveSent)
    <2>1. \A m \in sent \cup resent : owner[m] # r
      OBVIOUS
    <2> QED
      BY <1>1, <1>2, <2>1, MovesKeep
  <1>3. CASE r \in delayed \cup {taken.request}
    BY <1>1, <1>3
  <1>4. CASE \E i \in DOMAIN received : received[i].request = r
    BY <1>4
  <1> QED
    BY <1>2, <1>3, <1>4 DEF NotForgotten

LEMMA MainNextForgetsNothing ==
  ASSUME TypeInv, NotForgotten, MainNext
  PROVE  NotForgotten'
  <1> USE DEF mainVars, idVars, sessionVars, historyVars, serverVars
  <1>1. ASSUME NEW r \in Requests, SendRequest(r)
        PROVE  NotForgotten'
    BY <1>1 DEF NotForgotten, SendRequest, SendPrepared, Owners
  <1>2. ASSUME NEW r \in Requests, Cancel(r)
        PROVE  NotForgotten'
    <2>1. cancelling.request \notin callbacks
      BY <1>2, RequestsAssumption
         DEF Cancel, MainIsFree, Nobody, TypeInv, TypeOK, None
    <2>2. cancelling'.request = r
      BY <1>2 DEF Cancel
    <2> QED
      BY <1>2, <2>1, <2>2 DEF NotForgotten, Cancel, Owners
  <1>3. ASSUME NEW r \in Requests, SendDelayed(r)
        PROVE  NotForgotten'
    BY <1>3 DEF NotForgotten, SendDelayed, SendPrepared, Owners
  <1>4. CASE CancelToSend
    <2>1. cancelling'.request = cancelling.request
      BY <1>4 DEF CancelToSend, TypeInv, TypeOK
    <2> QED
      BY <1>4, <2>1 DEF NotForgotten, CancelToSend, Owners
  <1>5. CASE CancelHaveSent
    <2>1. /\ callbacks' = callbacks \ {cancelling.request}
          /\ haveSent' = haveSent \ {cancelling.msgId}
          /\ UNCHANGED <<toSend, delayed, taken, owner, received>>
      BY <1>5 DEF CancelHaveSent
    <2> SUFFICES ASSUME NEW r \in callbacks, r # cancelling.request
                 PROVE  \/ r \in toSend' \cup delayed' \cup {taken'.request}
                                  \cup Owners(haveSent)'
                        \/ \E i \in DOMAIN received' : received'[i].request = r
      BY <2>1 DEF NotForgotten
    <2>2. r \in Owners(haveSent) => r \in Owners(haveSent)'
      <3>1. r \in Requests /\ r # None
        BY RequestsAssumption DEF TypeInv, TypeOK, None
      <3>2. cancelling.msgId = None \/ owner[cancelling.msgId] # r
        BY DEF TypeInv, RequestsInHand
      <3>3. None \notin haveSent
        BY DEF TypeInv, TypeOK, Ids, None
      <3> QED
        BY <2>1, <3>1, <3>2, <3>3 DEF Owners
    <2>3. \/ r \in toSend \cup delayed \cup {taken.request} \cup Owners(haveSent)
          \/ \E i \in DOMAIN received : received[i].request = r
      BY DEF NotForgotten
    <2> QED
      BY <2>1, <2>2, <2>3
  <1>6. CASE ProcessCallback
    <2>1. /\ received' = Tail(received) /\ received # <<>>
          /\ received \in Seq([request : Requests, result : {"done", "again"}])
          /\ cancelling' = cancelling
          /\ UNCHANGED <<toSend, taken, haveSent, owner>>
      BY <1>6 DEF ProcessCallback, TypeInv, TypeOK
    <2>2. \A i \in DOMAIN received :
             i = 1 \/ (i - 1 \in DOMAIN received' /\ received'[i - 1] = received[i])
      BY <2>1
    <2>3. /\ callbacks' \subseteq callbacks
          /\ \A r \in callbacks' : received[1].request = r => r \in delayed'
          /\ \A r \in callbacks' : r \in delayed => r \in delayed'
      BY <1>6, <2>1 DEF ProcessCallback
    <2> SUFFICES ASSUME NEW r \in callbacks', r # cancelling.request
                 PROVE  \/ r \in toSend' \cup delayed' \cup {taken'.request}
                                  \cup Owners(haveSent)'
                        \/ \E i \in DOMAIN received' : received'[i].request = r
      BY <2>1 DEF NotForgotten
    <2>4. CASE \E i \in DOMAIN received : received[i].request = r
      BY <2>2, <2>3, <2>4
    <2>5. CASE r \in toSend \cup delayed \cup {taken.request} \cup Owners(haveSent)
      BY <2>1, <2>3, <2>5 DEF Owners
    <2> QED
      BY <2>3, <2>4, <2>5 DEF NotForgotten
  <1> QED
    BY <1>1, <1>2, <1>3, <1>4, <1>5, <1>6 DEF MainNext

(* What is sent is in _haveSent.                                           *)
LEMMA SendsForgetNothing ==
  ASSUME TypeInv, NotForgotten, NEW requests, NEW new, SendingStep(requests, new)
  PROVE  NotForgotten'
  <1>1. /\ Sends(requests, new)
        /\ UNCHANGED <<mainVars, received>>
        /\ \/ toSend' = toSend /\ requests = {taken.request}
           \/ toSend' = toSend \ requests /\ taken = Nothing
    BY DEF SendingStep
  <1> SUFFICES ASSUME NEW r \in callbacks, r # cancelling.request
               PROVE  \/ r \in toSend' \cup delayed' \cup {taken'.request}
                                \cup Owners(haveSent)'
                      \/ \E i \in DOMAIN received' : received'[i].request = r
    BY <1>1 DEF NotForgotten, mainVars
  <1>2. r \in Requests /\ r # None
    BY RequestsAssumption DEF TypeInv, TypeOK, None
  <1>3. r \in requests => r \in Owners(haveSent)'
    <2> SUFFICES ASSUME r \in requests
                 PROVE  r \in Owners(haveSent)'
      OBVIOUS
    <2>1. new[r] \in Ids
      BY <1>1 DEF Sends
    <2>2. new[r] \in haveSent' /\ owner'[new[r]] = r
      BY <1>1, <2>1, SendsIds, SendsMaps
    <2> QED
      BY <1>2, <2>2 DEF Owners
  <1>4. r \in Owners(haveSent) => r \in Owners(haveSent)'
    <2> SUFFICES ASSUME r \notin requests,
                        NEW m \in haveSent, owner[m] = r
                 PROVE  r \in Owners(haveSent)'
      BY <1>3 DEF Owners
    <2>1. m \in Ids /\ m # None
      BY DEF TypeInv, TypeOK, Ids, None
    <2>2. \A q \in requests : msgId[q] # m
      BY <1>1, <2>1 DEF Sends, TypeInv, TypeOK, IdsOfRequests
    <2>3. m \in haveSent' /\ owner'[m] = r
      BY <1>1, <1>2, <2>1, <2>2, SendsIds, SendsMaps
    <2> QED
      BY <1>2, <2>3 DEF Owners
  <1>5. CASE r \in toSend
    BY <1>1, <1>3, <1>5
  <1>6. CASE r = taken.request
    BY <1>1, <1>2, <1>3, <1>6 DEF Nothing
  <1>7. CASE r \in delayed \/ \E i \in DOMAIN received : received[i].request = r
    BY <1>1, <1>7 DEF mainVars
  <1> QED
    BY <1>4, <1>5, <1>6, <1>7 DEF NotForgotten

(* An answer is given to the main thread when it ends a message that is    *)
(* waited for.                                                             *)
LEMMA AnswersForgetNothing ==
  ASSUME TypeInv, NotForgotten, RoomForAcked',
         NEW m \in Ids, NEW result, RequestsAcked({m}, TRUE),
         Answered(m, result),
         UNCHANGED <<mainVars, historyVars, taken>>
  PROVE  NotForgotten'
  <1>1. PICK sent, resent :
            /\ Moves({}, sent, resent)
            /\ \A n \in sent \cup resent : n = m \/ owner[n] \notin callbacks
            /\ m \in haveSent => m \in sent
            /\ m \in resendingIds \ haveSent => m \in resent
            /\ ackedIds' = Newest(ackedIds \cup sent \cup Unneeded(resent, toSend))
    <2>1. {m} \in SUBSET Ids /\ TRUE \in BOOLEAN
      OBVIOUS
    <2>2. \E sent, resent :
              /\ Moves({}, sent, resent)
              /\ \A n \in sent \cup resent :
                    (TRUE /\ n \in {m}) \/ owner[n] \notin callbacks
              /\ TRUE => {m} \cap haveSent \subseteq sent
              /\ TRUE => ({m} \cap resendingIds) \ haveSent \subseteq resent
              /\ ackedIds' = Newest(ackedIds \cup sent \cup Unneeded(resent, toSend))
      BY <2>1, RequestsAckedMoves
    <2> QED
      BY <2>2
  <1> DEFINE acked == ackedIds \cup sent \cup Unneeded(resent, toSend)
  <1>2. /\ sent \in SUBSET haveSent /\ resent \in SUBSET (resendingIds \ haveSent)
        /\ toSend' = toSend \ Owners(resent)
    BY <1>1 DEF Moves, Owners
  <1>3. ackedIds' = acked
    <2>1. acked \in SUBSET Ids
      BY <1>2 DEF TypeInv, TypeOK, Unneeded
    <2> HIDE DEF acked
    <2> QED
      BY <1>1, <2>1, NothingTrimmed DEF RoomForAcked, acked
  <1>4. /\ \A i \in DOMAIN received :
              i \in DOMAIN received' /\ received'[i] = received[i]
        /\ WasSent(m)' /\ owner[m] # None =>
              \E i \in DOMAIN received' : received'[i].request = owner[m]
    <2> DEFINE entry == [request |-> owner[m], result |-> result]
    <2>1. received' = IF WasSent(m)' /\ owner[m] # None
                      THEN Append(received, entry) ELSE received
      BY DEF Answered
    <2>2. received \in Seq([request : Requests, result : {"done", "again"}])
      BY DEF TypeInv, TypeOK
    <2>3. entry.request = owner[m]
      OBVIOUS
    <2> HIDE DEF entry
    <2>4. /\ DOMAIN Append(received, entry) = 1 .. (Len(received) + 1)
          /\ DOMAIN received = 1 .. Len(received) /\ Len(received) \in Nat
          /\ Append(received, entry)[Len(received) + 1] = entry
          /\ \A i \in 1 .. Len(received) : Append(received, entry)[i] = received[i]
      BY <2>2
    <2> QED
      BY <2>1, <2>3, <2>4
  <1>5. UNCHANGED <<owner, delayed, taken, callbacks, cancelling>>
    BY DEF mainVars, historyVars
  <1> SUFFICES ASSUME NEW r \in callbacks, r # cancelling.request
               PROVE  \/ r \in toSend' \cup delayed' \cup {taken'.request}
                                \cup Owners(haveSent)'
                      \/ \E i \in DOMAIN received' : received'[i].request = r
    BY <1>5 DEF NotForgotten
  <1>6. CASE r \in toSend \cup Owners(haveSent)
    <2> SUFFICES ASSUME r \notin toSend', r \notin Owners(haveSent)'
                 PROVE  \E i \in DOMAIN received' : received'[i].request = r
      OBVIOUS
    <2>1. m \in sent \cup resent /\ owner[m] = r
      BY <1>1, <1>5, <1>6, MovesKeep
    <2>2. r # None
      BY RequestsAssumption DEF TypeInv, TypeOK, None
    <2>3. m \in acked
      <3>1. CASE m \in sent
        BY <3>1
      <3>2. CASE m \notin sent
        <4>1. m \in resent /\ m \notin haveSent
          BY <1>1, <2>1, <3>2
        <4>2. r \in toSend
          <5> SUFFICES ASSUME r \in Owners(haveSent)
                       PROVE  FALSE
            BY <1>6
          <5>1. PICK n \in haveSent : owner[n] = r
            BY DEF Owners
          <5>2. n \notin sent
            BY <1>1, <3>2, <5>1
          <5>3. n \in haveSent'
            BY <1>1, <5>2 DEF Moves
          <5> QED
            BY <1>5, <2>2, <5>1, <5>3 DEF Owners
        <4>3. \A n \in resent : owner[n] = owner[m] => m <= n
          <5>1. m <= m
            BY DEF Ids
          <5> QED
            BY <1>1, <2>1, <5>1
        <4>4. m \in Unneeded(resent, toSend)
          BY <2>1, <4>1, <4>2, <4>3 DEF Unneeded
        <4> QED
          BY <4>4
      <3> QED
        BY <3>1, <3>2
    <2>4. WasSent(m)'
      BY <1>3, <2>3 DEF WasSent
    <2> QED
      BY <1>4, <2>1, <2>2, <2>4
  <1>7. CASE r \in delayed \cup {taken.request}
    BY <1>5, <1>7
  <1>8. CASE \E i \in DOMAIN received : received[i].request = r
    BY <1>4, <1>8
  <1> QED
    BY <1>6, <1>7, <1>8 DEF NotForgotten

(* The steps of the session and of its server.                             *)
LEMMA PrivateNextForgetsNothing ==
  ASSUME TypeInv, NotForgotten, RoomForAcked', PrivateNext
  PROVE  NotForgotten'
  <1>0. received \in Seq([request : Requests, result : {"done", "again"}])
    BY DEF TypeInv, TypeOK
  <1>1. ASSUME NEW r \in toSend, TakeOne(r)
        PROVE  NotForgotten'
    <2>1. taken.request = None /\ \A q \in callbacks : q # None
      BY <1>1, RequestsAssumption
         DEF TakeOne, CanSend, PrivateIsFree, Nothing, TypeInv, TypeOK, None
    <2> QED
      BY <1>1, <2>1 DEF NotForgotten, TakeOne, mainVars, historyVars, Owners
  <1>2. CASE SendOne
    BY <1>2, SendOneStep, SendsForgetNothing
  <1>3. CASE SendState
    BY <1>3 DEF NotForgotten, SendState, mainVars, Owners
  <1>4. ASSUME NEW requests \in SUBSET toSend, SendContainer(requests)
        PROVE  NotForgotten'
    BY <1>4, SendContainerStep, SendsForgetNothing
  <1>5. ASSUME NEW old \in SUBSET haveSent, CheckSentRequests(old)
        PROVE  NotForgotten'
    BY <1>5 DEF NotForgotten, CheckSentRequests, mainVars, historyVars, Owners
  <1>6. ASSUME NEW ids, Resend(ids),
               UNCHANGED <<mainVars, historyVars, taken, received>>
        PROVE  NotForgotten'
    BY <1>6, ResendMoves, MovesForgetNothing
  <1>7. ASSUME NEW c \in Ids, ClearOldContainer(c)
        PROVE  NotForgotten'
    BY <1>6, <1>7 DEF ClearOldContainer
  <1>8. CASE Connected
    <2>1. UNCHANGED <<mainVars, historyVars, taken, received>>
      BY <1>8 DEF Connected
    <2> QED
      BY <1>8, <2>1, ConnectedMoves, MovesForgetNothing
  <1>9. CASE Disconnect
    BY <1>9 DEF NotForgotten, Disconnect, mainVars, historyVars, Owners
  <1>10. ASSUME NEW d \in down, HandleResult(d)
         PROVE  NotForgotten'
    <2>1. d.id \in Ids
      BY <1>10 DEF HandleResult, Downward, TypeInv, TypeOK
    <2>2. UNCHANGED <<mainVars, historyVars, taken>>
      BY <1>10 DEF HandleResult, KeepsNumbers
    <2>3. CASE UNCHANGED <<toSend, haveSent, received, idVars>>
      BY <2>2, <2>3 DEF NotForgotten, mainVars, historyVars, Owners
    <2>4. CASE RequestsAcked({d.id}, TRUE) /\ Answered(d.id, d.result)
      BY <2>1, <2>2, <2>4, AnswersForgetNothing
    <2> QED
      BY <1>10, <2>3, <2>4 DEF HandleResult
  <1>11. ASSUME NEW d \in down, HandleAck(d)
         PROVE  NotForgotten'
    <2>1. d.id \in Ids
      BY <1>11 DEF HandleAck, Downward, TypeInv, TypeOK
    <2>2. /\ UNCHANGED <<mainVars, historyVars, taken, received>>
          /\ RequestsAcked({d.id}, FALSE)
      BY <1>11 DEF HandleAck, KeepsNumbers
    <2>3. {d.id} \in SUBSET Ids /\ FALSE \in BOOLEAN
      BY <2>1
    <2>4. \E sent, resent :
             /\ Moves({}, sent, resent)
             /\ \A m \in sent \cup resent :
                   (FALSE /\ m \in {d.id}) \/ owner[m] \notin callbacks
             /\ FALSE => {d.id} \cap haveSent \subseteq sent
             /\ FALSE => ({d.id} \cap resendingIds) \ haveSent \subseteq resent
             /\ ackedIds' = Newest(ackedIds \cup sent \cup Unneeded(resent, toSend))
      BY <2>2, <2>3, RequestsAckedMoves
    <2> QED
      BY <2>2, <2>4, MovesForgetNothing
  <1>12. ASSUME NEW d \in down, HandleInfo(d)
         PROVE  NotForgotten'
    <2>1. UNCHANGED <<mainVars, historyVars, taken, received>>
      BY <1>12 DEF HandleInfo, KeepsNumbers
    <2>2. \E lost, sent, resent :
             /\ Moves(lost, sent, resent)
             /\ \A m \in sent \cup resent : owner[m] \notin callbacks
      BY <1>12, HandleInfoMoves
    <2> QED
      BY <2>1, <2>2, MovesForgetNothing
  <1>13. ASSUME NEW d \in down, HandleNewSession(d)
         PROVE  NotForgotten'
    BY <1>6, <1>13 DEF HandleNewSession, KeepsNumbers
  <1>14. ASSUME NEW d \in down, HandleBad(d)
         PROVE  NotForgotten'
    <2>1. UNCHANGED <<mainVars, historyVars, taken>>
      BY <1>14 DEF HandleBad, KeepsNumbers
    <2>2. CASE Resend({d.id}) /\ UNCHANGED received
      BY <1>6, <2>1, <2>2
    <2>3. CASE /\ UNCHANGED <<toSend, haveSent>>
               /\ \E entry : received' = Append(received, entry)
      <3>1. PICK entry : received' = Append(received, entry)
        BY <2>3
      <3>2. \A i \in DOMAIN received :
               i \in DOMAIN received' /\ received'[i] = received[i]
        BY <1>0, <3>1
      <3> QED
        BY <2>1, <2>3, <3>2 DEF NotForgotten, mainVars, historyVars, Owners
    <2>4. CASE UNCHANGED <<toSend, haveSent, received>>
      BY <2>1, <2>4 DEF NotForgotten, mainVars, historyVars, Owners
    <2> QED
      BY <1>14, <2>2, <2>3, <2>4 DEF HandleBad, ResetSession
  <1> QED
    BY <1>1, <1>2, <1>3, <1>4, <1>5, <1>7, <1>8, <1>9, <1>10, <1>11, <1>12,
       <1>13, <1>14 DEF PrivateNext

LEMMA ServerNextForgetsNothing ==
  ASSUME NotForgotten, ServerNext
  PROVE  NotForgotten'
  <1>1. UNCHANGED ClientVars
    BY DEF ServerNext, ServerReceives, ServerRejects, ServerForgets
  <1> QED
    BY <1>1 DEF NotForgotten, ClientVars, mainVars, historyVars, Owners

(* A request that expects an answer, and is not being cancelled, is in     *)
(* _toSend, being sent, sent, delayed or answered (session.cpp,            *)
(* session_private.cpp), in every behavior in which _ackedIds, which is    *)
(* trimmed to kIdsBufferSize, always has room.                             *)
THEOREM NobodyIsForgotten == Spec /\ []RoomForAcked => []NotForgotten
  <1>1. Init => NotForgotten
    BY DEF Init, NotForgotten
  <1>2. TypeInv /\ NotForgotten /\ RoomForAcked' /\ [Next]_vars => NotForgotten'
    <2> SUFFICES ASSUME TypeInv, NotForgotten, RoomForAcked', [Next]_vars
                 PROVE  NotForgotten'
      OBVIOUS
    <2>1. CASE MainNext
      BY <2>1, MainNextForgetsNothing
    <2>2. CASE PrivateNext
      BY <2>2, PrivateNextForgetsNothing
    <2>3. CASE ServerNext
      BY <2>3, ServerNextForgetsNothing
    <2>4. CASE UNCHANGED vars
      BY <2>4 DEF vars, mainVars, historyVars, NotForgotten, Owners
    <2> QED
      BY <2>1, <2>2, <2>3, <2>4 DEF Next
  <1> QED
    BY <1>1, <1>2, TypeInvCorrect, PTL DEF Spec

(* It has room as long as fewer messages are numbered than it can hold.    *)
THEOREM NobodyIsForgottenEarly ==
  ASSUME MaxMsgId < BufferSize
  PROVE  Spec => []NotForgotten
  <1>1. TypeInv => RoomForAcked
    <2> SUFFICES ASSUME TypeInv
                 PROVE  RoomForAcked
      OBVIOUS
    <2>1. ackedIds \in SUBSET Ids
      BY DEF TypeInv, TypeOK
    <2>2. Cardinality(ackedIds) \in Nat /\ Cardinality(ackedIds) <= MaxMsgId
      BY <2>1, IdsAreFinite
    <2> QED
      BY <2>2, BoundsAssumption DEF RoomForAcked
  <1> QED
    BY <1>1, TypeInvCorrect, NobodyIsForgotten, PTL

-----------------------------------------------------------------------------
(* The session of the server that has not begun, and the one id of a       *)
(* request that is not repeated.                                           *)

(* Until something is sent in it, a session has no message on its way and  *)
(* its server knows none but those it refused.                             *)
NotBegun ==
  /\ Renewing => /\ up = {}
                 /\ \A m \in Ids : known[m] \in {"no", "refused"}
                 /\ epoch = 0 => lastId = None
  /\ taken # Nothing => started

(* A request that was not sent again after an error is on its way, and was *)
(* executed, under the id in its buffer only.                              *)
OneId ==
  \A r \in Requests \ repeated :
    /\ \A m \in Ids : owner[m] = r =>
          msgId[r] # None /\ (known[m] = "done" => m = msgId[r])
    /\ \A u \in up : \A m \in u.messages : owner[m] = r => m = msgId[r]

(* Steps that do not concern it.                                           *)
LEMMA NotBegunFrame ==
  ASSUME NotBegun, up' \subseteq up,
         UNCHANGED <<started, taken, known, epoch, lastId>>
  PROVE  NotBegun'
  BY DEF NotBegun, Renewing

LEMMA OneIdFrame ==
  ASSUME OneId, up' \subseteq up, UNCHANGED <<repeated, msgId, owner, known>>
  PROVE  OneId'
  BY DEF OneId

(* Sending begins the session, and gives other ids only before it.         *)
LEMMA SendingBegins ==
  ASSUME TypeInv, NotBegun, OneId,
         NEW requests, NEW new, SendingStep(requests, new)
  PROVE  NotBegun' /\ OneId'
  <1>1. started' = TRUE /\ taken' = Nothing
    BY DEF SendingStep, NotBegun, TypeInv, TypeOK
  <1>2. NotBegun'
    BY <1>1 DEF NotBegun, Renewing, Nothing
  <1>3. /\ Sends(requests, new) /\ UNCHANGED <<repeated, known>>
        /\ \A r \in requests : new[r] \in Ids
    BY DEF SendingStep, Sends, mainVars, serverVars
  <1>4. PICK w \in Upward : /\ up' = up \cup {w}
                            /\ \A m \in w.messages : \E r \in requests : new[r] = m
    BY DEF SendingStep
  <1>5. ASSUME NEW r \in Requests, r \notin repeated
        PROVE  /\ \A m \in Ids : owner'[m] = r =>
                    /\ msgId'[r] # None
                    /\ known'[m] = "done" => m = msgId'[r]
               /\ \A u \in up' : \A m \in u.messages :
                    owner'[m] = r => m = msgId'[r]
    <2>1. r # None
      BY RequestsAssumption DEF None
    <2>2. \A m \in Ids : owner'[m] = r => owner[m] = r \/ (r \in requests /\ m = new[r])
      BY <1>3, SendsIds
    <2>3. \A m \in w.messages : owner'[m] = r => r \in requests /\ m = new[r]
      BY <1>3, <1>4, SendsIds
    <2>4. \A u \in up : \A m \in u.messages : m \in Ids
      BY DEF TypeInv, TypeOK, Upward
    <2>5. CASE r \notin requests
      <3>1. msgId'[r] = msgId[r]
        BY <1>3, <2>5, SendsIds
      <3> QED
        BY <1>3, <1>4, <1>5, <2>2, <2>3, <2>4, <2>5, <3>1 DEF OneId
    <2>6. CASE r \in requests /\ new[r] = msgId[r]
      <3>1. msgId'[r] = msgId[r] /\ msgId[r] # None
        BY <1>3, <2>6, SendsIds DEF Ids, None
      <3> QED
        BY <1>3, <1>4, <1>5, <2>2, <2>3, <2>4, <2>6, <3>1 DEF OneId
    <2>7. CASE r \in requests /\ new[r] # msgId[r]
      <3>1. msgId'[r] = new[r] /\ new[r] # None
        BY <1>3, <2>7, SendsIds DEF Ids, None
      <3>2. msgId[r] = None \/ Renewing
        BY <1>3, <2>7 DEF Sends
      <3>3. CASE msgId[r] = None
        <4>1. \A m \in Ids : owner[m] # r
          BY <1>5, <3>3 DEF OneId
        <4> QED
          BY <1>4, <2>2, <2>3, <2>4, <3>1, <4>1
      <3>4. CASE Renewing
        <4>1. up = {} /\ \A m \in Ids : known'[m] # "done"
          BY <1>3, <3>4 DEF NotBegun
        <4> QED
          BY <1>4, <2>3, <3>1, <4>1
      <3> QED
        BY <3>2, <3>3, <3>4
    <2> QED
      BY <2>5, <2>6, <2>7
  <1>6. OneId'
    BY <1>3, <1>5 DEF OneId
  <1> QED
    BY <1>2, <1>6

LEMMA MainNextOneId ==
  ASSUME TypeInv, NotBegun, OneId, MainNext
  PROVE  NotBegun' /\ OneId'
  <1> USE DEF mainVars, idVars, sessionVars, historyVars, serverVars
  <1>1. UNCHANGED <<up, started, taken, known, epoch, lastId, owner>>
    BY DEF MainNext, SendRequest, Cancel, SendDelayed, CancelToSend,
           CancelHaveSent, ProcessCallback
  <1>2. NotBegun'
    BY <1>1, NotBegunFrame
  <1>3. ASSUME NEW r \in Requests, SendRequest(r)
        PROVE  OneId'
    <2>1. r \notin asked
      <3>1. r \in Nat
        BY RequestsAssumption
      <3> QED
        BY <1>3, <3>1 DEF SendRequest
    <2>2. \A m \in Ids : owner[m] # r
      BY <2>1, RequestsAssumption DEF TypeInv, IdsOfRequests, None
    <2>3. /\ UNCHANGED repeated
          /\ \A q \in Requests : q # r => msgId'[q] = msgId[q]
      BY <1>3 DEF SendRequest, SendPrepared, TypeInv, TypeOK
    <2>4. \A u \in up : \A m \in u.messages : m \in Ids
      BY DEF TypeInv, TypeOK, Upward
    <2> QED
      BY <1>1, <2>2, <2>3, <2>4 DEF OneId
  <1>4. ASSUME NEW r \in Requests, SendDelayed(r)
        PROVE  OneId'
    <2>1. /\ repeated' = repeated \cup {r}
          /\ \A q \in Requests : q # r => msgId'[q] = msgId[q]
      BY <1>4 DEF SendDelayed, SendPrepared, TypeInv, TypeOK
    <2> QED
      BY <1>1, <2>1 DEF OneId
  <1>5. CASE UNCHANGED <<repeated, msgId>>
    BY <1>1, <1>2, <1>5, OneIdFrame
  <1>6. (\E r \in Requests : Cancel(r)) \/ CancelToSend \/ CancelHaveSent
          \/ ProcessCallback => UNCHANGED <<repeated, msgId>>
    BY DEF Cancel, CancelToSend, CancelHaveSent, ProcessCallback
  <1> QED
    BY <1>2, <1>3, <1>4, <1>5, <1>6 DEF MainNext

LEMMA PrivateNextOneId ==
  ASSUME TypeInv, NotBegun, OneId, PrivateNext
  PROVE  NotBegun' /\ OneId'
  <1> USE DEF mainVars, idVars, sessionVars, historyVars, serverVars
  <1>1. ASSUME NEW r \in toSend, TakeOne(r)
        PROVE  NotBegun' /\ OneId'
    <2>1. /\ UNCHANGED <<up, known, epoch, lastId, owner, repeated, msgId>>
          /\ taken = Nothing /\ started' = TRUE
          /\ taken' = [request |-> r, renew |-> ~started]
      BY <1>1 DEF TakeOne, CanSend, PrivateIsFree
    <2>2. NotBegun'
      BY <2>1 DEF NotBegun, Renewing, Nothing
    <2> QED
      BY <2>1, <2>2, OneIdFrame
  <1>2. CASE SendOne
    BY <1>2, SendOneStep, SendingBegins
  <1>3. CASE SendState
    <2>1. /\ started' = TRUE /\ taken' = Nothing
          /\ UNCHANGED <<known, owner, repeated, msgId>>
          /\ \A u \in up' : u \in up \/ u.messages = {}
      BY <1>3 DEF SendState, CanSend, PrivateIsFree
    <2>2. NotBegun'
      BY <2>1 DEF NotBegun, Renewing, Nothing
    <2>3. OneId'
      BY <2>1 DEF OneId
    <2> QED
      BY <2>2, <2>3
  <1>4. ASSUME NEW requests \in SUBSET toSend, SendContainer(requests)
        PROVE  NotBegun' /\ OneId'
    BY <1>4, SendContainerStep, SendingBegins
  <1>5. ASSUME up' \subseteq up,
               UNCHANGED <<started, taken, known, epoch, lastId, repeated,
                           msgId, owner>>
        PROVE  NotBegun' /\ OneId'
    BY <1>5, NotBegunFrame, OneIdFrame
  <1>6. ASSUME NEW old \in SUBSET haveSent, CheckSentRequests(old)
        PROVE  NotBegun' /\ OneId'
    BY <1>5, <1>6 DEF CheckSentRequests
  <1>7. ASSUME NEW c \in Ids, ClearOldContainer(c)
        PROVE  NotBegun' /\ OneId'
    BY <1>5, <1>7 DEF ClearOldContainer
  <1>8. CASE Connected
    BY <1>5, <1>8 DEF Connected
  <1>9. CASE Disconnect
    BY <1>5, <1>9 DEF Disconnect
  <1>10. ASSUME NEW d \in down,
                \/ HandleResult(d) \/ HandleAck(d) \/ HandleInfo(d)
                \/ HandleNewSession(d)
         PROVE  NotBegun' /\ OneId'
    BY <1>5, <1>10 DEF HandleResult, HandleAck, HandleInfo, HandleNewSession,
       KeepsNumbers, KeepsSession
  <1>11. ASSUME NEW d \in down, HandleBad(d)
         PROVE  NotBegun' /\ OneId'
    <2>1. KeepsNumbers /\ PrivateIsFree /\ (KeepsSession \/ ResetSession)
      BY <1>11 DEF HandleBad
    <2>2. CASE KeepsSession
      BY <1>5, <2>1, <2>2 DEF KeepsNumbers, KeepsSession
    <2>3. CASE ResetSession
      <3>1. /\ UNCHANGED <<taken, repeated, msgId, owner>> /\ taken = Nothing
            /\ started' = FALSE /\ up' = {} /\ epoch' = epoch + 1
            /\ known' = [m \in Ids |-> IF known[m] = "refused" THEN "refused"
                                       ELSE "no"]
            /\ epoch \in Nat
        BY <2>1, <2>3 DEF KeepsNumbers, PrivateIsFree, ResetSession,
           NewServerSession, TypeInv, TypeOK
      <3>2. NotBegun'
        BY <3>1 DEF NotBegun, Renewing
      <3>3. OneId'
        BY <3>1 DEF OneId
      <3> QED
        BY <3>2, <3>3
    <2> QED
      BY <2>1, <2>2, <2>3
  <1> QED
    BY <1>1, <1>2, <1>3, <1>4, <1>6, <1>7, <1>8, <1>9, <1>10, <1>11
       DEF PrivateNext

LEMMA ServerNextOneId ==
  ASSUME TypeInv, NotBegun, OneId, ServerNext
  PROVE  NotBegun' /\ OneId'
  <1>1. UNCHANGED <<started, taken, lastId, repeated, msgId, owner>>
    BY DEF ServerNext, ServerReceives, ServerRejects, ServerForgets, ClientVars,
           mainVars, sessionVars, historyVars
  <1>2. ASSUME NEW u \in up, up' \subseteq up,
               \A m \in Ids : known'[m] = "done" =>
                  known[m] = "done" \/ m \in u.messages
        PROVE  NotBegun' /\ OneId'
    <2>1. NotBegun'
      BY <1>1, <1>2 DEF NotBegun, Renewing
    <2>2. OneId'
      BY <1>1, <1>2 DEF OneId
    <2> QED
      BY <2>1, <2>2
  <1>3. ASSUME NEW u \in up, ServerReceives(u)
        PROVE  NotBegun' /\ OneId'
    <2>1. up' \subseteq up
      BY <1>3 DEF ServerReceives
    <2>2. \A m \in Ids : known'[m] = "done" => known[m] = "done" \/ m \in u.messages
      BY <1>3 DEF ServerReceives
    <2> QED
      BY <1>2, <2>1, <2>2
  <1>4. ASSUME NEW u \in up, NEW why \in {"again", "session", "fatal"},
               ServerRejects(u, why)
        PROVE  NotBegun' /\ OneId'
    <2>1. up' \subseteq up
      BY <1>4 DEF ServerRejects
    <2>2. \A m \in Ids : known'[m] = "done" => known[m] = "done"
      BY <1>4 DEF ServerRejects, TypeInv, TypeOK
    <2> QED
      BY <1>2, <2>1, <2>2
  <1>5. CASE ServerForgets
    <2>1. /\ up' = up /\ epoch' = epoch + 1 /\ epoch \in Nat
          /\ known' = [m \in Ids |-> IF known[m] = "refused" THEN "refused"
                                     ELSE "no"]
      BY <1>5 DEF ServerForgets, NewServerSession, TypeInv, TypeOK
    <2>2. NotBegun'
      BY <1>1, <2>1 DEF NotBegun, Renewing
    <2>3. OneId'
      BY <1>1, <2>1 DEF OneId
    <2> QED
      BY <2>2, <2>3
  <1> QED
    BY <1>3, <1>4, <1>5 DEF ServerNext

-----------------------------------------------------------------------------
(* The first session of the server, in which nothing is known of a message *)
(* but what the session says: ids that are not those in the buffers are of *)
(* messages that failed, and a request is repeated or reported as failed   *)
(* only after that.                                                        *)

(* The client was told that this message failed, and was answered.         *)
Spent(m) == \/ known[m] = "again" /\ <<m, 0>> \in receivedIds
            \/ known[m] = "refused" /\ BadMessage(m) \notin down
Heard(m) == known[m] = "done" /\ <<m, 0>> \in receivedIds

OldIdsAreSpent ==
  \A m \in Ids : owner[m] # None /\ msgId[owner[m]] # m => Spent(m)

FailedIsSpent ==
  /\ \A r \in delayed : msgId[r] # None /\ Spent(msgId[r])
  /\ \A i \in DOMAIN received :
       /\ msgId[received[i].request] # None
       /\ received[i].result = "done" => Heard(msgId[received[i].request])
       /\ received[i].result = "again" =>
            /\ Spent(msgId[received[i].request])
            /\ received[i].request \notin delayed
  /\ \A i, j \in DOMAIN received :
       i # j /\ received[i].result = "again" /\ received[j].result = "again"
         => received[i].request # received[j].request

ServerAgrees ==
  /\ \A d \in down : d.type = "result" =>
        d.epoch = 0 /\ known[d.id] = d.result /\ owner[d.id] # None
  /\ \A m \in Ids : BadMessage(m) \in down => known[m] = "refused"
  /\ \A x \in receivedIds :
        x[2] = 0 /\ owner[x[1]] # None /\ known[x[1]] # "no"

FirstSession == epoch = 0 => OldIdsAreSpent /\ FailedIsSpent /\ ServerAgrees

(* A step that only forgets some of what is delayed or on its way.         *)
LEMMA FirstSessionFrame ==
  ASSUME TypeInv, FirstSession, epoch' = 0 => epoch = 0,
         delayed' \subseteq delayed, down' \subseteq down,
         UNCHANGED <<owner, msgId, known, receivedIds, received>>
  PROVE  FirstSession'
  <1> SUFFICES ASSUME epoch' = 0
               PROVE  OldIdsAreSpent' /\ FailedIsSpent' /\ ServerAgrees'
    BY DEF FirstSession
  <1>1. OldIdsAreSpent /\ FailedIsSpent /\ ServerAgrees
    BY DEF FirstSession
  <1>2. \A m : (Spent(m) => Spent(m)') /\ (Heard(m) => Heard(m)')
    BY DEF Spent, Heard, BadMessage
  <1>3. OldIdsAreSpent'
    BY <1>1, <1>2 DEF OldIdsAreSpent
  <1>4. FailedIsSpent'
    BY <1>1, <1>2 DEF FailedIsSpent
  <1>5. ServerAgrees'
    BY <1>1 DEF ServerAgrees, BadMessage
  <1> QED
    BY <1>3, <1>4, <1>5

(* A step that learns more of messages.                                    *)
LEMMA LearningKeeps ==
  ASSUME TypeInv, OldIdsAreSpent, FailedIsSpent,
         \A m \in Ids : (Spent(m) => Spent(m)') /\ (Heard(m) => Heard(m)'),
         UNCHANGED <<owner, msgId, delayed, received>>
  PROVE  OldIdsAreSpent' /\ FailedIsSpent'
  <1>1. OldIdsAreSpent'
    BY DEF OldIdsAreSpent
  <1>2. /\ \A r \in delayed : r \in Requests
        /\ \A i \in DOMAIN received : received[i].request \in Requests
        /\ \A r \in Requests : msgId[r] # None => msgId[r] \in Ids
    BY DEF TypeInv, TypeOK, IdsOfRequests
  <1>3. FailedIsSpent'
    BY <1>2 DEF FailedIsSpent
  <1> QED
    BY <1>1, <1>3

(* The answer, or the refusal, of a message that was not spent before: it  *)
(* is the message whose id is in the buffer of its request.                *)
LEMMA AnswerIsOfCurrentId ==
  ASSUME TypeInv, OldIdsAreSpent, FailedIsSpent,
         NEW m \in Ids, NEW result \in {"done", "again"},
         owner[m] # None, ~Spent(m),
         result = "again" => Spent(m)',
         result = "done" => Heard(m)',
         received' = Append(received, [request |-> owner[m], result |-> result]),
         \A n \in Ids : (Spent(n) => Spent(n)') /\ (Heard(n) => Heard(n)'),
         UNCHANGED <<owner, msgId, delayed>>
  PROVE  OldIdsAreSpent' /\ FailedIsSpent'
  <1> DEFINE r == owner[m]
             entry == [request |-> r, result |-> result]
  <1>1. OldIdsAreSpent'
    BY DEF OldIdsAreSpent
  <1>2. /\ \A q \in delayed : q \in Requests
        /\ \A i \in DOMAIN received : received[i].request \in Requests
        /\ \A q \in Requests : msgId[q] # None => msgId[q] \in Ids
        /\ r \in Requests
    BY DEF TypeInv, TypeOK, IdsOfRequests
  <1>3. msgId[r] = m /\ m # None
    BY DEF OldIdsAreSpent, Ids, None
  <1>4. /\ r \notin delayed
        /\ \A i \in DOMAIN received :
             received[i].result = "again" => received[i].request # r
    BY <1>3 DEF FailedIsSpent
  <1>5. /\ \A i \in DOMAIN received : received'[i] = received[i]
        /\ \A i \in DOMAIN received' : i \in DOMAIN received \/ received'[i] = entry
        /\ \A i, j \in DOMAIN received' :
              i = j \/ i \in DOMAIN received \/ j \in DOMAIN received
    <2>1. received \in Seq([request : Requests, result : {"done", "again"}])
      BY DEF TypeInv, TypeOK
    <2>2. entry \in [request : Requests, result : {"done", "again"}]
      BY <1>2
    <2>3. received' = Append(received, entry)
      OBVIOUS
    <2> HIDE DEF entry
    <2> QED
      BY <2>1, <2>2, <2>3
  <1>6. \A q \in delayed' : msgId'[q] # None /\ Spent(msgId[q])'
    BY <1>2 DEF FailedIsSpent
  <1>7. \A i \in DOMAIN received' :
          /\ msgId'[received'[i].request] # None
          /\ received'[i].result = "done" => Heard(msgId[received[i].request])'
          /\ received'[i].result = "again" =>
               /\ Spent(msgId[received[i].request])'
               /\ received'[i].request \notin delayed'
    <2> SUFFICES ASSUME NEW i \in DOMAIN received'
                 PROVE  /\ msgId'[received'[i].request] # None
                        /\ received'[i].result = "done" =>
                             Heard(msgId[received[i].request])'
                        /\ received'[i].result = "again" =>
                             /\ Spent(msgId[received[i].request])'
                             /\ received'[i].request \notin delayed'
      OBVIOUS
    <2>1. CASE i \in DOMAIN received
      BY <1>2, <1>5, <2>1 DEF FailedIsSpent
    <2>2. CASE received'[i] = entry
      BY <1>3, <1>4, <2>2
    <2> QED
      BY <1>5, <2>1, <2>2
  <1>8. \A i, j \in DOMAIN received' :
          i # j /\ received'[i].result = "again" /\ received'[j].result = "again"
            => received'[i].request # received'[j].request
    <2> SUFFICES ASSUME NEW i \in DOMAIN received', NEW j \in DOMAIN received',
                        i # j, received'[i].result = "again",
                        received'[j].result = "again"
                 PROVE  received'[i].request # received'[j].request
      OBVIOUS
    <2>1. CASE i \in DOMAIN received /\ j \in DOMAIN received
      BY <1>5, <2>1 DEF FailedIsSpent
    <2>2. CASE i \in DOMAIN received /\ received'[j] = entry
      BY <1>4, <1>5, <2>2
    <2>3. CASE j \in DOMAIN received /\ received'[i] = entry
      BY <1>4, <1>5, <2>3
    <2> QED
      BY <1>5, <2>1, <2>2, <2>3
  <1>9. FailedIsSpent'
    BY <1>6, <1>7, <1>8 DEF FailedIsSpent
  <1> QED
    BY <1>1, <1>9

(* The main thread.                                                        *)
LEMMA MainNextFirstSession ==
  ASSUME TypeInv, FirstSession, MainNext
  PROVE  FirstSession'
  <1> USE DEF mainVars, idVars, sessionVars, historyVars, serverVars
  <1>0. UNCHANGED <<owner, known, receivedIds, down, epoch>>
    BY DEF MainNext, SendRequest, Cancel, SendDelayed, CancelToSend,
           CancelHaveSent, ProcessCallback
  <1> SUFFICES ASSUME epoch = 0
               PROVE  OldIdsAreSpent' /\ FailedIsSpent' /\ ServerAgrees'
    BY <1>0 DEF FirstSession
  <1>1. OldIdsAreSpent /\ FailedIsSpent /\ ServerAgrees
    BY DEF FirstSession
  <1>2. ServerAgrees'
    BY <1>0, <1>1 DEF ServerAgrees, BadMessage
  <1>3. \A m : Spent(m)' = Spent(m) /\ Heard(m)' = Heard(m)
    BY <1>0 DEF Spent, Heard, BadMessage
  <1>4. ASSUME NEW r \in Requests,
               \A m \in Ids : owner[m] = r => Spent(m),
               \A q \in Requests : q # r => msgId'[q] = msgId[q],
               \A i \in DOMAIN received : received[i].request # r,
               delayed' \subseteq delayed \ {r}, UNCHANGED received
        PROVE  OldIdsAreSpent' /\ FailedIsSpent'
    <2>1. OldIdsAreSpent'
      BY <1>0, <1>1, <1>3, <1>4 DEF OldIdsAreSpent, TypeInv, TypeOK
    <2>2. /\ \A q \in delayed : q \in Requests
          /\ \A i \in DOMAIN received : received[i].request \in Requests
      BY DEF TypeInv, TypeOK, IdsOfRequests
    <2>3. FailedIsSpent'
      BY <1>1, <1>3, <1>4, <2>2 DEF FailedIsSpent
    <2> QED
      BY <2>1, <2>3
  <1>5. ASSUME NEW r \in Requests, SendRequest(r)
        PROVE  OldIdsAreSpent' /\ FailedIsSpent'
    <2>1. r \notin asked
      <3>1. r \in Nat
        BY RequestsAssumption
      <3> QED
        BY <1>5, <3>1 DEF SendRequest
    <2>2. /\ \A m \in Ids : owner[m] # r
          /\ r \notin delayed
          /\ \A i \in DOMAIN received : received[i].request # r
      BY <2>1, RequestsAssumption DEF TypeInv, TypeOK, IdsOfRequests, None
    <2>3. /\ \A q \in Requests : q # r => msgId'[q] = msgId[q]
          /\ UNCHANGED <<delayed, received>>
      BY <1>5 DEF SendRequest, SendPrepared, TypeInv, TypeOK
    <2> QED
      BY <1>4, <2>2, <2>3
  <1>6. ASSUME NEW r \in Requests, SendDelayed(r)
        PROVE  OldIdsAreSpent' /\ FailedIsSpent'
    <2>1. /\ \A q \in Requests : q # r => msgId'[q] = msgId[q]
          /\ delayed' = delayed \ {r} /\ r \in delayed /\ UNCHANGED received
      BY <1>6 DEF SendDelayed, SendPrepared, TypeInv, TypeOK
    <2>2. Spent(msgId[r]) /\ ~Heard(msgId[r])
      BY <1>1, <2>1 DEF FailedIsSpent, Spent, Heard
    <2>3. \A m \in Ids : owner[m] = r => Spent(m)
      <3>1. r # None
        BY RequestsAssumption DEF None
      <3> QED
        BY <1>1, <2>2, <3>1 DEF OldIdsAreSpent
    <2>4. \A i \in DOMAIN received : received[i].request # r
      <3> DEFINE Entry == [request : Requests, result : {"done", "again"}]
      <3>1. \A i \in DOMAIN received : received[i] \in Entry
        <4>1. received \in Seq(Entry)
          BY DEF TypeInv, TypeOK
        <4> HIDE DEF Entry
        <4> QED
          BY <4>1
      <3>2. \A i \in DOMAIN received : received[i].result \in {"done", "again"}
        BY <3>1
      <3> QED
        BY <1>1, <2>1, <2>2, <3>2 DEF FailedIsSpent
    <2> QED
      BY <1>4, <2>1, <2>3, <2>4
  <1>7. CASE ProcessCallback
    <2> DEFINE Entry == [request : Requests, result : {"done", "again"}]
    <2>1. received \in Seq(Entry) /\ received # <<>>
      BY <1>7 DEF TypeInv, TypeOK, ProcessCallback
    <2>2. /\ received' = Tail(received)
          /\ \A i \in DOMAIN received' : /\ received'[i] = received[i + 1]
                                         /\ i + 1 \in DOMAIN received
                                         /\ i + 1 # 1
          /\ \A i, j \in DOMAIN received' : i # j => i + 1 # j + 1
          /\ 1 \in DOMAIN received /\ received[1] \in Entry
          /\ Head(received) = received[1]
      <3> HIDE DEF Entry
      <3> QED
        BY <1>7, <2>1 DEF ProcessCallback
    <2> HIDE DEF Entry
    <2>3. OldIdsAreSpent'
      BY <1>0, <1>1, <1>3, <1>7 DEF OldIdsAreSpent, ProcessCallback
    <2> DEFINE r == received[1].request
    <2>4. /\ UNCHANGED msgId
          /\ \A q \in delayed' : q \in delayed \/ (q = r /\ received[1].result = "again")
      BY <1>7, <2>2 DEF ProcessCallback, Entry
    <2>5. \A q \in delayed' : msgId'[q] # None /\ Spent(msgId[q])'
      BY <1>1, <1>3, <2>2, <2>4 DEF FailedIsSpent
    <2>6. \A i \in DOMAIN received' :
            /\ msgId'[received'[i].request] # None
            /\ received'[i].result = "done" => Heard(msgId[received[i].request])'
            /\ received'[i].result = "again" =>
                 /\ Spent(msgId[received[i].request])'
                 /\ received'[i].request \notin delayed'
      BY <1>1, <1>3, <2>2, <2>4 DEF FailedIsSpent
    <2>7. \A i, j \in DOMAIN received' :
            i # j /\ received'[i].result = "again" /\ received'[j].result = "again"
              => received'[i].request # received'[j].request
      BY <1>1, <2>2 DEF FailedIsSpent
    <2> QED
      BY <1>2, <2>3, <2>5, <2>6, <2>7 DEF FailedIsSpent
  <1>8. ASSUME delayed' \subseteq delayed, UNCHANGED <<msgId, received>>
        PROVE  OldIdsAreSpent' /\ FailedIsSpent'
    BY <1>0, <1>1, <1>8, FirstSessionFrame DEF FirstSession
  <1>9. ASSUME NEW r \in Requests, Cancel(r)
        PROVE  OldIdsAreSpent' /\ FailedIsSpent'
    BY <1>8, <1>9 DEF Cancel
  <1>10. CASE CancelToSend \/ CancelHaveSent
    BY <1>2, <1>8, <1>10 DEF CancelToSend, CancelHaveSent
  <1> QED
    BY <1>2, <1>5, <1>6, <1>7, <1>9, <1>10 DEF MainNext

(* Sending gives another id only to a request that has none.               *)
LEMMA SendingFirstSession ==
  ASSUME TypeInv, NotBegun, FirstSession,
         NEW requests, NEW new, SendingStep(requests, new)
  PROVE  FirstSession'
  <1>1. /\ Sends(requests, new)
        /\ UNCHANGED <<delayed, received, receivedIds, down, known, epoch>>
    BY DEF SendingStep, mainVars, serverVars
  <1> SUFFICES ASSUME epoch = 0
               PROVE  OldIdsAreSpent' /\ FailedIsSpent' /\ ServerAgrees'
    BY <1>1 DEF FirstSession
  <1>2. OldIdsAreSpent /\ FailedIsSpent /\ ServerAgrees
    BY DEF FirstSession
  <1>3. \A m : Spent(m)' = Spent(m) /\ Heard(m)' = Heard(m)
    BY <1>1 DEF Spent, Heard, BadMessage
  <1>4. \A q \in Requests : msgId[q] # None => msgId'[q] = msgId[q]
    <2> SUFFICES ASSUME NEW q \in Requests, msgId[q] # None
                 PROVE  msgId'[q] = msgId[q]
      OBVIOUS
    <2>1. CASE q \notin requests
      BY <1>1, <2>1, SendsIds
    <2>2. CASE q \in requests
      <3>1. msgId'[q] = new[q]
        BY <1>1, <2>2, SendsIds
      <3>2. ~Renewing
        <4>1. msgId[q] \in Ids /\ owner[msgId[q]] # None
          BY RequestsAssumption DEF TypeInv, TypeOK, IdsOfRequests, None
        <4>2. msgId[q] <= lastId /\ msgId[q] >= 1
          BY <4>1 DEF TypeInv, IdsOfRequests, Ids
        <4>3. lastId # None
          BY <4>1, <4>2 DEF Ids, None
        <4> QED
          BY <4>3 DEF NotBegun
      <3> QED
        BY <1>1, <2>2, <3>1, <3>2 DEF Sends
    <2> QED
      BY <2>1, <2>2
  <1>5. OldIdsAreSpent'
    <2> SUFFICES ASSUME NEW m \in Ids, owner'[m] # None, msgId'[owner'[m]] # m
                 PROVE  Spent(m)
      BY <1>3 DEF OldIdsAreSpent
    <2>1. owner'[m] = owner[m]
      BY <1>1, SendsIds
    <2>2. owner[m] \in Requests
      BY <2>1 DEF TypeInv, TypeOK
    <2> QED
      BY <1>2, <1>4, <2>1, <2>2 DEF OldIdsAreSpent, Ids, None
  <1>6. FailedIsSpent'
    <2>1. /\ \A q \in delayed : q \in Requests
          /\ \A i \in DOMAIN received : received[i].request \in Requests
      BY DEF TypeInv, TypeOK, IdsOfRequests
    <2> QED
      BY <1>1, <1>2, <1>3, <1>4, <2>1 DEF FailedIsSpent
  <1>7. ServerAgrees'
    <2>1. /\ \A d \in down : d.id \in Ids \/ d.type # "result"
          /\ \A x \in receivedIds : x[1] \in Ids
      BY DEF TypeInv, TypeOK, Downward
    <2>2. \A m \in Ids : owner[m] # None => owner'[m] # None
      BY <1>1, SendsIds
    <2> QED
      BY <1>1, <1>2, <2>1, <2>2 DEF ServerAgrees, BadMessage
  <1> QED
    BY <1>5, <1>6, <1>7

(* What the client receives.                                               *)
LEMMA HandlersFirstSession ==
  ASSUME TypeInv, FirstSession, NEW d \in down,
         \/ HandleResult(d) \/ HandleAck(d) \/ HandleBad(d)
         \/ HandleInfo(d) \/ HandleNewSession(d)
  PROVE  FirstSession'
  <1> USE DEF mainVars, historyVars, KeepsNumbers, KeepsSession
  <1>0. /\ d \in Downward /\ (d.id \in Ids \/ d.type = "session")
        /\ epoch \in Nat
    BY DEF TypeInv, TypeOK, Downward
  <1>1. CASE HandleAck(d) \/ HandleInfo(d) \/ HandleNewSession(d)
    <2>1. /\ down' \subseteq down
          /\ UNCHANGED <<owner, msgId, known, receivedIds, received, epoch, delayed>>
      BY <1>1 DEF HandleAck, HandleInfo, HandleNewSession, Receive
    <2> QED
      BY <2>1, FirstSessionFrame
  <1>2. CASE HandleResult(d)
    <2>0. /\ d.id \in Ids /\ d.type = "result"
          /\ receivedIds' = receivedIds \cup {<<d.id, d.epoch>>}
          /\ down' = down \ {d}
          /\ UNCHANGED <<owner, msgId, known, epoch, delayed>>
          /\ <<d.id, d.epoch>> \in receivedIds => UNCHANGED received
          /\ <<d.id, d.epoch>> \notin receivedIds => Answered(d.id, d.result)
      BY <1>0, <1>2 DEF HandleResult, Receive
    <2> SUFFICES ASSUME epoch = 0
                 PROVE  OldIdsAreSpent' /\ FailedIsSpent' /\ ServerAgrees'
      BY <2>0 DEF FirstSession
    <2>1. OldIdsAreSpent /\ FailedIsSpent /\ ServerAgrees
      BY DEF FirstSession
    <2>2. /\ d.epoch = 0 /\ known[d.id] = d.result /\ owner[d.id] # None
          /\ d.result \in {"done", "again"}
      BY <1>0, <2>0, <2>1 DEF ServerAgrees, Downward
    <2>3. \A m \in Ids : (Spent(m) => Spent(m)') /\ (Heard(m) => Heard(m)')
      BY <2>0 DEF Spent, Heard, BadMessage
    <2>4. ServerAgrees'
      BY <2>0, <2>1, <2>2 DEF ServerAgrees, BadMessage
    <2>5. CASE UNCHANGED received
      BY <2>0, <2>1, <2>3, <2>4, <2>5, LearningKeeps
    <2>6. CASE received' # received
      <3>1. /\ <<d.id, 0>> \notin receivedIds
            /\ received' = Append(received, [request |-> owner[d.id],
                                             result |-> d.result])
        BY <2>0, <2>2, <2>6 DEF Answered
      <3>2. ~Spent(d.id)
        BY <2>2, <3>1 DEF Spent
      <3>3. /\ d.result = "again" => Spent(d.id)'
            /\ d.result = "done" => Heard(d.id)'
        BY <2>0, <2>2 DEF Spent, Heard
      <3> QED
        BY <2>0, <2>1, <2>2, <2>3, <2>4, <3>1, <3>2, <3>3, AnswerIsOfCurrentId
    <2> QED
      BY <2>5, <2>6
  <1>3. CASE HandleBad(d)
    <2>0. d.type = "bad" /\ d.id \in Ids /\ UNCHANGED <<owner, msgId, delayed>>
      BY <1>0, <1>3 DEF HandleBad
    <2>1. CASE epoch' = 0 /\ UNCHANGED <<received, receivedIds, known>>
      <3>1. down' \subseteq down /\ epoch = 0
        <4>1. epoch' = epoch \/ epoch' = epoch + 1
          BY <1>3 DEF HandleBad, ResetSession, NewServerSession
        <4>2. down' \subseteq down
          BY <1>3 DEF HandleBad, ResetSession
        <4> QED
          BY <1>0, <2>1, <4>1, <4>2
      <3> QED
        BY <2>0, <2>1, <3>1, FirstSessionFrame
    <2>2. CASE epoch' # 0
      BY <2>2 DEF FirstSession
    <2>3. CASE /\ epoch' = 0 /\ WasSent(d.id) /\ d.why = "fatal"
               /\ down' = down \ {d}
               /\ received' = Append(received, [request |-> owner[d.id],
                                                result |-> "again"])
               /\ KeepsSession /\ UNCHANGED receivedIds
      <3>1. d = BadMessage(d.id)
        BY <1>0, <2>0, <2>3 DEF Downward, BadMessage
      <3>2. /\ epoch = 0 /\ UNCHANGED known
            /\ OldIdsAreSpent /\ FailedIsSpent /\ ServerAgrees
        BY <2>3 DEF FirstSession
      <3>3. known[d.id] = "refused" /\ owner[d.id] # None
        BY <2>0, <3>1, <3>2 DEF ServerAgrees, TypeInv, IdsOfRequests
      <3>4. \A m \in Ids : (Spent(m) => Spent(m)') /\ (Heard(m) => Heard(m)')
        BY <2>3, <3>2 DEF Spent, Heard, BadMessage
      <3>5. ~Spent(d.id) /\ Spent(d.id)'
        BY <2>3, <3>1, <3>2, <3>3 DEF Spent, BadMessage
      <3>6. ServerAgrees'
        BY <2>0, <2>3, <3>2 DEF ServerAgrees, BadMessage
      <3>7. OldIdsAreSpent' /\ FailedIsSpent'
        BY <2>0, <2>3, <3>2, <3>3, <3>4, <3>5, AnswerIsOfCurrentId
      <3> QED
        BY <3>6, <3>7 DEF FirstSession
    <2> QED
      <3>1. \/ ResetSession
            \/ UNCHANGED <<received, receivedIds, known>>
            \/ /\ WasSent(d.id) /\ d.why = "fatal"
               /\ down' = down \ {d}
               /\ received' = Append(received, [request |-> owner[d.id],
                                                result |-> "again"])
               /\ KeepsSession /\ UNCHANGED receivedIds
        BY <1>3 DEF HandleBad
      <3>2. ResetSession => epoch' # 0
        BY <1>0 DEF ResetSession, NewServerSession
      <3> QED
        BY <2>1, <2>2, <2>3, <3>1, <3>2
  <1> QED
    BY <1>1, <1>2, <1>3

(* The server.                                                             *)
LEMMA ServerFirstSession ==
  ASSUME TypeInv, FirstSession, ServerNext
  PROVE  FirstSession'
  <1>0. epoch \in Nat /\ known \in [Ids -> {"no", "done", "again", "refused"}]
    BY DEF TypeInv, TypeOK
  <1>1. UNCHANGED <<owner, msgId, delayed, received, receivedIds>>
    BY DEF ServerNext, ServerReceives, ServerRejects, ServerForgets, ClientVars,
           mainVars, sessionVars, historyVars
  <1>2. ASSUME NEW u \in up, ServerReceives(u), epoch = 0
        PROVE  OldIdsAreSpent' /\ FailedIsSpent' /\ ServerAgrees'
    <2>1. OldIdsAreSpent /\ FailedIsSpent /\ ServerAgrees
      BY <1>2 DEF FirstSession
    <2>2. u.messages \in SUBSET Ids /\ \A m \in u.messages : owner[m] # None
      BY DEF TypeInv, TypeOK, IdsOfRequests, Upward
    <2>3. PICK again \in SUBSET {m \in u.messages : known[m] = "no"} :
             known' = [m \in Ids |->
                         IF m \in again THEN "again"
                         ELSE IF m \in u.messages /\ known[m] = "no" THEN "done"
                         ELSE known[m]]
      BY <1>2 DEF ServerReceives
    <2>4. /\ \A m \in Ids : known[m] # "no" => known'[m] = known[m]
          /\ \A m \in u.messages : known'[m] # "no"
      BY <2>2, <2>3
    <2>5. \A e \in down' \ down :
             \/ e.type \in {"ack", "info", "session"}
             \/ /\ e.type = "result" /\ e.id \in u.messages
                /\ e.epoch = 0 /\ e.result = known'[e.id]
      BY <1>2 DEF ServerReceives
    <2>6. \A m \in Ids : BadMessage(m) \in down' => BadMessage(m) \in down
      BY <2>5 DEF BadMessage
    <2>7. \A m \in Ids : (Spent(m) => Spent(m)') /\ (Heard(m) => Heard(m)')
      BY <1>1, <2>4, <2>6 DEF Spent, Heard, BadMessage
    <2>8. ServerAgrees'
      <3>1. \A e \in down' : e.type = "result" =>
               e.epoch = 0 /\ known'[e.id] = e.result /\ owner'[e.id] # None
        <4> SUFFICES ASSUME NEW e \in down', e.type = "result"
                     PROVE  /\ e.epoch = 0 /\ known'[e.id] = e.result
                            /\ owner'[e.id] # None
          OBVIOUS
        <4>1. CASE e \in down
          <5>1. e.id \in Ids /\ e.result # "no"
            BY <4>1 DEF TypeInv, TypeOK, Downward
          <5> QED
            BY <1>1, <2>1, <2>4, <4>1, <5>1 DEF ServerAgrees
        <4>2. CASE e \notin down
          BY <1>1, <2>2, <2>5, <4>2
        <4> QED
          BY <4>1, <4>2
      <3>2. \A m \in Ids : BadMessage(m) \in down' => known'[m] = "refused"
        BY <2>1, <2>4, <2>6 DEF ServerAgrees
      <3>3. \A x \in receivedIds :
               x[2] = 0 /\ owner[x[1]] # None /\ known'[x[1]] # "no"
        <4>1. \A x \in receivedIds : x[1] \in Ids
          BY DEF TypeInv, TypeOK
        <4> QED
          BY <2>1, <2>4, <4>1 DEF ServerAgrees
      <3> QED
        BY <1>1, <3>1, <3>2, <3>3 DEF ServerAgrees, BadMessage
    <2> QED
      BY <1>1, <2>1, <2>7, <2>8, LearningKeeps
  <1>3. ASSUME NEW u \in up, NEW why \in {"again", "session", "fatal"},
               ServerRejects(u, why), epoch = 0
        PROVE  OldIdsAreSpent' /\ FailedIsSpent' /\ ServerAgrees'
    <2>1. OldIdsAreSpent /\ FailedIsSpent /\ ServerAgrees
      BY <1>3 DEF FirstSession
    <2>2. /\ u.id \in Ids
          /\ why = "fatal" => /\ known[u.id] = "no"
                              /\ known' = [known EXCEPT ![u.id] = "refused"]
          /\ why # "fatal" => known' = known
          /\ down' = down \cup {[type |-> "bad", id |-> u.id, why |-> why]}
      BY <1>3 DEF ServerRejects, TypeInv, TypeOK, Upward
    <2>3. \A m \in Ids : known[m] # "no" => known'[m] = known[m]
      BY <1>0, <2>2
    <2>4. \A m \in Ids : BadMessage(m) \in down' =>
             \/ BadMessage(m) \in down
             \/ known[m] = "no" /\ known'[m] = "refused"
      BY <1>0, <2>2 DEF BadMessage
    <2>5. \A m \in Ids : (Spent(m) => Spent(m)') /\ (Heard(m) => Heard(m)')
      BY <1>1, <2>3, <2>4 DEF Spent, Heard, BadMessage
    <2>6. ServerAgrees'
      <3>1. \A e \in down' : e.type = "result" =>
               e.epoch = 0 /\ known'[e.id] = e.result /\ owner'[e.id] # None
        <4>1. \A e \in down : e.type = "result" => e.id \in Ids /\ e.result # "no"
          BY DEF TypeInv, TypeOK, Downward
        <4> QED
          BY <1>1, <2>1, <2>2, <2>3, <4>1 DEF ServerAgrees
      <3>2. \A m \in Ids : BadMessage(m) \in down' => known'[m] = "refused"
        BY <2>1, <2>3, <2>4 DEF ServerAgrees
      <3>3. \A x \in receivedIds :
               x[2] = 0 /\ owner[x[1]] # None /\ known'[x[1]] # "no"
        <4>1. \A x \in receivedIds : x[1] \in Ids
          BY DEF TypeInv, TypeOK
        <4> QED
          BY <2>1, <2>3, <4>1 DEF ServerAgrees
      <3> QED
        BY <1>1, <3>1, <3>2, <3>3 DEF ServerAgrees, BadMessage
    <2> QED
      BY <1>1, <2>1, <2>5, <2>6, LearningKeeps
  <1>4. CASE ServerForgets
    BY <1>0, <1>4 DEF ServerForgets, NewServerSession, FirstSession
  <1>5. ASSUME NEW u \in up,
               ServerReceives(u)
                 \/ \E why \in {"again", "session", "fatal"} : ServerRejects(u, why)
        PROVE  epoch' = epoch
    BY <1>5 DEF ServerReceives, ServerRejects
  <1> QED
    BY <1>2, <1>3, <1>4, <1>5 DEF ServerNext, FirstSession

LEMMA PrivateNextFirstSession ==
  ASSUME TypeInv, NotBegun, FirstSession, PrivateNext
  PROVE  FirstSession'
  <1> USE DEF mainVars, idVars, sessionVars, historyVars, serverVars
  <1>1. ASSUME UNCHANGED <<owner, msgId, known, receivedIds, received, epoch,
                           delayed>>, down' \subseteq down
        PROVE  FirstSession'
    BY <1>1, FirstSessionFrame
  <1>2. ASSUME NEW r \in toSend, TakeOne(r)
        PROVE  FirstSession'
    BY <1>1, <1>2 DEF TakeOne
  <1>3. CASE SendOne
    BY <1>3, SendOneStep, SendingFirstSession
  <1>4. CASE SendState
    BY <1>1, <1>4 DEF SendState
  <1>5. ASSUME NEW requests \in SUBSET toSend, SendContainer(requests)
        PROVE  FirstSession'
    BY <1>5, SendContainerStep, SendingFirstSession
  <1>6. ASSUME NEW old \in SUBSET haveSent, CheckSentRequests(old)
        PROVE  FirstSession'
    BY <1>1, <1>6 DEF CheckSentRequests
  <1>7. ASSUME NEW c \in Ids, ClearOldContainer(c)
        PROVE  FirstSession'
    BY <1>1, <1>7 DEF ClearOldContainer
  <1>8. CASE Connected
    BY <1>1, <1>8 DEF Connected
  <1>9. CASE Disconnect
    BY <1>1, <1>9 DEF Disconnect
  <1> QED
    BY <1>2, <1>3, <1>4, <1>5, <1>6, <1>7, <1>8, <1>9, HandlersFirstSession
       DEF PrivateNext

(* What is true in every state of the ids and of the first session.        *)
SessionInv == TypeInv /\ NotBegun /\ OneId /\ FirstSession

LEMMA InitSessionInv == Init => SessionInv
  <1> SUFFICES ASSUME Init
               PROVE  SessionInv
    OBVIOUS
  <1>1. \A m \in Ids : owner[m] = None
    BY DEF Init
  <1>2. NotBegun
    BY DEF Init, NotBegun, Renewing, Nothing
  <1>3. OneId
    BY <1>1, RequestsAssumption DEF Init, OneId, None
  <1>4. FirstSession
    BY <1>1 DEF Init, FirstSession, OldIdsAreSpent, FailedIsSpent, ServerAgrees
  <1> QED
    BY <1>2, <1>3, <1>4, InitTypeInv DEF SessionInv

LEMMA NextSessionInv == SessionInv /\ [Next]_vars => SessionInv'
  <1> SUFFICES ASSUME SessionInv, [Next]_vars
               PROVE  SessionInv'
    OBVIOUS
  <1>1. CASE MainNext
    BY <1>1, MainNextTypeInv, MainNextOneId, MainNextFirstSession DEF SessionInv
  <1>2. CASE PrivateNext
    BY <1>2, NextTypeInv, PrivateNextOneId, PrivateNextFirstSession DEF SessionInv
  <1>3. CASE ServerNext
    BY <1>3, ServerTypeInv, ServerNextOneId, ServerFirstSession DEF SessionInv
  <1>4. CASE UNCHANGED vars
    <2> USE <1>4 DEF vars, mainVars, idVars, sessionVars, historyVars, serverVars
    <2>1. TypeInv'
      BY NextTypeInv DEF SessionInv
    <2>2. NotBegun' /\ OneId'
      BY NotBegunFrame, OneIdFrame DEF SessionInv
    <2>3. FirstSession'
      BY FirstSessionFrame DEF SessionInv
    <2> QED
      BY <2>1, <2>2, <2>3 DEF SessionInv
  <1> QED
    BY <1>1, <1>2, <1>3, <1>4 DEF Next

THEOREM SessionInvCorrect == Spec => []SessionInv
  <1> QED
    BY InitSessionInv, NextSessionInv, PTL DEF Spec

(* A session of the server executes a request once, whatever is resent,    *)
(* answered twice or rejected (mtproto/session_private.cpp): it is always  *)
(* sent under the same id, but for a request that failed, was repeated and *)
(* met a later session of the server.                                      *)
THEOREM ExecutesOnce == Spec => []ExecutedOnce
  <1>1. SessionInv => ExecutedOnce
    <2> SUFFICES ASSUME SessionInv, NEW m \in Ids, NEW n \in Ids,
                        known[m] = "done", known[n] = "done",
                        owner[m] = owner[n], owner[m] # None,
                        ~(epoch > 0 /\ owner[m] \in repeated)
                 PROVE  m = n
      BY DEF ExecutedOnce
    <2>1. owner[m] \in Requests /\ epoch \in Nat
      BY DEF SessionInv, TypeInv, TypeOK
    <2>2. CASE owner[m] \notin repeated
      BY <2>1, <2>2 DEF SessionInv, OneId
    <2>3. CASE epoch = 0
      <3>1. ~Spent(m) /\ ~Spent(n)
        BY DEF Spent
      <3> QED
        BY <2>3, <3>1 DEF SessionInv, FirstSession, OldIdsAreSpent
    <2> QED
      BY <2>1, <2>2, <2>3
  <1> QED
    BY <1>1, SessionInvCorrect, PTL

-----------------------------------------------------------------------------
(* Where the messages of a request are in the first session.               *)

(* A message of the request was refused: handleOneReceived tells the main  *)
(* thread, and leaves the message in _haveSent.                            *)
Refused(r) == \E m \in Ids : owner[m] = r /\ known[m] = "refused"

(* An answered message is not in _haveSent and, if it is the last of its   *)
(* request, neither is the request in _toSend or taken from it; a request  *)
(* that waits is not in _haveSent under the id in its buffer, and if it    *)
(* has one it was returned to _toSend.                                     *)
InPlace(r) ==
  /\ \A m \in Ids : owner[m] = r /\ <<m, 0>> \in receivedIds =>
        m \notin haveSent /\ (m = msgId[r] => r # taken.request /\ r \notin toSend)
  /\ r \in toSend \/ r = taken.request => msgId[r] \notin haveSent
  /\ r \in toSend /\ msgId[r] # None => msgId[r] \in resendingIds
  /\ r = taken.request => r \notin toSend

Places == epoch = 0 => \A r \in Requests : Refused(r) \/ InPlace(r)

(* A step that only removes messages from the maps.                        *)
LEMMA PlacesFrame ==
  ASSUME Places, epoch' = 0 => epoch = 0,
         toSend' \subseteq toSend, haveSent' \subseteq haveSent,
         \A m \in Ids : known[m] = "refused" => known'[m] = "refused",
         UNCHANGED <<resendingIds, receivedIds, taken, msgId, owner>>
  PROVE  Places'
  <1> SUFFICES ASSUME epoch' = 0, NEW r \in Requests, ~Refused(r)'
               PROVE  InPlace(r)'
    BY DEF Places
  <1>1. InPlace(r)
    BY DEF Places, Refused
  <1> QED
    BY <1>1 DEF InPlace

(* What is in _haveSent is there under the id in the buffer.               *)
LEMMA SentUnderCurrentId ==
  ASSUME TypeInv, FirstSession, epoch = 0, NEW r \in Requests,
         ~Refused(r), InPlace(r), NEW m \in haveSent, owner[m] = r
  PROVE  m = msgId[r] /\ <<m, 0>> \notin receivedIds
  <1>1. m \in Ids /\ owner[m] # None
    BY DEF TypeInv, TypeOK, IdsOfRequests
  <1>2. <<m, 0>> \notin receivedIds
    BY <1>1 DEF InPlace
  <1>3. ~Spent(m)
    BY <1>1, <1>2 DEF Spent, Refused
  <1> QED
    BY <1>1, <1>2, <1>3 DEF FirstSession, OldIdsAreSpent

(* The main thread sends a request anew.                                   *)
LEMMA SendPreparedPlaces ==
  ASSUME TypeInv, Places, epoch = 0, NEW r \in Requests, SendPrepared(r),
         Refused(r) \/ r # taken.request,
         UNCHANGED <<epoch, haveSent, resendingIds, receivedIds, taken, owner,
                     known>>
  PROVE  Places'
  <1>1. /\ toSend' = toSend \cup {r} /\ msgId'[r] = None
        /\ \A q \in Requests : q # r => msgId'[q] = msgId[q]
    BY DEF SendPrepared, TypeInv, TypeOK
  <1>2. None \notin haveSent /\ None \notin Ids
    BY DEF TypeInv, TypeOK, Ids, None
  <1> SUFFICES ASSUME NEW q \in Requests, ~Refused(q)
               PROVE  InPlace(q)'
    BY DEF Places, Refused
  <1>3. InPlace(q)
    BY DEF Places
  <1>4. CASE q = r
    BY <1>1, <1>2, <1>3, <1>4 DEF InPlace
  <1>5. CASE q # r
    BY <1>1, <1>3, <1>5 DEF InPlace
  <1> QED
    BY <1>4, <1>5

LEMMA MainNextPlaces ==
  ASSUME TypeInv, FirstSession, Places, MainNext
  PROVE  Places'
  <1> USE DEF mainVars, idVars, sessionVars, historyVars, serverVars
  <1>1. UNCHANGED <<epoch, resendingIds, receivedIds, taken, owner, known>>
    BY DEF MainNext, SendRequest, Cancel, SendDelayed, CancelToSend,
           CancelHaveSent, ProcessCallback
  <1>2. CASE epoch # 0
    BY <1>1, <1>2 DEF Places
  <1>3. ASSUME epoch = 0, NEW r \in Requests, SendRequest(r)
        PROVE  Places'
    <2>1. r \notin asked
      <3>1. r \in Nat
        BY RequestsAssumption
      <3> QED
        BY <1>3, <3>1 DEF SendRequest
    <2>2. r # taken.request
      BY <2>1, RequestsAssumption DEF TypeInv, RequestsInHand, None
    <2>3. SendPrepared(r) /\ UNCHANGED haveSent
      BY <1>3 DEF SendRequest
    <2> QED
      BY <1>1, <1>3, <2>2, <2>3, SendPreparedPlaces
  <1>4. ASSUME epoch = 0, NEW r \in Requests, SendDelayed(r)
        PROVE  Places'
    <2>1. SendPrepared(r) /\ r \in delayed /\ UNCHANGED haveSent
      BY <1>4 DEF SendDelayed
    <2>2. msgId[r] # None /\ Spent(msgId[r])
      BY <1>4, <2>1 DEF FirstSession, FailedIsSpent
    <2>3. msgId[r] \in Ids /\ owner[msgId[r]] = r
      BY <2>2 DEF TypeInv, TypeOK, IdsOfRequests
    <2>4. Refused(r) \/ r # taken.request
      BY <1>4, <2>2, <2>3 DEF Places, InPlace, Refused, Spent
    <2> QED
      BY <1>1, <1>4, <2>1, <2>4, SendPreparedPlaces
  <1>5. ASSUME toSend' \subseteq toSend, haveSent' \subseteq haveSent,
               UNCHANGED msgId
        PROVE  Places'
    BY <1>1, <1>5, PlacesFrame
  <1>6. ASSUME NEW r \in Requests, Cancel(r)
        PROVE  Places'
    BY <1>5, <1>6 DEF Cancel
  <1>7. CASE CancelToSend \/ CancelHaveSent \/ ProcessCallback
    BY <1>5, <1>7 DEF CancelToSend, CancelHaveSent, ProcessCallback
  <1> QED
    BY <1>2, <1>3, <1>4, <1>6, <1>7 DEF MainNext

(* Messages that move between the maps.                                    *)
LEMMA MovesPlaces ==
  ASSUME TypeInv, FirstSession, Places, epoch = 0,
         NEW lost, NEW sent, NEW resent, Moves(lost, sent, resent),
         taken = Nothing, UNCHANGED <<epoch, taken, msgId, owner, known>>,
         receivedIds \subseteq receivedIds',
         \A m \in Ids : <<m, 0>> \in receivedIds' =>
            \/ <<m, 0>> \in receivedIds
            \/ /\ m \in haveSent => m \in sent
               /\ m \in resendingIds \ haveSent => m \in resent
               /\ lost = {}
  PROVE  Places'
  <1> SUFFICES ASSUME NEW r \in Requests, ~Refused(r)
               PROVE  InPlace(r)'
    BY DEF Places, Refused
  <1>1. InPlace(r)
    BY DEF Places
  <1>2. \A l \in lost : owner[l] = r =>
           l = msgId[r] /\ l \in haveSent /\ <<l, 0>> \notin receivedIds
    BY <1>1, SentUnderCurrentId DEF Moves
  <1>3. r # taken'.request
    BY RequestsAssumption DEF Nothing, None
  <1>4. /\ haveSent' \subseteq haveSent
        /\ \A m \in haveSent' : m \notin lost /\ m \notin sent
        /\ resendingIds' = (resendingIds \cup lost) \ resent
    BY DEF Moves
  <1>5. r \in toSend' => /\ r \in toSend \/ \E l \in lost : owner[l] = r
                         /\ \A m \in resent : owner[m] # r
    BY RequestsAssumption DEF Moves, Owners, None
  <1>6. msgId[r] # None => msgId[r] \in Ids /\ owner[msgId[r]] = r
    BY DEF TypeInv, TypeOK, IdsOfRequests
  <1>7. r \in toSend' => msgId[r] \notin haveSent'
    BY <1>1, <1>2, <1>4, <1>5 DEF InPlace
  <1>8. r \in toSend' /\ msgId[r] # None => msgId[r] \in resendingIds'
    BY <1>1, <1>2, <1>4, <1>5, <1>6 DEF InPlace
  <1>9. ASSUME NEW m \in Ids, owner[m] = r, <<m, 0>> \in receivedIds'
        PROVE  m \notin haveSent' /\ (m = msgId[r] => r \notin toSend')
    <2>1. CASE <<m, 0>> \in receivedIds
      BY <1>1, <1>2, <1>4, <1>5, <1>9, <2>1 DEF InPlace
    <2>2. CASE <<m, 0>> \notin receivedIds
      <3>1. /\ m \in haveSent => m \in sent
            /\ m \in resendingIds \ haveSent => m \in resent
            /\ lost = {}
        BY <1>9, <2>2
      <3>2. m # None
        BY DEF Ids, None
      <3> QED
        BY <1>1, <1>4, <1>5, <1>9, <3>1, <3>2 DEF InPlace
    <2> QED
      BY <2>1, <2>2
  <1> QED
    BY <1>3, <1>7, <1>8, <1>9 DEF InPlace

(* Sending.                                                                *)
LEMMA SendingPlaces ==
  ASSUME TypeInv, NotBegun, FirstSession, Places,
         NEW requests, NEW new, SendingStep(requests, new)
  PROVE  Places'
  <1>1. /\ Sends(requests, new) /\ taken' = Nothing
        /\ \/ toSend' = toSend /\ requests = {taken.request} /\ taken # Nothing
           \/ /\ toSend' = toSend \ requests /\ requests \subseteq toSend
              /\ taken = Nothing
        /\ UNCHANGED <<receivedIds, known, epoch>>
    BY DEF SendingStep, serverVars
  <1> SUFFICES ASSUME epoch = 0, NEW r \in Requests, ~Refused(r)'
               PROVE  InPlace(r)'
    BY <1>1 DEF Places
  <1>2. \A m \in Ids : owner[m] # None => owner'[m] = owner[m]
    BY <1>1, SendsIds
  <1>3. r # None
    BY RequestsAssumption DEF None
  <1>4. InPlace(r)
    BY <1>1, <1>2, <1>3 DEF Places, Refused
  <1>5. r # taken'.request
    BY <1>1, <1>3 DEF Nothing
  <1>6. \A m \in Ids : <<m, 0>> \in receivedIds => owner[m] # None
    BY DEF FirstSession, ServerAgrees
  <1>7. /\ \A m \in Ids : m \in haveSent' <=>
              \/ \E q \in requests : new[q] = m
              \/ m \in haveSent /\ \A q \in requests : msgId[q] # m
        /\ \A m \in Ids : m \in resendingIds' <=>
              m \in resendingIds /\ \A q \in requests : msgId[q] # m
        /\ haveSent' \subseteq Ids
    BY <1>1, SendsMaps
  <1>8. \A q \in requests : /\ q \in Requests /\ q # None
                            /\ owner'[new[q]] = q /\ new[q] \in Ids
                            /\ msgId'[q] = new[q]
    <2>1. \A q \in requests : q \in Requests /\ q # None
      BY <1>1, RequestsAssumption DEF Sends, TypeInv, TypeOK, None
    <2>2. \A q \in requests : new[q] \in Ids
      BY <1>1 DEF Sends
    <2>3. \A q \in requests : owner'[new[q]] = q /\ msgId'[q] = new[q]
      BY <1>1, SendsIds
    <2> QED
      BY <2>1, <2>2, <2>3
  <1>9. \A q \in Requests : msgId[q] # None =>
           msgId[q] \in Ids /\ owner[msgId[q]] = q
    BY DEF TypeInv, TypeOK, IdsOfRequests
  <1>10. CASE r \in requests
    <2>1. r \notin toSend' /\ (r \in toSend \/ r = taken.request)
      BY <1>1, <1>4, <1>10 DEF InPlace
    <2>2. ASSUME NEW m \in Ids, owner'[m] = r, <<m, 0>> \in receivedIds
          PROVE  m \notin haveSent'
      <3>1. owner[m] = r
        BY <1>2, <1>6, <2>2
      <3>2. m \notin haveSent /\ m # msgId[r]
        BY <1>4, <2>1, <2>2, <3>1 DEF InPlace
      <3>3. \A q \in requests : new[q] # m
        <4> SUFFICES ASSUME NEW q \in requests, new[q] = m
                     PROVE  FALSE
          OBVIOUS
        <4>1. q = r
          BY <1>8, <2>2
        <4>2. new[r] > lastId
          BY <1>1, <3>2, <4>1 DEF Sends
        <4>3. m <= lastId /\ lastId \in Nat /\ m \in Nat
          BY <1>3, <3>1 DEF TypeInv, TypeOK, IdsOfRequests, Ids, None
        <4> QED
          BY <4>1, <4>2, <4>3
      <3> QED
        BY <1>7, <3>2, <3>3
    <2> QED
      BY <1>1, <1>5, <2>1, <2>2 DEF InPlace
  <1>11. CASE r \notin requests
    <2>1. msgId'[r] = msgId[r] /\ toSend' \subseteq toSend
      BY <1>1, <1>11, SendsIds
    <2>2. \A q \in requests : /\ new[q] # msgId[r]
                              /\ msgId[r] # None => msgId[q] # msgId[r]
      <3> SUFFICES ASSUME NEW q \in requests
                   PROVE  /\ new[q] # msgId[r]
                          /\ msgId[r] # None => msgId[q] # msgId[r]
        OBVIOUS
      <3>1. q # r
        BY <1>11
      <3>2. new[q] # None
        BY <1>8 DEF Ids, None
      <3> QED
        BY <1>2, <1>3, <1>8, <1>9, <3>1, <3>2
    <2>3. ASSUME NEW m \in Ids, owner'[m] = r, <<m, 0>> \in receivedIds
          PROVE  m \notin haveSent' /\ (m = msgId[r] => r \notin toSend')
      <3>1. owner[m] = r
        BY <1>2, <1>6, <2>3
      <3>2. \A q \in requests : new[q] # m
        BY <1>8, <1>11, <2>3
      <3> QED
        BY <1>4, <1>7, <2>1, <2>3, <3>1, <3>2 DEF InPlace
    <2>4. r \in toSend' => msgId[r] \notin haveSent'
      BY <1>4, <1>7, <2>1, <2>2 DEF InPlace
    <2>5. r \in toSend' /\ msgId[r] # None => msgId[r] \in resendingIds'
      BY <1>4, <1>7, <1>9, <2>1, <2>2 DEF InPlace
    <2> QED
      BY <1>1, <1>5, <2>1, <2>3, <2>4, <2>5 DEF InPlace
  <1> QED
    BY <1>10, <1>11

(* One request is taken out of _toSend.                                    *)
LEMMA TakeOnePlaces ==
  ASSUME TypeInv, Places, NEW r \in toSend, TakeOne(r)
  PROVE  Places'
  <1>1. /\ UNCHANGED <<haveSent, resendingIds, receivedIds, msgId, owner, known,
                       epoch>>
        /\ taken = Nothing /\ toSend' = toSend \ {r} /\ taken'.request = r
    BY DEF TakeOne, CanSend, PrivateIsFree, idVars, historyVars, serverVars
  <1> SUFFICES ASSUME epoch = 0, NEW q \in Requests, ~Refused(q)
               PROVE  InPlace(q)'
    BY <1>1 DEF Places, Refused
  <1>2. InPlace(q)
    BY DEF Places
  <1> QED
    BY <1>1, <1>2 DEF InPlace

(* What the client receives.                                               *)
LEMMA HandlersPlaces ==
  ASSUME TypeInv, FirstSession, Places, NEW d \in down,
         \/ HandleResult(d) \/ HandleAck(d) \/ HandleBad(d)
         \/ HandleInfo(d) \/ HandleNewSession(d)
  PROVE  Places'
  <1> USE DEF historyVars, KeepsNumbers, KeepsSession
  <1>0. /\ d \in Downward /\ epoch \in Nat
        /\ taken = Nothing /\ UNCHANGED <<taken, msgId, owner>>
    BY DEF TypeInv, TypeOK, PrivateIsFree, Receive, HandleResult, HandleAck,
           HandleBad, HandleInfo, HandleNewSession
  <1>1. ASSUME NEW lost, NEW sent, NEW resent, Moves(lost, sent, resent),
               UNCHANGED <<epoch, known, receivedIds>>
        PROVE  Places'
    <2>1. CASE epoch = 0
      BY <1>0, <1>1, <2>1, MovesPlaces
    <2>2. CASE epoch # 0
      BY <1>1, <2>2 DEF Places
    <2> QED
      BY <2>1, <2>2
  <1>2. CASE HandleAck(d)
    <2>1. d.id \in Ids
      BY <1>0, <1>2 DEF HandleAck, Downward
    <2>2. RequestsAcked({d.id}, FALSE) /\ UNCHANGED <<epoch, known, receivedIds>>
      BY <1>2 DEF HandleAck
    <2>3. {d.id} \in SUBSET Ids /\ FALSE \in BOOLEAN
      BY <2>1
    <2>4. \E sent, resent : Moves({}, sent, resent)
      <3>1. /\ \E sent, resent :
                  /\ Moves({}, sent, resent)
                  /\ \A m \in sent \cup resent :
                        (FALSE /\ m \in {d.id}) \/ owner[m] \notin callbacks
                  /\ FALSE => {d.id} \cap haveSent \subseteq sent
                  /\ FALSE => ({d.id} \cap resendingIds) \ haveSent \subseteq resent
                  /\ ackedIds' = Newest(ackedIds \cup sent
                                          \cup Unneeded(resent, toSend))
            /\ ackedIds' \subseteq Ids
            /\ sentContainers' \in [Ids -> SUBSET Ids]
            /\ stateRequests' \in [Ids -> SUBSET Ids]
        BY <2>2, <2>3, RequestsAckedMoves
      <3> QED
        BY <3>1
    <2> QED
      BY <1>1, <2>2, <2>4
  <1>3. CASE HandleInfo(d)
    <2>1. UNCHANGED <<epoch, known, receivedIds>>
      BY <1>3 DEF HandleInfo
    <2> QED
      BY <1>1, <1>3, <2>1, HandleInfoMoves
  <1>4. CASE HandleNewSession(d)
    <2>1. Resend({m \in haveSent : m < d.first}) /\ UNCHANGED <<epoch, known, receivedIds>>
      BY <1>4 DEF HandleNewSession
    <2>2. \E lost : Moves(lost, {}, {})
      BY <2>1, ResendMoves
    <2> QED
      BY <1>1, <2>1, <2>2
  <1>5. CASE HandleBad(d)
    <2>1. CASE Resend({d.id}) /\ UNCHANGED <<epoch, known, receivedIds>>
      <3>1. \E lost : Moves(lost, {}, {})
        BY <2>1, ResendMoves
      <3> QED
        BY <1>1, <2>1, <3>1
    <2>2. CASE ResetSession
      BY <1>0, <2>2 DEF ResetSession, NewServerSession, Places
    <2>3. CASE UNCHANGED <<toSend, haveSent, resendingIds, receivedIds, epoch, known>>
      BY <1>0, <2>3, PlacesFrame
    <2> QED
      BY <1>5, <2>1, <2>2, <2>3 DEF HandleBad, idVars
  <1>6. CASE HandleResult(d)
    <2>1. /\ d.id \in Ids /\ UNCHANGED <<epoch, known>>
          /\ receivedIds' = receivedIds \cup {<<d.id, d.epoch>>}
          /\ \/ /\ <<d.id, d.epoch>> \in receivedIds
                /\ UNCHANGED <<toSend, haveSent, resendingIds>>
             \/ RequestsAcked({d.id}, TRUE)
      BY <1>0, <1>6 DEF HandleResult, Downward, idVars
    <2>2. CASE /\ <<d.id, d.epoch>> \in receivedIds
               /\ UNCHANGED <<toSend, haveSent, resendingIds>>
      <3>1. receivedIds' = receivedIds
        BY <2>1, <2>2
      <3> QED
        BY <1>0, <2>1, <2>2, <3>1, PlacesFrame
    <2>3. CASE epoch # 0
      BY <2>1, <2>3 DEF Places
    <2>4. CASE epoch = 0 /\ RequestsAcked({d.id}, TRUE)
      <3>1. {d.id} \in SUBSET Ids /\ TRUE \in BOOLEAN
        BY <2>1
      <3>2. /\ \E sent, resent :
                  /\ Moves({}, sent, resent)
                  /\ \A m \in sent \cup resent :
                        (TRUE /\ m \in {d.id}) \/ owner[m] \notin callbacks
                  /\ TRUE => {d.id} \cap haveSent \subseteq sent
                  /\ TRUE => ({d.id} \cap resendingIds) \ haveSent \subseteq resent
                  /\ ackedIds' = Newest(ackedIds \cup sent
                                          \cup Unneeded(resent, toSend))
            /\ ackedIds' \subseteq Ids
            /\ sentContainers' \in [Ids -> SUBSET Ids]
            /\ stateRequests' \in [Ids -> SUBSET Ids]
        BY <2>4, <3>1, RequestsAckedMoves
      <3>3. PICK sent, resent :
                  /\ Moves({}, sent, resent)
                  /\ d.id \in haveSent => d.id \in sent
                  /\ d.id \in resendingIds \ haveSent => d.id \in resent
        BY <3>2
      <3>4. \A m \in Ids : <<m, 0>> \in receivedIds' =>
               \/ <<m, 0>> \in receivedIds
               \/ /\ m \in haveSent => m \in sent
                  /\ m \in resendingIds \ haveSent => m \in resent
        BY <2>1, <3>3
      <3>5. receivedIds \subseteq receivedIds'
        BY <2>1
      <3> QED
        BY <1>0, <2>1, <2>4, <3>3, <3>4, <3>5, MovesPlaces
    <2> QED
      BY <2>1, <2>2, <2>3, <2>4
  <1> QED
    BY <1>2, <1>3, <1>4, <1>5, <1>6

LEMMA PrivateNextPlaces ==
  ASSUME TypeInv, NotBegun, FirstSession, Places, PrivateNext
  PROVE  Places'
  <1> USE DEF mainVars, idVars, sessionVars, historyVars, serverVars
  <1>1. ASSUME UNCHANGED <<toSend, haveSent, resendingIds, receivedIds, taken,
                           msgId, owner, known, epoch>>
        PROVE  Places'
    BY <1>1, PlacesFrame
  <1>2. ASSUME NEW lost, Moves(lost, {}, {}), taken = Nothing,
               UNCHANGED <<receivedIds, taken, msgId, owner, known, epoch>>
        PROVE  Places'
    <2>1. CASE epoch = 0
      BY <1>2, <2>1, MovesPlaces
    <2>2. CASE epoch # 0
      BY <1>2, <2>2 DEF Places
    <2> QED
      BY <2>1, <2>2
  <1>3. ASSUME NEW r \in toSend, TakeOne(r)
        PROVE  Places'
    BY <1>3, TakeOnePlaces
  <1>4. CASE SendOne
    BY <1>4, SendOneStep, SendingPlaces
  <1>5. CASE SendState
    BY <1>1, <1>5 DEF SendState
  <1>6. ASSUME NEW requests \in SUBSET toSend, SendContainer(requests)
        PROVE  Places'
    BY <1>6, SendContainerStep, SendingPlaces
  <1>7. ASSUME NEW old \in SUBSET haveSent, CheckSentRequests(old)
        PROVE  Places'
    BY <1>1, <1>7 DEF CheckSentRequests
  <1>8. ASSUME NEW c \in Ids, ClearOldContainer(c)
        PROVE  Places'
    <2>1. /\ Resend({c}) /\ taken = Nothing
          /\ UNCHANGED <<receivedIds, taken, msgId, owner, known, epoch>>
      BY <1>8 DEF ClearOldContainer, PrivateIsFree
    <2>2. \E lost : Moves(lost, {}, {})
      BY <2>1, ResendMoves
    <2> QED
      BY <1>2, <2>1, <2>2
  <1>9. CASE Connected
    <2>1. /\ taken = Nothing
          /\ UNCHANGED <<receivedIds, taken, msgId, owner, known, epoch>>
      BY <1>9 DEF Connected, PrivateIsFree
    <2> QED
      BY <1>2, <1>9, <2>1, ConnectedMoves
  <1>10. CASE Disconnect
    BY <1>1, <1>10 DEF Disconnect
  <1> QED
    BY <1>3, <1>4, <1>5, <1>6, <1>7, <1>8, <1>9, <1>10, HandlersPlaces
       DEF PrivateNext

LEMMA ServerNextPlaces ==
  ASSUME TypeInv, Places, ServerNext
  PROVE  Places'
  <1>1. UNCHANGED <<toSend, haveSent, resendingIds, receivedIds, taken, msgId,
                    owner>>
    BY DEF ServerNext, ServerReceives, ServerRejects, ServerForgets, ClientVars,
           mainVars, sessionVars, idVars, historyVars
  <1>2. known \in [Ids -> {"no", "done", "again", "refused"}] /\ epoch \in Nat
    BY DEF TypeInv, TypeOK
  <1>3. ASSUME NEW u \in up, ServerReceives(u)
        PROVE  Places'
    <2>1. \A m \in Ids : known[m] = "refused" => known'[m] = "refused"
      BY <1>3 DEF ServerReceives
    <2>2. UNCHANGED epoch
      BY <1>3 DEF ServerReceives
    <2> QED
      BY <1>1, <2>1, <2>2, PlacesFrame
  <1>4. ASSUME NEW u \in up, NEW why \in {"again", "session", "fatal"},
               ServerRejects(u, why)
        PROVE  Places'
    <2>1. \A m \in Ids : known[m] = "refused" => known'[m] = "refused"
      BY <1>2, <1>4 DEF ServerRejects
    <2>2. UNCHANGED epoch
      BY <1>4 DEF ServerRejects
    <2> QED
      BY <1>1, <2>1, <2>2, PlacesFrame
  <1>5. CASE ServerForgets
    BY <1>2, <1>5 DEF ServerForgets, NewServerSession, Places
  <1> QED
    BY <1>3, <1>4, <1>5 DEF ServerNext

THEOREM PlacesCorrect == Spec => []Places
  <1>1. Init => Places
    <2> SUFFICES ASSUME Init, NEW r \in Requests
                 PROVE  InPlace(r)
      BY DEF Places
    <2>1. r # None
      BY RequestsAssumption DEF None
    <2> QED
      BY <2>1 DEF Init, InPlace, Nothing
  <1>2. SessionInv /\ Places /\ [Next]_vars => Places'
    <2> SUFFICES ASSUME SessionInv, Places, [Next]_vars
                 PROVE  Places'
      OBVIOUS
    <2>1. CASE MainNext
      BY <2>1, MainNextPlaces DEF SessionInv
    <2>2. CASE PrivateNext
      BY <2>2, PrivateNextPlaces DEF SessionInv
    <2>3. CASE ServerNext
      BY <2>3, ServerNextPlaces DEF SessionInv
    <2>4. CASE UNCHANGED vars
      BY <2>4, PlacesFrame
         DEF vars, idVars, sessionVars, historyVars, serverVars
    <2> QED
      BY <2>1, <2>2, <2>3, <2>4 DEF Next
  <1> QED
    BY <1>1, <1>2, SessionInvCorrect, PTL DEF Spec

(* In the first session of the server, a request whose answer waits for    *)
(* the main thread is neither in _toSend nor in _haveSent, unless one of   *)
(* its messages was refused (requestsAcked, handleOneReceived).            *)
THEOREM AnsweredIsNotSentAgain == Spec => []AnsweredIsNotSent
  <1>1. SessionInv /\ Places => AnsweredIsNotSent
    <2> SUFFICES ASSUME SessionInv, Places, NEW i \in DOMAIN received,
                        received[i].result = "done", epoch = 0,
                        ~Refused(received[i].request)
                 PROVE  received[i].request \notin toSend \cup Owners(haveSent)
      BY DEF AnsweredIsNotSent, Refused
    <2> DEFINE r == received[i].request
    <2>1. r \in Requests
      BY DEF SessionInv, TypeInv, TypeOK, IdsOfRequests
    <2>2. msgId[r] # None /\ Heard(msgId[r])
      BY DEF SessionInv, FirstSession, FailedIsSpent
    <2>3. msgId[r] \in Ids /\ owner[msgId[r]] = r
      BY <2>1, <2>2 DEF SessionInv, TypeInv, TypeOK, IdsOfRequests
    <2>4. InPlace(r)
      BY <2>1 DEF Places
    <2>5. r \notin toSend
      BY <2>2, <2>3, <2>4 DEF InPlace, Heard
    <2>6. \A m \in haveSent : owner[m] # r
      BY <2>1, <2>2, <2>4, SentUnderCurrentId DEF SessionInv, Heard
    <2> QED
      BY <2>5, <2>6 DEF Owners
  <1> QED
    BY <1>1, SessionInvCorrect, PlacesCorrect, PTL

=============================================================================
