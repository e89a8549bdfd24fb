--------------------------- MODULE Histories_proofs ---------------------------
(***************************************************************************)
(* Proofs about Histories, for any number of chats, messages and requests: *)
(* the types, that what was deleted does not come back, that no chat is    *)
(* stranded in one of the maps, and that read marks only advance and are   *)
(* kept until the server knows of them.                                    *)
(*                                                                         *)
(* The handlers are functions on the record client, so most lemmas say     *)
(* what one of these functions makes of a good client.                     *)
(***************************************************************************)
EXTENDS Histories, FiniteSetTheorems, TLAPS

-----------------------------------------------------------------------------
(* The client.                                                             *)

Clients ==
  [requests : [Ids -> Requests \cup {NoRequest}], made : Nat,
   willReadTill : [Chats -> 0 .. MaxId], later : [Chats -> BOOLEAN],
   sentReadTill : [Chats -> 0 .. MaxId], sentReadDone : [Chats -> BOOLEAN],
   postponedEntry : [Chats -> BOOLEAN], pending : [Chats -> Keys],
   asked : [Chats -> Keys], posted : Nat, timer : BOOLEAN,
   readTill : [Chats -> 0 .. MaxId], unreadKnown : [Chats -> BOOLEAN],
   last : [Chats -> {"unknown", "none", "message"}],
   wanted : [Chats -> 0 .. MaxId]]

SameRequests(c, d) == d.requests = c.requests /\ d.made = c.made

SameEntries(c, d) ==
  /\ d.asked = c.asked /\ d.pending = c.pending
  /\ d.postponedEntry = c.postponedEntry /\ d.posted = c.posted

SameMarks(c, d) ==
  /\ d.willReadTill = c.willReadTill /\ d.sentReadTill = c.sentReadTill
  /\ d.readTill = c.readTill /\ d.wanted = c.wanted

SameTimes(c, d) ==
  /\ d.later = c.later /\ d.timer = c.timer

(* Requests have ids up to made; marks are those of ReadInbox.             *)
RequestsMade(c) ==
  \A id \in Ids : c.requests[id].at # "none" =>
    /\ id <= c.made
    /\ c.requests[id].till # 0 => c.requests[id].type = "ReadInbox"
    /\ c.requests[id].at = "left" => c.requests[id].type = "Delete"
    /\ c.requests[id].at = "postponed" => c.requests[id].type = "History"

(* Requests of History wait exactly while something is being deleted.      *)
DeletionsAlone(c) ==
  \A h \in Chats :
    /\ Deleting(c, h) => \A id \in Sent(c, h) : c.requests[id].type # "History"
    /\ Of(c, h, {"postponed"}) # {} => Deleting(c, h)

(* An entry that is asked for is to be asked for again exactly while a     *)
(* request that changes the chat is sent; one that is pending is not asked *)
(* for yet, and will be.                                                   *)
EntriesMarked(c) ==
  \A h \in Chats :
    /\ c.postponedEntry[h] <=> c.asked[h] # "no" /\ Changing(c, h)
    /\ c.pending[h] # "no" => c.asked[h] = "no" /\ c.posted > 0

(* The mark that waits is larger than all that were sent, the one sent     *)
(* last is the largest of those sent, and once it is given up the chat is  *)
(* known to be read at least till there.                                   *)
MarksInOrder(c) ==
  \A h \in Chats :
    /\ c.willReadTill[h] # 0 =>
         /\ c.willReadTill[h] > c.sentReadTill[h]
         /\ c.wanted[h] = c.willReadTill[h]
         /\ \A id \in Sent(c, h) : c.requests[id].till < c.willReadTill[h]
    /\ \A id \in Sent(c, h) :
         /\ c.sentReadTill[h] = 0 => c.requests[id].till <= c.readTill[h]
         /\ c.sentReadTill[h] # 0 => c.requests[id].till <= c.sentReadTill[h]
         /\ c.wanted[h] # 0 => c.requests[id].till <= c.wanted[h]
    /\ \A i, j \in Sent(c, h) :
         i < j /\ c.requests[j].till # 0 => c.requests[i].till < c.requests[j].till

Good(c) ==
  /\ c \in Clients
  /\ RequestsMade(c) /\ DeletionsAlone(c) /\ EntriesMarked(c) /\ MarksInOrder(c)

(* What was read waits for the timer or is on its way ...                  *)
MarksKept(c) ==
  \A h \in Chats :
    c.wanted[h] > read[h] =>
      \/ c.willReadTill[h] >= c.wanted[h]
      \/ \E id \in Sent(c, h) : c.requests[id].till >= c.wanted[h]

(* ... and the timer runs for it.                                          *)
TimerRuns(c) == \A h \in Chats : c.willReadTill[h] # 0 => c.later[h] /\ c.timer

(* Each mark and each callback that waits has a request in store.          *)
Marked(c) == {h \in Chats : c.willReadTill[h] # 0}
Waiters(c) == {h \in Chats : "waited" \in {c.pending[h], c.asked[h]}}
Needs(c) == c.made + Cardinality(Marked(c)) + Cardinality(Waiters(c))

(* How a handler leaves the requests and the entries: requests do not      *)
(* change what they are, and no entry is newly on its way.                 *)
Step(c, d) ==
  /\ c.made <= d.made
  /\ \A id \in Ids : d.requests[id].at # "none" =>
       \/ c.requests[id].at = "none" /\ id > c.made
       \/ /\ c.requests[id].at # "none"
          /\ d.requests[id].chat = c.requests[id].chat
          /\ d.requests[id].type = c.requests[id].type
          /\ d.requests[id].till = c.requests[id].till
  /\ \A h \in Chats : d.asked[h] # "no" /\ ~d.postponedEntry[h] =>
                        c.asked[h] # "no" /\ ~c.postponedEntry[h]

LEMMA StepTrans ==
  ASSUME NEW b, NEW c, NEW d, b \in Clients, c \in Clients, d \in Clients,
         RequestsMade(b), Step(b, c), Step(c, d)
  PROVE  Step(b, d)
  <1>1. b.made \in Nat /\ c.made \in Nat /\ d.made \in Nat
    BY DEF Clients
  <1>2. \A id \in Ids : id \in Nat
    BY DEF Ids
  <1> QED
    BY <1>1, <1>2 DEF Step, RequestsMade

(* The sets of requests depend on the requests alone.                      *)
LEMMA SameSets ==
  ASSUME NEW c, NEW d, d.requests = c.requests
  PROVE  /\ \A h, at : Of(d, h, at) = Of(c, h, at)
         /\ \A h : /\ Sent(d, h) = Sent(c, h)
                   /\ Deleting(d, h) <=> Deleting(c, h)
                   /\ Changing(d, h) <=> Changing(c, h)
  BY DEF Of, Sent, Deleting, Changing

LEMMA SameRequestsKeep ==
  ASSUME NEW c, NEW d, SameRequests(c, d), RequestsMade(c), DeletionsAlone(c)
  PROVE  RequestsMade(d) /\ DeletionsAlone(d)
  BY SameSets DEF SameRequests, RequestsMade, DeletionsAlone

LEMMA SameEntriesKeep ==
  ASSUME NEW c, NEW d, SameEntries(c, d), EntriesMarked(c),
         \A h \in Chats : Changing(d, h) <=> Changing(c, h)
  PROVE  EntriesMarked(d)
  BY DEF SameEntries, EntriesMarked

LEMMA SameMarksKeep ==
  ASSUME NEW c, NEW d, d.requests = c.requests, SameMarks(c, d), MarksInOrder(c)
  PROVE  MarksInOrder(d) /\ (MarksKept(c) => MarksKept(d))
  BY SameSets DEF SameMarks, MarksInOrder, MarksKept

LEMMA SameStep ==
  ASSUME NEW c, NEW d, c \in Clients, SameRequests(c, d), SameEntries(c, d)
  PROVE  Step(c, d)
  <1>1. c.made \in Nat
    BY DEF Clients
  <1> QED
    BY <1>1 DEF SameRequests, SameEntries, Step

-----------------------------------------------------------------------------
(* Counting what is in store.                                              *)

LEMMA NeedsType ==
  ASSUME NEW c \in Clients
  PROVE  /\ IsFiniteSet(Marked(c)) /\ Cardinality(Marked(c)) \in Nat
         /\ IsFiniteSet(Waiters(c)) /\ Cardinality(Waiters(c)) \in Nat
         /\ c.made \in Nat /\ Needs(c) \in Nat /\ c.made <= Needs(c)
         /\ Marked(c) # {} => c.made < Needs(c)
  <1>1. IsFiniteSet(Marked(c)) /\ IsFiniteSet(Waiters(c))
    <2>1. /\ Marked(c) \in SUBSET Chats /\ Waiters(c) \in SUBSET Chats
          /\ IsFiniteSet(Chats)
      BY BoundsAssumption DEF Marked, Waiters
    <2> QED
      BY <2>1, FS_Subset
  <1>2. Cardinality(Marked(c)) \in Nat /\ Cardinality(Waiters(c)) \in Nat
    BY <1>1, FS_CardinalityType
  <1>3. Marked(c) # {} => Cardinality(Marked(c)) # 0
    BY <1>1, FS_EmptySet
  <1>4. c.made \in Nat
    BY DEF Clients
  <1> QED
    BY <1>1, <1>2, <1>3, <1>4 DEF Needs

LEMMA AddOne ==
  ASSUME NEW S, IsFiniteSet(S), NEW x
  PROVE  IsFiniteSet(S \cup {x}) /\ Cardinality(S \cup {x}) <= Cardinality(S) + 1
  <1>1. Cardinality(S) \in Nat
    BY FS_CardinalityType
  <1>2. /\ IsFiniteSet(S \cup {x})
        /\ \/ Cardinality(S \cup {x}) = Cardinality(S)
           \/ Cardinality(S \cup {x}) = Cardinality(S) + 1
    BY FS_AddElement
  <1> QED
    BY <1>1, <1>2

(* A handler that removes marks and callbacks, or adds one of them.        *)
LEMMA FewerNeeds ==
  ASSUME NEW c \in Clients, NEW d \in Clients, d.made = c.made,
         Marked(d) \subseteq Marked(c), Waiters(d) \subseteq Waiters(c)
  PROVE  Needs(d) <= Needs(c)
  <1>1. /\ Cardinality(Marked(d)) <= Cardinality(Marked(c))
        /\ Cardinality(Waiters(d)) <= Cardinality(Waiters(c))
    BY NeedsType, FS_Subset
  <1> QED
    BY <1>1, NeedsType DEF Needs

LEMMA OneMoreMark ==
  ASSUME NEW c \in Clients, NEW d \in Clients, d.made = c.made, NEW h,
         Marked(d) \subseteq Marked(c) \cup {h}, Waiters(d) \subseteq Waiters(c)
  PROVE  Needs(d) <= Needs(c) + 1
  <1>1. /\ IsFiniteSet(Marked(c) \cup {h})
        /\ Cardinality(Marked(c) \cup {h}) <= Cardinality(Marked(c)) + 1
    BY NeedsType, AddOne
  <1>2. /\ Cardinality(Marked(d)) <= Cardinality(Marked(c) \cup {h})
        /\ Cardinality(Marked(c) \cup {h}) \in Nat
        /\ Cardinality(Waiters(d)) <= Cardinality(Waiters(c))
    BY <1>1, NeedsType, FS_Subset, FS_CardinalityType
  <1> QED
    BY <1>1, <1>2, NeedsType DEF Needs

LEMMA OneMoreWaiter ==
  ASSUME NEW c \in Clients, NEW d \in Clients, d.made = c.made, NEW h,
         Marked(d) \subseteq Marked(c), Waiters(d) \subseteq Waiters(c) \cup {h}
  PROVE  Needs(d) <= Needs(c) + 1
  <1>1. /\ IsFiniteSet(Waiters(c) \cup {h})
        /\ Cardinality(Waiters(c) \cup {h}) <= Cardinality(Waiters(c)) + 1
    BY NeedsType, AddOne
  <1>2. /\ Cardinality(Waiters(d)) <= Cardinality(Waiters(c) \cup {h})
        /\ Cardinality(Waiters(c) \cup {h}) \in Nat
        /\ Cardinality(Marked(d)) <= Cardinality(Marked(c))
    BY <1>1, NeedsType, FS_Subset, FS_CardinalityType
  <1> QED
    BY <1>1, <1>2, NeedsType DEF Needs

LEMMA OneWaiterLess ==
  ASSUME NEW c \in Clients, NEW d \in Clients, d.made = c.made,
         NEW h \in Waiters(c), Marked(d) \subseteq Marked(c),
         Waiters(d) \subseteq Waiters(c) \ {h}
  PROVE  Needs(d) + 1 <= Needs(c)
  <1>1. /\ IsFiniteSet(Waiters(c) \ {h})
        /\ Cardinality(Waiters(c) \ {h}) = Cardinality(Waiters(c)) - 1
    BY NeedsType, FS_RemoveElement
  <1>2. /\ Cardinality(Waiters(d)) <= Cardinality(Waiters(c) \ {h})
        /\ Cardinality(Marked(d)) <= Cardinality(Marked(c))
    BY <1>1, NeedsType, FS_Subset
  <1> QED
    BY <1>1, <1>2, NeedsType DEF Needs

(* A mark that is sent uses what was in store for it.                      *)
LEMMA OneMarkSent ==
  ASSUME NEW c \in Clients, NEW d \in Clients, d.made = c.made + 1,
         NEW h \in Marked(c), Marked(d) \subseteq Marked(c) \ {h},
         Waiters(d) \subseteq Waiters(c)
  PROVE  Needs(d) <= Needs(c)
  <1>1. /\ IsFiniteSet(Marked(c) \ {h})
        /\ Cardinality(Marked(c) \ {h}) = Cardinality(Marked(c)) - 1
    BY NeedsType, FS_RemoveElement
  <1>2. /\ Cardinality(Marked(d)) <= Cardinality(Marked(c) \ {h})
        /\ Cardinality(Waiters(d)) <= Cardinality(Waiters(c))
    BY <1>1, NeedsType, FS_Subset
  <1> QED
    BY <1>1, <1>2, NeedsType DEF Needs

-----------------------------------------------------------------------------
(* Requests of a chat.                                                     *)

LEMMA RequestType ==
  ASSUME NEW c \in Clients, NEW id \in Ids, c.requests[id].at # "none"
  PROVE  /\ c.requests[id] \in Requests
         /\ c.requests[id].chat \in Chats
         /\ c.requests[id].type \in {"History", "ReadInbox", "Delete", "Send"}
         /\ c.requests[id].till \in 0 .. MaxId /\ c.requests[id].till \in Nat
         /\ c.requests[id].at \in {"postponed", "sent", "left"}
  <1>1. c.requests[id] \in Requests
    BY DEF Clients, NoRequest
  <1> QED
    BY <1>1, BoundsAssumption DEF Requests

LEMMA SentType ==
  ASSUME NEW c \in Clients, NEW h \in Chats, NEW id \in Sent(c, h)
  PROVE  /\ id \in Ids /\ id \in Nat /\ c.requests[id].at \in {"sent", "left"}
         /\ c.requests[id].at # "none" /\ c.requests[id].chat = h
         /\ c.requests[id].till \in Nat
  <1>1. /\ id \in Ids /\ c.requests[id].at \in {"sent", "left"}
        /\ c.requests[id].at # "none" /\ c.requests[id].chat = h
    BY DEF Sent, Of
  <1> QED
    BY <1>1, RequestType DEF Ids

LEMMA MarkType ==
  ASSUME NEW c \in Clients, NEW h \in Chats
  PROVE  /\ c.willReadTill[h] \in Nat /\ c.sentReadTill[h] \in Nat
         /\ c.readTill[h] \in Nat /\ c.wanted[h] \in Nat
         /\ c.willReadTill[h] <= MaxId /\ c.sentReadTill[h] <= MaxId
         /\ c.readTill[h] <= MaxId /\ c.wanted[h] <= MaxId
         /\ MaxId \in Nat
  BY BoundsAssumption DEF Clients

(* Everything but the requests, and but what is not about this component's *)
(* promises.                                                               *)
SameRest(c, d) ==
  /\ SameEntries(c, d) /\ SameMarks(c, d) /\ SameTimes(c, d)
  /\ d.last = c.last /\ d.sentReadDone = c.sentReadDone
  /\ d.unreadKnown = c.unreadKnown

SameKind(r, s) == s.chat = r.chat /\ s.type = r.type /\ s.till = r.till

LEMMA PutIs ==
  ASSUME NEW c \in Clients, NEW ids, NEW at \in {"postponed", "sent", "left"},
         \A id \in ids : id \in Ids /\ c.requests[id].at # "none",
         NEW d, d = Put(c, ids, at)
  PROVE  /\ d \in Clients /\ d.made = c.made /\ SameRest(c, d)
         /\ \A id \in Ids :
              /\ id \notin ids => d.requests[id] = c.requests[id]
              /\ id \in ids => /\ d.requests[id].at = at
                               /\ SameKind(c.requests[id], d.requests[id])
  <1> DEFINE requests ==
               [id \in Ids |-> IF id \in ids
                               THEN [c.requests[id] EXCEPT !.at = at]
                               ELSE c.requests[id]]
             e == [c EXCEPT !.requests = requests]
  <1>1. d = e
    BY DEF Put
  <1>2. \A id \in Ids : c.requests[id] \in Requests \/ c.requests[id] = NoRequest
    BY DEF Clients
  <1>3. requests \in [Ids -> Requests \cup {NoRequest}]
    BY <1>2 DEF Requests, NoRequest
  <1>4. \A id \in ids : /\ requests[id].at = at
                        /\ SameKind(c.requests[id], requests[id])
    BY <1>2 DEF Requests, NoRequest, SameKind
  <1>5. \A id \in Ids : id \notin ids => requests[id] = c.requests[id]
    OBVIOUS
  <1> HIDE DEF requests
  <1>6. /\ e \in Clients /\ e.requests = requests /\ e.made = c.made
        /\ SameRest(c, e)
    BY <1>3 DEF Clients, SameEntries, SameMarks, SameTimes, SameRest
  <1> HIDE DEF e
  <1> QED
    BY <1>1, <1>4, <1>5, <1>6

(* A new request, sent or postponed.                                       *)
Added(c, h, type, till, at) ==
  [c EXCEPT !.made = @ + 1,
            !.requests[c.made + 1] =
              [chat |-> h, type |-> type, till |-> till, at |-> at]]

WithNew(c, d, h, type, till, at) ==
  /\ d \in Clients /\ d.made = c.made + 1 /\ SameRest(c, d)
  /\ c.made + 1 \in Ids /\ c.requests[c.made + 1].at = "none"
  /\ d.requests[c.made + 1] =
       [chat |-> h, type |-> type, till |-> till, at |-> at]
  /\ \A id \in Ids : id # c.made + 1 => d.requests[id] = c.requests[id]

LEMMA AddedIs ==
  ASSUME NEW c \in Clients, RequestsMade(c), c.made < MaxRequests,
         NEW h \in Chats, NEW type \in {"History", "ReadInbox", "Delete", "Send"},
         NEW till \in 0 .. MaxId, NEW at \in {"postponed", "sent"},
         NEW d, d = Added(c, h, type, till, at)
  PROVE  WithNew(c, d, h, type, till, at)
  <1> DEFINE new == [chat |-> h, type |-> type, till |-> till, at |-> at]
             n == c.made + 1
             requests == [c.requests EXCEPT ![n] = new]
             e == [c EXCEPT !.made = n, !.requests = requests]
  <1>0. c.made \in Nat /\ MaxRequests \in Nat
    BY BoundsAssumption DEF Clients
  <1>1. n \in Ids /\ n \in Nat
    BY <1>0 DEF Ids
  <1>2. d = e
    BY DEF Added
  <1>3. new \in Requests
    BY DEF Requests
  <1>4. c.requests \in [Ids -> Requests \cup {NoRequest}]
    BY DEF Clients
  <1>5. c.requests[n].at = "none"
    BY <1>0, <1>1 DEF RequestsMade
  <1> HIDE DEF new
  <1>6. /\ requests \in [Ids -> Requests \cup {NoRequest}]
        /\ requests[n] = new
        /\ \A id \in Ids : id # n => requests[id] = c.requests[id]
    BY <1>1, <1>3, <1>4
  <1> HIDE DEF requests
  <1>7. /\ e \in Clients /\ e.requests = requests /\ e.made = n /\ SameRest(c, e)
    BY <1>1, <1>6 DEF Clients, SameEntries, SameMarks, SameTimes, SameRest
  <1> HIDE DEF e
  <1> QED
    BY <1>1, <1>2, <1>5, <1>6, <1>7 DEF new, WithNew

(* sendRequest: one request more, and what it does to the others.          *)
Requested(c, d, h, type, till) ==
  /\ d \in Clients /\ d.made = c.made + 1
  /\ SameMarks(c, d) /\ SameTimes(c, d) /\ d.last = c.last
  /\ d.pending = c.pending /\ d.asked = c.asked /\ d.posted = c.posted
  /\ \A g \in Chats :
       d.postponedEntry[g] <=>
         \/ c.postponedEntry[g]
         \/ g = h /\ c.asked[g] # "no" /\ Changing(d, g)
  /\ c.made + 1 \in Ids /\ c.requests[c.made + 1].at = "none"
  /\ d.requests[c.made + 1].at \in {"postponed", "sent"}
  /\ d.requests[c.made + 1].chat = h
  /\ d.requests[c.made + 1].type = type
  /\ d.requests[c.made + 1].till = till
  /\ \A id \in Ids : id # c.made + 1 =>
       \/ d.requests[id] = c.requests[id]
       \/ /\ id \in Sent(c, h) /\ c.requests[id].type = "History"
          /\ d.requests[id].at = "postponed"
          /\ SameKind(c.requests[id], d.requests[id])
  /\ DeletionsAlone(d)
  /\ d.requests[c.made + 1].at = "postponed" => type = "History"

LEMMA SendRequestIs ==
  ASSUME NEW c \in Clients, RequestsMade(c), DeletionsAlone(c),
         EntriesMarked(c), c.made < MaxRequests,
         NEW h \in Chats, NEW type \in {"History", "ReadInbox", "Delete", "Send"},
         NEW till \in 0 .. MaxId, NEW d, d = SendRequest(c, h, type, till)
  PROVE  Requested(c, d, h, type, till)
  <1> DEFINE n == c.made + 1
             Old(e) == \A id \in Ids : id # n => e.requests[id] = c.requests[id]
  <1>0. /\ \A id \in Ids : c.requests[id].at \notin {"sent", "left"} => 
             \A g : id \notin Sent(c, g)
        /\ c.made \in Nat
    BY DEF Sent, Of, Clients
  <1>1. CASE type = "History" /\ Deleting(c, h)
    <2>1. d = Added(c, h, type, till, "postponed")
      BY <1>1 DEF SendRequest, Added
    <2>2. /\ d \in Clients /\ d.made = n /\ SameRest(c, d)
          /\ n \in Ids /\ c.requests[n].at = "none"
          /\ d.requests[n] =
               [chat |-> h, type |-> type, till |-> till, at |-> "postponed"]
          /\ Old(d)
      <3>1. WithNew(c, d, h, type, till, "postponed")
        BY <2>1, AddedIs
      <3> QED
        BY <3>1 DEF WithNew
    <2>3. \A g \in Chats : Sent(d, g) = Sent(c, g)
      BY <2>2 DEF Sent, Of
    <2>4. \A g \in Chats : n \notin Sent(c, g)
      BY <2>2 DEF Sent, Of
    <2>5. \A g \in Chats : /\ Deleting(d, g) <=> Deleting(c, g)
                           /\ Changing(d, g) <=> Changing(c, g)
      BY <2>2, <2>3, <2>4 DEF Deleting, Changing, Sent, Of
    <2>6. \A g \in Chats : g # h =>
            Of(d, g, {"postponed"}) = Of(c, g, {"postponed"})
      BY <2>2 DEF Of
    <2>7. DeletionsAlone(d)
      <3>1. ASSUME NEW g \in Chats, Deleting(d, g), NEW id \in Sent(d, g)
            PROVE  d.requests[id].type # "History"
        <4>1. id \in Ids /\ id \in Sent(c, g) /\ id # n
          BY <3>1, <2>3, <2>4 DEF Sent, Of
        <4> QED
          BY <4>1, <2>2, <2>5, <3>1 DEF DeletionsAlone
      <3>2. ASSUME NEW g \in Chats, Of(d, g, {"postponed"}) # {}
            PROVE  Deleting(d, g)
        BY <3>2, <2>5, <2>6, <1>1 DEF DeletionsAlone
      <3> QED
        BY <3>1, <3>2 DEF DeletionsAlone
    <2>8. \A g \in Chats : c.asked[g] # "no" /\ Changing(d, g) => c.postponedEntry[g]
      BY <2>5 DEF EntriesMarked
    <2> QED
      BY <1>1, <2>2, <2>7, <2>8 DEF Requested, SameRest, SameEntries
  <1>2. CASE ~(type = "History" /\ Deleting(c, h))
    <2> DEFINE a == Added(c, h, type, till, "sent")
               e == MarkEntry(a, h)
               w == {id \in Sent(e, h) : e.requests[id].type = "History"}
    <2>1. d = Withdraw(e, h)
      BY <1>2 DEF SendRequest, Added
    <2>2. /\ a \in Clients /\ a.made = n /\ SameRest(c, a)
          /\ n \in Ids /\ c.requests[n].at = "none"
          /\ a.requests[n] =
               [chat |-> h, type |-> type, till |-> till, at |-> "sent"]
          /\ Old(a)
      <3>1. WithNew(c, a, h, type, till, "sent")
        BY AddedIs
      <3> HIDE DEF a
      <3> QED
        BY <3>1 DEF WithNew
    <2> HIDE DEF a
    <2>3. /\ e \in Clients /\ e.made = a.made /\ e.requests = a.requests
          /\ SameMarks(a, e) /\ SameTimes(a, e) /\ e.last = a.last
          /\ e.pending = a.pending /\ e.asked = a.asked /\ e.posted = a.posted
          /\ \A g \in Chats :
               e.postponedEntry[g] <=>
                 a.postponedEntry[g] \/ (g = h /\ a.asked[g] # "no" /\ Changing(a, g))
      <3>1. CASE Changing(a, h) /\ a.asked[h] # "no"
        <4> DEFINE marked == [a.postponedEntry EXCEPT ![h] = TRUE]
        <4>1. e = [a EXCEPT !.postponedEntry = marked]
          BY <3>1 DEF MarkEntry
        <4>2. a.postponedEntry \in [Chats -> BOOLEAN]
          BY <2>2 DEF Clients
        <4>3. /\ marked \in [Chats -> BOOLEAN]
              /\ \A g \in Chats : marked[g] <=> a.postponedEntry[g] \/ g = h
          BY <4>2
        <4> HIDE DEF e, marked
        <4>4. /\ e \in Clients /\ e.postponedEntry = marked
              /\ e.made = a.made /\ e.requests = a.requests
              /\ SameMarks(a, e) /\ SameTimes(a, e) /\ e.last = a.last
              /\ e.pending = a.pending /\ e.asked = a.asked
              /\ e.posted = a.posted
          BY <2>2, <4>1, <4>3 DEF Clients, SameMarks, SameTimes
        <4> QED
          BY <3>1, <4>3, <4>4
      <3>2. CASE ~(Changing(a, h) /\ a.asked[h] # "no")
        <4>1. e = a
          BY <3>2 DEF MarkEntry
        <4> HIDE DEF e
        <4> QED
          BY <2>2, <3>2, <4>1 DEF SameMarks, SameTimes
      <3> QED
        BY <3>1, <3>2
    <2> HIDE DEF e
    <2>4. /\ \A g \in Chats : /\ Deleting(e, g) <=> Deleting(a, g)
                              /\ Changing(e, g) <=> Changing(a, g)
                              /\ Sent(e, g) = Sent(a, g)
                              /\ Of(e, g, {"postponed"}) = Of(a, g, {"postponed"})
      BY <2>3, SameSets
    <2>5. \A id \in Sent(e, h) : id \in Ids /\ e.requests[id].at # "none"
      BY DEF Sent, Of
    <2>6. /\ d \in Clients /\ d.made = e.made /\ SameRest(e, d)
          /\ \A id \in Ids :
               \/ d.requests[id] = e.requests[id]
               \/ /\ Deleting(e, h) /\ id \in w
                  /\ d.requests[id].at = "postponed"
                  /\ SameKind(e.requests[id], d.requests[id])
          /\ Deleting(e, h) => \A id \in w : d.requests[id].at = "postponed"
      <3>1. CASE Deleting(e, h)
        <4>1. d = Put(e, w, "postponed")
          BY <2>1, <3>1 DEF Withdraw
        <4>2. \A id \in w : id \in Ids /\ e.requests[id].at # "none"
          BY <2>5
        <4> HIDE DEF w
        <4>3. /\ d \in Clients /\ d.made = e.made /\ SameRest(e, d)
              /\ \A id \in Ids :
                  /\ id \notin w => d.requests[id] = e.requests[id]
                  /\ id \in w => /\ d.requests[id].at = "postponed"
                                 /\ SameKind(e.requests[id], d.requests[id])
          BY <2>3, <4>1, <4>2, PutIs
        <4> QED
          BY <4>2, <4>3, <3>1
      <3>2. CASE ~Deleting(e, h)
        BY <2>1, <2>3, <3>2 DEF Withdraw, SameRest, SameEntries, SameMarks, SameTimes
      <3> QED
        BY <3>1, <3>2
    <2>7. \A id \in w : /\ id \in Ids /\ id \in Sent(e, h)
                        /\ e.requests[id].type = "History"
      BY <2>5
    <2>8. n \notin w \/ ~Deleting(e, h)
      <3>1. SUFFICES ASSUME n \in w, Deleting(e, h) PROVE FALSE
        OBVIOUS
      <3>2. type = "History"
        BY <2>2, <2>3, <2>7, <3>1
      <3>3. PICK id \in Sent(a, h) : a.requests[id].type = "Delete"
        BY <2>4, <3>1 DEF Deleting
      <3>4. id \in Ids /\ id # n
        BY <2>2, <3>2, <3>3 DEF Sent, Of
      <3>5. Deleting(c, h)
        BY <2>2, <3>3, <3>4 DEF Deleting, Sent, Of
      <3> QED
        BY <3>2, <3>5, <1>2
    <2> HIDE DEF w
    <2>9. \A id \in Ids : id # n =>
            \/ d.requests[id] = c.requests[id]
            \/ /\ id \in Sent(c, h) /\ c.requests[id].type = "History"
               /\ d.requests[id].at = "postponed"
               /\ SameKind(c.requests[id], d.requests[id])
      <3>1. \A id \in w : id # n => id \in Sent(c, h)
        BY <2>2, <2>3, <2>7 DEF Sent, Of
      <3> QED
        BY <3>1, <2>2, <2>3, <2>6, <2>7
    <2>10. d.requests[n] = a.requests[n]
      BY <2>2, <2>3, <2>6, <2>8
    <2>11. \A id \in Ids :
             \/ d.requests[id] = e.requests[id]
             \/ /\ e.requests[id].type = "History" /\ d.requests[id].type = "History"
                /\ e.requests[id].at \in {"sent", "left"} /\ e.requests[id].chat = h
                /\ d.requests[id].at = "postponed" /\ d.requests[id].chat = h
                /\ Deleting(e, h)
      BY <2>6, <2>7 DEF SameKind, Sent, Of
    <2>12. \A g \in Chats : /\ Deleting(d, g) <=> Deleting(e, g)
                            /\ Changing(d, g) <=> Changing(e, g)
      BY <2>11 DEF Deleting, Changing, Sent, Of
    <2>13. DeletionsAlone(d)
      <3>1. ASSUME NEW g \in Chats, Deleting(d, g), NEW id \in Sent(d, g)
            PROVE  d.requests[id].type # "History"
        <4>1. id \in Ids /\ d.requests[id].at \in {"sent", "left"}
              /\ d.requests[id].chat = g
          BY DEF Sent, Of
        <4>2. d.requests[id] = e.requests[id] /\ id \in Sent(e, g)
          BY <2>11, <4>1 DEF Sent, Of
        <4>3. CASE g = h
          <5>1. Deleting(e, h)
            BY <2>12, <3>1, <4>3
          <5>2. id \in w => FALSE
            BY <2>6, <5>1, <4>1, <2>7
          <5> QED
            BY <4>2, <4>3, <5>2 DEF w
        <4>4. CASE g # h
          <5>1. id # n
            BY <2>2, <2>3, <4>1, <4>2, <4>4
          <5>2. id \in Sent(c, g) /\ c.requests[id] = d.requests[id]
            BY <2>2, <2>3, <4>1, <4>2, <5>1 DEF Sent, Of
          <5>3. Deleting(c, g)
            <6>1. PICK j \in Sent(d, g) : d.requests[j].type = "Delete"
              BY <3>1 DEF Deleting
            <6>2. j \in Ids /\ d.requests[j].chat = g /\ d.requests[j].at # "postponed"
              BY <6>1 DEF Sent, Of
            <6>3. j # n
              BY <6>2, <2>2, <2>10, <4>4
            <6>4. d.requests[j] = c.requests[j]
              BY <6>2, <6>3, <2>9
            <6> QED
              BY <6>1, <6>4 DEF Deleting, Sent, Of
          <5> QED
            BY <5>2, <5>3 DEF DeletionsAlone
        <4> QED
          BY <4>3, <4>4
      <3>2. ASSUME NEW g \in Chats, Of(d, g, {"postponed"}) # {}
            PROVE  Deleting(d, g)
        <4>1. PICK id \in Ids : d.requests[id].at = "postponed" /\ d.requests[id].chat = g
          BY <3>2 DEF Of
        <4>2. id # n
          BY <4>1, <2>2, <2>10
        <4>3. CASE d.requests[id] = c.requests[id]
          <5>1. Deleting(c, g)
            BY <4>1, <4>3 DEF DeletionsAlone, Of
          <5>2. PICK j \in Sent(c, g) : c.requests[j].type = "Delete"
            BY <5>1 DEF Deleting
          <5>3. j \in Ids /\ j # n /\ c.requests[j].chat = g /\ c.requests[j].at \in {"sent", "left"}
            BY <5>2, <2>2 DEF Sent, Of
          <5>4. d.requests[j] = c.requests[j]
            BY <5>2, <5>3, <2>9
          <5> QED
            BY <5>2, <5>3, <5>4 DEF Deleting, Sent, Of
        <4>4. CASE d.requests[id] # c.requests[id]
          <5>1. d.requests[id] # e.requests[id]
            BY <4>2, <4>4, <2>2, <2>3
          <5> QED
            BY <5>1, <4>1, <2>11, <2>12
        <4> QED
          BY <4>3, <4>4
      <3> QED
        BY <3>1, <3>2 DEF DeletionsAlone
    <2>14. /\ SameMarks(c, d) /\ SameTimes(c, d) /\ d.last = c.last
           /\ d.pending = c.pending /\ d.asked = c.asked /\ d.posted = c.posted
      BY <2>2, <2>3, <2>6 DEF SameRest, SameMarks, SameTimes, SameEntries
    <2>15. \A g \in Chats :
             d.postponedEntry[g] <=>
               \/ c.postponedEntry[g]
               \/ g = h /\ c.asked[g] # "no" /\ Changing(d, g)
      BY <2>2, <2>3, <2>4, <2>6, <2>12 DEF SameRest, SameEntries
    <2> QED
      BY <2>2, <2>3, <2>6, <2>9, <2>10, <2>13, <2>14, <2>15 DEF Requested
  <1> QED
    BY <1>1, <1>2

LEMMA RequestedSets ==
  ASSUME NEW c \in Clients, NEW d, NEW h \in Chats, NEW type, NEW till,
         Requested(c, d, h, type, till)
  PROVE  \A g \in Chats :
           /\ \A id \in Sent(d, g) :
                \/ id \in Sent(c, g) /\ d.requests[id] = c.requests[id]
                \/ id = c.made + 1 /\ g = h
           /\ \A id \in Sent(c, g) : c.requests[id].type # "History" =>
                id \in Sent(d, g) /\ d.requests[id] = c.requests[id]
           /\ Changing(c, g) => Changing(d, g)
           /\ Changing(d, g) => Changing(c, g) \/ g = h
  <1> SUFFICES ASSUME NEW g \in Chats
               PROVE  /\ \A id \in Sent(d, g) :
                           \/ id \in Sent(c, g) /\ d.requests[id] = c.requests[id]
                           \/ id = c.made + 1 /\ g = h
                      /\ \A id \in Sent(c, g) : c.requests[id].type # "History" =>
                           id \in Sent(d, g) /\ d.requests[id] = c.requests[id]
                      /\ Changing(c, g) => Changing(d, g)
                      /\ Changing(d, g) => Changing(c, g) \/ g = h
    OBVIOUS
  <1>1. ASSUME NEW id \in Sent(d, g)
        PROVE  \/ id \in Sent(c, g) /\ d.requests[id] = c.requests[id]
               \/ id = c.made + 1 /\ g = h
    BY DEF Requested, Sent, Of
  <1>2. ASSUME NEW id \in Sent(c, g), c.requests[id].type # "History"
        PROVE  id \in Sent(d, g) /\ d.requests[id] = c.requests[id]
    BY <1>2 DEF Requested, Sent, Of
  <1> QED
    BY <1>1, <1>2 DEF Changing

LEMMA RequestedStep ==
  ASSUME NEW c \in Clients, RequestsMade(c), NEW d, NEW h \in Chats,
         NEW type, NEW till, Requested(c, d, h, type, till)
  PROVE  Step(c, d)
  <1>1. c.made \in Nat /\ c.made <= d.made
    BY DEF Clients, Requested
  <1>2. ASSUME NEW id \in Ids, d.requests[id].at # "none"
        PROVE  \/ c.requests[id].at = "none" /\ id > c.made
               \/ /\ c.requests[id].at # "none"
                  /\ SameKind(c.requests[id], d.requests[id])
    <2>1. CASE id = c.made + 1
      BY <1>1, <2>1 DEF Requested
    <2>2. CASE id # c.made + 1
      BY <1>2, <2>2 DEF Requested, SameKind, Sent, Of
    <2> QED
      BY <2>1, <2>2
  <1>3. \A g \in Chats : d.asked[g] # "no" /\ ~d.postponedEntry[g] =>
                           c.asked[g] # "no" /\ ~c.postponedEntry[g]
    BY DEF Requested
  <1> QED
    BY <1>1, <1>2, <1>3 DEF Step, SameKind

LEMMA RequestedGood ==
  ASSUME NEW c, Good(c), NEW d, NEW h \in Chats,
         NEW type \in {"History", "ReadInbox", "Delete", "Send"},
         NEW till \in 0 .. MaxId, Requested(c, d, h, type, till),
         till # 0 => /\ type = "ReadInbox" /\ c.willReadTill[h] = 0
                     /\ till = c.sentReadTill[h]
                     /\ c.wanted[h] # 0 => till <= c.wanted[h]
                     /\ \A id \in Sent(c, h) : c.requests[id].till < till
  PROVE  Good(d)
  <1> DEFINE n == c.made + 1
  <1>1. c \in Clients /\ d \in Clients /\ c.made \in Nat /\ till \in Nat
    BY BoundsAssumption DEF Good, Requested, Clients
  <1>2. \A g \in Chats : 
          /\ \A id \in Sent(d, g) :
                \/ id \in Sent(c, g) /\ d.requests[id] = c.requests[id]
                \/ id = n /\ g = h
          /\ Changing(c, g) => Changing(d, g)
          /\ Changing(d, g) => Changing(c, g) \/ g = h
    <2>1. \A g \in Chats :
            /\ \A id \in Sent(d, g) :
                 \/ id \in Sent(c, g) /\ d.requests[id] = c.requests[id]
                 \/ id = c.made + 1 /\ g = h
            /\ \A id \in Sent(c, g) : c.requests[id].type # "History" =>
                 id \in Sent(d, g) /\ d.requests[id] = c.requests[id]
            /\ Changing(c, g) => Changing(d, g)
            /\ Changing(d, g) => Changing(c, g) \/ g = h
      <3>1. c \in Clients
        BY <1>1
      <3>2. Requested(c, d, h, type, till)
        OBVIOUS
      <3> QED
        BY ONLY <3>1, <3>2, RequestedSets
    <2> QED
      BY ONLY <2>1 DEF n
  <1>3. RequestsMade(d)
    <2> SUFFICES ASSUME NEW id \in Ids, d.requests[id].at # "none"
                 PROVE  /\ id <= d.made
                        /\ d.requests[id].till # 0 => d.requests[id].type = "ReadInbox"
                        /\ d.requests[id].at = "left" => d.requests[id].type = "Delete"
                        /\ d.requests[id].at = "postponed" =>
                             d.requests[id].type = "History"
      BY DEF RequestsMade
    <2>1. CASE id = n
      BY <1>1, <2>1 DEF Requested
    <2>2. CASE id # n
      <3>1. c.requests[id].at # "none"
        BY <2>2 DEF Requested, Sent, Of
      <3>2. id <= c.made /\ id \in Nat /\ d.made = c.made + 1
        BY <3>1 DEF Good, RequestsMade, Ids, Requested
      <3> QED
        BY <1>1, <2>2, <3>1, <3>2 DEF Good, RequestsMade, Requested, SameKind
    <2> QED
      BY <2>1, <2>2
  <1>4. EntriesMarked(d)
    BY <1>2 DEF Good, EntriesMarked, Requested
  <1>5. MarksInOrder(d)
    <2> SUFFICES ASSUME NEW g \in Chats
                 PROVE  /\ d.willReadTill[g] # 0 =>
                             /\ d.willReadTill[g] > d.sentReadTill[g]
                             /\ d.wanted[g] = d.willReadTill[g]
                             /\ \A id \in Sent(d, g) :
                                  d.requests[id].till < d.willReadTill[g]
                        /\ \A id \in Sent(d, g) :
                             /\ d.sentReadTill[g] = 0 =>
                                  d.requests[id].till <= d.readTill[g]
                             /\ d.sentReadTill[g] # 0 =>
                                  d.requests[id].till <= d.sentReadTill[g]
                             /\ d.wanted[g] # 0 => d.requests[id].till <= d.wanted[g]
                        /\ \A i, j \in Sent(d, g) :
                             i < j /\ d.requests[j].till # 0 =>
                               d.requests[i].till < d.requests[j].till
      BY DEF MarksInOrder
    <2>1. /\ d.willReadTill = c.willReadTill /\ d.sentReadTill = c.sentReadTill
          /\ d.readTill = c.readTill /\ d.wanted = c.wanted
      BY DEF Requested, SameMarks
    <2>2. /\ c.willReadTill[g] \in Nat /\ c.sentReadTill[g] \in Nat
          /\ c.readTill[g] \in Nat /\ c.wanted[g] \in Nat
      BY <1>1, MarkType
    <2>3. \A id \in Sent(d, g) :
            \/ id \in Sent(c, g) /\ d.requests[id] = c.requests[id]
            \/ id = n /\ g = h /\ d.requests[id].till = till
      BY <1>2 DEF Requested
    <2>4. \A id \in Sent(c, g) : c.requests[id].till \in Nat /\ id <= c.made /\ id \in Nat
      BY <1>1, SentType DEF Good, RequestsMade
    <2>5. MarksInOrder(c)
      BY DEF Good
    <2>6. ASSUME d.willReadTill[g] # 0
          PROVE  /\ d.willReadTill[g] > d.sentReadTill[g]
                 /\ d.wanted[g] = d.willReadTill[g]
                 /\ \A id \in Sent(d, g) : d.requests[id].till < d.willReadTill[g]
      BY <1>1, <2>1, <2>2, <2>3, <2>5, <2>6 DEF MarksInOrder
    <2>7. ASSUME NEW id \in Sent(d, g)
          PROVE  /\ d.sentReadTill[g] = 0 => d.requests[id].till <= d.readTill[g]
                 /\ d.sentReadTill[g] # 0 => d.requests[id].till <= d.sentReadTill[g]
                 /\ d.wanted[g] # 0 => d.requests[id].till <= d.wanted[g]
      BY <1>1, <2>1, <2>2, <2>3, <2>5 DEF MarksInOrder
    <2>8. ASSUME NEW i \in Sent(d, g), NEW j \in Sent(d, g), i < j,
                 d.requests[j].till # 0
          PROVE  d.requests[i].till < d.requests[j].till
      <3>1. i # n
        BY <1>1, <2>3, <2>4, <2>8
      <3>2. i \in Sent(c, g) /\ d.requests[i] = c.requests[i]
        BY <2>3, <3>1
      <3>3. CASE j = n
        BY <2>3, <2>4, <3>2, <3>3, <2>8, <1>1 DEF Requested
      <3>4. CASE j # n
        BY <2>3, <2>5, <3>2, <3>4, <2>8 DEF MarksInOrder
      <3> QED
        BY <3>3, <3>4
    <2> QED
      BY <2>6, <2>7, <2>8
  <1> QED
    BY <1>1, <1>3, <1>4, <1>5 DEF Good, Requested

-----------------------------------------------------------------------------
(* Entries.                                                                *)

LEMMA PostponeEntriesIs ==
  ASSUME NEW c \in Clients, NEW d, d = PostponeEntries(c)
  PROVE  /\ d \in Clients /\ SameRequests(c, d) /\ SameMarks(c, d)
         /\ SameTimes(c, d) /\ d.last = c.last
         /\ d.asked = c.asked /\ d.pending = c.pending
         /\ d.postponedEntry = c.postponedEntry
         /\ d.posted >= c.posted
         /\ (\A h, g \in Chats : h # g /\ c.pending[h] # "no" /\ c.pending[g] # "no"
                => c.posted > 0) => d.posted > 0
  <1>1. c.posted \in Nat
    BY DEF Clients
  <1>2. CASE \E h, g \in Chats : h # g /\ c.pending[h] # "no" /\ c.pending[g] # "no"
    <2>1. d = c
      BY <1>2 DEF PostponeEntries
    <2> QED
      BY <2>1, <1>1, <1>2 DEF SameRequests, SameMarks, SameTimes
  <1>3. CASE ~\E h, g \in Chats : h # g /\ c.pending[h] # "no" /\ c.pending[g] # "no"
    <2>1. d = [c EXCEPT !.posted = @ + 1]
      BY <1>3 DEF PostponeEntries
    <2>2. d \in Clients
      BY <2>1, <1>1 DEF Clients
    <2>3. d.posted = c.posted + 1
      BY <2>1 DEF Clients
    <2>4. d.posted >= c.posted /\ d.posted > 0
      BY <2>3, <1>1
    <2>5. /\ SameRequests(c, d) /\ SameMarks(c, d) /\ SameTimes(c, d)
          /\ d.last = c.last /\ d.asked = c.asked /\ d.pending = c.pending
          /\ d.postponedEntry = c.postponedEntry
      BY <2>1 DEF SameRequests, SameMarks, SameTimes
    <2> QED
      BY <2>2, <2>4, <2>5
  <1> QED
    BY <1>2, <1>3

(* requestDialogEntry, with or without a callback.                         *)
LEMMA RequestEntryIs ==
  ASSUME NEW c, Good(c), NEW h \in Chats, NEW waits \in BOOLEAN,
         NEW d, d = RequestEntry(c, h, waits)
  PROVE  /\ Good(d) /\ SameRequests(c, d) /\ SameMarks(c, d) /\ SameTimes(c, d)
         /\ Step(c, d) /\ d.last = c.last
         /\ Waiters(d) \subseteq Waiters(c) \cup {h}
         /\ ~waits => Waiters(d) \subseteq Waiters(c)
  <1> DEFINE Key(key) ==
               IF waits THEN "waited" ELSE IF key = "no" THEN "yes" ELSE key
             asked == [c.asked EXCEPT ![h] = Key(c.asked[h])]
             pending == [c.pending EXCEPT ![h] = Key(c.pending[h])]
  <1>1. c \in Clients /\ c.posted \in Nat /\ EntriesMarked(c)
    BY DEF Good, Clients
  <1>2. c.asked \in [Chats -> Keys] /\ c.pending \in [Chats -> Keys]
    BY <1>1 DEF Clients
  <1>3. /\ asked \in [Chats -> Keys]
        /\ \A g \in Chats : g # h => asked[g] = c.asked[g]
        /\ asked[h] # "no"
        /\ asked[h] = "waited" => waits \/ c.asked[h] = "waited"
    BY <1>2 DEF Keys
  <1>4. /\ pending \in [Chats -> Keys]
        /\ \A g \in Chats : g # h => pending[g] = c.pending[g]
        /\ pending[h] # "no"
        /\ pending[h] = "waited" => waits \/ c.pending[h] = "waited"
    BY <1>2 DEF Keys
  <1>5. /\ d \in Clients /\ SameRequests(c, d) /\ SameMarks(c, d)
        /\ SameTimes(c, d) /\ d.last = c.last
        /\ d.postponedEntry = c.postponedEntry
        /\ \/ d.asked = asked /\ d.pending = c.pending /\ d.posted = c.posted
              /\ c.asked[h] # "no"
           \/ d.asked = c.asked /\ d.pending = pending /\ d.posted > 0
              /\ c.asked[h] = "no"
    <2>1. CASE c.asked[h] # "no"
      <3>1. d = [c EXCEPT !.asked = asked]
        BY <2>1 DEF RequestEntry
      <3> HIDE DEF asked
      <3> QED
        BY <3>1, <2>1, <1>1, <1>3 DEF Clients, SameRequests, SameMarks, SameTimes
    <2>2. CASE c.asked[h] = "no" /\ c.pending[h] # "no"
      <3>1. d = [c EXCEPT !.pending = pending]
        BY <2>2 DEF RequestEntry
      <3>2. c.posted > 0
        BY <1>1, <2>2 DEF EntriesMarked
      <3> HIDE DEF pending
      <3> QED
        BY <3>1, <3>2, <2>2, <1>1, <1>4 DEF Clients, SameRequests, SameMarks, SameTimes
    <2>3. CASE c.asked[h] = "no" /\ c.pending[h] = "no"
      <3> DEFINE e == [c EXCEPT !.pending = pending]
      <3>1. d = PostponeEntries(e)
        BY <2>3 DEF RequestEntry
      <3> HIDE DEF pending
      <3>2. /\ e \in Clients /\ SameRequests(c, e) /\ SameMarks(c, e)
            /\ SameTimes(c, e) /\ e.last = c.last /\ e.pending = pending
            /\ e.asked = c.asked /\ e.postponedEntry = c.postponedEntry
            /\ e.posted = c.posted
        BY <1>1, <1>4 DEF Clients, SameRequests, SameMarks, SameTimes
      <3> HIDE DEF e
      <3>3. \A g, f \in Chats : g # f /\ e.pending[g] # "no" /\ e.pending[f] # "no"
               => e.posted > 0
        BY <3>2, <1>1, <1>4 DEF EntriesMarked
      <3>4. /\ d \in Clients /\ SameRequests(e, d) /\ SameMarks(e, d)
            /\ SameTimes(e, d) /\ d.last = e.last
            /\ d.asked = e.asked /\ d.pending = e.pending
            /\ d.postponedEntry = e.postponedEntry /\ d.posted > 0
        BY <3>1, <3>2, <3>3, PostponeEntriesIs
      <3> QED
        BY <3>2, <3>4, <2>3 DEF SameRequests, SameMarks, SameTimes
    <2> QED
      BY <2>1, <2>2, <2>3
  <1> HIDE DEF asked, pending
  <1>6. RequestsMade(d) /\ DeletionsAlone(d)
    BY <1>5, SameRequestsKeep DEF Good
  <1>7. MarksInOrder(d)
    BY <1>5, SameMarksKeep DEF Good, SameRequests
  <1>8. \A g \in Chats : Changing(d, g) <=> Changing(c, g)
    BY <1>5, SameSets DEF SameRequests
  <1>9. \A g \in Chats : c.pending[g] # "no" => c.asked[g] = "no" /\ c.posted > 0
    BY <1>1 DEF EntriesMarked
  <1>10. \A g \in Chats : c.postponedEntry[g] <=> c.asked[g] # "no" /\ Changing(c, g)
    BY <1>1 DEF EntriesMarked
  <1>11. \A g \in Chats : /\ d.asked[g] = "no" <=> c.asked[g] = "no"
                          /\ d.pending[g] # "no" => d.asked[g] = "no" /\ d.posted > 0
    BY <1>3, <1>4, <1>5, <1>9
  <1>12. EntriesMarked(d)
    BY <1>5, <1>8, <1>10, <1>11 DEF EntriesMarked
  <1>13. Step(c, d)
    <2>1. c.made \in Nat
      BY <1>1 DEF Clients
    <2> QED
      BY <2>1, <1>5, <1>11 DEF Step, SameRequests
  <1>14. \A g \in Chats : "waited" \in {d.pending[g], d.asked[g]} =>
           \/ "waited" \in {c.pending[g], c.asked[g]}
           \/ g = h /\ waits
    BY <1>3, <1>4, <1>5
  <1> QED
    BY <1>5, <1>6, <1>7, <1>12, <1>13, <1>14 DEF Good, Waiters

(* finishSentRequest, of an entry: it is asked for again once nothing sent *)
(* changes the chat.                                                       *)
LEMMA RepeatIs ==
  ASSUME NEW c \in Clients, NEW h \in Chats,
         \A g \in Chats : c.pending[g] # "no" => c.asked[g] = "no" /\ c.posted > 0,
         \A g \in Chats : c.postponedEntry[g] => c.asked[g] # "no",
         \A g \in Chats : c.asked[g] # "no" /\ Changing(c, g) => c.postponedEntry[g],
         \A g \in Chats : g # h /\ c.postponedEntry[g] => Changing(c, g),
         NEW d, d = Repeat(c, h)
  PROVE  /\ d \in Clients /\ SameRequests(c, d) /\ SameMarks(c, d)
         /\ SameTimes(c, d) /\ d.last = c.last /\ EntriesMarked(d)
         /\ Waiters(d) \subseteq Waiters(c)
         /\ \A g \in Chats : d.asked[g] # "no" /\ ~d.postponedEntry[g] =>
                               c.asked[g] # "no" /\ ~c.postponedEntry[g]
  <1>1. CASE c.postponedEntry[h] /\ ~Changing(c, h)
    <2> DEFINE pending == [c.pending EXCEPT ![h] = c.asked[h]]
               asked == [c.asked EXCEPT ![h] = "no"]
               postponed == [c.postponedEntry EXCEPT ![h] = FALSE]
               e == [c EXCEPT !.pending = pending, !.asked = asked,
                              !.postponedEntry = postponed]
    <2>1. d = PostponeEntries(e)
      BY <1>1 DEF Repeat
    <2>2. /\ c.asked \in [Chats -> Keys] /\ c.pending \in [Chats -> Keys]
          /\ c.postponedEntry \in [Chats -> BOOLEAN]
      BY DEF Clients
    <2>3. /\ pending \in [Chats -> Keys] /\ pending[h] = c.asked[h]
          /\ \A g \in Chats : g # h => pending[g] = c.pending[g]
      BY <2>2
    <2>4. /\ asked \in [Chats -> Keys] /\ asked[h] = "no"
          /\ \A g \in Chats : g # h => asked[g] = c.asked[g]
      BY <2>2 DEF Keys
    <2>5. /\ postponed \in [Chats -> BOOLEAN] /\ ~postponed[h]
          /\ \A g \in Chats : g # h => (postponed[g] <=> c.postponedEntry[g])
      BY <2>2
    <2> HIDE DEF pending, asked, postponed
    <2>6. /\ e \in Clients /\ SameRequests(c, e) /\ SameMarks(c, e)
          /\ SameTimes(c, e) /\ e.last = c.last /\ e.pending = pending
          /\ e.asked = asked /\ e.postponedEntry = postponed
          /\ e.posted = c.posted
      BY <2>3, <2>4, <2>5 DEF Clients, SameRequests, SameMarks, SameTimes
    <2> HIDE DEF e
    <2>7. \A g, f \in Chats : g # f /\ e.pending[g] # "no" /\ e.pending[f] # "no"
             => e.posted > 0
      BY <2>3, <2>6
    <2>8. /\ d \in Clients /\ SameRequests(e, d) /\ SameMarks(e, d)
          /\ SameTimes(e, d) /\ d.last = e.last
          /\ d.asked = e.asked /\ d.pending = e.pending
          /\ d.postponedEntry = e.postponedEntry /\ d.posted > 0
      BY <2>1, <2>6, <2>7, PostponeEntriesIs
    <2>9. /\ SameRequests(c, d) /\ SameMarks(c, d) /\ SameTimes(c, d)
          /\ d.last = c.last /\ d.asked = asked /\ d.pending = pending
          /\ d.postponedEntry = postponed
      BY <2>6, <2>8 DEF SameRequests, SameMarks, SameTimes
    <2>10. \A g \in Chats : Changing(d, g) <=> Changing(c, g)
      BY <2>9, SameSets DEF SameRequests
    <2>11. \A g \in Chats : 
             /\ d.postponedEntry[g] <=> d.asked[g] # "no" /\ Changing(d, g)
             /\ d.pending[g] # "no" => d.asked[g] = "no"
      <3> SUFFICES ASSUME NEW g \in Chats
                   PROVE  /\ d.postponedEntry[g] <=> d.asked[g] # "no" /\ Changing(d, g)
                          /\ d.pending[g] # "no" => d.asked[g] = "no"
        OBVIOUS
      <3>1. CASE g = h
        BY <2>4, <2>5, <2>9, <3>1
      <3>2. CASE g # h
        BY <2>3, <2>4, <2>5, <2>9, <2>10, <3>2
      <3> QED
        BY <3>1, <3>2
    <2>12. EntriesMarked(d)
      BY <2>8, <2>11 DEF EntriesMarked
    <2>13. \A g \in Chats : "waited" \in {d.pending[g], d.asked[g]} =>
                              "waited" \in {c.pending[g], c.asked[g]}
      BY <2>3, <2>4, <2>9
    <2>14. \A g \in Chats : d.asked[g] # "no" /\ ~d.postponedEntry[g] =>
                              c.asked[g] # "no" /\ ~c.postponedEntry[g]
      BY <2>4, <2>5, <2>9
    <2> QED
      BY <2>8, <2>9, <2>12, <2>13, <2>14 DEF Waiters
  <1>2. CASE ~(c.postponedEntry[h] /\ ~Changing(c, h))
    <2>1. d = c
      BY <1>2 DEF Repeat
    <2>2. EntriesMarked(c)
      BY <1>2 DEF EntriesMarked
    <2> QED
      BY <2>1, <2>2 DEF SameRequests, SameMarks, SameTimes
  <1> QED
    BY <1>1, <1>2

(* finishSentRequest: a request less, and what was postponed for it.       *)
LEMMA FinishRequestIs ==
  ASSUME NEW c, Good(c), NEW id \in Ids, c.requests[id].at # "none",
         NEW d, d = FinishRequest(c, id)
  PROVE  /\ d \in Clients /\ d.made = c.made /\ SameMarks(c, d)
         /\ SameTimes(c, d) /\ d.last = c.last
         /\ DeletionsAlone(d) /\ EntriesMarked(d)
         /\ Waiters(d) \subseteq Waiters(c)
         /\ d.requests[id].at = "none"
         /\ \A i \in Ids : i # id =>
              \/ d.requests[i] = c.requests[i]
              \/ /\ c.requests[i].at = "postponed" /\ d.requests[i].at = "sent"
                 /\ SameKind(c.requests[i], d.requests[i])
         /\ \A g \in Chats : d.asked[g] # "no" /\ ~d.postponedEntry[g] =>
                               c.asked[g] # "no" /\ ~c.postponedEntry[g]
  <1> DEFINE h == c.requests[id].chat
             less == [c.requests EXCEPT ![id] = NoRequest]
             a == [c EXCEPT !.requests = less]
             e == Resume(a, h)
             w == Of(a, h, {"postponed"})
  <1>1. d = Repeat(e, h)
    BY DEF FinishRequest
  <1>2. c \in Clients /\ RequestsMade(c) /\ DeletionsAlone(c) /\ EntriesMarked(c)
    BY DEF Good
  <1>3. h \in Chats
    BY <1>2, RequestType
  <1>4. /\ less \in [Ids -> Requests \cup {NoRequest}] /\ less[id].at = "none"
        /\ \A i \in Ids : i # id => less[i] = c.requests[i]
    BY <1>2 DEF Clients, NoRequest
  <1> HIDE DEF less, h
  <1>5. /\ a \in Clients /\ a.made = c.made /\ a.requests = less /\ SameRest(c, a)
    BY <1>2, <1>4 DEF Clients, SameRest, SameEntries, SameMarks, SameTimes
  <1> HIDE DEF a
  <1>6. /\ e \in Clients /\ e.made = c.made /\ SameRest(a, e)
        /\ \A i \in Ids :
             \/ e.requests[i] = a.requests[i]
             \/ /\ ~Deleting(a, h) /\ i \in w /\ e.requests[i].at = "sent"
                /\ SameKind(a.requests[i], e.requests[i])
        /\ ~Deleting(a, h) => \A i \in w : e.requests[i].at = "sent"
    <2>1. CASE Deleting(a, h)
      BY <1>5, <2>1 DEF Resume, SameRest, SameEntries, SameMarks, SameTimes
    <2>2. CASE ~Deleting(a, h)
      <3>1. e = Put(a, w, "sent")
        BY <2>2 DEF Resume
      <3>2. \A i \in w : i \in Ids /\ a.requests[i].at # "none"
        BY DEF Of
      <3> HIDE DEF e, w
      <3>3. /\ e \in Clients /\ e.made = a.made /\ SameRest(a, e)
            /\ \A i \in Ids :
                /\ i \notin w => e.requests[i] = a.requests[i]
                /\ i \in w => /\ e.requests[i].at = "sent"
                              /\ SameKind(a.requests[i], e.requests[i])
        BY <1>5, <3>1, <3>2, PutIs
      <3> QED
        BY <1>5, <2>2, <3>2, <3>3
    <2> QED
      BY <2>1, <2>2
  <1>7. \A i \in w : /\ i \in Ids /\ i # id /\ a.requests[i].at = "postponed"
                     /\ a.requests[i].chat = h /\ a.requests[i].type = "History"
    BY <1>2, <1>4, <1>5 DEF Of, RequestsMade
  <1>8. \A i \in Ids : i \in w \/ a.requests[i].at # "postponed" \/ a.requests[i].chat # h
    BY DEF Of
  <1> HIDE DEF e, w
  <1>9. \A g \in Chats : /\ Deleting(e, g) <=> Deleting(a, g)
                         /\ Changing(e, g) <=> Changing(a, g)
    BY <1>6, <1>7 DEF Deleting, Changing, Sent, Of, SameKind
  <1>10. \A g \in Chats : /\ Deleting(a, g) => Deleting(c, g)
                          /\ Changing(a, g) => Changing(c, g)
                          /\ g # h => /\ Deleting(c, g) => Deleting(a, g)
                                      /\ Changing(c, g) => Changing(a, g)
    BY <1>4, <1>5 DEF Deleting, Changing, Sent, Of, h
  <1>11. DeletionsAlone(e)
    <2>1. ASSUME NEW g \in Chats, Deleting(e, g), NEW i \in Sent(e, g)
          PROVE  e.requests[i].type # "History"
      <3>1. Deleting(a, g) /\ Deleting(c, g)
        BY <1>9, <1>10, <2>1
      <3>2. i \in Ids /\ e.requests[i].at \in {"sent", "left"} /\ e.requests[i].chat = g
        BY DEF Sent, Of
      <3>3. e.requests[i] = a.requests[i]
        BY <1>6, <1>7, <3>1, <3>2 DEF SameKind
      <3>4. i # id
        BY <1>4, <1>5, <3>2, <3>3
      <3>5. i \in Sent(c, g) /\ c.requests[i] = e.requests[i]
        BY <1>4, <1>5, <3>2, <3>3, <3>4 DEF Sent, Of
      <3> QED
        BY <1>2, <3>1, <3>5 DEF DeletionsAlone
    <2>2. ASSUME NEW g \in Chats, Of(e, g, {"postponed"}) # {}
          PROVE  Deleting(e, g)
      <3>1. PICK i \in Ids : e.requests[i].at = "postponed" /\ e.requests[i].chat = g
        BY <2>2 DEF Of
      <3>2. e.requests[i] = a.requests[i]
        BY <1>6, <3>1
      <3>3. i # id
        BY <1>4, <1>5, <3>1, <3>2
      <3>4. Deleting(c, g)
        BY <1>2, <1>4, <1>5, <3>1, <3>2, <3>3 DEF DeletionsAlone, Of
      <3>5. CASE g = h /\ ~Deleting(a, h)
        BY <1>6, <1>8, <3>1, <3>2, <3>5
      <3>6. CASE g # h \/ Deleting(a, h)
        BY <1>9, <1>10, <3>4, <3>6
      <3> QED
        BY <3>5, <3>6
    <2> QED
      BY <2>1, <2>2 DEF DeletionsAlone
  <1>12. /\ SameMarks(c, e) /\ SameTimes(c, e) /\ e.last = c.last
         /\ e.asked = c.asked /\ e.pending = c.pending /\ e.posted = c.posted
         /\ e.postponedEntry = c.postponedEntry
    BY <1>5, <1>6 DEF SameRest, SameEntries, SameMarks, SameTimes
  <1>13. /\ \A g \in Chats : e.pending[g] # "no" => e.asked[g] = "no" /\ e.posted > 0
         /\ \A g \in Chats : e.postponedEntry[g] => e.asked[g] # "no"
         /\ \A g \in Chats : e.asked[g] # "no" /\ Changing(e, g) => e.postponedEntry[g]
         /\ \A g \in Chats : g # h /\ e.postponedEntry[g] => Changing(e, g)
    BY <1>2, <1>9, <1>10, <1>12 DEF EntriesMarked
  <1>14. /\ d \in Clients /\ SameRequests(e, d) /\ SameMarks(e, d)
         /\ SameTimes(e, d) /\ d.last = e.last /\ EntriesMarked(d)
         /\ Waiters(d) \subseteq Waiters(e)
         /\ \A g \in Chats : d.asked[g] # "no" /\ ~d.postponedEntry[g] =>
                               e.asked[g] # "no" /\ ~e.postponedEntry[g]
    BY <1>1, <1>3, <1>6, <1>13, RepeatIs
  <1>15. DeletionsAlone(d)
    BY <1>11, <1>14, SameSets DEF SameRequests, DeletionsAlone
  <1>16. Waiters(e) = Waiters(c)
    BY <1>12 DEF Waiters
  <1>17. /\ d.requests[id].at = "none"
         /\ \A i \in Ids : i # id =>
              \/ d.requests[i] = c.requests[i]
              \/ /\ c.requests[i].at = "postponed" /\ d.requests[i].at = "sent"
                 /\ SameKind(c.requests[i], d.requests[i])
    BY <1>4, <1>5, <1>6, <1>7, <1>14 DEF SameRequests
  <1> QED
    BY <1>6, <1>12, <1>14, <1>15, <1>16, <1>17 DEF SameRequests, SameMarks, SameTimes

LEMMA FinishRequestGood ==
  ASSUME NEW c, Good(c), NEW id \in Ids, c.requests[id].at # "none",
         NEW d, d = FinishRequest(c, id)
  PROVE  /\ Good(d) /\ Step(c, d) /\ SameMarks(c, d) /\ SameTimes(c, d)
         /\ d.last = c.last /\ Needs(d) <= Needs(c)
         /\ \A g \in Chats : \A i \in Sent(c, g) :
              i # id => i \in Sent(d, g) /\ d.requests[i] = c.requests[i]
  <1>1. /\ d \in Clients /\ d.made = c.made /\ SameMarks(c, d)
        /\ SameTimes(c, d) /\ d.last = c.last
        /\ DeletionsAlone(d) /\ EntriesMarked(d)
        /\ Waiters(d) \subseteq Waiters(c)
        /\ d.requests[id].at = "none"
        /\ \A i \in Ids : i # id =>
             \/ d.requests[i] = c.requests[i]
             \/ /\ c.requests[i].at = "postponed" /\ d.requests[i].at = "sent"
                /\ SameKind(c.requests[i], d.requests[i])
        /\ \A g \in Chats : d.asked[g] # "no" /\ ~d.postponedEntry[g] =>
                              c.asked[g] # "no" /\ ~c.postponedEntry[g]
    BY FinishRequestIs
  <1>2. /\ c \in Clients /\ c.made \in Nat /\ RequestsMade(c) /\ MarksInOrder(c)
    BY DEF Good, Clients
  <1>3. RequestsMade(d)
    BY <1>1, <1>2 DEF RequestsMade, SameKind
  <1>4. Step(c, d)
    BY <1>1, <1>2 DEF Step, SameKind
  <1>5. ASSUME NEW g \in Chats, NEW i \in Sent(d, g)
        PROVE  \/ i \in Sent(c, g) /\ d.requests[i] = c.requests[i]
               \/ d.requests[i].till = 0
    <2>1. /\ i \in Ids /\ i # id /\ d.requests[i].at \in {"sent", "left"}
          /\ d.requests[i].chat = g
      BY <1>1 DEF Sent, Of
    <2>2. CASE d.requests[i] = c.requests[i]
      BY <2>1, <2>2 DEF Sent, Of
    <2>3. CASE d.requests[i] # c.requests[i]
      BY <1>1, <1>2, <2>1, <2>3 DEF RequestsMade, SameKind
    <2> QED
      BY <2>2, <2>3
  <1>6. MarksInOrder(d)
    <2> SUFFICES ASSUME NEW g \in Chats
                 PROVE  /\ d.willReadTill[g] # 0 =>
                             /\ d.willReadTill[g] > d.sentReadTill[g]
                             /\ d.wanted[g] = d.willReadTill[g]
                             /\ \A i \in Sent(d, g) :
                                  d.requests[i].till < d.willReadTill[g]
                        /\ \A i \in Sent(d, g) :
                             /\ d.sentReadTill[g] = 0 =>
                                  d.requests[i].till <= d.readTill[g]
                             /\ d.sentReadTill[g] # 0 =>
                                  d.requests[i].till <= d.sentReadTill[g]
                             /\ d.wanted[g] # 0 => d.requests[i].till <= d.wanted[g]
                        /\ \A i, j \in Sent(d, g) :
                             i < j /\ d.requests[j].till # 0 =>
                               d.requests[i].till < d.requests[j].till
      BY DEF MarksInOrder
    <2>1. /\ d.willReadTill = c.willReadTill /\ d.sentReadTill = c.sentReadTill
          /\ d.readTill = c.readTill /\ d.wanted = c.wanted
      BY <1>1 DEF SameMarks
    <2>2. /\ c.willReadTill[g] \in Nat /\ c.sentReadTill[g] \in Nat
          /\ c.readTill[g] \in Nat /\ c.wanted[g] \in Nat
      BY <1>2, MarkType
    <2>3. \A i \in Sent(d, g) : d.requests[i].till \in Nat
      BY <1>1, SentType
    <2> QED
      BY <1>2, <1>5, <2>1, <2>2, <2>3 DEF MarksInOrder
  <1>7. Needs(d) <= Needs(c)
    <2>1. Marked(d) = Marked(c)
      BY <1>1 DEF Marked, SameMarks
    <2> QED
      BY <1>1, <1>2, <2>1, FewerNeeds
  <1>8. \A g \in Chats : \A i \in Sent(c, g) :
          i # id => i \in Sent(d, g) /\ d.requests[i] = c.requests[i]
    BY <1>1 DEF Sent, Of
  <1> QED
    BY <1>1, <1>3, <1>4, <1>6, <1>7, <1>8 DEF Good

-----------------------------------------------------------------------------
(* Read marks.                                                             *)

ReadType == read \in [Chats -> 0 .. MaxId]

(* The requests that say what was read stay as they are.                   *)
MarksSent(c, d) ==
  \A g \in Chats : \A i \in Sent(c, g) :
    c.requests[i].till # 0 =>
      i \in Sent(d, g) /\ d.requests[i].till = c.requests[i].till

LEMMA MarksStayKept ==
  ASSUME ReadType, NEW c \in Clients, MarksKept(c), NEW d, MarksSent(c, d),
         NEW g \in Chats, d.wanted[g] = c.wanted[g], d.wanted[g] > read[g],
         c.willReadTill[g] >= c.wanted[g] =>
           \/ d.willReadTill[g] >= d.wanted[g]
           \/ \E id \in Sent(d, g) : d.requests[id].till >= d.wanted[g]
  PROVE  \/ d.willReadTill[g] >= d.wanted[g]
         \/ \E id \in Sent(d, g) : d.requests[id].till >= d.wanted[g]
  <1>1. c.wanted[g] \in Nat /\ read[g] \in Nat
    BY MarkType, BoundsAssumption DEF ReadType
  <1>2. CASE c.willReadTill[g] >= c.wanted[g]
    BY <1>2
  <1>3. CASE ~(c.willReadTill[g] >= c.wanted[g])
    <2>1. PICK id \in Sent(c, g) : c.requests[id].till >= c.wanted[g]
      BY <1>3 DEF MarksKept
    <2>2. c.requests[id].till \in Nat /\ c.requests[id].till # 0
      BY <1>1, <2>1, SentType
    <2> QED
      BY <2>1, <2>2 DEF MarksSent
  <1> QED
    BY <1>2, <1>3

LEMMA SameMarksStayKept ==
  ASSUME ReadType, NEW c \in Clients, MarksKept(c), NEW d, MarksSent(c, d),
         d.wanted = c.wanted, d.willReadTill = c.willReadTill
  PROVE  MarksKept(d)
  BY MarksStayKept DEF MarksKept

(* What sendReadRequests leaves alone.                                     *)
ReadsSent(c, d) ==
  /\ Step(c, d) /\ Needs(d) <= Needs(c) /\ MarksSent(c, d)
  /\ d.pending = c.pending /\ d.asked = c.asked /\ d.posted = c.posted
  /\ d.readTill = c.readTill /\ d.wanted = c.wanted /\ d.last = c.last
  /\ \A g \in Chats : c.postponedEntry[g] => d.postponedEntry[g]
  /\ \A id \in Ids : c.requests[id].at # "none" /\ c.requests[id].type # "History" =>
       d.requests[id] = c.requests[id]

LEMMA ReadsSentTrans ==
  ASSUME NEW b, NEW c, NEW d, Good(b), Good(c), Good(d),
         ReadsSent(b, c), ReadsSent(c, d)
  PROVE  ReadsSent(b, d)
  <1>1. /\ b \in Clients /\ c \in Clients /\ d \in Clients /\ RequestsMade(b)
    BY DEF Good
  <1>2. Step(b, d)
    BY <1>1, StepTrans DEF ReadsSent
  <1>3. Needs(d) <= Needs(b)
    BY <1>1, NeedsType DEF ReadsSent
  <1>4. MarksSent(b, d)
    BY DEF ReadsSent, MarksSent
  <1> QED
    BY <1>2, <1>3, <1>4 DEF ReadsSent

(* sendReadRequest: the mark that waits is sent.                           *)
LEMMA SendReadIs ==
  ASSUME ReadType, NEW c, Good(c), MarksKept(c), Needs(c) <= MaxRequests,
         NEW h \in Chats, c.willReadTill[h] # 0, NEW d, d = SendRead(h, c)
  PROVE  /\ Good(d) /\ MarksKept(d) /\ ReadsSent(c, d) /\ d.timer = c.timer
         /\ d.willReadTill[h] = 0
         /\ \A g \in Chats : g # h => /\ d.willReadTill[g] = c.willReadTill[g]
                                      /\ d.later[g] = c.later[g]
  <1> DEFINE will == [c.willReadTill EXCEPT ![h] = 0]
             sent == [c.sentReadTill EXCEPT ![h] = c.willReadTill[h]]
             later == [c.later EXCEPT ![h] = FALSE]
             sentDone == [c.sentReadDone EXCEPT ![h] = FALSE]
             a == [c EXCEPT !.sentReadTill = sent, !.willReadTill = will,
                            !.later = later, !.sentReadDone = sentDone]
             till == c.willReadTill[h]
  <1>1. d = SendRequest(a, h, "ReadInbox", till)
    BY DEF SendRead
  <1>2. /\ c \in Clients /\ c.made \in Nat /\ MaxRequests \in Nat
        /\ RequestsMade(c) /\ DeletionsAlone(c) /\ EntriesMarked(c) /\ MarksInOrder(c)
    BY BoundsAssumption DEF Good, Clients
  <1>3. /\ c.willReadTill \in [Chats -> 0 .. MaxId]
        /\ c.sentReadTill \in [Chats -> 0 .. MaxId]
        /\ c.later \in [Chats -> BOOLEAN] /\ c.sentReadDone \in [Chats -> BOOLEAN]
    BY <1>2 DEF Clients
  <1>4. till \in 0 .. MaxId /\ till \in Nat /\ till # 0 /\ MaxId \in Nat
    BY <1>3, BoundsAssumption
  <1>5. /\ will \in [Chats -> 0 .. MaxId] /\ will[h] = 0
        /\ \A g \in Chats : g # h => will[g] = c.willReadTill[g]
    BY <1>3, <1>4
  <1>6. /\ sent \in [Chats -> 0 .. MaxId] /\ sent[h] = till
        /\ \A g \in Chats : g # h => sent[g] = c.sentReadTill[g]
    BY <1>3, <1>4
  <1>7. /\ later \in [Chats -> BOOLEAN] /\ sentDone \in [Chats -> BOOLEAN]
        /\ \A g \in Chats : g # h => later[g] = c.later[g]
    BY <1>3
  <1> HIDE DEF will, sent, later, sentDone
  <1>8. /\ a \in Clients /\ SameRequests(c, a) /\ SameEntries(c, a)
        /\ a.willReadTill = will /\ a.sentReadTill = sent /\ a.later = later
        /\ a.timer = c.timer /\ a.readTill = c.readTill /\ a.wanted = c.wanted
        /\ a.last = c.last
    BY <1>2, <1>5, <1>6, <1>7 DEF Clients, SameRequests, SameEntries
  <1> HIDE DEF a, till
  <1>9. RequestsMade(a) /\ DeletionsAlone(a)
    BY <1>2, <1>8, SameRequestsKeep
  <1>10. /\ \A g \in Chats : Changing(a, g) <=> Changing(c, g)
         /\ \A g \in Chats : Sent(a, g) = Sent(c, g)
         /\ a.requests = c.requests /\ a.made = c.made
    BY <1>8, SameSets DEF SameRequests
  <1>11. EntriesMarked(a)
    BY <1>2, <1>8, <1>10, SameEntriesKeep
  <1>12. /\ c.wanted[h] = till
         /\ \A id \in Sent(a, h) : a.requests[id].till < till
    BY <1>2, <1>4, <1>10 DEF MarksInOrder, till
  <1>13. MarksInOrder(a)
    <2> SUFFICES ASSUME NEW g \in Chats
                 PROVE  /\ a.willReadTill[g] # 0 =>
                             /\ a.willReadTill[g] > a.sentReadTill[g]
                             /\ a.wanted[g] = a.willReadTill[g]
                             /\ \A i \in Sent(a, g) :
                                  a.requests[i].till < a.willReadTill[g]
                        /\ \A i \in Sent(a, g) :
                             /\ a.sentReadTill[g] = 0 =>
                                  a.requests[i].till <= a.readTill[g]
                             /\ a.sentReadTill[g] # 0 =>
                                  a.requests[i].till <= a.sentReadTill[g]
                             /\ a.wanted[g] # 0 => a.requests[i].till <= a.wanted[g]
                        /\ \A i, j \in Sent(a, g) :
                             i < j /\ a.requests[j].till # 0 =>
                               a.requests[i].till < a.requests[j].till
      BY DEF MarksInOrder
    <2>1. CASE g # h
      BY <1>2, <1>5, <1>6, <1>8, <1>10, <2>1 DEF MarksInOrder
    <2>2. CASE g = h
      <3>1. \A i \in Sent(a, h) : a.requests[i].till \in Nat
        BY <1>8, SentType
      <3>2. \A i \in Sent(a, h) : a.requests[i].till <= till
        BY <3>1, <1>4, <1>12
      <3>3. \A i, j \in Sent(a, h) :
              i < j /\ a.requests[j].till # 0 =>
                a.requests[i].till < a.requests[j].till
        BY <1>2, <1>10 DEF MarksInOrder
      <3>4. a.willReadTill[h] = 0 /\ a.sentReadTill[h] = till /\ a.wanted[h] = till
        BY <1>5, <1>6, <1>8, <1>12
      <3> QED
        BY <1>4, <3>2, <3>3, <3>4, <2>2
    <2> QED
      BY <2>1, <2>2
  <1>14. Good(a)
    BY <1>8, <1>9, <1>11, <1>13 DEF Good
  <1>15. h \in Marked(c) /\ c.made < MaxRequests
    <2>1. h \in Marked(c)
      BY DEF Marked
    <2> QED
      BY <2>1, <1>2, NeedsType
  <1>16. Requested(a, d, h, "ReadInbox", till)
    BY <1>1, <1>4, <1>8, <1>9, <1>10, <1>11, <1>15, SendRequestIs
  <1>17. Good(d)
    <2>1. /\ a.willReadTill[h] = 0 /\ till = a.sentReadTill[h]
          /\ till <= a.wanted[h]
      BY <1>4, <1>5, <1>6, <1>8, <1>12
    <2> QED
      BY <1>4, <1>12, <1>14, <1>16, <2>1, RequestedGood
  <1>18. Step(c, d)
    <2>1. Step(a, d)
      BY <1>8, <1>9, <1>16, RequestedStep
    <2> QED
      BY <2>1, <1>8, <1>10 DEF Step, SameEntries
  <1>19. /\ d \in Clients /\ d.made = c.made + 1
         /\ d.willReadTill = will /\ d.sentReadTill = sent /\ d.later = later
         /\ d.timer = c.timer /\ d.readTill = c.readTill /\ d.wanted = c.wanted
         /\ d.last = c.last /\ d.pending = c.pending /\ d.asked = c.asked
         /\ d.posted = c.posted
         /\ \A g \in Chats : c.postponedEntry[g] => d.postponedEntry[g]
    BY <1>8, <1>10, <1>16 DEF Requested, SameMarks, SameTimes, SameEntries
  <1>20. Needs(d) <= Needs(c)
    <2>1. Marked(d) \subseteq Marked(c) \ {h} /\ Waiters(d) \subseteq Waiters(c)
      BY <1>5, <1>19 DEF Marked, Waiters
    <2> QED
      BY <1>2, <1>15, <1>19, <2>1, OneMarkSent
  <1>21. \A g \in Chats : \A id \in Sent(c, g) : c.requests[id].type # "History" =>
           id \in Sent(d, g) /\ d.requests[id] = c.requests[id]
    <2>1. \A g \in Chats : \A id \in Sent(a, g) : a.requests[id].type # "History" =>
            id \in Sent(d, g) /\ d.requests[id] = a.requests[id]
      BY <1>8, <1>16, RequestedSets
    <2> QED
      BY <2>1, <1>10
  <1>22. MarksSent(c, d)
    <2>1. \A g \in Chats : \A id \in Sent(c, g) :
            c.requests[id].till # 0 => c.requests[id].type = "ReadInbox"
      BY <1>2, SentType DEF RequestsMade
    <2> QED
      BY <1>21, <2>1 DEF MarksSent
  <1>23. \A id \in Ids : c.requests[id].at # "none" /\ c.requests[id].type # "History" =>
           d.requests[id] = c.requests[id]
    BY <1>10, <1>16 DEF Requested
  <1>24. ReadsSent(c, d)
    BY <1>18, <1>19, <1>20, <1>22, <1>23 DEF ReadsSent
  <1>25. c.made + 1 \in Sent(d, h) /\ d.requests[c.made + 1].till = till
    <2>1. /\ c.made + 1 \in Ids /\ d.requests[c.made + 1].at \in {"postponed", "sent"}
          /\ d.requests[c.made + 1].at # "postponed"
          /\ d.requests[c.made + 1].chat = h /\ d.requests[c.made + 1].till = till
      BY <1>10, <1>16 DEF Requested
    <2> QED
      BY <2>1 DEF Sent, Of
  <1>26. MarksKept(d)
    <2> SUFFICES ASSUME NEW g \in Chats, d.wanted[g] > read[g]
                 PROVE  \/ d.willReadTill[g] >= d.wanted[g]
                        \/ \E id \in Sent(d, g) : d.requests[id].till >= d.wanted[g]
      BY DEF MarksKept
    <2>1. CASE g = h
      <3>1. d.requests[c.made + 1].till >= d.wanted[h]
        BY <1>4, <1>12, <1>19, <1>25
      <3> QED
        BY <3>1, <1>25, <2>1
    <2>2. CASE g # h
      BY <1>2, <1>5, <1>19, <1>22, <2>2, MarksStayKept
    <2> QED
      BY <2>1, <2>2
  <1> QED
    BY <1>5, <1>7, <1>17, <1>19, <1>24, <1>26

-----------------------------------------------------------------------------
(* The two folds over the chats: the choices FoldSet makes exist, and what *)
(* holds of each step holds of the whole.                                  *)

LEMMA SmallestExists ==
  ASSUME NEW S \in SUBSET Nat, S # {}
  PROVE  \E x \in S : \A y \in S : x <= y
  <1>1. PICK x \in S : \A y \in S : <<y, x>> \notin OpToRel(<, Nat)
    BY NatLessThanWellFounded, WFMin, Zenon
  <1>2. \A y \in S : ~(y < x)
    BY <1>1 DEF OpToRel
  <1> QED
    BY <1>2

(* A set without which each of its elements is no longer one of B.         *)
LEMMA MinimalSet ==
  ASSUME NEW S, IsFiniteSet(S), NEW B \in SUBSET SUBSET S, B # {}
  PROVE  \E s \in B : \A x \in s : s \ {x} \notin B
  <1> DEFINE N == {n \in Nat : \E s \in B : Cardinality(s) = n}
  <1>1. \A s \in B : IsFiniteSet(s) /\ Cardinality(s) \in Nat
    BY FS_Subset, FS_CardinalityType
  <1>2. N # {} /\ N \in SUBSET Nat
    BY <1>1
  <1>3. PICK n \in N : \A m \in N : n <= m
    <2> HIDE DEF N
    <2> QED
      BY <1>2, SmallestExists
  <1>4. PICK s \in B : Cardinality(s) = n
    BY <1>3
  <1>5. ASSUME NEW x \in s, s \ {x} \in B
        PROVE  FALSE
    <2>1. Cardinality(s \ {x}) = Cardinality(s) - 1
      BY <1>1, FS_RemoveElement
    <2>2. Cardinality(s \ {x}) \in N
      BY <1>1, <1>5
    <2>3. n <= Cardinality(s \ {x})
      BY <1>3, <2>2
    <2> QED
      BY <1>1, <1>4, <2>1, <2>3
  <1> QED
    BY <1>5

(* One step of either fold: of sendReadRequests, or of the entries that    *)
(* were answered.                                                          *)
FoldStep(reads, answer, still, due, h, c) ==
  IF reads THEN SendRead(h, c)
  ELSE EntryApplied(Fields(c, h, answer), h, answer, still, due)

Picked(s) == CHOOSE x \in s : TRUE

IsFold(F, S, base, reads, answer, still, due) ==
  F = [s \in SUBSET S |->
         IF s = {} THEN base
         ELSE FoldStep(reads, answer, still, due, Picked(s), F[s \ {Picked(s)}])]

LEMMA FoldExists ==
  ASSUME NEW S, IsFiniteSet(S), NEW base,
         NEW reads, NEW answer, NEW still, NEW due
  PROVE  \E F : IsFold(F, S, base, reads, answer, still, due)
  <1> DEFINE D(n) == {s \in SUBSET S : Cardinality(s) <= n}
             Op(h, c) == FoldStep(reads, answer, still, due, h, c)
             Upto(g, n) == g = [s \in D(n) |->
                                  IF s = {} THEN base
                                  ELSE Op(Picked(s), g[s \ {Picked(s)}])]
             Failing == {n \in Nat : ~\E g : Upto(g, n)}
  <1>1. \A s \in SUBSET S : IsFiniteSet(s) /\ Cardinality(s) \in Nat
    BY FS_Subset, FS_CardinalityType
  <1>2. \A s \in SUBSET S : s # {} =>
          /\ Picked(s) \in s /\ s \ {Picked(s)} \in SUBSET S
          /\ Cardinality(s \ {Picked(s)}) = Cardinality(s) - 1
    <2> SUFFICES ASSUME NEW s \in SUBSET S, s # {}
                 PROVE  /\ Picked(s) \in s /\ s \ {Picked(s)} \in SUBSET S
                        /\ Cardinality(s \ {Picked(s)}) = Cardinality(s) - 1
      OBVIOUS
    <2>1. Picked(s) \in s
      BY DEF Picked
    <2> HIDE DEF Picked
    <2> QED
      BY <1>1, <2>1, FS_RemoveElement
  <1> HIDE DEF Op
  <1>3. Failing = {}
    <2> SUFFICES ASSUME Failing # {} PROVE FALSE
      OBVIOUS
    <2>1. Failing \in SUBSET Nat
      OBVIOUS
    <2>2. PICK n \in Failing : \A m \in Failing : n <= m
      <3> HIDE DEF Failing
      <3> QED
        BY <2>1, SmallestExists
    <2>3. n \in Nat /\ ~\E g : Upto(g, n)
      BY <2>2
    <2>4. CASE n = 0
      <3> DEFINE g == [s \in D(0) |-> base]
      <3>1. \A s \in D(0) : s = {}
        <4> SUFFICES ASSUME NEW s \in D(0) PROVE s = {}
          OBVIOUS
        <4>1. Cardinality(s) = 0
          BY <1>1
        <4> QED
          BY <1>1, <4>1, FS_EmptySet
      <3>2. [s \in D(0) |-> base] =
              [s \in D(0) |-> IF s = {} THEN base
                              ELSE Op(Picked(s), g[s \ {Picked(s)}])]
        BY <3>1
      <3>3. Upto(g, 0)
        BY <3>2
      <3> QED
        BY <2>3, <2>4, <3>3
    <2>5. CASE n # 0
      <3>1. n - 1 \in Nat /\ n - 1 \notin Failing
        <4>1. n - 1 \in Nat /\ ~(n <= n - 1)
          BY <2>3, <2>5
        <4> HIDE DEF Failing
        <4> QED
          BY <2>2, <4>1
      <3>2. PICK g : Upto(g, n - 1)
        BY <3>1
      <3> DEFINE f == [s \in D(n) |->
                         IF s \in D(n - 1) THEN g[s]
                         ELSE Op(Picked(s), g[s \ {Picked(s)}])]
      <3>3. \A s \in D(n) : s # {} => s \ {Picked(s)} \in D(n - 1)
        BY <1>1, <1>2, <2>3
      <3>4. \A s \in D(n - 1) : s \in D(n)
        BY <1>1, <2>3
      <3>5. {} \in D(n - 1)
        BY <3>1, FS_EmptySet
      <3>6. \A s \in D(n - 1) :
              g[s] = IF s = {} THEN base ELSE Op(Picked(s), g[s \ {Picked(s)}])
        BY <3>2
      <3> HIDE DEF D
      <3>7. \A s \in D(n - 1) : f[s] = g[s]
        BY <3>4
      <3>8. \A s \in D(n) :
              f[s] = IF s = {} THEN base ELSE Op(Picked(s), f[s \ {Picked(s)}])
        <4> SUFFICES ASSUME NEW s \in D(n)
                     PROVE  f[s] = IF s = {} THEN base
                                   ELSE Op(Picked(s), f[s \ {Picked(s)}])
          OBVIOUS
        <4>1. s # {} => f[s \ {Picked(s)}] = g[s \ {Picked(s)}]
          BY <3>3, <3>7
        <4>2. CASE s \in D(n - 1)
          BY <3>6, <3>7, <4>1, <4>2
        <4>3. CASE s \notin D(n - 1)
          BY <3>5, <4>1, <4>3
        <4> QED
          BY <4>2, <4>3
      <3>9. DOMAIN f = D(n) /\ f = [s \in D(n) |-> f[s]]
        OBVIOUS
      <3> HIDE DEF f
      <3>10. f = [s \in D(n) |-> IF s = {} THEN base
                                 ELSE Op(Picked(s), f[s \ {Picked(s)}])]
        BY <3>8, <3>9
      <3> QED
        BY <2>3, <3>10
    <2> QED
      BY <2>4, <2>5
  <1>4. Cardinality(S) \in Nat
    BY <1>1
  <1>5. PICK g : Upto(g, Cardinality(S))
    BY <1>3, <1>4
  <1>6. D(Cardinality(S)) = SUBSET S
    <2>1. \A s \in SUBSET S : Cardinality(s) <= Cardinality(S)
      BY FS_Subset
    <2> QED
      BY <2>1
  <1>7. g = [s \in SUBSET S |-> IF s = {} THEN base
                                ELSE Op(Picked(s), g[s \ {Picked(s)}])]
    BY <1>5, <1>6
  <1> QED
    BY <1>7 DEF Op, IsFold

(* What sendReadRequests has done once the marks of some chats are sent.   *)
SentOf(c, s, d) ==
  /\ Good(d) /\ MarksKept(d) /\ ReadsSent(c, d)
  /\ \A g \in Chats :
       /\ g \in s => d.willReadTill[g] = 0
       /\ g \notin s => /\ d.willReadTill[g] = c.willReadTill[g]
                        /\ d.later[g] = c.later[g]

LEMMA ReadsSentSame ==
  ASSUME NEW c \in Clients PROVE ReadsSent(c, c)
  <1>1. Needs(c) \in Nat /\ c.made \in Nat
    BY NeedsType
  <1> QED
    BY <1>1 DEF ReadsSent, Step, MarksSent

(* sendReadRequests: the fold over the chats that are ready.               *)
LEMMA ReadyAreSent ==
  ASSUME ReadType, NEW c, Good(c), MarksKept(c), Needs(c) <= MaxRequests,
         NEW ready \in SUBSET Chats,
         \A h \in ready : c.willReadTill[h] # 0
  PROVE  SentOf(c, ready, FoldSet(SendRead, c, ready))
  <1> DEFINE Folds(F) == F = [s \in SUBSET ready |->
                                IF s = {} THEN c
                                ELSE SendRead(CHOOSE x \in s : TRUE,
                                              F[s \ {CHOOSE x \in s : TRUE}])]
             F == CHOOSE F : Folds(F)
             B == {s \in SUBSET ready : ~SentOf(c, s, F[s])}
  <1>1. IsFiniteSet(ready)
    BY FS_Subset, BoundsAssumption
  <1>2. \E G : Folds(G)
    <2>1. PICK G : IsFold(G, ready, c, TRUE, 0, 0, 0)
      BY <1>1, FoldExists
    <2>2. Folds(G)
      BY <2>1 DEF IsFold, FoldStep, Picked
    <2> QED
      BY <2>2
  <1>3. Folds(F)
    BY <1>2
  <1>4. FoldSet(SendRead, c, ready) = F[ready]
    BY DEF FoldSet, MapThenFoldSet
  <1>5. \A s \in SUBSET ready :
          F[s] = IF s = {} THEN c ELSE SendRead(Picked(s), F[s \ {Picked(s)}])
    BY <1>3 DEF Picked
  <1> HIDE DEF F
  <1>6. c \in Clients
    BY DEF Good
  <1>7. B = {}
    <2> SUFFICES ASSUME B # {} PROVE FALSE
      OBVIOUS
    <2>1. PICK s \in B : \A x \in s : s \ {x} \notin B
      <3>1. B \in SUBSET SUBSET ready
        OBVIOUS
      <3> HIDE DEF B
      <3> QED
        BY <1>1, <3>1, MinimalSet
    <2>2. s \in SUBSET ready /\ ~SentOf(c, s, F[s])
      BY <2>1
    <2>3. CASE s = {}
      <3>1. F[s] = c
        BY <1>5, <2>2, <2>3
      <3>2. SentOf(c, {}, c)
        BY <1>6, ReadsSentSame DEF SentOf
      <3> QED
        BY <2>2, <2>3, <3>1, <3>2
    <2>4. CASE s # {}
      <3> DEFINE x == Picked(s)
                 b == F[s \ {x}]
                 d == F[s]
      <3>1. x \in s /\ x \in Chats /\ s \ {x} \in SUBSET ready
        BY <2>2, <2>4 DEF Picked
      <3>2. d = SendRead(x, b)
        BY <1>5, <2>2, <2>4
      <3>3. SentOf(c, s \ {x}, b)
        BY <2>1, <3>1
      <3> HIDE DEF x, b, d
      <3>4. /\ Good(b) /\ MarksKept(b) /\ ReadsSent(c, b)
            /\ b.willReadTill[x] # 0
        BY <2>2, <3>1, <3>3 DEF SentOf
      <3>5. b \in Clients /\ Needs(b) <= MaxRequests
        <4>1. b \in Clients /\ Needs(b) <= Needs(c)
          BY <3>4 DEF Good, ReadsSent
        <4>2. Needs(b) \in Nat /\ Needs(c) \in Nat /\ MaxRequests \in Nat
          BY <4>1, <1>6, NeedsType, BoundsAssumption
        <4> QED
          BY <4>1, <4>2
      <3>6. /\ Good(d) /\ MarksKept(d) /\ ReadsSent(b, d)
            /\ d.willReadTill[x] = 0
            /\ \A g \in Chats : g # x => /\ d.willReadTill[g] = b.willReadTill[g]
                                         /\ d.later[g] = b.later[g]
        BY <3>1, <3>2, <3>4, <3>5, SendReadIs
      <3>7. ReadsSent(c, d)
        BY <3>4, <3>6, ReadsSentTrans
      <3>8. \A g \in Chats :
              /\ g \in s => d.willReadTill[g] = 0
              /\ g \notin s => /\ d.willReadTill[g] = c.willReadTill[g]
                               /\ d.later[g] = c.later[g]
        BY <3>1, <3>3, <3>6 DEF SentOf
      <3>9. SentOf(c, s, d)
        BY <3>6, <3>7, <3>8 DEF SentOf
      <3> QED
        BY <2>2, <3>9 DEF d
    <2> QED
      BY <2>3, <2>4
  <1>8. ready \in SUBSET ready
    OBVIOUS
  <1> QED
    BY <1>4, <1>7, <1>8

(* Of the timer's chats only those whose time has not come still wait.     *)
LEMMA SendReadsIs ==
  ASSUME ReadType, NEW c, Good(c), MarksKept(c), Needs(c) <= MaxRequests,
         NEW due, NEW d, d = SendReads(c, due)
  PROVE  /\ Good(d) /\ MarksKept(d) /\ TimerRuns(d) /\ ReadsSent(c, d)
         /\ \A g \in Chats : \/ d.willReadTill[g] = 0
                             \/ /\ d.willReadTill[g] = c.willReadTill[g]
                                /\ c.later[g]
  <1> DEFINE ready == {h \in Chats :
                         c.willReadTill[h] # 0 /\ (c.later[h] => h \in due)}
             sent == FoldSet(SendRead, c, ready)
             timer == TimerAfter(sent)
  <1>1. d = [sent EXCEPT !.timer = timer]
    BY DEF SendReads
  <1>2. SentOf(c, ready, sent)
    <2>1. ready \in SUBSET Chats /\ \A h \in ready : c.willReadTill[h] # 0
      OBVIOUS
    <2> HIDE DEF ready
    <2> QED
      BY <2>1, ReadyAreSent
  <1>3. timer \in BOOLEAN /\ (timer <=> \E h \in Chats : sent.willReadTill[h] # 0)
    BY DEF TimerAfter
  <1> HIDE DEF sent, timer
  <1>4. Good(sent) /\ MarksKept(sent) /\ ReadsSent(c, sent) /\ sent \in Clients
    BY <1>2 DEF SentOf, Good
  <1>5. /\ d \in Clients /\ SameRequests(sent, d) /\ SameEntries(sent, d)
        /\ SameMarks(sent, d) /\ d.later = sent.later /\ d.last = sent.last
        /\ d.timer = timer
    BY <1>1, <1>3, <1>4 DEF Clients, SameRequests, SameEntries, SameMarks
  <1>6. d.requests = sent.requests /\ \A g : Sent(d, g) = Sent(sent, g)
    BY <1>5, SameSets DEF SameRequests
  <1>7. Good(d)
    <2>1. RequestsMade(d) /\ DeletionsAlone(d)
      BY <1>4, <1>5, SameRequestsKeep DEF Good
    <2>2. EntriesMarked(d)
      BY <1>4, <1>5, <1>6, SameEntriesKeep, SameSets DEF Good
    <2>3. MarksInOrder(d)
      BY <1>4, <1>5, <1>6, SameMarksKeep DEF Good
    <2> QED
      BY <1>5, <2>1, <2>2, <2>3 DEF Good
  <1>8. MarksKept(d)
    BY <1>4, <1>5, <1>6, SameMarksKeep DEF Good
  <1>9. ReadsSent(sent, d)
    <2>1. Needs(d) <= Needs(sent)
      <3>1. Marked(d) = Marked(sent) /\ Waiters(d) = Waiters(sent) /\ d.made = sent.made
        BY <1>5 DEF Marked, Waiters, SameMarks, SameEntries, SameRequests
      <3> QED
        BY <1>4, <1>5, <3>1, FewerNeeds
    <2>2. Step(sent, d)
      BY <1>4, <1>5, SameStep
    <2>3. MarksSent(sent, d)
      BY <1>6 DEF MarksSent
    <2> QED
      BY <1>5, <1>6, <2>1, <2>2, <2>3 DEF ReadsSent, SameEntries, SameMarks
  <1>10. ReadsSent(c, d)
    BY <1>4, <1>7, <1>9, ReadsSentTrans
  <1>11. \A g \in Chats : \/ d.willReadTill[g] = 0
                          \/ /\ d.willReadTill[g] = c.willReadTill[g]
                             /\ c.later[g] /\ d.later[g] /\ d.timer
    <2> SUFFICES ASSUME NEW g \in Chats, d.willReadTill[g] # 0
                 PROVE  /\ d.willReadTill[g] = c.willReadTill[g]
                        /\ c.later[g] /\ d.later[g] /\ d.timer
      OBVIOUS
    <2>1. sent.willReadTill[g] # 0 /\ d.willReadTill[g] = sent.willReadTill[g]
      BY <1>5 DEF SameMarks
    <2>2. /\ g \notin ready /\ sent.willReadTill[g] = c.willReadTill[g]
          /\ sent.later[g] = c.later[g]
      BY <1>2, <2>1 DEF SentOf
    <2> QED
      BY <1>3, <1>5, <2>1, <2>2
  <1> QED
    BY <1>7, <1>8, <1>10, <1>11 DEF TimerRuns

(* A handler that may send requests, but leaves alone what entries are     *)
(* asked for.                                                              *)
Sends(c, d) ==
  /\ Step(c, d) /\ d.last = c.last
  /\ d.pending = c.pending /\ d.asked = c.asked /\ d.posted = c.posted
  /\ \A g \in Chats : c.postponedEntry[g] => d.postponedEntry[g]
  /\ \A id \in Ids : c.requests[id].at # "none" /\ c.requests[id].type # "History" =>
       d.requests[id] = c.requests[id]

(* What holds between handlers.                                            *)
ClientInv(c) ==
  /\ Good(c) /\ MarksKept(c) /\ TimerRuns(c) /\ Needs(c) <= MaxRequests

LEMMA ReadsSentSends ==
  ASSUME NEW c, NEW d, ReadsSent(c, d)
  PROVE  Sends(c, d)
  BY DEF ReadsSent, Sends

LEMMA SendsTrans ==
  ASSUME NEW b, NEW c, NEW d, Good(b), Good(c), Good(d), Sends(b, c), Sends(c, d)
  PROVE  Sends(b, d)
  <1>1. /\ b \in Clients /\ c \in Clients /\ d \in Clients /\ RequestsMade(b)
    BY DEF Good
  <1>2. Step(b, d)
    BY <1>1, StepTrans DEF Sends
  <1> QED
    BY <1>2 DEF Sends

(* Reading further on this device.                                         *)
ReadOn(c, d) ==
  /\ d \in Clients /\ SameRequests(c, d) /\ SameEntries(c, d) /\ SameTimes(c, d)
  /\ d.willReadTill = c.willReadTill /\ d.sentReadTill = c.sentReadTill
  /\ d.wanted = c.wanted
  /\ \A g \in Chats : d.readTill[g] >= c.readTill[g]

LEMMA ReadOnKeeps ==
  ASSUME NEW c, Good(c), NEW d, ReadOn(c, d)
  PROVE  /\ Good(d) /\ Step(c, d) /\ Needs(d) <= Needs(c)
         /\ MarksKept(c) => MarksKept(d)
         /\ TimerRuns(c) => TimerRuns(d)
         /\ d.last = c.last => Sends(c, d)
  <1>1. c \in Clients /\ d \in Clients
    BY DEF Good, ReadOn
  <1>2. /\ d.requests = c.requests /\ \A g : Sent(d, g) = Sent(c, g)
        /\ \A g : Changing(d, g) <=> Changing(c, g)
    BY SameSets DEF ReadOn, SameRequests
  <1>3. RequestsMade(d) /\ DeletionsAlone(d)
    BY SameRequestsKeep DEF Good, ReadOn
  <1>4. EntriesMarked(d)
    BY <1>2, SameEntriesKeep DEF Good, ReadOn
  <1>5. MarksInOrder(d)
    <2>1. MarksInOrder(c)
      BY DEF Good
    <2>2. \A g \in Chats : /\ c.readTill[g] \in Nat /\ d.readTill[g] \in Nat
                           /\ d.readTill[g] >= c.readTill[g]
      BY <1>1, MarkType DEF ReadOn
    <2>3. \A g \in Chats : \A id \in Sent(c, g) : c.requests[id].till \in Nat
      BY <1>1, SentType
    <2>4. /\ d.willReadTill = c.willReadTill /\ d.sentReadTill = c.sentReadTill
          /\ d.wanted = c.wanted
      BY DEF ReadOn
    <2> QED
      BY <1>2, <2>1, <2>2, <2>3, <2>4 DEF MarksInOrder
  <1>6. Step(c, d)
    BY <1>1, SameStep DEF ReadOn
  <1>7. Needs(d) <= Needs(c)
    <2>1. Marked(d) = Marked(c) /\ Waiters(d) = Waiters(c) /\ d.made = c.made
      BY DEF Marked, Waiters, ReadOn, SameEntries, SameRequests
    <2> QED
      BY <1>1, <2>1, FewerNeeds
  <1>8. MarksKept(c) => MarksKept(d)
    BY <1>2 DEF MarksKept, ReadOn
  <1>9. TimerRuns(c) => TimerRuns(d)
    BY DEF TimerRuns, ReadOn, SameTimes
  <1>10. d.last = c.last => Sends(c, d)
    BY <1>2, <1>6 DEF Sends, ReadOn, SameEntries
  <1> QED
    BY <1>1, <1>3, <1>4, <1>5, <1>6, <1>7, <1>8, <1>9, <1>10 DEF Good

LEMMA NeedsBounded ==
  ASSUME NEW c \in Clients, NEW d \in Clients, Needs(d) <= Needs(c)
  PROVE  /\ Needs(c) <= MaxRequests => Needs(d) <= MaxRequests
         /\ Needs(c) < MaxRequests => Needs(d) < MaxRequests
  BY NeedsType, BoundsAssumption

LEMMA ReadOnInv ==
  ASSUME NEW c, ClientInv(c), NEW d, ReadOn(c, d)
  PROVE  ClientInv(d)
  <1>1. c \in Clients /\ d \in Clients
    BY DEF ClientInv, Good, ReadOn
  <1> QED
    BY <1>1, ReadOnKeeps, NeedsBounded DEF ClientInv

LEMMA MarkReadIs ==
  ASSUME NEW c \in Clients, NEW h \in Chats, NEW till \in 0 .. MaxId
  PROVE  /\ ReadOn(c, MarkRead(c, h, till)) /\ ReadOn(c, Show(c, h, till))
         /\ MarkRead(c, h, till).last = c.last /\ Show(c, h, till).last = c.last
         /\ MarkRead(c, h, till).readTill[h] >= till
  <1> DEFINE marks == [c.readTill EXCEPT ![h] = Larger(c.readTill[h], till)]
             known == [c.unreadKnown EXCEPT ![h] = TRUE]
             d == [c EXCEPT !.readTill = marks]
             e == [d EXCEPT !.unreadKnown = known]
  <1>1. MarkRead(c, h, till) = d
    BY DEF MarkRead
  <1>2. c.readTill \in [Chats -> 0 .. MaxId] /\ c.unreadKnown \in [Chats -> BOOLEAN]
    BY DEF Clients
  <1>3. /\ \A g \in Chats : c.readTill[g] \in Nat /\ c.readTill[g] <= MaxId
        /\ till \in Nat /\ till <= MaxId /\ MaxId \in Nat
    BY <1>2, BoundsAssumption
  <1>4. /\ Larger(c.readTill[h], till) \in 0 .. MaxId
        /\ Larger(c.readTill[h], till) >= c.readTill[h]
        /\ Larger(c.readTill[h], till) >= till
    BY <1>3 DEF Larger
  <1>5. /\ marks \in [Chats -> 0 .. MaxId]
        /\ \A g \in Chats : marks[g] >= c.readTill[g]
        /\ marks[h] >= till
    BY <1>2, <1>3, <1>4
  <1>6. known \in [Chats -> BOOLEAN]
    BY <1>2
  <1> HIDE DEF marks, known
  <1>7. d \in Clients /\ d.unreadKnown = c.unreadKnown
    BY <1>5 DEF Clients
  <1>8. ReadOn(c, d) /\ d.last = c.last /\ d.readTill = marks
    BY <1>5, <1>7 DEF ReadOn, SameRequests, SameEntries, SameTimes
  <1> HIDE DEF d
  <1>9. Show(c, h, till) = e
    BY <1>1, <1>7 DEF Show, known
  <1>10. e \in Clients
    BY <1>6, <1>7 DEF Clients
  <1>11. ReadOn(c, e) /\ e.last = c.last
    BY <1>8, <1>10 DEF ReadOn, SameRequests, SameEntries, SameTimes
  <1> QED
    BY <1>1, <1>5, <1>8, <1>9, <1>11

(* The time of a mark does not matter to the requests.                     *)
LEMMA TimesKeep ==
  ASSUME NEW c, Good(c), NEW d \in Clients, SameRequests(c, d), SameEntries(c, d),
         SameMarks(c, d), d.last = c.last
  PROVE  /\ Good(d) /\ Sends(c, d) /\ Needs(d) <= Needs(c)
         /\ MarksKept(c) => MarksKept(d)
  <1>1. c \in Clients
    BY DEF Good
  <1>2. /\ d.requests = c.requests
        /\ \A g : Changing(d, g) <=> Changing(c, g)
    BY SameSets DEF SameRequests
  <1>3. RequestsMade(d) /\ DeletionsAlone(d)
    BY SameRequestsKeep DEF Good
  <1>4. EntriesMarked(d)
    BY <1>2, SameEntriesKeep DEF Good
  <1>5. MarksInOrder(d) /\ (MarksKept(c) => MarksKept(d))
    BY <1>2, SameMarksKeep DEF Good
  <1>6. Step(c, d)
    BY <1>1, SameStep
  <1>7. Needs(d) <= Needs(c)
    <2>1. Marked(d) = Marked(c) /\ Waiters(d) = Waiters(c) /\ d.made = c.made
      BY DEF Marked, Waiters, SameMarks, SameEntries, SameRequests
    <2> QED
      BY <1>1, <2>1, FewerNeeds
  <1> QED
    BY <1>2, <1>3, <1>4, <1>5, <1>6, <1>7 DEF Good, Sends, SameEntries

LEMMA SendReadsInv ==
  ASSUME ReadType, NEW c, Good(c), MarksKept(c), Needs(c) <= MaxRequests,
         NEW due, NEW d, d = SendReads(c, due)
  PROVE  ClientInv(d) /\ ReadsSent(c, d)
  <1>1. /\ Good(d) /\ MarksKept(d) /\ TimerRuns(d) /\ ReadsSent(c, d)
    BY SendReadsIs
  <1>2. c \in Clients /\ d \in Clients /\ Needs(d) <= Needs(c)
    BY <1>1 DEF Good, ReadsSent
  <1> QED
    BY <1>1, <1>2, NeedsBounded DEF ClientInv

LEMMA SendPendingReadIs ==
  ASSUME ReadType, NEW c, ClientInv(c), NEW h \in Chats, NEW due,
         NEW d, d = SendPendingRead(c, h, due)
  PROVE  ClientInv(d) /\ Sends(c, d)
  <1>1. Good(c) /\ MarksKept(c) /\ Needs(c) <= MaxRequests /\ c \in Clients
    BY DEF ClientInv, Good
  <1>2. CASE c.willReadTill[h] # 0 /\ c.later[h]
    <2> DEFINE later == [c.later EXCEPT ![h] = FALSE]
               a == [c EXCEPT !.later = later]
    <2>1. d = SendReads(a, due)
      BY <1>2 DEF SendPendingRead
    <2>2. later \in [Chats -> BOOLEAN]
      BY <1>1 DEF Clients
    <2> HIDE DEF later
    <2>3. /\ a \in Clients /\ SameRequests(c, a) /\ SameEntries(c, a)
          /\ SameMarks(c, a) /\ a.last = c.last
      BY <1>1, <2>2 DEF Clients, SameRequests, SameEntries, SameMarks
    <2> HIDE DEF a
    <2>4. Good(a) /\ Sends(c, a) /\ Needs(a) <= Needs(c) /\ MarksKept(a)
      BY <1>1, <2>3, TimesKeep
    <2>5. Needs(a) <= MaxRequests
      BY <1>1, <2>3, <2>4, NeedsBounded
    <2>6. ClientInv(d) /\ ReadsSent(a, d)
      BY <2>1, <2>4, <2>5, SendReadsInv
    <2>7. Sends(c, d)
      BY <1>1, <2>4, <2>6, ReadsSentSends, SendsTrans DEF ClientInv
    <2> QED
      BY <2>6, <2>7
  <1>3. CASE ~(c.willReadTill[h] # 0 /\ c.later[h])
    <2>1. d = c
      BY <1>3 DEF SendPendingRead
    <2>2. Sends(c, c)
      BY <1>1, ReadsSentSame, ReadsSentSends
    <2> QED
      BY <2>1, <2>2
  <1> QED
    BY <1>2, <1>3

(* readInboxTill: a mark that is to be sent is larger than all before it.  *)
LEMMA NewMarkIs ==
  ASSUME ReadType, NEW c, ClientInv(c), Needs(c) < MaxRequests,
         NEW h \in Chats, NEW till \in 0 .. MaxId,
         c.sentReadTill[h] < till, c.willReadTill[h] < till,
         till > c.readTill[h] \/ c.willReadTill[h] # 0,
         NEW d \in Clients, SameRequests(c, d), SameEntries(c, d),
         d.readTill = c.readTill, d.sentReadTill = c.sentReadTill, d.last = c.last,
         d.willReadTill = [c.willReadTill EXCEPT ![h] = till],
         d.wanted = [c.wanted EXCEPT ![h] = till]
  PROVE  /\ Good(d) /\ MarksKept(d) /\ Sends(c, d) /\ Needs(d) <= MaxRequests
         /\ \A g \in Chats : g # h => d.willReadTill[g] = c.willReadTill[g]
  <1>1. c \in Clients /\ Good(c) /\ MarksInOrder(c) /\ MarksKept(c)
    BY DEF ClientInv, Good
  <1>2. /\ c.willReadTill \in [Chats -> 0 .. MaxId]
        /\ c.wanted \in [Chats -> 0 .. MaxId]
        /\ till \in Nat /\ MaxId \in Nat
        /\ \A g \in Chats : /\ c.willReadTill[g] \in Nat /\ c.sentReadTill[g] \in Nat
                            /\ c.readTill[g] \in Nat
    BY <1>1, BoundsAssumption, MarkType DEF Clients
  <1>3. /\ d.willReadTill[h] = till /\ d.wanted[h] = till /\ till # 0
        /\ \A g \in Chats : g # h => /\ d.willReadTill[g] = c.willReadTill[g]
                                     /\ d.wanted[g] = c.wanted[g]
    BY <1>2
  <1>4. /\ d.requests = c.requests /\ \A g : Sent(d, g) = Sent(c, g)
        /\ \A g : Changing(d, g) <=> Changing(c, g)
    BY SameSets DEF SameRequests
  <1>5. RequestsMade(d) /\ DeletionsAlone(d)
    BY <1>1, SameRequestsKeep DEF Good
  <1>6. EntriesMarked(d)
    BY <1>1, <1>4, SameEntriesKeep DEF Good
  <1>7. \A id \in Sent(c, h) : c.requests[id].till \in Nat /\ c.requests[id].till < till
    <2> SUFFICES ASSUME NEW id \in Sent(c, h)
                 PROVE  c.requests[id].till \in Nat /\ c.requests[id].till < till
      OBVIOUS
    <2>1. c.requests[id].till \in Nat
      BY <1>1, SentType
    <2>2. /\ c.sentReadTill[h] = 0 => c.requests[id].till <= c.readTill[h]
          /\ c.sentReadTill[h] # 0 => c.requests[id].till <= c.sentReadTill[h]
          /\ c.willReadTill[h] # 0 => c.requests[id].till < c.willReadTill[h]
      BY <1>1 DEF MarksInOrder
    <2> QED
      BY <1>2, <2>1, <2>2
  <1>8. MarksInOrder(d)
    <2> SUFFICES ASSUME NEW g \in Chats
                 PROVE  /\ d.willReadTill[g] # 0 =>
                             /\ d.willReadTill[g] > d.sentReadTill[g]
                             /\ d.wanted[g] = d.willReadTill[g]
                             /\ \A i \in Sent(d, g) :
                                  d.requests[i].till < d.willReadTill[g]
                        /\ \A i \in Sent(d, g) :
                             /\ d.sentReadTill[g] = 0 =>
                                  d.requests[i].till <= d.readTill[g]
                             /\ d.sentReadTill[g] # 0 =>
                                  d.requests[i].till <= d.sentReadTill[g]
                             /\ d.wanted[g] # 0 => d.requests[i].till <= d.wanted[g]
                        /\ \A i, j \in Sent(d, g) :
                             i < j /\ d.requests[j].till # 0 =>
                               d.requests[i].till < d.requests[j].till
      BY DEF MarksInOrder
    <2>1. CASE g # h
      BY <1>1, <1>3, <1>4, <2>1 DEF MarksInOrder
    <2>2. CASE g = h
      <3>1. \A i \in Sent(c, h) :
              /\ c.sentReadTill[h] = 0 => c.requests[i].till <= c.readTill[h]
              /\ c.sentReadTill[h] # 0 => c.requests[i].till <= c.sentReadTill[h]
        BY <1>1 DEF MarksInOrder
      <3>2. \A i, j \in Sent(c, h) :
              i < j /\ c.requests[j].till # 0 =>
                c.requests[i].till < c.requests[j].till
        BY <1>1 DEF MarksInOrder
      <3>3. \A i \in Sent(c, h) : c.requests[i].till <= till
        BY <1>2, <1>7
      <3> QED
        BY <1>2, <1>3, <1>4, <1>7, <2>2, <3>1, <3>2, <3>3
    <2> QED
      BY <2>1, <2>2
  <1>9. Good(d)
    BY <1>5, <1>6, <1>8 DEF Good
  <1>10. MarksKept(d)
    <2>1. MarksSent(c, d)
      BY <1>4 DEF MarksSent
    <2> SUFFICES ASSUME NEW g \in Chats, d.wanted[g] > read[g]
                 PROVE  \/ d.willReadTill[g] >= d.wanted[g]
                        \/ \E id \in Sent(d, g) : d.requests[id].till >= d.wanted[g]
      BY DEF MarksKept
    <2>2. CASE g = h
      BY <1>2, <1>3, <2>2
    <2>3. CASE g # h
      BY <1>1, <1>3, <2>1, <2>3, MarksStayKept
    <2> QED
      BY <2>2, <2>3
  <1>11. Sends(c, d)
    <2>1. Step(c, d)
      BY <1>1, SameStep
    <2> QED
      BY <2>1, <1>4 DEF Sends, SameEntries
  <1>12. Needs(d) <= MaxRequests
    <2>1. /\ Marked(d) \subseteq Marked(c) \cup {h} /\ Waiters(d) \subseteq Waiters(c)
          /\ d.made = c.made
      BY <1>3 DEF Marked, Waiters, SameEntries, SameRequests
    <2>2. Needs(d) <= Needs(c) + 1
      BY <1>1, <2>1, OneMoreMark
    <2> QED
      BY <1>1, <2>2, NeedsType, BoundsAssumption
  <1> QED
    BY <1>3, <1>9, <1>10, <1>11, <1>12

LEMMA ReadTillIs ==
  ASSUME ReadType, NEW c, ClientInv(c), Needs(c) < MaxRequests,
         NEW h \in Chats, NEW till \in 0 .. MaxId, NEW force \in BOOLEAN,
         NEW still, NEW due, NEW d, d = ReadTill(c, h, till, force, still, due)
  PROVE  ClientInv(d) /\ Sends(c, d)
  <1> DEFINE needs == till > c.readTill[h]
             willReadTill == [c.willReadTill EXCEPT ![h] = till]
             wanted == [c.wanted EXCEPT ![h] = till]
             later == [c.later EXCEPT ![h] = FALSE]
             later2 == [c.later EXCEPT ![h] = TRUE]
             will == [c EXCEPT !.willReadTill = willReadTill, !.wanted = wanted]
             soon == [will EXCEPT !.later = later]
             wait == [will EXCEPT !.later = later2, !.timer = TRUE]
             now == SendReads(soon, due)
  <1>1. Good(c) /\ c \in Clients /\ Needs(c) <= MaxRequests
    BY NeedsType, BoundsAssumption DEF ClientInv, Good
  <1>2. Sends(c, c)
    BY <1>1, ReadsSentSame, ReadsSentSends
  <1>3. /\ \/ d = c
           \/ d = SendPendingRead(c, h, due)
           \/ /\ ~(~needs /\ ~force) /\ ~(c.sentReadTill[h] >= till)
              /\ ~(c.willReadTill[h] >= till)
              /\ ~(~needs /\ c.willReadTill[h] = 0)
              /\ \/ d = MarkRead(c, h, till)
                 \/ d = now
                 \/ d = Show(now, h, till)
                 \/ d = Show(wait, h, till)
    <2>1. c.later \in [Chats -> BOOLEAN]
      BY <1>1 DEF Clients
    <2>2. /\ [[c EXCEPT !.willReadTill[h] = till, !.wanted[h] = till]
                EXCEPT !.later[h] = FALSE] = soon
          /\ [[c EXCEPT !.willReadTill[h] = till, !.wanted[h] = till]
                EXCEPT !.later[h] = TRUE, !.timer = TRUE] = wait
      BY <1>1 DEF Clients
    <2> HIDE DEF soon, wait
    <2> QED
      BY <2>2 DEF ReadTill
  <1>4. CASE d = c
    BY <1>2, <1>4
  <1>5. CASE d = SendPendingRead(c, h, due)
    BY <1>5, SendPendingReadIs
  <1>6. CASE /\ ~(~needs /\ ~force) /\ ~(c.sentReadTill[h] >= till)
             /\ ~(c.willReadTill[h] >= till)
             /\ ~(~needs /\ c.willReadTill[h] = 0)
             /\ \/ d = MarkRead(c, h, till)
                \/ d = now
                \/ d = Show(now, h, till)
                \/ d = Show(wait, h, till)
    <2>1. /\ c.willReadTill \in [Chats -> 0 .. MaxId]
          /\ c.wanted \in [Chats -> 0 .. MaxId]
          /\ c.later \in [Chats -> BOOLEAN]
          /\ c.willReadTill[h] \in Nat /\ c.sentReadTill[h] \in Nat
          /\ c.readTill[h] \in Nat /\ till \in Nat
      BY <1>1, BoundsAssumption, MarkType DEF Clients
    <2>2. /\ c.sentReadTill[h] < till /\ c.willReadTill[h] < till
          /\ till > c.readTill[h] \/ c.willReadTill[h] # 0
      BY <1>6, <2>1
    <2>3. /\ willReadTill \in [Chats -> 0 .. MaxId]
          /\ wanted \in [Chats -> 0 .. MaxId]
          /\ later \in [Chats -> BOOLEAN] /\ later2 \in [Chats -> BOOLEAN]
          /\ later2[h] /\ \A g \in Chats : g # h => later2[g] = c.later[g]
      BY <2>1
    <2>4. CASE d = MarkRead(c, h, till)
      BY <1>1, <2>4, MarkReadIs, ReadOnInv, ReadOnKeeps
    <2>5. ClientInv(now) /\ Sends(c, now)
      <3> HIDE DEF later
      <3>1. /\ soon \in Clients /\ SameRequests(c, soon) /\ SameEntries(c, soon)
            /\ soon.readTill = c.readTill /\ soon.sentReadTill = c.sentReadTill
            /\ soon.last = c.last /\ soon.willReadTill = willReadTill
            /\ soon.wanted = wanted
        BY <1>1, <2>3 DEF Clients, SameRequests, SameEntries
      <3> HIDE DEF soon
      <3>2. /\ Good(soon) /\ MarksKept(soon) /\ Sends(c, soon)
            /\ Needs(soon) <= MaxRequests
        BY <2>2, <3>1, NewMarkIs
      <3>3. ClientInv(now) /\ ReadsSent(soon, now)
        BY <3>2, SendReadsInv
      <3> HIDE DEF now
      <3> QED
        BY <1>1, <3>2, <3>3, ReadsSentSends, SendsTrans DEF ClientInv
    <2>6. CASE d = Show(now, h, till)
      <3> HIDE DEF now
      <3>1. now \in Clients
        BY <2>5 DEF ClientInv, Good
      <3>2. ReadOn(now, d) /\ d.last = now.last
        BY <2>6, <3>1, MarkReadIs
      <3>3. ClientInv(d) /\ Good(d) /\ Sends(now, d)
        BY <2>5, <3>2, ReadOnInv, ReadOnKeeps DEF ClientInv
      <3> QED
        BY <1>1, <2>5, <3>3, SendsTrans DEF ClientInv
    <2>7. CASE d = Show(wait, h, till)
      <3> HIDE DEF later2
      <3>1. /\ wait \in Clients /\ SameRequests(c, wait) /\ SameEntries(c, wait)
            /\ wait.readTill = c.readTill /\ wait.sentReadTill = c.sentReadTill
            /\ wait.last = c.last /\ wait.willReadTill = willReadTill
            /\ wait.wanted = wanted /\ wait.later = later2 /\ wait.timer = TRUE
        BY <1>1, <2>3 DEF Clients, SameRequests, SameEntries
      <3> HIDE DEF wait
      <3>2. /\ Good(wait) /\ MarksKept(wait) /\ Sends(c, wait)
            /\ Needs(wait) <= MaxRequests
            /\ \A g \in Chats : g # h => wait.willReadTill[g] = c.willReadTill[g]
        BY <2>2, <3>1, NewMarkIs
      <3>3. TimerRuns(wait)
        BY <2>3, <3>1, <3>2 DEF TimerRuns, ClientInv
      <3>4. ClientInv(wait)
        BY <3>2, <3>3 DEF ClientInv
      <3>5. ReadOn(wait, d) /\ d.last = wait.last
        BY <2>7, <3>1, MarkReadIs
      <3>6. ClientInv(d) /\ Good(d) /\ Sends(wait, d)
        BY <3>4, <3>5, ReadOnInv, ReadOnKeeps DEF ClientInv
      <3> QED
        BY <1>1, <3>2, <3>6, SendsTrans
    <2>8. CASE d = now
      BY <2>5, <2>8
    <2> QED
      BY <1>6, <2>4, <2>6, <2>7, <2>8
  <1> QED
    BY <1>3, <1>4, <1>5, <1>6

(* The mark sent last is given up once the chat is read till there.        *)
LEMMA MarkGivenUp ==
  ASSUME NEW c, Good(c), NEW h \in Chats, c.sentReadTill[h] <= c.readTill[h],
         NEW d \in Clients, SameRequests(c, d), SameEntries(c, d),
         d.willReadTill = c.willReadTill, d.readTill = c.readTill,
         d.wanted = c.wanted,
         d.sentReadTill = [c.sentReadTill EXCEPT ![h] = 0]
  PROVE  /\ Good(d) /\ Step(c, d) /\ Needs(d) <= Needs(c)
         /\ MarksKept(c) => MarksKept(d)
  <1>1. c \in Clients /\ MarksInOrder(c)
    BY DEF Good
  <1>2. d.requests = c.requests
    BY DEF SameRequests
  <1>3. /\ \A g : Sent(d, g) = Sent(c, g)
        /\ \A g : Changing(d, g) <=> Changing(c, g)
    BY <1>2, SameSets
  <1>4. RequestsMade(d) /\ DeletionsAlone(d)
    BY SameRequestsKeep DEF Good
  <1>5. EntriesMarked(d)
    BY <1>3, SameEntriesKeep DEF Good
  <1>6. /\ d.sentReadTill[h] = 0
        /\ \A g \in Chats : g # h => d.sentReadTill[g] = c.sentReadTill[g]
    BY <1>1 DEF Clients
  <1>7. MarksInOrder(d)
    <2>1. \A g \in Chats : \A i \in Sent(c, g) : c.requests[i].till \in Nat
      BY <1>1, SentType
    <2>2. \A g \in Chats : /\ c.willReadTill[g] \in Nat /\ c.sentReadTill[g] \in Nat
                           /\ c.readTill[g] \in Nat
      BY <1>1, MarkType
    <2>3. \A i \in Sent(c, h) : c.requests[i].till <= c.readTill[h]
      BY <1>1, <2>1, <2>2 DEF MarksInOrder
    <2>4. \A g \in Chats :
            /\ c.willReadTill[g] # 0 => c.willReadTill[g] > d.sentReadTill[g]
            /\ \A i \in Sent(c, g) :
                 /\ d.sentReadTill[g] = 0 => c.requests[i].till <= c.readTill[g]
                 /\ d.sentReadTill[g] # 0 => c.requests[i].till <= d.sentReadTill[g]
      BY <1>1, <1>6, <2>2, <2>3 DEF MarksInOrder
    <2> QED
      BY <1>1, <1>2, <1>3, <2>4 DEF MarksInOrder
  <1>8. MarksKept(c) => MarksKept(d)
    BY <1>2, <1>3 DEF MarksKept
  <1>9. Step(c, d)
    BY <1>1, SameStep
  <1>10. Needs(d) <= Needs(c)
    <2>1. Marked(d) = Marked(c) /\ Waiters(d) = Waiters(c) /\ d.made = c.made
      BY DEF Marked, Waiters, SameEntries, SameRequests
    <2> QED
      BY <1>1, <2>1, FewerNeeds
  <1> QED
    BY <1>4, <1>5, <1>7, <1>8, <1>9, <1>10 DEF Good

(* sendReadRequest, finished: what is done before the next marks are sent. *)
LEMMA MarkAnswered ==
  ASSUME ReadType, NEW c, ClientInv(c), NEW id \in Ids,
         c.requests[id].at = "sent",
         NEW h, h = c.requests[id].chat, NEW till, till = c.requests[id].till,
         NEW d,
         \/ d = c
         \/ d = RequestEntry([c EXCEPT !.sentReadDone[h] = TRUE], h, FALSE)
         \/ /\ c.sentReadTill[h] = till /\ ~(till > c.readTill[h])
            /\ d = [c EXCEPT !.sentReadDone[h] = TRUE, !.sentReadTill[h] = 0]
  PROVE  /\ Good(d) /\ MarksKept(d) /\ Needs(d) <= MaxRequests
         /\ Step(c, d) /\ SameRequests(c, d)
  <1>1. c \in Clients /\ Good(c) /\ MarksKept(c) /\ Needs(c) <= MaxRequests
    BY DEF ClientInv, Good
  <1>2. h \in Chats /\ till \in Nat
    BY <1>1, RequestType
  <1> DEFINE sentDone == [c.sentReadDone EXCEPT ![h] = TRUE]
             sent == [c.sentReadTill EXCEPT ![h] = 0]
             a == [c EXCEPT !.sentReadDone = sentDone]
             b == [c EXCEPT !.sentReadDone = sentDone, !.sentReadTill = sent]
  <1>3. /\ sentDone \in [Chats -> BOOLEAN] /\ sent \in [Chats -> 0 .. MaxId]
        /\ sent[h] = 0 /\ \A g \in Chats : g # h => sent[g] = c.sentReadTill[g]
    BY <1>1, <1>2, BoundsAssumption DEF Clients
  <1>4. CASE d = c
    BY <1>1, <1>4, ReadsSentSame DEF ReadsSent, SameRequests
  <1>5. CASE d = RequestEntry([c EXCEPT !.sentReadDone[h] = TRUE], h, FALSE)
    <2>1. d = RequestEntry(a, h, FALSE)
      BY <1>5
    <2> HIDE DEF sentDone
    <2>2. /\ a \in Clients /\ SameRequests(c, a) /\ SameEntries(c, a)
          /\ SameMarks(c, a) /\ a.last = c.last
      BY <1>1, <1>3 DEF Clients, SameRequests, SameEntries, SameMarks
    <2> HIDE DEF a
    <2>3. Good(a) /\ Sends(c, a) /\ Needs(a) <= Needs(c) /\ MarksKept(a)
      BY <1>1, <2>2, TimesKeep
    <2>4. /\ Good(d) /\ SameRequests(a, d) /\ SameMarks(a, d) /\ Step(a, d)
          /\ Waiters(d) \subseteq Waiters(a)
      BY ZenonT(60), <1>2, <2>1, <2>3, RequestEntryIs
    <2>5. d \in Clients /\ d.requests = a.requests /\ d.made = a.made
      BY <2>4 DEF Good, SameRequests
    <2>6. MarksKept(d)
      BY <2>3, <2>4, <2>5, SameMarksKeep DEF Good
    <2>7. Needs(d) <= Needs(a)
      <3>1. Marked(d) = Marked(a)
        BY <2>4 DEF Marked, SameMarks
      <3> QED
        BY <2>2, <2>4, <2>5, <3>1, FewerNeeds
    <2>8. Needs(d) <= MaxRequests
      BY <1>1, <2>2, <2>3, <2>5, <2>7, NeedsBounded
    <2>9. Step(c, d)
      BY <1>1, <2>2, <2>3, <2>4, <2>5, StepTrans DEF Good, Sends
    <2> QED
      BY <2>2, <2>4, <2>6, <2>8, <2>9 DEF SameRequests
  <1>6. CASE /\ c.sentReadTill[h] = till /\ ~(till > c.readTill[h])
             /\ d = [c EXCEPT !.sentReadDone[h] = TRUE, !.sentReadTill[h] = 0]
    <2>1. d = b
      BY <1>6
    <2> HIDE DEF sentDone, sent
    <2>2. /\ d \in Clients /\ SameRequests(c, d) /\ SameEntries(c, d)
          /\ d.willReadTill = c.willReadTill /\ d.readTill = c.readTill
          /\ d.wanted = c.wanted /\ d.sentReadTill = sent
      BY <1>1, <1>3, <2>1 DEF Clients, SameRequests, SameEntries
    <2> HIDE DEF b
    <2>3. c.sentReadTill[h] <= c.readTill[h]
      BY <1>1, <1>2, <1>6, MarkType
    <2>4. /\ Good(d) /\ Step(c, d) /\ Needs(d) <= Needs(c) /\ MarksKept(d)
      BY <1>1, <1>2, <2>2, <2>3, MarkGivenUp DEF sent
    <2>5. Needs(d) <= MaxRequests
      BY <1>1, <2>2, <2>4, NeedsBounded
    <2> QED
      BY <2>2, <2>4, <2>5
  <1> QED
    BY <1>4, <1>5, <1>6

(* ... and the whole of it: a mark that failed is no longer wanted.        *)
LEMMA ReadAnsweredIs ==
  ASSUME ReadType, NEW c, ClientInv(c), NEW id \in Ids,
         c.requests[id].at = "sent", c.requests[id].type = "ReadInbox",
         NEW failed \in BOOLEAN,
         ~failed => read[c.requests[id].chat] >= c.requests[id].till,
         NEW due, NEW d,
         d = [ReadAnswered(c, id, due) EXCEPT
                !.wanted[c.requests[id].chat] =
                   IF failed /\ @ = c.requests[id].till THEN 0 ELSE @]
  PROVE  ClientInv(d) /\ Step(c, d)
  <1> DEFINE h == c.requests[id].chat
             till == c.requests[id].till
             refresh == ~c.unreadKnown[h] \/ till > c.readTill[h]
             asks == RequestEntry([c EXCEPT !.sentReadDone[h] = TRUE], h, FALSE)
             ends == [c EXCEPT !.sentReadDone[h] = TRUE, !.sentReadTill[h] = 0]
             marked == CASE c.sentReadTill[h] # till -> c
                         [] c.sentReadTill[h] = till /\ refresh -> asks
                         [] OTHER -> ends
             s == SendReads(marked, due)
             f == FinishRequest(s, id)
             wanted == [f.wanted EXCEPT ![h] = IF failed /\ @ = till THEN 0 ELSE @]
  <1>1. d = [f EXCEPT !.wanted = wanted]
    BY DEF ReadAnswered
  <1>2. c \in Clients /\ Good(c)
    BY DEF ClientInv, Good
  <1>3. h \in Chats /\ till \in Nat
    BY <1>2, RequestType
  <1>4. \/ marked = c
        \/ marked = RequestEntry([c EXCEPT !.sentReadDone[h] = TRUE], h, FALSE)
        \/ /\ c.sentReadTill[h] = till /\ ~(till > c.readTill[h])
           /\ marked = [c EXCEPT !.sentReadDone[h] = TRUE, !.sentReadTill[h] = 0]
    <2>1. \/ marked = c
          \/ marked = asks
          \/ c.sentReadTill[h] = till /\ ~(till > c.readTill[h]) /\ marked = ends
      <3> HIDE DEF asks, ends, till, h
      <3> QED
        OBVIOUS
    <2> HIDE DEF marked
    <2> QED
      BY <2>1
  <1>5. /\ Good(marked) /\ MarksKept(marked) /\ Needs(marked) <= MaxRequests
        /\ Step(c, marked) /\ SameRequests(c, marked)
    <2> HIDE DEF marked
    <2> QED
      BY <1>4, MarkAnswered
  <1> HIDE DEF marked, wanted
  <1>6. ClientInv(s) /\ ReadsSent(marked, s)
    BY <1>5, SendReadsInv
  <1>7. s.requests[id] = c.requests[id]
    BY <1>5, <1>6 DEF ReadsSent, SameRequests
  <1> HIDE DEF s
  <1>8. s \in Clients /\ Good(s) /\ MarksKept(s) /\ TimerRuns(s) /\ Needs(s) <= MaxRequests
    BY <1>6 DEF ClientInv, Good
  <1>9. /\ Good(f) /\ Step(s, f) /\ SameMarks(s, f) /\ SameTimes(s, f)
        /\ f.last = s.last /\ Needs(f) <= Needs(s)
        /\ \A g \in Chats : \A i \in Sent(s, g) :
             i # id => i \in Sent(f, g) /\ f.requests[i] = s.requests[i]
    BY <1>7, <1>8, FinishRequestGood
  <1> HIDE DEF f
  <1>10. f \in Clients /\ f.wanted = s.wanted /\ f.willReadTill = s.willReadTill
    BY <1>9 DEF Good, SameMarks
  <1>11. /\ wanted \in [Chats -> 0 .. MaxId]
         /\ wanted[h] = IF failed /\ s.wanted[h] = till THEN 0 ELSE s.wanted[h]
         /\ \A g \in Chats : g # h => wanted[g] = s.wanted[g]
    BY <1>3, <1>10, BoundsAssumption DEF Clients, wanted
  <1>12. /\ d \in Clients /\ SameRequests(f, d) /\ SameEntries(f, d) /\ SameTimes(f, d)
         /\ d.willReadTill = f.willReadTill /\ d.sentReadTill = f.sentReadTill
         /\ d.readTill = f.readTill /\ d.wanted = wanted
    BY <1>1, <1>10, <1>11 DEF Clients, SameRequests, SameEntries, SameTimes
  <1>13. id \in Sent(s, h) /\ s.requests[id].till = till
    BY <1>7 DEF Sent, Of
  <1> HIDE DEF h, till
  <1>14. /\ d.requests = f.requests /\ \A g : Sent(d, g) = Sent(f, g)
         /\ \A g : Changing(d, g) <=> Changing(f, g)
    <2>1. d.requests = f.requests
      BY <1>12 DEF SameRequests
    <2> QED
      BY ONLY <2>1, SameSets
  <1>15. /\ s.willReadTill[h] # 0 => /\ till < s.willReadTill[h]
                                     /\ s.wanted[h] = s.willReadTill[h]
         /\ s.wanted[h] # 0 => till <= s.wanted[h]
         /\ s.willReadTill[h] \in Nat /\ s.wanted[h] \in Nat
    <2>1. MarksInOrder(s)
      BY <1>8 DEF Good
    <2>2. /\ s.willReadTill[h] # 0 => /\ s.requests[id].till < s.willReadTill[h]
                                      /\ s.wanted[h] = s.willReadTill[h]
          /\ s.wanted[h] # 0 => s.requests[id].till <= s.wanted[h]
      BY <1>3, <1>13, <2>1 DEF MarksInOrder
    <2>3. s.willReadTill[h] \in Nat /\ s.wanted[h] \in Nat
      BY <1>3, <1>8, MarkType
    <2> QED
      BY <1>13, <2>2, <2>3
  <1>16. Good(d)
    <2>1. RequestsMade(d) /\ DeletionsAlone(d)
      BY <1>9, <1>12, SameRequestsKeep DEF Good
    <2>2. EntriesMarked(d)
      BY <1>9, <1>12, <1>14, SameEntriesKeep DEF Good
    <2>3. MarksInOrder(d)
      <3>1. \A g \in Chats : \/ wanted[g] = f.wanted[g]
                             \/ wanted[g] = 0 /\ f.willReadTill[g] = 0
        <4>1. ASSUME failed, s.wanted[h] = till
              PROVE  s.willReadTill[h] = 0
          BY <1>3, <1>15, <4>1
        <4> QED
          BY <1>10, <1>11, <4>1
      <3> QED
        <4>1. MarksInOrder(f)
          BY <1>9 DEF Good
        <4>2. /\ d.willReadTill = f.willReadTill /\ d.sentReadTill = f.sentReadTill
              /\ d.readTill = f.readTill
              /\ \A g \in Chats : \/ d.wanted[g] = f.wanted[g]
                                  \/ d.wanted[g] = 0 /\ f.willReadTill[g] = 0
          BY ONLY <1>12, <3>1
        <4> QED
          BY ONLY <1>14, <4>1, <4>2 DEF MarksInOrder
    <2> QED
      BY <1>12, <2>1, <2>2, <2>3 DEF Good
  <1>17. MarksKept(d)
    <2> SUFFICES ASSUME NEW g \in Chats, d.wanted[g] > read[g]
                 PROVE  \/ d.willReadTill[g] >= d.wanted[g]
                        \/ \E i \in Sent(d, g) : d.requests[i].till >= d.wanted[g]
      BY DEF MarksKept
    <2>1. read[g] \in Nat /\ s.wanted[g] \in Nat /\ ~(0 > read[g])
      BY <1>8, MarkType, BoundsAssumption DEF ReadType
    <2>2. d.wanted[g] = s.wanted[g] /\ ~(g = h /\ failed /\ s.wanted[h] = till)
      BY <1>11, <1>12, <2>1
    <2>3. CASE s.willReadTill[g] >= s.wanted[g]
      BY <1>10, <1>12, <2>2, <2>3
    <2>4. CASE ~(s.willReadTill[g] >= s.wanted[g])
      <3>1. PICK i \in Sent(s, g) : s.requests[i].till >= s.wanted[g]
        BY <1>8, <2>2, <2>4 DEF MarksKept
      <3>2. CASE i # id
        BY <1>9, <1>14, <2>2, <3>1, <3>2
      <3>3. CASE i = id
        <4>1. g = h /\ till >= s.wanted[h]
          BY <1>7, <1>8, <1>13, <3>1, <3>3, SentType DEF h
        <4>2. s.wanted[h] = till
          BY <1>3, <1>15, <2>1, <2>2, <4>1
        <4>3. ~failed
          BY <2>2, <4>1, <4>2
        <4>4. read[h] >= till
          BY <4>3 DEF h, till
        <4> QED
          BY <1>3, <2>1, <2>2, <4>1, <4>2, <4>4
      <3> QED
        BY <3>2, <3>3
    <2> QED
      BY <2>3, <2>4
  <1>18. TimerRuns(d)
    BY <1>8, <1>9, <1>10, <1>12 DEF TimerRuns, SameTimes
  <1>19. Needs(d) <= MaxRequests
    <2>1. Needs(d) <= Needs(f)
      <3>1. Marked(d) = Marked(f) /\ Waiters(d) = Waiters(f) /\ d.made = f.made
        BY <1>12 DEF Marked, Waiters, SameEntries, SameRequests
      <3> QED
        BY <1>10, <1>12, <3>1, FewerNeeds
    <2>2. Needs(f) <= MaxRequests
      BY <1>8, <1>9, <1>10, NeedsBounded
    <2> QED
      BY <1>10, <1>12, <2>1, <2>2, NeedsBounded
  <1>20. Step(c, d)
    <2>1. Step(marked, s) /\ marked \in Clients
      BY <1>5, <1>6 DEF ReadsSent, Good
    <2>2. Step(c, s)
      BY <1>2, <1>5, <1>8, <2>1, StepTrans DEF Good
    <2>3. Step(c, f)
      BY <1>2, <1>8, <1>9, <1>10, <2>2, StepTrans DEF Good
    <2>4. Step(f, d)
      BY <1>10, <1>12, SameStep
    <2> QED
      BY <1>2, <1>10, <1>12, <2>3, <2>4, StepTrans DEF Good
  <1> QED
    BY <1>16, <1>17, <1>18, <1>19, <1>20 DEF ClientInv

-----------------------------------------------------------------------------
(* The answers about entries.                                              *)

LEMMA FieldsIs ==
  ASSUME NEW c \in Clients, NEW h \in Chats, NEW answer \in Entries,
         NEW d, d = Fields(c, h, answer)
  PROVE  ReadOn(c, d)
  <1>1. ReadOn(c, c)
    <2>1. \A g \in Chats : c.readTill[g] >= c.readTill[g]
      BY MarkType
    <2> QED
      BY <2>1 DEF ReadOn, SameRequests, SameEntries, SameTimes
  <1>2. CASE answer.result = "failed"
    BY <1>1, <1>2 DEF Fields
  <1>3. CASE answer.result # "failed"
    <2> DEFINE counted == IF answer.read[h] >= c.readTill[h]
                          THEN Show(c, h, answer.read[h]) ELSE c
               last == [counted.last EXCEPT ![h] = "message"]
    <2>1. d = [counted EXCEPT !.last = last]
      BY <1>3 DEF Fields
    <2>2. answer.read[h] \in 0 .. MaxId
      BY DEF Entries
    <2>3. ReadOn(c, counted)
      BY <1>1, <2>2, MarkReadIs
    <2> HIDE DEF counted
    <2>4. counted \in Clients
      BY <2>3 DEF ReadOn
    <2>5. last \in [Chats -> {"unknown", "none", "message"}]
      BY <2>4 DEF Clients
    <2> HIDE DEF last
    <2> QED
      BY <2>1, <2>3, <2>4, <2>5
         DEF ReadOn, Clients, SameRequests, SameEntries, SameTimes
  <1> QED
    BY <1>2, <1>3

(* dialogEntryApplied: the chat is not asked for any more, or is to be     *)
(* asked for again.                                                        *)
LEMMA EntryAppliedIs ==
  ASSUME ReadType, NEW c, ClientInv(c), NEW h \in Chats, NEW answer,
         NEW still, NEW due, NEW d, d = EntryApplied(c, h, answer, still, due)
  PROVE  ClientInv(d) /\ Step(c, d) /\ (d.asked[h] = "no" \/ d.postponedEntry[h])
  <1> DEFINE pending == [c.pending EXCEPT ![h] = "no"]
             asked == [c.asked EXCEPT ![h] = "no"]
             last == [c.last EXCEPT ![h] = IF @ = "unknown" THEN "none" ELSE @]
             known == [c EXCEPT !.pending = pending, !.asked = asked, !.last = last]
             waited == "waited" \in {c.pending[h], c.asked[h]}
             told == IF waited
                     THEN ReadTill(known, h, LastId(known, h), FALSE, still, due)
                     ELSE known
             marks == [told.sentReadTill EXCEPT ![h] = 0]
             read2 == MarkRead(told, h, told.sentReadTill[h])
  <1>1. Good(c) /\ c \in Clients /\ Needs(c) <= MaxRequests /\ c.made \in Nat
    BY DEF ClientInv, Good, Clients
  <1>2. CASE c.postponedEntry[h]
    <2>1. d = c
      BY <1>2 DEF EntryApplied
    <2>2. Step(c, c)
      BY <1>1 DEF Step
    <2> QED
      BY <1>2, <2>1, <2>2
  <1>3. CASE ~c.postponedEntry[h]
    <2>1. \/ d = told
          \/ d = [read2 EXCEPT !.sentReadTill[h] = 0]
      <3>1. d = IF told.sentReadTill[h] # 0 /\ told.sentReadDone[h]
                THEN [read2 EXCEPT !.sentReadTill[h] = 0]
                ELSE told
        BY SMTT(30), <1>3 DEF EntryApplied
      <3> HIDE DEF told, read2
      <3> QED
        BY <3>1
    <2>2. /\ pending \in [Chats -> Keys] /\ asked \in [Chats -> Keys]
          /\ last \in [Chats -> {"unknown", "none", "message"}]
          /\ pending[h] = "no" /\ asked[h] = "no"
          /\ \A g \in Chats : g # h => /\ pending[g] = c.pending[g]
                                       /\ asked[g] = c.asked[g]
      BY <1>1 DEF Clients, Keys
    <2> HIDE DEF pending, asked, last
    <2>3. /\ known \in Clients /\ SameRequests(c, known) /\ SameMarks(c, known)
          /\ SameTimes(c, known) /\ known.pending = pending
          /\ known.asked = asked /\ known.postponedEntry = c.postponedEntry
          /\ known.posted = c.posted /\ known.last = last
      BY <1>1, <2>2 DEF Clients, SameRequests, SameMarks, SameTimes
    <2> HIDE DEF known, told
    <2>4. /\ known.requests = c.requests /\ \A g : Sent(known, g) = Sent(c, g)
          /\ \A g : Changing(known, g) <=> Changing(c, g)
      BY <2>3, SameSets DEF SameRequests
    <2>5. Good(known) /\ MarksKept(known) /\ TimerRuns(known)
      <3>1. RequestsMade(known) /\ DeletionsAlone(known)
        BY <1>1, <2>3, SameRequestsKeep DEF Good
      <3>2. EntriesMarked(known)
        BY <1>1, <1>3, <2>2, <2>3, <2>4 DEF Good, EntriesMarked
      <3>3. MarksInOrder(known) /\ MarksKept(known)
        BY <1>1, <2>3, <2>4, SameMarksKeep DEF Good, ClientInv
      <3>4. TimerRuns(known)
        BY <2>3 DEF ClientInv, TimerRuns, SameMarks, SameTimes
      <3> QED
        BY <2>3, <3>1, <3>2, <3>3, <3>4 DEF Good
    <2>6. Needs(known) <= MaxRequests /\ (waited => Needs(known) < MaxRequests)
      <3>1. /\ Marked(known) \subseteq Marked(c) /\ known.made = c.made
            /\ Waiters(known) \subseteq Waiters(c) \ {h}
            /\ waited => h \in Waiters(c)
        BY <2>2, <2>3 DEF Marked, Waiters, SameMarks, SameRequests
      <3>2. Needs(known) <= Needs(c)
        BY <1>1, <2>3, <3>1, FewerNeeds
      <3>3. waited => Needs(known) + 1 <= Needs(c)
        BY <1>1, <2>3, <3>1, OneWaiterLess
      <3> HIDE DEF waited
      <3> QED
        BY <1>1, <2>3, <3>2, <3>3, NeedsType, BoundsAssumption
    <2>7. ClientInv(known)
      BY <2>5, <2>6 DEF ClientInv
    <2>8. Step(c, known)
      BY <1>1, <2>2, <2>3, <2>4 DEF Step, SameRequests
    <2>9. LastId(known, h) \in 0 .. MaxId
      BY BoundsAssumption DEF LastId
    <2>10. ClientInv(told) /\ Sends(known, told)
      <3>1. CASE waited
        <4>1. told = ReadTill(known, h, LastId(known, h), FALSE, still, due)
          BY <3>1 DEF told
        <4> QED
          BY <2>6, <2>7, <2>9, <3>1, <4>1, ReadTillIs
      <3>2. CASE ~waited
        <4>1. told = known
          BY <3>2 DEF told
        <4> QED
          BY <2>3, <2>7, <4>1, ReadsSentSame, ReadsSentSends
      <3> QED
        BY <3>1, <3>2
    <2>11. told \in Clients /\ Good(told) /\ told.asked[h] = "no" /\ Step(known, told)
      BY <2>2, <2>3, <2>10 DEF ClientInv, Good, Sends
    <2>12. Step(c, told)
      BY <1>1, <2>3, <2>8, <2>11, StepTrans DEF Good
    <2>13. CASE d = told
      BY <2>10, <2>11, <2>12, <2>13
    <2>14. CASE d = [read2 EXCEPT !.sentReadTill[h] = 0]
      <3>1. told.sentReadTill[h] \in 0 .. MaxId
        BY <2>11 DEF Clients
      <3>2. ReadOn(told, read2) /\ read2.readTill[h] >= told.sentReadTill[h]
        BY <2>11, <3>1, MarkReadIs
      <3> HIDE DEF read2
      <3>3. /\ ClientInv(read2) /\ Good(read2) /\ Step(told, read2)
            /\ read2 \in Clients
        BY <2>10, <2>11, <3>2, ReadOnInv, ReadOnKeeps DEF ReadOn
      <3>4. read2.sentReadTill = told.sentReadTill /\ read2.asked = told.asked
        BY <3>2 DEF ReadOn, SameEntries
      <3>5. d = [read2 EXCEPT !.sentReadTill = marks]
        BY <2>14, <3>4
      <3>6. marks \in [Chats -> 0 .. MaxId]
        BY <2>11, BoundsAssumption DEF Clients
      <3> HIDE DEF marks
      <3>7. /\ d \in Clients /\ SameRequests(read2, d) /\ SameEntries(read2, d)
            /\ SameTimes(read2, d)
            /\ d.willReadTill = read2.willReadTill /\ d.readTill = read2.readTill
            /\ d.wanted = read2.wanted /\ d.sentReadTill = marks
            /\ d.asked = read2.asked
        BY <3>3, <3>5, <3>6 DEF Clients, SameRequests, SameEntries, SameTimes
      <3>8. /\ marks = [read2.sentReadTill EXCEPT ![h] = 0]
            /\ read2.sentReadTill[h] <= read2.readTill[h]
        <4>1. read2.sentReadTill[h] \in Nat /\ read2.readTill[h] \in Nat
          BY <3>3, MarkType
        <4> QED
          BY <3>2, <3>4, <4>1 DEF marks
      <3>9. Good(d) /\ Step(read2, d) /\ Needs(d) <= Needs(read2) /\ MarksKept(d)
        BY <3>3, <3>7, <3>8, MarkGivenUp DEF ClientInv
      <3>10. Needs(d) <= MaxRequests
        BY <3>3, <3>7, <3>9, NeedsBounded DEF ClientInv
      <3>11. TimerRuns(d)
        BY <3>3, <3>7 DEF ClientInv, TimerRuns, SameTimes
      <3>12. Step(c, d)
        <4>1. Step(c, read2)
          BY <1>1, <2>11, <2>12, <3>3, StepTrans DEF Good
        <4> QED
          BY <1>1, <3>3, <3>7, <3>9, <4>1, StepTrans DEF Good
      <3> QED
        BY <2>11, <3>4, <3>7, <3>9, <3>10, <3>11, <3>12 DEF ClientInv
    <2> QED
      BY <2>1, <2>13, <2>14
  <1> QED
    BY <1>2, <1>3

(* ... and the fold over the chats of an answer.                           *)
AppliedOf(c, s, d) ==
  /\ ClientInv(d) /\ Step(c, d)
  /\ \A g \in s : d.asked[g] = "no" \/ d.postponedEntry[g]

LEMMA EntriesAnsweredIs ==
  ASSUME ReadType, NEW c, ClientInv(c), NEW answer \in Entries, NEW still,
         NEW due, NEW d, d = EntriesAnswered(c, answer, still, due)
  PROVE  AppliedOf(c, answer.chats, d)
  <1> DEFINE S == answer.chats
             Op(h, e) == EntryApplied(Fields(e, h, answer), h, answer, still, due)
             Folds(F) == F = [s \in SUBSET S |->
                                IF s = {} THEN c
                                ELSE Op(CHOOSE x \in s : TRUE,
                                        F[s \ {CHOOSE x \in s : TRUE}])]
             F == CHOOSE F : Folds(F)
             B == {s \in SUBSET S : ~AppliedOf(c, s, F[s])}
  <1>1. S \in SUBSET Chats /\ IsFiniteSet(S)
    <2>1. S \in SUBSET Chats
      BY DEF Entries
    <2> HIDE DEF S
    <2> QED
      BY <2>1, FS_Subset, BoundsAssumption
  <1>2. \E G : Folds(G)
    <2>1. PICK G : IsFold(G, S, c, FALSE, answer, still, due)
      BY <1>1, FoldExists
    <2>2. Folds(G)
      BY <2>1 DEF IsFold, FoldStep, Picked
    <2> QED
      BY <2>2
  <1>3. Folds(F)
    BY <1>2
  <1>4. d = F[S]
    BY DEF EntriesAnswered, FoldSet, MapThenFoldSet
  <1>5. \A s \in SUBSET S :
          F[s] = IF s = {} THEN c ELSE Op(Picked(s), F[s \ {Picked(s)}])
    BY <1>3 DEF Picked
  <1> HIDE DEF F, S, Op
  <1>6. c \in Clients /\ c.made \in Nat /\ RequestsMade(c)
    BY DEF ClientInv, Good, Clients
  <1>7. B = {}
    <2> SUFFICES ASSUME B # {} PROVE FALSE
      OBVIOUS
    <2>1. PICK s \in B : \A x \in s : s \ {x} \notin B
      <3>1. B \in SUBSET SUBSET S
        OBVIOUS
      <3> HIDE DEF B
      <3> QED
        BY <1>1, <3>1, MinimalSet
    <2>2. s \in SUBSET S /\ ~AppliedOf(c, s, F[s])
      BY <2>1
    <2>3. CASE s = {}
      <3>1. F[s] = c
        BY <1>5, <2>2, <2>3
      <3>2. AppliedOf(c, {}, c)
        BY <1>6 DEF AppliedOf, Step
      <3> QED
        BY <2>2, <2>3, <3>1, <3>2
    <2>4. CASE s # {}
      <3> DEFINE x == Picked(s)
                 b == F[s \ {x}]
                 f == Fields(b, x, answer)
                 e == F[s]
      <3>1. x \in s /\ x \in Chats /\ s \ {x} \in SUBSET S
        BY <1>1, <2>2, <2>4 DEF Picked
      <3>2. e = EntryApplied(f, x, answer, still, due)
        BY <1>5, <2>2, <2>4 DEF Op
      <3>3. AppliedOf(c, s \ {x}, b)
        BY <2>1, <3>1
      <3> HIDE DEF x, b, e, f
      <3>4. ClientInv(b) /\ Good(b) /\ b \in Clients /\ Step(c, b)
        BY <3>3 DEF AppliedOf, ClientInv, Good
      <3>5. ReadOn(b, f)
        BY <3>1, <3>4, FieldsIs DEF f
      <3>6. ClientInv(f) /\ Step(b, f) /\ f \in Clients
        BY <3>4, <3>5, ReadOnInv, ReadOnKeeps DEF ReadOn
      <3>7. ClientInv(e) /\ Step(f, e) /\ (e.asked[x] = "no" \/ e.postponedEntry[x])
        BY <3>1, <3>2, <3>6, EntryAppliedIs
      <3>8. e \in Clients
        BY <3>7 DEF ClientInv, Good
      <3>9. Step(c, e) /\ Step(b, e)
        <4>1. Step(b, e)
          BY <3>4, <3>6, <3>7, <3>8, StepTrans DEF Good
        <4> QED
          BY <1>6, <3>4, <3>8, <4>1, StepTrans
      <3>10. \A g \in s : e.asked[g] = "no" \/ e.postponedEntry[g]
        <4> SUFFICES ASSUME NEW g \in s
                     PROVE  e.asked[g] = "no" \/ e.postponedEntry[g]
          OBVIOUS
        <4>1. CASE g = x
          BY <3>7, <4>1
        <4>2. CASE g # x
          <5>1. g \in Chats /\ (b.asked[g] = "no" \/ b.postponedEntry[g])
            BY <1>1, <2>2, <3>3, <4>2 DEF AppliedOf
          <5> QED
            BY <3>9, <5>1 DEF Step
        <4> QED
          BY <4>1, <4>2
      <3>11. AppliedOf(c, s, e)
        BY <3>7, <3>9, <3>10 DEF AppliedOf
      <3> QED
        BY <2>2, <3>11 DEF e
    <2> QED
      BY <2>3, <2>4
  <1>8. S \in SUBSET S
    OBVIOUS
  <1>9. AppliedOf(c, S, F[S])
    BY <1>7, <1>8
  <1> QED
    BY <1>4, <1>9 DEF S

-----------------------------------------------------------------------------
(* The functions that are handlers of their own keep the invariant of the  *)
(* client.                                                                 *)

LEMMA RequestEntryInv ==
  ASSUME NEW c, ClientInv(c), NEW h \in Chats, NEW waits \in BOOLEAN,
         waits => Needs(c) < MaxRequests, NEW d, d = RequestEntry(c, h, waits)
  PROVE  ClientInv(d) /\ Step(c, d)
  <1>1. Good(c) /\ c \in Clients
    BY DEF ClientInv, Good
  <1>2. /\ Good(d) /\ SameRequests(c, d) /\ SameMarks(c, d) /\ SameTimes(c, d)
        /\ Step(c, d)
        /\ Waiters(d) \subseteq Waiters(c) \cup {h}
        /\ ~waits => Waiters(d) \subseteq Waiters(c)
    BY <1>1, RequestEntryIs
  <1>3. /\ d \in Clients /\ d.requests = c.requests /\ d.made = c.made
        /\ Marked(d) = Marked(c)
    BY <1>2 DEF Good, SameRequests, SameMarks, Marked
  <1>4. MarksKept(d)
    BY <1>1, <1>2, <1>3, SameMarksKeep DEF ClientInv, Good
  <1>5. TimerRuns(d)
    BY <1>2 DEF ClientInv, TimerRuns, SameMarks, SameTimes
  <1>6. Needs(d) <= MaxRequests
    <2>1. CASE waits
      <3>1. Needs(d) <= Needs(c) + 1
        BY <1>1, <1>2, <1>3, OneMoreWaiter
      <3> QED
        <4>1. Needs(c) \in Nat /\ Needs(d) \in Nat /\ MaxRequests \in Nat
          BY <1>1, <1>3, NeedsType, BoundsAssumption
        <4>2. Needs(c) < MaxRequests
          BY <2>1
        <4> QED
          BY ONLY <3>1, <4>1, <4>2
    <2>2. CASE ~waits
      <3>1. Needs(d) <= Needs(c)
        BY <1>1, <1>2, <1>3, <2>2, FewerNeeds
      <3> QED
        BY <1>1, <1>3, <3>1, NeedsBounded DEF ClientInv
    <2> QED
      BY <2>1, <2>2
  <1> QED
    BY <1>2, <1>4, <1>5, <1>6 DEF ClientInv

LEMMA SendRequestInv ==
  ASSUME ReadType, NEW c, ClientInv(c), Needs(c) < MaxRequests,
         NEW h \in Chats, NEW type \in {"History", "Delete", "Send"},
         NEW d, d = SendRequest(c, h, type, 0)
  PROVE  /\ ClientInv(d) /\ Step(c, d)
         /\ \A id \in Ids : c.requests[id].at # "none" /\ c.requests[id].type # "History"
              => d.requests[id] = c.requests[id]
  <1>1. /\ Good(c) /\ c \in Clients /\ RequestsMade(c) /\ DeletionsAlone(c)
        /\ EntriesMarked(c) /\ MarksKept(c)
    BY DEF ClientInv, Good
  <1>2. c.made < MaxRequests /\ 0 \in 0 .. MaxId
    BY <1>1, NeedsType, BoundsAssumption
  <1>3. Requested(c, d, h, type, 0)
    BY <1>1, <1>2, SendRequestIs
  <1>4. Good(d)
    BY <1>1, <1>2, <1>3, RequestedGood
  <1>5. Step(c, d)
    BY <1>1, <1>3, RequestedStep
  <1>6. MarksSent(c, d)
    <2>1. \A g \in Chats : \A id \in Sent(c, g) :
            c.requests[id].till # 0 => c.requests[id].type = "ReadInbox"
      BY <1>1, SentType DEF RequestsMade
    <2>2. \A g \in Chats : \A id \in Sent(c, g) : c.requests[id].type # "History" =>
            id \in Sent(d, g) /\ d.requests[id] = c.requests[id]
      BY <1>1, <1>3, RequestedSets
    <2> QED
      BY <2>1, <2>2 DEF MarksSent
  <1>7. MarksKept(d)
    BY <1>1, <1>3, <1>6, SameMarksStayKept DEF Requested, SameMarks
  <1>8. TimerRuns(d)
    BY <1>3 DEF ClientInv, TimerRuns, Requested, SameMarks, SameTimes
  <1>9. Needs(d) <= MaxRequests
    <2>1. /\ Marked(d) = Marked(c) /\ Waiters(d) = Waiters(c) /\ d.made = c.made + 1
          /\ d \in Clients
      BY <1>3 DEF Marked, Waiters, Requested, SameMarks
    <2>2. Needs(d) = Needs(c) + 1
      <3>1. /\ c.made \in Nat /\ Cardinality(Marked(c)) \in Nat
            /\ Cardinality(Waiters(c)) \in Nat
        BY <1>1, NeedsType
      <3> QED
        BY <2>1, <3>1 DEF Needs
    <2> QED
      BY <1>1, <2>2, NeedsType, BoundsAssumption
  <1>10. \A id \in Ids : c.requests[id].at # "none" /\ c.requests[id].type # "History"
           => d.requests[id] = c.requests[id]
    BY <1>3 DEF Requested
  <1> QED
    BY <1>4, <1>5, <1>7, <1>8, <1>9, <1>10 DEF ClientInv

LEMMA FinishRequestInv ==
  ASSUME ReadType, NEW c, ClientInv(c), NEW id \in Ids,
         c.requests[id].at # "none", c.requests[id].type # "ReadInbox",
         NEW d, d = FinishRequest(c, id)
  PROVE  ClientInv(d) /\ Step(c, d)
  <1>1. Good(c) /\ c \in Clients /\ RequestsMade(c) /\ MarksKept(c)
    BY DEF ClientInv, Good
  <1>2. /\ Good(d) /\ Step(c, d) /\ SameMarks(c, d) /\ SameTimes(c, d)
        /\ Needs(d) <= Needs(c)
        /\ \A g \in Chats : \A i \in Sent(c, g) :
             i # id => i \in Sent(d, g) /\ d.requests[i] = c.requests[i]
    BY <1>1, FinishRequestGood
  <1>3. MarksSent(c, d)
    <2>1. \A g \in Chats : \A i \in Sent(c, g) : c.requests[i].till # 0 => i # id
      BY <1>1, SentType DEF RequestsMade
    <2> QED
      BY <1>2, <2>1 DEF MarksSent
  <1>4. MarksKept(d)
    BY <1>1, <1>2, <1>3, SameMarksStayKept DEF SameMarks
  <1>5. TimerRuns(d)
    BY <1>2 DEF ClientInv, TimerRuns, SameMarks, SameTimes
  <1>6. Needs(d) <= MaxRequests
    BY <1>1, <1>2, NeedsBounded DEF ClientInv, Good
  <1> QED
    BY <1>2, <1>4, <1>5, <1>6 DEF ClientInv

(* The deletion of a channel is left as it is: it is still sent.           *)
LEMMA LeftInv ==
  ASSUME NEW c, ClientInv(c), NEW id \in Ids, c.requests[id].at = "sent",
         c.requests[id].type = "Delete", NEW d, d = Put(c, {id}, "left")
  PROVE  ClientInv(d) /\ Step(c, d)
  <1>1. Good(c) /\ c \in Clients /\ c.made \in Nat
    BY DEF ClientInv, Good, Clients
  <1>2. /\ d \in Clients /\ d.made = c.made /\ SameRest(c, d)
        /\ \A i \in Ids :
             /\ i # id => d.requests[i] = c.requests[i]
             /\ i = id => /\ d.requests[i].at = "left"
                          /\ SameKind(c.requests[i], d.requests[i])
    BY <1>1, PutIs
  <1>3. /\ SameEntries(c, d) /\ SameMarks(c, d) /\ SameTimes(c, d)
    BY <1>2 DEF SameRest
  <1>4. \A i \in Ids : /\ d.requests[i].at # "none" <=> c.requests[i].at # "none"
                       /\ c.requests[i].at # "none" =>
                            SameKind(c.requests[i], d.requests[i])
                       /\ d.requests[i].at = "postponed" <=> c.requests[i].at = "postponed"
                       /\ d.requests[i].at \in {"sent", "left"} <=>
                            c.requests[i].at \in {"sent", "left"}
                       /\ d.requests[i].at = "left" =>
                            i = id \/ d.requests[i] = c.requests[i]
    BY <1>2 DEF SameKind
  <1>5. \A g : Sent(d, g) = Sent(c, g) /\ Of(d, g, {"postponed"}) = Of(c, g, {"postponed"})
    <2>1. \A i \in Ids : \A g :
            /\ d.requests[i].at \in {"sent", "left"} /\ d.requests[i].chat = g <=>
                 c.requests[i].at \in {"sent", "left"} /\ c.requests[i].chat = g
            /\ d.requests[i].at \in {"postponed"} /\ d.requests[i].chat = g <=>
                 c.requests[i].at \in {"postponed"} /\ c.requests[i].chat = g
      BY ONLY <1>4 DEF SameKind
    <2> QED
      BY ONLY <2>1 DEF Sent, Of
  <1>6. \A g : \A i \in Sent(c, g) : i \in Ids /\ SameKind(c.requests[i], d.requests[i])
    BY <1>4 DEF Sent, Of
  <1>7. /\ \A g : Deleting(d, g) <=> Deleting(c, g)
        /\ \A g : Changing(d, g) <=> Changing(c, g)
    BY <1>5, <1>6 DEF Deleting, Changing, SameKind
  <1>8. RequestsMade(d)
    <2>1. RequestsMade(c)
      BY <1>1 DEF Good
    <2>2. c.requests[id].type = "Delete" /\ c.requests[id].at = "sent"
      OBVIOUS
    <2> SUFFICES ASSUME NEW i \in Ids, d.requests[i].at # "none"
                 PROVE  /\ i <= d.made
                        /\ d.requests[i].till # 0 => d.requests[i].type = "ReadInbox"
                        /\ d.requests[i].at = "left" => d.requests[i].type = "Delete"
                        /\ d.requests[i].at = "postponed" =>
                             d.requests[i].type = "History"
      BY DEF RequestsMade
    <2>3. CASE i = id
      BY <1>2, <2>1, <2>2, <2>3 DEF RequestsMade, SameKind
    <2>4. CASE i # id
      BY <1>2, <2>1, <2>4 DEF RequestsMade
    <2> QED
      BY <2>3, <2>4
  <1>9. DeletionsAlone(d)
    BY <1>1, <1>5, <1>6, <1>7 DEF Good, DeletionsAlone, SameKind
  <1>10. EntriesMarked(d)
    BY <1>1, <1>3, <1>7, SameEntriesKeep DEF Good
  <1>11. MarksInOrder(d)
    <2>1. MarksInOrder(c)
      BY <1>1 DEF Good
    <2>2. \A g : \A i \in Sent(c, g) : d.requests[i].till = c.requests[i].till
      BY <1>6 DEF SameKind
    <2>3. /\ d.willReadTill = c.willReadTill /\ d.sentReadTill = c.sentReadTill
          /\ d.readTill = c.readTill /\ d.wanted = c.wanted
      BY <1>3 DEF SameMarks
    <2>4. \A g : Sent(d, g) = Sent(c, g)
      BY <1>5
    <2> QED
      BY ONLY <2>1, <2>2, <2>3, <2>4 DEF MarksInOrder
  <1>12. MarksKept(d)
    BY ZenonT(60), <1>3, <1>5, <1>6 DEF ClientInv, MarksKept, SameMarks, SameKind
  <1>13. TimerRuns(d)
    BY <1>3 DEF ClientInv, TimerRuns, SameMarks, SameTimes
  <1>14. Needs(d) <= MaxRequests
    <2>1. Marked(d) = Marked(c) /\ Waiters(d) = Waiters(c)
      BY <1>3 DEF Marked, Waiters, SameMarks, SameEntries
    <2>2. Needs(d) <= Needs(c)
      BY <1>1, <1>2, <2>1, FewerNeeds
    <2> QED
      BY <1>1, <1>2, <2>2, NeedsBounded DEF ClientInv
  <1>15. Step(c, d)
    <2>1. \A i \in Ids : d.requests[i].at # "none" =>
            /\ c.requests[i].at # "none"
            /\ d.requests[i].chat = c.requests[i].chat
            /\ d.requests[i].type = c.requests[i].type
            /\ d.requests[i].till = c.requests[i].till
      BY <1>4 DEF SameKind
    <2>2. \A g \in Chats : d.asked[g] # "no" /\ ~d.postponedEntry[g] =>
                             c.asked[g] # "no" /\ ~c.postponedEntry[g]
      BY <1>3 DEF SameEntries
    <2>3. c.made <= d.made
      BY <1>1, <1>2
    <2> QED
      BY ONLY <2>1, <2>2, <2>3 DEF Step
  <1> QED
    BY <1>2, <1>8, <1>9, <1>10, <1>11, <1>12, <1>13, <1>14, <1>15 DEF ClientInv, Good

-----------------------------------------------------------------------------
(* The inductive invariant: the client's, what the other variables hold,   *)
(* and how they relate to it.                                              *)

OtherTypes ==
  /\ ReadType /\ entries \in Seq(Entries) /\ served \in [Ids -> Results]
  /\ readUpdates \subseteq Chats \X (1 .. MaxId) /\ wishes \in 0 .. MaxWishes

(* An entry that is asked for and is not to be asked for again comes.      *)
EntriesCome ==
  \A h \in Chats : client.asked[h] # "no" /\ ~client.postponedEntry[h] =>
    \E i \in DOMAIN entries : h \in entries[i].chats

(* What an answer may be, and what the server has done for it.             *)
ServedRight ==
  \A id \in Ids : served[id] # "none" =>
    /\ client.requests[id].at = "sent"
    /\ served[id] = "done" =>
         read[client.requests[id].chat] >= client.requests[id].till
    /\ served[id] \in {"channel", "more"} => client.requests[id].type = "Delete"
    /\ client.requests[id].type = "ReadInbox" => served[id] \in {"done", "failed"}

Inv ==
  /\ ClientInv(client) /\ OtherTypes /\ EntriesCome /\ ServedRight
  /\ NoDeletedMessageReturns

LEMMA InvFacts ==
  ASSUME Inv
  PROVE  /\ ReadType /\ ClientInv(client) /\ Good(client) /\ client \in Clients
         /\ Needs(client) <= MaxRequests
         /\ Room => Needs(client) < MaxRequests
  <1>1. /\ ReadType /\ ClientInv(client) /\ Good(client) /\ client \in Clients
        /\ Needs(client) <= MaxRequests
    BY DEF Inv, OtherTypes, ClientInv, Good
  <1>2. Room => Needs(client) < MaxRequests
    BY DEF Room, Needs, Marked, Waiters
  <1> QED
    BY <1>1, <1>2

(* After a handler of the client, the answers to the requests that stay    *)
(* are right as before.                                                    *)
LEMMA ServedStay ==
  ASSUME Inv, NEW d \in Clients, Step(client, d), Becomes(d), read' = read
  PROVE  ServedRight' /\ NoDeletedMessageReturns' /\ served' \in [Ids -> Results]
  <1>1. /\ client' = d
        /\ served' = [id \in Ids |-> IF d.requests[id].at = "sent"
                                     THEN served[id] ELSE "none"]
        /\ old' = {id \in old : d.requests[id].at = "sent"}
    BY DEF Becomes
  <1>2. served \in [Ids -> Results] /\ ServedRight /\ old = {}
    BY DEF Inv, OtherTypes, NoDeletedMessageReturns
  <1>3. \A id \in Ids : served[id] # "none" /\ d.requests[id].at = "sent" =>
          /\ d.requests[id].chat = client.requests[id].chat
          /\ d.requests[id].type = client.requests[id].type
          /\ d.requests[id].till = client.requests[id].till
    BY <1>2 DEF Step, ServedRight
  <1>4. ServedRight'
    BY <1>1, <1>2, <1>3 DEF ServedRight
  <1>5. served' \in [Ids -> Results]
    BY <1>1, <1>2 DEF Results
  <1>6. old' = {}
    BY <1>1, <1>2
  <1> QED
    BY <1>4, <1>5, <1>6 DEF NoDeletedMessageReturns

LEMMA HandlerKeepsInv ==
  ASSUME Inv, NEW d, ClientInv(d), Step(client, d), Becomes(d),
         UNCHANGED <<entries, read>>,
         readUpdates' \subseteq readUpdates, wishes' \in 0 .. MaxWishes
  PROVE  Inv'
  <1>1. d \in Clients /\ client' = d /\ read' = read /\ entries' = entries
    BY DEF ClientInv, Good, Becomes
  <1>2. ServedRight' /\ NoDeletedMessageReturns' /\ served' \in [Ids -> Results]
    BY <1>1, ServedStay
  <1>3. ClientInv(client)'
    BY <1>1 DEF ClientInv, Good, RequestsMade, DeletionsAlone, EntriesMarked,
                MarksInOrder, MarksKept, TimerRuns, Needs, Marked, Waiters
  <1>4. OtherTypes'
    BY <1>1, <1>2 DEF Inv, OtherTypes, ReadType
  <1>5. EntriesCome'
    BY <1>1 DEF Inv, EntriesCome, Step
  <1> QED
    BY <1>2, <1>3, <1>4, <1>5 DEF Inv

LEMMA InitKeeps ==
  ASSUME Init PROVE Inv
  <1>1. MaxId \in Nat /\ MaxRequests \in Nat /\ MaxWishes \in Nat /\ IsFiniteSet(Chats)
    BY BoundsAssumption
  <1>2. client \in Clients
    BY <1>1 DEF Init, Clients, Keys
  <1>3. /\ \A id \in Ids : client.requests[id].at = "none"
        /\ \A h \in Chats : client.willReadTill[h] = 0 /\ client.wanted[h] = 0
        /\ \A h \in Chats : /\ client.asked[h] = "no" /\ client.pending[h] = "no"
                            /\ client.postponedEntry[h] = FALSE
        /\ client.made = 0
    BY DEF Init, NoRequest
  <1>4. \A h : Sent(client, h) = {} /\ Of(client, h, {"postponed"}) = {}
    BY <1>3 DEF Sent, Of
  <1>5. Good(client)
    BY <1>2, <1>3, <1>4 DEF Good, RequestsMade, DeletionsAlone, EntriesMarked,
                            MarksInOrder, Deleting, Changing
  <1>6. read \in [Chats -> 0 .. MaxId] /\ \A h \in Chats : read[h] = 0
    BY <1>1 DEF Init
  <1>7. MarksKept(client) /\ TimerRuns(client)
    BY <1>3, <1>6 DEF MarksKept, TimerRuns
  <1>8. Needs(client) <= MaxRequests
    <2>1. Marked(client) = {} /\ Waiters(client) = {}
      BY <1>3 DEF Marked, Waiters
    <2>2. Cardinality({}) = 0
      BY FS_EmptySet
    <2> QED
      BY <1>1, <1>3, <2>1, <2>2 DEF Needs
  <1>9. OtherTypes
    BY <1>1, <1>6 DEF Init, OtherTypes, ReadType, Results
  <1>10. EntriesCome /\ ServedRight /\ NoDeletedMessageReturns
    BY <1>3 DEF Init, EntriesCome, ServedRight, NoDeletedMessageReturns
  <1> QED
    BY <1>5, <1>7, <1>8, <1>9, <1>10 DEF Inv, ClientInv

-----------------------------------------------------------------------------
(* The rest of the program, and the loop.                                  *)

LEMMA AskForEntryKeeps ==
  ASSUME Inv, NEW h \in Chats, AskForEntry(h) PROVE Inv'
  <1> DEFINE d == RequestEntry(client, h, FALSE)
  <1>1. /\ Becomes(d) /\ UNCHANGED <<entries, read, readUpdates>>
        /\ wishes < MaxWishes /\ wishes' = wishes + 1
    BY DEF AskForEntry, Wish
  <1>2. ClientInv(d) /\ Step(client, d)
    BY InvFacts, RequestEntryInv
  <1>3. wishes' \in 0 .. MaxWishes
    BY <1>1, BoundsAssumption DEF Inv, OtherTypes
  <1> HIDE DEF d
  <1> QED
    BY <1>1, <1>2, <1>3, HandlerKeepsInv

LEMMA ReadInboxKeeps ==
  ASSUME Inv, NEW h \in Chats, ReadInbox(h) PROVE Inv'
  <1>1. PICK still \in Stills, due \in SUBSET Later :
          Becomes(IF client.last[h] = "unknown" THEN RequestEntry(client, h, TRUE)
                  ELSE ReadTill(client, h, LastId(client, h), FALSE, still, due))
    BY DEF ReadInbox
  <1> DEFINE d == IF client.last[h] = "unknown" THEN RequestEntry(client, h, TRUE)
                  ELSE ReadTill(client, h, LastId(client, h), FALSE, still, due)
  <1>2. /\ Room /\ UNCHANGED <<entries, read, readUpdates>>
        /\ wishes < MaxWishes /\ wishes' = wishes + 1
    BY DEF ReadInbox, Wish
  <1>3. wishes' \in 0 .. MaxWishes
    BY <1>2, BoundsAssumption DEF Inv, OtherTypes
  <1>4. ReadType /\ ClientInv(client) /\ Needs(client) < MaxRequests
    BY <1>2, InvFacts
  <1>5. ClientInv(d) /\ Step(client, d)
    <2>1. CASE client.last[h] = "unknown"
      <3>1. d = RequestEntry(client, h, TRUE)
        BY <2>1
      <3> HIDE DEF d
      <3> QED
        BY <1>4, <3>1, RequestEntryInv
    <2>2. CASE client.last[h] # "unknown"
      <3>1. d = ReadTill(client, h, LastId(client, h), FALSE, still, due)
        BY <2>2
      <3>2. LastId(client, h) \in 0 .. MaxId
        BY BoundsAssumption DEF LastId
      <3> HIDE DEF d
      <3>3. ClientInv(d) /\ Sends(client, d)
        BY <1>4, <3>1, <3>2, ReadTillIs
      <3> QED
        BY <3>3 DEF Sends
    <2> QED
      BY <2>1, <2>2
  <1> HIDE DEF d
  <1>6. Becomes(d)
    BY <1>1 DEF d
  <1> QED
    BY <1>2, <1>3, <1>5, <1>6, HandlerKeepsInv

LEMMA AsksKeeps ==
  ASSUME Inv, Asks
  PROVE  /\ UNCHANGED <<entries, read>> /\ readUpdates' \subseteq readUpdates
         /\ wishes' \in 0 .. MaxWishes
  BY DEF Asks, Inv, OtherTypes

LEMMA ReadInboxTillKeeps ==
  ASSUME Inv, NEW h \in Chats, ReadInboxTill(h) PROVE Inv'
  <1>1. PICK till \in 1 .. MaxId, force \in BOOLEAN, still \in Stills,
             due \in SUBSET Later :
          Becomes(ReadTill(client, h, till, force, still, due))
    BY DEF ReadInboxTill
  <1>2. Room /\ Asks
    BY DEF ReadInboxTill
  <1> DEFINE d == ReadTill(client, h, till, force, still, due)
  <1>3. till \in 0 .. MaxId
    BY BoundsAssumption
  <1>4. ClientInv(d) /\ Step(client, d)
    BY <1>2, <1>3, InvFacts, ReadTillIs DEF Sends
  <1> HIDE DEF d
  <1>5. Becomes(d)
    BY <1>1 DEF d
  <1> QED
    BY <1>2, <1>4, <1>5, AsksKeeps, HandlerKeepsInv

LEMMA SendPendingReadInboxKeeps ==
  ASSUME Inv, NEW h \in Chats, SendPendingReadInbox(h) PROVE Inv'
  <1>1. PICK due \in SUBSET Later : Becomes(SendPendingRead(client, h, due))
    BY DEF SendPendingReadInbox
  <1>2. Asks
    BY DEF SendPendingReadInbox
  <1> DEFINE d == SendPendingRead(client, h, due)
  <1>3. ClientInv(d) /\ Step(client, d)
    BY InvFacts, SendPendingReadIs DEF Sends
  <1> HIDE DEF d
  <1>4. Becomes(d)
    BY <1>1 DEF d
  <1> QED
    BY <1>2, <1>3, <1>4, AsksKeeps, HandlerKeepsInv

LEMMA SendKeeps ==
  ASSUME Inv, NEW h \in Chats, Send(h) PROVE Inv'
  <1>1. PICK type \in {"History", "Send", "Delete"} :
          Becomes(SendRequest(client, h, type, 0))
    BY DEF Send
  <1>2. Room /\ Asks
    BY DEF Send
  <1> DEFINE d == SendRequest(client, h, type, 0)
  <1>3. ClientInv(d) /\ Step(client, d)
    BY <1>2, InvFacts, SendRequestInv
  <1> HIDE DEF d
  <1>4. Becomes(d)
    BY <1>1 DEF d
  <1> QED
    BY <1>2, <1>3, <1>4, AsksKeeps, HandlerKeepsInv

LEMMA CancelKeeps ==
  ASSUME Inv, NEW id \in Ids, Cancel(id) PROVE Inv'
  <1> DEFINE d == FinishRequest(client, id)
  <1>1. /\ client.requests[id].at # "none" /\ client.requests[id].type # "ReadInbox"
        /\ Asks /\ Becomes(d)
    BY DEF Cancel
  <1>2. ClientInv(d) /\ Step(client, d)
    BY <1>1, InvFacts, FinishRequestInv
  <1> HIDE DEF d
  <1> QED
    BY <1>1, <1>2, AsksKeeps, HandlerKeepsInv

LEMMA ReadTimerKeeps ==
  ASSUME Inv, ReadTimer PROVE Inv'
  <1>1. Asks
    BY DEF ReadTimer
  <1>2. PICK due \in SUBSET Later : Becomes(SendReads([client EXCEPT !.timer = FALSE], due))
    BY DEF ReadTimer
  <1> DEFINE a == [client EXCEPT !.timer = FALSE]
             d == SendReads(a, due)
  <1>3. /\ ReadType /\ ClientInv(client) /\ Good(client) /\ client \in Clients
        /\ MarksKept(client) /\ Needs(client) <= MaxRequests
    BY InvFacts DEF ClientInv
  <1>4. /\ a \in Clients /\ SameRequests(client, a) /\ SameEntries(client, a)
        /\ SameMarks(client, a) /\ a.last = client.last
    BY <1>3 DEF Clients, SameRequests, SameEntries, SameMarks
  <1> HIDE DEF a
  <1>5. Good(a) /\ Sends(client, a) /\ Needs(a) <= Needs(client) /\ MarksKept(a)
    BY <1>3, <1>4, TimesKeep
  <1>6. Needs(a) <= MaxRequests
    BY <1>3, <1>4, <1>5, NeedsBounded
  <1>7. ClientInv(d) /\ ReadsSent(a, d)
    BY <1>3, <1>5, <1>6, SendReadsInv
  <1> HIDE DEF d
  <1>8. Step(client, d)
    <2>1. Step(client, a) /\ Step(a, d) /\ d \in Clients /\ RequestsMade(client)
      BY <1>3, <1>5, <1>7 DEF Sends, ReadsSent, ClientInv, Good
    <2> QED
      BY <1>3, <1>4, <2>1, StepTrans
  <1>9. Becomes(d)
    BY <1>2 DEF d, a
  <1> QED
    BY <1>1, <1>7, <1>8, <1>9, AsksKeeps, HandlerKeepsInv

(* sendDialogRequests: what was pending is asked for.                      *)
LEMMA SendDialogRequestsKeeps ==
  ASSUME Inv, SendDialogRequests PROVE Inv'
  <1> DEFINE c == client
             all == {h \in Chats : c.pending[h] # "no"}
             changing == {h \in all : Changing(c, h)}
             pending == [h \in Chats |-> "no"]
             asked == [h \in Chats |-> IF h \in all THEN c.pending[h] ELSE c.asked[h]]
             postponed == [h \in Chats |-> h \in changing \/ c.postponedEntry[h]]
             d == [c EXCEPT !.posted = @ - 1, !.pending = pending,
                            !.asked = asked, !.postponedEntry = postponed]
             entry == [chats |-> all \ changing, result |-> "none", read |-> read]
  <1>1. /\ c.posted > 0 /\ Becomes(d)
        /\ entries' = IF all = {} THEN entries ELSE Append(entries, entry)
        /\ UNCHANGED <<read, readUpdates, wishes>>
    BY DEF SendDialogRequests
  <1>2. /\ ReadType /\ ClientInv(c) /\ Good(c) /\ c \in Clients
        /\ EntriesMarked(c) /\ MarksKept(c) /\ TimerRuns(c)
        /\ Needs(c) <= MaxRequests
    BY InvFacts DEF ClientInv, Good
  <1>3. /\ c.pending \in [Chats -> Keys] /\ c.asked \in [Chats -> Keys]
        /\ c.postponedEntry \in [Chats -> BOOLEAN] /\ c.posted \in Nat
    BY <1>2 DEF Clients
  <1>4. /\ pending \in [Chats -> Keys] /\ asked \in [Chats -> Keys]
        /\ postponed \in [Chats -> BOOLEAN]
    BY <1>3 DEF Keys
  <1>5. \A h \in Chats :
          /\ pending[h] = "no"
          /\ h \in all <=> c.pending[h] # "no"
          /\ h \in all => asked[h] = c.pending[h]
          /\ h \notin all => asked[h] = c.asked[h]
          /\ postponed[h] <=> h \in changing \/ c.postponedEntry[h]
          /\ h \in changing <=> h \in all /\ Changing(c, h)
    OBVIOUS
  <1>6. entry \in Entries
    BY <1>2 DEF Entries, ReadType
  <1>7. entry.chats = all \ changing
    OBVIOUS
  <1> HIDE DEF entry, all, changing, pending, asked, postponed
  <1>8. c.posted - 1 \in Nat
    BY <1>1, <1>3
  <1>9. /\ d \in Clients /\ SameRequests(c, d) /\ SameMarks(c, d) /\ SameTimes(c, d)
        /\ d.pending = pending /\ d.asked = asked /\ d.postponedEntry = postponed
    BY <1>2, <1>4, <1>8 DEF Clients, SameRequests, SameMarks, SameTimes
  <1> HIDE DEF d
  <1>10. d.requests = c.requests /\ d.made = c.made
    BY <1>9 DEF SameRequests
  <1>11. \A h : Changing(d, h) <=> Changing(c, h)
    BY <1>10, SameSets
  <1>12. \A h \in Chats :
           /\ c.postponedEntry[h] <=> c.asked[h] # "no" /\ Changing(c, h)
           /\ c.pending[h] # "no" => c.asked[h] = "no"
    BY <1>2 DEF EntriesMarked
  <1>13. EntriesMarked(d)
    BY <1>5, <1>9, <1>11, <1>12 DEF EntriesMarked
  <1>14. Good(d) /\ MarksKept(d) /\ TimerRuns(d)
    <2>1. RequestsMade(d) /\ DeletionsAlone(d)
      BY <1>2, <1>9, SameRequestsKeep DEF Good
    <2>2. MarksInOrder(d) /\ MarksKept(d)
      BY <1>2, <1>9, <1>10, SameMarksKeep DEF Good
    <2>3. TimerRuns(d)
      BY <1>2, <1>9 DEF TimerRuns, SameMarks, SameTimes
    <2> QED
      BY <1>9, <1>13, <2>1, <2>2, <2>3 DEF Good
  <1>15. Needs(d) <= MaxRequests
    <2>1. Marked(d) = Marked(c)
      BY <1>9 DEF Marked, SameMarks
    <2>2. Waiters(d) \subseteq Waiters(c)
      BY <1>5, <1>9 DEF Waiters
    <2>3. Needs(d) <= Needs(c)
      BY <1>2, <1>9, <1>10, <2>1, <2>2, FewerNeeds
    <2> QED
      BY <1>2, <1>9, <2>3, NeedsBounded
  <1>16. ClientInv(d)
    BY <1>14, <1>15 DEF ClientInv
  <1>17. client' = d /\ read' = read
    BY <1>1 DEF Becomes
  <1>18. ServedRight' /\ NoDeletedMessageReturns' /\ served' \in [Ids -> Results]
    <2>1. /\ served' = [id \in Ids |-> IF d.requests[id].at = "sent"
                                       THEN served[id] ELSE "none"]
          /\ old' = {id \in old : d.requests[id].at = "sent"}
      BY <1>1 DEF Becomes
    <2>2. served \in [Ids -> Results] /\ ServedRight /\ old = {}
      BY DEF Inv, OtherTypes, NoDeletedMessageReturns
    <2>3. ServedRight'
      BY <1>10, <1>17, <2>1, <2>2 DEF ServedRight
    <2>4. served' \in [Ids -> Results] /\ old' = {}
      BY <2>1, <2>2 DEF Results
    <2> QED
      BY <2>3, <2>4 DEF NoDeletedMessageReturns
  <1>19. ClientInv(client)'
    BY <1>16, <1>17 DEF ClientInv, Good, RequestsMade, DeletionsAlone, EntriesMarked,
                        MarksInOrder, MarksKept, TimerRuns, Needs, Marked, Waiters
  <1>20. entries \in Seq(Entries) /\ EntriesCome
    BY DEF Inv, OtherTypes
  <1>21. entries' \in Seq(Entries)
    BY <1>1, <1>6, <1>20
  <1>22. /\ \A i \in DOMAIN entries : i \in DOMAIN entries' /\ entries'[i] = entries[i]
         /\ all # {} => \E i \in DOMAIN entries' : entries'[i] = entry
    <2>1. CASE all = {}
      BY <1>1, <2>1
    <2>2. CASE all # {}
      <3>1. entries' = Append(entries, entry)
        BY <1>1, <2>2
      <3>2. /\ Len(entries') = Len(entries) + 1 /\ Len(entries) \in Nat
            /\ DOMAIN entries = 1 .. Len(entries)
            /\ DOMAIN entries' = 1 .. Len(entries')
            /\ entries'[Len(entries) + 1] = entry
            /\ \A i \in 1 .. Len(entries) : entries'[i] = entries[i]
        BY <1>6, <1>20, <3>1
      <3> QED
        BY <3>2
    <2> QED
      BY <2>1, <2>2
  <1>23. EntriesCome'
    <2> SUFFICES ASSUME NEW h \in Chats, d.asked[h] # "no", ~d.postponedEntry[h]
                 PROVE  \E i \in DOMAIN entries' : h \in entries'[i].chats
      BY <1>17 DEF EntriesCome
    <2>1. CASE h \in all
      <3>1. h \in all \ changing
        BY <1>5, <1>9, <2>1
      <3> QED
        BY <1>7, <1>22, <3>1
    <2>2. CASE h \notin all
      <3>1. c.asked[h] # "no" /\ ~c.postponedEntry[h]
        BY <1>5, <1>9, <2>2
      <3>2. PICK i \in DOMAIN entries : h \in entries[i].chats
        BY <1>20, <3>1 DEF EntriesCome
      <3> QED
        BY <1>22, <3>2
    <2> QED
      BY <2>1, <2>2
  <1>24. OtherTypes'
    BY <1>1, <1>18, <1>21 DEF Inv, OtherTypes, ReadType
  <1> QED
    BY <1>18, <1>19, <1>23, <1>24 DEF Inv

-----------------------------------------------------------------------------
(* The server.                                                             *)

(* The server's marks only grow, and what was kept is kept.                *)
LEMMA ReadGrows ==
  ASSUME Inv, client' = client, read' \in [Chats -> 0 .. MaxId],
         \A h \in Chats : read'[h] >= read[h]
  PROVE  ClientInv(client)'
  <1>1. ClientInv(client) /\ client \in Clients /\ read \in [Chats -> 0 .. MaxId]
    BY InvFacts DEF ReadType
  <1>2. \A h \in Chats : /\ read[h] \in Nat /\ read'[h] \in Nat
                         /\ client.wanted[h] \in Nat
    BY <1>1, MarkType, BoundsAssumption
  <1>3. \A h \in Chats : client.wanted[h] > read'[h] => client.wanted[h] > read[h]
    BY <1>2
  <1>4. MarksKept(client)'
    BY <1>1, <1>3 DEF ClientInv, MarksKept
  <1>5. Good(client)' /\ TimerRuns(client)' /\ (Needs(client) <= MaxRequests)'
    BY <1>1 DEF ClientInv, Good, RequestsMade, DeletionsAlone, EntriesMarked,
                MarksInOrder, TimerRuns, Needs, Marked, Waiters
  <1> QED
    BY <1>4, <1>5 DEF ClientInv

LEMMA LargerIs ==
  ASSUME NEW a \in Nat, NEW b \in Nat
  PROVE  /\ Larger(a, b) >= a /\ Larger(a, b) >= b
         /\ Larger(a, b) \in {a, b}
  BY DEF Larger

LEMMA ExecuteKeeps ==
  ASSUME Inv, NEW id \in Ids, Execute(id) PROVE Inv'
  <1> DEFINE request == client.requests[id]
             h == request.chat
             till == request.till
  <1>1. PICK result \in IF Deletes(id) THEN {"done", "more", "channel"} ELSE {"done"} :
          served' = [served EXCEPT ![id] = result]
    BY DEF Execute, Serve
  <1>2. /\ UNCHANGED <<client, entries, readUpdates, wishes>>
        /\ request.at = "sent" /\ served[id] = "none"
        /\ read' = [read EXCEPT ![h] = Larger(@, till)]
        /\ old' = IF Deletes(id)
                  THEN old \cup {i \in Of(client, h, {"sent"}) :
                                   /\ client.requests[i].type = "History"
                                   /\ served[i] # "none"}
                  ELSE old
    BY DEF Execute, Serve, Waits
  <1>3. /\ client \in Clients /\ Good(client) /\ read \in [Chats -> 0 .. MaxId]
        /\ served \in [Ids -> Results] /\ ServedRight /\ old = {}
    BY InvFacts DEF Inv, OtherTypes, NoDeletedMessageReturns, ReadType
  <1>4. h \in Chats /\ till \in 0 .. MaxId /\ till \in Nat
    BY <1>2, <1>3, RequestType
  <1>5. old' = {}
    <2>1. CASE Deletes(id)
      <3>1. Deleting(client, h)
        BY <1>2, <1>4, <2>1 DEF Deletes, Deleting, Sent, Of
      <3>2. \A i \in Sent(client, h) : client.requests[i].type # "History"
        BY <1>3, <1>4, <3>1 DEF Good, DeletionsAlone
      <3>3. \A i \in Of(client, h, {"sent"}) : i \in Sent(client, h)
        BY DEF Sent, Of
      <3> QED
        BY <1>2, <1>3, <2>1, <3>2, <3>3
    <2>2. CASE ~Deletes(id)
      BY <1>2, <1>3, <2>2
    <2> QED
      BY <2>1, <2>2
  <1> HIDE DEF h, till
  <1>6. \A g \in Chats : read[g] \in Nat /\ read[g] <= MaxId
    BY <1>3, BoundsAssumption
  <1>7. /\ Larger(read[h], till) \in 0 .. MaxId
        /\ Larger(read[h], till) >= read[h] /\ Larger(read[h], till) >= till
    <2>1. read[h] \in Nat
      BY <1>4, <1>6
    <2>2. /\ Larger(read[h], till) >= read[h] /\ Larger(read[h], till) >= till
          /\ Larger(read[h], till) \in {read[h], till}
      BY <1>4, <2>1, LargerIs
    <2>3. read[h] \in 0 .. MaxId
      BY <1>3, <1>4
    <2> QED
      BY <1>4, <2>2, <2>3
  <1>8. /\ read' \in [Chats -> 0 .. MaxId] /\ read'[h] >= till
        /\ \A g \in Chats : read'[g] >= read[g] /\ read'[g] \in Nat /\ read[g] \in Nat
    BY <1>2, <1>3, <1>4, <1>6, <1>7, BoundsAssumption
  <1>9. ClientInv(client)'
    BY <1>2, <1>8, ReadGrows
  <1>10. result \in Results /\ served' \in [Ids -> Results]
    BY <1>1, <1>3 DEF Results
  <1>11. ServedRight'
    <2> SUFFICES ASSUME NEW i \in Ids, served'[i] # "none"
                 PROVE  /\ client.requests[i].at = "sent"
                        /\ served'[i] = "done" =>
                             read'[client.requests[i].chat] >= client.requests[i].till
                        /\ served'[i] \in {"channel", "more"} =>
                             client.requests[i].type = "Delete"
                        /\ client.requests[i].type = "ReadInbox" =>
                             served'[i] \in {"done", "failed"}
      BY <1>2 DEF ServedRight
    <2>1. CASE i = id
      <3>1. served'[i] = result
        BY <1>1, <1>3, <2>1
      <3>2. /\ result \in {"channel", "more"} => client.requests[id].type = "Delete"
            /\ client.requests[id].type = "ReadInbox" => result = "done"
        BY <1>1 DEF Deletes
      <3> QED
        BY <1>2, <1>8, <2>1, <3>1, <3>2 DEF h, till
    <2>2. CASE i # id
      <3>1. served'[i] = served[i]
        BY <1>1, <1>3, <2>2
      <3>2. /\ client.requests[i].at = "sent"
            /\ served[i] = "done" =>
                 read[client.requests[i].chat] >= client.requests[i].till
            /\ served[i] \in {"channel", "more"} =>
                 client.requests[i].type = "Delete"
            /\ client.requests[i].type = "ReadInbox" => served[i] \in {"done", "failed"}
        BY <1>3, <3>1 DEF ServedRight
      <3>3. client.requests[i].chat \in Chats /\ client.requests[i].till \in Nat
        BY <1>3, <3>2, RequestType
      <3>4. read[client.requests[i].chat] >= client.requests[i].till =>
              read'[client.requests[i].chat] >= client.requests[i].till
        BY <1>8, <3>3
      <3> QED
        BY <3>1, <3>2, <3>4
    <2> QED
      BY <2>1, <2>2
  <1>12. OtherTypes' /\ EntriesCome'
    BY <1>2, <1>8, <1>10 DEF Inv, OtherTypes, ReadType, EntriesCome
  <1> QED
    BY <1>5, <1>9, <1>11, <1>12 DEF Inv, NoDeletedMessageReturns

LEMMA RefuseKeeps ==
  ASSUME Inv, NEW id \in Ids, Refuse(id) PROVE Inv'
  <1>1. PICK result \in IF Deletes(id) THEN {"failed", "channel"} ELSE {"failed"} :
          served' = [served EXCEPT ![id] = result]
    BY DEF Refuse, Serve
  <1>2. /\ UNCHANGED <<client, entries, readUpdates, wishes, read, old>>
        /\ client.requests[id].at = "sent"
    BY DEF Refuse, Serve, Waits
  <1>3. served \in [Ids -> Results] /\ ServedRight
    BY DEF Inv, OtherTypes
  <1>4. /\ result \in Results /\ result # "done"
        /\ result \in {"channel", "more"} => client.requests[id].type = "Delete"
        /\ client.requests[id].type = "ReadInbox" => result = "failed"
    BY <1>1 DEF Deletes, Results
  <1>5. served' \in [Ids -> Results]
    BY <1>1, <1>3, <1>4
  <1>6. ServedRight'
    <2>1. \A i \in Ids : served'[i] = IF i = id THEN result ELSE served[i]
      BY <1>1, <1>3
    <2> QED
      BY <1>2, <1>3, <1>4, <2>1 DEF ServedRight
  <1>7. ClientInv(client)'
    BY <1>2 DEF Inv, ClientInv, Good, RequestsMade, DeletionsAlone, EntriesMarked,
                MarksInOrder, MarksKept, TimerRuns, Needs, Marked, Waiters
  <1> QED
    BY <1>2, <1>5, <1>6, <1>7
       DEF Inv, OtherTypes, ReadType, EntriesCome, NoDeletedMessageReturns

LEMMA ExecuteEntryKeeps ==
  ASSUME Inv, NEW i \in DOMAIN entries, ExecuteEntry(i) PROVE Inv'
  <1>1. PICK result \in {"done", "failed"} :
          entries' = [entries EXCEPT ![i].result = result, ![i].read = read]
    BY DEF ExecuteEntry
  <1>2. UNCHANGED <<client, served, old, read, readUpdates, wishes>>
    BY DEF ExecuteEntry
  <1>3. entries \in Seq(Entries) /\ read \in [Chats -> 0 .. MaxId] /\ EntriesCome
    BY DEF Inv, OtherTypes, ReadType
  <1>4. entries[i] \in Entries
    BY <1>3
  <1> DEFINE entry == [[entries[i] EXCEPT !.result = result] EXCEPT !.read = read]
  <1>5. entry \in Entries /\ entry.chats = entries[i].chats
    BY <1>3, <1>4 DEF Entries
  <1>6. entries' = [entries EXCEPT ![i] = entry]
    BY <1>1, <1>3
  <1> HIDE DEF entry
  <1>7. /\ entries' \in Seq(Entries) /\ DOMAIN entries' = DOMAIN entries
        /\ \A j \in DOMAIN entries : entries'[j].chats = entries[j].chats
    BY <1>3, <1>5, <1>6
  <1>8. EntriesCome'
    BY <1>2, <1>3, <1>7 DEF EntriesCome
  <1>9. ClientInv(client)'
    BY <1>2 DEF Inv, ClientInv, Good, RequestsMade, DeletionsAlone, EntriesMarked,
                MarksInOrder, MarksKept, TimerRuns, Needs, Marked, Waiters
  <1> QED
    BY <1>2, <1>7, <1>8, <1>9
       DEF Inv, OtherTypes, ReadType, ServedRight, NoDeletedMessageReturns

LEMMA ReadElsewhereKeeps ==
  ASSUME Inv, NEW h \in Chats, ReadElsewhere(h) PROVE Inv'
  <1>1. PICK till \in read[h] + 1 .. MaxId :
          /\ read' = [read EXCEPT ![h] = till]
          /\ readUpdates' = readUpdates \cup {<<h, till>>}
    BY DEF ReadElsewhere
  <1>2. /\ UNCHANGED <<client, entries, served, old>>
        /\ wishes < MaxWishes /\ wishes' = wishes + 1
    BY DEF ReadElsewhere
  <1>3. /\ read \in [Chats -> 0 .. MaxId] /\ client \in Clients /\ Good(client)
        /\ ServedRight
    BY InvFacts DEF ReadType, Inv
  <1>4. \A g \in Chats : read[g] \in Nat
    BY <1>3, BoundsAssumption
  <1>5. till \in 1 .. MaxId /\ till \in 0 .. MaxId /\ till \in Nat /\ till >= read[h]
    BY <1>4, BoundsAssumption
  <1>6. /\ read' \in [Chats -> 0 .. MaxId]
        /\ \A g \in Chats : read'[g] >= read[g] /\ read'[g] \in Nat
    BY <1>1, <1>3, <1>4, <1>5
  <1>7. ClientInv(client)'
    BY <1>2, <1>6, ReadGrows
  <1>8. ServedRight'
    <2>1. \A i \in Ids : client.requests[i].at # "none" =>
            /\ client.requests[i].chat \in Chats /\ client.requests[i].till \in Nat
      BY <1>3, RequestType
    <2>2. \A i \in Ids : client.requests[i].at # "none" =>
            (read[client.requests[i].chat] >= client.requests[i].till =>
               read'[client.requests[i].chat] >= client.requests[i].till)
      BY <1>4, <1>6, <2>1
    <2> QED
      BY <1>2, <1>3, <2>2 DEF ServedRight
  <1>9. readUpdates' \subseteq Chats \X (1 .. MaxId)
    BY <1>1, <1>5 DEF Inv, OtherTypes
  <1>10. wishes' \in 0 .. MaxWishes
    BY <1>2, BoundsAssumption DEF Inv, OtherTypes
  <1> QED
    BY <1>2, <1>6, <1>7, <1>8, <1>9, <1>10
       DEF Inv, OtherTypes, ReadType, EntriesCome, NoDeletedMessageReturns

-----------------------------------------------------------------------------
(* Answers and updates.                                                    *)

(* deleteAllMessages: what is left over is deleted, what was is finished.  *)
LEMMA DeletedInv ==
  ASSUME ReadType, NEW c, ClientInv(c), NEW id \in Ids,
         c.requests[id].at # "none", c.requests[id].type # "ReadInbox",
         NEW more \in BOOLEAN,
         more => c.requests[id].type = "Delete" /\ Needs(c) < MaxRequests,
         NEW d, d = Deleted(c, id, more)
  PROVE  ClientInv(d) /\ Step(c, d)
  <1> DEFINE a == SendRequest(c, c.requests[id].chat, "Delete", 0)
  <1>1. c \in Clients /\ RequestsMade(c) /\ c.requests[id].chat \in Chats
    BY RequestType DEF ClientInv, Good
  <1>2. CASE more
    <2>1. d = FinishRequest(a, id)
      BY <1>2 DEF Deleted
    <2>2. /\ Needs(c) < MaxRequests /\ c.requests[id].type = "Delete"
      BY <1>2
    <2>3. /\ ClientInv(a) /\ Step(c, a)
          /\ \A i \in Ids : c.requests[i].at # "none" /\ c.requests[i].type # "History"
               => a.requests[i] = c.requests[i]
      BY <1>1, <2>2, SendRequestInv
    <2> HIDE DEF a
    <2>4. a.requests[id] = c.requests[id]
      BY <2>2, <2>3
    <2>5. ClientInv(d) /\ Step(a, d)
      BY <2>1, <2>3, <2>4, FinishRequestInv
    <2>6. Step(c, d)
      BY <1>1, <2>3, <2>5, StepTrans DEF ClientInv, Good
    <2> QED
      BY <2>5, <2>6
  <1>3. CASE ~more
    <2>1. d = FinishRequest(c, id)
      BY <1>3 DEF Deleted
    <2> QED
      BY <2>1, FinishRequestInv
  <1> QED
    BY <1>2, <1>3

LEMMA AnswerRequestKeeps ==
  ASSUME Inv, NEW id \in Ids, AnswerRequest(id) PROVE Inv'
  <1> DEFINE request == client.requests[id]
             h == request.chat
  <1>1. served[id] # "none" /\ Asks
    BY DEF AnswerRequest
  <1>2. /\ request.at = "sent" /\ served[id] \in Results
        /\ served[id] = "done" => read[h] >= request.till
        /\ served[id] \in {"channel", "more"} => request.type = "Delete"
        /\ request.type = "ReadInbox" => served[id] \in {"done", "failed"}
    BY <1>1 DEF Inv, OtherTypes, ServedRight
  <1>3. ReadType /\ ClientInv(client) /\ (Room => Needs(client) < MaxRequests)
    BY InvFacts
  <1>4. CASE request.type = "ReadInbox"
    <2>1. PICK due \in SUBSET Later :
            Becomes([ReadAnswered(client, id, due) EXCEPT
                       !.wanted[h] = IF served[id] = "failed" /\ @ = request.till
                                     THEN 0 ELSE @])
      <3>1. served[id] # "channel"
        BY <1>2, <1>4
      <3> QED
        BY <1>4, <3>1 DEF AnswerRequest
    <2> DEFINE failed == served[id] = "failed"
               d == [ReadAnswered(client, id, due) EXCEPT
                       !.wanted[client.requests[id].chat] =
                          IF failed /\ @ = client.requests[id].till THEN 0 ELSE @]
    <2>2. Becomes(d)
      BY <2>1
    <2>3. failed \in BOOLEAN /\ (~failed => read[h] >= request.till)
      BY <1>2, <1>4
    <2> HIDE DEF failed
    <2>4. ClientInv(d) /\ Step(client, d)
      BY <1>2, <1>3, <1>4, <2>3, ReadAnsweredIs
    <2> HIDE DEF d
    <2> QED
      BY <1>1, <2>2, <2>4, AsksKeeps, HandlerKeepsInv
  <1>5. CASE request.type # "ReadInbox" /\ served[id] = "channel"
    <2> DEFINE d == Put(client, {id}, "left")
    <2>1. Becomes(d)
      BY <1>5 DEF AnswerRequest
    <2>2. ClientInv(d) /\ Step(client, d)
      BY <1>2, <1>3, <1>5, LeftInv
    <2> HIDE DEF d
    <2> QED
      BY <1>1, <2>1, <2>2, AsksKeeps, HandlerKeepsInv
  <1>6. CASE request.type # "ReadInbox" /\ served[id] # "channel"
    <2> DEFINE more == served[id] = "more" /\ Room
               d == Deleted(client, id, more)
    <2>1. Becomes(d)
      BY <1>6 DEF AnswerRequest
    <2>2. /\ more \in BOOLEAN
          /\ more => client.requests[id].type = "Delete" /\ Needs(client) < MaxRequests
      BY <1>2, <1>3
    <2> HIDE DEF more
    <2>3. client.requests[id].at # "none" /\ client.requests[id].type # "ReadInbox"
      BY <1>2, <1>6
    <2>4. ClientInv(d) /\ Step(client, d)
      BY <1>3, <2>2, <2>3, DeletedInv
    <2> HIDE DEF d
    <2> QED
      BY <1>1, <2>1, <2>4, AsksKeeps, HandlerKeepsInv
  <1> QED
    BY <1>4, <1>5, <1>6

(* What is left of a sequence when one element of it is taken out.         *)
LEMMA RemoveAtIs ==
  ASSUME NEW S, NEW s \in Seq(S), NEW i \in DOMAIN s
  PROVE  /\ RemoveAt(s, i) \in Seq(S)
         /\ \A j \in DOMAIN s : j # i =>
              \E k \in DOMAIN RemoveAt(s, i) : RemoveAt(s, i)[k] = s[j]
  <1> DEFINE r == RemoveAt(s, i)
             a == SubSeq(s, 1, i - 1)
             b == SubSeq(s, i + 1, Len(s))
  <1>1. Len(s) \in Nat /\ DOMAIN s = 1 .. Len(s) /\ i \in 1 .. Len(s)
    OBVIOUS
  <1>2. /\ a \in Seq(S) /\ Len(a) = i - 1
        /\ \A k \in 1 .. i - 1 : a[k] = s[k]
    BY <1>1
  <1>3. /\ b \in Seq(S) /\ Len(b) = Len(s) - i
        /\ \A k \in 1 .. Len(s) - i : b[k] = s[i + k]
    BY <1>1
  <1>4. r = a \o b
    BY DEF RemoveAt
  <1> HIDE DEF a, b, r
  <1>5. /\ r \in Seq(S) /\ Len(r) = Len(s) - 1 /\ DOMAIN r = 1 .. Len(s) - 1
        /\ \A k \in 1 .. i - 1 : r[k] = a[k]
        /\ \A k \in 1 .. Len(s) - i : r[i - 1 + k] = b[k]
    <2>1. r \in Seq(S) /\ Len(r) = Len(a) + Len(b)
      <3>1. a \in Seq(S) /\ b \in Seq(S) /\ r = a \o b
        BY <1>2, <1>3, <1>4
      <3> QED
        BY ONLY <3>1
    <2>2. Len(r) = Len(s) - 1 /\ Len(r) \in Nat
      BY <1>1, <1>2, <1>3, <2>1
    <2>3. DOMAIN r = 1 .. Len(r)
      BY <2>1
    <2>4. \A k \in 1 .. Len(r) : r[k] = IF k <= Len(a) THEN a[k] ELSE b[k - Len(a)]
      BY <1>2, <1>3, <1>4, <2>1
    <2>5. \A k \in 1 .. i - 1 : k \in 1 .. Len(r) /\ k <= Len(a)
      BY <1>1, <1>2, <2>2
    <2>6. \A k \in 1 .. Len(s) - i :
            /\ i - 1 + k \in 1 .. Len(r) /\ ~(i - 1 + k <= Len(a))
            /\ i - 1 + k - Len(a) = k
      BY <1>1, <1>2, <2>2
    <2> QED
      BY SMTT(30), <2>1, <2>2, <2>3, <2>4, <2>5, <2>6
  <1>6. ASSUME NEW j \in DOMAIN s, j # i
        PROVE  \E k \in DOMAIN r : r[k] = s[j]
    <2>1. CASE j < i
      <3>1. j \in 1 .. i - 1 /\ j \in 1 .. Len(s) - 1
        BY <1>1, <2>1
      <3> QED
        BY <1>2, <1>5, <3>1
    <2>2. CASE j > i
      <3>1. /\ j - i \in 1 .. Len(s) - i /\ i + (j - i) = j
            /\ (i - 1) + (j - i) = j - 1 /\ j - 1 \in 1 .. Len(s) - 1
        BY <1>1, <2>2
      <3>2. r[j - 1] = b[j - i] /\ b[j - i] = s[j]
        BY <1>2, <1>3, <1>5, <3>1
      <3> QED
        BY <1>5, <3>1, <3>2
    <2> QED
      BY <1>1, <1>6, <2>1, <2>2
  <1> QED
    BY <1>5, <1>6 DEF r

(* dialogsLoaded: the chats of the answer are not asked for any more, or   *)
(* are to be asked for again; the others come with another answer.         *)
LEMMA AnswerEntryKeeps ==
  ASSUME Inv, NEW i \in DOMAIN entries, AnswerEntry(i) PROVE Inv'
  <1>1. PICK still \in Stills, due \in SUBSET Later :
          Becomes(EntriesAnswered(client, entries[i], still, due))
    BY DEF AnswerEntry
  <1> DEFINE d == EntriesAnswered(client, entries[i], still, due)
  <1>2. entries' = RemoveAt(entries, i) /\ UNCHANGED <<read, readUpdates, wishes>>
    BY DEF AnswerEntry
  <1>3. ReadType /\ ClientInv(client) /\ entries \in Seq(Entries) /\ EntriesCome
    BY InvFacts DEF Inv, OtherTypes
  <1>4. entries[i] \in Entries
    BY <1>3
  <1>5. AppliedOf(client, entries[i].chats, d)
    BY <1>3, <1>4, EntriesAnsweredIs
  <1>6. Becomes(d)
    BY <1>1
  <1> HIDE DEF d
  <1>7. /\ ClientInv(d) /\ Step(client, d) /\ d \in Clients
        /\ \A g \in entries[i].chats : d.asked[g] = "no" \/ d.postponedEntry[g]
    BY <1>5 DEF AppliedOf, ClientInv, Good
  <1>8. client' = d /\ read' = read
    BY <1>2, <1>6 DEF Becomes
  <1>9. ServedRight' /\ NoDeletedMessageReturns' /\ served' \in [Ids -> Results]
    BY <1>6, <1>7, <1>8, ServedStay
  <1>10. ClientInv(client)'
    BY <1>7, <1>8 DEF ClientInv, Good, RequestsMade, DeletionsAlone, EntriesMarked,
                      MarksInOrder, MarksKept, TimerRuns, Needs, Marked, Waiters
  <1>11. /\ entries' \in Seq(Entries)
         /\ \A j \in DOMAIN entries : j # i =>
              \E k \in DOMAIN entries' : entries'[k] = entries[j]
    BY <1>2, <1>3, RemoveAtIs
  <1>12. EntriesCome'
    <2> SUFFICES ASSUME NEW h \in Chats, d.asked[h] # "no", ~d.postponedEntry[h]
                 PROVE  \E k \in DOMAIN entries' : h \in entries'[k].chats
      BY <1>8 DEF EntriesCome
    <2>1. client.asked[h] # "no" /\ ~client.postponedEntry[h]
      BY <1>7 DEF Step
    <2>2. PICK j \in DOMAIN entries : h \in entries[j].chats
      BY <1>3, <2>1 DEF EntriesCome
    <2>3. j # i
      BY <1>7, <2>2
    <2> QED
      BY <1>11, <2>2, <2>3
  <1>13. OtherTypes'
    BY <1>2, <1>9, <1>11 DEF Inv, OtherTypes, ReadType
  <1> QED
    BY <1>9, <1>10, <1>12, <1>13 DEF Inv

LEMMA UpdateReadInboxKeeps ==
  ASSUME Inv, NEW h \in Chats, NEW till \in 1 .. MaxId, UpdateReadInbox(h, till)
  PROVE  Inv'
  <1>1. PICK counted \in BOOLEAN :
          Becomes(IF client.readTill[h] >= till THEN client
                  ELSE IF counted THEN Show(client, h, till)
                  ELSE MarkRead(RequestEntry(client, h, FALSE), h, till))
    BY DEF UpdateReadInbox
  <1> DEFINE c == RequestEntry(client, h, FALSE)
             d == IF client.readTill[h] >= till THEN client
                  ELSE IF counted THEN Show(client, h, till)
                  ELSE MarkRead(c, h, till)
  <1>2. /\ UNCHANGED <<entries, read, wishes>> /\ readUpdates' \subseteq readUpdates
        /\ wishes' \in 0 .. MaxWishes
    BY DEF UpdateReadInbox, Inv, OtherTypes
  <1>3. /\ ClientInv(client) /\ Good(client) /\ client \in Clients
        /\ RequestsMade(client) /\ client.made \in Nat
    BY InvFacts DEF Good, Clients
  <1>4. till \in 0 .. MaxId
    BY BoundsAssumption
  <1>5. ClientInv(c) /\ Step(client, c)
    BY <1>3, RequestEntryInv
  <1>6. CASE client.readTill[h] >= till
    <2>1. d = client
      BY <1>6
    <2>2. Step(client, client)
      BY <1>3 DEF Step
    <2> QED
      BY <1>1, <1>2, <1>3, <1>6, <2>2, HandlerKeepsInv
  <1>7. CASE ~(client.readTill[h] >= till) /\ counted
    <2> DEFINE e == Show(client, h, till)
    <2>1. ReadOn(client, e) /\ Becomes(e)
      BY <1>1, <1>3, <1>4, <1>7, MarkReadIs
    <2> HIDE DEF e
    <2>2. ClientInv(e) /\ Step(client, e)
      BY <1>3, <2>1, ReadOnInv, ReadOnKeeps
    <2> QED
      BY <1>2, <2>1, <2>2, HandlerKeepsInv
  <1>8. CASE ~(client.readTill[h] >= till) /\ ~counted
    <2> DEFINE e == MarkRead(c, h, till)
    <2>1. Becomes(e)
      BY <1>1, <1>8
    <2> HIDE DEF c
    <2>2. Good(c) /\ c \in Clients
      BY <1>5 DEF ClientInv, Good
    <2>3. ReadOn(c, e)
      BY <1>4, <2>2, MarkReadIs
    <2> HIDE DEF e
    <2>4. ClientInv(e) /\ Step(c, e) /\ e \in Clients
      BY <1>5, <2>2, <2>3, ReadOnInv, ReadOnKeeps DEF ReadOn
    <2>5. Step(client, e)
      BY <1>3, <1>5, <2>2, <2>4, StepTrans
    <2> QED
      BY <1>2, <2>1, <2>4, <2>5, HandlerKeepsInv
  <1> QED
    BY <1>6, <1>7, <1>8

-----------------------------------------------------------------------------
(* The invariant, and what follows from it.                                *)

LEMMA NextKeeps ==
  ASSUME Inv, [Next]_vars PROVE Inv'
  <1>1. CASE Program
    BY <1>1, AskForEntryKeeps, ReadInboxKeeps, ReadInboxTillKeeps,
       SendPendingReadInboxKeeps, SendKeeps, CancelKeeps DEF Program
  <1>2. CASE Loop
    BY <1>2, SendDialogRequestsKeeps, ReadTimerKeeps DEF Loop
  <1>3. CASE Server
    BY <1>3, ExecuteKeeps, RefuseKeeps, ExecuteEntryKeeps DEF Server
  <1>4. CASE Network
    BY <1>4, AnswerRequestKeeps, AnswerEntryKeeps, UpdateReadInboxKeeps DEF Network
  <1>5. CASE \E h \in Chats : ReadElsewhere(h)
    BY <1>5, ReadElsewhereKeeps
  <1>6. CASE UNCHANGED vars
    BY <1>6 DEF vars, Inv, ClientInv, Good, RequestsMade, DeletionsAlone,
                EntriesMarked, MarksInOrder, MarksKept, TimerRuns, Needs, Marked,
                Waiters, OtherTypes, ReadType, EntriesCome, ServedRight,
                NoDeletedMessageReturns
  <1> QED
    BY <1>1, <1>2, <1>3, <1>4, <1>5, <1>6 DEF Next

(* The inductive invariant holds in every state of class Histories: the    *)
(* requests, entries and marks of its maps are as Good says, each mark and *)
(* callback that waits can still send its request, and the answers of the  *)
(* server are those of requests under way.                                 *)
THEOREM InvCorrect == Spec => []Inv
  <1>1. Init => Inv
    BY InitKeeps
  <1>2. Inv /\ [Next]_vars => Inv'
    BY NextKeeps
  <1> QED
    BY <1>1, <1>2, PTL DEF Spec

(* The types of Histories: with a place in store for each mark and each    *)
(* callback that waits, no handler sends more requests than the bound lets *)
(* it, so sendRequest always has an id for the next one.                   *)
THEOREM TypeCorrect == Spec => []TypeOK
  <1>1. ASSUME Inv PROVE TypeOK
    <2>1. /\ client \in Clients /\ Needs(client) <= MaxRequests
          /\ NoDeletedMessageReturns /\ OtherTypes
      BY <1>1, InvFacts DEF Inv
    <2>2. client.made \in 0 .. MaxRequests
      <3>1. /\ client.made \in Nat /\ Needs(client) \in Nat
            /\ client.made <= Needs(client) /\ MaxRequests \in Nat
        BY <2>1, NeedsType, BoundsAssumption
      <3> QED
        BY <2>1, <3>1
    <2> QED
      BY <2>1, <2>2 DEF TypeOK, Clients, OtherTypes, ReadType, NoDeletedMessageReturns
  <1> QED
    BY <1>1, InvCorrect, PTL

(* postponeHistoryRequest: no answer about the messages of a chat that was *)
(* made before a deletion arrives once the deletion is executed.           *)
THEOREM DeletedStayDeleted == Spec => []NoDeletedMessageReturns
  <1>1. Inv => NoDeletedMessageReturns
    BY DEF Inv
  <1> QED
    BY <1>1, InvCorrect, PTL

(* sendDialogRequests, dialogEntryApplied and finishSentRequest: no chat   *)
(* stays in _dialogRequests, _dialogRequestsPending or among the postponed *)
(* requests without something that will take it out.                       *)
THEOREM NothingStranded == Spec => []NothingIsStranded
  <1>1. Inv => NothingIsStranded
    BY DEF Inv, ClientInv, Good, EntriesMarked, DeletionsAlone, EntriesCome,
           NothingIsStranded
  <1> QED
    BY <1>1, InvCorrect, PTL

(* readInboxTill, sendReadRequests and sendReadRequest: what was read is   *)
(* not forgotten before the server knows of it or refuses it.              *)
THEOREM ReadKept == Spec => []ReadIsOnItsWay
  <1>1. Inv => ReadIsOnItsWay
    BY DEF Inv, ClientInv, MarksKept, TimerRuns, ReadIsOnItsWay
  <1> QED
    BY <1>1, InvCorrect, PTL

(* sendReadRequest: the marks of a chat only advance, and the one sent     *)
(* last is the largest while any is under way.                             *)
THEOREM ReadsAdvance == Spec => []ReadsOnlyAdvance
  <1>1. ASSUME Inv PROVE ReadsOnlyAdvance
    <2>1. client \in Clients /\ MarksInOrder(client)
      BY <1>1, InvFacts DEF Good
    <2>2. \A h \in Chats : /\ client.sentReadTill[h] \in Nat
                           /\ client.willReadTill[h] \in Nat
      BY <2>1, MarkType
    <2>3. \A h \in Chats : \A id \in Sent(client, h) :
            client.requests[id].till \in Nat
      BY <2>1, SentType
    <2> QED
      BY <2>1, <2>2, <2>3 DEF MarksInOrder, ReadsOnlyAdvance
  <1> QED
    BY <1>1, InvCorrect, PTL

===============================================================================
