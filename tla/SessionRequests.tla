-------------------------- MODULE SessionRequests --------------------------
(***************************************************************************)
(* How the requests of one session reach the server and their answers come *)
(* back (mtproto/session.cpp, session_private.cpp and the registry of      *)
(* callbacks in mtp_instance.cpp).                                         *)
(*                                                                         *)
(* A request waits in _toSend, then in _haveSent under the id of the       *)
(* message it was sent in, from where restarts, rejected messages, new     *)
(* sessions and reports of what was received return it to _toSend.         *)
(*                                                                         *)
(* Session and Instance belong to the main thread, SessionPrivate to a     *)
(* thread of its own; they share SessionData, whose maps have locks, and   *)
(* the buffers of the requests, which have none.  A step of SessionPrivate *)
(* is a handler, or the part of it between two of those locks where the    *)
(* main thread's cancelling makes a difference.                            *)
(*                                                                         *)
(* Left out: pings, the acknowledgement and the repetition of answers, the *)
(* time until a salt is known (a connection is one with a salt), messages  *)
(* with a bad time, binding, invokeAfter, and requests without an answer.  *)
(***************************************************************************)
EXTENDS Naturals, FiniteSets, FiniteSetsExt, Sequences

CONSTANTS
    Requests,      \* numbers of requests
    MaxMsgId,      \* bound: how many messages are numbered
    BufferSize,    \* kIdsBufferSize: how many of _ackedIds are kept
    MayCut,        \* TRUE: what waits may exceed kCutContainerOnSize
    Cancellable,   \* the requests that the main thread may cancel
    MaxTroubles    \* bound: failures of the connection and of the server

ASSUME RequestsAssumption == Requests \subseteq Nat \ {0}
ASSUME BoundsAssumption == {MaxMsgId, BufferSize, MaxTroubles} \subseteq Nat
ASSUME FlagsAssumption == MayCut \in BOOLEAN

VARIABLES
    asked,           \* history: the requests that were made
    callbacks,       \* Instance::_parserMap: those that expect an answer
    delayed,         \* Instance::_delayedRequests
    cancelling,      \* the request being cancelled, and how far
    repeated,        \* history: the requests sent again after an error
    toSend,          \* SessionData::_toSend
    haveSent,        \* SessionData::_haveSent: ids of messages
    received,        \* SessionData::_receivedMessages
    msgId,           \* the id in each request's buffer
    forced,          \* forceSendInContainer
    connected,       \* _connection with a key and a salt
    started,         \* _sessionMarkedAsStarted
    taken,           \* the request tryToSend has taken out of _toSend
    resendingIds,    \* _resendingIds
    ackedIds,        \* _ackedIds
    sentContainers,  \* _sentContainers: the messages in each container
    stateData,       \* _stateRequestData
    stateRequests,   \* _stateAndResendRequests: what each asks about
    receivedIds,     \* _receivedMessageIds, of answers
    checkTimer,      \* _checkSentRequestsTimer
    lastId,          \* the last id given to a message
    owner,           \* history: the request sent in each message
    up,              \* messages on their way to the server
    down,            \* messages on their way to the client
    known,           \* what the server's session has done with each message
    epoch,           \* counts the server's sessions
    fresh,           \* no message has reached the server's session
    troubles         \* how many failures there were

mainVars == <<asked, callbacks, delayed, cancelling, repeated>>
idVars == <<resendingIds, ackedIds, sentContainers, stateRequests>>
sessionVars == <<started, stateData, receivedIds>>
historyVars == <<lastId, owner>>
serverVars == <<known, epoch, fresh, troubles>>
vars == <<mainVars, toSend, haveSent, received, msgId, forced, connected,
          sessionVars, taken, idVars, checkTimer, historyVars, up, down,
          serverVars>>

-----------------------------------------------------------------------------
Ids == 1 .. MaxMsgId
None == 0
Nobody == [request |-> None, msgId |-> None, next |-> "toSend"]
Nothing == [request |-> None, renew |-> FALSE]

Upward == [id : Ids, messages : SUBSET Ids, query : Ids \cup {None}]

Downward ==
    [type : {"result"}, id : Ids, epoch : Nat, result : {"done", "again"}]
      \cup [type : {"ack"}, id : Ids]
      \cup [type : {"bad"}, id : Ids, why : {"again", "session", "fatal"}]
      \cup [type : {"info"}, id : Ids, received : SUBSET Ids]
      \cup [type : {"session"}, first : Ids]

TypeOK ==
    /\ asked \subseteq Requests
    /\ callbacks \subseteq asked
    /\ delayed \subseteq callbacks
    /\ cancelling \in [request : Requests \cup {None}, msgId : Ids \cup {None},
                       next : {"toSend", "haveSent"}]
    /\ repeated \subseteq Requests
    /\ toSend \subseteq asked
    /\ haveSent \subseteq Ids
    /\ received \in Seq([request : Requests, result : {"done", "again"}])
    /\ msgId \in [Requests -> Ids \cup {None}]
    /\ forced \subseteq Requests
    /\ connected \in BOOLEAN
    /\ started \in BOOLEAN
    /\ taken \in [request : Requests \cup {None}, renew : BOOLEAN]
    /\ resendingIds \subseteq Ids /\ ackedIds \subseteq Ids
    /\ sentContainers \in [Ids -> SUBSET Ids]
    /\ stateData \subseteq Ids
    /\ stateRequests \in [Ids -> SUBSET Ids]
    /\ receivedIds \subseteq Ids \X Nat
    /\ checkTimer \in BOOLEAN
    /\ lastId \in Ids \cup {None}
    /\ owner \in [Ids -> Requests \cup {None}]
    /\ up \subseteq Upward /\ down \subseteq Downward
    /\ known \in [Ids -> {"no", "done", "again", "refused"}]
    /\ epoch \in Nat /\ fresh \in BOOLEAN /\ troubles \in Nat

Init ==
    /\ asked = {} /\ callbacks = {} /\ delayed = {} /\ cancelling = Nobody
    /\ repeated = {}
    /\ toSend = {} /\ haveSent = {} /\ received = <<>>
    /\ msgId = [r \in Requests |-> None]
    /\ forced = {}
    /\ connected = FALSE /\ started = FALSE
    /\ taken = Nothing
    /\ resendingIds = {} /\ ackedIds = {}
    /\ sentContainers = [c \in Ids |-> {}]
    /\ stateData = {} /\ receivedIds = {}
    /\ stateRequests = [m \in Ids |-> {}]
    /\ checkTimer = FALSE
    /\ lastId = None
    /\ owner = [m \in Ids |-> None]
    /\ up = {} /\ down = {}
    /\ known = [m \in Ids |-> "no"]
    /\ epoch = 0 /\ fresh = TRUE /\ troubles = 0

Trouble == troubles < MaxTroubles /\ troubles' = troubles + 1

Owners(ids) == {owner[m] : m \in ids} \ {None}

-----------------------------------------------------------------------------
(* The main thread.                                                        *)

MainIsFree == cancelling = Nobody

(* Session::sendPrepared: a request that waits already is not put there    *)
(* twice, but loses its number all the same.                               *)
SendPrepared(r) ==
    /\ toSend' = toSend \cup {r}
    /\ msgId' = [msgId EXCEPT ![r] = None]

(* Instance::sendRequest.                                                  *)
SendRequest(r) ==
    /\ MainIsFree
    /\ \A q \in asked : q < r
    /\ asked' = asked \cup {r}
    /\ callbacks' = callbacks \cup {r}
    /\ SendPrepared(r)
    /\ UNCHANGED <<delayed, cancelling, repeated, haveSent, received, forced,
                   connected, sessionVars, taken, idVars, checkTimer,
                   historyVars, up, down, serverVars>>

(* Mutant of Cancel: the delayed request is not forgotten.                 *)
CancelKeepsDelayed(r) ==
    /\ MainIsFree
    /\ r \in callbacks \cap Cancellable
    /\ cancelling' = [request |-> r, msgId |-> msgId[r], next |-> "toSend"]
    /\ UNCHANGED <<asked, callbacks, delayed, repeated, toSend, haveSent,
                   received, msgId, forced, connected, sessionVars, taken,
                   idVars, checkTimer, historyVars, up, down, serverVars>>

(* Instance::cancel reads the id in the request's buffer ...               *)
Cancel(r) ==
    /\ MainIsFree
    /\ r \in callbacks \cap Cancellable
    /\ cancelling' = [request |-> r, msgId |-> msgId[r], next |-> "toSend"]
    /\ delayed' = delayed \ {r}
    /\ UNCHANGED <<asked, callbacks, repeated, toSend, haveSent, received,
                   msgId, forced, connected, sessionVars, taken, idVars,
                   checkTimer, historyVars, up, down, serverVars>>

(* ... and Session::cancel looks for the request in one map ...            *)
CancelToSend ==
    /\ ~MainIsFree /\ cancelling.next = "toSend"
    /\ toSend' = toSend \ {cancelling.request}
    /\ cancelling' = [cancelling EXCEPT !.next = "haveSent"]
    /\ UNCHANGED <<asked, callbacks, delayed, repeated, haveSent, received,
                   msgId, forced, connected, sessionVars, taken, idVars,
                   checkTimer, historyVars, up, down, serverVars>>

(* ... and in the other, where it may have gone or come from by now.       *)
CancelHaveSent ==
    /\ ~MainIsFree /\ cancelling.next = "haveSent"
    /\ haveSent' = haveSent \ {cancelling.msgId}
    /\ callbacks' = callbacks \ {cancelling.request}
    /\ cancelling' = Nobody
    /\ UNCHANGED <<asked, delayed, repeated, toSend, received, msgId, forced,
                   connected, sessionVars, taken, idVars, checkTimer,
                   historyVars, up, down, serverVars>>

(* Session::tryToReceive, Instance::processCallback: an error may have the *)
(* request repeated later, and the callback is kept.                       *)
ProcessCallback ==
    /\ MainIsFree
    /\ received # <<>>
    /\ received' = Tail(received)
    /\ LET r == Head(received).request
           done == Head(received).result = "done"
       IN  /\ callbacks' = IF done THEN callbacks \ {r} ELSE callbacks
           /\ delayed' = IF done THEN delayed \ {r}
                         ELSE delayed \cup ({r} \cap callbacks)
    /\ UNCHANGED <<asked, cancelling, repeated, toSend, haveSent, msgId, forced,
                   connected, sessionVars, taken, idVars, checkTimer,
                   historyVars, up, down, serverVars>>

(* Instance::checkDelayedRequests.                                         *)
SendDelayed(r) ==
    /\ MainIsFree
    /\ r \in delayed
    /\ delayed' = delayed \ {r}
    /\ repeated' = repeated \cup {r}
    /\ SendPrepared(r)
    /\ UNCHANGED <<asked, callbacks, cancelling, haveSent, received, forced,
                   connected, sessionVars, taken, idVars, checkTimer,
                   historyVars, up, down, serverVars>>

-----------------------------------------------------------------------------
(* The thread of SessionPrivate: what it knows of the messages.            *)

PrivateIsFree == taken = Nothing

(* SessionPrivate::wasSent: what may be answered.                          *)
WasSent(m) ==
    m \in resendingIds \cup ackedIds \cup haveSent \/ sentContainers[m] # {}

(* The messages in those of ids that are containers.                       *)
Inner(ids) == UNION {sentContainers[c] : c \in ids}

Without(map, ids) == [c \in Ids |-> IF c \in ids THEN {} ELSE map[c]]

(* What is left of _ackedIds: the smallest ids are removed.                *)
Newest(ids) ==
    {m \in ids : Cardinality({n \in ids : n > m}) < BufferSize}

(* Mutant of Ended: an acknowledgement is as good as an answer.            *)
EndedByAny(ids, byResponse) == ids

(* The messages the server has that need not be waited for or sent again.  *)
Ended(ids, byResponse) ==
    {m \in ids : byResponse \/ owner[m] \notin callbacks}

(* The messages sent again whose requests have not left _toSend.           *)
Unneeded(resent, waiting) ==
    {m \in resent : /\ owner[m] \in waiting
                    /\ \A n \in resent : owner[n] = owner[m] => m <= n}

(* Mutant of LeftToSend: what needs not be sent again waits on.            *)
LeftAsItIs(waiting, unneeded) == waiting

LeftToSend(waiting, unneeded) == waiting \ Owners(unneeded)

(* SessionPrivate::requestsAcked: the server has these messages.           *)
RequestsAcked(ids, byResponse) ==
    LET ended == Ended(ids, byResponse) \cup Ended(Inner(ids), FALSE)
        sent == ended \cap haveSent
        resent == (ended \cap resendingIds) \ sent
        unneeded == Unneeded(resent, toSend)
    IN  /\ haveSent' = haveSent \ sent
        /\ resendingIds' = resendingIds \ resent
        /\ toSend' = LeftToSend(toSend, unneeded)
        /\ ackedIds' = Newest(ackedIds \cup sent \cup unneeded)
        /\ sentContainers' = Without(sentContainers, ids)
        /\ stateRequests' = Without(stateRequests, ids)

(* SessionPrivate::resend, of messages and of containers.                  *)
Resend(ids) ==
    LET found == (ids \cup Inner(ids)) \cap haveSent
    IN  /\ haveSent' = haveSent \ found
        /\ resendingIds' = resendingIds \cup found
        /\ toSend' = toSend \cup Owners(found)
        /\ forced' = forced \cup Owners(found)
        /\ sentContainers' = Without(sentContainers, ids)
        /\ UNCHANGED <<ackedIds, stateRequests>>

-----------------------------------------------------------------------------
(* Sending.                                                                *)

CanSend == connected /\ PrivateIsFree

(* Mutant of NeedsId: every sending is numbered.                           *)
NeedsIdAlways(r, renew) == TRUE

(* prepareToSend and replaceMsgId: a request gets an id when it has none,  *)
(* or when the session has just begun.                                     *)
NeedsId(r, renew) == renew \/ msgId[r] = None

(* The numbers of these requests are changed everywhere: new[r] for r.     *)
Renamed(ids, requests, new) ==
    LET old == {r \in requests : msgId[r] \in ids}
    IN  (ids \ {msgId[r] : r \in old}) \cup {new[r] : r \in old}

Numbered(requests, new) ==
    /\ msgId' = [r \in Requests |-> IF r \in requests THEN new[r] ELSE msgId[r]]
    /\ owner' = [m \in Ids |->
                    IF \E r \in requests : new[r] = m
                    THEN CHOOSE r \in requests : new[r] = m
                    ELSE owner[m]]
    /\ resendingIds' = resendingIds \ {msgId[r] : r \in requests}
    /\ ackedIds' = Renamed(ackedIds, requests, new)
    /\ haveSent' = Renamed(haveSent, requests, new)
                      \cup {new[r] : r \in requests}

(* tryToSend finds one request and nothing else, takes it and unlocks      *)
(* _toSend ...                                                             *)
TakeOne(r) ==
    /\ CanSend
    /\ r \in toSend
    /\ toSend = {r} \/ (MayCut /\ r = Min(toSend))
    /\ r \notin forced
    /\ stateData = {}
    /\ toSend' = toSend \ {r}
    /\ taken' = [request |-> r, renew |-> ~started]
    /\ started' = TRUE
    /\ UNCHANGED <<mainVars, haveSent, received, msgId, forced, connected,
                   stateData, receivedIds, idVars, checkTimer, historyVars,
                   up, down, serverVars>>

(* ... and then numbers it and writes it to _haveSent.  The timer of       *)
(* checkSentRequests is not started here.                                  *)
SendOne ==
    /\ ~PrivateIsFree
    /\ LET r == taken.request
           isNew == NeedsId(r, taken.renew)
           id == IF isNew THEN lastId + 1 ELSE msgId[r]
           new == [q \in {r} |-> id]
       IN  /\ id \in Ids
           /\ Numbered({r}, new)
           /\ sentContainers' = [c \in Ids |-> Renamed(sentContainers[c], {r}, new)]
           /\ lastId' = IF isNew THEN id ELSE lastId
           /\ up' = up \cup {[id |-> id, messages |-> {id}, query |-> None]}
    /\ taken' = Nothing
    /\ UNCHANGED <<mainVars, toSend, received, forced, connected, sessionVars,
                   stateRequests, checkTimer, down, serverVars>>

(* tryToSend finds only a state request to send, or nothing at all: the    *)
(* session counts as started in both cases.                                *)
SendState ==
    /\ CanSend
    /\ toSend = {}
    /\ stateData # {} \/ ~started
    /\ LET q == lastId + 1
       IN  IF stateData = {} THEN UNCHANGED <<lastId, stateRequests, up>>
           ELSE /\ q \in Ids
                /\ lastId' = q
                /\ stateRequests' = [stateRequests EXCEPT ![q] = stateData]
                /\ up' = up \cup {[id |-> q, messages |-> {}, query |-> q]}
    /\ stateData' = {}
    /\ started' = TRUE
    /\ UNCHANGED <<mainVars, toSend, haveSent, received, msgId, forced,
                   connected, receivedIds, taken, resendingIds, ackedIds,
                   sentContainers, checkTimer, owner, down, serverVars>>

(* tryToSend puts all that waits in a container, or the first requests as  *)
(* far as kCutContainerOnSize, and numbers the container last.             *)
SendContainer(requests) ==
    /\ CanSend
    /\ requests # {} /\ requests \subseteq toSend
    /\ \/ requests = toSend
       \/ MayCut /\ \A r \in requests, q \in toSend \ requests : r < q
    /\ Cardinality(requests) > 1 \/ stateData # {} \/ requests \subseteq forced
    /\ LET renumbered == {r \in requests : NeedsId(r, ~started)}
           new == [r \in requests |->
                      IF r \in renumbered
                      THEN lastId + Cardinality({q \in renumbered : q <= r})
                      ELSE msgId[r]]
           query == lastId + Cardinality(renumbered) + 1
           container == IF stateData = {} THEN query ELSE query + 1
           messages == {new[r] : r \in requests}
       IN  /\ container \in Ids
           /\ Numbered(requests, new)
           /\ sentContainers' = [c \in Ids |->
                  IF c = container THEN messages
                  ELSE Renamed(sentContainers[c], requests, new)]
           /\ lastId' = container
           /\ stateRequests' =
                  IF stateData = {} THEN stateRequests
                  ELSE [stateRequests EXCEPT ![query] = stateData]
           /\ up' = up \cup {[id |-> container, messages |-> messages,
                              query |-> IF stateData = {} THEN None ELSE query]}
    /\ toSend' = toSend \ requests
    /\ started' = TRUE
    /\ stateData' = {}
    /\ checkTimer' = TRUE
    /\ UNCHANGED <<mainVars, received, forced, connected, receivedIds, taken,
                   down, serverVars>>

-----------------------------------------------------------------------------
(* Timers, the connection and the session.                                 *)

(* checkSentRequests asks about the messages that were sent long ago, and  *)
(* looks again if there are others.                                        *)
CheckSentRequests(old) ==
    /\ PrivateIsFree /\ checkTimer
    /\ old \subseteq haveSent
    /\ stateData' = stateData \cup old
    /\ checkTimer' = (old # haveSent)
    /\ UNCHANGED <<mainVars, toSend, haveSent, received, msgId, forced,
                   connected, started, receivedIds, taken, idVars,
                   historyVars, up, down, serverVars>>

(* clearOldContainers: a container without an answer for kSentContainerLives. *)
ClearOldContainer(c) ==
    /\ PrivateIsFree
    /\ sentContainers[c] # {}
    /\ Resend({c})
    /\ UNCHANGED <<mainVars, received, msgId, connected, sessionVars, taken,
                   checkTimer, historyVars, up, down, serverVars>>

(* setState(ConnectedState) and resendAll, of authKeyChecked.              *)
Connected ==
    /\ PrivateIsFree /\ ~connected
    /\ connected' = TRUE
    /\ haveSent' = {}
    /\ resendingIds' = resendingIds \cup haveSent
    /\ toSend' = toSend \cup Owners(haveSent)
    /\ forced' = forced \cup Owners(haveSent)
    /\ UNCHANGED <<mainVars, received, msgId, sessionVars, taken, ackedIds,
                   sentContainers, stateRequests, checkTimer, historyVars, up,
                   down, serverVars>>

(* The connection is lost, with all that is on its way.                    *)
Disconnect ==
    /\ PrivateIsFree /\ connected
    /\ Trouble
    /\ connected' = FALSE
    /\ up' = {} /\ down' = {}
    /\ UNCHANGED <<mainVars, toSend, haveSent, received, msgId, forced,
                   sessionVars, taken, idVars, checkTimer, historyVars, known,
                   epoch, fresh>>

NewServerSession ==
    /\ known' = [m \in Ids |-> IF known[m] = "refused" THEN "refused" ELSE "no"]
    /\ epoch' = epoch + 1
    /\ fresh' = TRUE

(* handleReceived restarts the connection after resetSession.              *)
ResetSession ==
    /\ connected' = FALSE
    /\ started' = FALSE
    /\ stateData' = {}
    /\ receivedIds' = {}
    /\ up' = {} /\ down' = {}
    /\ NewServerSession
    /\ UNCHANGED <<toSend, haveSent, received, forced, idVars>>

-----------------------------------------------------------------------------
(* SessionPrivate::handleOneReceived.                                      *)

Receive(d) == PrivateIsFree /\ d \in down /\ down' = down \ {d}

Answered(m, result) ==
    received' = IF WasSent(m)' /\ owner[m] # None
                THEN Append(received, [request |-> owner[m], result |-> result])
                ELSE received

KeepsNumbers ==
    UNCHANGED <<mainVars, msgId, taken, checkTimer, historyVars, troubles>>

KeepsSession ==
    UNCHANGED <<connected, started, stateData, up, known, epoch, fresh>>

(* An answer that came before is not handled.                              *)
HandleResult(d) ==
    /\ d.type = "result"
    /\ Receive(d)
    /\ receivedIds' = receivedIds \cup {<<d.id, d.epoch>>}
    /\ IF <<d.id, d.epoch>> \in receivedIds
       THEN UNCHANGED <<toSend, haveSent, received, idVars>>
       ELSE /\ RequestsAcked({d.id}, TRUE)
            /\ Answered(d.id, d.result)
    /\ KeepsNumbers /\ KeepsSession
    /\ UNCHANGED forced

HandleAck(d) ==
    /\ d.type = "ack"
    /\ Receive(d)
    /\ RequestsAcked({d.id}, FALSE)
    /\ KeepsNumbers /\ KeepsSession
    /\ UNCHANGED <<forced, received, receivedIds>>

(* bad_msg_notification: the message is sent again, or the session is no   *)
(* longer consistent, or nothing helps and the request fails.              *)
HandleBad(d) ==
    /\ d.type = "bad"
    /\ PrivateIsFree /\ d \in down
    /\ IF WasSent(d.id)
       THEN \/ /\ d.why = "again"
               /\ Resend({d.id})
               /\ down' = down \ {d}
               /\ KeepsSession
               /\ UNCHANGED <<received, receivedIds>>
            \/ d.why = "session" /\ ResetSession
            \/ /\ d.why = "fatal"
               /\ down' = down \ {d}
               /\ received' = Append(received, [request |-> owner[d.id],
                                                result |-> "again"])
               /\ KeepsSession
               /\ UNCHANGED <<toSend, haveSent, forced, idVars, receivedIds>>
       ELSE /\ down' = down \ {d}
            /\ KeepsSession
            /\ UNCHANGED <<toSend, haveSent, received, forced, idVars,
                           receivedIds>>
    /\ KeepsNumbers

(* msgs_state_info and handleMsgsStates: what the server has not received  *)
(* is sent again, and the rest is as if acknowledged.                      *)
HandleInfo(d) ==
    /\ d.type = "info"
    /\ Receive(d)
    /\ IF stateRequests[d.id] = {}
       THEN UNCHANGED <<toSend, haveSent, forced, idVars>>
       ELSE LET lost == (stateRequests[d.id] \ d.received) \cap haveSent
                acked == stateRequests[d.id] \cap d.received
                           \cap (haveSent \cup resendingIds)
                ended == Ended(acked, FALSE)
                resent == (ended \cap resendingIds) \ haveSent
                unneeded == Unneeded(resent, toSend \cup Owners(lost))
            IN  /\ haveSent' = haveSent \ (lost \cup ended)
                /\ resendingIds' = (resendingIds \cup lost) \ resent
                /\ toSend' = LeftToSend(toSend \cup Owners(lost), unneeded)
                /\ forced' = forced \cup Owners(lost)
                /\ ackedIds' = Newest(ackedIds \cup unneeded
                                        \cup (ended \cap haveSent))
                /\ stateRequests' = Without(stateRequests, {d.id})
                /\ UNCHANGED sentContainers
    /\ KeepsNumbers /\ KeepsSession
    /\ UNCHANGED <<received, receivedIds>>

(* new_session_created: what was sent before its first message is lost.    *)
HandleNewSession(d) ==
    /\ d.type = "session"
    /\ Receive(d)
    /\ Resend({m \in haveSent : m < d.first})
    /\ KeepsNumbers /\ KeepsSession
    /\ UNCHANGED <<received, receivedIds>>

-----------------------------------------------------------------------------
(* The server.                                                             *)

ClientVars == <<mainVars, toSend, haveSent, received, msgId, forced,
                connected, sessionVars, taken, idVars, checkTimer, historyVars>>

(* A message is executed once, and its answer is sent as often as it       *)
(* comes; that it has the container it says in a message of its own.  The  *)
(* client may take what the server sends in any order, or never.           *)
ServerReceives(u) ==
    /\ u \in up
    /\ up' = up \ {u}
    /\ \E again \in SUBSET {m \in u.messages : known[m] = "no"} :
           /\ again # {} => Trouble
           /\ again = {} => UNCHANGED troubles
           /\ known' = [m \in Ids |->
                  IF m \in again THEN "again"
                  ELSE IF m \in u.messages /\ known[m] = "no" THEN "done"
                  ELSE known[m]]
    /\ down' = down
          \cup {[type |-> "result", id |-> m, epoch |-> epoch,
                 result |-> known'[m]] :
                   m \in {n \in u.messages : known'[n] # "refused"}}
          \cup {[type |-> "ack", id |-> c] : c \in {u.id} \ u.messages}
          \cup {[type |-> "info", id |-> q,
                 received |-> {m \in stateRequests[q] : known'[m] # "no"}] :
                   q \in {u.query} \ {None}}
          \cup {[type |-> "session", first |-> Min(u.messages \cup {u.id})] :
                   new \in {TRUE} \cap {fresh}}
    /\ fresh' = FALSE
    /\ UNCHANGED <<ClientVars, epoch>>

ServerRejects(u, why) ==
    /\ u \in up
    /\ Trouble
    /\ why = "fatal" => u.messages = {u.id} /\ known[u.id] = "no"
    /\ up' = up \ {u}
    /\ known' = IF why = "fatal" THEN [known EXCEPT ![u.id] = "refused"]
                ELSE known
    /\ down' = down \cup {[type |-> "bad", id |-> u.id, why |-> why]}
    /\ UNCHANGED <<ClientVars, epoch, fresh>>

ServerForgets ==
    /\ ~fresh
    /\ Trouble
    /\ NewServerSession
    /\ UNCHANGED <<ClientVars, up, down>>

-----------------------------------------------------------------------------
MainNext ==
    \/ \E r \in Requests : SendRequest(r) \/ Cancel(r) \/ SendDelayed(r)
    \/ CancelToSend \/ CancelHaveSent
    \/ ProcessCallback

PrivateNext ==
    \/ \E r \in toSend : TakeOne(r)
    \/ SendOne \/ SendState
    \/ \E requests \in SUBSET toSend : SendContainer(requests)
    \/ \E old \in SUBSET haveSent : CheckSentRequests(old)
    \/ \E c \in Ids : ClearOldContainer(c)
    \/ Connected \/ Disconnect
    \/ \E d \in down : \/ HandleResult(d) \/ HandleAck(d) \/ HandleBad(d)
                       \/ HandleInfo(d) \/ HandleNewSession(d)

ServerNext ==
    \/ \E u \in up : \/ ServerReceives(u)
                     \/ \E why \in {"again", "session", "fatal"} :
                            ServerRejects(u, why)
    \/ ServerForgets

Next == MainNext \/ PrivateNext \/ ServerNext

Spec == Init /\ [][Next]_vars

-----------------------------------------------------------------------------
(* The properties.                                                         *)

(* A request whose caller still waits for an answer is always somewhere it *)
(* will be sent from, answered or repeated: in _toSend, being sent, sent,  *)
(* among the messages for the main thread, or delayed.                     *)
NotForgotten ==
    \A r \in callbacks \ {cancelling.request} :
        \/ r \in toSend \cup delayed \cup {taken.request} \cup Owners(haveSent)
        \/ \E i \in DOMAIN received : received[i].request = r

(* A session of the server does not execute a request twice, however often *)
(* it was sent: it goes in messages of one id until the session is reset,  *)
(* the server answers that it failed or refuses its message.  A request    *)
(* that failed and is repeated under another id is executed once as long   *)
(* as the server's session lasts: a later one does not know that it failed *)
(* and executes an old message of it that is still on its way.             *)
ExecutedOnce ==
    \A m, n \in Ids :
        known[m] = "done" /\ known[n] = "done" /\ owner[m] = owner[n]
          /\ owner[m] # None => m = n \/ (epoch > 0 /\ owner[m] \in repeated)

(* An answered request is not on its way to be sent again: no copy of it   *)
(* is left in _toSend or in _haveSent, unless the server refused a message *)
(* of it, which handleOneReceived leaves in _haveSent, or lost its session *)
(* and answers a second time.                                              *)
AnsweredIsNotSent ==
    \A i \in DOMAIN received :
        LET r == received[i].request
        IN  received[i].result = "done" /\ epoch = 0 =>
                \/ r \notin toSend \cup Owners(haveSent)
                \/ \E m \in Ids : owner[m] = r /\ known[m] = "refused"
=============================================================================
