------------------------------ MODULE Histories ------------------------------
(***************************************************************************)
(* Data::Histories: the requests about the messages of a chat.             *)
(*                                                                         *)
(* Three mechanisms share the main thread.  Requests of History wait while *)
(* messages are being deleted.  The entry of a chat in the list (its last  *)
(* message and unread count) is asked for in batches, and once more after  *)
(* a request that may change it.  Read marks are collected for a while and *)
(* then sent.  Each handler is one step; the server executes and answers   *)
(* requests in any order.                                                  *)
(*                                                                         *)
(* The handlers are functions on the record client, since they call each   *)
(* other: an answer finishes a request, which sends others, and so on.     *)
(***************************************************************************)
EXTENDS Naturals, SequencesExt

CONSTANTS
    Chats,
    MaxId,          \* the last message of every chat
    MaxRequests,    \* bound: requests through sendRequest
    MaxWishes       \* bound: entries asked for by the rest of the program,
                    \* and marks of other devices

ASSUME BoundsAssumption ==
    /\ IsFiniteSet(Chats)
    /\ MaxId \in Nat \ {0} /\ MaxRequests \in Nat /\ MaxWishes \in Nat

VARIABLES
    client,     \* class Histories, and what it uses of class History
    entries,    \* the GetPeerDialogs under way
    served,     \* the server's answer to each request under way
    old,        \* the requests of History it answered before a deletion
    read,       \* its read mark of each chat
    readUpdates,\* the updates that tell of marks of other devices
    wishes      \* bounded by MaxWishes

vars == <<client, entries, served, old, read, readUpdates, wishes>>

(* A key of postponed or sent, as long as it is in one of them.            *)
Ids == 1 .. MaxRequests
Requests == [chat : Chats, type : {"History", "ReadInbox", "Delete", "Send"},
             till : 0 .. MaxId, at : {"postponed", "sent", "left"}]
NoRequest == [at |-> "none"]

(* A key of _dialogRequests, perhaps with a callback of readInbox.         *)
Keys == {"no", "yes", "waited"}

Entries == [chats : SUBSET Chats, result : {"none", "done", "failed"},
            read : [Chats -> 0 .. MaxId]]

Results == {"none", "done", "more", "channel", "failed"}

TypeOK ==
    /\ client.requests \in [Ids -> Requests \cup {NoRequest}]
    /\ client.made \in 0 .. MaxRequests
    /\ client.willReadTill \in [Chats -> 0 .. MaxId]
    /\ client.later \in [Chats -> BOOLEAN]
    /\ client.sentReadTill \in [Chats -> 0 .. MaxId]
    /\ client.sentReadDone \in [Chats -> BOOLEAN]
    /\ client.postponedEntry \in [Chats -> BOOLEAN]
    /\ client.pending \in [Chats -> Keys]
    /\ client.asked \in [Chats -> Keys]
    /\ client.posted \in Nat
    /\ client.timer \in BOOLEAN
    /\ client.readTill \in [Chats -> 0 .. MaxId]
    /\ client.unreadKnown \in [Chats -> BOOLEAN]
    /\ client.last \in [Chats -> {"unknown", "none", "message"}]
    /\ client.wanted \in [Chats -> 0 .. MaxId]
    /\ entries \in Seq(Entries)
    /\ served \in [Ids -> Results]
    /\ old \subseteq Ids
    /\ read \in [Chats -> 0 .. MaxId]
    /\ readUpdates \subseteq Chats \X (1 .. MaxId)
    /\ wishes \in 0 .. MaxWishes

Init ==
    /\ client = [requests |-> [id \in Ids |-> NoRequest],
                 made |-> 0,                           \* _requestAutoincrement
                 willReadTill |-> [h \in Chats |-> 0],
                 later |-> [h \in Chats |-> FALSE],    \* willReadWhen # 0
                 sentReadTill |-> [h \in Chats |-> 0],
                 sentReadDone |-> [h \in Chats |-> FALSE],
                 postponedEntry |-> [h \in Chats |-> FALSE],
                 pending |-> [h \in Chats |-> "no"],   \* _dialogRequestsPending
                 asked |-> [h \in Chats |-> "no"],     \* _dialogRequests
                 posted |-> 0,                         \* postponed calls
                 timer |-> FALSE,                      \* _readRequestsTimer
                 readTill |-> [h \in Chats |-> 0],     \* _inboxReadBefore - 1
                 unreadKnown |-> [h \in Chats |-> FALSE],
                 last |-> [h \in Chats |-> "unknown"],
                 wanted |-> [h \in Chats |-> 0]]       \* history variable
    /\ entries = <<>> /\ old = {} /\ readUpdates = {}
    /\ served = [id \in Ids |-> "none"]
    /\ read = [h \in Chats |-> 0]
    /\ wishes = 0

-----------------------------------------------------------------------------
(* Requests of a chat.                                                     *)
Of(c, h, at) ==
    {id \in Ids : c.requests[id].at \in at /\ c.requests[id].chat = h}

Sent(c, h) == Of(c, h, {"sent", "left"})

(* postponeHistoryRequest, and postponeEntryRequest.                       *)
Deleting(c, h) == \E id \in Sent(c, h) : c.requests[id].type = "Delete"
Changing(c, h) == \E id \in Sent(c, h) : c.requests[id].type # "History"

Put(c, ids, at) ==
    [c EXCEPT !.requests =
        [id \in Ids |-> IF id \in ids THEN [c.requests[id] EXCEPT !.at = at]
                                     ELSE c.requests[id]]]

(* Mutant of Withdraw: what is under way stays under way.                  *)
WithdrawNothing(c, h) == c

(* A deletion cancels the requests of History and postpones them.          *)
Withdraw(c, h) ==
    IF Deleting(c, h)
    THEN Put(c, {id \in Sent(c, h) : c.requests[id].type = "History"}, "postponed")
    ELSE c

(* Mutant of MarkEntry: only a request that is yet to be sent is postponed.*)
MarkNoEntry(c, h) == c

(* An entry that is asked for is to be asked for again afterwards.         *)
MarkEntry(c, h) ==
    IF Changing(c, h) /\ c.asked[h] # "no"
    THEN [c EXCEPT !.postponedEntry[h] = TRUE]
    ELSE c

SendRequest(c, h, type, till) ==
    LET postponed == type = "History" /\ Deleting(c, h)
        added == [c EXCEPT
                    !.made = @ + 1,
                    !.requests[c.made + 1] =
                      [chat |-> h, type |-> type, till |-> till,
                       at |-> IF postponed THEN "postponed" ELSE "sent"]]
    IN  IF postponed THEN added ELSE Withdraw(MarkEntry(added, h), h)

-----------------------------------------------------------------------------
(* The first entry to be asked for posts sendDialogRequests.               *)
PostponeEntries(c) ==
    IF \E h, g \in Chats : h # g /\ c.pending[h] # "no" /\ c.pending[g] # "no"
    THEN c
    ELSE [c EXCEPT !.posted = @ + 1]

RequestEntry(c, h, waits) ==
    LET Key(key) == IF waits THEN "waited" ELSE IF key = "no" THEN "yes" ELSE key
    IN  IF c.asked[h] # "no" THEN [c EXCEPT !.asked[h] = Key(@)]
        ELSE IF c.pending[h] # "no" THEN [c EXCEPT !.pending[h] = Key(@)]
        ELSE PostponeEntries([c EXCEPT !.pending[h] = Key("no")])

(* Mutant of Repeat: the request for the entry is not made again.          *)
RepeatNothing(c, h) == c

(* finishSentRequest: nothing sent changes the chat any more.              *)
Repeat(c, h) ==
    IF c.postponedEntry[h] /\ ~Changing(c, h)
    THEN PostponeEntries([c EXCEPT !.pending[h] = c.asked[h],
                                   !.asked[h] = "no",
                                   !.postponedEntry[h] = FALSE])
    ELSE c

(* Mutant of Resume: what was postponed is left to the next request.       *)
ResumeNothing(c, h) == c

(* finishSentRequest: nothing is being deleted any more.                   *)
Resume(c, h) ==
    IF Deleting(c, h) THEN c ELSE Put(c, Of(c, h, {"postponed"}), "sent")

FinishRequest(c, id) ==
    LET h == c.requests[id].chat
    IN  Repeat(Resume([c EXCEPT !.requests[id] = NoRequest], h), h)

-----------------------------------------------------------------------------
(* Read marks.  still says what countStillUnreadLocal finds: it depends on *)
(* the messages that are loaded.                                           *)
Stills == {"unknown", "same", "some", "none"}

Larger(a, b) == IF a > b THEN a ELSE b

MarkRead(c, h, till) == [c EXCEPT !.readTill[h] = Larger(@, till)]

SendRead(h, c) ==
    SendRequest([c EXCEPT !.sentReadTill[h] = c.willReadTill[h],
                          !.willReadTill[h] = 0,
                          !.later[h] = FALSE,
                          !.sentReadDone[h] = FALSE],
                h, "ReadInbox", c.willReadTill[h])

(* Mutant of TimerAfter: the timer is stopped whatever still waits.        *)
TimerStopped(c) == FALSE

TimerAfter(c) == \E h \in Chats : c.willReadTill[h] # 0

(* sendReadRequests, when the time of the chats in due has come.           *)
SendReads(c, due) ==
    LET ready == {h \in Chats :
                    c.willReadTill[h] # 0 /\ (c.later[h] => h \in due)}
        sent == FoldSet(SendRead, c, ready)
    IN  [sent EXCEPT !.timer = TimerAfter(sent)]

SendPendingRead(c, h, due) ==
    IF c.willReadTill[h] # 0 /\ c.later[h]
    THEN SendReads([c EXCEPT !.later[h] = FALSE], due)
    ELSE c

Show(c, h, till) == [MarkRead(c, h, till) EXCEPT !.unreadKnown[h] = TRUE]

(* Mutant of ReadTill: the mark under way is not looked at.                *)
ReadTillAgain(c, h, till, force, still, due) ==
    IF c.readTill[h] >= till THEN c
    ELSE SendReads([c EXCEPT !.willReadTill[h] = till, !.wanted[h] = till], due)

ReadTill(c, h, till, force, still, due) ==
    LET needs == till > c.readTill[h]
        will == [c EXCEPT !.willReadTill[h] = till, !.wanted[h] = till]
        now == SendReads([will EXCEPT !.later[h] = FALSE], due)
    IN  IF (~needs /\ ~force) \/ c.sentReadTill[h] >= till THEN c
        ELSE IF c.willReadTill[h] >= till
             THEN IF force THEN SendPendingRead(c, h, due) ELSE c
        ELSE IF ~needs /\ c.willReadTill[h] = 0 THEN c
        ELSE CASE ~force /\ still = "same" -> MarkRead(c, h, till)
               [] still = "unknown" -> now
               [] still # "unknown" /\ (force \/ still = "none") ->
                    Show(now, h, till)
               [] OTHER -> Show([will EXCEPT !.later[h] = TRUE, !.timer = TRUE],
                                h, till)

(* readInbox: till the last message, once it is known.                     *)
LastId(c, h) == IF c.last[h] = "message" THEN MaxId ELSE 0

(* sendReadRequest, finished: the same for an answer and for an error.     *)
ReadAnswered(c, id, due) ==
    LET h == c.requests[id].chat
        till == c.requests[id].till
        refresh == ~c.unreadKnown[h] \/ till > c.readTill[h]
        marked == CASE c.sentReadTill[h] # till -> c
                    [] c.sentReadTill[h] = till /\ refresh ->
                         RequestEntry([c EXCEPT !.sentReadDone[h] = TRUE], h, FALSE)
                    [] OTHER -> [c EXCEPT !.sentReadDone[h] = TRUE,
                                          !.sentReadTill[h] = 0]
    IN  FinishRequest(SendReads(marked, due), id)

-----------------------------------------------------------------------------
(* The entry of a chat has come, or will not come.                         *)
Fields(c, h, answer) ==
    IF answer.result = "failed" THEN c
    ELSE LET counted == IF answer.read[h] >= c.readTill[h]
                        THEN Show(c, h, answer.read[h]) ELSE c
         IN  [counted EXCEPT !.last[h] = "message"]

(* dialogEntryApplied: nothing happens while it is to be asked for again.  *)
EntryApplied(c, h, answer, still, due) ==
    LET waited == "waited" \in {c.pending[h], c.asked[h]}
        known == [c EXCEPT !.pending[h] = "no", !.asked[h] = "no",
                           !.last[h] = IF @ = "unknown" THEN "none" ELSE @]
        told == IF waited
                THEN ReadTill(known, h, LastId(known, h), FALSE, still, due)
                ELSE known
    IN  IF c.postponedEntry[h] THEN c
        ELSE IF told.sentReadTill[h] # 0 /\ told.sentReadDone[h]
             THEN [MarkRead(told, h, told.sentReadTill[h])
                     EXCEPT !.sentReadTill[h] = 0]
             ELSE told

EntriesAnswered(c, answer, still, due) ==
    FoldSet(LAMBDA h, d : EntryApplied(Fields(d, h, answer), h, answer, still, due),
            c, answer.chats)

-----------------------------------------------------------------------------
(* After a handler: what was cancelled or postponed is not answered.       *)
Becomes(c) ==
    /\ client' = c
    /\ served' = [id \in Ids |->
                   IF c.requests[id].at = "sent" THEN served[id] ELSE "none"]
    /\ old' = {id \in old : c.requests[id].at = "sent"}

(* Every mark or callback that waits may send one more request.            *)
Room ==
    client.made
      + Cardinality({h \in Chats : client.willReadTill[h] # 0})
      + Cardinality({h \in Chats : "waited" \in {client.pending[h], client.asked[h]}})
      < MaxRequests

Later == {h \in Chats : client.later[h]}

(* The rest of the program: it asks for the entry of a chat, ...           *)
Wish ==
    /\ wishes < MaxWishes /\ wishes' = wishes + 1
    /\ UNCHANGED <<entries, read, readUpdates>>

Asks == UNCHANGED <<entries, read, readUpdates, wishes>>

AskForEntry(h) == Wish /\ Becomes(RequestEntry(client, h, FALSE))

(* ... reads a chat till its end, till a message, or till a new one, ...   *)
ReadInbox(h) ==
    /\ Room /\ Wish
    /\ \E still \in Stills, due \in SUBSET Later :
         Becomes(IF client.last[h] = "unknown" THEN RequestEntry(client, h, TRUE)
                 ELSE ReadTill(client, h, LastId(client, h), FALSE, still, due))

ReadInboxTill(h) ==
    /\ Room /\ Asks
    /\ \E till \in 1 .. MaxId, force \in BOOLEAN, still \in Stills,
          due \in SUBSET Later :
         Becomes(ReadTill(client, h, till, force, still, due))

SendPendingReadInbox(h) ==
    /\ client.later[h] /\ Asks
    /\ \E due \in SUBSET Later : Becomes(SendPendingRead(client, h, due))

(* ... loads, sends or deletes messages, ...                               *)
Send(h) ==
    /\ Room /\ Asks
    /\ \E type \in {"History", "Send", "Delete"} :
         Becomes(SendRequest(client, h, type, 0))

(* ... and cancels what it loads: cancelRequest.                           *)
Cancel(id) ==
    /\ client.requests[id].at \in {"postponed", "sent"}
    /\ client.requests[id].type = "History"
    /\ Asks /\ Becomes(FinishRequest(client, id))

(* The postponed call: chats that are about to change are left out.        *)
SendDialogRequests ==
    LET all == {h \in Chats : client.pending[h] # "no"}
        changing == {h \in all : Changing(client, h)}
    IN  /\ client.posted > 0
        /\ Becomes([client EXCEPT
                !.posted = @ - 1,
                !.pending = [h \in Chats |-> "no"],
                !.asked = [h \in Chats |->
                             IF h \in all THEN client.pending[h] ELSE @[h]],
                !.postponedEntry = [h \in Chats |-> h \in changing \/ @[h]]])
        /\ entries' = IF all = {} THEN entries
                      ELSE Append(entries, [chats |-> all \ changing,
                                            result |-> "none", read |-> read])
        /\ UNCHANGED <<read, readUpdates, wishes>>

ReadTimer ==
    /\ client.timer /\ Asks
    /\ \E due \in SUBSET Later :
         due # {} /\ Becomes(SendReads([client EXCEPT !.timer = FALSE], due))

-----------------------------------------------------------------------------
(* The server executes or refuses a request.  A deletion may be partial,   *)
(* or that of a channel, which differs by its answer only.                 *)
Waits(id) == client.requests[id].at = "sent" /\ served[id] = "none"

Deletes(id) == client.requests[id].type = "Delete"

Serve(id, results) ==
    /\ \E result \in results : served' = [served EXCEPT ![id] = result]
    /\ UNCHANGED <<client, entries, readUpdates, wishes>>

Execute(id) ==
    /\ Waits(id)
    /\ Serve(id, IF Deletes(id) THEN {"done", "more", "channel"} ELSE {"done"})
    /\ LET request == client.requests[id]
           h == request.chat
       IN  /\ read' = [read EXCEPT ![h] = Larger(@, request.till)]
           /\ old' = IF Deletes(id)
                     THEN old \cup {i \in Of(client, h, {"sent"}) :
                                      /\ client.requests[i].type = "History"
                                      /\ served[i] # "none"}
                     ELSE old

Refuse(id) ==
    /\ Waits(id)
    /\ Serve(id, IF Deletes(id) THEN {"failed", "channel"} ELSE {"failed"})
    /\ UNCHANGED <<read, old>>

ExecuteEntry(i) ==
    /\ entries[i].result = "none"
    /\ \E result \in {"done", "failed"} :
         entries' = [entries EXCEPT ![i].result = result, ![i].read = read]
    /\ UNCHANGED <<client, served, old, read, readUpdates, wishes>>

(* Another device of the user has read more.                               *)
ReadElsewhere(h) ==
    /\ wishes < MaxWishes /\ wishes' = wishes + 1
    /\ \E till \in read[h] + 1 .. MaxId :
         /\ read' = [read EXCEPT ![h] = till]
         /\ readUpdates' = readUpdates \cup {<<h, till>>}
    /\ UNCHANGED <<client, entries, served, old>>

-----------------------------------------------------------------------------
(* Mutant of Deleted: it does not look at what is left over.               *)
DeletedAgain(c, id, more) ==
    FinishRequest(SendRequest(c, c.requests[id].chat, "Delete", 0), id)

(* deleteAllMessages: what is left over is deleted next.                   *)
Deleted(c, id, more) ==
    FinishRequest(IF more THEN SendRequest(c, c.requests[id].chat, "Delete", 0)
                  ELSE c, id)

(* A mark that failed is given up; DeleteChannel is never finished.        *)
AnswerRequest(id) ==
    LET request == client.requests[id]
        h == request.chat
    IN  /\ served[id] # "none" /\ Asks
        /\ CASE request.type = "ReadInbox" ->
                  \E due \in SUBSET Later :
                    Becomes([ReadAnswered(client, id, due) EXCEPT
                               !.wanted[h] = IF served[id] = "failed"
                                                /\ @ = request.till
                                             THEN 0 ELSE @])
             [] served[id] = "channel" -> Becomes(Put(client, {id}, "left"))
             [] OTHER -> Becomes(Deleted(client, id, served[id] = "more" /\ Room))

AnswerEntry(i) ==
    /\ entries[i].result # "none"
    /\ \E still \in Stills, due \in SUBSET Later :
         Becomes(EntriesAnswered(client, entries[i], still, due))
    /\ entries' = RemoveAt(entries, i)
    /\ UNCHANGED <<read, readUpdates, wishes>>

(* inboxRead: the count comes with the update, is counted, or asked for.   *)
UpdateReadInbox(h, till) ==
    /\ <<h, till>> \in readUpdates
    /\ readUpdates' = readUpdates \ {<<h, till>>}
    /\ \E counted \in BOOLEAN :
         Becomes(IF client.readTill[h] >= till THEN client
                 ELSE IF counted THEN Show(client, h, till)
                 ELSE MarkRead(RequestEntry(client, h, FALSE), h, till))
    /\ UNCHANGED <<entries, read, wishes>>

-----------------------------------------------------------------------------
Program ==
    \/ \E h \in Chats :
         \/ AskForEntry(h)
         \/ ReadInbox(h)
         \/ ReadInboxTill(h)
         \/ SendPendingReadInbox(h)
         \/ Send(h)
    \/ \E id \in Ids : Cancel(id)

Loop == SendDialogRequests \/ ReadTimer

Server ==
    \/ \E id \in Ids : Execute(id) \/ Refuse(id)
    \/ \E i \in DOMAIN entries : ExecuteEntry(i)

Network ==
    \/ \E id \in Ids : AnswerRequest(id)
    \/ \E i \in DOMAIN entries : AnswerEntry(i)
    \/ \E h \in Chats, till \in 1 .. MaxId : UpdateReadInbox(h, till)

Next == Program \/ Loop \/ Server \/ Network \/ \E h \in Chats : ReadElsewhere(h)

Spec == Init /\ [][Next]_vars

Fairness == WF_vars(Loop \/ Server \/ Network)

FairSpec == Spec /\ Fairness

-----------------------------------------------------------------------------
(* No list of messages of a chat that was made before a deletion arrives   *)
(* once that deletion is executed: what was deleted does not come back, in *)
(* whatever order requests are executed and answered.                      *)
NoDeletedMessageReturns == old = {}

(* No chat is stranded in one of the maps: an entry that is asked for is   *)
(* on its way or waits for a change to end, one that is pending will be    *)
(* asked for, and a request of History waits only for a deletion.  The     *)
(* Asserts of finishSentRequest are among them.                            *)
NothingIsStranded ==
    \A h \in Chats :
        /\ client.asked[h] # "no" =>
             client.postponedEntry[h]
             \/ \E i \in DOMAIN entries : h \in entries[i].chats
        /\ client.postponedEntry[h] <=> client.asked[h] # "no" /\ Changing(client, h)
        /\ client.pending[h] # "no" => client.asked[h] = "no" /\ client.posted > 0
        /\ Of(client, h, {"postponed"}) # {} => Deleting(client, h)

(* What the user has read is kept until the server knows of it: it waits   *)
(* for the timer or is on its way.  A request that failed gives it up.     *)
ReadIsOnItsWay ==
    \A h \in Chats :
        /\ client.wanted[h] > read[h] =>
             \/ client.willReadTill[h] >= client.wanted[h]
             \/ \E id \in Sent(client, h) :
                  client.requests[id].till >= client.wanted[h]
        /\ client.willReadTill[h] # 0 => client.later[h] /\ client.timer

(* Marks only advance while requests pass each other: the Expects of       *)
(* sendReadRequest and the Assert of its finished hold at any time.        *)
ReadsOnlyAdvance ==
    \A h \in Chats :
        /\ client.willReadTill[h] # 0 => client.willReadTill[h] > client.sentReadTill[h]
        /\ \A id \in Sent(client, h) :
             client.sentReadTill[h] # 0 =>
                client.sentReadTill[h] >= client.requests[id].till
        /\ \A i, j \in Sent(client, h) :
             i < j /\ client.requests[j].till # 0 =>
                client.requests[i].till < client.requests[j].till

(* The deletion of a channel is never finished: see the README.            *)
Left(h) == Of(client, h, {"left"}) # {}

(* A postponed request of History is sent in the end, or cancelled.        *)
PostponedIsSent ==
    \A h \in Chats :
        Of(client, h, {"postponed"}) # {} ~>
            Of(client, h, {"postponed"}) = {} \/ Left(h)

(* Whoever waits for the entry of a chat is called, however often it has   *)
(* to be asked for.                                                        *)
EntryIsAwaited ==
    \A h \in Chats :
        "waited" \in {client.pending[h], client.asked[h]} ~>
            "waited" \notin {client.pending[h], client.asked[h]} \/ Left(h)
=============================================================================
