------------------------------ MODULE Downloads ------------------------------
(***************************************************************************)
(* DownloadManagerMtproto and its tasks: files are loaded part by part     *)
(* over several sessions with one datacenter.                              *)
(*                                                                         *)
(* The manager counts the parts that are requested in each session, widens *)
(* sessions and adds new ones while requests succeed, removes one after    *)
(* time-outs and moves its requests to the others, and stops them all once *)
(* nothing is requested.  A task may be redirected to a CDN; its parts are *)
(* then kept until their hashes have come, which is a request of its own.  *)
(*                                                                         *)
(* Everything happens on the main thread.  Each answer is one step, made   *)
(* of functions on the record mgr, since the handlers call each other.     *)
(* Amounts are counted in parts, sessions from 1.                          *)
(***************************************************************************)
EXTENDS Integers, SequencesExt

CONSTANTS
    Tasks,         \* the files, each a mtpFileLoader of known size
    CdnTasks,      \* those that may be redirected
    Parts,         \* parts of a file
    StartWaited, MaxWaited,    \* kStartWaitedInSession, kMaxWaitedInSession
    MaxSessions,               \* kMaxSessionsCount
    RetrySuccesses,            \* kRetryAddSessionSuccesses
    RemoveTimeouts,            \* kRemoveSessionAfterTimeouts
    MaxRemoves,                \* kMaxTrackedSessionRemoves
    MaxTimeouts, MaxTroubles   \* bounds: time-outs, and answers without a part

ASSUME SizesAssumption ==
    /\ IsFiniteSet(Tasks) /\ CdnTasks \subseteq Tasks
    /\ {Parts, StartWaited, MaxWaited, MaxSessions, RetrySuccesses,
        RemoveTimeouts, MaxRemoves} \subseteq Nat \ {0}
    /\ StartWaited <= MaxWaited
    /\ {MaxTimeouts, MaxTroubles} \subseteq Nat

VARIABLES
    mgr,        \* the manager and the tasks
    timeouts,   \* bounded by MaxTimeouts
    troubles    \* bounded by MaxTroubles

vars == <<mgr, timeouts, troubles>>

Offsets == 0 .. Parts - 1

(* How many CDN redirects there were; 0 is no CDN (_cdnDcId = 0).          *)
Tokens == 0 .. MaxTroubles

(* RequestData, and what was asked: a part, that the CDN be given it, or   *)
(* the hashes of a part and of some that follow.  old: sent no later than  *)
(* lastSessionRemove.                                                      *)
Requests == [offset : Offsets, kind : {"part", "reupload", "hashes"},
             token : Tokens, session : 1 .. MaxSessions, amount : Nat,
             old : BOOLEAN]

Sessions == [requested : Nat, max : StartWaited .. MaxWaited, successes : Nat]

TypeOK ==
    /\ mgr.sessions \in Seq(Sessions)
    /\ Len(mgr.sessions) \in 1 .. MaxSessions
    /\ mgr.total \in Nat
    /\ mgr.timeouts \in 0 .. RemoveTimeouts - 1
    /\ mgr.removeIndex \in 0 .. MaxSessions
    /\ mgr.removeTimes \in 0 .. MaxRemoves
    /\ mgr.removed \in BOOLEAN
    /\ mgr.kill \in BOOLEAN
    /\ mgr.queue \in Seq(Tasks)
    /\ mgr.status \in [Tasks -> {"new", "loading", "done", "failed", "gone"}]
    /\ mgr.next \in [Tasks -> 0 .. Parts]
    /\ mgr.sent \in [Tasks -> SUBSET Requests]
    /\ mgr.unchecked \in [Tasks -> SUBSET (Offsets \X (1 .. MaxSessions))]
    /\ mgr.hashes \in [Tasks -> SUBSET Offsets]
    /\ mgr.token \in [Tasks -> Tokens]
    /\ mgr.posted \in [Tasks -> BOOLEAN]
    /\ mgr.fed \in [Tasks -> SUBSET Offsets]
    /\ mgr.orphaned \in [Tasks -> BOOLEAN]
    /\ mgr.clash \in BOOLEAN
    /\ timeouts \in 0 .. MaxTimeouts
    /\ troubles \in 0 .. MaxTroubles

NewSession == [requested |-> 0, max |-> StartWaited, successes |-> 0]

Init ==
    /\ mgr = [sessions |-> <<NewSession>>,
              total |-> 0,                            \* totalRequested
              timeouts |-> 0,
              removeIndex |-> 0, removeTimes |-> 0,
              removed |-> FALSE,                      \* lastSessionRemove # 0
              kill |-> FALSE,                         \* in _killSessionsWhen
              queue |-> <<>>,
              status |-> [t \in Tasks |-> "new"],
              next |-> [t \in Tasks |-> 0],           \* _nextRequestOffset
              sent |-> [t \in Tasks |-> {}],          \* _sentRequests
              unchecked |-> [t \in Tasks |-> {}],     \* _cdnUncheckedParts
              hashes |-> [t \in Tasks |-> {}],        \* _cdnFileHashes
              token |-> [t \in Tasks |-> 0],
              posted |-> [t \in Tasks |-> FALSE],     \* a call on the main queue
              fed |-> [t \in Tasks |-> {}],           \* history variables: parts
              orphaned |-> [t \in Tasks |-> FALSE],   \* given, see below, and a
              clash |-> FALSE]                        \* failed check
    /\ timeouts = 0 /\ troubles = 0

-----------------------------------------------------------------------------
(* Amounts.                                                                *)
ChangeAmount(d, session, delta) ==
    LET changed == [d EXCEPT !.sessions[session].requested = @ + delta,
                             !.total = @ + delta]
        idle == \A i \in DOMAIN d.sessions : changed.sessions[i].requested = 0
    IN  [changed EXCEPT !.kill = IF delta > 0 THEN FALSE ELSE @ \/ idle]

(* The first of the sessions in which the least is requested.              *)
ChooseSession(d) ==
    CHOOSE i \in DOMAIN d.sessions :
        \A j \in DOMAIN d.sessions :
            LET a == d.sessions[i].requested
                b == d.sessions[j].requested
            IN  a < b \/ (a = b /\ i <= j)

(* placeSentRequest, Ensures: a request is the only one for its offset.    *)
Place(d, t, kind, offset, session) ==
    LET counted == ChangeAmount(d, session, 1)
        request == [offset |-> offset, kind |-> kind, token |-> d.token[t],
                    session |-> session, old |-> FALSE,
                    amount |-> counted.sessions[session].requested]
    IN  [counted EXCEPT
           !.sent[t] = @ \cup {request},
           !.clash = @ \/ \E other \in d.sent[t] : other.offset = offset]

(* finishSentRequest.                                                      *)
Finish(d, t, request) ==
    ChangeAmount([d EXCEPT !.sent[t] = @ \ {request}], request.session, -1)

AskForHashes(d, t) ==
    IF d.unchecked[t] = {} \/ \E r \in d.sent[t] : r.kind = "hashes"
    THEN d
    ELSE LET first == CHOOSE part \in d.unchecked[t] :
                        \A other \in d.unchecked[t] : part[1] <= other[1]
         IN  Place(d, t, "hashes", first[1], first[2])

(* Mutant of CancelRequest: the hashes are forgotten.                      *)
CancelQuietly(t, d, request) == Finish(d, t, request)

(* cancelRequest: the hashes are to be asked for again.                    *)
CancelRequest(t, d, request) ==
    [Finish(d, t, request) EXCEPT
        !.posted[t] = @ \/ (request.kind = "hashes" /\ d.unchecked[t] # {})]

Cancelled(d, t) ==
    LET without == FoldSet(LAMBDA r, e : CancelRequest(t, e, r), d, d.sent[t])
    IN  [without EXCEPT !.unchecked[t] = {}]

(* cancelOnFail: the loader is ended, and destroyed later.                 *)
Failed(d, t) == [Cancelled(d, t) EXCEPT !.status[t] = "failed"]

-----------------------------------------------------------------------------
(* The queue.  The last file comes first; each is in it once at most.      *)
Ready(d, t) == d.status[t] = "loading" /\ d.next[t] < Parts

HasRoom(d, session) ==
    d.sessions[session].requested + 1 <= d.sessions[session].max

(* trySendNextPart: of the sessions that have room, the emptiest.          *)
BestSession(d) ==
    LET room == {i \in DOMAIN d.sessions : HasRoom(d, i)}
    IN  IF room = {} THEN 0
        ELSE CHOOSE i \in room : \A j \in room :
               LET a == d.sessions[i].requested
                   b == d.sessions[j].requested
               IN  a < b \/ (a = b /\ i <= j)

TrySendNext(d) ==
    LET session == BestSession(d)
        first == SelectInSeq(d.queue, LAMBDA t : Ready(d, t))
    IN  IF session = 0 \/ first = 0 THEN d
        ELSE LET t == d.queue[first]
             IN  Place([d EXCEPT !.next[t] = @ + 1],
                       t, "part", d.next[t], session)

(* while (trySendNextPart()): there are no more parts than these.          *)
CheckSendNext(d) ==
    FoldSet(LAMBDA i, e : TrySendNext(e), d, 1 .. Parts * Cardinality(Tasks))

Enqueued(d, t) == CheckSendNext([d EXCEPT !.queue = Cons(t, @)])

(* Mutant of Removed: those behind are not sent.                           *)
RemovedOnly(d, t) == [d EXCEPT !.queue = RemoveFirst(@, t)]

Removed(d, t) == CheckSendNext([d EXCEPT !.queue = RemoveFirst(@, t)])

-----------------------------------------------------------------------------
(* Sessions.                                                               *)
NoSuccesses(d) ==
    [d EXCEPT !.sessions =
        [i \in DOMAIN d.sessions |-> [d.sessions[i] EXCEPT !.successes = 0]]]

Lesser(a, b) == IF a < b THEN a ELSE b

(* requestSucceeded; slow answers count as time-outs, below.  wait: it is  *)
(* too early after the last removal.                                       *)
Succeeded(d, request, slow, wait) ==
    LET i == request.session
        max == d.sessions[i].max
        grown == [d EXCEPT
                    !.sessions[i].max = IF request.amount = max
                                        THEN Lesser(max + 1, MaxWaited) ELSE max,
                    !.sessions[i].successes =
                        Lesser(@ + 1, RetrySuccesses * MaxRemoves)]
        enough == \A j \in DOMAIN d.sessions :
                    grown.sessions[j].successes
                      >= (d.removeTimes + 1) * RetrySuccesses
        full == Len(d.sessions) = MaxSessions \/ (d.removed /\ wait)
        reset == NoSuccesses(grown)
    IN  IF request.old \/ request.amount > max \/ slow THEN d
        ELSE IF ~enough THEN grown
        ELSE IF d.timeouts > 0 THEN [reset EXCEPT !.timeouts = @ - 1]
        ELSE IF full THEN reset
        ELSE [reset EXCEPT !.sessions = Append(@, NewSession)]

(* What the last session is charged while its requests are moved.          *)
Charge == MaxWaited * MaxSessions

(* The Asserts: another session than the last one is chosen.               *)
MoveRequest(t, d, request) ==
    LET cancelled == CancelRequest(t, d, request)
        chosen == ChooseSession(cancelled)
    IN  IF request.kind = "hashes" THEN cancelled
        ELSE [Place(cancelled, t, "part", request.offset, chosen) EXCEPT
                !.clash = @ \/ chosen >= request.session]

(* Mutant of MoveTask: parts that wait for hashes keep their session.      *)
MoveTaskRequests(d, t, session) ==
    FoldSet(LAMBDA r, e : MoveRequest(t, e, r), d,
            {r \in d.sent[t] : r.session = session})

(* DownloadMtprotoTask::removeSession.                                     *)
MoveTask(d, t, session) ==
    LET chosen == ChooseSession(d)
        parts == {<<part[1], IF part[2] = session THEN chosen ELSE part[2]>> :
                    part \in d.unchecked[t]}
        moved == \E part \in d.unchecked[t] : part[2] = session
    IN  FoldSet(LAMBDA r, e : MoveRequest(t, e, r),
                [d EXCEPT !.unchecked[t] = parts,
                          !.clash = @ \/ (moved /\ chosen >= session)],
                {r \in d.sent[t] : r.session = session})

(* Nothing is sent to the session while its requests are moved, and        *)
(* nothing is left to it.                                                  *)
RemoveSession(d) ==
    LET last == Len(d.sessions)
        blocked == [d EXCEPT
            !.removeTimes = IF d.removeIndex = last THEN Lesser(@ + 1, MaxRemoves)
                            ELSE 1,
            !.removeIndex = last,
            !.sessions[last].requested = @ + Charge]
        moved == FoldLeft(LAMBDA e, t : MoveTask(e, t, last), blocked, d.queue)
    IN  [moved EXCEPT
            !.sessions = [i \in 1 .. last - 1 |-> @[i]],
            !.removed = TRUE,
            !.clash = @ \/ moved.sessions[last].requested # Charge,
            !.sent = [t \in Tasks |->
                        {[r EXCEPT !.old = TRUE] : r \in moved.sent[t]}]]

(* Mutant of TimedOut: the time-outs are not counted anew.                 *)
TimedOutAgain(d, session) ==
    CASE session > Len(d.sessions) \/ Len(d.sessions) = 1 -> NoSuccesses(d)
      [] d.timeouts + 1 < RemoveTimeouts ->
           [NoSuccesses(d) EXCEPT !.timeouts = @ + 1]
      [] OTHER -> RemoveSession([NoSuccesses(d) EXCEPT !.timeouts = @ + 1])

TimedOut(d, session) ==
    LET reset == NoSuccesses(d)
    IN  IF session > Len(d.sessions) THEN d
        ELSE IF Len(d.sessions) = 1 THEN reset
        ELSE IF d.timeouts + 1 < RemoveTimeouts THEN [reset EXCEPT !.timeouts = @ + 1]
        ELSE RemoveSession([reset EXCEPT !.timeouts = 0])

-----------------------------------------------------------------------------
(* Parts and hashes.                                                       *)
Waits(d, t) == d.sent[t] # {} \/ d.unchecked[t] # {}    \* haveSentRequests

(* feedPart: the last part ends the file.                                  *)
Feed(d, t, offset) ==
    LET given == [d EXCEPT !.fed[t] = @ \cup {offset}]
    IN  IF Waits(d, t) \/ d.next[t] < Parts THEN given
        ELSE [Removed(given, t) EXCEPT !.status[t] = "done"]

(* cdnPartLoaded: a part waits for its hash, unless there was one already. *)
CheckedPart(d, t, request, good) ==
    IF request.offset \in d.hashes[t]
    THEN IF good THEN Feed(d, t, request.offset) ELSE Failed(d, t)
    ELSE AskForHashes(
           IF \E part \in d.unchecked[t] : part[1] = request.offset THEN d
           ELSE [d EXCEPT !.unchecked[t] =
                            @ \cup {<<request.offset, request.session>>}],
           t)

(* getCdnFileHashesDone.                                                   *)
HashesCame(d, t, hashes, good) ==
    LET known == [d EXCEPT !.hashes[t] = @ \cup hashes]
        checked == {part \in d.unchecked[t] : part[1] \in known.hashes[t]}
        given == FoldSet(LAMBDA part, e :
                           Feed([e EXCEPT !.unchecked[t] = @ \ {part}], t, part[1]),
                         known, checked)
    IN  IF checked = {} \/ ~good THEN Failed(known, t)
        ELSE IF given.status[t] = "done" THEN given
        ELSE AskForHashes(given, t)

(* changeCDNParams: what is under way is asked for anew, as parts.         *)
ChangeCdn(d, t, request, token, hashes) ==
    LET changed == [d EXCEPT !.token[t] = token, !.hashes[t] = @ \cup hashes,
                             !.orphaned[t] = @ \/ d.unchecked[t] # {}]
        resent == d.sent[t]
        ended == FoldSet(LAMBDA r, e : Finish(e, t, r), changed, resent)
        again == FoldSet(LAMBDA r, e : Place(e, t, "part", r.offset, r.session),
                         ended, resent)
    IN  Place(again, t, "part", request.offset, request.session)

-----------------------------------------------------------------------------
(* A failed Ensures or Assert ends the program, with whatever its handler  *)
(* did.                                                                    *)
Alive == ~mgr.clash

Becomes(d) == mgr' = IF d.clash THEN [mgr EXCEPT !.clash = TRUE] ELSE d

Trouble == troubles < MaxTroubles /\ troubles' = troubles + 1

NoTrouble == UNCHANGED troubles

(* The answers to a request.  Success is counted, and the queue goes on.   *)
PartCame(t, request) ==
    /\ request.kind = "part"
    /\ NoTrouble
    /\ \E slow, wait, good \in BOOLEAN :
         LET done == Succeeded(Finish(mgr, t, request), request, slow, wait)
         IN  Becomes(CheckSendNext(
                IF request.token = 0 THEN Feed(done, t, request.offset)
                ELSE CheckedPart(done, t, request, good)))

Redirected(t, request) ==
    /\ request.kind = "part" /\ request.token = 0 /\ t \in CdnTasks
    /\ Trouble
    /\ \E hashes \in SUBSET Offsets, slow, wait, valid \in BOOLEAN :
         LET done == Succeeded(Finish(mgr, t, request), request, slow, wait)
         IN  Becomes(CheckSendNext(
                IF valid THEN ChangeCdn(done, t, request, troubles', hashes)
                ELSE Failed(done, t)))

ReuploadNeeded(t, request) ==
    /\ request.kind = "part" /\ request.token # 0
    /\ Trouble
    /\ Becomes(Place(Finish(mgr, t, request), t, "reupload",
                     request.offset, request.session))

ReuploadDone(t, request) ==
    /\ request.kind = "reupload"
    /\ NoTrouble
    /\ \E hashes \in SUBSET Offsets :
         Becomes(Place([Finish(mgr, t, request) EXCEPT !.hashes[t] = @ \cup hashes],
                       t, "part", request.offset, request.session))

(* FILE_TOKEN_INVALID or REQUEST_TOKEN_INVALID.                            *)
TokenInvalid(t, request) ==
    /\ request.token # 0
    /\ Trouble
    /\ Becomes(ChangeCdn(Finish(mgr, t, request), t, request, 0, {}))

HashesDone(t, request) ==
    /\ request.kind = "hashes"
    /\ NoTrouble
    /\ \E hashes \in SUBSET Offsets, good \in BOOLEAN :
         Becomes(HashesCame(Finish(mgr, t, request), t, hashes, good))

(* FILE_REFERENCE_EXPIRED: asked for again once the reference has come.    *)
ReferenceRefreshed(t, request) ==
    /\ request.kind = "part" /\ request.token = 0
    /\ Trouble
    /\ Becomes(Place(Finish(mgr, t, request), t, "part",
                     request.offset, request.session))

RequestFailed(t, request) == NoTrouble /\ Becomes(Failed(mgr, t))

Answer(t, request) ==
    /\ Alive
    /\ \/ PartCame(t, request)
       \/ Redirected(t, request)
       \/ ReuploadNeeded(t, request)
       \/ ReuploadDone(t, request)
       \/ TokenInvalid(t, request)
       \/ HashesDone(t, request)
       \/ ReferenceRefreshed(t, request)
       \/ RequestFailed(t, request)
    /\ UNCHANGED timeouts

(* requestMoreCdnFileHashes, posted by cancelRequest.                      *)
PostedCall(t) ==
    /\ Alive
    /\ mgr.posted[t]
    /\ Becomes(AskForHashes([mgr EXCEPT !.posted[t] = FALSE], t))
    /\ UNCHANGED <<timeouts, troubles>>

-----------------------------------------------------------------------------
(* The rest of the program starts and cancels files, and destroys loaders  *)
(* that are done or failed.                                                *)
Start(t) ==
    /\ Alive
    /\ mgr.status[t] = "new"
    /\ Becomes(Enqueued([mgr EXCEPT !.status[t] = "loading"], t))
    /\ UNCHANGED <<timeouts, troubles>>

Cancel(t) ==
    /\ Alive
    /\ mgr.status[t] = "loading"
    /\ Becomes(Failed(mgr, t))
    /\ UNCHANGED <<timeouts, troubles>>

Destroy(t) ==
    /\ Alive
    /\ mgr.status[t] \in {"done", "failed"}
    /\ Becomes([Removed(mgr, t) EXCEPT !.status[t] = "gone", !.posted[t] = FALSE])
    /\ UNCHANGED <<timeouts, troubles>>

(* A request was restarted by its time-out, or took too long; then the     *)
(* session is told of later, and may be another one by then.               *)
SessionTimedOut(session) ==
    /\ Alive
    /\ timeouts < MaxTimeouts /\ timeouts' = timeouts + 1
    /\ Becomes(TimedOut(mgr, session))
    /\ UNCHANGED troubles

(* The timer of killSessions: see Balanced for its Asserts.                *)
KillSessions ==
    /\ Alive
    /\ mgr.kill
    /\ mgr' = [mgr EXCEPT
                !.sessions = [i \in DOMAIN mgr.sessions |-> NewSession],
                !.timeouts = 0, !.removeIndex = 0, !.removeTimes = 0,
                !.removed = FALSE, !.total = 0, !.kill = FALSE]
    /\ UNCHANGED <<timeouts, troubles>>

-----------------------------------------------------------------------------
Next ==
    \/ \E t \in Tasks : \E request \in mgr.sent[t] : Answer(t, request)
    \/ \E t \in Tasks : PostedCall(t) \/ Start(t) \/ Cancel(t) \/ Destroy(t)
    \/ \E session \in 1 .. MaxSessions : SessionTimedOut(session)
    \/ KillSessions

Spec == Init /\ [][Next]_vars

-----------------------------------------------------------------------------
(* The places under way, and those of one session.  A request is the only  *)
(* one for its place.                                                      *)
Asked(d) ==
    {place \in Tasks \X Offsets : \E r \in d.sent[place[1]] : r.offset = place[2]}

InSession(d, i) ==
    {place \in Tasks \X Offsets :
       \E r \in d.sent[place[1]] : r.offset = place[2] /\ r.session = i}

(* The balance is that of the requests under way, whatever was cancelled,  *)
(* moved or repeated, and sessions are stopped only while nothing is       *)
(* requested.  No request or part is left to a session that is gone.  The  *)
(* Asserts of changeRequestedAmount, requestSucceeded and killSessions     *)
(* hold, and those of removeSession as long as no more is requested than   *)
(* the sessions may wait for.                                              *)
Balanced ==
    /\ \A i \in DOMAIN mgr.sessions :
         mgr.sessions[i].requested = Cardinality(InSession(mgr, i))
    /\ mgr.total = Cardinality(Asked(mgr))
    /\ \A t \in Tasks :
         /\ \A r, s \in mgr.sent[t] : r.offset = s.offset => r = s
         /\ \A r \in mgr.sent[t] : r.session \in DOMAIN mgr.sessions
         /\ \A part \in mgr.unchecked[t] : part[2] \in DOMAIN mgr.sessions
    /\ mgr.kill => mgr.total = 0
    /\ Alive /\ Len(mgr.sessions) > 1 /\ mgr.total <= Charge =>
         ~RemoveSession(mgr).clash

(* A part that a file has gone past was given, is asked for, or waits for  *)
(* hashes that are asked for, or will be when the posted call is made;     *)
(* after ChangeCdn the hashes may be forgotten.  A file that is done was   *)
(* given whole.                                                            *)
HashesAreAskedFor(t) ==
    \/ mgr.posted[t] \/ mgr.orphaned[t]
    \/ \E r \in mgr.sent[t] : r.kind = "hashes"

NoPartIsLost ==
    \A t \in Tasks :
        /\ mgr.status[t] \in {"loading", "done"} =>
             \A offset \in 0 .. mgr.next[t] - 1 :
                \/ offset \in mgr.fed[t]
                \/ \E r \in mgr.sent[t] : r.offset = offset
                \/ /\ \E part \in mgr.unchecked[t] : part[1] = offset
                   /\ HashesAreAskedFor(t)
        /\ mgr.status[t] = "done" => mgr.fed[t] = Offsets

(* Nobody waits for nothing: when no answer, no posted call and no         *)
(* destruction of a loader is to come, then every file that was started    *)
(* has ended, but for those whose parts ChangeCdn forgot.  So a file gets  *)
(* its turn behind others whatever was cancelled, moved or removed.        *)
Quiet ==
    \A t \in Tasks : /\ mgr.sent[t] = {} /\ ~mgr.posted[t]
                     /\ mgr.status[t] \notin {"done", "failed"}

NobodyIsStuck ==
    Quiet => \A t \in Tasks : mgr.status[t] = "loading" => mgr.orphaned[t]
=============================================================================
