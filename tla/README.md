# Telegram Desktop: a verification project

TLA+ modules for the parts of Telegram Desktop in which several parties keep
state together: the client and the server's streams of updates, sessions on
several threads and the keys of their datacenter, requests and their answers,
the queues by which threads call each other, the requests about a chat, and
downloads over several sessions. The modules are translated from
`src/Telegram/SourceFiles` and `src/Telegram/lib_crl`; paths below are
relative to the first, or begin with `lib_crl`.

    tlc -workers 2 -config common_safety.cfg MCCommonUpdates.tla
    tlapm CommonUpdates_proofs.tla

`PROJECT.json` lists the components, the runs with their properties, a mutant
for each property (a definition of the model and a faulty form of it that the
property rejects), the source lines of each definition, the hazards of the
code and the theorems.

## 1. The system

### Components

| component | its state | its operations | who it talks to |
|---|---|---|---|
| updates (`api/api_updates.cpp`, `data/data_pts_waiter.*`, `data/data_channel.h`) | a pts counter for the account and one per channel, held updates, deadlines, a request for a difference | feed updates, get a difference, retry, poll open channels | the server's pushes and answers; the data of the session |
| keys of a datacenter (`mtproto/details/mtproto_dcenter.*`, `..._bound_key_creator.*`, `..._dc_key_binder.*`) | temporary and persistent key, flags of creations | acquire, release on done or fail, destroy | sessions on several threads, the instance on the main thread |
| session (`mtproto/session.*`, `session_private.*`) | requests to send and sent, containers, acknowledged ids, the connection's state, timers | send, resend, receive, reset, reconnect | the instance, the Dcenter, connections |
| instance (`mtproto/mtp_instance.*`) | callbacks, delayed requests, keys to save, exports of the authorization | send, cancel, process an answer, save keys, migrate | sessions, config loaders, all of the client |
| queues of calls (`lib_crl/crl/*`) | a list without locks, a flag | push, wake, process | every thread; sessions, the cache, export and media run on them |
| connections (`mtproto/connection_*`, `mtproto/details/*_socket.*`) | a socket, framing | connect, send, receive | one session |
| configuration (`mtproto/config_loader.*`, `special_config_request.*`, `details/mtproto_domain_resolver.*`, `mtproto_dc_options.*`) | addresses of datacenters | load from several sources | the instance |
| senders (`mtproto/sender.h`, `mtproto_concurrent_sender.*`) | handlers of one owner | send, cancel, run handlers on a queue | the instance |
| downloads (`storage/download_manager_mtproto.*`, `file_download*`) | queues, sessions' balance, parts | request parts, balance, cancel | senders, the cache |
| uploads (`storage/file_upload.*`) | files, parts in flight | send parts, confirm, cancel | senders |
| streaming (`media/streaming/*`) | slices of a file, semaphores | fill, wait, cancel | a loader on another thread, the cache |
| cache (`lib_storage`) | a binlog and files | put, get, prune, compact | the file system |
| local storage (`storage/storage_account.*`, `details/storage_file_utilities.*`) | files in pairs | write, read | the file system |
| lists of messages (`storage/storage_sparse_ids_list.*`, ...) | slices of ids | add, remove, query | answers and updates |
| histories (`data/data_histories.*`, `history/history.*`) | requests per history, read marks, counters | send, read, delete | the API, updates |
| sending (`api/api_sending.*`, `data/data_scheduled_messages.*`) | local messages | send, edit, schedule | histories, updates |
| data (`data/data_session.*` and peers) | objects | fill from answers | all |
| calls (`calls/*`) | the state of a call | request, accept, confirm, hang up | the API, updates, a media library |
| export (`export/*`) | a sequence of requests | run, stop | the API |
| accounts (`main/*`), application (`core/*`), the pipe of this fork (`pipe/*`) | life cycles | start, log out, quit | all |
| interface, platforms, settings, languages, libraries | widgets, values | paint, format | the main thread |

The client is a main thread with its event queue, a few threads that run the
private parts of sessions, queues for files and media, and the server at the
other end of connections that break. Components on the main thread call each
other directly or post a call for later; private parts of sessions post to the
main thread and share maps under locks with it.

### What is hard, and what has to be true

- **Updates** come as pushes, inside answers, as counts only, or not at all,
  in any order, beside a difference that covers some of them, with a session
  that ends. Nothing at or below the counter may be missing, whatever is held
  back must be released, gaps must be asked for, and a failed difference must
  be retried.
- **Keys**: sessions on several threads find no key at once; a creation goes
  from a session to a creator to a binder and back through restarts, errors
  and destructors; a persistent key is destroyed while another is bound to it.
  Only one creates, the others are woken, a key is bound to the persistent key
  in use, and the file holds that key.
- **Requests**: answers, acknowledgements and states arrive for messages that
  already wait to be sent again; ids are renewed; the main thread cancels what
  the other thread is sending; buffers of ids are bounded. A caller gets its
  answer, and the server does not execute a request twice.
- **Queues of calls**: a push and its wake are two steps, and so are the end
  of a turn and the look whether more has come. One thread processes a queue
  at a time, in order, and nothing is left over.
- **Histories**: an entry of a chat is asked for while a request changes it,
  lists of messages and deletions overtake each other on the server, marks are
  collected, sent and overtaken. What was deleted does not come back, what
  waits is sent, a mark only advances and reaches the server.
- **Downloads**: sessions are added, removed and stopped while their requests
  are under way; parts are moved, asked for again from a CDN, or wait for
  hashes. The balance is exact, no part is lost, the queue goes on.
- **Uploads, streaming** (planned): parts out of order, with cancellation and
  limits; every part once, and no waiting on nobody.
- **Cache and local storage** (planned): a crash between two writes; what is
  read back was written.
- **Sending, calls** (planned): an answer and an update tell the
  same thing in either order.

`hazards` in `PROJECT.json` gives these at their lines with the properties
that cover them. Three of them have no property because the code goes wrong
there, so that one would only fail: the deletion of a channel that never
finishes, hashes that came without sending the next part, and parts that wait
for hashes while a file is redirected again. The observations at the end of
section 6 describe them.

## 2. The modules

| module | what it is | proofs |
|---|---|---|
| `PtsWaiter` | the counter of one stream: `check`, `updated`, held updates, the waiting flags (`data/data_pts_waiter.cpp`) | through its users |
| `SyncedLog` | the abstract promise of a stream: a client that is synced up to a point has all that counts below it | refined by `CommonUpdates` |
| `CommonUpdates` | the account's stream: `PtsWaiter` with getState/getDifference, its slices, failures and retry, new sessions, pushes, API answers and counts | `CommonUpdates_proofs` |
| `ChannelUpdates` | a channel's stream: `PtsWaiter` with getChannelDifference, told pts, retry and the short poll | `ChannelUpdates_proofs` |
| `PtsCover` | not code: the values of a counter that a set of updates accounts for, used by the invariants and proofs of both streams | `PtsCover_proofs` |
| `KeyCreation` | the Dcenter and what its sessions and the instance do with keys | `KeyCreation_proofs` |
| `SessionRequests` | the requests of one session from `sendRequest` to `processCallback` | `SessionRequests_proofs` |
| `CallOrder` | what a queue promises: calls are made one at a time, in the order they were accepted | refined by `CallQueue` |
| `CallList` | the list of calls, each access to its head a step | through its users |
| `CallQueue` | `crl::queue`: the list, the flag and turns of a pool of threads | `CallQueue_proofs` |
| `CallThread` | an object with a thread of its own: the same list, another way to wake | none, its run is a counterexample |
| `Histories` | `Data::Histories`: requests of a chat that wait for one another, entries of the list of chats, read marks | `Histories_proofs` |
| `Downloads` | `DownloadManagerMtproto` and its tasks for one datacenter | `Downloads_proofs` |

Each component has an `MC...` module that TLC is started on; only
`MCKeyCreation` adds something, a symmetry and an order in which free keys are
taken. `PtsWaiter` is shared by the two streams, `CallList` by the two queues;
the components otherwise meet in what each takes for granted of the others: the
order and the losses of a connection, a main thread that runs one handler at a
time, answers that come once or with an error.

Operators that a reader will not find in the code are commented as histories
(`applied`, `boundTo`, `owner`, ...) or as mutants (`...Within`, `...Always`).

### CommonUpdates, ChannelUpdates, PtsWaiter

The variables are `_good`, `_last`, `_count`, `_queue`, `_requesting`, the two
waiting flags, and whether the waiter has a deadline in `_whenGetDiffByPts` (a
`whenGetDiff` of its own per stream). `applied` stands for the session's data.
`log`, `net` and `difference` are the server, the connection and the one
request that may be under way.

`UpdateAndApply(u)` is `updateAndApply` with an update, `CountAndRelease(u,
own)` the one without; `Count` with `Passes` is `updated` and `check`, and
`ApplyNow` what `applySkippedUpdates` adds. `FeedUpdate` and
`FeedNotLoaded` are the two ways of `feedUpdate`, `ReceiveAffected` that of
answers with a pts and a count. `NewSession`, `GetDifferenceByPts`,
`DifferenceDone`, `DifferenceSlice`, `DifferenceFail` and
`GetDifferenceAfterFail` are the handlers of the same names. A handler that
feeds several updates is split by update, with no step of the client between
them. In `ChannelUpdates`, `PtsReceived` is `ChannelData::ptsReceived`, `Open`
and `Close` are `setActiveChat` with and without the channel, and
`StopShortPoll` is what `ApiWrap::deleteHistory` does to a channel that is
left.

The server publishes an update once, as a push or in an answer; an answer to
getDifference covers the log up to its pts. Left out: the seq layer above the
account's pts, qts, secret chats, and what an update does to the data.

### KeyCreation

A key is an identifier; creating one is a step that yields a key nobody used.
The Dcenter's maps, flags and its lock are variables and one step each; a
handler with several accesses to the Dcenter is several steps, with `phase`
telling how far it is. `keyCreator` is the `BoundKeyCreator` in its stages,
`bind` the request `auth.bindTempAuthKey`. `posted` and `changed` are the calls
the sessions queue for the main thread, `keysForWrite` what `Instance` saves.
`Stop`, `Kill` and `Destroy` are the main thread's, the last being the
destructors that run when the session's thread gets to them. The server
answers a binding from what it knows of the persistent key and may forget it.
Left out: CDN datacenters, the instance that only destroys keys, changes of a
datacenter's type and `connectionInited`.

### SessionRequests

Maps from message ids are sets of ids with `owner`, as ids are never used for
two requests. `msgId` and `forced` are fields of the buffer that both threads
share. `Cancel`, `CancelToSend` and `CancelHaveSent` are `Instance::cancel` in
its three critical sections, `TakeOne` and `SendOne` the sending of one
message, which releases one lock before it takes the other; a container is
sent under both locks and is one step. The `Handle...` actions are the cases
of `handleOneReceived`, with `requestsAcked` and `resend` inside of them.
`CheckSentRequests` and `ClearOldContainer` leave out how old a message is:
any may be. `down` and `up` are sets: the client may take what the server
sends in any order, or never, and `Disconnect` loses both. The module's header
lists what is left out.

### CallList, CallQueue, CallThread

`crl::queue`, `crl::object_on_queue` and `crl::object_on_thread` are used wherever one thread calls
another. A push is a load of the head, the writing of `next` and a
compare-and-swap, each its own step in `CallList`; a worker exchanges the head
for a null entry and reverses what it took. `step` and `stage` are the program
counters of those who push and those who process. `CallQueue` adds `_queued`
and the turns of the pool that were asked for (`scheduled`), `CallThread` the
condition variable of `thread_policy`. Null entries and memory are left out:
an entry is who pushed it and how many it had pushed before. Memory is
sequentially consistent, which the default orders of the atomics give.

### Histories

The record `client` holds `Histories` and what it uses of `History`: the
requests made through `sendRequest` (postponed, sent, or left by an answer
without a finish), `_dialogRequests` with the difference between an entry that
was asked for and one whose callback waits, and the marks (`willReadTill`,
`sentReadTill`, the timer). Handlers call each other, so they are functions on
this record: an answer finishes a request, which sends others. The server keeps
its mark of each chat and what it answered before a deletion (`old`); it
executes requests and answers them in any order. `Stills` stands for
`countStillUnreadLocal`, whose result depends on which messages are loaded:
every result it can have is possible.

### Downloads

The record `mgr` holds the manager's balance of the sessions of one datacenter,
its queue, and for each file its next part, its requests, the parts that wait
for hashes and the CDN it was moved to. Again one answer is one step made of
functions: `Finish`, `Succeeded`, `Feed` or `CheckedPart`, and `CheckSendNext`
in the order of the code. Amounts are parts of 128 K. How long an answer took
and whether the pause after a removal has passed are free choices, and any
session may be told of as timed out. `fed`, `orphaned` and `clash` are history
variables: which parts the loader was given, whether parts that wait for
hashes were forgotten (see the observations) and whether an `Ensures` or an
`Assert` failed, which ends the program and the model. The `Ensures` of
`placeSentRequest` can fail (see the observations); the `Assert`s of
`removeSession` cannot while no more is requested than the last session is
charged meanwhile (`Charge`), which is part of `Balanced`.

### What single steps merge or leave out

Each action is a whole handler. Where it is coarser or narrower than the code,
it is so in one of these ways. No property tells them apart, as far as a
reading of the code shows.

- *Updates.* `setWaitingForSkipped(1)` may ask for a difference at once, when
  the clock has moved on by a millisecond (`api/api_updates.cpp:550`); the
  model always leaves that to the timer, whose step may come next. A short
  message whose users are not loaded asks for a difference even while one is
  requested (lines 1412 to 1446), which does nothing; `FeedNotLoaded` has only
  the case that asks. Whether an `updateChannelTooLong` carries its pts is
  chosen when it is taken (`ChannelTooLong`).
- *Requests.* `Resend` is one step, though `_haveSent` is unlocked before
  `_toSend` is locked (`mtproto/session_private.cpp:2281` to `:2308`); so is
  `SendOne`, though `replaceMsgId` at line 772 changes `_haveSent` without its
  lock. `CancelHaveSent` takes the handler away in the same step
  (`mtproto/mtp_instance.cpp:673`), and `ProcessCallback` takes it out and puts
  it back for a request that is repeated. A cancellation inside one of these
  windows may miss the request or its handler, which then goes on although
  nobody wants it: not modelled, and forbidden by no property.
- *Queues.* `WakeAsync` sets the flag and submits to the pool in one step
  (`lib_crl/crl/common/crl_common_queue.cpp:22`): nobody else submits while the
  flag is set.
- *Histories.* `History::applyDialog` (`history/history.cpp:2782`) calls
  `dialogEntryApplied` for each dialog of the answer, and the end of the answer
  calls it again; the second call finds nothing to do, and `EntryApplied` is
  the one call.
- *Downloads.* A file is started once, where the code may `start()` one that
  is loading again, which only moves it in the queue and sends. Any session may
  be told of as timed out (`SessionTimedOut`), also where the size check at
  `storage/download_manager_mtproto.cpp:318` would ignore it. Hashes are right
  for all parts they cover or for none (`HashesCame`); the code looks part by
  part (lines 759 to 788), and a callback that cancels the file between two
  parts is not modelled. `TokenInvalid` is about a request that carries a
  token; a request of hashes that was placed after the CDN was dropped belongs
  to a file whose hashes were forgotten, which the properties leave out. The
  last part of a file whose size is not known (`_lastComplete`,
  `storage/file_download_mtproto.cpp:130`), and disks that fail, are left out.

## 3. The runs

| run | shows | bounds |
|---|---|---|
| `common_safety` | over a connection that reorders everything nothing is lost below the counter (`NoUpdateLost`), gaps are asked for (`GapIsWaitedFor`), what is held is new and will be released (`HeldIsAhead`), updates take effect in order (`AppliedInOrder`), a retry and a request exclude one another, and the client implements `SyncedLog` | three pts, counts 1 and 2 |
| `common_live` | a pushed update is applied (`PushedIsApplied`) and a pts heard of is reached (`HeardIsReached`) | the same, with a connection in order |
| `channel_safety` | nothing is lost from where the channel is first known, with told pts that may be out of date and failing differences; the short poll of an open channel survives (`PollStaysOn`), and the channel catches up although nothing is pushed (`OpenChannelCatchesUp`) | two pts, counts 1 and 2, the channel unknown at the start |
| `channel_retry` | *violated*: a failed getChannelDifference is not made again | two updates |
| `keys_safety` | creations exclude each other, what `Expects` says of their flags holds, keys are bound to the persistent key in use, the saved key is that key | a regular and a media session, four keys, one rejected key |
| `keys_live` | every regular session comes to use a key the server knows | two sessions, five keys, one loss |
| `keys_leak` | *violated*: a refused binding leaves the flag of a creation that nobody carries out | a regular and a media session |
| `requests_safety` | a request with a callback is never forgotten (`NotForgotten`), is executed once unless it failed, was repeated and met a later session of the server (`ExecutedOnce`), and is not sent again once answered (`AnsweredIsNotSent`) | two requests, four messages, one failure, one request may be cancelled |
| `queue_order` | one thread at a time processes the queue (`OneProcessor`), what is in the list has a turn to come (`NobodyIsForgotten`), the queue implements `CallOrder` (`CallsInOrder`) and every call is made (`EveryCallIsMade`) | two threads that push three calls each, two of the pool |
| `thread_lost` | *violated*: a call pushed on a queue with its own thread may never be made | two threads, one call each |
| `histories` | what was deleted does not come back (`NoDeletedMessageReturns`), what waits has something under way that will release it (`NothingIsStranded`), a mark is on its way to the server until it is there (`ReadIsOnItsWay`) and goes forward only (`ReadsOnlyAdvance`), a postponed request is sent (`PostponedIsSent`) and a wanted entry comes (`EntryIsAwaited`) | one chat, two messages, two requests, one entry asked for or mark of another device |
| `downloads` | the amounts are those of the requests under way, one for each place, sessions are stopped only without any, and removing one leaves nothing behind (`Balanced`); a part is given, asked for, or waits for hashes that are asked for, and a file that is done was given whole (`NoPartIsLost`); when nothing is to come, every file has ended (`NobodyIsStuck`) | two files of two parts, one on a CDN, two sessions of two or three parts, two time-outs, two redirects or errors |

Why the bounds are enough. *Updates*: a hole needs an update that is missing
and one that came; counting mistakes need counts that add up in two ways
(1 + 1 and 2), and a race with a difference needs one update on each side of
its pts: three pts have all of these. A channel that is learnt of has one on
each side with two. *Keys*: two sessions of two types share both the
persistent key and the flag of the regular type; a third would repeat one of
them. Four keys are a persistent and a temporary one, and another of each
after a loss. *Requests*: two requests make the smallest container whose
members part, and four ids let a request be sent alone, in a container, and
again in another, with a state request or after a reset. One request with five
ids and three troubles (5 million states) was checked as well: it is the
instance that shows why `ExecutedOnce` has its exception. *Queues*: two of a
kind meet in each step, and with three calls a thread pushes before, during
and after a turn. *Histories*: chats meet only in the batch of entries, and
larger instances held as well, for safety alone (one chat with three requests,
2.2 million states; two chats, 9 million). *Downloads*: two sessions have one
to remove and one to move to, and the file that is not on a CDN is what the
other could hold up. With two files on the CDN and one slot each the property
fails: see the observations.

The server of `keys_safety`, `channel_safety` and `requests_safety` may fail at
any moment up to the named bound; that of `histories` and `downloads` may
refuse any request.

CHECK_DEADLOCK is off where the model may really stop: all sessions killed,
all keys used, all requests answered, all calls made, all files ended.

### Fairness

- `CommonUpdates`, `ChannelUpdates`: weak fairness of the timers, since a
  deadline that is set and not cleared fires; strong fairness of answering,
  delivering and taking a message, since a connection that breaks is replaced
  and the session sends the request again. Publishing, failing, opening and
  closing are never forced.
- `KeyCreation`: weak fairness of each session's handlers and of the main
  thread's queue, each of which runs when its queue reaches it, and of the
  creation and the binding of a key. Strong fairness only for `BindDestroyed`:
  while the key is young the same answer makes the session bind once more
  instead, and the key does not stay young. Failures end:
  `<>[][~Failure]_vars`; without it the network may refuse every binding
  forever and nothing can be said.
- `CallQueue`, `CallThread`: weak fairness of each thread, as the system
  schedules it. A condition variable may wake without a reason, but is not
  forced to.
- `Histories`: weak fairness of the main thread's calls and timers, of the
  server and of the answers, taken together: with bounded requests each of
  these steps brings the end nearer. What a user does is never forced.
- `SessionRequests` has no liveness property yet. `Downloads` has none either:
  `NobodyIsStuck` says in each state what would have to happen next, and all
  answers, posted calls and destructions are finite in number.

`keys_live` is about regular sessions. A media session that keeps its key over
a reconnect holds a creation it does not start (see the hazard at
`session_private.cpp:2394`); whether that can happen depends on what the
server accepts on a media connection, which the code does not tell.

### What disagrees with the code's own words

The three runs marked *violated* are disagreements between a comment or a log
line and what the code does; `findings` quotes them. In short:
`getDifferenceAfterFail` (`api/api_updates.cpp:444`) runs while the channel is
still marked as requesting, and so does nothing; a refused binding
(`mtproto/details/mtproto_dcenter.cpp:143`) returns before the flag is cleared;
and a thread that is late to wake the worker of a `crl::object_on_thread`
(`lib_crl/crl/crl_object_on_thread.cpp:33`) sets a flag that nobody
clears, so that the next call wakes nobody.

## 4. What is proved

For every value of the constants that the named assumptions allow, with no
bound on the number of updates, sessions or keys.

**`CommonUpdates_proofs`.** Assumptions: counts are natural numbers, the
stream starts at a positive pts, and, for `GapsAreWaitedFor` and
`UpdatesApplyInOrder`, every update counts (`0 \notin Counts`), since an update
with a count of zero is let through a gap by `check`.

- `TypeCorrect`; `NothingIsLost` (`NoUpdateLost`); `HeldUpdatesAreAhead`;
  `RetriesNeverOverlap`; `GapsAreWaitedFor`; `UpdatesApplyInOrder`, an action
  property; `ImplementsSyncedLog`, the refinement.
- *The argument.* `NoUpdateLost` is not inductive: the waiter compares
  `_count`, a sum of what it heard, with `_last`, and nothing in these numbers
  says which updates were summed. So the invariant counts points: an update
  stands for `count` points ending at its pts, two updates share none
  (`LogInv`), a point is `Covered` when its update is applied or held, and
  `_count` is at most `_good` plus the number of covered points up to `_last`
  (`CountersInv`). When they are equal (`Complete`) all points are covered,
  and as `_good` and `_last` are never inside an update (`Boundary`) every
  update up to `_last` is there (lemma `CompleteHasAll`). `NetInv` says that no
  update is on its way twice and that a difference on its way reaches at least
  the counter. The facts about counting points are lemmas of
  `PtsCover_proofs`, which both streams share.

**`ChannelUpdates_proofs`.** Assumptions: counts are natural numbers, zero
among them, and the stream starts at a positive pts.

- `TypeCorrect`; `NothingIsLost` (`NoUpdateLost`); `RetriesNeverOverlap`;
  `PollIsKept` (`PollStaysOn`, for a channel whose pts is known at first).
- *The argument.* `StreamInv` counts points as above, with three differences:
  the client follows a channel from `start`, where it first learns a pts, and
  answers for nothing below; a told pts counts for nothing, adds no update,
  and can only complete what is covered already (`Hearing`, `CompleteHasAll`);
  and a push is dropped while a difference is asked for, which loses nothing
  because it lies above the counter or is applied. `RetryInv` adds that one
  answer at most is on its way, and `PollInv` that no answer takes the pts of
  an inited channel back to zero.

**`KeyCreation_proofs`.** Assumptions: media sessions are sessions, `NoKey` is
no key. Any number of sessions.

- `TypeCorrect`; `CreationsAreHeld` (`HeldAsExpected`);
  `CreatorsExcludeEachOther` (`OneCreator`); `KeysAreBound`
  (`BoundToPersistent`); `SavedKeyIsInUse` (`SavedKeyIsCurrent`).
- *The argument.* `FlagsAreHeld`, `Stages` and `OneCreator` support each other:
  a step that clears a flag or writes a key is made by the one session that
  holds it. `BoundToPersistent` needs that a session creates a persistent key
  only while there is none (`PersistentIsMissing`) and that its new key is
  nobody else's (`NewKeyIsFresh`). `SavedKeyIsCurrent` is about an empty
  queue; `PostedInOrder` says what a queue that is not empty may hold: one
  creation at most, of the key in use, behind destructions of other keys only.

**`CallQueue_proofs`.** Any threads, any number of calls each.

- `TypeCorrect`; `OneProcessorAtATime` (`OneProcessor`); `NothingIsForgotten`
  (`NobodyIsForgotten`); `ImplementsCallOrder` (`CallsInOrder`), the
  refinement: no step but those of `CallOrder`, or a stutter.
- *The argument.* `_queued` is a token (`TokenInv`): it is set exactly while
  one turn is scheduled or one thread processes, so the test-and-set of those
  who wake cannot make a second one. Given a single processor, the calls that
  were accepted are at any time those made, those it has taken and the reverse
  of the list (`OrderInv`); each push and each turn moves calls from one part
  to the next. Lemmas on `Reverse` and concatenation carry the sequences.

**`SessionRequests_proofs`.** Assumptions: the numbers of requests are positive
integers and the bounds are natural numbers. Any requests, any of them
cancelled, any failures.

- `TypeCorrect`; `NobodyIsForgotten` and `NobodyIsForgottenEarly`
  (`NotForgotten`); `ExecutesOnce` (`ExecutedOnce`); `AnsweredIsNotSentAgain`
  (`AnsweredIsNotSent`).
- *The argument.* Two forms of step carry the proofs: `SendingStep` is what
  sending one request and sending a container have in common, `Moves` what
  every handler that returns or ends messages does to the maps
  (`RequestsAckedMoves`, `ResendMoves`, `HandleInfoMoves`). With them each
  invariant is checked against a few kinds of step. `TypeInv` adds to the types
  that an id never changes its request and that what is remembered was
  numbered (`IdsOfRequests`).
  `NotForgotten` has a hypothesis: `_ackedIds` has room (`RoomForAcked`,
  `NothingTrimmed`). The code trims it to `kIdsBufferSize`, from the smallest
  id, and an answer trimmed at once is lost; the theorem is about behaviors in
  which that does not happen, and `NobodyIsForgottenEarly` about constants
  with which it cannot.
  `ExecutedOnce` follows from two invariants. `OneId`: a request that was not
  repeated is on its way, and executed, under the id in its buffer only, as
  ids are given anew just before the first message of a session (`NotBegun`).
  `FirstSession`: while the server has not lost its session, any other id is
  that of a message that failed and was answered (`OldIdsAreSpent`), which is
  also all that makes a request delayed (`FailedIsSpent`).
  `AnsweredIsNotSent` needs in addition where the messages of a request are
  (`Places`): an answered one is in no map, and a request that waits was taken
  out of `_haveSent`.

**`Histories_proofs`.** Assumptions: finitely many chats, at least one message,
and the bounds are natural numbers.

- `InvCorrect` (the inductive invariant); `TypeCorrect`; `DeletedStayDeleted`
  (`NoDeletedMessageReturns`); `NothingStranded` (`NothingIsStranded`);
  `ReadKept` (`ReadIsOnItsWay`); `ReadsAdvance` (`ReadsOnlyAdvance`).
- *The argument.* `Good` is what each function on `client` expects and leaves,
  so that a handler made of several of them is a chain of lemmas
  (`SendRequestIs`, `RepeatIs`, `FinishRequestIs`, `ReadTillIs`,
  `ReadAnsweredIs`, `EntryAppliedIs`, ...). Two things are stronger than what
  the runs check. `DeletionsAlone`: while a deletion is sent no request of
  History is, which is why the server can never have answered one when it
  deletes. `MarksInOrder`: a mark that waits is larger than all that were
  sent, and one that was given up lies below what the chat is known to be read
  to; with the second half the next mark is larger although `sentReadTill` is
  zero again. `Needs` is the number of requests made and in store, one for each
  mark and each callback that waits: no handler makes it grow past the bound,
  the reason why `made` stays in its type. `sendReadRequests` and an answer
  with entries are folds over a set of chats. Their lemmas are not by
  induction: were there sets whose fold broke the claim, a smallest one of
  them would be one chat away from a set whose fold does not (`MinimalSet`).
  `Step` says what a handler may do to requests that stay, so that the answers
  which the server has given remain those of these requests (`ServedRight`).

**`Downloads_proofs`.** Assumptions: finitely many files, the sizes and
numbers of `SizesAssumption` are positive, and a session starts with no more
than the most it may wait for. Any files, on the CDN or not, parts and
sessions.

- `ManagerIsSound` (the inductive invariant); `TypeCorrect`; `BalanceIsKept`
  (`Balanced`); `PartsAreKept` (`NoPartIsLost`).
- *The argument.* The handlers are chains of functions on `mgr`, and between
  two links the properties do not hold: a request is finished before its part
  is given or asked for again, and the session that is removed is charged for
  what nobody requested. So `Sound(d, x, M, H)` takes what is excused as
  parameters: the charge `x`, the places `M` a handler works on, and the files
  `H` that wait for hashes nobody has asked for yet. Each function has a lemma
  that says what it excuses and what it makes good (`FinishedIs`, `FeedIs`,
  `CheckedPartIs`, `ChangeCdnIs`, ...); a handler starts and ends with nothing
  excused (`Fine`). The amounts are cardinalities of sets of places
  (`InSession`, `Asked`), which need that a request is the only one for its
  place; that is `Placed`, and is lost only where the `Ensures` fails.
  `InQueue`, that a file being loaded is in the queue, is what
  `removeSession` needs: it walks the queue, and the requests of a file that
  is not there would keep their session. That a session other than the last
  is chosen follows from the sum: with no more than `Charge` requested none
  has more than the last one, and of equals the first is chosen
  (`AnotherIsChosen`).
  There are seven folds over requests, parts and files; their lemmas rest
  on a smallest counterexample, as in `Histories` (`MinimalSet`), and the fold
  over the queue on the first place where it goes wrong.

The invariants were model-checked on the instances of `common_safety`,
`keys_safety`, `queue_order`, `requests_safety`, `downloads` and, for one chat
with three messages and two or three requests, of `histories`, before they
were proved.

**Only model-checked:** `NobodyIsStuck` of `Downloads`, which does not hold
for every value of the constants (see the observations); liveness under
fairness and whatever needs ENABLED, which the prover does not reach; and the
violated properties, which are counterexamples. What is defined by recursion
over data could not be proved for every input either; the folds of `Histories`
and `Downloads` are over finite sets and sequences and need no more than a
smallest counterexample.

## 5. Not modelled, and why

`components` has the list with reasons. In short: cryptography and sockets
(arithmetic and I/O), serialization and generated code (no state), painting,
platforms and vendored libraries (reactions to state kept elsewhere), settings
and languages (values). What is left out of a modelled component is in its
note and in the header of its module.

## 6. The plan

In this order; a module is written to be proved about, with constants and
their assumptions, an action per operation, invariants in named parts and no
recursive operator.

1. `SessionRequests`: the session a message was numbered in, when a message
   is asked about, invokeAfter, and liveness (`every request is answered once
   failures end`). An abstract `Requests` (asked, executed, answered) for it
   to implement.
2. What `CommonUpdates_proofs` and `ChannelUpdates_proofs` say of the waiter
   twice (`HandedMoves`, `HandedCounts`), once, for any source of updates.
3. The seq layer above the account's pts, and the instance: exports of the
   authorization, migration and delayed requests; the race noted in
   `mtproto/session.cpp` on `notifyConnectionInited`.
4. `Sending` (local ids), composed with `Histories` and `CommonUpdates`.
5. Priorities of `Downloads`, `Uploads`, `StreamingReader`; `SparseIds` as a
   pure algorithm against a reference definition.
6. `BinlogCache` and `AccountFiles` with crashes between writes, each against
   an abstract store.
7. `Call`, `Export`, the domain resolver and the loading
   of the configuration.

Runs: one for safety and one for liveness per module, within three pts, two
or three actors and one or two failures; a violated run only for a real
disagreement.

Observations without a run of their own, met while modelling:

- `ptsReceived` (`data/data_channel.h:389`) arms the wait for a gap and cancels
  it in the same call (`data/data_pts_waiter.h:24`);
- a creation of a key that ends by its session's destructor
  (`mtproto/session.cpp:502`) is released without waking those who wait;
- an answer whose id is smaller than the newest `kIdsBufferSize` acknowledged
  ones (`mtproto/session_private.cpp:2189`) is erased between being
  acknowledged and being looked for;
- differenceTooLong (`api/api_updates.cpp:466`) is logged and leaves the
  account's stream requesting, and a failed getState (line 268) has no handler;
- channels.deleteChannel (`data/data_histories.cpp:705`) never finishes its
  request, so the requests of lists of the chat are postponed for good;
  `PostponedIsSent` and `EntryIsAwaited` exempt such a chat;
- a failed GetPeerDialogs counts as an empty entry and a failed read as read
  (`data/data_histories.cpp:421` and `:627`); `dialogEntryApplied` keeps a
  pointer to its state over the callbacks it makes (line 427);
- the answer with hashes (`storage/download_manager_mtproto.cpp:749`) does not
  send next parts. With two files of three parts on the CDN and one session of
  two parts (`CdnTasks = {a, b}`, `Parts = 3`, `MaxSessions = 1`) TLC finds a
  state in which both hash requests took the room, both were answered, parts
  are left and nothing is under way (`NobodyIsStuck`). In the code it takes
  four such files at first, and another start or answer sets it going again;
- `changeCDNParams` (line 1027) makes a request of hashes one of a part, and
  keeps the parts that wait: no hashes are asked for any more, and the file
  does not end. If it is redirected to the CDN again, hashes are asked for at
  the offset of a part under way and `Ensures(ok1 && ok2)` (line 819) fails.
  TLC finds it in seven steps for one file, two parts and three troubles when
  `Alive` is made an invariant of the instance;
- `kMaxTrackedSuccesses` (line 30) is 64 times three, but after 64 removals 65
  times three successes are required (line 275): a session is never added again;
- with updates of count zero, `check` (`data/data_pts_waiter.cpp:165`) lets
  one through a gap and clears the deadline of the gap before it;
- a channel shown before its pts is known (`api/api_updates.cpp:704`) loses
  the deadline that the comment on line 70 promises;
- after the restart at `mtproto/session_private.cpp:2465` a creator that
  exists already makes `tryAcquireKeyCreation` return the old type (line
  2509), and the regular key is created over the media connection;
- after a reset, requests that `kCutContainerOnSize` leaves for a second
  container keep the ids and sequence numbers of the old session, which the
  reset was meant to replace (`mtproto/session_private.cpp:593`);
- a message sent alone never starts the timer of `checkSentRequests`
  (`mtproto/session_private.cpp:797` and `:976`);
- a request that failed is repeated under another id while an old message of
  it may still be on its way: if the server loses its session in between it
  executes both (`SendDelayed` is `mtproto/mtp_instance.cpp:972`). The first
  form of `ExecutedOnce` denied this; TLC finds it with three troubles and five
  ids, and the proof asks for the exception that the property now states;
- a message the server refused stays in `_haveSent` while its request goes on
  under another id (`mtproto/session_private.cpp:1638`).
