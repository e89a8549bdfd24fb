---------------------------- MODULE KeyCreation ----------------------------
(***************************************************************************)
(* How the sessions of one datacenter share its keys (mtproto/details/     *)
(* mtproto_dcenter.cpp, mtproto/session.cpp, session_private.cpp).         *)
(*                                                                         *)
(* Traffic is encrypted with a temporary key, one for the regular and one  *)
(* for the media cluster, which is bound to the datacenter's persistent    *)
(* key.  A session that finds no temporary key tries to acquire the        *)
(* creation of one; the others wait until it is done.                      *)
(*                                                                         *)
(* Each session runs its SessionPrivate on a thread, and sessions of one   *)
(* datacenter run on several.  A step below is a part of a handler with at *)
(* most one access to the Dcenter, which is what its lock makes atomic     *)
(* (releasing a flag of one's own comes together with the access before or *)
(* after it).  Stopping and killing sessions and keyDestroyedOnServer      *)
(* belong to the main thread.                                              *)
(*                                                                         *)
(* Left out: CDN datacenters, whose keys are not bound, the instance that  *)
(* only destroys keys, and changes of a datacenter's real type.            *)
(***************************************************************************)
EXTENDS Naturals, Sequences

CONSTANTS
    Sessions,
    MediaSessions,   \* those whose _realDcType is MediaCluster
    Keys,            \* identifiers of keys
    NoKey,
    MayStop,         \* TRUE: the main thread may stop and kill sessions
    MayForget,       \* TRUE: the server may forget a persistent key
    MaxLosses        \* bound: how often the server rejects a key it knew

ASSUME MediaAssumption == MediaSessions \subseteq Sessions
ASSUME NoKeyAssumption == NoKey \notin Keys
ASSUME FlagsAssumption == {MayStop, MayForget} \subseteq BOOLEAN
ASSUME LossesAssumption == MaxLosses \in Nat

VARIABLES
    temporaryKeys,   \* Dcenter::_temporaryKeys
    persistentKey,   \* Dcenter::_persistentKey
    creatingKeys,    \* Dcenter::_creatingKeys
    boundTo,         \* history: what each temporary key was bound to
    object,          \* what became of each session
    myKeyCreation,   \* Session::_myKeyCreation
    keyCreator,      \* SessionPrivate::_keyCreator and its stage
    bindKey,         \* the persistent key in _keyCreator's binder
    bind,            \* the bind request (_bindMsgId) and its answer
    key,             \* the session's _keyId
    currentType,     \* _currentDcType
    phase,           \* the connection, or the handler that is under way
    updates,         \* updateAuthKey is queued for the session
    changed,         \* dcTemporaryKeyChanged is queued for the main thread
    posted,          \* queued for the main thread: changes of persistent keys
    keysForWrite,    \* Instance::_keysForWrite: the key that is saved
    forgotten,       \* keys the server does not know any more
    losses           \* how often it rejected a key it knew

dcVars == <<temporaryKeys, persistentKey, creatingKeys, boundTo>>
mainVars == <<changed, posted, keysForWrite>>
serverVars == <<forgotten, losses>>
sessionVars == <<object, myKeyCreation, keyCreator, bindKey, bind, key,
                 currentType, phase, updates>>
vars == <<dcVars, mainVars, serverVars, sessionVars>>

-----------------------------------------------------------------------------
(* Both TemporaryKeyType and, without CDN, DcType.                         *)
Types == {"regular", "media"}
Creations == {"none", "persistent", "temporaryRegular", "temporaryMedia"}
KeyOrNone == Keys \cup {NoKey}

RealType(s) == IF s \in MediaSessions THEN "media" ELSE "regular"

(* IndexByType of a CreatingKeyType.                                       *)
TypeOf(creation) == IF creation = "temporaryMedia" THEN "media" ELSE "regular"

TypeOK ==
    /\ temporaryKeys \in [Types -> KeyOrNone]
    /\ persistentKey \in KeyOrNone
    /\ creatingKeys \in [Types -> BOOLEAN]
    /\ boundTo \in [Types -> KeyOrNone]
    /\ object \in [Sessions -> {"stopped", "running", "killed", "gone"}]
    /\ myKeyCreation \in [Sessions -> Creations]
    /\ keyCreator \in [Sessions -> {"none", "idle", "creating", "bound"}]
    /\ bindKey \in [Sessions -> KeyOrNone]
    /\ bind \in [Sessions -> {"none", "sent", "ok", "destroyed", "failed"}]
    /\ key \in [Sessions -> KeyOrNone]
    /\ currentType \in [Sessions -> Types]
    /\ phase \in [Sessions -> {"down", "connecting", "up", "look", "acquire"}]
    /\ updates \in [Sessions -> BOOLEAN]
    /\ changed \in BOOLEAN
    /\ posted \in Seq([type : {"created", "destroyed"}, key : Keys])
    /\ keysForWrite \in KeyOrNone
    /\ forgotten \subseteq Keys
    /\ losses \in Nat

(* The datacenter starts with the persistent key that was saved, or none.  *)
Init ==
    /\ temporaryKeys = [t \in Types |-> NoKey]
    /\ persistentKey \in KeyOrNone
    /\ keysForWrite = persistentKey
    /\ creatingKeys = [t \in Types |-> FALSE]
    /\ boundTo = [t \in Types |-> NoKey]
    /\ object = [s \in Sessions |-> "stopped"]
    /\ myKeyCreation = [s \in Sessions |-> "none"]
    /\ keyCreator = [s \in Sessions |-> "none"]
    /\ bindKey = [s \in Sessions |-> NoKey]
    /\ bind = [s \in Sessions |-> "none"]
    /\ key = [s \in Sessions |-> NoKey]
    /\ currentType = [s \in Sessions |-> RealType(s)]
    /\ phase = [s \in Sessions |-> "down"]
    /\ updates = [s \in Sessions |-> FALSE]
    /\ changed = FALSE
    /\ posted = <<>>
    /\ forgotten = {}
    /\ losses = 0

(* Fresh keys are unlike any that is still in use.                         *)
Used ==
    {persistentKey, keysForWrite}
      \cup {temporaryKeys[t] : t \in Types} \cup {boundTo[t] : t \in Types}
      \cup {key[s] : s \in Sessions} \cup {bindKey[s] : s \in Sessions}
      \cup {posted[i].key : i \in DOMAIN posted}

-----------------------------------------------------------------------------
(* Dcenter.  Each of these is one access under its lock.                   *)

(* Mutant of Acquired: "is somebody creating" is not looked at.            *)
AcquiredAlways(type) ==
    IF temporaryKeys[type] # NoKey THEN "none"
    ELSE IF type = "media" /\ temporaryKeys["regular"] # NoKey
    THEN "temporaryMedia"
    ELSE IF persistentKey = NoKey THEN "persistent" ELSE "temporaryRegular"

(* Dcenter::acquireKeyCreation: what a session of this type is to create.  *)
Acquired(type) ==
    LET forMedia == type = "media" /\ temporaryKeys["regular"] # NoKey
        place == IF forMedia THEN "media" ELSE "regular"
    IN  IF temporaryKeys[type] # NoKey \/ creatingKeys[place] THEN "none"
        ELSE IF forMedia THEN "temporaryMedia"
        ELSE IF persistentKey = NoKey THEN "persistent" ELSE "temporaryRegular"

(* Mutant of KeyIsAccepted: the persistent keys are not compared.          *)
KeyIsAcceptedBlindly(creation, usedForBind) == TRUE

(* The check in Dcenter::releaseKeyCreationOnDone.                         *)
KeyIsAccepted(creation, usedForBind) ==
    creation = "persistent" \/ persistentKey = usedForBind

(* Dcenter::releaseKeyCreationOnFail, by the session that holds the flag.  *)
ReleaseOnFail(s) ==
    /\ myKeyCreation' = [myKeyCreation EXCEPT ![s] = "none"]
    /\ creatingKeys' = IF myKeyCreation[s] = "none" THEN creatingKeys
                       ELSE [creatingKeys EXCEPT
                               ![TypeOf(myKeyCreation[s])] = FALSE]

-----------------------------------------------------------------------------
(* SessionPrivate, on its thread.                                          *)

(* tryAcquireKeyCreation: what the session acquires, the type it returns,  *)
(* and what it does.                                                       *)
Creation(s) ==
    IF keyCreator[s] = "none" THEN Acquired(RealType(s)) ELSE "none"

AcquiredType(s) ==
    IF Creation(s) # "none" THEN TypeOf(Creation(s))
    ELSE IF keyCreator[s] = "none" THEN RealType(s)
    ELSE currentType[s]

Acquire(s) ==
    \/ /\ Creation(s) = "none"
       /\ UNCHANGED <<creatingKeys, myKeyCreation>>
    \/ /\ Creation(s) # "none"
       /\ creatingKeys' = [creatingKeys EXCEPT ![TypeOf(Creation(s))] = TRUE]
       /\ myKeyCreation' = [myKeyCreation EXCEPT ![s] = Creation(s)]

CreatorAfterAcquire(s) == IF Creation(s) = "none" THEN keyCreator[s] ELSE "idle"

Stopped(stage) == IF stage = "creating" THEN "idle" ELSE stage

(* connectToServer, by the retry timer or queued.                          *)
ConnectToServer(s) ==
    /\ object[s] = "running" /\ phase[s] = "down"
    /\ Acquire(s)
    /\ keyCreator' = [keyCreator EXCEPT ![s] = CreatorAfterAcquire(s)]
    /\ currentType' = [currentType EXCEPT ![s] = AcquiredType(s)]
    /\ phase' = [phase EXCEPT ![s] = "connecting"]
    /\ UNCHANGED <<temporaryKeys, persistentKey, boundTo, mainVars, serverVars,
                   object, bindKey, bind, key, updates>>

(* The connection goes down and will be restarted: doDisconnect stops an   *)
(* unfinished creator but keeps what it has acquired.                      *)
Disconnect(s) ==
    /\ object[s] = "running" /\ phase[s] \in {"connecting", "up"}
    /\ keyCreator' = [keyCreator EXCEPT ![s] = Stopped(keyCreator[s])]
    /\ bind' = [bind EXCEPT ![s] = "none"]
    /\ phase' = [phase EXCEPT ![s] = "down"]
    /\ UNCHANGED <<dcVars, mainVars, serverVars, object, myKeyCreation, bindKey,
                   key, currentType, updates>>

(* The end of applyAuthKey without a key: create it, or wait.              *)
CreateOrWait(s) ==
    /\ keyCreator' = [keyCreator EXCEPT
                        ![s] = IF keyCreator[s] = "none" THEN "none"
                               ELSE "creating"]
    /\ phase' = [phase EXCEPT ![s] = "up"]

(* applyAuthKey in a session that has no key yet.                          *)
ApplyFirstKey(s) ==
    LET found == temporaryKeys[currentType[s]]
    IN  \/ /\ found # NoKey
           /\ key' = [key EXCEPT ![s] = found]
           /\ phase' = [phase EXCEPT ![s] = "up"]
           /\ UNCHANGED keyCreator
        \/ /\ found = NoKey /\ currentType[s] = "media"
           /\ phase' = [phase EXCEPT ![s] = "look"]
           /\ UNCHANGED <<key, keyCreator>>
        \/ /\ found = NoKey /\ currentType[s] = "regular"
           /\ CreateOrWait(s)
           /\ UNCHANGED key

(* onConnected -> checkAuthKey.                                            *)
CheckAuthKey(s) ==
    /\ object[s] = "running" /\ phase[s] = "connecting"
    /\ \/ /\ key[s] # NoKey
          /\ phase' = [phase EXCEPT ![s] = "up"]
          /\ UNCHANGED <<key, keyCreator>>
       \/ key[s] = NoKey /\ ApplyFirstKey(s)
    /\ UNCHANGED <<dcVars, mainVars, serverVars, object, myKeyCreation, bindKey,
                   bind, currentType, updates>>

(* Mutant of UpdateAuthKey: a session that waits for its key is not woken. *)
UpdateOnlyOldKey(s) ==
    /\ object[s] = "running" /\ updates[s]
    /\ phase[s] \in {"down", "connecting", "up"}
    /\ updates' = [updates EXCEPT ![s] = FALSE]
    /\ \/ /\ keyCreator[s] = "none" /\ phase[s] = "up"
          /\ key[s] # NoKey /\ key[s] # temporaryKeys[currentType[s]]
          /\ key' = [key EXCEPT ![s] = NoKey]
          /\ phase' = [phase EXCEPT ![s] = "down"]
       \/ /\ \/ keyCreator[s] # "none" \/ phase[s] # "up"
             \/ key[s] \in {NoKey, temporaryKeys[currentType[s]]}
          /\ UNCHANGED <<key, phase>>
    /\ UNCHANGED <<dcVars, mainVars, serverVars, object, myKeyCreation, bindKey,
                   bind, currentType, keyCreator>>

(* updateAuthKey, as queued by Session::watchDcKeyChanges.                 *)
UpdateAuthKey(s) ==
    /\ object[s] = "running" /\ updates[s]
    /\ phase[s] \in {"down", "connecting", "up"}
    /\ updates' = [updates EXCEPT ![s] = FALSE]
    /\ \/ /\ \/ keyCreator[s] # "none" \/ phase[s] # "up"
             \/ key[s] # NoKey /\ key[s] = temporaryKeys[currentType[s]]
          /\ UNCHANGED <<key, keyCreator, phase>>
       \/ /\ keyCreator[s] = "none" /\ phase[s] = "up"
          /\ key[s] # NoKey /\ key[s] # temporaryKeys[currentType[s]]
          /\ key' = [key EXCEPT ![s] = NoKey]
          /\ phase' = [phase EXCEPT ![s] = "down"]
          /\ UNCHANGED keyCreator
       \/ /\ keyCreator[s] = "none" /\ phase[s] = "up" /\ key[s] = NoKey
          /\ ApplyFirstKey(s)
    /\ UNCHANGED <<dcVars, mainVars, serverVars, object, myKeyCreation, bindKey,
                   bind, currentType>>

(* applyAuthKey in a media session, continued: noMediaKeyWithExisting-     *)
(* RegularKey.                                                             *)
LookForRegularKey(s) ==
    /\ object[s] = "running" /\ phase[s] = "look"
    /\ \/ /\ temporaryKeys["regular"] # NoKey
          /\ phase' = [phase EXCEPT ![s] = "acquire"]
          /\ UNCHANGED keyCreator
       \/ temporaryKeys["regular"] = NoKey /\ CreateOrWait(s)
    /\ UNCHANGED <<dcVars, mainVars, serverVars, object, myKeyCreation, bindKey,
                   bind, key, currentType, updates>>

(* ... and tryAcquireKeyCreation.  The type it returns is only compared.   *)
AcquireForMedia(s) ==
    /\ object[s] = "running" /\ phase[s] = "acquire"
    /\ Acquire(s)
    /\ \/ /\ AcquiredType(s) # currentType[s]
          /\ keyCreator' = [keyCreator EXCEPT ![s] = CreatorAfterAcquire(s)]
          /\ phase' = [phase EXCEPT ![s] = "down"]
       \/ /\ AcquiredType(s) = currentType[s]
          /\ keyCreator' = [keyCreator EXCEPT ![s] =
                              IF CreatorAfterAcquire(s) = "none" THEN "none"
                              ELSE "creating"]
          /\ phase' = [phase EXCEPT ![s] = "up"]
    /\ UNCHANGED <<temporaryKeys, persistentKey, boundTo, mainVars, serverVars,
                   object, bindKey, bind, key, currentType, updates>>

(* BoundKeyCreator is done without success, or without a persistent key to *)
(* bind to, because that was destroyed in the meantime: the creation is    *)
(* released and the connection restarted.                                  *)
UnboundFailed(s) ==
    /\ object[s] = "running" /\ phase[s] = "up" /\ keyCreator[s] = "creating"
    /\ ReleaseOnFail(s)
    /\ keyCreator' = [keyCreator EXCEPT ![s] = "none"]
    /\ phase' = [phase EXCEPT ![s] = "down"]
    /\ UNCHANGED <<temporaryKeys, persistentKey, boundTo, mainVars, serverVars,
                   object, bindKey, bind, key, currentType, updates>>

(* delegate.unboundReady with a temporary key and, if asked for, a new     *)
(* persistent key: the key is used at once, to bind it.                    *)
UnboundReady(s, temporary, persistent) ==
    /\ object[s] = "running" /\ phase[s] = "up" /\ keyCreator[s] = "creating"
    /\ persistent \in IF myKeyCreation[s] = "persistent" THEN Keys \ Used
                       ELSE {persistentKey} \ {NoKey}
    /\ temporary \in Keys \ (Used \cup {persistent})
    /\ keyCreator' = [keyCreator EXCEPT ![s] = "bound"]
    /\ bindKey' = [bindKey EXCEPT ![s] = persistent]
    /\ key' = [key EXCEPT ![s] = temporary]
    /\ forgotten' = forgotten \ {temporary,
                        IF myKeyCreation[s] = "persistent" THEN persistent
                        ELSE NoKey}
    /\ UNCHANGED <<dcVars, mainVars, losses, object, myKeyCreation, bind,
                   currentType, phase, updates>>

(* tryToSend with a binder that is ready.                                  *)
SendBind(s) ==
    /\ object[s] = "running" /\ phase[s] = "up"
    /\ keyCreator[s] = "bound" /\ bind[s] = "none"
    /\ bind' = [bind EXCEPT ![s] = "sent"]
    /\ UNCHANGED <<dcVars, mainVars, serverVars, object, myKeyCreation,
                   keyCreator, bindKey, key, currentType, phase, updates>>

(* The session gives up its temporary key, and the Dcenter too if it is    *)
(* the one it holds.                                                       *)
DestroyTemporaryKey(s) ==
    LET lost == {t \in Types : key[s] # NoKey /\ temporaryKeys[t] = key[s]}
    IN  /\ temporaryKeys' = [t \in Types |->
                               IF t \in lost THEN NoKey ELSE temporaryKeys[t]]
        /\ boundTo' = [t \in Types |-> IF t \in lost THEN NoKey ELSE boundTo[t]]
        /\ changed' = (changed \/ lost # {})
        /\ ReleaseOnFail(s)
        /\ keyCreator' = [keyCreator EXCEPT ![s] = "none"]
        /\ bindKey' = [bindKey EXCEPT ![s] = NoKey]
        /\ bind' = [bind EXCEPT ![s] = "none"]
        /\ key' = [key EXCEPT ![s] = NoKey]
        /\ phase' = [phase EXCEPT ![s] = "down"]
        /\ UNCHANGED <<persistentKey, keysForWrite, object, currentType, updates>>

(* handleBindResponse: bound, and the Dcenter takes the key.               *)
BindDone(s) ==
    LET type == TypeOf(myKeyCreation[s])
        created == myKeyCreation[s] = "persistent"
    IN  /\ object[s] = "running" /\ phase[s] = "up" /\ bind[s] = "ok"
        /\ KeyIsAccepted(myKeyCreation[s], bindKey[s])
        /\ persistentKey' = IF created THEN bindKey[s] ELSE persistentKey
        /\ temporaryKeys' = [temporaryKeys EXCEPT ![type] = key[s]]
        /\ boundTo' = [boundTo EXCEPT ![type] = bindKey[s]]
        /\ creatingKeys' = [creatingKeys EXCEPT ![type] = FALSE]
        /\ posted' = IF created
                     THEN Append(posted, [type |-> "created", key |-> bindKey[s]])
                     ELSE posted
        /\ changed' = (changed \/ ~created)
        /\ myKeyCreation' = [myKeyCreation EXCEPT ![s] = "none"]
        /\ keyCreator' = [keyCreator EXCEPT ![s] = "none"]
        /\ bindKey' = [bindKey EXCEPT ![s] = NoKey]
        /\ bind' = [bind EXCEPT ![s] = "none"]
        /\ UNCHANGED <<keysForWrite, serverVars, object, key, currentType, phase,
                       updates>>

(* ... but the Dcenter's persistent key is another one by now: Dcenter     *)
(* returns false before it resets the flag, and Session and SessionPrivate *)
(* have already forgotten that they hold it.                               *)
BindRefused(s) ==
    /\ object[s] = "running" /\ phase[s] = "up" /\ bind[s] = "ok"
    /\ ~KeyIsAccepted(myKeyCreation[s], bindKey[s])
    /\ myKeyCreation' = [myKeyCreation EXCEPT ![s] = "none"]
    /\ keyCreator' = [keyCreator EXCEPT ![s] = "none"]
    /\ bindKey' = [bindKey EXCEPT ![s] = NoKey]
    /\ bind' = [bind EXCEPT ![s] = "none"]
    /\ key' = [key EXCEPT ![s] = NoKey]
    /\ phase' = [phase EXCEPT ![s] = "down"]
    /\ UNCHANGED <<dcVars, mainVars, serverVars, object, currentType, updates>>

(* ... any other error, or ENCRYPTED_MESSAGE_INVALID for a persistent key  *)
(* that is too young to be believed destroyed: bind once more.             *)
BindAgain(s) ==
    /\ object[s] = "running" /\ phase[s] = "up"
    /\ bind[s] \in {"failed", "destroyed"}
    /\ bind' = [bind EXCEPT ![s] = "none"]
    /\ UNCHANGED <<dcVars, mainVars, serverVars, object, myKeyCreation,
                   keyCreator, bindKey, key, currentType, phase, updates>>

(* Mutant of BindDestroyed: the key is read after it was given up.         *)
BindDestroyedLate(s) ==
    /\ object[s] = "running" /\ phase[s] = "up" /\ bind[s] = "destroyed"
    /\ posted' = Append(posted, [type |-> "destroyed", key |-> NoKey])
    /\ DestroyTemporaryKey(s)
    /\ UNCHANGED serverVars

(* ... ENCRYPTED_MESSAGE_INVALID for an old key: destroyOldEnoughPersist-  *)
(* entKey tells the main thread.  Once it has, telling it again is of no   *)
(* effect, so that the queue holds it once.                                *)
BindDestroyed(s) ==
    LET event == [type |-> "destroyed", key |-> bindKey[s]]
    IN  /\ object[s] = "running" /\ phase[s] = "up" /\ bind[s] = "destroyed"
        /\ posted' = IF \E i \in DOMAIN posted : posted[i] = event THEN posted
                     ELSE Append(posted, event)
        /\ DestroyTemporaryKey(s)
        /\ UNCHANGED serverVars

(* Error -404, or AUTH_KEY_PERM_EMPTY: the server rejects the key, or the  *)
(* key exchange if there is none yet.                                      *)
KeyRejected(s) ==
    /\ object[s] = "running" /\ phase[s] \in {"connecting", "up"}
    /\ \/ key[s] \in forgotten /\ UNCHANGED serverVars
       \/ /\ key[s] \notin forgotten /\ losses < MaxLosses
          /\ losses' = losses + 1
          /\ forgotten' = forgotten \cup ({key[s]} \ {NoKey})
    /\ DestroyTemporaryKey(s)
    /\ UNCHANGED posted

-----------------------------------------------------------------------------
(* The main thread.                                                        *)

(* Session::start, when there is something to send.                        *)
Start(s) ==
    /\ object[s] = "stopped"
    /\ object' = [object EXCEPT ![s] = "running"]
    /\ UNCHANGED <<dcVars, mainVars, serverVars, myKeyCreation, keyCreator,
                   bindKey, bind, key, currentType, phase, updates>>

(* The SessionPrivate is deleted, on its thread, and forgets everything.   *)
ForgetPrivate(s) ==
    /\ keyCreator' = [keyCreator EXCEPT ![s] = "none"]
    /\ bindKey' = [bindKey EXCEPT ![s] = NoKey]
    /\ bind' = [bind EXCEPT ![s] = "none"]
    /\ key' = [key EXCEPT ![s] = NoKey]
    /\ phase' = [phase EXCEPT ![s] = "down"]
    /\ updates' = [updates EXCEPT ![s] = FALSE]

(* Session::stop: ~SessionPrivate releases the creation.                   *)
Stop(s) ==
    /\ MayStop
    /\ object[s] = "running" /\ phase[s] \in {"down", "connecting", "up"}
    /\ object' = [object EXCEPT ![s] = "stopped"]
    /\ ReleaseOnFail(s)
    /\ ForgetPrivate(s)
    /\ UNCHANGED <<temporaryKeys, persistentKey, boundTo, mainVars, serverVars,
                   currentType>>

(* Session::kill: SessionData loses its owner, so that nothing the private *)
(* still does reaches the Dcenter.                                         *)
Kill(s) ==
    /\ MayStop
    /\ object[s] = "running"
    /\ object' = [object EXCEPT ![s] = "killed"]
    /\ ForgetPrivate(s)
    /\ UNCHANGED <<dcVars, mainVars, serverVars, myKeyCreation, currentType>>

(* Session::~Session, queued by scheduleSessionDestroy.                    *)
Destroy(s) ==
    /\ object[s] = "killed"
    /\ object' = [object EXCEPT ![s] = "gone"]
    /\ ReleaseOnFail(s)
    /\ UNCHANGED <<temporaryKeys, persistentKey, boundTo, mainVars, serverVars,
                   keyCreator, bindKey, bind, key, currentType, phase, updates>>

UpdateEverySession ==
    updates' = [s \in Sessions |-> updates[s] \/ object[s] = "running"]

(* Instance::dcTemporaryKeyChanged -> Session::watchDcKeyChanges.          *)
DcTemporaryKeyChanged ==
    /\ changed
    /\ changed' = FALSE
    /\ UpdateEverySession
    /\ UNCHANGED <<dcVars, posted, keysForWrite, serverVars, object,
                   myKeyCreation, keyCreator, bindKey, bind, key, currentType,
                   phase>>

(* Instance::dcPersistentKeyChanged for a key that was created.            *)
DcPersistentKeyChanged ==
    /\ posted # <<>> /\ Head(posted).type = "created"
    /\ posted' = Tail(posted)
    /\ keysForWrite' = Head(posted).key
    /\ UpdateEverySession
    /\ UNCHANGED <<dcVars, changed, serverVars, object, myKeyCreation,
                   keyCreator, bindKey, bind, key, currentType, phase>>

(* Mutant of KeyDestroyedOnServer: the key is not compared with the        *)
(* datacenter's, which may have a new one, before it is forgotten.         *)
KeyDestroyedUnconfirmed ==
    /\ posted # <<>> /\ Head(posted).type = "destroyed"
    /\ posted' = Tail(posted)
    /\ keysForWrite' = NoKey
    /\ \/ /\ persistentKey # Head(posted).key
          /\ UNCHANGED dcVars
       \/ /\ persistentKey = Head(posted).key
          /\ temporaryKeys' = [t \in Types |-> NoKey]
          /\ boundTo' = [t \in Types |-> NoKey]
          /\ persistentKey' = NoKey
          /\ UNCHANGED creatingKeys
    /\ UpdateEverySession
    /\ UNCHANGED <<changed, serverVars, object, myKeyCreation, keyCreator,
                   bindKey, bind, key, currentType, phase>>

(* Instance::keyDestroyedOnServer -> destroyConfirmedForgottenKey.  The    *)
(* restart of the session that follows is a Disconnect.                    *)
KeyDestroyedOnServer ==
    /\ posted # <<>> /\ Head(posted).type = "destroyed"
    /\ posted' = Tail(posted)
    /\ \/ /\ persistentKey # Head(posted).key
          /\ UNCHANGED <<dcVars, keysForWrite, updates>>
       \/ /\ persistentKey = Head(posted).key
          /\ temporaryKeys' = [t \in Types |-> NoKey]
          /\ boundTo' = [t \in Types |-> NoKey]
          /\ persistentKey' = NoKey
          /\ keysForWrite' = NoKey
          /\ UpdateEverySession
          /\ UNCHANGED creatingKeys
    /\ UNCHANGED <<changed, serverVars, object, myKeyCreation, keyCreator,
                   bindKey, bind, key, currentType, phase>>

-----------------------------------------------------------------------------
(* The server.                                                             *)

AnswerBind(s, answer) ==
    /\ bind[s] = "sent"
    /\ answer = "ok" => bindKey[s] \notin forgotten
    /\ answer = "destroyed" => bindKey[s] \in forgotten
    /\ bind' = [bind EXCEPT ![s] = answer]
    /\ UNCHANGED <<dcVars, mainVars, serverVars, object, myKeyCreation,
                   keyCreator, bindKey, key, currentType, phase, updates>>

ForgetKey(k) ==
    /\ MayForget
    /\ k \in {persistentKey} \ (forgotten \cup {NoKey})
    /\ forgotten' = forgotten \cup {k}
    /\ UNCHANGED <<dcVars, mainVars, losses, sessionVars>>

-----------------------------------------------------------------------------
Private(s) ==
    \/ ConnectToServer(s)
    \/ Disconnect(s)
    \/ CheckAuthKey(s)
    \/ UpdateAuthKey(s)
    \/ LookForRegularKey(s)
    \/ AcquireForMedia(s)
    \/ UnboundFailed(s)
    \/ \E temporary, persistent \in Keys : UnboundReady(s, temporary, persistent)
    \/ SendBind(s)
    \/ BindDone(s)
    \/ BindRefused(s)
    \/ BindAgain(s)
    \/ BindDestroyed(s)
    \/ KeyRejected(s)

Main ==
    \/ \E s \in Sessions : Start(s) \/ Stop(s) \/ Kill(s) \/ Destroy(s)
    \/ DcTemporaryKeyChanged
    \/ DcPersistentKeyChanged
    \/ KeyDestroyedOnServer

Server ==
    \/ \E s \in Sessions, answer \in {"ok", "destroyed", "failed"} :
         AnswerBind(s, answer)
    \/ \E k \in Keys : ForgetKey(k)

Next == (\E s \in Sessions : Private(s)) \/ Main \/ Server

Spec == Init /\ [][Next]_vars

NothingToBindTo(s) == myKeyCreation[s] # "persistent" /\ persistentKey = NoKey

(* What the network and the server may do at any time.                     *)
Failure(s) ==
    \/ Disconnect(s)
    \/ UnboundFailed(s) /\ ~NothingToBindTo(s)
    \/ AnswerBind(s, "failed")

(* The threads run their queues, sessions have something to send, requests *)
(* are answered, and failures come to an end.                              *)
Fairness ==
    /\ \A s \in Sessions :
         /\ WF_vars(Start(s) \/ Destroy(s))
         /\ WF_vars(ConnectToServer(s))
         /\ WF_vars(CheckAuthKey(s))
         /\ WF_vars(UpdateAuthKey(s) \/ LookForRegularKey(s) \/ AcquireForMedia(s))
         /\ WF_vars(\/ \E temporary, persistent \in Keys :
                          UnboundReady(s, temporary, persistent)
                    \/ UnboundFailed(s) /\ NothingToBindTo(s))
         /\ WF_vars(SendBind(s))
         /\ WF_vars(\E answer \in {"ok", "destroyed"} : AnswerBind(s, answer))
         /\ WF_vars(BindDone(s) \/ BindRefused(s))
         /\ WF_vars(BindAgain(s)) /\ SF_vars(BindDestroyed(s))
         /\ WF_vars(key[s] \in forgotten /\ KeyRejected(s))
    /\ WF_vars(DcTemporaryKeyChanged)
    /\ WF_vars(DcPersistentKeyChanged \/ KeyDestroyedOnServer)
    /\ <>[][\A s \in Sessions : ~Failure(s)]_vars

FairSpec == Spec /\ Fairness

-----------------------------------------------------------------------------
Creating(s) == myKeyCreation[s] # "none"

FlagIsHeld(s) ==
    /\ creatingKeys[TypeOf(myKeyCreation[s])]
    /\ temporaryKeys[TypeOf(myKeyCreation[s])] = NoKey

(* What Dcenter Expects of releaseKeyCreationOnDone and ...OnFail          *)
(* (mtproto_dcenter.cpp:135-136, 159-160) and Session of acquireKeyCrea-   *)
(* tion (session.cpp:445), at any time and not only when they are called:  *)
(* whoever holds a creation has its flag set, no key of its type comes     *)
(* from elsewhere, and a running session that holds one has a creator, so  *)
(* that it does not acquire another.                                       *)
HeldAsExpected ==
    \A s \in Sessions : Creating(s) =>
        /\ FlagIsHeld(s)
        /\ object[s] = "running" => keyCreator[s] # "none"

(* Two sessions never create a key for the same place, on whatever         *)
(* threads they run: the second would overwrite the key of the first.      *)
OneCreator ==
    \A s, t \in Sessions :
        Creating(s) /\ Creating(t) /\ s # t
            => TypeOf(myKeyCreation[s]) # TypeOf(myKeyCreation[t])

(* Every temporary key of the Dcenter is bound to the persistent key it    *)
(* has now, although that may be destroyed and replaced while keys bound   *)
(* to it are on their way.                                                 *)
BoundToPersistent ==
    \A t \in Types : temporaryKeys[t] # NoKey
        => boundTo[t] = persistentKey /\ persistentKey # NoKey

(* The key that is saved is the one in use, once the main thread has       *)
(* handled what the sessions posted: no order of creations and             *)
(* destructions leaves a destroyed key in the file.                        *)
SavedKeyIsCurrent == posted = <<>> => keysForWrite = persistentKey

-----------------------------------------------------------------------------
(* What the safety properties follow from.                                 *)

(* A creator goes through its stages: it is there for a creation that the  *)
(* session holds, binds a key only when it has one, and is not overtaken   *)
(* by a search for a key.                                                  *)
Stages ==
    \A s \in Sessions :
        /\ keyCreator[s] # "none" => Creating(s) /\ object[s] = "running"
        /\ object[s] # "killed" /\ keyCreator[s] = "none" => ~Creating(s)
        /\ bind[s] # "none" => keyCreator[s] = "bound"
        /\ keyCreator[s] = "bound" => bindKey[s] # NoKey /\ key[s] # NoKey
        /\ phase[s] \in {"look", "acquire"} => key[s] = NoKey

FlagsAreHeld == \A s \in Sessions : Creating(s) => FlagIsHeld(s)

(* Whoever creates a persistent key, there is none.                        *)
PersistentIsMissing ==
    \A s \in Sessions :
        myKeyCreation[s] = "persistent" => persistentKey = NoKey

(* A new persistent key that is being bound is nobody else's, and nothing  *)
(* was posted about it.                                                    *)
NewKeyIsFresh ==
    \A s \in Sessions :
        myKeyCreation[s] = "persistent" /\ keyCreator[s] = "bound" =>
            /\ \A t \in Sessions \ {s} : bindKey[t] # bindKey[s]
            /\ \A i \in DOMAIN posted : posted[i].key # bindKey[s]

IsCreated(i) == posted[i].type = "created"

(* At most one creation is waiting to be saved, it is that of the key in   *)
(* use, and what is ahead of it in the queue is about other keys; with     *)
(* none waiting the key in use is saved.                                   *)
PostedInOrder ==
    /\ \A i \in DOMAIN posted : IsCreated(i) =>
         /\ posted[i].key = persistentKey
         /\ \A j \in 1 .. (i - 1) : posted[j].key # persistentKey
    /\ (\A i \in DOMAIN posted : ~IsCreated(i)) => keysForWrite = persistentKey

(* Every step keeps this: together the parts imply the safety properties.  *)
IInv ==
    /\ Stages
    /\ FlagsAreHeld
    /\ OneCreator
    /\ PersistentIsMissing
    /\ BoundToPersistent
    /\ NewKeyIsFresh
    /\ PostedInOrder

-----------------------------------------------------------------------------
(* "No key in updateAuthKey(), but someone is creating already, waiting."  *)
(* (session_private.cpp:2478): if the flag is set, someone is.             *)
SomeoneIsCreating ==
    \A t \in Types : creatingKeys[t] =>
        \E s \in Sessions : Creating(s) /\ TypeOf(myKeyCreation[s]) = t

(* Every session gets to use a key that the server knows: no failure of    *)
(* the key exchange, of the binding or of a connection, in any order,      *)
(* leaves one without, or with a creation that it never carries out.       *)
KeyInTheEnd ==
    \A s \in Sessions :
        (object[s] = "running") ~>
            \/ key[s] \notin forgotten \cup {NoKey} /\ keyCreator[s] = "none"
            \/ object[s] # "running"

=============================================================================
