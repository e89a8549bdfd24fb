------------------------- MODULE KeyCreation_proofs -------------------------
(***************************************************************************)
(* Proofs about KeyCreation, for any number of sessions and keys: its      *)
(* types, that creations exclude each other, that temporary keys are bound *)
(* to the persistent key in use, and that the right key is saved.          *)
(***************************************************************************)
EXTENDS KeyCreation, SequenceTheorems, TLAPS

-----------------------------------------------------------------------------
(* Every creation is for the key of a type.                                *)
LEMMA TypeOfType == ASSUME NEW creation PROVE TypeOf(creation) \in Types
  BY DEF TypeOf, Types

(* What acquireKeyCreation grants: the place of the key is empty, nobody   *)
(* creates one for it, and a persistent key is created only if there is    *)
(* none.                                                                   *)
LEMMA Granted ==
  ASSUME TypeOK, NEW s \in Sessions
  PROVE  /\ Creation(s) \in Creations
         /\ AcquiredType(s) \in Types
         /\ Creation(s) # "none" =>
              /\ keyCreator[s] = "none"
              /\ ~creatingKeys[TypeOf(Creation(s))]
              /\ temporaryKeys[TypeOf(Creation(s))] = NoKey
         /\ Creation(s) = "persistent" => persistentKey = NoKey
  <1>1. RealType(s) \in Types
    BY DEF RealType, Types
  <1>2. ASSUME NEW type \in Types
        PROVE  /\ Acquired(type) \in Creations
               /\ Acquired(type) # "none" =>
                    /\ ~creatingKeys[TypeOf(Acquired(type))]
                    /\ temporaryKeys[TypeOf(Acquired(type))] = NoKey
               /\ Acquired(type) = "persistent" => persistentKey = NoKey
    BY DEF Acquired, Creations, Types, TypeOf
  <1>3. Creation(s) \in Creations /\ AcquiredType(s) \in Types
    BY <1>1, <1>2, TypeOfType DEF TypeOK, Creation, AcquiredType, Creations
  <1> QED
    BY <1>1, <1>2, <1>3 DEF Creation

Event == [type : {"created", "destroyed"}, key : Keys]

(* What a queue is without its head.                                       *)
LEMMA QueueTail ==
  ASSUME TypeOK, posted # <<>>
  PROVE  /\ posted[1] \in Event /\ Head(posted) = posted[1]
         /\ 1 \in DOMAIN posted
         /\ Tail(posted) \in Seq(Event)
         /\ \A i \in DOMAIN Tail(posted) :
              /\ i \in Nat \ {0}
              /\ i + 1 \in DOMAIN posted
              /\ Tail(posted)[i] = posted[i + 1]
         /\ \A i \in DOMAIN posted \ {1} :
              /\ i \in Nat \ {0, 1}
              /\ i - 1 \in DOMAIN Tail(posted)
              /\ Tail(posted)[i - 1] = posted[i]
  <1>1. posted \in Seq(Event)
    BY DEF TypeOK, Event
  <1>2. /\ Head(posted) \in Event /\ Head(posted) = posted[1]
        /\ Tail(posted) \in Seq(Event)
        /\ Len(posted) \in Nat \ {0}
        /\ Len(Tail(posted)) = Len(posted) - 1
        /\ \A i \in 1 .. Len(Tail(posted)) : Tail(posted)[i] = posted[i + 1]
    BY <1>1, HeadTailProperties
  <1>3. /\ DOMAIN posted = 1 .. Len(posted)
        /\ DOMAIN Tail(posted) = 1 .. Len(Tail(posted))
    BY <1>1, <1>2
  <1> QED
    BY <1>2, <1>3

(* What a queue is with one event more.                                    *)
LEMMA QueueAppend ==
  ASSUME TypeOK, NEW e \in Event
  PROVE  /\ Append(posted, e) \in Seq(Event)
         /\ \A i \in DOMAIN posted :
              /\ i \in DOMAIN Append(posted, e)
              /\ Append(posted, e)[i] = posted[i]
         /\ \A i \in DOMAIN Append(posted, e) \ DOMAIN posted :
              /\ Append(posted, e)[i] = e
              /\ \A j \in 1 .. (i - 1) : j \in DOMAIN posted
         /\ Len(posted) + 1 \in DOMAIN Append(posted, e) \ DOMAIN posted
         /\ \A i \in DOMAIN posted :
              \A j \in 1 .. (i - 1) : j \in DOMAIN posted
  <1>1. posted \in Seq(Event)
    BY DEF TypeOK, Event
  <1>2. /\ Append(posted, e) \in Seq(Event)
        /\ Len(Append(posted, e)) = Len(posted) + 1
        /\ \A i \in 1 .. Len(posted) : Append(posted, e)[i] = posted[i]
        /\ Append(posted, e)[Len(posted) + 1] = e
    BY <1>1, AppendProperties
  <1>3. /\ DOMAIN posted = 1 .. Len(posted)
        /\ DOMAIN Append(posted, e) = 1 .. Len(Append(posted, e))
        /\ Len(posted) \in Nat
    BY <1>1, <1>2
  <1> QED
    BY <1>2, <1>3

(* What applyAuthKey leaves in a session that had no key.                  *)
LEMMA FirstKeyTypes ==
  ASSUME TypeOK, NEW s \in Sessions, ApplyFirstKey(s)
  PROVE  /\ key' \in [Sessions -> KeyOrNone]
         /\ keyCreator' \in
              [Sessions -> {"none", "idle", "creating", "bound"}]
         /\ phase' \in
              [Sessions -> {"down", "connecting", "up", "look", "acquire"}]
  <1>1. temporaryKeys[currentType[s]] \in KeyOrNone
    BY DEF TypeOK
  <1>2. key' \in [Sessions -> KeyOrNone]
    BY <1>1 DEF TypeOK, ApplyFirstKey
  <1>3. /\ keyCreator' \in
             [Sessions -> {"none", "idle", "creating", "bound"}]
        /\ phase' \in
             [Sessions -> {"down", "connecting", "up", "look", "acquire"}]
    BY DEF TypeOK, ApplyFirstKey, CreateOrWait
  <1> QED
    BY <1>2, <1>3

(* Every step keeps the types of the variables.                            *)
LEMMA TypeStep ==
  ASSUME TypeOK, Stages, [Next]_vars
  PROVE  TypeOK'
  <1> USE DEF dcVars, mainVars, serverVars, sessionVars, KeyOrNone
  <1>1. ASSUME NEW s \in Sessions, ConnectToServer(s)
        PROVE  TypeOK'
    <2>1. CreatorAfterAcquire(s) \in {"none", "idle", "creating", "bound"}
      BY DEF TypeOK, CreatorAfterAcquire
    <2>2. keyCreator' \in [Sessions -> {"none", "idle", "creating", "bound"}]
      BY <1>1, <2>1 DEF TypeOK, ConnectToServer
    <2>3. /\ creatingKeys' \in [Types -> BOOLEAN]
          /\ myKeyCreation' \in [Sessions -> Creations]
      <3>1. Creation(s) \in Creations
        BY Granted
      <3>2. Acquire(s)
        BY <1>1 DEF ConnectToServer
      <3> QED
        BY <3>1, <3>2 DEF TypeOK, Acquire
    <2>4. currentType' \in [Sessions -> Types]
      BY <1>1, Granted DEF TypeOK, ConnectToServer
    <2> QED
      BY <1>1, <2>2, <2>3, <2>4 DEF TypeOK, ConnectToServer
  <1>2. ASSUME NEW s \in Sessions, AcquireForMedia(s)
        PROVE  TypeOK'
    <2>1. CreatorAfterAcquire(s) \in {"none", "idle", "creating", "bound"}
      BY DEF TypeOK, CreatorAfterAcquire
    <2>2. keyCreator' \in [Sessions -> {"none", "idle", "creating", "bound"}]
      BY <1>2, <2>1 DEF TypeOK, AcquireForMedia
    <2>3. /\ creatingKeys' \in [Types -> BOOLEAN]
          /\ myKeyCreation' \in [Sessions -> Creations]
      <3>1. Creation(s) \in Creations
        BY Granted
      <3>2. Acquire(s)
        BY <1>2 DEF AcquireForMedia
      <3> QED
        BY <3>1, <3>2 DEF TypeOK, Acquire
    <2> QED
      BY <1>2, <2>2, <2>3 DEF TypeOK, AcquireForMedia
  <1>3. ASSUME NEW s \in Sessions, Disconnect(s)
        PROVE  TypeOK'
    BY <1>3 DEF TypeOK, Disconnect, Stopped
  <1>4. ASSUME NEW s \in Sessions,
               CheckAuthKey(s) \/ UpdateAuthKey(s) \/ LookForRegularKey(s)
        PROVE  TypeOK'
    <2>1. CASE CheckAuthKey(s)
      <3>1. CASE ApplyFirstKey(s)
        BY <2>1, <3>1, FirstKeyTypes DEF TypeOK, CheckAuthKey
      <3>2. CASE key[s] # NoKey
        BY <2>1, <3>2 DEF TypeOK, CheckAuthKey
      <3> QED
        BY <2>1, <3>1, <3>2 DEF CheckAuthKey
    <2>2. CASE UpdateAuthKey(s)
      <3>1. CASE ApplyFirstKey(s)
        BY <2>2, <3>1, FirstKeyTypes DEF TypeOK, UpdateAuthKey
      <3>2. CASE ~ApplyFirstKey(s)
        BY <2>2, <3>2 DEF TypeOK, UpdateAuthKey
      <3> QED
        BY <3>1, <3>2
    <2>3. CASE LookForRegularKey(s)
      BY <2>3 DEF TypeOK, LookForRegularKey, CreateOrWait
    <2> QED
      BY <1>4, <2>1, <2>2, <2>3
  <1>5. ASSUME NEW s \in Sessions, UnboundFailed(s) \/ BindRefused(s)
        PROVE  TypeOK'
    <2>1. CASE UnboundFailed(s)
      BY <2>1 DEF TypeOK, Creations, UnboundFailed, ReleaseOnFail
    <2>2. CASE BindRefused(s)
      BY <2>2 DEF TypeOK, Creations, BindRefused, ReleaseOnFail
    <2> QED
      BY <1>5, <2>1, <2>2
  <1>6. ASSUME NEW s \in Sessions,
               NEW temporary \in Keys,
               NEW persistent \in Keys,
               UnboundReady(s, temporary, persistent)
        PROVE  TypeOK'
    BY <1>6 DEF TypeOK, UnboundReady
  <1>7. ASSUME NEW s \in Sessions, SendBind(s) \/ BindAgain(s) \/ Start(s)
        PROVE  TypeOK'
    BY <1>7 DEF TypeOK, SendBind, BindAgain, Start
  <1>8. ASSUME NEW s \in Sessions, BindDone(s)
        PROVE  TypeOK'
    <2>1. bindKey[s] \in Keys /\ key[s] \in KeyOrNone
      BY <1>8 DEF TypeOK, Stages, BindDone
    <2>2. [type |-> "created", key |-> bindKey[s]] \in Event
      BY <2>1 DEF Event
    <2>3. posted' \in Seq([type : {"created", "destroyed"}, key : Keys])
      BY <1>8, <2>2, QueueAppend DEF TypeOK, BindDone, Event
    <2>4. /\ temporaryKeys' \in [Types -> KeyOrNone]
          /\ boundTo' \in [Types -> KeyOrNone]
          /\ creatingKeys' \in [Types -> BOOLEAN]
      BY <1>8, <2>1 DEF TypeOK, BindDone
    <2> QED
      BY <1>8, <2>1, <2>3, <2>4 DEF TypeOK, BindDone, Creations
  <1>9. ASSUME NEW s \in Sessions, BindDestroyed(s)
        PROVE  TypeOK'
    <2>1. bindKey[s] \in Keys
      BY <1>9 DEF TypeOK, Stages, BindDestroyed
    <2>2. [type |-> "destroyed", key |-> bindKey[s]] \in Event
      BY <2>1 DEF Event
    <2>3. posted' \in Seq([type : {"created", "destroyed"}, key : Keys])
      BY <1>9, <2>2, QueueAppend DEF TypeOK, BindDestroyed, Event
    <2> QED
      BY <1>9, <2>3
         DEF TypeOK, Creations, BindDestroyed, DestroyTemporaryKey,
             ReleaseOnFail
  <1>10. ASSUME NEW s \in Sessions, KeyRejected(s)
         PROVE  TypeOK'
    <2>1. forgotten' \in SUBSET Keys /\ losses' \in Nat
      BY <1>10 DEF TypeOK, KeyRejected
    <2>2. /\ creatingKeys' \in [Types -> BOOLEAN]
          /\ myKeyCreation' \in [Sessions -> Creations]
      BY <1>10
         DEF TypeOK, Creations, KeyRejected, DestroyTemporaryKey, ReleaseOnFail
    <2> QED
      BY <1>10, <2>1, <2>2 DEF TypeOK, KeyRejected, DestroyTemporaryKey
  <1>11. ASSUME NEW s \in Sessions, Stop(s) \/ Kill(s) \/ Destroy(s)
         PROVE  TypeOK'
    <2>1. ASSUME ReleaseOnFail(s)
          PROVE  /\ creatingKeys' \in [Types -> BOOLEAN]
                 /\ myKeyCreation' \in [Sessions -> Creations]
      BY <2>1 DEF TypeOK, Creations, ReleaseOnFail
    <2>2. CASE Stop(s)
      <3>1. ForgetPrivate(s) /\ ReleaseOnFail(s)
        BY <2>2 DEF Stop
      <3>2. /\ keyCreator' \in
                 [Sessions -> {"none", "idle", "creating", "bound"}]
            /\ bindKey' \in [Sessions -> KeyOrNone]
            /\ bind' \in
                 [Sessions -> {"none", "sent", "ok", "destroyed", "failed"}]
            /\ key' \in [Sessions -> KeyOrNone]
            /\ phase' \in
                 [Sessions -> {"down", "connecting", "up", "look", "acquire"}]
            /\ updates' \in [Sessions -> BOOLEAN]
        BY <3>1 DEF TypeOK, ForgetPrivate
      <3> QED
        BY <2>1, <2>2, <3>1, <3>2 DEF TypeOK, Stop
    <2>3. CASE Kill(s)
      BY <2>3 DEF TypeOK, Kill, ForgetPrivate
    <2>4. CASE Destroy(s)
      BY <2>1, <2>4 DEF TypeOK, Destroy
    <2> QED
      BY <1>11, <2>2, <2>3, <2>4
  <1>12. ASSUME DcTemporaryKeyChanged
         PROVE  TypeOK'
    BY <1>12 DEF TypeOK, DcTemporaryKeyChanged, UpdateEverySession
  <1>13. ASSUME DcPersistentKeyChanged
         PROVE  TypeOK'
    <2>1. posted' \in Seq(Event) /\ keysForWrite' \in Keys
      BY <1>13, QueueTail DEF DcPersistentKeyChanged, Event
    <2> QED
      BY <1>13, <2>1
         DEF TypeOK, DcPersistentKeyChanged, UpdateEverySession, Event
  <1>14. ASSUME KeyDestroyedOnServer
         PROVE  TypeOK'
    <2>1. posted' \in Seq(Event)
      BY <1>14, QueueTail DEF KeyDestroyedOnServer
    <2>2. /\ temporaryKeys' \in [Types -> KeyOrNone]
          /\ boundTo' \in [Types -> KeyOrNone]
          /\ creatingKeys' = creatingKeys
      BY <1>14 DEF TypeOK, KeyDestroyedOnServer
    <2>3. persistentKey' \in KeyOrNone /\ keysForWrite' \in KeyOrNone
      BY <1>14 DEF TypeOK, KeyDestroyedOnServer
    <2>4. updates' \in [Sessions -> BOOLEAN]
      BY <1>14 DEF TypeOK, KeyDestroyedOnServer, UpdateEverySession
    <2> QED
      BY <1>14, <2>1, <2>2, <2>3, <2>4
         DEF TypeOK, KeyDestroyedOnServer, Event
  <1>15. ASSUME NEW s \in Sessions,
                NEW answer \in {"ok", "destroyed", "failed"},
                AnswerBind(s, answer)
         PROVE  TypeOK'
    BY <1>15 DEF TypeOK, AnswerBind
  <1>16. ASSUME NEW k \in Keys, ForgetKey(k)
         PROVE  TypeOK'
    BY <1>16 DEF TypeOK, ForgetKey
  <1>17. CASE UNCHANGED vars
    BY <1>17 DEF vars, TypeOK
  <1> QED
    BY <1>1, <1>2, <1>3, <1>4, <1>5, <1>6, <1>7, <1>8, <1>9, <1>10, <1>11,
       <1>12, <1>13, <1>14, <1>15, <1>16, <1>17
       DEF Next, Private, Main, Server

(* A creator keeps to its stages.                                          *)
LEMMA StagesStep ==
  ASSUME TypeOK, Stages, [Next]_vars
  PROVE  Stages'
  <1> USE DEF dcVars, mainVars, serverVars, sessionVars
  <1>1. ASSUME NEW s \in Sessions, ConnectToServer(s)
        PROVE  Stages'
    BY <1>1, Granted
       DEF TypeOK, Stages, Creating, ConnectToServer, Acquire,
           CreatorAfterAcquire
  <1>2. ASSUME NEW s \in Sessions, Disconnect(s)
        PROVE  Stages'
    BY <1>2 DEF TypeOK, Stages, Creating, Disconnect, Stopped
  <1>3. ASSUME NEW s \in Sessions, CheckAuthKey(s)
        PROVE  Stages'
    BY <1>3
       DEF TypeOK, Stages, Creating, CheckAuthKey, ApplyFirstKey,
           CreateOrWait
  <1>4. ASSUME NEW s \in Sessions, UpdateAuthKey(s)
        PROVE  Stages'
    BY <1>4
       DEF TypeOK, Stages, Creating, UpdateAuthKey, ApplyFirstKey,
           CreateOrWait
  <1>5. ASSUME NEW s \in Sessions, LookForRegularKey(s)
        PROVE  Stages'
    BY <1>5 DEF TypeOK, Stages, Creating, LookForRegularKey, CreateOrWait
  <1>6. ASSUME NEW s \in Sessions, AcquireForMedia(s)
        PROVE  Stages'
    BY <1>6, Granted
       DEF TypeOK, Stages, Creating, AcquireForMedia, Acquire,
           CreatorAfterAcquire
  <1>7. ASSUME NEW s \in Sessions, UnboundFailed(s)
        PROVE  Stages'
    BY <1>7 DEF TypeOK, Stages, Creating, UnboundFailed, ReleaseOnFail
  <1>8. ASSUME NEW s \in Sessions,
               NEW temporary \in Keys,
               NEW persistent \in Keys,
               UnboundReady(s, temporary, persistent)
        PROVE  Stages'
    BY <1>8, NoKeyAssumption DEF TypeOK, Stages, Creating, UnboundReady
  <1>9. ASSUME NEW s \in Sessions, SendBind(s)
        PROVE  Stages'
    BY <1>9 DEF TypeOK, Stages, Creating, SendBind
  <1>10. ASSUME NEW s \in Sessions, BindDone(s) \/ BindRefused(s)
         PROVE  Stages'
    BY <1>10 DEF TypeOK, Stages, Creating, BindDone, BindRefused
  <1>11. ASSUME NEW s \in Sessions, BindAgain(s) \/ Start(s)
         PROVE  Stages'
    BY <1>11 DEF TypeOK, Stages, Creating, BindAgain, Start
  <1>12. ASSUME NEW s \in Sessions, BindDestroyed(s) \/ KeyRejected(s)
         PROVE  Stages'
    BY <1>12
       DEF TypeOK, Stages, Creating, BindDestroyed, KeyRejected,
           DestroyTemporaryKey, ReleaseOnFail
  <1>13. ASSUME NEW s \in Sessions, Stop(s)
         PROVE  Stages'
    BY <1>13 DEF TypeOK, Stages, Creating, Stop, ReleaseOnFail, ForgetPrivate
  <1>14. ASSUME NEW s \in Sessions, Kill(s)
         PROVE  Stages'
    BY <1>14 DEF TypeOK, Stages, Creating, Kill, ForgetPrivate
  <1>15. ASSUME NEW s \in Sessions, Destroy(s)
         PROVE  Stages'
    BY <1>15 DEF TypeOK, Stages, Creating, Destroy, ReleaseOnFail
  <1>16. ASSUME DcTemporaryKeyChanged \/ DcPersistentKeyChanged \/
                KeyDestroyedOnServer
         PROVE  Stages'
    BY <1>16
       DEF TypeOK, Stages, Creating, DcTemporaryKeyChanged,
           DcPersistentKeyChanged, KeyDestroyedOnServer,
           UpdateEverySession
  <1>17. ASSUME NEW s \in Sessions,
                NEW answer \in {"ok", "destroyed", "failed"},
                AnswerBind(s, answer)
         PROVE  Stages'
    BY <1>17 DEF TypeOK, Stages, Creating, AnswerBind
  <1>18. ASSUME NEW k \in Keys, ForgetKey(k)
         PROVE  Stages'
    BY <1>18 DEF TypeOK, Stages, Creating, ForgetKey
  <1>19. CASE UNCHANGED vars
    BY <1>19 DEF vars, TypeOK, Stages, Creating
  <1> QED
    BY <1>1, <1>2, <1>3, <1>4, <1>5, <1>6, <1>7, <1>8, <1>9, <1>10, <1>11,
       <1>12, <1>13, <1>14, <1>15, <1>16, <1>17, <1>18, <1>19
       DEF Next, Private, Main, Server

(* What is granted is held by nobody, and can be held.                     *)
LEMMA GrantHolds ==
  ASSUME TypeOK, FlagsAreHeld, OneCreator, NEW s \in Sessions, Acquire(s),
         temporaryKeys' = temporaryKeys
  PROVE  FlagsAreHeld' /\ OneCreator'
  <1>1. CASE Creation(s) = "none"
    BY <1>1 DEF Acquire, FlagsAreHeld, FlagIsHeld, OneCreator, Creating
  <1>2. CASE Creation(s) # "none"
    <2>1. \A t \in Sessions :
            Creating(t) => TypeOf(myKeyCreation[t]) # TypeOf(Creation(s))
      BY <1>2, Granted DEF FlagsAreHeld, FlagIsHeld
    <2>2. /\ creatingKeys' =
                [creatingKeys EXCEPT ![TypeOf(Creation(s))] = TRUE]
          /\ myKeyCreation' = [myKeyCreation EXCEPT ![s] = Creation(s)]
      BY <1>2 DEF Acquire
    <2>3. temporaryKeys[TypeOf(Creation(s))] = NoKey
      BY <1>2, Granted
    <2> QED
      BY <2>1, <2>2, <2>3, TypeOfType
         DEF TypeOK, FlagsAreHeld, FlagIsHeld, OneCreator, Creating
  <1> QED
    BY <1>1, <1>2

(* A creation is held by one session, with its flag set and its place      *)
(* empty: flags are taken when they are free, and given back by the holder.*)
LEMMA HeldStep ==
  ASSUME TypeOK, Stages, FlagsAreHeld, OneCreator, [Next]_vars
  PROVE  FlagsAreHeld' /\ OneCreator'
  <1> USE DEF dcVars, mainVars, serverVars, sessionVars
  <1>1. ASSUME NEW s \in Sessions,
               Disconnect(s) \/ CheckAuthKey(s) \/ UpdateAuthKey(s) \/
               LookForRegularKey(s) \/ SendBind(s) \/ BindAgain(s) \/
               Start(s) \/ Kill(s)
        PROVE  FlagsAreHeld' /\ OneCreator'
    BY <1>1
       DEF FlagsAreHeld, FlagIsHeld, OneCreator, Creating, Disconnect,
           CheckAuthKey, UpdateAuthKey, LookForRegularKey, SendBind,
           BindAgain, Start, Kill
  <1>2. ASSUME NEW s \in Sessions, ConnectToServer(s)
        PROVE  FlagsAreHeld' /\ OneCreator'
    BY <1>2, GrantHolds DEF TypeOK, ConnectToServer
  <1>3. ASSUME NEW s \in Sessions, AcquireForMedia(s)
        PROVE  FlagsAreHeld' /\ OneCreator'
    BY <1>3, GrantHolds DEF TypeOK, AcquireForMedia
  <1>4. ASSUME NEW s \in Sessions, UnboundFailed(s) \/ Stop(s) \/ Destroy(s)
        PROVE  FlagsAreHeld' /\ OneCreator'
    BY <1>4, TypeOfType
       DEF TypeOK, Creating, FlagsAreHeld, FlagIsHeld, OneCreator,
           UnboundFailed,
           Stop, Destroy, ReleaseOnFail
  <1>5. ASSUME NEW s \in Sessions, BindDone(s)
        PROVE  FlagsAreHeld' /\ OneCreator'
    BY <1>5, TypeOfType
       DEF TypeOK, Creating, FlagsAreHeld, FlagIsHeld, OneCreator, Stages,
           BindDone
  <1>6. ASSUME NEW s \in Sessions, BindRefused(s)
        PROVE  FlagsAreHeld' /\ OneCreator'
    BY <1>6 DEF TypeOK, Creating, FlagsAreHeld, FlagIsHeld, OneCreator,
           BindRefused
  <1>7. ASSUME NEW s \in Sessions, BindDestroyed(s)
        PROVE  FlagsAreHeld' /\ OneCreator'
    BY <1>7, TypeOfType
       DEF TypeOK, Creating, FlagsAreHeld, FlagIsHeld, OneCreator,
           BindDestroyed,
           DestroyTemporaryKey, ReleaseOnFail
  <1>8. ASSUME NEW s \in Sessions, KeyRejected(s)
        PROVE  FlagsAreHeld' /\ OneCreator'
    BY <1>8, TypeOfType
       DEF TypeOK, Creating, FlagsAreHeld, FlagIsHeld, OneCreator, KeyRejected,
           DestroyTemporaryKey, ReleaseOnFail
  <1>9. ASSUME NEW s \in Sessions,
               NEW temporary \in Keys,
               NEW persistent \in Keys,
               UnboundReady(s, temporary, persistent)
        PROVE  FlagsAreHeld' /\ OneCreator'
    BY <1>9 DEF FlagsAreHeld, FlagIsHeld, OneCreator, Creating, UnboundReady
  <1>10. ASSUME DcTemporaryKeyChanged \/ DcPersistentKeyChanged
         PROVE  FlagsAreHeld' /\ OneCreator'
    BY <1>10
       DEF FlagsAreHeld, FlagIsHeld, OneCreator, Creating,
           DcTemporaryKeyChanged,
           DcPersistentKeyChanged
  <1>11. ASSUME KeyDestroyedOnServer
         PROVE  FlagsAreHeld' /\ OneCreator'
    BY <1>11, TypeOfType
       DEF TypeOK, Creating, FlagsAreHeld, FlagIsHeld, OneCreator,
           KeyDestroyedOnServer
  <1>12. ASSUME NEW s \in Sessions,
                NEW answer \in {"ok", "destroyed", "failed"},
                AnswerBind(s, answer)
         PROVE  FlagsAreHeld' /\ OneCreator'
    BY <1>12 DEF FlagsAreHeld, FlagIsHeld, OneCreator, Creating, AnswerBind
  <1>13. ASSUME NEW k \in Keys, ForgetKey(k)
         PROVE  FlagsAreHeld' /\ OneCreator'
    BY <1>13 DEF FlagsAreHeld, FlagIsHeld, OneCreator, Creating, ForgetKey
  <1>14. CASE UNCHANGED vars
    BY <1>14 DEF vars, TypeOK, Creating, FlagsAreHeld, FlagIsHeld, OneCreator
  <1> QED
    BY <1>1, <1>2, <1>3, <1>4, <1>5, <1>6, <1>7, <1>8, <1>9, <1>10, <1>11,
       <1>12, <1>13, <1>14
       DEF Next, Private, Main, Server

(* A temporary key replaces what is bound to the persistent key by what is *)
(* bound to it, and persistent keys are replaced only when there are none. *)
LEMMA BoundStep ==
  ASSUME TypeOK, Stages, FlagsAreHeld, OneCreator, PersistentIsMissing,
         BoundToPersistent, [Next]_vars
  PROVE  PersistentIsMissing' /\ BoundToPersistent'
  <1> USE DEF dcVars, mainVars, serverVars, sessionVars
  <1>1. ASSUME NEW s \in Sessions,
               Disconnect(s) \/ CheckAuthKey(s) \/ UpdateAuthKey(s) \/
               LookForRegularKey(s) \/ SendBind(s) \/ BindAgain(s) \/
               Start(s) \/ Kill(s)
        PROVE  PersistentIsMissing' /\ BoundToPersistent'
    BY <1>1
       DEF PersistentIsMissing, BoundToPersistent, Disconnect,
           CheckAuthKey, UpdateAuthKey, LookForRegularKey, SendBind,
           BindAgain, Start, Kill
  <1>2. ASSUME NEW s \in Sessions, ConnectToServer(s) \/ AcquireForMedia(s)
        PROVE  PersistentIsMissing' /\ BoundToPersistent'
    BY <1>2, Granted
       DEF TypeOK, PersistentIsMissing, BoundToPersistent,
           ConnectToServer, AcquireForMedia, Acquire
  <1>3. ASSUME NEW s \in Sessions, UnboundFailed(s) \/ Stop(s) \/ Destroy(s)
        PROVE  PersistentIsMissing' /\ BoundToPersistent'
    BY <1>3
       DEF TypeOK, PersistentIsMissing, BoundToPersistent,
           UnboundFailed, Stop, Destroy, ReleaseOnFail
  <1>4. ASSUME NEW s \in Sessions, BindDone(s)
        PROVE  PersistentIsMissing' /\ BoundToPersistent'
    <2>1. CASE myKeyCreation[s] = "persistent"
      <3>1. /\ persistentKey' = bindKey[s] /\ bindKey[s] # NoKey
            /\ temporaryKeys' = [temporaryKeys EXCEPT !["regular"] = key[s]]
            /\ boundTo' = [boundTo EXCEPT !["regular"] = bindKey[s]]
            /\ myKeyCreation' = [myKeyCreation EXCEPT ![s] = "none"]
        BY <1>4, <2>1 DEF Stages, BindDone, TypeOf
      <3>2. \A t \in Types : temporaryKeys[t] = NoKey
        BY <2>1 DEF PersistentIsMissing, BoundToPersistent
      <3>3. BoundToPersistent'
        BY <3>1, <3>2 DEF TypeOK, BoundToPersistent, Types
      <3>4. \A t \in Sessions \ {s} : myKeyCreation[t] # "persistent"
        BY <2>1 DEF OneCreator, Creating, TypeOf
      <3>5. PersistentIsMissing'
        BY <3>1, <3>4 DEF TypeOK, PersistentIsMissing
      <3> QED
        BY <3>3, <3>5
    <2>2. CASE myKeyCreation[s] # "persistent"
      <3>1. /\ persistentKey' = persistentKey /\ persistentKey = bindKey[s]
            /\ bindKey[s] # NoKey
            /\ temporaryKeys' =
                 [temporaryKeys EXCEPT ![TypeOf(myKeyCreation[s])] = key[s]]
            /\ boundTo' =
                 [boundTo EXCEPT ![TypeOf(myKeyCreation[s])] = bindKey[s]]
            /\ myKeyCreation' = [myKeyCreation EXCEPT ![s] = "none"]
        BY <1>4, <2>2 DEF Stages, BindDone, KeyIsAccepted
      <3>2. BoundToPersistent'
        BY <3>1 DEF TypeOK, BoundToPersistent
      <3>3. PersistentIsMissing'
        BY <3>1 DEF TypeOK, PersistentIsMissing
      <3> QED
        BY <3>2, <3>3
    <2> QED
      BY <2>1, <2>2
  <1>5. ASSUME NEW s \in Sessions, BindRefused(s)
        PROVE  PersistentIsMissing' /\ BoundToPersistent'
    BY <1>5 DEF TypeOK, PersistentIsMissing, BoundToPersistent, BindRefused
  <1>6. ASSUME NEW s \in Sessions, BindDestroyed(s) \/ KeyRejected(s)
        PROVE  PersistentIsMissing' /\ BoundToPersistent'
    BY <1>6
       DEF TypeOK, PersistentIsMissing, BoundToPersistent,
           BindDestroyed, KeyRejected, DestroyTemporaryKey,
           ReleaseOnFail
  <1>7. ASSUME NEW s \in Sessions,
               NEW temporary \in Keys,
               NEW persistent \in Keys,
               UnboundReady(s, temporary, persistent)
        PROVE  PersistentIsMissing' /\ BoundToPersistent'
    BY <1>7 DEF PersistentIsMissing, BoundToPersistent, UnboundReady
  <1>8. ASSUME DcTemporaryKeyChanged \/ DcPersistentKeyChanged
        PROVE  PersistentIsMissing' /\ BoundToPersistent'
    BY <1>8
       DEF PersistentIsMissing, BoundToPersistent,
           DcTemporaryKeyChanged, DcPersistentKeyChanged
  <1>9. ASSUME KeyDestroyedOnServer
        PROVE  PersistentIsMissing' /\ BoundToPersistent'
    BY <1>9
       DEF TypeOK, PersistentIsMissing, BoundToPersistent,
           KeyDestroyedOnServer
  <1>10. ASSUME NEW s \in Sessions,
                NEW answer \in {"ok", "destroyed", "failed"},
                AnswerBind(s, answer)
         PROVE  PersistentIsMissing' /\ BoundToPersistent'
    BY <1>10 DEF PersistentIsMissing, BoundToPersistent, AnswerBind
  <1>11. ASSUME NEW k \in Keys, ForgetKey(k)
         PROVE  PersistentIsMissing' /\ BoundToPersistent'
    BY <1>11 DEF PersistentIsMissing, BoundToPersistent, ForgetKey
  <1>12. CASE UNCHANGED vars
    BY <1>12 DEF vars, TypeOK, PersistentIsMissing, BoundToPersistent
  <1> QED
    BY <1>1, <1>2, <1>3, <1>4, <1>5, <1>6, <1>7, <1>8, <1>9, <1>10, <1>11,
       <1>12
       DEF Next, Private, Main, Server

(* New keys are unlike any that is used, and other sessions bind to the    *)
(* persistent key in use.                                                  *)
LEMMA FreshStep ==
  ASSUME TypeOK, Stages, OneCreator, PersistentIsMissing, NewKeyIsFresh,
         [Next]_vars
  PROVE  NewKeyIsFresh'
  <1> USE DEF dcVars, mainVars, serverVars, sessionVars
  <1>1. ASSUME NEW s \in Sessions,
               Disconnect(s) \/ CheckAuthKey(s) \/ UpdateAuthKey(s) \/
               LookForRegularKey(s) \/ SendBind(s) \/ BindAgain(s) \/
               Start(s)
        PROVE  NewKeyIsFresh'
    BY <1>1
       DEF TypeOK, NewKeyIsFresh, Disconnect, Stopped, CheckAuthKey,
           UpdateAuthKey, LookForRegularKey, ApplyFirstKey,
           CreateOrWait, SendBind, BindAgain, Start
  <1>2. ASSUME NEW s \in Sessions, ConnectToServer(s) \/ AcquireForMedia(s)
        PROVE  NewKeyIsFresh'
    BY <1>2
       DEF TypeOK, NewKeyIsFresh, ConnectToServer, AcquireForMedia,
           Acquire, CreatorAfterAcquire
  <1>3. ASSUME NEW s \in Sessions,
               UnboundFailed(s) \/ Stop(s) \/ Kill(s) \/ Destroy(s)
        PROVE  NewKeyIsFresh'
    BY <1>3
       DEF TypeOK, NewKeyIsFresh, Stages, UnboundFailed, Stop, Kill,
           Destroy, ReleaseOnFail, ForgetPrivate
  <1>4. ASSUME NEW s \in Sessions,
               NEW temporary \in Keys,
               NEW persistent \in Keys,
               UnboundReady(s, temporary, persistent)
        PROVE  NewKeyIsFresh'
    BY <1>4, NoKeyAssumption
       DEF TypeOK, NewKeyIsFresh, PersistentIsMissing, OneCreator,
           Creating, TypeOf, UnboundReady, Used, Types
  <1>5. ASSUME NEW s \in Sessions, BindDone(s)
        PROVE  NewKeyIsFresh'
    <2>1. [type |-> "created", key |-> bindKey[s]] \in Event
      BY <1>5 DEF TypeOK, KeyOrNone, Stages, BindDone, Event
    <2>2. ASSUME NEW i \in DOMAIN posted'
          PROVE  \/ posted'[i].key = bindKey[s]
                 \/ i \in DOMAIN posted /\ posted'[i] = posted[i]
      BY <1>5, <2>1, <2>2, QueueAppend DEF BindDone
    <2>3. /\ myKeyCreation' = [myKeyCreation EXCEPT ![s] = "none"]
          /\ keyCreator' = [keyCreator EXCEPT ![s] = "none"]
          /\ bindKey' = [bindKey EXCEPT ![s] = NoKey]
      BY <1>5 DEF BindDone
    <2> QED
      BY <2>2, <2>3 DEF TypeOK, NewKeyIsFresh, Stages
  <1>6. ASSUME NEW s \in Sessions, BindRefused(s)
        PROVE  NewKeyIsFresh'
    BY <1>6 DEF TypeOK, NewKeyIsFresh, Stages, BindRefused
  <1>7. ASSUME NEW s \in Sessions, BindDestroyed(s)
        PROVE  NewKeyIsFresh'
    <2>1. [type |-> "destroyed", key |-> bindKey[s]] \in Event
      BY <1>7 DEF TypeOK, KeyOrNone, Stages, BindDestroyed, Event
    <2>2. ASSUME NEW i \in DOMAIN posted'
          PROVE  \/ posted'[i].key = bindKey[s]
                 \/ i \in DOMAIN posted /\ posted'[i] = posted[i]
      BY <1>7, <2>1, <2>2, QueueAppend DEF BindDestroyed
    <2>3. /\ myKeyCreation' = [myKeyCreation EXCEPT ![s] = "none"]
          /\ keyCreator' = [keyCreator EXCEPT ![s] = "none"]
          /\ bindKey' = [bindKey EXCEPT ![s] = NoKey]
      BY <1>7 DEF BindDestroyed, DestroyTemporaryKey, ReleaseOnFail
    <2> QED
      BY <2>2, <2>3 DEF TypeOK, NewKeyIsFresh, Stages
  <1>8. ASSUME NEW s \in Sessions, KeyRejected(s)
        PROVE  NewKeyIsFresh'
    BY <1>8
       DEF TypeOK, NewKeyIsFresh, Stages, KeyRejected,
           DestroyTemporaryKey, ReleaseOnFail
  <1>9. ASSUME DcTemporaryKeyChanged
        PROVE  NewKeyIsFresh'
    BY <1>9
       DEF TypeOK, NewKeyIsFresh, DcTemporaryKeyChanged,
           UpdateEverySession
  <1>10. ASSUME DcPersistentKeyChanged
         PROVE  NewKeyIsFresh'
    BY <1>10, QueueTail
       DEF TypeOK, NewKeyIsFresh, DcPersistentKeyChanged,
           UpdateEverySession
  <1>11. ASSUME KeyDestroyedOnServer
         PROVE  NewKeyIsFresh'
    BY <1>11, QueueTail
       DEF TypeOK, NewKeyIsFresh, KeyDestroyedOnServer,
           UpdateEverySession
  <1>12. ASSUME NEW s \in Sessions,
                NEW answer \in {"ok", "destroyed", "failed"},
                AnswerBind(s, answer)
         PROVE  NewKeyIsFresh'
    BY <1>12 DEF TypeOK, NewKeyIsFresh, AnswerBind
  <1>13. ASSUME NEW k \in Keys, ForgetKey(k)
         PROVE  NewKeyIsFresh'
    BY <1>13 DEF TypeOK, NewKeyIsFresh, ForgetKey
  <1>14. CASE UNCHANGED vars
    BY <1>14 DEF vars, TypeOK, NewKeyIsFresh
  <1> QED
    BY <1>1, <1>2, <1>3, <1>4, <1>5, <1>6, <1>7, <1>8, <1>9, <1>10, <1>11,
       <1>12, <1>13, <1>14
       DEF Next, Private, Main, Server

(* The queue of the main thread stays in order.                            *)
LEMMA PostedStep ==
  ASSUME TypeOK, Stages, PersistentIsMissing, NewKeyIsFresh, PostedInOrder,
         [Next]_vars
  PROVE  PostedInOrder'
  <1> USE DEF dcVars, mainVars, serverVars, sessionVars
  <1>1. ASSUME NEW s \in Sessions,
               Disconnect(s) \/ CheckAuthKey(s) \/ UpdateAuthKey(s) \/
               LookForRegularKey(s) \/ SendBind(s) \/ BindAgain(s) \/
               Start(s) \/ Kill(s) \/ ConnectToServer(s) \/
               AcquireForMedia(s) \/ UnboundFailed(s) \/ Stop(s) \/
               Destroy(s) \/ BindRefused(s) \/ KeyRejected(s)
        PROVE  PostedInOrder'
    BY <1>1
       DEF PostedInOrder, IsCreated, Disconnect, CheckAuthKey,
           UpdateAuthKey, LookForRegularKey, SendBind, BindAgain, Start,
           Kill, ConnectToServer, AcquireForMedia, UnboundFailed, Stop,
           Destroy, BindRefused, KeyRejected, DestroyTemporaryKey
  <1>2. ASSUME NEW s \in Sessions,
               NEW temporary \in Keys,
               NEW persistent \in Keys,
               UnboundReady(s, temporary, persistent)
        PROVE  PostedInOrder'
    BY <1>2 DEF PostedInOrder, IsCreated, UnboundReady
  <1>3. ASSUME NEW s \in Sessions, BindDone(s)
        PROVE  PostedInOrder'
    <2>1. CASE myKeyCreation[s] # "persistent"
      BY <1>3, <2>1 DEF BindDone, PostedInOrder, IsCreated
    <2>2. CASE myKeyCreation[s] = "persistent"
      <3>1. [type |-> "created", key |-> bindKey[s]] \in Event
        BY <1>3 DEF TypeOK, KeyOrNone, Stages, BindDone, Event
      <3>2. /\ posted' = Append(posted,
                               [type |-> "created", key |-> bindKey[s]])
            /\ persistentKey' = bindKey[s]
        BY <1>3, <2>2 DEF BindDone
      <3>3. \A i \in DOMAIN posted : posted[i].key # bindKey[s]
        BY <1>3, <2>2 DEF NewKeyIsFresh, Stages, BindDone
      <3>4. \A i \in DOMAIN posted : ~IsCreated(i)
        <4>1. \A i \in DOMAIN posted : posted[i].key # NoKey
          <5>1. posted \in Seq(Event)
            BY DEF TypeOK, Event
          <5>2. \A i \in DOMAIN posted : posted[i] \in Event
            BY <5>1
          <5> QED
            BY <5>2, NoKeyAssumption DEF Event
        <4> QED
          BY <2>2, <4>1 DEF PersistentIsMissing, PostedInOrder
      <3> QED
        BY <3>1, <3>2, <3>3, <3>4, QueueAppend DEF PostedInOrder, IsCreated
    <2> QED
      BY <2>1, <2>2
  <1>4. ASSUME NEW s \in Sessions, BindDestroyed(s)
        PROVE  PostedInOrder'
    <2>1. UNCHANGED <<persistentKey, keysForWrite>>
      BY <1>4 DEF BindDestroyed, DestroyTemporaryKey
    <2>2. CASE UNCHANGED posted
      BY <2>1, <2>2 DEF PostedInOrder, IsCreated
    <2>3. CASE posted' = Append(posted,
                                [type |-> "destroyed", key |-> bindKey[s]])
      <3>1. [type |-> "destroyed", key |-> bindKey[s]] \in Event
        BY <1>4 DEF TypeOK, KeyOrNone, Stages, BindDestroyed, Event
      <3>2. \A i \in DOMAIN posted' \ DOMAIN posted : ~IsCreated(i)'
        BY <2>3, <3>1, QueueAppend DEF IsCreated
      <3> QED
        BY <2>1, <2>3, <3>1, <3>2, QueueAppend DEF PostedInOrder, IsCreated
    <2> QED
      BY <1>4, <2>2, <2>3 DEF BindDestroyed
  <1>5. ASSUME DcTemporaryKeyChanged
        PROVE  PostedInOrder'
    BY <1>5
       DEF PostedInOrder, IsCreated, DcTemporaryKeyChanged,
           UpdateEverySession
  <1>6. ASSUME DcPersistentKeyChanged
        PROVE  PostedInOrder'
    BY <1>6, QueueTail
       DEF PostedInOrder, IsCreated, DcPersistentKeyChanged,
           UpdateEverySession
  <1>7. ASSUME KeyDestroyedOnServer
        PROVE  PostedInOrder'
    <2>1. posted # <<>> /\ ~IsCreated(1) /\ posted' = Tail(posted)
      BY <1>7, QueueTail DEF KeyDestroyedOnServer, IsCreated
    <2>2. CASE persistentKey # posted[1].key
      <3>1. UNCHANGED <<persistentKey, keysForWrite>>
        BY <1>7, <2>1, <2>2, QueueTail DEF KeyDestroyedOnServer
      <3> QED
        BY <2>1, <3>1, QueueTail DEF PostedInOrder, IsCreated
    <2>3. CASE persistentKey = posted[1].key
      <3>1. persistentKey' = NoKey /\ keysForWrite' = NoKey
        BY <1>7, <2>1, <2>3, QueueTail DEF KeyDestroyedOnServer
      <3>2. ASSUME NEW i \in DOMAIN posted PROVE ~IsCreated(i)
        <4>1. i # 1 => 1 \in 1 .. (i - 1)
          BY <2>1, QueueTail
        <4> QED
          BY <2>1, <2>3, <4>1 DEF PostedInOrder
      <3> QED
        BY <2>1, <3>1, <3>2, QueueTail DEF PostedInOrder, IsCreated
    <2> QED
      BY <2>2, <2>3
  <1>8. ASSUME NEW s \in Sessions,
               NEW answer \in {"ok", "destroyed", "failed"},
               AnswerBind(s, answer)
        PROVE  PostedInOrder'
    BY <1>8 DEF PostedInOrder, IsCreated, AnswerBind
  <1>9. ASSUME NEW k \in Keys, ForgetKey(k)
        PROVE  PostedInOrder'
    BY <1>9 DEF PostedInOrder, IsCreated, ForgetKey
  <1>10. CASE UNCHANGED vars
    BY <1>10 DEF vars, PostedInOrder, IsCreated
  <1> QED
    BY <1>1, <1>2, <1>3, <1>4, <1>5, <1>6, <1>7, <1>8, <1>9, <1>10
       DEF Next, Private, Main, Server

-----------------------------------------------------------------------------
(* The invariant holds initially.                                          *)
LEMMA InitInv == Init => TypeOK /\ IInv
  <1> SUFFICES ASSUME Init PROVE TypeOK /\ IInv
    OBVIOUS
  <1>1. TypeOK
    <2>1. \A s \in Sessions : RealType(s) \in Types
      BY DEF RealType, Types
    <2>2. <<>> \in Seq([type : {"created", "destroyed"}, key : Keys])
      OBVIOUS
    <2>3. [t \in Types |-> NoKey] \in [Types -> KeyOrNone]
      BY DEF KeyOrNone
    <2>4. [s \in Sessions |-> NoKey] \in [Sessions -> KeyOrNone]
      BY DEF KeyOrNone
    <2> QED
      BY <2>1, <2>2, <2>3, <2>4 DEF Init, TypeOK, Creations
  <1>2. Stages /\ FlagsAreHeld /\ OneCreator /\ PersistentIsMissing
    BY DEF Init, Stages, FlagsAreHeld, OneCreator, PersistentIsMissing,
           Creating
  <1>3. BoundToPersistent /\ NewKeyIsFresh
    BY DEF Init, BoundToPersistent, NewKeyIsFresh, Types
  <1>4. PostedInOrder
    BY DEF Init, PostedInOrder
  <1> QED
    BY <1>1, <1>2, <1>3, <1>4 DEF IInv

(* Every step keeps it.                                                    *)
LEMMA NextInv == TypeOK /\ IInv /\ [Next]_vars => TypeOK' /\ IInv'
  BY TypeStep, StagesStep, HeldStep, BoundStep, FreshStep, PostedStep DEF IInv

LEMMA Invariant == Spec => [](TypeOK /\ IInv)
  BY InitInv, NextInv, PTL DEF Spec

(* The types of the variables are as declared.                             *)
THEOREM TypeCorrect == Spec => []TypeOK
  BY Invariant, PTL

(* Dcenter's Expects hold at any time: a session that has acquired a       *)
(* creation (acquireKeyCreation) finds its flag set and its place empty    *)
(* when it releases it.                                                    *)
THEOREM CreationsAreHeld == Spec => []HeldAsExpected
  <1>1. IInv => HeldAsExpected
    BY DEF IInv, Stages, FlagsAreHeld, HeldAsExpected
  <1> QED
    BY <1>1, Invariant, PTL

(* However many sessions run, on whatever threads, at most one creates a   *)
(* key for a place of the Dcenter.                                         *)
THEOREM CreatorsExcludeEachOther == Spec => []OneCreator
  <1>1. IInv => OneCreator
    BY DEF IInv
  <1> QED
    BY <1>1, Invariant, PTL

(* Every temporary key a session may take from the Dcenter is bound to the *)
(* persistent key the datacenter has: releaseKeyCreationOnDone refuses the *)
(* others, and destroyConfirmedForgottenKey takes all with it.             *)
THEOREM KeysAreBound == Spec => []BoundToPersistent
  <1>1. IInv => BoundToPersistent
    BY DEF IInv
  <1> QED
    BY <1>1, Invariant, PTL

(* When the main thread has handled what was posted, Instance's keys to    *)
(* write agree with the Dcenter, in whatever order sessions reported new   *)
(* keys and keys the server has destroyed.                                 *)
THEOREM SavedKeyIsInUse == Spec => []SavedKeyIsCurrent
  <1>1. IInv => SavedKeyIsCurrent
    BY DEF IInv, PostedInOrder, SavedKeyIsCurrent
  <1> QED
    BY <1>1, Invariant, PTL

=============================================================================
