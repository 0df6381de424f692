------------------------- MODULE PreferencesProofs -------------------------
(***************************************************************************)
(* Proofs about Preferences, for any number of requests, repositories,     *)
(* replicas and items: the types, that no two saves are handed the same    *)
(* prefVersion, that edits serialized by one lock survive, that the        *)
(* durable copy catches up with the blob, and that a tab comes to show the *)
(* stored notification settings.                                           *)
(***************************************************************************)
EXTENDS Preferences, TLAPS

-----------------------------------------------------------------------------
(* Types.                                                                  *)

(* The blobs the stores start with are blobs, and None is not one.         *)
LEMMA BlobTypes ==
    /\ Defaults \in Blobs
    /\ InitialBlob \in Blobs
    /\ None \notin Blobs
  BY PreferencesAssumption DEF PreferencesAssumption, Defaults, InitialBlob, Blobs

(* A request's kind, repository, item and replica are what they should be. *)
LEMMA ProfileTypes ==
    ASSUME profile \in [Requests -> Profiles], NEW r \in Requests
    PROVE  /\ Kind(r) \in Kinds
           /\ Repo(r) \in Repos
           /\ Item(r) \in Items
           /\ CacheOf[Repo(r)] \in Replicas
  BY PreferencesAssumption DEF PreferencesAssumption, Kind, Repo, Item

(* A broadcast or stat_user of a request is a frame.                       *)
LEMMA FrameType ==
    ASSUME NEW r \in Requests, prefs \in [Requests -> Blobs],
           NEW type \in {"stat_user", "pinned", "notificationPrefs"}
    PROVE  Frame(r, type) \in Frames
  BY DEF Frame, Frames, Blobs, PinnedOf, NotifOf

(* The stores, the requests and the tab start well typed.                  *)
LEMMA InitTypes == Init => TypeOK
<1> SUFFICES ASSUME Init PROVE TypeOK
  OBVIOUS
<1>1. profile \in [Requests -> Profiles]
  BY DEF Init
<1>2. StoresOK
  BY BlobTypes DEF Init, StoresOK
<1>3. pc \in [Requests -> Labels]
  <2>1. ASSUME NEW r \in Requests PROVE FirstStep(r) \in Labels
    BY <1>1, ProfileTypes DEF FirstStep, Kinds, Labels
  <2> QED BY <2>1 DEF Init
<1>4. RequestsOK
  BY <1>1, <1>3, BlobTypes, PreferencesAssumption
     DEF Init, RequestsOK, PreferencesAssumption
<1>5. view \in [pinned : SUBSET Items, notif : SUBSET Items]
  BY BlobTypes DEF Init, PinnedOf, NotifOf, Blobs
<1>6. TabOK
  <2>1. conn \in {"off", "booting", "on"} /\ inbox \in Seq(Frames)
    BY DEF Init
  <2>2. lastServerPrefVersion \in Nat /\ lastNotifPrefVersion \in Nat /\ missed \in BOOLEAN
    BY DEF Init
  <2> QED BY <1>5, <2>1, <2>2 DEF TabOK
<1> QED BY <1>2, <1>4, <1>6 DEF TypeOK

(* A step of load() keeps the types.                                       *)
LEMMA LoadTypes ==
    ASSUME TypeOK, NEW r \in Requests, Load(r)
    PROVE  TypeOK'
<1> USE DEF TypeOK
<1>0. /\ Repo(r) \in Repos
      /\ CacheOf[Repo(r)] \in Replicas
  BY ProfileTypes DEF RequestsOK
<1>1. CASE LoadHit(r)
  <2>1. Cached(r) \in Blobs
    BY <1>0, <1>1 DEF LoadHit, Cached, StoresOK
  <2>2. /\ prefs' \in [Requests -> Blobs]
        /\ pc' \in [Requests -> Labels]
    BY <1>1, <2>1 DEF LoadHit, Goto, Labels, RequestsOK
  <2> QED BY <1>1, <2>2 DEF LoadHit, StoresOK, RequestsOK, TabOK, storeVars, tabVars
<1>2. CASE LoadGet(r)
  <2>1. /\ conn' \in {"off", "booting", "on"}
        /\ inbox' \in Seq(Frames)
    <3>1. CASE UNCHANGED <<conn, inbox>>
      BY <3>1 DEF TabOK
    <3>2. CASE conn' = "booting" /\ inbox' = <<>>
      BY <3>2
    <3> QED BY <1>2, <3>1, <3>2 DEF LoadGet, Connects
  <2>2. /\ prefs' \in [Requests -> Blobs]
        /\ pc' \in [Requests -> Labels]
    BY <1>2 DEF LoadGet, Connects, Goto, Labels, StoresOK, RequestsOK
  <2>3. missed' \in BOOLEAN
    BY <1>2 DEF LoadGet, Connects, LosesNotif, TabOK
  <2>4. UNCHANGED <<profile, start, storeVars, lock, newVersion, tabVars, faults>>
    BY <1>2 DEF LoadGet, Connects
  <2> QED BY <2>1, <2>2, <2>3, <2>4 DEF StoresOK, RequestsOK, TabOK, storeVars, tabVars
<1>3. CASE Fill(r)
  BY <1>0, <1>3 DEF Fill, CacheSet, Goto, Labels, StoresOK, RequestsOK, TabOK, tabVars
<1>4. CASE RestoreRead(r)
  <2>1. /\ prefs' \in [Requests -> Blobs]
        /\ pc' \in [Requests -> Labels]
    BY <1>4, BlobTypes DEF RestoreRead, Goto, Labels, StoresOK, RequestsOK
  <2> QED BY <1>4, <2>1 DEF RestoreRead, StoresOK, RequestsOK, TabOK, storeVars, tabVars
<1>5. CASE RestoreSet(r)
  BY <1>5 DEF RestoreSet, Goto, Labels, StoresOK, RequestsOK, TabOK, tabVars
<1>6. CASE LoadFails(r)
  <2>1. /\ conn' \in {"off", "booting", "on"}
        /\ inbox' \in Seq(Frames)
        /\ missed' \in BOOLEAN
    <3>1. CASE UNCHANGED <<conn, inbox, missed>>
      BY <3>1 DEF TabOK
    <3>2. CASE conn' = "booting" /\ inbox' = <<>> /\ missed' = (missed \/ LosesNotif)
      BY <3>2 DEF LosesNotif, TabOK
    <3> QED BY <1>6, <3>1, <3>2 DEF LoadFails, Connects
  <2>2. /\ prefs' \in [Requests -> Blobs]
        /\ pc' \in [Requests -> Labels]
    BY <1>6, BlobTypes DEF LoadFails, Goto, Labels, RequestsOK
  <2>3. UNCHANGED <<profile, start, storeVars, lock, newVersion, tabVars>> /\ faults' \in 0..MaxFaults
    BY <1>6, PreferencesAssumption DEF LoadFails, Fault, RequestsOK, PreferencesAssumption
  <2> QED BY <2>1, <2>2, <2>3 DEF StoresOK, RequestsOK, TabOK, storeVars, tabVars
<1> QED BY <1>1, <1>2, <1>3, <1>4, <1>5, <1>6 DEF Load

(* An edit yields a set of items and the next version is a number.         *)
LEMMA EditType ==
    ASSUME TypeOK, NEW r \in Requests
    PROVE  /\ Edited(r) \in SUBSET Items
           /\ NextPrefVersion(r) \in Nat
  BY ProfileTypes DEF TypeOK, StoresOK, RequestsOK, Edited, NextPrefVersion, Blobs

(* Releasing the lock of mutate() keeps its type.                          *)
LEMMA ReleaseType ==
    ASSUME TypeOK, NEW r \in Requests, Release(r)
    PROVE  lock' \in [Repos -> Requests \cup {None}]
  BY DEF Release, TypeOK, RequestsOK

(* A step of save() keeps the types.                                       *)
LEMMA SaveTypes ==
    ASSUME TypeOK, NEW r \in Requests, Save(r)
    PROVE  TypeOK'
<1> USE DEF TypeOK
<1>0. CacheOf[Repo(r)] \in Replicas
  BY ProfileTypes DEF RequestsOK
<1>a. MaxFaults \in Nat
  BY PreferencesAssumption DEF PreferencesAssumption
<1>1. CASE NothingChanged(r)
  BY <1>1, ReleaseType DEF NothingChanged, Goto, Labels, StoresOK, RequestsOK, TabOK,
     storeVars, tabVars
<1>2. CASE Eval(r)
  <2>1. redis' \in Blobs
    BY <1>2, EditType DEF Eval, Blobs
  <2>2. newVersion' \in [Requests -> Nat]
    BY <1>2, EditType DEF Eval, RequestsOK
  <2> QED BY <1>2, <2>1, <2>2 DEF Eval, Goto, Labels, StoresOK, RequestsOK, TabOK, tabVars
<1>3. CASE EvalFails(r)
  <2>1. /\ [prefVersion |-> 0, items |-> Edited(r)] \in Blobs
        /\ [prefVersion |-> NextPrefVersion(r), items |-> Edited(r)] \in Blobs
    BY EditType DEF Blobs
  <2>2. prefs' \in [Requests -> Blobs] /\ redis' \in Blobs \cup {None}
    BY <1>3, <2>1 DEF EvalFails, StoresOK, RequestsOK
  <2>3. faults' \in 0..MaxFaults
    BY <1>3, <1>a DEF EvalFails, Fault, RequestsOK
  <2> QED BY <1>3, <2>2, <2>3 DEF EvalFails, Goto, Labels, StoresOK, RequestsOK, TabOK, tabVars
<1>4. CASE SaveFillsCache(r)
  BY <1>0, <1>4 DEF SaveFillsCache, CacheSet, Goto, Labels, StoresOK, RequestsOK, TabOK, tabVars
<1>5. CASE MongoUpdate(r)
  <2>1. mongo' \in Blobs \cup {None} /\ pc' \in [Requests -> Labels]
    BY <1>5 DEF MongoUpdate, Goto, Labels, StoresOK, RequestsOK
  <2>2. lock' \in [Repos -> Requests \cup {None}]
    BY <1>5, ReleaseType DEF MongoUpdate, RequestsOK
  <2> QED BY <1>5, <2>1, <2>2 DEF MongoUpdate, StoresOK, RequestsOK, TabOK, tabVars
<1>6. CASE MongoInsert(r)
  BY <1>6, ReleaseType DEF MongoInsert, Goto, Labels, StoresOK, RequestsOK, TabOK, tabVars
<1>7. CASE MongoFails(r)
  <2>1. faults' \in 0..MaxFaults
    BY <1>7, <1>a DEF MongoFails, Fault, RequestsOK
  <2> QED BY <1>7, <2>1, ReleaseType DEF MongoFails, Goto, Labels, StoresOK, RequestsOK, TabOK,
             storeVars, tabVars
<1> QED BY <1>1, <1>2, <1>3, <1>4, <1>5, <1>6, <1>7 DEF Save

(* Publishing, sending a stat_user and subscribing keep the types.         *)
LEMMA BroadcastTypes ==
    ASSUME TypeOK, NEW r \in Requests, Publish(r) \/ Boot(r) \/ Acquire(r)
    PROVE  TypeOK'
<1> USE DEF TypeOK
<1>1. CASE Publish(r)
  <2>1. Frame(r, KeyOf(r)) \in Frames
    BY FrameType DEF KeyOf, RequestsOK
  <2>2. inbox' \in Seq(Frames)
    BY <1>1, <2>1 DEF Publish, TabOK
  <2> QED BY <1>1, <2>2 DEF Publish, Goto, Labels, StoresOK, RequestsOK, TabOK,
             storeVars, tabVars
<1>2. CASE SendStatUser(r)
  <2>1. Frame(r, "stat_user") \in Frames
    BY FrameType DEF RequestsOK
  <2>2. inbox' \in Seq(Frames)
    BY <1>2, <2>1 DEF SendStatUser, TabOK
  <2> QED BY <1>2, <2>2 DEF SendStatUser, Goto, Labels, StoresOK, RequestsOK, TabOK,
             storeVars, tabVars
<1>3. CASE Subscribe(r)
  BY <1>3 DEF Subscribe, Goto, Labels, StoresOK, RequestsOK, TabOK, storeVars, tabVars
<1>4. CASE Acquire(r)
  BY <1>4, ProfileTypes DEF Acquire, Goto, Labels, StoresOK, RequestsOK, TabOK, storeVars, tabVars
<1> QED BY <1>1, <1>2, <1>3, <1>4 DEF Boot

(* A step of deleteForUser keeps the types.                                *)
LEMMA DeleteTypes ==
    ASSUME TypeOK, NEW r \in Requests, DeleteForUser(r)
    PROVE  TypeOK'
<1> USE DEF TypeOK
<1>0. CacheOf[Repo(r)] \in Replicas
  BY ProfileTypes DEF RequestsOK
<1>1. CASE DeleteRedis(r)
  BY <1>1 DEF DeleteRedis, Goto, Labels, StoresOK, RequestsOK, TabOK, tabVars
<1>2. CASE DeleteCache(r)
  BY <1>0, <1>2 DEF DeleteCache, CacheSet, Goto, Labels, StoresOK, RequestsOK, TabOK, tabVars
<1>3. CASE DeleteMongo(r)
  BY <1>3 DEF DeleteMongo, Goto, Labels, StoresOK, RequestsOK, TabOK, tabVars
<1> QED BY <1>1, <1>2, <1>3 DEF DeleteForUser

(* Applying notification preferences keeps the tab's types.                *)
LEMMA ApplyNotifTypes ==
    ASSUME TypeOK, NEW frame \in Frames, ApplyNotif(frame)
    PROVE  /\ lastNotifPrefVersion' \in Nat
           /\ view' \in [pinned : SUBSET Items, notif : SUBSET Items]
  BY DEF TypeOK, TabOK, ApplyNotif, Later, TakesNotif, Frames

(* Delivering a frame to the tab keeps the types.                          *)
LEMMA DeliverTypes ==
    ASSUME TypeOK, Deliver
    PROVE  TypeOK'
<1> USE DEF TypeOK
<1> DEFINE frame == Head(inbox)
<1>1. frame \in Frames /\ inbox' \in Seq(Frames)
  BY DEF Deliver, TabOK
<1>2. /\ lastServerPrefVersion' \in Nat
      /\ lastNotifPrefVersion' \in Nat
      /\ view' \in [pinned : SUBSET Items, notif : SUBSET Items]
  <2>1. CASE frame.type = "stat_user"
    <3>1. MergePreferences(frame)
      BY <2>1 DEF Deliver
    <3>2. frame.prefVersion \in Nat
      BY <1>1 DEF Frames
    <3> HIDE DEF frame
    <3>3. CASE UNCHANGED tabVars
      BY <3>3 DEF tabVars, TabOK
    <3>4. CASE lastServerPrefVersion' = frame.prefVersion /\ ApplyNotif(frame)
      BY <1>1, <3>2, <3>4, ApplyNotifTypes
    <3> QED BY <3>1, <3>3, <3>4 DEF MergePreferences
  <2>2. CASE frame.type # "stat_user"
    <3>1. HandlePrefUpdate(frame)
      BY <2>2 DEF Deliver
    <3>2. frame.prefVersion \in Nat /\ frame.pinned \in SUBSET Items
      BY <1>1 DEF Frames
    <3> HIDE DEF frame
    <3>3. lastServerPrefVersion' \in Nat
      BY <3>1, <3>2 DEF HandlePrefUpdate, Later, TabOK
    <3>4. CASE ApplyNotif(frame)
      BY <1>1, <3>3, <3>4, ApplyNotifTypes
    <3>5. CASE /\ view' = [view EXCEPT !.pinned = frame.pinned]
               /\ UNCHANGED lastNotifPrefVersion
      BY <3>2, <3>3, <3>5 DEF TabOK
    <3> QED BY <3>1, <3>4, <3>5 DEF HandlePrefUpdate
  <2> QED BY <2>1, <2>2
<1> QED BY <1>1, <1>2 DEF Deliver, StoresOK, RequestsOK, TabOK, storeVars, requestVars

(* Every step keeps the types.                                             *)
LEMMA TypesStep == TypeOK /\ [Next]_vars => TypeOK'
<1> SUFFICES ASSUME TypeOK, [Next]_vars PROVE TypeOK'
  OBVIOUS
<1>1. ASSUME NEW r \in Requests,
             Acquire(r) \/ Load(r) \/ Save(r) \/ Publish(r) \/ Boot(r) \/ DeleteForUser(r)
      PROVE  TypeOK'
  BY <1>1, LoadTypes, SaveTypes, BroadcastTypes, DeleteTypes
<1>2. CASE Deliver
  BY <1>2, DeliverTypes
<1>3. ASSUME NEW c \in Replicas, CacheExpires(c) PROVE TypeOK'
  BY <1>3 DEF CacheExpires, TypeOK, StoresOK, RequestsOK, TabOK, requestVars, tabVars
<1>4. CASE Flush
  <2>1. faults' \in 0..MaxFaults
    BY <1>4, PreferencesAssumption DEF PreferencesAssumption, Flush, Fault, TypeOK, RequestsOK
  <2> QED BY <1>4, <2>1 DEF Flush, TypeOK, StoresOK, RequestsOK, TabOK, requestVars, tabVars
<1>5. CASE UNCHANGED vars
  BY <1>5 DEF vars, storeVars, requestVars, tabVars, TypeOK, StoresOK, RequestsOK, TabOK
<1> QED BY <1>1, <1>2, <1>3, <1>4, <1>5 DEF Next

(* Every variable keeps its type, for any number of requests and faults.   *)
THEOREM PrefsTypeCorrect == Spec => []TypeOK
  BY InitTypes, TypesStep, PTL DEF Spec

-----------------------------------------------------------------------------
(* The invariant.  Two premises keep Redis from losing what it holds:      *)
(* Warm, the blob is there from the start and nothing takes it away, and   *)
(* Locked, every request edits under one lock.                             *)

Warm == NoFault /\ start = "warm"
Locked == NoFault /\ OneLock

(* While Redis keeps the blob nobody restores an older one.                *)
BlobStays ==
    Warm => /\ redis # None
            /\ \A r \in Requests : pc[r] \notin {"restore", "restoreSet"}

OnlyDeletersDelete ==
    \A r \in Requests : pc[r] \in {"delRedis", "delCache", "delMongo"} => Kind(r) = "delete"

(* The counter is at or above every version it handed out.                 *)
VersionsBelow ==
    (Warm \/ Locked) =>
        /\ \A r \in AllSaved : redis # None /\ newVersion[r] <= redis.prefVersion
        /\ \A r, s \in AllSaved : r # s => newVersion[r] # newVersion[s]

Inside == {"load", "fill", "restore", "restoreSet", "apply", "cacheSet",
           "mongoUpdate", "mongoInsert"}

(* What the holder of the lock has read is what Redis holds, and a cache   *)
(* is behind Redis only while the holder is between its EVAL and its       *)
(* cache_.set.                                                             *)
HolderReads(r) ==
    /\ pc[r] \in Inside => lock[Repo(r)] = r
    /\ pc[r] \in {"restore", "restoreSet"} => redis = None
    /\ pc[r] \in {"fill", "cacheSet"} => redis # None /\ prefs[r] = redis
    /\ pc[r] = "apply" => redis = None \/ prefs[r] = redis
    /\ Cached(r) # None => redis # None /\ (Cached(r) = redis \/
                               \E s \in Requests : pc[s] = "cacheSet")
    /\ Saved(r) => redis # None /\ Item(r) \in redis.items

Serialized == Locked => \A r \in Requests : HolderReads(r)

PrefsInv == TypeOK /\ OnlyDeletersDelete /\ BlobStays /\ VersionsBelow /\ Serialized

(* The stores as they are found satisfy the invariant.                     *)
LEMMA InitInv == Init => PrefsInv
<1> SUFFICES ASSUME Init PROVE PrefsInv
  OBVIOUS
<1>1. TypeOK
  BY InitTypes
<1>2. \A r \in Requests : pc[r] = FirstStep(r) /\ Kind(r) \in Kinds
  BY <1>1, ProfileTypes DEF Init, TypeOK, RequestsOK
<1>3. OnlyDeletersDelete
  BY <1>2 DEF OnlyDeletersDelete, FirstStep, Kinds
<1>4. BlobStays
  <2>1. \A r \in Requests : pc[r] \notin {"restore", "restoreSet"}
    BY <1>2 DEF FirstStep, Kinds
  <2>2. start = "warm" => redis # None
    BY BlobTypes DEF Init
  <2> QED BY <2>1, <2>2 DEF BlobStays, Warm
<1>5. AllSaved = {}
  BY DEF Init, AllSaved, Saved
<1>6. VersionsBelow
  BY <1>5 DEF VersionsBelow
<1>7. Serialized
  <2> SUFFICES ASSUME Locked, NEW r \in Requests PROVE HolderReads(r)
    BY DEF Serialized
  <2>1. Kind(r) = "mutate"
    BY DEF Locked, OneLock
  <2>2. pc[r] = "lock"
    BY <1>2, <2>1 DEF FirstStep
  <2>3. Cached(r) = None
    BY <1>1, ProfileTypes DEF Init, Cached, TypeOK, RequestsOK
  <2>4. ~Saved(r)
    BY DEF Init, Saved
  <2> QED BY <2>2, <2>3, <2>4 DEF HolderReads, Inside
<1> QED BY <1>1, <1>3, <1>4, <1>6, <1>7 DEF PrefsInv

-----------------------------------------------------------------------------
(* Steps.                                                                  *)

(* A step changes no profile and no fault goes away.                       *)
LEMMA StepKeepsSetup ==
    ASSUME TypeOK, [Next]_vars
    PROVE  /\ profile' = profile /\ start' = start
           /\ NoFault' => NoFault
           /\ OneLock' = OneLock
           /\ \A r \in Requests : Kind(r)' = Kind(r) /\ Repo(r)' = Repo(r) /\ Item(r)' = Item(r)
<1>1. profile' = profile /\ start' = start
  BY DEF Next, vars, Load, Save, Boot, DeleteForUser, Acquire, LoadHit, LoadGet, Connects, Fill,
     RestoreRead, RestoreSet, LoadFails, NothingChanged, Eval, EvalFails, SaveFillsCache, MongoUpdate,
     MongoInsert, MongoFails, Publish, SendStatUser, Subscribe, Deliver, DeleteRedis,
     DeleteCache, DeleteMongo, CacheExpires, Flush
<1>2. faults' = faults \/ faults' = faults + 1
  BY DEF Next, vars, Load, Save, Boot, DeleteForUser, Acquire, LoadHit, LoadGet, Connects, Fill,
     RestoreRead, RestoreSet, LoadFails, NothingChanged, Eval, EvalFails, SaveFillsCache, MongoUpdate,
     MongoInsert, MongoFails, Publish, SendStatUser, Subscribe, Deliver, DeleteRedis,
     DeleteCache, DeleteMongo, CacheExpires, Flush, Fault
<1>3. faults \in Nat
  BY PreferencesAssumption DEF PreferencesAssumption, TypeOK, RequestsOK
<1> QED BY <1>1, <1>2, <1>3 DEF NoFault, OneLock, Kind, Repo, Item

(* No other request reaches the labels of deleteForUser.                   *)
LEMMA DeletersStep ==
    ASSUME TypeOK, OnlyDeletersDelete, [Next]_vars
    PROVE  OnlyDeletersDelete'
<1>1. \A r \in Requests : Kind(r)' = Kind(r)
  BY StepKeepsSetup
<1>2. pc \in [Requests -> Labels]
  BY DEF TypeOK, RequestsOK
<1> DEFINE Deleting == {"delRedis", "delCache", "delMongo"}
<1>3. \A r \in Requests : pc'[r] \in Deleting => pc[r] \in Deleting
  <2>1. ASSUME NEW s \in Requests, NEW label, Goto(s, label),
               label \in Deleting => pc[s] \in Deleting
        PROVE  \A r \in Requests : pc'[r] \in Deleting => pc[r] \in Deleting
    BY <1>2, <2>1 DEF Goto
  <2>2. CASE UNCHANGED pc
    BY <2>2
  <2>3. ASSUME NEW s \in Requests,
               Acquire(s) \/ Load(s) \/ Save(s) \/ Publish(s) \/ Boot(s) \/ DeleteForUser(s)
        PROVE  \E label : Goto(s, label) /\ (label \in Deleting => pc[s] \in Deleting)
    <3>1. CASE Acquire(s) \/ Load(s)
      BY <3>1 DEF Acquire, Load, LoadHit, LoadGet, Connects, Fill, RestoreRead, RestoreSet, LoadFails
    <3>2. CASE Save(s)
      BY <3>2 DEF Save, NothingChanged, Eval, EvalFails, SaveFillsCache, MongoUpdate,
         MongoInsert, MongoFails
    <3>3. CASE Publish(s) \/ Boot(s) \/ DeleteForUser(s)
      BY <3>3 DEF Publish, Boot, SendStatUser, Subscribe, DeleteForUser, DeleteRedis,
         DeleteCache, DeleteMongo
    <3> QED BY <2>3, <3>1, <3>2, <3>3
  <2>4. Deliver \/ Flush \/ (\E c \in Replicas : CacheExpires(c)) => UNCHANGED pc
    BY DEF Deliver, Flush, CacheExpires, requestVars
  <2>5. UNCHANGED vars => UNCHANGED pc
    BY DEF vars, requestVars
  <2> QED BY <2>1, <2>2, <2>3, <2>4, <2>5 DEF Next
<1> QED BY <1>1, <1>3 DEF OnlyDeletersDelete

(* What can happen to the blob and to the versions handed out.             *)
LEMMA BlobStep ==
    ASSUME [Next]_vars
    PROVE  \/ redis' = redis /\ newVersion' = newVersion
           \/ \E r \in Requests : RestoreSet(r) \/ Eval(r) \/ EvalFails(r) \/ DeleteRedis(r)
           \/ Flush
  BY DEF Next, vars, Load, Save, Boot, DeleteForUser, Acquire, LoadHit, LoadGet, Connects, Fill,
     RestoreRead, RestoreSet, LoadFails, NothingChanged, Eval, EvalFails, SaveFillsCache, MongoUpdate,
     MongoInsert, MongoFails, Publish, SendStatUser, Subscribe, Deliver, DeleteRedis,
     DeleteCache, DeleteMongo, CacheExpires, Flush, storeVars, requestVars

(* Without faults and deletions only a restore and a save write the blob.  *)
LEMMA CalmStep ==
    ASSUME TypeOK, OnlyDeletersDelete, NoFault, NoFault', [Next]_vars
    PROVE  \/ redis' = redis /\ newVersion' = newVersion
           \/ \E r \in Requests : RestoreSet(r) \/ Eval(r)
<1>1. faults = 0 /\ faults' = 0
  BY DEF NoFault
<1>2. ~Flush /\ \A r \in Requests : ~EvalFails(r)
  BY <1>1 DEF Flush, EvalFails, Fault
<1>3. \A r \in Requests : ~DeleteRedis(r)
  BY DEF NoFault, OnlyDeletersDelete, DeleteRedis
<1> QED BY <1>2, <1>3, BlobStep

(* From a warm start nobody comes to restore the durable copy.             *)
LEMMA BlobStaysStep ==
    ASSUME TypeOK, OnlyDeletersDelete, BlobStays, Warm, Warm', [Next]_vars
    PROVE  BlobStays'
<1>1. redis # None /\ \A r \in Requests : pc[r] \notin {"restore", "restoreSet"}
  BY DEF BlobStays
<1>2. redis' # None
  <2>1. \A r \in Requests : ~RestoreSet(r)
    BY <1>1 DEF RestoreSet
  <2>2. ASSUME NEW r \in Requests, Eval(r) PROVE redis' \in Blobs
    BY <2>2, EditType DEF Eval, Blobs
  <2> QED BY <1>1, <2>1, <2>2, CalmStep, BlobTypes DEF Warm
<1>3. \A r \in Requests : pc'[r] \notin {"restore", "restoreSet"}
  <2>0. pc \in [Requests -> Labels]
    BY DEF TypeOK, RequestsOK
  <2>1. ASSUME NEW s \in Requests, NEW label, Goto(s, label), label \notin {"restore", "restoreSet"}
        PROVE  \A r \in Requests : pc'[r] \notin {"restore", "restoreSet"}
    BY <1>1, <2>0, <2>1 DEF Goto
  <2>3. ASSUME NEW s \in Requests,
               Acquire(s) \/ Load(s) \/ Save(s) \/ Publish(s) \/ Boot(s) \/ DeleteForUser(s)
        PROVE  \E label : Goto(s, label) /\ label \notin {"restore", "restoreSet"}
    <3>1. CASE Acquire(s) \/ Load(s)
      BY <1>1, <3>1 DEF Acquire, Load, LoadHit, LoadGet, Connects, Fill, RestoreRead, RestoreSet, LoadFails
    <3>2. CASE Save(s)
      BY <3>2 DEF Save, NothingChanged, Eval, EvalFails, SaveFillsCache, MongoUpdate,
         MongoInsert, MongoFails
    <3>3. CASE Publish(s) \/ Boot(s) \/ DeleteForUser(s)
      BY <3>3 DEF Publish, Boot, SendStatUser, Subscribe, DeleteForUser, DeleteRedis,
         DeleteCache, DeleteMongo
    <3> QED BY <2>3, <3>1, <3>2, <3>3
  <2>4. Deliver \/ Flush \/ (\E c \in Replicas : CacheExpires(c)) => UNCHANGED pc
    BY DEF Deliver, Flush, CacheExpires, requestVars
  <2>5. UNCHANGED vars => UNCHANGED pc
    BY DEF vars, requestVars
  <2> QED BY <1>1, <2>1, <2>3, <2>4, <2>5 DEF Next
<1> QED BY <1>2, <1>3 DEF BlobStays

(* A save is handed a version above all those handed out before.           *)
LEMMA VersionsStep ==
    ASSUME PrefsInv, Warm \/ Locked, NoFault', [Next]_vars
    PROVE  VersionsBelow'
<1> USE DEF PrefsInv
<1>0. NoFault
  BY DEF Warm, Locked
<1>1. /\ \A r \in AllSaved : redis # None /\ newVersion[r] <= redis.prefVersion
      /\ \A r, s \in AllSaved : r # s => newVersion[r] # newVersion[s]
  BY DEF VersionsBelow
<1>2. CASE redis' = redis /\ newVersion' = newVersion
  BY <1>1, <1>2 DEF VersionsBelow, AllSaved, Saved
<1>3. ASSUME NEW r \in Requests, RestoreSet(r) PROVE VersionsBelow'
  <2>1. redis = None
    <3>1. CASE Warm
      BY <1>3, <3>1 DEF RestoreSet, BlobStays
    <3>2. CASE Locked
      BY <1>3, <3>2 DEF RestoreSet, Serialized, HolderReads
    <3> QED BY <3>1, <3>2
  <2>2. AllSaved = {}
    BY <1>1, <2>1
  <2>3. AllSaved' = {}
    BY <1>3, <2>2 DEF RestoreSet, AllSaved, Saved
  <2> QED BY <2>3 DEF VersionsBelow
<1>4. ASSUME NEW r \in Requests, Eval(r) PROVE VersionsBelow'
  <2> DEFINE new == NextPrefVersion(r)
  <2>1. /\ redis' # None /\ redis'.prefVersion = new
        /\ newVersion' = [newVersion EXCEPT ![r] = new]
    <3>1. redis' \in Blobs
      BY <1>4, EditType DEF Eval, Blobs
    <3> QED BY <1>4, <3>1, BlobTypes DEF Eval
  <2>2. /\ new \in Nat
        /\ newVersion \in [Requests -> Nat]
        /\ redis # None => redis.prefVersion \in Nat /\ new = redis.prefVersion + 1
    BY EditType DEF TypeOK, RequestsOK, StoresOK, Blobs, NextPrefVersion
  <2>3. \A s \in AllSaved : newVersion[s] < new
    BY <1>1, <2>2 DEF AllSaved
  <2> HIDE DEF new
  <2>4. \A s \in AllSaved' : newVersion'[s] = new \/ (s \in AllSaved /\ newVersion'[s] = newVersion[s])
    BY <2>1, <2>2 DEF AllSaved, Saved
  <2>5. \A s \in AllSaved' : s \in Requests /\ newVersion'[s] \in Nat /\ newVersion'[s] <= new
    BY <2>1, <2>2, <2>3, <2>4 DEF AllSaved
  <2>6. \A s \in AllSaved' : s # r => s \in AllSaved /\ newVersion'[s] = newVersion[s]
    BY <2>1, <2>2 DEF AllSaved, Saved
  <2>7. newVersion'[r] = new
    BY <2>1, <2>2
  <2>8. ASSUME NEW s \in AllSaved', NEW q \in AllSaved', s # q
        PROVE  newVersion'[s] # newVersion'[q]
    <3>1. CASE s = r
      BY <2>2, <2>3, <2>6, <2>7, <2>8, <3>1 DEF AllSaved
    <3>2. CASE q = r
      BY <2>2, <2>3, <2>6, <2>7, <2>8, <3>2 DEF AllSaved
    <3>3. CASE s # r /\ q # r
      BY <1>1, <2>6, <2>8, <3>3
    <3> QED BY <3>1, <3>2, <3>3
  <2> QED BY <2>1, <2>5, <2>8 DEF VersionsBelow
<1> QED BY <1>0, <1>2, <1>3, <1>4, CalmStep

-----------------------------------------------------------------------------
(* Edits under one lock.                                                   *)

(* Under one lock all requests are mutate()s of one repository, and only   *)
(* one of them is inside.                                                  *)
LEMMA OneHolder ==
    ASSUME PrefsInv, Locked
    PROVE  /\ \A r \in Requests : Kind(r) = "mutate"
           /\ \A r, s \in Requests : Repo(r) = Repo(s)
           /\ \A r, s \in Requests : pc[r] \in Inside /\ pc[s] \in Inside => r = s
           /\ \A r \in Requests : HolderReads(r)
  BY DEF PrefsInv, Locked, OneLock, Serialized, HolderReads

(* A step that leaves the blob, the caches, the structs and the versions   *)
(* alone moves one request between labels at which nothing more is claimed. *)
LEMMA QuietStep ==
    ASSUME PrefsInv, Locked, [Next]_vars, NEW r \in Requests,
           UNCHANGED <<redis, cache, prefs, newVersion>>,
           NEW label, Goto(r, label),
           \/ label \in {"mongoInsert", "load"} /\ lock'[Repo(r)] = r
           \/ label \in {"publish", "done"},
           pc[r] \in Inside \/ label \in {"load", "done"},
           pc[r] # "cacheSet",
           \A s \in Requests \ {r} : pc[s] \in Inside => lock'[Repo(s)] = s
    PROVE  \A s \in Requests : HolderReads(s)'
<1>1. /\ pc \in [Requests -> Labels]
      /\ \A s \in Requests : HolderReads(s)
  BY OneHolder DEF PrefsInv, TypeOK, RequestsOK
<1>2. \A s \in Requests : Repo(s)' = Repo(s) /\ Item(s)' = Item(s)
  BY StepKeepsSetup DEF PrefsInv
<1> QED BY <1>1, <1>2 DEF HolderReads, Goto, Inside, Cached, Saved

(* Every step keeps what the holder of the one lock has read current.      *)
LEMMA SerializedStep ==
    ASSUME PrefsInv, Locked, Locked', [Next]_vars
    PROVE  \A s \in Requests : HolderReads(s)'
<1> DEFINE Goal == \A s \in Requests : HolderReads(s)'
<1>1. /\ \A r \in Requests : Kind(r) = "mutate"
      /\ \A r, s \in Requests : Repo(r) = Repo(s)
      /\ \A r, s \in Requests : pc[r] \in Inside /\ pc[s] \in Inside => r = s
      /\ \A r \in Requests : HolderReads(r)
  BY OneHolder
<1>2. /\ pc \in [Requests -> Labels]
      /\ prefs \in [Requests -> Blobs]
      /\ newVersion \in [Requests -> Nat]
      /\ lock \in [Repos -> Requests \cup {None}]
      /\ cache \in [Replicas -> Blobs \cup {None}]
      /\ \A r \in Requests : Repo(r) \in Repos /\ CacheOf[Repo(r)] \in Replicas
      /\ None \notin Requests /\ None \notin Blobs
  BY ProfileTypes, BlobTypes, PreferencesAssumption
     DEF PrefsInv, TypeOK, RequestsOK, StoresOK, PreferencesAssumption
<1>3. \A s \in Requests : Repo(s)' = Repo(s) /\ Item(s)' = Item(s)
  BY StepKeepsSetup DEF PrefsInv
<1>4. faults = 0 /\ faults' = 0
  BY DEF Locked, NoFault
<1>5. ASSUME NEW r \in Requests, Acquire(r) PROVE Goal
  <2>1. lock' = [lock EXCEPT ![Repo(r)] = r] /\ Goto(r, "load") /\ pc[r] = "lock"
    BY <1>5 DEF Acquire
  <2>2. \A s \in Requests : pc[s] \notin Inside
    BY <1>1, <1>2, <1>5 DEF Acquire, HolderReads
  <2>3. lock'[Repo(r)] = r
    BY <1>2, <2>1
  <2> QED BY <1>5, <2>1, <2>2, <2>3, QuietStep DEF Acquire, storeVars
<1>6. ASSUME NEW r \in Requests, LoadHit(r) PROVE Goal
  <2>1. redis # None /\ Cached(r) = redis
    BY <1>1, <1>6 DEF LoadHit, HolderReads, Inside
  <2> QED BY <1>1, <1>2, <1>3, <1>6, <2>1
          DEF LoadHit, HolderReads, Goto, Inside, Cached, Saved, storeVars
<1>7. ASSUME NEW r \in Requests, LoadGet(r) PROVE Goal
  BY <1>1, <1>2, <1>3, <1>7 DEF LoadGet, Connects, HolderReads, Goto, Inside, Cached, Saved, storeVars
<1>8. ASSUME NEW r \in Requests, Fill(r) PROVE Goal
  <2>1. \A s \in Requests : Cached(s)' = redis
    BY <1>1, <1>2, <1>3, <1>8 DEF Fill, CacheSet, Cached, HolderReads
  <2> QED BY <1>1, <1>2, <1>3, <1>8, <2>1 DEF Fill, HolderReads, Goto, Inside, Saved
<1>9. ASSUME NEW r \in Requests, RestoreRead(r) PROVE Goal
  BY <1>1, <1>2, <1>3, <1>9 DEF RestoreRead, HolderReads, Goto, Inside, Cached, Saved, storeVars
<1>10. ASSUME NEW r \in Requests, RestoreSet(r) PROVE Goal
  <2>1. /\ \A s \in Requests : Cached(s)' = None /\ ~Saved(s)
        /\ redis' # None
    BY <1>1, <1>2, <1>3, <1>10 DEF RestoreSet, HolderReads, Cached
  <2> QED BY <1>1, <1>2, <1>3, <1>10, <2>1 DEF RestoreSet, HolderReads, Goto, Inside, Saved
<1>11. ASSUME NEW r \in Requests, NothingChanged(r) PROVE Goal
  <2>1. \A s \in Requests \ {r} : pc[s] \notin Inside
    BY <1>1, <1>11 DEF NothingChanged, Inside
  <2> QED BY <1>11, <2>1, QuietStep DEF NothingChanged, storeVars, Inside
<1>12. ASSUME NEW r \in Requests, Eval(r) PROVE Goal
  <2>1. \A s \in Requests \ {r} : pc[s] \notin Inside
    BY <1>1, <1>12 DEF Eval, Inside
  <2>2. /\ redis' \in Blobs /\ redis' # None
        /\ prefs'[r] = redis'
        /\ redis'.items = prefs[r].items \cup {Item(r)}
    BY <1>2, <1>12, EditType DEF Eval, Blobs, Edited, PrefsInv
  <2>3. \A s \in Requests : Saved(s) => Item(s) \in prefs[r].items
    BY <1>1, <1>12 DEF Eval, HolderReads
  <2>4. \A s \in Requests : Saved(s)' => Item(s) \in redis'.items
    BY <1>2, <1>12, <2>2, <2>3 DEF Eval, Saved
  <2>5. pc'[r] = "cacheSet" /\ \A s \in Requests \ {r} : pc'[s] = pc[s]
    BY <1>2, <1>12 DEF Eval, Goto
  <2>6. lock'[Repo(r)] = r
    BY <1>1, <1>12 DEF Eval, HolderReads, Inside
  <2> QED BY <1>3, <1>12, <2>1, <2>2, <2>4, <2>5, <2>6 DEF Eval, HolderReads, Inside, Cached
<1>13. ASSUME NEW r \in Requests PROVE ~EvalFails(r) /\ ~MongoFails(r)
  BY <1>4 DEF EvalFails, MongoFails, Fault
<1>14. ASSUME NEW r \in Requests, SaveFillsCache(r) PROVE Goal
  <2>1. \A s \in Requests : Cached(s)' = redis
    BY <1>1, <1>2, <1>3, <1>14 DEF SaveFillsCache, CacheSet, Cached, HolderReads
  <2> QED BY <1>1, <1>2, <1>3, <1>14, <2>1 DEF SaveFillsCache, HolderReads, Goto, Inside, Saved
<1>15. ASSUME NEW r \in Requests, MongoUpdate(r) PROVE Goal
  <2>1. \A s \in Requests \ {r} : pc[s] \notin Inside
    BY <1>1, <1>15 DEF MongoUpdate, Inside
  <2>2. lock[Repo(r)] = r
    BY <1>1, <1>15 DEF MongoUpdate, HolderReads, Inside
  <2> QED BY <1>15, <2>1, <2>2, QuietStep DEF MongoUpdate, Inside
<1>16. ASSUME NEW r \in Requests, MongoInsert(r) PROVE Goal
  <2>1. \A s \in Requests \ {r} : pc[s] \notin Inside
    BY <1>1, <1>16 DEF MongoInsert, Inside
  <2> QED BY <1>16, <2>1, QuietStep DEF MongoInsert, Inside
<1>17. ASSUME NEW r \in Requests, Publish(r) PROVE Goal
  <2>1. \A s \in Requests : pc[s] \in Inside => lock'[Repo(s)] = s
    BY <1>1, <1>17 DEF Publish, HolderReads
  <2> QED BY <1>17, <2>1, QuietStep DEF Publish, storeVars, Inside
<1>18. ASSUME NEW r \in Requests, Boot(r) PROVE Goal
  <2>1. Subscribe(r)
    BY <1>1, <1>18 DEF Boot, SendStatUser
  <2>2. \A s \in Requests : pc[s] \in Inside => lock'[Repo(s)] = s
    BY <1>1, <2>1 DEF Subscribe, HolderReads
  <2> QED BY <2>1, <2>2, QuietStep DEF Subscribe, storeVars, Inside
<1>23. ASSUME NEW r \in Requests PROVE ~DeleteForUser(r)
  BY <1>1 DEF PrefsInv, OnlyDeletersDelete, DeleteForUser, DeleteRedis, DeleteCache, DeleteMongo
<1>19. CASE UNCHANGED <<redis, cache, prefs, newVersion, pc, lock>>
  BY <1>1, <1>3, <1>19 DEF HolderReads, Cached, Saved
<1>20. ASSUME NEW c \in Replicas, CacheExpires(c) PROVE Goal
  BY <1>1, <1>2, <1>3, <1>20 DEF CacheExpires, HolderReads, Cached, Saved, requestVars
<1>21. ~Flush /\ \A r \in Requests : ~LoadFails(r)
  BY <1>4 DEF Flush, LoadFails, Fault
<1>22. Deliver \/ UNCHANGED vars => UNCHANGED <<redis, cache, prefs, newVersion, pc, lock>>
  BY DEF Deliver, vars, storeVars, requestVars
<1> QED BY <1>5, <1>6, <1>7, <1>8, <1>9, <1>10, <1>11, <1>12, <1>13, <1>14, <1>15, <1>16,
           <1>17, <1>18, <1>19, <1>20, <1>21, <1>22, <1>23 DEF Next, Load, Save

-----------------------------------------------------------------------------
(* Theorems.                                                               *)

(* Every step keeps the invariant.                                         *)
LEMMA NextInv == PrefsInv /\ [Next]_vars => PrefsInv'
<1> SUFFICES ASSUME PrefsInv, [Next]_vars PROVE PrefsInv'
  OBVIOUS
<1>1. TypeOK'
  BY TypesStep DEF PrefsInv
<1>2. OnlyDeletersDelete'
  BY DeletersStep DEF PrefsInv
<1>3. /\ NoFault' => NoFault
      /\ Warm' => Warm /\ NoFault'
      /\ Locked' => Locked /\ NoFault'
  BY StepKeepsSetup DEF PrefsInv, Warm, Locked
<1>4. BlobStays'
  <2>1. CASE Warm'
    BY <1>3, <2>1, BlobStaysStep DEF PrefsInv
  <2>2. CASE ~Warm'
    BY <2>2 DEF BlobStays
  <2> QED BY <2>1, <2>2
<1>5. VersionsBelow'
  <2>1. CASE Warm' \/ Locked'
    BY <1>3, <2>1, VersionsStep
  <2>2. CASE ~(Warm' \/ Locked')
    BY <2>2 DEF VersionsBelow
  <2> QED BY <2>1, <2>2
<1>6. Serialized'
  <2>1. CASE Locked'
    BY <1>3, <2>1, SerializedStep DEF Serialized
  <2>2. CASE ~Locked'
    BY <2>2 DEF Serialized
  <2> QED BY <2>1, <2>2
<1> QED BY <1>1, <1>2, <1>4, <1>5, <1>6 DEF PrefsInv

(* The conjunction is inductive: UniqueVersions needs the counter of the   *)
(* blob to bound what it handed out (VersionsBelow) and nothing older to   *)
(* be restored over it (BlobStays); NoLostUpdate needs what the holder of  *)
(* the lock read to be what Redis holds (Serialized).                      *)
THEOREM PrefsInvariant == Spec => []PrefsInv
  BY InitInv, NextInv, PTL DEF Spec

(* No two saves are handed the same prefVersion, by any number of requests *)
(* with or without the lock, as long as Redis keeps the blob; and under    *)
(* one lock even if the blob has first to be restored (save, the Lua       *)
(* script).                                                                *)
THEOREM VersionsAreUnique == Spec => []UniqueVersions
<1>1. PrefsInv => UniqueVersions
  BY DEF PrefsInv, VersionsBelow, UniqueVersions, Warm, Locked
<1> QED BY <1>1, PrefsInvariant, PTL

(* Edits made under one lock are never overwritten, for any number of them *)
(* and whatever state the stores were found in (mutate).                   *)
THEOREM SerializedEditsSurvive == Spec => []NoLostUpdate
<1>1. PrefsInv => NoLostUpdate
  BY DEF PrefsInv, Serialized, HolderReads, NoLostUpdate, Locked, AllSaved
<1> QED BY <1>1, PrefsInvariant, PTL

-----------------------------------------------------------------------------
(* The durable copy.  What Redis holds is in Mongo or on its way there, in  *)
(* the hands of the request that saved it.                                 *)

Writing == {"cacheSet", "mongoUpdate", "mongoInsert"}
Writes(r) == pc[r] \in Writing

(* A request that writes holds what it saved; one that goes on to insert    *)
(* found no copy, or a newer one; one that restores holds the copy.        *)
InHand(r) ==
    /\ redis = None => /\ pc[r] \notin Writing \cup {"fill", "publish", "subscribe", "done"}
                       /\ pc[r] = "apply" => prefs[r] = Defaults /\ mongo = None
    /\ Writes(r) => /\ Saved(r) /\ prefs[r].prefVersion = newVersion[r]
                    /\ newVersion[r] = redis.prefVersion => prefs[r] = redis
    /\ pc[r] = "restoreSet" => mongo # None /\ prefs[r] = mongo
    /\ pc[r] = "mongoInsert" => mongo = None \/ mongo.prefVersion > prefs[r].prefVersion

Backed ==
    /\ \A r \in Requests : InHand(r)
    /\ start = "warm" => mongo # None
    /\ redis # None => /\ mongo # None => mongo.prefVersion <= redis.prefVersion
                       /\ mongo = redis \/ \E r \in Requests : Writes(r) /\ prefs[r] = redis

DurableInv == (Warm \/ Locked) => Backed

(* What the two premises give: who restores found no blob, and where a copy *)
(* or the blob is missing one request is inside.                           *)
LEMMA CalmStores ==
    ASSUME PrefsInv, Warm \/ Locked, Backed
    PROVE  /\ \A r \in Requests : pc[r] \in {"restore", "restoreSet"} => redis = None
           /\ redis = None \/ mongo = None =>
                 \A r, s \in Requests : pc[r] \in Inside /\ pc[s] \in Inside => r = s
           /\ redis = None => AllSaved = {}
           /\ \A r \in AllSaved : redis # None /\ newVersion[r] <= redis.prefVersion
<1>1. CASE Warm
  BY <1>1 DEF PrefsInv, BlobStays, VersionsBelow, Backed, Warm
<1>2. CASE Locked
  BY <1>2, OneHolder DEF PrefsInv, VersionsBelow, HolderReads
<1> QED BY <1>1, <1>2

(* A step of one request that writes no store.                             *)
LEMMA BackedMove ==
    ASSUME PrefsInv, Backed, UNCHANGED <<start, redis, mongo, newVersion>>,
           NEW r \in Requests, NEW label, Goto(r, label),
           \A s \in Requests \ {r} : prefs'[s] = prefs[s],
           Writes(r) => label \in Writing /\ prefs'[r] = prefs[r],
           label \in Writing => Writes(r),
           redis = None => /\ label \notin {"fill", "publish", "subscribe", "done"}
                           /\ label = "apply" => prefs'[r] = Defaults /\ mongo = None,
           label = "restoreSet" => mongo # None /\ prefs'[r] = mongo,
           label = "mongoInsert" => mongo = None \/ mongo.prefVersion > prefs'[r].prefVersion
    PROVE  Backed'
<1>1. pc'[r] = label /\ \A s \in Requests \ {r} : pc'[s] = pc[s]
  BY DEF PrefsInv, TypeOK, RequestsOK, Goto
<1>2. ASSUME NEW s \in Requests PROVE InHand(s)'
  <2>1. InHand(s)
    BY DEF Backed
  <2>2. CASE s = r
    BY <1>1, <2>1, <2>2 DEF InHand, Writes, Writing, Saved
  <2>3. CASE s # r
    BY <1>1, <2>1, <2>3 DEF InHand, Writes, Saved
  <2> QED BY <2>2, <2>3
<1>3. (\E s \in Requests : Writes(s) /\ prefs[s] = redis)
         => \E s \in Requests : Writes(s)' /\ prefs'[s] = redis'
  <2> SUFFICES ASSUME NEW s \in Requests, Writes(s), prefs[s] = redis
               PROVE  Writes(s)' /\ prefs'[s] = redis'
    OBVIOUS
  <2> QED BY <1>1 DEF Writes
<1> QED BY <1>2, <1>3 DEF Backed

(* A step that moves no request.                                           *)
LEMMA BackedStill ==
    ASSUME Backed, UNCHANGED <<start, redis, mongo, newVersion, pc, prefs>>
    PROVE  Backed'
BY DEF Backed, InHand, Writes, Saved

(* Every step keeps the blob backed.                                       *)
LEMMA BackedStep ==
    ASSUME PrefsInv, Backed, Warm \/ Locked, NoFault', [Next]_vars
    PROVE  Backed'
<1>1. /\ pc \in [Requests -> Labels] /\ prefs \in [Requests -> Blobs]
      /\ newVersion \in [Requests -> Nat]
      /\ redis \in Blobs \cup {None} /\ mongo \in Blobs \cup {None}
      /\ \A b \in Blobs : b # None /\ b.prefVersion \in Nat
  BY BlobTypes DEF PrefsInv, TypeOK, RequestsOK, StoresOK, Blobs
<1>2. /\ \A r \in Requests : pc[r] \in {"restore", "restoreSet"} => redis = None
      /\ redis = None \/ mongo = None =>
            \A r, s \in Requests : pc[r] \in Inside /\ pc[s] \in Inside => r = s
      /\ redis = None => AllSaved = {}
      /\ \A r \in AllSaved : redis # None /\ newVersion[r] <= redis.prefVersion
  BY CalmStores
<1>3. start' = start /\ NoFault
  BY StepKeepsSetup DEF PrefsInv
<1>4. \A r \in Requests : InHand(r)
  BY DEF Backed
<1>5. ASSUME NEW r \in Requests, Acquire(r) PROVE Backed'
  BY <1>5, BackedMove DEF Acquire, storeVars, Writes, Writing
<1>6. ASSUME NEW r \in Requests, LoadHit(r) PROVE Backed'
  <2>1. redis # None
    <3>1. CASE Warm
      BY <3>1 DEF PrefsInv, BlobStays
    <3>2. CASE Locked
      BY <1>6, <3>2, OneHolder DEF LoadHit, HolderReads
    <3> QED BY <3>1, <3>2
  <2> QED BY <1>1, <1>6, <2>1, BackedMove DEF LoadHit, storeVars, Writes, Writing
<1>7. ASSUME NEW r \in Requests, LoadGet(r) PROVE Backed'
  <2>1. CASE redis # None
    BY <1>1, <1>3, <1>7, <2>1, BackedMove DEF LoadGet, Connects, storeVars, Writes, Writing
  <2>2. CASE redis = None
    BY <1>1, <1>3, <1>7, <2>2, BackedMove DEF LoadGet, Connects, storeVars, Writes, Writing
  <2> QED BY <2>1, <2>2
<1>8. ASSUME NEW r \in Requests, Fill(r) PROVE Backed'
  <2>1. redis # None
    BY <1>4, <1>8 DEF Fill, InHand
  <2> QED BY <1>8, <2>1, BackedMove DEF Fill, Writes, Writing
<1>9. ASSUME NEW r \in Requests, RestoreRead(r) PROVE Backed'
  BY <1>1, <1>3, <1>9, BackedMove DEF RestoreRead, storeVars, Writes, Writing
<1>10. ASSUME NEW r \in Requests, NothingChanged(r) PROVE Backed'
  <2>1. redis # None
    BY <1>4, <1>10 DEF NothingChanged, InHand, Changes, Defaults
  <2> QED BY <1>10, <2>1, BackedMove DEF NothingChanged, storeVars, Writes, Writing
<1>11. ASSUME NEW r \in Requests, SaveFillsCache(r) PROVE Backed'
  BY <1>4, <1>11, BackedMove DEF SaveFillsCache, InHand, Writes, Writing
<1>12. ASSUME NEW r \in Requests, Publish(r) \/ Boot(r) PROVE Backed'
  <2>1. CASE Publish(r) \/ Subscribe(r)
    BY <1>4, <2>1, BackedMove DEF Publish, Subscribe, InHand, storeVars, Writes, Writing
  <2>2. CASE SendStatUser(r)
    <3>1. redis # None
      BY <2>2, OneHolder DEF SendStatUser, PrefsInv, BlobStays
    <3> QED BY <2>2, <3>1, BackedMove DEF SendStatUser, storeVars, Writes, Writing
  <2> QED BY <1>12, <2>1, <2>2 DEF Boot
<1>13. ASSUME NEW r \in Requests, RestoreSet(r) PROVE Backed'
  <2>1. /\ mongo # None /\ redis' = mongo /\ mongo' = mongo /\ prefs' = prefs
        /\ pc[r] = "restoreSet" /\ pc'[r] = "fill"
        /\ \A s \in Requests \ {r} : pc'[s] = pc[s]
    BY <1>1, <1>4, <1>13 DEF RestoreSet, InHand, Goto
  <2>2. \A s \in Requests \ {r} : pc[s] \notin Inside
    BY <1>2, <2>1 DEF Inside
  <2>3. \A s \in Requests : InHand(s)'
    BY <1>1, <2>1, <2>2 DEF InHand, Writes, Writing, Inside
  <2> QED BY <1>1, <1>3, <2>1, <2>3 DEF Backed
<1>14. ASSUME NEW r \in Requests, Eval(r) PROVE Backed'
  <2> DEFINE new == NextPrefVersion(r)
  <2>1. /\ redis' = [prefVersion |-> new, items |-> Edited(r)] /\ redis'.prefVersion = new
        /\ redis' # None /\ mongo' = mongo
        /\ pc[r] = "apply" /\ pc'[r] = "cacheSet" /\ prefs'[r] = redis' /\ newVersion'[r] = new
        /\ \A s \in Requests \ {r} : /\ pc'[s] = pc[s] /\ prefs'[s] = prefs[s]
                                      /\ newVersion'[s] = newVersion[s]
    <3>1. redis' \in Blobs /\ redis' = [prefVersion |-> new, items |-> Edited(r)]
      BY <1>14, EditType DEF Eval, Blobs, PrefsInv
    <3> QED BY <1>1, <1>14, <3>1 DEF Eval, Goto
  <2>2. /\ new \in Nat /\ new > 0
        /\ redis # None => redis.prefVersion < new
    BY <1>1 DEF NextPrefVersion
  <2>3. mongo # None => mongo.prefVersion < new
    BY <1>1, <1>4, <2>1, <2>2 DEF Backed, InHand
  <2> HIDE DEF new
  <2>4. InHand(r)'
    BY <1>1, <2>1, <2>2 DEF InHand, Writes, Writing, Saved
  <2>5. ASSUME NEW s \in Requests \ {r} PROVE InHand(s)'
    <3>1. InHand(s)
      BY <1>4
    <3>2. Writes(s) => newVersion[s] \in Nat /\ newVersion[s] < new
      BY <1>1, <1>2, <2>2, <3>1 DEF InHand, AllSaved
    <3> QED BY <2>1, <3>1, <3>2 DEF InHand, Writes, Saved
  <2>6. Writes(r)' /\ prefs'[r] = redis'
    BY <2>1 DEF Writes, Writing
  <2>7. mongo' # None => mongo'.prefVersion <= redis'.prefVersion
    BY <1>1, <2>1, <2>2, <2>3
  <2> QED BY <1>3, <2>1, <2>4, <2>5, <2>6, <2>7 DEF Backed
<1>15. ASSUME NEW r \in Requests, MongoUpdate(r) PROVE Backed'
  <2>0. Writes(r) /\ Saved(r) /\ prefs[r].prefVersion = newVersion[r] /\ redis # None
        /\ (newVersion[r] = redis.prefVersion => prefs[r] = redis)
    BY <1>4, <1>15 DEF MongoUpdate, InHand, Writes, Writing
  <2>1. CASE Matches(r)
    <3>1. /\ mongo # None /\ mongo.prefVersion <= prefs[r].prefVersion /\ mongo' = prefs[r]
          /\ UNCHANGED <<redis, prefs, newVersion>> /\ pc'[r] = "publish"
          /\ \A s \in Requests \ {r} : pc'[s] = pc[s]
      BY <1>1, <1>15, <2>1 DEF MongoUpdate, Matches, Goto
    <3>2. mongo' \in Blobs /\ mongo' # None /\ mongo'.prefVersion = newVersion[r]
          /\ newVersion[r] <= redis.prefVersion
      BY <1>1, <1>2, <2>0, <3>1 DEF AllSaved
    <3>3. ASSUME NEW s \in Requests PROVE InHand(s)'
      <4>1. InHand(s)
        BY <1>4
      <4>2. CASE s = r
        BY <2>0, <3>1, <4>2 DEF InHand, Writes, Writing
      <4>3. CASE s # r
        <5>1. pc'[s] # "restoreSet"
          BY <1>2, <2>0, <3>1, <4>3
        <5>2. pc'[s] = "mongoInsert" => mongo'.prefVersion > prefs'[s].prefVersion
          BY <1>1, <3>1, <4>1, <4>3 DEF InHand
        <5> QED BY <2>0, <3>1, <4>1, <4>3, <5>1, <5>2 DEF InHand, Writes, Saved
      <4> QED BY <4>2, <4>3
    <3>4. mongo' = redis' \/ \E s \in Requests : Writes(s)' /\ prefs'[s] = redis'
      <4>1. CASE mongo = redis
        <5>1. newVersion[r] = redis.prefVersion
          BY <1>1, <2>0, <3>1, <3>2, <4>1
        <5> QED BY <2>0, <3>1, <5>1
      <4>2. ASSUME NEW s \in Requests, Writes(s), prefs[s] = redis
            PROVE  mongo' = redis' \/ (Writes(s)' /\ prefs'[s] = redis')
        BY <3>1, <4>2 DEF Writes
      <4> QED BY <2>0, <4>1, <4>2 DEF Backed
    <3> QED BY <1>3, <3>1, <3>2, <3>3, <3>4 DEF Backed
  <2>2. CASE ~Matches(r)
    <3>1. mongo = None \/ mongo.prefVersion > prefs[r].prefVersion
      BY <1>1, <2>2 DEF Matches
    <3>2. UNCHANGED <<redis, mongo, prefs, newVersion>> /\ Goto(r, "mongoInsert")
      BY <1>15, <2>2 DEF MongoUpdate
    <3> QED BY <1>3, <2>0, <3>1, <3>2, BackedMove DEF Writing
  <2> QED BY <2>1, <2>2
<1>16. ASSUME NEW r \in Requests, MongoInsert(r) PROVE Backed'
  <2>1. /\ pc[r] = "mongoInsert" /\ UNCHANGED <<redis, prefs, newVersion>> /\ pc'[r] = "publish"
        /\ mongo' = (IF mongo = None THEN prefs[r] ELSE mongo)
        /\ \A s \in Requests \ {r} : pc'[s] = pc[s]
    BY <1>1, <1>16 DEF MongoInsert, Goto
  <2>2. Writes(r) /\ Saved(r) /\ prefs[r].prefVersion = newVersion[r] /\ redis # None
        /\ (mongo = None \/ mongo.prefVersion > prefs[r].prefVersion)
    BY <1>4, <2>1 DEF InHand, Writes, Writing
  <2>3. CASE mongo = None
    <3>1. \A s \in Requests \ {r} : pc[s] \notin Inside
      BY <1>2, <2>1, <2>3 DEF Inside
    <3>2. prefs[r] = redis
      <4>1. PICK s \in Requests : Writes(s) /\ prefs[s] = redis
        BY <2>2, <2>3 DEF Backed
      <4>2. s = r
        BY <3>1, <4>1 DEF Writes, Writing, Inside
      <4> QED BY <4>1, <4>2
    <3>3. mongo' = redis' /\ mongo' # None /\ mongo'.prefVersion <= redis'.prefVersion
      BY <1>1, <2>1, <2>2, <2>3, <3>2
    <3>4. ASSUME NEW s \in Requests PROVE InHand(s)'
      <4>1. CASE s = r
        BY <2>1, <2>2, <4>1 DEF InHand, Writes, Writing
      <4>2. CASE s # r
        BY <1>4, <2>1, <2>2, <3>1, <4>2 DEF InHand, Writes, Writing, Inside
      <4> QED BY <4>1, <4>2
    <3> QED BY <1>3, <3>3, <3>4 DEF Backed
  <2>4. CASE mongo # None
    <3>1. mongo' = mongo
      BY <2>1, <2>4
    <3>2. ASSUME NEW s \in Requests PROVE InHand(s)'
      <4>1. CASE s = r
        BY <2>1, <2>2, <4>1 DEF InHand, Writes, Writing
      <4>2. CASE s # r
        BY <1>4, <2>1, <3>1, <4>2 DEF InHand, Writes, Saved
      <4> QED BY <4>1, <4>2
    <3>3. prefs[r] # redis
      BY <1>1, <2>2, <2>4 DEF Backed
    <3>4. mongo' = redis' \/ \E s \in Requests : Writes(s)' /\ prefs'[s] = redis'
      <4>1. ASSUME NEW s \in Requests, Writes(s), prefs[s] = redis
            PROVE  Writes(s)' /\ prefs'[s] = redis'
        BY <2>1, <3>3, <4>1 DEF Writes
      <4> QED BY <2>1, <2>2, <3>1, <4>1 DEF Backed
    <3> QED BY <1>3, <2>1, <2>2, <3>1, <3>2, <3>4 DEF Backed
  <2> QED BY <2>3, <2>4
<1>17. ASSUME NEW r \in Requests PROVE ~LoadFails(r) /\ ~EvalFails(r) /\ ~MongoFails(r)
  BY <1>3 DEF NoFault, LoadFails, EvalFails, MongoFails, Fault
<1>18. ASSUME NEW r \in Requests PROVE ~DeleteForUser(r)
  BY <1>3 DEF PrefsInv, OnlyDeletersDelete, NoFault, DeleteForUser, DeleteRedis, DeleteCache,
     DeleteMongo
<1>19. ~Flush
  BY <1>3 DEF NoFault, Flush, Fault
<1>20. CASE Deliver \/ (\E c \in Replicas : CacheExpires(c)) \/ UNCHANGED vars
  BY <1>20, BackedStill DEF Deliver, CacheExpires, vars, storeVars, requestVars
<1> QED BY <1>5, <1>6, <1>7, <1>8, <1>9, <1>10, <1>11, <1>12, <1>13, <1>14, <1>15, <1>16,
           <1>17, <1>18, <1>19, <1>20 DEF Next, Load, Save

(* The stores agree when they are found, unless Redis has lost the blob.    *)
LEMMA InitBacked == Init /\ PrefsInv => DurableInv
<1> SUFFICES ASSUME Init, PrefsInv, Warm \/ Locked PROVE Backed
  BY DEF DurableInv
<1>1. \A r \in Requests : pc[r] = FirstStep(r) /\ Kind(r) \in Kinds \ {"delete"}
  BY ProfileTypes DEF Init, PrefsInv, TypeOK, RequestsOK, Warm, Locked, NoFault
<1>2. \A r \in Requests : pc[r] \in {"lock", "load"}
  BY <1>1 DEF FirstStep, Kinds
<1>3. \A r \in Requests : InHand(r)
  BY <1>2 DEF InHand, Writes, Writing
<1>4. redis # None => mongo = redis /\ redis = InitialBlob
  BY DEF Init
<1>5. start = "warm" => mongo # None
  BY BlobTypes DEF Init
<1> QED BY <1>3, <1>4, <1>5, BlobTypes DEF Backed, InitialBlob

THEOREM DurableInvariant == Spec => []DurableInv
<1>1. Init => DurableInv
  BY InitInv, InitBacked
<1>2. PrefsInv /\ DurableInv /\ [Next]_vars => DurableInv'
  <2> SUFFICES ASSUME PrefsInv, DurableInv, [Next]_vars, (Warm \/ Locked)' PROVE Backed'
    BY DEF DurableInv
  <2>1. Warm \/ Locked
    BY StepKeepsSetup DEF PrefsInv, Warm, Locked
  <2>2. NoFault'
    BY DEF Warm, Locked
  <2> QED BY <2>1, <2>2, BackedStep DEF DurableInv
<1> QED BY <1>1, <1>2, PrefsInvariant, PTL DEF Spec

(* When all requests have ended the durable copy is the blob, in whatever   *)
(* order the writes reached Mongo, for any number of requests (the guard    *)
(* of savePrefsDoc).                                                       *)
THEOREM DurableCopyCatchesUp ==
    ASSUME Requests # {}
    PROVE  Spec => []DurableCatchesUp
<1>1. DurableInv => DurableCatchesUp
  <2> SUFFICES ASSUME DurableInv, NoFault, AllDone, start = "warm" \/ OneLock
               PROVE  mongo = redis
    BY DEF DurableCatchesUp
  <2>1. Backed /\ \A r \in Requests : pc[r] = "done"
    BY DEF DurableInv, Warm, Locked, AllDone
  <2>2. redis # None
    BY <2>1 DEF Backed, InHand
  <2> QED BY <2>1, <2>2 DEF Backed, Writes, Writing
<1> QED BY <1>1, DurableInvariant, PTL

-----------------------------------------------------------------------------
(* The tab.  Every blob in the stores, in a request's hands, in a frame or  *)
(* on the screen is the initial one or one that some request saved.        *)

KnownBlobs == {InitialBlob} \cup {prefs[s] : s \in AllSaved}

AtRest == {"cacheSet", "mongoUpdate", "mongoInsert", "publish", "done"}

(* The items a blob of a given version can hold.                           *)
Made(version) == InitialItems \cup {Item(r) : r \in {s \in AllSaved : newVersion[s] <= version}}

KeepsSave(r) ==
    /\ pc[r] \in AtRest
    /\ newVersion[r] > 1
    /\ prefs[r].prefVersion = newVersion[r]
    /\ InitialItems \subseteq prefs[r].items
    /\ prefs[r].items \subseteq Made(newVersion[r])

Circulating ==
    /\ redis \in KnownBlobs
    /\ \A c \in Replicas : cache[c] = None \/ cache[c] \in KnownBlobs
    /\ \A r \in Requests : /\ pc[r] \notin {"lock", "load"} => prefs[r] \in KnownBlobs
                           /\ Saved(r) => KeepsSave(r)

(* From a warm start, without faults, only these steps are taken.          *)
LEMMA WarmSteps ==
    ASSUME PrefsInv, Warm, NoFault', [Next]_vars
    PROVE  /\ redis # None
           /\ \/ \E r \in Requests :
                    \/ Acquire(r) \/ LoadHit(r) \/ LoadGet(r) \/ Fill(r)
                    \/ NothingChanged(r) \/ Eval(r) \/ SaveFillsCache(r)
                    \/ MongoUpdate(r) \/ MongoInsert(r)
                    \/ Publish(r) \/ SendStatUser(r) \/ Subscribe(r)
              \/ Deliver
              \/ \E c \in Replicas : CacheExpires(c)
              \/ UNCHANGED vars
<1>1. redis # None /\ \A r \in Requests : ~RestoreRead(r) /\ ~RestoreSet(r)
  BY DEF PrefsInv, BlobStays, RestoreRead, RestoreSet
<1>2. \A r \in Requests : ~LoadFails(r) /\ ~EvalFails(r) /\ ~MongoFails(r)
  BY DEF Warm, NoFault, LoadFails, EvalFails, MongoFails, Fault
<1>3. ~Flush
  BY DEF Warm, NoFault, Flush, Fault
<1>4. \A r \in Requests : ~DeleteForUser(r)
  BY DEF Warm, PrefsInv, OnlyDeletersDelete, NoFault, DeleteForUser, DeleteRedis, DeleteCache,
     DeleteMongo
<1> QED BY <1>1, <1>2, <1>3, <1>4 DEF Next, Load, Save, Boot

(* A known blob has a version between 1 and that of the stored blob, the    *)
(* initial items, and no item that was not saved by its version.           *)
LEMMA KnownFacts ==
    ASSUME PrefsInv, Warm, Circulating, NEW b \in KnownBlobs
    PROVE  /\ b \in Blobs /\ b.prefVersion \in Nat /\ b.prefVersion >= 1
           /\ redis \in Blobs /\ redis.prefVersion \in Nat
           /\ b.prefVersion <= redis.prefVersion
           /\ InitialItems \subseteq b.items
           /\ b.items \subseteq Made(b.prefVersion)
<1>1. /\ prefs \in [Requests -> Blobs] /\ newVersion \in [Requests -> Nat]
      /\ InitialBlob \in Blobs
      /\ \A x \in Blobs : x.prefVersion \in Nat
  BY BlobTypes DEF PrefsInv, TypeOK, RequestsOK, Blobs
<1>2. /\ redis # None
      /\ \A r \in AllSaved : newVersion[r] <= redis.prefVersion
  BY DEF PrefsInv, BlobStays, VersionsBelow
<1>3. \A r \in AllSaved : r \in Requests /\ KeepsSave(r)
  BY DEF Circulating, AllSaved
<1>4. ASSUME NEW x \in KnownBlobs
      PROVE  /\ x \in Blobs /\ x.prefVersion \in Nat /\ x.prefVersion >= 1
             /\ InitialItems \subseteq x.items
             /\ x.items \subseteq Made(x.prefVersion)
             /\ x.prefVersion = 1 \/ \E r \in AllSaved : x.prefVersion = newVersion[r]
  <2>1. CASE x = InitialBlob
    BY <1>1, <2>1 DEF InitialBlob, Made
  <2>2. ASSUME NEW r \in AllSaved, x = prefs[r]
        PROVE  /\ x \in Blobs /\ x.prefVersion \in Nat /\ x.prefVersion >= 1
               /\ InitialItems \subseteq x.items
               /\ x.items \subseteq Made(x.prefVersion)
               /\ x.prefVersion = newVersion[r]
    BY <1>1, <1>3, <2>2 DEF KeepsSave
  <2> QED BY <2>1, <2>2 DEF KnownBlobs
<1>5. redis \in Blobs /\ redis.prefVersion \in Nat /\ redis.prefVersion >= 1
  BY <1>4 DEF Circulating
<1> QED BY <1>1, <1>2, <1>4, <1>5

(* A step of one request that saves nothing.                               *)
LEMMA CirculatingMove ==
    ASSUME PrefsInv, Circulating, UNCHANGED <<profile, redis, newVersion>>,
           NEW r \in Requests, NEW label, Goto(r, label),
           \A s \in Requests \ {r} : prefs'[s] = prefs[s],
           Saved(r) => label \in AtRest /\ prefs'[r] = prefs[r],
           label \notin {"lock", "load"} => prefs'[r] \in KnownBlobs,
           \A c \in Replicas : cache'[c] \in {None, cache[c]} \cup KnownBlobs
    PROVE  /\ Circulating'
           /\ KnownBlobs' = KnownBlobs
           /\ AllSaved' = AllSaved
<1>1. pc'[r] = label /\ \A s \in Requests \ {r} : pc'[s] = pc[s]
  BY DEF PrefsInv, TypeOK, RequestsOK, Goto
<1>2. AllSaved' = AllSaved
  BY DEF AllSaved, Saved
<1>3. \A s \in AllSaved : prefs'[s] = prefs[s]
  BY DEF AllSaved
<1>4. KnownBlobs' = KnownBlobs
  BY <1>2, <1>3 DEF KnownBlobs
<1>5. \A v : Made(v)' = Made(v)
  BY <1>2 DEF Made, Item
<1>6. ASSUME NEW s \in Requests
      PROVE  /\ pc'[s] \notin {"lock", "load"} => prefs'[s] \in KnownBlobs
             /\ Saved(s)' => KeepsSave(s)'
  <2>1. /\ pc[s] \notin {"lock", "load"} => prefs[s] \in KnownBlobs
        /\ Saved(s) => KeepsSave(s)
    BY DEF Circulating
  <2>2. Made(newVersion[s])' = Made(newVersion[s])
    BY <1>2 DEF Made, Item
  <2>3. CASE s = r
    BY <1>1, <2>1, <2>2, <2>3 DEF KeepsSave, Saved
  <2>4. CASE s # r
    BY <1>1, <2>1, <2>2, <2>4 DEF KeepsSave, Saved
  <2> QED BY <2>3, <2>4
<1> QED BY <1>2, <1>4, <1>6 DEF Circulating

(* A save brings one more known blob.                                      *)
LEMMA CirculatingEval ==
    ASSUME PrefsInv, Warm, Circulating, profile' = profile, NEW r \in Requests, Eval(r)
    PROVE  /\ Circulating'
           /\ KnownBlobs \subseteq KnownBlobs'
           /\ AllSaved' = AllSaved \cup {r}
<1> DEFINE new == NextPrefVersion(r)
<1>1. /\ pc \in [Requests -> Labels] /\ prefs \in [Requests -> Blobs]
      /\ newVersion \in [Requests -> Nat]
  BY DEF PrefsInv, TypeOK, RequestsOK
<1>2. /\ pc[r] = "apply" /\ pc'[r] = "cacheSet"
      /\ redis' = [prefVersion |-> new, items |-> Edited(r)]
      /\ prefs'[r] = redis' /\ newVersion'[r] = new /\ cache' = cache
      /\ \A s \in Requests \ {r} : /\ pc'[s] = pc[s] /\ prefs'[s] = prefs[s]
                                    /\ newVersion'[s] = newVersion[s]
  BY <1>1 DEF Eval, Goto
<1>3. prefs[r] \in KnownBlobs /\ ~Saved(r)
  BY <1>2 DEF Circulating, KeepsSave, AtRest
<1>4. /\ prefs[r].prefVersion \in Nat /\ redis.prefVersion \in Nat
      /\ prefs[r].prefVersion >= 1 /\ prefs[r].prefVersion <= redis.prefVersion
      /\ InitialItems \subseteq prefs[r].items
      /\ prefs[r].items \subseteq Made(prefs[r].prefVersion)
  BY <1>3, KnownFacts
<1>5. redis # None
  BY DEF PrefsInv, BlobStays
<1>6. new = redis.prefVersion + 1
  BY <1>5 DEF NextPrefVersion
<1>7. new \in Nat /\ new > 1 /\ prefs[r].prefVersion < new
  BY <1>4, <1>6
<1> HIDE DEF new
<1>8. AllSaved' = AllSaved \cup {r}
  <2>1. \A s \in Requests \ {r} : Saved(s)' = Saved(s)
    BY <1>2 DEF Saved
  <2>2. Saved(r)'
    BY <1>2, <1>7 DEF Saved
  <2> QED BY <2>1, <2>2 DEF AllSaved
<1>9. r \notin AllSaved
  BY <1>3 DEF AllSaved
<1>10. \A s \in AllSaved : prefs'[s] = prefs[s] /\ newVersion'[s] = newVersion[s]
  BY <1>2, <1>9 DEF AllSaved
<1>11. KnownBlobs \subseteq KnownBlobs' /\ redis' \in KnownBlobs'
  BY <1>2, <1>8, <1>10 DEF KnownBlobs
<1>12. KeepsSave(r)'
  <2>1. redis'.prefVersion = new /\ redis'.items = prefs[r].items \cup {Item(r)}
    BY <1>2 DEF Edited
  <2>2. Made(prefs[r].prefVersion) \subseteq Made(newVersion[r])'
    <3>1. ASSUME NEW s \in AllSaved, newVersion[s] <= prefs[r].prefVersion
          PROVE  s \in AllSaved' /\ newVersion'[s] <= new
      <4>1. newVersion[s] \in Nat
        BY <1>1 DEF AllSaved
      <4> QED BY <1>4, <1>7, <1>8, <1>10, <3>1, <4>1
    <3> QED BY <1>2, <3>1 DEF Made, Item
  <2>3. Item(r) \in Made(newVersion[r])'
    BY <1>2, <1>7, <1>8 DEF Made, Item
  <2>4. prefs'[r].items \subseteq Made(newVersion[r])'
    BY <1>2, <1>4, <2>1, <2>2, <2>3
  <2> QED BY <1>2, <1>4, <1>7, <2>1, <2>4 DEF KeepsSave, AtRest
<1>13. ASSUME NEW s \in Requests \ {r}
       PROVE  /\ pc'[s] \notin {"lock", "load"} => prefs'[s] \in KnownBlobs'
              /\ Saved(s)' => KeepsSave(s)'
  <2>1. /\ pc[s] \notin {"lock", "load"} => prefs[s] \in KnownBlobs
        /\ Saved(s) => KeepsSave(s)
    BY DEF Circulating
  <2>2. Made(newVersion[s]) \subseteq Made(newVersion[s])'
    BY <1>1, <1>8, <1>10, <1>2 DEF Made, Item
  <2> QED BY <1>2, <1>11, <2>1, <2>2 DEF KeepsSave, Saved
<1>14. \A c \in Replicas : cache'[c] = None \/ cache'[c] \in KnownBlobs'
  BY <1>2, <1>11 DEF Circulating
<1> QED BY <1>2, <1>8, <1>11, <1>12, <1>13, <1>14 DEF Circulating

(* What circulates stays known.                                            *)
LEMMA CirculatingStep ==
    ASSUME PrefsInv, Warm, NoFault', Circulating, [Next]_vars
    PROVE  /\ Circulating'
           /\ KnownBlobs \subseteq KnownBlobs'
<1>1. profile' = profile
  BY StepKeepsSetup DEF PrefsInv
<1>2. /\ pc \in [Requests -> Labels] /\ prefs \in [Requests -> Blobs]
      /\ cache \in [Replicas -> Blobs \cup {None}]
      /\ \A r \in Requests : CacheOf[Repo(r)] \in Replicas
  BY ProfileTypes DEF PrefsInv, TypeOK, RequestsOK, StoresOK
<1>3. /\ redis \in KnownBlobs /\ redis # None
      /\ \A c \in Replicas : cache[c] = None \/ cache[c] \in KnownBlobs
      /\ \A r \in Requests : pc[r] \notin {"lock", "load"} => prefs[r] \in KnownBlobs
      /\ \A r \in Requests : Saved(r) => pc[r] \in AtRest
  BY DEF Circulating, KeepsSave, PrefsInv, BlobStays
<1>4. \A r \in Requests, b \in KnownBlobs :
         CacheSet(r, b) => \A c \in Replicas : cache'[c] \in {cache[c]} \cup KnownBlobs
  BY <1>2 DEF CacheSet
<1>5. ASSUME NEW r \in Requests, Acquire(r) \/ LoadHit(r) \/ LoadGet(r)
      PROVE  Circulating' /\ KnownBlobs' = KnownBlobs
  <2>1. ~Saved(r)
    BY <1>3, <1>5 DEF Acquire, LoadHit, LoadGet, Connects, AtRest
  <2>2. UNCHANGED <<redis, newVersion, cache>>
    BY <1>5 DEF Acquire, LoadHit, LoadGet, Connects, storeVars
  <2>3. CASE Acquire(r)
    BY <1>1, <2>1, <2>2, <2>3, CirculatingMove DEF Acquire
  <2>4. CASE LoadHit(r)
    <3>1. /\ Goto(r, "apply") /\ prefs' = [prefs EXCEPT ![r] = Cached(r)]
          /\ Cached(r) \in KnownBlobs
      BY <1>2, <1>3, <2>4 DEF LoadHit, Cached
    <3>2. prefs'[r] \in KnownBlobs /\ \A s \in Requests \ {r} : prefs'[s] = prefs[s]
      BY <1>2, <3>1
    <3> QED BY <1>1, <2>1, <2>2, <3>1, <3>2, CirculatingMove
  <2>5. CASE LoadGet(r)
    <3>1. Goto(r, "fill") /\ prefs' = [prefs EXCEPT ![r] = redis]
      BY <1>3, <2>5 DEF LoadGet, Connects
    <3>2. prefs'[r] \in KnownBlobs /\ \A s \in Requests \ {r} : prefs'[s] = prefs[s]
      BY <1>2, <1>3, <3>1
    <3> QED BY <1>1, <2>1, <2>2, <3>1, <3>2, CirculatingMove
  <2> QED BY <1>5, <2>3, <2>4, <2>5
<1>6. ASSUME NEW r \in Requests, Fill(r) \/ SaveFillsCache(r)
      PROVE  Circulating' /\ KnownBlobs' = KnownBlobs
  <2>1. CacheSet(r, prefs[r]) /\ prefs[r] \in KnownBlobs /\ prefs' = prefs
    BY <1>3, <1>6 DEF Fill, SaveFillsCache
  <2>2. UNCHANGED <<redis, newVersion>> /\ \A c \in Replicas : cache'[c] \in {cache[c]} \cup KnownBlobs
    BY <1>4, <1>6, <2>1 DEF Fill, SaveFillsCache
  <2>3. CASE Fill(r)
    <3>1. Goto(r, "apply") /\ ~Saved(r)
      BY <1>3, <2>3 DEF Fill, AtRest
    <3> QED BY <1>1, <2>1, <2>2, <3>1, CirculatingMove
  <2>4. CASE SaveFillsCache(r)
    BY <1>1, <2>1, <2>2, <2>4, CirculatingMove DEF SaveFillsCache, AtRest
  <2> QED BY <1>6, <2>3, <2>4
<1>7. ASSUME NEW r \in Requests,
             \/ NothingChanged(r) \/ MongoUpdate(r) \/ MongoInsert(r)
             \/ Publish(r) \/ SendStatUser(r) \/ Subscribe(r)
      PROVE  Circulating' /\ KnownBlobs' = KnownBlobs
  <2>1. /\ UNCHANGED <<redis, newVersion, cache, prefs>> /\ prefs[r] \in KnownBlobs
        /\ \E label \in AtRest \cup {"subscribe"} :
              Goto(r, label) /\ (label \notin AtRest => pc[r] = "apply")
    BY <1>3, <1>7 DEF NothingChanged, MongoUpdate, MongoInsert, Publish, SendStatUser,
       Subscribe, storeVars, AtRest
  <2>2. PICK label \in AtRest \cup {"subscribe"} :
              Goto(r, label) /\ (label \notin AtRest => pc[r] = "apply")
    BY <2>1
  <2>3. Saved(r) => label \in AtRest
    BY <1>3, <2>2 DEF AtRest
  <2> QED BY <1>1, <2>1, <2>2, <2>3, CirculatingMove
<1>8. ASSUME NEW r \in Requests, Eval(r) PROVE Circulating' /\ KnownBlobs \subseteq KnownBlobs'
  BY <1>1, <1>8, CirculatingEval
<1>9. CASE Deliver \/ (\E c \in Replicas : CacheExpires(c)) \/ UNCHANGED vars
  <2>1. UNCHANGED <<redis, pc, prefs, newVersion>>
    BY <1>9 DEF Deliver, CacheExpires, vars, storeVars, requestVars
  <2>2. \A c \in Replicas : cache'[c] = None \/ cache'[c] = cache[c]
    BY <1>2, <1>9 DEF Deliver, CacheExpires, vars, storeVars
  <2>3. AllSaved' = AllSaved /\ KnownBlobs' = KnownBlobs
    BY <2>1 DEF AllSaved, Saved, KnownBlobs
  <2>4. ASSUME NEW r \in Requests, KeepsSave(r) PROVE KeepsSave(r)'
    BY <1>1, <2>1, <2>3, <2>4 DEF KeepsSave, Made, Item
  <2> QED BY <2>1, <2>2, <2>3, <2>4 DEF Circulating, Saved
<1> QED BY <1>5, <1>6, <1>7, <1>8, <1>9, WarmSteps

(* What a frame or the tab shows is the notification part of a known blob.  *)
Shows(version, notif) == \E b \in KnownBlobs : version = b.prefVersion /\ notif = NotifOf(b)

FramesKnown == \A i \in 1..Len(inbox) : Shows(inbox[i].prefVersion, inbox[i].notif)

ViewKnown ==
    /\ 1 <= lastNotifPrefVersion /\ lastNotifPrefVersion <= lastServerPrefVersion
    /\ Shows(lastNotifPrefVersion, view.notif)

(* A boot has emptied the connection when it reads the blob, and is alone   *)
(* on it until it subscribes; its stat_user is the first frame after.      *)
BootLabels == {"load", "fill", "apply", "subscribe", "done"}
Loads(b) == Kind(b) = "boot" /\ pc[b] \in {"fill", "apply"}
BootRuns(b) == Kind(b) = "boot" /\ pc[b] \in {"fill", "apply", "subscribe"}

Connection ==
    /\ \A b \in Requests : Kind(b) = "boot" => pc[b] \in BootLabels
    /\ \A b \in Requests : pc[b] = "subscribe" => Kind(b) = "boot"
    /\ \A b, c \in Requests : BootRuns(b) /\ BootRuns(c) => b = c
    /\ \A b \in Requests : BootRuns(b) => conn = "booting"
    /\ \A b \in Requests : Loads(b) => inbox = <<>>
    /\ \A i \in 1..Len(inbox) : inbox[i].type = "stat_user" => i = 1
    /\ conn = "off" => inbox = <<>> /\ lastServerPrefVersion = 1

(* A blob that brings the notification settings saved with version v, if    *)
(* the tab merges it as a stat_user.                                       *)
Brings(v, version) == version >= v /\ version > lastServerPrefVersion

(* They are on the screen, or a broadcast, a boot or a stat_user has them.  *)
Coming(v) ==
    \/ v <= lastNotifPrefVersion
    \/ \E i \in 1..Len(inbox) : inbox[i].type = "notificationPrefs" /\ inbox[i].prefVersion = v
    \/ \E b \in Requests : Loads(b) /\ Brings(v, prefs[b].prefVersion)
    \/ inbox # <<>> /\ inbox[1].type = "stat_user" /\ Brings(v, inbox[1].prefVersion)

NotifSaves == {r \in AllSaved : Item(r) \in NotifItems /\ pc[r] = "done"}

NotifComing == (conn # "off" /\ ~missed) => \A r \in NotifSaves : Coming(newVersion[r])

TabInv == FramesKnown /\ ViewKnown /\ Connection /\ NotifComing

NotifInv == Warm => Circulating /\ TabInv

(* What was shown stays known.                                             *)
LEMMA ShowsStays ==
    ASSUME KnownBlobs \subseteq KnownBlobs', NEW version, NEW notif, Shows(version, notif)
    PROVE  \E b \in KnownBlobs' : version = b.prefVersion /\ notif = NotifOf(b)
  BY DEF Shows

(* A step that leaves the tab alone, of a request that does not end, and   *)
(* is no boot unless its load ends.                                        *)
LEMMA TabQuiet ==
    ASSUME PrefsInv, TabInv, KnownBlobs \subseteq KnownBlobs',
           UNCHANGED <<profile, conn, inbox, tabVars, missed>>,
           NEW r \in Requests, NEW label, Goto(r, label), label \notin {"done", "subscribe"},
           Kind(r) = "boot" => pc[r] = "fill" /\ label = "apply" /\ prefs'[r] = prefs[r],
           \A s \in Requests \ {r} : prefs'[s] = prefs[s] /\ newVersion'[s] = newVersion[s]
    PROVE  TabInv'
<1> USE DEF TabInv
<1>1. pc'[r] = label /\ \A s \in Requests \ {r} : pc'[s] = pc[s]
  BY DEF PrefsInv, TypeOK, RequestsOK, Goto
<1>2. \A s \in Requests : Kind(s)' = Kind(s) /\ Item(s)' = Item(s)
  BY DEF Kind, Item
<1>3. FramesKnown' /\ ViewKnown'
  <2>1. /\ inbox' = inbox /\ view' = view
        /\ UNCHANGED <<lastNotifPrefVersion, lastServerPrefVersion>>
    BY DEF tabVars
  <2> QED BY <2>1, ShowsStays DEF FramesKnown, ViewKnown, Shows
<1>4. \A s \in Requests : BootRuns(s)' = BootRuns(s) /\ Loads(s)' = Loads(s)
  BY <1>1, <1>2 DEF BootRuns, Loads
<1>5. Connection'
  BY <1>1, <1>2, <1>4 DEF Connection, BootLabels, tabVars
<1>6. ASSUME NEW b \in Requests, Loads(b) PROVE prefs'[b] = prefs[b]
  BY <1>6 DEF Loads
<1>7. ASSUME NEW v, Coming(v)
      PROVE  \/ v <= lastNotifPrefVersion'
             \/ \E i \in 1..Len(inbox') : inbox'[i].type = "notificationPrefs" /\ inbox'[i].prefVersion = v
             \/ \E b \in Requests : Loads(b)' /\ prefs'[b].prefVersion >= v
                                              /\ prefs'[b].prefVersion > lastServerPrefVersion'
             \/ inbox' # <<>> /\ inbox'[1].type = "stat_user" /\ inbox'[1].prefVersion >= v
                              /\ inbox'[1].prefVersion > lastServerPrefVersion'
  BY <1>4, <1>6, <1>7 DEF Coming, Brings, tabVars
<1>8. NotifComing'
  <2> SUFFICES ASSUME conn # "off", ~missed, NEW s \in NotifSaves'
               PROVE  Coming(newVersion[s])'
    BY DEF NotifComing
  <2>1. s \in Requests \ {r}
    BY <1>1 DEF NotifSaves, AllSaved
  <2>2. s \in NotifSaves /\ newVersion'[s] = newVersion[s]
    BY <1>1, <1>2, <2>1 DEF NotifSaves, AllSaved, Saved
  <2>3. Coming(newVersion[s])
    BY <2>2 DEF NotifComing
  <2> QED BY <1>7, <2>2, <2>3 DEF Coming, Brings
<1> QED BY <1>3, <1>5, <1>8

(* A step that moves no request and leaves the tab alone.                  *)
LEMMA TabStill ==
    ASSUME TabInv, UNCHANGED <<profile, conn, inbox, tabVars, missed, pc, prefs, newVersion>>
    PROVE  TabInv'
<1>1. \A s \in Requests : Kind(s)' = Kind(s) /\ Item(s)' = Item(s)
  BY DEF Kind, Item
<1>2. AllSaved' = AllSaved /\ KnownBlobs' = KnownBlobs
  BY DEF AllSaved, Saved, KnownBlobs
<1>3. FramesKnown' /\ ViewKnown'
  BY <1>2 DEF TabInv, FramesKnown, ViewKnown, Shows, tabVars
<1>4. \A s \in Requests : BootRuns(s)' = BootRuns(s) /\ Loads(s)' = Loads(s)
  BY <1>1 DEF BootRuns, Loads
<1>5. Connection'
  BY <1>1, <1>4 DEF TabInv, Connection, tabVars
<1>6. NotifSaves' = NotifSaves
  <2>1. \A s \in AllSaved : (Item(s) \in NotifItems)' = (Item(s) \in NotifItems)
    BY <1>1 DEF AllSaved
  <2> QED BY <1>2, <2>1 DEF NotifSaves
<1>7. ASSUME NEW s \in NotifSaves, Coming(newVersion[s]) PROVE Coming(newVersion[s])'
  BY <1>4, <1>7 DEF Coming, Brings, tabVars
<1>8. NotifComing'
  <2> SUFFICES ASSUME conn # "off", ~missed, NEW s \in NotifSaves PROVE Coming(newVersion[s])'
    BY <1>6 DEF NotifComing
  <2>1. Coming(newVersion[s])
    BY DEF TabInv, NotifComing
  <2> QED BY <1>7, <2>1
<1> QED BY <1>3, <1>5, <1>8 DEF TabInv

(* A boot drops the connection; what was on its way is in the blob it read, *)
(* unless the tab has already seen something newer.                        *)
LEMMA TabBoots ==
    ASSUME PrefsInv, Warm, Circulating, TabInv, profile' = profile,
           NEW r \in Requests, LoadGet(r), Kind(r) = "boot", KnownBlobs' = KnownBlobs
    PROVE  TabInv'
<1> USE DEF TabInv
<1>1. /\ pc \in [Requests -> Labels] /\ prefs \in [Requests -> Blobs]
      /\ newVersion \in [Requests -> Nat]
      /\ inbox \in Seq(Frames) /\ lastServerPrefVersion \in Nat
      /\ redis # None
  BY DEF PrefsInv, TypeOK, RequestsOK, TabOK, BlobStays
<1>2. /\ pc[r] = "load" /\ pc'[r] = "fill" /\ \A s \in Requests \ {r} : pc'[s] = pc[s]
      /\ prefs'[r] = redis /\ \A s \in Requests \ {r} : prefs'[s] = prefs[s]
      /\ conn' = "booting" /\ inbox' = <<>> /\ missed' = (missed \/ LosesNotif)
      /\ ~OtherBootRuns(r)
      /\ newVersion' = newVersion
      /\ UNCHANGED <<lastServerPrefVersion, lastNotifPrefVersion, view>>
  BY <1>1 DEF LoadGet, Connects, Goto, tabVars
<1>3. \A s \in Requests : Kind(s)' = Kind(s) /\ Item(s)' = Item(s)
  BY DEF Kind, Item
<1>4. \A b \in Requests \ {r} : ~BootRuns(b) /\ ~Loads(b)
  BY <1>2 DEF OtherBootRuns, BootRuns, Loads
<1>5. FramesKnown' /\ ViewKnown'
  BY <1>2 DEF FramesKnown, ViewKnown, Shows
<1>6. /\ Loads(r)' /\ BootRuns(r)'
      /\ \A b \in Requests \ {r} : ~BootRuns(b)' /\ ~Loads(b)'
  BY <1>2, <1>3, <1>4 DEF BootRuns, Loads
<1>7. Connection'
  BY <1>2, <1>3, <1>6 DEF Connection, BootLabels
<1>8. /\ redis.prefVersion \in Nat
      /\ \A b \in KnownBlobs : b.prefVersion \in Nat /\ b.prefVersion <= redis.prefVersion
  BY KnownFacts DEF Circulating
<1>9. NotifComing'
  <2> SUFFICES ASSUME ~missed, ~LosesNotif, NEW s \in NotifSaves'
               PROVE  Coming(newVersion[s])'
    BY <1>2 DEF NotifComing
  <2> DEFINE v == newVersion[s]
  <2>1. s \in NotifSaves /\ s \in AllSaved /\ v \in Nat /\ v > 1
    BY <1>1, <1>2, <1>3 DEF NotifSaves, AllSaved, Saved, Circulating, KeepsSave
  <2>2. v <= redis.prefVersion
    BY <2>1 DEF PrefsInv, VersionsBelow
  <2>3. v <= lastNotifPrefVersion \/ redis.prefVersion > lastServerPrefVersion
    <3>1. CASE conn = "off"
      <4>1. lastServerPrefVersion = 1
        BY <3>1 DEF Connection
      <4> QED BY <1>8, <2>1, <2>2, <4>1
    <3>2. CASE conn # "off"
      <4>1. Coming(v)
        BY <2>1, <3>2 DEF NotifComing
      <4>2. ASSUME NEW i \in 1..Len(inbox), inbox[i].type = "notificationPrefs",
                   inbox[i].prefVersion = v
            PROVE  redis.prefVersion > lastServerPrefVersion
        <5>1. v > lastServerPrefVersion
          BY <1>1, <2>1, <4>2 DEF LosesNotif
        <5> QED BY <1>1, <1>8, <2>1, <2>2, <5>1
      <4>3. ~\E b \in Requests : Loads(b)
        BY <1>2, <1>4 DEF Loads
      <4>4. ASSUME inbox # <<>>, Brings(v, inbox[1].prefVersion)
            PROVE  redis.prefVersion > lastServerPrefVersion
        <5>1. 1 \in 1..Len(inbox)
          BY <1>1, <4>4
        <5>2. PICK b \in KnownBlobs : inbox[1].prefVersion = b.prefVersion
          BY <5>1 DEF FramesKnown, Shows
        <5> QED BY <1>1, <1>8, <4>4, <5>2 DEF Brings
      <4> QED BY <4>1, <4>2, <4>3, <4>4 DEF Coming
    <3> QED BY <3>1, <3>2
  <2>4. CASE v <= lastNotifPrefVersion
    BY <1>2, <2>4 DEF Coming
  <2>5. CASE redis.prefVersion > lastServerPrefVersion
    <3>1. Loads(r)' /\ prefs'[r].prefVersion >= newVersion'[s]
          /\ prefs'[r].prefVersion > lastServerPrefVersion'
      BY <1>2, <1>6, <1>8, <2>1, <2>2, <2>5
    <3> QED BY <3>1 DEF Coming, Brings
  <2> QED BY <2>3, <2>4, <2>5
<1> QED BY <1>5, <1>7, <1>9

(* What the labels of a request's last steps say about it.                 *)
LEMMA TabMoves ==
    ASSUME PrefsInv, profile' = profile, UNCHANGED <<prefs, newVersion>>,
           NEW r \in Requests, NEW label, Goto(r, label)
    PROVE  /\ pc'[r] = label /\ \A s \in Requests \ {r} : pc'[s] = pc[s]
           /\ \A s \in Requests : Kind(s)' = Kind(s) /\ Item(s)' = Item(s)
           /\ AllSaved' = AllSaved
           /\ KnownBlobs' = KnownBlobs
  BY DEF PrefsInv, TypeOK, RequestsOK, Goto, Kind, Item, AllSaved, Saved, KnownBlobs

(* A broadcast reaches the inbox of a connected tab.                       *)
LEMMA TabPublish ==
    ASSUME PrefsInv, Warm, Circulating, TabInv, profile' = profile,
           NEW r \in Requests, Publish(r)
    PROVE  TabInv'
<1> USE DEF TabInv
<1>1. /\ newVersion \in [Requests -> Nat] /\ inbox \in Seq(Frames)
      /\ prefs \in [Requests -> Blobs]
      /\ conn \in {"off", "booting", "on"} /\ missed \in BOOLEAN
  BY DEF PrefsInv, TypeOK, RequestsOK, TabOK
<1>2. /\ pc[r] = "publish" /\ Goto(r, "done") /\ conn' = conn
      /\ UNCHANGED <<prefs, newVersion>>
      /\ UNCHANGED <<lastServerPrefVersion, lastNotifPrefVersion, view>>
      /\ missed' = (missed \/ conn = "booting")
  BY DEF Publish, tabVars
<1>3. /\ pc'[r] = "done" /\ \A s \in Requests \ {r} : pc'[s] = pc[s]
      /\ \A s \in Requests : Kind(s)' = Kind(s) /\ Item(s)' = Item(s)
      /\ AllSaved' = AllSaved
      /\ KnownBlobs' = KnownBlobs
  BY <1>2, TabMoves
<1>4. \A s \in Requests : BootRuns(s)' = BootRuns(s) /\ Loads(s)' = Loads(s)
  BY <1>2, <1>3 DEF BootRuns, Loads
<1> DEFINE f == Frame(r, KeyOf(r))
<1>5. /\ f.prefVersion = prefs[r].prefVersion /\ f.notif = NotifOf(prefs[r])
      /\ f.type # "stat_user"
      /\ Item(r) \in NotifItems => f.type = "notificationPrefs"
  BY DEF Frame, KeyOf
<1> HIDE DEF f
<1>6. Shows(f.prefVersion, f.notif)
  BY <1>2, <1>5 DEF Circulating, Shows
<1>7. \/ conn # "on" /\ inbox' = inbox
      \/ conn = "on" /\ inbox' = Append(inbox, f)
  BY DEF Publish, f
<1>8. ViewKnown'
  BY <1>2, <1>3 DEF ViewKnown, Shows
<1>9. CASE conn # "on"
  <2>1. inbox' = inbox
    BY <1>7, <1>9
  <2>2. FramesKnown' /\ Connection'
    BY <1>2, <1>3, <1>4, <2>1 DEF FramesKnown, Shows, Connection, BootLabels
  <2>3. conn' = "off" \/ missed'
    BY <1>1, <1>2, <1>9
  <2> QED BY <1>8, <2>2, <2>3 DEF NotifComing
<1>10. CASE conn = "on"
  <2>1. inbox' = Append(inbox, f)
    BY <1>7, <1>10
  <2>2. /\ Len(inbox) \in Nat /\ Len(inbox') = Len(inbox) + 1
        /\ \A i \in 1..Len(inbox) : inbox'[i] = inbox[i] /\ i \in 1..Len(inbox')
        /\ inbox'[Len(inbox) + 1] = f
        /\ \A i \in 1..Len(inbox') : i \in 1..Len(inbox) \/ i = Len(inbox) + 1
    BY <1>1, <2>1
  <2>3. ASSUME NEW i \in 1..Len(inbox')
        PROVE  /\ Shows(inbox'[i].prefVersion, inbox'[i].notif)
               /\ inbox'[i].type = "stat_user" => i = 1
    <3>1. CASE i \in 1..Len(inbox)
      BY <2>2, <3>1 DEF FramesKnown, Connection
    <3>2. CASE i = Len(inbox) + 1
      BY <1>5, <1>6, <2>2, <3>2
    <3> QED BY <2>2, <3>1, <3>2
  <2>4. FramesKnown'
    BY <1>3, <2>3 DEF FramesKnown, Shows
  <2>5. ~\E b \in Requests : Loads(b) \/ BootRuns(b)
    BY <1>10 DEF Connection, Loads, BootRuns
  <2>6. Connection'
    BY <1>2, <1>3, <1>4, <1>10, <2>3, <2>5 DEF Connection, BootLabels
  <2>7. ASSUME NEW v, Coming(v)
        PROVE  \/ v <= lastNotifPrefVersion
               \/ \E i \in 1..Len(inbox') : inbox'[i].type = "notificationPrefs"
                                            /\ inbox'[i].prefVersion = v
               \/ inbox' # <<>> /\ inbox'[1].type = "stat_user" /\ Brings(v, inbox'[1].prefVersion)
    <3>1. inbox # <<>> => inbox'[1] = inbox[1] /\ inbox' # <<>>
      BY <1>1, <2>1
    <3>2. (\E i \in 1..Len(inbox) : inbox[i].type = "notificationPrefs" /\ inbox[i].prefVersion = v)
            => \E i \in 1..Len(inbox') : inbox'[i].type = "notificationPrefs" /\ inbox'[i].prefVersion = v
      BY <2>2
    <3> QED BY <2>5, <2>7, <3>1, <3>2 DEF Coming
  <2>8. ASSUME NEW s \in NotifSaves', ~missed PROVE Coming(newVersion[s])'
    <3>1. CASE s = r
      <4>1. Saved(r) /\ Item(r) \in NotifItems
        BY <1>3, <3>1 DEF NotifSaves, AllSaved
      <4>2. f.type = "notificationPrefs" /\ f.prefVersion = newVersion[r]
        BY <1>5, <4>1 DEF Circulating, KeepsSave
      <4>3. Len(inbox) + 1 \in 1..Len(inbox')
        BY <2>2
      <4> QED BY <1>2, <2>2, <3>1, <4>2, <4>3 DEF Coming
    <3>2. CASE s # r
      <4>1. s \in NotifSaves
        BY <1>3, <3>2 DEF NotifSaves, AllSaved
      <4>2. Coming(newVersion[s])
        BY <1>10, <2>8, <4>1 DEF NotifComing
      <4> QED BY <1>2, <2>7, <4>2 DEF Coming, Brings
    <3> QED BY <3>1, <3>2
  <2>9. NotifComing'
    BY <1>2, <2>8 DEF NotifComing
  <2> QED BY <1>8, <2>4, <2>6, <2>9
<1> QED BY <1>9, <1>10

(* A boot puts what it read first in an empty inbox.                       *)
LEMMA TabSendStatUser ==
    ASSUME PrefsInv, Warm, Circulating, TabInv, profile' = profile,
           NEW r \in Requests, SendStatUser(r)
    PROVE  TabInv'
<1> USE DEF TabInv
<1>1. /\ pc[r] = "apply" /\ Kind(r) = "boot" /\ Goto(r, "subscribe")
      /\ UNCHANGED <<prefs, newVersion, conn, missed>>
      /\ UNCHANGED <<lastServerPrefVersion, lastNotifPrefVersion, view>>
  BY DEF SendStatUser, tabVars
<1>2. /\ pc'[r] = "subscribe" /\ \A s \in Requests \ {r} : pc'[s] = pc[s]
      /\ \A s \in Requests : Kind(s)' = Kind(s) /\ Item(s)' = Item(s)
      /\ AllSaved' = AllSaved
      /\ KnownBlobs' = KnownBlobs
  BY <1>1, TabMoves
<1>3. Loads(r) /\ BootRuns(r) /\ inbox = <<>> /\ conn = "booting"
  BY <1>1 DEF Loads, BootRuns, Connection
<1> DEFINE f == Frame(r, "stat_user")
<1>4. f.prefVersion = prefs[r].prefVersion /\ f.notif = NotifOf(prefs[r]) /\ f.type = "stat_user"
  BY DEF Frame
<1>5. inbox' = <<f>>
  BY <1>3 DEF SendStatUser
<1> HIDE DEF f
<1>6. Shows(f.prefVersion, f.notif)
  BY <1>1, <1>4 DEF Circulating, Shows
<1>7. Len(inbox') = 1 /\ inbox'[1] = f /\ inbox' # <<>>
  BY <1>5
<1>8. FramesKnown' /\ ViewKnown'
  BY <1>1, <1>2, <1>6, <1>7 DEF FramesKnown, ViewKnown, Shows
<1>9. /\ BootRuns(r)' /\ ~Loads(r)'
      /\ \A b \in Requests \ {r} : ~BootRuns(b) /\ ~BootRuns(b)' /\ ~Loads(b) /\ ~Loads(b)'
  <2>1. \A b \in Requests \ {r} : ~BootRuns(b)
    BY <1>3 DEF Connection
  <2> QED BY <1>1, <1>2, <2>1 DEF BootRuns, Loads
<1>10. Connection'
  BY <1>1, <1>2, <1>3, <1>7, <1>9 DEF Connection, BootLabels
<1>11. NotifComing'
  <2> SUFFICES ASSUME conn # "off", ~missed, NEW s \in NotifSaves'
               PROVE  Coming(newVersion[s])'
    BY <1>1 DEF NotifComing
  <2>1. s \in NotifSaves
    BY <1>2 DEF NotifSaves, AllSaved
  <2>2. Coming(newVersion[s])
    BY <2>1 DEF NotifComing
  <2>3. newVersion[s] <= lastNotifPrefVersion \/ Brings(newVersion[s], prefs[r].prefVersion)
    BY <1>3, <1>9, <2>2 DEF Coming
  <2> QED BY <1>1, <1>4, <1>7, <2>3 DEF Coming, Brings
<1> QED BY <1>8, <1>10, <1>11

(* A boot has subscribed.                                                  *)
LEMMA TabSubscribe ==
    ASSUME PrefsInv, Warm, Circulating, TabInv, profile' = profile,
           NEW r \in Requests, Subscribe(r)
    PROVE  TabInv'
<1> USE DEF TabInv
<1>1. /\ pc[r] = "subscribe" /\ Goto(r, "done") /\ conn' = "on"
      /\ UNCHANGED <<prefs, newVersion, inbox, missed>>
      /\ UNCHANGED <<lastServerPrefVersion, lastNotifPrefVersion, view>>
  BY DEF Subscribe, tabVars
<1>2. /\ pc'[r] = "done" /\ \A s \in Requests \ {r} : pc'[s] = pc[s]
      /\ \A s \in Requests : Kind(s)' = Kind(s) /\ Item(s)' = Item(s)
      /\ AllSaved' = AllSaved
      /\ KnownBlobs' = KnownBlobs
  BY <1>1, TabMoves
<1>3. BootRuns(r) /\ conn = "booting" /\ ~Saved(r)
  BY <1>1 DEF BootRuns, Connection, Circulating, KeepsSave, AtRest
<1>4. FramesKnown' /\ ViewKnown'
  BY <1>1, <1>2 DEF FramesKnown, ViewKnown, Shows
<1>5. \A b \in Requests : ~BootRuns(b)' /\ ~Loads(b) /\ ~Loads(b)'
  <2>1. \A b \in Requests \ {r} : ~BootRuns(b)
    BY <1>3 DEF Connection
  <2> QED BY <1>1, <1>2, <2>1 DEF BootRuns, Loads
<1>6. Connection'
  BY <1>1, <1>2, <1>5 DEF Connection, BootLabels
<1>7. NotifComing'
  <2> SUFFICES ASSUME ~missed, NEW s \in NotifSaves' PROVE Coming(newVersion[s])'
    BY <1>1 DEF NotifComing
  <2>1. s \in NotifSaves
    BY <1>2, <1>3 DEF NotifSaves, AllSaved
  <2>2. Coming(newVersion[s])
    BY <1>3, <2>1 DEF NotifComing
  <2> QED BY <1>1, <1>5, <2>2 DEF Coming, Brings
<1> QED BY <1>4, <1>6, <1>7

(* The tab takes the head of its inbox.                                    *)
LEMMA TabDeliver ==
    ASSUME PrefsInv, Warm, Circulating, TabInv, profile' = profile, Deliver
    PROVE  TabInv'
<1> USE DEF TabInv
<1>1. /\ newVersion \in [Requests -> Nat] /\ inbox \in Seq(Frames)
      /\ lastServerPrefVersion \in Nat /\ lastNotifPrefVersion \in Nat
  BY DEF PrefsInv, TypeOK, RequestsOK, TabOK
<1>2. /\ inbox # <<>> /\ inbox' = Tail(inbox)
      /\ UNCHANGED <<pc, prefs, newVersion, conn, missed>>
  BY DEF Deliver, requestVars
<1>3. /\ \A s \in Requests : Kind(s)' = Kind(s) /\ Item(s)' = Item(s)
      /\ AllSaved' = AllSaved
      /\ KnownBlobs' = KnownBlobs
  BY <1>2 DEF Kind, Item, AllSaved, Saved, KnownBlobs
<1>4. /\ Len(inbox) \in Nat /\ 1 \in 1..Len(inbox) /\ Head(inbox) = inbox[1]
      /\ \A i \in 1..Len(inbox') : i \in Nat /\ i + 1 \in 1..Len(inbox) /\ inbox'[i] = inbox[i + 1]
      /\ \A i \in 1..Len(inbox) : i # 1 => i - 1 \in 1..Len(inbox') /\ inbox'[i - 1] = inbox[i]
  BY <1>1, <1>2
<1> DEFINE f == inbox[1]
<1>5. f \in Frames /\ f.prefVersion \in Nat
  <2>1. f \in Frames
    BY <1>1, <1>4
  <2> HIDE DEF f
  <2>2. f.prefVersion \in Nat
    BY <2>1 DEF Frames
  <2> QED BY <2>1, <2>2
<1>6. Shows(f.prefVersion, f.notif) /\ f.prefVersion >= 1
  <2>1. Shows(f.prefVersion, f.notif)
    BY <1>4 DEF FramesKnown
  <2>2. PICK b \in KnownBlobs : f.prefVersion = b.prefVersion
    BY <2>1 DEF Shows
  <2> QED BY <2>1, <2>2, KnownFacts
<1>7. IF f.type = "stat_user" THEN MergePreferences(f) ELSE HandlePrefUpdate(f)
  BY <1>4 DEF Deliver
<1> HIDE DEF f
<1>8. /\ 1 <= lastNotifPrefVersion /\ lastNotifPrefVersion <= lastServerPrefVersion
      /\ Shows(lastNotifPrefVersion, view.notif)
  BY DEF ViewKnown
(* What the frame does to the tab.                                         *)
<1>9. ASSUME ApplyNotif(f)
      PROVE  \/ /\ f.prefVersion > lastNotifPrefVersion
                /\ lastNotifPrefVersion' = f.prefVersion /\ view'.notif = f.notif
             \/ /\ f.prefVersion <= lastNotifPrefVersion
                /\ lastNotifPrefVersion' = lastNotifPrefVersion /\ view'.notif = view.notif
  <2>1. CASE f.prefVersion > lastNotifPrefVersion
    BY <1>9, <2>1 DEF ApplyNotif, Later, TakesNotif
  <2>2. CASE f.prefVersion <= lastNotifPrefVersion
    <3>1. ~(f.prefVersion > lastNotifPrefVersion) /\ f.prefVersion # 0
      BY <1>1, <1>5, <1>6, <2>2
    <3> QED BY <1>9, <2>2, <3>1 DEF ApplyNotif, Later, TakesNotif
  <2> QED BY <1>1, <1>5, <2>1, <2>2
<1>10. /\ \/ /\ lastNotifPrefVersion' = f.prefVersion /\ view'.notif = f.notif
             /\ f.prefVersion > lastNotifPrefVersion
          \/ lastNotifPrefVersion' = lastNotifPrefVersion /\ view'.notif = view.notif
       /\ lastServerPrefVersion' \in Nat
       /\ lastNotifPrefVersion' <= lastServerPrefVersion'
       /\ f.type = "notificationPrefs" => f.prefVersion <= lastNotifPrefVersion'
       /\ f.type = "stat_user" => \/ f.prefVersion <= lastServerPrefVersion
                                  \/ f.prefVersion <= lastNotifPrefVersion'
  <2>1. CASE f.type = "stat_user"
    <3>1. CASE f.prefVersion <= lastServerPrefVersion
      <4>1. UNCHANGED <<lastServerPrefVersion, lastNotifPrefVersion, view>>
        BY <1>1, <1>7, <1>8, <2>1, <3>1 DEF MergePreferences, tabVars
      <4> QED BY <1>1, <1>8, <2>1, <3>1, <4>1
    <3>2. CASE ~(f.prefVersion <= lastServerPrefVersion)
      <4>1. lastServerPrefVersion' = f.prefVersion /\ ApplyNotif(f)
        BY <1>7, <2>1, <3>2 DEF MergePreferences
      <4>2. f.prefVersion > lastNotifPrefVersion
        BY <1>1, <1>5, <1>8, <3>2
      <4>3. lastNotifPrefVersion' = f.prefVersion /\ view'.notif = f.notif
        BY <1>1, <1>5, <1>9, <4>1, <4>2
      <4> QED BY <1>5, <2>1, <4>1, <4>2, <4>3
    <3> QED BY <3>1, <3>2
  <2>2. CASE f.type # "stat_user"
    <3>1. /\ lastServerPrefVersion' \in Nat
          /\ f.prefVersion <= lastServerPrefVersion'
          /\ lastServerPrefVersion <= lastServerPrefVersion'
      BY <1>1, <1>5, <1>7, <2>2 DEF HandlePrefUpdate, Later
    <3>2. CASE f.type = "notificationPrefs" /\ ApplyNotif(f)
      BY <1>1, <1>5, <1>8, <1>9, <3>1, <3>2
    <3>3. CASE /\ f.type = "pinned" /\ view' = [view EXCEPT !.pinned = f.pinned]
               /\ UNCHANGED lastNotifPrefVersion
      <4>1. view'.notif = view.notif
        BY <3>3 DEF PrefsInv, TypeOK, TabOK
      <4> QED BY <1>1, <1>8, <3>1, <3>3, <4>1
    <3> QED BY <1>7, <2>2, <3>2, <3>3 DEF HandlePrefUpdate
  <2> QED BY <2>1, <2>2
<1>11. lastNotifPrefVersion' \in Nat /\ lastNotifPrefVersion <= lastNotifPrefVersion'
  BY <1>1, <1>5, <1>10
<1>12. FramesKnown'
  BY <1>3, <1>4 DEF FramesKnown, Shows
<1>13. ViewKnown'
  <2>1. Shows(lastNotifPrefVersion', view'.notif)
    BY <1>6, <1>8, <1>10
  <2> QED BY <1>1, <1>3, <1>8, <1>10, <1>11, <2>1 DEF ViewKnown, Shows
<1>14. \A b \in Requests : BootRuns(b)' = BootRuns(b) /\ ~Loads(b) /\ ~Loads(b)'
  BY <1>2, <1>3 DEF BootRuns, Loads, Connection
<1>15. \A i \in 1..Len(inbox') : inbox'[i].type # "stat_user"
  BY <1>4 DEF Connection
<1>16. Connection'
  BY <1>2, <1>3, <1>14, <1>15 DEF Connection, BootLabels
<1>17. NotifComing'
  <2> SUFFICES ASSUME conn # "off", ~missed, NEW s \in NotifSaves'
               PROVE  Coming(newVersion[s])'
    BY <1>2 DEF NotifComing
  <2> DEFINE v == newVersion[s]
  <2>1. s \in NotifSaves /\ v \in Nat /\ newVersion'[s] = v
    BY <1>1, <1>2, <1>3 DEF NotifSaves, AllSaved
  <2>2. Coming(v)
    BY <2>1 DEF NotifComing
  <2> HIDE DEF v
  <2>3. CASE v <= lastNotifPrefVersion
    BY <1>1, <1>11, <2>1, <2>3 DEF Coming
  <2>4. ASSUME NEW i \in 1..Len(inbox), inbox[i].type = "notificationPrefs",
               inbox[i].prefVersion = v
        PROVE  Coming(newVersion[s])'
    <3>1. CASE i = 1
      BY <1>10, <2>1, <2>4, <3>1 DEF Coming, f
    <3>2. CASE i # 1
      <4>1. i - 1 \in 1..Len(inbox') /\ inbox'[i - 1] = inbox[i]
        BY <1>4, <3>2
      <4> QED BY <2>1, <2>4, <4>1 DEF Coming
    <3> QED BY <3>1, <3>2
  <2>5. CASE f.type = "stat_user" /\ Brings(v, f.prefVersion)
    <3>1. f.prefVersion <= lastNotifPrefVersion' /\ f.prefVersion >= v
      BY <1>1, <1>5, <1>10, <2>5 DEF Brings
    <3>2. v <= lastNotifPrefVersion'
      BY <1>5, <1>11, <2>1, <3>1
    <3> QED BY <2>1, <3>2 DEF Coming
  <2> QED BY <1>14, <2>2, <2>3, <2>4, <2>5 DEF Coming, f
<1> QED BY <1>12, <1>13, <1>16, <1>17

(* Every step keeps the tab's part of the invariant.                       *)
LEMMA TabStep ==
    ASSUME PrefsInv, Warm, NoFault', Circulating, TabInv, [Next]_vars
    PROVE  TabInv'
<1>1. profile' = profile
  BY StepKeepsSetup DEF PrefsInv
<1>2. Circulating' /\ KnownBlobs \subseteq KnownBlobs'
  BY CirculatingStep
<1>3. /\ prefs \in [Requests -> Blobs] /\ newVersion \in [Requests -> Nat]
      /\ \A r \in Requests : Kind(r) = "boot" => pc[r] \in BootLabels
  BY DEF PrefsInv, TypeOK, RequestsOK, TabInv, Connection
<1>4. redis # None
  BY DEF PrefsInv, BlobStays
<1>5. ASSUME NEW r \in Requests, Kind(r) # "boot" \/ Fill(r),
             \/ Acquire(r) \/ LoadHit(r) \/ LoadGet(r) \/ Fill(r) \/ NothingChanged(r) \/ Eval(r)
             \/ SaveFillsCache(r) \/ MongoUpdate(r) \/ MongoInsert(r)
      PROVE  TabInv'
  <2>1. /\ UNCHANGED <<conn, inbox, tabVars, missed>>
        /\ \A s \in Requests \ {r} : prefs'[s] = prefs[s] /\ newVersion'[s] = newVersion[s]
    <3>1. CASE Acquire(r) \/ LoadHit(r) \/ Fill(r)
      BY <1>3, <3>1 DEF Acquire, LoadHit, Fill
    <3>2. CASE LoadGet(r) /\ Kind(r) # "boot"
      BY <1>3, <1>4, <3>2 DEF LoadGet, Connects
    <3>3. CASE \/ NothingChanged(r) \/ Eval(r)
               \/ SaveFillsCache(r) \/ MongoUpdate(r) \/ MongoInsert(r)
      BY <1>3, <3>3 DEF NothingChanged, Eval, SaveFillsCache, MongoUpdate, MongoInsert
    <3> QED BY <1>5, <3>1, <3>2, <3>3 DEF Fill
  <2>2. PICK label \in Labels \ {"done", "subscribe"} :
           /\ Goto(r, label)
           /\ Kind(r) = "boot" => pc[r] = "fill" /\ label = "apply" /\ prefs'[r] = prefs[r]
    <3>1. CASE Fill(r)
      BY <3>1 DEF Fill, Labels
    <3>2. CASE Kind(r) # "boot"
      <4>1. CASE Acquire(r) \/ LoadHit(r) \/ LoadGet(r) \/ Fill(r)
        BY <3>2, <4>1 DEF Acquire, LoadHit, LoadGet, Connects, Fill, Labels
      <4>2. CASE \/ NothingChanged(r) \/ Eval(r)
                 \/ SaveFillsCache(r) \/ MongoUpdate(r) \/ MongoInsert(r)
        BY <3>2, <4>2 DEF NothingChanged, Eval, SaveFillsCache, MongoUpdate, MongoInsert, Labels
      <4> QED BY <1>5, <4>1, <4>2
    <3> QED BY <1>5, <3>1, <3>2
  <2> QED BY <1>1, <1>2, <2>1, <2>2, TabQuiet
<1>6. ASSUME NEW r \in Requests, Kind(r) = "boot", LoadGet(r) PROVE TabInv'
  <2>1. ~Saved(r)
    BY <1>6 DEF LoadGet, Connects, Circulating, KeepsSave, AtRest
  <2>2. newVersion' = newVersion /\ \A s \in Requests \ {r} : prefs'[s] = prefs[s]
    BY <1>3, <1>6 DEF LoadGet, Connects
  <2>3. AllSaved' = AllSaved /\ r \notin AllSaved
    BY <2>1, <2>2 DEF AllSaved, Saved
  <2>4. KnownBlobs' = KnownBlobs
    BY <2>2, <2>3 DEF KnownBlobs, AllSaved
  <2> QED BY <1>1, <1>6, <2>4, TabBoots
<1>7. ASSUME NEW r \in Requests, Kind(r) = "boot",
             \/ Acquire(r) \/ LoadHit(r) \/ NothingChanged(r) \/ Eval(r)
             \/ SaveFillsCache(r) \/ MongoUpdate(r) \/ MongoInsert(r)
      PROVE  FALSE
  BY <1>3, <1>7 DEF Acquire, LoadHit, NothingChanged, Eval, IsEdit, SaveFillsCache, MongoUpdate,
     MongoInsert, BootLabels
<1>8. ASSUME NEW r \in Requests, Publish(r) \/ SendStatUser(r) \/ Subscribe(r) PROVE TabInv'
  BY <1>1, <1>8, TabPublish, TabSendStatUser, TabSubscribe
<1>9. CASE Deliver
  BY <1>1, <1>9, TabDeliver
<1>10. CASE (\E c \in Replicas : CacheExpires(c)) \/ UNCHANGED vars
  BY <1>1, <1>10, TabStill DEF CacheExpires, vars, requestVars
<1> QED BY <1>5, <1>6, <1>7, <1>8, <1>9, <1>10, WarmSteps

(* The tab shows the blob it finds.                                        *)
LEMMA InitNotif == Init /\ PrefsInv => NotifInv
<1> SUFFICES ASSUME Init, PrefsInv, Warm PROVE Circulating /\ TabInv
  BY DEF NotifInv
<1>1. \A r \in Requests : pc[r] = FirstStep(r) /\ Kind(r) \in Kinds \ {"delete"}
  BY ProfileTypes DEF Init, PrefsInv, TypeOK, RequestsOK, Warm, NoFault
<1>2. \A r \in Requests : pc[r] \in {"lock", "load"} /\ (Kind(r) = "boot" => pc[r] = "load")
  BY <1>1 DEF FirstStep, Kinds
<1>3. AllSaved = {} /\ \A r \in Requests : ~Saved(r)
  BY DEF Init, AllSaved, Saved
<1>4. KnownBlobs = {InitialBlob}
  BY <1>3 DEF KnownBlobs
<1>5. Circulating
  BY <1>2, <1>3, <1>4 DEF Circulating, Init, Warm
<1>6. inbox = <<>> /\ lastServerPrefVersion = 1 /\ lastNotifPrefVersion = 1
      /\ view.notif = NotifOf(InitialBlob)
  BY DEF Init, Warm
<1>7. FramesKnown /\ ViewKnown
  <2>1. Shows(1, NotifOf(InitialBlob))
    BY <1>4 DEF Shows, InitialBlob
  <2>2. Len(inbox) = 0
    BY <1>6
  <2> QED BY <1>6, <2>1, <2>2 DEF FramesKnown, ViewKnown
<1>8. Connection
  <2>1. \A b \in Requests : ~BootRuns(b) /\ ~Loads(b)
    BY <1>2 DEF BootRuns, Loads
  <2>2. Len(inbox) = 0
    BY <1>6
  <2> QED BY <1>2, <1>6, <2>1, <2>2 DEF Connection, BootLabels
<1>9. NotifComing
  BY <1>3 DEF NotifComing, NotifSaves
<1> QED BY <1>5, <1>7, <1>8, <1>9 DEF TabInv

THEOREM NotifInvariant == Spec => []NotifInv
<1>1. Init => NotifInv
  BY InitInv, InitNotif
<1>2. PrefsInv /\ NotifInv /\ [Next]_vars => NotifInv'
  <2> SUFFICES ASSUME PrefsInv, NotifInv, [Next]_vars, Warm' PROVE (Circulating /\ TabInv)'
    BY DEF NotifInv
  <2>1. Warm /\ NoFault'
    BY StepKeepsSetup DEF PrefsInv, Warm
  <2> QED BY <2>1, CirculatingStep, TabStep DEF NotifInv
<1> QED BY <1>1, <1>2, PrefsInvariant, PTL DEF Spec

(* When all requests have ended and no save overwrote another, a connected  *)
(* tab shows the stored notification settings, in whatever order the        *)
(* broadcasts came and however often it reconnected, unless one was lost   *)
(* between a boot and its subscribe or with a connection that had already   *)
(* seen a newer version (applyServerNotificationPrefs, mergePreferences).   *)
THEOREM TabShowsSavedNotifs == Spec => []NotifConverges
<1>1. PrefsInv /\ NotifInv => NotifConverges
  <2> SUFFICES ASSUME PrefsInv, NotifInv, Warm, AllDone, conn = "on", ~missed, NothingOverwritten
               PROVE  view.notif = NotifOf(redis)
    BY DEF NotifConverges, Warm
  <2>1. Circulating /\ TabInv
    BY DEF NotifInv
  <2>2. newVersion \in [Requests -> Nat] /\ lastNotifPrefVersion \in Nat
    BY DEF PrefsInv, TypeOK, RequestsOK, TabOK
  <2>3. ASSUME NEW s \in AllSaved, Item(s) \in NotifItems
        PROVE  newVersion[s] <= lastNotifPrefVersion
    <3>1. s \in NotifSaves
      BY <2>3 DEF NotifSaves, AllSaved, AllDone
    <3>2. Coming(newVersion[s])
      BY <2>1, <3>1 DEF TabInv, NotifComing
    <3>3. inbox = <<>> /\ Len(inbox) = 0 /\ \A b \in Requests : ~Loads(b)
      BY DEF AllDone, Loads
    <3> QED BY <3>2, <3>3 DEF Coming
  <2>4. PICK b \in KnownBlobs : lastNotifPrefVersion = b.prefVersion /\ view.notif = NotifOf(b)
    BY <2>1 DEF TabInv, ViewKnown, Shows
  <2>5. redis \in KnownBlobs
    BY <2>1 DEF Circulating
  <2>6. /\ InitialItems \subseteq b.items /\ b.items \subseteq Made(b.prefVersion)
        /\ InitialItems \subseteq redis.items /\ redis.items \subseteq Made(redis.prefVersion)
        /\ b.prefVersion \in Nat /\ redis.prefVersion \in Nat
        /\ b.prefVersion <= redis.prefVersion
    BY <2>1, <2>5, KnownFacts
(* A known blob holds what was saved by its version.                       *)
  <2>7. ASSUME NEW x \in KnownBlobs, NEW s \in AllSaved, newVersion[s] <= x.prefVersion
        PROVE  Item(s) \in x.items
    <3>1. KeepsSave(s) /\ newVersion[s] \in Nat
      BY <2>1, <2>2 DEF Circulating, AllSaved
    <3>2. x # InitialBlob
      BY <2>7, <3>1 DEF KeepsSave, InitialBlob
    <3>3. PICK t \in AllSaved : x = prefs[t]
      BY <3>2 DEF KnownBlobs
    <3>4. KeepsSave(t)
      BY <2>1 DEF Circulating, AllSaved
    <3> QED BY <2>7, <3>3, <3>4 DEF KeepsSave, NothingOverwritten
  <2>8. NotifOf(b) \subseteq NotifOf(redis)
    <3> SUFFICES ASSUME NEW x \in b.items PROVE x \in redis.items
      BY DEF NotifOf
    <3>1. CASE x \in InitialItems
      BY <2>6, <3>1
    <3>2. ASSUME NEW s \in AllSaved, newVersion[s] <= b.prefVersion, x = Item(s)
          PROVE  x \in redis.items
      <4>1. newVersion[s] <= redis.prefVersion
        BY <2>2, <2>6, <3>2 DEF AllSaved
      <4> QED BY <2>5, <2>7, <3>2, <4>1
    <3> QED BY <2>6, <3>1, <3>2 DEF Made
  <2>9. NotifOf(redis) \subseteq NotifOf(b)
    <3> SUFFICES ASSUME NEW x \in redis.items, x \in NotifItems PROVE x \in b.items
      BY DEF NotifOf
    <3>1. CASE x \in InitialItems
      BY <2>6, <3>1
    <3>2. ASSUME NEW s \in AllSaved, x = Item(s) PROVE x \in b.items
      BY <2>3, <2>4, <2>7, <3>2
    <3> QED BY <2>6, <3>1, <3>2 DEF Made
  <2> QED BY <2>4, <2>8, <2>9
<1> QED BY <1>1, PrefsInvariant, NotifInvariant, PTL
=============================================================================
