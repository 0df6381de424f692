---------------------------- MODULE Preferences ----------------------------
(***************************************************************************)
(* One user's preferences: the Redis blob whose prefVersion the Lua script *)
(* of save() advances, the in-process LRU of each gateway replica, the     *)
(* durable Mongo copy, the per-user lock of mutate(), and a browser tab    *)
(* that merges the stat_user of its boot and the pref_update broadcasts.   *)
(*                                                                         *)
(* Every request runs once, in its own fiber.  A step ends where the code  *)
(* waits for Redis, Mongo or the lock: between a GET and the cache_.set    *)
(* that stores its answer, other fibers run.  A preference is abstracted   *)
(* to a set of items: an edit adds one to the set the request read.        *)
(***************************************************************************)
EXTENDS Integers, Sequences

CONSTANTS
    Requests,      \* the requests that touch the user's preferences
    Repos,         \* PreferencesRepository instances: each has its own locks
    Replicas,      \* gateway processes: each has its own cache
    CacheOf,       \* [Repos -> Replicas]: the process a repository lives in
    Items,         \* what an edit adds to a preference
    NotifItems,    \* the items of notificationPrefs; the others are pinned
    InitialItems,  \* the items stored before the behaviour starts
    Profiles,      \* what the requests may be: records [kind, repo, item]
    Starts,        \* how the stores may be found, a subset of StartKinds
    Faults,        \* the faults that can happen, a subset of FaultKinds
    MaxFaults,     \* bound on how many of them do
    None

Kinds == {"mutate", "handRolled", "boot", "delete"}
StartKinds == {"warm", "cold", "new"}
FaultKinds == {"flush", "get", "eval", "mongo"}

ASSUME PreferencesAssumption ==
    /\ CacheOf \in [Repos -> Replicas]
    /\ NotifItems \subseteq Items
    /\ InitialItems \subseteq Items
    /\ Profiles \subseteq [kind : Kinds, repo : Repos, item : Items]
    /\ Starts \subseteq StartKinds
    /\ Faults \subseteq FaultKinds
    /\ MaxFaults \in Nat
    /\ None \notin Requests
    /\ None \notin [prefVersion : Nat, items : SUBSET Items]

VARIABLES
    profile,     \* what each request is; never changes
    start,       \* how the stores were found; never changes
    redis,       \* the blob at prefs:<userId>, or None
    mongo,       \* the durable copy, or None
    cache,       \* [Replicas -> blob or None]
    lock,        \* [Repos -> the request inside mutate(), or None]
    pc,          \* where each request is
    prefs,       \* the UserPreferences struct each request holds
    newVersion,  \* what save() returned to it, 0 before and for no save
    conn,        \* the tab: "off", "booting" or "on" (subscribed)
    inbox,       \* frames on their way to the tab
    lastServerPrefVersion,
    lastNotifPrefVersion,
    view,        \* the tab's [pinned, notif] item sets
    faults,      \* how many faults have happened
    missed       \* history: a boot and its subscribe, or a reconnect, lost a broadcast

storeVars == <<redis, mongo, cache>>
requestVars == <<pc, prefs, newVersion>>
tabVars == <<lastServerPrefVersion, lastNotifPrefVersion, view>>
vars == <<profile, start, storeVars, lock, requestVars, conn, inbox, tabVars,
          faults, missed>>

Blobs == [prefVersion : Nat, items : SUBSET Items]
Defaults == [prefVersion |-> 0, items |-> {}]
InitialBlob == [prefVersion |-> 1, items |-> InitialItems]

Kind(r) == profile[r].kind
Repo(r) == profile[r].repo
Item(r) == profile[r].item
Cached(r) == cache[CacheOf[Repo(r)]]
CacheSet(r, blob) == cache' = [cache EXCEPT ![CacheOf[Repo(r)]] = blob]
Goto(r, label) == pc' = [pc EXCEPT ![r] = label]

Fault(kind) == kind \in Faults /\ faults < MaxFaults /\ faults' = faults + 1

Later(a, b) == IF a > b THEN a ELSE b

PinnedOf(blob) == blob.items \ NotifItems
NotifOf(blob) == blob.items \cap NotifItems

FirstStepUnlocked(r) ==                                   \* mutant
    IF Kind(r) = "delete" THEN "delRedis" ELSE "load"
FirstStep(r) ==
    CASE Kind(r) = "mutate" -> "lock"
      [] Kind(r) \in {"handRolled", "boot"} -> "load"
      [] Kind(r) = "delete" -> "delRedis"

Init ==
    /\ profile \in [Requests -> Profiles]
    /\ start \in Starts
    /\ redis = IF start = "warm" THEN InitialBlob ELSE None
    /\ mongo = IF start = "new" THEN None ELSE InitialBlob
    /\ cache = [c \in Replicas |-> None]
    /\ lock = [p \in Repos |-> None]
    /\ pc = [r \in Requests |-> FirstStep(r)]
    /\ prefs = [r \in Requests |-> Defaults]
    /\ newVersion = [r \in Requests |-> 0]
    /\ conn \in IF start = "cold" THEN {"off"}
                ELSE IF \E r \in Requests : Kind(r) = "boot" THEN {"off", "on"} ELSE {"on"}
    /\ inbox = <<>>
    /\ lastServerPrefVersion = IF start = "new" THEN 0 ELSE 1
    /\ lastNotifPrefVersion = IF start = "new" THEN 0 ELSE 1
    /\ view = IF start = "new" THEN [pinned |-> {}, notif |-> {}]
              ELSE [pinned |-> PinnedOf(InitialBlob), notif |-> NotifOf(InitialBlob)]
    /\ faults = 0
    /\ missed = FALSE

-----------------------------------------------------------------------------
(* load().  mutate() takes the lock of its repository first; a boot reads  *)
(* past the cache (bypassCache).                                           *)

Acquire(r) ==
    /\ pc[r] = "lock" /\ lock[Repo(r)] = None
    /\ lock' = [lock EXCEPT ![Repo(r)] = r]
    /\ Goto(r, "load")
    /\ UNCHANGED <<profile, start, storeVars, prefs, newVersion, conn, inbox,
                   tabVars, faults, missed>>

LoadHit(r) ==
    /\ pc[r] = "load" /\ Kind(r) # "boot" /\ Cached(r) # None
    /\ prefs' = [prefs EXCEPT ![r] = Cached(r)]
    /\ Goto(r, "apply")
    /\ UNCHANGED <<profile, start, storeVars, lock, newVersion, conn, inbox,
                   tabVars, faults, missed>>

(* The page has one connection: a new boot closes the one before.          *)
OtherBootRuns(r) ==
    \E s \in Requests : Kind(s) = "boot" /\ s # r /\ pc[s] \notin {"load", "done"}

(* A frame lost with a connection comes back with the stat_user of the next *)
(* boot, unless the tab has already handled one of the same or a newer     *)
(* version: mergePreferences then skips the whole stat_user.               *)
LosesNotif ==
    \E i \in 1..Len(inbox) : /\ inbox[i].type = "notificationPrefs"
                             /\ inbox[i].prefVersion <= lastServerPrefVersion

Connects(r) ==
    \/ /\ Kind(r) = "boot" /\ ~OtherBootRuns(r)
       /\ conn' = "booting"
       /\ inbox' = <<>>
       /\ missed' = (missed \/ LosesNotif)
    \/ /\ Kind(r) # "boot" /\ Cached(r) = None
       /\ UNCHANGED <<conn, inbox, missed>>

LoadGet(r) ==
    /\ pc[r] = "load"
    /\ Connects(r)
    /\ \/ /\ redis # None
          /\ prefs' = [prefs EXCEPT ![r] = redis]
          /\ Goto(r, "fill")
       \/ /\ redis = None
          /\ Goto(r, "restore")
          /\ UNCHANGED prefs
    /\ UNCHANGED <<profile, start, storeVars, lock, newVersion, tabVars, faults>>

(* The reply of the GET, or of the SET of a restore, reaches the fiber.    *)
Fill(r) ==
    /\ pc[r] = "fill"
    /\ CacheSet(r, prefs[r])
    /\ Goto(r, "apply")
    /\ UNCHANGED <<profile, start, redis, mongo, lock, prefs, newVersion, conn,
                   inbox, tabVars, faults, missed>>

(* restoreFromDurable: findOne, then a plain SET of what it found.         *)
RestoreRead(r) ==
    /\ pc[r] = "restore"
    /\ \/ /\ mongo = None
          /\ prefs' = [prefs EXCEPT ![r] = Defaults]
          /\ Goto(r, "apply")
       \/ /\ mongo # None
          /\ prefs' = [prefs EXCEPT ![r] = mongo]
          /\ Goto(r, "restoreSet")
    /\ UNCHANGED <<profile, start, storeVars, lock, newVersion, conn, inbox,
                   tabVars, faults, missed>>

RestoreSet(r) ==
    /\ pc[r] = "restoreSet"
    /\ redis' = prefs[r]
    /\ Goto(r, "fill")
    /\ UNCHANGED <<profile, start, mongo, cache, lock, prefs, newVersion, conn,
                   inbox, tabVars, faults, missed>>

(* The GET throws, or the findOne: the request goes on with an empty struct, *)
(* and a save of it replaces what is stored.                               *)
LoadFails(r) ==
    /\ \/ pc[r] = "load" /\ Fault("get") /\ Connects(r)
       \/ pc[r] = "restore" /\ Fault("mongo") /\ UNCHANGED <<conn, inbox, missed>>
    /\ prefs' = [prefs EXCEPT ![r] = Defaults]
    /\ Goto(r, "apply")
    /\ UNCHANGED <<profile, start, storeVars, lock, newVersion, tabVars>>

-----------------------------------------------------------------------------
(* The edit and save().                                                    *)

IsEdit(r) == Kind(r) \in {"mutate", "handRolled"}
Edited(r) == prefs[r].items \cup {Item(r)}

(* mutate() returns, or the hand-rolled handler goes on.                   *)
Release(r) ==
    IF Kind(r) = "mutate" THEN lock' = [lock EXCEPT ![Repo(r)] = None]
    ELSE UNCHANGED lock

(* A channel that is already in the list is not saved again.               *)
Changes(r) == Item(r) \in NotifItems \/ Item(r) \notin prefs[r].items

(* No save: the loaded list and its version are broadcast.                 *)
NothingChanged(r) ==
    /\ pc[r] = "apply" /\ IsEdit(r) /\ ~Changes(r)
    /\ Release(r)
    /\ Goto(r, "publish")
    /\ UNCHANGED <<profile, start, storeVars, prefs, newVersion, conn, inbox,
                   tabVars, faults, missed>>

(* INCR_AND_SET_LUA: the version comes from the blob Redis holds now.      *)
VersionFromLoaded(r) == prefs[r].prefVersion + 1          \* mutant
NextPrefVersion(r) == IF redis = None THEN 1 ELSE redis.prefVersion + 1

Eval(r) ==
    /\ pc[r] = "apply" /\ IsEdit(r) /\ Changes(r)
    /\ redis' = [prefVersion |-> NextPrefVersion(r), items |-> Edited(r)]
    /\ prefs' = [prefs EXCEPT ![r] = redis']
    /\ newVersion' = [newVersion EXCEPT ![r] = NextPrefVersion(r)]
    /\ Goto(r, "cacheSet")
    /\ UNCHANGED <<profile, start, mongo, cache, lock, conn, inbox, tabVars,
                   faults, missed>>

(* EVAL throws, having run or not: a plain SET with prefVersion 0, whose   *)
(* failure is swallowed; the broadcast carries 0 too (pinChannel's would   *)
(* carry the loaded one).                                                  *)
EvalFails(r) ==
    /\ pc[r] = "apply" /\ IsEdit(r) /\ Changes(r)
    /\ Fault("eval")
    /\ prefs' = [prefs EXCEPT ![r] = [prefVersion |-> 0, items |-> Edited(r)]]
    /\ redis' \in {redis, prefs'[r],
                  [prefVersion |-> NextPrefVersion(r), items |-> Edited(r)]}
    /\ Goto(r, "mongoUpdate")
    /\ UNCHANGED <<profile, start, mongo, cache, lock, newVersion, conn, inbox,
                   tabVars, missed>>

SaveFillsCache(r) ==
    /\ pc[r] = "cacheSet"
    /\ CacheSet(r, prefs[r])
    /\ Goto(r, "mongoUpdate")
    /\ UNCHANGED <<profile, start, redis, mongo, lock, prefs, newVersion, conn,
                   inbox, tabVars, faults, missed>>

(* savePrefsDoc: updateOne where prefVersion <= the new one, else insertOne, *)
(* whose duplicate-key error is ignored; any other error ends it.          *)
MatchesAny(r) == mongo # None                             \* mutant
Matches(r) == mongo # None /\ mongo.prefVersion <= prefs[r].prefVersion

MongoUpdate(r) ==
    /\ pc[r] = "mongoUpdate"
    /\ \/ /\ Matches(r)
          /\ mongo' = prefs[r]
          /\ Release(r)
          /\ Goto(r, "publish")
       \/ /\ ~Matches(r)
          /\ Goto(r, "mongoInsert")
          /\ UNCHANGED <<mongo, lock>>
    /\ UNCHANGED <<profile, start, redis, cache, prefs, newVersion, conn, inbox,
                   tabVars, faults, missed>>

MongoInsert(r) ==
    /\ pc[r] = "mongoInsert"
    /\ mongo' = IF mongo = None THEN prefs[r] ELSE mongo
    /\ Release(r)
    /\ Goto(r, "publish")
    /\ UNCHANGED <<profile, start, redis, cache, prefs, newVersion, conn, inbox,
                   tabVars, faults, missed>>

MongoFails(r) ==
    /\ pc[r] \in {"mongoUpdate", "mongoInsert"}
    /\ Fault("mongo")
    /\ Release(r)
    /\ Goto(r, "publish")
    /\ UNCHANGED <<profile, start, storeVars, prefs, newVersion, conn, inbox,
                   tabVars, missed>>

-----------------------------------------------------------------------------
(* Broadcasts, and the tab.                                                *)

Frame(r, type) ==
    [type |-> type, prefVersion |-> prefs[r].prefVersion,
     pinned |-> PinnedOf(prefs[r]), notif |-> NotifOf(prefs[r])]

KeyOf(r) == IF Item(r) \in NotifItems THEN "notificationPrefs" ELSE "pinned"

(* broadcastPrefUpdate, after save() and, for mutate(), after the lock.    *)
Publish(r) ==
    /\ pc[r] = "publish"
    /\ inbox' = IF conn = "on" THEN Append(inbox, Frame(r, KeyOf(r))) ELSE inbox
    /\ missed' = (missed \/ conn = "booting")
    /\ Goto(r, "done")
    /\ UNCHANGED <<profile, start, storeVars, lock, prefs, newVersion, conn,
                   tabVars, faults>>

SendStatUser(r) ==
    /\ pc[r] = "apply" /\ Kind(r) = "boot"
    /\ inbox' = Append(inbox, Frame(r, "stat_user"))
    /\ Goto(r, "subscribe")
    /\ UNCHANGED <<profile, start, storeVars, lock, prefs, newVersion, conn,
                   tabVars, faults, missed>>

(* The session's listener subscribes to the user's event channel.          *)
Subscribe(r) ==
    /\ pc[r] = "subscribe"
    /\ conn' = "on"
    /\ Goto(r, "done")
    /\ UNCHANGED <<profile, start, storeVars, lock, prefs, newVersion, inbox,
                   tabVars, faults, missed>>

(* applyServerNotificationPrefs: a positive version must be new.           *)
TakesAnyNotif(version) == TRUE                            \* mutant
TakesNotif(version) == version = 0 \/ version > lastNotifPrefVersion

ApplyNotif(frame) ==
    /\ lastNotifPrefVersion' = Later(frame.prefVersion, lastNotifPrefVersion)
    /\ view' = [pinned |-> IF frame.type = "stat_user" THEN frame.pinned
                           ELSE view.pinned,
                notif  |-> IF TakesNotif(frame.prefVersion) THEN frame.notif
                           ELSE view.notif]

(* mergePreferences takes only a strictly newer stat_user.                 *)
MergePreferences(frame) ==
    IF lastServerPrefVersion > 0 /\ frame.prefVersion <= lastServerPrefVersion
    THEN UNCHANGED tabVars
    ELSE /\ lastServerPrefVersion' = frame.prefVersion
         /\ ApplyNotif(frame)

(* handlePrefUpdate: a pinned list is applied whatever its version.        *)
HandlePrefUpdate(frame) ==
    /\ lastServerPrefVersion' =
           Later(frame.prefVersion, lastServerPrefVersion)
    /\ \/ /\ frame.type = "notificationPrefs"
          /\ ApplyNotif(frame)
       \/ /\ frame.type = "pinned"
          /\ view' = [view EXCEPT !.pinned = frame.pinned]
          /\ UNCHANGED lastNotifPrefVersion

Deliver ==
    /\ inbox # <<>>
    /\ inbox' = Tail(inbox)
    /\ IF Head(inbox).type = "stat_user"
       THEN MergePreferences(Head(inbox))
       ELSE HandlePrefUpdate(Head(inbox))
    /\ UNCHANGED <<profile, start, storeVars, lock, requestVars, conn, faults,
                   missed>>

-----------------------------------------------------------------------------
(* deleteForUser: DEL, cache_.remove, deletePrefsDoc.                      *)

DeleteRedis(r) ==
    /\ pc[r] = "delRedis"
    /\ redis' = None
    /\ Goto(r, "delCache")
    /\ UNCHANGED <<profile, start, mongo, cache, lock, prefs, newVersion, conn,
                   inbox, tabVars, faults, missed>>

DeleteCache(r) ==
    /\ pc[r] = "delCache"
    /\ CacheSet(r, None)
    /\ Goto(r, "delMongo")
    /\ UNCHANGED <<profile, start, redis, mongo, lock, prefs, newVersion, conn,
                   inbox, tabVars, faults, missed>>

DeleteMongo(r) ==
    /\ pc[r] = "delMongo"
    /\ mongo' = None
    /\ Goto(r, "done")
    /\ UNCHANGED <<profile, start, redis, cache, lock, prefs, newVersion, conn,
                   inbox, tabVars, faults, missed>>

(* The 30 s TTL or an eviction drops a cache entry.                        *)
CacheExpires(c) ==
    /\ cache[c] # None
    /\ cache' = [cache EXCEPT ![c] = None]
    /\ UNCHANGED <<profile, start, redis, mongo, lock, requestVars, conn, inbox,
                   tabVars, faults, missed>>

(* Redis loses the key (a flush, an eviction, an unparseable blob deleted). *)
Flush ==
    /\ redis # None
    /\ Fault("flush")
    /\ redis' = None
    /\ UNCHANGED <<profile, start, mongo, cache, lock, requestVars, conn, inbox,
                   tabVars, missed>>

Load(r) == \/ LoadHit(r) \/ LoadGet(r) \/ Fill(r) \/ RestoreRead(r) \/ RestoreSet(r)
           \/ LoadFails(r)
Save(r) == \/ NothingChanged(r) \/ Eval(r) \/ EvalFails(r) \/ SaveFillsCache(r)
           \/ MongoUpdate(r) \/ MongoInsert(r) \/ MongoFails(r)
Boot(r) == SendStatUser(r) \/ Subscribe(r)
DeleteForUser(r) == DeleteRedis(r) \/ DeleteCache(r) \/ DeleteMongo(r)

AllDone == (\A r \in Requests : pc[r] = "done") /\ inbox = <<>>

Next ==
    \/ \E r \in Requests :
          Acquire(r) \/ Load(r) \/ Save(r) \/ Publish(r) \/ Boot(r) \/ DeleteForUser(r)
    \/ Deliver
    \/ \E c \in Replicas : CacheExpires(c)
    \/ Flush

Spec == Init /\ [][Next]_vars

-----------------------------------------------------------------------------
Labels == {"lock", "load", "fill", "restore", "restoreSet", "apply", "cacheSet",
           "mongoUpdate", "mongoInsert", "publish", "subscribe",
           "delRedis", "delCache", "delMongo", "done"}

Frames == [type : {"stat_user", "pinned", "notificationPrefs"}, prefVersion : Nat,
           pinned : SUBSET Items, notif : SUBSET Items]

StoresOK ==
    /\ redis \in Blobs \cup {None}
    /\ mongo \in Blobs \cup {None}
    /\ cache \in [Replicas -> Blobs \cup {None}]

RequestsOK ==
    /\ profile \in [Requests -> Profiles]
    /\ start \in StartKinds
    /\ lock \in [Repos -> Requests \cup {None}]
    /\ pc \in [Requests -> Labels]
    /\ prefs \in [Requests -> Blobs]
    /\ newVersion \in [Requests -> Nat]
    /\ faults \in 0..MaxFaults

TabOK ==
    /\ conn \in {"off", "booting", "on"}
    /\ inbox \in Seq(Frames)
    /\ lastServerPrefVersion \in Nat
    /\ lastNotifPrefVersion \in Nat
    /\ view \in [pinned : SUBSET Items, notif : SUBSET Items]
    /\ missed \in BOOLEAN

(* The type of every variable.                                             *)
TypeOK == StoresOK /\ RequestsOK /\ TabOK

Saved(r) == newVersion[r] > 0
AllSaved == {r \in Requests : Saved(r)}

(* Nothing has gone wrong with the stores and no request deletes.          *)
NoFault == faults = 0 /\ \A r \in Requests : Kind(r) # "delete"

(* Every request is a mutate() of one repository.                          *)
OneLock == \E p \in Repos : \A r \in Requests : Kind(r) = "mutate" /\ Repo(r) = p

(* No two saves are handed the same prefVersion, whether they hold the     *)
(* lock or not (preferences.d:661-664), while Redis keeps the blob.        *)
UniqueVersions ==
    (NoFault /\ (start = "warm" \/ OneLock)) =>
        \A r, s \in AllSaved : r # s => newVersion[r] # newVersion[s]

(* When every request is a mutate() of one repository, an edit once saved  *)
(* stays in the blob: the read-modify-writes are serialized                *)
(* (preferences.d:740-748), from any state of the stores.                  *)
NoLostUpdate ==
    (NoFault /\ OneLock) => \A r \in AllSaved : redis # None /\ Item(r) \in redis.items

(* When all requests have ended the durable copy is the blob, even if the  *)
(* writes to Mongo arrived out of order (the $lte guard, prefs_mongo.d:117). *)
DurableCatchesUp ==
    (NoFault /\ AllDone /\ (start = "warm" \/ OneLock)) => mongo = redis

(* No save took away what an earlier one had added.                        *)
NothingOverwritten ==
    \A r, s \in AllSaved : newVersion[r] <= newVersion[s] => Item(r) \in prefs[s].items

(* When all requests have ended and no save overwrote another, a connected *)
(* tab shows the stored notification preferences, in whatever order the    *)
(* broadcasts were published, unless one fell between the load of a boot   *)
(* and its subscribe, or was lost by a reconnect that came after a newer   *)
(* one (applyServerNotificationPrefs, mergePreferences).                   *)
NotifConverges ==
    (NoFault /\ start = "warm" /\ AllDone /\ conn = "on" /\ ~missed /\ NothingOverwritten)
        => view.notif = NotifOf(redis)

=============================================================================
