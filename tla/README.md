# ircfiber in TLA+

A verification project for the ircfiber gateway and its browser client: how a
user's IRC events reach the tabs, how a session is found, drained and torn down,
how a tab survives outages, what it shows of messages, channels and read
markers, what the bouncer plays back to an IRC client that returns, and how
preferences edited from several places stay consistent. Paths are relative to
the repository. Short names used below:

| name | file |
|---|---|
| websocket.d, session.d, rest.d | `backend/source/ircfiber/api/` |
| bnc/client.d, web/package.d | `backend/source/ircfiber/` |
| registry.d, engine_janitor.d | `common/source/ircfiber/irc/` |
| preferences.d, prefs_cache.d, prefs_mongo.d, lastseen.d, circuit_breaker.d | `common/source/ircfiber/db/` |
| wsConnection, ircStore | `wsConnection.svelte.ts`, `ircStore.svelte.ts` in `frontend/src/stores/` |
| messageBatcher.ts, messageHandler.ts | `frontend/src/lib/` |
| App.svelte, MessageList.svelte | `frontend/src/`, `frontend/src/components/` |

## 1. The system

Users reach IRC through *engines*, programs outside this repository that hold
the IRC connections and publish each event of a user into Redis. The *gateway*
(D, vibe.d: one event loop with fibers, plus a pool of threads for blocking
Redis reads) serves the page, the REST API and one WebSocket per tab. The
*frontend* (Svelte) keeps one WebSocket, resumes it by event id, and bridges an
outage with polls over XHR. MongoDB is the durable store; Redis holds the event
lists, the live channels, the sessions and the hot copy of the preferences. A
*bouncer* in the gateway process lets ordinary IRC clients attach.

```
 engine, bouncer --PUBLISH irc:events:<uid>--> listener (pool thread) --> outbound queue
        \      \                                                              |
         \      +--> bouncer client (inbox, park, cursor) --> IRC client      |
          +--LPUSH+LTRIM irc:stream:<uid>--> replay (on connect) -------------+--> drainer --> tab
                                      \--> GET /api/events  <----- XHR poll ----------------- tab

 tab:  wsConnection --> messageHandler --> batcher, rows    (what was said)
                                      \--> networks, buffers (where the user is)   <-- sync
                                       \-> markers, badges  (what was read)       <--> heartbeats
```

### Inventory

Components with state that several actors touch; the rest is at the end of the
table. "Module" names what models it; `PROJECT.json` lists the same with their
sources.

| component | state | operations | what makes it hard | what makes it correct | module |
|---|---|---|---|---|---|
| event publishers (bnc/client.d `emitStatusEvent`, the engines alike) | `irc:global_eid`, the per-user list and channel | INCR, PUBLISH, LPUSH, LTRIM | four separate Redis calls of several publishers; each may throw | every event has one eid, nothing retracts it | EventStream |
| event stream gateway (websocket.d, session.d) | session struct, outbound queue, two cursors | handshake, replay, subscribe, filter, queue, drain, ack, teardown | replay on one fiber, listener on another thread, connection lost at any point | no duplicate, no unexplained gap, acks never ahead | EventStream, EventFeed |
| XHR events endpoint (web/package.d `serveEvents`) | none | read the list above a cursor | a reply outlives the outage it was asked in | as above | EventStream |
| session registry (session.d, websocket.d) | session map, blob in Redis, signed cookie | create, restore, persist, destroy | several tabs with one cookie, a restart of the gateway, each Redis call may fail or let another fiber run | one owner, one listener and one drainer per session, no entry left behind but by a failing ack write | SessionRegistry |
| outbound drainer and teardown (session.d, websocket.d) | ring buffer, ManualEvent count, session map | send, drain, wait, destroy from two places | unlocked read of the event count, two destroyers, a dead socket | no frame lost or reordered, no drainer abandoned | OutboundDrain |
| browser stream client (wsConnection) | socket, timers, AbortController, message queue | connect, close, reconnect, poll, send | late close events of dropped sockets, timers that outlive what set them | never stranded, messages once, polls only bridge | WsClient |
| message log of a buffer (ircStore, messageBatcher.ts, messageHandler.ts) | rows, optimistic rows, the batcher's queues, three stashes, requests for pages | receive, flush, load a page, load older, send, redact, edit, react | a message comes live, in a page and as the echo of an optimistic row, in any order; an item may precede its row | no row twice, no hole, nothing the user wrote disappears, no deletion forgotten | MessageLog |
| connection and channel state of a tab (ircStore, App.svelte) | the network's state, the buffer's `joined`, JOIN in flight, what the user asked for | live events, `sync` snapshots, connect, disconnect, join, part | snapshots lag behind live events, live events behind commands | the tab ends showing what the engine has, and a snapshot never undoes a departure | NetworkSync |
| last-seen markers (ircStore, MessageList.svelte, lastseen.d) | marker and badge per tab, `dirty`, the localStorage of a browser, the gateway's hash | scroll, focus, open, heartbeat, echo, sync, storage event, reload | heartbeats of several tabs cross or die, tabs write whole maps over each other, messages arrive while the user reads | markers go back only by another tab's storage, claim only what was seen, converge but for what was lost; badges end right | ReadMarkers |
| preferences (preferences.d, prefs_cache.d, prefs_mongo.d) | Redis blob with `prefVersion`, LRU per process, Mongo copy, per-user lock | load, save, mutate, restore, delete | three copies written in sequence by many fibers, stale cache, Redis losing the key | versions unique, no lost edit, the copies converge | Preferences |
| preference handlers and the tab's merge (rest.d, App.svelte) | the tab's two version gates and its view | edit endpoints, broadcast, stat_user, pref_update | broadcasts reordered after the lock, boot racing an update | the tab ends where Redis is | Preferences |
| bouncer (`bnc/`) | attached clients, the stored playback cursor, parked events | attach, fetch missed, play back, park, forward, IRC line protocol | numbering, storing and publishing are three calls, and attaching has five that yield | playback once, and complete but for named exceptions | BouncerPlayback (playback), EventStream (publisher) |
| engine registry (registry.d, `backend/source/app.d`) | engine records, heartbeats, assignments, leases, draining marks | register, assign, reassign, drain, health cycle in five phases, recovery from mirrors | read-then-write over Redis by several gateways and by engines that die and revive | a network belongs to one live engine | planned |
| engine janitor (engine_janitor.d) | a Redis lock, a dead engine's keys | reap, bump TTLs | lock released without looking at its value, an engine that revives during the purge | a live engine's keys are never purged | planned |
| circuit breaker (circuit_breaker.d) | state, failure count, open-until time | allow, success, failure | callers in flight across a state change | what half-open lets through, an outage always ends | planned |
| account deletion and network lifecycle | rows and keys of one user in both stores | a sequence of deletions | each may fail, the engine still runs, a load may restore | nothing comes back, a retry finishes | planned |
| scrollback and message repositories | per-buffer lists, rows in Mongo | append, trim, query | the engines write most of it | - | only what a page of history returns, in MessageLog and BouncerPlayback |
| invites, signup, OAuth, accounts, web session store | Mongo rows, Redis hashes | single-request flows | unique indexes decide races | one use per invite | not modelled |
| bots, FiberEye, IRC services, IP intelligence, mail, uploads, admin pages, metrics | their own rows | request or timer driven | none shared with the paths above | - | not modelled |
| rendering, composition, img2irc, formatting, members and typing; hole detector | view state | pure functions and view code (the hole detector has no caller) | - | - | not modelled |
| Redis protocol helpers, thread pool, deployment | keys, threads, files | - | - | - | appear only as what the modules make of them |

`PROJECT.json` lists the hazards of this code at the line where each bites and
the properties that watch it.

## 2. Modules and how they correspond to the code

One module per component, an action per handler or per critical section, named
after the function it models; a step ends where the code gives up the processor
or the mutex. `map` in `PROJECT.json` gives the lines of every definition.
Variables introduced only to state properties are marked *history* or
*auxiliary* where they are declared. Every module is parameterised by CONSTANTS
with a named ASSUME.

**EventStream** is the pipeline from publishers to tabs. A publisher goes
through `TakeEid`, `Publish`, `PushStream`, and may give up in between
(`AbandonEvent`). Each tab's connection is a handler that is `Accept`ed, reads
the list once (`ReadStream`), sends the rows above `?since=` one by one
(`ReplayOne`), and only then starts listener and drainer (`ReplayDone`,
`Subscribe`): an event published in between reaches neither, and the module
keeps exactly that order. `Listen` filters by the session's ack cursor.
`since` and `maxEid` are separate variables because the code fixes the first
when the socket is made and goes on raising the second. `replayMissedEvents`
raises `sinceEid` on the handler's own copy of the session struct, so
`FilterCursor` is the ack cursor alone. The XHR fallback asks, is answered and
walks the answer in separate steps. Frames without an eid are left out, and a
connection has a session of its own: what tabs with one cookie share is in
SessionRegistry.

**EventFeed** is the abstract promise: a tab handles only published events, each
at most once. EventStream implements it with `got <- seen`. MessageLog starts
from this promise and adds order: live delivery there is once and in order.

**SessionRegistry** is the gateway's session map for the connections of one
browser. A handshake is `ReadToken`, `LookUp`, `LoadFromRedis`,
`RestoreFromRedis` or `CreateSession`, `PersistToRedis`, `StoreToken`, `Serve`,
and the end `Deactivate`, `Unmap`, `RemoveFromRedis`: one step per call to Redis
or critical section. Listener and drainer of a connection run on their own and
end when they notice (`ListenerEnds`, `DrainerEnds`). Each call to Redis may
fail (`Try`: it is caught, and a failing read of a blob is taken for none); two
failures are not caught where they would do no harm. `AckWriteFails`: a failing
write of the ack cursor ends the handler's `finally` block before
`destroySession`, and the entry stays for good, which `stranded` records.
`ListenerFails`: an exception ends the listener of a tab that stays, which
`deaf` records. `Restart` empties the map and leaves the blobs; the cookie
survives it only with a configured JWT secret, which is a choice of the model.
Left out: the account check on restore, the blobs' TTL, and `restoreSession` and
`broadcastToUser`, which have no callers.

**OutboundDrain** looks at one session at the level of its threads. Everything
under the SessionManager's mutex is one step; the wait is not: `DrainOutbound`
finds the queue empty, `StampTicket` reads `emitCount` unlocked, `Wake` or
`WaitTimeout` ends the wait. The handler's `finally` block and
`dropClientsForWebSession` destroy concurrently; a handler that does not come to
`destroySession` at all is in SessionRegistry.

**WsClient** is the tab's connection code. `socket` is a pointer: `Disconnect`
drops it, and the dropped socket's close event still runs the handler later
(`DroppedCloses`), which `late` remembers until a socket opens again. A poll loop
is a chain of timers and fetches; a fetch is tied to the AbortController, a timer
to nothing. `sendRequest` and its pending requests are left out: no code calls
it, and the gateway knows no `_reqid`.

**MessageLog** is one channel buffer of one tab. The server's events are a
sequence, an event's place in it its eid, msgid and time. `ProcessIrcEvent`
queues a message in the batcher and applies a redaction, edit or reaction at
once (`ApplyLive`: to its row, or into a stash); `TimerFires` flushes live
messages before backfill, with the code's rules for labels, nicks, texts and
optimistic rows (`AppendOne`, `AppendByLabelOnly`, `ReplacePending`);
`LoadBufferHistory` and `HandleLoadMore` ask for pages that are served and
arrive later, or fail, and `SetMessages` and `Prepend` merge them and fold the
stashes in (`FoldAll`). Rows restored from sessionStorage may be older than what
the newest page reaches; `Unreached` says which events then lie between, and
`gap` keeps them. The loops over a batch and over a page (`AppendAll`,
`ReplaceAll`) are recursive functions of the number of messages done; the stable
sort puts a row in the `Place` that the rows before it leave (`Sorted`), and
what several items make of a row is said at once (`Marked`). `Settings` says
which server and user a behaviour has: labels, the engine's self tag, changes of
nick, repeated texts. Abstractions: everything happens within the code's
thirty-second windows, clocks agree, every message of the server has an eid that
is its msgid; the caps on rows and stashes, rows of CHATHISTORY batches and
`pruneMessagesBefore` are left out.

**NetworkSync** is what a tab shows of one network and one channel. The engine,
the server and the snapshotter are external and as small as the tab's view of
them: a phase, a membership, a queue of live events and a snapshot that lags
behind (`SnapshotWritten`). The tab acts (`Rejoin`, `Navigate`, `Part`, `Write`,
`Disconnect`, `Reconnect`; a line written while the network is down asks for a
connect first), handles events (`HandleWelcome`, `HandleJoin`,
`HandlePart`, `HandleKick`, `HandleNumeric`, `HandleDisconnect`) and merges
snapshots (`SyncArrives`: `Adopt` for a channel it names, `Orphan` for one it
does not, `ConnectionAfter` for the connection). "connecting" stands for
connecting, waiting_to_retry and disconnecting. A sync is read and delivered in
one step. Hidden and deleted channels, the JOIN throttle, REST failures and
connects of other clients are left out.

**ReadMarkers** is one buffer's marker and badge, in every tab and in the
gateway. The k-th message has time 2k, and odd times are "now" between messages,
so that a marker set to the clock and one set to a message differ. The view is
`OpenBuffer`, `LeaveBuffer`, `Blur`, `Focus`, `ScrollUp`, `ScrollToBottom` and
`OnScrollChange` with whatever rows are in view; the stream is `ReceiveMessage`,
`ReceiveEcho`, `LoadHistory`, `Boot`, `SyncArrives`, `SendState` (the heartbeat
of `FlushSeenEids`) and `TakeHeartbeat` (SET_IF_GREATER and the echo to the
other tabs). In a setting that is `shared` the tabs have one localStorage: every
step of a tab that moves its marker or what is dirty writes through
(`WriteThrough`), `WriteMaps` writes what the tab has once more (the debounced
write, or the marking of another buffer: it is the whole map that is written),
and `StorageEvent` puts the map another tab wrote in the place of the tab's own,
comparing nothing. The faults are `Disconnects`, which takes along the
heartbeats the gateway has not read (`DropHeartbeats`), `MergeFails`, a failing
EVAL, and `Reload`, which restores what the storage has and some old badge;
`lost` collects the markers that nobody will send again, `back` the greatest one
that a storage event took away. Left out: highlights, buffers without a marker,
the cap of 100 on a tail, the batcher, and the storage event of the unseen map,
from which only a fresh buffer takes its badge; a heartbeat equal to one behind
itself is not sent again.

**BouncerPlayback** is what the connections of one client name to one network
are sent. Publishers `Number`, `Store` and `Publish` an event in three steps; an
engine may store a message a second time (a backfill copy with a new eid and the
old time). A connection subscribes (`Attach`), reads the counter
(`ReadGlobalEid`) and its stored cursor (`ReadSeen`), fetches what it missed
(`Fetch`, or `FetchPlayback` the first time), sends it (`SendHistory`) while
live events are parked, hands over the park (`DeliverParked`) and goes live
(`OnMessage`). `MarkClosing`, `Teardown` and `Crash` end it; a cursor may or may
not be flushed when it moves (`Due`, `Keep`). A line written to the outbound
queue counts as sent unless the connection is closing. The history about to be
sent is a set, sent in the order of its messages, and `IsFresh` says which parked
events the hand-over passes on. Calls fail as the code takes it: a counter that
cannot be read is 0, a stored cursor that cannot be read makes the connection a
first one (`Begin`), a failing page is skipped (`FetchFails`), a failing write of
the cursor is left to the next. Left out: `JumpNetwork`,
detached channels, CHATHISTORY itself, revocation, the line protocol, and two
healthy connections of one client name at once.

**Preferences** is one user's preferences: `redis`, `mongo`, a `cache` per
gateway process, a `lock` per repository object, requests with a program
counter, and one tab. A request is a `mutate()` (serialized), a hand-rolled
load/save (the other ten handlers), a boot (load past the cache, `stat_user`,
subscribe) or a deletion. A step ends at each wait for Redis, Mongo or the lock,
so another fiber can run between the GET and the `cache_.set`, and between the
EVAL and the write to Mongo. A preference is a set of items: an edit adds one,
and the question is only whether it survives; one item, the notification
settings, is also followed into the tab, where `HandlePrefUpdate` and
`MergePreferences` compare versions. Faults (Redis loses the key; GET, EVAL or
Mongo throws) are actions bounded by `MaxFaults`; after a failing GET or findOne
the request goes on with an empty struct (`LoadFails`). Left out: field
validation and repair, the websocket's `buffer` command (an unpublished
hand-rolled save), the tab's optimistic edits, and the preferences held in
associative arrays, which alias the cached struct in the code.

**EventStreamProofs**, **SocketProofs** (OutboundDrain and WsClient, the two ends
of the socket), **PreferencesProofs**, **SessionRegistryProofs**,
**ReadMarkersProofs**, **NetworkSyncProofs**, **MessageLogProofs** and
**BouncerPlaybackProofs** hold the theorems. **MC...**
modules supply instances; a definition marked `mutant` is a plausible bug,
present so that each property can be shown to notice one.

## 3. What is checked

Passing runs explore their whole state graph.

| run | instance | states | shows |
|---|---|---|---|
| stream_two | 1 tab, 2 publishers, 3 eids, list 2, queue 2, Redis may fail | 154k | `AtMostOnce`, `AckNeverAhead`, refinement of EventFeed |
| stream_xhr | 1 tab, 1 publisher, 3 eids, list 2, queue 1, XHR on, fairness | 232k | `HolesExplained` across polls, `LiveEventsArrive` |
| session_own | 3 connections of one browser, 1 restart or failing call, fairness | 659k | one owner per session and one listener and drainer (`OwnSession`, `ServedOnce`), an entry of the map left behind only by a failing ack write (`NoGhosts`), a tab that stays is served, its listener aside if an exception ended it (`StayingTabServed`) |
| drain_live | queue 3, batch 2, 4 frames, fairness | 10k | no frame lost or reordered, no live session without its drainer, the drainer ends with its session |
| client_live | 3 messages, one a JOIN, queue 2, 2 poll loops, 1 dropped socket, fairness | 22k | never stranded, no message lost, what is queued gets out, no poll beside an open socket unless a dropped one closed late (`PollsOnlyBridge`) |
| log_live | 7 situations, 5 events of which 2 are stored before, 2 sends, pages of 2, cached rows up to the newest or one event older | 1.27M | `NoDuplicateRow`, `NoHoles`, `OthersInOrder`, `SentStaysVisible`, `EchoSettles`, `DeletionKept` |
| sync_live | 3 families of events, listed or not, member or not, threshold 3, fairness | 424k | a snapshot never undoes a departure (`PartSurvivesSync`); connection, membership, departure and chip end right (`UpShown`, `MembershipShown`, `LeavingShown`, `ChipResolves`) |
| read_live | 8 situations of 1 or 2 tabs, of one browser or two, and up to 3 messages, fairness | 467k | `NeverBack`, `OwnMarksShown`, `BadgeSettles`, `MarkersConverge` |
| bnc_again | 2 connections, 2 publishers, 3 eids, page 1, park 2, playback 2, 1 fault, fairness | 1.38M | every message the stored cursor passed was handed to a socket, or its loss has one of the named causes (`LossExplained`), nothing is sent twice on one connection or the next but for named rows (`SentOnce`, `HeardOnce`), nothing waits for ever (`NothingWaits`) |
| prefs_all | 3 requests of 5 kinds, 3 states of the stores, 1 fault | 3.49M | versions unique, serialized edits survive, durable copy and tab converge |

Bounds, and why they are enough to meet the interesting cases:

- *One tab* in EventStream. Tabs share only what publishers write; no action of
  one reads a variable of another, so a second tab adds states, not behaviours.
  The proofs cover any number.
- *List 2, queue 2 and 1 with three eids*: smaller than the number of events, so
  that trimming while a tab is away and a full queue both happen.
- *One ack in flight* (`AckCap`) is read before or after anything else happens;
  a second only repeats an older value.
- *Queue 3, batch 2, four frames*: a drain that leaves a rest, a full queue,
  a skipped frame, and an emit while the drainer holds a batch.
- *Two poll loops and one dropped socket*: the smallest numbers at which a loop
  or a close event can be somebody else's.
- *Three connections*: a session's creator, a tab that restores it and one that
  comes between them. Two faults (1.1M states) were checked once by hand; the
  proofs have no bound.
- *Five events, two sends, pages of two*: a page that overlaps the live stream
  on either side, an older page below it, and two optimistic rows that an echo
  can be matched with wrongly. The buffer begins with two events and cached rows
  may lack the second, which two later events put out of reach of a page of two.
  The seven situations are those in which the rules differ: labels, no labels
  but self tags, neither, with a redaction, a change of nick, redactions with
  edits, reactions.
- *Families of events* in NetworkSync: two presses with one drop; three acts on
  the channel with one kick and one reopened socket; one act with a drop and a
  kick. All together would multiply the states and every pair is in one.
  The threshold is the code's.
- *Eight situations* in ReadMarkers: one tab that scrolls and loses the focus
  while messages arrive; one that opens a buffer with messages and loses its
  stream; two tabs of two browsers with every two of a message that arrives, a
  second read and a fault (a broken stream, a reload or a failing EVAL); two tabs
  of one browser with a write of an older map, with a fault, or with one of each.
  A message, a second read and a fault at once, in two browsers, were checked once
  by hand (445k states); tabs of one browser that also scroll have too many
  states for a run, and the theorems cover them.
- *Page 1, park 2, three eids, two connections*: a backlog beyond the page, a
  full park, a copy of a message, and a connection that resumes what another
  left. Four eids without faults, pages of two, and (for the safety properties)
  unrestricted overlap of connections were checked once by hand.
- *Three requests* of Preferences are two competitors and one bystander (a boot,
  a deletion or a third save): the smallest number for two saves to reach Mongo
  in the wrong order while a third loads. Symmetry is over the requests, which
  only the properties' quantifiers distinguish; no property of that run is a
  temporal formula.
- *One fault* per behaviour of SessionRegistry, Preferences and BouncerPlayback:
  each property is about one call that fails at any place. The convergence
  properties of `prefs_all` are about behaviours without; the tab's further sets
  aside a broadcast that fell into a boot, was lost by a reconnect that cannot
  bring it back (`missed`), or named an edit that an unlocked save overwrote.

Deadlock is checked in EventStream and WsClient. The other models may stop:
their counters of events, acts and connections are used up, a drained and
destroyed session does nothing more, each request of Preferences runs once.

### Fairness

Only what the code's scheduling gives. EventStream: the listener, the drainer
and the browser's handlers are loops that run while they have work (weak
fairness); an attempt to connect, made again and again, succeeds at some point
(strong). Nothing makes a publisher publish, a user stay or the network stay up,
and `LiveEventsArrive` ends with the connection. OutboundDrain: the drainer is a
task of a running event loop whose wait has a timeout of five seconds, and a
`finally` block runs to its end; no socket has to drop. WsClient: timers fire,
a close event that is due comes, an attempt repeated for ever succeeds at some
point; users are free to do nothing. SessionRegistry: the fiber of a handler
goes on, its listener and drainer look at their session again and again; no tab
has to leave and no gateway to restart. NetworkSync: the engine serves its
queues and keeps trying to connect, snapshots are written and the ten-second
sync runs, events are handled; no user acts, nothing drops. ReadMarkers: frames,
storage events and such heartbeats as do not fail arrive, the two-second flush
and the ten-second sync run. BouncerPlayback: an attaching connection and the subscriber task go on.
MessageLog and Preferences state no liveness and assume no fairness: their
convergence properties are about states in which nothing is in flight.

### Where the code and its own documents disagree

Each of these runs checks one sentence of the repository and finds a behaviour
of the code against it.

| run | sentence | behaviour |
|---|---|---|
| stream_gap | "guarantees no gaps and no duplicates after resume" (wsConnection:13-15) | an event published after the replay read the list and before SUBSCRIBE is stored, but no resume asks for it once a later event raised the cursor |
| log_redact | "not loaded → stashed and applied when the row arrives" (ircStore:1153-1156) | a message waits in the batcher, its redaction is processed at once and stashed, and the flush, unlike a page, never looks into the stash: the deleted text stays readable |

Seen while reading or modelling and not given a run. These are readings of the
code, not results of TLC, unless said otherwise:

*Stream and session.*
- A row that a poll delivers between the creation of the socket and its open
  event is replayed again, since `?since=` is fixed (wsConnection:291-293; the
  fallback is behind a feature flag).
- An emit between an empty drain and the read of `emitCount` waits for the
  five-second timeout (websocket.d:1156, against session.d:746-749).
- A poll loop asleep in its timer survives `stopXHRFallback`, whose null
  controller reads as not aborted (wsConnection:94-149).
- The ack filter drops an unseen event when two publishers publish out of order.
- Two tabs that restore one blob, or a handshake between a session's removal from
  the map and the DEL of its blob, share one session, against
  websocket.d:150-159: `crossed` in SessionRegistry marks these, and the
  premise of `OwnSession` excludes them. The later socket gets every event
  twice, the earlier none, and the first to leave destroys the other's session.
- A failing write of the ack cursor is "best-effort" for the comment at
  websocket.d:369-376; it throws out of the `finally` block, so `destroySession`
  never runs and the inactive entry stays in the map until the process ends
  (`stranded`, the exception of `NoGhosts`).
- An exception in `ircPoolDispatch` ends the listener of a tab that stays
  (websocket.d:1602); nothing notices, and the tab is sent its replies but no
  event until it reconnects (`deaf`, the exception of `StayingTabServed`).
- The close event of a socket that `disconnectWebSocket` dropped, arriving after
  its successor opened, starts a poll and shows "reconnecting" beside an open
  socket, until a socket opens again: the window that wsConnection:291-293 ("no
  window where both paths could deliver the same event") rules out (`late`, the
  exception of `PollsOnlyBridge`; the fallback is behind a feature flag).
- `irc:session:<id>:ack` is written at teardown under an id that no handshake
  uses again, and the restored value is set on a local copy of the struct.

*Message log.*
- One text sent twice within thirty seconds, or from another device, can swallow
  a row or double one when a page overlaps (ircStore:1675-1697); `same` in
  the settings is FALSE in the runs.
- Rows cached more than a page ago keep a hole for good: the code shows them, asks
  for the newest 200 rows and merges the two uncompared (App.svelte:875-923), and
  handleLoadMore only asks below the oldest row. `log_live` reaches it; `gap` is
  the exception of `NoHoles`.
- A labelled echo that comes late replaces a tombstone; a nick change between
  send and echo can leave two rows (`NoDuplicateRow` says so); a stale page
  regresses an edit (comment at 1370); the last fallback of the batch append
  forgets to store the row it replaced; an out-of-order batch leaves rows
  uncounted.

*Connection and channel state.*
- A live "connected" is not overridden by later snapshots (ircStore:3301-3307,
  against the comment at 4103), so a missed DISCONNECT leaves the tab connected.
- A stale sync just after the echo of a JOIN flips `joined` off until the next;
  `connecting` is suppressed after the user's Disconnect although the comment at
  3385 says not; a Reconnect from the server log does not clear the Disconnect
  mark; a numeric on a placeholder lets the next sync remove the buffer (4533);
  a KICK during an outage with a stale boot sync can leave an unlisted channel
  joined (3781; `LeavingShown` is about listed channels).

*Read markers.*
- `flushSeenEids` forgets `dirty` when it sends (ircStore:2338-2347) and a failing
  EVAL is only logged (lastseen.d:50-55): such a marker stays in the tab that set
  it and reaches nobody else until a later one is set. `lost` names these, the
  exception of `MarkersConverge`.
- Tabs of one browser write their whole maps over one localStorage and take each
  other's over from the `storage` event without comparing
  (preferences.svelte.ts:495-502, 602-653): a tab that marks one buffer with an
  older map moves the other tab's marker of every other buffer back, against "the
  marker itself must still never move back" (ircStore:2349-2356), and does not
  recount its badge before the next sync. The exception of `NeverBack`; a later
  echo or sync brings back what the gateway has.
- A marker set to "now" (2882-2891) covers a message in flight; the tail
  of a boot and the same event live count twice until the next sync; a wheel
  scroll in an unfocused window marks rows nobody looked at.

*Bouncer.*
- An event numbered before the counter was read and stored after the page was
  fetched is dropped live, against client.d:999; a lower eid published after a
  higher one is dropped; a backlog beyond REPLAY_LIMIT is lost once the cursor
  moves on; a failing fetch skips the backlog for good (1394-1402), a failing
  GET of the counter leaves the cursor below it (1346-1351), and a failing HGET
  makes a returning client a new one, whose next flush writes the counter over
  its cursor (1381-1390); an overtaken park is dropped by the cursor check
  (1035-1056); lines sent while the connection closes are lost and the cursor
  still flushed. `excused` and `base` in the module collect exactly these, and
  `LossExplained` says there are no others.
- `JumpNetwork` sets the cursor to 0 with live delivery on; a half-open old
  connection keeps advancing the cursor and writes an older one over a newer.

*Preferences.*
- A failing GET yields an empty struct (preferences.d:592-597), and so does a
  failing findOne: the handler that loaded it saves it over what is stored.
- Ten handlers of rest.d and the websocket's `buffer` command save outside
  mutate's lock, against preferences.d:746-748, and can overwrite an edit (the
  premise of `NoLostUpdate`).
- After Redis lost the blob the cache answers, nothing is restored and the
  counter starts at 1 again (532-537, 579), so the durable copy refuses the
  write; the reply of an unlocked load's GET can fill the cache after a save did
  (649); with no Mongo document yet a newer save's duplicate-key error is taken
  for success (prefs_mongo.d:129); a load between `deleteForUser`'s DEL and its
  delete in Mongo restores the blob (766); `handlePrefUpdate` applies ungated
  lists whatever their version.
- A tab that has handled the update of another key with version 3 and then loses
  its connection with the notification settings of version 2 still under way is
  sent both by the next boot's `stat_user` of version 3, and skips it: the
  floor that `handlePrefUpdate` raised (App.svelte:1323-1330) is not below it,
  where the comment at 1183 has only an update already merged in mind. It shows
  the old settings until they change again. Found while proving `NotifConverges`,
  which held in the run only because three requests left no room for it;
  `LosesNotif` marks it now.

## 4. What is proved

TLAPS checks these for every value of the constants that satisfies the module's
named assumption (`EventStreamAssumption`, `OutboundDrainAssumption`,
`PreferencesAssumption`, `SessionRegistryAssumption`, `WsClientAssumption`,
`BouncerPlaybackAssumption`, and `ConstantsAssumption` of ReadMarkers,
NetworkSync and MessageLog): any number of tabs, publishers, connections,
events, frames, messages, requests and repositories, and any capacities.

**EventStreamProofs**

- `TypeCorrect`, `AcksTrail`: types and capacities, and the ack cursor never
  ahead of the tab. Both with or without the XHR fallback.
- `OnceInvariant`, under `XhrFallback = FALSE`. At-most-once is not inductive:
  two copies of an eid could already be on different ways. `OnceInv` says where
  an event may be. `Numbering`: an eid taken and not published is nowhere, one
  published and not pushed is not in the list, the list has no duplicates.
  `Shape(t)`: which queues are empty in which phase of the handler, and that
  until the replay is over `?since=` is still the tab's `maxEid`.
  `OncePerTab(t)`: an eid is in at most one of tab, wire, outbound queue and
  inbox, and the rows a replay will still send are in none of them.
- `HandledAtMostOnce`, `ImplementsFeed`: consequences, the second step by step
  against EventFeed. With the fallback the conclusion is false (a poll's rows are
  replayed again), so the premise is needed.
- `WholeInvariant`, for one publisher, with or without the fallback: what makes
  "no unexplained hole" inductive. `Newest`: the event being published is the
  newest, and the list falls from it. For each tab: what the pipeline has not
  let go of is in the list or about to be (`Stored`), the queues between tab and
  list rise, each below the one behind it (`InOrder`), once the list is read
  everything is handled, let go of or queued (`Complete`), and a poll's answer
  leaves out nothing below what it holds (`Answer`).
- `HolesAreExplained`: its consequence. With two publishers it is false (the ack
  filter and the resume drop an eid that is published late), hence the premise.

**SessionRegistryProofs**

- `SessionTypes`, and the inductive invariant behind the rest: `Shape` (what a
  handler has in which phase), `Names` (nobody knows the name of a session that
  has not been created, so a new one is nobody else's), `NoGhosts`, and, without a
  crossing, `Own`: an owner that has not removed its session finds it in the map,
  owners are distinct, a session being restored has no owner, no second restorer
  and nobody who still serves it, and who serves an owned session is its owner.
- `SessionsOwned`, `SessionsServedOnce`, `NoGhostSession`: its consequences, with
  every call failing as in the model. The entries of `stranded` are in the map but
  inactive and have no handler; `Own` is about owners and is not disturbed.

**SocketProofs**

- `DrainInvariant`: types, `NothingLostInOrder` and `DrainerOutlivesSession` with
  the fact the first needs to be inductive, that the batch is empty whenever the
  drainer is not about to send. The argument is about concatenation: a drain
  splits the queue, a send moves the batch, a put extends the end.
- `FramesKeptInOrder`, `LiveSessionDrained`: its parts.
- `ClientInvariant`: types, `NeverStranded`, which is inductive once `cur` has its
  type, and `NoMessageLost` as an account: sent, queued and refused messages
  are all there have been, and their number excludes a message counted twice.
- `TabNeverStranded`, `MessagesAccounted`: its parts.
- `NoPollBesideSocket`: `PollsOnlyBridge` is inductive with two facts: a fetch
  has its AbortController, and an open socket leaves none as long as no dropped
  one closed, so a timer that fires then sleeps again.

**NetworkSyncProofs**

- `SyncTypes`: the type invariant, which the snapshots' merge functions make more
  than a formality (a missed counter that stops at the threshold, a buffer that
  is not there is empty).
- `FlowInvariant`: `DepartureLast` (if the user is a member, a PART or KICK on its
  way has a JOIN behind it), `BufferKnown` (a member has a buffer that is not a
  placeholder, or the JOIN that makes it so comes first), and `LeftGuarded`
  (after a departure the tab has handled, and unless a JOIN is coming, the user is
  out, and the buffer carries its guard as long as the snapshot says otherwise).
  The argument is about the order of one queue of events against one snapshot.
- `PartsSurvive`: a consequence for every sync, `PartSurvivesSync`.

**ReadMarkersProofs**

- `SeenTypes`: types, with no marker in the future, wherever it is.
- `SeenNeverBack`: from one lemma per function on a tab's state, that it keeps
  the type and never lowers `lastSeen` (`Ahead`, a preorder), composed along
  each action the way the code composes the functions. The steps that lower it
  are `StorageEvent` and a `Reload` from a shared storage, and what they take
  over is what the storage brought (`FromStorage`); that exception is part of
  the property.
- `LocksHold`: a tab that is scrolled up has a scroll lock, and the lock holds no
  row that is neither shown nor read. This is what `OwnMarksShown` needs, since
  the read trigger marks what the lock holds; the argument is again one lemma per
  function (`Follows`).
- `SeenOwnMarksShown`: the consequence for every step that reads.

**PreferencesProofs**

- `PrefsTypeCorrect`.
- `PrefsInvariant`. Two premises keep Redis from losing the blob, `Warm` (found
  in Redis, no fault, no deletion) and `Locked` (only `mutate()`s of one
  repository, no fault). `VersionsBelow`: the blob's counter bounds every
  version handed out, which needs `BlobStays` (nobody comes to restore an older
  blob) when warm. `Serialized`: what the holder of the lock has read is what
  Redis holds, and the cache is behind Redis only between the holder's EVAL and
  its `cache_.set`.
- `VersionsAreUnique` (under either premise) and `SerializedEditsSurvive` (under
  `Locked`). Without `Locked` the second is false: a hand-rolled handler saves
  over a serialized edit.
- `DurableInvariant` (`Backed`, under either premise): Mongo has the blob of Redis
  or a request that is still writing holds it, Mongo is never the newer, and a
  request that goes on to insert found no document or a newer one.
- `DurableCopyCatchesUp`: its consequence; there must be some request, or a store
  found cold stays so.
- `NotifInvariant` (under `Warm`): every blob in a store, a hand, a frame or on
  the screen is the initial one or one saved (`Circulating`), and each published
  edit of the notification settings is on the screen, in a frame, or in a boot or
  a `stat_user` that the tab will accept (`Coming`). `Connection` says what can
  be on its way to the tab while it boots.
- `TabShowsSavedNotifs`: its consequence.

**BouncerPlaybackProofs**

- `PlaybackInvariant`: `TypeInv`, `Shapes` (what a connection holds in which
  phase) and `Sendings`: a history row is remembered as sent, what is still to be
  replayed has not been sent, and what a connection sent is at or below its
  cursor, the rows that the property names aside. `NothingSentTwice` follows.
- `TurnsInvariant`: what a connection sends after it resumed is above the cursor
  it resumed at, or newer than it in the time it stands for (`Resumings`); and,
  as long as connections take turns and nothing fails (`Calm`), the stored
  cursor covers what a finished connection sent (`Following`) and a later one
  begins above it (`Above`). `NothingHeardTwice` follows.
- `LossInvariant`: inbox and park rise, park below inbox (`Orders`); an event in
  flight that nothing has overtaken is above all that connections hold and,
  until it is stored, above every cursor (`Flights`); and `Owing`: of the stored
  messages that are not excused, those at or below the stored cursor have been
  handed to a socket, and one that nobody has sent is above the cursor of every
  connection, and in its inbox, its park or its fetch as soon as it has
  subscribed (`Missing`, `Expected`, `Held`).
- `NothingLostUnexplained`: its consequence, without a premise: connections may
  overlap, the process may die, calls may fail, and every limit may be reached.

**MessageLogProofs**

Four layers, each inductive on the ones before it. A flush or a page is a loop
over messages, then a sort, then a fold, so each layer has a lemma about one turn
of each loop, an induction on the number of turns (over the recursive function's
domain, by its least counterexample), and lemmas that sorting, dropping repeats
and folding only move and mark rows.

- `LogInvariant`: types; an item names an earlier message; a label belongs to a
  line of the user's and occurs once, in the log or on the wire; the queues and
  the requests hold events of the log.
- `RowsInvariant`: each row is a genuine copy of a message, or an optimistic row
  that is older than its echo; somebody else's message has one row and a label
  one row; entries and stashed items are what they should be. `AppendOneOutcome`
  reduces batchAppendMessages to four outcomes, of which the third (`Dropped`)
  is the loop finding a pending row and not writing the echo into it.
  `DeletionsKept` follows, without a premise.
- `TidyInvariant`, under `Distinct`: the user does not write one text twice within
  thirty seconds. A label is then the text of its row (`Titled`), the user's
  messages have one row each while the nick stays (`OwnOnce`), rows that are not
  optimistic are in the order of the log where they are somebody else's
  (`Trailing`), every line has its row (`Shown`), and an echo that came is
  settled (`EchoesIn`). Ascending batches go behind one another: `OrderRun` says
  that what a batch pushed is in order, or `Resorted` sees that it is older than
  what was there and sorts. `SentShown`, `OthersStandInOrder` and `NoRowTwice`
  follow.
- `EchoesSettle`: a further consequence where the server labels echoes or nicks do
  not change. Without either, an echo under the new nick is not recognised and
  its optimistic row stays.
- `HoleInvariant`, with one more premise, `SelfKnownAlways`: in every setting
  the user's own messages are recognised, by label, self tag or nick; without it
  the outcome `Dropped` is possible (a NICK is processed before the flush of an
  echo that bears the old nick), and the echo gets no row of its own. `NoHoles`
  alone is not inductive: what a page will fill must be known before it comes.
  `HoleInv` excuses a stored event while the newest page that brings it is asked
  for, served, queued or failed (`Excused`), or when that page began above it
  and cached rows lie below it (`gap`), and says that pages, the backfill queue
  and a request for older rows have no other holes themselves (`UpClosed`). The
  cursor of handleLoadMore is the oldest row's place, or lies above all that was
  stored (`CursorIs`).
- `WindowIsWhole`: its consequence, `NoHoles`.

The settings of `log_live` satisfy `Distinct` and `SelfKnownAlways`, and the
premise of `EchoesSettle` too.

Only model-checked: every liveness property, since fairness is beyond the prover.
Every safety property that a passing run checks is stated by a theorem.

## 5. Plan

The order is by how much of the system depends on the behaviour. Delivery, the
sessions and their threads, the client's connection, what a tab shows of
messages, channels and markers, the bouncer's playback and preferences are
present. Next:

1. **EngineRegistry**: several gateways running the health cycle
   (registry.d:685-849), assignment and reassignment with their separate Redis
   calls (465-538), against engines that register, beat, die and revive. The
   engine's own loop (its heartbeat and what it does on losing a network) is not
   in this repository, which leaves its half of the protocol to assumption.
   Properties: a network is listed by one live engine; a draining engine gets
   nothing.
2. **EngineJanitor** on the registry's keys: the lock and the revival race.
3. **CircuitBreaker**: callers in flight across open, half-open and closed
   (the comment at circuit_breaker.d:51 promises one trial request).
4. **Account deletion** with Preferences: a deletion is final.
5. The rest of the bouncer: `JumpNetwork`, detached channels, CHATHISTORY and
   revocation; overlapping connections of one client.

### Not modelled

Page rendering, composition, image conversion, formatting and the line protocols
are computations on data without state that a second actor touches. Accounts,
invites, mail, administration, bots and IRC services are single-request flows
whose races MongoDB's unique indexes decide. The Redis and thread helpers appear
as what the modules make of them: one step per call, which may fail where the
code handles it. `PROJECT.json` says it per component.

## 6. Running it

`tlc -config MCPreferences_all.cfg MCPreferences` and so on for each `.cfg`; each
takes between a few seconds and three minutes with two workers.
`tlapm EventStreamProofs.tla` and likewise the other modules of proofs (twenty
seconds to two minutes each; BouncerPlaybackProofs and MessageLogProofs about
seven minutes).
