---------------------------- MODULE ReadMarkers ----------------------------
(***************************************************************************)
(* The read marker and the unread badge of one buffer, in every tab of a   *)
(* user and in the gateway (ircStore.svelte.ts, MessageList.svelte,        *)
(* App.svelte, lastseen.d).  A tab advances its marker when the user opens *)
(* the buffer, scrolls or comes back to the window; heartbeats carry it to *)
(* the gateway, which keeps the greatest and echoes it to the other tabs.  *)
(* Tabs of one browser share its localStorage: each write of one reaches   *)
(* the others as a storage event (preferences.svelte.ts).                  *)
(*                                                                         *)
(* The k-th message of the buffer has the time 2 * k; the odd time after   *)
(* it is "now" until the next one.                                         *)
(***************************************************************************)
EXTENDS Naturals, Sequences, FiniteSets

CONSTANTS
  Tabs,       \* the user's tabs
  Kinds,      \* budgets: "post", "view", "write" and "fault"
  Settings    \* the settings considered, see Setting

\* used: the tabs there are.  shared: they are tabs of one browser, and otherwise
\* each has a browser to itself.  scrolls: the user scrolls up and leaves the
\* window.  start: how many messages there are when the tabs are opened.
Setting == [used : SUBSET Tabs, shared : BOOLEAN, scrolls : BOOLEAN, start : Nat,
            bounds : [Kinds -> Nat]]

ASSUME ConstantsAssumption ==
  /\ IsFiniteSet(Tabs) /\ Tabs # {}
  /\ Kinds = {"post", "view", "write", "fault"}
  /\ Settings # {} /\ Settings \subseteq Setting

VARIABLES
  setting,    \* what may happen in this behaviour (never changes)
  budget,     \* what may still happen, by kind
  log,        \* the messages of the buffer: who wrote each
  server,     \* the marker in the gateway's irc:lastseen hash
  inbox,      \* frames on their way to each tab, in order
  heartbeats, \* markers on their way from each tab to the gateway
  tab,        \* each tab's state of the buffer
  storage,    \* a shared localStorage, and its events on the way to each tab
  lost        \* history: the markers nobody will send again

vars == <<setting, budget, log, server, inbox, heartbeats, tab, storage, lost>>

Writers == {"other", "me"}
Time(m) == 2 * m
Now     == 2 * Len(log) + 1

\* link: "new" until the first sync after a load, then "up" or "down".
\* list: ircState.messages, meaningful when `loaded`; tail: the unread tail of
\* the boot sync, meaningful when `tailed`.  bottomSeen and focusSeen are 0 when
\* there is none.  Auxiliary: shown, the last time that has been at the bottom of the
\* view under the user's eyes; back, the greatest marker a storage event took away.
FreshTab ==
  [link |-> "new", loaded |-> FALSE, list |-> {}, tailed |-> FALSE, tail |-> {},
   lastSeen |-> 0, count |-> 0, dirty |-> 0,
   open |-> FALSE, focused |-> TRUE, scrolled |-> FALSE,
   bottomSeen |-> 0, focusSeen |-> 0, shown |-> 0, back |-> 0]

Spend(kind) == /\ budget[kind] > 0
               /\ budget' = [budget EXCEPT ![kind] = @ - 1]

Greatest(S) == IF S = {} THEN 0 ELSE CHOOSE x \in S : \A y \in S : y <= x
Larger(a, b) == IF a > b THEN a ELSE b

-----------------------------------------------------------------------------
(* The badge *)

LastTime(t) == Time(Greatest(t.list))

\* mutant: the tail is forgotten as soon as one live message has come.
ListOnly(t) == IF t.loaded THEN t.list ELSE t.tail

\* unreadSource: what a recount may look at, and whether there is any.
UnreadSource(t) == t.list \cup t.tail
Known(t)        == t.loaded \/ t.tailed

Important(m) == log[m] = "other"

CountAfter(t, time) ==
  Cardinality({m \in UnreadSource(t) : Important(m) /\ Time(m) > time})

\* updateBottomSeen: the scroll lock follows while the window has the focus.
UpdateBottomSeen(t, time) ==
  IF t.focused /\ t.bottomSeen # 0 /\ time > t.bottomSeen
  THEN [t EXCEPT !.bottomSeen = time] ELSE t

\* mutant: the marker is kept for this tab alone.
SetLastSeenLocal(t, time) ==
  IF time < t.lastSeen THEN t
  ELSE [UpdateBottomSeen(t, time) EXCEPT
          !.lastSeen = time, !.count = IF Known(t) THEN CountAfter(t, time) ELSE @]

SetLastSeenMessage(t, time) ==
  IF time < t.lastSeen THEN t
  ELSE [UpdateBottomSeen(t, time) EXCEPT
          !.lastSeen = time, !.dirty = time,
          !.count = IF Known(t) THEN CountAfter(t, time) ELSE @]

\* adoptSyncedUnseen and handleHeartbeatEcho: only forward.
Adopt(t, time) == IF time > t.lastSeen THEN SetLastSeenMessage(t, time) ELSE t

Reconcile(t) ==
  IF ~Known(t) THEN t ELSE [t EXCEPT !.count = CountAfter(t, t.lastSeen)]

-----------------------------------------------------------------------------
(* Reading *)

\* mutant: what is below the scroll lock is read too.
ReadToEnd(t) == SetLastSeenMessage(t, IF t.focusSeen # 0 THEN t.focusSeen ELSE LastTime(t))

ReadBuffer(t) ==
  SetLastSeenMessage(t, IF t.focusSeen # 0 THEN t.focusSeen
                        ELSE IF t.bottomSeen # 0 THEN t.bottomSeen ELSE LastTime(t))

\* markBufferOpenRead: at the newest row, or now when there is none.
MarkBufferOpenRead(t) ==
  LET time == IF t.list # {} THEN LastTime(t) ELSE Now
  IN  IF t.lastSeen >= time THEN t
      ELSE [SetLastSeenMessage(t, time) EXCEPT !.count = 0]

\* setLastSeen and persistDirtySeen write the whole map of a tab as it has it; if that
\* changes the storage, the other tabs of the browser are told.
Notify(i, time) ==
  [j \in Tabs |-> IF j \in setting.used \ {i} THEN Append(storage.events[j], time) ELSE storage.events[j]]

WriteThrough(i, t) ==
  LET seen == IF setting.shared /\ t.lastSeen # tab[i].lastSeen THEN t.lastSeen ELSE storage.seen
  IN  storage' = [seen   |-> seen,
                  dirty  |-> IF setting.shared /\ t.dirty # tab[i].dirty THEN t.dirty ELSE storage.dirty,
                  events |-> IF seen # storage.seen THEN Notify(i, seen) ELSE storage.events]

Set(i, t) == tab' = [tab EXCEPT ![i] = t] /\ WriteThrough(i, t)

\* A dirty marker goes out while the stream is open.  The same marker sent again
\* behind itself changes nothing and is left out.
FlushSeenEids(i, t) ==
  IF t.dirty # 0 /\ t.link = "up"
  THEN /\ heartbeats' = [heartbeats EXCEPT ![i] =
                           IF @ # <<>> /\ @[Len(@)] = t.dirty THEN @ ELSE Append(@, t.dirty)]
       /\ Set(i, [t EXCEPT !.dirty = 0])
  ELSE UNCHANGED heartbeats /\ Set(i, t)

\* The user sees the bottom of the log.
Shown(t) ==
  IF t.open /\ t.focused /\ ~t.scrolled THEN [t EXCEPT !.shown = Larger(@, LastTime(t))]
  ELSE t

\* setActiveBuffer to this buffer: the view snaps to the bottom.
OpenBuffer(i) ==
  /\ ~tab[i].open
  /\ Spend("view")
  /\ LET t == [tab[i] EXCEPT !.open = TRUE, !.focusSeen = 0]
     IN  IF t.focused THEN FlushSeenEids(i, Shown(MarkBufferOpenRead(t)))
                      ELSE Set(i, t) /\ UNCHANGED heartbeats
  /\ UNCHANGED <<setting, log, server, inbox, lost>>

LeaveBuffer(i) ==
  /\ tab[i].open
  /\ Spend("view")
  /\ Set(i, [tab[i] EXCEPT !.open = FALSE, !.scrolled = FALSE])
  /\ UNCHANGED <<setting, log, server, inbox, heartbeats, lost>>

\* setFocused(false): focusSeen locks the marker; at the bottom the scroll lock
\* goes.
Blur(i) ==
  /\ setting.scrolls /\ tab[i].focused
  /\ Spend("view")
  /\ LET t == [tab[i] EXCEPT !.focused = FALSE]
     IN  Set(i, IF ~t.open THEN t
                ELSE [t EXCEPT
                        !.bottomSeen = IF t.scrolled THEN @ ELSE 0,
                        !.focusSeen = IF @ # 0 THEN @
                                      ELSE IF t.list # {} THEN LastTime(t) ELSE Now])
  /\ UNCHANGED <<setting, log, server, inbox, heartbeats, lost>>

Focus(i) ==
  /\ ~tab[i].focused
  /\ Set(i, Shown([tab[i] EXCEPT !.focused = TRUE, !.focusSeen = 0]))
  /\ UNCHANGED <<setting, budget, log, server, inbox, heartbeats, lost>>

\* lockBottomSeen: who scrolls has the rows at the bottom before their eyes.
ScrollUp(i) ==
  /\ setting.scrolls
  /\ tab[i].open /\ ~tab[i].scrolled /\ tab[i].list # {}
  /\ Spend("view")
  /\ Set(i, [tab[i] EXCEPT !.scrolled = TRUE, !.shown = Larger(@, LastTime(tab[i])),
                           !.bottomSeen = IF @ = 0 THEN LastTime(tab[i]) ELSE @])
  /\ UNCHANGED <<setting, log, server, inbox, heartbeats, lost>>

\* unlockBottomSeen
ScrollToBottom(i) ==
  /\ tab[i].open /\ tab[i].scrolled
  /\ Set(i, Shown([tab[i] EXCEPT !.scrolled = FALSE, !.bottomSeen = 0]))
  /\ UNCHANGED <<setting, budget, log, server, inbox, heartbeats, lost>>

\* onScrollChange, after any scroll or change of content, with `top` and `bottom`
\* the first and the last row in view.
OnScrollChange(i) ==
  /\ tab[i].open /\ tab[i].list # {}
  /\ \E userScrolled \in {FALSE, setting.scrolls}, top, bottom \in tab[i].list :
       LET t == tab[i]
           visible == [t EXCEPT !.shown = IF userScrolled \/ t.focused THEN Larger(@, Time(bottom)) ELSE @]
           read == IF Time(top) <= t.lastSeen /\ (userScrolled \/ t.focused)
                   THEN ReadBuffer(visible) ELSE visible
           locked == read.bottomSeen
           lower == UpdateBottomSeen(read, Time(bottom))
       IN  /\ top <= bottom
           /\ t.scrolled \/ Time(bottom) = LastTime(t)
           /\ Set(i, IF lower # read /\ read.lastSeen = locked
                     THEN SetLastSeenMessage(lower, Time(bottom)) ELSE lower)
  /\ UNCHANGED <<setting, budget, log, server, inbox, heartbeats, lost>>

-----------------------------------------------------------------------------
(* Messages, history and the stream *)

Frame(kind, value) == [kind |-> kind, value |-> value]

\* A tab that has a cursor is replayed what it misses.
Post ==
  /\ Spend("post")
  /\ \E who \in Writers : log' = Append(log, who)
  /\ inbox' = [i \in Tabs |-> IF tab[i].link = "new" THEN inbox[i]
                              ELSE Append(inbox[i], Frame("msg", Len(log) + 1))]
  /\ UNCHANGED <<setting, server, heartbeats, tab, storage, lost>>

\* applyAddMessageUnseen
AddUnseen(t, m) ==
  IF Time(m) <= t.lastSeen THEN t
  ELSE IF ~Important(m)
       THEN IF t.count = 0 THEN SetLastSeenMessage(t, Time(m)) ELSE t
       ELSE [t EXCEPT !.count = @ + 1]

ReceiveMessage(i) ==
  /\ tab[i].link = "up" /\ inbox[i] # <<>> /\ Head(inbox[i]).kind = "msg"
  /\ inbox' = [inbox EXCEPT ![i] = Tail(@)]
  /\ LET m == Head(inbox[i]).value
         t == [tab[i] EXCEPT !.loaded = TRUE, !.list = @ \cup {m}]
     IN  Set(i, IF m \in tab[i].list THEN tab[i] ELSE Shown(AddUnseen(t, m)))
  /\ UNCHANGED <<setting, budget, log, server, heartbeats, lost>>

ReceiveEcho(i) ==
  /\ tab[i].link = "up" /\ inbox[i] # <<>> /\ Head(inbox[i]).kind = "echo"
  /\ inbox' = [inbox EXCEPT ![i] = Tail(@)]
  /\ Set(i, Adopt(tab[i], Head(inbox[i]).value))
  /\ UNCHANGED <<setting, budget, log, server, heartbeats, lost>>

\* setMessages and prependMessages: the answer to the request of an open buffer.
LoadHistory(i) ==
  /\ tab[i].open /\ DOMAIN log # tab[i].list
  /\ Set(i, Shown(Reconcile([tab[i] EXCEPT !.loaded = TRUE, !.list = @ \cup DOMAIN log])))
  /\ UNCHANGED <<setting, budget, log, server, inbox, heartbeats, lost>>

\* The two-second timer.
SendState(i) ==
  /\ tab[i].dirty # 0 /\ tab[i].link = "up"
  /\ FlushSeenEids(i, tab[i])
  /\ UNCHANGED <<setting, budget, log, server, inbox, lost>>

\* mutant: the last marker to arrive wins.
MergedLast(time) == time

\* SET_IF_GREATER_LUA
Merged(time) == Larger(server, time)

\* The heartbeat command: an echo for every tab when the marker has moved.
TakeHeartbeat(i) ==
  /\ heartbeats[i] # <<>>
  /\ heartbeats' = [heartbeats EXCEPT ![i] = Tail(@)]
  /\ server' = Merged(Head(heartbeats[i]))
  /\ inbox' = IF server' = server THEN inbox
              ELSE [j \in Tabs |-> IF tab[j].link = "up"
                                   THEN Append(inbox[j], Frame("echo", server')) ELSE inbox[j]]
  /\ UNCHANGED <<setting, budget, log, tab, storage, lost>>

\* Its EVAL fails, which is caught: the marker is dropped.
MergeFails(i) ==
  /\ heartbeats[i] # <<>>
  /\ Spend("fault")
  /\ heartbeats' = [heartbeats EXCEPT ![i] = Tail(@)]
  /\ lost' = lost \cup {Head(heartbeats[i])}
  /\ UNCHANGED <<setting, log, server, inbox, tab, storage>>

\* updateNetworkFromSync: the connect-time sync brings the unread tail, the
\* periodic one does not.
FromSync(t) == Reconcile(Adopt(t, server))

Boot(i) ==
  /\ tab[i].link # "up"
  /\ Set(i, FromSync([tab[i] EXCEPT !.link = "up", !.tailed = TRUE,
                        !.tail = {m \in DOMAIN log : Time(m) > server}]))
  /\ UNCHANGED <<setting, budget, log, server, inbox, heartbeats, lost>>

SyncArrives(i) ==
  /\ tab[i].link = "up"
  /\ Set(i, FromSync(tab[i]))
  /\ UNCHANGED <<setting, budget, log, server, inbox, heartbeats, lost>>

\* The `storage` event puts another tab's map in the place of this one's, with no look
\* at which marker is newer and no recount.
StorageEvent(i) ==
  /\ setting.shared /\ storage.events[i] # <<>>
  /\ tab' = [tab EXCEPT ![i] = [tab[i] EXCEPT !.back = Larger(tab[i].back, tab[i].lastSeen),
                                              !.lastSeen = Head(storage.events[i])]]
  /\ storage' = [storage EXCEPT !.events[i] = Tail(@)]
  /\ UNCHANGED <<setting, budget, log, server, inbox, heartbeats, lost>>

\* A tab marks another buffer, or the debounced write runs: what it has for this one
\* goes into the storage again, what is dirty with the former.
WriteMaps(i) ==
  /\ setting.shared
  /\ Spend("write")
  /\ \E dirty \in {storage.dirty, tab[i].dirty} :
       storage' = [seen |-> tab[i].lastSeen, dirty |-> dirty, events |-> Notify(i, tab[i].lastSeen)]
  /\ UNCHANGED <<setting, log, server, inbox, heartbeats, tab, lost>>

\* A socket goes away with the heartbeats that the gateway has not read.
DropHeartbeats(i, more) ==
  \E n \in 0..Len(heartbeats[i]) :
    /\ heartbeats' = [heartbeats EXCEPT ![i] = SubSeq(@, 1, n)]
    /\ lost' = lost \cup more \cup {heartbeats[i][k] : k \in n + 1..Len(heartbeats[i])}

\* Echoes are not replayed (a lost one says nothing).
Echoless(frames) ==
  [k \in DOMAIN frames |-> IF frames[k].kind = "echo" THEN Frame("echo", 0) ELSE frames[k]]

\* The stream breaks; resetPendingState forgets the tail.
Disconnects(i) ==
  /\ tab[i].link = "up"
  /\ Spend("fault")
  /\ Set(i, [tab[i] EXCEPT !.link = "down", !.tailed = FALSE, !.tail = {}])
  /\ inbox' = [inbox EXCEPT ![i] = Echoless(@)]
  /\ DropHeartbeats(i, {})
  /\ UNCHANGED <<setting, log, server>>

\* A reload keeps what localStorage has: a marker and what is dirty of it, the tab's
\* own or those another tab wrote over them, and a badge that the debounced write left
\* behind.
Reload(i) ==
  LET kept == IF setting.shared THEN [lastSeen |-> storage.seen, dirty |-> storage.dirty]
              ELSE [lastSeen |-> tab[i].lastSeen, dirty |-> tab[i].dirty]
  IN  /\ Spend("fault")
      /\ \E badge \in 0..Len(log) :
           tab' = [tab EXCEPT ![i] = [FreshTab EXCEPT !.lastSeen = kept.lastSeen,
                                                      !.dirty = kept.dirty, !.count = badge]]
      /\ inbox' = [inbox EXCEPT ![i] = <<>>]
      /\ storage' = [storage EXCEPT !.events[i] = <<>>]
      /\ DropHeartbeats(i, IF kept.dirty < tab[i].dirty THEN {tab[i].dirty} ELSE {})
      /\ UNCHANGED <<setting, log, server>>

-----------------------------------------------------------------------------
(* The specification *)

Init ==
  /\ setting \in Settings
  /\ budget = setting.bounds
  /\ log \in [1..setting.start -> Writers]
  /\ server = 0
  /\ inbox = [i \in Tabs |-> <<>>]
  /\ heartbeats = [i \in Tabs |-> <<>>]
  /\ tab = [i \in Tabs |-> FreshTab]
  /\ storage = [seen |-> 0, dirty |-> 0, events |-> [i \in Tabs |-> <<>>]]
  /\ lost = {}

View(i) == \/ OpenBuffer(i) \/ LeaveBuffer(i) \/ Blur(i) \/ Focus(i)
           \/ ScrollUp(i) \/ ScrollToBottom(i) \/ OnScrollChange(i)
Receive(i) == ReceiveMessage(i) \/ ReceiveEcho(i)
Stream(i) == \/ Receive(i) \/ LoadHistory(i) \/ SendState(i) \/ TakeHeartbeat(i)
             \/ Boot(i) \/ SyncArrives(i)
Browser(i) == StorageEvent(i) \/ WriteMaps(i)
Fault(i) == Disconnects(i) \/ Reload(i) \/ MergeFails(i)

Next == Post \/ \E i \in setting.used : View(i) \/ Stream(i) \/ Browser(i) \/ Fault(i)

\* Frames, heartbeats and storage events arrive, the client keeps reconnecting, the two-second
\* and ten-second timers keep running.  Nothing is assumed of the user.
Fairness ==
  \A i \in Tabs :
    /\ WF_vars(i \in setting.used /\ Receive(i))
    /\ WF_vars(i \in setting.used /\ SendState(i))
    /\ WF_vars(i \in setting.used /\ TakeHeartbeat(i))
    /\ WF_vars(i \in setting.used /\ Boot(i))
    /\ WF_vars(i \in setting.used /\ SyncArrives(i))
    /\ WF_vars(i \in setting.used /\ StorageEvent(i))

Spec == Init /\ [][Next]_vars /\ Fairness

-----------------------------------------------------------------------------
(* Properties *)

Times == 0..Now

TabState ==
  [link : {"new", "down", "up"}, loaded : BOOLEAN, list : SUBSET DOMAIN log,
   tailed : BOOLEAN, tail : SUBSET DOMAIN log, lastSeen : Times, count : Nat,
   dirty : Times, open : BOOLEAN, focused : BOOLEAN, scrolled : BOOLEAN,
   bottomSeen : Times, focusSeen : Times, shown : Times, back : Times]

Frames == [kind : {"msg"}, value : DOMAIN log] \cup [kind : {"echo"}, value : Times]

\* Every variable keeps its type, and no marker, on its way or anywhere else,
\* lies in the future.
TypeOK ==
  /\ setting \in Settings /\ budget \in [Kinds -> Nat]
  /\ log \in Seq(Writers) /\ server \in Times
  /\ inbox \in [Tabs -> Seq(Frames)] /\ heartbeats \in [Tabs -> Seq(Times)]
  /\ tab \in [Tabs -> TabState]
  /\ storage \in [seen : Times, dirty : Times, events : [Tabs -> Seq(Times)]]
  /\ lost \subseteq Times

\* Tab i takes over the marker of the localStorage it shares with another tab, which
\* that tab wrote from a map of its own: by a storage event or a reload.
FromStorage(i) ==
  /\ setting.shared
  /\ \/ /\ storage.events[i] # <<>> /\ storage'.events[i] = Tail(storage.events[i])
        /\ tab'[i].lastSeen = Head(storage.events[i])
     \/ tab'[i].link = "new" /\ tab'[i].lastSeen = storage.seen

\* The gateway's marker never moves back, whatever order the tabs' heartbeats come in.
\* Nor does a tab's, over old echoes, syncs, reloads and lost heartbeats, but in one
\* way: the browser's storage brings the map of another tab, which may be older
\* (setLastSeenMessage, SET_IF_GREATER_LUA, preferences.svelte.ts:602-653).
NeverBack ==
  [][/\ server' >= server
     /\ \A i \in Tabs : tab'[i].lastSeen >= tab[i].lastSeen \/ FromStorage(i)]_vars

\* The read trigger marks nothing that has not been at the bottom of the view:
\* when a marker passes the gateway's and all it has been, with no frame, no storage
\* event and no buffer opened, the user has seen that far, or lost the focus there, however
\* many messages came in below (readBuffer, updateBottomSeen, lockBottomSeen, setFocused).
OwnMarksShown ==
  [][\A i \in Tabs :
       /\ tab'[i].lastSeen > Larger(Larger(tab[i].lastSeen, tab[i].back), server)
       /\ UNCHANGED <<budget, inbox>> /\ storage'.events[i] = storage.events[i]
       => tab'[i].lastSeen <= Larger(tab'[i].shown, tab'[i].focusSeen)]_vars

\* The badge ends up telling the truth: in a tab that stays connected it is the
\* number of others' messages after the marker, although messages come twice
\* (live and in the tail), the stream breaks, a reload restores an old badge and a
\* storage event moves the marker with no recount.
BadgeSettles ==
  \A i \in Tabs :
    <>[](tab[i].link = "up") =>
      <>[](tab[i].count = Cardinality({m \in DOMAIN log : Important(m) /\ Time(m) > tab[i].lastSeen}))

\* What one tab has read, every connected tab ends up showing as read: none stays
\* behind the gateway, and one stays ahead of it only with a marker that went down
\* with a socket, a failing EVAL or a storage written over, since what is dirty is
\* forgotten when it is sent (ircStore:2338-2347, lastseen.d:50-55).
MarkersConverge ==
  <>[](\A i \in setting.used : tab[i].link = "up") =>
    <>[](\A i \in setting.used :
           tab[i].lastSeen # server => tab[i].lastSeen > server /\ tab[i].lastSeen \in lost)
=============================================================================
