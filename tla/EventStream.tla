---------------------------- MODULE EventStream ----------------------------
(***************************************************************************)
(* Delivery of one user's IRC events from the processes that publish them  *)
(* to the browser tabs that show them.                                     *)
(*                                                                         *)
(*   publisher --PUBLISH--> irc:events:<uid> --> listener --> outbound     *)
(*        \                                                  queue --> tab *)
(*         --LPUSH,LTRIM--> irc:stream:<uid> --> replay  ----^      ^      *)
(*                                      \--> GET /api/events (XHR) --/      *)
(*                                                                         *)
(* Publishers are the engines (outside this repository) and the bouncer,   *)
(* whose emitStatusEvent writes "exactly like an engine event".  A tab     *)
(* resumes with ?since=<highest eid handled>; the gateway replays the      *)
(* Redis list and only then, on another thread, subscribes.                *)
(*                                                                         *)
(* Every connection gets a session of its own, so the gateway's state is   *)
(* indexed by tab and lives from Accept to Disconnect; how sessions are    *)
(* made is not modelled here.  A gateway crash is a Disconnect of          *)
(* every tab.  Frames without an eid (header, state dump, preference       *)
(* updates) are left out.                                                  *)
(***************************************************************************)
EXTENDS Integers, Sequences

CONSTANTS
    Tabs,          \* browser tabs of one user
    Producers,     \* processes that publish events for that user
    MaxEid,        \* bound on irc:global_eid
    StreamCap,     \* length LTRIM keeps (1000 in the code)
    QueueCap,      \* capacity of a session's outbound queue (65536)
    AckCap,        \* bound on ack frames in flight
    XhrFallback,   \* featureFlags.xhrFallback.enabled
    RedisFails     \* whether Redis calls may throw

ASSUME EventStreamAssumption ==
    /\ MaxEid \in Nat
    /\ StreamCap \in Nat \ {0}
    /\ QueueCap \in Nat \ {0}
    /\ AckCap \in Nat
    /\ XhrFallback \in BOOLEAN
    /\ RedisFails \in BOOLEAN

VARIABLES
    globalEid,     \* irc:global_eid
    prod,          \* prod[p]: where publisher p is in emitStatusEvent, and its eid
    stream,        \* irc:stream:<uid>, newest first
    phase,         \* phase[t]: where the handler of t's WebSocket is
    since,         \* since[t]: the ?since= of t's current connection
    todo,          \* todo[t]: what replayMissedEvents has still to walk
    subscribed,    \* subscribed[t]: t's listener is subscribed
    inbox,         \* inbox[t]: pub/sub messages t's listener has not handled
    outbound,      \* outbound[t]: the session's outbound queue
    lastDelivered, \* lastDelivered[t]: the session's lastDeliveredEid
    sock,          \* sock[t]: readyState of the tab's socket
    wire,          \* wire[t]: frames sent to the tab and not handled
    acks,          \* acks[t]: ack commands sent to the gateway and not read
    maxEid,        \* maxEid[t]: maxEidTracker of the tab
    poll,          \* poll[t]: state of the XHR fallback
    asked,         \* asked[t]: the ?since= of the poll under way
    reply,         \* reply[t]: the answer of that poll, not walked yet
    published,     \* history: eids PUBLISHed
    seen,          \* history: eids the tab handled, in order
    missed         \* history: eids the pipeline let go of while t had not handled them

streamVars == <<globalEid, prod, stream, published>>
gatewayVars == <<phase, todo, subscribed, inbox, outbound, lastDelivered>>
socketVars == <<sock, since, wire, acks>>
xhrVars == <<poll, asked, reply>>
vars == <<streamVars, gatewayVars, socketVars, maxEid, xhrVars, seen, missed>>

Eids == 1..MaxEid
Elems(s) == {s[i] : i \in 1..Len(s)}
MaxOf(a, b) == IF a >= b THEN a ELSE b

OnlyNewest(s) == IF s = <<>> THEN s ELSE <<s[1]>>                 \* mutant
(* LRANGE 0 -1 of a list that is newest first, walked oldest first. *)
OldestFirst(s) == [i \in 1..Len(s) |-> s[Len(s) + 1 - i]]

(* LTRIM 0 StreamCap-1 *)
Kept(s) == IF Len(s) > StreamCap THEN SubSeq(s, 1, StreamCap) ELSE s

(***************************************************************************)
(* The highest of the two cursors of the session in the map.  The ?since=  *)
(* value and what replay makes of it are set on the handler's own copy of  *)
(* the UserSession struct, so the sinceEid the listener reads stays 0.     *)
(***************************************************************************)
FilterCursor(t) == lastDelivered[t]

(* The rows a replay sends: those above the connection's ?since=. *)
WantedInclusive(t, e) == e >= since[t]                            \* mutant
Wanted(t, e) == e > since[t]

(* The drainer's turn: the session is in the map and its queue not empty.  *)
FullBatchReady(t) == phase[t] = "open" /\ Len(outbound[t]) > 1    \* mutant
BatchReady(t) == phase[t] = "open" /\ outbound[t] # <<>>

(* What connectWebSocket puts into ?since=, and the ack timer into an ack. *)
ResumeFromStart(t) == 0                                           \* mutant
ResumeFrom(t) == maxEid[t]
AckArrived(t) == IF wire[t] = <<>> THEN maxEid[t]                 \* mutant
                 ELSE MaxOf(maxEid[t], wire[t][Len(wire[t])])
AckValue(t) == maxEid[t]

-----------------------------------------------------------------------------
Init ==
    /\ globalEid = 0
    /\ prod = [p \in Producers |-> [at |-> "idle", eid |-> 0]]
    /\ stream = <<>>
    /\ published = {}
    /\ phase = [t \in Tabs |-> "none"]
    /\ since = [t \in Tabs |-> 0]
    /\ todo = [t \in Tabs |-> <<>>]
    /\ subscribed = [t \in Tabs |-> FALSE]
    /\ inbox = [t \in Tabs |-> <<>>]
    /\ outbound = [t \in Tabs |-> <<>>]
    /\ lastDelivered = [t \in Tabs |-> 0]
    /\ sock = [t \in Tabs |-> "closed"]
    /\ wire = [t \in Tabs |-> <<>>]
    /\ acks = [t \in Tabs |-> <<>>]
    /\ maxEid = [t \in Tabs |-> 0]
    /\ poll = [t \in Tabs |-> "off"]
    /\ asked = [t \in Tabs |-> 0]
    /\ reply = [t \in Tabs |-> <<>>]
    /\ seen = [t \in Tabs |-> <<>>]
    /\ missed = [t \in Tabs |-> {}]

-----------------------------------------------------------------------------
(* Publishers: INCR, then PUBLISH, then LPUSH+LTRIM, three Redis calls with *)
(* a scrollback write and a Mongo write between the first two.             *)

TakeEid(p) ==
    /\ prod[p].at = "idle"
    /\ globalEid < MaxEid
    /\ globalEid' = globalEid + 1
    /\ prod' = [prod EXCEPT ![p] = [at |-> "numbered", eid |-> globalEid + 1]]
    /\ UNCHANGED <<stream, published, gatewayVars, socketVars, maxEid, xhrVars, seen, missed>>

(* A tab whose list was already read and whose listener is not subscribed  *)
(* yet hears of this event from neither.                                   *)
Unreached(t) == phase[t] \in {"replay", "open"} /\ ~subscribed[t]

Publish(p) ==
    /\ prod[p].at = "numbered"
    /\ prod' = [prod EXCEPT ![p].at = "published"]
    /\ published' = published \cup {prod[p].eid}
    /\ inbox' = [t \in Tabs |-> IF subscribed[t] THEN Append(inbox[t], prod[p].eid)
                                               ELSE inbox[t]]
    /\ missed' = [t \in Tabs |-> IF Unreached(t) THEN missed[t] \cup {prod[p].eid}
                                                 ELSE missed[t]]
    /\ UNCHANGED <<globalEid, stream, phase, todo, subscribed, outbound, lastDelivered,
                   socketVars, maxEid, xhrVars, seen>>

(* LPUSH and LTRIM; what the trim evicts no replay returns. *)
PushStream(p) ==
    LET pushed == <<prod[p].eid>> \o stream
    IN /\ prod[p].at = "published"
       /\ prod' = [prod EXCEPT ![p] = [at |-> "idle", eid |-> 0]]
       /\ stream' = Kept(pushed)
       /\ missed' = [t \in Tabs |-> missed[t] \cup (Elems(pushed) \ Elems(Kept(pushed)))]
       /\ UNCHANGED <<globalEid, published, gatewayVars, socketVars, maxEid, xhrVars, seen>>

(* An exception in any of the calls ends emitStatusEvent where it stands.  *)
AbandonEvent(p) ==
    /\ RedisFails
    /\ prod[p].at # "idle"
    /\ prod' = [prod EXCEPT ![p] = [at |-> "idle", eid |-> 0]]
    /\ missed' = [t \in Tabs |-> IF prod[p].at = "published"
                                THEN missed[t] \cup {prod[p].eid} ELSE missed[t]]
    /\ UNCHANGED <<globalEid, stream, published, gatewayVars, socketVars, maxEid, xhrVars, seen>>

-----------------------------------------------------------------------------
(* Gateway: handleWebSocket, the listener on g_ircPool and the drainer.    *)

(* sendToSession: a full queue skips the frame. *)
Enqueue(t, e) ==
    IF Len(outbound[t]) < QueueCap
    THEN /\ outbound' = [outbound EXCEPT ![t] = Append(@, e)]
         /\ UNCHANGED missed
    ELSE /\ missed' = [missed EXCEPT ![t] = @ \cup {e}]
         /\ UNCHANGED outbound

Accept(t) ==
    /\ sock[t] = "connecting"
    /\ phase[t] = "none"
    /\ phase' = [phase EXCEPT ![t] = "boot"]
    /\ UNCHANGED <<streamVars, todo, subscribed, inbox, outbound, lastDelivered,
                   socketVars, maxEid, xhrVars, seen, missed>>

ReadStream(t) ==
    /\ phase[t] = "boot"
    /\ phase' = [phase EXCEPT ![t] = "replay"]
    /\ todo' = [todo EXCEPT ![t] = OldestFirst(stream)]
    /\ missed' = [missed EXCEPT ![t] = @ \cup
                     {prod[p].eid : p \in {q \in Producers : prod[q].at = "published"}}]
    /\ UNCHANGED <<streamVars, subscribed, inbox, outbound, lastDelivered,
                   socketVars, maxEid, xhrVars, seen>>

(* replayMissedEvents catches every exception: the connection goes on      *)
(* without a replay.                                                       *)
ReadStreamFails(t) ==
    /\ RedisFails
    /\ phase[t] = "boot"
    /\ phase' = [phase EXCEPT ![t] = "open"]
    /\ missed' = [missed EXCEPT ![t] = @ \cup published]
    /\ UNCHANGED <<streamVars, todo, subscribed, inbox, outbound, lastDelivered,
                   socketVars, maxEid, xhrVars, seen>>

ReplayOne(t) ==
    /\ phase[t] = "replay"
    /\ todo[t] # <<>>
    /\ todo' = [todo EXCEPT ![t] = Tail(@)]
    /\ IF Wanted(t, Head(todo[t]))
       THEN Enqueue(t, Head(todo[t]))
       ELSE UNCHANGED <<outbound, missed>>
    /\ UNCHANGED <<streamVars, phase, subscribed, inbox, lastDelivered,
                   socketVars, maxEid, xhrVars, seen>>

(* The handler starts the listener and the drainer and reads commands.     *)
ReplayDone(t) ==
    /\ phase[t] = "replay"
    /\ todo[t] = <<>>
    /\ phase' = [phase EXCEPT ![t] = "open"]
    /\ UNCHANGED <<streamVars, todo, subscribed, inbox, outbound, lastDelivered,
                   socketVars, maxEid, xhrVars, seen, missed>>

Subscribe(t) ==
    /\ phase[t] = "open"
    /\ ~subscribed[t]
    /\ subscribed' = [subscribed EXCEPT ![t] = TRUE]
    /\ UNCHANGED <<streamVars, phase, todo, inbox, outbound, lastDelivered,
                   socketVars, maxEid, xhrVars, seen, missed>>

(* The listener callback of ircPoolDispatch. *)
Listen(t) ==
    /\ inbox[t] # <<>>
    /\ inbox' = [inbox EXCEPT ![t] = Tail(@)]
    /\ IF Head(inbox[t]) > FilterCursor(t)
       THEN Enqueue(t, Head(inbox[t]))
       ELSE UNCHANGED <<outbound, missed>>
    /\ UNCHANGED <<streamVars, phase, todo, subscribed, lastDelivered,
                   socketVars, maxEid, xhrVars, seen>>

(* drainOutboundLoop.  A batch is a run of these steps (OutboundDrain has  *)
(* the batches and the waiting).                                           *)
Drain(t) ==
    /\ BatchReady(t)
    /\ outbound' = [outbound EXCEPT ![t] = Tail(@)]
    /\ wire' = [wire EXCEPT ![t] = Append(@, Head(outbound[t]))]
    /\ UNCHANGED <<streamVars, phase, todo, subscribed, inbox, lastDelivered,
                   sock, since, acks, maxEid, xhrVars, seen, missed>>

(* The ack command: acknowledgeEid only moves forward. *)
ReadAck(t) ==
    /\ phase[t] = "open"
    /\ acks[t] # <<>>
    /\ acks' = [acks EXCEPT ![t] = Tail(@)]
    /\ lastDelivered' = [lastDelivered EXCEPT ![t] = MaxOf(@, Head(acks[t]))]
    /\ UNCHANGED <<streamVars, phase, todo, subscribed, inbox, outbound,
                   sock, since, wire, maxEid, xhrVars, seen, missed>>

-----------------------------------------------------------------------------
(* The tab.  JavaScript runs to completion: while the loop over a poll's    *)
(* answer runs, no other event of the tab is handled.                      *)

TabFree(t) == poll[t] # "handling"

(* processIrcEvent: setMaxEid, then the rest. *)
HandleEvent(t, e) ==
    /\ maxEid' = [maxEid EXCEPT ![t] = MaxOf(@, e)]
    /\ seen' = [seen EXCEPT ![t] = Append(@, e)]

(* connectWebSocket: ?since= is fixed when the socket is created. *)
Connect(t) ==
    /\ TabFree(t)
    /\ sock[t] = "closed"
    /\ sock' = [sock EXCEPT ![t] = "connecting"]
    /\ since' = [since EXCEPT ![t] = ResumeFrom(t)]
    /\ UNCHANGED <<streamVars, gatewayVars, wire, acks, maxEid, xhrVars, seen, missed>>

(* The open event stops the XHR fallback. *)
Opened(t) ==
    /\ TabFree(t)
    /\ sock[t] = "connecting"
    /\ phase[t] # "none"
    /\ sock' = [sock EXCEPT ![t] = "open"]
    /\ poll' = [poll EXCEPT ![t] = "off"]
    /\ reply' = [reply EXCEPT ![t] = <<>>]
    /\ UNCHANGED <<streamVars, gatewayVars, since, wire, acks, maxEid, asked, seen, missed>>

Receive(t) ==
    /\ TabFree(t)
    /\ sock[t] = "open"
    /\ wire[t] # <<>>
    /\ wire' = [wire EXCEPT ![t] = Tail(@)]
    /\ HandleEvent(t, Head(wire[t]))
    /\ UNCHANGED <<streamVars, gatewayVars, sock, since, acks, xhrVars, missed>>

(* The 5 s ack timer. *)
SendAck(t) ==
    /\ TabFree(t)
    /\ sock[t] = "open"
    /\ Len(acks[t]) < AckCap
    /\ acks' = [acks EXCEPT ![t] = Append(@, AckValue(t))]
    /\ UNCHANGED <<streamVars, gatewayVars, sock, since, wire, maxEid, xhrVars, seen, missed>>

(* The connection ends, on either side: the tab's close event (which       *)
(* starts the XHR fallback if it is enabled and not running) and the       *)
(* gateway's finally block, which destroys the session.                    *)
Disconnect(t) ==
    /\ TabFree(t)
    /\ sock[t] # "closed"
    /\ sock' = [sock EXCEPT ![t] = "closed"]
    /\ wire' = [wire EXCEPT ![t] = <<>>]
    /\ acks' = [acks EXCEPT ![t] = <<>>]
    /\ phase' = [phase EXCEPT ![t] = "none"]
    /\ todo' = [todo EXCEPT ![t] = <<>>]
    /\ subscribed' = [subscribed EXCEPT ![t] = FALSE]
    /\ inbox' = [inbox EXCEPT ![t] = <<>>]
    /\ outbound' = [outbound EXCEPT ![t] = <<>>]
    /\ lastDelivered' = [lastDelivered EXCEPT ![t] = 0]
    /\ poll' = [poll EXCEPT ![t] = IF XhrFallback /\ @ = "off" THEN "idle" ELSE @]
    /\ UNCHANGED <<streamVars, since, maxEid, asked, reply, seen, missed>>

(* GET /api/events?since=maxEid *)
AskEvents(t) ==
    /\ poll[t] = "idle"
    /\ poll' = [poll EXCEPT ![t] = "asked"]
    /\ asked' = [asked EXCEPT ![t] = maxEid[t]]
    /\ UNCHANGED <<streamVars, gatewayVars, socketVars, maxEid, reply, seen, missed>>

(* serveEvents reads the list; the rows above ?since= are picked out in    *)
(* HandleReply.                                                            *)
ServeEvents(t) ==
    /\ poll[t] = "asked"
    /\ poll' = [poll EXCEPT ![t] = "answered"]
    /\ reply' = [reply EXCEPT ![t] = OldestFirst(stream)]
    /\ UNCHANGED <<streamVars, gatewayVars, socketVars, maxEid, asked, seen, missed>>

(* A failed fetch is retried later. *)
PollFails(t) ==
    /\ poll[t] \in {"asked", "answered"}
    /\ poll' = [poll EXCEPT ![t] = "idle"]
    /\ reply' = [reply EXCEPT ![t] = <<>>]
    /\ UNCHANGED <<streamVars, gatewayVars, socketVars, maxEid, asked, seen, missed>>

TakeReply(t) ==
    /\ poll[t] = "answered"
    /\ poll' = [poll EXCEPT ![t] = "handling"]
    /\ UNCHANGED <<streamVars, gatewayVars, socketVars, maxEid, asked, reply, seen, missed>>

HandleReply(t) ==
    /\ poll[t] = "handling"
    /\ IF reply[t] = <<>>
       THEN /\ poll' = [poll EXCEPT ![t] = "idle"]
            /\ UNCHANGED <<reply, maxEid, seen>>
       ELSE /\ reply' = [reply EXCEPT ![t] = Tail(@)]
            /\ IF Head(reply[t]) > asked[t]
               THEN HandleEvent(t, Head(reply[t]))
               ELSE UNCHANGED <<maxEid, seen>>
            /\ UNCHANGED poll
    /\ UNCHANGED <<streamVars, gatewayVars, socketVars, asked, missed>>

-----------------------------------------------------------------------------
Publisher(p) == TakeEid(p) \/ Publish(p) \/ PushStream(p) \/ AbandonEvent(p)

Gateway(t) ==
    \/ Accept(t) \/ ReadStream(t) \/ ReadStreamFails(t) \/ ReplayOne(t) \/ ReplayDone(t)
    \/ Subscribe(t) \/ Listen(t) \/ Drain(t) \/ ReadAck(t)

Tab(t) ==
    \/ Connect(t) \/ Opened(t) \/ Receive(t) \/ SendAck(t) \/ Disconnect(t)
    \/ AskEvents(t) \/ ServeEvents(t) \/ PollFails(t) \/ TakeReply(t) \/ HandleReply(t)

Next ==
    \/ \E p \in Producers : Publisher(p)
    \/ \E t \in Tabs : Gateway(t) \/ Tab(t)

Spec == Init /\ [][Next]_vars

(***************************************************************************)
(* The drainer and the listener are event loops that run while a session   *)
(* exists, and the browser runs its handlers: none of them can stop while  *)
(* it has something to do.  Nothing makes a publisher publish, a user keep *)
(* the page open, or the network stay up.                                  *)
(***************************************************************************)
Fairness ==
    \A t \in Tabs : /\ SF_vars(Opened(t))
                    /\ WF_vars(HandleReply(t))
                    /\ WF_vars(Listen(t))
                    /\ WF_vars(Drain(t))
                    /\ WF_vars(Receive(t))

FairSpec == Spec /\ Fairness

-----------------------------------------------------------------------------
(* Properties.                                                             *)

StreamTypes ==
    /\ globalEid \in 0..MaxEid
    /\ prod \in [Producers -> [at : {"idle"}, eid : {0}]
                              \cup [at : {"numbered", "published"}, eid : Eids]]
    /\ stream \in Seq(Eids) /\ Len(stream) <= StreamCap
    /\ published \subseteq Eids

GatewayTypes ==
    /\ phase \in [Tabs -> {"none", "boot", "replay", "open"}]
    /\ todo \in [Tabs -> Seq(Eids)]
    /\ subscribed \in [Tabs -> BOOLEAN]
    /\ inbox \in [Tabs -> Seq(Eids)]
    /\ outbound \in [Tabs -> Seq(Eids)]
    /\ \A t \in Tabs : Len(outbound[t]) <= QueueCap
    /\ lastDelivered \in [Tabs -> 0..MaxEid]

TabTypes ==
    /\ sock \in [Tabs -> {"closed", "connecting", "open"}]
    /\ since \in [Tabs -> 0..MaxEid]
    /\ wire \in [Tabs -> Seq(Eids)]
    /\ acks \in [Tabs -> Seq(0..MaxEid)]
    /\ maxEid \in [Tabs -> 0..MaxEid]

XhrTypes ==
    /\ poll \in [Tabs -> {"off", "idle", "asked", "answered", "handling"}]
    /\ asked \in [Tabs -> 0..MaxEid]
    /\ reply \in [Tabs -> Seq(Eids)]

HistoryTypes ==
    /\ seen \in [Tabs -> Seq(Eids)]
    /\ missed \in [Tabs -> SUBSET Eids]

(* Every variable keeps its type, and the Redis list and the outbound       *)
(* queues keep within their capacities (LTRIM, sendToSession).             *)
TypeOK == StreamTypes /\ GatewayTypes /\ TabTypes /\ XhrTypes /\ HistoryTypes

(* The gateway never believes a tab has more than it handled: the cursor   *)
(* the live filter uses, and every ack on its way, is at most the tab's    *)
(* maxEid (acknowledgeEid and the ack timer).                              *)
AckNeverAhead ==
    \A t \in Tabs : /\ lastDelivered[t] <= maxEid[t]
                    /\ \A a \in Elems(acks[t]) : a <= maxEid[t]

(* A tab handles no event twice, whatever connections it went through      *)
(* ("no duplicates after resume", wsConnection.svelte.ts).  Replay, live   *)
(* delivery and reconnection all have to agree for this.                   *)
AtMostOnce ==
    \A t \in Tabs : \A i, j \in 1..Len(seen[t]) : i # j => seen[t][i] # seen[t][j]

(* A hole below maxEid that nothing accounts for: resuming from maxEid     *)
(* brings back everything except what the pipeline let go of by itself     *)
(* (trimmed, skipped by a full queue, never stored, or published between   *)
(* the replay's LRANGE and the listener's SUBSCRIBE).  In particular what  *)
(* was queued or on the wire when a connection broke is never lost.        *)
HolesExplained ==
    \A t \in Tabs : \A e \in published :
        e <= maxEid[t] => e \in Elems(seen[t]) \cup missed[t]

(* wsConnection.svelte.ts on resume: the server streams every event above  *)
(* maxEid, which "guarantees no gaps".  An event that is stored, unseen    *)
(* and at or below maxEid is one no resume will ever ask for.              *)
NoGapsAfterResume ==
    \A t \in Tabs : \A e \in Elems(stream) : e <= maxEid[t] => e \in Elems(seen[t])

(* An event a subscribed listener has received reaches the tab, unless the *)
(* connection ends first or a full queue skips it: neither the listener,   *)
(* the queue nor the drainer may sit on it.                                *)
LiveEventsArrive ==
    \A t \in Tabs, e \in Eids :
        (e \in Elems(inbox[t])) ~>
            (e \in Elems(seen[t]) \/ e \in missed[t] \/ sock[t] = "closed")

(* The pipeline implements the at-most-once feed of EventFeed: a tab only   *)
(* handles what a publisher published, and each event once.                *)
Feed == INSTANCE EventFeed WITH got <- seen
FeedSpec == Feed!Spec
=============================================================================
