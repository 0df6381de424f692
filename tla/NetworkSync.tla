---------------------------- MODULE NetworkSync ----------------------------
(***************************************************************************)
(* What a tab shows of one network and of one of its channels: whether the *)
(* network is connected and whether the user is in the channel.  Three     *)
(* sources say so and they do not agree: the engine's live events, the     *)
(* snapshots of the `sync` message, which lag behind them, and what the    *)
(* user has just asked for (ircStore.svelte.ts, App.svelte).               *)
(*                                                                         *)
(* The engine, the IRC server and the snapshotter are external: they are   *)
(* modelled as the tab sees them.                                          *)
(***************************************************************************)
EXTENDS Naturals, Sequences, FiniteSets

CONSTANTS
  OrphanFlipThreshold,  \* ORPHAN_FLIP_THRESHOLD
  Settings              \* the settings considered, see Setting

\* What may happen in one behaviour, each kind a bounded number of times:
\* the user acts on the channel or on the connection, the connection drops,
\* another client or an operator changes the membership, the socket reopens.
Kinds == {"channel", "press", "drop", "other", "reopen"}

\* listed: the channel is one of the network's autoJoinChannels.
Setting == [listed : BOOLEAN, member : BOOLEAN, bounds : [Kinds -> Nat]]

ASSUME ConstantsAssumption ==
  /\ OrphanFlipThreshold \in Nat \ {0}
  /\ Settings # {} /\ Settings \subseteq Setting

VARIABLES
  listed,    \* the setting's `listed` (never changes)
  budget,    \* what may still happen, by kind
  engine,    \* the engine's connection and the server's idea of the membership
  snapshot,  \* the engine's last snapshot, which `sync` reports
  events,    \* live events on their way to the tab, in order
  cmds,      \* JOIN, PART and messages on their way to the server
  control,   \* connect and disconnect requests on their way to the engine
  tab,       \* the network in ircState and the sets beside it
  buf,       \* the channel's buffer in ircState
  left       \* auxiliary: the tab has handled a PART or KICK and nothing since

vars == <<listed, budget, engine, snapshot, events, cmds, control, tab, buf, left>>

Conn    == {"connected", "connecting", "disconnected"}
EventOf == {"001", "DISCONNECT", "JOIN", "PART", "KICK", "443", "FAIL", "404"}
CmdOf   == {"JOIN", "PART", "MSG"}

-----------------------------------------------------------------------------
(* The engine, as the tab sees it *)

\* "connecting" stands for connecting, waiting_to_retry and disconnecting.
Up == engine.phase = "connected"

Spend(kind) == /\ budget[kind] > 0
               /\ budget' = [budget EXCEPT ![kind] = @ - 1]

Emit(e) == events' = Append(events, e)
\* An own PART or KICK makes the last snapshot out of date.
OutOfDate == snapshot' = [snapshot EXCEPT !.stale = TRUE]

Dropped(e) ==
  [e EXCEPT !.phase = "disconnected", !.member = FALSE,
            !.rejoin = (e.rejoin \/ e.member)]

EngineDrops ==
  /\ engine.phase # "disconnected"
  /\ Spend("drop")
  /\ engine' = Dropped(engine)
  /\ Emit("DISCONNECT")
  /\ UNCHANGED <<listed, snapshot, cmds, control, tab, buf, left>>

EngineRetries ==
  /\ engine.phase = "disconnected" /\ ~engine.stopped
  /\ engine' = [engine EXCEPT !.phase = "connecting"]
  /\ UNCHANGED <<listed, budget, snapshot, events, cmds, control, tab, buf, left>>

EngineConnects ==
  /\ engine.phase = "connecting"
  /\ engine' = [engine EXCEPT !.phase = "connected"]
  /\ Emit("001")
  /\ UNCHANGED <<listed, budget, snapshot, cmds, control, tab, buf, left>>

\* The engine joins its channels again; the server may refuse.
EngineRejoins ==
  /\ Up /\ engine.rejoin
  /\ \E accepted \in BOOLEAN :
       /\ engine' = [engine EXCEPT !.rejoin = FALSE, !.member = accepted]
       /\ Emit(IF accepted THEN "JOIN" ELSE "FAIL")
  /\ UNCHANGED <<listed, budget, snapshot, cmds, control, tab, buf, left>>

TakeConnect ==
  /\ control # <<>> /\ Head(control) = "connect"
  /\ control' = Tail(control)
  /\ engine' = [engine EXCEPT !.stopped = FALSE,
                              !.phase = IF @ = "disconnected" THEN "connecting" ELSE @]
  /\ UNCHANGED <<listed, budget, snapshot, events, cmds, tab, buf, left>>

TakeDisconnect ==
  /\ control # <<>> /\ Head(control) = "disconnect"
  /\ control' = Tail(control)
  /\ engine' = [Dropped(engine) EXCEPT !.stopped = TRUE]
  /\ IF engine.phase = "disconnected" THEN UNCHANGED events ELSE Emit("DISCONNECT")
  /\ UNCHANGED <<listed, budget, snapshot, cmds, tab, buf, left>>

\* A JOIN of a channel one is in is ignored or answered with 443.
TakeJoin ==
  /\ Up /\ cmds # <<>> /\ Head(cmds) = "JOIN"
  /\ cmds' = Tail(cmds)
  /\ IF engine.member
     THEN /\ UNCHANGED engine
          /\ UNCHANGED events \/ Emit("443")
     ELSE \E accepted \in BOOLEAN :
            /\ engine' = [engine EXCEPT !.member = accepted, !.rejoin = FALSE,
                                        !.parted = @ /\ ~accepted]
            /\ Emit(IF accepted THEN "JOIN" ELSE "FAIL")
  /\ UNCHANGED <<listed, budget, snapshot, control, tab, buf, left>>

TakePart ==
  /\ Up /\ cmds # <<>> /\ Head(cmds) = "PART"
  /\ cmds' = Tail(cmds)
  /\ engine' = [engine EXCEPT !.member = FALSE, !.rejoin = FALSE, !.parted = TRUE]
  /\ IF engine.member THEN Emit("PART") /\ OutOfDate
                      ELSE Emit("FAIL") /\ UNCHANGED snapshot
  /\ UNCHANGED <<listed, budget, control, tab, buf, left>>

TakeMessage ==
  /\ Up /\ cmds # <<>> /\ Head(cmds) = "MSG"
  /\ cmds' = Tail(cmds)
  /\ IF engine.member THEN UNCHANGED events ELSE Emit("404")
  /\ UNCHANGED <<listed, budget, engine, snapshot, control, tab, buf, left>>

Kicked ==
  /\ Up /\ engine.member
  /\ Spend("other")
  /\ engine' = [engine EXCEPT !.member = FALSE]
  /\ Emit("KICK") /\ OutOfDate
  /\ UNCHANGED <<listed, cmds, control, tab, buf, left>>

\* Another client of the same connection joins or parts.
OtherClient ==
  /\ Spend("other")
  /\ \E c \in {"JOIN", "PART"} : cmds' = Append(cmds, c)
  /\ UNCHANGED <<listed, engine, snapshot, events, control, tab, buf, left>>

Snapshot(e) == [phase |-> e.phase, joined |-> e.member, stale |-> FALSE]

SnapshotWritten ==
  /\ snapshot' = Snapshot(engine)
  /\ UNCHANGED <<listed, budget, engine, events, cmds, control, tab, buf, left>>

\* What performStateDump says of the channel: the snapshot's membership, then
\* the configuration's lists of channels to join and channels left.
Reported ==
  IF snapshot.joined THEN "joined"
  ELSE IF listed \/ engine.parted THEN "left" ELSE "absent"

-----------------------------------------------------------------------------
(* The buffer *)

NoBuffer ==
  [exists |-> FALSE, joined |-> FALSE, inFlight |-> FALSE, pending |-> "none",
   phantom |-> FALSE, error |-> FALSE, missed |-> 0, rows |-> FALSE]

\* The buffer setActiveBuffer creates for a channel it does not know, the one a
\* sync brings, and the ones a JOIN makes.
Phantom(b)    == [NoBuffer EXCEPT !.exists = TRUE, !.phantom = TRUE, !.rows = b.rows]
Synced(b, in) == [NoBuffer EXCEPT !.exists = TRUE, !.joined = in, !.rows = b.rows]

\* The guard of a JOIN in flight, set and cleared as one.
Settled(b) == [b EXCEPT !.inFlight = FALSE, !.pending = "none"]

Optimistic(b) ==
  [b EXCEPT !.exists = TRUE, !.joined = TRUE, !.inFlight = TRUE,
            !.pending = "joined", !.error = FALSE]

\* mutant: the PART and KICK handlers leave no guard against an older snapshot.
LeftUnguarded(b) ==
  IF ~b.exists THEN b ELSE [Settled(b) EXCEPT !.joined = FALSE, !.rows = TRUE]

Left(b) ==
  IF ~b.exists THEN b
  ELSE [Settled(b) EXCEPT !.joined = FALSE, !.pending = "left", !.rows = TRUE]

JoinEcho(b) ==
  [Settled(b) EXCEPT !.exists = TRUE, !.joined = TRUE, !.phantom = FALSE,
                     !.error = FALSE, !.rows = TRUE]

AlreadyIn(b) == IF ~b.exists THEN b
                ELSE [Settled(b) EXCEPT !.joined = TRUE, !.error = FALSE]

\* mutant: a refusal is shown and nothing else.
RefusedShown(b) == IF ~b.exists THEN b ELSE [b EXCEPT !.error = TRUE]

Refused(b) == IF ~b.exists THEN b
              ELSE [Settled(b) EXCEPT !.joined = FALSE, !.error = TRUE]

CannotSend(b) ==
  IF ~b.joined THEN b ELSE [Settled(b) EXCEPT !.joined = FALSE, !.error = FALSE]

-----------------------------------------------------------------------------
(* The user *)

BeginConnectAttempt(t) ==
  [t EXCEPT !.userDisconnected = FALSE, !.connectRequested = TRUE,
            !.conn = "connecting"]

\* initiateRejoin on the sets and on the buffer.
RejoinMarks(t) == [t EXCEPT !.joinPending = TRUE, !.userParted = FALSE]

InitiateRejoin(t, allowReconnect) ==
  LET connects == allowReconnect /\ t.conn # "connected"
  IN  /\ buf' = Optimistic(buf)
      /\ tab' = IF connects THEN BeginConnectAttempt(RejoinMarks(t)) ELSE RejoinMarks(t)
      /\ cmds' = Append(cmds, "JOIN")
      /\ control' = IF connects THEN Append(control, "connect") ELSE control
      /\ left' = FALSE

\* maybeAutoJoinChannel's guards on the tab t and the buffer b.
AutoJoins(t, b) ==
  /\ ~(b.joined /\ ~b.error)
  /\ t.conn = "connected"
  /\ ~t.joinPending /\ ~t.userParted

Rejoin ==
  /\ Spend("channel")
  /\ \E allowReconnect \in BOOLEAN : InitiateRejoin(tab, allowReconnect)
  /\ UNCHANGED <<listed, engine, snapshot, events>>

\* The user comes back to the channel's buffer from another one.
Navigate ==
  /\ Spend("channel")
  /\ LET b == IF buf.exists THEN [buf EXCEPT !.phantom = FALSE] ELSE Phantom(buf)
     IN  IF AutoJoins(tab, b)
         THEN /\ buf' = Optimistic(b)
              /\ tab' = RejoinMarks(tab)
              /\ cmds' = Append(cmds, "JOIN")
              /\ left' = FALSE
         ELSE buf' = b /\ UNCHANGED <<tab, cmds, left>>
  /\ UNCHANGED <<listed, engine, snapshot, events, control>>

Part ==
  /\ Spend("channel")
  /\ cmds' = Append(cmds, "PART")
  /\ tab' = [tab EXCEPT !.userParted = TRUE]
  /\ buf' = [buf EXCEPT !.joined = FALSE]
  /\ UNCHANGED <<listed, engine, snapshot, events, control, left>>

\* A line typed into a channel one is not in asks to join it instead; any other is
\* sent, after ensureConnected has begun an attempt if the network is down.
Write ==
  /\ buf.exists
  /\ Spend("channel")
  /\ IF ~buf.joined /\ ~buf.inFlight
     THEN InitiateRejoin(tab, TRUE)
     ELSE /\ cmds' = Append(cmds, "MSG")
          /\ IF tab.conn = "connected" THEN UNCHANGED <<tab, control>>
             ELSE tab' = BeginConnectAttempt(tab) /\ control' = Append(control, "connect")
          /\ UNCHANGED <<buf, left>>
  /\ UNCHANGED <<listed, engine, snapshot, events>>

\* The header waits for the REST answer and then shows the network down; /quit
\* and the context menu only leave the mark.
Disconnect ==
  /\ ~tab.asked
  /\ Spend("press")
  /\ control' = Append(control, "disconnect")
  /\ \E fromHeader \in {tab.conn # "disconnected", FALSE} :
       tab' = [tab EXCEPT !.userDisconnected = TRUE, !.asked = fromHeader]
  /\ UNCHANGED <<listed, engine, snapshot, events, cmds, buf, left>>

DisconnectAnswered ==
  /\ tab.asked
  /\ tab' = [tab EXCEPT !.asked = FALSE, !.conn = "disconnected"]
  /\ UNCHANGED <<listed, budget, engine, snapshot, events, cmds, control, buf, left>>

\* /reconnect, the banner and the header begin an attempt; the server log's
\* context menu only sends the request.
Reconnect ==
  /\ Spend("press")
  /\ control' = Append(control, "connect")
  /\ \/ tab' = BeginConnectAttempt(tab)
     \/ tab.conn = "disconnected" /\ UNCHANGED tab
  /\ UNCHANGED <<listed, engine, snapshot, events, cmds, buf, left>>

\* CONNECT_REQUEST_GRACE_MS passes.
GraceExpires ==
  /\ tab.connectRequested
  /\ tab' = [tab EXCEPT !.connectRequested = FALSE]
  /\ UNCHANGED <<listed, budget, engine, snapshot, events, cmds, control, buf, left>>

-----------------------------------------------------------------------------
(* Live events *)

Connected(t) == [t EXCEPT !.conn = "connected", !.connectRequested = FALSE]

\* handleConnect, then processEvent tries the active channel again; the user
\* may be looking at this channel or not.
HandleWelcome ==
  /\ events # <<>> /\ Head(events) = "001"
  /\ events' = Tail(events)
  /\ \E active \in {buf.exists, FALSE} :
       IF active /\ AutoJoins(Connected(tab), buf)
       THEN InitiateRejoin(Connected(tab), FALSE)
       ELSE tab' = Connected(tab) /\ UNCHANGED <<buf, cmds, control, left>>
  /\ UNCHANGED <<listed, budget, engine, snapshot>>

HandleDisconnect ==
  /\ events # <<>> /\ Head(events) = "DISCONNECT"
  /\ events' = Tail(events)
  /\ tab' = [tab EXCEPT !.conn = "disconnected", !.connectRequested = FALSE]
  /\ UNCHANGED <<listed, budget, engine, snapshot, cmds, control, buf, left>>

HandleJoin ==
  /\ events # <<>> /\ Head(events) = "JOIN"
  /\ events' = Tail(events)
  /\ buf' = JoinEcho(buf)
  /\ tab' = [tab EXCEPT !.joinPending = FALSE, !.userParted = FALSE]
  /\ left' = FALSE
  /\ UNCHANGED <<listed, budget, engine, snapshot, cmds, control>>

HandlePart ==
  /\ events # <<>> /\ Head(events) = "PART"
  /\ events' = Tail(events)
  /\ buf' = Left(buf)
  /\ tab' = IF buf.exists THEN [tab EXCEPT !.joinPending = FALSE, !.userParted = TRUE]
                          ELSE tab
  /\ left' = buf.exists
  /\ UNCHANGED <<listed, budget, engine, snapshot, cmds, control>>

HandleKick ==
  /\ events # <<>> /\ Head(events) = "KICK"
  /\ events' = Tail(events)
  /\ buf' = Left(buf)
  /\ tab' = IF buf.exists THEN [tab EXCEPT !.joinPending = FALSE] ELSE tab
  /\ left' = buf.exists
  /\ UNCHANGED <<listed, budget, engine, snapshot, cmds, control>>

\* 443, the failure numerics and 404.
HandleNumeric ==
  /\ events # <<>> /\ Head(events) \in {"443", "FAIL", "404"}
  /\ LET e == Head(events)
     IN  /\ buf' = CASE e = "443"  -> AlreadyIn(buf)
                     [] e = "FAIL" -> Refused(buf)
                     [] e = "404"  -> CannotSend(buf)
         /\ tab' = [tab EXCEPT !.joinPending =
                      @ /\ (~buf.exists \/ (e = "404" /\ ~buf.joined))]
         /\ left' = (left /\ e = "404" /\ ~buf.joined)
  /\ events' = Tail(events)
  /\ UNCHANGED <<listed, budget, engine, snapshot, cmds, control>>

-----------------------------------------------------------------------------
(* The sync message *)

\* mutant: a snapshot does not end an attempt, only 001 does.
ConnectionWaits(t, phase) ==
  LET requested == t.connectRequested /\ phase = "disconnected"
      tooOld    == t.conn = "connecting" /\ (requested \/ phase = "connected")
  IN  [t EXCEPT !.connectRequested = requested,
                !.conn = IF /\ phase # @ /\ @ # "connected" /\ ~tooOld
                            /\ (t.userDisconnected => phase = "disconnected")
                         THEN phase ELSE @]

\* updateNetworkFromSync on the connection; `phase` is the snapshot's.
ConnectionAfter(t, phase) ==
  LET requested == t.connectRequested /\ phase = "disconnected"
      isNew   == phase # t.conn /\ ~(t.conn = "connected" /\ phase # "connected")
      tooOld  == requested /\ t.conn = "connecting"
      allowed == t.userDisconnected => phase = "disconnected"
  IN  [t EXCEPT !.connectRequested = requested,
                !.conn = IF isNew /\ ~tooOld /\ allowed THEN phase ELSE @]

\* mutant: a snapshot can take a membership away but never gives one.
AdoptLeavesOnly(b, in) ==
  IF ~b.exists THEN Synced(b, FALSE)
  ELSE IF b.inFlight /\ in THEN [Settled(b) EXCEPT !.phantom = FALSE, !.missed = 0]
  ELSE IF b.pending = "none" THEN [b EXCEPT !.joined = @ /\ in, !.missed = 0]
  ELSE [b EXCEPT !.missed = 0]

\* mutant: a snapshot that confirms the JOIN does not end it.
AdoptKeepsChip(b, in) ==
  IF ~b.exists THEN Synced(b, in)
  ELSE IF b.inFlight \/ b.pending = "left" THEN b
  ELSE [b EXCEPT !.joined = in, !.missed = 0]

\* ... on a channel the message names.
Adopt(b, in) ==
  LET reported == [b EXCEPT !.missed = 0, !.phantom = FALSE]
      trusted  == b.phantom \/ (b.pending = "none" /\ ~b.inFlight)
  IN  IF ~b.exists THEN Synced(b, in)
      ELSE IF b.inFlight /\ in THEN [Settled(reported) EXCEPT !.joined = TRUE]
      ELSE IF trusted THEN [reported EXCEPT !.joined = in]
      ELSE IF b.pending = "left" /\ ~in THEN [reported EXCEPT !.pending = "none"]
      ELSE reported

\* mutant: the phantom loop hides the buffer and forgets to empty it.
OrphanHidden(b) ==
  IF ~b.exists \/ b.inFlight \/ ~b.phantom THEN b ELSE [b EXCEPT !.exists = FALSE]

\* ... on a channel it does not name: the orphan loop, then the phantom loop; both
\* leave a buffer with a JOIN in flight as it is.
Orphan(b) ==
  IF ~b.exists \/ b.inFlight THEN b
  ELSE IF b.phantom THEN [NoBuffer EXCEPT !.rows = b.rows]
  ELSE LET counted == IF b.joined /\ b.missed < OrphanFlipThreshold
                      THEN b.missed + 1 ELSE b.missed
       IN IF b.joined /\ ~b.rows /\ counted = OrphanFlipThreshold
          THEN [b EXCEPT !.joined = FALSE, !.pending = "none", !.missed = counted]
          ELSE [b EXCEPT !.missed = counted]

SyncArrives ==
  /\ tab' = ConnectionAfter(tab, snapshot.phase)
  /\ buf' = IF Reported = "absent" THEN Orphan(buf) ELSE Adopt(buf, Reported = "joined")
  /\ UNCHANGED <<listed, budget, engine, snapshot, events, cmds, control, left>>

\* The tab's socket reopens: resetPendingState.  The live events it missed are
\* replayed in order, so `events` stays as it is.
WsReopens ==
  /\ Spend("reopen")
  /\ tab' = [tab EXCEPT !.joinPending = FALSE]
  /\ buf' = Settled(buf)
  /\ left' = FALSE
  /\ UNCHANGED <<listed, engine, snapshot, events, cmds, control>>

-----------------------------------------------------------------------------
(* The specification *)

Init ==
  \E s \in Settings :
    /\ listed = s.listed /\ budget = s.bounds
    /\ engine = [phase |-> "connected", stopped |-> FALSE, member |-> s.member,
                 parted |-> FALSE, rejoin |-> FALSE]
    /\ snapshot = Snapshot(engine)
    /\ events = <<>> /\ cmds = <<>> /\ control = <<>>
    /\ tab = [conn |-> "connected", userDisconnected |-> FALSE,
              connectRequested |-> FALSE, asked |-> FALSE,
              joinPending |-> FALSE, userParted |-> FALSE]
    /\ \E rows \in BOOLEAN :
         buf = IF s.listed \/ s.member
               THEN Synced([NoBuffer EXCEPT !.rows = rows], s.member) ELSE NoBuffer
    /\ left = FALSE

Engine == \/ EngineDrops \/ EngineRetries \/ EngineConnects \/ EngineRejoins
          \/ TakeConnect \/ TakeDisconnect \/ TakeJoin \/ TakePart \/ TakeMessage
          \/ Kicked \/ OtherClient \/ SnapshotWritten
User == \/ Rejoin \/ Navigate \/ Part \/ Write \/ Disconnect \/ Reconnect
Handle == \/ HandleWelcome \/ HandleDisconnect \/ HandleJoin \/ HandlePart
          \/ HandleKick \/ HandleNumeric
Tab == Handle \/ SyncArrives \/ DisconnectAnswered \/ GraceExpires \/ WsReopens

Next == Engine \/ User \/ Tab

\* The engine serves its queues and keeps trying to connect, the snapshotter
\* and the ten-second sync poll keep running, events and answers arrive.  No
\* user acts, nothing drops, no socket reopens by fairness.
Fairness ==
  /\ WF_vars(EngineRetries) /\ WF_vars(EngineConnects) /\ WF_vars(EngineRejoins)
  /\ WF_vars(TakeConnect) /\ WF_vars(TakeDisconnect)
  /\ WF_vars(TakeJoin) /\ WF_vars(TakePart) /\ WF_vars(TakeMessage)
  /\ WF_vars(SnapshotWritten) /\ WF_vars(SyncArrives)
  /\ WF_vars(Handle) /\ WF_vars(DisconnectAnswered) /\ WF_vars(GraceExpires)

Spec == Init /\ [][Next]_vars /\ Fairness

-----------------------------------------------------------------------------
(* Properties *)

\* The variables keep their types, and a buffer that is not there is empty.
TypeOK ==
  /\ listed \in BOOLEAN /\ left \in BOOLEAN
  /\ budget \in [Kinds -> Nat]
  /\ engine \in [phase : Conn, stopped : BOOLEAN, member : BOOLEAN,
                 parted : BOOLEAN, rejoin : BOOLEAN]
  /\ snapshot \in [phase : Conn, joined : BOOLEAN, stale : BOOLEAN]
  /\ events \in Seq(EventOf) /\ cmds \in Seq(CmdOf)
  /\ control \in Seq({"connect", "disconnect"})
  /\ tab \in [conn : Conn, userDisconnected : BOOLEAN, connectRequested : BOOLEAN,
              asked : BOOLEAN, joinPending : BOOLEAN, userParted : BOOLEAN]
  /\ buf \in [exists : BOOLEAN, joined : BOOLEAN, inFlight : BOOLEAN,
              pending : {"none", "joined", "left"}, phantom : BOOLEAN,
              error : BOOLEAN, missed : 0..OrphanFlipThreshold, rows : BOOLEAN]
  /\ ~buf.exists => buf = [NoBuffer EXCEPT !.rows = buf.rows]

\* Once the tab has handled a PART or a KICK, a snapshot written before it does
\* not put the user back into the channel, however many syncs have confirmed
\* the departure in between (pendingIsJoined).
PartSurvivesSync ==
  [][(/\ SyncArrives /\ ~buf.joined /\ left /\ snapshot.stale
      /\ \A k \in DOMAIN events : events[k] # "JOIN") => ~buf'.joined]_vars

\* If the engine's connection stays up and no Disconnect of the user is marked,
\* the tab ends up showing it connected, whatever requests, answers and old
\* snapshots came before.
UpShown == <>[](Up /\ ~tab.userDisconnected) => <>[](tab.conn = "connected")

\* If the user stays in the channel, the tab ends up showing so.
MembershipShown == <>[](Up /\ engine.member) => <>[]buf.joined

\* If the user stays out of a channel of the network's list, the tab ends up
\* showing so: neither the guards of a JOIN in flight nor an old snapshot keep
\* the user in.
LeavingShown ==
  listed => (<>[](Up /\ ~engine.member /\ ~engine.rejoin) => <>[]~buf.joined)

\* The Joining chip goes away: the echo, a numeric or a sync ends it while the
\* connection is up.
ChipResolves == <>[]Up => []<>~buf.inFlight

=============================================================================
