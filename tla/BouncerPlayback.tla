-------------------------- MODULE BouncerPlayback --------------------------
(***************************************************************************)
(* What the bouncer plays back to an IRC client that comes and goes: the   *)
(* connections of one client name to one network (bnc/client.d).  A        *)
(* connection subscribes to the user's channel, replays from MongoDB what  *)
(* lies above the cursor stored for the client, hands over what was parked *)
(* meanwhile and then forwards live events; whatever is at or below its    *)
(* cursor counts as delivered.                                             *)
(*                                                                         *)
(* An event is its eid.  msg[e] is the message it carries, named after the *)
(* eid it was first stored under: msg[e] < e is a backfill copy, which has *)
(* a fresh eid, the time of the original and a batch marker; 0 is an event *)
(* of another network, which shares the counter.  A fiber gives up the     *)
(* processor at each call to Redis or MongoDB, so a step ends there.       *)
(***************************************************************************)
EXTENDS Integers, Sequences, FiniteSets, FiniteSetsExt, SequencesExt

CONSTANTS Conns,          \* connections, in the order in which the client makes them
          Engine, Bouncer,  \* who publishes for the network
          PageLimit,      \* REPLAY_LIMIT
          ParkMax,        \* PENDING_LIVE_MAX
          PlaybackLines,  \* the user's bncPlaybackLines
          MaxEid,         \* bound on the event counter
          Paging,         \* connections that can page with CHATHISTORY
          MaxFaults       \* bound: crashes, failing calls to Redis or MongoDB, connections
                          \* that meet an older one or end while attaching, together

ASSUME BouncerPlaybackAssumption ==
  /\ Conns \subseteq Nat /\ Paging \subseteq Conns /\ Engine # Bouncer
  /\ {PageLimit, ParkMax, PlaybackLines} \subseteq Nat \ {0}
  /\ {MaxEid, MaxFaults} \subseteq Nat

Pubs == {Engine, Bouncer}
Eids == 1..MaxEid

VARIABLES globalEid,  \* irc:global_eid
          msg,        \* [Eids -> the message an event carries]
          stored,     \* events in MongoDB
          pub,        \* [Pubs -> the event it is publishing, or 0]
          seen,       \* bncSeen[client]: the stored cursor, 0 before the first
          conn,       \* [Conns -> the BncClient object]
          base,       \* history: where the last connection that found no cursor began
          excused,    \* history: events a cursor could pass unsent, see LossExplained
          faults, overlapped  \* history: crashes and failures; have connections met?

vars == <<globalEid, msg, stored, pub, seen, conn, base, excused, faults, overlapped>>

feed == <<globalEid, msg, stored, pub>>

Fresh == [pc |-> "away", closing |-> FALSE, prior |-> FALSE,
          inbox |-> <<>>, parked |-> <<>>, history |-> {}, historySeen |-> {},
          read |-> 0, from |-> 0, cursor |-> 0, flushed |-> 0, out |-> <<>>]

Attaching == {"count", "seen", "fetch", "playback", "burst"}
Subscribed == Attaching \cup {"drain", "live"}

Line(e, via) == [eid |-> e, via |-> via]

Fault == faults < MaxFaults /\ faults' = faults + 1

Init ==
  /\ globalEid = 0 /\ msg = [e \in Eids |-> 0] /\ stored = {}
  /\ pub = [p \in Pubs |-> 0]
  /\ seen = 0 /\ conn = [c \in Conns |-> Fresh]
  /\ base = 0 /\ excused = {} /\ faults = 0 /\ overlapped = FALSE

-----------------------------------------------------------------------------
(* Publishers: number, store, publish (emitStatusEvent; the engine likewise). *)

\* Events that are numbered, but not stored or not published yet.
InFlight == {pub[p] : p \in Pubs} \ {0}

\* Only the engine backfills: it stores a message again that it stored before.
\* The bouncer's status rows tell of connections that attached or ended.
Number(p) ==
  /\ pub[p] = 0 /\ globalEid < MaxEid
  /\ p = Bouncer => \E c \in Conns : conn[c].pc \in {"live", "gone"}
  /\ LET e == globalEid + 1
         copies == IF p = Engine THEN {m \in stored : msg[m] = m} ELSE {} IN
       /\ \E m \in {e} \cup copies : msg' = [msg EXCEPT ![e] = m]
       /\ pub' = [pub EXCEPT ![p] = e]
       /\ globalEid' = e
  /\ UNCHANGED <<stored, seen, conn, base, excused, faults, overlapped>>

\* An event of another network.
NumberElsewhere ==
  /\ globalEid < MaxEid
  /\ globalEid' = globalEid + 1
  /\ UNCHANGED <<msg, stored, pub, seen, conn, base, excused, faults, overlapped>>

Store(p) ==
  /\ pub[p] \notin stored \cup {0}
  /\ stored' = stored \cup {pub[p]}
  /\ excused' = excused \cup {e \in InFlight \ stored : e < pub[p]}
  /\ UNCHANGED <<globalEid, msg, pub, seen, conn, base, faults, overlapped>>

Publish(p) ==
  /\ pub[p] \in stored
  /\ pub' = [pub EXCEPT ![p] = 0]
  /\ conn' = [c \in Conns |-> IF conn[c].pc \in Subscribed
                              THEN [conn[c] EXCEPT !.inbox = Append(@, pub[p])]
                              ELSE conn[c]]
  /\ excused' = excused \cup {e \in InFlight : e < pub[p]}
  /\ UNCHANGED <<globalEid, msg, stored, seen, base, faults, overlapped>>

-----------------------------------------------------------------------------
(* Sending and flushing. *)

\* send() discards the line once the connection is going down.
Send(r, e, via) == IF r.closing THEN r ELSE [r EXCEPT !.out = Append(@, Line(e, via))]

\* deliverLive: nothing at or below the cursor, which then moves.
Deliver(r, e, via) ==
  IF e <= r.cursor THEN r ELSE [Send(r, e, via) EXCEPT !.cursor = e]

\* flushCursor writes if the cursor moved since this connection's last write and
\* the write is due: forced, the connection's first, or ten seconds after the last.
\* A failing write is left to the next.
Keep(c, r, due) ==
  \/ /\ conn' = [conn EXCEPT ![c] = IF due THEN [r EXCEPT !.flushed = r.cursor] ELSE r]
     /\ seen' = IF due /\ r.cursor > r.flushed THEN r.cursor ELSE seen
     /\ UNCHANGED faults
  \/ /\ due /\ r.cursor > r.flushed /\ Fault
     /\ conn' = [conn EXCEPT ![c] = r]
     /\ UNCHANGED seen

Due(r, e) == IF e <= r.cursor THEN {FALSE}
             ELSE IF r.flushed = 0 THEN {TRUE} ELSE BOOLEAN

-----------------------------------------------------------------------------
(* Attaching. *)

\* startSubscriber comes first.  The client connects anew when its connection is
\* gone or going down; one that the bouncer takes for alive is left out.
Attach(c) ==
  /\ conn[c].pc = "away" /\ \A d \in Conns : d < c => conn[d].pc # "away"
  /\ LET others == {d \in Conns : conn[d].pc \in Subscribed} IN
       /\ \A d \in others : conn[d].closing
       /\ others # {} => faults < MaxFaults
       /\ faults' = IF others # {} THEN faults + 1 ELSE faults
       /\ overlapped' = (overlapped \/ others # {})
  /\ conn' = [conn EXCEPT ![c].pc = "count"]
  /\ UNCHANGED <<feed, seen, base, excused>>

\* fetchMissed reads the counter before anything else; a counter that cannot be
\* read counts as 0, and events stored until now may never be missed.
ReadGlobalEid(c) ==
  /\ conn[c].pc = "count"
  /\ \/ /\ conn' = [conn EXCEPT ![c].pc = "seen", ![c].read = globalEid]
        /\ excused' = excused \cup (InFlight \ stored)
        /\ UNCHANGED faults
     \/ /\ Fault
        /\ conn' = [conn EXCEPT ![c].pc = "seen", ![c].read = 0]
        /\ excused' = excused \cup 1..globalEid
  /\ UNCHANGED <<feed, seen, base, overlapped>>

\* Without a stored cursor, or when it cannot be read, this is the client's first
\* connection: nothing was missed, and one that cannot page with CHATHISTORY gets
\* the playback buffer.
Begin(c, found) ==
  LET first == found = 0
      r == [conn[c] EXCEPT !.from = found, !.prior = ~first,
                           !.cursor = IF first THEN conn[c].read ELSE found,
                           !.pc = IF ~first THEN "fetch"
                                  ELSE IF c \in Paging THEN "burst" ELSE "playback"]
  IN  /\ conn' = [conn EXCEPT ![c] = r]
      /\ base' = IF first THEN Max({base, r.cursor}) ELSE base

ReadSeen(c) ==
  /\ conn[c].pc = "seen"
  /\ \/ Begin(c, seen) /\ UNCHANGED faults
     \/ seen # 0 /\ Fault /\ Begin(c, 0)
  /\ UNCHANGED <<feed, seen, excused, overlapped>>

\* The n lowest, or the n highest, of a set of events.
Lowest(n, S) == {e \in S : Cardinality({x \in S : x < e}) < n}
Highest(n, S) == {e \in S : Cardinality({x \in S : x > e}) < n}

IsCopy(e) == msg[e] # e

\* mutant: a copy of the cursor's own message counts as missed
MissedAtCursor(e, from) == IsCopy(e) => from \in stored /\ msg[e] >= msg[from]

\* A copy counts as missed if its message is newer than the cursor's, whose time
\* is unknown unless the cursor is a stored event of the network.
Missed(e, from) == IsCopy(e) => from \in stored /\ msg[e] > msg[from]

\* The first row of each message.
Distinct(rows) == {e \in rows : \A f \in rows : msg[f] = msg[e] => e <= f}

\* filterMissedRows
FilterMissed(rows, from) == Distinct({e \in rows : Missed(e, from)})

\* sendHistory remembers the messages of the rows that it is going to send.
Replay(r, rows) ==
  [r EXCEPT !.history = rows,
            !.historySeen = {msg[e] : e \in rows},
            !.pc = "burst"]

\* mutant: the counter is read after the page
CursorByLateCount(r, page) ==
  LET last == Max(page \cup {r.cursor}) IN
  IF Cardinality(page) = PageLimit THEN last ELSE Max({last, globalEid})

\* A page that is not full takes the cursor to the counter as it was read before.
CursorAfter(r, page) ==
  LET last == Max(page \cup {r.cursor}) IN
  IF Cardinality(page) = PageLimit THEN last ELSE Max({last, r.read})

\* One page above the cursor, lowest first.
Fetch(c) ==
  /\ conn[c].pc = "fetch"
  /\ LET missed == {e \in stored : e > conn[c].cursor}
         page == Lowest(PageLimit, missed)
         r == [conn[c] EXCEPT !.cursor = CursorAfter(conn[c], page)] IN
       /\ conn' = [conn EXCEPT ![c] = Replay(r, FilterMissed(page, r.from))]
       /\ excused' = excused \cup (missed \ page)
  /\ UNCHANGED <<feed, seen, base, faults, overlapped>>

\* No engine serves the network, or MongoDB fails: the backlog is skipped.
FetchFails(c) ==
  /\ conn[c].pc = "fetch" /\ Fault
  /\ conn' = [conn EXCEPT ![c].cursor = Max({@, conn[c].read}), ![c].pc = "burst"]
  /\ excused' = excused \cup {e \in stored : e > conn[c].cursor /\ e <= conn[c].read}
  /\ UNCHANGED <<feed, seen, base, overlapped>>

\* fetchPlayback: the newest rows; sendHistory drops second copies.
FetchPlayback(c) ==
  /\ conn[c].pc = "playback"
  /\ LET rows == Highest(PlaybackLines, stored) IN
       conn' = [conn EXCEPT ![c] = Replay(@, Distinct(rows))]
  /\ UNCHANGED <<feed, seen, base, excused, faults, overlapped>>

\* sendHistory sorts by time: the rows go out in the order of their messages.
SendHistory(c) ==
  /\ conn[c].pc = "burst"
  /\ \E e \in conn[c].history :
       /\ \A f \in conn[c].history : msg[e] <= msg[f]
       /\ conn' = [conn EXCEPT ![c] =
                     [Send(@, e, "history") EXCEPT !.history = conn[c].history \ {e}]]
       /\ excused' = excused \cup (IF conn[c].closing THEN {e, msg[e]} ELSE {})
  /\ UNCHANGED <<feed, seen, base, faults, overlapped>>

\* mutant: parked events are compared with the cursor alone
IsFreshByCursor(r, e) == e > r.cursor

\* Will the connection hand over this event when it comes to it in the park?
IsFresh(r, e) == msg[e] \notin r.historySeen /\ e > r.cursor

\* Parked events are handed over in order once liveReady is set; the cursor is
\* written after each, and meanwhile live events are let through.
DeliverParked(c) ==
  /\ conn[c].pc \in {"burst", "drain"} /\ conn[c].history = {}
  /\ \E k \in DOMAIN conn[c].parked :
       LET e == conn[c].parked[k]
           rest == SubSeq(conn[c].parked, k + 1, Len(conn[c].parked))
           r == [conn[c] EXCEPT !.pc = "drain", !.parked = rest] IN
       /\ IsFresh(r, e) /\ \A i \in 1..(k - 1) : ~IsFresh(r, conn[c].parked[i])
       /\ \E due \in Due(r, e) : Keep(c, Deliver(r, e, "parked"), due)
       /\ excused' = excused \cup (IF r.closing THEN {e} ELSE {})
  /\ UNCHANGED <<feed, base, overlapped>>

\* mutant: the connection goes live and leaves what was parked where it is
AttachedAtOnce(c) ==
  /\ conn[c].pc \in {"burst", "drain"} /\ conn[c].history = {}
  /\ Keep(c, [conn[c] EXCEPT !.pc = "live"], TRUE)
  /\ UNCHANGED <<feed, base, excused, overlapped>>

Attached(c) ==
  /\ conn[c].pc \in {"burst", "drain"} /\ conn[c].history = {}
  /\ \A e \in ToSet(conn[c].parked) : ~IsFresh(conn[c], e)
  /\ Keep(c, [conn[c] EXCEPT !.pc = "live", !.parked = <<>>, !.historySeen = {}], TRUE)
  /\ UNCHANGED <<feed, base, excused, overlapped>>

-----------------------------------------------------------------------------
(* Live. *)

\* onRedisMessage: nothing once closing, parked until liveReady, live after.
OnMessage(c) ==
  /\ conn[c].pc \in Subscribed /\ conn[c].inbox # <<>>
  /\ LET e == Head(conn[c].inbox)
         r == [conn[c] EXCEPT !.inbox = Tail(@)] IN
       \/ /\ r.closing
          /\ conn' = [conn EXCEPT ![c] = r] /\ UNCHANGED <<seen, excused, faults>>
       \/ /\ ~r.closing /\ r.pc \in Attaching
          /\ LET room == Len(r.parked) < ParkMax IN
               /\ conn' = [conn EXCEPT ![c] =
                             IF room THEN [r EXCEPT !.parked = Append(r.parked, e)] ELSE r]
               /\ excused' = excused \cup (IF room THEN {} ELSE {e})
          /\ UNCHANGED <<seen, faults>>
       \/ /\ ~r.closing /\ r.pc \notin Attaching
          /\ \E due \in Due(r, e) : Keep(c, Deliver(r, e, "live"), due)
          /\ excused' = excused \cup {f \in ToSet(r.parked) : IsFresh(r, f) /\ f < e}
  /\ UNCHANGED <<feed, base, overlapped>>

\* A failing write, a kick, or, once attached, the end or silence of the client.
MarkClosing(c) ==
  /\ conn[c].pc \in Subscribed /\ ~conn[c].closing
  /\ conn' = [conn EXCEPT ![c].closing = TRUE]
  /\ IF conn[c].pc = "live" THEN UNCHANGED faults ELSE Fault
  /\ UNCHANGED <<feed, seen, base, excused, overlapped>>

\* Of a connection that is gone its lines remain.
Closed(r) == [Fresh EXCEPT !.pc = "gone", !.out = r.out, !.prior = r.prior,
                           !.read = r.read, !.from = r.from]

Teardown(c) ==
  /\ conn[c].pc = "live" /\ conn[c].closing
  /\ conn' = [conn EXCEPT ![c] = Closed(@)]
  /\ \/ /\ seen' = IF conn[c].cursor > conn[c].flushed THEN conn[c].cursor ELSE seen
        /\ UNCHANGED faults
     \/ conn[c].cursor > conn[c].flushed /\ Fault /\ UNCHANGED seen
  /\ UNCHANGED <<feed, base, excused, overlapped>>

\* The bouncer's process dies, with its connections and what it was publishing.
Crash ==
  /\ Fault
  /\ conn' = [c \in Conns |-> IF conn[c].pc \in Subscribed
                              THEN Closed(conn[c])
                              ELSE conn[c]]
  /\ pub' = [pub EXCEPT ![Bouncer] = 0]
  /\ UNCHANGED <<globalEid, msg, stored, seen, base, excused, overlapped>>

Publishing == NumberElsewhere \/ \E p \in Pubs : Number(p) \/ Store(p) \/ Publish(p)

Attachment(c) == ReadGlobalEid(c) \/ ReadSeen(c) \/ Fetch(c) \/ FetchPlayback(c)
                 \/ SendHistory(c) \/ DeliverParked(c) \/ Attached(c) \/ Teardown(c)

Next == \/ Publishing \/ Crash
        \/ \E c \in Conns : Attach(c) \/ Attachment(c) \/ FetchFails(c)
                            \/ OnMessage(c) \/ MarkClosing(c)

\* The fiber of a connection and its subscriber's are both scheduled.
Spec == /\ Init /\ [][Next]_vars
        /\ \A c \in Conns : WF_vars(Attachment(c)) /\ WF_vars(OnMessage(c))

-----------------------------------------------------------------------------
(* Properties. *)

Handed(c) == {l.eid : l \in ToSet(conn[c].out)}

Waiting(c) == ToSet(conn[c].inbox \o conn[c].parked) \cup conn[c].history

\* A message the stored cursor has passed was handed to a connection's socket.
\* The exceptions are what "excused" collects: the event was overtaken by a later
\* one, or by the reading of the counter, before it was stored or published (the
\* counter, MongoDB and the channel are three calls); it lay beyond a full page,
\* found the park full, was parked when a live event went past it, was skipped
\* because the backlog could not be read, came before a counter that could not be
\* read, or was sent while the connection was going down; and `base`: nothing is
\* owed from before a connection that found, or could read, no stored cursor
\* (client.d:999 "nothing published during the burst is lost").
LossExplained ==
  \A e \in stored \ excused : ~IsCopy(e) /\ e > base /\ e <= seen
    => \E c \in Conns : \E x \in Handed(c) : msg[x] = e

\* One connection does not send an event twice, nor a parked copy of a message
\* it has replayed (client.d:1039 "the client renders every history row twice").
\* Only a row of the playback buffer above the cursor, stored after the counter
\* was read (any row, if that failed) and published after the burst, comes again
\* live.
SentOnce ==
  \A c \in Conns : LET out == conn[c].out IN
    \A i, j \in DOMAIN out :
      /\ i < j /\ out[i].eid = out[j].eid
           => /\ out[i].via = "history" /\ out[j].via = "live"
              /\ ~conn[c].prior /\ out[i].eid > conn[c].read
      /\ out[i].via = "history" /\ out[j].via = "parked"
           => msg[out[i].eid] # msg[out[j].eid]

\* A later connection does not replay a message that an earlier one sent, or
\* send an event again (client.d:1484-1490), as long as connections of the
\* client do not meet, the bouncer does not die and its calls do not fail.
\* Two kinds of rows come again: those of the playback buffer above the cursor,
\* and, if the cursor stands at a copy, which has the time of its original,
\* copies of messages newer than that.
HeardOnce ==
  \A c, d \in Conns : c < d /\ ~overlapped /\ faults = 0 =>
    \A l \in ToSet(conn[c].out), k \in ToSet(conn[d].out) :
      l.eid = k.eid \/ (k.via = "history" /\ msg[l.eid] = msg[k.eid])
      => \/ l.via = "history" /\ ~conn[c].prior /\ l.eid > conn[c].read
         \/ l.eid # k.eid /\ conn[d].from \in stored /\ IsCopy(conn[d].from)

\* What reaches a connection is not left in its inbox, its park or its history.
NothingWaits == []<>(\A c \in Conns : Waiting(c) = {})
=============================================================================
