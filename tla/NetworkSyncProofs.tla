------------------------- MODULE NetworkSyncProofs -------------------------
(***************************************************************************)
(* Two theorems about NetworkSync, for any number of events and commands   *)
(* and any threshold: the variables keep their types (SyncTypes), and a    *)
(* snapshot never undoes a PART or KICK the tab has handled                *)
(* (PartsSurvive).  The second rests on what the order of the live events  *)
(* says: FlowInv below.                                                    *)
(***************************************************************************)
EXTENDS NetworkSync, TLAPS

EngineStates ==
  [phase : Conn, stopped : BOOLEAN, member : BOOLEAN, parted : BOOLEAN, rejoin : BOOLEAN]
Snapshots == [phase : Conn, joined : BOOLEAN, stale : BOOLEAN]
TabStates ==
  [conn : Conn, userDisconnected : BOOLEAN, connectRequested : BOOLEAN,
   asked : BOOLEAN, joinPending : BOOLEAN, userParted : BOOLEAN]
BufRecords ==
  [exists : BOOLEAN, joined : BOOLEAN, inFlight : BOOLEAN,
   pending : {"none", "joined", "left"}, phantom : BOOLEAN, error : BOOLEAN,
   missed : 0..OrphanFlipThreshold, rows : BOOLEAN]
Buffers == {b \in BufRecords : ~b.exists => b = [NoBuffer EXCEPT !.rows = b.rows]}

LEMMA TypeParts ==
  TypeOK <=> /\ listed \in BOOLEAN /\ left \in BOOLEAN /\ budget \in [Kinds -> Nat]
             /\ engine \in EngineStates /\ snapshot \in Snapshots
             /\ events \in Seq(EventOf) /\ cmds \in Seq(CmdOf)
             /\ control \in Seq({"connect", "disconnect"})
             /\ tab \in TabStates /\ buf \in Buffers
BY DEF TypeOK, EngineStates, Snapshots, TabStates, BufRecords, Buffers

-----------------------------------------------------------------------------
(* What the functions on the buffer and on the tab return. *)

LEMMA NoBufferType == NoBuffer \in BufRecords
BY ConstantsAssumption DEF NoBuffer, BufRecords

\* Of a buffer that is there only its fields matter.
LEMMA BufferType ==
  ASSUME NEW b \in BufRecords, b.exists
  PROVE  b \in Buffers
BY DEF Buffers

LEMMA MadeTypes ==
  ASSUME NEW b \in Buffers, NEW in \in BOOLEAN
  PROVE  /\ Phantom(b) \in Buffers /\ Synced(b, in) \in Buffers
         /\ [NoBuffer EXCEPT !.rows = b.rows] \in Buffers
<1>1. b.rows \in BOOLEAN
  BY DEF Buffers, BufRecords
<1>2. Phantom(b) \in Buffers /\ Synced(b, in) \in Buffers
  BY <1>1, NoBufferType DEF Phantom, Synced, NoBuffer, Buffers, BufRecords
<1>3. [NoBuffer EXCEPT !.rows = b.rows] \in Buffers
  BY <1>1, NoBufferType DEF NoBuffer, Buffers, BufRecords
<1> QED
  BY <1>2, <1>3

LEMMA SettledType ==
  ASSUME NEW b \in Buffers
  PROVE  Settled(b) \in Buffers /\ Settled(b).exists = b.exists
         /\ (b.exists => Settled(b).phantom = b.phantom)
<1>1. CASE b.exists
  BY <1>1 DEF Settled, Buffers, BufRecords
<1>2. CASE ~b.exists
  <2>1. b = [NoBuffer EXCEPT !.rows = b.rows] /\ b \in BufRecords
    BY <1>2 DEF Buffers
  <2>2. Settled(b) = b
    BY <2>1 DEF Settled, NoBuffer, BufRecords
  <2> QED
    BY <2>2
<1> QED
  BY <1>1, <1>2 DEF Buffers, BufRecords

LEMMA OptimisticType ==
  ASSUME NEW b \in Buffers
  PROVE  /\ Optimistic(b) \in Buffers /\ Optimistic(b).exists
         /\ Optimistic(b).phantom = b.phantom
BY DEF Optimistic, Buffers, BufRecords

LEMMA LeftType ==
  ASSUME NEW b \in Buffers
  PROVE  /\ Left(b) \in Buffers /\ Left(b).exists = b.exists
         /\ b.exists => /\ Left(b).phantom = b.phantom /\ ~Left(b).inFlight
                        /\ Left(b).pending = "left"
BY DEF Left, Settled, Buffers, BufRecords

LEMMA JoinEchoType ==
  ASSUME NEW b \in Buffers
  PROVE  JoinEcho(b) \in Buffers /\ JoinEcho(b).exists /\ ~JoinEcho(b).phantom
BY DEF JoinEcho, Settled, Buffers, BufRecords

LEMMA NumericTypes ==
  ASSUME NEW b \in Buffers
  PROVE  \A u \in {AlreadyIn(b), Refused(b), CannotSend(b)} :
           u \in Buffers /\ u.exists = b.exists /\ u.phantom = b.phantom
<1>1. CASE b.exists
  <2>1. /\ AlreadyIn(b) \in Buffers /\ AlreadyIn(b).exists
        /\ AlreadyIn(b).phantom = b.phantom
    BY <1>1 DEF AlreadyIn, Settled, Buffers, BufRecords
  <2>2. Refused(b) \in Buffers /\ Refused(b).exists /\ Refused(b).phantom = b.phantom
    BY <1>1 DEF Refused, Settled, Buffers, BufRecords
  <2>3. CannotSend(b) \in Buffers /\ CannotSend(b).exists /\ CannotSend(b).phantom = b.phantom
    BY <1>1 DEF CannotSend, Settled, Buffers, BufRecords
  <2> QED
    BY <1>1, <2>1, <2>2, <2>3
<1>2. CASE ~b.exists
  <2>1. b = [NoBuffer EXCEPT !.rows = b.rows] /\ b \in BufRecords
    BY <1>2 DEF Buffers
  <2>2. ~b.joined
    BY <2>1 DEF NoBuffer, BufRecords
  <2> QED
    BY <1>2, <2>2 DEF AlreadyIn, Refused, CannotSend
<1> QED
  BY <1>1, <1>2 DEF Buffers, BufRecords

\* A snapshot that names the channel keeps a known buffer known, and while a
\* departure is pending neither shows the user in nor forgets it.
LEMMA AdoptType ==
  ASSUME NEW b \in Buffers, NEW in \in BOOLEAN
  PROVE  /\ Adopt(b, in) \in Buffers /\ Adopt(b, in).exists
         /\ ~b.phantom => ~Adopt(b, in).phantom
         /\ b.exists /\ ~b.inFlight => ~Adopt(b, in).inFlight
         /\ b.exists /\ ~b.phantom /\ ~b.inFlight /\ b.pending = "left" /\ in =>
              Adopt(b, in).pending = "left" /\ Adopt(b, in).joined = b.joined
         /\ b.exists /\ ~b.joined /\ ~in => ~Adopt(b, in).joined
<1>1. CASE ~b.exists
  <2>1. Adopt(b, in) = Synced(b, in)
    BY <1>1 DEF Adopt
  <2>2. Synced(b, in).exists /\ ~Synced(b, in).phantom
    BY DEF Synced, NoBuffer
  <2> QED
    BY <1>1, <2>1, <2>2, MadeTypes
<1>2. CASE b.exists
  <2>1. 0 \in 0..OrphanFlipThreshold
    BY ConstantsAssumption
  <2> QED
    BY <1>2, <2>1 DEF Adopt, Settled, Buffers, BufRecords
<1> QED
  BY <1>1, <1>2

\* One that does not name it drops a phantom and touches the guards of none
\* with rows.
LEMMA OrphanType ==
  ASSUME NEW b \in Buffers
  PROVE  /\ Orphan(b) \in Buffers
         /\ b.exists /\ ~b.phantom => Orphan(b).exists /\ ~Orphan(b).phantom
         /\ b.exists /\ ~b.phantom /\ ~b.inFlight => ~Orphan(b).inFlight
         /\ ~b.joined => ~Orphan(b).joined
<1>1. CASE ~b.exists
  <2>1. b = [NoBuffer EXCEPT !.rows = b.rows] /\ b \in BufRecords
    BY <1>1 DEF Buffers
  <2>2. Orphan(b) = b
    BY <1>1, <2>1 DEF Orphan, NoBuffer, BufRecords
  <2> QED
    BY <1>1, <2>2
<1>2. CASE b.exists /\ ~b.inFlight /\ b.phantom
  <2>1. Orphan(b) = [NoBuffer EXCEPT !.rows = b.rows]
    BY <1>2 DEF Orphan
  <2>2. ~[NoBuffer EXCEPT !.rows = b.rows].joined
    BY DEF NoBuffer
  <2> QED
    BY <1>2, <2>1, <2>2, MadeTypes
<1>3. CASE b.exists /\ b.inFlight
  BY <1>3 DEF Orphan, Buffers, BufRecords
<1>4. CASE b.exists /\ ~b.inFlight /\ ~b.phantom
  <2> DEFINE counted == IF b.joined /\ b.missed < OrphanFlipThreshold
                        THEN b.missed + 1 ELSE b.missed
  <2>1. counted \in 0..OrphanFlipThreshold
    BY ConstantsAssumption DEF Buffers, BufRecords
  <2>2. Orphan(b) = IF b.joined /\ ~b.rows /\ counted = OrphanFlipThreshold
                    THEN [b EXCEPT !.joined = FALSE, !.pending = "none", !.missed = counted]
                    ELSE [b EXCEPT !.missed = counted]
    BY <1>4 DEF Orphan
  <2> HIDE DEF counted
  <2> QED
    BY <1>4, <2>1, <2>2 DEF Buffers, BufRecords
<1> QED
  BY <1>1, <1>2, <1>3, <1>4

LEMMA TabTypes ==
  ASSUME NEW t \in TabStates, NEW phase \in Conn
  PROVE  /\ BeginConnectAttempt(t) \in TabStates /\ RejoinMarks(t) \in TabStates
         /\ Connected(t) \in TabStates /\ ConnectionAfter(t, phase) \in TabStates
BY DEF BeginConnectAttempt, RejoinMarks, Connected, ConnectionAfter, TabStates, Conn

-----------------------------------------------------------------------------
(* Types. *)

LEMMA InitTypes == Init => TypeOK
<1> SUFFICES ASSUME Init PROVE TypeOK
  OBVIOUS
<1>1. PICK s \in Setting :
        /\ listed = s.listed /\ budget = s.bounds
        /\ engine = [phase |-> "connected", stopped |-> FALSE, member |-> s.member,
                     parted |-> FALSE, rejoin |-> FALSE]
        /\ \E rows \in BOOLEAN :
             buf = IF s.listed \/ s.member
                   THEN Synced([NoBuffer EXCEPT !.rows = rows], s.member) ELSE NoBuffer
  BY ConstantsAssumption DEF Init
<1>2. listed \in BOOLEAN /\ s.member \in BOOLEAN /\ budget \in [Kinds -> Nat]
  BY <1>1 DEF Setting
<1>3. engine \in EngineStates /\ snapshot \in Snapshots
  BY <1>1, <1>2 DEF Init, EngineStates, Snapshots, Snapshot, Conn
<1>4. tab \in TabStates
  BY DEF Init, TabStates, Conn
<1>5. buf \in Buffers
  <2>1. NoBuffer \in Buffers
    BY NoBufferType DEF Buffers, NoBuffer
  <2>2. ASSUME NEW rows \in BOOLEAN
        PROVE  Synced([NoBuffer EXCEPT !.rows = rows], s.member) \in Buffers
    <3>1. [NoBuffer EXCEPT !.rows = rows] \in Buffers
      BY NoBufferType DEF Buffers, NoBuffer, BufRecords
    <3> QED
      BY <1>2, <3>1, MadeTypes
  <2> QED
    BY <1>1, <2>1, <2>2
<1>6. /\ events \in Seq(EventOf) /\ cmds \in Seq(CmdOf)
      /\ control \in Seq({"connect", "disconnect"}) /\ left \in BOOLEAN
  <2>1. events = <<>> /\ cmds = <<>> /\ control = <<>>
    BY DEF Init
  <2>2. left \in BOOLEAN
    BY DEF Init
  <2>3. <<>> \in Seq(EventOf) /\ <<>> \in Seq(CmdOf) /\ <<>> \in Seq({"connect", "disconnect"})
    OBVIOUS
  <2> QED
    BY <2>1, <2>2, <2>3
<1> QED
  BY <1>2, <1>3, <1>4, <1>5, <1>6, TypeParts

LEMMA SpendType ==
  ASSUME TypeOK, NEW kind \in Kinds, Spend(kind)
  PROVE  budget' \in [Kinds -> Nat]
<1>1. budget \in [Kinds -> Nat] /\ budget[kind] \in Nat /\ budget[kind] > 0
  BY DEF TypeOK, Spend
<1>2. budget[kind] - 1 \in Nat
  BY <1>1
<1> QED
  BY <1>1, <1>2 DEF Spend

\* The types of the next state, in the same parts.
LEMMA NextTypes ==
  ASSUME /\ listed' \in BOOLEAN /\ left' \in BOOLEAN /\ budget' \in [Kinds -> Nat]
         /\ engine' \in EngineStates /\ snapshot' \in Snapshots
         /\ events' \in Seq(EventOf) /\ cmds' \in Seq(CmdOf)
         /\ control' \in Seq({"connect", "disconnect"})
         /\ tab' \in TabStates /\ buf' \in Buffers
  PROVE  TypeOK'
BY DEF TypeOK, EngineStates, Snapshots, TabStates, BufRecords, Buffers

LEMMA EngineTypes ==
  ASSUME TypeOK, Engine
  PROVE  TypeOK'
<1>1. /\ engine \in EngineStates /\ snapshot \in Snapshots /\ budget \in [Kinds -> Nat]
      /\ events \in Seq(EventOf) /\ cmds \in Seq(CmdOf)
      /\ control \in Seq({"connect", "disconnect"})
      /\ listed \in BOOLEAN /\ left \in BOOLEAN /\ tab \in TabStates /\ buf \in Buffers
  BY TypeParts
<1>2. \A e \in EventOf : Append(events, e) \in Seq(EventOf)
  BY <1>1
<1>3. UNCHANGED <<listed, tab, buf, left>>
  BY DEF Engine, EngineDrops, EngineRetries, EngineConnects, EngineRejoins, TakeConnect,
         TakeDisconnect, TakeJoin, TakePart, TakeMessage, Kicked, OtherClient, SnapshotWritten
<1>4. budget' \in [Kinds -> Nat]
  <2>1. CASE EngineDrops \/ Kicked \/ OtherClient
    BY <2>1, SpendType DEF EngineDrops, Kicked, OtherClient, Kinds
  <2>2. CASE ~(EngineDrops \/ Kicked \/ OtherClient)
    BY <1>1, <2>2 DEF Engine, EngineRetries, EngineConnects, EngineRejoins, TakeConnect,
         TakeDisconnect, TakeJoin, TakePart, TakeMessage, SnapshotWritten
  <2> QED
    BY <2>1, <2>2
<1>5. engine' \in EngineStates
  <2>1. Dropped(engine) \in EngineStates /\ [Dropped(engine) EXCEPT !.stopped = TRUE] \in EngineStates
    BY <1>1 DEF Dropped, EngineStates, Conn
  <2>2. CASE EngineDrops \/ TakeDisconnect
    BY <2>1, <2>2 DEF EngineDrops, TakeDisconnect
  <2>3. CASE EngineRetries \/ EngineConnects \/ TakeConnect
    BY <1>1, <2>3 DEF EngineRetries, EngineConnects, TakeConnect, EngineStates, Conn
  <2>4. CASE EngineRejoins
    BY <1>1, <2>4 DEF EngineRejoins, EngineStates
  <2>5. CASE TakeJoin
    BY <1>1, <2>5 DEF TakeJoin, EngineStates
  <2>6. CASE TakePart \/ Kicked
    BY <1>1, <2>6 DEF TakePart, Kicked, EngineStates
  <2>7. CASE TakeMessage \/ OtherClient \/ SnapshotWritten
    BY <1>1, <2>7 DEF TakeMessage, OtherClient, SnapshotWritten
  <2> QED
    BY <2>2, <2>3, <2>4, <2>5, <2>6, <2>7 DEF Engine
<1>6. snapshot' \in Snapshots
  <2>1. CASE TakePart \/ Kicked
    BY <1>1, <2>1 DEF TakePart, Kicked, OutOfDate, Snapshots
  <2>2. CASE SnapshotWritten
    BY <1>1, <2>2 DEF SnapshotWritten, Snapshot, Snapshots, EngineStates
  <2>3. CASE ~(TakePart \/ Kicked \/ SnapshotWritten)
    BY <1>1, <2>3 DEF Engine, EngineDrops, EngineRetries, EngineConnects, EngineRejoins,
         TakeConnect, TakeDisconnect, TakeJoin, TakeMessage, OtherClient
  <2> QED
    BY <2>1, <2>2, <2>3
<1>7. events' \in Seq(EventOf)
  <2>1. \A e \in EventOf : Emit(e) => events' \in Seq(EventOf)
    BY <1>2 DEF Emit
  <2>2. CASE EngineDrops \/ EngineConnects \/ EngineRejoins \/ Kicked
    BY <2>1, <2>2 DEF EngineDrops, EngineConnects, EngineRejoins, Kicked, EventOf
  <2>3. CASE TakeDisconnect \/ TakeJoin \/ TakePart \/ TakeMessage
    BY <1>1, <2>1, <2>3 DEF TakeDisconnect, TakeJoin, TakePart, TakeMessage, EventOf
  <2>4. CASE EngineRetries \/ TakeConnect \/ OtherClient \/ SnapshotWritten
    BY <1>1, <2>4 DEF EngineRetries, TakeConnect, OtherClient, SnapshotWritten
  <2> QED
    BY <2>2, <2>3, <2>4 DEF Engine
<1>8. cmds' \in Seq(CmdOf)
  <2>1. cmds # <<>> => Tail(cmds) \in Seq(CmdOf)
    BY <1>1
  <2>2. \A c \in {"JOIN", "PART"} : Append(cmds, c) \in Seq(CmdOf)
    BY <1>1 DEF CmdOf
  <2>3. CASE TakeJoin \/ TakePart \/ TakeMessage
    BY <2>1, <2>3 DEF TakeJoin, TakePart, TakeMessage
  <2>4. CASE OtherClient
    BY <2>2, <2>4 DEF OtherClient
  <2>5. CASE ~(TakeJoin \/ TakePart \/ TakeMessage \/ OtherClient)
    BY <1>1, <2>5 DEF Engine, EngineDrops, EngineRetries, EngineConnects, EngineRejoins,
         TakeConnect, TakeDisconnect, Kicked, SnapshotWritten
  <2> QED
    BY <2>3, <2>4, <2>5
<1>9. control' \in Seq({"connect", "disconnect"})
  <2>1. control # <<>> => Tail(control) \in Seq({"connect", "disconnect"})
    BY <1>1
  <2>2. CASE TakeConnect \/ TakeDisconnect
    BY <2>1, <2>2 DEF TakeConnect, TakeDisconnect
  <2>3. CASE ~(TakeConnect \/ TakeDisconnect)
    BY <1>1, <2>3 DEF Engine, EngineDrops, EngineRetries, EngineConnects, EngineRejoins,
         TakeJoin, TakePart, TakeMessage, Kicked, OtherClient, SnapshotWritten
  <2> QED
    BY <2>2, <2>3
<1> QED
  BY <1>1, <1>3, <1>4, <1>5, <1>6, <1>7, <1>8, <1>9, NextTypes

LEMMA RejoinType ==
  ASSUME TypeOK, NEW t \in TabStates, NEW allow \in BOOLEAN, InitiateRejoin(t, allow)
  PROVE  /\ buf' \in Buffers /\ tab' \in TabStates /\ cmds' \in Seq(CmdOf)
         /\ control' \in Seq({"connect", "disconnect"}) /\ ~left' /\ left' \in BOOLEAN
         /\ buf'.exists /\ buf'.phantom = buf.phantom
<1>1. buf \in Buffers /\ cmds \in Seq(CmdOf) /\ control \in Seq({"connect", "disconnect"})
  BY TypeParts
<1>2. Append(cmds, "JOIN") \in Seq(CmdOf) /\ Append(control, "connect") \in Seq({"connect", "disconnect"})
  BY <1>1 DEF CmdOf
<1>3. RejoinMarks(t) \in TabStates /\ BeginConnectAttempt(RejoinMarks(t)) \in TabStates
  <2>1. "connected" \in Conn
    BY DEF Conn
  <2> QED
    BY <2>1, TabTypes
<1> QED
  BY <1>1, <1>2, <1>3, OptimisticType DEF InitiateRejoin

LEMMA UserTypes ==
  ASSUME TypeOK, User
  PROVE  TypeOK'
<1>1. /\ engine \in EngineStates /\ snapshot \in Snapshots /\ budget \in [Kinds -> Nat]
      /\ events \in Seq(EventOf) /\ cmds \in Seq(CmdOf)
      /\ control \in Seq({"connect", "disconnect"})
      /\ listed \in BOOLEAN /\ left \in BOOLEAN /\ tab \in TabStates /\ buf \in Buffers
  BY TypeParts
<1>2. UNCHANGED <<listed, engine, snapshot, events>>
  BY DEF User, Rejoin, Navigate, Part, Write, Disconnect, Reconnect
<1>3. budget' \in [Kinds -> Nat]
  BY SpendType DEF User, Rejoin, Navigate, Part, Write, Disconnect, Reconnect, Kinds
<1>4. \A c \in CmdOf : Append(cmds, c) \in Seq(CmdOf)
  BY <1>1
<1>5. CASE Rejoin
  BY <1>1, <1>2, <1>3, <1>5, RejoinType, NextTypes DEF Rejoin
<1>6. CASE Navigate
  <2> DEFINE b == IF buf.exists THEN [buf EXCEPT !.phantom = FALSE] ELSE Phantom(buf)
  <2>1. b \in Buffers
    <3>1. CASE buf.exists
      BY <1>1, <3>1 DEF Buffers, BufRecords
    <3>2. CASE ~buf.exists
      BY <1>1, <3>2, MadeTypes
    <3> QED
      BY <3>1, <3>2
  <2>2. Optimistic(b) \in Buffers /\ RejoinMarks(tab) \in TabStates
    <3>1. "connected" \in Conn
      BY DEF Conn
    <3> HIDE DEF b
    <3> QED
      BY <1>1, <2>1, <3>1, OptimisticType, TabTypes
  <2>3. Append(cmds, "JOIN") \in Seq(CmdOf)
    BY <1>4 DEF CmdOf
  <2>4. /\ buf' \in {b, Optimistic(b)} /\ tab' \in {tab, RejoinMarks(tab)}
        /\ cmds' \in {cmds, Append(cmds, "JOIN")} /\ left' \in {left, FALSE}
        /\ UNCHANGED control
    BY <1>6 DEF Navigate
  <2> HIDE DEF b
  <2> QED
    BY <1>1, <1>2, <1>3, <2>1, <2>2, <2>3, <2>4, NextTypes
<1>7. CASE Part
  <2>1. [buf EXCEPT !.joined = FALSE] \in Buffers
    <3>1. CASE buf.exists
      BY <1>1, <3>1 DEF Buffers, BufRecords
    <3>2. CASE ~buf.exists
      <4>1. buf = [NoBuffer EXCEPT !.rows = buf.rows] /\ buf \in BufRecords
        BY <1>1, <3>2 DEF Buffers
      <4>2. [buf EXCEPT !.joined = FALSE] = buf
        BY <4>1 DEF NoBuffer, BufRecords
      <4> QED
        BY <1>1, <4>2
    <3> QED
      BY <3>1, <3>2
  <2>2. [tab EXCEPT !.userParted = TRUE] \in TabStates
    BY <1>1 DEF TabStates
  <2>3. "PART" \in CmdOf
    BY DEF CmdOf
  <2> QED
    BY <1>1, <1>2, <1>3, <1>4, <1>7, <2>1, <2>2, <2>3, NextTypes DEF Part
<1>8. CASE Write
  <2>1. CASE ~buf.joined /\ ~buf.inFlight
    BY <1>1, <1>2, <1>3, <1>8, <2>1, RejoinType, NextTypes DEF Write
  <2>2. CASE ~(~buf.joined /\ ~buf.inFlight)
    <3>1. cmds' = Append(cmds, "MSG") /\ UNCHANGED <<buf, left>>
      BY <1>8, <2>2 DEF Write
    <3>2. "MSG" \in CmdOf
      BY DEF CmdOf
    <3>3. tab' \in {tab, BeginConnectAttempt(tab)}
          /\ control' \in {control, Append(control, "connect")}
      BY <1>8, <2>2 DEF Write
    <3>4. tab' \in TabStates
      BY <1>1, <3>3 DEF BeginConnectAttempt, TabStates, Conn
    <3>5. control' \in Seq({"connect", "disconnect"})
      <4>1. Append(control, "connect") \in Seq({"connect", "disconnect"})
        BY <1>1
      <4> QED
        BY <1>1, <3>3, <4>1
    <3>6. cmds' \in Seq(CmdOf) /\ left' \in BOOLEAN /\ buf' \in Buffers
      BY <1>1, <3>1, <3>2
    <3> QED
      BY <1>1, <1>2, <1>3, <1>4, <3>4, <3>5, <3>6, NextTypes
  <2> QED
    BY <2>1, <2>2
<1>9. CASE Disconnect
  <2>1. Append(control, "disconnect") \in Seq({"connect", "disconnect"})
    BY <1>1
  <2>2. tab' \in TabStates
    BY <1>1, <1>9 DEF Disconnect, TabStates
  <2> QED
    BY <1>1, <1>2, <1>3, <1>9, <2>1, <2>2, NextTypes DEF Disconnect
<1>10. CASE Reconnect
  <2>1. Append(control, "connect") \in Seq({"connect", "disconnect"})
    BY <1>1
  <2>2. tab' \in TabStates
    BY <1>1, <1>10 DEF Reconnect, BeginConnectAttempt, TabStates, Conn
  <2> QED
    BY <1>1, <1>2, <1>3, <1>10, <2>1, <2>2, NextTypes DEF Reconnect
<1> QED
  BY <1>5, <1>6, <1>7, <1>8, <1>9, <1>10 DEF User

LEMMA ReportedType ==
  Reported \in {"joined", "left", "absent"} /\ (Reported = "joined" <=> snapshot.joined)
BY DEF Reported

LEMMA HandleTypes ==
  ASSUME TypeOK, Handle
  PROVE  TypeOK'
<1>1. /\ engine \in EngineStates /\ snapshot \in Snapshots /\ budget \in [Kinds -> Nat]
      /\ events \in Seq(EventOf) /\ cmds \in Seq(CmdOf)
      /\ control \in Seq({"connect", "disconnect"})
      /\ listed \in BOOLEAN /\ left \in BOOLEAN /\ tab \in TabStates /\ buf \in Buffers
  BY TypeParts
<1>2. /\ events # <<>> /\ events' = Tail(events)
      /\ UNCHANGED <<listed, budget, engine, snapshot>>
  BY DEF Handle, HandleWelcome, HandleDisconnect, HandleJoin, HandlePart, HandleKick,
         HandleNumeric
<1>3. events' \in Seq(EventOf)
  BY <1>1, <1>2
<1>4. buf.exists \in BOOLEAN /\ buf.joined \in BOOLEAN
  BY <1>1 DEF Buffers, BufRecords
<1>5. CASE HandleWelcome
  <2>1. Connected(tab) \in TabStates
    <3>1. "connected" \in Conn
      BY DEF Conn
    <3> QED
      BY <1>1, <3>1, TabTypes
  <2>2. CASE InitiateRejoin(Connected(tab), FALSE)
    BY <1>1, <1>2, <1>3, <2>1, <2>2, RejoinType, NextTypes
  <2>3. CASE tab' = Connected(tab) /\ UNCHANGED <<buf, cmds, control, left>>
    BY <1>1, <1>2, <1>3, <2>1, <2>3, NextTypes
  <2> QED
    BY <1>5, <2>2, <2>3 DEF HandleWelcome
<1>6. CASE HandleDisconnect
  <2>1. tab' \in TabStates
    BY <1>1, <1>6 DEF HandleDisconnect, TabStates, Conn
  <2> QED
    BY <1>1, <1>2, <1>3, <1>6, <2>1, NextTypes DEF HandleDisconnect
<1>7. CASE HandleJoin
  <2>1. tab' \in TabStates
    BY <1>1, <1>7 DEF HandleJoin, TabStates
  <2> QED
    BY <1>1, <1>2, <1>3, <1>7, <2>1, JoinEchoType, NextTypes DEF HandleJoin
<1>8. CASE HandlePart \/ HandleKick
  <2>1. tab' \in TabStates
    BY <1>1, <1>8 DEF HandlePart, HandleKick, TabStates
  <2>2. buf' = Left(buf) /\ left' = buf.exists /\ UNCHANGED <<cmds, control>>
    BY <1>8 DEF HandlePart, HandleKick
  <2> QED
    BY <1>1, <1>2, <1>3, <1>4, <2>1, <2>2, LeftType, NextTypes
<1>9. CASE HandleNumeric
  <2> DEFINE e == Head(events)
             pending == tab.joinPending /\ (~buf.exists \/ (e = "404" /\ ~buf.joined))
  <2>1. /\ buf' \in {AlreadyIn(buf), Refused(buf), CannotSend(buf)}
        /\ tab' = [tab EXCEPT !.joinPending = pending]
        /\ left' = (left /\ e = "404" /\ ~buf.joined)
        /\ UNCHANGED <<cmds, control>>
    BY <1>9 DEF HandleNumeric
  <2>2. pending \in BOOLEAN
    BY <1>1 DEF TabStates
  <2>3. tab' \in TabStates
    <3> HIDE DEF pending
    <3> QED
      BY <1>1, <2>1, <2>2 DEF TabStates
  <2>4. buf' \in Buffers
    BY <1>1, <2>1, NumericTypes
  <2>5. left' \in BOOLEAN
    BY <2>1
  <2> QED
    BY <1>1, <1>2, <1>3, <2>1, <2>3, <2>4, <2>5, NextTypes
<1> QED
  BY <1>5, <1>6, <1>7, <1>8, <1>9 DEF Handle

LEMMA TabStepTypes ==
  ASSUME TypeOK, Tab
  PROVE  TypeOK'
<1>1. /\ engine \in EngineStates /\ snapshot \in Snapshots /\ budget \in [Kinds -> Nat]
      /\ events \in Seq(EventOf) /\ cmds \in Seq(CmdOf)
      /\ control \in Seq({"connect", "disconnect"})
      /\ listed \in BOOLEAN /\ left \in BOOLEAN /\ tab \in TabStates /\ buf \in Buffers
  BY TypeParts
<1>2. CASE Handle
  BY <1>2, HandleTypes
<1>3. CASE SyncArrives
  <2>1. snapshot.phase \in Conn
    BY <1>1 DEF Snapshots
  <2>2. (Reported = "joined") \in BOOLEAN
    OBVIOUS
  <2>3. buf' \in Buffers
    BY <1>1, <1>3, <2>2, OrphanType, AdoptType DEF SyncArrives
  <2>4. tab' \in TabStates
    BY <1>1, <1>3, <2>1, TabTypes DEF SyncArrives
  <2> QED
    BY <1>1, <1>3, <2>3, <2>4, NextTypes DEF SyncArrives
<1>4. CASE DisconnectAnswered \/ GraceExpires
  <2>1. tab' \in TabStates
    BY <1>1, <1>4 DEF DisconnectAnswered, GraceExpires, TabStates, Conn
  <2> QED
    BY <1>1, <1>4, <2>1, NextTypes DEF DisconnectAnswered, GraceExpires
<1>5. CASE WsReopens
  <2>1. tab' \in TabStates
    BY <1>1, <1>5 DEF WsReopens, TabStates
  <2>2. budget' \in [Kinds -> Nat]
    BY <1>5, SpendType DEF WsReopens, Kinds
  <2> QED
    BY <1>1, <1>5, <2>1, <2>2, SettledType, NextTypes DEF WsReopens
<1> QED
  BY <1>2, <1>3, <1>4, <1>5 DEF Tab

-----------------------------------------------------------------------------
(* The order of the live events. *)

Known   == buf.exists /\ ~buf.phantom
Departs == {"PART", "KICK"}

JoinComing(q) == \E k \in DOMAIN q : q[k] = "JOIN"

\* If the user is a member after a PART or KICK on its way, a JOIN comes behind it.
DepartureLast(q, member) ==
  \A k \in DOMAIN q : q[k] \in Departs /\ member => \E j \in DOMAIN q : j > k /\ q[j] = "JOIN"

\* A member, or one who has just ceased to be one, has a buffer that is not a
\* phantom, or the JOIN that makes it so comes first.
BufferKnown(q, member, known) ==
  /\ member => known \/ JoinComing(q)
  /\ \A k \in DOMAIN q : q[k] \in Departs => known \/ \E j \in DOMAIN q : j < k /\ q[j] = "JOIN"

\* Once a departure was handled, and unless a JOIN is coming, the user is out,
\* and the guard is there as long as the snapshot says otherwise.
LeftGuarded ==
  left => /\ Known /\ ~buf.inFlight
          /\ JoinComing(events) \/ (~engine.member /\ (snapshot.joined => buf.pending = "left"))

FlowInv ==
  /\ DepartureLast(events, engine.member)
  /\ BufferKnown(events, engine.member, Known)
  /\ LeftGuarded

LEMMA AppendFacts ==
  ASSUME NEW q \in Seq(EventOf), NEW e \in EventOf
  PROVE  /\ DOMAIN q \subseteq DOMAIN Append(q, e)
         /\ DOMAIN Append(q, e) = (DOMAIN q) \cup {Len(q) + 1}
         /\ Append(q, e)[Len(q) + 1] = e
         /\ \A k \in DOMAIN q : Append(q, e)[k] = q[k] /\ k < Len(q) + 1 /\ k \in Nat
         /\ JoinComing(q) => JoinComing(Append(q, e))
         /\ JoinComing(Append(q, e)) => JoinComing(q) \/ e = "JOIN"
<1>1. Len(q) \in Nat /\ DOMAIN q = 1..Len(q) /\ DOMAIN Append(q, e) = 1..(Len(q) + 1)
  OBVIOUS
<1>2. 1..(Len(q) + 1) = (1..Len(q)) \cup {Len(q) + 1}
  BY <1>1
<1>3. Append(q, e)[Len(q) + 1] = e /\ \A k \in DOMAIN q : Append(q, e)[k] = q[k]
  OBVIOUS
<1>4. \A k \in DOMAIN q : k < Len(q) + 1 /\ k \in Nat
  BY <1>1
<1> HIDE DEF Departs
<1> QED
  BY <1>1, <1>2, <1>3, <1>4 DEF JoinComing

LEMMA AppendOther ==
  ASSUME NEW q \in Seq(EventOf), NEW e \in EventOf, e # "JOIN", e \notin Departs,
         NEW member, NEW now, NEW known, now => member,
         DepartureLast(q, member), BufferKnown(q, member, known)
  PROVE  DepartureLast(Append(q, e), now) /\ BufferKnown(Append(q, e), now, known)
BY AppendFacts DEF DepartureLast, BufferKnown, JoinComing

LEMMA AppendJoin ==
  ASSUME NEW q \in Seq(EventOf), NEW member, NEW now, NEW known,
         DepartureLast(q, member), BufferKnown(q, member, known)
  PROVE  /\ DepartureLast(Append(q, "JOIN"), now)
         /\ BufferKnown(Append(q, "JOIN"), now, known)
         /\ JoinComing(Append(q, "JOIN"))
<1>1. "JOIN" \in EventOf /\ "JOIN" \notin Departs
  BY DEF EventOf, Departs
<1> QED
  BY <1>1, AppendFacts DEF DepartureLast, BufferKnown, JoinComing

LEMMA AppendDepart ==
  ASSUME NEW q \in Seq(EventOf), NEW e \in Departs, NEW known,
         BufferKnown(q, TRUE, known)
  PROVE  /\ DepartureLast(Append(q, e), FALSE)
         /\ BufferKnown(Append(q, e), FALSE, known)
<1>1. e \in EventOf
  BY DEF EventOf, Departs
<1> QED
  BY <1>1, AppendFacts DEF DepartureLast, BufferKnown, JoinComing

\* The event at the head is handled.
LEMMA TailFacts ==
  ASSUME NEW q \in Seq(EventOf), q # <<>>
  PROVE  /\ 1 \in DOMAIN q /\ Head(q) = q[1]
         /\ \A k \in DOMAIN Tail(q) : k \in Nat \ {0} /\ k + 1 \in DOMAIN q /\ Tail(q)[k] = q[k + 1]
         /\ \A k \in DOMAIN q : k \in Nat \ {0}
                                /\ (k > 1 => k - 1 \in DOMAIN Tail(q) /\ Tail(q)[k - 1] = q[k])
         /\ JoinComing(Tail(q)) => JoinComing(q)
         /\ JoinComing(q) /\ Head(q) # "JOIN" => JoinComing(Tail(q))
<1>1. /\ Len(q) \in Nat \ {0} /\ DOMAIN q = 1..Len(q) /\ DOMAIN Tail(q) = 1..(Len(q) - 1)
      /\ Head(q) = q[1]
  OBVIOUS
<1>2. \A k \in DOMAIN Tail(q) : k \in Nat \ {0} /\ k + 1 \in DOMAIN q /\ Tail(q)[k] = q[k + 1]
  BY <1>1
<1>3. \A k \in DOMAIN q : k \in Nat \ {0}
                          /\ (k > 1 => k - 1 \in DOMAIN Tail(q) /\ Tail(q)[k - 1] = q[k])
  BY <1>1
<1>4. JoinComing(Tail(q)) => JoinComing(q)
  BY <1>2 DEF JoinComing
<1>5. ASSUME JoinComing(q), Head(q) # "JOIN"
      PROVE  JoinComing(Tail(q))
  <2>1. PICK k \in DOMAIN q : q[k] = "JOIN"
    BY <1>5 DEF JoinComing
  <2>2. k > 1
    BY <1>1, <1>3, <1>5, <2>1
  <2> QED
    BY <1>3, <2>1, <2>2 DEF JoinComing
<1> QED
  BY <1>1, <1>2, <1>3, <1>4, <1>5

LEMMA TailFlow ==
  ASSUME NEW q \in Seq(EventOf), q # <<>>, NEW member, NEW known, NEW after,
         DepartureLast(q, member), BufferKnown(q, member, known),
         known => after, Head(q) = "JOIN" => after
  PROVE  /\ DepartureLast(Tail(q), member) /\ BufferKnown(Tail(q), member, after)
         /\ Head(q) \in Departs => known /\ (member => JoinComing(Tail(q)))
<1>1. DepartureLast(Tail(q), member)
  <2> SUFFICES ASSUME NEW k \in DOMAIN Tail(q), Tail(q)[k] \in Departs, member
               PROVE  \E j \in DOMAIN Tail(q) : j > k /\ Tail(q)[j] = "JOIN"
    BY DEF DepartureLast
  <2>1. k \in Nat /\ k + 1 \in DOMAIN q /\ q[k + 1] \in Departs
    BY TailFacts
  <2>2. PICK j \in DOMAIN q : j > k + 1 /\ q[j] = "JOIN"
    BY <2>1 DEF DepartureLast
  <2>3. j \in Nat /\ j > 1 /\ j - 1 > k
    BY <2>1, <2>2, TailFacts
  <2> QED
    BY <2>2, <2>3, TailFacts
<1>2. BufferKnown(Tail(q), member, after)
  <2>1. member => after \/ JoinComing(Tail(q))
    BY TailFacts DEF BufferKnown
  <2>2. ASSUME NEW k \in DOMAIN Tail(q), Tail(q)[k] \in Departs, ~after
        PROVE  \E j \in DOMAIN Tail(q) : j < k /\ Tail(q)[j] = "JOIN"
    <3>1. k \in Nat /\ k + 1 \in DOMAIN q /\ q[k + 1] \in Departs
      BY <2>2, TailFacts
    <3>2. PICK j \in DOMAIN q : j < k + 1 /\ q[j] = "JOIN"
      BY <2>2, <3>1 DEF BufferKnown
    <3>3. j \in Nat \ {0} /\ j # 1
      BY <2>2, <3>2, TailFacts
    <3>4. j > 1 /\ j - 1 < k
      BY <3>1, <3>2, <3>3
    <3> QED
      BY <3>2, <3>4, TailFacts
  <2> QED
    BY <2>1, <2>2 DEF BufferKnown
<1>3. ASSUME Head(q) \in Departs
      PROVE  known /\ (member => JoinComing(Tail(q)))
  <2>1. known
    <3>1. ~ \E j \in DOMAIN q : j < 1 /\ q[j] = "JOIN"
      BY TailFacts
    <3> QED
      BY <1>3, <3>1, TailFacts DEF BufferKnown
  <2>2. ASSUME member
        PROVE  JoinComing(Tail(q))
    <3>1. PICK j \in DOMAIN q : j > 1 /\ q[j] = "JOIN"
      BY <1>3, <2>2, TailFacts DEF DepartureLast
    <3> QED
      BY <3>1, TailFacts DEF JoinComing
  <2> QED
    BY <2>1, <2>2
<1> QED
  BY <1>1, <1>2, <1>3

-----------------------------------------------------------------------------
(* The steps.  Four shapes: the engine says something, the buffer changes    *)
(* and no event does, an event is handled, nothing of all this.              *)

LEMMA InitFlow == Init => FlowInv
<1> SUFFICES ASSUME Init PROVE FlowInv
  OBVIOUS
<1>1. events = <<>> /\ left = FALSE
  BY DEF Init
<1>2. DOMAIN events = {}
  BY <1>1
<1>3. engine.member => Known
  BY DEF Init, Synced, NoBuffer, Known
<1> QED
  BY <1>1, <1>2, <1>3 DEF FlowInv, DepartureLast, BufferKnown, LeftGuarded

\* A step of the engine or the server.
LEMMA SaidFlow ==
  ASSUME TypeOK, FlowInv, UNCHANGED <<buf, left>>,
         snapshot'.joined => snapshot.joined \/ engine.member,
         \/ UNCHANGED events /\ (engine'.member => engine.member)
         \/ \E e \in EventOf \ (Departs \cup {"JOIN"}) :
              events' = Append(events, e) /\ (engine'.member => engine.member)
         \/ events' = Append(events, "JOIN")
         \/ \E e \in Departs : events' = Append(events, e) /\ engine.member /\ ~engine'.member
  PROVE  FlowInv'
<1>1. /\ events \in Seq(EventOf) /\ DepartureLast(events, engine.member)
      /\ BufferKnown(events, engine.member, Known)
      /\ UNCHANGED <<Known, left, buf>>
  BY DEF TypeOK, FlowInv, Known
<1>3. CASE UNCHANGED events /\ (engine'.member => engine.member)
  BY <1>1, <1>3 DEF FlowInv, DepartureLast, BufferKnown, LeftGuarded, JoinComing
<1>4. CASE \E e \in EventOf \ (Departs \cup {"JOIN"}) :
             events' = Append(events, e) /\ (engine'.member => engine.member)
  <2>1. PICK e \in EventOf : /\ e # "JOIN" /\ e \notin Departs
                             /\ events' = Append(events, e) /\ (engine'.member => engine.member)
    BY <1>4
  <2>2. DepartureLast(events', engine'.member) /\ BufferKnown(events', engine'.member, Known')
    BY <1>1, <2>1, AppendOther
  <2>3. JoinComing(events) => JoinComing(events')
    BY <1>1, <2>1, AppendFacts
  <2> QED
    BY <1>1, <2>1, <2>2, <2>3 DEF FlowInv, LeftGuarded
<1>5. CASE events' = Append(events, "JOIN")
  <2>1. /\ DepartureLast(events', engine'.member) /\ BufferKnown(events', engine'.member, Known')
        /\ JoinComing(events')
    BY <1>1, <1>5, AppendJoin
  <2> QED
    BY <1>1, <2>1 DEF FlowInv, LeftGuarded
<1>6. CASE \E e \in Departs : events' = Append(events, e) /\ engine.member /\ ~engine'.member
  <2>1. PICK e \in Departs : events' = Append(events, e) /\ engine.member /\ ~engine'.member
    BY <1>6
  <2>2. BufferKnown(events, TRUE, Known)
    BY <1>1, <2>1 DEF BufferKnown
  <2>3. DepartureLast(events', FALSE) /\ BufferKnown(events', FALSE, Known')
    BY <1>1, <2>1, <2>2, AppendDepart
  <2>4. DepartureLast(events', engine'.member) /\ BufferKnown(events', engine'.member, Known')
    BY <2>1, <2>3 DEF DepartureLast, BufferKnown
  <2>5. e \in EventOf
    BY DEF EventOf, Departs
  <2>6. JoinComing(events) => JoinComing(events')
    BY <1>1, <2>1, <2>5, AppendFacts
  <2> QED
    BY <1>1, <2>1, <2>4, <2>6 DEF FlowInv, LeftGuarded
<1> QED
  BY <1>3, <1>4, <1>5, <1>6

LEMMA EngineFlow ==
  ASSUME TypeOK, FlowInv, Engine
  PROVE  FlowInv'
<1>1. UNCHANGED <<buf, left>> /\ engine \in EngineStates /\ snapshot \in Snapshots
  BY TypeParts DEF Engine, EngineDrops, EngineRetries, EngineConnects, EngineRejoins, TakeConnect,
         TakeDisconnect, TakeJoin, TakePart, TakeMessage, Kicked, OtherClient, SnapshotWritten
<1>2. snapshot'.joined => snapshot.joined \/ engine.member
  <2>1. CASE TakePart \/ Kicked
    BY <1>1, <2>1 DEF TakePart, Kicked, OutOfDate, Snapshots
  <2>2. CASE SnapshotWritten
    BY <2>2 DEF SnapshotWritten, Snapshot
  <2>3. CASE ~(TakePart \/ Kicked \/ SnapshotWritten)
    BY <2>3 DEF Engine, EngineDrops, EngineRetries, EngineConnects, EngineRejoins,
         TakeConnect, TakeDisconnect, TakeJoin, TakeMessage, OtherClient
  <2> QED
    BY <2>1, <2>2, <2>3
<1>3. {"DISCONNECT", "001", "443", "FAIL", "404"} \subseteq EventOf \ (Departs \cup {"JOIN"})
  BY DEF EventOf, Departs
<1>4. ~Dropped(engine).member /\ ~[Dropped(engine) EXCEPT !.stopped = TRUE].member
  BY <1>1 DEF Dropped, EngineStates
<1>5. CASE EngineDrops \/ TakeDisconnect
  <2>1. ~engine'.member /\ (UNCHANGED events \/ events' = Append(events, "DISCONNECT"))
    BY <1>4, <1>5 DEF EngineDrops, TakeDisconnect, Emit
  <2> QED
    BY <1>1, <1>2, <1>3, <2>1, SaidFlow
<1>6. CASE EngineRetries \/ EngineConnects \/ TakeConnect \/ TakeMessage \/ OtherClient
           \/ SnapshotWritten
  <2>1. engine'.member = engine.member
    BY <1>1, <1>6 DEF EngineRetries, EngineConnects, TakeConnect, TakeMessage, OtherClient,
                      SnapshotWritten, EngineStates
  <2>2. UNCHANGED events \/ events' = Append(events, "001") \/ events' = Append(events, "404")
    BY <1>6 DEF EngineRetries, EngineConnects, TakeConnect, TakeMessage, OtherClient,
                SnapshotWritten, Emit
  <2> QED
    BY <1>1, <1>2, <1>3, <2>1, <2>2, SaidFlow
<1>7. CASE EngineRejoins \/ TakeJoin
  <2>1. \/ events' = Append(events, "JOIN")
        \/ events' = Append(events, "FAIL") /\ ~engine'.member
        \/ (UNCHANGED events \/ events' = Append(events, "443")) /\ UNCHANGED engine
    BY <1>1, <1>7 DEF EngineRejoins, TakeJoin, Emit, EngineStates
  <2> QED
    BY <1>1, <1>2, <1>3, <2>1, SaidFlow
<1>8. CASE TakePart \/ Kicked
  <2>1. ~engine'.member
    BY <1>1, <1>8 DEF TakePart, Kicked, EngineStates
  <2>2. \/ events' = Append(events, "PART") /\ engine.member
        \/ events' = Append(events, "KICK") /\ engine.member
        \/ events' = Append(events, "FAIL")
    BY <1>8 DEF TakePart, Kicked, Emit
  <2>3. "PART" \in Departs /\ "KICK" \in Departs
    BY DEF Departs
  <2> QED
    BY <1>1, <1>2, <1>3, <2>1, <2>2, <2>3, SaidFlow
<1> QED
  BY <1>5, <1>6, <1>7, <1>8 DEF Engine

\* A step of the tab or the user that handles no event.
LEMMA QuietFlow ==
  ASSUME FlowInv, UNCHANGED <<engine, snapshot, events>>, Known => Known',
         left' => left /\ ~buf'.inFlight
                  /\ (snapshot.joined /\ buf.pending = "left" => buf'.pending = "left")
  PROVE  FlowInv'
BY DEF FlowInv, DepartureLast, BufferKnown, LeftGuarded

LEMMA UserFlow ==
  ASSUME TypeOK, FlowInv, User
  PROVE  FlowInv'
<1>1. buf \in Buffers /\ tab \in TabStates /\ UNCHANGED <<engine, snapshot, events>>
  BY TypeParts DEF User, Rejoin, Navigate, Part, Write, Disconnect, Reconnect
<1>2. left => ~buf.inFlight /\ Known
  BY DEF FlowInv, LeftGuarded
<1>3. CASE Rejoin
  BY <1>1, <1>3, RejoinType, QuietFlow DEF Rejoin, Known
<1>4. CASE Navigate
  <2> DEFINE b == IF buf.exists THEN [buf EXCEPT !.phantom = FALSE] ELSE Phantom(buf)
  <2>1. Known => b \in Buffers /\ b.exists /\ ~b.phantom /\ b.inFlight = buf.inFlight
                 /\ b.pending = buf.pending
    BY <1>1 DEF Known, Buffers, BufRecords
  <2>2. \/ buf' = Optimistic(b) /\ left' = FALSE
        \/ buf' = b /\ left' = left
    BY <1>4 DEF Navigate
  <2> HIDE DEF b
  <2>3. CASE buf' = Optimistic(b) /\ left' = FALSE
    BY <1>1, <2>1, <2>3, OptimisticType, QuietFlow DEF Known
  <2>4. CASE buf' = b /\ left' = left
    BY <1>1, <1>2, <2>1, <2>4, QuietFlow DEF Known
  <2> QED
    BY <2>2, <2>3, <2>4
<1>5. CASE Part
  <2>1. /\ buf'.exists = buf.exists /\ buf'.phantom = buf.phantom /\ left' = left
        /\ buf'.inFlight = buf.inFlight /\ buf'.pending = buf.pending
    BY <1>1, <1>5 DEF Part, Buffers, BufRecords
  <2> QED
    BY <1>1, <1>2, <2>1, QuietFlow DEF Known
<1>6. CASE Write
  <2>1. CASE ~buf.joined /\ ~buf.inFlight
    BY <1>1, <1>6, <2>1, RejoinType, QuietFlow DEF Write, Known
  <2>2. CASE ~(~buf.joined /\ ~buf.inFlight)
    <3>1. UNCHANGED <<buf, left>>
      BY <1>6, <2>2 DEF Write
    <3> QED
      BY <1>1, <1>2, <3>1, QuietFlow DEF Known
  <2> QED
    BY <2>1, <2>2
<1>7. CASE Disconnect \/ Reconnect
  <2>1. UNCHANGED <<buf, left>>
    BY <1>7 DEF Disconnect, Reconnect
  <2> QED
    BY <1>1, <1>2, <2>1, QuietFlow DEF Known
<1> QED
  BY <1>3, <1>4, <1>5, <1>6, <1>7 DEF User

\* The tab handles the event at the head.
LEMMA HandledFlow ==
  ASSUME TypeOK, FlowInv, UNCHANGED <<engine, snapshot>>,
         events # <<>>, events' = Tail(events), Known => Known',
         Head(events) = "JOIN" => Known' /\ ~left',
         Head(events) \in Departs => buf' = Left(buf),
         left' /\ Head(events) \notin Departs =>
           left /\ buf'.inFlight = buf.inFlight /\ buf'.pending = buf.pending
  PROVE  FlowInv'
<1>1. /\ events \in Seq(EventOf) /\ buf \in Buffers
      /\ DepartureLast(events, engine.member) /\ BufferKnown(events, engine.member, Known)
      /\ LeftGuarded
  BY TypeParts DEF FlowInv
<1>2. "JOIN" \notin Departs
  BY DEF Departs
<1>3. Head(events) = "JOIN" => Known'
  OBVIOUS
<1>4. /\ DepartureLast(events', engine.member) /\ BufferKnown(events', engine.member, Known')
      /\ Head(events) \in Departs => Known /\ (engine.member => JoinComing(events'))
  BY <1>1, <1>3, TailFlow
<1>5. LeftGuarded'
  <2>1. CASE Head(events) = "JOIN"
    BY <2>1 DEF LeftGuarded
  <2>2. CASE Head(events) \in Departs
    <3>1. Known /\ Known' /\ buf' = Left(buf) /\ (engine.member => JoinComing(events'))
      BY <1>2, <1>4, <2>2
    <3>2. ~buf'.inFlight /\ buf'.pending = "left"
      BY <1>1, <3>1, LeftType DEF Known
    <3> QED
      BY <3>1, <3>2 DEF LeftGuarded
  <2>3. CASE Head(events) # "JOIN" /\ Head(events) \notin Departs
    <3>1. left' => left /\ buf'.inFlight = buf.inFlight /\ buf'.pending = buf.pending
      BY <2>3
    <3>2. JoinComing(events) => JoinComing(events')
      BY <1>1, <2>3, TailFacts
    <3> QED
      BY <1>1, <3>1, <3>2 DEF LeftGuarded
  <2> QED
    BY <2>1, <2>2, <2>3
<1> QED
  BY <1>4, <1>5 DEF FlowInv

LEMMA HandleFlow ==
  ASSUME TypeOK, FlowInv, Handle
  PROVE  FlowInv'
<1>1. buf \in Buffers /\ tab \in TabStates /\ events \in Seq(EventOf)
  BY TypeParts
<1>2. events # <<>> /\ events' = Tail(events) /\ UNCHANGED <<engine, snapshot>>
  BY DEF Handle, HandleWelcome, HandleDisconnect, HandleJoin, HandlePart, HandleKick,
         HandleNumeric
<1>3. CASE HandleWelcome
  <2>1. Head(events) = "001" /\ "001" \notin Departs
    BY <1>3 DEF HandleWelcome, Departs
  <2>2. Connected(tab) \in TabStates
    <3>1. "connected" \in Conn
      BY DEF Conn
    <3> QED
      BY <1>1, <3>1, TabTypes
  <2>3. CASE InitiateRejoin(Connected(tab), FALSE)
    BY <1>2, <2>1, <2>2, <2>3, RejoinType, HandledFlow DEF Known
  <2>4. CASE UNCHANGED <<buf, left>>
    BY <1>2, <2>1, <2>4, HandledFlow DEF Known
  <2> QED
    BY <1>3, <2>3, <2>4 DEF HandleWelcome
<1>4. CASE HandleDisconnect
  <2>1. Head(events) = "DISCONNECT" /\ "DISCONNECT" \notin Departs /\ UNCHANGED <<buf, left>>
    BY <1>4 DEF HandleDisconnect, Departs
  <2> QED
    BY <1>2, <2>1, HandledFlow DEF Known
<1>5. CASE HandleJoin
  <2>1. /\ Head(events) = "JOIN" /\ "JOIN" \notin Departs
        /\ buf' = JoinEcho(buf) /\ left' = FALSE
    BY <1>5 DEF HandleJoin, Departs
  <2>2. Known'
    BY <1>1, <2>1, JoinEchoType DEF Known
  <2> QED
    BY <1>2, <2>1, <2>2, HandledFlow
<1>6. CASE HandlePart \/ HandleKick
  <2>1. /\ Head(events) \in Departs /\ Head(events) # "JOIN"
        /\ buf' = Left(buf) /\ left' = buf.exists
    BY <1>6 DEF HandlePart, HandleKick, Departs
  <2> QED
    BY <1>1, <1>2, <2>1, LeftType, HandledFlow DEF Known
<1>7. CASE HandleNumeric
  <2>1. Head(events) # "JOIN" /\ Head(events) \notin Departs
    BY <1>7 DEF HandleNumeric, Departs
  <2>2. /\ buf' \in {AlreadyIn(buf), Refused(buf), CannotSend(buf)}
        /\ left' => left /\ Head(events) = "404" /\ ~buf.joined
        /\ Head(events) = "404" => buf' = CannotSend(buf)
    BY <1>7 DEF HandleNumeric
  <2>3. left' => buf' = buf
    BY <2>2 DEF CannotSend
  <2>4. Known => Known'
    BY <1>1, <2>2, NumericTypes DEF Known
  <2> QED
    BY <1>2, <2>1, <2>2, <2>3, <2>4, HandledFlow
<1> QED
  BY <1>3, <1>4, <1>5, <1>6, <1>7 DEF Handle

LEMMA TabFlow ==
  ASSUME TypeOK, FlowInv, Tab
  PROVE  FlowInv'
<1>1. buf \in Buffers
  BY TypeParts
<1>2. left => ~buf.inFlight /\ Known
  BY DEF FlowInv, LeftGuarded
<1>3. CASE Handle
  BY <1>3, HandleFlow
<1>4. CASE SyncArrives
  <2> DEFINE in == Reported = "joined"
  <2>1. UNCHANGED <<engine, snapshot, events, left>>
        /\ buf' = IF Reported = "absent" THEN Orphan(buf) ELSE Adopt(buf, in)
    BY <1>4 DEF SyncArrives
  <2>2. in \in BOOLEAN /\ (in <=> snapshot.joined) /\ (Reported = "absent" => ~snapshot.joined)
    BY DEF Reported
  <2> HIDE DEF in
  <2>3. Known => Known'
    BY <1>1, <2>1, <2>2, AdoptType, OrphanType DEF Known
  <2>4. left => ~buf'.inFlight
                /\ (snapshot.joined /\ buf.pending = "left" => buf'.pending = "left")
    BY <1>1, <1>2, <2>1, <2>2, AdoptType, OrphanType DEF Known
  <2> QED
    BY <2>1, <2>3, <2>4, QuietFlow
<1>5. CASE DisconnectAnswered \/ GraceExpires
  <2>1. UNCHANGED <<engine, snapshot, events, buf, left>>
    BY <1>5 DEF DisconnectAnswered, GraceExpires
  <2> QED
    BY <1>2, <2>1, QuietFlow DEF Known
<1>6. CASE WsReopens
  <2>1. UNCHANGED <<engine, snapshot, events>> /\ buf' = Settled(buf) /\ left' = FALSE
    BY <1>6 DEF WsReopens
  <2> QED
    BY <1>1, <2>1, SettledType, QuietFlow DEF Known
<1> QED
  BY <1>3, <1>4, <1>5, <1>6 DEF Tab

LEMMA Inductive == TypeOK /\ FlowInv /\ [Next]_vars => (TypeOK /\ FlowInv)'
<1> SUFFICES ASSUME TypeOK, FlowInv, [Next]_vars PROVE TypeOK' /\ FlowInv'
  OBVIOUS
<1>1. CASE Engine
  BY <1>1, EngineTypes, EngineFlow
<1>2. CASE User
  BY <1>2, UserTypes, UserFlow
<1>3. CASE Tab
  BY <1>3, TabStepTypes, TabFlow
<1>4. CASE UNCHANGED vars
  <2>1. TypeOK'
    BY <1>4 DEF TypeOK, vars
  <2>2. FlowInv'
    BY <1>4 DEF FlowInv, DepartureLast, BufferKnown, LeftGuarded, JoinComing, Known, vars
  <2> QED
    BY <2>1, <2>2
<1> QED
  BY <1>1, <1>2, <1>3, <1>4 DEF Next

-----------------------------------------------------------------------------
(* The theorems. *)

\* Every variable keeps its type and a buffer that is not there is empty, for any
\* number of events and commands and any threshold (removed phantoms, orphans).
THEOREM SyncTypes == Spec => []TypeOK
<1>1. TypeOK /\ FlowInv /\ [Next]_vars => (TypeOK /\ FlowInv)'
  BY Inductive
<1> QED
  BY <1>1, InitTypes, InitFlow, PTL DEF Spec

\* What the order of live events guarantees: a membership the engine still
\* announces follows every departure, and a departure handled is guarded.
THEOREM FlowInvariant == Spec => []FlowInv
<1>1. TypeOK /\ FlowInv /\ [Next]_vars => (TypeOK /\ FlowInv)'
  BY Inductive
<1> QED
  BY <1>1, InitTypes, InitFlow, PTL DEF Spec

\* However many syncs, drops and reconnections lie between, a snapshot written
\* before a PART or KICK the tab has handled does not put the user back into the
\* channel (pendingIsJoined).
THEOREM PartsSurvive == Spec => PartSurvivesSync
<1> DEFINE Survives == (/\ SyncArrives /\ ~buf.joined /\ left /\ snapshot.stale
                        /\ \A k \in DOMAIN events : events[k] # "JOIN") => ~buf'.joined
<1>1. TypeOK /\ FlowInv => Survives
  <2> SUFFICES ASSUME TypeOK, FlowInv, SyncArrives, ~buf.joined, left,
                      \A k \in DOMAIN events : events[k] # "JOIN"
               PROVE  ~buf'.joined
    BY DEF Survives
  <2>1. buf \in Buffers /\ ~JoinComing(events)
    BY TypeParts DEF JoinComing
  <2>2. /\ buf.exists /\ ~buf.phantom /\ ~buf.inFlight
        /\ snapshot.joined => buf.pending = "left"
    BY <2>1 DEF FlowInv, LeftGuarded, Known
  <2> DEFINE in == Reported = "joined"
  <2>3. /\ buf' = IF Reported = "absent" THEN Orphan(buf) ELSE Adopt(buf, in)
        /\ in \in BOOLEAN /\ (in <=> snapshot.joined)
    BY DEF SyncArrives, Reported
  <2> HIDE DEF in
  <2> QED
    BY <2>1, <2>2, <2>3, AdoptType, OrphanType
<1>2. TypeOK /\ FlowInv => [Survives]_vars
  BY <1>1
<1> QED
  BY <1>2, SyncTypes, FlowInvariant, PTL DEF PartSurvivesSync
=============================================================================
