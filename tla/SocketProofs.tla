---------------------------- MODULE SocketProofs ----------------------------
(***************************************************************************)
(* Proofs about the two ends of a tab's stream: WsClient, the client in    *)
(* the browser, and OutboundDrain, the queue and drainer of its session on *)
(* the server.                                                             *)
(*                                                                         *)
(* WsClient, for any number of messages and poll loops and any capacity of *)
(* the queue: a mounted tab always has a socket or a timer that will make  *)
(* one (TabNeverStranded), a message the user sent is on a socket, queued  *)
(* or refused (MessagesAccounted), and no poll runs beside an open socket  *)
(* but after the late close of a dropped one (NoPollBesideSocket).         *)
(*                                                                         *)
(* OutboundDrain, for any capacity, batch size and number of frames: the   *)
(* types, that no accepted frame is lost, repeated or reordered            *)
(* (FramesKeptInOrder), and that a live session keeps its drainer          *)
(* (LiveSessionDrained).                                                   *)
(***************************************************************************)
EXTENDS WsClient, OutboundDrain, SequenceTheorems, TLAPS

-----------------------------------------------------------------------------
(* The client *)

SocketStates == {"none", "connecting", "open", "closing", "closed"}

\* The types the two invariants rest on.
ClientTypes ==
    /\ mounted \in BOOLEAN /\ timer \in BOOLEAN
    /\ cur \in SocketStates
    /\ nextMsg \in 1..(MaxMsgs + 1)
    /\ queue \in Seq(1..MaxMsgs) /\ sent \in Seq(1..MaxMsgs)
    /\ refused \subseteq 1..MaxMsgs

\* ClientTypes is part of it because a socket in none of the five states would
\* be neither reconnected nor closed.
ClientInv == ClientTypes /\ NeverStranded /\ NoMessageLost

-----------------------------------------------------------------------------
(* Sequences as sets. *)

LEMMA ElemsConcat ==
    ASSUME NEW S, NEW s \in Seq(S), NEW t \in Seq(S)
    PROVE  /\ s \o t \in Seq(S) /\ Len(s \o t) = Len(s) + Len(t)
           /\ Elems(s \o t) = Elems(s) \cup Elems(t)
<1>1. s \o t \in Seq(S) /\ Len(s \o t) = Len(s) + Len(t)
    OBVIOUS
<1>2. ASSUME NEW x \in Elems(s \o t)
      PROVE  x \in Elems(s) \cup Elems(t)
    <2>1. PICK i \in 1..Len(s \o t) : x = (s \o t)[i]
        BY DEF Elems
    <2>2. CASE i <= Len(s)
        BY <2>1, <2>2 DEF Elems
    <2>3. CASE i > Len(s)
        <3>1. i - Len(s) \in 1..Len(t) /\ x = t[i - Len(s)]
            BY <1>1, <2>1, <2>3
        <3> QED
            BY <3>1 DEF Elems
    <2> QED
        BY <1>1, <2>1, <2>2, <2>3
<1>3. ASSUME NEW x \in Elems(s)
      PROVE  x \in Elems(s \o t)
    <2>1. PICK i \in 1..Len(s) : x = s[i]
        BY DEF Elems
    <2>2. i \in 1..Len(s \o t) /\ x = (s \o t)[i]
        BY <1>1, <2>1
    <2> QED
        BY <2>2 DEF Elems
<1>4. ASSUME NEW x \in Elems(t)
      PROVE  x \in Elems(s \o t)
    <2>1. PICK i \in 1..Len(t) : x = t[i]
        BY DEF Elems
    <2>2. Len(s) + i \in 1..Len(s \o t) /\ x = (s \o t)[Len(s) + i]
        BY <1>1, <2>1
    <2> QED
        BY <2>2 DEF Elems
<1> QED
    BY <1>1, <1>2, <1>3, <1>4

LEMMA ElemsOne ==
    ASSUME NEW S, NEW m \in S
    PROVE  <<m>> \in Seq(S) /\ Len(<<m>>) = 1 /\ Elems(<<m>>) = {m}
BY DEF Elems

LEMMA ElemsAppend ==
    ASSUME NEW S, NEW s \in Seq(S), NEW m \in S
    PROVE  /\ Append(s, m) \in Seq(S) /\ Len(Append(s, m)) = Len(s) + 1
           /\ Elems(Append(s, m)) = Elems(s) \cup {m}
<1>1. Append(s, m) = s \o <<m>>
    OBVIOUS
<1> DEFINE one == <<m>>
<1>2. one \in Seq(S) /\ Len(one) = 1 /\ Elems(one) = {m}
    BY ElemsOne
<1> HIDE DEF one
<1>3. /\ s \o one \in Seq(S) /\ Len(s \o one) = Len(s) + Len(one)
      /\ Elems(s \o one) = Elems(s) \cup Elems(one)
    BY <1>2, ElemsConcat
<1> QED
    BY <1>1, <1>2, <1>3 DEF one

LEMMA ElemsPrepend ==
    ASSUME NEW S, NEW s \in Seq(S), NEW m \in S
    PROVE  /\ <<m>> \o s \in Seq(S) /\ Len(<<m>> \o s) = Len(s) + 1
           /\ Elems(<<m>> \o s) = {m} \cup Elems(s)
<1> DEFINE one == <<m>>
<1>1. one \in Seq(S) /\ Len(one) = 1 /\ Elems(one) = {m}
    BY ElemsOne
<1> HIDE DEF one
<1>2. /\ one \o s \in Seq(S) /\ Len(one \o s) = Len(one) + Len(s)
      /\ Elems(one \o s) = Elems(one) \cup Elems(s)
    <2>1. \A a, b \in Seq(S) : /\ a \o b \in Seq(S) /\ Len(a \o b) = Len(a) + Len(b)
                               /\ Elems(a \o b) = Elems(a) \cup Elems(b)
        BY ElemsConcat
    <2> QED
        BY <1>1, <2>1
<1>3. Len(one) + Len(s) = Len(s) + 1
    BY <1>1
<1> QED
    BY <1>1, <1>2, <1>3 DEF one

LEMMA ElemsEmpty ==
    ASSUME NEW S
    PROVE  <<>> \in Seq(S) /\ Len(<<>>) = 0 /\ Elems(<<>>) = {}
BY DEF Elems

-----------------------------------------------------------------------------
(* The steps.  Those that send nothing leave NoMessageLost alone, those that *)
(* leave the socket and its timer alone keep NeverStranded.                  *)

LEMMA SocketStep ==
    ASSUME ClientInv, UNCHANGED sendVars,
           mounted' \in BOOLEAN, timer' \in BOOLEAN, cur' \in SocketStates,
           mounted' /\ cur' \in {"none", "closed"} => timer'
    PROVE  ClientInv'
BY DEF ClientInv, ClientTypes, NeverStranded, NoMessageLost, sendVars

LEMMA SendStep ==
    ASSUME ClientInv, Send
    PROVE  ClientInv'
<1>1. /\ nextMsg \in 1..MaxMsgs /\ nextMsg' = nextMsg + 1 /\ MaxMsgs \in Nat
      /\ queue \in Seq(1..MaxMsgs) /\ sent \in Seq(1..MaxMsgs)
      /\ Len(queue) \in Nat /\ Len(sent) \in Nat
      /\ UNCHANGED <<mounted, timer, cur>>
    BY WsClientAssumption DEF ClientInv, ClientTypes, Send, socketVars
<1>2. 1..(nextMsg' - 1) = (1..(nextMsg - 1)) \cup {nextMsg} /\ nextMsg' - 1 = (nextMsg - 1) + 1
    BY <1>1
<1>3. ClientTypes /\ NeverStranded /\ NoMessageLost
    BY DEF ClientInv
<1>4. CASE sent' = Append(sent, nextMsg) /\ UNCHANGED <<queue, refused>>
    <2>1. /\ sent' \in Seq(1..MaxMsgs) /\ Len(sent') = Len(sent) + 1
          /\ Elems(sent') = Elems(sent) \cup {nextMsg}
        BY <1>1, <1>4, ElemsAppend
    <2>2. NoMessageLost'
        BY <1>1, <1>2, <1>3, <1>4, <2>1 DEF NoMessageLost
    <2> QED
        BY <1>1, <1>3, <1>4, <2>1, <2>2 DEF ClientInv, ClientTypes, NeverStranded
<1>5. CASE queue' = Enqueued(nextMsg) /\ UNCHANGED <<sent, refused>>
    <2>1. /\ queue' \in Seq(1..MaxMsgs) /\ Len(queue') = Len(queue) + 1
          /\ Elems(queue') = Elems(queue) \cup {nextMsg}
        <3>1. Elems(queue) \cup {nextMsg} = {nextMsg} \cup Elems(queue)
            OBVIOUS
        <3>2. CASE nextMsg \in Joins
            BY <1>1, <1>5, <3>1, <3>2, ElemsPrepend DEF Enqueued
        <3>3. CASE nextMsg \notin Joins
            <4>1. queue' = Append(queue, nextMsg)
                BY <1>5, <3>3 DEF Enqueued
            <4> QED
                BY <1>1, <4>1, ElemsAppend
        <3> QED
            BY <3>2, <3>3
    <2>2. NoMessageLost'
        BY <1>1, <1>2, <1>3, <1>5, <2>1 DEF NoMessageLost
    <2> QED
        BY <1>1, <1>3, <1>5, <2>1, <2>2 DEF ClientInv, ClientTypes, NeverStranded
<1>6. CASE refused' = refused \cup {nextMsg} /\ UNCHANGED <<queue, sent>>
    <2>1. NoMessageLost'
        BY <1>1, <1>2, <1>3, <1>6 DEF NoMessageLost
    <2> QED
        BY <1>1, <1>3, <1>6, <2>1 DEF ClientInv, ClientTypes, NeverStranded
<1> QED
    BY <1>4, <1>5, <1>6 DEF Send

LEMMA OpenedStep ==
    ASSUME ClientInv, Opened
    PROVE  ClientInv'
<1>1. /\ queue \in Seq(1..MaxMsgs) /\ sent \in Seq(1..MaxMsgs)
      /\ Len(queue) \in Nat /\ Len(sent) \in Nat
      /\ ClientTypes /\ NoMessageLost
    BY DEF ClientInv, ClientTypes
<1>2. /\ sent' = sent \o queue /\ queue' = <<>>
      /\ cur' = "open" /\ UNCHANGED <<mounted, timer, nextMsg, refused>>
    BY DEF Opened, Flush
<1>3. /\ sent' \in Seq(1..MaxMsgs) /\ Len(sent') = Len(sent) + Len(queue)
      /\ Elems(sent') = Elems(sent) \cup Elems(queue)
    BY <1>1, <1>2, ElemsConcat
<1>4. queue' \in Seq(1..MaxMsgs) /\ Len(queue') = 0 /\ Elems(queue') = {}
    BY <1>2, ElemsEmpty
<1>5. NoMessageLost'
    BY <1>1, <1>2, <1>3, <1>4 DEF NoMessageLost
<1> QED
    BY <1>1, <1>2, <1>3, <1>4, <1>5 DEF ClientInv, ClientTypes, NeverStranded, SocketStates

LEMMA ClientInit == Init => ClientInv
<1> SUFFICES ASSUME Init PROVE ClientInv
    OBVIOUS
<1>1. <<>> \in Seq(1..MaxMsgs) /\ Len(<<>>) = 0 /\ Elems(<<>>) = {}
    BY ElemsEmpty
<1>2. ClientTypes
    <2>1. 1 \in 1..(MaxMsgs + 1)
        BY WsClientAssumption
    <2> QED
        BY <1>1, <2>1 DEF Init, ClientTypes, SocketStates
<1>3. 1..(nextMsg - 1) = {} /\ Len(sent) + Len(queue) <= nextMsg - 1
    BY <1>1 DEF Init
<1>4. NoMessageLost
    BY <1>1, <1>3 DEF Init, NoMessageLost
<1> QED
    BY <1>2, <1>4 DEF Init, ClientInv, NeverStranded

LEMMA ClientStep == ClientInv /\ [Next]_vars => ClientInv'
<1> SUFFICES ASSUME ClientInv, [Next]_vars PROVE ClientInv'
    OBVIOUS
<1>1. /\ mounted \in BOOLEAN /\ timer \in BOOLEAN /\ cur \in SocketStates
      /\ (mounted /\ cur \in {"none", "closed"} => timer)
    BY DEF ClientInv, ClientTypes, NeverStranded
<1>2. CASE Start
    BY <1>1, <1>2, SocketStep DEF Start, ConnectWebSocket, SocketStates
<1>3. CASE Opened
    BY <1>3, OpenedStep
<1>4. CASE ServerCloses
    BY <1>1, <1>4, SocketStep DEF ServerCloses, SocketStates
<1>5. CASE Closed
    BY <1>1, <1>5, SocketStep DEF Closed, CloseHandler, SocketStates
<1>6. CASE DroppedCloses
    BY <1>1, <1>6, SocketStep DEF DroppedCloses, CloseHandler
<1>7. CASE ReconnectTimer
    BY <1>1, <1>7, SocketStep DEF ReconnectTimer, ConnectWebSocket, SocketStates
<1>8. CASE Disconnect
    BY <1>1, <1>8, SocketStep DEF Disconnect, SocketStates
<1>9. CASE Send
    BY <1>9, SendStep
<1>10. CASE \E c \in Polls : PollTimer(c) \/ PollAnswered(c) \/ PollDenied(c)
    BY <1>1, <1>10, SocketStep DEF PollTimer, PollAnswered, PollDenied, socketVars
<1>11. CASE UNCHANGED vars
    BY <1>1, <1>11, SocketStep DEF vars, socketVars
<1> QED
    BY <1>2, <1>3, <1>4, <1>5, <1>6, <1>7, <1>8, <1>9, <1>10, <1>11 DEF Next

-----------------------------------------------------------------------------
(* The poll.  A fetch is tied to the controller, and while a socket is open *)
(* there is none unless a dropped socket's close event made it.             *)

PollStates == {"off", "sleep", "fetch"}

PollInv ==
    /\ poll \in [Polls -> PollStates] /\ controller \in BOOLEAN /\ late \in BOOLEAN
    /\ \A c \in Polls : poll[c] = "fetch" => controller
    /\ cur = "open" /\ ~late => ~controller /\ wsState = "connected"

LEMMA StopKeepsPolls ==
    ASSUME PollInv, StopXHR
    PROVE  /\ poll' \in [Polls -> PollStates] /\ controller' = FALSE
           /\ \A c \in Polls : poll'[c] # "fetch"
BY DEF PollInv, StopXHR, PollStates

LEMMA StartKeepsPolls ==
    ASSUME PollInv, StartXHR
    PROVE  /\ poll' \in [Polls -> PollStates] /\ controller' \in BOOLEAN
           /\ \A c \in Polls : poll'[c] = "fetch" => controller'
BY DEF PollInv, StartXHR, PollStates

LEMMA CloseKeepsPolls ==
    ASSUME PollInv, CloseHandler
    PROVE  /\ poll' \in [Polls -> PollStates] /\ controller' \in BOOLEAN
           /\ \A c \in Polls : poll'[c] = "fetch" => controller'
<1>1. CASE timer
    BY <1>1 DEF PollInv, CloseHandler
<1>2. CASE ~timer
    BY <1>2, StartKeepsPolls DEF CloseHandler
<1> QED
    BY <1>1, <1>2

LEMMA PollInit == Init => PollInv
BY DEF Init, PollInv, PollStates

LEMMA PollStep == PollInv /\ [Next]_vars => PollInv'
<1> SUFFICES ASSUME PollInv, [Next]_vars PROVE PollInv'
    OBVIOUS
<1>1. CASE Start
    BY <1>1 DEF PollInv, Start, ConnectWebSocket, xhrVars
<1>2. CASE Opened
    BY <1>2, StopKeepsPolls DEF PollInv, Opened
<1>3. CASE ServerCloses
    BY <1>3 DEF PollInv, ServerCloses, xhrVars
<1>4. CASE Closed
    BY <1>4, CloseKeepsPolls DEF PollInv, Closed
<1>5. CASE DroppedCloses
    BY <1>5, CloseKeepsPolls DEF PollInv, DroppedCloses
<1>6. CASE ReconnectTimer
    BY <1>6 DEF PollInv, ReconnectTimer, ConnectWebSocket, xhrVars
<1>7. CASE Disconnect
    BY <1>7 DEF PollInv, Disconnect, xhrVars
<1>8. CASE Send
    BY <1>8 DEF PollInv, Send, socketVars, xhrVars
<1>9. ASSUME NEW c \in Polls, PollTimer(c)
      PROVE  PollInv'
    BY <1>9 DEF PollInv, PollTimer, PollTurn, PollStates, socketVars
<1>10. ASSUME NEW c \in Polls, PollAnswered(c)
       PROVE  PollInv'
    <2>1. controller
        BY <1>10 DEF PollInv, PollAnswered
    <2> QED
        BY <1>10, <2>1 DEF PollInv, PollAnswered, PollStates, socketVars
<1>11. ASSUME NEW c \in Polls, PollDenied(c)
       PROVE  PollInv'
    BY <1>11, StopKeepsPolls DEF PollInv, PollDenied, socketVars
<1>12. CASE UNCHANGED vars
    BY <1>12 DEF PollInv, vars, socketVars, xhrVars
<1> QED
    BY <1>1, <1>2, <1>3, <1>4, <1>5, <1>6, <1>7, <1>8, <1>9, <1>10, <1>11, <1>12 DEF Next

-----------------------------------------------------------------------------
(* The theorems. *)

\* The inductive invariant.
THEOREM ClientInvariant == Spec => []ClientInv
BY ClientInit, ClientStep, PTL DEF Spec

\* However late close events, timers, disconnects and starts interleave, a
\* mounted tab without a live socket has its reconnect timer set.
THEOREM TabNeverStranded == Spec => []NeverStranded
<1>1. ClientInv => NeverStranded
    BY DEF ClientInv
<1> QED
    BY <1>1, ClientInvariant, PTL

\* Whatever the order of sends, openings and losses, a message is handed to a
\* socket, queued or refused by a full queue, and no two copies of one are made.
THEOREM MessagesAccounted == Spec => []NoMessageLost
<1>1. ClientInv => NoMessageLost
    BY DEF ClientInv
<1> QED
    BY <1>1, ClientInvariant, PTL

\* Whatever loops earlier outages left asleep, none fetches while a socket is open,
\* until a socket that disconnectWebSocket dropped closes after its successor opened.
THEOREM NoPollBesideSocket == Spec => []PollsOnlyBridge
<1>1. PollInv => PollsOnlyBridge
    BY DEF PollInv, PollsOnlyBridge
<1> QED
    BY <1>1, PollInit, PollStep, PTL DEF Spec

-----------------------------------------------------------------------------
(* The session's outbound queue *)

Frames == 1..MaxFrames

(* The drainer holds a batch only between its drain and its send.          *)
BatchOnlyToSend == pc # "send" => batch = <<>>

DrainInv == TypeOK /\ BatchOnlyToSend /\ NothingLostInOrder /\ DrainerOutlivesSession

-----------------------------------------------------------------------------
(* Concatenation of frames is associative.                                 *)
LEMMA Regroup ==
    \A s, b, q \in Seq(Frames) : (s \o b) \o q = s \o (b \o q)
  BY ConcatAssociative

(* Appending to the queue appends to all there is.                         *)
LEMMA AppendToQueue ==
    ASSUME NEW s \in Seq(Frames), NEW b \in Seq(Frames), NEW q \in Seq(Frames),
           NEW f \in Frames
    PROVE  Append(s \o b \o q, f) = s \o b \o Append(q, f)
<1>1. /\ s \o b \in Seq(Frames) /\ (s \o b) \o q \in Seq(Frames)
      /\ <<f>> \in Seq(Frames)
  BY ConcatProperties
<1>2. Append((s \o b) \o q, f) = ((s \o b) \o q) \o <<f>>
  BY <1>1, AppendIsConcat
<1>3. ((s \o b) \o q) \o <<f>> = (s \o b) \o (q \o <<f>>)
  BY <1>1, ConcatAssociative
<1>4. Append(q, f) = q \o <<f>>
  BY AppendIsConcat
<1> QED BY <1>2, <1>3, <1>4

(* What a drain pops and what it leaves make up the queue.                 *)
LEMMA DrainSplits ==
    ASSUME OutboundDrainAssumption, NEW q \in Seq(Frames)
    PROVE  LET n == FewerOf(BatchMax, Len(q))
           IN  /\ SubSeq(q, 1, n) \in Seq(Frames) /\ Len(SubSeq(q, 1, n)) <= BatchMax
               /\ SubSeq(q, n + 1, Len(q)) \in Seq(Frames)
               /\ Len(SubSeq(q, n + 1, Len(q))) <= Len(q)
               /\ SubSeq(q, 1, n) \o SubSeq(q, n + 1, Len(q)) = q
               /\ n = 0 => SubSeq(q, 1, n) = <<>>
<1> DEFINE n == FewerOf(BatchMax, Len(q))
<1>1. n \in 0..Len(q) /\ n <= BatchMax /\ BatchMax \in Nat /\ Len(q) \in Nat
  BY DEF FewerOf, OutboundDrainAssumption
<1> HIDE DEF n, Frames
<1>2. \A i \in 1..Len(q) : q[i] \in Frames
  BY ElementOfSeq
<1>3. /\ SubSeq(q, 1, n) \in Seq(Frames)
      /\ Len(SubSeq(q, 1, n)) = IF 1 <= n THEN n ELSE 0
  BY <1>1, <1>2, SubSeqProperties
<1>4. /\ SubSeq(q, n + 1, Len(q)) \in Seq(Frames)
      /\ Len(SubSeq(q, n + 1, Len(q))) <= Len(q)
  <2>1. n + 1 \in Int /\ Len(q) \in Int /\ \A i \in (n + 1)..Len(q) : q[i] \in Frames
    BY <1>1, <1>2
  <2>2. /\ SubSeq(q, n + 1, Len(q)) \in Seq(Frames)
        /\ Len(SubSeq(q, n + 1, Len(q))) =
               IF n + 1 <= Len(q) THEN Len(q) - (n + 1) + 1 ELSE 0
    BY <2>1, SubSeqProperties
  <2> QED BY <1>1, <2>2
<1>5. SubSeq(q, 1, n) \o SubSeq(q, n + 1, Len(q)) = q
  <2>1. 1 \in 1..Len(q) + 1 /\ n \in (1 - 1)..Len(q) /\ Len(q) \in n..Len(q)
    BY <1>1
  <2>2. SubSeq(q, 1, n) \o SubSeq(q, n + 1, Len(q)) = SubSeq(q, 1, Len(q))
    BY <2>1, ConcatAdjacentSubSeq, Zenon
  <2>3. SubSeq(q, 1, Len(q)) = q
    BY SubSeqFull, Zenon
  <2> QED BY <2>2, <2>3
<1>6. n = 0 => SubSeq(q, 1, n) = <<>>
  BY <1>1, SubSeqEmpty
<1> QED BY <1>1, <1>3, <1>4, <1>5, <1>6 DEF n

-----------------------------------------------------------------------------
(* A new session satisfies the invariant.                                  *)
LEMMA NewSessionInv == DrainInit => DrainInv
<1> SUFFICES ASSUME DrainInit PROVE DrainInv
  OBVIOUS
<1>1. TypeOK
  BY OutboundDrainAssumption DEF DrainInit, TypeOK, OutboundDrainAssumption
<1>2. BatchOnlyToSend /\ NothingLostInOrder /\ DrainerOutlivesSession
  BY DEF DrainInit, BatchOnlyToSend, NothingLostInOrder, DrainerOutlivesSession
<1> QED BY <1>1, <1>2 DEF DrainInv

(* Putting a frame keeps the invariant.                                    *)
LEMMA SendToSessionInv ==
    ASSUME DrainInv, SendToSession
    PROVE  DrainInv'
<1> USE DEF DrainInv
<1>0. written \in Seq(Frames) /\ batch \in Seq(Frames) /\ outbound \in Seq(Frames)
  BY DEF TypeOK, Frames
<1>1. nextFrame \in Frames /\ nextFrame' \in 1..(MaxFrames + 1)
  BY OutboundDrainAssumption DEF SendToSession, TypeOK, Frames, OutboundDrainAssumption
<1>2. UNCHANGED <<present, isActive, pc, ticket, batch, written, connected, handler, revoker>>
  BY DEF SendToSession, sessionVars, drainVars, endVars
<1>3. CASE UNCHANGED <<outbound, accepted>>
  <2>1. /\ lastEnqueuedEid' \in {lastEnqueuedEid, nextFrame}
        /\ emitCount' \in {emitCount, emitCount + 1}
        /\ skipped' \subseteq skipped \cup {nextFrame}
    BY <1>1 DEF SendToSession
  <2>2. /\ lastEnqueuedEid' \in 0..MaxFrames
        /\ emitCount' \in Nat
        /\ skipped' \subseteq Frames
    BY <1>1, <2>1 DEF TypeOK, Frames
  <2> QED BY <1>1, <1>2, <1>3, <2>2
          DEF TypeOK, Frames, BatchOnlyToSend, NothingLostInOrder, DrainerOutlivesSession
<1>4. CASE ~UNCHANGED <<outbound, accepted>>
  <2>1. /\ ~Full
        /\ outbound' = Append(outbound, nextFrame)
        /\ accepted' = Append(accepted, nextFrame)
        /\ emitCount' = emitCount + 1
        /\ lastEnqueuedEid' = nextFrame
        /\ UNCHANGED skipped
    BY <1>4 DEF SendToSession
  <2>2. TypeOK'
    <3>1. outbound' \in Seq(Frames) /\ Len(outbound') <= QueueCap
      BY <1>1, <2>1, OutboundDrainAssumption DEF Full, TypeOK, Frames, OutboundDrainAssumption
    <3>2. accepted' \in Seq(Frames)
      BY <1>1, <2>1 DEF TypeOK, Frames
    <3>3. emitCount' \in Nat /\ lastEnqueuedEid' \in 0..MaxFrames
      BY <1>1, <2>1 DEF TypeOK, Frames
    <3> QED BY <1>1, <1>2, <2>1, <3>1, <3>2, <3>3 DEF TypeOK, Frames
  <2>3. NothingLostInOrder'
    <3>1. Append(written \o batch \o outbound, nextFrame)
            = written \o batch \o Append(outbound, nextFrame)
      <4>1. /\ written \in Seq(Frames) /\ batch \in Seq(Frames)
            /\ outbound \in Seq(Frames) /\ nextFrame \in Frames
        BY <1>0, <1>1
      <4> QED BY <4>1, AppendToQueue, ZenonT(40)
    <3> QED BY <1>2, <2>1, <3>1 DEF NothingLostInOrder
  <2> QED BY <1>2, <2>2, <2>3 DEF BatchOnlyToSend, DrainerOutlivesSession
<1> QED BY <1>3, <1>4

(* A step of the drainer keeps the invariant.                              *)
LEMMA DrainerInv ==
    ASSUME DrainInv, Drainer
    PROVE  DrainInv'
<1> USE DEF DrainInv
<1>0. written \in Seq(Frames) /\ batch \in Seq(Frames) /\ outbound \in Seq(Frames)
  BY DEF TypeOK, Frames
<1>1. CASE DrainOutbound
  <2>1. CASE Gone
    BY <1>1, <2>1 DEF DrainOutbound, Gone, TypeOK, BatchOnlyToSend, NothingLostInOrder,
       DrainerOutlivesSession, sessionVars, endVars
  <2>2. CASE ~Gone
    <3> DEFINE n == FewerOf(BatchMax, Len(outbound))
    <3>1. /\ batch' = SubSeq(outbound, 1, n) /\ outbound' = SubSeq(outbound, n + 1, Len(outbound))
          /\ pc' = IF n = 0 THEN "stamp" ELSE "send"
          /\ pc = "drain"
          /\ UNCHANGED <<nextFrame, lastEnqueuedEid, accepted, skipped, present, isActive,
                         emitCount, ticket, written, connected, handler, revoker>>
      BY <1>1, <2>2 DEF DrainOutbound, Rest, sessionVars, endVars
    <3>2. /\ batch' \in Seq(Frames) /\ Len(batch') <= BatchMax
          /\ outbound' \in Seq(Frames) /\ Len(outbound') <= Len(outbound)
          /\ batch' \o outbound' = outbound
          /\ n = 0 => batch' = <<>>
      BY <1>0, <3>1, DrainSplits, OutboundDrainAssumption
    <3> HIDE DEF n
    <3>3. TypeOK'
      <4>1. Len(outbound') <= QueueCap
        BY <3>2, OutboundDrainAssumption DEF TypeOK, Frames, OutboundDrainAssumption
      <4>2. pc' \in {"stamp", "send"}
        BY <3>1
      <4> QED BY <3>1, <3>2, <4>1, <4>2 DEF TypeOK, Frames
    <3>4. BatchOnlyToSend'
      BY <3>1, <3>2 DEF BatchOnlyToSend
    <3>5. NothingLostInOrder'
      <4>1. accepted = written \o batch \o outbound /\ batch = <<>>
        BY <3>1 DEF NothingLostInOrder, BatchOnlyToSend
      <4>2. accepted = written \o outbound
        BY <1>0, <4>1, ConcatEmptySeq
      <4>3. (written \o batch') \o outbound' = written \o (batch' \o outbound')
        <5>1. written \in Seq(Frames) /\ batch' \in Seq(Frames) /\ outbound' \in Seq(Frames)
          BY <1>0, <3>2
        <5> QED BY <5>1, Regroup
      <4> QED BY <3>1, <3>2, <4>2, <4>3 DEF NothingLostInOrder
    <3> QED BY <3>1, <3>3, <3>4, <3>5 DEF DrainerOutlivesSession
  <2> QED BY <2>1, <2>2
<1>2. CASE StampTicket \/ Wake \/ WaitTimeout
  BY <1>2 DEF StampTicket, Wake, WaitTimeout, TypeOK, BatchOnlyToSend, NothingLostInOrder,
     DrainerOutlivesSession, queueVars, sessionVars, endVars
<1>3. CASE SendBatch
  <2>1. /\ batch' = <<>>
        /\ UNCHANGED <<nextFrame, outbound, lastEnqueuedEid, accepted, skipped, present, isActive,
                       emitCount, ticket, connected, handler, revoker>>
    BY <1>3 DEF SendBatch, queueVars, sessionVars, endVars
  <2>2. CASE connected
    <3>1. pc = "send" /\ pc' = "drain" /\ written' = written \o batch
      BY <1>3, <2>2 DEF SendBatch
    <3>2. written' \in Seq(Frames) /\ written' \o <<>> = written'
      BY <1>0, <3>1, ConcatProperties, ConcatEmptySeq
    <3>3. TypeOK'
      BY <2>1, <3>1, <3>2, OutboundDrainAssumption DEF TypeOK, Frames, OutboundDrainAssumption
    <3> QED BY <2>1, <3>1, <3>2, <3>3
            DEF BatchOnlyToSend, NothingLostInOrder, DrainerOutlivesSession
  <2>3. CASE ~connected
    <3>1. pc' = "exit" /\ written' = written
      BY <1>3, <2>3 DEF SendBatch
    <3>2. TypeOK'
      BY <2>1, <3>1, OutboundDrainAssumption DEF TypeOK, OutboundDrainAssumption
    <3> QED BY <2>1, <2>3, <3>1, <3>2
            DEF BatchOnlyToSend, NothingLostInOrder, DrainerOutlivesSession
  <2> QED BY <2>2, <2>3
<1> QED BY <1>1, <1>2, <1>3 DEF Drainer

(* Losing the socket and destroying the session, from either side, keep    *)
(* the invariant: nothing brings a session back.                           *)
LEMMA EndingInv ==
    ASSUME DrainInv, Ending
    PROVE  DrainInv'
<1> USE DEF DrainInv
<1>1. /\ UNCHANGED <<queueVars, drainVars>>
      /\ present' => present
      /\ isActive' => isActive
      /\ connected' => connected
  BY DEF Ending, SocketDrops, Deactivate, HandlerDestroys, HandlerNotifies, RevokerDestroys,
     RevokerNotifies, RevokerCloses, Unmap, sessionVars, drainVars, queueVars
<1>2. TypeOK'
  <2>1. /\ present' \in BOOLEAN /\ isActive' \in BOOLEAN /\ connected' \in BOOLEAN
        /\ emitCount' \in {emitCount, emitCount + 1}
        /\ handler' \in {handler, "inactive", "notify", "done"}
        /\ revoker' \in {revoker, "notify", "close", "done"}
    BY DEF Ending, SocketDrops, Deactivate, HandlerDestroys, HandlerNotifies, RevokerDestroys,
       RevokerNotifies, RevokerCloses, Unmap, sessionVars, TypeOK
  <2>2. emitCount' \in Nat
    BY <2>1 DEF TypeOK
  <2> QED BY <1>1, <2>1, <2>2 DEF TypeOK, queueVars, drainVars
<1> QED BY <1>1, <1>2 DEF queueVars, drainVars, BatchOnlyToSend, NothingLostInOrder,
        DrainerOutlivesSession

(* Every step keeps the invariant.                                         *)
LEMMA DrainStepInv == DrainInv /\ [DrainNext]_allVars => DrainInv'
<1> SUFFICES ASSUME DrainInv, [DrainNext]_allVars PROVE DrainInv'
  OBVIOUS
<1>1. CASE UNCHANGED allVars
  BY <1>1 DEF allVars, queueVars, sessionVars, drainVars, endVars, DrainInv, TypeOK,
     BatchOnlyToSend, NothingLostInOrder, DrainerOutlivesSession
<1> QED BY <1>1, SendToSessionInv, DrainerInv, EndingInv DEF DrainNext

-----------------------------------------------------------------------------
(* The conjunction is inductive: order needs to know that the batch is     *)
(* empty whenever the drainer drains.                                      *)
THEOREM DrainInvariant == DrainSpec => []DrainInv
  BY NewSessionInv, DrainStepInv, PTL DEF DrainSpec

(* The ring buffer keeps its capacity and the batch its size, whatever     *)
(* they are (sendToSession, drainOutbound).                                *)
THEOREM DrainTypeCorrect == DrainSpec => []TypeOK
<1>1. DrainInv => TypeOK
  BY DEF DrainInv
<1> QED BY <1>1, DrainInvariant, PTL

(* What the queue accepted is on the socket, in the batch or in the queue, *)
(* in order, until the drainer gives up (drainOutboundLoop).               *)
THEOREM FramesKeptInOrder == DrainSpec => []NothingLostInOrder
<1>1. DrainInv => NothingLostInOrder
  BY DEF DrainInv
<1> QED BY <1>1, DrainInvariant, PTL

(* A session that lives has its drainer, whoever destroys it at what       *)
(* moment (destroySession, dropClientsForWebSession, drainOutboundLoop).   *)
THEOREM LiveSessionDrained == DrainSpec => []DrainerOutlivesSession
<1>1. DrainInv => DrainerOutlivesSession
  BY DEF DrainInv
<1> QED BY <1>1, DrainInvariant, PTL
=============================================================================
