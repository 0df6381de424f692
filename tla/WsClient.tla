------------------------------ MODULE WsClient ------------------------------
(***************************************************************************)
(* The tab's stream client, wsConnection.svelte.ts: the WebSocket and its  *)
(* reconnect timer, the XHR poll that bridges an outage and the queue of   *)
(* messages typed while the socket is down.  sendRequest is left out: no   *)
(* code calls it and the gateway knows no _reqid.                          *)
(*                                                                         *)
(* The module pointer "socket" names the current socket; disconnect drops  *)
(* the pointer, and the dropped socket's close event still comes, later.   *)
(* A poll loop is a chain of timers and fetches, each fetch tied to the    *)
(* AbortController that was current when it began; a timer is tied to      *)
(* nothing.  Events themselves are in EventStream.                         *)
(***************************************************************************)
EXTENDS Integers, Sequences

CONSTANTS
    MaxMsgs,     \* bound on the messages the user sends
    Joins,       \* which of the messages 1..MaxMsgs are JOIN lines
    QueueMax,    \* length messageQueue is capped at (500)
    Polls,       \* poll loops that are followed at once (a bound)
    MaxDying,    \* bound on dropped sockets whose close event is pending
    Xhr          \* featureFlags.xhrFallback.enabled

ASSUME WsClientAssumption ==
    /\ MaxMsgs \in Nat
    /\ Joins \subseteq 1..MaxMsgs
    /\ QueueMax \in Nat
    /\ MaxDying \in Nat
    /\ Xhr \in BOOLEAN

VARIABLES
    mounted,     \* App is mounted: startWebSocket was called, onDestroy was not
    cur,         \* readyState of the socket "socket" names, "none" for null
    dying,       \* dropped sockets whose close event is still to come
    wsState,     \* wsState.value
    timer,       \* reconnectTimeout is set
    delay,       \* reconnectDelay, in seconds
    ackTimer,    \* ackInterval is set
    controller,  \* xhrFallbackController is set
    poll,        \* poll[c]: "off", "sleep" or "fetch"
    queue,       \* messageQueue
    late,        \* history: a dropped socket closed since a socket last opened
    nextMsg,     \* next message the user sends
    sent,        \* history: messages handed to a socket, in order
    refused      \* history: messages a full queue refused

socketVars == <<mounted, cur, dying, wsState, timer, delay, ackTimer>>
xhrVars == <<controller, poll>>
sendVars == <<queue, nextMsg, sent, refused>>
vars == <<socketVars, xhrVars, sendVars, late>>

MinOf(a, b) == IF a <= b THEN a ELSE b
Elems(s) == {s[i] : i \in 1..Len(s)}

Init ==
    /\ mounted = FALSE
    /\ cur = "none"
    /\ dying = 0
    /\ wsState = "disconnected"
    /\ timer = FALSE
    /\ delay = 3
    /\ ackTimer = FALSE
    /\ controller = FALSE
    /\ poll = [c \in Polls |-> "off"]
    /\ queue = <<>>
    /\ late = FALSE
    /\ nextMsg = 1
    /\ sent = <<>>
    /\ refused = {}

-----------------------------------------------------------------------------
(* The XHR fallback.                                                       *)

(* One turn of poll(): with no controller, reading its signal throws, and   *)
(* the catch block retries in three seconds.                               *)
PollTurn == IF controller THEN "fetch" ELSE "sleep"

(* startXHRFallback: the first poll() runs at once. *)
StartXHR ==
    IF Xhr /\ ~controller
    THEN /\ controller' = TRUE
         /\ \/ \E c \in Polls : poll[c] = "off" /\ poll' = [poll EXCEPT ![c] = "fetch"]
            \/ (\A c \in Polls : poll[c] # "off") /\ UNCHANGED poll
    ELSE UNCHANGED <<controller, poll>>

(* stopXHRFallback aborts the fetch under way, which ends its loop; a loop  *)
(* asleep in a timer goes on.                                              *)
StopXHRLater ==                                                   \* mutant
    controller' = FALSE /\ UNCHANGED poll
StopXHR ==
    /\ controller' = FALSE
    /\ poll' = [c \in Polls |-> IF poll[c] = "fetch" THEN "off" ELSE poll[c]]

PollTimer(c) ==
    /\ poll[c] = "sleep"
    /\ poll' = [poll EXCEPT ![c] = PollTurn]
    /\ UNCHANGED <<socketVars, controller, sendVars, late>>

(* The fetch ends: with rows (poll again at once), without (one second), or *)
(* with an error (three seconds).                                          *)
PollAnswered(c) ==
    /\ poll[c] = "fetch"
    /\ \E next \in {"sleep", "fetch"} : poll' = [poll EXCEPT ![c] = next]
    /\ UNCHANGED <<socketVars, controller, sendVars, late>>

(* 401 or 403: the session is gone, and stopXHRFallback ends this loop too. *)
PollDenied(c) ==
    /\ poll[c] = "fetch"
    /\ StopXHR
    /\ UNCHANGED <<socketVars, sendVars, late>>

-----------------------------------------------------------------------------
(* The WebSocket.                                                          *)

(* connectWebSocket: nothing unless there is no socket or it is closed. *)
ConnectWebSocket ==
    IF cur \in {"none", "closed"}
    THEN cur' = "connecting" /\ wsState' = "connecting"
    ELSE UNCHANGED <<cur, wsState>>

(* startWebSocket, once the visitor is known to be logged in. *)
Start ==
    /\ mounted' = TRUE
    /\ ConnectWebSocket
    /\ UNCHANGED <<dying, timer, delay, ackTimer, xhrVars, sendVars, late>>

(* flushQueue, from the open event. *)
FlushSkipsLast ==                                                 \* mutant
    sent' = sent \o SubSeq(queue, 1, Len(queue) - 1) /\ queue' = <<>>
FlushNothing == UNCHANGED <<sent, queue>>                           \* mutant
Flush == sent' = sent \o queue /\ queue' = <<>>

Opened ==
    /\ cur = "connecting"
    /\ cur' = "open"
    /\ StopXHR
    /\ delay' = 3
    /\ wsState' = "connected"
    /\ Flush
    /\ ackTimer' = TRUE
    /\ late' = FALSE
    /\ UNCHANGED <<mounted, dying, timer, nextMsg, refused>>

(* The server starts the closing handshake. *)
ServerCloses ==
    /\ cur = "open"
    /\ cur' = "closing"
    /\ UNCHANGED <<mounted, dying, wsState, timer, delay, ackTimer, xhrVars, sendVars, late>>

(* The close event, of whichever socket. *)
CloseHandlerNoTimer ==                                            \* mutant
    /\ ackTimer' = FALSE
    /\ wsState' = "reconnecting"
    /\ StartXHR
    /\ UNCHANGED timer
CloseHandler ==
    /\ ackTimer' = FALSE
    /\ IF timer THEN UNCHANGED <<wsState, controller, poll, timer>>
       ELSE /\ wsState' = "reconnecting"
            /\ StartXHR
            /\ timer' = TRUE

Closed ==
    /\ cur \in {"connecting", "open", "closing"}
    /\ cur' = "closed"
    /\ CloseHandler
    /\ UNCHANGED <<mounted, dying, delay, sendVars, late>>

DroppedCloses ==
    /\ dying > 0
    /\ dying' = dying - 1
    /\ CloseHandler
    /\ late' = TRUE
    /\ UNCHANGED <<mounted, cur, delay, sendVars>>

ReconnectTimer ==
    /\ timer
    /\ timer' = FALSE
    /\ delay' = MinOf(2 * delay, 30)
    /\ ConnectWebSocket
    /\ UNCHANGED <<mounted, dying, ackTimer, xhrVars, sendVars, late>>

(* disconnectWebSocket, from onDestroy: the timer is cleared, the socket    *)
(* closed and forgotten; a poll under way goes on.                         *)
Disconnect ==
    /\ mounted
    /\ mounted' = FALSE
    /\ timer' = FALSE
    /\ ackTimer' = FALSE
    /\ IF cur \in {"connecting", "open", "closing"}
       THEN dying < MaxDying /\ dying' = dying + 1
       ELSE UNCHANGED dying
    /\ cur' = "none"
    /\ wsState' = "disconnected"
    /\ UNCHANGED <<delay, xhrVars, sendVars, late>>

-----------------------------------------------------------------------------
(* Sending.                                                                *)

(* doSend, and the JOIN branch of sendRaw: straight to an open socket,     *)
(* otherwise queued, a JOIN in front, as long as there is room.            *)
Room == Len(queue) < QueueMax

Enqueued(m) == IF m \in Joins THEN <<m>> \o queue ELSE Append(queue, m)

Send ==
    /\ nextMsg <= MaxMsgs
    /\ nextMsg' = nextMsg + 1
    /\ \/ /\ cur = "open"
          /\ sent' = Append(sent, nextMsg)
          /\ UNCHANGED <<queue, refused>>
       \/ /\ cur # "open" /\ Room
          /\ queue' = Enqueued(nextMsg)
          /\ UNCHANGED <<sent, refused>>
       \/ /\ cur # "open" /\ ~Room
          /\ refused' = refused \cup {nextMsg}
          /\ UNCHANGED <<queue, sent>>
    /\ UNCHANGED <<socketVars, xhrVars, late>>

-----------------------------------------------------------------------------
Next ==
    \/ Start \/ Opened \/ ServerCloses \/ Closed \/ DroppedCloses \/ ReconnectTimer
    \/ Disconnect \/ Send
    \/ \E c \in Polls : PollTimer(c) \/ PollAnswered(c) \/ PollDenied(c)

Spec == Init /\ [][Next]_vars

(***************************************************************************)
(* Timers fire, a close event that is due comes, and a connection attempt  *)
(* that is made again and again succeeds some time: the gateway is not     *)
(* down for good.                                                          *)
(***************************************************************************)
FairSpec ==
    /\ Spec
    /\ WF_vars(ReconnectTimer)
    /\ WF_vars(DroppedCloses)
    /\ WF_vars(cur = "closing" /\ Closed)
    /\ SF_vars(Opened)

-----------------------------------------------------------------------------

(* A mounted tab without a live socket has its reconnect timer running:    *)
(* neither a timer that fires while a socket is closing nor the late close *)
(* event of a dropped socket may leave it with neither.                    *)
NeverStranded ==
    mounted /\ cur \in {"none", "closed"} => timer

(* Every message is on a socket, in the queue or was refused by a full      *)
(* queue, and in one of them only.                                         *)
NoMessageLost ==
    /\ Elems(sent) \cup Elems(queue) \cup refused = 1..(nextMsg - 1)
    /\ Len(sent) + Len(queue) <= nextMsg - 1

(* A message typed during an outage goes out once the network is back,      *)
(* however the outage ended, unless the page is closed.                    *)
QueuedGetsOut ==
    \A m \in 1..MaxMsgs : (m \in Elems(queue)) ~> (m \in Elems(sent) \/ ~mounted)

(* The poll only bridges: while a socket is open no loop fetches, whatever   *)
(* loops slept in a timer when it opened or were left by earlier outages,    *)
(* and the tab shows itself connected.  The one exception is what the code   *)
(* does when a socket that disconnectWebSocket dropped closes late, after    *)
(* its successor: its close event starts a poll beside the open socket, and  *)
(* nothing stops it until a socket opens again (wsConnection.svelte.ts:290-340). *)
PollsOnlyBridge ==
    cur = "open" /\ ~late =>
        /\ wsState = "connected"
        /\ \A c \in Polls : poll[c] # "fetch"
=============================================================================
