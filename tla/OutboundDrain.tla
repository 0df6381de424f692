--------------------------- MODULE OutboundDrain ---------------------------
(***************************************************************************)
(* One session's outbound queue at the level of its threads: sendToSession *)
(* on the listener's pool thread, the drainer task on the main event loop, *)
(* and the two ways a session is destroyed (the handler's finally block,   *)
(* and dropClientsForWebSession when the user revokes a login).            *)
(*                                                                         *)
(* The queue and the session map are guarded by the SessionManager's       *)
(* mutex, so each critical section is one step.  The wait is not: the      *)
(* drainer finds the queue empty, releases the mutex, reads emitCount and  *)
(* only then waits for the count to change, for at most five seconds.      *)
(***************************************************************************)
EXTENDS Integers, Sequences

CONSTANTS
    QueueCap,    \* capacity of the ring buffer (65536 in the code)
    BatchMax,    \* most frames a drain pops (100)
    MaxFrames    \* bound on the frames sent to the session

ASSUME OutboundDrainAssumption ==
    /\ QueueCap \in Nat \ {0}
    /\ BatchMax \in Nat \ {0}
    /\ MaxFrames \in Nat

VARIABLES
    nextFrame,   \* number of the next frame; frames are eids in order
    present,     \* the session is in the map
    isActive,    \* its isActive flag
    outbound,    \* its outbound ring buffer
    lastEnqueuedEid,
    emitCount,   \* of the session's ManualEvent
    pc,          \* the drainer: "drain", "stamp", "wait", "send" or "exit"
    ticket,      \* the emitCount the drainer passed to its wait
    batch,       \* the frames it popped and has not sent
    connected,   \* socket.connected
    handler,     \* handleWebSocket: "loop", "inactive", "notify" or "done"
    revoker,     \* dropClientsForWebSession: "idle", "notify", "close" or "done"
    written,     \* history: frames written to the socket, in order
    accepted,    \* history: frames put into the queue, in order
    skipped      \* history: frames a full queue refused

queueVars == <<nextFrame, outbound, lastEnqueuedEid, accepted, skipped>>
sessionVars == <<present, isActive>>
drainVars == <<pc, ticket, batch, written>>
endVars == <<connected, handler, revoker>>
allVars == <<queueVars, sessionVars, emitCount, drainVars, endVars>>

FewerOf(a, b) == IF a <= b THEN a ELSE b

Full == Len(outbound) = QueueCap

(* What a drain of n frames leaves in the queue. *)
RestSkipsOne(n) == SubSeq(outbound, n + 2, Len(outbound))   \* mutant
Rest(n) == SubSeq(outbound, n + 1, Len(outbound))

(* When the drainer gives up. *)
GoneWhenIdle == ~(present /\ isActive /\ connected /\ outbound # <<>>)   \* mutant
Gone == ~(present /\ isActive /\ connected)

DrainInit ==
    /\ nextFrame = 1
    /\ present = TRUE
    /\ isActive = TRUE
    /\ outbound = <<>>
    /\ lastEnqueuedEid = 0
    /\ emitCount = 0
    /\ pc = "drain"
    /\ ticket = 0
    /\ batch = <<>>
    /\ connected = TRUE
    /\ handler = "loop"
    /\ revoker = "idle"
    /\ written = <<>>
    /\ accepted = <<>>
    /\ skipped = {}

-----------------------------------------------------------------------------
(* sendToSession: no-op for an unknown or inactive session, skip when full, *)
(* otherwise put and emit, all under the mutex.                            *)
SendToSession ==
    /\ nextFrame <= MaxFrames
    /\ nextFrame' = nextFrame + 1
    /\ \/ /\ ~(present /\ isActive)
          /\ UNCHANGED <<outbound, lastEnqueuedEid, accepted, skipped, emitCount>>
       \/ /\ present /\ isActive
          /\ lastEnqueuedEid' = nextFrame
          /\ IF Full
             THEN /\ skipped' = skipped \cup {nextFrame}
                  /\ UNCHANGED <<outbound, accepted, emitCount>>
             ELSE /\ outbound' = Append(outbound, nextFrame)
                  /\ accepted' = Append(accepted, nextFrame)
                  /\ emitCount' = emitCount + 1
                  /\ UNCHANGED skipped
    /\ UNCHANGED <<sessionVars, drainVars, endVars>>

-----------------------------------------------------------------------------
(* drainOutbound: pop up to BatchMax frames, or report the session gone. *)
DrainOutbound ==
    /\ pc = "drain"
    /\ IF Gone
       THEN /\ pc' = "exit"
            /\ UNCHANGED <<outbound, batch>>
       ELSE LET n == FewerOf(BatchMax, Len(outbound))
            IN /\ batch' = SubSeq(outbound, 1, n)
               /\ outbound' = Rest(n)
               /\ pc' = IF n = 0 THEN "stamp" ELSE "send"
    /\ UNCHANGED <<nextFrame, lastEnqueuedEid, accepted, skipped, sessionVars, emitCount,
                   ticket, written, endVars>>

(* The argument peek.notify.emitCount is read after the drain, unlocked. *)
StampTicket ==
    /\ pc = "stamp"
    /\ ticket' = emitCount
    /\ pc' = "wait"
    /\ UNCHANGED <<queueVars, sessionVars, emitCount, batch, written, endVars>>

Wake ==
    /\ pc = "wait"
    /\ emitCount # ticket
    /\ pc' = "drain"
    /\ UNCHANGED <<queueVars, sessionVars, emitCount, ticket, batch, written, endVars>>

(* The five second safety net. *)
WaitForever == FALSE                                    \* mutant
WaitTimeout ==
    /\ pc = "wait"
    /\ emitCount = ticket
    /\ pc' = "drain"
    /\ UNCHANGED <<queueVars, sessionVars, emitCount, ticket, batch, written, endVars>>

(* socket.send: a peer that is gone makes it throw, and the drainer quits. *)
SendBatch ==
    /\ pc = "send"
    /\ batch' = <<>>
    /\ IF connected
       THEN written' = written \o batch /\ pc' = "drain"
       ELSE pc' = "exit" /\ UNCHANGED written
    /\ UNCHANGED <<queueVars, sessionVars, emitCount, ticket, endVars>>

-----------------------------------------------------------------------------
SocketDrops ==
    /\ connected
    /\ connected' = FALSE
    /\ UNCHANGED <<queueVars, sessionVars, emitCount, drainVars, handler, revoker>>

(* destroySession, first half: unmap and remember whom to notify. *)
Unmap == present' = FALSE /\ isActive' = FALSE

(* The read loop ends; the finally block deactivates the session ... *)
Deactivate ==
    /\ handler = "loop"
    /\ ~connected
    /\ handler' = "inactive"
    /\ isActive' = FALSE
    /\ UNCHANGED <<queueVars, present, emitCount, drainVars, connected, revoker>>

(* ... and destroys it.  There is a notify event only if the entry is      *)
(* still there.                                                            *)
HandlerDestroys ==
    /\ handler = "inactive"
    /\ Unmap
    /\ handler' = IF present THEN "notify" ELSE "done"
    /\ UNCHANGED <<queueVars, emitCount, drainVars, connected, revoker>>

HandlerNotifies ==
    /\ handler = "notify"
    /\ handler' = "done"
    /\ emitCount' = emitCount + 1
    /\ UNCHANGED <<queueVars, sessionVars, drainVars, connected, revoker>>

(* dropClientsForWebSession: collect under the mutex, destroy outside it,  *)
(* then close the socket.                                                  *)
RevokerDestroys ==
    /\ revoker = "idle"
    /\ Unmap
    /\ revoker' = IF present THEN "notify" ELSE "done"
    /\ UNCHANGED <<queueVars, emitCount, drainVars, connected, handler>>

RevokerNotifies ==
    /\ revoker = "notify"
    /\ revoker' = "close"
    /\ emitCount' = emitCount + 1
    /\ UNCHANGED <<queueVars, sessionVars, drainVars, connected, handler>>

RevokerCloses ==
    /\ revoker = "close"
    /\ revoker' = "done"
    /\ connected' = FALSE
    /\ UNCHANGED <<queueVars, sessionVars, emitCount, drainVars, handler>>

-----------------------------------------------------------------------------
Drainer == DrainOutbound \/ StampTicket \/ Wake \/ WaitTimeout \/ SendBatch

Ending ==
    \/ SocketDrops \/ Deactivate \/ HandlerDestroys \/ HandlerNotifies
    \/ RevokerDestroys \/ RevokerNotifies \/ RevokerCloses

DrainNext == SendToSession \/ Drainer \/ Ending

DrainSpec == DrainInit /\ [][DrainNext]_allVars

(***************************************************************************)
(* The drainer is a task of a running event loop, its wait has a timeout,  *)
(* and a finally block runs to its end.  Nothing makes a socket drop or a  *)
(* user revoke a login.                                                    *)
(***************************************************************************)
FairDrainSpec ==
    /\ DrainSpec
    /\ WF_allVars(Drainer)
    /\ WF_allVars(Deactivate) /\ WF_allVars(HandlerDestroys) /\ WF_allVars(HandlerNotifies)
    /\ WF_allVars(RevokerNotifies) /\ WF_allVars(RevokerCloses)

-----------------------------------------------------------------------------
(* Every variable keeps its type and the ring buffer its capacity. *)
TypeOK ==
    /\ nextFrame \in 1..(MaxFrames + 1)
    /\ present \in BOOLEAN /\ isActive \in BOOLEAN /\ connected \in BOOLEAN
    /\ outbound \in Seq(1..MaxFrames) /\ Len(outbound) <= QueueCap
    /\ lastEnqueuedEid \in 0..MaxFrames
    /\ emitCount \in Nat /\ ticket \in Nat
    /\ pc \in {"drain", "stamp", "wait", "send", "exit"}
    /\ batch \in Seq(1..MaxFrames) /\ Len(batch) <= BatchMax
    /\ handler \in {"loop", "inactive", "notify", "done"}
    /\ revoker \in {"idle", "notify", "close", "done"}
    /\ written \in Seq(1..MaxFrames)
    /\ accepted \in Seq(1..MaxFrames)
    /\ skipped \subseteq 1..MaxFrames

(* What the queue accepted is on the socket, in the drainer's hands or in  *)
(* the queue, in the order it was accepted, until the drainer gives up: a  *)
(* frame is neither reordered, duplicated nor dropped on the way           *)
(* (sendToSession, drainOutbound, drainOutboundLoop).                      *)
NothingLostInOrder ==
    pc # "exit" => accepted = written \o batch \o outbound

(* The drainer gives up only on a session that is going away; a live one   *)
(* keeps its only writer (drainOutboundLoop's termination conditions).     *)
DrainerOutlivesSession ==
    pc = "exit" => ~(present /\ isActive /\ connected)

(* A destroyed session loses its drainer: no task waits for ever on an     *)
(* event of a session that is gone (destroySession emits for this).        *)
DrainerEnds == (~present) ~> (pc = "exit")
=============================================================================
