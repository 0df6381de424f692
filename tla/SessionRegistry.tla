--------------------------- MODULE SessionRegistry ---------------------------
(***************************************************************************)
(* The gateway's map of WebSocket sessions, for the tabs of one browser.   *)
(* The tabs share a cookie whose token names the session created last; a   *)
(* handshake that does not find that session in the map restores it from   *)
(* its blob in Redis, so a tab keeps its session over a gateway restart    *)
(* (websocket.d:145-259, session.d:426-710).                               *)
(*                                                                         *)
(* A connection is one WebSocket and the fiber that handles it.  A session *)
(* is named after the connection that created it: its id is a fresh UUID.  *)
(* A fiber gives up the processor at each call to Redis, so a step ends    *)
(* there; what the SessionManager's mutex guards is one step.              *)
(***************************************************************************)
EXTENDS Naturals

CONSTANTS Conns,        \* the connections the browser's tabs make, in this order
          None,
          MaxFaults     \* bound: restarts of the gateway and failing calls together

Session == [socket : Conns, active : BOOLEAN]

ASSUME SessionRegistryAssumption ==
  Conns \subseteq Nat /\ None \notin Conns /\ None \notin Session /\ MaxFaults \in Nat

VARIABLES pc,         \* [Conns -> phase of the handler]
          up,         \* [Conns -> is the tab still at the other end?]
          token,      \* [Conns -> the session the cookie named]
          found,      \* [Conns -> did the blob come back?]
          id,         \* [Conns -> the session the handler works with]
          sessions,   \* SessionManager.sessions: [socket, active] or None
          blobs,      \* ws_session:<id> keys in Redis
          cookie,     \* the browser's ws_session_jwt
          listener,   \* [Conns -> the session its pool thread forwards to, if it runs]
          drainer,    \* [Conns -> the session its drainOutboundLoop empties, if it runs]
          faults,
          crossed,    \* history: has a handshake crossed another owner's?
          deaf,       \* history: the connections whose listener ended by an exception
          stranded    \* history: the sessions a failing ack write kept in the map

vars == <<pc, up, token, found, id, sessions, blobs, cookie, listener, drainer,
          faults, crossed, deaf, stranded>>

Handshake == {"new", "lookup", "load", "adopt", "create"}
Serving == {"persist", "store", "boot", "live"}
Attached == Serving \cup {"unmap", "delete"}
Phases == Handshake \cup Attached \cup {"done"}

Goto(c, phase) == pc' = [pc EXCEPT ![c] = phase]

-----------------------------------------------------------------------------
(* The handshake. *)

\* The token is read from the login session, whose store is Redis, too.
ReadToken(c) ==
  /\ pc[c] = "new" /\ \A d \in Conns : d < c => pc[d] # "new"
  /\ token' = [token EXCEPT ![c] = cookie]
  /\ up' = [up EXCEPT ![c] = TRUE]
  /\ Goto(c, "lookup")
  /\ UNCHANGED <<found, id, sessions, blobs, cookie, listener, drainer, faults, crossed, deaf, stranded>>

\* Somebody else is about to restore session i, or has not finished with it: its
\* blob is still to be deleted, its listener or its drainer has yet to notice.
Busy(i, c) ==
  \E d \in Conns \ {c} :
    \/ pc[d] \in {"load", "adopt"} /\ token[d] = i
    \/ pc[d] = "delete" /\ id[d] = i
    \/ i \in {listener[d], drainer[d]}

\* mutant: the token's session is taken whether or not a tab owns it
LookUpAnyway(c) ==
  /\ pc[c] = "lookup"
  /\ Goto(c, IF token[c] # None THEN "load" ELSE "create")
  /\ UNCHANGED <<up, token, found, id, sessions, blobs, cookie, listener, drainer, faults, crossed, deaf, stranded>>

\* mutant: a session that has been deactivated is up for adoption
LookUpInactive(c) ==
  /\ pc[c] = "lookup"
  /\ IF token[c] # None /\ (sessions[token[c]] = None \/ ~sessions[token[c]].active)
       THEN Goto(c, "load") /\ crossed' = (crossed \/ (sessions[token[c]] = None /\ Busy(token[c], c)))
       ELSE Goto(c, "create") /\ UNCHANGED crossed
  /\ UNCHANGED <<up, token, found, id, sessions, blobs, cookie, listener, drainer, faults, deaf, stranded>>

\* A session that is in the map belongs to another tab: this one gets its own.
LookUp(c) ==
  /\ pc[c] = "lookup"
  /\ IF token[c] # None /\ sessions[token[c]] = None
       THEN Goto(c, "load") /\ crossed' = (crossed \/ Busy(token[c], c))
       ELSE Goto(c, "create") /\ UNCHANGED crossed
  /\ UNCHANGED <<up, token, found, id, sessions, blobs, cookie, listener, drainer, faults, deaf, stranded>>

\* A call to Redis works, or it fails, which is caught and logged.
Try(works, fails) ==
  \/ works /\ UNCHANGED faults
  \/ fails /\ faults < MaxFaults /\ faults' = faults + 1

\* The blob is read; a failing read is taken for none.
LoadFromRedis(c) ==
  /\ pc[c] = "load"
  /\ Try(found' = [found EXCEPT ![c] = token[c] \in blobs], found' = [found EXCEPT ![c] = FALSE])
  /\ Goto(c, "adopt")
  /\ UNCHANGED <<up, token, id, sessions, blobs, cookie, listener, drainer, crossed, deaf, stranded>>

\* mutant: a restored session is not marked active again
RestoreInactive(c) ==
  /\ pc[c] = "adopt"
  /\ IF found[c]
       THEN /\ id' = [id EXCEPT ![c] = token[c]]
            /\ sessions' = [sessions EXCEPT ![token[c]] = [socket |-> c, active |-> FALSE]]
            /\ Goto(c, "boot")
       ELSE Goto(c, "create") /\ UNCHANGED <<id, sessions>>
  /\ token' = [token EXCEPT ![c] = None] /\ found' = [found EXCEPT ![c] = FALSE]
  /\ UNCHANGED <<up, blobs, cookie, listener, drainer, faults, crossed, deaf, stranded>>

\* The restored session goes into the map, over whatever is there by now, and
\* gets this socket.
RestoreFromRedis(c) ==
  /\ pc[c] = "adopt"
  /\ IF found[c]
       THEN /\ id' = [id EXCEPT ![c] = token[c]]
            /\ sessions' = [sessions EXCEPT ![token[c]] = [socket |-> c, active |-> TRUE]]
            /\ Goto(c, "boot")
       ELSE Goto(c, "create") /\ UNCHANGED <<id, sessions>>
  /\ token' = [token EXCEPT ![c] = None] /\ found' = [found EXCEPT ![c] = FALSE]
  /\ UNCHANGED <<up, blobs, cookie, listener, drainer, faults, crossed, deaf, stranded>>

CreateSession(c) ==
  /\ pc[c] = "create"
  /\ id' = [id EXCEPT ![c] = c]
  /\ sessions' = [sessions EXCEPT ![c] = [socket |-> c, active |-> TRUE]]
  /\ Goto(c, "persist")
  /\ UNCHANGED <<up, token, found, blobs, cookie, listener, drainer, faults, crossed, deaf, stranded>>

\* The blob of a new session is written.
PersistToRedis(c) ==
  /\ pc[c] = "persist"
  /\ Try(blobs' = blobs \cup {id[c]}, UNCHANGED blobs)
  /\ Goto(c, "store")
  /\ UNCHANGED <<up, token, found, id, sessions, cookie, listener, drainer, crossed, deaf, stranded>>

\* The cookie's token names the new session.
StoreToken(c) ==
  /\ pc[c] = "store"
  /\ Try(cookie' = id[c], UNCHANGED cookie)
  /\ Goto(c, "boot")
  /\ UNCHANGED <<up, token, found, id, sessions, blobs, listener, drainer, crossed, deaf, stranded>>

\* Boot and replay are over: a listener and a drainer start, both told the id.
Serve(c) ==
  /\ pc[c] = "boot"
  /\ listener' = [listener EXCEPT ![c] = id[c]] /\ drainer' = [drainer EXCEPT ![c] = id[c]]
  /\ Goto(c, "live")
  /\ UNCHANGED <<up, token, found, id, sessions, blobs, cookie, faults, crossed, deaf, stranded>>

-----------------------------------------------------------------------------
(* The end of a connection. *)

\* The tab goes away, or a call of the handler fails and its exception ends the
\* connection; TCP may take its time to tell the handler, which looks for the first
\* time in the boot.
TabLeaves(c) ==
  /\ up[c] /\ pc[c] \in {"boot", "live"}
  /\ up' = [up EXCEPT ![c] = FALSE]
  /\ UNCHANGED <<pc, token, found, id, sessions, blobs, cookie, listener, drainer, faults, crossed, deaf, stranded>>

\* The handler notices, in the boot's sends or the read loop, and its finally
\* block marks the session inactive.
Deactivate(c) ==
  /\ pc[c] \in {"boot", "live"} /\ ~up[c]
  /\ sessions' = IF sessions[id[c]] = None THEN sessions
                 ELSE [sessions EXCEPT ![id[c]].active = FALSE]
  /\ Goto(c, "unmap")
  /\ UNCHANGED <<up, token, found, id, blobs, cookie, listener, drainer, faults, crossed, deaf, stranded>>

\* mutant: a session no longer active is taken for one already destroyed
UnmapActive(c) ==
  /\ pc[c] = "unmap"
  /\ sessions' = IF sessions[id[c]] # None /\ sessions[id[c]].active
                 THEN [sessions EXCEPT ![id[c]] = None] ELSE sessions
  /\ Goto(c, "delete")
  /\ UNCHANGED <<up, token, found, id, blobs, cookie, listener, drainer, faults, crossed, deaf, stranded>>

\* The ack cursor goes to Redis before the session is destroyed.  Nothing catches a
\* failure here: the finally block ends, and the entry and the blob stay.
AckWriteFails(c) ==
  /\ pc[c] = "unmap"
  /\ faults < MaxFaults /\ faults' = faults + 1
  /\ stranded' = stranded \cup {id[c]}
  /\ Goto(c, "done")
  /\ id' = [id EXCEPT ![c] = None]
  /\ UNCHANGED <<up, token, found, sessions, blobs, cookie, listener, drainer, crossed, deaf>>

\* destroySession: the map first, ...
Unmap(c) ==
  /\ pc[c] = "unmap"
  /\ sessions' = [sessions EXCEPT ![id[c]] = None]
  /\ Goto(c, "delete")
  /\ UNCHANGED <<up, token, found, id, blobs, cookie, listener, drainer, faults, crossed, deaf, stranded>>

\* ... and then the blob.
RemoveFromRedis(c) ==
  /\ pc[c] = "delete"
  /\ Try(blobs' = blobs \ {id[c]}, UNCHANGED blobs)
  /\ Goto(c, "done")
  /\ id' = [id EXCEPT ![c] = None]
  /\ UNCHANGED <<up, token, found, sessions, cookie, listener, drainer, crossed, deaf, stranded>>

\* The listener looks every 500 ms whether its id is still in the map.
ListenerEnds(c) ==
  /\ listener[c] # None /\ sessions[listener[c]] = None
  /\ listener' = [listener EXCEPT ![c] = None]
  /\ UNCHANGED <<pc, up, token, found, id, sessions, blobs, cookie, drainer, faults, crossed, deaf, stranded>>

\* Its connection to Redis breaks, or was never made: ircPoolDispatch logs that and
\* ends, and nothing starts another.
ListenerFails(c) ==
  /\ listener[c] # None
  /\ faults < MaxFaults /\ faults' = faults + 1
  /\ listener' = [listener EXCEPT ![c] = None]
  /\ deaf' = deaf \cup {c}
  /\ UNCHANGED <<pc, up, token, found, id, sessions, blobs, cookie, drainer, crossed, stranded>>

\* drainOutbound's peek.alive.
Alive(s) == s # None /\ s.active /\ up[s.socket]

\* The drainer asks for a batch of the session its id names.
DrainerEnds(c) ==
  /\ drainer[c] # None /\ ~Alive(sessions[drainer[c]])
  /\ drainer' = [drainer EXCEPT ![c] = None]
  /\ UNCHANGED <<pc, up, token, found, id, sessions, blobs, cookie, listener, faults, crossed, deaf, stranded>>

\* The gateway dies and starts again: Redis and the browser remember, the map does
\* not.  Without a configured secret the token does not verify any more.
Restart ==
  /\ faults < MaxFaults
  /\ faults' = faults + 1
  /\ pc' = [c \in Conns |-> IF pc[c] = "new" THEN "new" ELSE "done"]
  /\ up' = [c \in Conns |-> FALSE]
  /\ sessions' = [i \in Conns |-> None]
  /\ id' = [c \in Conns |-> None] /\ token' = [c \in Conns |-> None] /\ found' = [c \in Conns |-> FALSE]
  /\ cookie' \in {cookie, None}
  /\ listener' = [c \in Conns |-> None] /\ drainer' = [c \in Conns |-> None]
  /\ stranded' = {}
  /\ UNCHANGED <<blobs, crossed, deaf>>

-----------------------------------------------------------------------------
Init ==
  /\ pc = [c \in Conns |-> "new"] /\ up = [c \in Conns |-> FALSE]
  /\ token = [c \in Conns |-> None] /\ found = [c \in Conns |-> FALSE]
  /\ id = [c \in Conns |-> None] /\ sessions = [i \in Conns |-> None]
  /\ blobs = {} /\ cookie = None
  /\ listener = [c \in Conns |-> None] /\ drainer = [c \in Conns |-> None] /\ faults = 0 /\ crossed = FALSE
  /\ deaf = {} /\ stranded = {}

\* What a handler does by itself once the handshake began.
Proceed(c) ==
  \/ LookUp(c) \/ LoadFromRedis(c) \/ RestoreFromRedis(c)
  \/ CreateSession(c) \/ PersistToRedis(c) \/ StoreToken(c) \/ Serve(c)
  \/ Deactivate(c) \/ Unmap(c) \/ RemoveFromRedis(c)

Next ==
  \/ Restart
  \/ \E c \in Conns :
       \/ ReadToken(c) \/ TabLeaves(c) \/ Proceed(c) \/ AckWriteFails(c)
       \/ ListenerEnds(c) \/ ListenerFails(c) \/ DrainerEnds(c)

\* Fibers and pool threads of a running gateway go on; tabs need not come or go.
Fairness ==
  \A c \in Conns : WF_vars(Proceed(c)) /\ WF_vars(ListenerEnds(c)) /\ WF_vars(DrainerEnds(c))

Spec == Init /\ [][Next]_vars /\ Fairness

-----------------------------------------------------------------------------
(* Properties *)

\* Types.
TypeOK ==
  /\ pc \in [Conns -> Phases] /\ up \in [Conns -> BOOLEAN]
  /\ token \in [Conns -> Conns \cup {None}] /\ found \in [Conns -> BOOLEAN]
  /\ id \in [Conns -> Conns \cup {None}]
  /\ sessions \in [Conns -> Session \cup {None}]
  /\ blobs \subseteq Conns /\ cookie \in Conns \cup {None}
  /\ listener \in [Conns -> Conns \cup {None}] /\ drainer \in [Conns -> Conns \cup {None}]
  /\ faults \in Nat /\ crossed \in BOOLEAN
  /\ deaf \subseteq Conns /\ stranded \subseteq Conns

Working(c) == pc[c] \in Attached

\* What the comment at websocket.d:161-173 promises a tab: a session, and with it an
\* outbound queue, a socket and an ack cursor of its own.
EachTabItsOwn == \A c, d \in Conns : Working(c) /\ Working(d) /\ id[c] = id[d] => c = d

\* It is kept over restarts, reconnects and failing calls as long as no handshake
\* looks for a session another one is restoring or has not quite let go of.
OwnSession == ~crossed => EachTabItsOwn

\* Under the same premise an event is put into a session's queue by one listener,
\* and one drainer writes it: neither outlives its session into the next owner's.
ServedOnce ==
  ~crossed =>
    \A c, d \in Conns :
      \/ listener[c] # None /\ listener[c] = listener[d]
      \/ drainer[c] # None /\ drainer[c] = drainer[d]
      => c = d

\* However tabs cross, an entry of the map that counts as live has a handler that has
\* not begun to end, so nobody is taken for connected whose handler is gone; and an
\* entry that is not live is about to be taken out, or it is one that a failing ack
\* write left behind for good (websocket.d:376-381), the one way a ghost comes about.
NoGhosts ==
  \A i \in Conns : sessions[i] # None =>
    IF sessions[i].active THEN \E c \in Conns : pc[c] \in Serving /\ id[c] = i
    ELSE i \in stranded \/ \E c \in Conns : pc[c] \in Serving \cup {"unmap"} /\ id[c] = i

Served(c) ==
  /\ sessions[id[c]] = [socket |-> c, active |-> TRUE]
  /\ c \in deaf \/ \E d \in Conns : listener[d] = id[c]
  /\ \E d \in Conns : drainer[d] = id[c]

\* A tab that stays gets its events: its session keeps its socket, a drainer and,
\* unless its own listener ended by an exception (websocket.d:1602-1604, which nobody
\* notices), a listener, whatever other tabs, restarts, failing calls and old
\* connections do meanwhile.
StayingTabServed ==
  []~crossed => \A c \in Conns : <>[]up[c] => <>[](pc[c] = "live" /\ Served(c))
=============================================================================
