------------------------ MODULE SessionRegistryProofs ------------------------
(***************************************************************************)
(* For any number of connections, restarts and failing calls: no entry of  *)
(* the session map is left behind but by a failing ack write, and as long  *)
(* as no handshake crosses the end or the restoration of the session it    *)
(* looks for, a session has one owner, one listener and one drainer.       *)
(***************************************************************************)
EXTENDS SessionRegistry, TLAPS

Restoring(c) == pc[c] \in {"load", "adopt"}

\* A handler has a session exactly while it works with it, a token while it
\* restores, and its listener and drainer start when the boot is over.
Shape ==
  \A c \in Conns :
    /\ id[c] # None <=> Working(c)
    /\ Restoring(c) => token[c] # None
    /\ listener[c] # None \/ drainer[c] # None => pc[c] \in {"live", "unmap", "delete", "done"}

\* Nobody knows the name of a session that has not been created.
Named(i) == i # None => pc[i] \notin Handshake

Names ==
  /\ Named(cookie)
  /\ \A b \in blobs : Named(b)
  /\ \A c \in Conns : Named(token[c]) /\ Named(id[c]) /\ Named(listener[c]) /\ Named(drainer[c])

\* Without a crossing: an owner that has not removed its session finds it in the
\* map, owners are distinct, a session being restored has no owner, no second
\* restorer and nobody who still serves it, and who serves an owned session is
\* its owner.
Owned(c) == Working(c) /\ pc[c] # "delete" => sessions[id[c]] # None

Apart(c, d) ==
  /\ Working(c) /\ Working(d) => id[c] # id[d]
  /\ Restoring(c) => token[c] \notin {id[d], listener[d], drainer[d]}
  /\ Restoring(c) /\ Restoring(d) => token[c] # token[d]
  /\ Working(c) => id[c] \notin {listener[d], drainer[d]}
  /\ listener[c] # None => listener[c] # listener[d]
  /\ drainer[c] # None => drainer[c] # drainer[d]

Own ==
  /\ \A c \in Conns : Owned(c)
  /\ \A c, d \in Conns : c # d => Apart(c, d)

IInv == TypeOK /\ Shape /\ Names /\ NoGhosts /\ (~crossed => Own)

-----------------------------------------------------------------------------
LEMMA InitTypes == Init => TypeOK
<1> SUFFICES ASSUME Init PROVE TypeOK OBVIOUS
<1>1. pc \in [Conns -> Phases] BY DEF Init, Phases, Handshake
<1>2. up \in [Conns -> BOOLEAN] /\ found \in [Conns -> BOOLEAN] BY DEF Init
<1>3. token \in [Conns -> Conns \cup {None}] /\ id \in [Conns -> Conns \cup {None}] BY DEF Init
<1>4. listener \in [Conns -> Conns \cup {None}] /\ drainer \in [Conns -> Conns \cup {None}] BY DEF Init
<1>5. sessions \in [Conns -> Session \cup {None}] BY DEF Init
<1> QED BY <1>1, <1>2, <1>3, <1>4, <1>5 DEF Init, TypeOK

\* Every action keeps the types.
LEMMA TypeStep == TypeOK /\ Shape /\ [Next]_vars => TypeOK'
<1> SUFFICES ASSUME TypeOK, Shape, [Next]_vars PROVE TypeOK' OBVIOUS
<1> USE SessionRegistryAssumption DEF TypeOK, Shape, Working, Restoring, Phases, Handshake, Attached, Serving, Goto, Session
<1>1. CASE Restart BY <1>1 DEF Restart
<1>2. ASSUME NEW c \in Conns, ReadToken(c) PROVE TypeOK' BY <1>2 DEF ReadToken
<1>3. ASSUME NEW c \in Conns, TabLeaves(c) PROVE TypeOK' BY <1>3 DEF TabLeaves
<1>4. ASSUME NEW c \in Conns, LookUp(c) PROVE TypeOK'
  <2>1. pc' \in [Conns -> Phases] BY <1>4 DEF LookUp
  <2>2. crossed' \in BOOLEAN
    <3>1. (crossed \/ Busy(token[c], c)) \in BOOLEAN OBVIOUS
    <3> QED BY <1>4, <3>1 DEF LookUp
  <2> QED BY <1>4, <2>1, <2>2 DEF LookUp
<1>5. ASSUME NEW c \in Conns, LoadFromRedis(c) PROVE TypeOK'
  <2>1. pc' \in [Conns -> Phases] /\ faults' \in Nat BY <1>5 DEF LoadFromRedis, Try
  <2>2. found' \in {[found EXCEPT ![c] = token[c] \in blobs], [found EXCEPT ![c] = FALSE]} BY <1>5 DEF LoadFromRedis, Try
  <2>3. found' \in [Conns -> BOOLEAN]
    <3>1. found \in [Conns -> BOOLEAN] /\ (token[c] \in blobs) \in BOOLEAN OBVIOUS
    <3>2. \A b \in BOOLEAN : [found EXCEPT ![c] = b] \in [Conns -> BOOLEAN]
      <4> HIDE DEF TypeOK, Shape
      <4> QED BY <3>1
    <3> HIDE DEF TypeOK, Shape
    <3> QED BY <2>2, <3>1, <3>2
  <2> QED BY <1>5, <2>1, <2>3 DEF LoadFromRedis
<1>6. ASSUME NEW c \in Conns, RestoreFromRedis(c) PROVE TypeOK'
  <2>1. token[c] \in Conns BY <1>6 DEF RestoreFromRedis
  <2>2. [socket |-> c, active |-> TRUE] \in Session OBVIOUS
  <2>3. sessions' \in {sessions, [sessions EXCEPT ![token[c]] = [socket |-> c, active |-> TRUE]]}
        /\ id' \in {id, [id EXCEPT ![c] = token[c]]} /\ pc' \in {[pc EXCEPT ![c] = "boot"], [pc EXCEPT ![c] = "create"]}
    BY <1>6 DEF RestoreFromRedis
  <2>4. sessions' \in [Conns -> Session \cup {None}]
    <3>1. \A f \in [Conns -> Session \cup {None}], i \in Conns, r \in Session : [f EXCEPT ![i] = r] \in [Conns -> Session \cup {None}]
      <4> HIDE DEF Session, TypeOK, Shape
      <4> QED OBVIOUS
    <3>2. sessions \in [Conns -> Session \cup {None}] OBVIOUS
    <3> HIDE DEF Session, TypeOK, Shape
    <3> QED BY <2>1, <2>2, <2>3, <3>1, <3>2
  <2>5. id' \in [Conns -> Conns \cup {None}] /\ pc' \in [Conns -> Phases] BY <2>1, <2>3
  <2>6. token' \in [Conns -> Conns \cup {None}] /\ found' \in [Conns -> BOOLEAN] BY <1>6 DEF RestoreFromRedis
  <2> QED BY <1>6, <2>4, <2>5, <2>6 DEF RestoreFromRedis
<1>7. ASSUME NEW c \in Conns, CreateSession(c) PROVE TypeOK' BY <1>7 DEF CreateSession
<1>8. ASSUME NEW c \in Conns, PersistToRedis(c) PROVE TypeOK'
  <2>1. id[c] \in Conns BY <1>8 DEF PersistToRedis
  <2>2. blobs' \in {blobs, blobs \cup {id[c]}} /\ faults' \in Nat BY <1>8 DEF PersistToRedis, Try
  <2>3. pc' \in [Conns -> Phases] BY <1>8 DEF PersistToRedis
  <2> QED BY <1>8, <2>1, <2>2, <2>3 DEF PersistToRedis
<1>9. ASSUME NEW c \in Conns, StoreToken(c) PROVE TypeOK' BY <1>9 DEF StoreToken, Try
<1>10. ASSUME NEW c \in Conns, Serve(c) PROVE TypeOK' BY <1>10 DEF Serve
<1>11. ASSUME NEW c \in Conns, Deactivate(c) PROVE TypeOK'
  <2>1. id[c] \in Conns BY <1>11 DEF Deactivate
  <2>2. sessions' \in [Conns -> Session \cup {None}]
    <3>1. CASE sessions[id[c]] = None BY <1>11, <3>1 DEF Deactivate
    <3>2. CASE sessions[id[c]] # None
      <4>1. sessions[id[c]] \in Session BY <2>1, <3>2
      <4>2. sessions' = [sessions EXCEPT ![id[c]] = [sessions[id[c]] EXCEPT !.active = FALSE]] BY <1>11, <3>2 DEF Deactivate
      <4> QED BY <2>1, <4>1, <4>2
    <3> QED BY <3>1, <3>2
  <2> QED BY <1>11, <2>2 DEF Deactivate
<1>12. ASSUME NEW c \in Conns, Unmap(c) PROVE TypeOK' BY <1>12 DEF Unmap
<1>13. ASSUME NEW c \in Conns, RemoveFromRedis(c) PROVE TypeOK'
  <2>1. blobs' \in {blobs, blobs \ {id[c]}} /\ faults' \in Nat BY <1>13 DEF RemoveFromRedis, Try
  <2>2. pc' \in [Conns -> Phases] /\ id' \in [Conns -> Conns \cup {None}] BY <1>13 DEF RemoveFromRedis
  <2> QED BY <1>13, <2>1, <2>2 DEF RemoveFromRedis
<1>14. ASSUME NEW c \in Conns, ListenerEnds(c) PROVE TypeOK' BY <1>14 DEF ListenerEnds
<1>15. ASSUME NEW c \in Conns, DrainerEnds(c) PROVE TypeOK' BY <1>15 DEF DrainerEnds
<1>16. CASE UNCHANGED vars BY <1>16 DEF vars
<1>17. ASSUME NEW c \in Conns, AckWriteFails(c) PROVE TypeOK'
  <2>1. id[c] \in Conns BY <1>17 DEF AckWriteFails
  <2>2. pc' \in [Conns -> Phases] /\ id' \in [Conns -> Conns \cup {None}] BY <1>17 DEF AckWriteFails
  <2>3. stranded' \subseteq Conns
    <3>1. stranded' = stranded \cup {id[c]} BY <1>17 DEF AckWriteFails
    <3> QED BY <2>1, <3>1
  <2>4. faults' \in Nat BY <1>17 DEF AckWriteFails
  <2> QED BY <1>17, <2>2, <2>3, <2>4 DEF AckWriteFails
<1>18. ASSUME NEW c \in Conns, ListenerFails(c) PROVE TypeOK' BY <1>18 DEF ListenerFails
<1> QED BY <1>1, <1>2, <1>3, <1>4, <1>5, <1>6, <1>7, <1>8, <1>9, <1>10, <1>11, <1>12, <1>13, <1>14, <1>15, <1>16, <1>17, <1>18 DEF Next, Proceed

\* ... and the shape of a handler.
LEMMA ShapeStep == TypeOK /\ Shape /\ [Next]_vars => Shape'
<1> SUFFICES ASSUME TypeOK, Shape, [Next]_vars PROVE Shape' OBVIOUS
<1> USE SessionRegistryAssumption DEF TypeOK, Shape, Working, Restoring, Phases, Handshake, Attached, Serving, Goto
<1>1. CASE Restart BY <1>1 DEF Restart
<1>2. ASSUME NEW c \in Conns, ReadToken(c) PROVE Shape' BY <1>2 DEF ReadToken
<1>3. ASSUME NEW c \in Conns, TabLeaves(c) PROVE Shape' BY <1>3 DEF TabLeaves
<1>4. ASSUME NEW c \in Conns, LookUp(c) PROVE Shape' BY <1>4 DEF LookUp, Busy
<1>5. ASSUME NEW c \in Conns, LoadFromRedis(c) PROVE Shape' BY <1>5 DEF LoadFromRedis
<1>6. ASSUME NEW c \in Conns, RestoreFromRedis(c) PROVE Shape' BY <1>6 DEF RestoreFromRedis
<1>7. ASSUME NEW c \in Conns, CreateSession(c) PROVE Shape' BY <1>7 DEF CreateSession
<1>8. ASSUME NEW c \in Conns, PersistToRedis(c) PROVE Shape' BY <1>8 DEF PersistToRedis, Try
<1>9. ASSUME NEW c \in Conns, StoreToken(c) PROVE Shape' BY <1>9 DEF StoreToken, Try
<1>10. ASSUME NEW c \in Conns, Serve(c) PROVE Shape' BY <1>10 DEF Serve
<1>11. ASSUME NEW c \in Conns, Deactivate(c) PROVE Shape' BY <1>11 DEF Deactivate
<1>12. ASSUME NEW c \in Conns, Unmap(c) PROVE Shape' BY <1>12 DEF Unmap
<1>13. ASSUME NEW c \in Conns, RemoveFromRedis(c) PROVE Shape' BY <1>13 DEF RemoveFromRedis, Try
<1>14. ASSUME NEW c \in Conns, ListenerEnds(c) PROVE Shape' BY <1>14 DEF ListenerEnds
<1>15. ASSUME NEW c \in Conns, DrainerEnds(c) PROVE Shape' BY <1>15 DEF DrainerEnds
<1>16. CASE UNCHANGED vars BY <1>16 DEF vars
<1>17. ASSUME NEW c \in Conns, AckWriteFails(c) PROVE Shape' BY <1>17 DEF AckWriteFails
<1>18. ASSUME NEW c \in Conns, ListenerFails(c) PROVE Shape' BY <1>18 DEF ListenerFails
<1> QED BY <1>1, <1>2, <1>3, <1>4, <1>5, <1>6, <1>7, <1>8, <1>9, <1>10, <1>11, <1>12, <1>13, <1>14, <1>15, <1>16, <1>17, <1>18 DEF Next, Proceed

\* ... and every name known is that of a session created.
LEMMA NamesStep == TypeOK /\ Shape /\ Names /\ [Next]_vars => Names'
<1> SUFFICES ASSUME TypeOK, Shape, Names, [Next]_vars PROVE Names' OBVIOUS
<1> USE SessionRegistryAssumption DEF TypeOK, Shape, Names, Named, Working, Restoring, Phases, Handshake, Attached, Serving, Goto
<1>1. CASE Restart BY <1>1 DEF Restart
<1>2. ASSUME NEW c \in Conns, ReadToken(c) PROVE Names' BY <1>2 DEF ReadToken
<1>3. ASSUME NEW c \in Conns, TabLeaves(c) PROVE Names' BY <1>3 DEF TabLeaves
<1>4. ASSUME NEW c \in Conns, LookUp(c) PROVE Names'
  <2>1. \A d \in Conns : pc'[d] # pc[d] => d = c /\ pc'[d] \in Handshake /\ pc[d] \in Handshake BY <1>4 DEF LookUp
  <2>2. UNCHANGED <<cookie, blobs, token, id, listener, drainer>> BY <1>4 DEF LookUp
  <2>3. \A i \in Conns : pc[i] \notin Handshake => pc'[i] \notin Handshake BY <2>1
  <2> QED BY <2>2, <2>3
<1>5. ASSUME NEW c \in Conns, LoadFromRedis(c) PROVE Names' BY <1>5 DEF LoadFromRedis
<1>6. ASSUME NEW c \in Conns, RestoreFromRedis(c) PROVE Names'
  <2>1. token[c] \in Conns /\ Named(token[c]) BY <1>6 DEF RestoreFromRedis
  <2>2. \A i \in Conns : pc[i] \notin Handshake => pc'[i] = pc[i] BY <1>6 DEF RestoreFromRedis
  <2>3. token' = [token EXCEPT ![c] = None] /\ UNCHANGED <<cookie, blobs, listener, drainer>> BY <1>6 DEF RestoreFromRedis
  <2>4. id' \in {id, [id EXCEPT ![c] = token[c]]} BY <1>6 DEF RestoreFromRedis
  <2>5. Named(cookie)' /\ (\A b \in blobs : Named(b))' BY <2>2, <2>3
  <2>6. ASSUME NEW d \in Conns PROVE Named(token[d])' /\ Named(id[d])'
    <3>1. token'[d] \in {token[d], None} /\ id'[d] \in {id[d], token[c]} BY <2>3, <2>4
    <3>2. Named(token[d]) /\ Named(id[d]) /\ Named(token[c]) OBVIOUS
    <3>3. token[d] \in Conns \cup {None} /\ id[d] \in Conns \cup {None} OBVIOUS
    <3>4. Named(token[d])' BY <2>2, <3>1, <3>2, <3>3
    <3>5. Named(id'[d])
      <4>1. CASE id'[d] = id[d] BY <4>1, <3>2
      <4>2. CASE id'[d] = token[c] BY <4>2, <3>2
      <4> QED BY <3>1, <4>1, <4>2
    <3>6. Named(id[d])' BY <2>1, <2>2, <3>1, <3>3, <3>5
    <3> QED BY <3>4, <3>6
  <2>7. ASSUME NEW d \in Conns PROVE Named(listener[d])' /\ Named(drainer[d])' BY <2>2, <2>3
  <2> QED BY <2>5, <2>6, <2>7
<1>7. ASSUME NEW c \in Conns, CreateSession(c) PROVE Names' BY <1>7 DEF CreateSession
<1>8. ASSUME NEW c \in Conns, PersistToRedis(c) PROVE Names'
  <2>1. id[c] \in Conns BY <1>8 DEF PersistToRedis
  <2>2. blobs' \in {blobs, blobs \cup {id[c]}} BY <1>8 DEF PersistToRedis, Try
  <2>3. pc' = [pc EXCEPT ![c] = "store"] /\ UNCHANGED <<cookie, token, id, listener, drainer>> BY <1>8 DEF PersistToRedis
  <2> QED BY <1>8, <2>1, <2>2, <2>3 DEF PersistToRedis
<1>9. ASSUME NEW c \in Conns, StoreToken(c) PROVE Names' BY <1>9 DEF StoreToken, Try
<1>10. ASSUME NEW c \in Conns, Serve(c) PROVE Names' BY <1>10 DEF Serve
<1>11. ASSUME NEW c \in Conns, Deactivate(c) PROVE Names' BY <1>11 DEF Deactivate
<1>12. ASSUME NEW c \in Conns, Unmap(c) PROVE Names' BY <1>12 DEF Unmap
<1>13. ASSUME NEW c \in Conns, RemoveFromRedis(c) PROVE Names' BY <1>13 DEF RemoveFromRedis, Try
<1>14. ASSUME NEW c \in Conns, ListenerEnds(c) PROVE Names' BY <1>14 DEF ListenerEnds
<1>15. ASSUME NEW c \in Conns, DrainerEnds(c) PROVE Names' BY <1>15 DEF DrainerEnds
<1>16. CASE UNCHANGED vars BY <1>16 DEF vars
<1>17. ASSUME NEW c \in Conns, AckWriteFails(c) PROVE Names' BY <1>17 DEF AckWriteFails
<1>18. ASSUME NEW c \in Conns, ListenerFails(c) PROVE Names' BY <1>18 DEF ListenerFails
<1> QED BY <1>1, <1>2, <1>3, <1>4, <1>5, <1>6, <1>7, <1>8, <1>9, <1>10, <1>11, <1>12, <1>13, <1>14, <1>15, <1>16, <1>17, <1>18 DEF Next, Proceed

\* No action leaves an entry without a handler.
LEMMA GhostStep == TypeOK /\ Shape /\ NoGhosts /\ [Next]_vars => NoGhosts'
<1> SUFFICES ASSUME TypeOK, Shape, NoGhosts, [Next]_vars PROVE NoGhosts' OBVIOUS
<1> USE SessionRegistryAssumption DEF TypeOK, Shape, NoGhosts, Working, Restoring, Phases, Handshake, Attached, Serving, Goto, Session
<1>1. CASE Restart BY <1>1 DEF Restart
<1>2. ASSUME NEW c \in Conns, ReadToken(c) PROVE NoGhosts' BY <1>2 DEF ReadToken
<1>3. ASSUME NEW c \in Conns, TabLeaves(c) PROVE NoGhosts' BY <1>3 DEF TabLeaves
<1>4. ASSUME NEW c \in Conns, LookUp(c) PROVE NoGhosts' BY <1>4 DEF LookUp, Busy
<1>5. ASSUME NEW c \in Conns, LoadFromRedis(c) PROVE NoGhosts' BY <1>5 DEF LoadFromRedis
<1>6. ASSUME NEW c \in Conns, RestoreFromRedis(c) PROVE NoGhosts' BY <1>6 DEF RestoreFromRedis
<1>7. ASSUME NEW c \in Conns, CreateSession(c) PROVE NoGhosts' BY <1>7 DEF CreateSession
<1>8. ASSUME NEW c \in Conns, PersistToRedis(c) PROVE NoGhosts' BY <1>8 DEF PersistToRedis, Try
<1>9. ASSUME NEW c \in Conns, StoreToken(c) PROVE NoGhosts' BY <1>9 DEF StoreToken, Try
<1>10. ASSUME NEW c \in Conns, Serve(c) PROVE NoGhosts' BY <1>10 DEF Serve
<1>11. ASSUME NEW c \in Conns, Deactivate(c) PROVE NoGhosts' BY <1>11 DEF Deactivate
<1>12. ASSUME NEW c \in Conns, Unmap(c) PROVE NoGhosts' BY <1>12 DEF Unmap
<1>13. ASSUME NEW c \in Conns, RemoveFromRedis(c) PROVE NoGhosts' BY <1>13 DEF RemoveFromRedis, Try
<1>14. ASSUME NEW c \in Conns, ListenerEnds(c) PROVE NoGhosts' BY <1>14 DEF ListenerEnds
<1>15. ASSUME NEW c \in Conns, DrainerEnds(c) PROVE NoGhosts' BY <1>15 DEF DrainerEnds
<1>16. CASE UNCHANGED vars BY <1>16 DEF vars
<1>17. ASSUME NEW c \in Conns, AckWriteFails(c) PROVE NoGhosts' BY <1>17 DEF AckWriteFails
<1>18. ASSUME NEW c \in Conns, ListenerFails(c) PROVE NoGhosts' BY <1>18 DEF ListenerFails
<1> QED BY <1>1, <1>2, <1>3, <1>4, <1>5, <1>6, <1>7, <1>8, <1>9, <1>10, <1>11, <1>12, <1>13, <1>14, <1>15, <1>16, <1>17, <1>18 DEF Next, Proceed

\* An entry of the map is not the absence of one, deactivated or not.
LEMMA EntryIsSome ==
  /\ \A c \in Conns, b \in BOOLEAN : [socket |-> c, active |-> b] # None
  /\ \A s \in Session : [s EXCEPT !.active = FALSE] # None
<1>1. \A c \in Conns, b \in BOOLEAN : [socket |-> c, active |-> b] \in Session BY DEF Session
<1>2. \A s \in Session : [s EXCEPT !.active = FALSE] \in Session BY DEF Session
<1> QED BY <1>1, <1>2, SessionRegistryAssumption

\* While no handshake has crossed an owner, ownership is exclusive.
LEMMA OwnStep == IInv /\ [Next]_vars => (~crossed => Own)'
<1> SUFFICES ASSUME IInv, [Next]_vars, ~crossed' PROVE Own' OBVIOUS
<1> USE SessionRegistryAssumption DEF Phases, Handshake, Attached, Serving, Goto, Working, Restoring
<1>1. TypeOK /\ Shape /\ Names BY DEF IInv
<1>2. crossed \in BOOLEAN BY <1>1 DEF TypeOK
<1>3. ~crossed
  <2>1. ASSUME NEW c \in Conns, Proceed(c) PROVE crossed => crossed'
    BY <1>2, <2>1 DEF Proceed, LookUp, LoadFromRedis, RestoreFromRedis, CreateSession, PersistToRedis, StoreToken, Serve, Deactivate, Unmap, RemoveFromRedis
  <2> QED BY <1>2, <2>1 DEF Next, vars, Restart, ReadToken, TabLeaves, ListenerEnds, DrainerEnds, AckWriteFails, ListenerFails
<1>4. Own BY <1>3 DEF IInv
<1> USE <1>1, <1>4 DEF TypeOK, Shape, Own, Owned, Apart
<1>5. CASE Restart BY <1>5 DEF Restart
<1>6. ASSUME NEW e \in Conns, ReadToken(e) PROVE Own' BY <1>6 DEF ReadToken
<1>7. ASSUME NEW e \in Conns, TabLeaves(e) PROVE Own' BY <1>7 DEF TabLeaves
<1>8. ASSUME NEW e \in Conns, LookUp(e) PROVE Own'
  <2>1. UNCHANGED <<token, id, sessions, listener, drainer>> BY <1>8 DEF LookUp
  <2>2. \A c \in Conns : c # e => pc'[c] = pc[c] BY <1>8 DEF LookUp
  <2>3. pc[e] = "lookup" /\ pc'[e] \in {"load", "create"} BY <1>8 DEF LookUp
  <2>4. id[e] = None /\ listener[e] = None /\ drainer[e] = None BY <2>3
  <2>5. ASSUME pc'[e] = "load", NEW d \in Conns, d # e
        PROVE token[e] \notin {id[d], listener[d], drainer[d]} /\ (Restoring(d) => token[e] # token[d])
    <3>1. token[e] # None /\ sessions[token[e]] = None /\ ~Busy(token[e], e) BY <1>8, <2>5 DEF LookUp
    <3>2. token[e] \notin {listener[d], drainer[d]} /\ (Restoring(d) => token[e] # token[d]) BY <2>5, <3>1 DEF Busy
    <3>3. token[e] # id[d]
      <4>1. CASE pc[d] = "delete" BY <2>5, <3>1, <4>1 DEF Busy
      <4>2. CASE pc[d] # "delete" BY <3>1, <4>2
      <4> QED BY <4>1, <4>2
    <3> QED BY <3>2, <3>3
  <2>6. \A c \in Conns : Owned(c)' BY <2>1, <2>2, <2>3
  <2>7. ASSUME NEW c \in Conns, NEW d \in Conns, c # d PROVE Apart(c, d)'
    <3>1. CASE c = e BY <2>1, <2>2, <2>3, <2>4, <2>5, <2>7, <3>1
    <3>2. CASE d = e BY <2>1, <2>2, <2>3, <2>4, <2>5, <2>7, <3>2
    <3>3. CASE c # e /\ d # e BY <2>1, <2>2, <2>7, <3>3
    <3> QED BY <3>1, <3>2, <3>3
  <2> QED BY <2>6, <2>7
<1>9. ASSUME NEW e \in Conns, LoadFromRedis(e) PROVE Own' BY <1>9 DEF LoadFromRedis
<1>10. ASSUME NEW e \in Conns, RestoreFromRedis(e) PROVE Own'
  <2>1. UNCHANGED <<listener, drainer>> /\ token' = [token EXCEPT ![e] = None] BY <1>10 DEF RestoreFromRedis
  <2>2. \A c \in Conns : c # e => pc'[c] = pc[c] /\ id'[c] = id[c] BY <1>10 DEF RestoreFromRedis
  <2>3. pc[e] = "adopt" BY <1>10 DEF RestoreFromRedis
  <2>4. id[e] = None /\ token[e] \in Conns /\ listener[e] = None /\ drainer[e] = None BY <2>3
  <2>5. \/ pc'[e] = "create" /\ id'[e] = None /\ sessions' = sessions
        \/ pc'[e] = "boot" /\ id'[e] = token[e] /\ sessions' = [sessions EXCEPT ![token[e]] = [socket |-> e, active |-> TRUE]]
    <3>1. CASE found[e] BY <1>10, <2>4, <3>1 DEF RestoreFromRedis
    <3>2. CASE ~found[e] BY <1>10, <2>4, <3>2 DEF RestoreFromRedis
    <3> QED BY <3>1, <3>2
  <2>6. /\ \A i \in Conns : sessions[i] # None => sessions'[i] # None
        /\ pc'[e] = "boot" => sessions'[token[e]] # None
    <3>1. [socket |-> e, active |-> TRUE] # None BY EntryIsSome
    <3>2. sessions \in [Conns -> Session \cup {None}] OBVIOUS
    <3> HIDE DEF TypeOK, Shape, Own, Owned, Apart
    <3>3. CASE pc'[e] = "boot" BY <2>4, <2>5, <3>1, <3>2, <3>3
    <3>4. CASE pc'[e] # "boot" BY <2>5, <3>4
    <3> QED BY <3>3, <3>4
  <2>7. ASSUME NEW c \in Conns PROVE Owned(c)'
    <3>1. CASE c = e BY <2>5, <2>6, <3>1
    <3>2. CASE c # e
      <4>1. Working(c)' /\ pc'[c] # "delete" => id[c] \in Conns /\ sessions[id[c]] # None BY <2>2, <3>2
      <4> QED BY <2>2, <2>6, <3>2, <4>1
    <3> QED BY <3>1, <3>2
  <2>8. ASSUME NEW c \in Conns, NEW d \in Conns, c # d PROVE Apart(c, d)'
    <3>1. CASE c = e BY <2>1, <2>2, <2>3, <2>4, <2>5, <2>8, <3>1
    <3>2. CASE d = e BY <2>1, <2>2, <2>3, <2>4, <2>5, <2>8, <3>2
    <3>3. CASE c # e /\ d # e BY <2>1, <2>2, <2>8, <3>3
    <3> QED BY <3>1, <3>2, <3>3
  <2> QED BY <2>7, <2>8
<1>11. ASSUME NEW e \in Conns, CreateSession(e) PROVE Own'
  <2>1. UNCHANGED <<token, listener, drainer>> BY <1>11 DEF CreateSession
  <2>2. pc[e] = "create" /\ pc'[e] = "persist" /\ id'[e] = e BY <1>11 DEF CreateSession
  <2>3. \A c \in Conns : c # e => pc'[c] = pc[c] /\ id'[c] = id[c] BY <1>11 DEF CreateSession
  <2>4. \A c \in Conns : e \notin {token[c], id[c], listener[c], drainer[c]} BY <2>2 DEF Names, Named
  <2>5. sessions'[e] # None /\ \A i \in Conns : sessions[i] # None => sessions'[i] # None
    BY <1>11, EntryIsSome DEF CreateSession
  <2>6. ASSUME NEW c \in Conns PROVE Owned(c)'
    <3>1. CASE c = e BY <2>2, <2>5, <3>1
    <3>2. CASE c # e
      <4>1. Working(c)' /\ pc'[c] # "delete" => id[c] \in Conns /\ sessions[id[c]] # None BY <2>3, <3>2
      <4> QED BY <2>3, <2>5, <3>2, <4>1
    <3> QED BY <3>1, <3>2
  <2>7. ASSUME NEW c \in Conns, NEW d \in Conns, c # d PROVE Apart(c, d)'
    <3>1. CASE c = e BY <2>1, <2>2, <2>3, <2>4, <2>7, <3>1
    <3>2. CASE d = e BY <2>1, <2>2, <2>3, <2>4, <2>7, <3>2
    <3>3. CASE c # e /\ d # e BY <2>1, <2>3, <2>7, <3>3
    <3> QED BY <3>1, <3>2, <3>3
  <2> QED BY <2>6, <2>7
<1>12. ASSUME NEW e \in Conns, PersistToRedis(e) PROVE Own' BY <1>12 DEF PersistToRedis
<1>13. ASSUME NEW e \in Conns, StoreToken(e) PROVE Own' BY <1>13 DEF StoreToken
<1>14. ASSUME NEW e \in Conns, Serve(e) PROVE Own'
  <2>1. UNCHANGED <<token, id, sessions>> /\ pc[e] = "boot" /\ pc' = [pc EXCEPT ![e] = "live"] BY <1>14 DEF Serve
  <2>2. listener' = [listener EXCEPT ![e] = id[e]] /\ drainer' = [drainer EXCEPT ![e] = id[e]] BY <1>14 DEF Serve
  <2>3. \A c \in Conns : Owned(c)' BY <2>1
  <2>4. ASSUME NEW c \in Conns, NEW d \in Conns, c # d PROVE Apart(c, d)' BY <2>1, <2>2, <2>4
  <2> QED BY <2>3, <2>4
<1>15. ASSUME NEW e \in Conns, Deactivate(e) PROVE Own'
  <2>1. UNCHANGED <<token, id, listener, drainer>> /\ pc[e] \in {"boot", "live"} /\ pc' = [pc EXCEPT ![e] = "unmap"]
    BY <1>15 DEF Deactivate
  <2>2. \A i \in Conns : sessions[i] # None => sessions'[i] # None
    <3>1. CASE sessions[id[e]] = None BY <1>15, <3>1 DEF Deactivate
    <3>2. CASE sessions[id[e]] # None
      <4>1. sessions[id[e]] \in Session /\ id[e] \in Conns BY <2>1, <3>2
      <4>2. sessions' = [sessions EXCEPT ![id[e]] = [sessions[id[e]] EXCEPT !.active = FALSE]] BY <1>15, <3>2 DEF Deactivate
      <4> QED BY <4>1, <4>2, EntryIsSome
    <3> QED BY <3>1, <3>2
  <2>3. \A c \in Conns : Owned(c)' BY <2>1, <2>2
  <2>4. \A c, d \in Conns : c # d => Apart(c, d)' BY <2>1
  <2> QED BY <2>3, <2>4
<1>16. ASSUME NEW e \in Conns, Unmap(e) PROVE Own' BY <1>16 DEF Unmap
<1>17. ASSUME NEW e \in Conns, RemoveFromRedis(e) PROVE Own' BY <1>17 DEF RemoveFromRedis
<1>18. ASSUME NEW e \in Conns, ListenerEnds(e) PROVE Own' BY <1>18 DEF ListenerEnds
<1>19. ASSUME NEW e \in Conns, DrainerEnds(e) PROVE Own' BY <1>19 DEF DrainerEnds
<1>20. CASE UNCHANGED vars BY <1>20 DEF vars
<1>21. ASSUME NEW e \in Conns, AckWriteFails(e) PROVE Own' BY <1>21 DEF AckWriteFails
<1>22. ASSUME NEW e \in Conns, ListenerFails(e) PROVE Own' BY <1>22 DEF ListenerFails
<1> QED BY <1>5, <1>6, <1>7, <1>8, <1>9, <1>10, <1>11, <1>12, <1>13, <1>14, <1>15, <1>16, <1>17, <1>18, <1>19, <1>20, <1>21, <1>22 DEF Next, Proceed

\* The invariant is inductive.
LEMMA Inductive == Spec => []IInv
<1>1. Init => IInv
  <2> SUFFICES ASSUME Init PROVE IInv OBVIOUS
  <2>1. TypeOK BY InitTypes
  <2>2. Shape BY SessionRegistryAssumption DEF Init, Shape, Working, Restoring, Attached, Serving
  <2>3. Names BY DEF Init, Names, Named
  <2>4. NoGhosts BY DEF Init, NoGhosts
  <2>5. Own BY DEF Init, Own, Owned, Apart, Working, Restoring, Attached, Serving
  <2> QED BY <2>1, <2>2, <2>3, <2>4, <2>5 DEF IInv
<1>2. IInv /\ [Next]_vars => IInv' BY TypeStep, ShapeStep, NamesStep, GhostStep, OwnStep DEF IInv
<1> QED BY <1>1, <1>2, PTL DEF Spec

\* Types are kept.
THEOREM SessionTypes == Spec => []TypeOK
<1>1. IInv => TypeOK BY DEF IInv
<1> QED BY Inductive, <1>1, PTL

\* Two handlers never work with one session, however the tabs, the restarts and the
\* failing calls interleave, unless a handshake crossed a session's end or another
\* restoration of it (websocket.d:186-241).
THEOREM SessionsOwned == Spec => []OwnSession
<1>1. IInv => OwnSession BY DEF IInv, OwnSession, EachTabItsOwn, Own, Apart
<1> QED BY Inductive, <1>1, PTL

\* ... nor do two listeners or two drainers, which outlive their handler
\* (websocket.d:1143, 1590).
THEOREM SessionsServedOnce == Spec => []ServedOnce
<1>1. IInv => ServedOnce BY DEF IInv, ServedOnce, Own, Apart
<1> QED BY Inductive, <1>1, PTL

\* Crossing or not, every live entry of the session map has a handler that has not begun
\* to end, and every other one is about to be removed or was left by a failing ack write
\* (websocket.d:376-388, session.d:532-547).
THEOREM NoGhostSession == Spec => []NoGhosts
<1>1. IInv => NoGhosts BY DEF IInv
<1> QED BY Inductive, <1>1, PTL

=============================================================================
