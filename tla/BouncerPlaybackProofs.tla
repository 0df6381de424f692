----------------------- MODULE BouncerPlaybackProofs -----------------------
(***************************************************************************)
(* Proofs about BouncerPlayback: for any number of connections, any limits *)
(* and any number of events and faults, one connection does not send an    *)
(* event twice, a later one does not send again what an earlier one sent,  *)
(* and the stored cursor passes only what was handed over or excused.      *)
(***************************************************************************)
EXTENDS BouncerPlayback, FiniteSetTheorems, WellFoundedInduction, TLAPS

Numbered == 1..globalEid
Lines == [eid : Numbered, via : {"history", "parked", "live"}]
Phases == {"away", "gone"} \cup Subscribed

ConnState == [pc : Phases, closing : BOOLEAN, prior : BOOLEAN,
              inbox : Seq(Numbered), parked : Seq(Numbered),
              history : SUBSET stored, historySeen : SUBSET stored,
              read : 0..globalEid, from : 0..globalEid, cursor : 0..globalEid,
              flushed : 0..globalEid, out : Seq(Lines)]

\* A copy is never older than its message, which is stored before it.
TypeInv ==
  /\ globalEid \in 0..MaxEid
  /\ msg \in [Eids -> 0..MaxEid] /\ \A e \in Eids : msg[e] <= e
  /\ \A e \in stored \cup InFlight : msg[e] \in stored \cup {e}
  /\ stored \in SUBSET Numbered
  /\ pub \in [Pubs -> 0..globalEid]
  /\ pub[Engine] # pub[Bouncer] \/ pub[Engine] = 0
  /\ seen \in 0..globalEid /\ base \in 0..globalEid
  /\ conn \in [Conns -> ConnState]
  /\ faults \in Nat /\ overlapped \in BOOLEAN

-----------------------------------------------------------------------------
(* Lemmas about the operators. *)

\* A bounded nonempty set of numbers has a newest one: the numbers below each
\* member form a set, and the largest of these sets is that of the newest.
LEMMA NewestExists ==
  ASSUME NEW n \in Nat, NEW S \in SUBSET (1..n), S # {}
  PROVE  \E x \in S : \A y \in S : y <= x
<1> DEFINE Up(y) == {x \in S : y <= x}
           T == {Up(y) : y \in S}
<1>1. IsFiniteSet(S)
  <2>1. IsFiniteSet(1..n)
    BY FS_Interval
  <2> QED
    BY <2>1, FS_Subset
<1>2. IsWellFoundedOn(StrictSubsetOrdering(S), SUBSET S)
  BY <1>1, FS_StrictSubsetOrderingWellFounded, FS_FiniteSubsetsOfFinite
<1>3. T \subseteq SUBSET S /\ T # {}
  OBVIOUS
<1>4. PICK A \in T : \A B \in T : <<B, A>> \notin StrictSubsetOrdering(S)
  <2> HIDE DEF T
  <2> QED
    BY <1>2, <1>3, WFMin
<1>5. PICK x \in S : A = Up(x)
  OBVIOUS
<1>6. ASSUME NEW y \in S, ~ (y <= x)
      PROVE  FALSE
  <2>1. Up(y) \subseteq A /\ Up(y) # A
    <3>1. x \in A /\ x \notin Up(y)
      BY <1>5, <1>6
    <3>2. ASSUME NEW z \in Up(y)
          PROVE  z \in Up(x)
      <4>1. x \in Int /\ y \in Int /\ z \in Int /\ y <= z
        OBVIOUS
      <4> QED
        BY <1>6, <4>1
    <3> QED
      BY <1>5, <3>1, <3>2
  <2>2. Up(y) \in T /\ Up(y) \in SUBSET S /\ A \in SUBSET S
    BY <1>3
  <2>3. <<Up(y), A>> \in StrictSubsetOrdering(S)
    BY <2>1, <2>2 DEF StrictSubsetOrdering
  <2> QED
    BY <1>4, <2>2, <2>3
<1> QED
  BY <1>6

\* Max returns the newest of a bounded nonempty set.
LEMMA MaxIsNewest ==
  ASSUME NEW n \in Nat, NEW S \in SUBSET (0..n), S # {}
  PROVE  Max(S) \in S /\ \A y \in S : y <= Max(S)
<1>1. \E x \in S : \A y \in S : x >= y
  <2>1. CASE S = {0}
    BY <2>1
  <2>2. CASE S # {0}
    <3>1. S \ {0} \in SUBSET (1..n) /\ S \ {0} # {}
      BY <2>2
    <3>2. PICK x \in S \ {0} : \A y \in S \ {0} : y <= x
      BY <3>1, NewestExists
    <3>3. ASSUME NEW y \in S PROVE x >= y
      BY <3>1, <3>2
    <3> QED
      BY <3>2, <3>3
  <2> QED
    BY <2>1, <2>2
<1>2. Max(S) \in S /\ \A y \in S : Max(S) >= y
  BY <1>1 DEF Max
<1>3. \A y \in S : y \in Int
  OBVIOUS
<1> QED
  BY <1>2, <1>3

\* A sequence over a set is one over any larger set.
LEMMA SeqGrows ==
  ASSUME NEW S, NEW T, S \subseteq T, NEW s \in Seq(S)
  PROVE  s \in Seq(T)
<1>1. s \in [1..Len(s) -> S] /\ Len(s) \in Nat
  OBVIOUS
<1>2. s \in [1..Len(s) -> T]
  BY <1>1
<1> QED
  BY <1>1, <1>2

\* A connection that is well formed stays so while events are added.
LEMMA ConnStateGrows ==
  ASSUME TypeInv, globalEid' \in Nat, globalEid <= globalEid', stored \subseteq stored',
         NEW r \in ConnState
  PROVE  r \in ConnState'
<1>1. Numbered \subseteq Numbered' /\ 0..globalEid \subseteq 0..globalEid'
  BY DEF TypeInv, Numbered
<1>2. Lines \subseteq Lines'
  BY <1>1 DEF Lines
<1>3. r.inbox \in Seq(Numbered') /\ r.parked \in Seq(Numbered') /\ r.out \in Seq(Lines')
  BY <1>1, <1>2, SeqGrows DEF ConnState
<1> QED
  BY <1>1, <1>3 DEF ConnState

\* Send appends a line unless the connection is going down.
LEMMA SendFields ==
  ASSUME TypeInv, NEW r \in ConnState, NEW e \in Numbered, NEW via \in {"history", "parked", "live"}
  PROVE  /\ Send(r, e, via) \in ConnState
         /\ Send(r, e, via) = [r EXCEPT !.out = IF r.closing THEN r.out
                                                ELSE Append(r.out, Line(e, via))]
<1>1. Line(e, via) \in Lines /\ Line(e, via) = [eid |-> e, via |-> via]
  BY DEF Line, Lines
<1>2. Append(r.out, Line(e, via)) \in Seq(Lines)
  BY <1>1 DEF ConnState
<1>3. CASE r.closing
  BY <1>3 DEF Send, ConnState
<1>4. CASE ~r.closing
  BY <1>4, <1>2 DEF Send, ConnState
<1> QED
  BY <1>3, <1>4

\* What a step of hand-over does to a connection: the cursor moves to an event
\* above it, which is sent unless the connection is going down.
Delivered(r, q, e, via) ==
  /\ q.pc = r.pc /\ q.closing = r.closing /\ q.prior = r.prior
  /\ q.inbox = r.inbox /\ q.parked = r.parked
  /\ q.history = r.history /\ q.historySeen = r.historySeen
  /\ q.read = r.read /\ q.from = r.from
  /\ q.cursor = IF e <= r.cursor THEN r.cursor ELSE e
  /\ q.out = IF e <= r.cursor \/ r.closing THEN r.out ELSE Append(r.out, Line(e, via))

LEMMA DeliverFields ==
  ASSUME TypeInv, NEW r \in ConnState, NEW e \in Numbered, NEW via \in {"history", "parked", "live"}
  PROVE  LET q == Deliver(r, e, via) IN
         q \in ConnState /\ q.flushed = r.flushed /\ Delivered(r, q, e, via)
<1>1. CASE e <= r.cursor
  BY <1>1 DEF Deliver, Delivered
<1>2. CASE ~(e <= r.cursor)
  <2> DEFINE s == Send(r, e, via)
         o == IF r.closing THEN r.out ELSE Append(r.out, Line(e, via))
  <2>1. s \in ConnState /\ s = [r EXCEPT !.out = o]
    BY SendFields
  <2>2. Deliver(r, e, via) = [s EXCEPT !.cursor = e]
    BY <1>2 DEF Deliver
  <2>3. e \in 0..globalEid
    BY DEF Numbered, TypeInv
  <2> HIDE DEF s, o
  <2>4. [s EXCEPT !.cursor = e] \in ConnState
    BY <2>1, <2>3 DEF ConnState
  <2> DEFINE q == [s EXCEPT !.cursor = e]
  <2>5. /\ q.pc = r.pc /\ q.closing = r.closing /\ q.prior = r.prior
        /\ q.inbox = r.inbox /\ q.parked = r.parked
        /\ q.history = r.history /\ q.historySeen = r.historySeen
        /\ q.read = r.read /\ q.from = r.from /\ q.flushed = r.flushed
        /\ q.cursor = e /\ q.out = o
    BY <2>1 DEF ConnState
  <2>6. q.out = IF e <= r.cursor \/ r.closing THEN r.out ELSE Append(r.out, Line(e, via))
    BY <1>2, <2>5 DEF o
  <2> HIDE DEF q
  <2> QED
    BY <1>2, <2>2, <2>4, <2>5, <2>6 DEF q, Delivered
<1> QED
  BY <1>1, <1>2

\* Faults are counted, and never uncounted.
Counted == faults' \in Nat /\ (faults' = 0 => faults = 0)

LEMMA FaultsCount ==
  ASSUME TypeInv
  PROVE  /\ UNCHANGED faults => Counted
         /\ Fault => Counted /\ faults' # 0
BY DEF TypeInv, Counted, Fault

\* A write of the cursor takes the stored cursor to the connection's, if that
\* has moved since its last write.
LEMMA KeepFields ==
  ASSUME TypeInv, NEW c \in Conns, NEW r \in ConnState, NEW due \in BOOLEAN, Keep(c, r, due)
  PROVE  /\ conn' = [conn EXCEPT ![c] = conn'[c]]
         /\ conn'[c] \in ConnState
         /\ conn'[c] = [r EXCEPT !.flushed = conn'[c].flushed]
         /\ \/ conn'[c].flushed = r.flushed /\ seen' = seen /\ (~due \/ faults' # 0)
            \/ /\ conn'[c].flushed = r.cursor
               /\ seen' = IF r.cursor > r.flushed THEN r.cursor ELSE seen
         /\ seen' \in 0..globalEid /\ Counted
<1> DEFINE q == IF due THEN [r EXCEPT !.flushed = r.cursor] ELSE r
<1>1. conn \in [Conns -> ConnState] /\ seen \in 0..globalEid /\ r.cursor \in 0..globalEid
  BY DEF TypeInv, ConnState
<1>2. q \in ConnState /\ q = [r EXCEPT !.flushed = q.flushed]
  BY DEF ConnState
<1>3. q.flushed = IF due THEN r.cursor ELSE r.flushed
  BY DEF ConnState
<1>4. r = [r EXCEPT !.flushed = r.flushed]
  BY DEF ConnState
<1>5. \/ /\ conn' = [conn EXCEPT ![c] = q]
         /\ seen' = IF due /\ r.cursor > r.flushed THEN r.cursor ELSE seen
         /\ UNCHANGED faults
      \/ conn' = [conn EXCEPT ![c] = r] /\ UNCHANGED seen /\ Fault
  BY DEF Keep
<1> HIDE DEF q
<1>6. CASE /\ conn' = [conn EXCEPT ![c] = q]
           /\ seen' = IF due /\ r.cursor > r.flushed THEN r.cursor ELSE seen
           /\ UNCHANGED faults
  <2>1. conn'[c] = q
    BY <1>1, <1>6
  <2> QED
    BY <1>1, <1>2, <1>3, <1>6, <2>1, FaultsCount
<1>7. CASE conn' = [conn EXCEPT ![c] = r] /\ UNCHANGED seen /\ Fault
  <2>1. conn'[c] = r
    BY <1>1, <1>7
  <2> QED
    BY <1>1, <1>4, <1>7, <2>1, FaultsCount
<1> QED
  BY <1>5, <1>6, <1>7

-----------------------------------------------------------------------------
(* What each step does to the connection that takes it, and the types. *)

\* Only connection c changes.
Only(c) == conn' = [conn EXCEPT ![c] = conn'[c]]

LEMMA OnlyOne ==
  ASSUME TypeInv, NEW c \in Conns, Only(c), conn'[c] \in ConnState
  PROVE  conn' \in [Conns -> ConnState] /\ \A d \in Conns : d # c => conn'[d] = conn[d]
BY DEF TypeInv, Only

\* A step of one connection that assigns it the state q.
LEMMA Assigned ==
  ASSUME TypeInv, NEW c \in Conns, NEW q, conn' = [conn EXCEPT ![c] = q]
  PROVE  conn'[c] = q /\ Only(c)
BY DEF TypeInv, Only

LEMMA ReadSeenFields ==
  ASSUME TypeInv, NEW c \in Conns, ReadSeen(c)
  PROVE  LET r == conn[c]  q == conn'[c] IN
         /\ Only(c) /\ q \in ConnState
         /\ r.pc = "seen" /\ UNCHANGED <<feed, seen, excused, overlapped>> /\ Counted
         /\ q.closing = r.closing /\ q.inbox = r.inbox /\ q.parked = r.parked
         /\ q.history = r.history /\ q.historySeen = r.historySeen /\ q.read = r.read
         /\ q.flushed = r.flushed /\ q.out = r.out
         /\ \/ /\ seen = 0 \/ faults' # 0
               /\ q.from = 0 /\ ~q.prior /\ q.cursor = r.read /\ q.pc \in {"burst", "playback"}
               /\ base' \in 0..globalEid /\ base' >= base /\ base' >= r.read
            \/ /\ seen # 0 /\ q.from = seen /\ q.prior /\ q.cursor = seen /\ q.pc = "fetch"
               /\ base' = base
<1>1. PICK found \in {seen, 0} :
        /\ Begin(c, found) /\ Counted
        /\ found = seen \/ faults' # 0
  BY FaultsCount DEF ReadSeen
<1> DEFINE r == conn[c]
           first == found = 0
           phase == IF ~first THEN "fetch" ELSE IF c \in Paging THEN "burst" ELSE "playback"
           start == IF first THEN r.read ELSE found
           q == [r EXCEPT !.from = found, !.prior = ~first, !.cursor = start, !.pc = phase]
<1>2. r \in ConnState /\ found \in 0..globalEid /\ base \in 0..globalEid /\ globalEid \in Nat
  BY DEF TypeInv
<1>3. conn' = [conn EXCEPT ![c] = q] /\ base' = IF first THEN Max({base, q.cursor}) ELSE base
  BY <1>1 DEF Begin
<1>4. conn'[c] = q /\ Only(c)
  BY <1>3, Assigned
<1>5. start \in 0..globalEid /\ phase \in Phases
  BY <1>2 DEF ConnState, Phases, Subscribed, Attaching
<1> HIDE DEF start, phase
<1>6. /\ q \in ConnState
      /\ q.closing = r.closing /\ q.inbox = r.inbox /\ q.parked = r.parked
      /\ q.history = r.history /\ q.historySeen = r.historySeen /\ q.read = r.read
      /\ q.flushed = r.flushed /\ q.out = r.out
      /\ q.from = found /\ q.prior = ~first /\ q.cursor = start /\ q.pc = phase
  BY <1>2, <1>5 DEF ConnState
<1> HIDE DEF q
<1>7. first => base' \in 0..globalEid /\ base' >= base /\ base' >= start
  <2> SUFFICES ASSUME first PROVE base' \in 0..globalEid /\ base' >= base /\ base' >= start
    OBVIOUS
  <2>1. {base, start} \in SUBSET (0..globalEid) /\ {base, start} # {} /\ base' = Max({base, start})
    BY <1>2, <1>3, <1>5, <1>6
  <2>2. base' \in {base, start} /\ \A y \in {base, start} : y <= base'
    BY <1>2, <2>1, MaxIsNewest
  <2> QED
    BY <1>2, <1>5, <2>2
<1>8. r.pc = "seen" /\ UNCHANGED <<feed, seen, excused, overlapped>>
  BY DEF ReadSeen
<1>9. CASE first
  <2>1. start = r.read /\ phase \in {"burst", "playback"}
    BY <1>9 DEF start, phase
  <2> QED
    BY <1>1, <1>4, <1>6, <1>7, <1>8, <1>9, <2>1
<1>10. CASE ~first
  <2>1. start = seen /\ found = seen /\ phase = "fetch" /\ base' = base
    BY <1>1, <1>3, <1>10 DEF start, phase
  <2> QED
    BY <1>1, <1>4, <1>6, <1>8, <1>10, <2>1
<1> QED
  BY <1>9, <1>10

\* An event counts as missed above the cursor that was read; a copy only if its
\* message is newer than that cursor's.
Newer(r, e) == e > r.from /\ (IsCopy(e) => r.from \in stored /\ msg[e] > msg[r.from])

\* Starting to send rows, at some cursor.
Replays(c) ==
  LET r == conn[c]  q == conn'[c] IN
  /\ q.closing = r.closing /\ q.prior = r.prior
  /\ q.inbox = r.inbox /\ q.parked = r.parked
  /\ q.read = r.read /\ q.from = r.from /\ q.flushed = r.flushed /\ q.out = r.out
  /\ q.pc = "burst"
  /\ q.history \in SUBSET stored
  /\ q.historySeen = {msg[e] : e \in q.history}

LEMMA ReplayFields ==
  ASSUME TypeInv, NEW c \in Conns, NEW r \in ConnState, NEW rows \in SUBSET stored,
         NEW x \in 0..globalEid, r = [conn[c] EXCEPT !.cursor = x],
         conn' = [conn EXCEPT ![c] = Replay(r, rows)]
  PROVE  /\ Only(c) /\ conn'[c] \in ConnState /\ Replays(c)
         /\ conn'[c].cursor = x /\ conn'[c].history = rows
<1> DEFINE heard == {msg[e] : e \in rows}
           q == [r EXCEPT !.history = rows, !.historySeen = heard, !.pc = "burst"]
<1>1. conn'[c] = q /\ Only(c)
  BY Assigned DEF Replay
<1>2. conn[c] \in ConnState
  BY DEF TypeInv
<1>3. heard \in SUBSET stored
  BY DEF TypeInv
<1>4. "burst" \in Phases
  BY DEF Phases, Subscribed, Attaching
<1>5. q.historySeen = {msg[e] : e \in rows}
  BY DEF ConnState
<1> HIDE DEF heard
<1>6. /\ q \in ConnState /\ q.cursor = r.cursor
      /\ q.closing = r.closing /\ q.prior = r.prior /\ q.inbox = r.inbox /\ q.parked = r.parked
      /\ q.read = r.read /\ q.from = r.from /\ q.flushed = r.flushed /\ q.out = r.out
      /\ q.pc = "burst" /\ q.history = rows
  BY <1>2, <1>3, <1>4 DEF ConnState
<1>7. /\ r.cursor = x
      /\ r.closing = conn[c].closing /\ r.prior = conn[c].prior
      /\ r.inbox = conn[c].inbox /\ r.parked = conn[c].parked
      /\ r.read = conn[c].read /\ r.from = conn[c].from /\ r.flushed = conn[c].flushed
      /\ r.out = conn[c].out
  BY <1>2 DEF ConnState
<1> HIDE DEF q
<1> QED
  BY <1>1, <1>5, <1>6, <1>7 DEF Replays

\* A page of the backlog: whatever lies above the cursor is on it or excused.
LEMMA FetchFields ==
  ASSUME TypeInv, NEW c \in Conns, Fetch(c), conn[c].from = conn[c].cursor
  PROVE  LET r == conn[c]  q == conn'[c] IN
         /\ Only(c) /\ q \in ConnState /\ Replays(c)
         /\ r.pc = "fetch" /\ UNCHANGED <<feed, seen, base, faults, overlapped>>
         /\ q.cursor >= r.cursor
         /\ q.cursor \in stored \cup {r.cursor, r.read}
         /\ \A x \in q.history : x <= q.cursor /\ Newer(r, x)
         /\ excused \subseteq excused'
         /\ \A e \in stored : e > r.cursor /\ msg[e] = e => e \in q.history \cup excused'
<1> DEFINE r == conn[c]
           missed == {e \in stored : e > r.cursor}
           page == Lowest(PageLimit, missed)
           last == Max(page \cup {r.cursor})
           x == CursorAfter(r, page)
           rows == FilterMissed(page, r.from)
           s == [r EXCEPT !.cursor = x]
<1>1. r \in ConnState /\ r.cursor \in 0..globalEid /\ r.read \in 0..globalEid /\ globalEid \in Nat
  BY DEF TypeInv, ConnState
<1>2. page \subseteq missed /\ missed \subseteq stored /\ stored \subseteq 1..globalEid
  BY DEF Lowest, TypeInv, Numbered
<1>3. page \cup {r.cursor} \in SUBSET (0..globalEid)
  <2> HIDE DEF page
  <2>1. ASSUME NEW y \in page PROVE y \in 0..globalEid
    <3>1. y \in 1..globalEid
      BY <1>2
    <3> QED
      BY <1>1, <3>1
  <2> QED
    BY <1>1, <2>1
<1>4. last \in page \cup {r.cursor} /\ \A y \in page \cup {r.cursor} : y <= last
  BY <1>1, <1>3, MaxIsNewest
<1>5. x \in page \cup {r.cursor, r.read} /\ x >= last
  <2>1. x \in {last, Max({last, r.read})}
    BY DEF CursorAfter
  <2>2. {last, r.read} \in SUBSET (0..globalEid) /\ {last, r.read} # {}
    BY <1>1, <1>3, <1>4
  <2>3. Max({last, r.read}) \in {last, r.read} /\ \A y \in {last, r.read} : y <= Max({last, r.read})
    BY <1>1, <2>2, MaxIsNewest
  <2>4. last \in Int
    BY <2>2
  <2> HIDE DEF last, x
  <2> QED
    BY <1>4, <2>1, <2>3, <2>4
<1>6. x \in 0..globalEid
  BY <1>1, <1>3, <1>5
<1>7. rows \subseteq page /\ \A y \in rows : Missed(y, r.from)
  BY DEF FilterMissed, Distinct
<1>8. conn' = [conn EXCEPT ![c] = Replay(s, rows)] /\ excused' = excused \cup (missed \ page)
  <2>1. conn' = [conn EXCEPT ![c] = Replay(s, FilterMissed(page, s.from))]
        /\ excused' = excused \cup (missed \ page)
    BY DEF Fetch
  <2>2. s.from = r.from
    BY <1>1 DEF ConnState
  <2> QED
    BY <2>1, <2>2
<1>9. s \in ConnState
  <2> HIDE DEF x
  <2> QED
    BY <1>1, <1>6 DEF ConnState
<1>10. r.pc = "fetch" /\ UNCHANGED <<feed, seen, base, faults, overlapped>>
  BY DEF Fetch
<1>11. /\ Only(c) /\ conn'[c] \in ConnState /\ Replays(c)
       /\ conn'[c].cursor = x /\ conn'[c].history = rows
  <2> rows \in SUBSET stored
    BY <1>2, <1>7
  <2> HIDE DEF rows, x
  <2>1. s \in ConnState /\ s = [conn[c] EXCEPT !.cursor = x] /\ x \in 0..globalEid
    BY <1>6, <1>9
  <2> HIDE DEF s
  <2> QED
    BY <1>8, <2>1, ReplayFields, ZenonT(40)
<1>12. \A y \in rows : y <= x /\ Newer(r, y)
  <2> SUFFICES ASSUME NEW y \in rows PROVE y <= x /\ Newer(r, y)
    OBVIOUS
  <2>1. y \in page /\ Missed(y, r.from)
    BY <1>7
  <2>2. y <= last /\ y > r.cursor
    BY <1>2, <1>4, <2>1
  <2>3. y \in Int /\ last \in Int /\ x \in Int
    BY <1>2, <1>3, <1>4, <1>6, <2>1
  <2>4. y <= x
    <3> HIDE DEF x, last
    <3> QED
      BY <1>5, <2>2, <2>3
  <2> QED
    BY <2>1, <2>2, <2>4 DEF Newer, Missed
<1>13. ASSUME NEW e \in stored, e > r.cursor, msg[e] = e
       PROVE  e \in rows \cup excused'
  <2>1. e \in missed
    BY <1>13
  <2>2. CASE e \notin page
    BY <1>8, <2>1, <2>2
  <2>3. CASE e \in page
    <3>1. Missed(e, r.from)
      BY <1>13 DEF Missed, IsCopy
    <3>2. \A f \in page : msg[f] = e => e <= f
      <4> SUFFICES ASSUME NEW f \in page, msg[f] = e PROVE e <= f
        OBVIOUS
      <4>1. f \in Eids
        <5>1. f \in 1..globalEid /\ globalEid \in 0..MaxEid
          BY <1>2 DEF TypeInv
        <5> QED
          BY <5>1, BouncerPlaybackAssumption DEF Eids
      <4> QED
        BY <4>1 DEF TypeInv
    <3> QED
      BY <1>13, <2>3, <3>1, <3>2 DEF FilterMissed, Distinct
  <2> QED
    BY <2>2, <2>3
<1>14. x >= r.cursor /\ x \in stored \cup {r.cursor, r.read}
  <2>1. last >= r.cursor /\ last \in Int /\ x \in Int
    BY <1>3, <1>4, <1>6
  <2> HIDE DEF last, x
  <2>2. x >= r.cursor
    BY <1>1, <1>5, <2>1
  <2> QED
    BY <1>2, <1>5, <2>2
<1> HIDE DEF x, rows
<1> QED
  BY <1>8, <1>10, <1>11, <1>12, <1>13, <1>14

LEMMA FetchFailsFields ==
  ASSUME TypeInv, NEW c \in Conns, FetchFails(c)
  PROVE  LET r == conn[c]  q == conn'[c] IN
         /\ Only(c) /\ q \in ConnState
         /\ r.pc = "fetch" /\ faults' = faults + 1 /\ UNCHANGED <<feed, seen, base, overlapped>>
         /\ q.closing = r.closing /\ q.prior = r.prior /\ q.inbox = r.inbox /\ q.parked = r.parked
         /\ q.history = r.history /\ q.historySeen = r.historySeen /\ q.read = r.read
         /\ q.from = r.from /\ q.flushed = r.flushed /\ q.out = r.out
         /\ q.pc = "burst" /\ q.cursor \in {r.cursor, r.read}
         /\ q.cursor >= r.cursor /\ q.cursor >= r.read
         /\ excused' = excused \cup {e \in stored : e > r.cursor /\ e <= r.read}
<1> DEFINE r == conn[c]
           x == Max({r.cursor, r.read})
           q == [r EXCEPT !.cursor = x, !.pc = "burst"]
<1>1. r \in ConnState /\ r.cursor \in 0..globalEid /\ r.read \in 0..globalEid /\ globalEid \in Nat
  BY DEF TypeInv, ConnState
<1>2. conn' = [conn EXCEPT ![c] = q]
  BY DEF FetchFails, TypeInv
<1>3. conn'[c] = q /\ Only(c)
  BY <1>2, Assigned
<1>4. {r.cursor, r.read} \in SUBSET (0..globalEid) /\ {r.cursor, r.read} # {}
  BY <1>1
<1>5. x \in {r.cursor, r.read} /\ \A y \in {r.cursor, r.read} : y <= x
  BY <1>1, <1>4, MaxIsNewest
<1> HIDE DEF x
<1>6. x \in 0..globalEid /\ x >= r.cursor /\ x >= r.read
  BY <1>1, <1>5
<1>7. "burst" \in Phases
  BY DEF Phases, Subscribed, Attaching
<1>8. /\ q \in ConnState
      /\ q.closing = r.closing /\ q.prior = r.prior /\ q.inbox = r.inbox /\ q.parked = r.parked
      /\ q.history = r.history /\ q.historySeen = r.historySeen /\ q.read = r.read
      /\ q.from = r.from /\ q.flushed = r.flushed /\ q.out = r.out
      /\ q.pc = "burst" /\ q.cursor = x
  BY <1>1, <1>6, <1>7 DEF ConnState
<1> HIDE DEF q
<1>9. /\ r.pc = "fetch" /\ faults' = faults + 1 /\ UNCHANGED <<feed, seen, base, overlapped>>
      /\ excused' = excused \cup {e \in stored : e > r.cursor /\ e <= r.read}
  BY DEF FetchFails, Fault
<1> QED
  BY <1>3, <1>5, <1>6, <1>8, <1>9

LEMMA FetchPlaybackFields ==
  ASSUME TypeInv, NEW c \in Conns, FetchPlayback(c)
  PROVE  LET r == conn[c]  q == conn'[c] IN
         /\ Only(c) /\ q \in ConnState /\ Replays(c)
         /\ r.pc = "playback" /\ UNCHANGED <<feed, seen, base, excused, faults, overlapped>>
         /\ q.cursor = r.cursor
<1> DEFINE r == conn[c]
           rows == Distinct(Highest(PlaybackLines, stored))
<1>1. r \in ConnState /\ r.cursor \in 0..globalEid
  BY DEF TypeInv, ConnState
<1>2. rows \in SUBSET stored
  BY DEF Distinct, Highest
<1>3. conn' = [conn EXCEPT ![c] = Replay(r, rows)]
  BY DEF FetchPlayback, TypeInv
<1> DEFINE s == [r EXCEPT !.cursor = r.cursor]
<1>4. s = r
  BY <1>1 DEF ConnState
<1>5. r.pc = "playback" /\ UNCHANGED <<feed, seen, base, excused, faults, overlapped>>
  BY DEF FetchPlayback
<1> HIDE DEF rows
<1>6. Only(c) /\ conn'[c] \in ConnState /\ Replays(c) /\ conn'[c].cursor = r.cursor
  <2>1. s \in ConnState /\ conn' = [conn EXCEPT ![c] = Replay(s, rows)]
    BY <1>1, <1>3, <1>4
  <2>2. s = [conn[c] EXCEPT !.cursor = r.cursor]
    OBVIOUS
  <2> HIDE DEF s
  <2> QED
    BY <1>1, <1>2, <2>1, <2>2, ReplayFields, ZenonT(40)
<1> QED
  BY <1>5, <1>6

LEMMA SendHistoryFields ==
  ASSUME TypeInv, NEW c \in Conns, SendHistory(c)
  PROVE  LET r == conn[c]  q == conn'[c] IN
         /\ Only(c) /\ q \in ConnState
         /\ r.pc = "burst" /\ UNCHANGED <<feed, seen, base, faults, overlapped>>
         /\ q.closing = r.closing /\ q.prior = r.prior /\ q.inbox = r.inbox /\ q.parked = r.parked
         /\ q.historySeen = r.historySeen /\ q.read = r.read /\ q.pc = r.pc
         /\ q.cursor = r.cursor /\ q.from = r.from /\ q.flushed = r.flushed
         /\ \E e \in r.history :
              /\ q.history = r.history \ {e}
              /\ q.out = IF r.closing THEN r.out ELSE Append(r.out, Line(e, "history"))
              /\ excused' = excused \cup (IF r.closing THEN {e, msg[e]} ELSE {})
<1> DEFINE r == conn[c]
<1>1. r \in ConnState
  BY DEF TypeInv
<1>2. PICK e \in r.history :
        /\ conn' = [conn EXCEPT ![c] = [Send(r, e, "history") EXCEPT !.history = r.history \ {e}]]
        /\ excused' = excused \cup (IF r.closing THEN {e, msg[e]} ELSE {})
  BY DEF SendHistory
<1> DEFINE o == IF r.closing THEN r.out ELSE Append(r.out, Line(e, "history"))
           s == Send(r, e, "history")
           q == [s EXCEPT !.history = r.history \ {e}]
<1>3. e \in Numbered
  BY <1>1 DEF ConnState, TypeInv
<1>4. s \in ConnState /\ s = [r EXCEPT !.out = o]
  BY <1>1, <1>3, SendFields
<1>5. conn' = [conn EXCEPT ![c] = q]
  BY <1>2
<1>6. conn'[c] = q /\ Only(c)
  BY <1>5, Assigned
<1> HIDE DEF s, o
<1>7. /\ q \in ConnState
      /\ q.closing = r.closing /\ q.prior = r.prior /\ q.inbox = r.inbox /\ q.parked = r.parked
      /\ q.historySeen = r.historySeen /\ q.read = r.read /\ q.pc = r.pc
      /\ q.cursor = r.cursor /\ q.from = r.from /\ q.flushed = r.flushed
      /\ q.history = r.history \ {e} /\ q.out = o
  BY <1>1, <1>4 DEF ConnState
<1> HIDE DEF q
<1>8. r.pc = "burst" /\ UNCHANGED <<feed, seen, base, faults, overlapped>>
  BY DEF SendHistory
<1>9. q.out = IF r.closing THEN r.out ELSE Append(r.out, Line(e, "history"))
  BY <1>7 DEF o
<1> QED
  BY <1>2, <1>6, <1>7, <1>8, <1>9

\* How a write of the cursor leaves the stored cursor and what was written.
Kept(r, q) ==
  \/ q.flushed = r.flushed /\ seen' = seen
  \/ q.flushed = q.cursor /\ seen' = IF q.cursor > r.flushed THEN q.cursor ELSE seen

LEMMA DeliverParkedFields ==
  ASSUME TypeInv, NEW c \in Conns, DeliverParked(c)
  PROVE  LET r == conn[c]  q == conn'[c] IN
         /\ Only(c) /\ q \in ConnState /\ seen' \in 0..globalEid /\ Kept(r, q)
         /\ r.pc \in {"burst", "drain"} /\ r.history = {}
         /\ UNCHANGED <<feed, base, overlapped>> /\ Counted
         /\ q.closing = r.closing /\ q.prior = r.prior /\ q.inbox = r.inbox
         /\ q.history = r.history /\ q.historySeen = r.historySeen
         /\ q.read = r.read /\ q.from = r.from /\ q.pc = "drain"
         /\ \E k \in DOMAIN r.parked :
              LET e == r.parked[k] IN
              /\ e > r.cursor /\ msg[e] \notin r.historySeen /\ q.cursor = e
              /\ \A i \in 1..(k - 1) : ~IsFresh(r, r.parked[i])
              /\ q.parked = SubSeq(r.parked, k + 1, Len(r.parked))
              /\ q.out = IF r.closing THEN r.out ELSE Append(r.out, Line(e, "parked"))
              /\ excused' = excused \cup (IF r.closing THEN {e} ELSE {})
<1> DEFINE r == conn[c]
<1>1. r \in ConnState
  BY DEF TypeInv
<1>2. PICK k \in DOMAIN r.parked :
        LET e == r.parked[k]
            rest == SubSeq(r.parked, k + 1, Len(r.parked))
            t == [r EXCEPT !.pc = "drain", !.parked = rest] IN
        /\ IsFresh(t, e) /\ \A i \in 1..(k - 1) : ~IsFresh(t, r.parked[i])
        /\ \E due \in Due(t, e) : Keep(c, Deliver(t, e, "parked"), due)
        /\ excused' = excused \cup (IF t.closing THEN {e} ELSE {})
  BY DEF DeliverParked
<1> DEFINE e == r.parked[k]
           rest == SubSeq(r.parked, k + 1, Len(r.parked))
           t == [r EXCEPT !.pc = "drain", !.parked = rest]
           q == conn'[c]
<1>3. k \in 1..Len(r.parked) /\ Len(r.parked) \in Nat /\ e \in Numbered
  BY <1>1 DEF ConnState
<1>4. rest \in Seq(Numbered)
  BY <1>1, <1>3 DEF ConnState
<1>5. "drain" \in Phases
  BY DEF Phases, Subscribed
<1>6. IsFresh(t, e) /\ \A i \in 1..(k - 1) : ~IsFresh(t, r.parked[i])
  BY <1>2
<1>7. PICK due \in Due(t, e) : Keep(c, Deliver(t, e, "parked"), due)
  BY <1>2
<1>8. excused' = excused \cup (IF t.closing THEN {e} ELSE {})
  BY <1>2
<1> HIDE DEF rest
<1>9. /\ t \in ConnState /\ t.pc = "drain" /\ t.parked = rest
      /\ t.closing = r.closing /\ t.prior = r.prior /\ t.inbox = r.inbox
      /\ t.history = r.history /\ t.historySeen = r.historySeen
      /\ t.read = r.read /\ t.from = r.from /\ t.cursor = r.cursor /\ t.flushed = r.flushed
      /\ t.out = r.out
  BY <1>1, <1>4, <1>5 DEF ConnState
<1> HIDE DEF t
<1>10. due \in BOOLEAN
  BY <1>7 DEF Due
<1> DEFINE u == Deliver(t, e, "parked")
<1>11. u \in ConnState /\ u.flushed = t.flushed /\ Delivered(t, u, e, "parked")
  BY <1>3, <1>9, DeliverFields
<1>12. /\ Only(c) /\ q \in ConnState /\ q = [u EXCEPT !.flushed = q.flushed]
       /\ \/ q.flushed = u.flushed /\ seen' = seen
          \/ q.flushed = u.cursor /\ seen' = IF u.cursor > u.flushed THEN u.cursor ELSE seen
       /\ seen' \in 0..globalEid /\ Counted
  <2> HIDE DEF u
  <2>1. Keep(c, u, due)
    BY <1>7 DEF u
  <2> QED
    BY <1>10, <1>11, <2>1, KeepFields DEF Only
<1> HIDE DEF u
<1>13. /\ q.pc = u.pc /\ q.closing = u.closing /\ q.prior = u.prior /\ q.inbox = u.inbox
       /\ q.parked = u.parked /\ q.history = u.history /\ q.historySeen = u.historySeen
       /\ q.read = u.read /\ q.from = u.from /\ q.cursor = u.cursor /\ q.out = u.out
  BY <1>11, <1>12 DEF ConnState
<1>14. r.pc \in {"burst", "drain"} /\ r.history = {} /\ UNCHANGED <<feed, base, overlapped>>
  BY DEF DeliverParked
<1>15. /\ e > r.cursor /\ msg[e] \notin r.historySeen
       /\ \A i \in 1..(k - 1) : ~IsFresh(r, r.parked[i])
  BY <1>6, <1>9 DEF IsFresh
<1>16. ~(e <= t.cursor)
  BY <1>1, <1>3, <1>9, <1>15 DEF ConnState, Numbered, TypeInv
<1>17. /\ q.cursor = e
       /\ q.out = IF r.closing THEN r.out ELSE Append(r.out, Line(e, "parked"))
  BY <1>9, <1>11, <1>13, <1>16 DEF Delivered
<1>18. /\ q.closing = r.closing /\ q.prior = r.prior /\ q.inbox = r.inbox
       /\ q.history = r.history /\ q.historySeen = r.historySeen
       /\ q.read = r.read /\ q.from = r.from /\ q.pc = "drain" /\ q.parked = rest
  BY <1>9, <1>11, <1>13 DEF Delivered
<1>19. Kept(r, q)
  BY <1>9, <1>11, <1>12, <1>13 DEF Kept
<1>20. excused' = excused \cup (IF r.closing THEN {e} ELSE {})
  BY <1>8, <1>9
<1>21. rest = SubSeq(r.parked, k + 1, Len(r.parked))
  BY DEF rest
<1> HIDE DEF q
<1> QED
  BY <1>12, <1>14, <1>15, <1>17, <1>18, <1>19, <1>20, <1>21 DEF q

LEMMA AttachedFields ==
  ASSUME TypeInv, NEW c \in Conns, Attached(c)
  PROVE  LET r == conn[c]  q == conn'[c] IN
         /\ Only(c) /\ q \in ConnState /\ seen' \in 0..globalEid /\ Kept(r, q)
         /\ r.pc \in {"burst", "drain"} /\ r.history = {}
         /\ \A e \in ToSet(r.parked) : ~IsFresh(r, e)
         /\ UNCHANGED <<feed, base, excused, overlapped>> /\ Counted
         /\ q.closing = r.closing /\ q.prior = r.prior /\ q.inbox = r.inbox /\ q.parked = <<>>
         /\ q.history = r.history /\ q.historySeen = {} /\ q.cursor = r.cursor
         /\ q.read = r.read /\ q.from = r.from /\ q.pc = "live" /\ q.out = r.out
<1> DEFINE r == conn[c]
           q == conn'[c]
           none == <<>>
           t == [r EXCEPT !.pc = "live", !.parked = none, !.historySeen = {}]
<1>1. r \in ConnState
  BY DEF TypeInv
<1>2. Keep(c, t, TRUE)
  BY DEF Attached
<1>3. /\ r.pc \in {"burst", "drain"} /\ r.history = {}
      /\ \A e \in ToSet(r.parked) : ~IsFresh(r, e)
      /\ UNCHANGED <<feed, base, excused, overlapped>>
  BY DEF Attached
<1>4. "live" \in Phases /\ none \in Seq(Numbered)
  BY DEF Phases, Subscribed
<1> HIDE DEF none
<1>5. /\ t \in ConnState
      /\ t.closing = r.closing /\ t.prior = r.prior /\ t.inbox = r.inbox /\ t.parked = none
      /\ t.history = r.history /\ t.historySeen = {} /\ t.cursor = r.cursor
      /\ t.read = r.read /\ t.from = r.from /\ t.pc = "live" /\ t.out = r.out
      /\ t.flushed = r.flushed
  BY <1>1, <1>4 DEF ConnState
<1> HIDE DEF t
<1>6. /\ Only(c) /\ q \in ConnState /\ q = [t EXCEPT !.flushed = q.flushed]
      /\ \/ q.flushed = t.flushed /\ seen' = seen
         \/ q.flushed = t.cursor /\ seen' = IF t.cursor > t.flushed THEN t.cursor ELSE seen
      /\ seen' \in 0..globalEid /\ Counted
  BY <1>2, <1>5, KeepFields DEF Only
<1>7. /\ q.closing = t.closing /\ q.prior = t.prior /\ q.inbox = t.inbox /\ q.parked = t.parked
      /\ q.history = t.history /\ q.historySeen = t.historySeen /\ q.cursor = t.cursor
      /\ q.read = t.read /\ q.from = t.from /\ q.pc = t.pc /\ q.out = t.out
  BY <1>5, <1>6 DEF ConnState
<1>8. Kept(r, q)
  BY <1>5, <1>6, <1>7 DEF Kept
<1> HIDE DEF q
<1> QED
  BY <1>3, <1>5, <1>6, <1>7, <1>8 DEF q, none

\* A message from the channel is dropped, parked or handed over.
LEMMA OnMessageFields ==
  ASSUME TypeInv, NEW c \in Conns, OnMessage(c)
  PROVE  LET r == conn[c]  q == conn'[c]  e == Head(r.inbox) IN
         /\ Only(c) /\ q \in ConnState /\ seen' \in 0..globalEid
         /\ r.pc \in Subscribed /\ r.inbox # <<>> /\ q.inbox = Tail(r.inbox)
         /\ UNCHANGED <<feed, base, overlapped>> /\ Counted
         /\ q.pc = r.pc /\ q.closing = r.closing /\ q.prior = r.prior
         /\ q.history = r.history /\ q.historySeen = r.historySeen
         /\ q.read = r.read /\ q.from = r.from
         /\ \/ /\ r.closing \/ r.pc \in Attaching
               /\ q.cursor = r.cursor /\ q.flushed = r.flushed /\ q.out = r.out /\ seen' = seen
               /\ \/ r.closing /\ q.parked = r.parked /\ excused' = excused
                  \/ ~r.closing /\ q.parked = r.parked /\ excused' = excused \cup {e}
                  \/ ~r.closing /\ q.parked = Append(r.parked, e) /\ excused' = excused
            \/ /\ ~r.closing /\ r.pc \in {"drain", "live"} /\ q.parked = r.parked
               /\ Kept(r, q)
               /\ q.cursor = IF e <= r.cursor THEN r.cursor ELSE e
               /\ q.out = IF e <= r.cursor THEN r.out ELSE Append(r.out, Line(e, "live"))
               /\ excused' = excused \cup {f \in ToSet(r.parked) : IsFresh(r, f) /\ f < e}
<1> DEFINE r == conn[c]
           q == conn'[c]
           e == Head(r.inbox)
           t == [r EXCEPT !.inbox = Tail(@)]
<1>1. r \in ConnState
  BY DEF TypeInv
<1>2. /\ r.pc \in Subscribed /\ r.inbox # <<>>
      /\ UNCHANGED <<feed, base, overlapped>> /\ Counted
  <2>1. UNCHANGED faults \/ Fault
    BY DEF OnMessage, Keep
  <2>2. r.pc \in Subscribed /\ r.inbox # <<>> /\ UNCHANGED <<feed, base, overlapped>>
    BY DEF OnMessage
  <2> QED
    BY <2>1, <2>2, FaultsCount
<1>3. e \in Numbered /\ Tail(r.inbox) \in Seq(Numbered)
  BY <1>1, <1>2 DEF ConnState
<1>4. \/ /\ t.closing
         /\ conn' = [conn EXCEPT ![c] = t] /\ UNCHANGED <<seen, excused>>
      \/ /\ ~t.closing /\ t.pc \in Attaching
         /\ LET room == Len(t.parked) < ParkMax IN
              /\ conn' = [conn EXCEPT ![c] = IF room THEN [t EXCEPT !.parked = Append(t.parked, e)] ELSE t]
              /\ excused' = excused \cup (IF room THEN {} ELSE {e})
         /\ UNCHANGED seen
      \/ /\ ~t.closing /\ t.pc \notin Attaching
         /\ \E due \in Due(t, e) : Keep(c, Deliver(t, e, "live"), due)
         /\ excused' = excused \cup {f \in ToSet(t.parked) : IsFresh(t, f) /\ f < e}
  BY DEF OnMessage
<1>5. /\ t \in ConnState /\ t.inbox = Tail(r.inbox)
      /\ t.pc = r.pc /\ t.closing = r.closing /\ t.prior = r.prior /\ t.parked = r.parked
      /\ t.history = r.history /\ t.historySeen = r.historySeen /\ t.cursor = r.cursor
      /\ t.read = r.read /\ t.from = r.from /\ t.flushed = r.flushed /\ t.out = r.out
  BY <1>1, <1>3 DEF ConnState
<1>6. seen \in 0..globalEid
  BY DEF TypeInv
<1> HIDE DEF t
<1>7. ASSUME conn' = [conn EXCEPT ![c] = t]
      PROVE  q = t /\ Only(c)
  BY <1>7, Assigned
<1>8. CASE t.closing /\ conn' = [conn EXCEPT ![c] = t] /\ UNCHANGED <<seen, excused>>
  BY <1>2, <1>5, <1>6, <1>7, <1>8
<1>9. CASE /\ ~t.closing /\ t.pc \in Attaching /\ UNCHANGED seen
           /\ conn' = [conn EXCEPT ![c] = t] /\ excused' = excused \cup {e}
  BY <1>2, <1>5, <1>6, <1>7, <1>9
<1>10. CASE /\ ~t.closing /\ t.pc \in Attaching /\ UNCHANGED seen
            /\ conn' = [conn EXCEPT ![c] = [t EXCEPT !.parked = Append(t.parked, e)]]
            /\ excused' = excused
  <2> DEFINE u == [t EXCEPT !.parked = Append(t.parked, e)]
  <2>1. Append(t.parked, e) \in Seq(Numbered)
    BY <1>3, <1>5 DEF ConnState
  <2>2. /\ u \in ConnState /\ u.inbox = t.inbox
        /\ u.pc = t.pc /\ u.closing = t.closing /\ u.prior = t.prior
        /\ u.parked = Append(t.parked, e)
        /\ u.history = t.history /\ u.historySeen = t.historySeen /\ u.cursor = t.cursor
        /\ u.read = t.read /\ u.from = t.from /\ u.flushed = t.flushed /\ u.out = t.out
    BY <1>5, <2>1 DEF ConnState
  <2>3. q = u /\ Only(c)
    BY <1>10, Assigned
  <2> HIDE DEF u, q, e
  <2>4. Only(c) /\ q \in ConnState
    BY <2>2, <2>3
  <2> QED
    BY <1>2, <1>5, <1>6, <1>10, <2>2, <2>3, <2>4 DEF q, e
<1>11. CASE /\ ~t.closing /\ t.pc \notin Attaching
            /\ \E due \in Due(t, e) : Keep(c, Deliver(t, e, "live"), due)
            /\ excused' = excused \cup {f \in ToSet(t.parked) : IsFresh(t, f) /\ f < e}
  <2>1. PICK due \in Due(t, e) : Keep(c, Deliver(t, e, "live"), due)
    BY <1>11
  <2>2. due \in BOOLEAN
    BY <2>1 DEF Due
  <2> DEFINE u == Deliver(t, e, "live")
  <2>3. u \in ConnState /\ u.flushed = t.flushed /\ Delivered(t, u, e, "live")
    BY <1>3, <1>5, DeliverFields
  <2>4. /\ Only(c) /\ q \in ConnState /\ q = [u EXCEPT !.flushed = q.flushed]
        /\ \/ q.flushed = u.flushed /\ seen' = seen
           \/ q.flushed = u.cursor /\ seen' = IF u.cursor > u.flushed THEN u.cursor ELSE seen
        /\ seen' \in 0..globalEid
    <3> HIDE DEF u
    <3>1. Keep(c, u, due)
      BY <2>1 DEF u
    <3> QED
      BY <2>2, <2>3, <3>1, KeepFields DEF Only
  <2> HIDE DEF u
  <2>5. /\ q.pc = u.pc /\ q.closing = u.closing /\ q.prior = u.prior /\ q.inbox = u.inbox
        /\ q.parked = u.parked /\ q.history = u.history /\ q.historySeen = u.historySeen
        /\ q.read = u.read /\ q.from = u.from /\ q.cursor = u.cursor /\ q.out = u.out
    BY <2>3, <2>4 DEF ConnState
  <2>6. /\ q.closing = r.closing /\ q.prior = r.prior /\ q.inbox = Tail(r.inbox)
        /\ q.history = r.history /\ q.historySeen = r.historySeen /\ q.parked = r.parked
        /\ q.read = r.read /\ q.from = r.from /\ q.pc = r.pc
    BY <1>5, <2>3, <2>5 DEF Delivered
  <2>7. Kept(r, q)
    BY <1>5, <2>3, <2>4, <2>5 DEF Kept
  <2>8. ~r.closing /\ r.pc \in {"drain", "live"}
    BY <1>2, <1>5, <1>11 DEF Subscribed
  <2>9. q.cursor = IF e <= r.cursor THEN r.cursor ELSE e
    BY <1>5, <2>3, <2>5 DEF Delivered
  <2>10. q.out = IF e <= r.cursor THEN r.out ELSE Append(r.out, Line(e, "live"))
    BY <1>5, <2>3, <2>5, <2>8 DEF Delivered
  <2>11. excused' = excused \cup {f \in ToSet(r.parked) : IsFresh(r, f) /\ f < e}
    BY <1>5, <1>11 DEF IsFresh
  <2> HIDE DEF q, e
  <2> QED
    BY <1>2, <2>4, <2>6, <2>7, <2>8, <2>9, <2>10, <2>11 DEF q, e
<1>12. \/ t.closing /\ conn' = [conn EXCEPT ![c] = t] /\ UNCHANGED <<seen, excused>>
       \/ /\ ~t.closing /\ t.pc \in Attaching /\ UNCHANGED seen
          /\ conn' = [conn EXCEPT ![c] = t] /\ excused' = excused \cup {e}
       \/ /\ ~t.closing /\ t.pc \in Attaching /\ UNCHANGED seen
          /\ conn' = [conn EXCEPT ![c] = [t EXCEPT !.parked = Append(t.parked, e)]]
          /\ excused' = excused
       \/ /\ ~t.closing /\ t.pc \notin Attaching
          /\ \E due \in Due(t, e) : Keep(c, Deliver(t, e, "live"), due)
          /\ excused' = excused \cup {f \in ToSet(t.parked) : IsFresh(t, f) /\ f < e}
  BY <1>4
<1> QED
  BY <1>8, <1>9, <1>10, <1>11, <1>12

LEMMA AttachFields ==
  ASSUME TypeInv, NEW c \in Conns, Attach(c)
  PROVE  LET r == conn[c]  q == conn'[c] IN
         /\ Only(c) /\ q \in ConnState /\ UNCHANGED <<feed, seen, base, excused>>
         /\ r.pc = "away" /\ q.pc = "count"
         /\ \A d \in Conns : d < c => conn[d].pc # "away"
         /\ faults' \in Nat /\ overlapped' \in BOOLEAN
         /\ faults' = 0 => faults = 0
         /\ ~overlapped' => ~overlapped /\ \A d \in Conns : conn[d].pc \notin Subscribed
         /\ q.closing = r.closing /\ q.prior = r.prior /\ q.inbox = r.inbox /\ q.parked = r.parked
         /\ q.history = r.history /\ q.historySeen = r.historySeen /\ q.cursor = r.cursor
         /\ q.read = r.read /\ q.from = r.from /\ q.flushed = r.flushed /\ q.out = r.out
<1> DEFINE r == conn[c]
           q == [r EXCEPT !.pc = "count"]
           others == {d \in Conns : conn[d].pc \in Subscribed}
<1>1. r \in ConnState /\ faults \in Nat /\ overlapped \in BOOLEAN
  BY DEF TypeInv
<1>2. conn' = [conn EXCEPT ![c] = q]
  BY DEF Attach, TypeInv
<1>3. conn'[c] = q /\ Only(c)
  BY <1>2, Assigned
<1>4. "count" \in Phases
  BY DEF Phases, Subscribed, Attaching
<1>5. /\ q \in ConnState /\ q.pc = "count"
      /\ q.closing = r.closing /\ q.prior = r.prior /\ q.inbox = r.inbox /\ q.parked = r.parked
      /\ q.history = r.history /\ q.historySeen = r.historySeen /\ q.cursor = r.cursor
      /\ q.read = r.read /\ q.from = r.from /\ q.flushed = r.flushed /\ q.out = r.out
  BY <1>1, <1>4 DEF ConnState
<1>6. /\ r.pc = "away" /\ \A d \in Conns : d < c => conn[d].pc # "away"
      /\ faults' = IF others # {} THEN faults + 1 ELSE faults
      /\ overlapped' = (overlapped \/ others # {})
      /\ UNCHANGED <<feed, seen, base, excused>>
  BY DEF Attach
<1>7. faults' \in Nat /\ overlapped' \in BOOLEAN /\ (faults' = 0 => faults = 0)
  BY <1>1, <1>6
<1>8. ~overlapped' => ~overlapped /\ \A d \in Conns : conn[d].pc \notin Subscribed
  BY <1>6
<1> HIDE DEF q
<1> QED
  BY <1>3, <1>5, <1>6, <1>7, <1>8

LEMMA ReadGlobalEidFields ==
  ASSUME TypeInv, NEW c \in Conns, ReadGlobalEid(c)
  PROVE  LET r == conn[c]  q == conn'[c] IN
         /\ Only(c) /\ q \in ConnState /\ UNCHANGED <<feed, seen, base, overlapped>>
         /\ Counted /\ r.pc = "count" /\ q.pc = "seen"
         /\ \/ q.read = globalEid /\ excused' = excused \cup (InFlight \ stored)
            \/ q.read = 0 /\ excused' = excused \cup 1..globalEid /\ faults' # 0
         /\ q.closing = r.closing /\ q.prior = r.prior /\ q.inbox = r.inbox /\ q.parked = r.parked
         /\ q.history = r.history /\ q.historySeen = r.historySeen /\ q.cursor = r.cursor
         /\ q.from = r.from /\ q.flushed = r.flushed /\ q.out = r.out
<1> DEFINE Reads(n) == conn' = [conn EXCEPT ![c] = [conn[c] EXCEPT !.pc = "seen", !.read = n]]
<1>1. conn \in [Conns -> ConnState]
  BY DEF TypeInv
<1>2. \/ Reads(globalEid) /\ UNCHANGED faults /\ excused' = excused \cup (InFlight \ stored)
      \/ Reads(0) /\ Fault /\ excused' = excused \cup 1..globalEid
  BY <1>1 DEF ReadGlobalEid
<1>3. PICK count \in {globalEid, 0} :
        /\ Reads(count) /\ Counted
        /\ \/ count = globalEid /\ excused' = excused \cup (InFlight \ stored)
           \/ count = 0 /\ excused' = excused \cup 1..globalEid /\ faults' # 0
  <2> HIDE DEF Reads
  <2> QED
    BY <1>2, FaultsCount
<1> DEFINE r == conn[c]
           q == [r EXCEPT !.pc = "seen", !.read = count]
<1>4. r \in ConnState /\ count \in 0..globalEid /\ conn' = [conn EXCEPT ![c] = q]
  <2>1. conn[c] \in ConnState /\ globalEid \in Nat
    BY DEF TypeInv
  <2> QED
    BY <1>3, <2>1
<1>5. conn'[c] = q /\ Only(c)
  BY <1>4, Assigned
<1>6. "seen" \in Phases
  BY DEF Phases, Subscribed, Attaching
<1>7. /\ q \in ConnState /\ q.pc = "seen" /\ q.read = count
      /\ q.closing = r.closing /\ q.prior = r.prior /\ q.inbox = r.inbox /\ q.parked = r.parked
      /\ q.history = r.history /\ q.historySeen = r.historySeen /\ q.cursor = r.cursor
      /\ q.from = r.from /\ q.flushed = r.flushed /\ q.out = r.out
  BY <1>4, <1>6 DEF ConnState
<1>8. r.pc = "count" /\ UNCHANGED <<feed, seen, base, overlapped>>
  BY DEF ReadGlobalEid
<1> HIDE DEF q
<1> QED
  BY <1>3, <1>5, <1>7, <1>8

LEMMA MarkClosingFields ==
  ASSUME TypeInv, NEW c \in Conns, MarkClosing(c)
  PROVE  LET r == conn[c]  q == conn'[c] IN
         /\ Only(c) /\ q \in ConnState /\ UNCHANGED <<feed, seen, base, excused, overlapped>>
         /\ r.pc \in Subscribed /\ q.pc = r.pc /\ q.closing
         /\ faults' \in Nat /\ (faults' = 0 => faults = 0)
         /\ q.prior = r.prior /\ q.inbox = r.inbox /\ q.parked = r.parked
         /\ q.history = r.history /\ q.historySeen = r.historySeen /\ q.cursor = r.cursor
         /\ q.read = r.read /\ q.from = r.from /\ q.flushed = r.flushed /\ q.out = r.out
<1> DEFINE r == conn[c]
           q == [r EXCEPT !.closing = TRUE]
<1>1. r \in ConnState /\ faults \in Nat
  BY DEF TypeInv
<1>2. conn' = [conn EXCEPT ![c] = q]
  BY DEF MarkClosing, TypeInv
<1>3. conn'[c] = q /\ Only(c)
  BY <1>2, Assigned
<1>4. /\ q \in ConnState /\ q.closing /\ q.pc = r.pc
      /\ q.prior = r.prior /\ q.inbox = r.inbox /\ q.parked = r.parked
      /\ q.history = r.history /\ q.historySeen = r.historySeen /\ q.cursor = r.cursor
      /\ q.read = r.read /\ q.from = r.from /\ q.flushed = r.flushed /\ q.out = r.out
  BY <1>1 DEF ConnState
<1>5. r.pc \in Subscribed /\ UNCHANGED <<feed, seen, base, excused, overlapped>>
  BY DEF MarkClosing
<1>6. faults' \in Nat /\ (faults' = 0 => faults = 0)
  BY <1>1 DEF MarkClosing, Fault
<1> HIDE DEF q
<1> QED
  BY <1>3, <1>4, <1>5, <1>6

LEMMA FreshType ==
  ASSUME globalEid \in Nat
  PROVE  Fresh \in ConnState
<1> DEFINE none == <<>>
<1>1. none \in Seq(Numbered) /\ none \in Seq(Lines) /\ "away" \in Phases /\ 0 \in 0..globalEid
  BY DEF Phases
<1>2. Fresh = [pc |-> "away", closing |-> FALSE, prior |-> FALSE,
               inbox |-> none, parked |-> none, history |-> {}, historySeen |-> {},
               read |-> 0, from |-> 0, cursor |-> 0, flushed |-> 0, out |-> none]
  BY DEF Fresh
<1> HIDE DEF none
<1> QED
  BY <1>1, <1>2 DEF ConnState

LEMMA ClosedFields ==
  ASSUME TypeInv, NEW r \in ConnState
  PROVE  LET q == Closed(r) IN
         /\ q \in ConnState /\ q.pc = "gone" /\ ~q.closing
         /\ q.prior = r.prior /\ q.inbox = <<>> /\ q.parked = <<>>
         /\ q.history = {} /\ q.historySeen = {} /\ q.cursor = 0 /\ q.flushed = 0
         /\ q.read = r.read /\ q.from = r.from /\ q.out = r.out
<1> DEFINE none == <<>>
<1>1. none \in Seq(Numbered) /\ "gone" \in Phases /\ 0 \in 0..globalEid
  BY DEF Phases, TypeInv
<1>2. r.prior \in BOOLEAN /\ r.read \in 0..globalEid /\ r.from \in 0..globalEid /\ r.out \in Seq(Lines)
  BY DEF ConnState
<1>3. /\ Fresh.closing = FALSE /\ Fresh.inbox = none /\ Fresh.parked = none
      /\ Fresh.history = {} /\ Fresh.historySeen = {}
      /\ Fresh.cursor = 0 /\ Fresh.flushed = 0
  BY DEF Fresh
<1>4. Fresh \in ConnState
  BY FreshType DEF TypeInv
<1> HIDE DEF none
<1>5. /\ Closed(r) = [Fresh EXCEPT !.pc = "gone", !.out = r.out, !.prior = r.prior,
                                  !.read = r.read, !.from = r.from]
  BY DEF Closed
<1>6. Closed(r) \in ConnState
  BY <1>1, <1>2, <1>4, <1>5 DEF ConnState
<1>7. /\ Closed(r).pc = "gone" /\ Closed(r).closing = Fresh.closing
      /\ Closed(r).inbox = Fresh.inbox /\ Closed(r).parked = Fresh.parked
      /\ Closed(r).history = Fresh.history /\ Closed(r).historySeen = Fresh.historySeen
      /\ Closed(r).cursor = Fresh.cursor /\ Closed(r).flushed = Fresh.flushed
      /\ Closed(r).prior = r.prior /\ Closed(r).read = r.read /\ Closed(r).from = r.from
      /\ Closed(r).out = r.out
  BY <1>4, <1>5 DEF ConnState
<1> QED
  BY <1>3, <1>6, <1>7 DEF none

LEMMA TeardownFields ==
  ASSUME TypeInv, NEW c \in Conns, Teardown(c)
  PROVE  LET r == conn[c]  q == conn'[c] IN
         /\ Only(c) /\ q \in ConnState /\ q = Closed(r)
         /\ r.pc = "live" /\ UNCHANGED <<feed, base, excused, overlapped>>
         /\ \/ seen' = IF r.cursor > r.flushed THEN r.cursor ELSE seen
            \/ seen' = seen /\ faults' # 0
         /\ Counted
         /\ seen' \in 0..globalEid
<1> DEFINE r == conn[c]
<1>1. r \in ConnState /\ seen \in 0..globalEid
  BY DEF TypeInv
<1>2. conn' = [conn EXCEPT ![c] = Closed(r)]
  BY DEF Teardown
<1>3. conn'[c] = Closed(r) /\ Only(c)
  BY <1>2, Assigned
<1>4. Closed(r) \in ConnState
  BY <1>1, ClosedFields
<1>5. /\ r.pc = "live" /\ UNCHANGED <<feed, base, excused, overlapped>> /\ Counted
      /\ \/ seen' = IF r.cursor > r.flushed THEN r.cursor ELSE seen
         \/ seen' = seen /\ faults' # 0
  BY FaultsCount DEF Teardown
<1>6. r.cursor \in 0..globalEid
  BY <1>1 DEF ConnState
<1> QED
  BY <1>1, <1>3, <1>4, <1>5, <1>6

LEMMA CrashFields ==
  ASSUME TypeInv, Crash
  PROVE  /\ conn' \in [Conns -> ConnState]
         /\ \A c \in Conns : conn'[c] = IF conn[c].pc \in Subscribed THEN Closed(conn[c]) ELSE conn[c]
         /\ pub' = [pub EXCEPT ![Bouncer] = 0] /\ faults' \in Nat /\ faults' # 0
         /\ UNCHANGED <<globalEid, msg, stored, seen, base, excused, overlapped>>
<1>1. conn \in [Conns -> ConnState] /\ faults \in Nat
  BY DEF TypeInv
<1>2. \A c \in Conns : Closed(conn[c]) \in ConnState
  BY <1>1, ClosedFields
<1> QED
  BY <1>1, <1>2 DEF Crash, Fault

\* Publishing only puts the event into the inboxes of those that subscribe.
LEMMA PublishFields ==
  ASSUME TypeInv, NEW p \in Pubs, Publish(p)
  PROVE  /\ pub[p] \in stored /\ pub[p] \in Numbered /\ pub' = [pub EXCEPT ![p] = 0]
         /\ excused' = excused \cup {e \in InFlight : e < pub[p]}
         /\ UNCHANGED <<globalEid, msg, stored, seen, base, faults, overlapped>>
         /\ conn' \in [Conns -> ConnState]
         /\ \A c \in Conns : LET r == conn[c]  q == conn'[c] IN
              /\ q.inbox = IF r.pc \in Subscribed THEN Append(r.inbox, pub[p]) ELSE r.inbox
              /\ q.pc = r.pc /\ q.closing = r.closing /\ q.prior = r.prior /\ q.parked = r.parked
              /\ q.history = r.history /\ q.historySeen = r.historySeen /\ q.cursor = r.cursor
              /\ q.read = r.read /\ q.from = r.from /\ q.flushed = r.flushed /\ q.out = r.out
<1> DEFINE New(c) == IF conn[c].pc \in Subscribed
                     THEN [conn[c] EXCEPT !.inbox = Append(conn[c].inbox, pub[p])] ELSE conn[c]
<1>1. /\ pub[p] \in stored /\ pub' = [pub EXCEPT ![p] = 0]
      /\ excused' = excused \cup {e \in InFlight : e < pub[p]}
      /\ UNCHANGED <<globalEid, msg, stored, seen, base, faults, overlapped>>
      /\ conn' = [c \in Conns |-> New(c)]
  BY DEF Publish
<1>2. pub[p] \in Numbered
  BY <1>1 DEF TypeInv
<1>3. ASSUME NEW c \in Conns
      PROVE  LET r == conn[c]  q == conn'[c] IN
             /\ q \in ConnState
             /\ q.inbox = IF r.pc \in Subscribed THEN Append(r.inbox, pub[p]) ELSE r.inbox
             /\ q.pc = r.pc /\ q.closing = r.closing /\ q.prior = r.prior /\ q.parked = r.parked
             /\ q.history = r.history /\ q.historySeen = r.historySeen /\ q.cursor = r.cursor
             /\ q.read = r.read /\ q.from = r.from /\ q.flushed = r.flushed /\ q.out = r.out
  <2> DEFINE r == conn[c]
             more == Append(r.inbox, pub[p])
             u == [r EXCEPT !.inbox = more]
  <2>1. r \in ConnState /\ conn'[c] = IF r.pc \in Subscribed THEN u ELSE r
    BY <1>1 DEF TypeInv
  <2>2. more \in Seq(Numbered)
    BY <1>2, <2>1 DEF ConnState
  <2> HIDE DEF more
  <2>3. /\ u \in ConnState /\ u.inbox = more
        /\ u.pc = r.pc /\ u.closing = r.closing /\ u.prior = r.prior /\ u.parked = r.parked
        /\ u.history = r.history /\ u.historySeen = r.historySeen /\ u.cursor = r.cursor
        /\ u.read = r.read /\ u.from = r.from /\ u.flushed = r.flushed /\ u.out = r.out
    BY <2>1, <2>2 DEF ConnState
  <2> HIDE DEF u
  <2>4. CASE r.pc \in Subscribed
    BY <2>1, <2>3, <2>4 DEF more
  <2>5. CASE r.pc \notin Subscribed
    BY <2>1, <2>5
  <2> QED
    BY <2>4, <2>5
<1>4. DOMAIN conn' = Conns /\ conn' = [c \in Conns |-> conn'[c]]
  BY <1>1
<1>5. conn' \in [Conns -> ConnState]
  BY <1>3, <1>4
<1> QED
  BY <1>1, <1>2, <1>3, <1>5

LEMMA NumberFields ==
  ASSUME TypeInv, NEW p \in Pubs, Number(p)
  PROVE  /\ pub[p] = 0 /\ globalEid' = globalEid + 1 /\ globalEid' \in Eids
         /\ pub' = [pub EXCEPT ![p] = globalEid']
         /\ \E m \in {globalEid'} \cup stored : msg' = [msg EXCEPT ![globalEid'] = m] /\ m <= globalEid'
         /\ UNCHANGED <<stored, seen, conn, base, excused, faults, overlapped>>
<1>1. globalEid \in 0..MaxEid /\ stored \subseteq 1..globalEid /\ MaxEid \in Nat
  BY BouncerPlaybackAssumption DEF TypeInv, Numbered
<1>2. /\ pub[p] = 0 /\ globalEid < MaxEid /\ globalEid' = globalEid + 1
      /\ pub' = [pub EXCEPT ![p] = globalEid + 1]
      /\ UNCHANGED <<stored, seen, conn, base, excused, faults, overlapped>>
  BY DEF Number
<1>3. PICK m \in {globalEid'} \cup stored : msg' = [msg EXCEPT ![globalEid'] = m]
  BY <1>2 DEF Number
<1>4. m <= globalEid'
  BY <1>1, <1>2, <1>3
<1>5. globalEid' \in Eids
  BY <1>1, <1>2 DEF Eids
<1> QED
  BY <1>2, <1>3, <1>4, <1>5

\* The feed only grows: numbers, messages and stored rows stay.
Grows ==
  /\ globalEid' \in 0..MaxEid /\ globalEid <= globalEid' /\ stored \subseteq stored'
  /\ \A e \in Numbered : msg'[e] = msg[e]

LEMMA FeedGrows ==
  ASSUME TypeInv, [Next]_vars
  PROVE  Grows
<1>1. globalEid \in 0..MaxEid /\ globalEid \in Nat
  BY DEF TypeInv
<1>2. ASSUME UNCHANGED <<globalEid, msg, stored>> PROVE Grows
  BY <1>1, <1>2 DEF Grows
<1>3. CASE NumberElsewhere
  <2>1. globalEid' = globalEid + 1 /\ globalEid < MaxEid /\ UNCHANGED <<msg, stored>>
    BY <1>3 DEF NumberElsewhere
  <2>2. globalEid' \in 0..MaxEid /\ globalEid <= globalEid'
    BY <1>1, <2>1, BouncerPlaybackAssumption
  <2> QED
    BY <2>1, <2>2 DEF Grows
<1>4. ASSUME NEW p \in Pubs, Number(p) PROVE Grows
  <2>1. globalEid' = globalEid + 1 /\ globalEid' \in Eids /\ stored' = stored
    BY <1>4, NumberFields
  <2>2. PICK m : msg' = [msg EXCEPT ![globalEid'] = m]
    BY <1>4, NumberFields
  <2>3. \A e \in Numbered : msg'[e] = msg[e]
    BY <1>1, <2>1, <2>2 DEF TypeInv, Numbered
  <2>4. globalEid' \in 0..MaxEid /\ globalEid <= globalEid'
    BY <1>1, <2>1 DEF Eids
  <2> QED
    BY <2>1, <2>3, <2>4 DEF Grows
<1>5. ASSUME NEW p \in Pubs, Store(p) PROVE Grows
  <2>1. UNCHANGED <<globalEid, msg>> /\ stored \subseteq stored'
    BY <1>5 DEF Store
  <2> QED
    BY <1>1, <2>1 DEF Grows
<1>6. ASSUME NEW p \in Pubs, Publish(p) PROVE Grows
  BY <1>2, <1>6 DEF Publish
<1>7. CASE Crash
  BY <1>2, <1>7 DEF Crash
<1>8. ASSUME NEW c \in Conns,
             Attach(c) \/ Attachment(c) \/ FetchFails(c) \/ OnMessage(c) \/ MarkClosing(c)
      PROVE  Grows
  <2>1. CASE Attach(c)
    BY <1>2, <2>1 DEF Attach, feed
  <2>2. CASE ReadGlobalEid(c)
    BY <1>2, <2>2 DEF ReadGlobalEid, feed
  <2>3. CASE ReadSeen(c)
    BY <1>2, <2>3 DEF ReadSeen, feed
  <2>4. CASE Fetch(c)
    BY <1>2, <2>4 DEF Fetch, feed
  <2>5. CASE FetchPlayback(c)
    BY <1>2, <2>5 DEF FetchPlayback, feed
  <2>6. CASE SendHistory(c)
    BY <1>2, <2>6 DEF SendHistory, feed
  <2>7. CASE DeliverParked(c)
    BY <1>2, <2>7 DEF DeliverParked, feed
  <2>8. CASE Attached(c)
    BY <1>2, <2>8 DEF Attached, feed
  <2>9. CASE Teardown(c)
    BY <1>2, <2>9 DEF Teardown, feed
  <2>10. CASE FetchFails(c)
    BY <1>2, <2>10 DEF FetchFails, feed
  <2>11. CASE OnMessage(c)
    BY <1>2, <2>11 DEF OnMessage, feed
  <2>12. CASE MarkClosing(c)
    BY <1>2, <2>12 DEF MarkClosing, feed
  <2> QED
    BY <1>8, <2>1, <2>2, <2>3, <2>4, <2>5, <2>6, <2>7, <2>8, <2>9, <2>10, <2>11, <2>12 DEF Attachment
<1>9. CASE UNCHANGED vars
  BY <1>2, <1>9 DEF vars
<1> QED
  BY <1>3, <1>4, <1>5, <1>6, <1>7, <1>8, <1>9 DEF Next, Publishing

-----------------------------------------------------------------------------
(* Types, and what the phase of a connection tells about it. *)

Before == {"away", "count", "seen", "fetch", "playback"}

\* Nothing is sent or written before the burst, and history belongs to the burst.
Shaped(c) ==
  LET r == conn[c] IN
  /\ r.pc \in Before => r.out = <<>> /\ r.flushed = 0
  /\ r.pc \in Before \cup {"live", "gone"} => r.historySeen = {}
  /\ r.pc # "burst" => r.history = {}
  /\ r.pc = "fetch" => r.from = r.cursor
  /\ r.pc = "playback" => ~r.prior /\ r.from = 0 /\ r.cursor = r.read /\ base >= r.read

Shapes == \A c \in Conns : Shaped(c)

\* The state of one connection carries over when only another one moves.
LEMMA OthersShaped ==
  ASSUME TypeInv, Shapes, NEW c \in Conns, NEW d \in Conns,
         base' \in Nat, base' >= base,
         \/ conn'[d] = conn[d]
         \/ /\ conn'[d].pc = conn[d].pc /\ conn'[d].history = conn[d].history
            /\ conn'[d].out = conn[d].out /\ conn'[d].flushed = conn[d].flushed
            /\ conn'[d].historySeen = conn[d].historySeen /\ conn'[d].from = conn[d].from
            /\ conn'[d].cursor = conn[d].cursor /\ conn'[d].prior = conn[d].prior
            /\ conn'[d].read = conn[d].read
  PROVE  Shaped(d)'
<1>1. conn[d] \in ConnState /\ base \in 0..globalEid
  BY DEF TypeInv
<1>2. conn[d].read \in Int /\ base \in Int
  BY <1>1 DEF ConnState
<1> QED
  BY <1>2 DEF Shapes, Shaped

\* An action of one connection keeps the types of the others.
LEMMA ConnTypes ==
  ASSUME TypeInv, UNCHANGED <<globalEid, stored>>,
         NEW c \in Conns, Only(c), conn'[c] \in ConnState
  PROVE  (conn \in [Conns -> ConnState])'
<1>1. conn' \in [Conns -> ConnState]
  BY OnlyOne
<1> QED
  BY <1>1 DEF ConnState, Lines, Numbered

\* What is in flight has a number.
LEMMA InFlightType ==
  ASSUME TypeInv
  PROVE  /\ InFlight \subseteq Numbered /\ Numbered \subseteq Eids /\ 0 \notin InFlight
         /\ \A e \in InFlight : \E p \in Pubs : pub[p] = e
<1>1. pub \in [Pubs -> 0..globalEid] /\ globalEid \in 0..MaxEid /\ globalEid \in Nat /\ MaxEid \in Nat
  BY BouncerPlaybackAssumption DEF TypeInv
<1>2. ASSUME NEW e \in InFlight PROVE e \in Numbered /\ e # 0 /\ \E p \in Pubs : pub[p] = e
  <2>1. PICK p \in Pubs : e = pub[p] /\ e # 0
    BY DEF InFlight
  <2>2. e \in 0..globalEid
    BY <1>1, <2>1
  <2> QED
    BY <1>1, <2>1, <2>2 DEF Numbered
<1>3. Numbered \subseteq Eids
  BY <1>1 DEF Numbered, Eids
<1> QED
  BY <1>2, <1>3

\* A publisher that is done leaves the rest in flight.
LEMMA InFlightShrinks ==
  ASSUME TypeInv, NEW p \in Pubs, pub' = [pub EXCEPT ![p] = 0], globalEid' = globalEid
  PROVE  pub' \in [Pubs -> 0..globalEid'] /\ InFlight' \subseteq InFlight
<1>1. pub \in [Pubs -> 0..globalEid] /\ 0 \in 0..globalEid
  BY DEF TypeInv
<1>2. ASSUME NEW e \in InFlight' PROVE e \in InFlight
  <2>1. PICK q \in Pubs : e = pub'[q] /\ e # 0
    BY DEF InFlight
  <2>2. pub'[q] = pub[q]
    BY <1>1, <2>1
  <2> QED
    BY <2>1, <2>2 DEF InFlight
<1> QED
  BY <1>1, <1>2

LEMMA TypesKept ==
  ASSUME TypeInv, Shapes, [Next]_vars
  PROVE  TypeInv'
<1>1. Grows
  BY FeedGrows
<1>2. /\ globalEid \in 0..MaxEid /\ globalEid \in Nat /\ stored \subseteq 1..globalEid
      /\ seen \in 0..globalEid /\ base \in 0..globalEid /\ pub \in [Pubs -> 0..globalEid]
      /\ faults \in Nat /\ overlapped \in BOOLEAN
  BY DEF TypeInv, Numbered
<1>3. Engine \in Pubs /\ Bouncer \in Pubs /\ Engine # Bouncer
  BY BouncerPlaybackAssumption DEF Pubs
<1>4. CASE NumberElsewhere
  <2>1. globalEid' = globalEid + 1 /\ UNCHANGED <<msg, stored, pub, seen, conn, base, faults, overlapped>>
    BY <1>4 DEF NumberElsewhere
  <2>2. globalEid' \in 0..MaxEid /\ globalEid' \in Nat /\ globalEid <= globalEid'
    BY <1>1 DEF Grows
  <2>3. 0..globalEid \subseteq 0..globalEid' /\ Numbered \subseteq Numbered'
    BY <1>2, <2>2 DEF Numbered
  <2>4. (conn \in [Conns -> ConnState])'
    BY <1>1, <2>1, <2>2, ConnStateGrows DEF TypeInv, Grows
  <2>5. InFlight' = InFlight
    BY <2>1 DEF InFlight
  <2> QED
    BY <2>1, <2>2, <2>3, <2>4, <2>5 DEF TypeInv
<1>5. ASSUME NEW p \in Pubs, Number(p) PROVE TypeInv'
  <2>1. /\ pub[p] = 0 /\ globalEid' = globalEid + 1 /\ globalEid' \in Eids
        /\ pub' = [pub EXCEPT ![p] = globalEid']
        /\ UNCHANGED <<stored, seen, conn, base, faults, overlapped>>
    BY <1>5, NumberFields
  <2>2. PICK m \in {globalEid'} \cup stored : msg' = [msg EXCEPT ![globalEid'] = m] /\ m <= globalEid'
    BY <1>5, NumberFields
  <2>3. globalEid' \in 0..MaxEid /\ globalEid' \in Nat /\ globalEid <= globalEid'
    BY <1>1 DEF Grows
  <2>4. 0..globalEid \subseteq 0..globalEid' /\ Numbered \subseteq Numbered' /\ globalEid' \in 0..globalEid'
    BY <1>2, <2>3 DEF Numbered
  <2>5. (conn \in [Conns -> ConnState])'
    BY <1>1, <2>1, <2>3, ConnStateGrows DEF TypeInv, Grows
  <2>6. m \in 0..MaxEid
    <3>1. MaxEid \in Nat
      BY BouncerPlaybackAssumption
    <3>2. \A x \in 1..globalEid : x \in 0..MaxEid
      BY <1>2, <3>1
    <3> QED
      BY <1>2, <2>2, <2>3, <3>2
  <2>7. msg' \in [Eids -> 0..MaxEid] /\ \A e \in Eids : msg'[e] <= e
    BY <2>1, <2>2, <2>6 DEF TypeInv
  <2>8. ASSUME NEW e \in stored' \cup InFlight' PROVE msg'[e] \in stored' \cup {e}
    <3>1. CASE e = globalEid'
      BY <2>1, <2>2, <3>1 DEF TypeInv
    <3>2. CASE e # globalEid'
      <4>1. e \in stored \cup InFlight
        BY <2>1, <3>2 DEF InFlight, TypeInv
      <4>2. e \in Numbered
        BY <1>2, <4>1, InFlightType DEF Numbered
      <4> QED
        BY <1>1, <2>1, <4>1, <4>2 DEF TypeInv, Grows
    <3> QED
      BY <3>1, <3>2
  <2>9. pub' \in [Pubs -> 0..globalEid']
    BY <1>2, <2>1, <2>4
  <2>10. pub'[Engine] # pub'[Bouncer] \/ pub'[Engine] = 0
    <3>1. \A q \in Pubs : pub[q] # globalEid'
      BY <1>2, <2>1
    <3>2. p = Engine \/ p = Bouncer
      BY DEF Pubs
    <3> QED
      BY <1>2, <1>3, <2>1, <3>1, <3>2
  <2>11. seen' \in 0..globalEid' /\ base' \in 0..globalEid' /\ stored' \in SUBSET Numbered'
    BY <2>1, <2>4 DEF TypeInv
  <2>12. faults' \in Nat /\ overlapped' \in BOOLEAN
    BY <1>2, <2>1
  <2> QED
    BY <2>3, <2>5, <2>7, <2>8, <2>9, <2>10, <2>11, <2>12 DEF TypeInv
<1>6. ASSUME NEW p \in Pubs, Store(p) PROVE TypeInv'
  <2>1. /\ pub[p] # 0 /\ stored' = stored \cup {pub[p]}
        /\ UNCHANGED <<globalEid, msg, pub, seen, conn, base, faults, overlapped>>
    BY <1>6 DEF Store
  <2>2. pub[p] \in Numbered /\ pub[p] \in InFlight
    BY <1>2, <2>1 DEF Numbered, InFlight
  <2>3. (conn \in [Conns -> ConnState])'
    BY <1>1, <1>2, <2>1, ConnStateGrows DEF TypeInv, Grows
  <2>4. Numbered' = Numbered /\ InFlight' = InFlight
    BY <2>1 DEF Numbered, InFlight
  <2>5. \A e \in stored' \cup InFlight' : msg'[e] \in stored' \cup {e}
    BY <2>1, <2>2, <2>4 DEF TypeInv
  <2> QED
    BY <2>1, <2>2, <2>3, <2>4, <2>5 DEF TypeInv
<1>7. ASSUME NEW p \in Pubs, Publish(p) PROVE TypeInv'
  <2>1. /\ pub' = [pub EXCEPT ![p] = 0] /\ conn' \in [Conns -> ConnState]
        /\ UNCHANGED <<globalEid, msg, stored, seen, base, faults, overlapped>>
    BY <1>7, PublishFields
  <2>2. (conn \in [Conns -> ConnState])'
    BY <2>1 DEF ConnState, Lines, Numbered
  <2>3. pub' \in [Pubs -> 0..globalEid'] /\ InFlight' \subseteq InFlight
    BY <1>3, <2>1, InFlightShrinks
  <2>4. pub'[Engine] # pub'[Bouncer] \/ pub'[Engine] = 0
    BY <1>2, <1>3, <2>1 DEF TypeInv, Pubs
  <2> QED
    BY <2>1, <2>2, <2>3, <2>4 DEF TypeInv, Numbered
<1>8. CASE Crash
  <2>1. /\ pub' = [pub EXCEPT ![Bouncer] = 0] /\ conn' \in [Conns -> ConnState] /\ faults' \in Nat
        /\ UNCHANGED <<globalEid, msg, stored, seen, base, overlapped>>
    BY <1>8, CrashFields
  <2>2. (conn \in [Conns -> ConnState])'
    BY <2>1 DEF ConnState, Lines, Numbered
  <2>3. pub' \in [Pubs -> 0..globalEid'] /\ InFlight' \subseteq InFlight
    BY <1>3, <2>1, InFlightShrinks
  <2>4. pub'[Engine] # pub'[Bouncer] \/ pub'[Engine] = 0
    BY <1>2, <1>3, <2>1 DEF TypeInv
  <2> QED
    BY <2>1, <2>2, <2>3, <2>4 DEF TypeInv, Numbered
<1>9. ASSUME NEW c \in Conns, UNCHANGED feed, Only(c), conn'[c] \in ConnState,
             seen' \in 0..globalEid, base' \in 0..globalEid, faults' \in Nat, overlapped' \in BOOLEAN
      PROVE  TypeInv'
  <2>1. UNCHANGED <<globalEid, msg, stored, pub>>
    BY <1>9 DEF feed
  <2>2. (conn \in [Conns -> ConnState])'
    BY <1>9, <2>1, ConnTypes
  <2>3. Numbered' = Numbered /\ InFlight' = InFlight
    BY <2>1 DEF Numbered, InFlight
  <2> QED
    BY <1>9, <2>1, <2>2, <2>3 DEF TypeInv
<1>10. ASSUME NEW c \in Conns, Attach(c) \/ ReadGlobalEid(c) \/ ReadSeen(c) \/ MarkClosing(c)
       PROVE  TypeInv'
  BY <1>2, <1>9, <1>10, AttachFields, ReadGlobalEidFields, ReadSeenFields, MarkClosingFields DEF Counted
<1>11. ASSUME NEW c \in Conns, Fetch(c) PROVE TypeInv'
  <2>1. conn[c].from = conn[c].cursor
    BY <1>11 DEF Shapes, Shaped, Fetch
  <2> QED
    BY <1>2, <1>9, <1>11, <2>1, FetchFields
<1>12. ASSUME NEW c \in Conns, FetchFails(c) \/ FetchPlayback(c) \/ SendHistory(c)
       PROVE  TypeInv'
  BY <1>2, <1>9, <1>12, FetchFailsFields, FetchPlaybackFields, SendHistoryFields
<1>13. ASSUME NEW c \in Conns, DeliverParked(c) \/ Attached(c) \/ OnMessage(c) \/ Teardown(c)
       PROVE  TypeInv'
  <2>1. CASE DeliverParked(c)
    BY <1>2, <1>9, <2>1, DeliverParkedFields DEF Counted
  <2>2. CASE Attached(c)
    BY <1>2, <1>9, <2>2, AttachedFields DEF Counted
  <2>3. CASE OnMessage(c)
    BY <1>2, <1>9, <2>3, OnMessageFields DEF Counted
  <2>4. CASE Teardown(c)
    BY <1>2, <1>9, <2>4, TeardownFields DEF Counted
  <2> QED
    BY <1>13, <2>1, <2>2, <2>3, <2>4
<1>14. CASE UNCHANGED vars
  BY <1>14, ZenonT(40) DEF vars, TypeInv, ConnState, Lines, Numbered, InFlight
<1> QED
  BY <1>4, <1>5, <1>6, <1>7, <1>8, <1>10, <1>11, <1>12, <1>13, <1>14
     DEF Next, Publishing, Attachment

LEMMA ShapesKept ==
  ASSUME TypeInv, Shapes, [Next]_vars
  PROVE  Shapes'
<1>1. base \in 0..globalEid /\ base \in Nat /\ conn \in [Conns -> ConnState] /\ seen \in 0..globalEid
  BY DEF TypeInv
<1>2. ASSUME base' \in Nat, base' >= base, NEW c \in Conns, Only(c), conn'[c] \in ConnState, Shaped(c)'
      PROVE  Shapes'
  <2> SUFFICES ASSUME NEW d \in Conns PROVE Shaped(d)'
    BY DEF Shapes
  <2>1. CASE d = c
    BY <1>2, <2>1
  <2>2. CASE d # c
    <3>1. conn'[d] = conn[d]
      BY <1>2, <2>2, OnlyOne
    <3> QED
      BY <1>2, <3>1, OthersShaped
  <2> QED
    BY <2>1, <2>2
<1>3. ASSUME base' = base, NEW c \in Conns, Only(c), conn'[c] \in ConnState, Shaped(c)'
      PROVE  Shapes'
  BY <1>1, <1>2, <1>3
<1>4. ASSUME base' = base, conn' = conn
      PROVE  Shapes'
  BY <1>1, <1>4, OthersShaped DEF Shapes
<1>5. CASE NumberElsewhere
  BY <1>4, <1>5 DEF NumberElsewhere
<1>6. ASSUME NEW p \in Pubs, Number(p) \/ Store(p) \/ Publish(p) PROVE Shapes'
  <2>1. CASE Number(p)
    BY <1>4, <2>1 DEF Number
  <2>2. CASE Store(p)
    BY <1>4, <2>2 DEF Store
  <2>3. CASE Publish(p)
    BY <1>1, <2>3, PublishFields, OthersShaped DEF Shapes
  <2> QED
    BY <1>6, <2>1, <2>2, <2>3
<1>7. CASE Crash
  <2> SUFFICES ASSUME NEW c \in Conns PROVE Shaped(c)'
    BY DEF Shapes
  <2>1. /\ base' = base
        /\ conn'[c] = IF conn[c].pc \in Subscribed THEN Closed(conn[c]) ELSE conn[c]
    BY <1>7, CrashFields
  <2>2. CASE conn[c].pc \in Subscribed
    <3>1. /\ conn'[c].pc = "gone" /\ conn'[c].history = {} /\ conn'[c].historySeen = {}
      BY <1>1, <2>1, <2>2, ClosedFields
    <3> QED
      BY <3>1 DEF Shaped, Before
  <2>3. CASE conn[c].pc \notin Subscribed
    BY <1>1, <2>1, <2>3, OthersShaped
  <2> QED
    BY <2>2, <2>3
<1>8. ASSUME NEW c \in Conns, Attach(c) PROVE Shapes'
  <2>1. Shaped(c)'
    BY <1>8, AttachFields DEF Shapes, Shaped, Before
  <2>2. base' = base /\ Only(c) /\ conn'[c] \in ConnState
    BY <1>8, AttachFields
  <2> QED
    BY <1>3, <2>1, <2>2
<1>9. ASSUME NEW c \in Conns, ReadGlobalEid(c) PROVE Shapes'
  <2>1. Shaped(c)'
    BY <1>9, ReadGlobalEidFields DEF Shapes, Shaped, Before
  <2>2. base' = base /\ Only(c) /\ conn'[c] \in ConnState
    BY <1>9, ReadGlobalEidFields
  <2> QED
    BY <1>3, <2>1, <2>2
<1>10. ASSUME NEW c \in Conns, ReadSeen(c) PROVE Shapes'
  <2>1. Shaped(c)'
    BY <1>10, ReadSeenFields DEF Shapes, Shaped, Before
  <2>2. base' \in Nat /\ base' >= base /\ Only(c) /\ conn'[c] \in ConnState
    <3>1. base' = base \/ (base' \in 0..globalEid /\ base' >= base)
      BY <1>10, ReadSeenFields
    <3>2. Only(c) /\ conn'[c] \in ConnState
      BY <1>10, ReadSeenFields
    <3> QED
      BY <1>1, <3>1, <3>2
  <2> QED
    BY <1>2, <2>1, <2>2
<1>11. ASSUME NEW c \in Conns, Fetch(c) PROVE Shapes'
  <2>1. conn[c].from = conn[c].cursor
    BY <1>11 DEF Shapes, Shaped, Fetch
  <2>2. base' = base /\ Only(c) /\ conn'[c] \in ConnState /\ conn'[c].pc = "burst"
    BY <1>11, <2>1, FetchFields DEF Replays
  <2> QED
    BY <1>3, <2>2 DEF Shaped, Before
<1>12. ASSUME NEW c \in Conns, FetchPlayback(c) PROVE Shapes'
  <2>2. base' = base /\ Only(c) /\ conn'[c] \in ConnState /\ conn'[c].pc = "burst"
    BY <1>12, FetchPlaybackFields DEF Replays
  <2> QED
    BY <1>3, <2>2 DEF Shaped, Before
<1>13. ASSUME NEW c \in Conns, FetchFails(c) PROVE Shapes'
  <2>2. base' = base /\ Only(c) /\ conn'[c] \in ConnState /\ conn'[c].pc = "burst"
    BY <1>13, FetchFailsFields
  <2> QED
    BY <1>3, <2>2 DEF Shaped, Before
<1>14. ASSUME NEW c \in Conns, SendHistory(c) PROVE Shapes'
  <2>2. base' = base /\ Only(c) /\ conn'[c] \in ConnState /\ conn'[c].pc = "burst"
    BY <1>14, SendHistoryFields
  <2> QED
    BY <1>3, <2>2 DEF Shaped, Before
<1>15. ASSUME NEW c \in Conns, DeliverParked(c) PROVE Shapes'
  <2>1. /\ base' = base /\ Only(c) /\ conn'[c] \in ConnState
        /\ conn'[c].pc = "drain" /\ conn'[c].history = {}
    BY <1>15, DeliverParkedFields
  <2> QED
    BY <1>3, <2>1 DEF Shaped, Before
<1>16. ASSUME NEW c \in Conns, Attached(c) PROVE Shapes'
  <2>1. /\ base' = base /\ Only(c) /\ conn'[c] \in ConnState
        /\ conn'[c].pc = "live" /\ conn'[c].history = {} /\ conn'[c].historySeen = {}
    BY <1>16, AttachedFields
  <2> QED
    BY <1>3, <2>1 DEF Shaped, Before
<1>17. ASSUME NEW c \in Conns, OnMessage(c) PROVE Shapes'
  <2> DEFINE r == conn[c]
             q == conn'[c]
  <2>1. /\ base' = base /\ Only(c) /\ q \in ConnState
        /\ q.pc = r.pc /\ q.history = r.history /\ q.historySeen = r.historySeen
        /\ q.from = r.from /\ q.prior = r.prior /\ q.read = r.read
        /\ \/ q.cursor = r.cursor /\ q.flushed = r.flushed /\ q.out = r.out
           \/ r.pc \in {"drain", "live"}
    BY <1>17, OnMessageFields
  <2>2. Shaped(c)
    BY DEF Shapes
  <2> HIDE DEF r, q
  <2>3. Shaped(c)'
    BY <2>1, <2>2 DEF Shaped, Before, r, q
  <2> QED
    BY <1>3, <2>1, <2>3 DEF q
<1>18. ASSUME NEW c \in Conns, MarkClosing(c) PROVE Shapes'
  <2>1. Shaped(c)'
    BY <1>18, MarkClosingFields DEF Shapes, Shaped, Before
  <2>2. base' = base /\ Only(c) /\ conn'[c] \in ConnState
    BY <1>18, MarkClosingFields
  <2> QED
    BY <1>3, <2>1, <2>2
<1>19. ASSUME NEW c \in Conns, Teardown(c) PROVE Shapes'
  <2>1. base' = base /\ Only(c) /\ conn'[c] \in ConnState /\ conn'[c] = Closed(conn[c])
    BY <1>19, TeardownFields
  <2>2. conn'[c].pc = "gone" /\ conn'[c].history = {} /\ conn'[c].historySeen = {}
    BY <1>1, <2>1, ClosedFields
  <2> QED
    BY <1>3, <2>1, <2>2 DEF Shaped, Before
<1>20. CASE UNCHANGED vars
  BY <1>4, <1>20 DEF vars
<1> QED
  BY <1>5, <1>6, <1>7, <1>8, <1>9, <1>10, <1>11, <1>12, <1>13, <1>14, <1>15, <1>16, <1>17, <1>18,
     <1>19, <1>20 DEF Next, Publishing, Attachment

-----------------------------------------------------------------------------
(* No connection sends an event twice. *)

\* A row of the playback buffer above the cursor: it may come again live.
Spared(r, l) == l.via = "history" /\ ~r.prior /\ l.eid > r.read

\* What a connection has sent and what it is going to send.  Its history goes
\* out first, and its messages stay remembered until the park is empty; the
\* cursor is at or above all that was sent, rows of the playback buffer aside.
Once(r) ==
  \A i, j \in DOMAIN r.out :
    /\ i < j /\ r.out[i].eid = r.out[j].eid
         => Spared(r, r.out[i]) /\ r.out[j].via = "live"
    /\ r.out[i].via = "history" /\ r.out[j].via = "parked"
         => msg[r.out[i].eid] # msg[r.out[j].eid]

Sending(c) ==
  LET r == conn[c] IN
  /\ r.pc = "burst" => \A i \in DOMAIN r.out : r.out[i].via = "history"
  /\ r.pc \in {"burst", "drain"} =>
       \A i \in DOMAIN r.out : r.out[i].via = "history" => msg[r.out[i].eid] \in r.historySeen
  /\ \A x \in r.history : /\ msg[x] \in r.historySeen
                          /\ x <= r.cursor \/ (~r.prior /\ x > r.read)
                          /\ \A i \in DOMAIN r.out : r.out[i].eid # x
  /\ r.pc # "gone" => \A i \in DOMAIN r.out : r.out[i].eid <= r.cursor \/ Spared(r, r.out[i])
  /\ Once(r)

Sendings == \A c \in Conns : Sending(c)

LEMMA AppendLine ==
  ASSUME NEW s \in Seq(Lines), NEW l \in Lines
  PROVE  /\ Len(s) \in Nat /\ DOMAIN s = 1..Len(s)
         /\ DOMAIN Append(s, l) = 1..(Len(s) + 1)
         /\ \A i \in DOMAIN s : Append(s, l)[i] = s[i]
         /\ Append(s, l)[Len(s) + 1] = l
         /\ \A i \in DOMAIN Append(s, l) : i \in DOMAIN s \/ i = Len(s) + 1
OBVIOUS

\* Lines carry events that are numbered.
LEMMA LineType ==
  ASSUME TypeInv, NEW c \in Conns
  PROVE  /\ DOMAIN conn[c].out = 1..Len(conn[c].out) /\ Len(conn[c].out) \in Nat
         /\ \A i \in DOMAIN conn[c].out :
              /\ conn[c].out[i].eid \in Numbered /\ conn[c].out[i].eid \in Int
              /\ conn[c].out[i].via \in {"history", "parked", "live"}
         /\ conn[c].history \subseteq Numbered
         /\ conn[c].cursor \in Int /\ conn[c].read \in Int /\ conn[c].from \in Int
<1>1. conn[c] \in ConnState /\ stored \subseteq Numbered
  BY DEF TypeInv
<1>2. conn[c].out \in Seq(Lines)
  BY <1>1 DEF ConnState
<1>3. DOMAIN conn[c].out = 1..Len(conn[c].out) /\ Len(conn[c].out) \in Nat
  BY <1>2
<1>4. \A i \in DOMAIN conn[c].out : conn[c].out[i] \in Lines
  BY <1>2
<1>5. \A l \in Lines : l.eid \in Numbered /\ l.eid \in Int /\ l.via \in {"history", "parked", "live"}
  BY DEF Lines, Numbered
<1>6. conn[c].history \subseteq Numbered
  BY <1>1 DEF ConnState
<1>7. conn[c].cursor \in Int /\ conn[c].read \in Int /\ conn[c].from \in Int
  BY <1>1 DEF ConnState
<1> QED
  BY <1>3, <1>4, <1>5, <1>6, <1>7

\* The property carries over when nothing it speaks of changes.
LEMMA SameSending ==
  ASSUME TypeInv, Grows, NEW c \in Conns, Sending(c),
         conn'[c].pc = conn[c].pc, conn'[c].out = conn[c].out,
         conn'[c].history = conn[c].history, conn'[c].historySeen = conn[c].historySeen,
         conn'[c].cursor = conn[c].cursor, conn'[c].prior = conn[c].prior,
         conn'[c].read = conn[c].read
  PROVE  Sending(c)'
<1> DEFINE r == conn[c]
           q == conn'[c]
<1>1. /\ \A i \in DOMAIN r.out : msg'[r.out[i].eid] = msg[r.out[i].eid]
      /\ \A x \in r.history : msg'[x] = msg[x]
  BY LineType DEF Grows
<1>2. Once(r)
  BY DEF Sending
<1>3. /\ q.pc = r.pc /\ q.out = r.out /\ q.history = r.history /\ q.historySeen = r.historySeen
      /\ q.cursor = r.cursor /\ q.prior = r.prior /\ q.read = r.read
  OBVIOUS
<1>4. /\ r.pc = "burst" => \A i \in DOMAIN r.out : r.out[i].via = "history"
      /\ r.pc \in {"burst", "drain"} =>
           \A i \in DOMAIN r.out : r.out[i].via = "history" => msg[r.out[i].eid] \in r.historySeen
      /\ \A x \in r.history : /\ msg[x] \in r.historySeen
                              /\ x <= r.cursor \/ (~r.prior /\ x > r.read)
                              /\ \A i \in DOMAIN r.out : r.out[i].eid # x
      /\ r.pc # "gone" => \A i \in DOMAIN r.out : r.out[i].eid <= r.cursor \/ Spared(r, r.out[i])
  BY DEF Sending
<1> HIDE DEF r, q
<1>5. Once(conn[c])'
  BY <1>1, <1>2, <1>3 DEF Once, Spared, q
<1>6. /\ q.pc = "burst" => \A i \in DOMAIN q.out : q.out[i].via = "history"
      /\ q.pc \in {"burst", "drain"} =>
           \A i \in DOMAIN q.out : q.out[i].via = "history" => msg'[q.out[i].eid] \in q.historySeen
      /\ \A x \in q.history : /\ msg'[x] \in q.historySeen
                              /\ x <= q.cursor \/ (~q.prior /\ x > q.read)
                              /\ \A i \in DOMAIN q.out : q.out[i].eid # x
      /\ q.pc # "gone" => \A i \in DOMAIN q.out : q.out[i].eid <= q.cursor \/ Spared(q, q.out[i])
  BY <1>1, <1>3, <1>4 DEF Spared
<1> QED
  BY <1>5, <1>6 DEF Sending, q

\* A line more is sent: what has to be compared with the lines before it.
LEMMA OnceMore ==
  ASSUME TypeInv, NEW c \in Conns, msg' = msg, Once(conn[c]),
         NEW e \in Numbered, NEW via \in {"history", "parked", "live"},
         conn'[c].out = Append(conn[c].out, Line(e, via)),
         conn'[c].prior = conn[c].prior, conn'[c].read = conn[c].read,
         \A i \in DOMAIN conn[c].out :
           /\ conn[c].out[i].eid = e => Spared(conn[c], conn[c].out[i]) /\ via = "live"
           /\ conn[c].out[i].via = "history" /\ via = "parked" => msg[conn[c].out[i].eid] # msg[e]
           /\ via = "history" => conn[c].out[i].via # "parked"
  PROVE  Once(conn[c])'
<1> DEFINE r == conn[c]
           q == conn'[c]
           n == Len(r.out) + 1
<1>1. r.out \in Seq(Lines) /\ Line(e, via) \in Lines /\ Line(e, via).eid = e /\ Line(e, via).via = via
  BY DEF TypeInv, ConnState, Line, Lines
<1>2. /\ Len(r.out) \in Nat /\ DOMAIN r.out = 1..Len(r.out) /\ DOMAIN q.out = 1..n
      /\ \A i \in DOMAIN r.out : q.out[i] = r.out[i]
      /\ q.out[n].eid = e /\ q.out[n].via = via
      /\ \A i \in DOMAIN q.out : i \in DOMAIN r.out \/ i = n
  BY <1>1, AppendLine
<1> SUFFICES ASSUME NEW i \in DOMAIN q.out, NEW j \in DOMAIN q.out
             PROVE  /\ i < j /\ q.out[i].eid = q.out[j].eid
                         => Spared(q, q.out[i]) /\ q.out[j].via = "live"
                    /\ q.out[i].via = "history" /\ q.out[j].via = "parked"
                         => msg[q.out[i].eid] # msg[q.out[j].eid]
  BY DEF Once, Spared
<1>3. i \in Int /\ j \in Int /\ n \in Int /\ i <= n /\ j <= n
  BY <1>2
<1>4. /\ q.prior = r.prior /\ q.read = r.read
  OBVIOUS
<1> HIDE DEF q, n
<1>5. CASE i \in DOMAIN r.out /\ j \in DOMAIN r.out
  <2>1. q.out[i] = r.out[i] /\ q.out[j] = r.out[j]
    BY <1>2, <1>5
  <2>2. /\ i < j /\ r.out[i].eid = r.out[j].eid
             => Spared(r, r.out[i]) /\ r.out[j].via = "live"
        /\ r.out[i].via = "history" /\ r.out[j].via = "parked"
             => msg[r.out[i].eid] # msg[r.out[j].eid]
    BY <1>5 DEF Once
  <2>3. Spared(q, r.out[i]) <=> Spared(r, r.out[i])
    BY <1>4 DEF Spared
  <2> QED
    BY <2>1, <2>2, <2>3
<1>6. CASE i \in DOMAIN r.out /\ j = n
  <2>1. q.out[i] = r.out[i] /\ q.out[j].eid = e /\ q.out[j].via = via
    BY <1>2, <1>6
  <2>2. Spared(q, r.out[i]) <=> Spared(r, r.out[i])
    BY <1>4 DEF Spared
  <2> QED
    BY <1>6, <2>1, <2>2
<1>7. CASE i = n /\ j \in DOMAIN r.out
  <2>1. ~(i < j)
    BY <1>3, <1>7
  <2> QED
    BY <1>2, <1>7, <2>1
<1>8. CASE i = n /\ j = n
  BY <1>2, <1>3, <1>8
<1> QED
  BY <1>2, <1>5, <1>6, <1>7, <1>8

LEMMA SameOnce ==
  ASSUME NEW c \in Conns, msg' = msg, Once(conn[c]), conn'[c].out = conn[c].out,
         conn'[c].prior = conn[c].prior, conn'[c].read = conn[c].read
  PROVE  Once(conn[c])'
BY DEF Once, Spared

\* A connection that has sent nothing, with the rows it starts with.
LEMMA StartsSending ==
  ASSUME NEW c \in Conns, conn'[c].out = <<>>,
         \A x \in conn'[c].history :
           /\ msg'[x] \in conn'[c].historySeen
           /\ x <= conn'[c].cursor \/ (~conn'[c].prior /\ x > conn'[c].read)
  PROVE  Sending(c)'
BY DEF Sending, Once, Spared

LEMMA SendHistoryKeeps ==
  ASSUME TypeInv, Shapes, NEW c \in Conns, Sending(c), SendHistory(c)
  PROVE  Sending(c)'
<1> DEFINE r == conn[c]
           q == conn'[c]
<1>1. /\ r.pc = "burst" /\ UNCHANGED feed
      /\ q.closing = r.closing /\ q.prior = r.prior /\ q.historySeen = r.historySeen
      /\ q.read = r.read /\ q.pc = r.pc /\ q.cursor = r.cursor
  BY SendHistoryFields
<1>2. PICK e \in r.history :
        /\ q.history = r.history \ {e}
        /\ q.out = IF r.closing THEN r.out ELSE Append(r.out, Line(e, "history"))
  BY SendHistoryFields
<1>3. msg' = msg
  BY <1>1 DEF feed
<1>4. /\ \A i \in DOMAIN r.out : r.out[i].via = "history"
      /\ \A i \in DOMAIN r.out : r.out[i].via = "history" => msg[r.out[i].eid] \in r.historySeen
      /\ \A x \in r.history : /\ msg[x] \in r.historySeen
                              /\ x <= r.cursor \/ (~r.prior /\ x > r.read)
                              /\ \A i \in DOMAIN r.out : r.out[i].eid # x
      /\ \A i \in DOMAIN r.out : r.out[i].eid <= r.cursor \/ Spared(r, r.out[i])
      /\ Once(r)
  BY <1>1 DEF Sending
<1>5. CASE r.closing
  <2>1. q.out = r.out
    BY <1>2, <1>5
  <2>2. Once(conn[c])'
    BY <1>1, <1>3, <1>4, <2>1, SameOnce
  <2> HIDE DEF r, q
  <2> QED
    BY <1>1, <1>2, <1>3, <1>4, <2>1, <2>2 DEF Sending, Spared, q
<1>6. CASE ~r.closing
  <2> DEFINE l == Line(e, "history")
  <2>1. q.out = Append(r.out, l)
    BY <1>2, <1>6
  <2>2. e \in Numbered
    BY LineType
  <2>3. r.out \in Seq(Lines) /\ l \in Lines /\ l.eid = e /\ l.via = "history"
    BY <2>2 DEF TypeInv, ConnState, Line, Lines
  <2> HIDE DEF l
  <2>4. Once(conn[c])'
    BY <1>1, <1>3, <1>4, <2>1, <2>2, OnceMore DEF l
  <2>5. /\ \A i \in DOMAIN q.out : i \in DOMAIN r.out \/ i = Len(r.out) + 1
        /\ \A i \in DOMAIN r.out : q.out[i] = r.out[i]
        /\ q.out[Len(r.out) + 1] = l
    BY <2>1, <2>3, AppendLine
  <2>6. \A i \in DOMAIN q.out : \/ i \in DOMAIN r.out /\ q.out[i] = r.out[i]
                                \/ q.out[i].eid = e /\ q.out[i].via = "history"
    BY <2>3, <2>5
  <2> HIDE DEF r, q
  <2>7. /\ \A i \in DOMAIN q.out : q.out[i].via = "history"
        /\ \A i \in DOMAIN q.out : msg[q.out[i].eid] \in q.historySeen
        /\ \A i \in DOMAIN q.out : q.out[i].eid <= q.cursor \/ Spared(q, q.out[i])
    BY <1>1, <1>4, <2>6 DEF Spared
  <2>8. \A x \in q.history : /\ msg[x] \in q.historySeen
                             /\ x <= q.cursor \/ (~q.prior /\ x > q.read)
                             /\ \A i \in DOMAIN q.out : q.out[i].eid # x
    BY <1>1, <1>2, <1>4, <2>6
  <2> QED
    BY <1>3, <2>4, <2>7, <2>8 DEF Sending, q
<1> QED
  BY <1>5, <1>6

\* An event is handed over: it lies above the cursor, which moves to it.
LEMMA HandOverKeeps ==
  ASSUME TypeInv, NEW c \in Conns, Sending(c), msg' = msg,
         NEW e \in Numbered, NEW via \in {"parked", "live"}, e > conn[c].cursor,
         conn[c].pc \in {"burst", "drain", "live"}, conn'[c].pc \in {"drain", "live"},
         via = "parked" => conn[c].pc \in {"burst", "drain"} /\ msg[e] \notin conn[c].historySeen,
         conn[c].pc = "live" => conn'[c].pc = "live",
         conn'[c].history = {}, conn'[c].historySeen = conn[c].historySeen,
         conn'[c].prior = conn[c].prior, conn'[c].read = conn[c].read, conn'[c].cursor = e,
         \/ conn'[c].out = conn[c].out
         \/ conn'[c].out = Append(conn[c].out, Line(e, via))
  PROVE  Sending(c)'
<1> DEFINE r == conn[c]
           q == conn'[c]
           l == Line(e, via)
<1>1. /\ \A i \in DOMAIN r.out : r.out[i].eid <= r.cursor \/ Spared(r, r.out[i])
      /\ Once(r)
      /\ r.pc \in {"burst", "drain"} =>
           \A i \in DOMAIN r.out : r.out[i].via = "history" => msg[r.out[i].eid] \in r.historySeen
  BY DEF Sending
<1>2. /\ \A i \in DOMAIN r.out : r.out[i].eid \in Int
      /\ r.cursor \in Int /\ e \in Int
  BY LineType DEF Numbered, TypeInv
<1>3. ASSUME NEW i \in DOMAIN r.out
      PROVE  /\ r.out[i].eid <= e \/ Spared(r, r.out[i])
             /\ r.out[i].eid = e => Spared(r, r.out[i]) /\ via = "live"
             /\ r.out[i].via = "history" /\ via = "parked" => msg[r.out[i].eid] # msg[e]
             /\ via # "history"
  <2>1. r.out[i].eid \in Int
    BY <1>2
  <2>2. r.out[i].eid <= r.cursor \/ Spared(r, r.out[i])
    BY <1>1
  <2>3. r.out[i].eid <= e \/ Spared(r, r.out[i])
    BY <1>2, <2>1, <2>2
  <2>4. r.out[i].eid = e => Spared(r, r.out[i])
    BY <1>2, <2>1, <2>2
  <2>5. r.out[i].via = "history" /\ via = "parked" => msg[r.out[i].eid] # msg[e]
    BY <1>1
  <2>6. r.out[i].eid = e => via = "live"
    BY <1>1, <2>4 DEF Spared
  <2> QED
    BY <2>3, <2>4, <2>5, <2>6
<1>4. CASE q.out = r.out
  <2>1. Once(conn[c])'
    BY <1>1, <1>4, SameOnce
  <2>2. \A i \in DOMAIN q.out : q.out[i].eid <= q.cursor \/ Spared(q, q.out[i])
    BY <1>3, <1>4 DEF Spared
  <2>3. q.pc = "drain" =>
           \A i \in DOMAIN q.out : q.out[i].via = "history" => msg[q.out[i].eid] \in q.historySeen
    BY <1>1, <1>4
  <2> QED
    BY <2>1, <2>2, <2>3 DEF Sending
<1>5. CASE q.out = Append(r.out, l)
  <2>1. Once(conn[c])'
    BY <1>1, <1>3, <1>5, OnceMore
  <2>2. r.out \in Seq(Lines) /\ l \in Lines /\ l.eid = e /\ l.via = via
    BY DEF TypeInv, ConnState, Line, Lines
  <2> HIDE DEF l
  <2>3. \A i \in DOMAIN q.out : \/ i \in DOMAIN r.out /\ q.out[i] = r.out[i]
                                \/ q.out[i].eid = e /\ q.out[i].via = via
    BY <1>5, <2>2, AppendLine
  <2>4. \A i \in DOMAIN q.out : q.out[i].eid <= q.cursor \/ Spared(q, q.out[i])
    BY <1>2, <1>3, <2>3 DEF Spared
  <2>5. q.pc = "drain" =>
           \A i \in DOMAIN q.out : q.out[i].via = "history" => msg[q.out[i].eid] \in q.historySeen
    BY <1>1, <2>3
  <2> QED
    BY <2>1, <2>4, <2>5 DEF Sending
<1> QED
  BY <1>4, <1>5

LEMMA OnMessageKeeps ==
  ASSUME TypeInv, Shapes, NEW c \in Conns, Sending(c), OnMessage(c), Grows
  PROVE  Sending(c)'
<1> DEFINE r == conn[c]
           q == conn'[c]
           e == Head(r.inbox)
<1>1. /\ UNCHANGED feed /\ r.inbox # <<>>
      /\ q.pc = r.pc /\ q.closing = r.closing /\ q.prior = r.prior
      /\ q.history = r.history /\ q.historySeen = r.historySeen /\ q.read = r.read
      /\ \/ q.cursor = r.cursor /\ q.out = r.out
         \/ /\ r.pc \in {"drain", "live"}
            /\ q.cursor = IF e <= r.cursor THEN r.cursor ELSE e
            /\ q.out = IF e <= r.cursor THEN r.out ELSE Append(r.out, Line(e, "live"))
  BY OnMessageFields
<1>2. e \in Numbered /\ e \in Int /\ r.cursor \in Int
  <2>1. r.inbox \in Seq(Numbered) /\ r.cursor \in 0..globalEid
    BY DEF TypeInv, ConnState
  <2>2. e \in Numbered
    BY <1>1, <2>1
  <2> QED
    BY <2>1, <2>2 DEF Numbered
<1>3. CASE q.cursor = r.cursor /\ q.out = r.out
  BY <1>1, <1>3, SameSending
<1>4. CASE r.pc \in {"drain", "live"} /\ e > r.cursor /\ q.cursor = e /\ q.out = Append(r.out, Line(e, "live"))
  <2>1. q.history = {} /\ msg' = msg
    BY <1>1, <1>4 DEF Shapes, Shaped, feed
  <2> HIDE DEF e, q, r
  <2> QED
    BY <1>1, <1>2, <1>4, <2>1, HandOverKeeps DEF q, r
<1>5. e <= r.cursor \/ e > r.cursor
  BY <1>2
<1>6. ~(e <= r.cursor /\ e > r.cursor)
  BY <1>2
<1> HIDE DEF e, q, r
<1> QED
  BY <1>1, <1>3, <1>4, <1>5, <1>6

LEMMA DeliverParkedKeeps ==
  ASSUME TypeInv, NEW c \in Conns, Sending(c), DeliverParked(c)
  PROVE  Sending(c)'
<1> DEFINE r == conn[c]
           q == conn'[c]
<1>1. /\ UNCHANGED feed /\ r.pc \in {"burst", "drain"} /\ q.pc = "drain"
      /\ q.history = {} /\ q.historySeen = r.historySeen
      /\ q.prior = r.prior /\ q.read = r.read
  BY DeliverParkedFields
<1>2. PICK k \in DOMAIN r.parked :
        /\ r.parked[k] > r.cursor /\ msg[r.parked[k]] \notin r.historySeen
        /\ q.cursor = r.parked[k]
        /\ q.out = IF r.closing THEN r.out ELSE Append(r.out, Line(r.parked[k], "parked"))
  BY DeliverParkedFields
<1>3. r.parked[k] \in Numbered
  BY DEF TypeInv, ConnState
<1>4. msg' = msg
  BY <1>1 DEF feed
<1> QED
  BY <1>1, <1>2, <1>3, <1>4, HandOverKeeps

\* A connection that sends nothing more, with the cursor where it was or gone.
LEMMA QuietKeeps ==
  ASSUME TypeInv, NEW c \in Conns, Sending(c), msg' = msg,
         conn'[c].pc \in {"live", "gone"}, conn'[c].history = {},
         conn'[c].out = conn[c].out, conn'[c].prior = conn[c].prior, conn'[c].read = conn[c].read,
         conn'[c].pc = "live" => conn'[c].cursor = conn[c].cursor /\ conn[c].pc # "gone"
  PROVE  Sending(c)'
<1>1. Once(conn[c])'
  BY SameOnce DEF Sending
<1> QED
  BY <1>1 DEF Sending, Spared

LEMMA SendingsKept ==
  ASSUME TypeInv, Shapes, Sendings, [Next]_vars
  PROVE  Sendings'
<1>1. Grows
  BY FeedGrows
<1>2. conn \in [Conns -> ConnState]
  BY DEF TypeInv
<1>3. ASSUME NEW c \in Conns, Only(c), conn'[c] \in ConnState, Sending(c)'
      PROVE  Sendings'
  <2> SUFFICES ASSUME NEW d \in Conns PROVE Sending(d)'
    BY DEF Sendings
  <2>1. CASE d = c
    BY <1>3, <2>1
  <2>2. CASE d # c
    <3>1. conn'[d] = conn[d]
      BY <1>3, <2>2, OnlyOne
    <3> QED
      BY <1>1, <3>1, SameSending DEF Sendings
  <2> QED
    BY <2>1, <2>2
<1>4. ASSUME conn' = conn PROVE Sendings'
  BY <1>1, <1>4, SameSending DEF Sendings
<1>5. CASE NumberElsewhere
  BY <1>4, <1>5 DEF NumberElsewhere
<1>6. ASSUME NEW p \in Pubs, Number(p) \/ Store(p) \/ Publish(p) PROVE Sendings'
  <2>1. CASE Number(p)
    BY <1>4, <2>1 DEF Number
  <2>2. CASE Store(p)
    BY <1>4, <2>2 DEF Store
  <2>3. CASE Publish(p)
    BY <1>1, <2>3, PublishFields, SameSending DEF Sendings
  <2> QED
    BY <1>6, <2>1, <2>2, <2>3
<1>7. CASE Crash
  <2> SUFFICES ASSUME NEW c \in Conns PROVE Sending(c)'
    BY DEF Sendings
  <2>1. /\ msg' = msg
        /\ conn'[c] = IF conn[c].pc \in Subscribed THEN Closed(conn[c]) ELSE conn[c]
    BY <1>7, CrashFields
  <2>2. CASE conn[c].pc \in Subscribed
    <3>1. LET q == conn'[c] IN /\ q.pc = "gone" /\ q.history = {}
          /\ q.prior = conn[c].prior /\ q.read = conn[c].read /\ q.out = conn[c].out
      BY <1>2, <2>1, <2>2, ClosedFields
    <3> QED
      BY <2>1, <3>1, QuietKeeps DEF Sendings
  <2>3. CASE conn[c].pc \notin Subscribed
    BY <1>1, <2>1, <2>3, SameSending DEF Sendings
  <2> QED
    BY <2>2, <2>3
<1>8. ASSUME NEW c \in Conns, Attach(c) \/ ReadGlobalEid(c) \/ ReadSeen(c) PROVE Sendings'
  <2>1. conn[c].out = <<>> /\ conn[c].history = {}
    <3>1. conn[c].pc \in Before /\ conn[c].pc # "burst"
      BY <1>8, AttachFields, ReadGlobalEidFields, ReadSeenFields DEF Before
    <3> QED
      BY <3>1 DEF Shapes, Shaped
  <2>2. /\ conn'[c].out = conn[c].out /\ conn'[c].history = conn[c].history
        /\ Only(c) /\ conn'[c] \in ConnState
    BY <1>8, AttachFields, ReadGlobalEidFields, ReadSeenFields
  <2>3. Sending(c)'
    BY <2>1, <2>2, StartsSending
  <2> QED
    BY <1>3, <2>2, <2>3
<1>9. ASSUME NEW c \in Conns, Fetch(c) \/ FetchPlayback(c) \/ FetchFails(c) PROVE Sendings'
  <2>1. conn[c].out = <<>> /\ conn[c].history = {} /\ (conn[c].pc = "fetch" => conn[c].from = conn[c].cursor)
    <3>1. conn[c].pc \in {"fetch", "playback"}
      BY <1>9, FetchPlaybackFields, FetchFailsFields DEF Fetch
    <3> QED
      BY <3>1 DEF Shapes, Shaped, Before
  <2>2. CASE Fetch(c)
    <3>1. conn[c].from = conn[c].cursor
      BY <2>1, <2>2 DEF Fetch
    <3>2. /\ UNCHANGED feed /\ Replays(c) /\ Only(c) /\ conn'[c] \in ConnState
          /\ \A x \in conn'[c].history : x <= conn'[c].cursor
      BY <2>2, <3>1, FetchFields
    <3>3. Sending(c)'
      BY <2>1, <3>2, StartsSending DEF Replays, feed
    <3> QED
      BY <1>3, <3>2, <3>3
  <2>3. CASE FetchPlayback(c)
    <3>1. /\ UNCHANGED feed /\ Replays(c) /\ Only(c) /\ conn'[c] \in ConnState
          /\ conn'[c].cursor = conn[c].cursor /\ conn[c].pc = "playback"
      BY <2>3, FetchPlaybackFields
    <3>2. ~conn[c].prior /\ conn[c].cursor = conn[c].read
      BY <3>1 DEF Shapes, Shaped
    <3>3. ASSUME NEW x \in conn'[c].history
          PROVE  x <= conn'[c].cursor \/ (~conn'[c].prior /\ x > conn'[c].read)
      <4>1. x \in Int /\ conn[c].read \in Int
        <5>1. x \in stored
          BY <3>1 DEF Replays
        <5>2. stored \subseteq Numbered /\ conn[c].read \in Int
          BY LineType DEF TypeInv
        <5> QED
          BY <5>1, <5>2 DEF Numbered
      <4> QED
        BY <3>1, <3>2, <4>1 DEF Replays
    <3>4. Sending(c)'
      BY <2>1, <3>1, <3>3, StartsSending DEF Replays, feed
    <3> QED
      BY <1>3, <3>1, <3>4
  <2>4. CASE FetchFails(c)
    <3>1. /\ conn'[c].out = conn[c].out /\ conn'[c].history = conn[c].history
          /\ Only(c) /\ conn'[c] \in ConnState
      BY <2>4, FetchFailsFields
    <3>2. Sending(c)'
      BY <2>1, <3>1, StartsSending
    <3> QED
      BY <1>3, <3>1, <3>2
  <2> QED
    BY <1>9, <2>2, <2>3, <2>4
<1>10. ASSUME NEW c \in Conns, SendHistory(c) PROVE Sendings'
  BY <1>3, <1>10, SendHistoryFields, SendHistoryKeeps DEF Sendings
<1>11. ASSUME NEW c \in Conns, DeliverParked(c) PROVE Sendings'
  BY <1>3, <1>11, DeliverParkedFields, DeliverParkedKeeps DEF Sendings
<1>12. ASSUME NEW c \in Conns, OnMessage(c) PROVE Sendings'
  BY <1>1, <1>3, <1>12, OnMessageFields, OnMessageKeeps DEF Sendings
<1>13. ASSUME NEW c \in Conns, Attached(c) PROVE Sendings'
  <2>1. LET r == conn[c]  q == conn'[c] IN
        /\ Only(c) /\ q \in ConnState /\ UNCHANGED feed
        /\ q.history = {} /\ q.cursor = r.cursor /\ q.prior = r.prior /\ q.read = r.read
        /\ r.pc # "gone" /\ q.pc = "live" /\ q.out = r.out
    BY <1>13, AttachedFields
  <2>2. Sending(c)'
    BY <2>1, QuietKeeps DEF Sendings, feed
  <2> QED
    BY <1>3, <2>1, <2>2
<1>14. ASSUME NEW c \in Conns, MarkClosing(c) PROVE Sendings'
  BY <1>1, <1>3, <1>14, MarkClosingFields, SameSending DEF Sendings
<1>15. ASSUME NEW c \in Conns, Teardown(c) PROVE Sendings'
  <2>1. /\ Only(c) /\ conn'[c] \in ConnState /\ UNCHANGED feed /\ conn'[c] = Closed(conn[c])
    BY <1>15, TeardownFields
  <2>2. LET r == conn[c]  q == conn'[c] IN
        /\ q.pc = "gone" /\ q.history = {}
        /\ q.prior = r.prior /\ q.read = r.read /\ q.out = r.out
    BY <1>2, <2>1, ClosedFields
  <2>3. Sending(c)'
    BY <2>1, <2>2, QuietKeeps DEF Sendings, feed
  <2> QED
    BY <1>3, <2>1, <2>3
<1>16. CASE UNCHANGED vars
  BY <1>4, <1>16 DEF vars
<1> QED
  BY <1>5, <1>6, <1>7, <1>8, <1>9, <1>10, <1>11, <1>12, <1>13, <1>14, <1>15, <1>16
     DEF Next, Publishing, Attachment

-----------------------------------------------------------------------------
(* The first theorems. *)

\* A connection before it first attaches.
LEMMA FreshFields ==
  /\ Fresh.pc = "away" /\ ~Fresh.prior /\ Fresh.out = <<>> /\ Fresh.history = {}
  /\ Fresh.historySeen = {} /\ Fresh.inbox = <<>> /\ Fresh.parked = <<>> /\ ~Fresh.closing
  /\ Fresh.read = 0 /\ Fresh.from = 0 /\ Fresh.cursor = 0 /\ Fresh.flushed = 0
BY DEF Fresh

LEMMA InitInvariants ==
  ASSUME Init
  PROVE  TypeInv /\ Shapes /\ Sendings
<1>1. /\ globalEid = 0 /\ msg = [e \in Eids |-> 0] /\ stored = {} /\ pub = [p \in Pubs |-> 0]
      /\ seen = 0 /\ conn = [c \in Conns |-> Fresh]
      /\ base = 0 /\ faults = 0 /\ overlapped = FALSE
  BY DEF Init
<1>2. MaxEid \in Nat /\ Engine \in Pubs
  BY BouncerPlaybackAssumption DEF Pubs
<1>3. conn \in [Conns -> ConnState]
  BY <1>1, FreshType
<1>4. InFlight = {}
  BY <1>1 DEF InFlight
<1>5. msg \in [Eids -> 0..MaxEid] /\ \A e \in Eids : msg[e] <= e
  BY <1>1, <1>2 DEF Eids
<1>6. TypeInv
  <2>1. /\ globalEid \in 0..MaxEid /\ seen \in 0..globalEid /\ base \in 0..globalEid
        /\ faults \in Nat /\ overlapped \in BOOLEAN
    <3>1. 0 \in 0..MaxEid /\ 0 \in 0..0 /\ 0 \in Nat
      BY <1>2
    <3>2. globalEid = 0 /\ seen = 0 /\ base = 0 /\ faults = 0 /\ overlapped = FALSE
      BY <1>1
    <3> QED
      BY <3>1, <3>2
  <2>2. pub \in [Pubs -> 0..globalEid] /\ pub[Engine] = 0
    BY <1>1, <1>2
  <2>3. stored \in SUBSET Numbered /\ \A e \in stored \cup InFlight : msg[e] \in stored \cup {e}
    BY <1>1, <1>4
  <2> QED
    BY <1>3, <1>5, <2>1, <2>2, <2>3 DEF TypeInv
<1>7. \A c \in Conns : conn[c] = Fresh
  BY <1>1
<1>8. Shapes
  BY <1>7, FreshFields DEF Shapes, Shaped, Before
<1>9. Sendings
  BY <1>7, FreshFields DEF Sendings, Sending, Once, Spared
<1> QED
  BY <1>6, <1>8, <1>9

\* The types hold, a connection's phase tells what it holds, and its lines and
\* its cursor fit together, for any number of connections, events and faults.
THEOREM PlaybackInvariant == Spec => [](TypeInv /\ Shapes /\ Sendings)
<1>1. TypeInv /\ Shapes /\ Sendings /\ [Next]_vars => (TypeInv /\ Shapes /\ Sendings)'
  BY TypesKept, ShapesKept, SendingsKept
<1> QED
  BY <1>1, InitInvariants, PTL DEF Spec

\* One connection does not send an event twice, nor a parked copy of a message
\* it has replayed (attach, client.d:1035-1056; deliverLive).
THEOREM NothingSentTwice == Spec => []SentOnce
<1>1. Sendings => SentOnce
  BY DEF Sendings, Sending, Once, Spared, SentOnce
<1> QED
  BY <1>1, PlaybackInvariant, PTL

-----------------------------------------------------------------------------
(* What a later connection sends lies above what an earlier one sent. *)

Reading == {"fetch", "playback", "burst", "drain", "live"}

\* A connection that resumes at a stored cursor sends what is newer than that.
Resuming(c) ==
  LET r == conn[c] IN
  /\ r.pc \in Reading => r.from <= r.cursor
  /\ ~r.prior => r.from = 0
  /\ r.prior => \A x \in r.history : Newer(r, x)
  /\ r.prior => \A i \in DOMAIN r.out :
       /\ r.out[i].eid > r.from
       /\ r.out[i].via = "history" => Newer(r, r.out[i].eid)

Resumings == \A c \in Conns : Resuming(c)

\* The comparison of two events stays what it was.
LEMMA NewerStays ==
  ASSUME TypeInv, Grows, NEW c \in Conns, NEW e \in Numbered, Newer(conn[c], e),
         conn'[c].from = conn[c].from
  PROVE  Newer(conn[c], e)'
<1>1. msg'[e] = msg[e] /\ (conn[c].from \in stored => msg'[conn[c].from] = msg[conn[c].from])
  BY DEF Grows, TypeInv
<1> QED
  BY <1>1 DEF Newer, IsCopy, Grows

LEMMA SameResuming ==
  ASSUME TypeInv, Grows, NEW c \in Conns, Resuming(c),
         conn'[c].pc \in Reading => conn[c].pc \in Reading /\ conn'[c].cursor = conn[c].cursor,
         conn'[c].out = conn[c].out, conn'[c].history \subseteq conn[c].history,
         conn'[c].prior = conn[c].prior, conn'[c].from = conn[c].from
  PROVE  Resuming(c)'
<1> DEFINE r == conn[c]
           q == conn'[c]
<1>1. /\ \A i \in DOMAIN r.out : r.out[i].eid \in Numbered
      /\ \A x \in r.history : x \in Numbered
  BY LineType
<1>2. \A x \in Numbered : Newer(r, x) => Newer(conn[c], x)'
  BY NewerStays
<1>3. /\ r.pc \in Reading => r.from <= r.cursor
      /\ ~r.prior => r.from = 0
      /\ r.prior => \A x \in r.history : Newer(r, x)
      /\ r.prior => \A i \in DOMAIN r.out :
           /\ r.out[i].eid > r.from
           /\ r.out[i].via = "history" => Newer(r, r.out[i].eid)
  BY DEF Resuming
<1>4. q.pc \in Reading => q.from <= q.cursor
  BY <1>3
<1>5. q.prior => \A x \in q.history : Newer(conn[c], x)'
  BY <1>1, <1>2, <1>3
<1>6. q.prior => \A i \in DOMAIN q.out :
        /\ q.out[i].eid > q.from
        /\ q.out[i].via = "history" => Newer(conn[c], conn[c].out[i].eid)'
  <2> SUFFICES ASSUME q.prior, NEW i \in DOMAIN q.out
               PROVE  /\ q.out[i].eid > q.from
                      /\ q.out[i].via = "history" => Newer(conn[c], conn[c].out[i].eid)'
    OBVIOUS
  <2>1. r.prior /\ i \in DOMAIN r.out /\ q.out[i] = r.out[i]
    OBVIOUS
  <2>2. PICK e \in Numbered : r.out[i].eid = e
    BY <1>1, <2>1
  <2>3. r.out[i].eid > r.from /\ (r.out[i].via = "history" => Newer(r, e))
    BY <1>3, <2>1, <2>2
  <2>4. r.out[i].via = "history" => Newer(conn[c], e)'
    BY <1>2, <2>3
  <2>5. conn'[c].out[i].eid = e
    BY <2>1, <2>2
  <2> QED
    BY <2>1, <2>3, <2>4, <2>5
<1> QED
  BY <1>3, <1>4, <1>5, <1>6 DEF Resuming

\* One line more, of an event above the cursor that was read.
LEMMA LineMoreResuming ==
  ASSUME TypeInv, Grows, NEW c \in Conns, Resuming(c),
         NEW e \in Numbered, NEW via \in {"history", "parked", "live"},
         conn[c].prior => e > conn[c].from /\ (via = "history" => Newer(conn[c], e)),
         \/ conn'[c].out = conn[c].out
         \/ conn'[c].out = Append(conn[c].out, Line(e, via)),
         conn'[c].history \subseteq conn[c].history,
         conn'[c].prior = conn[c].prior, conn'[c].from = conn[c].from,
         conn'[c].pc \in Reading => conn[c].from <= conn'[c].cursor
  PROVE  Resuming(c)'
<1> DEFINE r == conn[c]
           q == conn'[c]
           l == Line(e, via)
<1>1. /\ \A i \in DOMAIN r.out : r.out[i].eid \in Numbered
      /\ \A x \in r.history : x \in Numbered
  BY LineType
<1>2. \A x \in Numbered : Newer(r, x) => Newer(conn[c], x)'
  BY NewerStays
<1>3. /\ ~r.prior => r.from = 0
      /\ r.prior => \A x \in r.history : Newer(r, x)
      /\ r.prior => \A i \in DOMAIN r.out :
           /\ r.out[i].eid > r.from
           /\ r.out[i].via = "history" => Newer(r, r.out[i].eid)
  BY DEF Resuming
<1>4. r.out \in Seq(Lines) /\ l \in Lines /\ l.eid = e /\ l.via = via
  BY DEF TypeInv, ConnState, Line, Lines
<1> HIDE DEF l
<1>5. \A i \in DOMAIN q.out : \/ i \in DOMAIN r.out /\ q.out[i] = r.out[i]
                              \/ q.out[i].eid = e /\ q.out[i].via = via
  <2>1. CASE q.out = r.out
    BY <2>1
  <2>2. CASE q.out = Append(r.out, l)
    BY <1>4, <2>2, AppendLine
  <2> QED
    BY <2>1, <2>2 DEF l
<1>6. q.prior => \A x \in q.history : Newer(conn[c], x)'
  BY <1>1, <1>2, <1>3
<1>7. q.prior => \A i \in DOMAIN q.out :
        /\ q.out[i].eid > q.from
        /\ q.out[i].via = "history" => Newer(conn[c], conn[c].out[i].eid)'
  <2> SUFFICES ASSUME q.prior, NEW i \in DOMAIN q.out
               PROVE  /\ q.out[i].eid > q.from
                      /\ q.out[i].via = "history" => Newer(conn[c], conn[c].out[i].eid)'
    OBVIOUS
  <2>1. PICK f \in Numbered : /\ q.out[i].eid = f
                              /\ r.prior /\ f > r.from /\ (q.out[i].via = "history" => Newer(r, f))
    BY <1>1, <1>3, <1>5
  <2>2. q.out[i].via = "history" => Newer(conn[c], f)'
    BY <1>2, <2>1
  <2> QED
    BY <2>1, <2>2
<1> QED
  BY <1>3, <1>6, <1>7 DEF Resuming

LEMMA ResumingsKept ==
  ASSUME TypeInv, Shapes, Resumings, [Next]_vars
  PROVE  Resumings'
<1>1. Grows
  BY FeedGrows
<1>2. conn \in [Conns -> ConnState] /\ seen \in 0..globalEid /\ seen \in Int /\ globalEid \in Nat
  BY DEF TypeInv
<1>3. ASSUME NEW c \in Conns, Only(c), conn'[c] \in ConnState, Resuming(c)'
      PROVE  Resumings'
  <2> SUFFICES ASSUME NEW d \in Conns PROVE Resuming(d)'
    BY DEF Resumings
  <2>1. CASE d = c
    BY <1>3, <2>1
  <2>2. CASE d # c
    <3>1. conn'[d] = conn[d]
      BY <1>3, <2>2, OnlyOne
    <3> QED
      BY <1>1, <3>1, SameResuming DEF Resumings
  <2> QED
    BY <2>1, <2>2
<1>4. ASSUME conn' = conn PROVE Resumings'
  BY <1>1, <1>4, SameResuming DEF Resumings
<1>5. CASE NumberElsewhere
  BY <1>4, <1>5 DEF NumberElsewhere
<1>6. ASSUME NEW p \in Pubs, Number(p) \/ Store(p) \/ Publish(p) PROVE Resumings'
  <2>1. CASE Number(p)
    BY <1>4, <2>1 DEF Number
  <2>2. CASE Store(p)
    BY <1>4, <2>2 DEF Store
  <2>3. CASE Publish(p)
    BY <1>1, <2>3, PublishFields, SameResuming DEF Resumings
  <2> QED
    BY <1>6, <2>1, <2>2, <2>3
<1>7. CASE Crash
  <2> SUFFICES ASSUME NEW c \in Conns PROVE Resuming(c)'
    BY DEF Resumings
  <2>1. conn'[c] = IF conn[c].pc \in Subscribed THEN Closed(conn[c]) ELSE conn[c]
    BY <1>7, CrashFields
  <2>2. CASE conn[c].pc \in Subscribed
    <3>1. LET q == conn'[c] IN /\ q.pc \notin Reading /\ q.history = {}
          /\ q.prior = conn[c].prior /\ q.from = conn[c].from /\ q.out = conn[c].out
      BY <1>2, <2>1, <2>2, ClosedFields DEF Reading
    <3> QED
      BY <1>1, <3>1, SameResuming DEF Resumings
  <2>3. CASE conn[c].pc \notin Subscribed
    BY <1>1, <2>1, <2>3, SameResuming DEF Resumings
  <2> QED
    BY <2>2, <2>3
<1>8. ASSUME NEW c \in Conns, Attach(c) \/ ReadGlobalEid(c) PROVE Resumings'
  <2>1. LET r == conn[c]  q == conn'[c] IN
        /\ Only(c) /\ q \in ConnState /\ q.pc \notin Reading
        /\ q.out = r.out /\ q.history = r.history /\ q.prior = r.prior /\ q.from = r.from
    BY <1>8, AttachFields, ReadGlobalEidFields DEF Reading
  <2>2. Resuming(c)'
    BY <1>1, <2>1, SameResuming DEF Resumings
  <2> QED
    BY <1>3, <2>1, <2>2
<1>9. ASSUME NEW c \in Conns, ReadSeen(c) PROVE Resumings'
  <2>1. LET r == conn[c]  q == conn'[c] IN
        /\ Only(c) /\ q \in ConnState /\ r.pc = "seen"
        /\ q.out = r.out /\ q.history = r.history
        /\ \/ q.from = 0 /\ ~q.prior /\ q.cursor = r.read
           \/ q.from = seen /\ q.prior /\ q.cursor = seen
    BY <1>9, ReadSeenFields
  <2>2. conn[c].out = <<>> /\ conn[c].history = {}
    BY <2>1 DEF Shapes, Shaped, Before
  <2>3. conn[c].read \in 0..globalEid
    BY <1>2 DEF ConnState
  <2>4. conn'[c].from <= conn'[c].cursor /\ (~conn'[c].prior => conn'[c].from = 0)
    <3>1. seen <= seen /\ 0 <= conn[c].read
      BY <1>2, <2>3
    <3> QED
      BY <2>1, <3>1
  <2>5. Resuming(c)'
    BY <2>1, <2>2, <2>4 DEF Resuming
  <2> QED
    BY <1>3, <2>1, <2>5
<1>10. ASSUME NEW c \in Conns, Fetch(c) \/ FetchFails(c) \/ FetchPlayback(c) PROVE Resumings'
  <2>1. conn[c].pc \in {"fetch", "playback"}
    BY <1>10, FetchPlaybackFields, FetchFailsFields DEF Fetch
  <2>2. /\ conn[c].out = <<>> /\ conn[c].history = {} /\ conn[c].from <= conn[c].cursor
        /\ (conn[c].pc = "fetch" => conn[c].from = conn[c].cursor)
        /\ ~conn[c].prior => conn[c].from = 0
    BY <2>1 DEF Shapes, Shaped, Before, Resumings, Resuming, Reading
  <2>3. /\ Only(c) /\ conn'[c] \in ConnState /\ conn'[c].out = conn[c].out
        /\ conn'[c].prior = conn[c].prior /\ conn'[c].from = conn[c].from
        /\ conn'[c].cursor >= conn[c].cursor
        /\ conn[c].prior => \A x \in conn'[c].history : x \in Numbered /\ Newer(conn[c], x)
    <3>1. CASE Fetch(c)
      <4>1. conn[c].from = conn[c].cursor
        BY <2>2, <3>1 DEF Fetch
      <4> QED
        BY <3>1, <4>1, FetchFields DEF Replays, TypeInv
    <3>2. CASE FetchFails(c)
      BY <2>2, <3>2, FetchFailsFields
    <3>3. CASE FetchPlayback(c)
      <4>1. ~conn[c].prior /\ conn[c].cursor \in Int
        BY <3>3, LineType, FetchPlaybackFields DEF Shapes, Shaped
      <4> QED
        BY <3>3, <4>1, FetchPlaybackFields DEF Replays
    <3> QED
      BY <1>10, <3>1, <3>2, <3>3
  <2>4. conn'[c].from <= conn'[c].cursor
    <3>1. conn[c].from \in Int /\ conn[c].cursor \in Int /\ conn'[c].cursor \in Int
      BY <1>2, <2>3 DEF ConnState
    <3> QED
      BY <2>2, <2>3, <3>1
  <2>5. conn'[c].prior => \A x \in conn'[c].history : Newer(conn[c], x)'
    BY <1>1, <2>3, NewerStays
  <2>6. Resuming(c)'
    BY <2>2, <2>3, <2>4, <2>5 DEF Resuming
  <2> QED
    BY <1>3, <2>3, <2>6
<1>11. ASSUME NEW c \in Conns, SendHistory(c) PROVE Resumings'
  <2> DEFINE r == conn[c]
             q == conn'[c]
  <2>1. /\ Only(c) /\ q \in ConnState /\ r.pc = "burst" /\ q.cursor = r.cursor
        /\ q.prior = r.prior /\ q.from = r.from
    BY <1>11, SendHistoryFields
  <2>2. PICK e \in r.history :
          /\ q.history = r.history \ {e}
          /\ q.out = IF r.closing THEN r.out ELSE Append(r.out, Line(e, "history"))
    BY <1>11, SendHistoryFields
  <2>3. Resuming(c)
    BY DEF Resumings
  <2>4. e \in Numbered
    BY LineType
  <2>5. r.prior => e > r.from /\ Newer(r, e)
    BY <2>3 DEF Resuming, Newer
  <2>6. r.from <= q.cursor
    BY <2>1, <2>3 DEF Resuming, Reading
  <2>7. Resuming(c)'
    BY <1>1, <2>1, <2>2, <2>3, <2>4, <2>5, <2>6, LineMoreResuming
  <2> QED
    BY <1>3, <2>1, <2>7
<1>12. ASSUME NEW c \in Conns, DeliverParked(c) PROVE Resumings'
  <2> DEFINE r == conn[c]
             q == conn'[c]
  <2>1. /\ Only(c) /\ q \in ConnState /\ r.pc \in Reading /\ q.history = r.history
        /\ q.prior = r.prior /\ q.from = r.from
    BY <1>12, DeliverParkedFields DEF Reading
  <2>2. PICK k \in DOMAIN r.parked :
          /\ r.parked[k] > r.cursor /\ q.cursor = r.parked[k]
          /\ q.out = IF r.closing THEN r.out ELSE Append(r.out, Line(r.parked[k], "parked"))
    BY <1>12, DeliverParkedFields
  <2>3. Resuming(c) /\ r.from <= r.cursor
    BY <2>1 DEF Resumings, Resuming
  <2>4. r.parked[k] \in Numbered
    BY <1>2 DEF ConnState
  <2>5. r.parked[k] > r.from
    <3>1. r.from \in Int /\ r.cursor \in Int /\ r.parked[k] \in Int
      BY <2>4, LineType DEF Numbered
    <3> QED
      BY <2>2, <2>3, <3>1
  <2>6. r.from <= q.cursor
    <3>1. r.from \in Int /\ r.parked[k] \in Int
      BY <2>4, LineType DEF Numbered
    <3> QED
      BY <2>2, <2>5, <3>1
  <2>7. Resuming(c)'
    BY <1>1, <2>1, <2>2, <2>3, <2>4, <2>5, <2>6, LineMoreResuming
  <2> QED
    BY <1>3, <2>1, <2>7
<1>13. ASSUME NEW c \in Conns, OnMessage(c) PROVE Resumings'
  <2> DEFINE r == conn[c]
             q == conn'[c]
             e == Head(r.inbox)
  <2>1. /\ Only(c) /\ q \in ConnState /\ r.inbox # <<>> /\ q.pc = r.pc
        /\ q.history = r.history /\ q.prior = r.prior /\ q.from = r.from
        /\ \/ q.cursor = r.cursor /\ q.out = r.out
           \/ /\ r.pc \in {"drain", "live"}
              /\ q.cursor = IF e <= r.cursor THEN r.cursor ELSE e
              /\ q.out = IF e <= r.cursor THEN r.out ELSE Append(r.out, Line(e, "live"))
    BY <1>13, OnMessageFields
  <2>2. Resuming(c) /\ (r.pc \in Reading => r.from <= r.cursor)
    BY DEF Resumings, Resuming
  <2>3. e \in Numbered /\ e \in Int /\ r.cursor \in Int /\ r.from \in Int
    <3>1. r.inbox \in Seq(Numbered)
      BY <1>2 DEF ConnState
    <3>2. e \in Numbered
      BY <2>1, <3>1
    <3> QED
      BY <3>2, LineType DEF Numbered
  <2>4. CASE q.cursor = r.cursor /\ q.out = r.out
    <3>1. Resuming(c)'
      BY <1>1, <2>1, <2>2, <2>4, SameResuming
    <3> QED
      BY <1>3, <2>1, <3>1
  <2>5. CASE /\ r.pc \in {"drain", "live"} /\ e > r.cursor
             /\ q.cursor = e /\ q.out = Append(r.out, Line(e, "live"))
    <3>1. e > r.from /\ r.from <= e
      BY <2>2, <2>3, <2>5 DEF Reading
    <3> HIDE DEF e
    <3>2. Resuming(c)'
      BY <1>1, <2>1, <2>2, <2>3, <2>5, <3>1, LineMoreResuming
    <3> QED
      BY <1>3, <2>1, <3>2
  <2>6. e <= r.cursor \/ (e > r.cursor /\ ~(e <= r.cursor))
    BY <2>3
  <2> HIDE DEF e, r, q
  <2> QED
    BY <2>1, <2>4, <2>5, <2>6
<1>14. ASSUME NEW c \in Conns, Attached(c) \/ MarkClosing(c) PROVE Resumings'
  <2>1. LET r == conn[c]  q == conn'[c] IN
        /\ Only(c) /\ q \in ConnState /\ q.cursor = r.cursor
        /\ q.pc \in Reading => r.pc \in Reading
        /\ q.out = r.out /\ q.history = r.history /\ q.prior = r.prior /\ q.from = r.from
    BY <1>14, AttachedFields, MarkClosingFields DEF Reading
  <2>2. Resuming(c)'
    BY <1>1, <2>1, SameResuming DEF Resumings
  <2> QED
    BY <1>3, <2>1, <2>2
<1>15. ASSUME NEW c \in Conns, Teardown(c) PROVE Resumings'
  <2>1. Only(c) /\ conn'[c] \in ConnState /\ conn'[c] = Closed(conn[c])
    BY <1>15, TeardownFields
  <2>2. LET r == conn[c]  q == conn'[c] IN
        /\ q.pc \notin Reading /\ q.history = {}
        /\ q.prior = r.prior /\ q.from = r.from /\ q.out = r.out
    BY <1>2, <2>1, ClosedFields DEF Reading
  <2>3. Resuming(c)'
    BY <1>1, <2>2, SameResuming DEF Resumings
  <2> QED
    BY <1>3, <2>1, <2>3
<1>16. CASE UNCHANGED vars
  BY <1>4, <1>16 DEF vars
<1> QED
  BY <1>5, <1>6, <1>7, <1>8, <1>9, <1>10, <1>11, <1>12, <1>13, <1>14, <1>15, <1>16
     DEF Next, Publishing, Attachment

-----------------------------------------------------------------------------
(* Connections that take turns. *)

\* Connections of the client never met, and nothing failed.
Calm == ~overlapped /\ faults = 0

\* The stored cursor follows that of the connection that is attached, and when
\* a connection is gone it covers what that connection sent.
Following(c) ==
  LET r == conn[c] IN
  /\ r.from <= seen
  /\ r.pc \in Reading => /\ seen <= r.cursor /\ r.flushed <= r.cursor
                         /\ r.flushed # 0 => r.flushed = seen
  /\ r.pc = "gone" => \A i \in DOMAIN r.out : r.out[i].eid <= seen \/ Spared(r, r.out[i])

\* A later connection begins above what an earlier one sent.
Above(c, d) ==
  conn[d].pc \in Reading \cup {"gone"} =>
    \A i \in DOMAIN conn[c].out :
      conn[c].out[i].eid <= conn[d].from \/ Spared(conn[c], conn[c].out[i])

TakeTurns ==
  Calm => /\ \A c, d \in Conns : c < d /\ conn[d].pc # "away" => conn[c].pc = "gone"
          /\ \A c \in Conns : Following(c)
          /\ \A c, d \in Conns : c < d => Above(c, d)

LEMMA ConnsOrdered ==
  \A c, d \in Conns : (c # d => c < d \/ d < c) /\ (c < d => c # d)
<1>1. Conns \subseteq Nat
  BY BouncerPlaybackAssumption
<1>2. \A c, d \in Nat : (c # d => c < d \/ d < c) /\ (c < d => c # d)
  OBVIOUS
<1> QED
  BY <1>1, <1>2

\* While a connection is attached, or attaching, the others are away or gone.
LEMMA OthersIdle ==
  ASSUME TakeTurns, Calm, NEW c \in Conns, conn[c].pc \in Subscribed, NEW d \in Conns, d # c
  PROVE  /\ c < d => conn[d].pc = "away"
         /\ d < c => conn[d].pc = "gone"
<1>1. \A x \in Subscribed : x # "away" /\ x # "gone"
  BY DEF Subscribed, Attaching
<1> QED
  BY <1>1 DEF TakeTurns

\* It is enough that the stored cursor does not go back, and that the
\* connection that moves keeps the three parts of the invariant.
LEMMA TurnStep ==
  ASSUME TypeInv, Shapes, TakeTurns, NEW c \in Conns, Only(c), conn'[c] \in ConnState,
         conn[c].pc \in Subscribed, conn'[c].pc \in Subscribed \cup {"gone"},
         Calm' => Calm, seen' \in 0..globalEid,
         Calm => seen' >= seen /\ Following(c)',
         Calm /\ conn'[c].pc \in Reading \cup {"gone"} =>
           \/ conn[c].pc \in Reading /\ conn'[c].from = conn[c].from
           \/ conn'[c].from = seen
  PROVE  TakeTurns'
<1> SUFFICES ASSUME Calm, Calm'
             PROVE  /\ \A a, b \in Conns : a < b /\ conn'[b].pc # "away" => conn'[a].pc = "gone"
                    /\ \A a \in Conns : Following(a)'
                    /\ \A a, b \in Conns : a < b => Above(a, b)'
  BY DEF TakeTurns
<1>1. /\ \A d \in Conns : d # c => conn'[d] = conn[d]
      /\ \A x \in Subscribed : x # "away" /\ x # "gone"
  BY OnlyOne DEF Subscribed, Attaching
<1>2. ASSUME NEW a \in Conns, NEW b \in Conns, a < b, conn'[b].pc # "away"
      PROVE  conn'[a].pc = "gone"
  <2>1. a # b
    BY <1>2, ConnsOrdered
  <2>2. CASE b = c
    BY <1>1, <1>2, <2>1, <2>2, OthersIdle
  <2>3. CASE b # c /\ a # c
    BY <1>1, <1>2, <2>3 DEF TakeTurns
  <2>4. CASE a = c
    BY <1>1, <1>2, <2>1, <2>4, OthersIdle
  <2> QED
    BY <2>2, <2>3, <2>4
<1>3. ASSUME NEW a \in Conns, a # c
      PROVE  /\ conn'[a] = conn[a] /\ conn[a].pc \in {"away", "gone"} /\ conn[a].from <= seen'
             /\ conn[a].pc = "gone" => \A i \in DOMAIN conn[a].out :
                  conn[a].out[i].eid <= seen' \/ Spared(conn[a], conn[a].out[i])
  <2>1. conn'[a] = conn[a] /\ conn[a].pc \in {"away", "gone"}
    BY <1>1, <1>3, OthersIdle, ConnsOrdered
  <2>2. /\ conn[a].from <= seen
        /\ conn[a].pc = "gone" => \A i \in DOMAIN conn[a].out :
                  conn[a].out[i].eid <= seen \/ Spared(conn[a], conn[a].out[i])
    BY DEF TakeTurns, Following
  <2>3. /\ conn[a].from \in Int /\ seen \in Int /\ seen' \in Int
        /\ \A i \in DOMAIN conn[a].out : conn[a].out[i].eid \in Int
        /\ seen' >= seen
    BY LineType DEF TypeInv
  <2>4. conn[a].from <= seen'
    BY <2>2, <2>3
  <2>5. \A i \in DOMAIN conn[a].out : conn[a].out[i].eid <= seen => conn[a].out[i].eid <= seen'
    BY <2>3
  <2> QED
    BY <2>1, <2>2, <2>4, <2>5
<1>4. ASSUME NEW a \in Conns PROVE Following(a)'
  <2>1. CASE a = c
    BY <2>1
  <2>2. CASE a # c
    BY <1>3, <2>2 DEF Following, Reading, Spared
  <2> QED
    BY <2>1, <2>2
<1>5. ASSUME NEW a \in Conns, NEW b \in Conns, a < b PROVE Above(a, b)'
  <2>1. a # b
    BY <1>5, ConnsOrdered
  <2>2. CASE b # c /\ a # c
    <3>1. conn'[a] = conn[a] /\ conn'[b] = conn[b]
      BY <1>3, <2>2
    <3>2. Above(a, b)
      BY <1>5 DEF TakeTurns
    <3> QED
      BY <3>1, <3>2 DEF Above, Spared
  <2>3. CASE a = c
    <3>1. conn'[b].pc = "away"
      BY <1>1, <1>5, <2>1, <2>3, OthersIdle
    <3> QED
      BY <3>1 DEF Above, Reading
  <2>4. CASE b = c
    <3>1. a # c /\ conn[a].pc = "gone" /\ conn'[a] = conn[a]
      BY <1>1, <1>5, <2>1, <2>4, OthersIdle
    <3>2. \A i \in DOMAIN conn[a].out : conn[a].out[i].eid <= seen \/ Spared(conn[a], conn[a].out[i])
      BY <3>1 DEF TakeTurns, Following
    <3>3. CASE conn[c].pc \in Reading /\ conn'[c].from = conn[c].from
      <4>1. Above(a, c)
        BY <1>5, <2>4 DEF TakeTurns
      <4> QED
        BY <2>4, <3>1, <3>3, <4>1 DEF Above, Spared
    <3>4. CASE conn'[c].from = seen
      BY <2>4, <3>1, <3>2, <3>4 DEF Above, Spared
    <3> QED
      BY <2>4, <3>3, <3>4 DEF Above
  <2> QED
    BY <2>2, <2>3, <2>4
<1> QED
  BY <1>2, <1>4, <1>5

LEMMA SameTurns ==
  ASSUME TakeTurns, Calm' => Calm, seen' = seen,
         \A c \in Conns : LET r == conn[c]  q == conn'[c] IN
           /\ q.pc = r.pc /\ q.from = r.from /\ q.cursor = r.cursor /\ q.flushed = r.flushed
           /\ q.out = r.out /\ q.prior = r.prior /\ q.read = r.read
  PROVE  TakeTurns'
<1> SUFFICES ASSUME Calm, Calm'
             PROVE  /\ \A a, b \in Conns : a < b /\ conn'[b].pc # "away" => conn'[a].pc = "gone"
                    /\ \A a \in Conns : Following(a)'
                    /\ \A a, b \in Conns : a < b => Above(a, b)'
  BY DEF TakeTurns
<1>1. \A a, b \in Conns : a < b /\ conn'[b].pc # "away" => conn'[a].pc = "gone"
  BY DEF TakeTurns
<1>2. ASSUME NEW a \in Conns PROVE Following(a)'
  <2>1. Following(a)
    BY DEF TakeTurns
  <2> QED
    BY <2>1 DEF Following, Spared
<1>3. ASSUME NEW a \in Conns, NEW b \in Conns, a < b PROVE Above(a, b)'
  <2>1. Above(a, b)
    BY <1>3 DEF TakeTurns
  <2> QED
    BY <2>1 DEF Above, Spared
<1> QED
  BY <1>1, <1>2, <1>3

\* A write takes the stored cursor forward, to the connection's.
LEMMA KeptFollows ==
  ASSUME NEW r, NEW q, Kept(r, q), seen \in Nat,
         r.cursor \in Nat, r.flushed \in Nat, q.cursor \in Nat, q.cursor >= r.cursor,
         seen <= r.cursor, r.flushed <= r.cursor, r.flushed # 0 => r.flushed = seen
  PROVE  /\ seen' >= seen /\ seen' <= q.cursor /\ q.flushed <= q.cursor
         /\ q.flushed # 0 => q.flushed = seen'
<1>1. CASE q.flushed = r.flushed /\ seen' = seen
  BY <1>1
<1>2. CASE q.flushed = q.cursor /\ seen' = IF q.cursor > r.flushed THEN q.cursor ELSE seen
  <2>1. CASE q.cursor > r.flushed
    BY <1>2, <2>1
  <2>2. CASE ~(q.cursor > r.flushed)
    <3>1. r.flushed = q.cursor /\ r.cursor = q.cursor
      BY <2>2
    <3> QED
      BY <1>2, <2>2, <3>1
  <2> QED
    BY <2>1, <2>2
<1> QED
  BY <1>1, <1>2 DEF Kept

\* A connection that was reading moves its cursor forward and may write it.
LEMMA MovesForward ==
  ASSUME TypeInv, TakeTurns, NEW c \in Conns, Only(c), conn'[c] \in ConnState, conn[c].pc \in Reading,
         conn'[c].pc \in Reading, conn'[c].from = conn[c].from, conn'[c].cursor >= conn[c].cursor,
         \/ conn'[c].flushed = conn[c].flushed /\ seen' = seen
         \/ Kept(conn[c], conn'[c]),
         Calm, seen' \in 0..globalEid
  PROVE  seen' >= seen /\ Following(c)'
<1> DEFINE r == conn[c]
           q == conn'[c]
<1>1. /\ r.from \in Nat /\ r.cursor \in Nat /\ r.flushed \in Nat /\ q.cursor \in Nat /\ seen \in Nat
      /\ seen' \in Nat
  BY DEF TypeInv, ConnState
<1>2. /\ r.from <= seen /\ seen <= r.cursor /\ r.flushed <= r.cursor
      /\ r.flushed # 0 => r.flushed = seen
  BY DEF TakeTurns, Following
<1>3. Kept(r, q)
  BY DEF Kept
<1>4. /\ seen' >= seen /\ seen' <= q.cursor /\ q.flushed <= q.cursor
      /\ q.flushed # 0 => q.flushed = seen'
  <2> HIDE DEF r, q
  <2>1. q.cursor >= r.cursor
    BY DEF r, q
  <2> QED
    BY <1>1, <1>2, <1>3, <2>1, KeptFollows
<1>5. r.from <= seen'
  BY <1>1, <1>2, <1>4
<1> QED
  BY <1>4, <1>5 DEF Following, Reading

LEMMA TakeTurnsKept ==
  ASSUME TypeInv, Shapes, Sendings, TakeTurns, [Next]_vars
  PROVE  TakeTurns'
<1>1. /\ conn \in [Conns -> ConnState] /\ seen \in 0..globalEid /\ seen \in Nat
      /\ faults \in Nat /\ seen >= seen
  BY DEF TypeInv
<1>2. ASSUME conn' = conn, seen' = seen, Calm' => Calm PROVE TakeTurns'
  BY <1>2, SameTurns
<1>3. CASE NumberElsewhere
  BY <1>2, <1>3 DEF NumberElsewhere, Calm
<1>4. ASSUME NEW p \in Pubs, Number(p) \/ Store(p) \/ Publish(p) PROVE TakeTurns'
  <2>1. CASE Number(p)
    BY <1>2, <2>1 DEF Number, Calm
  <2>2. CASE Store(p)
    BY <1>2, <2>2 DEF Store, Calm
  <2>3. CASE Publish(p)
    <3>1. UNCHANGED <<seen, faults, overlapped>>
      BY <2>3 DEF Publish
    <3>2. \A c \in Conns : LET r == conn[c]  q == conn'[c] IN
           /\ q.pc = r.pc /\ q.from = r.from /\ q.cursor = r.cursor /\ q.flushed = r.flushed
           /\ q.out = r.out /\ q.prior = r.prior /\ q.read = r.read
      BY <2>3, PublishFields
    <3> QED
      BY <3>1, <3>2, SameTurns DEF Calm
  <2> QED
    BY <1>4, <2>1, <2>2, <2>3
<1>5. CASE Crash
  BY <1>5, CrashFields DEF TakeTurns, Calm
<1>6. ASSUME NEW c \in Conns, Attach(c) PROVE TakeTurns'
  <2> SUFFICES ASSUME Calm'
               PROVE  /\ \A a, b \in Conns : a < b /\ conn'[b].pc # "away" => conn'[a].pc = "gone"
                      /\ \A a \in Conns : Following(a)'
                      /\ \A a, b \in Conns : a < b => Above(a, b)'
    BY DEF TakeTurns
  <2>1. LET r == conn[c]  q == conn'[c] IN
        /\ Only(c) /\ q \in ConnState /\ seen' = seen /\ r.pc = "away" /\ q.pc = "count"
        /\ q.from = r.from /\ q.cursor = r.cursor /\ q.flushed = r.flushed
        /\ q.out = r.out /\ q.prior = r.prior /\ q.read = r.read
        /\ \A d \in Conns : d < c => conn[d].pc # "away"
        /\ faults' = 0 => faults = 0
        /\ ~overlapped' => ~overlapped /\ \A d \in Conns : conn[d].pc \notin Subscribed
    BY <1>6, AttachFields
  <2>2. Calm /\ \A d \in Conns : conn[d].pc \in {"away", "gone"}
    BY <1>1, <2>1 DEF Calm, ConnState, Phases
  <2>3. \A d \in Conns : d # c => conn'[d] = conn[d]
    BY <2>1, OnlyOne
  <2>4. ASSUME NEW a \in Conns, NEW b \in Conns, a < b, conn'[b].pc # "away"
        PROVE  conn'[a].pc = "gone"
    <3>1. a # b
      BY <2>4, ConnsOrdered
    <3>2. CASE b = c
      BY <2>1, <2>2, <2>3, <2>4, <3>1, <3>2
    <3>3. CASE b # c
      <4>1. conn[a].pc = "gone"
        BY <2>2, <2>3, <2>4, <3>3 DEF TakeTurns
      <4>2. a # c
        BY <2>1, <4>1
      <4> QED
        BY <2>3, <4>1, <4>2
    <3> QED
      BY <3>2, <3>3
  <2>5. \A a \in Conns : /\ conn'[a].from = conn[a].from /\ conn'[a].cursor = conn[a].cursor
                         /\ conn'[a].out = conn[a].out /\ conn'[a].prior = conn[a].prior
                         /\ conn'[a].read = conn[a].read
                         /\ conn'[a].pc = conn[a].pc \/ conn'[a].pc = "count"
    BY <2>1, <2>3
  <2>6. ASSUME NEW a \in Conns PROVE Following(a)'
    <3>1. Following(a) /\ conn'[a].pc \notin Reading
      BY <2>2, <2>5 DEF TakeTurns, Reading
    <3> QED
      BY <2>1, <2>5, <3>1 DEF Following, Spared
  <2>7. ASSUME NEW a \in Conns, NEW b \in Conns, a < b PROVE Above(a, b)'
    <3>1. Above(a, b)
      BY <2>2, <2>7 DEF TakeTurns
    <3> QED
      BY <2>5, <3>1 DEF Above, Spared, Reading
  <2> QED
    BY <2>4, <2>6, <2>7
<1>7. ASSUME NEW c \in Conns, ReadGlobalEid(c) PROVE TakeTurns'
  <2>1. LET r == conn[c]  q == conn'[c] IN
        /\ Only(c) /\ q \in ConnState /\ UNCHANGED <<seen, overlapped>> /\ Counted
        /\ r.pc = "count" /\ q.pc = "seen" /\ q.from = r.from
    BY <1>7, ReadGlobalEidFields
  <2>2. conn[c].pc \in Subscribed /\ conn'[c].pc \in Subscribed /\ conn'[c].pc \notin Reading \cup {"gone"}
    BY <2>1 DEF Subscribed, Attaching, Reading
  <2>3. Calm => Following(c)'
    BY <2>1 DEF TakeTurns, Following, Reading
  <2> QED
    BY <1>1, <2>1, <2>2, <2>3, TurnStep DEF Calm, Counted
<1>8. ASSUME NEW c \in Conns, ReadSeen(c) PROVE TakeTurns'
  <2> SUFFICES ASSUME Calm' PROVE TakeTurns'
    BY DEF TakeTurns
  <2>0. faults' = 0
    BY DEF Calm
  <2>1. LET r == conn[c]  q == conn'[c] IN
        /\ Only(c) /\ q \in ConnState /\ UNCHANGED <<seen, overlapped>> /\ Counted
        /\ r.pc = "seen" /\ q.from = seen /\ q.flushed = r.flushed
        /\ \/ seen = 0 /\ q.cursor = r.read /\ q.pc \in {"burst", "playback"}
           \/ q.cursor = seen /\ q.pc = "fetch"
    BY <1>8, <2>0, ReadSeenFields
  <2>2. conn[c].pc \in Subscribed /\ conn'[c].pc \in Subscribed /\ conn'[c].pc # "gone"
    BY <2>1 DEF Subscribed, Attaching
  <2>3. conn[c].flushed = 0 /\ conn[c].read \in Nat
    BY <1>1, <2>1 DEF Shapes, Shaped, Before, ConnState
  <2>4. seen <= conn'[c].cursor /\ conn'[c].flushed = 0 /\ 0 <= conn'[c].cursor
    BY <1>1, <2>1, <2>3
  <2>5. Following(c)'
    BY <1>1, <2>1, <2>2, <2>4 DEF Following
  <2> QED
    BY <1>1, <2>1, <2>2, <2>5, TurnStep DEF Calm, Counted
<1>9. ASSUME NEW c \in Conns, Only(c), conn'[c] \in ConnState, conn[c].pc \in Reading,
             conn'[c].pc \in Reading, conn'[c].from = conn[c].from, conn'[c].cursor >= conn[c].cursor,
             \/ conn'[c].flushed = conn[c].flushed /\ seen' = seen
             \/ Kept(conn[c], conn'[c]),
             seen' \in 0..globalEid, Calm' => Calm
      PROVE  TakeTurns'
  <2>1. Calm => seen' >= seen /\ Following(c)'
    BY <1>9, MovesForward
  <2>2. conn[c].pc \in Subscribed /\ conn'[c].pc \in Subscribed
    BY <1>9 DEF Subscribed, Attaching, Reading
  <2> QED
    BY <1>9, <2>1, <2>2, TurnStep
<1>10. ASSUME NEW c \in Conns, Fetch(c) PROVE TakeTurns'
  <2>1. conn[c].from = conn[c].cursor
    BY <1>10 DEF Shapes, Shaped, Fetch
  <2>2. LET r == conn[c]  q == conn'[c] IN
        /\ Only(c) /\ q \in ConnState /\ UNCHANGED <<seen, faults, overlapped>>
        /\ r.pc = "fetch" /\ q.pc = "burst" /\ q.from = r.from /\ q.flushed = r.flushed
        /\ q.cursor >= r.cursor
    BY <1>10, <2>1, FetchFields DEF Replays
  <2> QED
    BY <1>1, <1>9, <2>2 DEF Calm, Reading
<1>11. ASSUME NEW c \in Conns, FetchPlayback(c) PROVE TakeTurns'
  <2>1. LET r == conn[c]  q == conn'[c] IN
        /\ Only(c) /\ q \in ConnState /\ UNCHANGED <<seen, faults, overlapped>>
        /\ r.pc = "playback" /\ q.pc = "burst" /\ q.from = r.from /\ q.flushed = r.flushed
        /\ q.cursor = r.cursor
    BY <1>11, FetchPlaybackFields DEF Replays
  <2>2. conn'[c].cursor >= conn[c].cursor
    BY <2>1, LineType
  <2> QED
    BY <1>1, <1>9, <2>1, <2>2 DEF Calm, Reading
<1>12. ASSUME NEW c \in Conns, FetchFails(c) PROVE TakeTurns'
  <2>1. faults' # 0
    <3>1. faults' = faults + 1
      BY <1>12, FetchFailsFields
    <3> QED
      BY <1>1, <3>1
  <2> QED
    BY <2>1 DEF TakeTurns, Calm
<1>13. ASSUME NEW c \in Conns, SendHistory(c) \/ Attached(c) PROVE TakeTurns'
  <2>1. LET r == conn[c]  q == conn'[c] IN
        /\ Only(c) /\ q \in ConnState /\ UNCHANGED overlapped /\ Counted
        /\ r.pc \in Reading /\ q.pc \in Reading /\ q.from = r.from /\ q.cursor = r.cursor
        /\ \/ q.flushed = r.flushed /\ seen' = seen
           \/ Kept(r, q)
        /\ seen' \in 0..globalEid
    <3>1. CASE SendHistory(c)
      BY <1>1, <3>1, SendHistoryFields, FaultsCount DEF Reading
    <3>2. CASE Attached(c)
      BY <3>2, AttachedFields DEF Reading
    <3> QED
      BY <1>13, <3>1, <3>2
  <2>2. conn'[c].cursor >= conn[c].cursor
    BY <2>1, LineType
  <2> QED
    BY <1>9, <2>1, <2>2 DEF Calm, Counted
<1>14. ASSUME NEW c \in Conns, DeliverParked(c) PROVE TakeTurns'
  <2>1. LET r == conn[c]  q == conn'[c] IN
        /\ Only(c) /\ q \in ConnState /\ UNCHANGED overlapped /\ Counted
        /\ r.pc \in Reading /\ q.pc \in Reading /\ q.from = r.from
        /\ Kept(r, q) /\ seen' \in 0..globalEid
    BY <1>14, DeliverParkedFields DEF Reading
  <2>2. conn'[c].cursor > conn[c].cursor
    BY <1>14, DeliverParkedFields
  <2>3. conn'[c].cursor \in Int /\ conn[c].cursor \in Int
    BY <1>1, <2>1 DEF ConnState
  <2>4. conn'[c].cursor >= conn[c].cursor
    BY <2>2, <2>3
  <2> QED
    BY <1>9, <2>1, <2>4 DEF Calm, Counted
<1>15. ASSUME NEW c \in Conns, OnMessage(c) PROVE TakeTurns'
  <2> DEFINE r == conn[c]
             q == conn'[c]
             e == Head(r.inbox)
  <2>1. /\ Only(c) /\ q \in ConnState /\ UNCHANGED overlapped /\ Counted
        /\ r.inbox # <<>> /\ r.pc \in Subscribed /\ q.pc = r.pc /\ q.from = r.from
        /\ seen' \in 0..globalEid
        /\ q.out = r.out \/ r.pc \in {"drain", "live"}
        /\ \/ q.flushed = r.flushed /\ seen' = seen /\ q.cursor = r.cursor
           \/ /\ r.pc \in {"drain", "live"} /\ Kept(r, q)
              /\ q.cursor = IF e <= r.cursor THEN r.cursor ELSE e
    BY <1>15, OnMessageFields
  <2>2. q.cursor >= r.cursor
    <3>1. r.inbox \in Seq(Numbered) /\ r.cursor \in 0..globalEid
      BY <1>1 DEF ConnState
    <3>2. e \in Numbered
      BY <2>1, <3>1
    <3>3. e \in Int /\ r.cursor \in Int
      BY <3>1, <3>2 DEF Numbered
    <3> QED
      BY <2>1, <3>3
  <2>3. CASE r.pc \in Reading
    BY <1>9, <2>1, <2>2, <2>3 DEF Calm, Counted
  <2>4. CASE r.pc \notin Reading
    <3>1. seen' = seen /\ q.pc \notin Reading \cup {"gone"} /\ q.pc \in Subscribed
      BY <2>1, <2>4 DEF Reading, Subscribed, Attaching
    <3>2. Calm => Following(c)'
      BY <2>1, <3>1 DEF TakeTurns, Following
    <3> QED
      BY <1>1, <2>1, <3>1, <3>2, TurnStep DEF Calm, Counted
  <2> QED
    BY <2>3, <2>4
<1>16. ASSUME NEW c \in Conns, MarkClosing(c) PROVE TakeTurns'
  <2>1. LET r == conn[c]  q == conn'[c] IN
        /\ Only(c) /\ UNCHANGED <<seen, overlapped>> /\ (faults' = 0 => faults = 0)
        /\ q.pc = r.pc /\ q.from = r.from /\ q.cursor = r.cursor /\ q.flushed = r.flushed
        /\ q.out = r.out /\ q.prior = r.prior /\ q.read = r.read /\ q \in ConnState
    BY <1>16, MarkClosingFields
  <2>2. \A d \in Conns : d # c => conn'[d] = conn[d]
    BY <2>1, OnlyOne
  <2>3. \A d \in Conns : LET r == conn[d]  q == conn'[d] IN
         /\ q.pc = r.pc /\ q.from = r.from /\ q.cursor = r.cursor /\ q.flushed = r.flushed
         /\ q.out = r.out /\ q.prior = r.prior /\ q.read = r.read
    BY <2>1, <2>2
  <2> QED
    BY <2>1, <2>3, SameTurns DEF Calm
<1>17. ASSUME NEW c \in Conns, Teardown(c) PROVE TakeTurns'
  <2> SUFFICES ASSUME Calm' PROVE TakeTurns'
    BY DEF TakeTurns
  <2>0. faults' = 0
    BY DEF Calm
  <2> DEFINE r == conn[c]
             q == conn'[c]
  <2>1. /\ Only(c) /\ q \in ConnState /\ r.pc = "live" /\ UNCHANGED overlapped /\ Counted
        /\ seen' = IF r.cursor > r.flushed THEN r.cursor ELSE seen
        /\ seen' \in 0..globalEid /\ q = Closed(r)
    BY <1>17, <2>0, TeardownFields
  <2>2. /\ q.pc = "gone" /\ q.prior = r.prior /\ q.read = r.read /\ q.from = r.from /\ q.out = r.out
    BY <1>1, <2>1, ClosedFields
  <2>3. r.pc \in Subscribed /\ r.pc \in Reading
    BY <2>1 DEF Subscribed, Reading
  <2>4. ASSUME Calm PROVE seen' >= seen /\ Following(c)'
    <3>1. /\ r.from <= seen /\ seen <= r.cursor /\ r.flushed <= r.cursor
          /\ r.flushed # 0 => r.flushed = seen
      BY <2>3, <2>4 DEF TakeTurns, Following
    <3>2. r.from \in Nat /\ r.cursor \in Nat /\ r.flushed \in Nat
      BY <1>1 DEF ConnState
    <3>3. seen' >= seen /\ (seen' = r.cursor \/ r.cursor = 0)
      <4>1. CASE r.cursor > r.flushed
        BY <1>1, <2>1, <3>1, <3>2, <4>1
      <4>2. CASE ~(r.cursor > r.flushed)
        <5>1. r.cursor = r.flushed /\ seen' = seen
          BY <2>1, <3>1, <3>2, <4>2
        <5> QED
          BY <1>1, <3>1, <3>2, <5>1
      <4> QED
        BY <4>1, <4>2
    <3>4. ASSUME NEW i \in DOMAIN r.out
          PROVE  r.out[i].eid <= seen' \/ Spared(r, r.out[i])
      <4>1. r.out[i].eid <= r.cursor \/ Spared(r, r.out[i])
        BY <2>1 DEF Sendings, Sending
      <4>2. r.out[i].eid \in Nat /\ r.out[i].eid > 0
        BY LineType DEF Numbered
      <4> QED
        BY <3>2, <3>3, <4>1, <4>2
    <3>5. r.from <= seen'
      <4>1. seen' \in Nat
        BY <2>1
      <4> QED
        BY <1>1, <3>1, <3>2, <3>3, <4>1
    <3> QED
      BY <2>2, <3>3, <3>4, <3>5 DEF Following, Spared, Reading
  <2> QED
    BY <2>1, <2>2, <2>3, <2>4, TurnStep DEF Calm, Counted
<1>18. CASE UNCHANGED vars
  BY <1>2, <1>18 DEF vars, Calm
<1> QED
  BY <1>3, <1>4, <1>5, <1>6, <1>7, <1>8, <1>10, <1>11, <1>12, <1>13, <1>14, <1>15, <1>16, <1>17, <1>18
     DEF Next, Publishing, Attachment

LEMMA TurnsBegin ==
  ASSUME Init
  PROVE  Resumings /\ TakeTurns
<1>1. \A c \in Conns : conn[c] = Fresh
  BY DEF Init
<1>2. seen = 0
  BY DEF Init
<1>3. Resumings
  BY <1>1, FreshFields DEF Resumings, Resuming, Reading
<1>4. TakeTurns
  BY <1>1, <1>2, FreshFields DEF TakeTurns, Following, Above, Reading
<1> QED
  BY <1>3, <1>4

\* While the connections of a client take turns, each resumes above all that
\* the earlier ones sent.
THEOREM TurnsInvariant == Spec => [](TypeInv /\ Shapes /\ Sendings /\ Resumings /\ TakeTurns)
<1>1. Init => Resumings /\ TakeTurns
  BY TurnsBegin
<1>2. TypeInv /\ Shapes /\ Sendings /\ Resumings /\ TakeTurns /\ [Next]_vars
      => (Resumings /\ TakeTurns)'
  BY ResumingsKept, TakeTurnsKept
<1> QED
  BY <1>1, <1>2, PlaybackInvariant, PTL DEF Spec

LEMMA TurnsHeardOnce ==
  ASSUME TypeInv, Shapes, Resumings, TakeTurns
  PROVE  HeardOnce
<1> SUFFICES ASSUME NEW c \in Conns, NEW d \in Conns, c < d, ~overlapped, faults = 0,
                    NEW l \in ToSet(conn[c].out), NEW k \in ToSet(conn[d].out),
                    l.eid = k.eid \/ (k.via = "history" /\ msg[l.eid] = msg[k.eid])
             PROVE  \/ l.via = "history" /\ ~conn[c].prior /\ l.eid > conn[c].read
                    \/ l.eid # k.eid /\ conn[d].from \in stored /\ IsCopy(conn[d].from)
  BY DEF HeardOnce
<1>1. PICK i \in DOMAIN conn[c].out : l = conn[c].out[i]
  BY DEF ToSet
<1>2. PICK j \in DOMAIN conn[d].out : k = conn[d].out[j]
  BY DEF ToSet
<1>3. /\ l.eid \in Numbered /\ l.eid \in Int /\ l.eid >= 1 /\ k.eid \in Numbered /\ k.eid \in Int
      /\ conn[d].from \in Int
  BY <1>1, <1>2, LineType DEF Numbered
<1>4. conn[d].pc \in Reading \cup {"gone"}
  <2>1. conn[d].out # <<>>
    BY <1>2
  <2>2. conn[d].pc \notin Before
    BY <2>1 DEF Shapes, Shaped
  <2>3. conn[d].pc \in Phases
    BY DEF TypeInv, ConnState
  <2> QED
    BY <2>2, <2>3 DEF Before, Phases, Subscribed, Attaching, Reading
<1>5. l.eid <= conn[d].from \/ Spared(conn[c], l)
  BY <1>1, <1>4 DEF TakeTurns, Above, Calm
<1>6. CASE Spared(conn[c], l)
  BY <1>6 DEF Spared
<1>7. CASE l.eid <= conn[d].from
  <2>1. conn[d].prior
    BY <1>3, <1>7 DEF Resumings, Resuming
  <2>2. k.eid > conn[d].from /\ (k.via = "history" => Newer(conn[d], k.eid))
    BY <1>2, <2>1 DEF Resumings, Resuming
  <2>3. l.eid # k.eid
    BY <1>3, <1>7, <2>2
  <2>4. msg[l.eid] = msg[k.eid] /\ Newer(conn[d], k.eid)
    BY <2>2, <2>3
  <2>5. msg[l.eid] \in Int /\ msg[l.eid] <= l.eid
    <3>1. l.eid \in Eids
      <4>1. l.eid \in 1..globalEid /\ globalEid \in 0..MaxEid /\ MaxEid \in Nat
        BY <1>3, BouncerPlaybackAssumption DEF TypeInv, Numbered
      <4> HIDE DEF Eids
      <4>2. l.eid \in 1..MaxEid
        BY <4>1
      <4> QED
        BY <4>2 DEF Eids
    <3>2. msg[l.eid] \in 0..MaxEid /\ msg[l.eid] <= l.eid
      BY <3>1 DEF TypeInv
    <3> QED
      BY <3>2, BouncerPlaybackAssumption
  <2>6. CASE ~IsCopy(k.eid)
    BY <1>3, <1>7, <2>2, <2>4, <2>5, <2>6 DEF IsCopy
  <2>7. CASE IsCopy(k.eid)
    <3>1. conn[d].from \in stored /\ msg[k.eid] > msg[conn[d].from]
      BY <2>4, <2>7 DEF Newer
    <3>2. CASE ~IsCopy(conn[d].from)
      BY <1>3, <1>7, <2>4, <2>5, <3>1, <3>2 DEF IsCopy
    <3> QED
      BY <2>3, <3>1, <3>2
  <2> QED
    BY <2>6, <2>7
<1> QED
  BY <1>5, <1>6, <1>7

\* A later connection of the client does not hear again what an earlier one
\* heard, as long as the connections take turns and nothing fails (fetchMissed,
\* filterMissedRows: the cursor and the time it stands for).
THEOREM NothingHeardTwice == Spec => []HeardOnce
BY TurnsHeardOnce, TurnsInvariant, PTL

-----------------------------------------------------------------------------
(* Events come to a connection in order, those that are excused aside. *)

Rising(s, X) == \A i, j \in DOMAIN s : i < j => s[j] \in X \/ s[i] < s[j]

Below(s, t, X) == \A i \in DOMAIN s : \A j \in DOMAIN t : t[j] \in X \/ s[i] < t[j]

Ordered(c) ==
  LET r == conn[c] IN
  /\ Rising(r.parked, excused) /\ Rising(r.inbox, excused)
  /\ Below(r.parked, r.inbox, excused)

Orders == \A c \in Conns : Ordered(c)

\* The elements of the sequences that a step makes of others.
LEMMA AppendElements ==
  ASSUME NEW S, NEW s \in Seq(S), NEW e \in S
  PROVE  /\ Len(s) \in Nat /\ DOMAIN s = 1..Len(s)
         /\ DOMAIN Append(s, e) = 1..(Len(s) + 1)
         /\ \A i \in DOMAIN s : i \in DOMAIN Append(s, e) /\ Append(s, e)[i] = s[i]
         /\ Append(s, e)[Len(s) + 1] = e
         /\ \A i \in DOMAIN Append(s, e) : i \in DOMAIN s \/ i = Len(s) + 1
OBVIOUS

LEMMA TailElements ==
  ASSUME NEW S, NEW s \in Seq(S), s # <<>>
  PROVE  /\ 1 \in DOMAIN s /\ Head(s) = s[1] /\ Head(s) \in S /\ DOMAIN s \subseteq Nat
         /\ \A i \in DOMAIN Tail(s) : i \in Nat /\ i + 1 \in DOMAIN s /\ Tail(s)[i] = s[i + 1]
         /\ \A i \in DOMAIN s : i # 1 => i - 1 \in DOMAIN Tail(s) /\ Tail(s)[i - 1] = s[i]
<1>1. Len(s) \in Nat /\ DOMAIN s = 1..Len(s) /\ Len(s) >= 1
  OBVIOUS
<1>2. Tail(s) \in Seq(S) /\ Len(Tail(s)) = Len(s) - 1 /\ \A i \in 1..(Len(s) - 1) : Tail(s)[i] = s[i + 1]
  OBVIOUS
<1>3. DOMAIN Tail(s) = 1..(Len(s) - 1)
  BY <1>1, <1>2
<1>4. Head(s) = s[1] /\ Head(s) \in S
  OBVIOUS
<1> QED
  BY <1>1, <1>2, <1>3, <1>4

LEMMA RestElements ==
  ASSUME NEW S, NEW s \in Seq(S), NEW k \in DOMAIN s
  PROVE  LET t == SubSeq(s, k + 1, Len(s)) IN
         /\ k \in Nat /\ DOMAIN s = 1..Len(s) /\ Len(s) \in Nat
         /\ \A i \in DOMAIN t : i \in Nat /\ i + k \in DOMAIN s /\ t[i] = s[i + k]
         /\ \A i \in DOMAIN s : i > k => i - k \in DOMAIN t /\ t[i - k] = s[i]
<1> DEFINE t == SubSeq(s, k + 1, Len(s))
<1>1. Len(s) \in Nat /\ DOMAIN s = 1..Len(s) /\ k \in Nat /\ k >= 1 /\ k <= Len(s)
  OBVIOUS
<1>2. t \in Seq(S)
  BY <1>1
<1>3. Len(t) = Len(s) - k
  <2>1. Len(t) = IF k + 1 <= Len(s) THEN Len(s) - (k + 1) + 1 ELSE 0
    BY <1>1
  <2> QED
    BY <1>1, <2>1
<1>4. \A i \in 1..(Len(s) - k) : t[i] = s[i + k]
  <2>1. \A i \in 1..(Len(s) - k) : t[i] = s[(k + 1) + i - 1]
    BY <1>1
  <2> QED
    BY <1>1, <2>1
<1>5. DOMAIN t = 1..(Len(s) - k)
  BY <1>2, <1>3
<1> HIDE DEF t
<1>6. \A i \in DOMAIN s : i > k => i - k \in DOMAIN t /\ t[i - k] = s[i]
  <2> SUFFICES ASSUME NEW i \in DOMAIN s, i > k
               PROVE  i - k \in DOMAIN t /\ t[i - k] = s[i]
    OBVIOUS
  <2>1. i - k \in 1..(Len(s) - k) /\ (i - k) + k = i
    BY <1>1
  <2> QED
    BY <1>4, <1>5, <2>1
<1>7. \A i \in DOMAIN t : i \in Nat /\ i + k \in DOMAIN s /\ t[i] = s[i + k]
  BY <1>1, <1>4, <1>5
<1> QED
  BY <1>1, <1>6, <1>7 DEF t

LEMMA RisingKept ==
  ASSUME NEW s \in Seq(Numbered), NEW X, NEW Y, X \subseteq Y, Rising(s, X)
  PROVE  /\ Rising(s, Y)
         /\ s # <<>> => Rising(Tail(s), Y)
         /\ \A k \in DOMAIN s : Rising(SubSeq(s, k + 1, Len(s)), Y)
         /\ \A e \in Numbered : (\A i \in DOMAIN s : e \in Y \/ s[i] < e) => Rising(Append(s, e), Y)
<1>1. Rising(s, Y)
  BY DEF Rising
<1>2. ASSUME s # <<>> PROVE Rising(Tail(s), Y)
  <2>1. \A i, j \in DOMAIN Tail(s) : i < j => /\ i + 1 \in DOMAIN s /\ j + 1 \in DOMAIN s
                                              /\ i + 1 < j + 1
                                              /\ Tail(s)[i] = s[i + 1] /\ Tail(s)[j] = s[j + 1]
    BY <1>2, TailElements
  <2> QED
    BY <1>1, <2>1 DEF Rising
<1>3. ASSUME NEW k \in DOMAIN s PROVE Rising(SubSeq(s, k + 1, Len(s)), Y)
  <2> DEFINE t == SubSeq(s, k + 1, Len(s))
  <2>1. \A i, j \in DOMAIN t : i < j => /\ i + k \in DOMAIN s /\ j + k \in DOMAIN s
                                        /\ i + k < j + k
                                        /\ t[i] = s[i + k] /\ t[j] = s[j + k]
    <3>1. \A i \in DOMAIN t : i \in Nat /\ i + k \in DOMAIN s /\ t[i] = s[i + k]
      BY RestElements
    <3>2. k \in Nat
      BY RestElements
    <3> HIDE DEF t
    <3> QED
      BY <3>1, <3>2
  <2> HIDE DEF t
  <2>2. Rising(t, Y)
    BY <1>1, <2>1 DEF Rising
  <2> QED
    BY <2>2 DEF t
<1>4. ASSUME NEW e \in Numbered, \A i \in DOMAIN s : e \in Y \/ s[i] < e
      PROVE  Rising(Append(s, e), Y)
  <2> SUFFICES ASSUME NEW i \in DOMAIN Append(s, e), NEW j \in DOMAIN Append(s, e), i < j
               PROVE  Append(s, e)[j] \in Y \/ Append(s, e)[i] < Append(s, e)[j]
    BY DEF Rising
  <2>1. /\ i \in DOMAIN s \/ i = Len(s) + 1
        /\ j \in DOMAIN s \/ j = Len(s) + 1
        /\ i \in Int /\ j \in Int /\ Len(s) \in Nat /\ j <= Len(s) + 1
    BY AppendElements
  <2>2. i \in DOMAIN s /\ Append(s, e)[i] = s[i]
    BY <2>1, AppendElements
  <2>3. CASE j \in DOMAIN s
    BY <1>1, <2>2, <2>3, AppendElements DEF Rising
  <2>4. CASE j = Len(s) + 1
    BY <1>4, <2>2, <2>4, AppendElements
  <2> QED
    BY <2>1, <2>3, <2>4
<1> QED
  BY <1>1, <1>2, <1>3, <1>4

LEMMA BelowKept ==
  ASSUME NEW s \in Seq(Numbered), NEW t \in Seq(Numbered), NEW X, NEW Y, X \subseteq Y, Below(s, t, X)
  PROVE  /\ Below(s, t, Y)
         /\ t # <<>> => Below(s, Tail(t), Y)
         /\ \A k \in DOMAIN s : Below(SubSeq(s, k + 1, Len(s)), t, Y)
         /\ \A e \in Numbered : (\A i \in DOMAIN s : e \in Y \/ s[i] < e) => Below(s, Append(t, e), Y)
<1>1. Below(s, t, Y)
  BY DEF Below
<1>2. ASSUME t # <<>> PROVE Below(s, Tail(t), Y)
  <2>1. \A j \in DOMAIN Tail(t) : j + 1 \in DOMAIN t /\ Tail(t)[j] = t[j + 1]
    BY <1>2, TailElements
  <2> QED
    BY <1>1, <2>1 DEF Below
<1>3. ASSUME NEW k \in DOMAIN s PROVE Below(SubSeq(s, k + 1, Len(s)), t, Y)
  <2> DEFINE u == SubSeq(s, k + 1, Len(s))
  <2>1. \A i \in DOMAIN u : i + k \in DOMAIN s /\ u[i] = s[i + k]
    BY RestElements
  <2> HIDE DEF u
  <2>2. Below(u, t, Y)
    BY <1>1, <2>1 DEF Below
  <2> QED
    BY <2>2 DEF u
<1>4. ASSUME NEW e \in Numbered, \A i \in DOMAIN s : e \in Y \/ s[i] < e
      PROVE  Below(s, Append(t, e), Y)
  <2>1. \A j \in DOMAIN Append(t, e) :
          \/ j \in DOMAIN t /\ Append(t, e)[j] = t[j]
          \/ Append(t, e)[j] = e
    BY AppendElements
  <2> QED
    BY <1>1, <1>4, <2>1 DEF Below
<1> QED
  BY <1>1, <1>2, <1>3, <1>4

\* The head of the inbox moves to the end of the park.
LEMMA ParkOrder ==
  ASSUME NEW s \in Seq(Numbered), NEW t \in Seq(Numbered), NEW X, t # <<>>,
         Rising(s, X), Rising(t, X), Below(s, t, X)
  PROVE  /\ Rising(Append(s, Head(t)), X) /\ Rising(Tail(t), X)
         /\ Below(Append(s, Head(t)), Tail(t), X)
<1> DEFINE e == Head(t)
<1>1. /\ 1 \in DOMAIN t /\ e = t[1] /\ e \in Numbered
      /\ \A i \in DOMAIN Tail(t) : i \in Nat /\ i + 1 \in DOMAIN t /\ Tail(t)[i] = t[i + 1]
  BY TailElements
<1>2. DOMAIN Tail(t) \subseteq Nat \ {0}
  <2>1. Tail(t) \in Seq(Numbered)
    OBVIOUS
  <2>2. DOMAIN Tail(t) = 1..Len(Tail(t))
    BY <2>1
  <2> QED
    BY <2>2
<1>3. \A i \in DOMAIN s : e \in X \/ s[i] < e
  BY <1>1 DEF Below
<1>4. Rising(Append(s, e), X) /\ Rising(Tail(t), X) /\ Below(s, Tail(t), X)
  BY <1>1, <1>3, RisingKept, BelowKept
<1>5. \A j \in DOMAIN Tail(t) : Tail(t)[j] \in X \/ e < Tail(t)[j]
  <2> SUFFICES ASSUME NEW j \in DOMAIN Tail(t) PROVE Tail(t)[j] \in X \/ e < Tail(t)[j]
    OBVIOUS
  <2>1. 1 < j + 1
    BY <1>2
  <2> QED
    BY <1>1, <2>1 DEF Rising
<1>6. \A i \in DOMAIN Append(s, e) :
        \/ i \in DOMAIN s /\ Append(s, e)[i] = s[i]
        \/ Append(s, e)[i] = e
  BY <1>1, AppendElements
<1>7. Below(Append(s, e), Tail(t), X)
  BY <1>4, <1>5, <1>6 DEF Below
<1> QED
  BY <1>4, <1>7

LEMMA SameOrder ==
  ASSUME NEW c \in Conns, Ordered(c), excused \subseteq excused',
         conn'[c].inbox = conn[c].inbox, conn'[c].parked = conn[c].parked
  PROVE  Ordered(c)'
<1>1. Rising(conn[c].parked, excused') /\ Rising(conn[c].inbox, excused')
  BY DEF Ordered, Rising
<1>2. Below(conn[c].parked, conn[c].inbox, excused')
  BY DEF Ordered, Below
<1> QED
  BY <1>1, <1>2 DEF Ordered, Rising, Below

Contents(r) == ToSet(r.inbox) \cup ToSet(r.parked)

\* An event in flight that nothing has overtaken is above all that connections
\* hold, and until it is stored above all that is stored and every cursor.
Leads(e) ==
  /\ \A c \in Conns : \A x \in Contents(conn[c]) : x < e
  /\ e \notin stored => /\ e > seen /\ \A x \in stored : x < e
                        /\ \A c \in Conns : e > conn[c].cursor /\ e > conn[c].read

Flights == \A e \in InFlight \ excused : Leads(e)

LEMMA ContentsType ==
  ASSUME TypeInv, NEW c \in Conns
  PROVE  /\ conn[c].inbox \in Seq(Numbered) /\ conn[c].parked \in Seq(Numbered)
         /\ \A i \in DOMAIN conn[c].inbox : conn[c].inbox[i] \in Contents(conn[c]) \cap Numbered
         /\ \A i \in DOMAIN conn[c].parked : conn[c].parked[i] \in Contents(conn[c]) \cap Numbered
         /\ Contents(conn[c]) \subseteq Numbered
<1>1. conn[c] \in ConnState
  BY DEF TypeInv
<1>2. conn[c].inbox \in Seq(Numbered) /\ conn[c].parked \in Seq(Numbered)
  BY <1>1 DEF ConnState
<1>3. /\ \A i \in DOMAIN conn[c].inbox : conn[c].inbox[i] \in Numbered
      /\ \A i \in DOMAIN conn[c].parked : conn[c].parked[i] \in Numbered
  BY <1>2
<1> QED
  BY <1>2, <1>3 DEF Contents, ToSet

\* What a step of one connection leaves alone, when it only reads the feed.
Moves(c) ==
  LET r == conn[c]  q == conn'[c] IN
  /\ Only(c) /\ q \in ConnState /\ UNCHANGED feed
  /\ q.read = r.read /\ excused \subseteq excused' /\ Contents(q) \subseteq Contents(r)
  /\ q.cursor \in {0, r.cursor, r.read, seen} \cup stored \cup Contents(r)
  /\ seen' \in {seen, r.cursor, q.cursor}

\* The steps at the start and the end of a connection touch neither inbox nor park.
LEMMA EndsMove ==
  ASSUME TypeInv, Shapes, NEW c \in Conns,
         Attach(c) \/ ReadSeen(c) \/ Fetch(c) \/ FetchFails(c) \/ FetchPlayback(c)
         \/ SendHistory(c) \/ MarkClosing(c) \/ Teardown(c)
  PROVE  Moves(c) /\ (Ordered(c) => Ordered(c)')
<1> DEFINE r == conn[c]
           q == conn'[c]
<1>0. ASSUME Only(c), q \in ConnState, UNCHANGED feed, q.inbox = r.inbox, q.parked = r.parked,
             q.read = r.read, excused \subseteq excused', seen' \in {seen, r.cursor, q.cursor},
             q.cursor \in {0, r.cursor, r.read, seen} \cup stored
      PROVE  Moves(c) /\ (Ordered(c) => Ordered(c)')
  <2>1. Contents(q) = Contents(r)
    BY <1>0 DEF Contents
  <2>2. Ordered(c) => Ordered(c)'
    BY <1>0, SameOrder
  <2> QED
    BY <1>0, <2>1, <2>2 DEF Moves
<1>1. CASE Attach(c)
  BY <1>0, <1>1, AttachFields
<1>2. CASE ReadSeen(c)
  BY <1>0, <1>2, ReadSeenFields
<1>3. CASE Fetch(c)
  <2>1. r.from = r.cursor
    BY <1>3 DEF Shapes, Shaped, Fetch
  <2> QED
    BY <1>0, <1>3, <2>1, FetchFields DEF Replays
<1>4. CASE FetchFails(c)
  BY <1>0, <1>4, FetchFailsFields
<1>5. CASE FetchPlayback(c)
  BY <1>0, <1>5, FetchPlaybackFields DEF Replays
<1>6. CASE SendHistory(c)
  BY <1>0, <1>6, SendHistoryFields
<1>7. CASE MarkClosing(c)
  BY <1>0, <1>7, MarkClosingFields
<1>8. CASE Teardown(c)
  <2>1. /\ Only(c) /\ q \in ConnState /\ q = Closed(r) /\ UNCHANGED <<feed, excused>>
        /\ seen' \in {seen, r.cursor}
    BY <1>8, TeardownFields
  <2>2. q.inbox = <<>> /\ q.parked = <<>> /\ q.cursor = 0 /\ q.read = r.read
    BY <2>1, ClosedFields DEF TypeInv
  <2>3. Contents(q) = {}
    BY <2>2 DEF Contents, ToSet
  <2>4. Ordered(c)'
    BY <2>2 DEF Ordered, Rising, Below
  <2> QED
    BY <2>1, <2>2, <2>3, <2>4 DEF Moves
<1> QED
  BY <1>1, <1>2, <1>3, <1>4, <1>5, <1>6, <1>7, <1>8

LEMMA AttachedMoves ==
  ASSUME TypeInv, NEW c \in Conns, Attached(c)
  PROVE  Moves(c) /\ (Ordered(c) => Ordered(c)')
<1> DEFINE r == conn[c]
           q == conn'[c]
<1>1. /\ Only(c) /\ q \in ConnState /\ Kept(r, q) /\ UNCHANGED <<feed, excused>>
      /\ q.inbox = r.inbox /\ q.parked = <<>> /\ q.cursor = r.cursor /\ q.read = r.read
  BY AttachedFields
<1>2. Contents(q) \subseteq Contents(r)
  BY <1>1 DEF Contents, ToSet
<1>3. Moves(c)
  BY <1>1, <1>2 DEF Moves, Kept
<1>4. Ordered(c) => Ordered(c)'
  BY <1>1 DEF Ordered, Rising, Below
<1> QED
  BY <1>3, <1>4

LEMMA DeliverParkedMoves ==
  ASSUME TypeInv, NEW c \in Conns, DeliverParked(c)
  PROVE  Moves(c) /\ (Ordered(c) => Ordered(c)')
<1> DEFINE r == conn[c]
           q == conn'[c]
<1>1. /\ Only(c) /\ q \in ConnState /\ Kept(r, q) /\ UNCHANGED feed
      /\ q.inbox = r.inbox /\ q.read = r.read
  BY DeliverParkedFields
<1>2. PICK k \in DOMAIN r.parked :
        /\ q.cursor = r.parked[k]
        /\ q.parked = SubSeq(r.parked, k + 1, Len(r.parked))
        /\ excused' = excused \cup (IF r.closing THEN {r.parked[k]} ELSE {})
  BY DeliverParkedFields
<1>3. r.inbox \in Seq(Numbered) /\ r.parked \in Seq(Numbered)
  BY ContentsType
<1>4. \A i \in DOMAIN q.parked : \E j \in DOMAIN r.parked : q.parked[i] = r.parked[j]
  <2> DEFINE s == r.parked
             t == SubSeq(s, k + 1, Len(s))
  <2>1. \A i \in DOMAIN t : i + k \in DOMAIN s /\ t[i] = s[i + k]
    BY <1>3, RestElements
  <2>2. q.parked = t
    BY <1>2
  <2> HIDE DEF t
  <2> QED
    BY <2>1, <2>2
<1>5. Contents(q) \subseteq Contents(r) /\ q.cursor \in Contents(r)
  BY <1>1, <1>2, <1>4 DEF Contents, ToSet
<1>6. excused \subseteq excused'
  BY <1>2
<1>7. Moves(c)
  BY <1>1, <1>5, <1>6 DEF Moves, Kept
<1>8. ASSUME Ordered(c) PROVE Ordered(c)'
  <2>1. Rising(r.parked, excused) /\ Rising(r.inbox, excused) /\ Below(r.parked, r.inbox, excused)
    BY <1>8 DEF Ordered
  <2>2. Rising(q.parked, excused')
    <3>1. Rising(SubSeq(r.parked, k + 1, Len(r.parked)), excused')
      <4> DEFINE X == excused
                 Y == excused'
                 s == r.parked
      <4>1. s \in Seq(Numbered) /\ X \subseteq Y /\ Rising(s, X) /\ k \in DOMAIN s
        BY <1>2, <1>3, <1>6, <2>1
      <4> HIDE DEF X, Y, s
      <4>2. Rising(SubSeq(s, k + 1, Len(s)), Y)
        BY <4>1, RisingKept
      <4> QED
        BY <4>2 DEF X, Y, s
    <3> QED
      BY <1>2, <3>1
  <2>3. Rising(q.inbox, excused')
    BY <1>1, <1>3, <1>6, <2>1, RisingKept
  <2>4. Below(q.parked, q.inbox, excused')
    <3>1. Below(SubSeq(r.parked, k + 1, Len(r.parked)), r.inbox, excused')
      <4> DEFINE X == excused
                 Y == excused'
                 s == r.parked
                 t == r.inbox
      <4>1. /\ s \in Seq(Numbered) /\ t \in Seq(Numbered) /\ X \subseteq Y /\ Below(s, t, X)
            /\ k \in DOMAIN s
        BY <1>2, <1>3, <1>6, <2>1
      <4> HIDE DEF X, Y, s, t
      <4>2. Below(SubSeq(s, k + 1, Len(s)), t, Y)
        BY <4>1, BelowKept
      <4> QED
        BY <4>2 DEF X, Y, s, t
    <3> QED
      BY <1>1, <1>2, <3>1
  <2> QED
    BY <2>2, <2>3, <2>4 DEF Ordered, Rising, Below
<1> QED
  BY <1>7, <1>8

LEMMA OnMessageMoves ==
  ASSUME TypeInv, NEW c \in Conns, OnMessage(c)
  PROVE  Moves(c) /\ (Ordered(c) => Ordered(c)')
<1> DEFINE r == conn[c]
           q == conn'[c]
           e == Head(r.inbox)
<1>1. /\ Only(c) /\ q \in ConnState /\ UNCHANGED feed
      /\ r.inbox # <<>> /\ q.inbox = Tail(r.inbox) /\ q.read = r.read
      /\ excused \subseteq excused'
      /\ q.cursor = r.cursor \/ q.cursor = e
      /\ seen' \in {seen, q.cursor}
      /\ q.parked = r.parked \/ (q.parked = Append(r.parked, e) /\ excused' = excused)
  BY OnMessageFields DEF Kept
<1>2. r.inbox \in Seq(Numbered) /\ r.parked \in Seq(Numbered)
  BY ContentsType
<1>3. /\ \A i \in DOMAIN q.inbox : i + 1 \in DOMAIN r.inbox /\ q.inbox[i] = r.inbox[i + 1]
      /\ e \in Numbered /\ 1 \in DOMAIN r.inbox /\ e = r.inbox[1]
  BY <1>1, <1>2, TailElements
<1>4. \A i \in DOMAIN q.parked : q.parked[i] = e \/ (i \in DOMAIN r.parked /\ q.parked[i] = r.parked[i])
  BY <1>1, <1>2, <1>3, AppendElements
<1>5. Contents(q) \subseteq Contents(r) /\ e \in Contents(r)
  <2> HIDE DEF e
  <2>1. e \in ToSet(r.inbox)
    BY <1>3 DEF ToSet
  <2>2. ToSet(q.inbox) \subseteq ToSet(r.inbox)
    BY <1>3 DEF ToSet
  <2>3. ToSet(q.parked) \subseteq ToSet(r.parked) \cup {e}
    BY <1>4 DEF ToSet
  <2> QED
    BY <2>1, <2>2, <2>3 DEF Contents
<1>6. Moves(c)
  BY <1>1, <1>5 DEF Moves
<1>7. ASSUME Ordered(c) PROVE Ordered(c)'
  <2>1. Rising(r.parked, excused) /\ Rising(r.inbox, excused) /\ Below(r.parked, r.inbox, excused)
    BY <1>7 DEF Ordered
  <2>2. CASE q.parked = r.parked
    <3>1. /\ Rising(r.parked, excused') /\ Rising(Tail(r.inbox), excused')
          /\ Below(r.parked, Tail(r.inbox), excused')
      <4> DEFINE X == excused
                 Y == excused'
                 s == r.parked
                 t == r.inbox
      <4>1. /\ s \in Seq(Numbered) /\ t \in Seq(Numbered) /\ t # <<>> /\ X \subseteq Y
            /\ Rising(s, X) /\ Rising(t, X) /\ Below(s, t, X)
        BY <1>1, <1>2, <2>1
      <4> HIDE DEF X, Y, s, t
      <4>2. Rising(s, Y) /\ Rising(Tail(t), Y) /\ Below(s, Tail(t), Y)
        BY <4>1, RisingKept, BelowKept
      <4> QED
        BY <4>2 DEF X, Y, s, t
    <3> QED
      BY <1>1, <2>2, <3>1 DEF Ordered, Rising, Below
  <2>3. CASE q.parked = Append(r.parked, e) /\ excused' = excused
    <3>1. Rising(q.parked, excused) /\ Rising(q.inbox, excused) /\ Below(q.parked, q.inbox, excused)
      BY <1>1, <1>2, <2>1, <2>3, ParkOrder
    <3> QED
      BY <2>3, <3>1 DEF Ordered, Rising, Below
  <2> QED
    BY <1>1, <2>2, <2>3
<1> QED
  BY <1>6, <1>7

\* ReadGlobalEid apart, which reads the counter and excuses what is in flight.
LEMMA ConnMoves ==
  ASSUME TypeInv, Shapes, NEW c \in Conns,
         Attach(c) \/ Attachment(c) \/ FetchFails(c) \/ OnMessage(c) \/ MarkClosing(c)
  PROVE  ReadGlobalEid(c) \/ (Moves(c) /\ (Ordered(c) => Ordered(c)'))
BY EndsMove, AttachedMoves, DeliverParkedMoves, OnMessageMoves DEF Attachment

LEMMA MoveOrders ==
  ASSUME TypeInv, Orders, NEW c \in Conns, Only(c), conn'[c] \in ConnState,
         excused \subseteq excused', Ordered(c)'
  PROVE  Orders'
<1> SUFFICES ASSUME NEW d \in Conns PROVE Ordered(d)'
  BY DEF Orders
<1>1. CASE d = c
  BY <1>1
<1>2. CASE d # c
  BY <1>2, OnlyOne, SameOrder DEF Orders
<1> QED
  BY <1>1, <1>2

LEMMA PublishOrders ==
  ASSUME TypeInv, Orders, Flights, NEW p \in Pubs, Publish(p)
  PROVE  Orders'
<1> SUFFICES ASSUME NEW c \in Conns PROVE Ordered(c)'
  BY DEF Orders
<1> DEFINE e == pub[p]
           r == conn[c]
           q == conn'[c]
           s == r.parked
           t == r.inbox
           X == excused
           Y == excused'
<1>1. /\ e \in Numbered /\ Y = X \cup {x \in InFlight : x < e}
      /\ q.inbox = IF r.pc \in Subscribed THEN Append(t, e) ELSE t
      /\ q.parked = s
  BY PublishFields
<1>2. e \in InFlight
  BY <1>1 DEF InFlight, Numbered
<1>3. /\ s \in Seq(Numbered) /\ t \in Seq(Numbered)
      /\ Rising(s, X) /\ Rising(t, X) /\ Below(s, t, X)
  BY ContentsType DEF Orders, Ordered
<1>4. /\ \A i \in DOMAIN t : e \in X \/ t[i] < e
      /\ \A i \in DOMAIN s : e \in X \/ s[i] < e
  BY <1>2, ContentsType DEF Flights, Leads
<1>5. X \subseteq Y
  BY <1>1
<1> HIDE DEF e, s, t, X, Y
<1>6. Rising(s, Y) /\ Rising(t, Y) /\ Below(s, t, Y)
  BY <1>3, <1>5, RisingKept, BelowKept
<1>7. (\A i \in DOMAIN t : e \in Y \/ t[i] < e) /\ (\A i \in DOMAIN s : e \in Y \/ s[i] < e)
  BY <1>4, <1>5
<1>8. Rising(Append(t, e), Y)
  BY <1>1, <1>3, <1>5, <1>7, RisingKept
<1>9. Below(s, Append(t, e), Y)
  BY <1>1, <1>3, <1>5, <1>7, BelowKept
<1>10. Rising(q.parked, Y) /\ Rising(q.inbox, Y) /\ Below(q.parked, q.inbox, Y)
  BY <1>1, <1>6, <1>8, <1>9
<1> QED
  BY <1>10 DEF Y, Ordered, Rising, Below

LEMMA OrdersKept ==
  ASSUME TypeInv, Shapes, Orders, Flights, [Next]_vars
  PROVE  Orders'
<1>1. ASSUME excused \subseteq excused',
             \A c \in Conns : conn'[c].inbox = conn[c].inbox /\ conn'[c].parked = conn[c].parked
      PROVE  Orders'
  BY <1>1, SameOrder DEF Orders
<1>2. CASE NumberElsewhere
  BY <1>1, <1>2 DEF NumberElsewhere
<1>3. ASSUME NEW p \in Pubs, Number(p) \/ Store(p) \/ Publish(p) PROVE Orders'
  <2>1. CASE Number(p)
    BY <1>1, <2>1 DEF Number
  <2>2. CASE Store(p)
    BY <1>1, <2>2 DEF Store
  <2> QED
    BY <1>3, <2>1, <2>2, PublishOrders
<1>4. CASE Crash
  <2> SUFFICES ASSUME NEW c \in Conns PROVE Ordered(c)'
    BY DEF Orders
  <2>1. conn'[c] = (IF conn[c].pc \in Subscribed THEN Closed(conn[c]) ELSE conn[c]) /\ excused' = excused
    BY <1>4, CrashFields
  <2>2. CASE conn[c].pc \in Subscribed
    <3>1. conn'[c].inbox = <<>> /\ conn'[c].parked = <<>>
      BY <2>1, <2>2, ClosedFields DEF TypeInv
    <3> QED
      BY <3>1 DEF Ordered, Rising, Below
  <2>3. CASE conn[c].pc \notin Subscribed
    BY <2>1, <2>3, SameOrder DEF Orders
  <2> QED
    BY <2>2, <2>3
<1>5. ASSUME NEW c \in Conns,
             Attach(c) \/ Attachment(c) \/ FetchFails(c) \/ OnMessage(c) \/ MarkClosing(c)
      PROVE  Orders'
  <2>1. CASE ReadGlobalEid(c)
    <3>1. /\ Only(c) /\ conn'[c] \in ConnState /\ excused \subseteq excused'
          /\ conn'[c].inbox = conn[c].inbox /\ conn'[c].parked = conn[c].parked
      BY <2>1, ReadGlobalEidFields
    <3> QED
      BY <3>1, SameOrder, MoveOrders DEF Orders
  <2>2. CASE Moves(c) /\ (Ordered(c) => Ordered(c)')
    BY <2>2, MoveOrders DEF Orders, Moves
  <2> QED
    BY <1>5, <2>1, <2>2, ConnMoves
<1>6. CASE UNCHANGED vars
  BY <1>1, <1>6 DEF vars
<1> QED
  BY <1>2, <1>3, <1>4, <1>5, <1>6 DEF Next, Publishing

LEMMA MoveFlights ==
  ASSUME TypeInv, Flights, NEW c \in Conns, Moves(c)
  PROVE  Flights'
<1> DEFINE r == conn[c]
           q == conn'[c]
<1>1. /\ Only(c) /\ q \in ConnState /\ UNCHANGED feed
      /\ q.read = r.read /\ excused \subseteq excused' /\ Contents(q) \subseteq Contents(r)
      /\ q.cursor \in {0, r.cursor, r.read, seen} \cup stored \cup Contents(r)
      /\ seen' \in {seen, r.cursor, q.cursor}
  BY DEF Moves
<1>2. \A d \in Conns : d # c => conn'[d] = conn[d]
  BY <1>1, OnlyOne
<1>3. ASSUME NEW e \in InFlight' \ excused' PROVE Leads(e)'
  <2>1. e \in InFlight \ excused /\ Leads(e)
    BY <1>1, <1>3 DEF InFlight, feed, Flights
  <2>2. e \in Nat /\ e > 0
    BY <2>1, InFlightType DEF Numbered
  <2>3. ASSUME NEW d \in Conns, NEW x \in Contents(conn'[d]) PROVE x < e
    <3>1. x \in Contents(conn[d])
      BY <1>1, <1>2, <2>3
    <3> QED
      BY <2>1, <3>1 DEF Leads
  <2>4. ASSUME e \notin stored'
        PROVE  /\ e > seen' /\ \A x \in stored' : x < e
               /\ \A d \in Conns : e > conn'[d].cursor /\ e > conn'[d].read
    <3>1. e \notin stored /\ stored' = stored
      BY <1>1, <2>4 DEF feed
    <3>2. /\ e > seen /\ \A x \in stored : x < e
          /\ \A d \in Conns : e > conn[d].cursor /\ e > conn[d].read
      BY <2>1, <3>1 DEF Leads
    <3>3. \A x \in Contents(r) : x < e
      BY <2>1 DEF Leads
    <3>4. \A x \in stored \cup Contents(r) : x \in Nat
      BY ContentsType DEF TypeInv, Numbered
    <3>5. e > q.cursor
      BY <1>1, <2>2, <3>2, <3>3, <3>4
    <3>6. e > seen'
      BY <1>1, <3>2, <3>5
    <3> QED
      BY <1>1, <1>2, <3>1, <3>2, <3>5, <3>6
  <2> QED
    BY <2>3, <2>4 DEF Leads, Contents
<1> QED
  BY <1>3 DEF Flights

\* Nothing but what is in flight changes.
LEMMA SameFlights ==
  ASSUME Flights, InFlight' \subseteq InFlight, excused \subseteq excused',
         UNCHANGED <<stored, seen>>,
         \A c \in Conns : /\ Contents(conn'[c]) \subseteq Contents(conn[c])
                          /\ conn'[c].cursor = conn[c].cursor /\ conn'[c].read = conn[c].read
  PROVE  Flights'
<1>1. ASSUME NEW e \in InFlight' \ excused' PROVE Leads(e)'
  <2>1. Leads(e)
    BY <1>1 DEF Flights
  <2> QED
    BY <2>1 DEF Leads, Contents
<1> QED
  BY <1>1 DEF Flights

\* A new event is above all that there is.
LEMMA NumberFlights ==
  ASSUME TypeInv, Flights, NEW p \in Pubs, Number(p)
  PROVE  Flights'
<1>1. /\ globalEid' = globalEid + 1 /\ pub' = [pub EXCEPT ![p] = globalEid']
      /\ UNCHANGED <<stored, seen, conn, excused>>
  BY NumberFields
<1>2. globalEid \in Nat /\ pub \in [Pubs -> 0..globalEid] /\ stored \subseteq Numbered /\ seen \in 0..globalEid
  BY DEF TypeInv
<1>3. ASSUME NEW e \in InFlight' \ excused' PROVE Leads(e)'
  <2>1. PICK q \in Pubs : e = pub'[q] /\ e # 0
    BY DEF InFlight
  <2>2. CASE q # p
    <3>1. e = pub[q]
      BY <1>1, <1>2, <2>1, <2>2
    <3>2. Leads(e)
      BY <1>1, <1>3, <2>1, <3>1 DEF Flights, InFlight
    <3> QED
      BY <1>1, <3>2 DEF Leads, Contents
  <2>3. CASE q = p
    <3>1. e = globalEid + 1
      BY <1>1, <1>2, <2>1, <2>3
    <3>2. \A x \in 0..globalEid : x < e
      BY <1>2, <3>1
    <3>3. \A x \in Numbered : x < e
      BY <1>2, <3>1 DEF Numbered
    <3>4. \A c \in Conns : \A x \in Contents(conn[c]) : x < e
      BY <3>3, ContentsType
    <3>5. \A c \in Conns : conn[c].cursor \in 0..globalEid /\ conn[c].read \in 0..globalEid
      BY DEF TypeInv, ConnState
    <3>6. \A c \in Conns : e > conn[c].cursor /\ e > conn[c].read
      BY <3>2, <3>5
    <3>7. e > seen /\ \A x \in stored : x < e
      BY <1>2, <3>2, <3>3
    <3>8. Leads(e)
      BY <3>4, <3>6, <3>7 DEF Leads
    <3> QED
      BY <1>1, <3>8 DEF Leads, Contents
  <2> QED
    BY <2>2, <2>3
<1> QED
  BY <1>3 DEF Flights

LEMMA StoreFlights ==
  ASSUME TypeInv, Flights, NEW p \in Pubs, Store(p)
  PROVE  Flights'
<1>1. /\ stored' = stored \cup {pub[p]}
      /\ excused' = excused \cup {e \in InFlight \ stored : e < pub[p]}
      /\ UNCHANGED <<pub, seen, conn>>
  BY DEF Store
<1>2. pub[p] \in InFlight
  BY DEF Store, InFlight
<1>3. ASSUME NEW e \in InFlight' \ excused' PROVE Leads(e)'
  <2>1. e \in InFlight \ excused /\ Leads(e)
    BY <1>1, <1>3 DEF InFlight, Flights
  <2>2. ASSUME e \notin stored' PROVE \A x \in stored' : x < e
    <3>1. e \notin stored /\ e # pub[p]
      BY <1>1, <2>2
    <3>2. ~(e < pub[p])
      BY <1>1, <1>3, <2>1, <3>1
    <3>3. e \in Int /\ pub[p] \in Int
      BY <1>2, <2>1, InFlightType DEF Numbered
    <3>4. pub[p] < e
      BY <3>1, <3>2, <3>3
    <3> QED
      BY <1>1, <2>1, <3>1, <3>4 DEF Leads
  <2> QED
    BY <1>1, <2>1, <2>2 DEF Leads, Contents
<1> QED
  BY <1>3 DEF Flights

LEMMA PublishFlights ==
  ASSUME TypeInv, Flights, NEW p \in Pubs, Publish(p)
  PROVE  Flights'
<1>1. /\ pub[p] \in Numbered /\ pub' = [pub EXCEPT ![p] = 0]
      /\ excused' = excused \cup {e \in InFlight : e < pub[p]}
      /\ UNCHANGED <<globalEid, stored, seen>>
      /\ \A c \in Conns : LET r == conn[c]  q == conn'[c] IN
           /\ q.inbox = IF r.pc \in Subscribed THEN Append(r.inbox, pub[p]) ELSE r.inbox
           /\ q.parked = r.parked /\ q.cursor = r.cursor /\ q.read = r.read
  BY PublishFields
<1>2. InFlight' \subseteq InFlight
  BY <1>1, InFlightShrinks
<1>3. ASSUME NEW c \in Conns, NEW x \in Contents(conn'[c]) PROVE x \in Contents(conn[c]) \cup {pub[p]}
  <2>1. CASE x \in ToSet(conn'[c].parked)
    BY <1>1, <2>1 DEF Contents
  <2>2. CASE x \in ToSet(conn'[c].inbox)
    <3>1. PICK i \in DOMAIN conn'[c].inbox : x = conn'[c].inbox[i]
      BY <2>2 DEF ToSet
    <3>2. CASE conn'[c].inbox = conn[c].inbox
      BY <2>2, <3>2 DEF Contents
    <3>3. CASE conn'[c].inbox = Append(conn[c].inbox, pub[p])
      <4>1. \/ i \in DOMAIN conn[c].inbox /\ conn'[c].inbox[i] = conn[c].inbox[i]
            \/ conn'[c].inbox[i] = pub[p]
        BY <1>1, <3>1, <3>3, AppendElements, ContentsType
      <4> QED
        BY <3>1, <4>1 DEF Contents, ToSet
    <3> QED
      BY <1>1, <3>2, <3>3
  <2> QED
    BY <1>3, <2>1, <2>2 DEF Contents
<1>4. ASSUME NEW e \in InFlight' \ excused' PROVE Leads(e)'
  <2>1. e \in InFlight \ excused /\ Leads(e)
    BY <1>1, <1>2, <1>4 DEF Flights
  <2>2. e # pub[p]
    <3>1. PICK q \in Pubs : e = pub'[q] /\ e # 0
      BY <1>4 DEF InFlight
    <3>2. q # p /\ e = pub[q]
      BY <1>1, <3>1 DEF TypeInv
    <3> QED
      BY <3>1, <3>2 DEF TypeInv, Pubs
  <2>3. pub[p] < e
    <3>1. ~(e < pub[p])
      BY <1>1, <1>4, <2>1
    <3>2. e \in Int /\ pub[p] \in Int
      BY <1>1, <2>1, InFlightType DEF Numbered
    <3> QED
      BY <2>2, <3>1, <3>2
  <2>4. \A c \in Conns : \A x \in Contents(conn'[c]) : x < e
    BY <1>3, <2>1, <2>3 DEF Leads
  <2> QED
    BY <1>1, <2>1, <2>4 DEF Leads, Contents
<1> QED
  BY <1>4 DEF Flights

\* The counter takes in what is numbered but not stored, which is excused.
LEMMA CounterFlights ==
  ASSUME TypeInv, Flights, NEW c \in Conns, ReadGlobalEid(c)
  PROVE  Flights'
<1>1. /\ Only(c) /\ conn'[c] \in ConnState /\ UNCHANGED <<feed, seen>>
      /\ excused \cup (InFlight \ stored) \subseteq excused'
      /\ conn'[c].inbox = conn[c].inbox /\ conn'[c].parked = conn[c].parked
  BY ReadGlobalEidFields, InFlightType DEF Numbered
<1>2. \A d \in Conns : Contents(conn'[d]) = Contents(conn[d])
  BY <1>1, OnlyOne DEF Contents
<1>3. ASSUME NEW e \in InFlight' \ excused' PROVE Leads(e)'
  <2>1. e \in InFlight \ excused /\ e \in stored'
    BY <1>1, <1>3 DEF InFlight, feed
  <2> QED
    BY <1>2, <2>1 DEF Flights, Leads, Contents
<1> QED
  BY <1>3 DEF Flights

LEMMA FlightsKept ==
  ASSUME TypeInv, Shapes, Orders, Flights, [Next]_vars
  PROVE  Flights'
<1>1. ASSUME UNCHANGED <<pub, stored, seen, conn, excused>> PROVE Flights'
  <2>1. InFlight' = InFlight
    BY <1>1 DEF InFlight
  <2> QED
    BY <1>1, <2>1, SameFlights
<1>2. CASE NumberElsewhere
  BY <1>1, <1>2 DEF NumberElsewhere
<1>3. ASSUME NEW p \in Pubs, Number(p) \/ Store(p) \/ Publish(p) PROVE Flights'
  BY <1>3, NumberFlights, StoreFlights, PublishFlights
<1>4. CASE Crash
  <2>1. /\ \A c \in Conns : conn'[c] = IF conn[c].pc \in Subscribed THEN Closed(conn[c]) ELSE conn[c]
        /\ pub' = [pub EXCEPT ![Bouncer] = 0] /\ UNCHANGED <<globalEid, stored, seen, excused>>
    BY <1>4, CrashFields
  <2>2. InFlight' \subseteq InFlight
    BY <2>1, InFlightShrinks DEF Pubs
  <2>3. \A c \in Conns : /\ Contents(conn'[c]) \subseteq Contents(conn[c])
                         /\ conn'[c].cursor \in {0, conn[c].cursor} /\ conn'[c].read = conn[c].read
    <3> SUFFICES ASSUME NEW c \in Conns
                 PROVE  /\ Contents(conn'[c]) \subseteq Contents(conn[c])
                        /\ conn'[c].cursor \in {0, conn[c].cursor} /\ conn'[c].read = conn[c].read
      OBVIOUS
    <3>1. CASE conn[c].pc \in Subscribed
      <4>1. /\ conn'[c].inbox = <<>> /\ conn'[c].parked = <<>>
            /\ conn'[c].cursor = 0 /\ conn'[c].read = conn[c].read
        BY <2>1, <3>1, ClosedFields DEF TypeInv
      <4> QED
        BY <4>1 DEF Contents, ToSet
    <3>2. CASE conn[c].pc \notin Subscribed
      BY <2>1, <3>2
    <3> QED
      BY <3>1, <3>2
  <2>4. ASSUME NEW e \in InFlight' \ excused' PROVE Leads(e)'
    <3>1. e \in InFlight \ excused /\ Leads(e)
      BY <2>1, <2>2, <2>4 DEF Flights
    <3>2. e > 0
      BY <3>1, InFlightType DEF Numbered
    <3> QED
      BY <2>1, <2>3, <3>1, <3>2 DEF Leads, Contents
  <2> QED
    BY <2>4 DEF Flights
<1>5. ASSUME NEW c \in Conns,
             Attach(c) \/ Attachment(c) \/ FetchFails(c) \/ OnMessage(c) \/ MarkClosing(c)
      PROVE  Flights'
  BY <1>5, ConnMoves, CounterFlights, MoveFlights
<1>6. CASE UNCHANGED vars
  BY <1>1, <1>6 DEF vars
<1> QED
  BY <1>2, <1>3, <1>4, <1>5, <1>6 DEF Next, Publishing

-----------------------------------------------------------------------------
(* A message that a cursor passes is sent. *)

\* The messages that the stored cursor may not pass unsent.
Owed == {e \in stored \ excused : msg[e] = e /\ e > base}

Sold(e) == \E c \in Conns : \E i \in DOMAIN conn[c].out : msg[conn[c].out[i].eid] = e

\* A message that nobody sent and that the connection is not about to replay ...
Missing(c, e) == ~Sold(e) /\ \A x \in conn[c].history : msg[x] # e

\* ... is in its inbox or its park, or yet to be fetched, unless it goes down ...
Held(c, e) ==
  \/ e \in Contents(conn[c])
  \/ conn[c].closing /\ \A x \in ToSet(conn[c].parked) : x < e
  \/ conn[c].pc \in {"seen", "fetch"} /\ e <= conn[c].read

\* ... and its cursor has not reached it.
Expected(c, e) ==
  /\ e > conn[c].cursor /\ e \notin conn[c].historySeen
  /\ conn[c].pc \in Subscribed \ {"count"} /\ e \notin InFlight => Held(c, e)

Owing ==
  \A e \in Owed :
    /\ e <= seen => Sold(e)
    /\ \A c \in Conns : Missing(c, e) => Expected(c, e)

OutsGrow ==
  \A c \in Conns : \A i \in DOMAIN conn[c].out :
    i \in DOMAIN conn'[c].out /\ conn'[c].out[i] = conn[c].out[i]

LEMMA SoldStays ==
  ASSUME TypeInv, Grows, OutsGrow, NEW e, Sold(e)
  PROVE  Sold(e)'
<1>1. PICK c \in Conns : \E i \in DOMAIN conn[c].out : msg[conn[c].out[i].eid] = e
  BY DEF Sold
<1>2. PICK i \in DOMAIN conn[c].out : msg[conn[c].out[i].eid] = e
  BY <1>1
<1>3. i \in DOMAIN conn'[c].out /\ conn'[c].out[i] = conn[c].out[i]
  BY DEF OutsGrow
<1>4. msg'[conn[c].out[i].eid] = e
  BY <1>2, LineType DEF Grows
<1> QED
  BY <1>3, <1>4 DEF Sold

LEMMA OwedStays ==
  ASSUME TypeInv, Grows, stored' = stored, base' \in Nat, base' >= base, excused \subseteq excused'
  PROVE  \A e \in Owed' : e \in Owed /\ e > base' /\ e \notin excused' /\ msg'[e] = e /\ e \in Numbered
<1> SUFFICES ASSUME NEW e \in Owed'
             PROVE  e \in Owed /\ e > base' /\ e \notin excused' /\ msg'[e] = e /\ e \in Numbered
  OBVIOUS
<1>1. e \in stored /\ e \notin excused' /\ msg'[e] = e /\ e > base'
  BY DEF Owed
<1>2. e \in Numbered /\ e \in Int /\ base \in Int
  BY <1>1 DEF TypeInv, Numbered
<1>3. msg[e] = e
  BY <1>1, <1>2 DEF Grows
<1>4. e > base
  BY <1>1, <1>2
<1> QED
  BY <1>1, <1>2, <1>3, <1>4 DEF Owed

\* What the others are expected to send does not depend on a connection's step.
LEMMA ConnOwing ==
  ASSUME TypeInv, Grows, Owing, NEW c \in Conns, Only(c), conn'[c] \in ConnState, UNCHANGED feed,
         base' \in Nat, base' >= base, excused \subseteq excused',
         \A i \in DOMAIN conn[c].out :
           i \in DOMAIN conn'[c].out /\ conn'[c].out[i] = conn[c].out[i],
         \/ seen' = seen
         \/ seen' = conn'[c].cursor /\ conn'[c].history = {}
         \/ seen' = conn[c].cursor /\ conn[c].history = {},
         \A e \in Owed : e > base' /\ e \notin excused' /\ ~Sold(e) /\ Missing(c, e)'
                         => Expected(c, e)'
  PROVE  Owing'
<1>1. stored' = stored /\ pub' = pub /\ msg' = msg
  BY DEF feed
<1>2. \A d \in Conns : d # c => conn'[d] = conn[d]
  BY OnlyOne
<1>3. OutsGrow
  BY <1>2 DEF OutsGrow
<1>4. ASSUME NEW e \in Owed' PROVE (e <= seen => Sold(e))' /\ \A d \in Conns : (Missing(d, e) => Expected(d, e))'
  <2>1. e \in Owed /\ e > base' /\ e \notin excused' /\ e \in Numbered
    BY <1>1, <1>4, OwedStays
  <2>2. Sold(e) => Sold(e)'
    BY <1>3, SoldStays
  <2>3. ASSUME NEW d \in Conns, Missing(d, e)' PROVE Expected(d, e)'
    <3>1. ~Sold(e)
      BY <2>2, <2>3 DEF Missing
    <3>2. CASE d = c
      BY <2>1, <2>3, <3>1, <3>2
    <3>3. CASE d # c
      <4>1. conn'[d] = conn[d] /\ InFlight' = InFlight
        BY <1>1, <1>2, <3>3 DEF InFlight
      <4>2. Missing(d, e)
        BY <1>1, <2>3, <3>1, <4>1 DEF Missing
      <4>3. Expected(d, e)
        BY <2>1, <4>2 DEF Owing
      <4> QED
        BY <4>1, <4>3 DEF Expected, Held, Contents
    <3> QED
      BY <3>2, <3>3
  <2>4. ASSUME e <= seen', ~Sold(e)' PROVE FALSE
    <3>1. ~Sold(e)
      BY <2>2, <2>4
    <3>2. e > seen
      <4>1. ~(e <= seen)
        BY <2>1, <3>1 DEF Owing
      <4> QED
        BY <2>1, <4>1 DEF TypeInv, Numbered
    <3>3. CASE seen' = seen
      BY <2>1, <2>4, <3>2, <3>3 DEF TypeInv, Numbered
    <3>4. CASE seen' = conn'[c].cursor /\ conn'[c].history = {}
      <4>1. Missing(c, e)'
        BY <2>4, <3>4 DEF Missing
      <4>2. e > conn'[c].cursor
        BY <2>3, <4>1 DEF Expected
      <4>3. e \in Int /\ conn'[c].cursor \in Int
        BY <2>1 DEF ConnState, Numbered
      <4> QED
        BY <2>4, <3>4, <4>2, <4>3
    <3>5. CASE seen' = conn[c].cursor /\ conn[c].history = {}
      <4>1. Missing(c, e)
        BY <3>1, <3>5 DEF Missing
      <4>2. e > conn[c].cursor
        BY <2>1, <4>1 DEF Owing, Expected
      <4>3. e \in Int /\ conn[c].cursor \in Int
        BY <2>1, LineType DEF Numbered
      <4> QED
        BY <2>4, <3>5, <4>2, <4>3
    <3> QED
      BY <3>3, <3>4, <3>5
  <2> QED
    BY <2>3, <2>4
<1> QED
  BY <1>4 DEF Owing

\* A connection whose history stays as it is misses what it missed.
LEMMA StillMissing ==
  ASSUME Owing, NEW c \in Conns, UNCHANGED feed, conn'[c].history = conn[c].history,
         NEW e \in Owed, ~Sold(e), Missing(c, e)'
  PROVE  Missing(c, e) /\ Expected(c, e)
<1>1. msg' = msg
  BY DEF feed
<1>2. Missing(c, e)
  BY <1>1 DEF Missing
<1> QED
  BY <1>2 DEF Owing

LEMMA OwedType ==
  ASSUME TypeInv, NEW e \in Owed
  PROVE  e \in Numbered /\ e \in Int /\ e >= 1 /\ e <= globalEid /\ msg[e] = e /\ e \in stored /\ e \notin excused
<1>1. e \in stored /\ msg[e] = e /\ e \notin excused
  BY DEF Owed
<1>2. e \in 1..globalEid /\ globalEid \in Int
  BY <1>1 DEF TypeInv, Numbered
<1> QED
  BY <1>1, <1>2 DEF Numbered

\* A connection that begins, and one that goes down.
LEMMA EndsOwing ==
  ASSUME TypeInv, Shapes, Grows, Owing, NEW c \in Conns,
         Attach(c) \/ ReadGlobalEid(c) \/ MarkClosing(c) \/ Teardown(c)
  PROVE  Owing'
<1> DEFINE r == conn[c]
           q == conn'[c]
<1>1. base \in Nat /\ base >= base
  BY DEF TypeInv
<1>2. CASE Attach(c)
  <2>1. /\ Only(c) /\ q \in ConnState /\ UNCHANGED <<feed, seen, base, excused>>
        /\ q.pc = "count" /\ q.history = r.history /\ q.historySeen = r.historySeen
        /\ q.cursor = r.cursor /\ q.out = r.out
    BY <1>2, AttachFields
  <2>2. \A e \in Owed : ~Sold(e) /\ Missing(c, e)' => Expected(c, e)'
    BY <2>1, StillMissing DEF Expected
  <2> QED
    BY <1>1, <2>1, <2>2, ConnOwing
<1>3. CASE ReadGlobalEid(c)
  <2>1. /\ Only(c) /\ q \in ConnState /\ UNCHANGED <<feed, seen, base>> /\ excused \subseteq excused'
        /\ q.pc = "seen" /\ q.history = r.history /\ q.historySeen = r.historySeen
        /\ q.cursor = r.cursor /\ q.out = r.out
        /\ q.read = globalEid \/ stored \subseteq excused'
    BY <1>3, ReadGlobalEidFields DEF TypeInv, Numbered
  <2>2. \A e \in Owed : e \notin excused' /\ ~Sold(e) /\ Missing(c, e)' => Expected(c, e)'
    BY <2>1, StillMissing, OwedType DEF Expected, Held
  <2> QED
    BY <1>1, <2>1, <2>2, ConnOwing
<1>4. CASE MarkClosing(c)
  <2>1. /\ Only(c) /\ q \in ConnState /\ UNCHANGED <<feed, seen, base, excused>>
        /\ q.pc = r.pc /\ q.history = r.history /\ q.historySeen = r.historySeen
        /\ q.cursor = r.cursor /\ q.out = r.out /\ q.read = r.read
        /\ q.inbox = r.inbox /\ q.parked = r.parked /\ q.closing
    BY <1>4, MarkClosingFields
  <2>2. ASSUME NEW e \in Owed, ~Sold(e), Missing(c, e)' PROVE Expected(c, e)'
    <3>1. Expected(c, e)
      BY <2>1, <2>2, StillMissing
    <3>2. InFlight' = InFlight
      BY <2>1 DEF InFlight, feed
    <3>3. Held(c, e) => Held(c, e)'
      BY <2>1 DEF Held, Contents
    <3> QED
      BY <2>1, <3>1, <3>2, <3>3 DEF Expected
  <2> QED
    BY <1>1, <2>1, <2>2, ConnOwing
<1>5. CASE Teardown(c)
  <2>1. /\ Only(c) /\ q \in ConnState /\ q = Closed(r) /\ UNCHANGED <<feed, base, excused>>
        /\ r.pc = "live" /\ seen' \in {seen, r.cursor}
    BY <1>5, TeardownFields
  <2>2. /\ q.pc = "gone" /\ q.historySeen = {} /\ q.cursor = 0 /\ q.out = r.out
    BY <2>1, ClosedFields DEF TypeInv
  <2>3. r.history = {}
    BY <2>1 DEF Shapes, Shaped
  <2>4. \A e \in Owed : Expected(c, e)'
    BY <2>2, OwedType DEF Expected, Subscribed, Attaching
  <2> QED
    BY <1>1, <2>1, <2>2, <2>3, <2>4, ConnOwing
<1> QED
  BY <1>2, <1>3, <1>4, <1>5

\* A connection that reads its cursor and fetches: what it does not fetch is
\* above the counter that it read.
LEMMA FetchOwing ==
  ASSUME TypeInv, Shapes, Grows, Owing, NEW c \in Conns,
         ReadSeen(c) \/ Fetch(c) \/ FetchFails(c) \/ FetchPlayback(c)
  PROVE  Owing'
<1> DEFINE r == conn[c]
           q == conn'[c]
<1>1. base \in Nat /\ base >= base /\ seen \in Int
  BY DEF TypeInv
<1>2. CASE ReadSeen(c)
  <2>1. /\ Only(c) /\ q \in ConnState /\ UNCHANGED <<feed, seen, excused>> /\ r.pc = "seen"
        /\ q.closing = r.closing /\ q.inbox = r.inbox /\ q.parked = r.parked
        /\ q.history = r.history /\ q.historySeen = r.historySeen /\ q.read = r.read
        /\ q.out = r.out
        /\ \/ q.cursor = r.read /\ base' \in 0..globalEid /\ base' >= base /\ base' >= r.read
           \/ q.cursor = seen /\ q.pc = "fetch" /\ base' = base
    BY <1>2, ReadSeenFields
  <2>2. base' \in Nat /\ base' >= base
    BY <1>1, <2>1
  <2>3. ASSUME NEW e \in Owed, e > base', ~Sold(e), Missing(c, e)' PROVE Expected(c, e)'
    <3>1. Expected(c, e)
      BY <2>1, <2>3, StillMissing
    <3>2. e \in Int /\ r.read \in Int
      BY OwedType, LineType
    <3>3. InFlight' = InFlight
      BY <2>1 DEF InFlight, feed
    <3>4. e \in InFlight \/ Held(c, e)
      BY <2>1, <3>1 DEF Expected, Subscribed, Attaching
    <3>5. CASE q.cursor = r.read /\ base' >= r.read
      <4>1. e > r.read /\ ~(e <= r.read)
        BY <1>1, <2>2, <2>3, <3>2, <3>5
      <4>2. Held(c, e) => Held(c, e)'
        BY <2>1, <4>1 DEF Held, Contents
      <4> QED
        BY <2>1, <3>1, <3>3, <3>4, <3>5, <4>1, <4>2 DEF Expected
    <3>6. CASE q.cursor = seen /\ q.pc = "fetch"
      <4>1. e > seen
        <5>1. ~(e <= seen)
          BY <2>3 DEF Owing
        <5> QED
          BY <1>1, <3>2, <5>1
      <4>2. Held(c, e) => Held(c, e)'
        BY <2>1, <3>6 DEF Held, Contents
      <4> QED
        BY <2>1, <3>1, <3>3, <3>4, <3>6, <4>1, <4>2 DEF Expected
    <3> QED
      BY <2>1, <3>5, <3>6
  <2> QED
    BY <2>1, <2>2, <2>3, ConnOwing
<1>3. CASE Fetch(c)
  <2>1. r.from = r.cursor /\ r.history = {}
    BY <1>3 DEF Shapes, Shaped, Fetch
  <2>2. /\ Only(c) /\ q \in ConnState /\ Replays(c) /\ UNCHANGED <<feed, seen, base>>
        /\ excused \subseteq excused'
        /\ \A e \in stored : e > r.cursor /\ msg[e] = e => e \in q.history \cup excused'
    BY <1>3, <2>1, FetchFields
  <2>3. ASSUME NEW e \in Owed, e \notin excused', ~Sold(e), Missing(c, e)' PROVE FALSE
    <3>1. e > r.cursor
      BY <2>1, <2>3 DEF Owing, Missing, Expected
    <3>2. e \in q.history /\ msg'[e] = e
      BY <2>2, <2>3, <3>1, OwedType DEF feed
    <3> QED
      BY <2>3, <3>2 DEF Missing
  <2> QED
    BY <1>1, <2>2, <2>3, ConnOwing DEF Replays
<1>4. CASE FetchFails(c)
  <2>1. /\ Only(c) /\ q \in ConnState /\ UNCHANGED <<feed, seen, base>> /\ r.pc = "fetch"
        /\ q.closing = r.closing /\ q.inbox = r.inbox /\ q.parked = r.parked
        /\ q.history = r.history /\ q.historySeen = r.historySeen /\ q.read = r.read
        /\ q.out = r.out /\ q.cursor \in {r.cursor, r.read}
        /\ excused' = excused \cup {e \in stored : e > r.cursor /\ e <= r.read}
    BY <1>4, FetchFailsFields
  <2>2. ASSUME NEW e \in Owed, e \notin excused', ~Sold(e), Missing(c, e)' PROVE Expected(c, e)'
    <3>1. Expected(c, e)
      BY <2>1, <2>2, StillMissing
    <3>2. e \in Int /\ r.read \in Int /\ e \in stored
      BY OwedType, LineType
    <3>3. e > r.read /\ ~(e <= r.read)
      <4>1. ~(e <= r.read)
        BY <2>1, <2>2, <3>1, <3>2 DEF Expected
      <4> QED
        BY <3>2, <4>1
    <3>4. InFlight' = InFlight
      BY <2>1 DEF InFlight, feed
    <3>5. e \in InFlight \/ Held(c, e)
      BY <2>1, <3>1 DEF Expected, Subscribed, Attaching
    <3>6. Held(c, e) => Held(c, e)'
      BY <2>1, <3>3 DEF Held, Contents
    <3> QED
      BY <2>1, <3>1, <3>3, <3>4, <3>5, <3>6 DEF Expected
  <2> QED
    BY <1>1, <2>1, <2>2, ConnOwing
<1>5. CASE FetchPlayback(c)
  <2>1. r.history = {}
    BY <1>5 DEF Shapes, Shaped, FetchPlayback
  <2>2. /\ Only(c) /\ q \in ConnState /\ UNCHANGED <<feed, seen, base, excused>> /\ r.pc = "playback"
        /\ q.closing = r.closing /\ q.inbox = r.inbox /\ q.parked = r.parked
        /\ q.historySeen = {msg[x] : x \in q.history} /\ q.read = r.read
        /\ q.out = r.out /\ q.cursor = r.cursor
    BY <1>5, FetchPlaybackFields DEF Replays
  <2>3. ASSUME NEW e \in Owed, ~Sold(e), Missing(c, e)' PROVE Expected(c, e)'
    <3>1. Expected(c, e)
      BY <2>1, <2>3 DEF Owing, Missing
    <3>2. e \notin q.historySeen
      BY <2>2, <2>3 DEF Missing, feed
    <3>3. InFlight' = InFlight
      BY <2>2 DEF InFlight, feed
    <3>4. e \in InFlight \/ Held(c, e)
      BY <2>2, <3>1 DEF Expected, Subscribed, Attaching
    <3>5. Held(c, e) => Held(c, e)'
      BY <2>2 DEF Held, Contents
    <3> QED
      BY <2>2, <3>1, <3>2, <3>3, <3>4, <3>5 DEF Expected
  <2> QED
    BY <1>1, <2>2, <2>3, ConnOwing
<1> QED
  BY <1>2, <1>3, <1>4, <1>5

\* A line that is appended is sent.
LEMMA AppendSells ==
  ASSUME TypeInv, NEW c \in Conns, UNCHANGED feed, NEW x \in Numbered,
         NEW via \in {"history", "parked", "live"},
         conn'[c].out = Append(conn[c].out, Line(x, via))
  PROVE  /\ \A e : msg[x] = e => Sold(e)'
         /\ \A i \in DOMAIN conn[c].out :
              i \in DOMAIN conn'[c].out /\ conn'[c].out[i] = conn[c].out[i]
<1> DEFINE s == conn[c].out
           l == Line(x, via)
<1>1. s \in Seq(Lines) /\ l \in Lines /\ l.eid = x
  BY DEF TypeInv, ConnState, Lines, Line
<1>2. conn'[c].out = Append(s, l)
  OBVIOUS
<1> HIDE DEF s, l
<1>3. /\ Len(s) \in Nat /\ DOMAIN s = 1..Len(s)
      /\ DOMAIN Append(s, l) = 1..(Len(s) + 1)
      /\ \A i \in DOMAIN s : Append(s, l)[i] = s[i]
      /\ Append(s, l)[Len(s) + 1] = l
  BY <1>1, AppendLine
<1>4. Len(s) + 1 \in DOMAIN conn'[c].out /\ conn'[c].out[Len(s) + 1] = l
  BY <1>2, <1>3
<1>5. msg'[conn'[c].out[Len(s) + 1].eid] = msg[x]
  BY <1>1, <1>4 DEF feed
<1>6. ASSUME NEW e, msg[x] = e PROVE Sold(e)'
  BY <1>4, <1>5, <1>6 DEF Sold
<1>7. \A i \in DOMAIN s : i \in DOMAIN conn'[c].out /\ conn'[c].out[i] = s[i]
  BY <1>2, <1>3
<1> QED
  BY <1>6, <1>7 DEF s

LEMMA SendHistoryOwing ==
  ASSUME TypeInv, Grows, Owing, NEW c \in Conns, SendHistory(c)
  PROVE  Owing'
<1> DEFINE r == conn[c]
           q == conn'[c]
<1>1. base \in Nat /\ base >= base
  BY DEF TypeInv
<1>2. /\ Only(c) /\ q \in ConnState /\ UNCHANGED <<feed, seen, base>> /\ r.pc = "burst"
      /\ q.closing = r.closing /\ q.inbox = r.inbox /\ q.parked = r.parked
      /\ q.historySeen = r.historySeen /\ q.read = r.read /\ q.pc = r.pc /\ q.cursor = r.cursor
  BY SendHistoryFields
<1>3. PICK x \in r.history :
        /\ q.history = r.history \ {x}
        /\ q.out = IF r.closing THEN r.out ELSE Append(r.out, Line(x, "history"))
        /\ excused' = excused \cup (IF r.closing THEN {x, msg[x]} ELSE {})
  BY SendHistoryFields
<1>4. x \in Numbered
  BY <1>3, LineType
<1>5. ASSUME NEW e \in Owed, e \notin excused', ~Sold(e), Missing(c, e)' PROVE Expected(c, e)'
  <2>1. msg' = msg /\ InFlight' = InFlight
    BY <1>2 DEF InFlight, feed
  <2>2. msg[x] # e
    <3>1. CASE r.closing
      BY <1>3, <1>5, <3>1
    <3>2. CASE ~r.closing
      BY <1>2, <1>3, <1>4, <1>5, <3>2, AppendSells DEF Missing
    <3> QED
      BY <3>1, <3>2
  <2>3. Missing(c, e)
    BY <1>3, <1>5, <2>1, <2>2 DEF Missing
  <2>4. Expected(c, e)
    BY <2>3 DEF Owing
  <2>5. Held(c, e) => Held(c, e)'
    BY <1>2 DEF Held, Contents
  <2> QED
    BY <1>2, <2>1, <2>4, <2>5 DEF Expected
<1>6. \A i \in DOMAIN r.out : i \in DOMAIN q.out /\ q.out[i] = r.out[i]
  <2>1. CASE r.closing
    BY <1>3, <2>1
  <2>2. CASE ~r.closing
    BY <1>2, <1>3, <1>4, <2>2, AppendSells
  <2> QED
    BY <2>1, <2>2
<1>7. excused \subseteq excused'
  BY <1>3
<1> QED
  BY <1>1, <1>2, <1>5, <1>6, <1>7, ConnOwing

LEMMA AttachedOwing ==
  ASSUME TypeInv, Grows, Owing, NEW c \in Conns, Attached(c)
  PROVE  Owing'
<1> DEFINE r == conn[c]
           q == conn'[c]
<1>1. base \in Nat /\ base >= base
  BY DEF TypeInv
<1>2. /\ Only(c) /\ q \in ConnState /\ UNCHANGED <<feed, base, excused>> /\ Kept(r, q)
      /\ r.pc \in {"burst", "drain"} /\ r.history = {} /\ q.history = r.history
      /\ \A e \in ToSet(r.parked) : ~IsFresh(r, e)
      /\ q.closing = r.closing /\ q.inbox = r.inbox /\ q.parked = <<>>
      /\ q.historySeen = {} /\ q.pc = "live" /\ q.cursor = r.cursor /\ q.out = r.out
  BY AttachedFields
<1>3. ASSUME NEW e \in Owed, ~Sold(e), Missing(c, e)' PROVE Expected(c, e)'
  <2>1. Expected(c, e) /\ InFlight' = InFlight /\ msg[e] = e
    <3>1. Expected(c, e)
      BY <1>2, <1>3, StillMissing
    <3>2. msg[e] = e
      BY OwedType
    <3>3. InFlight' = InFlight
      BY <1>2 DEF InFlight, feed
    <3> QED
      BY <3>1, <3>2, <3>3
  <2>2. IsFresh(r, e)
    BY <2>1 DEF Expected, IsFresh
  <2>3. Held(c, e) => Held(c, e)'
    <3>1. e \in Contents(r) => e \in Contents(q)
      <4>1. e \notin ToSet(r.parked) /\ q.inbox = r.inbox
        BY <1>2, <2>2
      <4> QED
        BY <4>1 DEF Contents
    <3>2. ToSet(q.parked) = {}
      BY <1>2 DEF ToSet
    <3> QED
      BY <1>2, <3>1, <3>2 DEF Held
  <2>4. e \in InFlight \/ Held(c, e)
    BY <1>2, <2>1 DEF Expected, Subscribed, Attaching
  <2> QED
    BY <1>2, <2>1, <2>3, <2>4 DEF Expected
<1>4. seen' = seen \/ (seen' = q.cursor /\ q.history = {})
  BY <1>2 DEF Kept
<1> QED
  BY <1>1, <1>2, <1>3, <1>4, ConnOwing

\* What is handed over from the park is below all else that is owed: what comes
\* before it in the park is not fresh, what comes after it is higher.
LEMMA DeliverParkedOwing ==
  ASSUME TypeInv, Grows, Orders, Flights, Owing, NEW c \in Conns, DeliverParked(c)
  PROVE  Owing'
<1> DEFINE r == conn[c]
           q == conn'[c]
<1>1. base \in Nat /\ base >= base
  BY DEF TypeInv
<1>2. /\ Only(c) /\ q \in ConnState /\ UNCHANGED <<feed, base>> /\ Kept(r, q)
      /\ r.pc \in {"burst", "drain"} /\ r.history = {} /\ q.history = r.history
      /\ q.closing = r.closing /\ q.inbox = r.inbox
      /\ q.historySeen = r.historySeen /\ q.pc = "drain"
  BY DeliverParkedFields
<1>3. PICK k \in DOMAIN r.parked :
        LET x == r.parked[k] IN
        /\ q.cursor = x
        /\ \A i \in 1..(k - 1) : ~IsFresh(r, r.parked[i])
        /\ q.parked = SubSeq(r.parked, k + 1, Len(r.parked))
        /\ q.out = IF r.closing THEN r.out ELSE Append(r.out, Line(x, "parked"))
        /\ excused' = excused \cup (IF r.closing THEN {x} ELSE {})
  BY DeliverParkedFields
<1> DEFINE x == r.parked[k]
<1>4. x \in Numbered /\ x \in Int /\ x \in Contents(r) /\ r.parked \in Seq(Numbered)
  BY ContentsType DEF Numbered
<1>5. /\ k \in Nat /\ DOMAIN r.parked = 1..Len(r.parked) /\ Len(r.parked) \in Nat
      /\ \A i \in DOMAIN q.parked : i + k \in DOMAIN r.parked /\ q.parked[i] = r.parked[i + k]
      /\ \A i \in DOMAIN r.parked : i > k => i - k \in DOMAIN q.parked /\ q.parked[i - k] = r.parked[i]
  <2> DEFINE s == r.parked
             t == SubSeq(s, k + 1, Len(s))
  <2>1. /\ k \in Nat /\ DOMAIN s = 1..Len(s) /\ Len(s) \in Nat
        /\ \A i \in DOMAIN t : i + k \in DOMAIN s /\ t[i] = s[i + k]
        /\ \A i \in DOMAIN s : i > k => i - k \in DOMAIN t /\ t[i - k] = s[i]
    BY <1>4, RestElements
  <2>2. q.parked = t
    BY <1>3
  <2> HIDE DEF t
  <2> QED
    BY <2>1, <2>2
<1>6. ASSUME NEW e \in Owed, e \notin excused', ~Sold(e), Missing(c, e)' PROVE Expected(c, e)'
  <2>1. /\ Expected(c, e) /\ InFlight' = InFlight /\ msg[e] = e /\ e \in Int /\ e \notin excused
    BY <1>2, <1>6, StillMissing, OwedType DEF InFlight, feed
  <2>2. IsFresh(r, e)
    BY <2>1 DEF Expected, IsFresh
  <2>3. e # x
    <3>1. CASE r.closing
      BY <1>3, <1>6, <3>1
    <3>2. CASE ~r.closing
      <4>1. \A f : msg[x] = f => Sold(f)'
        BY <1>2, <1>3, <1>4, <3>2, AppendSells
      <4> QED
        BY <1>6, <2>1, <4>1 DEF Missing
    <3> QED
      BY <3>1, <3>2
  <2>4. ASSUME e \in InFlight PROVE e > x
    <3>1. Leads(e)
      BY <2>1, <2>4 DEF Flights
    <3> QED
      BY <1>4, <2>1, <3>1 DEF Leads
  <2>5. ASSUME e \in ToSet(r.inbox) PROVE e > x /\ e \in Contents(q)
    <3>1. PICK j \in DOMAIN r.inbox : r.inbox[j] = e
      BY <2>5 DEF ToSet
    <3>2. x < e
      BY <2>1, <3>1 DEF Orders, Ordered, Below
    <3> QED
      BY <1>2, <1>4, <2>1, <2>5, <3>2 DEF Contents
  <2>6. ASSUME e \in ToSet(r.parked) PROVE e > x /\ e \in Contents(q)
    <3>1. PICK j \in DOMAIN r.parked : r.parked[j] = e
      BY <2>6 DEF ToSet
    <3>2. j > k
      <4>1. j \notin 1..(k - 1)
        BY <1>3, <2>2, <3>1
      <4>2. j # k
        BY <2>3, <3>1
      <4>3. j \in Nat /\ j >= 1
        BY <1>5
      <4> QED
        BY <1>5, <4>1, <4>2, <4>3
    <3>3. x < e
      BY <2>1, <3>1, <3>2 DEF Orders, Ordered, Rising
    <3>4. e \in ToSet(q.parked)
      BY <1>5, <3>1, <3>2 DEF ToSet
    <3> QED
      BY <1>4, <2>1, <3>3, <3>4 DEF Contents
  <2>7. ASSUME r.closing, \A y \in ToSet(r.parked) : y < e
        PROVE  e > x /\ \A y \in ToSet(q.parked) : y < e
    <3>1. x \in ToSet(r.parked)
      BY DEF ToSet
    <3>2. ToSet(q.parked) \subseteq ToSet(r.parked)
      BY <1>5 DEF ToSet
    <3> QED
      BY <1>4, <2>1, <2>7, <3>1, <3>2
  <2>8. e \in InFlight \/ Held(c, e)
    BY <1>2, <2>1 DEF Expected, Subscribed, Attaching
  <2>9. ASSUME Held(c, e) PROVE e > x /\ Held(c, e)'
    <3>1. e \in ToSet(r.inbox) \/ e \in ToSet(r.parked)
          \/ (r.closing /\ \A y \in ToSet(r.parked) : y < e)
      BY <1>2, <2>9 DEF Held, Contents
    <3> HIDE DEF x
    <3> QED
      BY <1>2, <2>5, <2>6, <2>7, <3>1 DEF Held, Contents
  <2> QED
    BY <1>2, <1>3, <2>1, <2>4, <2>8, <2>9 DEF Expected
<1>7. seen' = seen \/ (seen' = q.cursor /\ q.history = {})
  BY <1>2 DEF Kept
<1>8. \A i \in DOMAIN r.out : i \in DOMAIN q.out /\ q.out[i] = r.out[i]
  <2>1. CASE r.closing
    BY <1>3, <2>1
  <2>2. CASE ~r.closing
    BY <1>2, <1>3, <1>4, <2>2, AppendSells
  <2> QED
    BY <2>1, <2>2
<1>9. excused \subseteq excused'
  BY <1>3
<1> QED
  BY <1>1, <1>2, <1>6, <1>7, <1>8, <1>9, ConnOwing

\* What was in the inbox is in its tail or was the head of it.
LEMMA InboxSplit ==
  ASSUME TypeInv, NEW c \in Conns, conn[c].inbox # <<>>, conn'[c].inbox = Tail(conn[c].inbox)
  PROVE  LET t == conn[c].inbox IN
         /\ Head(t) \in Numbered /\ Head(t) \in Int /\ 1 \in DOMAIN t /\ Head(t) = t[1]
         /\ Head(t) \in Contents(conn[c])
         /\ \A e \in ToSet(t) : e # Head(t) =>
              /\ e \in ToSet(conn'[c].inbox)
              /\ \E j \in DOMAIN t : 1 < j /\ t[j] = e
<1> DEFINE t == conn[c].inbox
<1>1. t \in Seq(Numbered)
  BY ContentsType
<1>2. /\ 1 \in DOMAIN t /\ Head(t) = t[1] /\ Head(t) \in Numbered /\ DOMAIN t \subseteq Nat
      /\ \A i \in DOMAIN t : i # 1 => i - 1 \in DOMAIN Tail(t) /\ Tail(t)[i - 1] = t[i]
  BY <1>1, TailElements
<1>3. DOMAIN t = 1..Len(t) /\ Len(t) \in Nat
  BY <1>1
<1>4. Head(t) \in Int
  BY <1>2 DEF Numbered
<1>5. Head(t) \in Contents(conn[c])
  BY <1>2 DEF Contents, ToSet
<1>6. ASSUME NEW e \in ToSet(t), e # Head(t)
      PROVE  /\ e \in ToSet(conn'[c].inbox)
             /\ \E j \in DOMAIN t : 1 < j /\ t[j] = e
  <2>1. PICK j \in DOMAIN t : t[j] = e
    BY <1>6 DEF ToSet
  <2>2. j # 1 /\ 1 < j
    BY <1>2, <1>3, <1>6, <2>1
  <2>3. j - 1 \in DOMAIN conn'[c].inbox /\ conn'[c].inbox[j - 1] = e
    BY <1>2, <2>1, <2>2
  <2> QED
    BY <2>1, <2>2, <2>3 DEF ToSet
<1> QED
  BY <1>2, <1>4, <1>5, <1>6

\* A message that is parked, or dropped by a connection that goes down, is
\* above the park; one that finds the park full is excused.
LEMMA ParkOwing ==
  ASSUME TypeInv, Shapes, Orders, Owing, NEW c \in Conns, OnMessage(c),
         conn[c].closing \/ conn[c].pc \in Attaching,
         NEW e \in Owed, e \notin excused', ~Sold(e), Missing(c, e)'
  PROVE  Expected(c, e)'
<1> DEFINE r == conn[c]
           q == conn'[c]
           x == Head(r.inbox)
<1>1. /\ UNCHANGED feed /\ r.inbox # <<>> /\ q.inbox = Tail(r.inbox)
      /\ q.pc = r.pc /\ q.closing = r.closing /\ q.read = r.read /\ r.pc \in Subscribed
      /\ q.history = r.history /\ q.historySeen = r.historySeen /\ q.cursor = r.cursor
      /\ \/ r.closing /\ q.parked = r.parked
         \/ ~r.closing /\ q.parked = r.parked /\ excused' = excused \cup {x}
         \/ ~r.closing /\ q.parked = Append(r.parked, x)
  <2>1. ~(~r.closing /\ r.pc \in {"drain", "live"})
    BY DEF Attaching
  <2> HIDE DEF r, q, x
  <2> QED
    BY <2>1, OnMessageFields DEF r, q, x
<1>2. /\ Expected(c, e) /\ InFlight' = InFlight /\ e \notin excused
  <2>1. Expected(c, e)
    BY <1>1, StillMissing
  <2>2. e \notin excused
    BY OwedType
  <2>3. InFlight' = InFlight
    BY <1>1 DEF InFlight, feed
  <2> QED
    BY <2>1, <2>2, <2>3
<1>3. /\ x \in Numbered /\ 1 \in DOMAIN r.inbox /\ x = r.inbox[1]
      /\ \A y \in ToSet(r.inbox) : y # x => y \in ToSet(q.inbox)
  BY <1>1, InboxSplit
<1>4. ToSet(r.parked) \subseteq ToSet(q.parked)
  <2>1. CASE q.parked = r.parked
    BY <2>1
  <2>2. CASE q.parked = Append(r.parked, x)
    BY <1>3, <2>2, AppendElements, ContentsType DEF ToSet
  <2> QED
    BY <1>1, <2>1, <2>2
<1>5. ASSUME e = x PROVE Held(c, e)'
  <2>1. CASE r.closing /\ q.parked = r.parked
    <3>1. \A i \in DOMAIN r.parked : r.parked[i] < r.inbox[1]
      BY <1>2, <1>3, <1>5 DEF Orders, Ordered, Below
    <3>2. \A y \in ToSet(q.parked) : y < e
      BY <1>3, <1>5, <2>1, <3>1 DEF ToSet
    <3> QED
      BY <1>1, <2>1, <3>2 DEF Held
  <2>2. CASE ~r.closing /\ excused' = excused \cup {x}
    BY <1>5, <2>2
  <2>3. CASE ~r.closing /\ q.parked = Append(r.parked, x)
    <3>1. x \in ToSet(q.parked)
      <4> HIDE DEF x
      <4>1. r.parked \in Seq(Numbered)
        BY ContentsType
      <4>2. Len(r.parked) + 1 \in DOMAIN q.parked /\ q.parked[Len(r.parked) + 1] = x
        BY <1>3, <2>3, <4>1, AppendElements
      <4> QED
        BY <4>2 DEF ToSet
    <3> QED
      BY <1>5, <3>1 DEF Held, Contents
  <2> QED
    BY <1>1, <2>1, <2>2, <2>3
<1>6. ASSUME Held(c, e), e # x PROVE Held(c, e)'
  <2>1. CASE e \in Contents(r)
    <3>1. e \in Contents(q)
      BY <1>3, <1>4, <1>6, <2>1 DEF Contents
    <3> QED
      BY <3>1 DEF Held
  <2>2. CASE r.closing /\ \A y \in ToSet(r.parked) : y < e
    BY <1>1, <2>2 DEF Held
  <2>3. CASE r.pc \in {"seen", "fetch"} /\ e <= r.read
    BY <1>1, <2>3 DEF Held
  <2> QED
    BY <1>6, <2>1, <2>2, <2>3 DEF Held
<1> QED
  BY <1>1, <1>2, <1>5, <1>6 DEF Expected

\* A live event is below all else that is owed, or excuses it: what is parked
\* and fresh when it goes past.
LEMMA LiveOwing ==
  ASSUME TypeInv, Shapes, Orders, Flights, Owing, NEW c \in Conns, OnMessage(c),
         ~conn[c].closing, conn[c].pc \notin Attaching,
         NEW e \in Owed, e \notin excused', ~Sold(e), Missing(c, e)'
  PROVE  Expected(c, e)'
<1> DEFINE r == conn[c]
           q == conn'[c]
           x == Head(r.inbox)
<1>1. /\ UNCHANGED feed /\ r.inbox # <<>> /\ q.inbox = Tail(r.inbox)
      /\ q.pc = r.pc /\ q.closing = r.closing /\ r.pc \in {"drain", "live"}
      /\ q.history = r.history /\ q.historySeen = r.historySeen /\ q.parked = r.parked
      /\ q.cursor = IF x <= r.cursor THEN r.cursor ELSE x
      /\ q.out = IF x <= r.cursor THEN r.out ELSE Append(r.out, Line(x, "live"))
      /\ excused' = excused \cup {f \in ToSet(r.parked) : IsFresh(r, f) /\ f < x}
  BY OnMessageFields
<1>2. /\ Expected(c, e) /\ InFlight' = InFlight /\ msg[e] = e /\ e \in Int /\ e \notin excused
  BY <1>1, StillMissing, OwedType DEF InFlight, feed
<1>3. /\ x \in Numbered /\ x \in Int /\ 1 \in DOMAIN r.inbox /\ x = r.inbox[1] /\ x \in Contents(r)
      /\ \A y \in ToSet(r.inbox) : y # x =>
           y \in ToSet(q.inbox) /\ \E j \in DOMAIN r.inbox : 1 < j /\ r.inbox[j] = y
  BY <1>1, InboxSplit
<1>4. IsFresh(r, e) /\ e > r.cursor
  BY <1>2 DEF Expected, IsFresh
<1>5. r.cursor \in Int
  BY LineType
<1>6. e # x
  <2> SUFFICES ASSUME e = x PROVE FALSE
    OBVIOUS
  <2>1. ~(x <= r.cursor)
    BY <1>2, <1>4, <1>5
  <2>2. q.out = Append(r.out, Line(x, "live"))
    BY <1>1, <2>1
  <2>3. Sold(e)'
    BY <1>1, <1>2, <1>3, <2>2, AppendSells
  <2> QED
    BY <2>3 DEF Missing
<1>7. ASSUME e \in InFlight PROVE e > x
  <2>1. Leads(e)
    BY <1>2, <1>7 DEF Flights
  <2> QED
    BY <1>2, <1>3, <2>1 DEF Leads
<1>8. ASSUME e \in ToSet(r.inbox) PROVE e > x /\ e \in ToSet(q.inbox)
  <2>1. PICK j \in DOMAIN r.inbox : 1 < j /\ r.inbox[j] = e
    BY <1>3, <1>6, <1>8
  <2>2. r.inbox[1] < r.inbox[j]
    BY <1>2, <1>3, <2>1 DEF Orders, Ordered, Rising
  <2>3. x < e
    BY <1>3, <2>1, <2>2
  <2> QED
    BY <1>2, <1>3, <1>6, <1>8, <2>3
<1>9. ASSUME e \in ToSet(r.parked) PROVE e > x
  <2>1. ~(e < x)
    BY <1>1, <1>4, <1>9
  <2> QED
    BY <1>2, <1>3, <1>6, <2>1
<1>10. e \in InFlight \/ Held(c, e)
  BY <1>1, <1>2 DEF Expected, Subscribed, Attaching
<1>11. ASSUME Held(c, e) PROVE e > x /\ Held(c, e)'
  <2>1. e \in ToSet(r.inbox) \/ e \in ToSet(r.parked)
    BY <1>1, <1>11 DEF Held, Contents
  <2> QED
    BY <1>1, <1>8, <1>9, <2>1 DEF Held, Contents
<1>12. e > x
  BY <1>7, <1>10, <1>11
<1>13. e > q.cursor
  BY <1>1, <1>4, <1>12
<1> QED
  BY <1>1, <1>2, <1>11, <1>13 DEF Expected

LEMMA OnMessageOwing ==
  ASSUME TypeInv, Shapes, Grows, Orders, Flights, Owing, NEW c \in Conns, OnMessage(c)
  PROVE  Owing'
<1> DEFINE r == conn[c]
           q == conn'[c]
           x == Head(r.inbox)
<1>1. base \in Nat /\ base >= base
  BY DEF TypeInv
<1>2. /\ Only(c) /\ q \in ConnState /\ UNCHANGED <<feed, base>> /\ excused \subseteq excused'
      /\ r.inbox # <<>> /\ q.inbox = Tail(r.inbox) /\ q.history = r.history
      /\ q.out = r.out \/ q.out = Append(r.out, Line(x, "live"))
      /\ seen' = seen \/ (r.pc \in {"drain", "live"} /\ Kept(r, q))
  BY OnMessageFields
<1>3. \A i \in DOMAIN r.out : i \in DOMAIN q.out /\ q.out[i] = r.out[i]
  <2>1. x \in Numbered
    BY <1>2, InboxSplit
  <2>2. CASE q.out = r.out
    BY <2>2
  <2>3. CASE q.out = Append(r.out, Line(x, "live"))
    BY <1>2, <2>1, <2>3, AppendSells
  <2> QED
    BY <1>2, <2>2, <2>3
<1>4. seen' = seen \/ (seen' = q.cursor /\ q.history = {})
  BY <1>2 DEF Kept, Shapes, Shaped
<1>5. \A e \in Owed : e \notin excused' /\ ~Sold(e) /\ Missing(c, e)' => Expected(c, e)'
  BY ParkOwing, LiveOwing
<1> QED
  BY <1>1, <1>2, <1>3, <1>4, <1>5, ConnOwing

\* Publishing and crashing leave what is sent and replayed alone, and what is
\* no longer in flight has reached every subscriber.
LEMMA PublishOwing ==
  ASSUME TypeInv, Grows, Owing, NEW p \in Pubs, Publish(p)
  PROVE  Owing'
<1>1. /\ pub[p] \in Numbered /\ pub' = [pub EXCEPT ![p] = 0]
      /\ excused \subseteq excused'
      /\ UNCHANGED <<globalEid, msg, stored, seen, base>>
      /\ \A c \in Conns : LET r == conn[c]  q == conn'[c] IN
           /\ q.inbox = IF r.pc \in Subscribed THEN Append(r.inbox, pub[p]) ELSE r.inbox
           /\ q.pc = r.pc /\ q.closing = r.closing /\ q.parked = r.parked
           /\ q.history = r.history /\ q.historySeen = r.historySeen /\ q.cursor = r.cursor
           /\ q.read = r.read /\ q.out = r.out
  BY PublishFields
<1>2. base' \in Nat /\ base' >= base
  BY <1>1 DEF TypeInv
<1>3. \A e : Sold(e) <=> Sold(e)'
  BY <1>1 DEF Sold
<1>4. ASSUME NEW e \in InFlight, e \notin InFlight' PROVE e = pub[p]
  <2>1. PICK q \in Pubs : e = pub[q] /\ e # 0
    BY DEF InFlight
  <2>2. CASE q # p
    <3>1. pub'[q] = e
      BY <1>1, <2>1, <2>2 DEF TypeInv
    <3> QED
      BY <1>4, <2>1, <3>1 DEF InFlight
  <2> QED
    BY <2>1, <2>2
<1>5. ASSUME NEW c \in Conns, conn[c].pc \in Subscribed
      PROVE  Contents(conn[c]) \cup {pub[p]} \subseteq Contents(conn'[c])
  <2> DEFINE t == conn[c].inbox
             u == conn'[c].inbox
             e == pub[p]
  <2>1. t \in Seq(Numbered) /\ e \in Numbered /\ u = Append(t, e) /\ conn'[c].parked = conn[c].parked
    BY <1>1, <1>5, ContentsType
  <2> HIDE DEF t, u, e
  <2>2. /\ \A i \in DOMAIN t : i \in DOMAIN u /\ u[i] = t[i]
        /\ Len(t) + 1 \in DOMAIN u /\ u[Len(t) + 1] = e
    BY <2>1, AppendElements
  <2>3. ToSet(t) \cup {e} \subseteq ToSet(u)
    BY <2>2 DEF ToSet
  <2> QED
    BY <2>1, <2>3 DEF Contents, t, u, e
<1>6. ASSUME NEW e \in Owed' PROVE (e <= seen => Sold(e))' /\ \A c \in Conns : (Missing(c, e) => Expected(c, e))'
  <2>1. e \in Owed
    BY <1>1, <1>2, <1>6, OwedStays
  <2>2. ASSUME NEW c \in Conns, Missing(c, e)' PROVE Expected(c, e)'
    <3>1. Missing(c, e)
      BY <1>1, <1>3, <2>2 DEF Missing
    <3>2. Expected(c, e)
      BY <2>1, <3>1 DEF Owing
    <3>3. ASSUME conn[c].pc \in Subscribed \ {"count"}, e \notin InFlight' PROVE Held(c, e)'
      <4>1. CASE e \in InFlight
        BY <1>4, <1>5, <3>3, <4>1 DEF Held
      <4>2. CASE e \notin InFlight
        <5>1. Held(c, e)
          BY <3>2, <3>3, <4>2 DEF Expected
        <5>2. CASE e \in Contents(conn[c])
          BY <1>5, <3>3, <5>2 DEF Held
        <5>3. CASE conn[c].closing /\ \A x \in ToSet(conn[c].parked) : x < e
          BY <1>1, <5>3 DEF Held
        <5>4. CASE conn[c].pc \in {"seen", "fetch"} /\ e <= conn[c].read
          BY <1>1, <5>4 DEF Held
        <5> QED
          BY <5>1, <5>2, <5>3, <5>4 DEF Held
      <4> QED
        BY <4>1, <4>2
    <3> QED
      BY <1>1, <3>2, <3>3 DEF Expected
  <2> QED
    BY <1>1, <1>3, <2>1, <2>2 DEF Owing
<1> QED
  BY <1>6 DEF Owing

\* A stored event is owed only if nothing has overtaken it: no cursor has.
LEMMA StoreOwing ==
  ASSUME TypeInv, Flights, Owing, NEW p \in Pubs, Store(p)
  PROVE  Owing'
<1>0. PICK x : x = pub[p]
  OBVIOUS
<1>1. /\ x \notin stored /\ stored' = stored \cup {x} /\ excused \subseteq excused'
      /\ UNCHANGED <<globalEid, msg, pub, seen, conn, base>>
  BY <1>0 DEF Store
<1>2. x \in InFlight /\ x \in Int
  BY <1>0, InFlightType DEF Store, InFlight, Numbered
<1>3. \A e : /\ Sold(e)' <=> Sold(e)
             /\ \A c \in Conns : /\ Missing(c, e)' <=> Missing(c, e)
                                 /\ Expected(c, e)' <=> Expected(c, e)
  BY <1>1 DEF Sold, Missing, Expected, Held, Contents, InFlight
<1>4. ASSUME NEW e \in Owed', e \in stored
      PROVE  (e <= seen => Sold(e))' /\ \A c \in Conns : (Missing(c, e) => Expected(c, e))'
  <2>1. e \in Owed
    BY <1>1, <1>4 DEF Owed
  <2> QED
    BY <1>1, <1>3, <2>1 DEF Owing
<1>5. ASSUME x \in Owed'
      PROVE  (x <= seen => Sold(x))' /\ \A c \in Conns : (Missing(c, x) => Expected(c, x))'
  <2>1. Leads(x)
    BY <1>1, <1>2, <1>5 DEF Flights, Owed
  <2>2. ~(x <= seen')
    <3>1. x > seen /\ seen \in Int
      BY <1>1, <2>1 DEF Leads, TypeInv
    <3> QED
      BY <1>1, <1>2, <3>1
  <2>3. ASSUME NEW c \in Conns PROVE Expected(c, x)
    <3>1. x > conn[c].cursor
      BY <1>1, <2>1 DEF Leads
    <3>2. x \notin conn[c].historySeen
      BY <1>1 DEF TypeInv, ConnState
    <3> QED
      BY <1>2, <3>1, <3>2 DEF Expected
  <2>4. \A c \in Conns : Expected(c, x)'
    BY <1>1, <2>3 DEF Expected, Held, Contents, InFlight
  <2>5. (x <= seen => Sold(x))'
    BY <1>1, <2>2
  <2> QED
    BY <2>4, <2>5
<1>6. ASSUME NEW e \in Owed' PROVE (e <= seen => Sold(e))' /\ \A c \in Conns : (Missing(c, e) => Expected(c, e))'
  <2>1. CASE e \in stored
    BY <1>4, <2>1
  <2>2. CASE e \notin stored
    <3>1. e = x
      BY <1>1, <2>2 DEF Owed
    <3> QED
      BY <1>5, <1>6, <3>1
  <2> QED
    BY <2>1, <2>2
<1> QED
  BY <1>6 DEF Owing

\* Numbering an event stores nothing, and leaves in flight what was.
LEMMA NumberOwing ==
  ASSUME TypeInv, Grows, Owing, NEW p \in Pubs, Number(p)
  PROVE  Owing'
<1>1. /\ pub[p] = 0 /\ pub' = [pub EXCEPT ![p] = globalEid']
      /\ UNCHANGED <<stored, seen, conn, base, excused>>
  BY NumberFields
<1>2. InFlight \subseteq InFlight'
  BY <1>1 DEF InFlight, TypeInv
<1>3. base' \in Nat /\ base' >= base
  BY <1>1 DEF TypeInv
<1>4. OutsGrow
  BY <1>1 DEF OutsGrow
<1>5. ASSUME NEW e \in Owed' PROVE (e <= seen => Sold(e))' /\ \A c \in Conns : (Missing(c, e) => Expected(c, e))'
  <2>1. e \in Owed
    BY <1>1, <1>3, <1>5, OwedStays
  <2>2. Sold(e) => Sold(e)'
    BY <1>4, SoldStays
  <2>3. ASSUME NEW c \in Conns, Missing(c, e)' PROVE Expected(c, e)'
    <3>1. \A x \in conn[c].history : msg'[x] = msg[x]
      BY LineType DEF Grows
    <3>2. Missing(c, e)
      BY <1>1, <2>2, <2>3, <3>1 DEF Missing
    <3>3. Expected(c, e)
      BY <2>1, <3>2 DEF Owing
    <3> QED
      BY <1>1, <1>2, <3>3 DEF Expected, Held, Contents
  <2> QED
    BY <1>1, <2>1, <2>2, <2>3 DEF Owing
<1> QED
  BY <1>5 DEF Owing

LEMMA CrashOwing ==
  ASSUME TypeInv, Grows, Owing, Crash
  PROVE  Owing'
<1>1. /\ \A c \in Conns : conn'[c] = IF conn[c].pc \in Subscribed THEN Closed(conn[c]) ELSE conn[c]
      /\ UNCHANGED <<globalEid, msg, stored, seen, base, excused>>
  BY CrashFields
<1>2. \A c \in Conns : conn[c].pc \in Subscribed =>
        /\ conn'[c].pc = "gone" /\ conn'[c].cursor = 0 /\ conn'[c].historySeen = {}
        /\ conn'[c].out = conn[c].out
  BY <1>1, ClosedFields DEF TypeInv
<1>3. OutsGrow
  BY <1>1, <1>2 DEF OutsGrow
<1>4. base' \in Nat /\ base' >= base
  BY <1>1 DEF TypeInv
<1>5. ASSUME NEW e \in Owed' PROVE (e <= seen => Sold(e))' /\ \A c \in Conns : (Missing(c, e) => Expected(c, e))'
  <2>1. e \in Owed
    BY <1>1, <1>4, <1>5, OwedStays
  <2>2. Sold(e) => Sold(e)'
    BY <1>3, SoldStays
  <2>3. ASSUME NEW c \in Conns, Missing(c, e)' PROVE Expected(c, e)'
    <3>1. CASE conn[c].pc \in Subscribed
      BY <1>2, <2>1, <3>1, OwedType DEF Expected, Subscribed, Attaching
    <3>2. CASE conn[c].pc \notin Subscribed
      <4>1. conn'[c] = conn[c]
        BY <1>1, <3>2
      <4>2. Missing(c, e)
        BY <1>1, <2>2, <2>3, <4>1 DEF Missing
      <4>3. Expected(c, e)
        BY <2>1, <4>2 DEF Owing
      <4> QED
        BY <3>2, <4>1, <4>3 DEF Expected
    <3> QED
      BY <3>1, <3>2
  <2> QED
    BY <1>1, <2>1, <2>2, <2>3 DEF Owing
<1> QED
  BY <1>5 DEF Owing

LEMMA OwingKept ==
  ASSUME TypeInv, Shapes, Orders, Flights, Owing, [Next]_vars
  PROVE  Owing'
<1>1. Grows
  BY FeedGrows
<1>2. ASSUME UNCHANGED <<msg, stored, pub, seen, conn, base, excused>> PROVE Owing'
  BY <1>2 DEF Owing, Owed, Sold, Missing, Expected, Held, Contents, InFlight
<1>3. CASE NumberElsewhere
  BY <1>2, <1>3 DEF NumberElsewhere
<1>4. ASSUME NEW p \in Pubs, Number(p) \/ Store(p) \/ Publish(p) PROVE Owing'
  BY <1>1, <1>4, NumberOwing, StoreOwing, PublishOwing
<1>5. ASSUME NEW c \in Conns,
             Attach(c) \/ Attachment(c) \/ FetchFails(c) \/ OnMessage(c) \/ MarkClosing(c)
      PROVE  Owing'
  BY <1>1, <1>5, EndsOwing, FetchOwing, SendHistoryOwing, AttachedOwing, DeliverParkedOwing,
     OnMessageOwing DEF Attachment
<1>6. CASE UNCHANGED vars
  BY <1>2, <1>6 DEF vars
<1> QED
  BY <1>1, <1>3, <1>4, <1>5, <1>6, CrashOwing DEF Next, Publishing

LEMMA LossesBegin ==
  ASSUME Init
  PROVE  Orders /\ Flights /\ Owing
<1>1. \A c \in Conns : conn[c] = Fresh
  BY DEF Init
<1>2. stored = {} /\ \A p \in Pubs : pub[p] = 0
  BY DEF Init
<1>3. Orders
  BY <1>1, FreshFields DEF Orders, Ordered, Rising, Below
<1>4. Flights
  BY <1>2 DEF Flights, InFlight
<1>5. Owing
  BY <1>2 DEF Owing, Owed
<1> QED
  BY <1>3, <1>4, <1>5

\* What is owed and unsent lies above every cursor, in the hands of every
\* connection that has subscribed, or is yet to be fetched.
THEOREM LossInvariant == Spec => [](TypeInv /\ Shapes /\ Orders /\ Flights /\ Owing)
<1>1. TypeInv /\ Shapes /\ Orders /\ Flights /\ Owing /\ [Next]_vars => (Orders /\ Flights /\ Owing)'
  BY OrdersKept, FlightsKept, OwingKept
<1> QED
  BY <1>1, LossesBegin, PlaybackInvariant, PTL DEF Spec

\* The stored cursor passes no message that was not handed to a connection's
\* socket, what "excused" names aside (fetchMissed, onRedisMessage, attach:
\* "nothing published during the burst is lost").
THEOREM NothingLostUnexplained == Spec => []LossExplained
<1>1. Owing => LossExplained
  <2> SUFFICES ASSUME Owing, NEW e \in stored \ excused, ~IsCopy(e), e > base, e <= seen
               PROVE  \E c \in Conns : \E x \in Handed(c) : msg[x] = e
    BY DEF LossExplained
  <2>1. Sold(e)
    BY DEF Owing, Owed, IsCopy
  <2>2. PICK c \in Conns : \E i \in DOMAIN conn[c].out : msg[conn[c].out[i].eid] = e
    BY <2>1 DEF Sold
  <2>3. PICK i \in DOMAIN conn[c].out : msg[conn[c].out[i].eid] = e
    BY <2>2
  <2> QED
    BY <2>3 DEF Handed, ToSet
<1> QED
  BY <1>1, LossInvariant, PTL
=============================================================================
