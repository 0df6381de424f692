------------------------- MODULE ReadMarkersProofs -------------------------
(***************************************************************************)
(* Theorems about ReadMarkers, for any number of tabs and messages: no     *)
(* marker lies in the future (SeenTypes), none moves back, in the gateway  *)
(* or in a tab, but where the storage brings another tab's (SeenNeverBack),*)
(* and the read trigger marks only what the user has had before their eyes *)
(* (SeenOwnMarksShown).                                                    *)
(***************************************************************************)
EXTENDS ReadMarkers, FiniteSetTheorems, WellFoundedInduction, TLAPS

\* A nonempty set of messages has a newest one.
LEMMA NewestExists ==
  ASSUME NEW n \in Nat, NEW S \in SUBSET (1..n), S # {}
  PROVE  \E x \in S : \A y \in S : y <= x
<1> DEFINE Up(y) == {x \in S : y <= x}
           T == {Up(y) : y \in S}
<1>1. IsFiniteSet(S)
  <2>1. IsFiniteSet(1..n)
    BY FS_Interval
  <2> QED
    BY <2>1, FS_Subset
<1>2. IsWellFoundedOn(StrictSubsetOrdering(S), SUBSET S)
  BY <1>1, FS_StrictSubsetOrderingWellFounded, FS_FiniteSubsetsOfFinite
<1>3. T \subseteq SUBSET S /\ T # {}
  OBVIOUS
<1>4. PICK A \in T : \A B \in T : <<B, A>> \notin StrictSubsetOrdering(S)
  <2> HIDE DEF T
  <2> QED
    BY <1>2, <1>3, WFMin
<1>5. PICK x \in S : A = Up(x)
  OBVIOUS
<1>6. ASSUME NEW y \in S, ~ (y <= x)
      PROVE  FALSE
  <2>1. Up(y) \subseteq A /\ Up(y) # A
    <3>1. x \in A /\ x \notin Up(y)
      BY <1>5, <1>6
    <3>2. ASSUME NEW z \in Up(y)
          PROVE  z \in Up(x)
      <4>1. x \in Int /\ y \in Int /\ z \in Int /\ y <= z
        OBVIOUS
      <4> QED
        BY <1>6, <4>1
    <3> QED
      BY <1>5, <3>1, <3>2
  <2>2. Up(y) \in T /\ Up(y) \in SUBSET S /\ A \in SUBSET S
    BY <1>3
  <2>3. <<Up(y), A>> \in StrictSubsetOrdering(S)
    BY <2>1, <2>2 DEF StrictSubsetOrdering
  <2> QED
    BY <1>4, <2>2, <2>3
<1> QED
  BY <1>6

\* Greatest is the newest message of a list, or 0.
LEMMA GreatestBounds ==
  ASSUME NEW n \in Nat, NEW S \in SUBSET (1..n)
  PROVE  Greatest(S) \in 0..n
<1>1. CASE S = {}
  BY <1>1 DEF Greatest
<1>2. CASE S # {}
  <2>1. \E x \in S : \A y \in S : y <= x
    BY <1>2, NewestExists
  <2>2. Greatest(S) \in S
    BY <1>2, <2>1 DEF Greatest
  <2>3. \A x \in S : x \in 0..n
    OBVIOUS
  <2> QED
    BY <2>2, <2>3
<1> QED
  BY <1>1, <1>2

-----------------------------------------------------------------------------
(* What the functions on a tab's state preserve. *)

\* A state of a tab that has its type and has not lost what t had read.
Ahead(u, t) == u \in TabState /\ u.lastSeen >= t.lastSeen

\* Times are natural numbers, and those of messages are among them.
LEMMA TimesTypes ==
  ASSUME log \in Seq(Writers)
  PROVE  /\ Len(log) \in Nat /\ DOMAIN log = 1..Len(log)
         /\ Now \in Nat /\ Times = 0..Now /\ Now \in Times /\ 0 \in Times
         /\ \A m \in DOMAIN log : Time(m) \in Times
<1>1. Len(log) \in Nat /\ DOMAIN log = 1..Len(log)
  OBVIOUS
<1> QED
  BY <1>1 DEF Now, Times, Time

LEMMA LastTimeType ==
  ASSUME log \in Seq(Writers), NEW t \in TabState
  PROVE  LastTime(t) \in Times
<1>1. t.list \in SUBSET (1..Len(log)) /\ Len(log) \in Nat
  BY TimesTypes DEF TabState
<1>2. Greatest(t.list) \in 0..Len(log)
  BY <1>1, GreatestBounds
<1> QED
  BY <1>1, <1>2 DEF LastTime, Time, Times, Now

LEMMA CountType ==
  ASSUME log \in Seq(Writers), NEW t \in TabState, NEW time \in Times
  PROVE  CountAfter(t, time) \in Nat
<1> DEFINE S == {m \in UnreadSource(t) : Important(m) /\ Time(m) > time}
<1>1. S \in SUBSET (1..Len(log)) /\ Len(log) \in Nat
  BY TimesTypes DEF TabState, UnreadSource
<1>2. IsFiniteSet(1..Len(log))
  BY <1>1, FS_Interval
<1>3. IsFiniteSet(S)
  BY <1>1, <1>2, FS_Subset
<1>4. Cardinality(S) \in Nat
  BY <1>3, FS_CardinalityType
<1> QED
  BY <1>4 DEF CountAfter

LEMMA UpdateBottomSeenType ==
  ASSUME NEW t \in TabState, NEW time \in Times
  PROVE  /\ UpdateBottomSeen(t, time) \in TabState
         /\ UpdateBottomSeen(t, time).lastSeen = t.lastSeen
BY DEF UpdateBottomSeen, TabState

LEMMA SetLastSeenType ==
  ASSUME log \in Seq(Writers), NEW t \in TabState, NEW time \in Times
  PROVE  Ahead(SetLastSeenMessage(t, time), t)
<1>1. Now \in Nat /\ Times = 0..Now
  BY TimesTypes
<1>2. CASE time < t.lastSeen
  BY <1>1, <1>2 DEF SetLastSeenMessage, Ahead, TabState
<1>3. CASE ~ (time < t.lastSeen)
  <2> DEFINE u == UpdateBottomSeen(t, time)
             n == IF Known(t) THEN CountAfter(t, time) ELSE u.count
  <2>1. u \in TabState
    BY UpdateBottomSeenType
  <2>2. n \in Nat
    BY <2>1, CountType DEF TabState
  <2>3. SetLastSeenMessage(t, time) = [u EXCEPT !.lastSeen = time, !.dirty = time, !.count = n]
    BY <1>3 DEF SetLastSeenMessage
  <2>4. [u EXCEPT !.lastSeen = time, !.dirty = time, !.count = n] \in TabState
    <3> HIDE DEF u, n
    <3> QED
      BY <2>1, <2>2 DEF TabState
  <2>5. [u EXCEPT !.lastSeen = time, !.dirty = time, !.count = n].lastSeen = time
    <3> HIDE DEF u, n
    <3> QED
      BY <2>1 DEF TabState
  <2>6. time >= t.lastSeen
    BY <1>1, <1>3 DEF TabState
  <2> QED
    BY <2>3, <2>4, <2>5, <2>6 DEF Ahead
<1> QED
  BY <1>2, <1>3

\* Ahead is reflexive and transitive, and blind to the fields but lastSeen.
LEMMA AheadRefl ==
  ASSUME log \in Seq(Writers), NEW t \in TabState
  PROVE  Ahead(t, t)
BY TimesTypes DEF Ahead, TabState

LEMMA AheadTrans ==
  ASSUME log \in Seq(Writers), NEW t \in TabState, NEW u, NEW v, Ahead(u, t), Ahead(v, u)
  PROVE  Ahead(v, t)
<1>1. Times \subseteq Nat
  BY TimesTypes
<1>2. t.lastSeen \in Nat /\ u.lastSeen \in Nat /\ v.lastSeen \in Nat
  BY <1>1 DEF Ahead, TabState
<1>3. v.lastSeen >= u.lastSeen /\ u.lastSeen >= t.lastSeen /\ v \in TabState
  BY DEF Ahead
<1>4. v.lastSeen >= t.lastSeen
  BY <1>2, <1>3
<1> QED
  BY <1>3, <1>4 DEF Ahead

LEMMA AdoptType ==
  ASSUME log \in Seq(Writers), NEW t \in TabState, NEW time \in Times
  PROVE  Ahead(Adopt(t, time), t)
BY SetLastSeenType, AheadRefl DEF Adopt

LEMMA ReconcileType ==
  ASSUME log \in Seq(Writers), NEW t \in TabState
  PROVE  Ahead(Reconcile(t), t)
<1>1. CASE ~Known(t)
  BY <1>1, AheadRefl DEF Reconcile
<1>2. CASE Known(t)
  <2> DEFINE n == CountAfter(t, t.lastSeen)
  <2>1. n \in Nat
    BY CountType DEF TabState
  <2>2. Reconcile(t) = [t EXCEPT !.count = n]
    BY <1>2 DEF Reconcile
  <2> HIDE DEF n
  <2>3. [t EXCEPT !.count = n] \in TabState /\ [t EXCEPT !.count = n].lastSeen = t.lastSeen
    BY <2>1 DEF TabState
  <2> QED
    BY <2>2, <2>3, AheadRefl DEF Ahead
<1> QED
  BY <1>1, <1>2

LEMMA ReadBufferType ==
  ASSUME log \in Seq(Writers), NEW t \in TabState
  PROVE  Ahead(ReadBuffer(t), t)
<1>1. t.focusSeen \in Times /\ t.bottomSeen \in Times /\ LastTime(t) \in Times
  BY LastTimeType DEF TabState
<1> QED
  BY <1>1, SetLastSeenType DEF ReadBuffer

LEMMA MarkBufferOpenReadType ==
  ASSUME log \in Seq(Writers), NEW t \in TabState
  PROVE  Ahead(MarkBufferOpenRead(t), t)
<1> DEFINE time == IF t.list # {} THEN LastTime(t) ELSE Now
           u == SetLastSeenMessage(t, time)
<1>1. time \in Times
  BY LastTimeType, TimesTypes
<1>2. Ahead(u, t)
  BY <1>1, SetLastSeenType
<1>3. MarkBufferOpenRead(t) = IF t.lastSeen >= time THEN t ELSE [u EXCEPT !.count = 0]
  BY DEF MarkBufferOpenRead
<1> HIDE DEF u, time
<1>4. [u EXCEPT !.count = 0] \in TabState /\ [u EXCEPT !.count = 0].lastSeen = u.lastSeen
  BY <1>2 DEF Ahead, TabState
<1> QED
  BY <1>2, <1>3, <1>4, AheadRefl DEF Ahead

LEMMA ShownType ==
  ASSUME log \in Seq(Writers), NEW t \in TabState
  PROVE  Ahead(Shown(t), t)
<1>1. Larger(t.shown, LastTime(t)) \in Times
  BY LastTimeType DEF Larger, TabState
<1>2. Shown(t) \in TabState /\ Shown(t).lastSeen = t.lastSeen
  BY <1>1 DEF Shown, TabState
<1> QED
  BY <1>2, AheadRefl DEF Ahead

LEMMA AddUnseenType ==
  ASSUME log \in Seq(Writers), NEW t \in TabState, NEW m \in DOMAIN log
  PROVE  Ahead(AddUnseen(t, m), t)
<1>1. Time(m) \in Times
  BY TimesTypes
<1>2. Ahead(SetLastSeenMessage(t, Time(m)), t) /\ Ahead(t, t)
  BY <1>1, SetLastSeenType, AheadRefl
<1>3. [t EXCEPT !.count = @ + 1] \in TabState /\ [t EXCEPT !.count = @ + 1].lastSeen = t.lastSeen
  BY DEF TabState
<1> QED
  BY <1>2, <1>3 DEF AddUnseen, Ahead

LEMMA FromSyncType ==
  ASSUME log \in Seq(Writers), NEW t \in TabState, server \in Times
  PROVE  Ahead(FromSync(t), t)
<1>1. Ahead(Adopt(t, server), t)
  BY AdoptType
<1>2. Ahead(Reconcile(Adopt(t, server)), Adopt(t, server))
  BY <1>1, ReconcileType DEF Ahead
<1> QED
  BY <1>1, <1>2, AheadTrans DEF FromSync

-----------------------------------------------------------------------------
(* The steps. *)

\* What NeverBack says of a step.
Forward ==
  /\ server' >= server
  /\ \A i \in Tabs : tab'[i].lastSeen >= tab[i].lastSeen \/ FromStorage(i)

Stored == [seen : Times, dirty : Times, events : [Tabs -> Seq(Times)]]

LEMMA InitTypes == Init => TypeOK
<1> SUFFICES ASSUME Init PROVE TypeOK
  OBVIOUS
<1>1. setting \in Setting /\ setting.start \in Nat
  BY ConstantsAssumption DEF Init, Setting
<1>2. log \in Seq(Writers)
  BY <1>1 DEF Init
<1>3. Now \in Nat /\ 0 \in Times
  BY <1>2, TimesTypes
<1>4. FreshTab \in TabState
  BY <1>3 DEF FreshTab, TabState
<1>5. setting.bounds \in [Kinds -> Nat]
  BY <1>1 DEF Setting
<1>6. storage \in Stored
  BY <1>3 DEF Init, Stored
<1> QED
  BY <1>1, <1>2, <1>3, <1>4, <1>5, <1>6, ConstantsAssumption DEF Init, TypeOK, Stored

\* Markers are numbers, which can be compared.
LEMMA NumbersOf ==
  ASSUME TypeOK
  PROVE  server \in Nat /\ \A i \in Tabs : tab[i].lastSeen \in Nat
<1>1. Times \subseteq Nat
  BY TimesTypes DEF TypeOK
<1> QED
  BY <1>1 DEF TypeOK, TabState

\* Of a step that posts no message only these variables have to be looked at.
LEMMA TypesFrom ==
  ASSUME TypeOK, UNCHANGED <<setting, log>>, budget' \in [Kinds -> Nat], server' \in Times,
         inbox' \in [Tabs -> Seq(Frames)], heartbeats' \in [Tabs -> Seq(Times)],
         tab' \in [Tabs -> TabState], storage' \in Stored, lost' \subseteq Times
  PROVE  TypeOK'
BY DEF TypeOK, Times, Now, Frames, TabState, Stored

LEMMA SpendType ==
  ASSUME TypeOK, NEW kind \in Kinds, Spend(kind)
  PROVE  budget' \in [Kinds -> Nat]
<1>1. budget \in [Kinds -> Nat] /\ budget[kind] \in Nat /\ budget[kind] > 0
  BY DEF TypeOK, Spend
<1>2. budget[kind] - 1 \in Nat
  BY <1>1
<1> QED
  BY <1>1, <1>2 DEF Spend

\* What the other tabs are told is times.
LEMMA NotifyType ==
  ASSUME TypeOK, NEW i \in Tabs, NEW time \in Times
  PROVE  Notify(i, time) \in [Tabs -> Seq(Times)]
<1> HIDE DEF Times
<1>1. \A j \in Tabs : storage.events[j] \in Seq(Times)
  BY DEF TypeOK
<1> QED
  BY <1>1 DEF Notify

LEMMA WriteThroughType ==
  ASSUME TypeOK, NEW i \in Tabs, NEW t \in TabState, WriteThrough(i, t)
  PROVE  storage' \in Stored
<1> DEFINE seen  == IF setting.shared /\ t.lastSeen # tab[i].lastSeen THEN t.lastSeen ELSE storage.seen
           dirty == IF setting.shared /\ t.dirty # tab[i].dirty THEN t.dirty ELSE storage.dirty
           events == IF seen # storage.seen THEN Notify(i, seen) ELSE storage.events
<1>1. storage.seen \in Times /\ storage.dirty \in Times /\ storage.events \in [Tabs -> Seq(Times)]
  BY DEF TypeOK
<1>2. seen \in Times /\ dirty \in Times
  BY <1>1 DEF TabState
<1> HIDE DEF seen, dirty
<1>3. events \in [Tabs -> Seq(Times)]
  BY <1>1, <1>2, NotifyType
<1>4. storage' = [seen |-> seen, dirty |-> dirty, events |-> events]
  BY DEF WriteThrough, seen, dirty
<1> HIDE DEF events
<1> QED
  BY <1>2, <1>3, <1>4 DEF Stored

LEMMA SetType ==
  ASSUME TypeOK, NEW i \in Tabs, NEW u, Ahead(u, tab[i]), Set(i, u)
  PROVE  /\ tab' \in [Tabs -> TabState] /\ storage' \in Stored
         /\ \A j \in Tabs : tab'[j].lastSeen >= tab[j].lastSeen
<1>1. tab \in [Tabs -> TabState] /\ log \in Seq(Writers)
  BY DEF TypeOK
<1>2. tab' = [tab EXCEPT ![i] = u] /\ u \in TabState
  BY DEF Set, Ahead
<1>3. \A j \in Tabs : Ahead(tab'[j], tab[j])
  BY <1>1, <1>2, AheadRefl
<1>4. storage' \in Stored
  BY <1>2, WriteThroughType DEF Set
<1> QED
  BY <1>1, <1>2, <1>3, <1>4 DEF Ahead

LEMMA FlushType ==
  ASSUME TypeOK, NEW i \in Tabs, NEW t, Ahead(t, tab[i]), FlushSeenEids(i, t)
  PROVE  /\ tab' \in [Tabs -> TabState] /\ heartbeats' \in [Tabs -> Seq(Times)]
         /\ storage' \in Stored
         /\ \A j \in Tabs : tab'[j].lastSeen >= tab[j].lastSeen
<1>1. t \in TabState /\ heartbeats \in [Tabs -> Seq(Times)] /\ log \in Seq(Writers)
  BY DEF Ahead, TypeOK
<1>2. CASE ~ (t.dirty # 0 /\ t.link = "up")
  BY <1>1, <1>2, SetType DEF FlushSeenEids
<1>3. CASE t.dirty # 0 /\ t.link = "up"
  <2>1. t.dirty \in Times /\ 0 \in Times
    BY <1>1, TimesTypes DEF TabState
  <2> DEFINE u == [t EXCEPT !.dirty = 0]
             q == IF heartbeats[i] # <<>> /\ heartbeats[i][Len(heartbeats[i])] = t.dirty
                  THEN heartbeats[i] ELSE Append(heartbeats[i], t.dirty)
  <2>2. u \in TabState /\ u.lastSeen = t.lastSeen
    BY <1>1, <2>1 DEF TabState
  <2>3. Ahead(u, tab[i])
    BY <2>2 DEF Ahead
  <2>4. Set(i, u)
    BY <1>3 DEF FlushSeenEids
  <2>5. q \in Seq(Times)
    BY <1>1, <2>1
  <2>6. heartbeats' = [heartbeats EXCEPT ![i] = q]
    BY <1>3 DEF FlushSeenEids
  <2> HIDE DEF u, q
  <2> QED
    BY <1>1, <2>3, <2>4, <2>5, <2>6, SetType
<1> QED
  BY <1>2, <1>3

\* A tab's actions that touch nothing but its own state.
LEMMA OwnStateStep ==
  ASSUME TypeOK, NEW i \in Tabs, NEW u, Ahead(u, tab[i]), Set(i, u),
         UNCHANGED <<setting, log, server, inbox, heartbeats, lost>>, budget' \in [Kinds -> Nat]
  PROVE  TypeOK' /\ Forward
<1>1. server \in Times /\ Times \subseteq Nat
  BY TimesTypes DEF TypeOK
<1>2. TypeOK'
  BY <1>1, SetType, TypesFrom DEF TypeOK
<1> QED
  BY <1>1, <1>2, SetType DEF Forward

LEMMA OpenBufferStep ==
  ASSUME TypeOK, NEW i \in Tabs, OpenBuffer(i)
  PROVE  TypeOK' /\ Forward
<1> DEFINE t == [tab[i] EXCEPT !.open = TRUE, !.focusSeen = 0]
<1>1. tab[i] \in TabState /\ log \in Seq(Writers) /\ "view" \in Kinds /\ Times \subseteq Nat
  BY ConstantsAssumption, TimesTypes DEF TypeOK
<1>2. t \in TabState /\ t.lastSeen = tab[i].lastSeen
  BY <1>1, TimesTypes DEF TabState
<1>3. Ahead(t, tab[i])
  BY <1>1, <1>2, AheadRefl DEF Ahead
<1>4. /\ budget' \in [Kinds -> Nat]
      /\ UNCHANGED <<setting, log, server, inbox, lost>>
      /\ IF t.focused THEN FlushSeenEids(i, Shown(MarkBufferOpenRead(t)))
                      ELSE Set(i, t) /\ UNCHANGED heartbeats
  BY <1>1, SpendType DEF OpenBuffer
<1> HIDE DEF t
<1>5. CASE t.focused
  <2>1. Ahead(MarkBufferOpenRead(t), t)
    BY <1>1, <1>2, MarkBufferOpenReadType
  <2>2. Ahead(Shown(MarkBufferOpenRead(t)), MarkBufferOpenRead(t))
    BY <1>1, <2>1, ShownType DEF Ahead
  <2>3. Ahead(Shown(MarkBufferOpenRead(t)), tab[i])
    BY <1>1, <1>2, <1>3, <2>1, <2>2, AheadTrans
  <2>4. /\ tab' \in [Tabs -> TabState] /\ heartbeats' \in [Tabs -> Seq(Times)]
        /\ storage' \in Stored
        /\ \A j \in Tabs : tab'[j].lastSeen >= tab[j].lastSeen
    BY <1>4, <1>5, <2>3, FlushType
  <2>5. TypeOK'
    BY <1>4, <2>4, TypesFrom DEF TypeOK
  <2> QED
    BY <1>4, <2>4, <2>5, NumbersOf DEF Forward
<1>6. CASE ~t.focused
  BY <1>3, <1>4, <1>6, OwnStateStep
<1> QED
  BY <1>5, <1>6

LEMMA LeaveBufferStep ==
  ASSUME TypeOK, NEW i \in Tabs, LeaveBuffer(i)
  PROVE  TypeOK' /\ Forward
<1> DEFINE u == [tab[i] EXCEPT !.open = FALSE, !.scrolled = FALSE]
<1>1. tab[i] \in TabState /\ log \in Seq(Writers) /\ "view" \in Kinds
  BY ConstantsAssumption DEF TypeOK
<1>2. u \in TabState /\ u.lastSeen = tab[i].lastSeen
  BY <1>1 DEF TabState
<1>3. Ahead(u, tab[i])
  BY <1>1, <1>2, AheadRefl DEF Ahead
<1> QED
  BY <1>1, <1>3, SpendType, OwnStateStep DEF LeaveBuffer

LEMMA BlurStep ==
  ASSUME TypeOK, NEW i \in Tabs, Blur(i)
  PROVE  TypeOK' /\ Forward
<1>1. tab[i] \in TabState /\ log \in Seq(Writers) /\ "view" \in Kinds
  BY ConstantsAssumption DEF TypeOK
<1> DEFINE t == [tab[i] EXCEPT !.focused = FALSE]
           bottom == IF t.scrolled THEN t.bottomSeen ELSE 0
           focus == IF t.focusSeen # 0 THEN t.focusSeen
                    ELSE IF t.list # {} THEN LastTime(t) ELSE Now
           u == IF ~t.open THEN t ELSE [t EXCEPT !.bottomSeen = bottom, !.focusSeen = focus]
<1>2. t \in TabState /\ t.lastSeen = tab[i].lastSeen
  BY <1>1 DEF TabState
<1>3. bottom \in Times /\ focus \in Times
  <2> HIDE DEF t
  <2> QED
    BY <1>1, <1>2, TimesTypes, LastTimeType DEF TabState
<1>4. Set(i, u)
  BY DEF Blur
<1>5. u \in TabState /\ u.lastSeen = t.lastSeen
  <2> HIDE DEF t, bottom, focus
  <2> QED
    BY <1>2, <1>3 DEF TabState
<1>6. Ahead(u, tab[i])
  BY <1>1, <1>2, <1>5, AheadRefl DEF Ahead
<1>7. UNCHANGED <<setting, log, server, inbox, heartbeats, lost>> /\ budget' \in [Kinds -> Nat]
  BY <1>1, SpendType DEF Blur
<1> HIDE DEF u
<1> QED
  BY <1>4, <1>6, <1>7, OwnStateStep

LEMMA FocusStep ==
  ASSUME TypeOK, NEW i \in Tabs, Focus(i)
  PROVE  TypeOK' /\ Forward
<1> DEFINE t == [tab[i] EXCEPT !.focused = TRUE, !.focusSeen = 0]
<1>1. tab[i] \in TabState /\ log \in Seq(Writers)
  BY DEF TypeOK
<1>2. t \in TabState /\ t.lastSeen = tab[i].lastSeen
  BY <1>1, TimesTypes DEF TabState
<1>3. Set(i, Shown(t)) /\ budget' \in [Kinds -> Nat]
      /\ UNCHANGED <<setting, log, server, inbox, heartbeats, lost>>
  BY DEF Focus, TypeOK
<1> HIDE DEF t
<1>4. Ahead(t, tab[i])
  BY <1>1, <1>2, AheadRefl DEF Ahead
<1>5. Ahead(Shown(t), tab[i])
  BY <1>1, <1>2, <1>4, ShownType, AheadTrans
<1> QED
  BY <1>3, <1>5, OwnStateStep

LEMMA ScrollUpStep ==
  ASSUME TypeOK, NEW i \in Tabs, ScrollUp(i)
  PROVE  TypeOK' /\ Forward
<1>1. tab[i] \in TabState /\ log \in Seq(Writers) /\ "view" \in Kinds
  BY ConstantsAssumption DEF TypeOK
<1> DEFINE seen == Larger(tab[i].shown, LastTime(tab[i]))
           bottom == IF tab[i].bottomSeen = 0 THEN LastTime(tab[i]) ELSE tab[i].bottomSeen
           u == [tab[i] EXCEPT !.scrolled = TRUE, !.shown = seen, !.bottomSeen = bottom]
<1>2. seen \in Times /\ bottom \in Times
  BY <1>1, LastTimeType DEF Larger, TabState
<1>3. Set(i, u)
  BY DEF ScrollUp
<1>4. u \in TabState /\ u.lastSeen = tab[i].lastSeen
  <2> HIDE DEF seen, bottom
  <2> QED
    BY <1>1, <1>2 DEF TabState
<1>5. UNCHANGED <<setting, log, server, inbox, heartbeats, lost>> /\ budget' \in [Kinds -> Nat]
  BY <1>1, SpendType DEF ScrollUp
<1>6. Ahead(u, tab[i])
  BY <1>1, <1>4, AheadRefl DEF Ahead
<1> HIDE DEF u
<1> QED
  BY <1>3, <1>5, <1>6, OwnStateStep

LEMMA ScrollToBottomStep ==
  ASSUME TypeOK, NEW i \in Tabs, ScrollToBottom(i)
  PROVE  TypeOK' /\ Forward
<1> DEFINE t == [tab[i] EXCEPT !.scrolled = FALSE, !.bottomSeen = 0]
<1>1. tab[i] \in TabState /\ log \in Seq(Writers)
  BY DEF TypeOK
<1>2. t \in TabState /\ t.lastSeen = tab[i].lastSeen
  BY <1>1, TimesTypes DEF TabState
<1>3. Set(i, Shown(t)) /\ budget' \in [Kinds -> Nat]
      /\ UNCHANGED <<setting, log, server, inbox, heartbeats, lost>>
  BY DEF ScrollToBottom, TypeOK
<1> HIDE DEF t
<1>4. Ahead(t, tab[i])
  BY <1>1, <1>2, AheadRefl DEF Ahead
<1>5. Ahead(Shown(t), tab[i])
  BY <1>1, <1>2, <1>4, ShownType, AheadTrans
<1> QED
  BY <1>3, <1>5, OwnStateStep

LEMMA OnScrollChangeStep ==
  ASSUME TypeOK, NEW i \in Tabs, OnScrollChange(i)
  PROVE  TypeOK' /\ Forward
<1> DEFINE t == tab[i]
<1>1. t \in TabState /\ log \in Seq(Writers) /\ t.list \in SUBSET DOMAIN log
  BY DEF TypeOK, TabState
<1>2. PICK user \in {FALSE, setting.scrolls}, top \in t.list, bottom \in t.list :
        LET visible == [t EXCEPT !.shown = IF user \/ t.focused THEN Larger(@, Time(bottom)) ELSE @]
            read == IF Time(top) <= t.lastSeen /\ (user \/ t.focused)
                    THEN ReadBuffer(visible) ELSE visible
            lower == UpdateBottomSeen(read, Time(bottom))
        IN  Set(i, IF lower # read /\ read.lastSeen = read.bottomSeen
                   THEN SetLastSeenMessage(lower, Time(bottom)) ELSE lower)
  BY ZenonT(40) DEF OnScrollChange
<1> DEFINE seen == IF user \/ t.focused THEN Larger(t.shown, Time(bottom)) ELSE t.shown
           visible == [t EXCEPT !.shown = seen]
           read == IF Time(top) <= t.lastSeen /\ (user \/ t.focused)
                   THEN ReadBuffer(visible) ELSE visible
           lower == UpdateBottomSeen(read, Time(bottom))
           u == IF lower # read /\ read.lastSeen = read.bottomSeen
                THEN SetLastSeenMessage(lower, Time(bottom)) ELSE lower
<1>3. Time(bottom) \in Times
  BY <1>1, TimesTypes
<1>4. Set(i, u)
  BY <1>2
<1>5. seen \in Times
  BY <1>1, <1>3 DEF Larger, TabState
<1>6. visible \in TabState /\ visible.lastSeen = t.lastSeen
  <2> HIDE DEF seen
  <2> QED
    BY <1>1, <1>5 DEF TabState
<1>7. Ahead(visible, t)
  BY <1>1, <1>6, AheadRefl DEF Ahead
<1>8. Ahead(read, t)
  <2> HIDE DEF visible
  <2>1. Ahead(ReadBuffer(visible), visible)
    BY <1>1, <1>6, ReadBufferType
  <2> QED
    BY <1>1, <1>6, <1>7, <2>1, AheadTrans
<1>9. Ahead(lower, t)
  <2> HIDE DEF read
  <2>1. read \in TabState
    BY <1>8 DEF Ahead
  <2> QED
    BY <1>3, <1>8, <2>1, UpdateBottomSeenType DEF Ahead
<1>10. Ahead(u, t)
  <2> HIDE DEF read, lower
  <2>1. lower \in TabState
    BY <1>9 DEF Ahead
  <2>2. Ahead(SetLastSeenMessage(lower, Time(bottom)), lower)
    BY <1>1, <1>3, <2>1, SetLastSeenType
  <2> QED
    BY <1>1, <1>9, <2>1, <2>2, AheadTrans
<1> HIDE DEF u
<1> QED
  BY <1>4, <1>10, OwnStateStep DEF OnScrollChange, TypeOK

\* What is left of a queue of frames when one is taken, put or lost is frames.
LEMMA FramesTypes ==
  ASSUME log \in Seq(Writers), NEW q \in Seq(Frames)
  PROVE  /\ q # <<>> => Head(q) \in Frames /\ Tail(q) \in Seq(Frames)
         /\ \A f \in Frames : Append(q, f) \in Seq(Frames)
         /\ Echoless(q) \in Seq(Frames)
<1>1. 0 \in Times
  BY TimesTypes
<1>2. Frame("echo", 0) \in Frames
  BY <1>1 DEF Frame, Frames
<1> HIDE DEF Frames
<1>3. Len(q) \in Nat /\ DOMAIN q = 1..Len(q) /\ \A k \in 1..Len(q) : q[k] \in Frames
  OBVIOUS
<1>4. Echoless(q) \in [1..Len(q) -> Frames]
  BY <1>2, <1>3 DEF Echoless
<1>5. Echoless(q) \in Seq(Frames)
  BY <1>3, <1>4
<1> QED
  BY <1>5

\* A message is posted: there are more messages and later times.
LEMMA PostStep ==
  ASSUME TypeOK, Post
  PROVE  TypeOK' /\ Forward
<1>1. /\ log \in Seq(Writers) /\ inbox \in [Tabs -> Seq(Frames)]
      /\ Len(log) \in Nat /\ DOMAIN log = 1..Len(log) /\ Times = 0..Now
      /\ "post" \in Kinds
  BY TimesTypes, ConstantsAssumption DEF TypeOK
<1>2. PICK who \in Writers : log' = Append(log, who)
  BY DEF Post
<1>3. /\ log' \in Seq(Writers) /\ Len(log') = Len(log) + 1
      /\ DOMAIN log' = 1..(Len(log) + 1)
  BY <1>1, <1>2
<1>4. DOMAIN log \subseteq DOMAIN log' /\ Len(log) + 1 \in DOMAIN log'
  BY <1>1, <1>3
<1>5. Times \subseteq Times'
  BY <1>1, <1>3 DEF Times, Now
<1>6. Frames \subseteq Frames' /\ Frame("msg", Len(log) + 1) \in Frames'
  BY <1>4, <1>5 DEF Frames, Frame
<1>7. TabState \subseteq TabState'
  BY <1>4, <1>5 DEF TabState
<1>8. inbox' \in [Tabs -> Seq(Frames')]
  <2> HIDE DEF Frames
  <2>1. ASSUME NEW i \in Tabs
        PROVE  inbox'[i] \in Seq(Frames')
    <3>1. inbox[i] \in Seq(Frames) /\ inbox[i] \in Seq(Frames')
      BY <1>1, <1>6
    <3>2. Append(inbox[i], Frame("msg", Len(log) + 1)) \in Seq(Frames')
      BY <1>6, <3>1
    <3> QED
      BY <3>1, <3>2 DEF Post
  <2>2. inbox' = [i \in Tabs |-> inbox'[i]]
    BY DEF Post
  <2> QED
    BY <2>1, <2>2
<1>9. budget' \in [Kinds -> Nat] /\ UNCHANGED <<setting, server, heartbeats, tab, storage, lost>>
  BY <1>1, SpendType DEF Post
<1>10. tab' \in [Tabs -> TabState'] /\ heartbeats' \in [Tabs -> Seq(Times')]
       /\ server' \in Times' /\ lost' \subseteq Times'
  <2> HIDE DEF Times, TabState
  <2>1. \A i \in Tabs : heartbeats[i] \in Seq(Times')
    BY <1>5 DEF TypeOK
  <2> QED
    BY <1>5, <1>7, <1>9, <2>1 DEF TypeOK
<1>11. storage' \in [seen : Times', dirty : Times', events : [Tabs -> Seq(Times')]]
  <2> HIDE DEF Times
  <2>1. storage \in [seen : Times, dirty : Times, events : [Tabs -> Seq(Times)]]
    BY DEF TypeOK
  <2>2. Seq(Times) \subseteq Seq(Times')
    BY <1>5
  <2>3. storage.events \in [Tabs -> Seq(Times')]
    BY <2>1, <2>2
  <2>4. storage = [seen |-> storage.seen, dirty |-> storage.dirty, events |-> storage.events]
    BY <2>1
  <2>5. storage.seen \in Times' /\ storage.dirty \in Times'
    BY <1>5, <2>1
  <2> QED
    BY <1>9, <2>3, <2>4, <2>5
<1>13. TypeOK'
  BY <1>3, <1>8, <1>9, <1>10, <1>11 DEF TypeOK
<1>12. server \in Nat /\ \A i \in Tabs : tab[i].lastSeen \in Nat
  <2>1. Times \subseteq Nat
    BY <1>1, TimesTypes
  <2> QED
    BY <2>1 DEF TypeOK, TabState
<1> QED
  BY <1>9, <1>12, <1>13 DEF Forward

\* An action that changes a tab's state and its queue of frames.
LEMMA FrameStep ==
  ASSUME TypeOK, NEW i \in Tabs, NEW u, Ahead(u, tab[i]), Set(i, u),
         NEW q \in Seq(Frames), inbox' = [inbox EXCEPT ![i] = q],
         heartbeats' \in [Tabs -> Seq(Times)], lost' \subseteq Times,
         UNCHANGED <<setting, log, server>>, budget' \in [Kinds -> Nat]
  PROVE  TypeOK' /\ Forward
<1>1. server \in Times /\ Times \subseteq Nat
  BY TimesTypes DEF TypeOK
<1>2. inbox' \in [Tabs -> Seq(Frames)]
  <2> HIDE DEF Frames
  <2> QED
    BY DEF TypeOK
<1>3. TypeOK'
  BY <1>1, <1>2, SetType, TypesFrom DEF TypeOK
<1> QED
  BY <1>1, <1>3, SetType DEF Forward

LEMMA ReceiveMessageStep ==
  ASSUME TypeOK, NEW i \in Tabs, ReceiveMessage(i)
  PROVE  TypeOK' /\ Forward
<1>1. /\ tab[i] \in TabState /\ log \in Seq(Writers) /\ inbox[i] \in Seq(Frames)
      /\ budget \in [Kinds -> Nat] /\ heartbeats \in [Tabs -> Seq(Times)] /\ lost \subseteq Times
  BY DEF TypeOK
<1> DEFINE m == Head(inbox[i]).value
           t == [tab[i] EXCEPT !.loaded = TRUE, !.list = @ \cup {m}]
           u == IF m \in tab[i].list THEN tab[i] ELSE Shown(AddUnseen(t, m))
<1>2. /\ inbox[i] # <<>> /\ Head(inbox[i]).kind = "msg" /\ Set(i, u)
      /\ inbox' = [inbox EXCEPT ![i] = Tail(inbox[i])]
      /\ UNCHANGED <<setting, budget, log, server, heartbeats, lost>>
  BY DEF ReceiveMessage
<1>3. Tail(inbox[i]) \in Seq(Frames) /\ Head(inbox[i]) \in Frames
  BY <1>1, <1>2, FramesTypes
<1>4. m \in DOMAIN log
  BY <1>2, <1>3 DEF Frames
<1> HIDE DEF m
<1>5. t \in TabState /\ t.lastSeen = tab[i].lastSeen
  BY <1>1, <1>4 DEF TabState
<1> HIDE DEF t
<1>6. Ahead(t, tab[i])
  BY <1>1, <1>5, AheadRefl DEF Ahead
<1>7. Ahead(AddUnseen(t, m), t)
  BY <1>1, <1>4, <1>5, AddUnseenType
<1>8. Ahead(Shown(AddUnseen(t, m)), AddUnseen(t, m))
  BY <1>1, <1>7, ShownType DEF Ahead
<1>9. Ahead(u, tab[i])
  BY <1>1, <1>5, <1>6, <1>7, <1>8, AheadRefl, AheadTrans
<1> HIDE DEF u
<1> QED
  BY <1>1, <1>2, <1>3, <1>9, FrameStep

LEMMA ReceiveEchoStep ==
  ASSUME TypeOK, NEW i \in Tabs, ReceiveEcho(i)
  PROVE  TypeOK' /\ Forward
<1>1. /\ tab[i] \in TabState /\ log \in Seq(Writers) /\ inbox[i] \in Seq(Frames)
      /\ budget \in [Kinds -> Nat] /\ heartbeats \in [Tabs -> Seq(Times)] /\ lost \subseteq Times
  BY DEF TypeOK
<1> DEFINE time == Head(inbox[i]).value
<1>2. /\ inbox[i] # <<>> /\ Head(inbox[i]).kind = "echo" /\ Set(i, Adopt(tab[i], time))
      /\ inbox' = [inbox EXCEPT ![i] = Tail(inbox[i])]
      /\ UNCHANGED <<setting, budget, log, server, heartbeats, lost>>
  BY DEF ReceiveEcho
<1>3. Tail(inbox[i]) \in Seq(Frames) /\ Head(inbox[i]) \in Frames
  BY <1>1, <1>2, FramesTypes
<1>4. time \in Times
  BY <1>2, <1>3 DEF Frames
<1> HIDE DEF time
<1>5. Ahead(Adopt(tab[i], time), tab[i])
  BY <1>1, <1>4, AdoptType
<1> QED
  BY <1>1, <1>2, <1>3, <1>5, FrameStep

LEMMA LoadHistoryStep ==
  ASSUME TypeOK, NEW i \in Tabs, LoadHistory(i)
  PROVE  TypeOK' /\ Forward
<1>1. tab[i] \in TabState /\ log \in Seq(Writers) /\ budget \in [Kinds -> Nat]
  BY DEF TypeOK
<1> DEFINE t == [tab[i] EXCEPT !.loaded = TRUE, !.list = @ \cup DOMAIN log]
<1>2. Set(i, Shown(Reconcile(t))) /\ UNCHANGED <<setting, budget, log, server, inbox, heartbeats, lost>>
  BY DEF LoadHistory
<1>3. t \in TabState /\ t.lastSeen = tab[i].lastSeen
  BY <1>1 DEF TabState
<1> HIDE DEF t
<1>4. Ahead(t, tab[i])
  BY <1>1, <1>3, AheadRefl DEF Ahead
<1>5. Ahead(Reconcile(t), t)
  BY <1>1, <1>3, ReconcileType
<1>6. Ahead(Shown(Reconcile(t)), Reconcile(t))
  BY <1>1, <1>5, ShownType DEF Ahead
<1>7. Ahead(Shown(Reconcile(t)), tab[i])
  BY <1>1, <1>3, <1>4, <1>5, <1>6, AheadTrans
<1> QED
  BY <1>1, <1>2, <1>7, OwnStateStep

LEMMA SendStateStep ==
  ASSUME TypeOK, NEW i \in Tabs, SendState(i)
  PROVE  TypeOK' /\ Forward
<1>1. tab[i] \in TabState /\ log \in Seq(Writers) /\ Times \subseteq Nat
  BY TimesTypes DEF TypeOK
<1>2. FlushSeenEids(i, tab[i]) /\ UNCHANGED <<setting, budget, log, server, inbox, lost>>
  BY DEF SendState
<1>3. Ahead(tab[i], tab[i])
  BY <1>1, AheadRefl
<1>4. /\ tab' \in [Tabs -> TabState] /\ heartbeats' \in [Tabs -> Seq(Times)]
      /\ storage' \in Stored
      /\ \A j \in Tabs : tab'[j].lastSeen >= tab[j].lastSeen
  BY <1>2, <1>3, FlushType
<1>5. TypeOK'
  BY <1>2, <1>4, TypesFrom DEF TypeOK
<1> QED
  BY <1>2, <1>4, <1>5, NumbersOf DEF Forward

LEMMA TakeHeartbeatStep ==
  ASSUME TypeOK, NEW i \in Tabs, TakeHeartbeat(i)
  PROVE  TypeOK' /\ Forward
<1>1. /\ log \in Seq(Writers) /\ heartbeats \in [Tabs -> Seq(Times)]
      /\ inbox \in [Tabs -> Seq(Frames)] /\ server \in Times /\ Times \subseteq Nat
      /\ tab \in [Tabs -> TabState]
  BY TimesTypes DEF TypeOK
<1>2. /\ heartbeats[i] # <<>> /\ server' = Merged(Head(heartbeats[i]))
      /\ heartbeats' = [heartbeats EXCEPT ![i] = Tail(heartbeats[i])]
      /\ UNCHANGED <<setting, budget, log, tab, storage, lost>>
  BY DEF TakeHeartbeat
<1>3. /\ Head(heartbeats[i]) \in Times
      /\ heartbeats' \in [Tabs -> Seq(Times)]
  <2> HIDE DEF Times
  <2>1. heartbeats[i] \in Seq(Times)
    BY <1>1
  <2> QED
    BY <1>1, <1>2, <2>1
<1>4. server' \in Times /\ server' >= server
  BY <1>1, <1>2, <1>3 DEF Merged, Larger
<1>5. inbox' \in [Tabs -> Seq(Frames)]
  <2>1. CASE server' = server
    BY <1>1, <2>1 DEF TakeHeartbeat
  <2>2. CASE server' # server
    <3>1. Frame("echo", server') \in Frames
      BY <1>4 DEF Frame, Frames
    <3>2. inbox' = [j \in Tabs |-> IF tab[j].link = "up"
                                   THEN Append(inbox[j], Frame("echo", server')) ELSE inbox[j]]
      BY <2>2 DEF TakeHeartbeat
    <3> HIDE DEF Frames
    <3> QED
      BY <1>1, <3>1, <3>2
  <2> QED
    BY <2>1, <2>2
<1>6. \A j \in Tabs : tab[j].lastSeen \in Nat
  BY <1>1 DEF TabState
<1>7. TypeOK'
  BY <1>1, <1>2, <1>3, <1>4, <1>5, TypesFrom DEF TypeOK, Stored
<1> QED
  BY <1>2, <1>4, <1>6, <1>7 DEF Forward

LEMMA MergeFailsStep ==
  ASSUME TypeOK, NEW i \in Tabs, MergeFails(i)
  PROVE  TypeOK' /\ Forward
<1>1. /\ heartbeats[i] # <<>> /\ heartbeats' = [heartbeats EXCEPT ![i] = Tail(heartbeats[i])]
      /\ lost' = lost \cup {Head(heartbeats[i])}
      /\ UNCHANGED <<setting, log, server, inbox, tab, storage>>
      /\ budget' \in [Kinds -> Nat]
  BY ConstantsAssumption, SpendType DEF MergeFails
<1>2. heartbeats' \in [Tabs -> Seq(Times)] /\ lost' \subseteq Times
  <2> HIDE DEF Times
  <2>1. heartbeats \in [Tabs -> Seq(Times)] /\ heartbeats[i] \in Seq(Times) /\ lost \subseteq Times
    BY DEF TypeOK
  <2>2. Head(heartbeats[i]) \in Times /\ Tail(heartbeats[i]) \in Seq(Times)
    BY <1>1, <2>1
  <2> QED
    BY <1>1, <2>1, <2>2
<1>3. TypeOK'
  BY <1>1, <1>2, TypesFrom DEF TypeOK, Stored
<1>4. server \in Nat /\ \A j \in Tabs : tab[j].lastSeen \in Nat
  BY TimesTypes DEF TypeOK, TabState
<1> QED
  BY <1>1, <1>3, <1>4 DEF Forward

LEMMA StorageEventStep ==
  ASSUME TypeOK, NEW i \in Tabs, StorageEvent(i)
  PROVE  TypeOK' /\ Forward
<1>1. /\ tab \in [Tabs -> TabState] /\ tab[i] \in TabState /\ Times \subseteq Nat
      /\ storage.events \in [Tabs -> Seq(Times)] /\ storage.events[i] \in Seq(Times)
      /\ storage.seen \in Times /\ storage.dirty \in Times
  BY TimesTypes DEF TypeOK
<1> DEFINE time == Head(storage.events[i])
           back == Larger(tab[i].back, tab[i].lastSeen)
           u == [tab[i] EXCEPT !.back = back, !.lastSeen = time]
           events == [storage.events EXCEPT ![i] = Tail(storage.events[i])]
<1>2. /\ storage.events[i] # <<>> /\ tab' = [tab EXCEPT ![i] = u]
      /\ storage' = [storage EXCEPT !.events[i] = Tail(storage.events[i])]
      /\ UNCHANGED <<setting, budget, log, server, inbox, heartbeats, lost>>
  BY DEF StorageEvent
<1>3. time \in Times /\ Tail(storage.events[i]) \in Seq(Times)
  <2> HIDE DEF Times
  <2> QED
    BY <1>1, <1>2
<1>4. back \in Times
  BY <1>1 DEF Larger, TabState
<1> HIDE DEF time, back
<1>5. u \in TabState /\ u.lastSeen = time
  BY <1>1, <1>3, <1>4 DEF TabState
<1> HIDE DEF u
<1>6. events \in [Tabs -> Seq(Times)]
  BY <1>1, <1>3
<1>7. events[i] = Tail(storage.events[i])
  BY <1>1
<1> HIDE DEF events
<1>8. storage' \in Stored /\ storage'.events = events
  <2>1. storage' = [storage EXCEPT !.events = events]
    BY <1>2 DEF events
  <2>2. storage \in Stored
    BY DEF Stored, TypeOK
  <2> QED
    BY <1>6, <2>1, <2>2 DEF Stored
<1>9. TypeOK'
  <2>1. tab' \in [Tabs -> TabState]
    BY <1>1, <1>2, <1>5
  <2> QED
    BY <1>2, <1>8, <2>1, TypesFrom DEF TypeOK
<1>10. tab'[i] = u /\ \A j \in Tabs \ {i} : tab'[j] = tab[j]
  BY <1>1, <1>2
<1>11. FromStorage(i)
  BY <1>2, <1>5, <1>7, <1>8, <1>10 DEF FromStorage, time, StorageEvent
<1> QED
  BY <1>2, <1>9, <1>10, <1>11, NumbersOf DEF Forward

LEMMA WriteMapsStep ==
  ASSUME TypeOK, NEW i \in Tabs, WriteMaps(i)
  PROVE  TypeOK' /\ Forward
<1>1. /\ tab[i].lastSeen \in Times /\ tab[i].dirty \in Times /\ storage.dirty \in Times
      /\ Times \subseteq Nat
  BY TimesTypes DEF TypeOK, TabState
<1>2. PICK dirty \in {storage.dirty, tab[i].dirty} :
        storage' = [seen |-> tab[i].lastSeen, dirty |-> dirty, events |-> Notify(i, tab[i].lastSeen)]
  BY DEF WriteMaps
<1>3. Notify(i, tab[i].lastSeen) \in [Tabs -> Seq(Times)]
  BY <1>1, NotifyType
<1>4. storage' \in Stored
  BY <1>1, <1>2, <1>3 DEF Stored
<1>5. UNCHANGED <<setting, log, server, inbox, heartbeats, tab, lost>> /\ budget' \in [Kinds -> Nat]
  BY ConstantsAssumption, SpendType DEF WriteMaps
<1>6. TypeOK'
  BY <1>4, <1>5, TypesFrom DEF TypeOK
<1>7. server \in Nat /\ \A j \in Tabs : tab[j].lastSeen \in Nat
  BY <1>1 DEF TypeOK, TabState
<1> QED
  BY <1>5, <1>6, <1>7 DEF Forward

LEMMA BootStep ==
  ASSUME TypeOK, NEW i \in Tabs, Boot(i)
  PROVE  TypeOK' /\ Forward
<1>1. /\ tab[i] \in TabState /\ log \in Seq(Writers) /\ budget \in [Kinds -> Nat]
      /\ server \in Times
  BY DEF TypeOK
<1> DEFINE tail == {m \in DOMAIN log : Time(m) > server}
           t == [tab[i] EXCEPT !.link = "up", !.tailed = TRUE, !.tail = tail]
<1>2. Set(i, FromSync(t)) /\ UNCHANGED <<setting, budget, log, server, inbox, heartbeats, lost>>
  BY DEF Boot
<1>3. tail \in SUBSET DOMAIN log
  OBVIOUS
<1> HIDE DEF tail
<1>4. t \in TabState /\ t.lastSeen = tab[i].lastSeen
  BY <1>1, <1>3 DEF TabState
<1> HIDE DEF t
<1>5. Ahead(t, tab[i])
  BY <1>1, <1>4, AheadRefl DEF Ahead
<1>6. Ahead(FromSync(t), tab[i])
  BY <1>1, <1>4, <1>5, FromSyncType, AheadTrans
<1> QED
  BY <1>1, <1>2, <1>6, OwnStateStep

LEMMA SyncArrivesStep ==
  ASSUME TypeOK, NEW i \in Tabs, SyncArrives(i)
  PROVE  TypeOK' /\ Forward
<1>1. /\ tab[i] \in TabState /\ log \in Seq(Writers) /\ budget \in [Kinds -> Nat]
      /\ server \in Times
  BY DEF TypeOK
<1>2. Ahead(FromSync(tab[i]), tab[i])
  BY <1>1, FromSyncType
<1> QED
  BY <1>1, <1>2, OwnStateStep DEF SyncArrives

\* What a socket takes with it leaves times.
LEMMA DropHeartbeatsType ==
  ASSUME TypeOK, NEW i \in Tabs, NEW more \in SUBSET Times, DropHeartbeats(i, more)
  PROVE  heartbeats' \in [Tabs -> Seq(Times)] /\ lost' \subseteq Times
<1>1. heartbeats \in [Tabs -> Seq(Times)] /\ heartbeats[i] \in Seq(Times) /\ lost \subseteq Times
  BY DEF TypeOK
<1> HIDE DEF Times
<1>2. PICK n \in 0..Len(heartbeats[i]) :
        /\ heartbeats' = [heartbeats EXCEPT ![i] = SubSeq(@, 1, n)]
        /\ lost' = lost \cup more \cup {heartbeats[i][k] : k \in n + 1..Len(heartbeats[i])}
  BY DEF DropHeartbeats
<1>3. Len(heartbeats[i]) \in Nat /\ \A k \in 1..Len(heartbeats[i]) : heartbeats[i][k] \in Times
  BY <1>1
<1>4. SubSeq(heartbeats[i], 1, n) \in Seq(Times)
  BY <1>1, <1>3
<1>5. \A k \in n + 1..Len(heartbeats[i]) : heartbeats[i][k] \in Times
  BY <1>3
<1> QED
  BY <1>1, <1>2, <1>4, <1>5

LEMMA DisconnectsStep ==
  ASSUME TypeOK, NEW i \in Tabs, Disconnects(i)
  PROVE  TypeOK' /\ Forward
<1>1. /\ tab[i] \in TabState /\ log \in Seq(Writers) /\ inbox[i] \in Seq(Frames)
      /\ "fault" \in Kinds
  BY ConstantsAssumption DEF TypeOK
<1> DEFINE u == [tab[i] EXCEPT !.link = "down", !.tailed = FALSE, !.tail = {}]
<1>2. u \in TabState /\ u.lastSeen = tab[i].lastSeen
  BY <1>1 DEF TabState
<1>3. Set(i, u) /\ UNCHANGED <<setting, log, server>>
      /\ inbox' = [inbox EXCEPT ![i] = Echoless(inbox[i])]
  BY DEF Disconnects
<1> HIDE DEF u
<1>4. Ahead(u, tab[i])
  BY <1>1, <1>2, AheadRefl DEF Ahead
<1>5. budget' \in [Kinds -> Nat] /\ Echoless(inbox[i]) \in Seq(Frames)
  BY <1>1, SpendType, FramesTypes DEF Disconnects
<1>6. heartbeats' \in [Tabs -> Seq(Times)] /\ lost' \subseteq Times
  BY DropHeartbeatsType DEF Disconnects
<1> QED
  BY <1>3, <1>4, <1>5, <1>6, FrameStep

\* What a reload finds in the storage.
Kept(i) == IF setting.shared THEN [lastSeen |-> storage.seen, dirty |-> storage.dirty]
           ELSE [lastSeen |-> tab[i].lastSeen, dirty |-> tab[i].dirty]

LEMMA ReloadStep ==
  ASSUME TypeOK, NEW i \in Tabs, Reload(i)
  PROVE  TypeOK' /\ Forward
<1>1. /\ tab \in [Tabs -> TabState] /\ tab[i] \in TabState /\ Len(log) \in Nat
      /\ Times \subseteq Nat /\ 0 \in Times /\ storage \in Stored /\ inbox \in [Tabs -> Seq(Frames)]
  BY TimesTypes DEF TypeOK, Stored
<1>2. Kept(i).lastSeen \in Times /\ Kept(i).dirty \in Times
  BY <1>1 DEF Kept, TabState, Stored
<1>3. PICK badge \in 0..Len(log) :
        tab' = [tab EXCEPT ![i] = [FreshTab EXCEPT !.lastSeen = Kept(i).lastSeen,
                                                   !.dirty = Kept(i).dirty, !.count = badge]]
  BY DEF Reload, Kept
<1> DEFINE u == [FreshTab EXCEPT !.lastSeen = Kept(i).lastSeen, !.dirty = Kept(i).dirty,
                                 !.count = badge]
<1>4. u \in TabState /\ u.lastSeen = Kept(i).lastSeen /\ u.link = "new"
  <2>1. badge \in Nat /\ {} \in SUBSET DOMAIN log
    BY <1>1
  <2> QED
    BY <1>1, <1>2, <2>1 DEF TabState, FreshTab
<1>5. tab' = [tab EXCEPT ![i] = u]
  BY <1>3
<1> HIDE DEF u
<1>6. tab'[i] = u /\ (\A j \in Tabs \ {i} : tab'[j] = tab[j]) /\ tab' \in [Tabs -> TabState]
  BY <1>1, <1>4, <1>5
<1>7. /\ UNCHANGED <<setting, log, server>> /\ inbox' = [inbox EXCEPT ![i] = <<>>]
      /\ storage' = [storage EXCEPT !.events[i] = <<>>]
      /\ budget' \in [Kinds -> Nat]
  BY ConstantsAssumption, SpendType DEF Reload
<1>8. heartbeats' \in [Tabs -> Seq(Times)] /\ lost' \subseteq Times
  <2> DEFINE more == IF Kept(i).dirty < tab[i].dirty THEN {tab[i].dirty} ELSE {}
  <2>1. more \in SUBSET Times
    BY <1>1 DEF TabState
  <2>2. DropHeartbeats(i, more)
    BY DEF Reload, Kept
  <2> HIDE DEF more
  <2> QED
    BY <2>1, <2>2, DropHeartbeatsType
<1>9. inbox' \in [Tabs -> Seq(Frames)]
  <2> HIDE DEF Frames
  <2> QED
    BY <1>1, <1>7
<1>10. storage' \in Stored
  <2> HIDE DEF Times
  <2>1. <<>> \in Seq(Times)
    OBVIOUS
  <2> QED
    BY <1>1, <1>7, <2>1 DEF Stored
<1>11. TypeOK'
  BY <1>6, <1>7, <1>8, <1>9, <1>10, TypesFrom DEF TypeOK
<1>12. tab'[i].lastSeen >= tab[i].lastSeen \/ FromStorage(i)
  BY <1>4, <1>6, NumbersOf DEF Kept, FromStorage
<1> QED
  BY <1>6, <1>7, <1>11, <1>12, NumbersOf DEF Forward

LEMMA StutterStep ==
  ASSUME TypeOK, UNCHANGED vars
  PROVE  TypeOK' /\ Forward
<1>1. Times \subseteq Nat
  BY TimesTypes DEF TypeOK
<1>2. server \in Nat /\ \A i \in Tabs : tab[i].lastSeen \in Nat
  BY <1>1 DEF TypeOK, TabState
<1>3. TypeOK'
  BY TypesFrom DEF TypeOK, vars, Stored
<1> QED
  BY <1>2, <1>3 DEF Forward, vars

LEMMA Inductive == TypeOK /\ [Next]_vars => TypeOK' /\ Forward
<1> SUFFICES ASSUME TypeOK, [Next]_vars PROVE TypeOK' /\ Forward
  OBVIOUS
<1>1. CASE UNCHANGED vars
  BY <1>1, StutterStep
<1>2. CASE Post
  BY <1>2, PostStep
<1>3. CASE \E i \in setting.used : View(i) \/ Stream(i) \/ Browser(i) \/ Fault(i)
  <2>1. setting.used \subseteq Tabs
    BY ConstantsAssumption DEF TypeOK, Setting
  <2>2. PICK i \in Tabs : View(i) \/ Stream(i) \/ Browser(i) \/ Fault(i)
    BY <1>3, <2>1
  <2>3. CASE View(i)
    BY <2>3, OpenBufferStep, LeaveBufferStep, BlurStep, FocusStep, ScrollUpStep,
       ScrollToBottomStep, OnScrollChangeStep DEF View
  <2>4. CASE Stream(i)
    BY <2>4, ReceiveMessageStep, ReceiveEchoStep, LoadHistoryStep, SendStateStep,
       TakeHeartbeatStep, BootStep, SyncArrivesStep DEF Stream, Receive
  <2>5. CASE Browser(i)
    BY <2>5, StorageEventStep, WriteMapsStep DEF Browser
  <2>6. CASE Fault(i)
    BY <2>6, DisconnectsStep, ReloadStep, MergeFailsStep DEF Fault
  <2> QED
    BY <2>2, <2>3, <2>4, <2>5, <2>6
<1> QED
  BY <1>1, <1>2, <1>3 DEF Next

-----------------------------------------------------------------------------
(* The theorems. *)

\* For any number of tabs and messages, and any budget, every variable keeps its
\* type: no marker, in a tab, in the gateway or on its way between them, is later
\* than now, so a marker that goes forward never hides a message still to come.
THEOREM SeenTypes == Spec => []TypeOK
<1>1. TypeOK /\ [Next]_vars => TypeOK'
  BY Inductive
<1> QED
  BY <1>1, InitTypes, PTL DEF Spec

\* For any number of tabs and messages no step moves the gateway's marker back, and
\* none a tab's, save that a tab which shares its browser's storage takes over what
\* another tab wrote there (setLastSeenMessage, SET_IF_GREATER_LUA,
\* preferences.svelte.ts:602-653).
THEOREM SeenNeverBack == Spec => NeverBack
<1>1. TypeOK /\ [Next]_vars => [Forward]_vars
  BY Inductive
<1>2. [Forward]_vars <=>
        [/\ server' >= server
         /\ \A i \in Tabs : tab'[i].lastSeen >= tab[i].lastSeen \/ FromStorage(i)]_vars
  BY DEF Forward
<1> QED
  BY <1>1, <1>2, SeenTypes, PTL DEF Spec, NeverBack

-----------------------------------------------------------------------------
(* What the read trigger marks. *)

\* Where the scroll is locked there is a lock, and it holds no row that has
\* neither been shown nor been marked.
Locked(t) ==
  /\ t.scrolled => t.bottomSeen # 0
  /\ \/ t.bottomSeen <= t.shown
     \/ t.bottomSeen <= t.lastSeen
     \/ t.bottomSeen <= t.back

\* The state u of a tab has what t has shown, and its locks.
Follows(u, t) ==
  /\ u \in TabState
  /\ u.shown >= t.shown /\ u.focusSeen = t.focusSeen /\ u.back = t.back
  /\ Locked(t) => Locked(u)

\* Setting the marker moves it forward or not at all, and takes a lock along.
LEMMA SetLastSeenFollows ==
  ASSUME log \in Seq(Writers), NEW t \in TabState, NEW time \in Times
  PROVE  /\ Follows(SetLastSeenMessage(t, time), t)
         /\ SetLastSeenMessage(t, time).shown = t.shown
         /\ SetLastSeenMessage(t, time).lastSeen \in {t.lastSeen, time}
<1>1. /\ Times \subseteq Nat /\ time \in Nat
      /\ t.lastSeen \in Nat /\ t.bottomSeen \in Nat /\ t.shown \in Nat /\ t.back \in Nat
  BY TimesTypes DEF TabState
<1>2. CASE time < t.lastSeen
  BY <1>1, <1>2 DEF SetLastSeenMessage, Follows
<1>3. CASE ~ (time < t.lastSeen)
  <2> DEFINE u == UpdateBottomSeen(t, time)
             n == IF Known(t) THEN CountAfter(t, time) ELSE u.count
             v == [u EXCEPT !.lastSeen = time, !.dirty = time, !.count = n]
  <2>1. SetLastSeenMessage(t, time) = v
    BY <1>3 DEF SetLastSeenMessage
  <2>2. v \in TabState
    BY <2>1, SetLastSeenType DEF Ahead
  <2>3. u \in TabState
    BY UpdateBottomSeenType
  <2>4. /\ u.shown = t.shown /\ u.focusSeen = t.focusSeen /\ u.scrolled = t.scrolled
        /\ u.back = t.back
        /\ \/ u.bottomSeen = t.bottomSeen
           \/ u.bottomSeen = time /\ t.bottomSeen # 0 /\ time > t.bottomSeen
    BY DEF UpdateBottomSeen, TabState
  <2>5. /\ v.shown = u.shown /\ v.focusSeen = u.focusSeen /\ v.scrolled = u.scrolled
        /\ v.bottomSeen = u.bottomSeen /\ v.lastSeen = time /\ v.back = u.back
    <3> HIDE DEF u, n
    <3> QED
      BY <2>3 DEF TabState
  <2> HIDE DEF u, v
  <2>6. ASSUME Locked(t) PROVE Locked(v)
    <3>1. v.scrolled => v.bottomSeen # 0
      BY <1>1, <2>4, <2>5, <2>6 DEF Locked
    <3>2. v.bottomSeen <= v.shown \/ v.bottomSeen <= v.lastSeen \/ v.bottomSeen <= v.back
      BY <1>1, <1>3, <2>4, <2>5, <2>6 DEF Locked
    <3> QED
      BY <3>1, <3>2 DEF Locked
  <2>7. v.shown >= t.shown
    BY <1>1, <2>4, <2>5
  <2> QED
    BY <2>1, <2>2, <2>4, <2>5, <2>6, <2>7 DEF Follows
<1> QED
  BY <1>2, <1>3

LEMMA FollowsRefl ==
  ASSUME log \in Seq(Writers), NEW t \in TabState
  PROVE  Follows(t, t)
BY TimesTypes DEF Follows, TabState

LEMMA FollowsTrans ==
  ASSUME log \in Seq(Writers), NEW t \in TabState, NEW u, NEW v, Follows(u, t), Follows(v, u)
  PROVE  Follows(v, t)
<1>1. Times \subseteq Nat
  BY TimesTypes
<1>2. t.shown \in Nat /\ u.shown \in Nat /\ v.shown \in Nat
  BY <1>1 DEF Follows, TabState
<1>3. v.shown >= t.shown
  BY <1>2 DEF Follows
<1> QED
  BY <1>3 DEF Follows

\* A state that differs from t in nothing the read trigger looks at.
LEMMA FollowsAlike ==
  ASSUME log \in Seq(Writers), NEW t \in TabState, NEW u \in TabState,
         u.shown = t.shown, u.focusSeen = t.focusSeen, u.scrolled = t.scrolled,
         u.bottomSeen = t.bottomSeen, u.lastSeen = t.lastSeen, u.back = t.back
  PROVE  Follows(u, t)
BY TimesTypes DEF Follows, Locked, TabState

LEMMA ReconcileFollows ==
  ASSUME log \in Seq(Writers), NEW t \in TabState
  PROVE  Follows(Reconcile(t), t) /\ Reconcile(t).lastSeen = t.lastSeen
<1>1. CASE ~Known(t)
  BY <1>1, FollowsRefl DEF Reconcile
<1>2. CASE Known(t)
  <2> DEFINE n == CountAfter(t, t.lastSeen)
             u == [t EXCEPT !.count = n]
  <2>1. n \in Nat
    BY CountType DEF TabState
  <2>2. Reconcile(t) = u
    BY <1>2 DEF Reconcile
  <2>3. /\ u \in TabState /\ u.shown = t.shown /\ u.focusSeen = t.focusSeen
        /\ u.scrolled = t.scrolled /\ u.bottomSeen = t.bottomSeen /\ u.lastSeen = t.lastSeen
        /\ u.back = t.back
    <3> HIDE DEF n
    <3> QED
      BY <2>1 DEF TabState
  <2> HIDE DEF u
  <2> QED
    BY <2>2, <2>3, FollowsAlike
<1> QED
  BY <1>1, <1>2

LEMMA AdoptFollows ==
  ASSUME log \in Seq(Writers), NEW t \in TabState, NEW time \in Times
  PROVE  Follows(Adopt(t, time), t) /\ Adopt(t, time).lastSeen \in {t.lastSeen, time}
BY SetLastSeenFollows, FollowsRefl DEF Adopt

LEMMA FromSyncFollows ==
  ASSUME log \in Seq(Writers), NEW t \in TabState, server \in Times
  PROVE  Follows(FromSync(t), t) /\ FromSync(t).lastSeen \in {t.lastSeen, server}
<1> DEFINE u == Adopt(t, server)
<1>1. Follows(u, t) /\ u.lastSeen \in {t.lastSeen, server} /\ u \in TabState
  BY AdoptFollows DEF Follows
<1>2. FromSync(t) = Reconcile(u)
  BY DEF FromSync
<1> HIDE DEF u
<1>3. Follows(Reconcile(u), u) /\ Reconcile(u).lastSeen = u.lastSeen
  BY <1>1, ReconcileFollows
<1>4. Follows(Reconcile(u), t)
  BY <1>1, <1>3, FollowsTrans
<1> QED
  BY <1>1, <1>2, <1>3, <1>4

LEMMA ShownFollows ==
  ASSUME log \in Seq(Writers), NEW t \in TabState
  PROVE  Follows(Shown(t), t) /\ Shown(t).lastSeen = t.lastSeen
<1> DEFINE s == Larger(t.shown, LastTime(t))
           u == [t EXCEPT !.shown = s]
<1>1. Times \subseteq Nat /\ LastTime(t) \in Times /\ t.shown \in Times
  BY TimesTypes, LastTimeType DEF TabState
<1>2. s \in Times /\ s >= t.shown
  <2>1. LastTime(t) \in Nat /\ t.shown \in Nat
    BY <1>1
  <2> QED
    BY <1>1, <2>1 DEF Larger
<1>3. s \in Nat /\ t.shown \in Nat /\ t.bottomSeen \in Nat
  BY <1>1, <1>2 DEF TabState
<1>4. Shown(t) = t \/ Shown(t) = u
  BY DEF Shown
<1> HIDE DEF s
<1>5. /\ u \in TabState /\ u.shown = s /\ u.focusSeen = t.focusSeen /\ u.scrolled = t.scrolled
      /\ u.bottomSeen = t.bottomSeen /\ u.lastSeen = t.lastSeen /\ u.back = t.back
  BY <1>2 DEF TabState
<1> HIDE DEF u
<1>6. Locked(t) => Locked(u)
  BY <1>2, <1>3, <1>5 DEF Locked
<1>7. Follows(u, t)
  BY <1>2, <1>5, <1>6 DEF Follows
<1> QED
  BY <1>4, <1>5, <1>7, FollowsRefl

LEMMA MarkBufferOpenReadFollows ==
  ASSUME log \in Seq(Writers), NEW t \in TabState
  PROVE  Follows(MarkBufferOpenRead(t), t)
<1> DEFINE time == IF t.list # {} THEN LastTime(t) ELSE Now
           u == SetLastSeenMessage(t, time)
           v == [u EXCEPT !.count = 0]
<1>1. time \in Times
  BY LastTimeType, TimesTypes
<1>2. Follows(u, t) /\ u \in TabState
  BY <1>1, SetLastSeenFollows DEF Follows
<1>3. MarkBufferOpenRead(t) = IF t.lastSeen >= time THEN t ELSE v
  BY DEF MarkBufferOpenRead
<1> HIDE DEF u, time
<1>4. /\ v \in TabState /\ v.shown = u.shown /\ v.focusSeen = u.focusSeen
      /\ v.scrolled = u.scrolled /\ v.bottomSeen = u.bottomSeen /\ v.lastSeen = u.lastSeen
      /\ v.back = u.back
  BY <1>2 DEF TabState
<1> HIDE DEF v
<1>5. Follows(v, t)
  BY <1>2, <1>4, FollowsAlike, FollowsTrans
<1> QED
  BY <1>3, <1>5, FollowsRefl

LEMMA AddUnseenFollows ==
  ASSUME log \in Seq(Writers), NEW t \in TabState, NEW m \in DOMAIN log
  PROVE  Follows(AddUnseen(t, m), t)
<1> DEFINE v == [t EXCEPT !.count = @ + 1]
<1>1. Time(m) \in Times
  BY TimesTypes
<1>2. Follows(SetLastSeenMessage(t, Time(m)), t) /\ Follows(t, t)
  BY <1>1, SetLastSeenFollows, FollowsRefl
<1>3. /\ v \in TabState /\ v.shown = t.shown /\ v.focusSeen = t.focusSeen
      /\ v.scrolled = t.scrolled /\ v.bottomSeen = t.bottomSeen /\ v.lastSeen = t.lastSeen
      /\ v.back = t.back
  BY DEF TabState
<1>4. Follows(v, t)
  <2> HIDE DEF v
  <2> QED
    BY <1>3, FollowsAlike
<1>5. AddUnseen(t, m) \in {t, v, SetLastSeenMessage(t, Time(m))}
  BY DEF AddUnseen
<1> QED
  BY <1>2, <1>4, <1>5

AllLocked == \A i \in Tabs : Locked(tab[i])

\* What OwnMarksShown says of a step.
OwnMarks ==
  \A i \in Tabs :
    /\ tab'[i].lastSeen > Larger(Larger(tab[i].lastSeen, tab[i].back), server)
    /\ UNCHANGED <<budget, inbox>> /\ storage'.events[i] = storage.events[i]
    => tab'[i].lastSeen <= Larger(tab'[i].shown, tab'[i].focusSeen)

\* A step that leaves the locks of tab i in order, and moves its marker nowhere, to
\* the gateway's, where it has been, where the user has seen, or with a budget, a
\* frame or a storage event.
LEMMA MarkedStep ==
  ASSUME TypeOK, AllLocked, NEW i \in Tabs, NEW u \in TabState, tab' = [tab EXCEPT ![i] = u],
         Locked(u),
         \/ u.lastSeen \in {tab[i].lastSeen, server}
         \/ u.lastSeen <= tab[i].back
         \/ storage'.events[i] # storage.events[i]
         \/ u.lastSeen <= Larger(u.shown, u.focusSeen)
         \/ budget' # budget
         \/ inbox' # inbox
  PROVE  AllLocked' /\ OwnMarks
<1>1. tab' = [tab EXCEPT ![i] = u] /\ tab \in [Tabs -> TabState]
  BY DEF TypeOK
<1>2. tab'[i] = u /\ \A j \in Tabs \ {i} : tab'[j] = tab[j]
  BY <1>1
<1>3. AllLocked'
  BY <1>2 DEF AllLocked, Locked
<1>4. /\ server \in Nat /\ \A j \in Tabs : tab[j].lastSeen \in Nat /\ tab[j].back \in Nat
      /\ u.lastSeen \in Nat
  <2>1. Times \subseteq Nat
    BY TimesTypes DEF TypeOK
  <2> QED
    BY <1>1, <2>1 DEF TypeOK, TabState
<1>5. \A j \in Tabs : tab'[j].lastSeen \in {tab[j].lastSeen, server} \/ tab'[j].lastSeen <= tab[j].back =>
        ~ (tab'[j].lastSeen > Larger(Larger(tab[j].lastSeen, tab[j].back), server))
  BY <1>2, <1>4 DEF Larger
<1>6. OwnMarks
  BY <1>2, <1>5 DEF OwnMarks
<1> QED
  BY <1>3, <1>6

\* The same of a step that puts u in the place of the tab's state with Set.
LEMMA SetMarked ==
  ASSUME TypeOK, AllLocked, NEW i \in Tabs, NEW u \in TabState, Set(i, u), Locked(u),
         \/ u.lastSeen \in {tab[i].lastSeen, server}
         \/ u.lastSeen <= tab[i].back
         \/ u.lastSeen <= Larger(u.shown, u.focusSeen)
         \/ budget' # budget
         \/ inbox' # inbox
  PROVE  AllLocked' /\ OwnMarks
<1>1. tab' = [tab EXCEPT ![i] = u]
  BY DEF Set
<1> QED
  BY <1>1, MarkedStep

\* A step that leaves every tab as it is.
LEMMA NoTabMarked ==
  ASSUME TypeOK, AllLocked, UNCHANGED tab
  PROVE  AllLocked' /\ OwnMarks
<1>1. server \in Nat /\ \A j \in Tabs : tab[j].lastSeen \in Nat /\ tab[j].back \in Nat
  BY TimesTypes DEF TypeOK, TabState
<1> QED
  BY <1>1 DEF AllLocked, Locked, OwnMarks, Larger

LEMMA SpendMoves ==
  ASSUME TypeOK, NEW kind \in Kinds, Spend(kind)
  PROVE  budget' # budget
<1>1. budget \in [Kinds -> Nat] /\ budget[kind] \in Nat /\ budget'[kind] = budget[kind] - 1
  BY DEF TypeOK, Spend
<1> QED
  BY <1>1

\* A queue is not its tail.
LEMMA TailDiffers ==
  ASSUME NEW S, NEW q \in Seq(S), q # <<>>
  PROVE  Tail(q) # q
<1>1. Len(Tail(q)) = Len(q) - 1 /\ Len(q) \in Nat
  OBVIOUS
<1> SUFFICES ASSUME NEW r, Len(r) = Len(q) - 1 PROVE r # q
  BY <1>1
<1>2. Len(r) # Len(q)
  BY <1>1
<1> QED
  BY <1>2

\* Taking a frame changes the queue.
LEMMA TakeMoves ==
  ASSUME TypeOK, NEW i \in Tabs, inbox[i] # <<>>, inbox' = [inbox EXCEPT ![i] = Tail(@)]
  PROVE  inbox' # inbox
<1> HIDE DEF Frames
<1>1. inbox \in [Tabs -> Seq(Frames)] /\ inbox[i] \in Seq(Frames)
  BY DEF TypeOK
<1>2. inbox'[i] = Tail(inbox[i])
  BY <1>1
<1> QED
  BY <1>1, <1>2, TailDiffers

\* Flushing changes nothing the read trigger looks at.
LEMMA FlushMarked ==
  ASSUME TypeOK, AllLocked, NEW i \in Tabs, NEW t \in TabState, FlushSeenEids(i, t), Locked(t),
         t.lastSeen = tab[i].lastSeen \/ budget' # budget
  PROVE  AllLocked' /\ OwnMarks
<1> DEFINE u == [t EXCEPT !.dirty = 0]
<1>1. log \in Seq(Writers) /\ 0 \in Times
  BY TimesTypes DEF TypeOK
<1>2. /\ u \in TabState /\ u.shown = t.shown /\ u.focusSeen = t.focusSeen
      /\ u.scrolled = t.scrolled /\ u.bottomSeen = t.bottomSeen /\ u.lastSeen = t.lastSeen
      /\ u.back = t.back
  BY <1>1 DEF TabState
<1>3. Set(i, t) \/ Set(i, u)
  BY DEF FlushSeenEids
<1> HIDE DEF u
<1>4. Locked(u)
  BY <1>2 DEF Locked
<1> QED
  BY <1>2, <1>3, <1>4, SetMarked

\* A step of the user.
LEMMA ViewMarked ==
  ASSUME TypeOK, AllLocked, NEW i \in Tabs,
         OpenBuffer(i) \/ LeaveBuffer(i) \/ Blur(i) \/ Focus(i) \/ ScrollUp(i) \/ ScrollToBottom(i)
  PROVE  AllLocked' /\ OwnMarks
<1>1. /\ tab[i] \in TabState /\ log \in Seq(Writers) /\ "view" \in Kinds
      /\ Locked(tab[i]) /\ Times \subseteq Nat /\ 0 \in Times
  BY ConstantsAssumption, TimesTypes DEF TypeOK, AllLocked
<1>2. /\ tab[i].bottomSeen \in Nat /\ tab[i].shown \in Nat /\ tab[i].lastSeen \in Nat
      /\ tab[i].back \in Nat
  BY <1>1 DEF TabState
<1>3. CASE OpenBuffer(i)
  <2> DEFINE t == [tab[i] EXCEPT !.open = TRUE, !.focusSeen = 0]
  <2>1. t \in TabState /\ Locked(t)
    BY <1>1 DEF TabState, Locked
  <2>2. budget' # budget
    BY <1>1, <1>3, SpendMoves DEF OpenBuffer
  <2>3. IF t.focused THEN FlushSeenEids(i, Shown(MarkBufferOpenRead(t))) ELSE Set(i, t)
    BY <1>3 DEF OpenBuffer
  <2> HIDE DEF t
  <2> DEFINE u == MarkBufferOpenRead(t)
  <2>4. u \in TabState /\ Locked(u)
    BY <1>1, <2>1, MarkBufferOpenReadFollows DEF Follows
  <2> HIDE DEF u
  <2>5. Shown(u) \in TabState /\ Locked(Shown(u))
    BY <1>1, <2>4, ShownFollows DEF Follows
  <2> QED
    BY <2>1, <2>2, <2>3, <2>5, FlushMarked, SetMarked DEF u
<1>4. CASE LeaveBuffer(i)
  <2> DEFINE u == [tab[i] EXCEPT !.open = FALSE, !.scrolled = FALSE]
  <2>1. u \in TabState /\ Locked(u)
    BY <1>1 DEF TabState, Locked
  <2>2. budget' # budget /\ Set(i, u)
    BY <1>1, <1>4, SpendMoves DEF LeaveBuffer
  <2> QED
    BY <2>1, <2>2, SetMarked
<1>5. CASE Blur(i)
  <2> DEFINE t == [tab[i] EXCEPT !.focused = FALSE]
             bottom == IF t.scrolled THEN t.bottomSeen ELSE 0
             focus == IF t.focusSeen # 0 THEN t.focusSeen
                      ELSE IF t.list # {} THEN LastTime(t) ELSE Now
             v == [t EXCEPT !.bottomSeen = bottom, !.focusSeen = focus]
  <2>1. /\ t \in TabState /\ t.scrolled = tab[i].scrolled /\ t.bottomSeen = tab[i].bottomSeen
        /\ t.shown = tab[i].shown /\ t.lastSeen = tab[i].lastSeen /\ t.back = tab[i].back
    BY <1>1 DEF TabState
  <2>2. Locked(t)
    BY <1>1, <2>1 DEF Locked
  <2>3. Set(i, IF ~t.open THEN t ELSE v) /\ budget' # budget
    BY <1>1, <1>5, SpendMoves DEF Blur
  <2>4. bottom \in Times /\ focus \in Times
    <3> HIDE DEF t
    <3> QED
      BY <1>1, <2>1, TimesTypes, LastTimeType DEF TabState
  <2>5. /\ v \in TabState /\ v.scrolled = t.scrolled /\ v.bottomSeen = bottom
        /\ v.shown = t.shown /\ v.lastSeen = t.lastSeen /\ v.back = t.back
    <3> HIDE DEF t, bottom, focus
    <3> QED
      BY <2>1, <2>4 DEF TabState
  <2> HIDE DEF t, v
  <2>6. Locked(v)
    BY <1>2, <2>1, <2>2, <2>5 DEF Locked
  <2> QED
    BY <2>1, <2>2, <2>3, <2>5, <2>6, SetMarked
<1>6. CASE Focus(i)
  <2> DEFINE t == [tab[i] EXCEPT !.focused = TRUE, !.focusSeen = 0]
  <2>1. t \in TabState /\ Locked(t) /\ t.lastSeen = tab[i].lastSeen
    BY <1>1 DEF TabState, Locked
  <2>2. Set(i, Shown(t))
    BY <1>6 DEF Focus
  <2> HIDE DEF t
  <2>3. Shown(t) \in TabState /\ Locked(Shown(t)) /\ Shown(t).lastSeen = t.lastSeen
    BY <1>1, <2>1, ShownFollows DEF Follows
  <2> QED
    BY <2>1, <2>2, <2>3, SetMarked
<1>7. CASE ScrollUp(i)
  <2> DEFINE last == LastTime(tab[i])
             shown == Larger(tab[i].shown, last)
             bottom == IF tab[i].bottomSeen = 0 THEN last ELSE tab[i].bottomSeen
             u == [tab[i] EXCEPT !.scrolled = TRUE, !.shown = shown, !.bottomSeen = bottom]
  <2>1. last \in Times /\ last \in Nat /\ last > 0
    <3>1. tab[i].list \in SUBSET (1..Len(log)) /\ tab[i].list # {} /\ Len(log) \in Nat
      BY <1>1, <1>7, TimesTypes DEF TabState, ScrollUp
    <3>2. \E x \in tab[i].list : \A y \in tab[i].list : y <= x
      BY <3>1, NewestExists
    <3>3. Greatest(tab[i].list) \in tab[i].list
      BY <3>1, <3>2 DEF Greatest
    <3>4. Greatest(tab[i].list) \in Nat /\ Greatest(tab[i].list) > 0
      BY <3>1, <3>3
    <3> QED
      BY <1>1, <3>4, LastTimeType DEF LastTime, Time
  <2>2. Set(i, u) /\ budget' # budget
    BY <1>1, <1>7, SpendMoves DEF ScrollUp
  <2> HIDE DEF last
  <2>3. shown \in Times /\ bottom \in Times /\ bottom # 0
        /\ (bottom <= shown \/ bottom <= tab[i].lastSeen \/ bottom <= tab[i].back)
    <3>1. tab[i].shown \in Times /\ tab[i].bottomSeen \in Times
      BY <1>1 DEF TabState
    <3> QED
      BY <1>1, <1>2, <2>1, <3>1 DEF Larger, Locked
  <2> HIDE DEF shown, bottom
  <2>4. /\ u \in TabState /\ u.bottomSeen = bottom /\ u.shown = shown
        /\ u.lastSeen = tab[i].lastSeen /\ u.back = tab[i].back
    BY <1>1, <2>3 DEF TabState
  <2> HIDE DEF u
  <2>5. Locked(u)
    BY <2>3, <2>4 DEF Locked
  <2> QED
    BY <2>2, <2>4, <2>5, SetMarked
<1>8. CASE ScrollToBottom(i)
  <2> DEFINE t == [tab[i] EXCEPT !.scrolled = FALSE, !.bottomSeen = 0]
  <2>1. t \in TabState /\ t.lastSeen = tab[i].lastSeen /\ t.bottomSeen = 0 /\ ~t.scrolled
        /\ t.shown = tab[i].shown
    BY <1>1 DEF TabState
  <2>2. Set(i, Shown(t))
    BY <1>8 DEF ScrollToBottom
  <2> HIDE DEF t
  <2>3. Locked(t)
    BY <1>2, <2>1 DEF Locked
  <2>4. Shown(t) \in TabState /\ Locked(Shown(t)) /\ Shown(t).lastSeen = t.lastSeen
    BY <1>1, <2>1, <2>3, ShownFollows DEF Follows
  <2> QED
    BY <2>1, <2>2, <2>4, SetMarked
<1> QED
  BY <1>3, <1>4, <1>5, <1>6, <1>7, <1>8

\* A scroll or a change of content: the marker goes where the focus was lost, to
\* the lock, or to the bottom of the view, whichever holds the reading back.
LEMMA OnScrollChangeMarked ==
  ASSUME TypeOK, AllLocked, NEW i \in Tabs, OnScrollChange(i)
  PROVE  AllLocked' /\ OwnMarks
<1> DEFINE t == tab[i]
<1>1. /\ t \in TabState /\ log \in Seq(Writers) /\ Locked(t)
      /\ Times \subseteq Nat
  BY TimesTypes DEF TypeOK, AllLocked
<1>2. PICK user \in {FALSE, setting.scrolls}, top \in t.list, bottom \in t.list :
        LET visible == [t EXCEPT !.shown = IF user \/ t.focused THEN Larger(@, Time(bottom)) ELSE @]
            read == IF Time(top) <= t.lastSeen /\ (user \/ t.focused)
                    THEN ReadBuffer(visible) ELSE visible
            lower == UpdateBottomSeen(read, Time(bottom))
        IN  /\ t.scrolled \/ Time(bottom) = LastTime(t)
            /\ Set(i, IF lower # read /\ read.lastSeen = read.bottomSeen
                      THEN SetLastSeenMessage(lower, Time(bottom)) ELSE lower)
  BY ZenonT(40) DEF OnScrollChange
<1> DEFINE seen == IF user \/ t.focused THEN Larger(t.shown, Time(bottom)) ELSE t.shown
           visible == [t EXCEPT !.shown = seen]
           marks == Time(top) <= t.lastSeen /\ (user \/ t.focused)
           read == IF marks THEN ReadBuffer(visible) ELSE visible
           lower == UpdateBottomSeen(read, Time(bottom))
           u == IF lower # read /\ read.lastSeen = read.bottomSeen
                THEN SetLastSeenMessage(lower, Time(bottom)) ELSE lower
<1>3. Set(i, u) /\ (t.scrolled \/ Time(bottom) = LastTime(t))
  BY <1>2
<1>4. /\ Time(bottom) \in Times /\ Time(bottom) \in Nat
      /\ t.shown \in Nat /\ t.bottomSeen \in Nat /\ t.lastSeen \in Nat /\ t.back \in Nat
  BY <1>1, TimesTypes DEF TabState
<1>5. /\ seen \in Times /\ seen \in Nat /\ seen >= t.shown
      /\ user \/ t.focused => seen >= Time(bottom)
  BY <1>1, <1>4 DEF Larger, TabState
<1>6. /\ visible \in TabState /\ visible.lastSeen = t.lastSeen /\ visible.shown = seen
      /\ visible.focusSeen = t.focusSeen /\ visible.scrolled = t.scrolled
      /\ visible.bottomSeen = t.bottomSeen /\ visible.focused = t.focused
      /\ visible.list = t.list /\ visible.back = t.back
  <2> HIDE DEF seen
  <2> QED
    BY <1>1, <1>5 DEF TabState
<1> HIDE DEF visible, seen
<1>7. Locked(visible)
  BY <1>1, <1>4, <1>5, <1>6 DEF Locked
\* Where ReadBuffer puts the marker.
<1> DEFINE time == IF t.focusSeen # 0 THEN t.focusSeen
                   ELSE IF t.bottomSeen # 0 THEN t.bottomSeen ELSE LastTime(t)
<1>8. time \in Times
  BY <1>1, LastTimeType DEF TabState
<1>9. ReadBuffer(visible) = SetLastSeenMessage(visible, time)
  BY <1>6 DEF ReadBuffer, LastTime
<1>10. marks => \/ time = t.focusSeen
                \/ time <= seen
                \/ time <= t.lastSeen
                \/ time <= t.back
  <2>1. CASE t.focusSeen # 0
    BY <2>1
  <2>2. CASE t.focusSeen = 0 /\ t.bottomSeen # 0
    BY <1>1, <1>4, <1>5, <2>2 DEF Locked
  <2>3. CASE t.focusSeen = 0 /\ t.bottomSeen = 0
    BY <1>1, <1>3, <1>5, <2>3 DEF Locked
  <2> QED
    BY <2>1, <2>2, <2>3
<1> HIDE DEF time
<1>11. /\ read \in TabState /\ Locked(read) /\ read.shown = seen
       /\ read.focusSeen = t.focusSeen /\ read.back = t.back
       /\ \/ read.lastSeen = t.lastSeen
          \/ read.lastSeen = t.focusSeen
          \/ read.lastSeen <= seen
          \/ read.lastSeen <= t.back
  <2>1. CASE ~marks
    BY <1>6, <1>7, <2>1
  <2>2. CASE marks
    <3>1. read = SetLastSeenMessage(visible, time)
      BY <1>9, <2>2
    <3> DEFINE v == SetLastSeenMessage(visible, time)
    <3>2. /\ Follows(v, visible) /\ v.shown = visible.shown
          /\ v.lastSeen \in {visible.lastSeen, time} /\ v.lastSeen >= visible.lastSeen
      BY <1>1, <1>6, <1>8, SetLastSeenFollows, SetLastSeenType DEF Ahead
    <3> HIDE DEF v
    <3>3. v.lastSeen \in Nat /\ time \in Nat
      BY <1>1, <1>8, <3>2 DEF Follows, TabState
    <3>4. \/ v.lastSeen = t.lastSeen \/ v.lastSeen = t.focusSeen \/ v.lastSeen <= seen
          \/ v.lastSeen <= t.back
      BY <1>4, <1>5, <1>6, <1>10, <2>2, <3>2, <3>3
    <3> QED
      BY <1>6, <1>7, <3>1, <3>2, <3>4 DEF Follows, v
  <2> QED
    BY <2>1, <2>2
<1> HIDE DEF read
<1>12. /\ lower \in TabState /\ lower.shown = read.shown /\ lower.focusSeen = read.focusSeen
       /\ lower.scrolled = read.scrolled /\ lower.lastSeen = read.lastSeen
       /\ lower.focused = read.focused /\ lower.back = read.back
       /\ lower.bottomSeen = read.bottomSeen \/ (read.focused /\ lower.bottomSeen = Time(bottom)
                                                 /\ read.bottomSeen # 0 /\ Time(bottom) > read.bottomSeen)
       /\ lower # read => read.focused
  BY <1>4, <1>11, UpdateBottomSeenType DEF UpdateBottomSeen, TabState
<1>13. read.focused => seen >= Time(bottom)
  <2>1. read.focused = visible.focused
    <3>1. \A v \in TabState : \A x : UpdateBottomSeen(v, x).focused = v.focused
      BY DEF UpdateBottomSeen, TabState
    <3>2. \A v \in TabState, x \in Times : SetLastSeenMessage(v, x).focused = v.focused
      <4> SUFFICES ASSUME NEW v \in TabState, NEW x \in Times
                   PROVE  SetLastSeenMessage(v, x).focused = v.focused
        OBVIOUS
      <4> DEFINE w == UpdateBottomSeen(v, x)
                 n == IF Known(v) THEN CountAfter(v, x) ELSE w.count
      <4>1. w \in TabState /\ w.focused = v.focused
        BY <3>1, UpdateBottomSeenType
      <4>2. SetLastSeenMessage(v, x) \in {v, [w EXCEPT !.lastSeen = x, !.dirty = x, !.count = n]}
        BY DEF SetLastSeenMessage
      <4> HIDE DEF w, n
      <4>3. [w EXCEPT !.lastSeen = x, !.dirty = x, !.count = n].focused = w.focused
        BY <4>1 DEF TabState
      <4> QED
        BY <4>1, <4>2, <4>3
    <3> QED
      BY <1>6, <1>8, <1>9, <3>2 DEF read
  <2> QED
    BY <1>5, <1>6, <2>1
<1> HIDE DEF lower
<1>14. Locked(lower)
  <2>1. read.bottomSeen \in Nat
    BY <1>1, <1>11 DEF TabState
  <2>2. lower.scrolled => lower.bottomSeen # 0
    BY <1>4, <1>11, <1>12, <2>1 DEF Locked
  <2>3. \/ lower.bottomSeen <= lower.shown \/ lower.bottomSeen <= lower.lastSeen
        \/ lower.bottomSeen <= lower.back
    BY <1>11, <1>12, <1>13 DEF Locked
  <2> QED
    BY <2>2, <2>3 DEF Locked
<1>15. /\ u \in TabState /\ Locked(u) /\ u.shown = seen /\ u.focusSeen = t.focusSeen
       /\ \/ u.lastSeen = t.lastSeen \/ u.lastSeen = t.focusSeen \/ u.lastSeen <= seen
          \/ u.lastSeen <= t.back
  <2>1. CASE u = lower
    BY <1>11, <1>12, <1>14, <2>1
  <2>2. CASE lower # read /\ u = SetLastSeenMessage(lower, Time(bottom))
    <3> DEFINE v == SetLastSeenMessage(lower, Time(bottom))
    <3>1. Follows(v, lower) /\ v.shown = lower.shown /\ v.lastSeen \in {lower.lastSeen, Time(bottom)}
      BY <1>1, <1>4, <1>12, SetLastSeenFollows
    <3> HIDE DEF v
    <3>2. v.lastSeen = lower.lastSeen \/ v.lastSeen <= seen
      BY <1>4, <1>5, <1>12, <1>13, <2>2, <3>1
    <3>3. /\ v \in TabState /\ Locked(v) /\ v.shown = seen /\ v.focusSeen = t.focusSeen
      BY <1>11, <1>12, <1>14, <3>1 DEF Follows
    <3> QED
      BY <1>11, <1>12, <2>2, <3>2, <3>3 DEF v
  <2> QED
    BY <2>1, <2>2
<1> HIDE DEF u
<1>16. \/ u.lastSeen = t.lastSeen \/ u.lastSeen <= Larger(u.shown, u.focusSeen)
       \/ u.lastSeen <= t.back
  <2>1. t.focusSeen \in Nat /\ u.lastSeen \in Nat
    BY <1>1, <1>15 DEF TabState
  <2>2. u.lastSeen <= t.focusSeen \/ u.lastSeen <= seen => u.lastSeen <= Larger(seen, t.focusSeen)
    BY <1>5, <2>1 DEF Larger
  <2>3. u.lastSeen = t.focusSeen => u.lastSeen <= t.focusSeen
    BY <2>1
  <2> QED
    BY <1>15, <2>2, <2>3
<1> QED
  BY <1>3, <1>15, <1>16, SetMarked

\* A step of the stream or the storage, or a fault.
LEMMA StreamMarked ==
  ASSUME TypeOK, AllLocked, NEW i \in Tabs, Stream(i) \/ Browser(i) \/ Fault(i)
  PROVE  AllLocked' /\ OwnMarks
<1>1. /\ tab \in [Tabs -> TabState] /\ tab[i] \in TabState /\ log \in Seq(Writers)
      /\ inbox[i] \in Seq(Frames) /\ server \in Times /\ Locked(tab[i])
      /\ "fault" \in Kinds /\ 0 \in Times
  BY ConstantsAssumption, TimesTypes DEF TypeOK, AllLocked
<1>2. CASE ReceiveMessage(i)
  <2> DEFINE m == Head(inbox[i]).value
             t == [tab[i] EXCEPT !.loaded = TRUE, !.list = @ \cup {m}]
  <2>1. /\ inbox[i] # <<>> /\ Head(inbox[i]).kind = "msg"
        /\ Set(i, IF m \in tab[i].list THEN tab[i] ELSE Shown(AddUnseen(t, m)))
        /\ inbox' = [inbox EXCEPT ![i] = Tail(@)]
    BY <1>2 DEF ReceiveMessage
  <2>2. m \in DOMAIN log
    BY <1>1, <2>1, FramesTypes DEF Frames
  <2>3. inbox' # inbox
    BY <2>1, TakeMoves
  <2> HIDE DEF m
  <2>4. t \in TabState /\ Locked(t)
    BY <1>1, <2>2 DEF TabState, Locked
  <2> HIDE DEF t
  <2> DEFINE v == AddUnseen(t, m)
  <2>5. v \in TabState /\ Locked(v)
    BY <1>1, <2>2, <2>4, AddUnseenFollows DEF Follows
  <2> HIDE DEF v
  <2>6. Shown(v) \in TabState /\ Locked(Shown(v))
    BY <1>1, <2>5, ShownFollows DEF Follows
  <2> QED
    BY <1>1, <2>1, <2>3, <2>6, SetMarked DEF v
<1>3. CASE ReceiveEcho(i)
  <2> DEFINE time == Head(inbox[i]).value
  <2>1. /\ inbox[i] # <<>> /\ Head(inbox[i]).kind = "echo" /\ Set(i, Adopt(tab[i], time))
        /\ inbox' = [inbox EXCEPT ![i] = Tail(@)]
    BY <1>3 DEF ReceiveEcho
  <2>2. time \in Times
    BY <1>1, <2>1, FramesTypes DEF Frames
  <2>3. inbox' # inbox
    BY <2>1, TakeMoves
  <2> HIDE DEF time
  <2>4. Adopt(tab[i], time) \in TabState /\ Locked(Adopt(tab[i], time))
    BY <1>1, <2>2, AdoptFollows DEF Follows
  <2> QED
    BY <2>1, <2>3, <2>4, SetMarked
<1>4. CASE LoadHistory(i)
  <2> DEFINE t == [tab[i] EXCEPT !.loaded = TRUE, !.list = @ \cup DOMAIN log]
  <2>1. Set(i, Shown(Reconcile(t)))
    BY <1>4 DEF LoadHistory
  <2>2. t \in TabState /\ Locked(t) /\ t.lastSeen = tab[i].lastSeen
    BY <1>1 DEF TabState, Locked
  <2> HIDE DEF t
  <2> DEFINE v == Reconcile(t)
  <2>3. v \in TabState /\ Locked(v) /\ v.lastSeen = t.lastSeen
    BY <1>1, <2>2, ReconcileFollows DEF Follows
  <2> HIDE DEF v
  <2>4. Shown(v) \in TabState /\ Locked(Shown(v)) /\ Shown(v).lastSeen = v.lastSeen
    BY <1>1, <2>3, ShownFollows DEF Follows
  <2> QED
    BY <2>1, <2>2, <2>3, <2>4, SetMarked DEF v
<1>5. CASE SendState(i)
  BY <1>1, <1>5, FlushMarked DEF SendState
<1>6. CASE TakeHeartbeat(i)
  BY <1>6, NoTabMarked DEF TakeHeartbeat
<1>7. CASE Boot(i)
  <2> DEFINE tail == {m \in DOMAIN log : Time(m) > server}
             t == [tab[i] EXCEPT !.link = "up", !.tailed = TRUE, !.tail = tail]
  <2>1. Set(i, FromSync(t))
    BY <1>7 DEF Boot
  <2>2. tail \in SUBSET DOMAIN log
    OBVIOUS
  <2> HIDE DEF tail
  <2>3. t \in TabState /\ Locked(t) /\ t.lastSeen = tab[i].lastSeen
    BY <1>1, <2>2 DEF TabState, Locked
  <2> HIDE DEF t
  <2>4. /\ FromSync(t) \in TabState /\ Locked(FromSync(t))
        /\ FromSync(t).lastSeen \in {t.lastSeen, server}
    BY <1>1, <2>3, FromSyncFollows DEF Follows
  <2> QED
    BY <2>1, <2>3, <2>4, SetMarked
<1>8. CASE SyncArrives(i)
  <2>1. /\ FromSync(tab[i]) \in TabState /\ Locked(FromSync(tab[i]))
        /\ FromSync(tab[i]).lastSeen \in {tab[i].lastSeen, server}
    BY <1>1, FromSyncFollows DEF Follows
  <2> QED
    BY <1>8, <2>1, SetMarked DEF SyncArrives
<1>9. CASE Disconnects(i)
  <2> DEFINE u == [tab[i] EXCEPT !.link = "down", !.tailed = FALSE, !.tail = {}]
  <2>1. u \in TabState /\ Locked(u) /\ u.lastSeen = tab[i].lastSeen
    BY <1>1 DEF TabState, Locked
  <2>2. Set(i, u)
    BY <1>9 DEF Disconnects
  <2> QED
    BY <2>1, <2>2, SetMarked
<1>10. CASE Reload(i)
  <2>1. PICK badge \in 0..Len(log) :
          tab' = [tab EXCEPT ![i] = [FreshTab EXCEPT !.lastSeen = Kept(i).lastSeen,
                                                     !.dirty = Kept(i).dirty, !.count = badge]]
    BY <1>10 DEF Reload, Kept
  <2> DEFINE u == [FreshTab EXCEPT !.lastSeen = Kept(i).lastSeen, !.dirty = Kept(i).dirty,
                                   !.count = badge]
  <2>2. tab' = [tab EXCEPT ![i] = u] /\ TypeOK'
    BY <1>10, <2>1, ReloadStep
  <2>3. u.bottomSeen = 0 /\ u.shown = 0 /\ u.scrolled = FALSE
    BY DEF FreshTab
  <2> HIDE DEF u
  <2>4. u \in TabState
    <3>1. UNCHANGED log /\ tab'[i] = u /\ tab'[i] \in TabState'
      BY <1>1, <1>10, <2>2 DEF Reload, TypeOK
    <3> QED
      BY <3>1 DEF TabState, Times, Now
  <2>5. Locked(u) /\ budget' # budget
    BY <1>1, <1>10, <2>3, SpendMoves DEF Locked, Reload
  <2> QED
    BY <2>2, <2>4, <2>5, MarkedStep
<1>11. CASE MergeFails(i)
  BY <1>11, NoTabMarked DEF MergeFails
<1>12. CASE WriteMaps(i)
  BY <1>12, NoTabMarked DEF WriteMaps
<1>13. CASE StorageEvent(i)
  <2> DEFINE time == Head(storage.events[i])
             back == Larger(tab[i].back, tab[i].lastSeen)
             u == [tab[i] EXCEPT !.back = back, !.lastSeen = time]
  <2>1. tab' = [tab EXCEPT ![i] = u] /\ UNCHANGED log
    BY <1>13 DEF StorageEvent
  <2>2. /\ u.bottomSeen = tab[i].bottomSeen /\ u.shown = tab[i].shown
        /\ u.scrolled = tab[i].scrolled /\ u.back = back
    BY <1>1 DEF TabState
  <2>3. /\ tab[i].lastSeen \in Nat /\ tab[i].back \in Nat /\ tab[i].bottomSeen \in Nat
    BY <1>1, TimesTypes DEF TabState
  <2>4. back \in Nat /\ back >= tab[i].back /\ back >= tab[i].lastSeen
    BY <2>3 DEF Larger
  <2> HIDE DEF u, back
  <2>5. u \in TabState
    <3>1. tab'[i] = u /\ tab'[i] \in TabState'
      BY <1>1, <1>13, <2>1, StorageEventStep DEF TypeOK
    <3> QED
      BY <2>1, <3>1 DEF TabState, Times, Now
  <2>6. Locked(u)
    BY <1>1, <2>2, <2>3, <2>4 DEF Locked
  <2>7. storage'.events[i] # storage.events[i]
    <3>1. storage.events \in [Tabs -> Seq(Times)] /\ storage.events[i] # <<>>
          /\ storage' = [storage EXCEPT !.events[i] = Tail(@)] /\ storage \in Stored
      BY <1>13 DEF StorageEvent, TypeOK, Stored
    <3>2. storage'.events[i] = Tail(storage.events[i])
      BY <3>1 DEF Stored
    <3>3. storage.events[i] \in Seq(Times)
      BY <3>1
    <3> QED
      BY <3>1, <3>2, <3>3, TailDiffers
  <2> QED
    BY <2>1, <2>5, <2>6, <2>7, MarkedStep
<1> QED
  BY <1>2, <1>3, <1>4, <1>5, <1>6, <1>7, <1>8, <1>9, <1>10, <1>11, <1>12, <1>13
     DEF Stream, Receive, Browser, Fault

\* Every step keeps the locks, and the read trigger marks only what was shown.
LEMMA LockedStep ==
  ASSUME TypeOK, AllLocked, [Next]_vars
  PROVE  AllLocked' /\ [OwnMarks]_vars
<1>1. CASE UNCHANGED vars
  BY <1>1 DEF vars, AllLocked, Locked
<1>2. CASE Post
  BY <1>2, NoTabMarked DEF Post
<1>3. CASE \E i \in setting.used : View(i) \/ Stream(i) \/ Browser(i) \/ Fault(i)
  <2>1. setting.used \subseteq Tabs
    BY ConstantsAssumption DEF TypeOK, Setting
  <2>2. PICK i \in Tabs : View(i) \/ Stream(i) \/ Browser(i) \/ Fault(i)
    BY <1>3, <2>1
  <2> QED
    BY <2>2, ViewMarked, OnScrollChangeMarked, StreamMarked DEF View
<1> QED
  BY <1>1, <1>2, <1>3 DEF Next

\* The locks hold, for any number of tabs and messages: a scroll lock never holds
\* a row the user has neither seen nor marked.
THEOREM LocksHold == Spec => []AllLocked
<1>1. Init => AllLocked
  BY DEF Init, AllLocked, Locked, FreshTab
<1>2. TypeOK /\ AllLocked /\ [Next]_vars => AllLocked'
  BY LockedStep
<1> QED
  BY <1>1, <1>2, SeenTypes, PTL DEF Spec

\* For any number of tabs and messages the read trigger marks nothing the user has
\* not had at the bottom of the view, or before it lost the focus, or marked before a
\* storage event took the marker back (readBuffer, updateBottomSeen, lockBottomSeen,
\* setFocused).
THEOREM SeenOwnMarksShown == Spec => OwnMarksShown
<1>1. TypeOK /\ AllLocked /\ [Next]_vars => [OwnMarks]_vars
  BY LockedStep
<1>2. [OwnMarks]_vars <=>
        [\A i \in Tabs :
           /\ tab'[i].lastSeen > Larger(Larger(tab[i].lastSeen, tab[i].back), server)
           /\ UNCHANGED <<budget, inbox>> /\ storage'.events[i] = storage.events[i]
           => tab'[i].lastSeen <= Larger(tab'[i].shown, tab'[i].focusSeen)]_vars
  BY DEF OwnMarks
<1> QED
  BY <1>1, <1>2, SeenTypes, LocksHold, PTL DEF Spec, OwnMarksShown
=============================================================================
