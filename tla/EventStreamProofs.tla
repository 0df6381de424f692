------------------------- MODULE EventStreamProofs -------------------------
(***************************************************************************)
(* Proofs about EventStream for every number of tabs and publishers and    *)
(* every capacity.                                                         *)
(***************************************************************************)
EXTENDS EventStream, TLAPS

-----------------------------------------------------------------------------
(* Sequences of events. *)

Inj(s) == \A i, j \in 1..Len(s) : i # j => s[i] # s[j]

(* The empty sequence has no elements and no duplicates.                   *)
LEMMA ElemsEmpty == Elems(<<>>) = {} /\ Inj(<<>>)
BY DEF Elems, Inj

(* Append adds its element.                                                *)
LEMMA ElemsAppend ==
    ASSUME NEW S, NEW s \in Seq(S), NEW e \in S
    PROVE  Elems(Append(s, e)) = Elems(s) \cup {e}
<1> DEFINE a == Append(s, e)
<1>1. Len(a) = Len(s) + 1 /\ a[Len(s) + 1] = e /\ \A i \in 1..Len(s) : a[i] = s[i]
  OBVIOUS
<1>2. ASSUME NEW x \in Elems(a) PROVE x \in Elems(s) \cup {e}
  <2>1. PICK i \in 1..Len(a) : x = a[i]
    BY <1>2 DEF Elems
  <2>2. CASE i = Len(s) + 1
    BY <2>1, <2>2, <1>1
  <2>3. CASE i \in 1..Len(s)
    BY <2>1, <2>3, <1>1 DEF Elems
  <2> QED BY <2>1, <2>2, <2>3, <1>1
<1>3. ASSUME NEW x \in Elems(s) PROVE x \in Elems(a)
  <2>1. PICK i \in 1..Len(s) : x = s[i]
    BY <1>3 DEF Elems
  <2>2. i \in 1..Len(a) /\ x = a[i]
    BY <2>1, <1>1
  <2> QED BY <2>2 DEF Elems
<1>4. e \in Elems(a)
  <2>1. Len(s) + 1 \in 1..Len(a) /\ a[Len(s) + 1] = e
    BY <1>1
  <2> QED BY <2>1 DEF Elems
<1> QED BY <1>2, <1>3, <1>4

(* Appending a new element keeps a sequence free of duplicates.            *)
LEMMA InjAppend ==
    ASSUME NEW S, NEW s \in Seq(S), NEW e \in S, Inj(s), e \notin Elems(s)
    PROVE  Inj(Append(s, e))
BY DEF Inj, Elems

(* The elements of a sequence are its head and those of its tail.          *)
LEMMA ElemsTail ==
    ASSUME NEW S, NEW s \in Seq(S), s # <<>>
    PROVE  /\ Elems(s) = {Head(s)} \cup Elems(Tail(s))
           /\ Head(s) \in S /\ Tail(s) \in Seq(S)
<1> DEFINE u == Tail(s)
<1>1. Len(u) = Len(s) - 1 /\ Head(s) = s[1] /\ Len(s) \in Nat \ {0}
      /\ \A i \in 1..Len(u) : u[i] = s[i + 1]
  OBVIOUS
<1>2. ASSUME NEW x \in Elems(s) PROVE x \in {Head(s)} \cup Elems(u)
  <2>1. PICK i \in 1..Len(s) : x = s[i]
    BY <1>2 DEF Elems
  <2>2. CASE i = 1
    BY <2>1, <2>2, <1>1
  <2>3. CASE i # 1
    <3>1. i - 1 \in 1..Len(u) /\ x = u[i - 1]
      BY <2>1, <2>3, <1>1
    <3> QED BY <3>1 DEF Elems
  <2> QED BY <2>2, <2>3
<1>3. ASSUME NEW x \in Elems(u) PROVE x \in Elems(s)
  <2>1. PICK i \in 1..Len(u) : x = u[i]
    BY <1>3 DEF Elems
  <2>2. i + 1 \in 1..Len(s) /\ x = s[i + 1]
    BY <2>1, <1>1
  <2> QED BY <2>2 DEF Elems
<1>4. Head(s) \in Elems(s)
  <2>1. 1 \in 1..Len(s)
    BY <1>1
  <2> QED BY <2>1, <1>1 DEF Elems
<1> QED BY <1>2, <1>3, <1>4

(* In a sequence free of duplicates the head is not in the tail.           *)
LEMMA InjTail ==
    ASSUME NEW S, NEW s \in Seq(S), s # <<>>, Inj(s)
    PROVE  Inj(Tail(s)) /\ Head(s) \notin Elems(Tail(s))
<1> DEFINE u == Tail(s)
<1>1. Len(u) = Len(s) - 1 /\ Head(s) = s[1] /\ Len(s) \in Nat \ {0}
      /\ \A i \in 1..Len(u) : u[i] = s[i + 1]
  OBVIOUS
<1>2. Inj(u)
  BY <1>1 DEF Inj
<1>3. ASSUME NEW i \in 1..Len(u) PROVE u[i] # Head(s)
  <2>1. i + 1 \in 1..Len(s) /\ 1 \in 1..Len(s) /\ i + 1 # 1
    BY <1>1
  <2> QED BY <2>1, <1>1 DEF Inj
<1> QED BY <1>2, <1>3 DEF Elems

(* LPUSH puts one event in front of the list. *)
LEMMA ElemsPush ==
    ASSUME NEW S, NEW s \in Seq(S), NEW e \in S
    PROVE  /\ Elems(<<e>> \o s) = {e} \cup Elems(s)
           /\ <<e>> \o s \in Seq(S)
           /\ Inj(s) /\ e \notin Elems(s) => Inj(<<e>> \o s)
<1> DEFINE a == <<e>> \o s
<1>1. a \in Seq(S) /\ Len(a) = Len(s) + 1 /\ a[1] = e /\ Len(s) \in Nat
      /\ \A i \in 2..Len(a) : a[i] = s[i - 1]
  OBVIOUS
<1>2. Head(a) = e /\ a # <<>> /\ Tail(a) = s
  BY <1>1
<1>3. Elems(a) = {e} \cup Elems(s)
  BY <1>1, <1>2, ElemsTail
<1>4. ASSUME Inj(s), e \notin Elems(s) PROVE Inj(a)
  <2> SUFFICES ASSUME NEW i \in 1..Len(a), NEW j \in 1..Len(a), i < j
               PROVE  a[i] # a[j]
    BY <1>1 DEF Inj
  <2>1. CASE i = 1
    BY <2>1, <1>1, <1>4 DEF Elems
  <2>2. CASE i # 1
    BY <2>2, <1>1, <1>4 DEF Inj
  <2> QED BY <2>1, <2>2
<1> QED BY <1>1, <1>3, <1>4

(* LTRIM keeps some of the events, at most StreamCap of them.              *)
LEMMA KeptPart ==
    ASSUME NEW S, NEW s \in Seq(S), StreamCap \in Nat
    PROVE  /\ Kept(s) \in Seq(S) /\ Len(Kept(s)) <= StreamCap
           /\ Elems(Kept(s)) \subseteq Elems(s)
           /\ Inj(s) => Inj(Kept(s))
<1>1. CASE Len(s) > StreamCap
  <2> DEFINE k == SubSeq(s, 1, StreamCap)
  <2>1. k \in Seq(S) /\ Len(k) = StreamCap /\ \A i \in 1..StreamCap : k[i] = s[i]
    BY <1>1
  <2>2. Elems(k) \subseteq Elems(s)
    BY <1>1, <2>1 DEF Elems
  <2>3. Inj(s) => Inj(k)
    BY <1>1, <2>1 DEF Inj
  <2> QED BY <1>1, <2>1, <2>2, <2>3 DEF Kept
<1>2. CASE ~(Len(s) > StreamCap)
  BY <1>2 DEF Kept
<1> QED BY <1>1, <1>2

(* Reading the list oldest first reorders it and no more.                  *)
LEMMA OldestFirstSame ==
    ASSUME NEW S, NEW s \in Seq(S)
    PROVE  /\ OldestFirst(s) \in Seq(S)
           /\ Elems(OldestFirst(s)) = Elems(s)
           /\ Inj(s) => Inj(OldestFirst(s))
<1> DEFINE r == OldestFirst(s)
           n == Len(s)
<1>1. n \in Nat /\ r = [i \in 1..n |-> s[n + 1 - i]]
  BY DEF OldestFirst
<1>2. \A i \in 1..n : n + 1 - i \in 1..n
  BY <1>1
<1>3. r \in Seq(S) /\ Len(r) = n
  <2>1. \A i \in 1..n : s[i] \in S
    OBVIOUS
  <2>2. r \in [1..n -> S]
    BY <1>1, <1>2, <2>1
  <2> QED BY <2>2, <1>1
<1>4. ASSUME NEW x \in Elems(r) PROVE x \in Elems(s)
  BY <1>1, <1>2, <1>3, <1>4 DEF Elems
<1>5. ASSUME NEW x \in Elems(s) PROVE x \in Elems(r)
  <2>1. PICK i \in 1..n : x = s[i]
    BY <1>5 DEF Elems
  <2>2. n + 1 - i \in 1..Len(r) /\ r[n + 1 - i] = s[i]
    BY <1>1, <1>2, <1>3
  <2> QED BY <2>1, <2>2 DEF Elems
<1>6. ASSUME Inj(s) PROVE Inj(r)
  BY <1>1, <1>2, <1>3, <1>6 DEF Inj
<1> QED BY <1>3, <1>4, <1>5, <1>6

-----------------------------------------------------------------------------
(* Types. *)

(* Storing a value of the right type in a function keeps its type. *)
LEMMA PutType ==
    ASSUME NEW D, NEW S, NEW f \in [D -> S], NEW d \in D, NEW v \in S
    PROVE  [f EXCEPT ![d] = v] \in [D -> S]
OBVIOUS

(* Taking the first event of a queue, and putting one at its end. *)
LEMMA QueueType ==
    ASSUME NEW S, NEW D, NEW q \in [D -> Seq(S)], NEW d \in D
    PROVE  /\ q[d] # <<>> => Head(q[d]) \in S /\ [q EXCEPT ![d] = Tail(@)] \in [D -> Seq(S)]
           /\ \A e \in S : [q EXCEPT ![d] = Append(@, e)] \in [D -> Seq(S)]
<1>1. q[d] \in Seq(S)
  OBVIOUS
<1>2. q[d] # <<>> => Head(q[d]) \in S /\ Tail(q[d]) \in Seq(S)
  BY <1>1
<1>3. \A e \in S : Append(q[d], e) \in Seq(S)
  BY <1>1
<1> QED BY <1>2, <1>3, PutType

(* Whatever is put into a session's queue is an event, and the queue never  *)
(* holds more than its capacity.                                           *)
LEMMA EnqueueType ==
    ASSUME GatewayTypes, HistoryTypes, NEW t \in Tabs, NEW e \in Eids, Enqueue(t, e)
    PROVE  /\ outbound' \in [Tabs -> Seq(Eids)]
           /\ \A u \in Tabs : Len(outbound'[u]) <= QueueCap
           /\ missed' \in [Tabs -> SUBSET Eids]
<1>1. CASE Len(outbound[t]) < QueueCap
  <2>1. outbound' = [outbound EXCEPT ![t] = Append(outbound[t], e)] /\ missed' = missed
    BY <1>1 DEF Enqueue
  <2>2. outbound \in [Tabs -> Seq(Eids)] /\ missed \in [Tabs -> SUBSET Eids]
        /\ \A u \in Tabs : Len(outbound[u]) <= QueueCap
    BY DEF GatewayTypes, HistoryTypes
  <2>3. Len(Append(outbound[t], e)) = Len(outbound[t]) + 1 /\ Len(outbound[t]) \in Nat
    BY <2>2
  <2> QED BY <1>1, <2>1, <2>2, <2>3, QueueType, EventStreamAssumption
<1>2. CASE ~(Len(outbound[t]) < QueueCap)
  <2>1. outbound' = outbound /\ missed' = [missed EXCEPT ![t] = missed[t] \cup {e}]
    BY <1>2 DEF Enqueue
  <2>2. missed[t] \cup {e} \in SUBSET Eids /\ missed \in [Tabs -> SUBSET Eids]
    BY DEF HistoryTypes
  <2> QED BY <2>1, <2>2, PutType DEF GatewayTypes
<1> QED BY <1>1, <1>2

(* Every variable of EventStream keeps its type, and the Redis list and    *)
(* the outbound queues keep within their capacities (LTRIM,                *)
(* sendToSession).                                                         *)
THEOREM TypeCorrect == Spec => []TypeOK
<1> USE EventStreamAssumption
<1>1. Init => TypeOK
  BY DEF Init, TypeOK, StreamTypes, GatewayTypes, TabTypes, XhrTypes, HistoryTypes, Eids
<1>2. TypeOK /\ [Next]_vars => TypeOK'
  <2> SUFFICES ASSUME TypeOK, [Next]_vars PROVE TypeOK'
    OBVIOUS
  <2> USE DEF TypeOK
  <2>1. ASSUME NEW p \in Producers, TakeEid(p) PROVE TypeOK'
    <3>1. GatewayTypes' /\ TabTypes' /\ XhrTypes' /\ HistoryTypes'
      BY <2>1 DEF TakeEid, gatewayVars, socketVars, xhrVars, GatewayTypes, TabTypes, XhrTypes, HistoryTypes
    <3>2. StreamTypes'
      BY <2>1 DEF TakeEid, StreamTypes, Eids
    <3> QED BY <3>1, <3>2
  <2>2. ASSUME NEW p \in Producers, Publish(p) PROVE TypeOK'
    <3>1. TabTypes' /\ XhrTypes'
      BY <2>2 DEF Publish, socketVars, xhrVars, TabTypes, XhrTypes
    <3>2. StreamTypes'
      BY <2>2 DEF Publish, StreamTypes, Eids
    <3>3. GatewayTypes'
      <4>1. prod[p].eid \in Eids
        BY <2>2 DEF Publish, StreamTypes
      <4>2. inbox' \in [Tabs -> Seq(Eids)]
        BY <4>1, <2>2 DEF Publish, GatewayTypes
      <4> QED BY <4>2, <2>2 DEF Publish, GatewayTypes
    <3>4. HistoryTypes'
      BY <2>2 DEF Publish, HistoryTypes, StreamTypes, Eids
    <3> QED BY <3>1, <3>2, <3>3, <3>4
  <2>3. ASSUME NEW p \in Producers, PushStream(p) PROVE TypeOK'
    <3>1. GatewayTypes' /\ TabTypes' /\ XhrTypes'
      BY <2>3 DEF PushStream, gatewayVars, socketVars, xhrVars, GatewayTypes, TabTypes, XhrTypes
    <3>2. StreamTypes'
      <4> DEFINE a == <<prod[p].eid>> \o stream
      <4>1. prod[p].eid \in Eids /\ stream \in Seq(Eids)
        BY <2>3 DEF PushStream, StreamTypes
      <4>2. Kept(a) \in Seq(Eids) /\ Len(Kept(a)) <= StreamCap
        <5>1. a \in Seq(Eids)
          BY <4>1, ElemsPush
        <5> HIDE DEF a
        <5> QED BY <5>1, KeptPart, EventStreamAssumption DEF EventStreamAssumption
      <4>3. prod' \in [Producers -> [at : {"idle"}, eid : {0}]
                              \cup [at : {"numbered", "published"}, eid : Eids]]
        BY <2>3 DEF PushStream, StreamTypes
      <4> QED BY <2>3, <4>2, <4>3 DEF PushStream, StreamTypes
    <3>3. HistoryTypes'
      <4> DEFINE a == <<prod[p].eid>> \o stream
      <4>1. prod[p].eid \in Eids /\ stream \in Seq(Eids)
        BY <2>3 DEF PushStream, StreamTypes
      <4>2. Elems(a) \subseteq Eids
        BY <4>1, ElemsPush DEF Elems
      <4> QED BY <2>3, <4>2 DEF PushStream, HistoryTypes
    <3> QED BY <3>1, <3>2, <3>3
  <2>4. ASSUME NEW p \in Producers, AbandonEvent(p) PROVE TypeOK'
    <3>1. GatewayTypes' /\ TabTypes' /\ XhrTypes'
      BY <2>4 DEF AbandonEvent, gatewayVars, socketVars, xhrVars, GatewayTypes, TabTypes, XhrTypes
    <3>2. StreamTypes'
      BY <2>4 DEF AbandonEvent, StreamTypes, Eids
    <3>3. HistoryTypes'
      BY <2>4 DEF AbandonEvent, HistoryTypes, StreamTypes, Eids
    <3> QED BY <3>1, <3>2, <3>3
  <2>5. ASSUME NEW t \in Tabs, Accept(t) PROVE TypeOK'
    <3>1. StreamTypes' /\ TabTypes' /\ XhrTypes' /\ HistoryTypes'
      BY <2>5 DEF Accept, streamVars, socketVars, xhrVars, StreamTypes, TabTypes, XhrTypes, HistoryTypes
    <3>2. GatewayTypes'
      BY <2>5 DEF Accept, GatewayTypes
    <3> QED BY <3>1, <3>2
  <2>6. ASSUME NEW t \in Tabs, ReadStream(t) PROVE TypeOK'
    <3>1. StreamTypes' /\ TabTypes' /\ XhrTypes'
      BY <2>6 DEF ReadStream, streamVars, socketVars, xhrVars, StreamTypes, TabTypes, XhrTypes
    <3>2. GatewayTypes'
      <4>1. OldestFirst(stream) \in Seq(Eids)
        BY OldestFirstSame DEF StreamTypes
      <4> QED BY <2>6, <4>1 DEF ReadStream, GatewayTypes
    <3>3. HistoryTypes'
      BY <2>6 DEF ReadStream, HistoryTypes, StreamTypes, Eids
    <3> QED BY <3>1, <3>2, <3>3
  <2>7. ASSUME NEW t \in Tabs, ReadStreamFails(t) PROVE TypeOK'
    <3>1. StreamTypes' /\ TabTypes' /\ XhrTypes'
      BY <2>7 DEF ReadStreamFails, streamVars, socketVars, xhrVars, StreamTypes, TabTypes, XhrTypes
    <3>2. GatewayTypes'
      BY <2>7 DEF ReadStreamFails, GatewayTypes, StreamTypes, Eids
    <3>3. HistoryTypes'
      BY <2>7 DEF ReadStreamFails, HistoryTypes, StreamTypes, Eids
    <3> QED BY <3>1, <3>2, <3>3
  <2>8. ASSUME NEW t \in Tabs, ReplayOne(t) PROVE TypeOK'
    <3>1. StreamTypes' /\ TabTypes' /\ XhrTypes'
      BY <2>8 DEF ReplayOne, streamVars, socketVars, xhrVars, StreamTypes, TabTypes, XhrTypes
    <3>2. GatewayTypes' /\ HistoryTypes'
      <4>1. Head(todo[t]) \in Eids /\ todo' \in [Tabs -> Seq(Eids)]
        BY <2>8, QueueType DEF ReplayOne, GatewayTypes
      <4>2. CASE Wanted(t, Head(todo[t]))
        <5>1. Enqueue(t, Head(todo[t]))
          BY <2>8, <4>2 DEF ReplayOne
        <5> QED BY <2>8, <4>1, <5>1, EnqueueType DEF ReplayOne, GatewayTypes, HistoryTypes
      <4>3. CASE ~Wanted(t, Head(todo[t]))
        BY <2>8, <4>1, <4>3 DEF ReplayOne, GatewayTypes, HistoryTypes
      <4> QED BY <4>2, <4>3
    <3> QED BY <3>1, <3>2
  <2>9. ASSUME NEW t \in Tabs, ReplayDone(t) PROVE TypeOK'
    <3>1. StreamTypes' /\ TabTypes' /\ XhrTypes' /\ HistoryTypes'
      BY <2>9 DEF ReplayDone, streamVars, socketVars, xhrVars, StreamTypes, TabTypes, XhrTypes, HistoryTypes
    <3>2. GatewayTypes'
      BY <2>9 DEF ReplayDone, GatewayTypes
    <3> QED BY <3>1, <3>2
  <2>10. ASSUME NEW t \in Tabs, Subscribe(t) PROVE TypeOK'
    <3>1. StreamTypes' /\ TabTypes' /\ XhrTypes' /\ HistoryTypes'
      BY <2>10 DEF Subscribe, streamVars, socketVars, xhrVars, StreamTypes, TabTypes, XhrTypes, HistoryTypes
    <3>2. GatewayTypes'
      BY <2>10 DEF Subscribe, GatewayTypes
    <3> QED BY <3>1, <3>2
  <2>11. ASSUME NEW t \in Tabs, Listen(t) PROVE TypeOK'
    <3>1. StreamTypes' /\ TabTypes' /\ XhrTypes'
      BY <2>11 DEF Listen, streamVars, socketVars, xhrVars, StreamTypes, TabTypes, XhrTypes
    <3>2. GatewayTypes' /\ HistoryTypes'
      <4>1. Head(inbox[t]) \in Eids /\ inbox' \in [Tabs -> Seq(Eids)]
        BY <2>11, QueueType DEF Listen, GatewayTypes
      <4>2. CASE Head(inbox[t]) > FilterCursor(t)
        <5>1. Enqueue(t, Head(inbox[t]))
          BY <2>11, <4>2 DEF Listen
        <5> QED BY <2>11, <4>1, <5>1, EnqueueType DEF Listen, GatewayTypes, HistoryTypes
      <4>3. CASE ~(Head(inbox[t]) > FilterCursor(t))
        BY <2>11, <4>1, <4>3 DEF Listen, GatewayTypes, HistoryTypes
      <4> QED BY <4>2, <4>3
    <3> QED BY <3>1, <3>2
  <2>12. ASSUME NEW t \in Tabs, Drain(t) PROVE TypeOK'
    <3>1. StreamTypes' /\ XhrTypes' /\ HistoryTypes'
      BY <2>12 DEF Drain, streamVars, xhrVars, StreamTypes, XhrTypes, HistoryTypes
    <3>2. GatewayTypes' /\ TabTypes'
      <4>1. Head(outbound[t]) \in Eids /\ outbound' \in [Tabs -> Seq(Eids)]
        BY <2>12, QueueType DEF Drain, BatchReady, GatewayTypes
      <4>2. wire' \in [Tabs -> Seq(Eids)]
        BY <2>12, <4>1, QueueType DEF Drain, TabTypes
      <4>3. ASSUME NEW u \in Tabs PROVE Len(outbound'[u]) <= QueueCap
        <5>1. outbound[t] \in Seq(Eids) /\ outbound[t] # <<>>
          BY <2>12 DEF Drain, BatchReady, GatewayTypes
        <5>2. Len(Tail(outbound[t])) <= Len(outbound[t]) /\ Len(outbound[t]) \in Nat
              /\ Len(Tail(outbound[t])) \in Nat
          BY <5>1
        <5> QED BY <2>12, <5>2 DEF Drain, GatewayTypes
      <4> QED BY <2>12, <4>1, <4>2, <4>3 DEF Drain, GatewayTypes, TabTypes
    <3> QED BY <3>1, <3>2
  <2>13. ASSUME NEW t \in Tabs, ReadAck(t) PROVE TypeOK'
    <3>1. StreamTypes' /\ XhrTypes' /\ HistoryTypes'
      BY <2>13 DEF ReadAck, streamVars, xhrVars, StreamTypes, XhrTypes, HistoryTypes
    <3>2. GatewayTypes' /\ TabTypes'
      <4>1. Head(acks[t]) \in 0..MaxEid /\ acks' \in [Tabs -> Seq(0..MaxEid)]
        BY <2>13, QueueType DEF ReadAck, TabTypes
      <4>2. MaxOf(lastDelivered[t], Head(acks[t])) \in 0..MaxEid
        BY <4>1 DEF MaxOf, GatewayTypes
      <4> QED BY <2>13, <4>1, <4>2 DEF ReadAck, GatewayTypes, TabTypes
    <3> QED BY <3>1, <3>2
  <2>14. ASSUME NEW t \in Tabs, Connect(t) PROVE TypeOK'
    <3>1. StreamTypes' /\ GatewayTypes' /\ XhrTypes' /\ HistoryTypes'
      BY <2>14 DEF Connect, streamVars, gatewayVars, xhrVars, StreamTypes, GatewayTypes, XhrTypes, HistoryTypes
    <3>2. TabTypes'
      BY <2>14 DEF Connect, TabTypes, ResumeFrom, Eids
    <3> QED BY <3>1, <3>2
  <2>15. ASSUME NEW t \in Tabs, Opened(t) PROVE TypeOK'
    <3>1. StreamTypes' /\ GatewayTypes' /\ HistoryTypes'
      BY <2>15 DEF Opened, streamVars, gatewayVars, StreamTypes, GatewayTypes, HistoryTypes
    <3>2. TabTypes'
      BY <2>15 DEF Opened, TabTypes
    <3>3. XhrTypes'
      BY <2>15 DEF Opened, XhrTypes
    <3> QED BY <3>1, <3>2, <3>3
  <2>16. ASSUME NEW t \in Tabs, Receive(t) PROVE TypeOK'
    <3>1. StreamTypes' /\ GatewayTypes' /\ XhrTypes'
      BY <2>16 DEF Receive, streamVars, gatewayVars, xhrVars, StreamTypes, GatewayTypes, XhrTypes
    <3>2. TabTypes' /\ HistoryTypes'
      <4>1. Head(wire[t]) \in Eids /\ wire' \in [Tabs -> Seq(Eids)]
        BY <2>16, QueueType DEF Receive, TabTypes
      <4>2. MaxOf(maxEid[t], Head(wire[t])) \in 0..MaxEid
        BY <4>1 DEF MaxOf, TabTypes, Eids
      <4>3. seen' \in [Tabs -> Seq(Eids)]
        BY <2>16, <4>1, QueueType DEF Receive, HandleEvent, HistoryTypes
      <4> QED BY <2>16, <4>1, <4>2, <4>3 DEF Receive, HandleEvent, TabTypes, HistoryTypes
    <3> QED BY <3>1, <3>2
  <2>17. ASSUME NEW t \in Tabs, SendAck(t) PROVE TypeOK'
    <3>1. StreamTypes' /\ GatewayTypes' /\ XhrTypes' /\ HistoryTypes'
      BY <2>17 DEF SendAck, streamVars, gatewayVars, xhrVars, StreamTypes, GatewayTypes, XhrTypes, HistoryTypes
    <3>2. TabTypes'
      <4>1. acks' \in [Tabs -> Seq(0..MaxEid)]
        BY <2>17, QueueType DEF SendAck, AckValue, TabTypes
      <4> QED BY <2>17, <4>1 DEF SendAck, TabTypes
    <3> QED BY <3>1, <3>2
  <2>18. ASSUME NEW t \in Tabs, Disconnect(t) PROVE TypeOK'
    <3>1. StreamTypes' /\ HistoryTypes'
      BY <2>18 DEF Disconnect, streamVars, StreamTypes, HistoryTypes
    <3>2. GatewayTypes'
      BY <2>18 DEF Disconnect, GatewayTypes
    <3>3. TabTypes'
      BY <2>18 DEF Disconnect, TabTypes
    <3>4. XhrTypes'
      BY <2>18 DEF Disconnect, XhrTypes
    <3> QED BY <3>1, <3>2, <3>3, <3>4
  <2>19. ASSUME NEW t \in Tabs, AskEvents(t) PROVE TypeOK'
    <3>1. StreamTypes' /\ GatewayTypes' /\ TabTypes' /\ HistoryTypes'
      BY <2>19 DEF AskEvents, streamVars, gatewayVars, socketVars, StreamTypes, GatewayTypes, TabTypes, HistoryTypes
    <3>2. XhrTypes'
      BY <2>19 DEF AskEvents, XhrTypes, TabTypes
    <3> QED BY <3>1, <3>2
  <2>20. ASSUME NEW t \in Tabs, ServeEvents(t) PROVE TypeOK'
    <3>1. StreamTypes' /\ GatewayTypes' /\ TabTypes' /\ HistoryTypes'
      BY <2>20 DEF ServeEvents, streamVars, gatewayVars, socketVars, StreamTypes, GatewayTypes, TabTypes, HistoryTypes
    <3>2. XhrTypes'
      <4>1. OldestFirst(stream) \in Seq(Eids)
        BY OldestFirstSame DEF StreamTypes
      <4> QED BY <2>20, <4>1 DEF ServeEvents, XhrTypes
    <3> QED BY <3>1, <3>2
  <2>21. ASSUME NEW t \in Tabs, PollFails(t) PROVE TypeOK'
    <3>1. StreamTypes' /\ GatewayTypes' /\ TabTypes' /\ HistoryTypes'
      BY <2>21 DEF PollFails, streamVars, gatewayVars, socketVars, StreamTypes, GatewayTypes, TabTypes, HistoryTypes
    <3>2. XhrTypes'
      BY <2>21 DEF PollFails, XhrTypes
    <3> QED BY <3>1, <3>2
  <2>22. ASSUME NEW t \in Tabs, TakeReply(t) PROVE TypeOK'
    <3>1. StreamTypes' /\ GatewayTypes' /\ TabTypes' /\ HistoryTypes'
      BY <2>22 DEF TakeReply, streamVars, gatewayVars, socketVars, StreamTypes, GatewayTypes, TabTypes, HistoryTypes
    <3>2. XhrTypes'
      BY <2>22 DEF TakeReply, XhrTypes
    <3> QED BY <3>1, <3>2
  <2>23. ASSUME NEW t \in Tabs, HandleReply(t) PROVE TypeOK'
    <3>1. StreamTypes' /\ GatewayTypes'
      BY <2>23 DEF HandleReply, streamVars, gatewayVars, StreamTypes, GatewayTypes
    <3>2. TabTypes' /\ XhrTypes' /\ HistoryTypes'
      <4>1. CASE reply[t] = <<>>
        BY <2>23, <4>1 DEF HandleReply, socketVars, TabTypes, XhrTypes, HistoryTypes
      <4>2. CASE reply[t] # <<>>
        <5>1. Head(reply[t]) \in Eids /\ reply' \in [Tabs -> Seq(Eids)]
          <6>1. reply' = [reply EXCEPT ![t] = Tail(@)]
            BY <2>23, <4>2 DEF HandleReply
          <6>2. reply \in [Tabs -> Seq(Eids)]
            BY DEF XhrTypes
          <6> QED BY <4>2, <6>1, <6>2, QueueType
        <5>2. XhrTypes'
          BY <2>23, <4>2, <5>1 DEF HandleReply, XhrTypes
        <5>3. CASE Head(reply[t]) > asked[t]
          <6>1. HandleEvent(t, Head(reply[t]))
            BY <2>23, <4>2, <5>3 DEF HandleReply
          <6>2. MaxOf(maxEid[t], Head(reply[t])) \in 0..MaxEid
            BY <5>1 DEF MaxOf, TabTypes, Eids
          <6>3. seen' \in [Tabs -> Seq(Eids)]
            BY <5>1, <6>1, QueueType DEF HandleEvent, HistoryTypes
          <6> QED BY <2>23, <5>2, <6>1, <6>2, <6>3
              DEF HandleReply, HandleEvent, socketVars, TabTypes, HistoryTypes
        <5>4. CASE ~(Head(reply[t]) > asked[t])
          BY <2>23, <4>2, <5>2, <5>4 DEF HandleReply, socketVars, TabTypes, HistoryTypes
        <5> QED BY <5>3, <5>4
      <4> QED BY <4>1, <4>2
    <3> QED BY <3>1, <3>2
  <2>24. CASE UNCHANGED vars
    BY <2>24 DEF vars, streamVars, gatewayVars, socketVars, xhrVars, StreamTypes, GatewayTypes, TabTypes, XhrTypes, HistoryTypes
  <2> QED
    BY <2>1, <2>2, <2>3, <2>4, <2>5, <2>6, <2>7, <2>8, <2>9, <2>10, <2>11, <2>12, <2>13, <2>14, <2>15, <2>16, <2>17, <2>18, <2>19, <2>20, <2>21, <2>22, <2>23, <2>24
    DEF Next, Publisher, Gateway, Tab
<1> QED BY <1>1, <1>2, PTL DEF Spec

-----------------------------------------------------------------------------
(* Acks. *)

(* The gateway never credits a tab with an event it has not reached: the    *)
(* ack cursor the live filter reads and every ack on its way stay at or    *)
(* below the tab's maxEid, with the XHR fallback on or off.                *)
THEOREM AcksTrail == Spec => []AckNeverAhead
<1>1. Init => AckNeverAhead
  <2> SUFFICES ASSUME Init, NEW t \in Tabs
               PROVE  lastDelivered[t] <= maxEid[t] /\ \A a \in Elems(acks[t]) : a <= maxEid[t]
    BY DEF AckNeverAhead
  <2>1. lastDelivered[t] = 0 /\ maxEid[t] = 0 /\ acks[t] = <<>>
    BY DEF Init
  <2> QED BY <2>1, ElemsEmpty
<1>2. TypeOK /\ AckNeverAhead /\ [Next]_vars => AckNeverAhead'
  <2> SUFFICES ASSUME TypeOK, AckNeverAhead, [Next]_vars, NEW u \in Tabs
               PROVE  /\ lastDelivered'[u] <= maxEid'[u]
                      /\ \A a \in Elems(acks'[u]) : a <= maxEid'[u]
    BY DEF AckNeverAhead, Elems
  <2>1. /\ maxEid \in [Tabs -> 0..MaxEid] /\ lastDelivered \in [Tabs -> 0..MaxEid]
        /\ acks \in [Tabs -> Seq(0..MaxEid)] /\ MaxEid \in Nat
        /\ wire \in [Tabs -> Seq(Eids)] /\ reply \in [Tabs -> Seq(Eids)]
    BY EventStreamAssumption DEF TypeOK, GatewayTypes, TabTypes, XhrTypes
  <2>2. /\ lastDelivered[u] <= maxEid[u]
        /\ \A a \in Elems(acks[u]) : a <= maxEid[u]
        /\ Elems(acks[u]) \subseteq 0..MaxEid
    BY <2>1 DEF AckNeverAhead, Elems
  <2>3. ASSUME UNCHANGED <<lastDelivered, acks, maxEid>>
        PROVE  /\ lastDelivered'[u] <= maxEid'[u]
               /\ \A a \in Elems(acks'[u]) : a <= maxEid'[u]
    BY <2>2, <2>3
  <2>4. ASSUME NEW t \in Tabs, NEW e \in Eids, HandleEvent(t, e),
               UNCHANGED <<lastDelivered, acks>>
        PROVE  /\ lastDelivered'[u] <= maxEid'[u]
               /\ \A a \in Elems(acks'[u]) : a <= maxEid'[u]
    <3>1. maxEid'[u] >= maxEid[u] /\ maxEid'[u] \in Int
      BY <2>1, <2>4 DEF HandleEvent, MaxOf, Eids
    <3> QED BY <2>1, <2>2, <2>4, <3>1
  <2>5. ASSUME NEW t \in Tabs, ReadAck(t)
        PROVE  /\ lastDelivered'[u] <= maxEid'[u]
               /\ \A a \in Elems(acks'[u]) : a <= maxEid'[u]
    <3>1. CASE u = t
      <4>1. /\ Elems(acks[u]) = {Head(acks[u])} \cup Elems(Tail(acks[u]))
            /\ Head(acks[u]) \in 0..MaxEid
        BY <2>1, <2>5, <3>1, ElemsTail DEF ReadAck
      <4>2. lastDelivered'[u] <= maxEid[u]
        BY <2>1, <2>2, <2>5, <3>1, <4>1 DEF ReadAck, MaxOf
      <4> QED BY <2>1, <2>2, <2>5, <3>1, <4>1, <4>2 DEF ReadAck
    <3>2. CASE u # t
      BY <2>1, <2>2, <2>5, <3>2 DEF ReadAck
    <3> QED BY <3>1, <3>2
  <2>6. ASSUME NEW t \in Tabs, SendAck(t)
        PROVE  /\ lastDelivered'[u] <= maxEid'[u]
               /\ \A a \in Elems(acks'[u]) : a <= maxEid'[u]
    <3>1. CASE u = t
      <4>1. Elems(acks'[u]) = Elems(acks[u]) \cup {maxEid[u]}
        <5>1. acks'[u] = Append(acks[u], maxEid[u])
          BY <2>1, <2>6, <3>1 DEF SendAck, AckValue
        <5> DEFINE Eid0 == 0..MaxEid
        <5>2. acks[u] \in Seq(Eid0) /\ maxEid[u] \in Eid0
          BY <2>1
        <5> HIDE DEF Eid0
        <5>3. Elems(Append(acks[u], maxEid[u])) = Elems(acks[u]) \cup {maxEid[u]}
          BY <5>2, ElemsAppend
        <5> QED BY <5>1, <5>3
      <4> QED BY <2>1, <2>2, <2>6, <3>1, <4>1 DEF SendAck, gatewayVars
    <3>2. CASE u # t
      BY <2>1, <2>2, <2>6, <3>2 DEF SendAck, gatewayVars
    <3> QED BY <3>1, <3>2
  <2>7. ASSUME NEW t \in Tabs, Disconnect(t)
        PROVE  /\ lastDelivered'[u] <= maxEid'[u]
               /\ \A a \in Elems(acks'[u]) : a <= maxEid'[u]
    <3>1. CASE u = t
      <4>1. lastDelivered'[u] = 0 /\ acks'[u] = <<>> /\ maxEid' = maxEid
        BY <2>1, <2>7, <3>1 DEF Disconnect
      <4> QED BY <2>1, <4>1 DEF Elems
    <3>2. CASE u # t
      BY <2>1, <2>2, <2>7, <3>2 DEF Disconnect
    <3> QED BY <3>1, <3>2
  <2>8. ASSUME NEW t \in Tabs, Receive(t)
        PROVE  /\ lastDelivered'[u] <= maxEid'[u]
               /\ \A a \in Elems(acks'[u]) : a <= maxEid'[u]
    <3>1. Head(wire[t]) \in Eids
      BY <2>1, <2>8 DEF Receive
    <3> QED BY <2>4, <2>8, <3>1 DEF Receive, gatewayVars
  <2>9. ASSUME NEW t \in Tabs, HandleReply(t)
        PROVE  /\ lastDelivered'[u] <= maxEid'[u]
               /\ \A a \in Elems(acks'[u]) : a <= maxEid'[u]
    <3>1. CASE reply[t] # <<>> /\ Head(reply[t]) > asked[t]
      <4>1. Head(reply[t]) \in Eids
        BY <2>1, <3>1
      <4> QED BY <2>4, <2>9, <3>1, <4>1 DEF HandleReply, gatewayVars, socketVars
    <3>2. CASE ~(reply[t] # <<>> /\ Head(reply[t]) > asked[t])
      BY <2>3, <2>9, <3>2 DEF HandleReply, gatewayVars, socketVars
    <3> QED BY <3>1, <3>2
  <2>10. ASSUME NEW p \in Producers, Publisher(p)
         PROVE  UNCHANGED <<lastDelivered, acks, maxEid>>
    BY <2>10 DEF Publisher, TakeEid, Publish, PushStream, AbandonEvent, gatewayVars, socketVars
  <2>11. ASSUME NEW t \in Tabs,
                \/ Accept(t) \/ ReadStream(t) \/ ReadStreamFails(t) \/ ReplayOne(t)
                \/ ReplayDone(t) \/ Subscribe(t) \/ Listen(t) \/ Drain(t)
         PROVE  UNCHANGED <<lastDelivered, acks, maxEid>>
    BY <2>11 DEF Accept, ReadStream, ReadStreamFails, ReplayOne, ReplayDone, Subscribe, Listen,
         Drain, socketVars
  <2>12. ASSUME NEW t \in Tabs,
                \/ Connect(t) \/ Opened(t) \/ AskEvents(t) \/ ServeEvents(t)
                \/ PollFails(t) \/ TakeReply(t)
         PROVE  UNCHANGED <<lastDelivered, acks, maxEid>>
    BY <2>12 DEF Connect, Opened, AskEvents, ServeEvents, PollFails, TakeReply,
         gatewayVars, socketVars
  <2>13. UNCHANGED vars => UNCHANGED <<lastDelivered, acks, maxEid>>
    BY DEF vars, gatewayVars, socketVars
  <2> QED
    BY <2>3, <2>5, <2>6, <2>7, <2>8, <2>9, <2>10, <2>11, <2>12, <2>13
    DEF Next, Gateway, Tab
<1> QED BY <1>1, <1>2, TypeCorrect, PTL DEF Spec

-----------------------------------------------------------------------------
(* At most once. *)

(* Every event has one publisher and one eid: eids are published once, and  *)
(* pushed to the Redis list once, after they were published.               *)
Numbering ==
    /\ \A p \in Producers : prod[p].at # "idle" => prod[p].eid \in 1..globalEid
    /\ \A p, q \in Producers :
          p # q /\ prod[p].at # "idle" /\ prod[q].at # "idle" => prod[p].eid # prod[q].eid
    /\ \A p \in Producers : prod[p].at = "numbered" => prod[p].eid \notin published
    /\ \A p \in Producers : prod[p].at = "published" =>
          prod[p].eid \in published /\ prod[p].eid \notin Elems(stream)
    /\ published \subseteq 1..globalEid
    /\ Elems(stream) \subseteq published
    /\ Inj(stream)

(* What a connection holds in each phase of its handler.  Until the replay  *)
(* is over nothing reaches the tab, so ?since= is still its maxEid.        *)
Shape(t) ==
    /\ sock[t] = "closed" => phase[t] = "none"
    /\ phase[t] \in {"none", "boot"} => todo[t] = <<>> /\ outbound[t] = <<>>
    /\ phase[t] # "open" => wire[t] = <<>> /\ ~subscribed[t]
    /\ phase[t] = "open" => todo[t] = <<>>
    /\ ~subscribed[t] => inbox[t] = <<>>
    /\ sock[t] # "closed" /\ phase[t] # "open" => since[t] = maxEid[t]
    /\ poll[t] = "off"

(* An event is in at most one place on its way to the tab, and there once;  *)
(* what the tab handled is on no way any more, and the rows a replay will  *)
(* still send are neither handled nor queued.                              *)
OncePerTab(t) ==
    /\ Inj(seen[t]) /\ Inj(wire[t]) /\ Inj(outbound[t]) /\ Inj(inbox[t]) /\ Inj(todo[t])
    /\ \A e \in Elems(seen[t]) : e \notin Elems(wire[t]) \cup Elems(outbound[t]) \cup Elems(inbox[t])
    /\ \A e \in Elems(wire[t]) : e \notin Elems(outbound[t]) \cup Elems(inbox[t])
    /\ \A e \in Elems(outbound[t]) : e \notin Elems(inbox[t])
    /\ \A e \in Elems(todo[t]) : Wanted(t, e) => e \notin Elems(seen[t]) \cup Elems(outbound[t])
    /\ Elems(seen[t]) \cup Elems(wire[t]) \cup Elems(outbound[t]) \cup Elems(inbox[t])
          \cup Elems(todo[t]) \subseteq published
    /\ \A e \in Elems(seen[t]) : e <= maxEid[t]

OnceInv == Numbering /\ \A t \in Tabs : Shape(t) /\ OncePerTab(t)

(* Every step keeps the numbering and retracts no event.                   *)
LEMMA NumberingStep ==
    ASSUME TypeOK, Numbering, [Next]_vars
    PROVE  Numbering' /\ published \subseteq published'
<1> DEFINE Goal == Numbering' /\ published \subseteq published'
<1>1. /\ globalEid \in Nat /\ stream \in Seq(Eids) /\ StreamCap \in Nat
      /\ \A p \in Producers : prod[p] \in [at : {"idle"}, eid : {0}]
                              \cup [at : {"numbered", "published"}, eid : Eids]
      /\ prod = [p \in Producers |-> prod[p]]
  BY EventStreamAssumption DEF TypeOK, StreamTypes
<1>2. ASSUME NEW p \in Producers, TakeEid(p) PROVE Goal
  <2>1. globalEid' = globalEid + 1 /\ UNCHANGED <<stream, published>>
    BY <1>2 DEF TakeEid
  <2>2. /\ prod'[p].at = "numbered" /\ prod'[p].eid = globalEid + 1
        /\ \A q \in Producers : q # p => prod'[q] = prod[q]
    BY <1>1, <1>2 DEF TakeEid
  <2>3. globalEid + 1 \notin published
    BY <1>1 DEF Numbering
  <2>4. \A q \in Producers : q # p /\ prod[q].at # "idle" => prod[q].eid # globalEid + 1
    BY <1>1 DEF Numbering
  <2> QED BY <1>1, <2>1, <2>2, <2>3, <2>4 DEF Numbering
<1>3. ASSUME NEW p \in Producers, Publish(p) PROVE Goal
  <2>1. UNCHANGED <<globalEid, stream>> /\ published' = published \cup {prod[p].eid}
        /\ prod[p].at = "numbered"
    BY <1>3 DEF Publish
  <2>2. /\ prod'[p].at = "published" /\ prod'[p].eid = prod[p].eid
        /\ \A q \in Producers : q # p => prod'[q] = prod[q]
    BY <1>1, <1>3 DEF Publish
  <2> QED BY <1>1, <2>1, <2>2 DEF Numbering
<1>4. ASSUME NEW p \in Producers, PushStream(p) PROVE Goal
  <2> DEFINE a == <<prod[p].eid>> \o stream
  <2>1. UNCHANGED <<globalEid, published>> /\ stream' = Kept(a) /\ prod[p].at = "published"
    BY <1>4 DEF PushStream
  <2>2. /\ prod'[p].at = "idle"
        /\ \A q \in Producers : q # p => prod'[q] = prod[q]
    BY <1>1, <1>4 DEF PushStream
  <2>3. prod[p].eid \in Eids /\ prod[p].eid \notin Elems(stream) /\ prod[p].eid \in published
    BY <1>1, <2>1 DEF Numbering
  <2>4. a \in Seq(Eids) /\ Inj(a) /\ Elems(a) = {prod[p].eid} \cup Elems(stream)
    BY <1>1, <2>3, ElemsPush DEF Numbering
  <2>5. Inj(stream') /\ Elems(stream') \subseteq {prod[p].eid} \cup Elems(stream)
    BY <1>1, <2>1, <2>4, KeptPart
  <2> QED BY <1>1, <2>1, <2>2, <2>3, <2>5 DEF Numbering
<1>5. ASSUME NEW p \in Producers, AbandonEvent(p) PROVE Goal
  <2>1. UNCHANGED <<globalEid, stream, published>>
    BY <1>5 DEF AbandonEvent
  <2>2. /\ prod'[p].at = "idle"
        /\ \A q \in Producers : q # p => prod'[q] = prod[q]
    BY <1>1, <1>5 DEF AbandonEvent
  <2> QED BY <2>1, <2>2 DEF Numbering
<1>6. ASSUME UNCHANGED streamVars PROVE Goal
  BY <1>6 DEF streamVars, Numbering
<1>7. ASSUME NEW t \in Tabs, Gateway(t) PROVE UNCHANGED streamVars
  BY <1>7 DEF Gateway, Accept, ReadStream, ReadStreamFails, ReplayOne, ReplayDone, Subscribe,
     Listen, Drain, ReadAck
<1>8. ASSUME NEW t \in Tabs, Tab(t) PROVE UNCHANGED streamVars
  BY <1>8 DEF Tab, Connect, Opened, Receive, SendAck, Disconnect, AskEvents, ServeEvents,
     PollFails, TakeReply, HandleReply
<1>9. UNCHANGED vars => UNCHANGED streamVars
  BY DEF vars
<1> QED
  BY <1>2, <1>3, <1>4, <1>5, <1>6, <1>7, <1>8, <1>9 DEF Next, Publisher

(* The shape of a connection is kept by every step when there is no XHR     *)
(* fallback.                                                               *)
LEMMA ShapeStep ==
    ASSUME XhrFallback = FALSE, TypeOK, [Next]_vars, NEW u \in Tabs, Shape(u)
    PROVE  Shape(u)'
<1>1. /\ phase \in [Tabs -> {"none", "boot", "replay", "open"}]
      /\ sock \in [Tabs -> {"closed", "connecting", "open"}]
      /\ todo \in [Tabs -> Seq(Eids)] /\ inbox \in [Tabs -> Seq(Eids)]
      /\ outbound \in [Tabs -> Seq(Eids)] /\ wire \in [Tabs -> Seq(Eids)]
      /\ subscribed \in [Tabs -> BOOLEAN] /\ since \in [Tabs -> 0..MaxEid]
      /\ maxEid \in [Tabs -> 0..MaxEid]
      /\ poll \in [Tabs -> {"off", "idle", "asked", "answered", "handling"}]
  BY DEF TypeOK, GatewayTypes, TabTypes, XhrTypes
<1> USE DEF Shape
<1>2. ASSUME NEW p \in Producers, Publish(p) PROVE Shape(u)'
  BY <1>1, <1>2 DEF Publish, socketVars, xhrVars
<1>3. ASSUME NEW p \in Producers, TakeEid(p) \/ PushStream(p) \/ AbandonEvent(p)
      PROVE  Shape(u)'
  BY <1>3 DEF TakeEid, PushStream, AbandonEvent, gatewayVars, socketVars, xhrVars
<1>4. ASSUME NEW t \in Tabs, Accept(t) PROVE Shape(u)'
  BY <1>1, <1>4 DEF Accept, socketVars, xhrVars
<1>5. ASSUME NEW t \in Tabs, ReadStream(t) PROVE Shape(u)'
  BY <1>1, <1>5 DEF ReadStream, socketVars, xhrVars
<1>6. ASSUME NEW t \in Tabs, ReadStreamFails(t) PROVE Shape(u)'
  BY <1>1, <1>6 DEF ReadStreamFails, socketVars, xhrVars
<1>7. ASSUME NEW t \in Tabs, ReplayOne(t) PROVE Shape(u)'
  BY <1>1, <1>7 DEF ReplayOne, Enqueue, socketVars, xhrVars
<1>8. ASSUME NEW t \in Tabs, ReplayDone(t) PROVE Shape(u)'
  BY <1>1, <1>8 DEF ReplayDone, socketVars, xhrVars
<1>9. ASSUME NEW t \in Tabs, Subscribe(t) PROVE Shape(u)'
  BY <1>1, <1>9 DEF Subscribe, socketVars, xhrVars
<1>10. ASSUME NEW t \in Tabs, Listen(t) PROVE Shape(u)'
  BY <1>1, <1>10 DEF Listen, Enqueue, socketVars, xhrVars
<1>11. ASSUME NEW t \in Tabs, Drain(t) PROVE Shape(u)'
  BY <1>1, <1>11 DEF Drain, BatchReady, xhrVars
<1>12. ASSUME NEW t \in Tabs, ReadAck(t) PROVE Shape(u)'
  BY <1>1, <1>12 DEF ReadAck, xhrVars
<1>13. ASSUME NEW t \in Tabs, Connect(t) PROVE Shape(u)'
  BY <1>1, <1>13 DEF Connect, ResumeFrom, gatewayVars, xhrVars
<1>14. ASSUME NEW t \in Tabs, Opened(t) PROVE Shape(u)'
  BY <1>1, <1>14 DEF Opened, gatewayVars
<1>15. ASSUME NEW t \in Tabs, Receive(t) PROVE Shape(u)'
  BY <1>1, <1>15 DEF Receive, HandleEvent, gatewayVars, xhrVars
<1>16. ASSUME NEW t \in Tabs, SendAck(t) PROVE Shape(u)'
  BY <1>1, <1>16 DEF SendAck, gatewayVars, xhrVars
<1>17. ASSUME NEW t \in Tabs, Disconnect(t) PROVE Shape(u)'
  BY <1>1, <1>17 DEF Disconnect
<1>18. ASSUME NEW t \in Tabs,
              AskEvents(t) \/ ServeEvents(t) \/ PollFails(t) \/ TakeReply(t) \/ HandleReply(t)
       PROVE  Shape(u)'
  <2>1. u # t
    BY <1>18 DEF AskEvents, ServeEvents, PollFails, TakeReply, HandleReply
  <2>2. poll'[u] = poll[u] /\ maxEid'[u] = maxEid[u] /\ UNCHANGED <<gatewayVars, socketVars>>
    BY <1>1, <1>18, <2>1
    DEF AskEvents, ServeEvents, PollFails, TakeReply, HandleReply, HandleEvent
  <2> QED BY <2>2 DEF gatewayVars, socketVars
<1>19. CASE UNCHANGED vars
  BY <1>19 DEF vars, gatewayVars, socketVars, xhrVars
<1> QED
  BY <1>2, <1>3, <1>4, <1>5, <1>6, <1>7, <1>8, <1>9, <1>10, <1>11, <1>12, <1>13, <1>14, <1>15,
     <1>16, <1>17, <1>18, <1>19
  DEF Next, Publisher, Gateway, Tab

(* A step that leaves a tab's queues alone keeps its events apart. *)
LEMMA OnceUntouched ==
    ASSUME NEW u \in Tabs, OncePerTab(u), published \subseteq published',
           seen'[u] = seen[u], wire'[u] = wire[u], outbound'[u] = outbound[u],
           inbox'[u] = inbox[u], todo'[u] = todo[u], since'[u] = since[u],
           maxEid'[u] = maxEid[u]
    PROVE  OncePerTab(u)'
BY DEF OncePerTab, Wanted

(* Enqueue adds at most the event it is given, to one queue. *)
LEMMA EnqueueEffect ==
    ASSUME TypeOK, NEW t \in Tabs, NEW e \in Eids, Enqueue(t, e), Inj(outbound[t]),
           e \notin Elems(outbound[t])
    PROVE  /\ Inj(outbound'[t]) /\ Elems(outbound'[t]) \subseteq Elems(outbound[t]) \cup {e}
           /\ \A u \in Tabs : u # t => outbound'[u] = outbound[u]
<1>1. outbound \in [Tabs -> Seq(Eids)]
  BY DEF TypeOK, GatewayTypes
<1>2. CASE Len(outbound[t]) < QueueCap
  <2>1. outbound'[t] = Append(outbound[t], e) /\ \A u \in Tabs : u # t => outbound'[u] = outbound[u]
    BY <1>1, <1>2 DEF Enqueue
  <2>2. Inj(Append(outbound[t], e)) /\ Elems(Append(outbound[t], e)) = Elems(outbound[t]) \cup {e}
    BY <1>1, ElemsAppend, InjAppend
  <2> QED BY <2>1, <2>2
<1>3. CASE ~(Len(outbound[t]) < QueueCap)
  BY <1>1, <1>3 DEF Enqueue
<1> QED BY <1>2, <1>3

(* Every step keeps the eids under way to a tab distinct and unseen.       *)
LEMMA OnceStep ==
    ASSUME XhrFallback = FALSE, TypeOK, Numbering, [Next]_vars,
           published \subseteq published', NEW u \in Tabs, Shape(u), OncePerTab(u)
    PROVE  OncePerTab(u)'
<1>1. /\ todo \in [Tabs -> Seq(Eids)] /\ inbox \in [Tabs -> Seq(Eids)]
      /\ outbound \in [Tabs -> Seq(Eids)] /\ wire \in [Tabs -> Seq(Eids)]
      /\ seen \in [Tabs -> Seq(Eids)] /\ stream \in Seq(Eids)
      /\ maxEid \in [Tabs -> 0..MaxEid] /\ since \in [Tabs -> 0..MaxEid]
      /\ \A e \in Eids : e \in Int
  BY EventStreamAssumption DEF TypeOK, StreamTypes, GatewayTypes, TabTypes, HistoryTypes, Eids
<1>2. ASSUME NEW p \in Producers, Publish(p) PROVE OncePerTab(u)'
  <2>1. prod[p].eid \in Eids /\ prod[p].eid \notin published /\ published' = published \cup {prod[p].eid}
    BY <1>2 DEF Publish, Numbering, TypeOK, StreamTypes
  <2>2. CASE subscribed[u]
    <3>1. inbox'[u] = Append(inbox[u], prod[p].eid)
      BY <1>2, <2>2 DEF Publish
    <3>2. prod[p].eid \notin Elems(inbox[u])
      BY <2>1 DEF OncePerTab
    <3>3. Inj(inbox'[u]) /\ Elems(inbox'[u]) = Elems(inbox[u]) \cup {prod[p].eid}
      BY <1>1, <2>1, <3>1, <3>2, ElemsAppend, InjAppend DEF OncePerTab
    <3>4. UNCHANGED <<seen, wire, outbound, todo, since, maxEid>>
      BY <1>2 DEF Publish, socketVars
    <3> QED BY <2>1, <3>3, <3>4 DEF OncePerTab, Wanted
  <2>3. CASE ~subscribed[u]
    BY <1>2, <2>3, OnceUntouched DEF Publish, socketVars
  <2> QED BY <2>2, <2>3
<1>3. ASSUME NEW p \in Producers, TakeEid(p) \/ PushStream(p) \/ AbandonEvent(p)
      PROVE  OncePerTab(u)'
  BY <1>3, OnceUntouched DEF TakeEid, PushStream, AbandonEvent, gatewayVars, socketVars
<1>4. ASSUME NEW t \in Tabs,
             Accept(t) \/ ReadStreamFails(t) \/ ReplayDone(t) \/ Subscribe(t) \/ ReadAck(t)
             \/ Opened(t) \/ SendAck(t) \/ AskEvents(t) \/ ServeEvents(t) \/ PollFails(t)
             \/ TakeReply(t)
      PROVE  OncePerTab(u)'
  BY <1>4, OnceUntouched
  DEF Accept, ReadStreamFails, ReplayDone, Subscribe, ReadAck, Opened, SendAck, AskEvents,
      ServeEvents, PollFails, TakeReply, gatewayVars, socketVars
<1>5. ASSUME NEW t \in Tabs, ReadStream(t) PROVE OncePerTab(u)'
  <2>1. UNCHANGED <<seen, wire, outbound, inbox, since, maxEid, published>>
    BY <1>5 DEF ReadStream, streamVars, socketVars
  <2>2. CASE u = t
    <3>1. todo'[u] = OldestFirst(stream)
      BY <1>1, <1>5, <2>2 DEF ReadStream
    <3>2. Inj(todo'[u]) /\ Elems(todo'[u]) \subseteq published
      BY <1>1, <3>1, OldestFirstSame DEF Numbering
    <3>3. outbound[u] = <<>> /\ since[u] = maxEid[u]
      BY <1>5, <2>2 DEF ReadStream, Shape
    <3>4. \A e \in Elems(todo'[u]) : e > since[u] => e \notin Elems(seen[u])
      <4>1. \A e \in Elems(seen[u]) : e <= maxEid[u] /\ e \in Int
        BY <1>1 DEF OncePerTab, Elems
      <4> QED BY <1>1, <3>3, <4>1
    <3> QED BY <2>1, <3>2, <3>3, <3>4, ElemsEmpty DEF OncePerTab, Wanted
  <2>3. CASE u # t
    <3>1. todo'[u] = todo[u]
      BY <1>1, <1>5, <2>3 DEF ReadStream
    <3> QED BY <2>1, <3>1, OnceUntouched
  <2> QED BY <2>2, <2>3
<1>6. ASSUME NEW t \in Tabs, ReplayOne(t) PROVE OncePerTab(u)'
  <2> DEFINE e == Head(todo[t])
  <2>1. UNCHANGED <<seen, wire, inbox, since, maxEid, published>>
        /\ todo' = [todo EXCEPT ![t] = Tail(@)] /\ todo[t] # <<>>
    BY <1>6 DEF ReplayOne, streamVars, socketVars
  <2>2. CASE u = t
    <3>1. /\ e \in Eids /\ Elems(todo[u]) = {e} \cup Elems(todo'[u])
          /\ Inj(todo'[u]) /\ e \notin Elems(todo'[u])
      BY <1>1, <2>1, <2>2, ElemsTail, InjTail DEF OncePerTab
    <3>2. wire[u] = <<>> /\ inbox[u] = <<>>
      BY <1>6, <2>2 DEF ReplayOne, Shape
    <3>3. CASE Wanted(t, e)
      <4>1. e \notin Elems(seen[u]) /\ e \notin Elems(outbound[u]) /\ e \in published
        BY <2>2, <3>1, <3>3 DEF OncePerTab
      <4>2. Enqueue(t, e)
        BY <1>6, <3>3 DEF ReplayOne
      <4>3. Inj(outbound'[u]) /\ Elems(outbound'[u]) \subseteq Elems(outbound[u]) \cup {e}
        BY <2>2, <3>1, <4>1, <4>2, EnqueueEffect DEF OncePerTab
      <4> QED BY <2>1, <3>1, <3>2, <4>1, <4>3, ElemsEmpty DEF OncePerTab, Wanted
    <3>4. CASE ~Wanted(t, e)
      <4>1. outbound' = outbound
        BY <1>6, <3>4 DEF ReplayOne
      <4> QED BY <2>1, <3>1, <4>1 DEF OncePerTab, Wanted
    <3> QED BY <3>3, <3>4
  <2>3. CASE u # t
    <3>1. todo'[u] = todo[u] /\ outbound'[u] = outbound[u]
      BY <1>1, <1>6, <2>3 DEF ReplayOne, Enqueue
    <3> QED BY <2>1, <3>1, OnceUntouched
  <2> QED BY <2>2, <2>3
<1>7. ASSUME NEW t \in Tabs, Listen(t) PROVE OncePerTab(u)'
  <2> DEFINE e == Head(inbox[t])
  <2>1. UNCHANGED <<seen, wire, todo, since, maxEid, published>>
        /\ inbox' = [inbox EXCEPT ![t] = Tail(@)] /\ inbox[t] # <<>>
    BY <1>7 DEF Listen, streamVars, socketVars
  <2>2. CASE u = t
    <3>1. /\ e \in Eids /\ Elems(inbox[u]) = {e} \cup Elems(inbox'[u])
          /\ Inj(inbox'[u]) /\ e \notin Elems(inbox'[u])
      BY <1>1, <2>1, <2>2, ElemsTail, InjTail DEF OncePerTab
    <3>2. todo[u] = <<>>
      BY <2>1, <2>2 DEF Shape, TypeOK, GatewayTypes
    <3>3. e \notin Elems(outbound[u])
      BY <3>1 DEF OncePerTab
    <3>4. CASE e > FilterCursor(t)
      <4>1. Enqueue(t, e)
        BY <1>7, <3>4 DEF Listen
      <4>2. Inj(outbound'[u]) /\ Elems(outbound'[u]) \subseteq Elems(outbound[u]) \cup {e}
        BY <2>2, <3>1, <3>3, <4>1, EnqueueEffect DEF OncePerTab
      <4> QED BY <2>1, <3>1, <3>2, <4>2, ElemsEmpty DEF OncePerTab, Wanted
    <3>5. CASE ~(e > FilterCursor(t))
      <4>1. outbound' = outbound
        BY <1>7, <3>5 DEF Listen
      <4> QED BY <2>1, <3>1, <4>1 DEF OncePerTab, Wanted
    <3> QED BY <3>4, <3>5
  <2>3. CASE u # t
    <3>1. inbox'[u] = inbox[u] /\ outbound'[u] = outbound[u]
      BY <1>1, <1>7, <2>3 DEF Listen, Enqueue
    <3> QED BY <2>1, <3>1, OnceUntouched
  <2> QED BY <2>2, <2>3
<1>8. ASSUME NEW t \in Tabs, Drain(t) PROVE OncePerTab(u)'
  <2> DEFINE e == Head(outbound[t])
  <2>1. /\ UNCHANGED <<seen, inbox, todo, since, maxEid, published>>
        /\ outbound' = [outbound EXCEPT ![t] = Tail(@)] /\ outbound[t] # <<>>
        /\ wire' = [wire EXCEPT ![t] = Append(@, e)] /\ phase[t] = "open"
    BY <1>8 DEF Drain, BatchReady, streamVars
  <2>2. CASE u = t
    <3>1. /\ e \in Eids /\ Elems(outbound[u]) = {e} \cup Elems(outbound'[u])
          /\ Inj(outbound'[u]) /\ e \notin Elems(outbound'[u])
      BY <1>1, <2>1, <2>2, ElemsTail, InjTail DEF OncePerTab
    <3>2. todo[u] = <<>>
      BY <2>1, <2>2 DEF Shape
    <3>3. e \notin Elems(wire[u])
      BY <3>1 DEF OncePerTab
    <3>4. Inj(wire'[u]) /\ Elems(wire'[u]) = Elems(wire[u]) \cup {e}
      BY <1>1, <2>1, <2>2, <3>1, <3>3, ElemsAppend, InjAppend DEF OncePerTab
    <3> QED BY <2>1, <3>1, <3>2, <3>4, ElemsEmpty DEF OncePerTab, Wanted
  <2>3. CASE u # t
    <3>1. wire'[u] = wire[u] /\ outbound'[u] = outbound[u]
      BY <1>1, <2>1, <2>3
    <3> QED BY <2>1, <3>1, OnceUntouched
  <2> QED BY <2>2, <2>3
<1>9. ASSUME NEW t \in Tabs, Connect(t) PROVE OncePerTab(u)'
  <2>1. UNCHANGED <<seen, wire, outbound, inbox, todo, maxEid, published>>
    BY <1>9 DEF Connect, streamVars, gatewayVars
  <2>2. CASE u = t
    <3>1. todo[u] = <<>>
      BY <1>9, <2>2 DEF Connect, Shape
    <3> QED BY <2>1, <3>1, ElemsEmpty DEF OncePerTab, Wanted
  <2>3. CASE u # t
    <3>1. since'[u] = since[u]
      BY <1>1, <1>9, <2>3 DEF Connect
    <3> QED BY <2>1, <3>1, OnceUntouched
  <2> QED BY <2>2, <2>3
<1>10. ASSUME NEW t \in Tabs, Receive(t) PROVE OncePerTab(u)'
  <2> DEFINE e == Head(wire[t])
  <2>1. /\ UNCHANGED <<inbox, outbound, todo, since, published>>
        /\ wire' = [wire EXCEPT ![t] = Tail(@)] /\ wire[t] # <<>>
        /\ seen' = [seen EXCEPT ![t] = Append(@, e)]
        /\ maxEid' = [maxEid EXCEPT ![t] = MaxOf(@, e)]
    BY <1>10 DEF Receive, HandleEvent, streamVars, gatewayVars
  <2>2. CASE u = t
    <3>1. /\ e \in Eids /\ Elems(wire[u]) = {e} \cup Elems(wire'[u])
          /\ Inj(wire'[u]) /\ e \notin Elems(wire'[u])
      BY <1>1, <2>1, <2>2, ElemsTail, InjTail DEF OncePerTab
    <3>2. todo[u] = <<>>
      BY <2>1, <2>2 DEF Shape
    <3>3. e \notin Elems(seen[u])
      BY <3>1 DEF OncePerTab
    <3>4. Inj(seen'[u]) /\ Elems(seen'[u]) = Elems(seen[u]) \cup {e}
      BY <1>1, <2>1, <2>2, <3>1, <3>3, ElemsAppend, InjAppend DEF OncePerTab
    <3>5. \A x \in Elems(seen'[u]) : x <= maxEid'[u]
      <4>1. \A x \in Elems(seen[u]) : x <= maxEid[u] /\ x \in Int
        BY <1>1 DEF OncePerTab, Elems
      <4>2. maxEid[u] \in Int /\ e \in Int
        BY <1>1, <3>1
      <4>3. maxEid'[u] = MaxOf(maxEid[u], e)
        BY <1>1, <2>1, <2>2
      <4>4. maxEid'[u] >= maxEid[u] /\ maxEid'[u] >= e /\ maxEid'[u] \in Int
        BY <4>2, <4>3 DEF MaxOf
      <4>5. ASSUME NEW x \in Elems(seen'[u]) PROVE x <= maxEid'[u]
        <5>1. CASE x = e
          BY <4>4, <5>1
        <5>2. CASE x \in Elems(seen[u])
          BY <4>1, <4>2, <4>4, <5>2
        <5> QED BY <3>4, <5>1, <5>2
      <4> QED BY <4>5
    <3> QED BY <2>1, <3>1, <3>2, <3>4, <3>5, ElemsEmpty DEF OncePerTab, Wanted
  <2>3. CASE u # t
    <3>1. wire'[u] = wire[u] /\ seen'[u] = seen[u] /\ maxEid'[u] = maxEid[u]
      BY <1>1, <2>1, <2>3
    <3> QED BY <2>1, <3>1, OnceUntouched
  <2> QED BY <2>2, <2>3
<1>11. ASSUME NEW t \in Tabs, Disconnect(t) PROVE OncePerTab(u)'
  <2>1. UNCHANGED <<seen, since, maxEid, published>>
    BY <1>11 DEF Disconnect, streamVars
  <2>2. CASE u = t
    <3>1. todo'[u] = <<>> /\ wire'[u] = <<>> /\ outbound'[u] = <<>> /\ inbox'[u] = <<>>
      BY <1>1, <1>11, <2>2 DEF Disconnect
    <3> QED BY <2>1, <3>1, ElemsEmpty DEF OncePerTab, Wanted
  <2>3. CASE u # t
    <3>1. /\ todo'[u] = todo[u] /\ wire'[u] = wire[u] /\ outbound'[u] = outbound[u]
          /\ inbox'[u] = inbox[u]
      BY <1>1, <1>11, <2>3 DEF Disconnect
    <3> QED BY <2>1, <3>1, OnceUntouched
  <2> QED BY <2>2, <2>3
<1>12. ASSUME NEW t \in Tabs, HandleReply(t) PROVE OncePerTab(u)'
  <2>1. u # t
    BY <1>12 DEF HandleReply, Shape
  <2>2. /\ seen'[u] = seen[u] /\ maxEid'[u] = maxEid[u]
        /\ UNCHANGED <<wire, outbound, inbox, todo, since>>
    BY <1>1, <1>12, <2>1 DEF HandleReply, HandleEvent, gatewayVars, socketVars
  <2> QED BY <2>2, OnceUntouched
<1>13. CASE UNCHANGED vars
  BY <1>13, OnceUntouched DEF vars, gatewayVars, socketVars
<1> QED
  BY <1>2, <1>3, <1>4, <1>5, <1>6, <1>7, <1>8, <1>9, <1>10, <1>11, <1>12, <1>13
  DEF Next, Publisher, Gateway, Tab

(* The invariant that keeps events apart, for any number of publishers. *)
THEOREM OnceInvariant ==
    ASSUME XhrFallback = FALSE
    PROVE  Spec => []OnceInv
<1>1. Init => OnceInv
  <2> SUFFICES ASSUME Init PROVE OnceInv
    OBVIOUS
  <2>1. Numbering
    BY ElemsEmpty DEF Init, Numbering
  <2>2. ASSUME NEW t \in Tabs PROVE Shape(t) /\ OncePerTab(t)
    BY ElemsEmpty DEF Init, Shape, OncePerTab
  <2> QED BY <2>1, <2>2 DEF OnceInv
<1>2. TypeOK /\ OnceInv /\ [Next]_vars => OnceInv'
  BY NumberingStep, ShapeStep, OnceStep DEF OnceInv
<1> QED BY <1>1, <1>2, TypeCorrect, PTL DEF Spec

(* No tab handles an event twice, whatever connections, replays and live    *)
(* deliveries it went through, as long as the XHR fallback is off.         *)
THEOREM HandledAtMostOnce ==
    ASSUME XhrFallback = FALSE
    PROVE  Spec => []AtMostOnce
<1>1. OnceInv => AtMostOnce
  BY DEF OnceInv, OncePerTab, Inj, AtMostOnce
<1> QED BY <1>1, OnceInvariant, PTL

(* The pipeline of queues, cursors and reconnections implements the         *)
(* at-most-once feed of EventFeed.                                         *)
THEOREM ImplementsFeed ==
    ASSUME XhrFallback = FALSE
    PROVE  Spec => FeedSpec
<1>1. Init => Feed!Init
  BY DEF Init, Feed!Init
<1>2. ASSUME TypeOK, OnceInv, [Next]_vars PROVE [Feed!Next]_<<published, seen>>
  <2>1. ASSUME NEW p \in Producers, Publish(p) PROVE Feed!Next
    <3>1. prod[p].eid \in 1..MaxEid /\ Feed!Publish(prod[p].eid)
      BY <1>2, <2>1 DEF Publish, Feed!Publish, OnceInv, Numbering, TypeOK, StreamTypes, Eids
    <3> QED BY <3>1 DEF Feed!Next
  <2>2. ASSUME NEW t \in Tabs, Receive(t) PROVE Feed!Next
    <3> DEFINE e == Head(wire[t])
    <3>1. wire[t] \in Seq(Eids) /\ wire[t] # <<>>
      BY <1>2, <2>2 DEF Receive, TypeOK, TabTypes
    <3>2. e \in Eids /\ e \in Elems(wire[t])
      BY <3>1, ElemsTail
    <3>3. e \in published /\ e \notin Elems(seen[t])
      BY <1>2, <3>2 DEF OnceInv, OncePerTab
    <3>4. Feed!Handle(t, e)
      BY <2>2, <3>3 DEF Receive, HandleEvent, streamVars, Feed!Handle, Elems
    <3> QED BY <3>2, <3>4 DEF Feed!Next, Eids
  <2>3. ASSUME NEW t \in Tabs, HandleReply(t) PROVE FALSE
    BY <1>2, <2>3 DEF HandleReply, OnceInv, Shape
  <2>4. ASSUME NEW p \in Producers, TakeEid(p) \/ PushStream(p) \/ AbandonEvent(p)
        PROVE  UNCHANGED <<published, seen>>
    BY <2>4 DEF TakeEid, PushStream, AbandonEvent
  <2>5. ASSUME NEW t \in Tabs, Gateway(t) PROVE UNCHANGED <<published, seen>>
    BY <2>5 DEF Gateway, Accept, ReadStream, ReadStreamFails, ReplayOne, ReplayDone, Subscribe,
       Listen, Drain, ReadAck, streamVars
  <2>6. ASSUME NEW t \in Tabs,
               Connect(t) \/ Opened(t) \/ SendAck(t) \/ Disconnect(t) \/ AskEvents(t)
               \/ ServeEvents(t) \/ PollFails(t) \/ TakeReply(t)
        PROVE  UNCHANGED <<published, seen>>
    BY <2>6 DEF Connect, Opened, SendAck, Disconnect, AskEvents, ServeEvents, PollFails,
       TakeReply, streamVars
  <2>7. UNCHANGED vars => UNCHANGED <<published, seen>>
    BY DEF vars, streamVars
  <2> QED BY <1>2, <2>1, <2>2, <2>3, <2>4, <2>5, <2>6, <2>7 DEF Next, Publisher, Tab
<1> QED BY <1>1, <1>2, TypeCorrect, OnceInvariant, PTL DEF Spec, FeedSpec, Feed!Spec

-----------------------------------------------------------------------------
(* No unexplained hole. *)

Rising(s) == \A i, j \in 1..Len(s) : i < j => s[i] < s[j]
Falling(s) == \A i, j \in 1..Len(s) : i < j => s[i] > s[j]
Below(a, b) == \A x \in Elems(a), y \in Elems(b) : x < y

(* In a rising sequence the head is the least element.                     *)
LEMMA RisingTail ==
    ASSUME NEW s \in Seq(Eids), s # <<>>, Rising(s)
    PROVE  Rising(Tail(s)) /\ \A x \in Elems(Tail(s)) : Head(s) < x
<1> DEFINE u == Tail(s)
<1>1. Len(u) = Len(s) - 1 /\ Head(s) = s[1] /\ Len(s) \in Nat \ {0}
      /\ \A i \in 1..Len(u) : u[i] = s[i + 1]
  OBVIOUS
<1>2. ASSUME NEW i \in 1..Len(u), NEW j \in 1..Len(u), i < j PROVE u[i] < u[j]
  <2>1. i + 1 \in 1..Len(s) /\ j + 1 \in 1..Len(s) /\ i + 1 < j + 1
    BY <1>1, <1>2
  <2> QED BY <2>1, <1>1 DEF Rising
<1>3. ASSUME NEW x \in Elems(u) PROVE Head(s) < x
  <2>1. PICK i \in 1..Len(u) : x = u[i]
    BY <1>3 DEF Elems
  <2>2. i + 1 \in 1..Len(s) /\ 1 \in 1..Len(s) /\ 1 < i + 1
    BY <1>1, <2>1
  <2> QED BY <2>1, <2>2, <1>1 DEF Rising
<1> QED BY <1>2, <1>3 DEF Rising

(* A sequence goes on rising if what is appended is above all of it.       *)
LEMMA RisingAppend ==
    ASSUME NEW s \in Seq(Eids), NEW e \in Eids, Rising(s), \A x \in Elems(s) : x < e
    PROVE  Rising(Append(s, e))
<1> DEFINE a == Append(s, e)
<1>1. Len(a) = Len(s) + 1 /\ a[Len(s) + 1] = e /\ Len(s) \in Nat
      /\ \A i \in 1..Len(s) : a[i] = s[i]
  OBVIOUS
<1>2. \A i \in 1..Len(s) : s[i] < e
  BY DEF Elems
<1> SUFFICES ASSUME NEW i \in 1..Len(a), NEW j \in 1..Len(a), i < j PROVE a[i] < a[j]
  BY DEF Rising
<1>3. CASE j = Len(s) + 1
  BY <1>1, <1>2, <1>3
<1>4. CASE j # Len(s) + 1
  BY <1>1, <1>4 DEF Rising
<1> QED BY <1>3, <1>4

LEMMA RisingEmpty == Rising(<<>>) /\ Falling(<<>>)
BY DEF Rising, Falling

(* The list falls from its head, which LPUSH and LTRIM preserve, and a     *)
(* reader that walks it oldest first sees it rise.                         *)
LEMMA FallingPush ==
    ASSUME NEW s \in Seq(Eids), NEW e \in Eids, Falling(s), \A x \in Elems(s) : x < e
    PROVE  Falling(<<e>> \o s)
<1> DEFINE a == <<e>> \o s
<1>1. Len(a) = Len(s) + 1 /\ a[1] = e /\ Len(s) \in Nat /\ \A i \in 2..Len(a) : a[i] = s[i - 1]
  OBVIOUS
<1>2. /\ \A i \in 1..Len(s) : s[i] < e /\ s[i] \in Eids
      /\ \A x \in Eids : x \in Int
  BY EventStreamAssumption DEF Elems, Eids
<1>3. ASSUME NEW i \in 1..Len(a), NEW j \in 1..Len(a), i < j PROVE a[i] > a[j]
  <2>1. j - 1 \in 1..Len(s) /\ a[j] = s[j - 1]
    BY <1>1, <1>3
  <2>2. s[j - 1] \in Int /\ e \in Int
    BY <1>2, <2>1
  <2>3. CASE i = 1
    BY <1>1, <1>2, <2>1, <2>2, <2>3
  <2>4. CASE i # 1
    <3>1. i - 1 \in 1..Len(s) /\ a[i] = s[i - 1] /\ i - 1 < j - 1
      BY <1>1, <1>3, <2>4
    <3> QED BY <2>1, <3>1 DEF Falling
  <2> QED BY <2>3, <2>4
<1> QED BY <1>3 DEF Falling

LEMMA FallingKept ==
    ASSUME NEW s \in Seq(Eids), Falling(s), StreamCap \in Nat
    PROVE  Falling(Kept(s))
<1>1. CASE Len(s) > StreamCap
  <2> DEFINE k == SubSeq(s, 1, StreamCap)
  <2>1. Len(k) = StreamCap /\ \A i \in 1..StreamCap : k[i] = s[i]
    BY <1>1
  <2> QED BY <1>1, <2>1 DEF Kept, Falling
<1>2. CASE ~(Len(s) > StreamCap)
  BY <1>2 DEF Kept
<1> QED BY <1>1, <1>2

LEMMA RisingOldestFirst ==
    ASSUME NEW s \in Seq(Eids), Falling(s)
    PROVE  Rising(OldestFirst(s))
<1> DEFINE r == OldestFirst(s)
           n == Len(s)
<1>1. n \in Nat /\ r = [i \in 1..n |-> s[n + 1 - i]]
  BY DEF OldestFirst
<1>2. r \in Seq(Eids) /\ Len(r) = n
  <2>1. \A i \in 1..n : n + 1 - i \in 1..n
    BY <1>1
  <2>2. r \in [1..n -> Eids]
    BY <1>1, <2>1
  <2> QED BY <2>2, <1>1
<1>3. ASSUME NEW i \in 1..n, NEW j \in 1..n, i < j PROVE r[i] < r[j]
  <2>1. n + 1 - i \in 1..n /\ n + 1 - j \in 1..n /\ n + 1 - j < n + 1 - i
    BY <1>1, <1>3
  <2>2. s[n + 1 - j] \in Eids /\ s[n + 1 - i] \in Eids /\ s[n + 1 - j] > s[n + 1 - i]
    BY <2>1 DEF Falling
  <2> QED BY <1>1, <2>2, EventStreamAssumption DEF Eids
<1> QED BY <1>2, <1>3 DEF Rising

(* What a step of a publisher keeps when it is the only one: the event it   *)
(* is at is the newest, and the list falls from it.                        *)
Newest ==
    /\ \A p \in Producers : prod[p].at # "idle" =>
          \A e \in published \ {prod[p].eid} : e < prod[p].eid
    /\ Falling(stream)

Pushing(e) == \E p \in Producers : prod[p].at = "published" /\ prod[p].eid = e
Settled(t) == Elems(seen[t]) \cup missed[t]

(* What the pipeline has not let go of is in the list or on its way there. *)
Stored(t) == \A e \in published \ missed[t] : e \in Elems(stream) \/ Pushing(e)

(* Which queues can hold something in which phase of the connection, and    *)
(* how the tab's cursors lie.                                              *)
Standing(t) ==
    /\ sock[t] = "closed" => phase[t] = "none"
    /\ phase[t] \in {"none", "boot"} => todo[t] = <<>> /\ outbound[t] = <<>>
    /\ phase[t] # "open" => wire[t] = <<>> /\ ~subscribed[t]
    /\ phase[t] = "open" => todo[t] = <<>>
    /\ ~subscribed[t] => inbox[t] = <<>>
    /\ since[t] <= maxEid[t] /\ asked[t] <= maxEid[t]
    /\ maxEid[t] \in published \cup {0}

Pipe(t) == Elems(wire[t]) \cup Elems(outbound[t]) \cup Elems(todo[t]) \cup Elems(inbox[t])

(* The queues between a tab and the list rise, each below those behind it. *)
InOrder(t) ==
    /\ Rising(wire[t]) /\ Rising(outbound[t]) /\ Rising(todo[t]) /\ Rising(inbox[t])
    /\ Below(wire[t], outbound[t]) /\ Below(wire[t], inbox[t])
    /\ Below(outbound[t], todo[t]) /\ Below(outbound[t], inbox[t])
    /\ Pipe(t) \subseteq published

(* Once the list is read, what is neither handled nor let go of is queued. *)
Complete(t) == phase[t] \in {"replay", "open"} => published \subseteq Settled(t) \cup Pipe(t)

(* The answer of a poll leaves out nothing below what it holds.            *)
Answer(t) ==
    /\ Rising(reply[t]) /\ Elems(reply[t]) \subseteq published
    /\ \A f \in Elems(reply[t]), e \in published :
          e < f => e \in Settled(t) \cup Elems(reply[t])

NoHole(t) == \A e \in published : e <= maxEid[t] => e \in Settled(t)

Whole(t) == Stored(t) /\ Standing(t) /\ InOrder(t) /\ Complete(t) /\ Answer(t) /\ NoHole(t)

WholeInv == Numbering /\ Newest /\ \A t \in Tabs : Whole(t)

(* With one publisher, events become newest in the order they are numbered. *)
LEMMA NewestStep ==
    ASSUME \A p, q \in Producers : p = q, TypeOK, Numbering, Newest, [Next]_vars
    PROVE  Newest'
<1>1. /\ globalEid \in Nat /\ stream \in Seq(Eids) /\ StreamCap \in Nat
      /\ published \subseteq Eids /\ \A e \in Eids : e \in Int
  BY EventStreamAssumption DEF TypeOK, StreamTypes, Eids
<1>2. \A p \in Producers :
         prod = [q \in Producers |-> prod[p]] /\ (prod[p].at # "idle" => prod[p].eid \in Eids)
  BY DEF TypeOK, StreamTypes
<1>3. ASSUME NEW p \in Producers, TakeEid(p) PROVE Newest'
  <2>1. prod'[p] = [at |-> "numbered", eid |-> globalEid + 1]
        /\ UNCHANGED <<published, stream>>
    BY <1>2, <1>3 DEF TakeEid
  <2>2. \A e \in published : e < globalEid + 1
    BY <1>1 DEF Numbering
  <2> QED BY <2>1, <2>2 DEF Newest
<1>4. ASSUME NEW p \in Producers, Publish(p) PROVE Newest'
  <2>1. /\ prod[p].at = "numbered" /\ prod'[p].eid = prod[p].eid
        /\ published' = published \cup {prod[p].eid} /\ stream' = stream
    BY <1>2, <1>4 DEF Publish
  <2> QED BY <2>1 DEF Newest
<1>5. ASSUME NEW p \in Producers, PushStream(p) PROVE Newest'
  <2> DEFINE e == prod[p].eid
  <2>1. /\ prod'[p].at = "idle" /\ published' = published
        /\ prod[p].at = "published" /\ stream' = Kept(<<e>> \o stream)
    BY <1>2, <1>5 DEF PushStream
  <2>2. e \in Eids /\ \A x \in Elems(stream) : x < e
    BY <1>2, <2>1 DEF Newest, Numbering
  <2>3. Falling(<<e>> \o stream) /\ <<e>> \o stream \in Seq(Eids)
    BY <1>1, <2>2, FallingPush, ElemsPush DEF Newest
  <2>4. Falling(stream')
    BY <1>1, <2>1, <2>3, FallingKept
  <2> QED BY <2>1, <2>4 DEF Newest
<1>6. ASSUME NEW p \in Producers, AbandonEvent(p) PROVE Newest'
  <2>1. prod'[p].at = "idle" /\ UNCHANGED <<published, stream>>
    BY <1>2, <1>6 DEF AbandonEvent
  <2> QED BY <2>1 DEF Newest
<1>7. ASSUME NEW t \in Tabs, Gateway(t) \/ Tab(t) PROVE UNCHANGED streamVars
  BY <1>7 DEF Gateway, Tab, Accept, ReadStream, ReadStreamFails, ReplayOne, ReplayDone, Subscribe,
     Listen, Drain, ReadAck, Connect, Opened, Receive, SendAck, Disconnect, AskEvents,
     ServeEvents, PollFails, TakeReply, HandleReply
<1>8. UNCHANGED streamVars => Newest'
  BY DEF streamVars, Newest
<1> QED BY <1>3, <1>4, <1>5, <1>6, <1>7, <1>8 DEF Next, Publisher, vars

(* A frame sent to a queue it is above of is queued in order or given up.   *)
LEMMA EnqueueInOrder ==
    ASSUME TypeOK, NEW t \in Tabs, NEW e \in Eids, Enqueue(t, e), Rising(outbound[t]),
           \A x \in Elems(outbound[t]) : x < e
    PROVE  /\ Rising(outbound'[t])
           /\ Elems(outbound[t]) \subseteq Elems(outbound'[t])
           /\ Elems(outbound'[t]) \subseteq Elems(outbound[t]) \cup {e}
           /\ missed[t] \subseteq missed'[t]
           /\ e \in Elems(outbound'[t]) \cup missed'[t]
<1>1. outbound \in [Tabs -> Seq(Eids)] /\ missed \in [Tabs -> SUBSET Eids]
  BY DEF TypeOK, GatewayTypes, HistoryTypes
<1>2. CASE Len(outbound[t]) < QueueCap
  <2>1. outbound'[t] = Append(outbound[t], e) /\ missed' = missed
    BY <1>1, <1>2 DEF Enqueue
  <2>2. Rising(Append(outbound[t], e)) /\ Elems(Append(outbound[t], e)) = Elems(outbound[t]) \cup {e}
    BY <1>1, ElemsAppend, RisingAppend
  <2> QED BY <2>1, <2>2
<1>3. CASE ~(Len(outbound[t]) < QueueCap)
  BY <1>1, <1>3 DEF Enqueue
<1> QED BY <1>2, <1>3

(* A step that publishes and stores nothing keeps what does not depend on   *)
(* the connection, as long as nothing handled or given up is forgotten.    *)
LEMMA Carried ==
    ASSUME NEW t \in Tabs, UNCHANGED streamVars, missed[t] \subseteq missed'[t],
           Elems(seen[t]) \subseteq Elems(seen'[t])
    PROVE  /\ Stored(t) => Stored(t)'
           /\ Answer(t) /\ reply'[t] = reply[t] => Answer(t)'
           /\ NoHole(t) /\ maxEid'[t] = maxEid[t] => NoHole(t)'
           /\ Settled(t) \subseteq Settled(t)'
<1>1. UNCHANGED <<prod, stream, published>> /\ Settled(t) \subseteq Settled(t)'
  BY DEF streamVars, Settled
<1>2. Stored(t) => Stored(t)'
  BY <1>1 DEF Stored, Pushing
<1>3. Answer(t) /\ reply'[t] = reply[t] => Answer(t)'
  BY <1>1 DEF Answer
<1>4. NoHole(t) /\ maxEid'[t] = maxEid[t] => NoHole(t)'
  BY <1>1 DEF NoHole
<1> QED BY <1>1, <1>2, <1>3, <1>4

(* A step that leaves the publishers and a tab's connection alone.         *)
LEMMA WholeUntouched ==
    ASSUME NEW t \in Tabs, UNCHANGED streamVars, Whole(t), missed'[t] = missed[t],
           seen'[t] = seen[t], maxEid'[t] = maxEid[t], sock'[t] = sock[t],
           since'[t] = since[t], phase'[t] = phase[t], todo'[t] = todo[t],
           subscribed'[t] = subscribed[t], inbox'[t] = inbox[t],
           outbound'[t] = outbound[t], wire'[t] = wire[t],
           asked'[t] = asked[t], reply'[t] = reply[t]
    PROVE  Whole(t)'
<1>1. Stored(t)' /\ Answer(t)' /\ NoHole(t)' /\ Settled(t)' = Settled(t)
  BY Carried DEF Whole, Settled
<1>2. Standing(t)' /\ Pipe(t)' = Pipe(t) /\ published' = published
  BY DEF Whole, Standing, Pipe, streamVars
<1>3. InOrder(t)' /\ Complete(t)'
  BY <1>1, <1>2 DEF Whole, InOrder, Complete
<1> QED BY <1>1, <1>2, <1>3 DEF Whole

(* A step of the publisher keeps every tab whole. *)
LEMMA PublisherWhole ==
    ASSUME \A p, q \in Producers : p = q, TypeOK, Numbering, Newest,
           NEW p \in Producers, Publisher(p), NEW t \in Tabs, Whole(t)
    PROVE  Whole(t)'
<1> DEFINE e == prod[p].eid
<1>1. /\ globalEid \in Nat /\ stream \in Seq(Eids) /\ published \subseteq Eids
      /\ inbox \in [Tabs -> Seq(Eids)] /\ maxEid \in [Tabs -> 0..MaxEid]
      /\ missed \in [Tabs -> SUBSET Eids] /\ StreamCap \in Nat
      /\ \A x \in Eids : x \in Int
  BY EventStreamAssumption DEF TypeOK, StreamTypes, GatewayTypes, TabTypes, HistoryTypes, Eids
<1>2. prod = [q \in Producers |-> prod[p]] /\ (prod[p].at # "idle" => e \in Eids)
  BY DEF TypeOK, StreamTypes
<1>3. CASE TakeEid(p)
  <2>1. prod'[p].at = "numbered" /\ prod[p].at = "idle" /\ prod'= [q \in Producers |-> prod'[p]]
    BY <1>2, <1>3 DEF TakeEid
  <2>2. UNCHANGED <<stream, published, gatewayVars, socketVars, maxEid, xhrVars, seen, missed>>
    BY <1>3 DEF TakeEid
  <2>3. Stored(t)'
    BY <1>2, <2>1, <2>2 DEF Whole, Stored, Pushing
  <2> QED
    BY <2>2, <2>3 DEF Whole, Standing, InOrder, Complete, Answer, NoHole, Settled, Pipe,
       gatewayVars, socketVars, xhrVars
<1>4. CASE Publish(p)
  <2>1. /\ prod[p].at = "numbered" /\ prod'[p].at = "published" /\ prod'[p].eid = e
        /\ published' = published \cup {e} /\ stream' = stream
        /\ UNCHANGED <<phase, todo, subscribed, outbound, socketVars, maxEid, xhrVars, seen>>
        /\ inbox'[t] = (IF subscribed[t] THEN Append(inbox[t], e) ELSE inbox[t])
        /\ missed'[t] = (IF Unreached(t) THEN missed[t] \cup {e} ELSE missed[t])
    <3>1. prod[p].at = "numbered" /\ prod'[p] = [at |-> "published", eid |-> e]
      BY <1>4 DEF Publish, TypeOK, StreamTypes
    <3> QED BY <1>4, <3>1 DEF Publish
  <2>2. e \in Eids /\ e \notin published /\ \A x \in published : x < e
    BY <1>2, <2>1 DEF Numbering, Newest
  <2>3. /\ Elems(inbox'[t]) = Elems(inbox[t]) \cup (IF subscribed[t] THEN {e} ELSE {})
        /\ Rising(inbox'[t])
    <3>1. Elems(inbox[t]) \subseteq published /\ Rising(inbox[t])
      BY DEF Whole, InOrder, Pipe
    <3>2. CASE subscribed[t]
      BY <1>1, <2>1, <2>2, <3>1, <3>2, ElemsAppend, RisingAppend
    <3>3. CASE ~subscribed[t]
      BY <2>1, <3>1, <3>3
    <3> QED BY <3>2, <3>3
  <2>4. Stored(t)'
    BY <1>2, <2>1 DEF Whole, Stored, Pushing
  <2>5. Standing(t)'
    BY <2>1 DEF Whole, Standing, socketVars, xhrVars
  <2>6. InOrder(t)'
    <3>1. wire' = wire
      BY <2>1 DEF socketVars
    <3>2. Pipe(t)' \subseteq published'
      BY <2>1, <2>3, <3>1 DEF Whole, InOrder, Pipe
    <3>3. Below(wire[t], inbox'[t]) /\ Below(outbound[t], inbox'[t])
      BY <2>2, <2>3 DEF Whole, InOrder, Pipe, Below
    <3>4. Below(wire[t], outbound[t])' /\ Below(outbound[t], todo[t])'
          /\ Below(wire[t], inbox[t])' /\ Below(outbound[t], inbox[t])'
      BY <2>1, <3>1, <3>3 DEF Whole, InOrder, Below
    <3> QED BY <2>1, <2>3, <3>1, <3>2, <3>4 DEF Whole, InOrder, Rising
  <2>7. Complete(t)'
    <3>1. published \subseteq Settled(t) \cup Pipe(t) => published \subseteq Settled(t)' \cup Pipe(t)'
      BY <2>1, <2>3 DEF Settled, Pipe, socketVars
    <3>2. phase[t] \in {"replay", "open"} => e \in Settled(t)' \cup Pipe(t)'
      BY <2>1, <2>3 DEF Settled, Pipe, Unreached
    <3> QED BY <2>1, <3>1, <3>2 DEF Whole, Complete
  <2>8. Answer(t)'
    <3>1. reply' = reply /\ Settled(t) \subseteq Settled(t)'
      BY <2>1 DEF Settled, xhrVars
    <3>2. \A f \in Elems(reply[t]) : f \in published /\ ~(e < f)
      BY <1>1, <2>2 DEF Whole, Answer
    <3> QED BY <2>1, <3>1, <3>2 DEF Whole, Answer
  <2>9. NoHole(t)'
    <3> SUFFICES ASSUME NEW x \in published', x <= maxEid'[t] PROVE x \in Settled(t)'
      BY DEF NoHole
    <3>1. CASE x \in published
      BY <2>1, <3>1 DEF Whole, NoHole, Settled
    <3>2. CASE x = e
      BY <1>1, <2>1, <2>2, <3>2 DEF Whole, Standing, Eids
    <3> QED BY <2>1, <3>1, <3>2
  <2> QED BY <2>4, <2>5, <2>6, <2>7, <2>8, <2>9 DEF Whole
<1>5. CASE PushStream(p)
  <2> DEFINE pushed == <<e>> \o stream
  <2>1. /\ prod[p].at = "published" /\ prod'[p].at = "idle" /\ prod' = [q \in Producers |-> prod'[p]]
        /\ stream' = Kept(pushed)
        /\ missed'[t] = missed[t] \cup (Elems(pushed) \ Elems(Kept(pushed)))
        /\ UNCHANGED <<published, gatewayVars, socketVars, maxEid, xhrVars, seen>>
    BY <1>2, <1>5 DEF PushStream
  <2>2. Elems(pushed) = {e} \cup Elems(stream)
    BY <1>1, <1>2, <2>1, ElemsPush
  <2>3. Stored(t)'
    <3>1. \A x \in published \ missed[t] : x \in Elems(stream) \cup {e}
      BY <1>2 DEF Whole, Stored, Pushing
    <3> QED BY <2>1, <2>2, <3>1 DEF Stored
  <2>4. missed[t] \subseteq missed'[t]
    BY <2>1
  <2> QED
    BY <2>1, <2>3, <2>4 DEF Whole, Standing, InOrder, Complete, Answer, NoHole, Settled, Pipe,
       gatewayVars, socketVars, xhrVars
<1>6. CASE AbandonEvent(p)
  <2>1. /\ prod'[p].at = "idle" /\ prod' = [q \in Producers |-> prod'[p]]
        /\ missed'[t] = (IF prod[p].at = "published" THEN missed[t] \cup {e} ELSE missed[t])
        /\ UNCHANGED <<stream, published, gatewayVars, socketVars, maxEid, xhrVars, seen>>
    BY <1>2, <1>6 DEF AbandonEvent
  <2>2. Stored(t)' /\ missed[t] \subseteq missed'[t]
    BY <1>2, <2>1 DEF Whole, Stored, Pushing
  <2> QED
    BY <2>1, <2>2 DEF Whole, Standing, InOrder, Complete, Answer, NoHole, Settled, Pipe,
       gatewayVars, socketVars, xhrVars
<1> QED BY <1>3, <1>4, <1>5, <1>6 DEF Publisher

LEMMA EidsAreIntegers == \A x \in Eids \cup 0..MaxEid : x \in Int
BY EventStreamAssumption DEF Eids

(* A step of another tab, and the gateway's work for it, touches nothing.   *)
LEMMA OtherTabWhole ==
    ASSUME TypeOK, NEW u \in Tabs, Gateway(u) \/ Tab(u), NEW t \in Tabs, t # u, Whole(t)
    PROVE  Whole(t)'
<1>1. /\ phase \in [Tabs -> {"none", "boot", "replay", "open"}]
      /\ todo \in [Tabs -> Seq(Eids)] /\ inbox \in [Tabs -> Seq(Eids)]
      /\ outbound \in [Tabs -> Seq(Eids)] /\ wire \in [Tabs -> Seq(Eids)]
      /\ subscribed \in [Tabs -> BOOLEAN] /\ seen \in [Tabs -> Seq(Eids)]
      /\ missed \in [Tabs -> SUBSET Eids] /\ reply \in [Tabs -> Seq(Eids)]
      /\ sock \in [Tabs -> {"closed", "connecting", "open"}]
      /\ maxEid \in [Tabs -> 0..MaxEid] /\ since \in [Tabs -> 0..MaxEid]
      /\ asked \in [Tabs -> 0..MaxEid]
  BY DEF TypeOK, GatewayTypes, TabTypes, XhrTypes, HistoryTypes
<1>2. CASE Accept(u) \/ ReadStream(u) \/ ReadStreamFails(u) \/ ReplayDone(u) \/ Subscribe(u)
           \/ ReadAck(u)
  BY <1>1, <1>2, WholeUntouched
  DEF Accept, ReadStream, ReadStreamFails, ReplayDone, Subscribe, ReadAck, socketVars, xhrVars
<1>3. CASE ReplayOne(u) \/ Listen(u)
  BY <1>1, <1>3, WholeUntouched DEF ReplayOne, Listen, Enqueue, socketVars, xhrVars
<1>4. CASE Drain(u)
  BY <1>1, <1>4, WholeUntouched DEF Drain, xhrVars
<1>5. CASE Connect(u) \/ Opened(u) \/ Receive(u) \/ SendAck(u)
  BY <1>1, <1>5, WholeUntouched
  DEF Connect, Opened, Receive, HandleEvent, SendAck, gatewayVars, xhrVars
<1>6. CASE Disconnect(u)
  BY <1>1, <1>6, WholeUntouched DEF Disconnect
<1>7. CASE AskEvents(u) \/ ServeEvents(u) \/ PollFails(u) \/ TakeReply(u)
  <2>1. UNCHANGED <<streamVars, gatewayVars, socketVars, maxEid, seen, missed>>
    BY <1>7 DEF AskEvents, ServeEvents, PollFails, TakeReply
  <2>2. asked'[t] = asked[t] /\ reply'[t] = reply[t]
    BY <1>1, <1>7 DEF AskEvents, ServeEvents, PollFails, TakeReply
  <2> QED BY <2>1, <2>2, WholeUntouched DEF gatewayVars, socketVars
<1>8. CASE HandleReply(u)
  BY <1>1, <1>8, WholeUntouched DEF HandleReply, HandleEvent, gatewayVars, socketVars
<1> QED BY <1>2, <1>3, <1>4, <1>5, <1>6, <1>7, <1>8 DEF Gateway, Tab

(* The gateway's work for a tab: reading the list completes what is queued, *)
(* and moving an event from one queue to the next keeps it complete.       *)
LEMMA GatewayWhole ==
    ASSUME TypeOK, AckNeverAhead, Numbering, Newest, NEW t \in Tabs, Gateway(t), Whole(t)
    PROVE  Whole(t)'
<1>1. /\ phase \in [Tabs -> {"none", "boot", "replay", "open"}]
      /\ todo \in [Tabs -> Seq(Eids)] /\ inbox \in [Tabs -> Seq(Eids)]
      /\ outbound \in [Tabs -> Seq(Eids)] /\ wire \in [Tabs -> Seq(Eids)]
      /\ subscribed \in [Tabs -> BOOLEAN] /\ missed \in [Tabs -> SUBSET Eids]
      /\ stream \in Seq(Eids) /\ published \subseteq Eids
      /\ lastDelivered \in [Tabs -> 0..MaxEid]
      /\ maxEid \in [Tabs -> 0..MaxEid] /\ since \in [Tabs -> 0..MaxEid]
      /\ \A x \in Eids \cup 0..MaxEid : x \in Int
  BY EidsAreIntegers DEF TypeOK, StreamTypes, GatewayTypes, TabTypes, HistoryTypes
<1>2. UNCHANGED <<streamVars, maxEid, seen, sock, since, xhrVars>>
  <2>1. CASE Accept(t) \/ ReadStream(t) \/ ReadStreamFails(t)
    BY <2>1 DEF Accept, ReadStream, ReadStreamFails, socketVars
  <2>2. CASE ReplayOne(t) \/ ReplayDone(t) \/ Subscribe(t)
    BY <2>2 DEF ReplayOne, ReplayDone, Subscribe, socketVars
  <2>3. CASE Listen(t) \/ Drain(t) \/ ReadAck(t)
    BY <2>3 DEF Listen, Drain, ReadAck, socketVars
  <2> QED BY <2>1, <2>2, <2>3 DEF Gateway
<1>3. missed[t] \subseteq missed'[t] => Stored(t)' /\ Answer(t)' /\ NoHole(t)'
                                       /\ Settled(t) \subseteq Settled(t)'
  BY <1>2, Carried DEF Whole, xhrVars
<1>4. CASE Accept(t)
  <2>1. phase[t] = "none" /\ phase'[t] = "boot" /\ sock[t] = "connecting"
        /\ UNCHANGED <<todo, subscribed, inbox, outbound, wire, missed>>
    BY <1>1, <1>4 DEF Accept, socketVars
  <2>2. Standing(t)' /\ InOrder(t)' /\ Complete(t)'
    BY <1>2, <2>1 DEF Whole, Standing, InOrder, Pipe, Complete, xhrVars, streamVars
  <2> QED BY <1>3, <2>1, <2>2 DEF Whole
<1>5. CASE ReadStream(t)
  <2> DEFINE pending == {prod[p].eid : p \in {q \in Producers : prod[q].at = "published"}}
  <2>1. /\ phase[t] = "boot" /\ phase'[t] = "replay" /\ todo'[t] = OldestFirst(stream)
        /\ missed'[t] = missed[t] \cup pending
        /\ UNCHANGED <<subscribed, inbox, outbound, wire>>
    BY <1>1, <1>5 DEF ReadStream, socketVars
  <2>2. outbound[t] = <<>> /\ wire[t] = <<>> /\ inbox[t] = <<>> /\ sock[t] # "closed"
    BY <2>1 DEF Whole, Standing
  <2>3. Elems(todo'[t]) = Elems(stream) /\ Rising(todo'[t])
    BY <1>1, <2>1, OldestFirstSame, RisingOldestFirst DEF Newest
  <2>4. Standing(t)'
    BY <1>2, <2>1, <2>2 DEF Whole, Standing, xhrVars, streamVars
  <2>5. InOrder(t)'
    BY <1>2, <2>1, <2>2, <2>3, ElemsEmpty, RisingEmpty
    DEF InOrder, Pipe, Below, Numbering, streamVars
  <2>6. Complete(t)'
    BY <1>2, <2>1, <2>3 DEF Whole, Stored, Pushing, Complete, Settled, Pipe, streamVars
  <2> QED BY <1>3, <2>1, <2>4, <2>5, <2>6 DEF Whole
<1>6. CASE ReadStreamFails(t)
  <2>1. /\ phase[t] = "boot" /\ phase'[t] = "open" /\ missed'[t] = missed[t] \cup published
        /\ UNCHANGED <<todo, subscribed, inbox, outbound, wire>>
    BY <1>1, <1>6 DEF ReadStreamFails, socketVars
  <2>2. Standing(t)'
    BY <1>2, <2>1 DEF Whole, Standing, xhrVars, streamVars
  <2>3. InOrder(t)' /\ Complete(t)'
    BY <1>2, <2>1 DEF Whole, InOrder, Pipe, Complete, Settled, streamVars
  <2> QED BY <1>3, <2>1, <2>2, <2>3 DEF Whole
<1>7. CASE ReplayOne(t)
  <2> DEFINE e == Head(todo[t])
  <2>1. /\ phase[t] = "replay" /\ todo[t] # <<>> /\ todo'[t] = Tail(todo[t])
        /\ UNCHANGED <<phase, subscribed, inbox, wire>>
    BY <1>1, <1>7 DEF ReplayOne, socketVars
  <2>2. /\ e \in Eids /\ Elems(todo[t]) = {e} \cup Elems(todo'[t])
        /\ Rising(todo'[t]) /\ \A x \in Elems(todo'[t]) : e < x
    BY <1>1, <2>1, ElemsTail, RisingTail DEF Whole, InOrder
  <2>3. wire[t] = <<>> /\ inbox[t] = <<>>
    BY <2>1 DEF Whole, Standing
  <2>4. Standing(t)'
    BY <1>2, <2>1 DEF Whole, Standing, xhrVars, streamVars
  <2>5. e \in published /\ \A x \in Elems(outbound[t]) : x < e
    BY <2>2 DEF Whole, InOrder, Pipe, Below
  <2>6. /\ missed[t] \subseteq missed'[t] /\ Rising(outbound'[t])
        /\ Elems(outbound[t]) \subseteq Elems(outbound'[t])
        /\ Elems(outbound'[t]) \subseteq Elems(outbound[t]) \cup {e}
        /\ e \in Elems(outbound'[t]) \cup Settled(t)'
    <3>1. CASE Wanted(t, e)
      <4>1. Enqueue(t, e)
        BY <1>7, <3>1 DEF ReplayOne
      <4>2. Rising(outbound[t])
        BY DEF Whole, InOrder
      <4>3. /\ Rising(outbound'[t]) /\ missed[t] \subseteq missed'[t]
            /\ Elems(outbound[t]) \subseteq Elems(outbound'[t])
            /\ Elems(outbound'[t]) \subseteq Elems(outbound[t]) \cup {e}
            /\ e \in Elems(outbound'[t]) \cup missed'[t]
        BY <2>2, <2>5, <4>1, <4>2, EnqueueInOrder
      <4> QED BY <4>3 DEF Settled
    <3>2. CASE ~Wanted(t, e)
      <4>1. UNCHANGED <<outbound, missed>>
        BY <1>7, <3>2 DEF ReplayOne
      <4>2. e <= since[t] /\ e <= maxEid[t]
        BY <1>1, <2>2, <3>2 DEF Wanted, Whole, Standing
      <4>3. e \in Settled(t)
        BY <2>5, <4>2 DEF Whole, NoHole
      <4> QED BY <1>2, <4>1, <4>3 DEF Whole, InOrder, Settled
    <3> QED BY <3>1, <3>2
  <2>7. InOrder(t)'
    <3>1. Pipe(t)' \subseteq published /\ Below(outbound'[t], todo'[t])
      BY <2>1, <2>2, <2>5, <2>6 DEF Whole, InOrder, Pipe, Below
    <3> QED BY <1>2, <2>1, <2>2, <2>3, <2>6, <3>1, ElemsEmpty, RisingEmpty DEF InOrder, Below, streamVars
  <2>8. Complete(t)'
    <3>1. Settled(t) \subseteq Settled(t)' /\ Pipe(t) \subseteq Pipe(t)' \cup Settled(t)'
      BY <1>3, <2>1, <2>2, <2>6 DEF Pipe
    <3> QED BY <1>2, <2>1, <3>1 DEF Whole, Complete, streamVars
  <2> QED BY <1>3, <2>4, <2>6, <2>7, <2>8 DEF Whole
<1>8. CASE ReplayDone(t)
  <2>1. /\ phase[t] = "replay" /\ phase'[t] = "open" /\ todo[t] = <<>>
        /\ UNCHANGED <<todo, subscribed, inbox, outbound, wire, missed>>
    BY <1>1, <1>8 DEF ReplayDone, socketVars
  <2>2. Standing(t)' /\ InOrder(t)' /\ Complete(t)'
    BY <1>2, <2>1 DEF Whole, Standing, InOrder, Pipe, Complete, Settled, xhrVars, streamVars
  <2> QED BY <1>3, <2>1, <2>2 DEF Whole
<1>9. CASE Subscribe(t)
  <2>1. /\ phase[t] = "open" /\ subscribed'[t] = TRUE
        /\ UNCHANGED <<phase, todo, inbox, outbound, wire, missed>>
    BY <1>1, <1>9 DEF Subscribe, socketVars
  <2>2. Standing(t)' /\ InOrder(t)' /\ Complete(t)'
    BY <1>2, <2>1 DEF Whole, Standing, InOrder, Pipe, Complete, Settled, xhrVars, streamVars
  <2> QED BY <1>3, <2>1, <2>2 DEF Whole
<1>10. CASE Listen(t)
  <2> DEFINE e == Head(inbox[t])
  <2>1. /\ inbox[t] # <<>> /\ inbox'[t] = Tail(inbox[t])
        /\ UNCHANGED <<phase, subscribed, todo, wire>>
    BY <1>1, <1>10 DEF Listen, socketVars
  <2>2. /\ e \in Eids /\ Elems(inbox[t]) = {e} \cup Elems(inbox'[t])
        /\ Rising(inbox'[t]) /\ \A x \in Elems(inbox'[t]) : e < x
    BY <1>1, <2>1, ElemsTail, RisingTail DEF Whole, InOrder
  <2>3. todo[t] = <<>> /\ phase[t] = "open" /\ subscribed[t]
    BY <1>1, <2>1 DEF Whole, Standing
  <2>4. Standing(t)'
    BY <1>2, <2>1, <2>3 DEF Whole, Standing, xhrVars, streamVars
  <2>5. e \in published /\ \A x \in Elems(wire[t]) \cup Elems(outbound[t]) : x < e
    BY <2>2 DEF Whole, InOrder, Pipe, Below
  <2>6. /\ missed[t] \subseteq missed'[t] /\ Rising(outbound'[t])
        /\ Elems(outbound[t]) \subseteq Elems(outbound'[t])
        /\ Elems(outbound'[t]) \subseteq Elems(outbound[t]) \cup {e}
        /\ e \in Elems(outbound'[t]) \cup Settled(t)'
    <3>1. CASE e > FilterCursor(t)
      <4>1. Enqueue(t, e)
        BY <1>10, <3>1 DEF Listen
      <4>2. Rising(outbound[t])
        BY DEF Whole, InOrder
      <4> QED BY <2>2, <2>5, <4>1, <4>2, EnqueueInOrder DEF Settled
    <3>2. CASE ~(e > FilterCursor(t))
      <4>1. UNCHANGED <<outbound, missed>>
        BY <1>10, <3>2 DEF Listen
      <4>2. e <= lastDelivered[t] /\ lastDelivered[t] <= maxEid[t]
        BY <1>1, <2>2, <3>2 DEF FilterCursor, AckNeverAhead
      <4>3. e <= maxEid[t]
        BY <1>1, <2>2, <4>2
      <4>4. e \in Settled(t)
        BY <2>5, <4>3 DEF Whole, NoHole
      <4> QED BY <1>2, <4>1, <4>4 DEF Whole, InOrder, Settled
    <3> QED BY <3>1, <3>2
  <2>7. InOrder(t)'
    <3>1. /\ Pipe(t)' \subseteq published /\ Below(outbound'[t], inbox'[t])
          /\ Below(wire[t], inbox'[t]) /\ Below(wire[t], outbound'[t])
      BY <2>1, <2>2, <2>5, <2>6 DEF Whole, InOrder, Pipe, Below
    <3>2. Rising(wire[t])
      BY DEF Whole, InOrder
    <3> QED BY <1>2, <2>1, <2>2, <2>3, <2>6, <3>1, <3>2, ElemsEmpty, RisingEmpty
            DEF InOrder, Below, streamVars
  <2>8. Complete(t)'
    <3>1. Settled(t) \subseteq Settled(t)' /\ Pipe(t) \subseteq Pipe(t)' \cup Settled(t)'
      BY <1>3, <2>1, <2>2, <2>6 DEF Pipe
    <3> QED BY <1>2, <2>1, <3>1 DEF Whole, Complete, streamVars
  <2> QED BY <1>3, <2>4, <2>6, <2>7, <2>8 DEF Whole
<1>11. CASE Drain(t)
  <2> DEFINE e == Head(outbound[t])
  <2>1. /\ phase[t] = "open" /\ outbound[t] # <<>> /\ outbound'[t] = Tail(outbound[t])
        /\ wire'[t] = Append(wire[t], e)
        /\ UNCHANGED <<phase, subscribed, todo, inbox, missed>>
    BY <1>1, <1>11 DEF Drain, BatchReady
  <2>2. /\ e \in Eids /\ Elems(outbound[t]) = {e} \cup Elems(outbound'[t])
        /\ Rising(outbound'[t]) /\ \A x \in Elems(outbound'[t]) : e < x
    BY <1>1, <2>1, ElemsTail, RisingTail DEF Whole, InOrder
  <2>3. \A x \in Elems(wire[t]) : x < e
    BY <2>2 DEF Whole, InOrder, Below
  <2>4. Rising(wire'[t]) /\ Elems(wire'[t]) = Elems(wire[t]) \cup {e}
    BY <1>1, <2>1, <2>2, <2>3, RisingAppend, ElemsAppend DEF Whole, InOrder
  <2>5. todo[t] = <<>>
    BY <2>1 DEF Whole, Standing
  <2>6. Standing(t)'
    BY <1>2, <2>1 DEF Whole, Standing, xhrVars, streamVars
  <2>7. Pipe(t)' = Pipe(t)
    BY <2>1, <2>2, <2>4 DEF Pipe
  <2>8. InOrder(t)'
    <3>1. /\ Below(wire'[t], outbound'[t]) /\ Below(wire'[t], inbox[t])
          /\ Below(outbound'[t], inbox[t])
      BY <2>2, <2>4 DEF Whole, InOrder, Below
    <3>2. Rising(inbox[t]) /\ Pipe(t) \subseteq published
      BY DEF Whole, InOrder
    <3> QED BY <1>2, <2>1, <2>2, <2>4, <2>5, <2>7, <3>1, <3>2, ElemsEmpty, RisingEmpty
            DEF InOrder, Below, streamVars
  <2>9. Complete(t)'
    BY <1>2, <2>1, <2>7 DEF Whole, Complete, Settled, streamVars
  <2> QED BY <1>3, <2>1, <2>6, <2>8, <2>9 DEF Whole
<1>12. CASE ReadAck(t)
  <2>1. UNCHANGED <<phase, todo, subscribed, inbox, outbound, wire, missed>>
    BY <1>12 DEF ReadAck
  <2> QED BY <1>2, <2>1, WholeUntouched DEF xhrVars
<1> QED
  BY <1>4, <1>5, <1>6, <1>7, <1>8, <1>9, <1>10, <1>11, <1>12 DEF Gateway

(* The tab's own steps: what it handles is the oldest event it lacks, so    *)
(* its cursor passes over nothing.                                         *)
LEMMA TabWhole ==
    ASSUME TypeOK, Numbering, Newest, NEW t \in Tabs, Tab(t), Whole(t)
    PROVE  Whole(t)'
<1>1. /\ phase \in [Tabs -> {"none", "boot", "replay", "open"}]
      /\ sock \in [Tabs -> {"closed", "connecting", "open"}]
      /\ todo \in [Tabs -> Seq(Eids)] /\ inbox \in [Tabs -> Seq(Eids)]
      /\ outbound \in [Tabs -> Seq(Eids)] /\ wire \in [Tabs -> Seq(Eids)]
      /\ reply \in [Tabs -> Seq(Eids)] /\ seen \in [Tabs -> Seq(Eids)]
      /\ subscribed \in [Tabs -> BOOLEAN] /\ stream \in Seq(Eids) /\ published \subseteq Eids
      /\ maxEid \in [Tabs -> 0..MaxEid] /\ since \in [Tabs -> 0..MaxEid]
      /\ asked \in [Tabs -> 0..MaxEid]
      /\ \A x \in Eids \cup 0..MaxEid : x \in Int
  BY EidsAreIntegers DEF TypeOK, StreamTypes, GatewayTypes, TabTypes, XhrTypes, HistoryTypes
<1>2. UNCHANGED <<streamVars, missed>>
  BY DEF Tab, Connect, Opened, Receive, SendAck, Disconnect, AskEvents, ServeEvents, PollFails,
     TakeReply, HandleReply
<1>3. CASE Connect(t)
  <2>1. /\ sock[t] = "closed" /\ since'[t] = maxEid[t]
        /\ UNCHANGED <<gatewayVars, wire, maxEid, xhrVars, seen>>
    BY <1>1, <1>3 DEF Connect, ResumeFrom
  <2>2. Stored(t)' /\ Answer(t)' /\ NoHole(t)'
    BY <1>2, <2>1, Carried DEF Whole, xhrVars
  <2>3. Standing(t)'
    BY <1>1, <1>2, <2>1 DEF Whole, Standing, gatewayVars, xhrVars, streamVars
  <2>4. InOrder(t)' /\ Complete(t)'
    BY <1>2, <2>1 DEF Whole, InOrder, Pipe, Complete, Settled, gatewayVars, streamVars
  <2> QED BY <2>2, <2>3, <2>4 DEF Whole
<1>4. CASE Opened(t)
  <2>1. /\ sock'[t] = "open" /\ reply'[t] = <<>>
        /\ UNCHANGED <<gatewayVars, since, wire, maxEid, asked, seen>>
    BY <1>1, <1>4 DEF Opened
  <2>2. Stored(t)' /\ NoHole(t)'
    BY <1>2, <2>1, Carried DEF Whole
  <2>3. Answer(t)'
    BY <2>1, ElemsEmpty, RisingEmpty DEF Answer
  <2>4. Standing(t)'
    BY <1>2, <2>1 DEF Whole, Standing, gatewayVars, streamVars
  <2>5. InOrder(t)' /\ Complete(t)'
    BY <1>2, <2>1 DEF Whole, InOrder, Pipe, Complete, Settled, gatewayVars, streamVars
  <2> QED BY <2>2, <2>3, <2>4, <2>5 DEF Whole
<1>5. CASE Receive(t)
  <2> DEFINE e == Head(wire[t])
  <2>1. /\ sock[t] = "open" /\ wire[t] # <<>> /\ wire'[t] = Tail(wire[t])
        /\ maxEid'[t] = MaxOf(maxEid[t], e) /\ seen'[t] = Append(seen[t], e)
        /\ UNCHANGED <<gatewayVars, sock, since, xhrVars>>
    BY <1>1, <1>5 DEF Receive, HandleEvent
  <2>2. /\ e \in Eids /\ Elems(wire[t]) = {e} \cup Elems(wire'[t])
        /\ Rising(wire'[t]) /\ \A x \in Elems(wire'[t]) : e < x
    BY <1>1, <2>1, ElemsTail, RisingTail DEF Whole, InOrder
  <2>3. Elems(seen'[t]) = Elems(seen[t]) \cup {e}
    <3>1. seen[t] \in Seq(Eids)
      BY <1>1
    <3> QED BY <2>1, <2>2, <3>1, ElemsAppend
  <2>4. e \in published /\ phase[t] = "open" /\ todo[t] = <<>>
    BY <2>1, <2>2 DEF Whole, InOrder, Pipe, Standing
  <2>5. Stored(t)' /\ Answer(t)'
    <3>1. reply'[t] = reply[t] /\ missed' = missed
      BY <1>2, <2>1 DEF xhrVars
    <3> QED BY <1>2, <2>3, <3>1, Carried DEF Whole
  <2>6. Standing(t)'
    <3>1. {e, maxEid[t], since[t], asked[t]} \subseteq Int
      BY <1>1, <2>2
    <3>2. /\ since[t] <= maxEid[t] /\ asked[t] <= maxEid[t] /\ maxEid[t] \in published \cup {0}
      BY DEF Whole, Standing
    <3>3. since[t] <= maxEid'[t] /\ asked[t] <= maxEid'[t] /\ maxEid'[t] \in published \cup {0}
      BY <2>1, <2>4, <3>1, <3>2 DEF MaxOf
    <3> QED BY <1>2, <2>1, <2>4, <3>3 DEF Whole, Standing, gatewayVars, xhrVars, streamVars
  <2>7. InOrder(t)'
    BY <1>2, <2>1, <2>2 DEF Whole, InOrder, Pipe, Below, gatewayVars, streamVars
  <2>8. Complete(t)'
    BY <1>2, <2>1, <2>2, <2>3 DEF Whole, Complete, Settled, Pipe, gatewayVars, streamVars
  <2>9. NoHole(t)'
    <3> SUFFICES ASSUME NEW x \in published, x <= maxEid'[t] PROVE x \in Settled(t)'
      BY <1>2 DEF NoHole, streamVars
    <3>1. CASE x <= maxEid[t]
      BY <1>2, <2>3, <3>1 DEF Whole, NoHole, Settled
    <3>2. CASE x <= e
      <4>1. x \in Settled(t) \cup Pipe(t)
        BY <2>4 DEF Whole, Complete
      <4>2. \A y \in Elems(wire'[t]) \cup Elems(outbound[t]) \cup Elems(inbox[t]) : e < y
        BY <2>2 DEF Whole, InOrder, Below
      <4>3. e \in Int /\ x \in Int
        BY <1>1, <2>2
      <4>4. x \in Elems(wire[t]) \cup Elems(outbound[t]) \cup Elems(inbox[t]) => x = e
        BY <2>2, <3>2, <4>2, <4>3
      <4> QED BY <1>2, <2>3, <2>4, <4>1, <4>4, ElemsEmpty DEF Pipe, Settled
    <3> QED BY <2>1, <3>1, <3>2 DEF MaxOf
  <2> QED BY <2>5, <2>6, <2>7, <2>8, <2>9 DEF Whole
<1>6. CASE Disconnect(t)
  <2>1. /\ sock'[t] = "closed" /\ wire'[t] = <<>> /\ phase'[t] = "none" /\ todo'[t] = <<>>
        /\ subscribed'[t] = FALSE /\ inbox'[t] = <<>> /\ outbound'[t] = <<>>
        /\ UNCHANGED <<since, maxEid, asked, reply, seen>>
    BY <1>1, <1>6 DEF Disconnect
  <2>2. Stored(t)' /\ Answer(t)' /\ NoHole(t)'
    BY <1>2, <2>1, Carried DEF Whole
  <2>3. Standing(t)' /\ Complete(t)'
    BY <1>2, <2>1 DEF Whole, Standing, Complete, streamVars
  <2>4. InOrder(t)'
    BY <2>1, ElemsEmpty, RisingEmpty DEF InOrder, Below, Pipe
  <2> QED BY <2>2, <2>3, <2>4 DEF Whole
<1>7. CASE SendAck(t) \/ TakeReply(t)
  <2>1. UNCHANGED <<gatewayVars, sock, since, wire, maxEid, asked, reply, seen>>
    BY <1>7 DEF SendAck, TakeReply, socketVars, xhrVars
  <2> QED BY <1>2, <2>1, WholeUntouched DEF gatewayVars
<1>8. CASE AskEvents(t)
  <2>1. asked'[t] = maxEid[t] /\ UNCHANGED <<gatewayVars, socketVars, maxEid, reply, seen>>
    BY <1>1, <1>8 DEF AskEvents
  <2>2. Stored(t)' /\ Answer(t)' /\ NoHole(t)'
    BY <1>2, <2>1, Carried DEF Whole
  <2>3. Standing(t)'
    BY <1>1, <1>2, <2>1 DEF Whole, Standing, gatewayVars, socketVars, streamVars
  <2>4. InOrder(t)' /\ Complete(t)'
    BY <1>2, <2>1 DEF Whole, InOrder, Pipe, Complete, Settled, gatewayVars, socketVars, streamVars
  <2> QED BY <2>2, <2>3, <2>4 DEF Whole
<1>9. CASE PollFails(t)
  <2>1. reply'[t] = <<>> /\ UNCHANGED <<gatewayVars, socketVars, maxEid, asked, seen>>
    BY <1>1, <1>9 DEF PollFails
  <2>2. Stored(t)' /\ NoHole(t)'
    BY <1>2, <2>1, Carried DEF Whole
  <2>3. Answer(t)'
    BY <2>1, ElemsEmpty, RisingEmpty DEF Answer
  <2>4. Standing(t)' /\ InOrder(t)' /\ Complete(t)'
    BY <1>2, <2>1 DEF Whole, Standing, InOrder, Pipe, Complete, Settled, gatewayVars,
       socketVars, streamVars
  <2> QED BY <2>2, <2>3, <2>4 DEF Whole
<1>10. CASE HandleReply(t)
  <2> DEFINE e == Head(reply[t])
  <2>1. UNCHANGED <<gatewayVars, socketVars, asked>>
    BY <1>10 DEF HandleReply
  <2>2. InOrder(t)'
    BY <1>2, <2>1 DEF Whole, InOrder, Pipe, gatewayVars, socketVars, streamVars
  <2>3. CASE UNCHANGED <<reply, maxEid, seen>>
    BY <1>2, <2>1, <2>3, WholeUntouched DEF gatewayVars, socketVars
  <2>4. CASE reply[t] # <<>>
    <3>1. /\ reply'[t] = Tail(reply[t])
          /\ \/ maxEid'[t] = MaxOf(maxEid[t], e) /\ seen'[t] = Append(seen[t], e)
             \/ e <= asked[t] /\ maxEid'[t] = maxEid[t] /\ seen'[t] = seen[t]
      <4>1. e \in Int /\ asked[t] \in Int
        BY <1>1, <2>4, ElemsTail
      <4>2. reply' = [reply EXCEPT ![t] = Tail(@)]
            /\ IF e > asked[t] THEN HandleEvent(t, e) ELSE UNCHANGED <<maxEid, seen>>
        BY <1>10, <2>4 DEF HandleReply
      <4>3. CASE e > asked[t]
        BY <1>1, <4>2, <4>3 DEF HandleEvent
      <4>4. CASE e <= asked[t]
        BY <1>1, <4>1, <4>2, <4>4
      <4> QED BY <4>1, <4>3, <4>4
    <3>2. /\ e \in Eids /\ Elems(reply[t]) = {e} \cup Elems(reply'[t])
          /\ Rising(reply'[t]) /\ \A x \in Elems(reply'[t]) : e < x
      BY <1>1, <2>4, <3>1, ElemsTail, RisingTail DEF Whole, Answer
    <3>3. e \in published
      BY <3>2 DEF Whole, Answer
    <3>4. e \in Settled(t)' /\ Elems(seen[t]) \subseteq Elems(seen'[t])
      <4>1. CASE seen'[t] = Append(seen[t], e)
        BY <1>1, <3>2, <4>1, ElemsAppend DEF Settled
      <4>2. CASE e <= asked[t] /\ seen'[t] = seen[t]
        <5>1. e <= maxEid[t]
          BY <1>1, <3>2, <4>2 DEF Whole, Standing
        <5> QED BY <1>2, <3>3, <4>2, <5>1 DEF Whole, NoHole, Settled
      <4> QED BY <3>1, <4>1, <4>2
    <3>5. Stored(t)' /\ Settled(t) \subseteq Settled(t)'
      BY <1>2, <3>4, Carried DEF Whole
    <3>6. Answer(t)'
      <4>1. Elems(reply'[t]) \subseteq published
        BY <3>2 DEF Whole, Answer
      <4>2. ASSUME NEW f \in Elems(reply'[t]), NEW x \in published, x < f
            PROVE  x \in Settled(t)' \cup Elems(reply'[t])
        BY <3>2, <3>4, <3>5, <4>2 DEF Whole, Answer
      <4> QED BY <1>2, <3>2, <4>1, <4>2 DEF Answer, streamVars
    <3>7. Complete(t)'
      BY <1>2, <2>1, <3>5 DEF Whole, Complete, Pipe, gatewayVars, socketVars, streamVars
    <3>8. maxEid'[t] \in {maxEid[t], e} /\ maxEid[t] <= maxEid'[t]
      BY <1>1, <3>1, <3>2 DEF MaxOf
    <3>9. Standing(t)'
      <4>1. {maxEid[t], maxEid'[t], since[t], asked[t]} \subseteq Int
        BY <1>1, <3>2, <3>8
      <4>2. since[t] <= maxEid'[t] /\ asked[t] <= maxEid'[t] /\ maxEid'[t] \in published \cup {0}
        BY <3>3, <3>8, <4>1 DEF Whole, Standing
      <4> QED BY <1>2, <2>1, <4>2 DEF Whole, Standing, gatewayVars, socketVars, streamVars
    <3>10. NoHole(t)'
      <4> SUFFICES ASSUME NEW x \in published, x <= maxEid'[t] PROVE x \in Settled(t)'
        BY <1>2 DEF NoHole, streamVars
      <4>1. CASE x <= maxEid[t]
        BY <3>5, <4>1 DEF Whole, NoHole
      <4>2. CASE x <= e
        <5>1. x < e => x \in Settled(t) \cup Elems(reply[t])
          BY <3>2 DEF Whole, Answer
        <5>2. x \in Int /\ e \in Int
          BY <1>1, <3>2
        <5>3. x \in Elems(reply[t]) => x = e
          BY <3>2, <4>2, <5>2
        <5> QED BY <3>4, <3>5, <4>2, <5>1, <5>2, <5>3
      <4> QED BY <3>8, <4>1, <4>2
    <3> QED BY <2>2, <3>5, <3>6, <3>7, <3>9, <3>10 DEF Whole
  <2> QED BY <1>10, <2>3, <2>4 DEF HandleReply
<1>11. CASE ServeEvents(t)
  <2>1. reply'[t] = OldestFirst(stream) /\ UNCHANGED <<gatewayVars, socketVars, maxEid, asked, seen>>
    BY <1>1, <1>11 DEF ServeEvents
  <2>2. Stored(t)' /\ NoHole(t)' /\ Settled(t)' = Settled(t)
    BY <1>2, <2>1, Carried DEF Whole, Settled
  <2>3. Elems(reply'[t]) = Elems(stream) /\ Rising(reply'[t])
    BY <1>1, <2>1, OldestFirstSame, RisingOldestFirst DEF Newest
  <2>4. Answer(t)'
    <3>1. Elems(stream) \subseteq published /\ \A x \in published : x \in Int
      BY <1>1 DEF Numbering
    <3>2. ASSUME NEW f \in Elems(stream), NEW x \in published, x < f
          PROVE  x \in Settled(t) \cup Elems(stream)
      <4>1. ASSUME Pushing(x) PROVE FALSE
        <5>1. PICK p \in Producers : prod[p].at = "published" /\ prod[p].eid = x
          BY <4>1 DEF Pushing
        <5>2. f \in published \ {prod[p].eid}
          BY <3>1, <3>2, <5>1
        <5>3. f < x
          BY <5>1, <5>2 DEF Newest
        <5> QED BY <3>1, <3>2, <5>3
      <4> QED BY <4>1 DEF Whole, Stored, Settled
    <3> QED BY <1>2, <2>2, <2>3, <3>1, <3>2 DEF Answer, streamVars
  <2>5. Standing(t)' /\ InOrder(t)' /\ Complete(t)'
    BY <1>2, <2>1 DEF Whole, Standing, InOrder, Pipe, Complete, Settled, gatewayVars,
       socketVars, streamVars
  <2> QED BY <2>2, <2>4, <2>5 DEF Whole
<1> QED BY <1>3, <1>4, <1>5, <1>6, <1>7, <1>8, <1>9, <1>10, <1>11 DEF Tab

(* With one publisher every step keeps every tab whole. *)
THEOREM WholeInvariant ==
    ASSUME \A p, q \in Producers : p = q
    PROVE  Spec => []WholeInv
<1>1. Init => WholeInv
  <2> SUFFICES ASSUME Init PROVE WholeInv
    OBVIOUS
  <2>1. Numbering /\ Newest
    BY ElemsEmpty, RisingEmpty DEF Init, Numbering, Newest
  <2>2. ASSUME NEW t \in Tabs PROVE Whole(t)
    BY ElemsEmpty, RisingEmpty
    DEF Init, Whole, Stored, Standing, InOrder, Pipe, Below, Complete, Answer, NoHole
  <2> QED BY <2>1, <2>2 DEF WholeInv
<1>2. ASSUME TypeOK, AckNeverAhead, WholeInv, [Next]_vars PROVE WholeInv'
  <2>1. Numbering' /\ Newest'
    BY <1>2, NumberingStep, NewestStep DEF WholeInv
  <2>2. ASSUME NEW t \in Tabs PROVE Whole(t)'
    <3>1. CASE \E p \in Producers : Publisher(p)
      BY <1>2, <3>1, PublisherWhole DEF WholeInv
    <3>2. ASSUME NEW u \in Tabs, Gateway(u) \/ Tab(u) PROVE Whole(t)'
      <4>1. CASE u = t
        BY <1>2, <3>2, <4>1, GatewayWhole, TabWhole DEF WholeInv
      <4>2. CASE u # t
        BY <1>2, <3>2, <4>2, OtherTabWhole DEF WholeInv
      <4> QED BY <4>1, <4>2
    <3>3. CASE UNCHANGED vars
      BY <1>2, <3>3, WholeUntouched DEF WholeInv, vars, gatewayVars, socketVars, xhrVars
    <3> QED BY <1>2, <3>1, <3>2, <3>3 DEF Next
  <2> QED BY <2>1, <2>2 DEF WholeInv
<1> QED BY <1>1, <1>2, TypeCorrect, AcksTrail, PTL DEF Spec

(* Resuming from maxEid brings back everything but what the pipeline let go *)
(* of by itself: below a tab's cursor there is no unexplained hole, through *)
(* any reconnections, replays, live deliveries and polls, as long as one    *)
(* process publishes the user's events.                                    *)
THEOREM HolesAreExplained ==
    ASSUME \A p, q \in Producers : p = q
    PROVE  Spec => []HolesExplained
<1>1. WholeInv => HolesExplained
  BY DEF WholeInv, Whole, NoHole, Settled, HolesExplained
<1> QED BY <1>1, WholeInvariant, PTL
=============================================================================
