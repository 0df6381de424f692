----------------------------- MODULE EventFeed -----------------------------
(***************************************************************************)
(* What the delivery pipeline promises a browser tab, without its queues,  *)
(* cursors and connections: every event a tab handles was published for    *)
(* its user, and no tab handles an event twice.  EventStream implements    *)
(* this with got <- seen when the XHR fallback is off.                     *)
(***************************************************************************)
EXTENDS Integers, Sequences

CONSTANTS Tabs, MaxEid

VARIABLES
    published,   \* eids published so far
    got          \* got[t]: eids tab t handled, in order

Init ==
    /\ published = {}
    /\ got = [t \in Tabs |-> <<>>]

Publish(e) ==
    /\ e \notin published
    /\ published' = published \cup {e}
    /\ UNCHANGED got

Handle(t, e) ==
    /\ e \in published
    /\ \A i \in 1..Len(got[t]) : got[t][i] # e
    /\ got' = [got EXCEPT ![t] = Append(@, e)]
    /\ UNCHANGED published

Next == \E e \in 1..MaxEid : Publish(e) \/ \E t \in Tabs : Handle(t, e)

Spec == Init /\ [][Next]_<<published, got>>
=============================================================================
