--------------------------- MODULE MCReadMarkers ---------------------------
EXTENDS ReadMarkers

Bounds(post, view, write, fault) ==
  [k \in Kinds |-> CASE k = "post" -> post [] k = "view" -> view
                     [] k = "write" -> write [] k = "fault" -> fault]

\* One tab is scrolled, left and come back to while messages arrive; one tab opens a
\* buffer that has messages and loses its stream while more arrive.  Two tabs of two
\* browsers, with two of: a message that arrives, a second read, a fault (a broken
\* stream, a reload or a failing call).  Two tabs of one browser read, over a write of
\* an older map, a fault or both.
AnySetting ==
  {[used |-> {1}, shared |-> FALSE, scrolls |-> TRUE, start |-> 0, bounds |-> Bounds(2, 3, 0, 0)],
   [used |-> {1}, shared |-> FALSE, scrolls |-> FALSE, start |-> 1, bounds |-> Bounds(2, 1, 0, 1)],
   [used |-> {1, 2}, shared |-> FALSE, scrolls |-> FALSE, start |-> 1, bounds |-> Bounds(0, 2, 0, 1)]}
  \cup {[used |-> {1, 2}, shared |-> FALSE, scrolls |-> FALSE, start |-> 0, bounds |-> b] :
           b \in {Bounds(1, 2, 0, 0), Bounds(1, 1, 0, 1)}}
  \cup {[used |-> {1, 2}, shared |-> TRUE, scrolls |-> FALSE, start |-> 1, bounds |-> b] :
           b \in {Bounds(0, 2, 1, 0), Bounds(0, 2, 0, 1), Bounds(0, 1, 1, 1)}}
=============================================================================
