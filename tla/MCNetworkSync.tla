--------------------------- MODULE MCNetworkSync ---------------------------
EXTENDS NetworkSync

\* How often each kind of thing happens.
Bounds(channel, press, drop, other, reopen) ==
  [k \in Kinds |-> CASE k = "channel" -> channel [] k = "press" -> press
                     [] k = "drop" -> drop [] k = "other" -> other
                     [] k = "reopen" -> reopen]

Families == {Bounds(0, 2, 1, 0, 0), Bounds(3, 0, 0, 1, 1), Bounds(1, 0, 1, 1, 0)}

AnySetting == [listed : BOOLEAN, member : BOOLEAN, bounds : Families]

=============================================================================
