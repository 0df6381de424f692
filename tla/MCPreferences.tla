--------------------------- MODULE MCPreferences ---------------------------
EXTENDS Preferences, TLC

CONSTANTS r1, r2, r3, rest, gw, m, n, p, q

Profile(kind, repo, item) == [kind |-> kind, repo |-> repo, item |-> item]

OneProcess == [x \in Repos |-> gw]

(* Notification settings through mutate(), an archived channel by hand, a   *)
(* reconnecting tab and an account deletion.                               *)
AllProfiles ==
    {Profile("mutate", rest, m), Profile("mutate", rest, n),
     Profile("handRolled", rest, p), Profile("boot", rest, p), Profile("delete", rest, p)}

HandRolled == {Profile("mutate", rest, p), Profile("handRolled", rest, q)}

RequestSymmetry == Permutations(Requests)
=============================================================================
