----------------------------- MODULE MCRegistry -----------------------------
(* Small instances of Registry for TLC. *)
EXTENDS Registry, TLC

CONSTANTS c1, c2, s1, s2, s3, s4, k1, k2, i1, i2, w1, w2

TwoClients == {c1, c2}
ThreeSessions == {s1, s2, s3}
FourSessions == {s1, s2, s3, s4}
OneChannel == {k1}
TwoChannels == {k1, k2}
OneId == {i1}
TwoIds == {i1, i2}
TwoWorkers == {w1, w2}

(* Hooks that only register, come back and join; hooks that do anything;   *)
(* hooks that register, unregister and join while allocations fail; and    *)
(* two workers that register and unregister.                               *)
AllWorlds ==
    {[may |-> {}, channels |-> 2, workers |-> 1],
     [may |-> {"unreg", "leave", "away"}, channels |-> 2, workers |-> 1],
     [may |-> {"unreg", "away", "oom"}, channels |-> 1, workers |-> 1],
     [may |-> {"unreg"}, channels |-> 0, workers |-> 2]}
TidyWorld == {[may |-> {}, channels |-> 1, workers |-> 1]}

(* No session id is a number, or only that of the first client's fd. *)
NoNumbers == [c \in Clients |-> NULL]
NumberedClient == [c \in Clients |-> IF c = c1 THEN i1 ELSE NULL]

Symmetry ==
    Permutations(Clients) \cup Permutations(Sessions) \cup Permutations(Channels)
        \cup Permutations(Ids) \cup Permutations(Workers)
=============================================================================
