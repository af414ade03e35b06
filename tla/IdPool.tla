------------------------------- MODULE IdPool -------------------------------
(***************************************************************************)
(* What the numbering of anonymous channels (server/clients.c) promises to *)
(* the scripts that use the numbers: a channel gets the smallest number no *)
(* other open channel has, and keeps it until it is deleted.               *)
(***************************************************************************)
EXTENDS Naturals

CONSTANT Ids    \* an initial segment of the naturals

VARIABLE inUse  \* numbers of the open channels

Init == inUse = {}

Open(i) ==
    /\ i \notin inUse
    /\ \A j \in 0..(i - 1) : j \in inUse
    /\ inUse' = inUse \cup {i}

Close(i) ==
    /\ i \in inUse
    /\ inUse' = inUse \ {i}

Next == \E i \in Ids : Open(i) \/ Close(i)

Spec == Init /\ [][Next]_inUse
=============================================================================
