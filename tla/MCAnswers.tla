------------------------------ MODULE MCAnswers ------------------------------
(* Small instances of Answers for TLC. *)
EXTENDS Answers, TLC

CONSTANTS w1, w2, a1, a2, a3

TwoWorkers == {w1, w2}
ThreeSlots == {a1, a2, a3}

(* Every combination; heartbeats matter to packet servers only. *)
AllWorlds ==
    {v \in [type : Types, data_type : {"packet", "raw"}, workers : {1, 2},
            patient : BOOLEAN, unasked : BOOLEAN, heartbeats : BOOLEAN] :
        v.heartbeats => v.type = "normal" /\ v.data_type = "packet"}

Symmetry == Permutations(Workers) \cup Permutations(Slots)
=============================================================================
