------------------------- MODULE MCDynamicChannels -------------------------
(* Small instances of DynamicChannels for TLC: an array of two that may    *)
(* double twice, once where the new half holds anything, and five          *)
(* channels.                                                               *)
EXTENDS DynamicChannels, TLC

CONSTANTS k1, k2, k3, k4, k5

FiveChannels == {k1, k2, k3, k4, k5}

(* Memory that is cleared or not, and an allocator that may also fail. *)
ThreeAllocators ==
    {[clears |-> TRUE, fails |-> FALSE], [clears |-> FALSE, fails |-> FALSE], [clears |-> FALSE, fails |-> TRUE]}

Symmetry == Permutations(FiveChannels)
=============================================================================
