------------------------------ MODULE Scanning ------------------------------
(* What the readers of JSON and of HTTP headers share.                     *)
EXTENDS Integers, Sequences

(* The first place from p on where t is in S, or behind its end. *)
Find(t, p, S) ==
    CHOOSE i \in p..(Len(t) + 1) :
        /\ \A j \in p..(i - 1) : t[j] \notin S
        /\ i <= Len(t) => t[i] \in S
=============================================================================
