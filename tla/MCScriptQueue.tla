--------------------------- MODULE MCScriptQueue ---------------------------
(* Small instances of ScriptQueue for TLC. *)
EXTENDS ScriptQueue, TLC

CONSTANTS c1, c2, t1, t2, t3

OneConn == {c1}
TwoConns == {c1, c2}
TwoTasks == {t1, t2}
ThreeTasks == {t1, t2, t3}
AllHooks == {"connect", "data", "disconnect"}
NoDataHook == {"connect", "disconnect"}
OneScript == {0}
TwoScripts == {0, 1}

(* Slots are interchangeable; so are connections. *)
Symmetry == Permutations(ThreeTasks) \cup Permutations(TwoConns)
=============================================================================
