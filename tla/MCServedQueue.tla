--------------------------- MODULE MCServedQueue ---------------------------
(* ServedQueue for TLC: all workers are served, or one alone. *)
EXTENDS ServedQueue, MCScriptQueue

OneOrAll == {OneScript, Workers}
=============================================================================
