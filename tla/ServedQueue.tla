---------------------------- MODULE ServedQueue ----------------------------
(***************************************************************************)
(* ScriptQueue where libbsp serves some of the workers only, one at least: *)
(* bsp_select_thread chooses among these.  One worker alone, as when the   *)
(* configuration has one, keeps an order that several workers do not.      *)
(***************************************************************************)
EXTENDS ScriptQueue

CONSTANT Servings   \* the sets of workers that libbsp may serve

ASSUME ServedQueueAssumption == Servings \subseteq SUBSET Workers

VARIABLE served

ServedInit == Init /\ served \in Servings

ServedNext ==
    /\ Next
    /\ \A p \in Producers : target'[p] \in served \cup {NULL}
    /\ UNCHANGED served

ServedSpec == ServedInit /\ [][ServedNext]_<<vars, served>> /\ Fairness
-----------------------------------------------------------------------------
Alone == Cardinality(served) = 1

(* With one worker no hook is called for a client that was already         *)
(* unregistered (_worker_on_poke: call_script before follow_up).           *)
AloneNoHookAfterUnreg == Alone => NoHookAfterUnreg

(* With one worker the hooks of one connection are called one by one in    *)
(* the order of its events, none left out (_bspd_on_connect,               *)
(* _bspd_on_data, _bspd_on_disconnect, _worker_on_poke).                   *)
AloneHooksInOrder ==
    [][Alone => \A c \in Conns : ran'[c] # ran[c] => ran'[c] = ran[c] + 1]_vars
=============================================================================
