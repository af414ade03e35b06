--------------------------- MODULE ScriptRuntime ---------------------------
(***************************************************************************)
(* The script containers of bspd (server/script.c) over the global store:  *)
(* each worker has a lua_State of its own, in which call_script runs hooks *)
(* that call bsp_global_set and bsp_global_get.  The main thread makes the *)
(* containers, and on USR1 and USR2 loads the script file into them again  *)
(* or closes and rebuilds them, worker by worker, with no lock against     *)
(* call_script: that the two never meet in one lua_State is up to the      *)
(* operator, who sends signals when no hook runs.  When they do meet, or   *)
(* the Lua stack is pushed beyond its room, anything may happen (wild).    *)
(***************************************************************************)
EXTENDS GlobalStore

CONSTANTS
    NumWorkers,     \* c->opt.worker_threads
    Hooks,          \* the hooks named in the configuration
    Files,          \* what the script file may hold
    Room,           \* values lua_getglobal may push that nobody takes off
    Settings,       \* how the operator and the script behave, see below
    MaxHooks,       \* bound: events
    MaxSignals,     \* bound: signals
    MaxEdits        \* bound: changes of the script file

ASSUME ScriptRuntimeAssumption ==
    /\ NumWorkers \in Nat \ {0}
    /\ Workers = 0..(NumWorkers - 1)
    /\ Files \subseteq [defines : SUBSET Hooks, load : {"ok", "broken", "raises"}]
    /\ Room \in Nat \ {0}
    /\ {MaxHooks, MaxSignals, MaxEdits} \subseteq Nat
    /\ Settings \subseteq [quiet : BOOLEAN, complete : BOOLEAN, stores : 0..MaxCalls, signals : BOOLEAN]

VARIABLES
    setting,    \* quiet: signals wait for hooks; complete: every file loads and
                \* defines all hooks; stores: bound of calls; signals: there are any
    open,       \* workers that have a container (t->additional)
    globals,    \* edition of the file that defined each hook in a lua_State, or 0
    top,        \* values left on the stack of a lua_State
    where,      \* whether a worker is in lua_pcallk
    main,       \* the loop over the workers the main thread is in
    file,       \* the script file
    edition,    \* number of changes of the file
    floor,      \* history: edition when the last loop that ended began
    events,     \* hooks called so far
    signals,    \* signals sent so far
    wild

runtime == <<setting, open, globals, top, where, main, file, edition, floor, events, signals, wild>>
allVars == <<vars, runtime>>

Usable(f) == setting.complete => f.defines = Hooks /\ f.load = "ok"

RuntimeInit ==
    /\ Init
    /\ setting \in Settings
    /\ open = {}
    /\ globals = [w \in Workers |-> [h \in Hooks |-> 0]]
    /\ top = [w \in Workers |-> 0]
    /\ where = [w \in Workers |-> "idle"]
    /\ main = [op |-> "start", i |-> 0, inside |-> FALSE, from |-> 1]
    /\ file \in {f \in Files : Usable(f)}
    /\ edition = 1
    /\ floor = 0
    /\ events = 0
    /\ signals = 0
    /\ wild = FALSE

EditFile ==
    /\ setting.signals
    /\ edition <= MaxEdits
    /\ edition' = edition + 1
    /\ file' \in {f \in Files : Usable(f)}
    /\ UNCHANGED <<vars, setting, open, globals, top, where, main, floor, events, signals, wild>>

-----------------------------------------------------------------------------
(* The main thread. *)

Signal ==
    /\ setting.signals
    /\ main.op = "none"
    /\ setting.quiet => \A w \in Workers : where[w] = "idle"
    /\ signals < MaxSignals
    /\ signals' = signals + 1
    /\ \E op \in {"load", "restart"} :
        main' = [op |-> op, i |-> 0, inside |-> FALSE, from |-> edition]
    /\ UNCHANGED <<vars, setting, open, globals, top, where, file, edition, floor, events, wild>>

(* Mutant: one turn more than there are workers. *)
TurnBeginsPast ==
    /\ main.op # "none"
    /\ ~main.inside
    /\ main.i <= NumWorkers
    /\ main' = [main EXCEPT !.inside = TRUE]
    /\ wild' = FALSE
    /\ UNCHANGED <<vars, setting, open, globals, top, where, file, edition, floor, events, signals>>

(* The turn of a worker begins: the pointer to its container is read. *)
TurnBegins ==
    /\ main.op # "none"
    /\ ~main.inside
    /\ main.i < NumWorkers
    /\ main' = [main EXCEPT !.inside = TRUE]
    /\ wild' = (main.op # "start" /\ main.i \in open /\ where[main.i] = "hook")
    /\ UNCHANGED <<vars, setting, open, globals, top, where, file, edition, floor, events, signals>>

(* load_script_file, into a lua_State with the globals g and n values on   *)
(* its stack: an error leaves its message there.                           *)
Loaded(w, g, n) ==
    LET Defining(D) == [h \in Hooks |-> IF h \in D THEN edition ELSE g[h]]
    IN  \/ /\ file.load = "ok"
           /\ globals' = [globals EXCEPT ![w] = Defining(file.defines)]
           /\ top' = [top EXCEPT ![w] = n]
        \/ /\ file.load = "broken"
           /\ globals' = [globals EXCEPT ![w] = g]
           /\ top' = [top EXCEPT ![w] = n + 1]
        \/ /\ file.load = "raises"
           /\ \E D \in SUBSET file.defines : globals' = [globals EXCEPT ![w] = Defining(D)]
           /\ top' = [top EXCEPT ![w] = n + 1]

Fresh(w) == Loaded(w, [h \in Hooks |-> 0], 0)

Reload(w) == Loaded(w, globals[w], top[w])

NextTurn == main' = [main EXCEPT !.inside = FALSE, !.i = @ + 1]

(* new_script_container and load_script_file; restart_script_container;    *)
(* load_script_file alone.  A worker without a container is passed over.   *)
TurnEnds ==
    /\ main.inside
    /\ LET w == main.i IN
        \/ /\ main.op = "start"
           /\ open' = open \cup {w}
           /\ Fresh(w)
        \/ /\ main.op = "restart" /\ w \in open
           /\ Fresh(w)
           /\ UNCHANGED open
        \/ /\ main.op = "load" /\ w \in open
           /\ Reload(w)
           /\ UNCHANGED open
        \/ /\ main.op # "start" /\ w \notin open
           /\ UNCHANGED <<open, globals, top>>
    /\ NextTurn
    /\ wild' = (\E w \in Workers : top'[w] > Room)
    /\ UNCHANGED <<vars, setting, where, file, edition, floor, events, signals>>

(* Without memory a worker gets no container, but a restart goes on with   *)
(* no lua_State: module_global uses it.                                    *)
TurnFails ==
    /\ main.inside
    /\ world.fails
    /\ main.op = "start" \/ (main.op = "restart" /\ main.i \in open)
    /\ NextTurn
    /\ wild' = (main.op = "restart")
    /\ UNCHANGED <<vars, setting, open, globals, top, where, file, edition, floor, events, signals>>

(* Mutant: a signal passes over the last worker. *)
LoopEndsEarly ==
    /\ main.op # "none"
    /\ ~main.inside
    /\ main.i = NumWorkers - (IF main.op = "start" THEN 0 ELSE 1)
    /\ main' = [main EXCEPT !.op = "none"]
    /\ floor' = main.from
    /\ UNCHANGED <<vars, setting, open, globals, top, where, file, edition, events, signals, wild>>

LoopEnds ==
    /\ main.op # "none"
    /\ ~main.inside
    /\ main.i = NumWorkers
    /\ main' = [main EXCEPT !.op = "none"]
    /\ floor' = main.from
    /\ UNCHANGED <<vars, setting, open, globals, top, where, file, edition, events, signals, wild>>

-----------------------------------------------------------------------------
(* The workers. *)

(* call_script: what lua_getglobal pushed stays there if it is no function. *)
CallHook(w, h) ==
    /\ where[w] = "idle"
    /\ events < MaxHooks
    /\ setting.quiet => main.op = "none"
    /\ events' = events + 1
    /\ IF w \notin open
       THEN UNCHANGED <<top, where, wild>>
       ELSE /\ wild' = ((main.inside /\ main.i = w) \/ top[w] + 1 > Room)
            /\ IF globals[w][h] = 0
               THEN top' = [top EXCEPT ![w] = @ + 1] /\ UNCHANGED where
               ELSE where' = [where EXCEPT ![w] = "hook"] /\ UNCHANGED top
    /\ UNCHANGED <<vars, setting, open, globals, main, file, edition, floor, signals>>

(* Mutant: the stack is not cleared after a call. *)
HookEndsLeaving(w) ==
    /\ where' = [where EXCEPT ![w] = "idle"]
    /\ top' = [top EXCEPT ![w] = @ + 1]
    /\ wild' = (main.inside /\ main.i = w)
    /\ UNCHANGED <<setting, open, globals, main, file, edition, floor, events, signals>>

(* lua_pcallk returns, with or without an error, and lua_settop(0). *)
HookEnds(w) ==
    /\ where' = [where EXCEPT ![w] = "idle"]
    /\ top' = [top EXCEPT ![w] = 0]
    /\ wild' = (main.inside /\ main.i = w)
    /\ UNCHANGED <<setting, open, globals, main, file, edition, floor, events, signals>>

HookReturns(w) ==
    /\ where[w] = "hook"
    /\ pc[w] = "idle"
    /\ HookEnds(w)
    /\ UNCHANGED vars

CallStore(w) ==
    /\ where[w] = "hook"
    /\ calls < setting.stores
    /\ \E c \in Calls : Begin(w, c)
    /\ UNCHANGED runtime

GoOn(w) == Step(w) /\ UNCHANGED runtime

HookRaises(w) == Raise(w) /\ HookEnds(w)

-----------------------------------------------------------------------------
MainThread == Signal \/ TurnBegins \/ TurnEnds \/ TurnFails \/ LoopEnds
Worker(w) == CallStore(w) \/ GoOn(w) \/ HookRaises(w) \/ HookReturns(w) \/ \E h \in Hooks : CallHook(w, h)

RuntimeNext ==
    /\ ~wild
    /\ MainThread \/ EditFile \/ \E w \in Workers : Worker(w)

(* A worker in a hook goes on with it, and hooks return. *)
RuntimeFairness ==
    \A w \in Workers : WF_allVars(GoOn(w)) /\ WF_allVars(HookReturns(w))

RuntimeSpec == RuntimeInit /\ [][RuntimeNext]_allVars /\ RuntimeFairness

-----------------------------------------------------------------------------
(* Type invariant, of the store's variables too. *)
RuntimeTypeOK ==
    /\ TypeOK
    /\ open \subseteq Workers
    /\ globals \in [Workers -> [Hooks -> Nat]]
    /\ top \in [Workers -> Nat]
    /\ where \in [Workers -> {"idle", "hook"}]
    /\ main \in [op : {"start", "load", "restart", "none"}, i : 0..NumWorkers, inside : BOOLEAN, from : Nat]
    /\ \A w \in Workers : pc[w] # "idle" => where[w] = "hook"

(* Where the operator waits for hooks to end and every edition of the file *)
(* loads and defines all hooks, no lua_State is used by two threads, none  *)
(* is used after it was closed, and no stack is pushed beyond its room,    *)
(* however many events, reloads and restarts there are (call_script,       *)
(* load_script_file, restart_script_container).                            *)
OneThreadPerState == setting.quiet /\ setting.complete /\ ~world.fails => ~wild

(* After USR1 or USR2 every container runs at least the edition of the     *)
(* file that was there when the signal was handled, also when the file is  *)
(* edited while the workers take turns (_callback_reload_script,           *)
(* _callback_reload_state).                                                *)
ReloadReachesAll ==
    setting.complete /\ main.op = "none" =>
        \A w \in open, h \in Hooks : globals[w][h] >= floor

(* A hook that runs returns, whatever calls the others make of the store.  *)
HooksReturn ==
    \A w \in Workers : (where[w] = "hook" /\ ~world.raises) ~> (where[w] = "idle" \/ wild)
=============================================================================
