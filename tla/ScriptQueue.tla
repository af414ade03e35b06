---------------------------- MODULE ScriptQueue ----------------------------
(***************************************************************************)
(* The script-task queue of bspd (server/script.c) and the threads around  *)
(* it (server/main.c).  The I/O thread of a connection turns connect, data *)
(* and disconnect events into tasks, the boss thread's base clock adds     *)
(* garbage-collection tasks; each is linked into one list under a spinlock *)
(* and one worker is poked per task.  A poked worker takes one task, runs  *)
(* its Lua hook, then its follow_up, and returns the slot to the pool.     *)
(*                                                                         *)
(* The I/O threads handle the events of one connection in sequence, so     *)
(* there is one I/O context per connection.  The critical sections are     *)
(* split into their reads and writes, so that the lock is what makes them  *)
(* atomic.  libbsp (pool, spinlock, event container) is external and known *)
(* by its calls only; constants name what the code assumes of it.          *)
(***************************************************************************)
EXTENDS Naturals, Sequences, FiniteSets

CONSTANTS
    Conns,          \* connections, each served by its I/O context
    Boss,           \* the boss thread, which runs the base clock
    NumWorkers,     \* c->opt.worker_threads
    Scripted,       \* workers whose script container exists (t->additional)
    Tasks,          \* slots of mp_task: bounds how many tasks are alive
    NULL,
    EMPTY,          \* what pop_script_task answers when the queue is empty
    Hooks,          \* the lua_hook_* set in the server's configuration
    MaxData,        \* bound: data events per connection
    MaxTicks,       \* bound: base-clock ticks that ask for a collection
    PoolClears,     \* bsp_mempool_alloc returns zeroed memory
    CountedPokes,   \* one notification per poke, never several in one
    OutOfMemory,    \* bsp_mempool_alloc may return NULL
    SelectMayFail   \* bsp_select_thread may return NULL

Workers == 0..(NumWorkers - 1)
Producers == Conns \cup {Boss}
Threads == Producers \cup Workers

ASSUME ScriptQueueAssumption ==
    /\ NumWorkers \in Nat \ {0}
    /\ MaxData \in Nat
    /\ MaxTicks \in Nat
    /\ Scripted \subseteq Workers
    /\ Hooks \subseteq {"connect", "data", "disconnect"}
    /\ Boss \notin Conns
    /\ Producers \cap Workers = {}
    /\ NULL \notin Threads \cup Tasks
    /\ EMPTY \notin Tasks \cup {NULL}
    /\ {PoolClears, CountedPokes, OutOfMemory, SelectMayFail} \subseteq BOOLEAN

VARIABLES
    conn,       \* life of each connection
    events,     \* events seen by each connection so far
    ticks,      \* collections asked for so far
    used,       \* slots allocated from mp_task
    job,        \* type, subject and event number written in a slot
    follow_up,  \* follow_up and arg of a slot: the client to unregister
    next,       \* next of a slot
    head,       \* task_queue_head
    tail,       \* task_queue_tail
    lock,       \* holder of task_queue_lock
    pokes,      \* notifications pending in a worker's event container
    pc,         \* where each thread is
    hand,       \* local variable "task" of each thread
    target,     \* local variable "t" of push_script_task
    dropped,    \* tasks push_script_task refused and nobody freed
    unreg,      \* how often unreg_client ran for a connection
    ran,        \* history: number of the last event whose hook was called
    fifo        \* history: tasks linked and not yet unlinked, in order

slots == <<used, job, follow_up, next>>
list == <<head, tail, fifo>>
threads == <<pc, hand, target>>
outside == <<conn, events, ticks>>
effects == <<dropped, unreg, ran>>
vars == <<conn, events, ticks, used, job, follow_up, next, head, tail, lock,
          pokes, pc, hand, target, dropped, unreg, ran, fifo>>

Job == [type : {"LOAD", "CTL", "DATA", "GC"}, who : Conns \cup Workers \cup {NULL}, no : Nat]

PushSteps == {"select", "lock", "link", "append"}
Critical == {"link", "append", "read", "advance", "unlock"}
PCs == PushSteps \cup Critical \cup {"idle", "call", "follow", "free", "segv"}

(* A CTL task that could not be allocated is written through anyway. *)
Crashed == \E th \in Threads : pc[th] = "segv"

Goto(th, label) == pc' = [pc EXCEPT ![th] = label]

-----------------------------------------------------------------------------
Init ==
    /\ conn = [c \in Conns |-> "new"]
    /\ events = [c \in Conns |-> 0]
    /\ ticks = 0
    /\ used = {}
    /\ job = [t \in Tasks |-> [type |-> "LOAD", who |-> NULL, no |-> 0]]
    /\ follow_up = [t \in Tasks |-> NULL]
    /\ next = [t \in Tasks |-> NULL]
    /\ head = NULL
    /\ tail = NULL
    /\ lock = NULL
    /\ pokes = [w \in Workers |-> 0]
    /\ pc = [th \in Threads |-> "idle"]
    /\ hand = [th \in Threads |-> NULL]
    /\ target = [p \in Producers |-> NULL]
    /\ dropped = {}
    /\ unreg = [c \in Conns |-> 0]
    /\ ran = [c \in Conns |-> 0]
    /\ fifo = <<>>

-----------------------------------------------------------------------------
(* Producers: an event becomes a task in the producer's hand.              *)

(* Mutant: the slot's follow_up always survives in the pool. *)
NewTaskStale(p, j, f) ==
    /\ \E t \in Tasks \ used :
        /\ used' = used \cup {t}
        /\ job' = [job EXCEPT ![t] = j]
        /\ follow_up' = [follow_up EXCEPT ![t] = IF f # NULL THEN f ELSE @]
        /\ next' = [next EXCEPT ![t] = NULL]
        /\ hand' = [hand EXCEPT ![p] = t]
    /\ Goto(p, "select")

(* new_script_task writes type, next, data and proto only: follow_up and   *)
(* arg keep what the slot held unless the pool zeroes its memory or the    *)
(* caller writes them (f).                                                 *)
NewTask(p, j, f) ==
    /\ \E t \in Tasks \ used, stale \in (IF PoolClears THEN {FALSE} ELSE BOOLEAN) :
        /\ used' = used \cup {t}
        /\ job' = [job EXCEPT ![t] = j]
        /\ follow_up' = [follow_up EXCEPT ![t] =
                            IF f # NULL THEN f ELSE IF stale THEN @ ELSE NULL]
        /\ next' = [next EXCEPT ![t] = NULL]
        /\ hand' = [hand EXCEPT ![p] = t]
    /\ Goto(p, "select")

(* The data path skips a NULL task, push_script_task refuses it, and the   *)
(* connect and disconnect handlers dereference it.                         *)
NewTaskFails(p, j) ==
    /\ OutOfMemory
    /\ Goto(p, IF j.type = "CTL" THEN "segv" ELSE "idle")
    /\ UNCHANGED <<slots, hand>>

Submit(p, j, f) ==
    /\ NewTask(p, j, f) \/ NewTaskFails(p, j)
    /\ UNCHANGED <<list, lock, pokes, target, effects>>

(* A handler that has no hook to call leaves the queue alone. *)
Handle(c, hook, j, f) ==
    /\ pc[c] = "idle"
    /\ events' = [events EXCEPT ![c] = @ + 1]
    /\ IF hook \in Hooks THEN Submit(c, j, f)
       ELSE UNCHANGED <<slots, list, lock, pokes, threads, effects>>
    /\ UNCHANGED ticks

(* Mutant: the connect task carries the disconnect handler's follow_up. *)
OnConnectFollowUp(c) ==
    /\ conn[c] = "new"
    /\ conn' = [conn EXCEPT ![c] = "open"]
    /\ Handle(c, "connect", [type |-> "CTL", who |-> c, no |-> events[c] + 1], c)

OnConnect(c) ==
    /\ conn[c] = "new"
    /\ conn' = [conn EXCEPT ![c] = "open"]
    /\ Handle(c, "connect", [type |-> "CTL", who |-> c, no |-> events[c] + 1], NULL)

OnData(c) ==
    /\ conn[c] = "open"
    /\ events[c] <= MaxData
    /\ UNCHANGED conn
    /\ Handle(c, "data", [type |-> "DATA", who |-> c, no |-> events[c] + 1], NULL)

(* Mutant: the disconnect task carries no follow_up. *)
OnDisconnectNoFollowUp(c) ==
    /\ conn[c] = "open"
    /\ conn' = [conn EXCEPT ![c] = "closed"]
    /\ Handle(c, "disconnect", [type |-> "CTL", who |-> c, no |-> events[c] + 1], NULL)

OnDisconnect(c) ==
    /\ conn[c] = "open"
    /\ conn' = [conn EXCEPT ![c] = "closed"]
    /\ Handle(c, "disconnect", [type |-> "CTL", who |-> c, no |-> events[c] + 1], c)

(* The clock picks a worker by the tick's number, announces a collection   *)
(* of its script, and pushes a task that does not say which worker.        *)
OnBaseClock ==
    /\ pc[Boss] = "idle"
    /\ ticks < MaxTicks
    /\ ticks' = ticks + 1
    /\ Submit(Boss, [type |-> "GC", who |-> ticks % NumWorkers, no |-> ticks + 1], NULL)
    /\ UNCHANGED <<conn, events>>

-----------------------------------------------------------------------------
(* push_script_task *)

SelectThread(p) ==
    /\ pc[p] = "select"
    /\ \E w \in Workers : target' = [target EXCEPT ![p] = w]
    /\ Goto(p, "lock")
    /\ UNCHANGED <<outside, slots, list, lock, pokes, hand, effects>>

(* No worker: push_script_task returns an error that no caller looks at. *)
RefuseTask(p) ==
    /\ pc[p] = "select"
    /\ SelectMayFail
    /\ dropped' = dropped \cup {hand[p]}
    /\ hand' = [hand EXCEPT ![p] = NULL]
    /\ Goto(p, "idle")
    /\ UNCHANGED <<outside, slots, list, lock, pokes, target, unreg, ran>>

(* Mutant: the lock is not waited for. *)
AcquireHeld(th) ==
    /\ pc[th] = "lock"
    /\ lock' = th
    /\ Goto(th, IF th \in Workers THEN "read" ELSE "link")
    /\ UNCHANGED <<outside, slots, list, pokes, hand, target, effects>>

Acquire(th) ==
    /\ pc[th] = "lock"
    /\ lock = NULL
    /\ lock' = th
    /\ Goto(th, IF th \in Workers THEN "read" ELSE "link")
    /\ UNCHANGED <<outside, slots, list, pokes, hand, target, effects>>

(* Mutant: the new task is linked before the head. *)
PushLinkFront(p) ==
    /\ pc[p] = "link"
    /\ head' = hand[p]
    /\ next' = [next EXCEPT ![hand[p]] = head]
    /\ Goto(p, "append")
    /\ UNCHANGED <<outside, used, job, follow_up, tail, fifo, lock, pokes, hand, target, effects>>

PushLink(p) ==
    /\ pc[p] = "link"
    /\ head' = IF head = NULL THEN hand[p] ELSE head
    /\ next' = IF tail = NULL THEN next ELSE [next EXCEPT ![tail] = hand[p]]
    /\ Goto(p, "append")
    /\ UNCHANGED <<outside, used, job, follow_up, tail, fifo, lock, pokes, hand, target, effects>>

(* Mutant: a worker is poked only when the queue was empty. *)
PushTailPokeFirst(p) ==
    /\ pc[p] = "append"
    /\ tail' = hand[p]
    /\ fifo' = Append(fifo, hand[p])
    /\ pokes' = IF tail = NULL THEN [pokes EXCEPT ![target[p]] = @ + 1] ELSE pokes
    /\ hand' = [hand EXCEPT ![p] = NULL]
    /\ target' = [target EXCEPT ![p] = NULL]
    /\ Goto(p, "unlock")
    /\ UNCHANGED <<outside, slots, head, lock, effects>>

PushTail(p) ==
    /\ pc[p] = "append"
    /\ tail' = hand[p]
    /\ fifo' = Append(fifo, hand[p])
    /\ pokes' = [pokes EXCEPT ![target[p]] = @ + 1]
    /\ hand' = [hand EXCEPT ![p] = NULL]
    /\ target' = [target EXCEPT ![p] = NULL]
    /\ Goto(p, "unlock")
    /\ UNCHANGED <<outside, slots, head, lock, effects>>

(* The end of the critical section of push_script_task and pop_script_task. *)
Release(th) ==
    /\ pc[th] = "unlock"
    /\ lock' = NULL
    /\ Goto(th, IF hand[th] = NULL THEN "idle" ELSE "call")
    /\ UNCHANGED <<outside, slots, list, pokes, hand, target, effects>>

-----------------------------------------------------------------------------
(* Workers: _worker_on_poke, with pop_script_task and del_script_task.     *)

(* A worker without a script container swallows the notification. *)
WorkerOnPoke(w) ==
    /\ pc[w] = "idle"
    /\ pokes[w] > 0
    /\ pokes' = [pokes EXCEPT ![w] = IF CountedPokes THEN @ - 1 ELSE 0]
    /\ Goto(w, IF w \in Scripted THEN "lock" ELSE "idle")
    /\ UNCHANGED <<outside, slots, list, lock, hand, target, effects>>

PopRead(w) ==
    /\ pc[w] = "read"
    /\ hand' = [hand EXCEPT ![w] = head]
    /\ Goto(w, IF head = NULL THEN "unlock" ELSE "advance")
    /\ UNCHANGED <<outside, slots, list, lock, pokes, target, effects>>

(* Mutant: the tail still points to the last task taken. *)
PopAdvanceKeepTail(w) ==
    /\ pc[w] = "advance"
    /\ head' = next[hand[w]]
    /\ fifo' = IF fifo = <<>> THEN fifo ELSE Tail(fifo)
    /\ Goto(w, "unlock")
    /\ UNCHANGED <<outside, slots, tail, lock, pokes, hand, target, effects>>

PopAdvance(w) ==
    /\ pc[w] = "advance"
    /\ head' = next[hand[w]]
    /\ tail' = IF next[hand[w]] = NULL THEN NULL ELSE tail
    /\ fifo' = IF fifo = <<>> THEN fifo ELSE Tail(fifo)
    /\ Goto(w, "unlock")
    /\ UNCHANGED <<outside, slots, lock, pokes, hand, target, effects>>

(* Mutant: a task without a follow_up is called again and again. *)
CallScriptAgain(w) ==
    /\ pc[w] = "call"
    /\ ran' = [ran EXCEPT ![job[hand[w]].who] = job[hand[w]].no]
    /\ Goto(w, IF follow_up[hand[w]] = NULL THEN "call" ELSE "follow")
    /\ UNCHANGED <<outside, slots, list, lock, pokes, hand, target, dropped, unreg>>

(* call_script: the hook is called with what the task carries.  Whether    *)
(* there is one, and how the call ends, makes no difference to the caller. *)
RunHook(t) == ran' = [ran EXCEPT ![job[t].who] = job[t].no]

(* A GC task collects this worker's own Lua state; any other calls a hook. *)
CallScript(w) ==
    /\ pc[w] = "call"
    /\ LET t == hand[w] IN
        IF job[t].type = "GC"
        THEN Goto(w, "free") /\ UNCHANGED ran
        ELSE /\ RunHook(t)
             /\ Goto(w, IF follow_up[t] = NULL THEN "free" ELSE "follow")
    /\ UNCHANGED <<outside, slots, list, lock, pokes, hand, target, dropped, unreg>>

(* _after_disconnect_task: unreg_client(task->arg). *)
AfterDisconnectTask(w) ==
    /\ pc[w] = "follow"
    /\ unreg' = [unreg EXCEPT ![follow_up[hand[w]]] = @ + 1]
    /\ Goto(w, "free")
    /\ UNCHANGED <<outside, slots, list, lock, pokes, hand, target, dropped, ran>>

(* Mutant: the slot is not given back. *)
DelTaskLeak(w) ==
    /\ pc[w] = "free"
    /\ hand' = [hand EXCEPT ![w] = NULL]
    /\ Goto(w, "idle")
    /\ UNCHANGED <<outside, slots, list, lock, pokes, target, effects>>

DelTask(w) ==
    /\ pc[w] = "free"
    /\ used' = used \ {hand[w]}
    /\ hand' = [hand EXCEPT ![w] = NULL]
    /\ Goto(w, "idle")
    /\ UNCHANGED <<outside, job, follow_up, next, list, lock, pokes, target, effects>>

-----------------------------------------------------------------------------
(* The event loops wait: no event is left and nothing is pending. *)
Quiescent ==
    /\ \A c \in Conns : conn[c] = "closed"
    /\ ticks = MaxTicks
    /\ \A th \in Threads : pc[th] = "idle"
    /\ \A w \in Workers : pokes[w] = 0
    /\ fifo = <<>>
    /\ UNCHANGED vars

Event(c) == OnConnect(c) \/ OnData(c) \/ OnDisconnect(c)
Push(p) ==
    \/ SelectThread(p) \/ RefuseTask(p) \/ Acquire(p)
    \/ PushLink(p) \/ PushTail(p) \/ Release(p)
Work(w) ==
    \/ WorkerOnPoke(w) \/ Acquire(w) \/ PopRead(w) \/ PopAdvance(w) \/ Release(w)
    \/ CallScript(w) \/ AfterDisconnectTask(w) \/ DelTask(w)

Next ==
    /\ ~Crashed
    /\ \/ \E c \in Conns : Event(c)
       \/ OnBaseClock
       \/ \E p \in Producers : Push(p)
       \/ \E w \in Workers : Work(w)
       \/ Quiescent

Spec == Init /\ [][Next]_vars

(* Every thread that can take a step does; connections end.  A spinlock    *)
(* does not queue its waiters, but no thread keeps taking it for ever.     *)
Fairness ==
    /\ \A c \in Conns : WF_vars(OnConnect(c)) /\ WF_vars(OnDisconnect(c))
    /\ \A p \in Producers : WF_vars(Push(p))
    /\ \A w \in Workers : WF_vars(Work(w))

FairSpec == Spec /\ Fairness
-----------------------------------------------------------------------------
(* Type invariant. *)
TypeOK ==
    /\ conn \in [Conns -> {"new", "open", "closed"}]
    /\ events \in [Conns -> Nat]
    /\ ticks \in Nat
    /\ used \subseteq Tasks
    /\ job \in [Tasks -> Job]
    /\ follow_up \in [Tasks -> Conns \cup {NULL}]
    /\ next \in [Tasks -> Tasks \cup {NULL}]
    /\ head \in Tasks \cup {NULL}
    /\ tail \in Tasks \cup {NULL}
    /\ lock \in Threads \cup {NULL}
    /\ pokes \in [Workers -> Nat]
    /\ pc \in [Threads -> PCs]
    /\ hand \in [Threads -> Tasks \cup {NULL}]
    /\ target \in [Producers -> Workers \cup {NULL}]
    /\ dropped \subseteq Tasks
    /\ unreg \in [Conns -> Nat]
    /\ ran \in [Conns -> Nat]
    /\ fifo \in Seq(Tasks)

Positions == 1..Len(fifo)
Waiting == {fifo[i] : i \in Positions}

(* A thread owns the task in its hand, except for the worker that has read *)
(* the head of the list and not yet moved the head past it.                *)
Owns(th) == hand[th] # NULL /\ pc[th] # "advance"
Held == {hand[th] : th \in {x \in Threads : Owns(x)}}

(* Whenever the lock is free, the pointers spell out exactly the tasks     *)
(* pushed and not yet popped, oldest first: head and tail are its ends,    *)
(* each next is the successor, and the last next is NULL                   *)
(* (push_script_task, pop_script_task).                                    *)
QueueShape ==
    lock = NULL =>
        /\ head = IF fifo = <<>> THEN NULL ELSE fifo[1]
        /\ tail = IF fifo = <<>> THEN NULL ELSE fifo[Len(fifo)]
        /\ \A i \in Positions : next[fifo[i]] = IF i = Len(fifo) THEN NULL ELSE fifo[i + 1]

(* An allocated task is in exactly one place: with one thread, at one      *)
(* place of the queue, or among the refused ones; a slot of the pool is in *)
(* none.  So no hook runs twice for a task, no slot is freed twice or used *)
(* after it was freed, and only refused tasks are lost (new_script_task,   *)
(* push_script_task, pop_script_task, del_script_task).                    *)
OneHolder ==
    /\ used = Held \cup Waiting \cup dropped
    /\ Held \cap Waiting = {} /\ Held \cap dropped = {} /\ Waiting \cap dropped = {}
    /\ \A i, j \in Positions : fifo[i] = fifo[j] => i = j
    /\ \A a, b \in Threads : Owns(a) /\ Owns(b) /\ hand[a] = hand[b] => a = b

(* What will make a worker look at the queue: its notifications, numbered  *)
(* from 1, and 0 for the one it is answering and has not popped for yet.   *)
Pending(w) == (IF pc[w] \in {"lock", "read", "advance"} THEN 0 ELSE 1)..pokes[w]
Notices == UNION {{w} \X Pending(w) : w \in Workers}

(* A notification is pending or being answered for every waiting task: no  *)
(* task is left in the queue with every worker asleep, though each         *)
(* notification makes a worker take one task only (push_script_task,       *)
(* _worker_on_poke).                                                       *)
PokesCoverQueue == Len(fifo) <= Cardinality(Notices)

(* push_script_task writes task_queue_tail->next only into a task that is  *)
(* still waiting: never into one a worker has taken or returned to the     *)
(* pool.  Any other write of next is new_script_task's into a fresh slot.  *)
NoWriteToTaken ==
    [][\A t \in Tasks : next'[t] # next[t] => t \in Waiting \/ t \in used' \ used]_vars

(* unreg_client runs for a client only after its disconnect event, even    *)
(* where a recycled slot hands an old follow_up to a new task              *)
(* (new_script_task, _after_disconnect_task).                              *)
UnregAfterClose == \A c \in Conns : unreg[c] > 0 => conn[c] = "closed"

(* unreg_client runs at most once for a client; it frees the session, so   *)
(* a second call would free it again (_after_disconnect_task).  This needs *)
(* a pool that clears its slots, see NewTask.                              *)
UnregOnce == \A c \in Conns : unreg[c] <= 1

(* A hook is never called for a client that was already unregistered       *)
(* (_worker_on_poke: call_script before follow_up); several workers can    *)
(* break it, one alone cannot.                                             *)
NoHookAfterUnreg ==
    \A w \in Workers : pc[w] = "call" /\ job[hand[w]].type # "GC" => unreg[job[hand[w]].who] = 0

(* A collection runs in the script the clock announced for it: main.c's    *)
(* comment "Gc one script per 256 seconds" and its trace line "Try to run  *)
(* gabbage collection on script %d" (_on_base_clock, _worker_on_poke).     *)
GcOnNamedScript ==
    \A w \in Workers : pc[w] = "call" /\ job[hand[w]].type = "GC" => job[hand[w]].who = w

(* Every client that disconnects is eventually unregistered.               *)
EventuallyUnregistered == \A c \in Conns : conn[c] = "closed" ~> unreg[c] > 0

(* The queue as its users see it: a worker has its answer from the moment  *)
(* pop_script_task has decided it to the moment the task is freed.         *)
Got(w) ==
    IF pc[w] = "unlock" /\ hand[w] = NULL THEN EMPTY
    ELSE IF Owns(w) THEN hand[w] ELSE NULL

Fifo == INSTANCE TaskFifo WITH
    queue <- fifo, got <- [w \in Workers |-> Got(w)], Nothing <- NULL, Empty <- EMPTY

(* The pointer queue implements the abstract one: tasks leave in the order *)
(* they entered, each to one worker, and NULL only from an empty queue.    *)
FifoSpec == Fifo!Spec

(* ... and whatever waits is taken and finished, provided that every poke  *)
(* is delivered and every worker has a script.                             *)
FifoFairness == Fifo!Fairness
=============================================================================
