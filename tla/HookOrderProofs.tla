--------------------------- MODULE HookOrderProofs ---------------------------
(***************************************************************************)
(* Proofs about the order in which ScriptQueue calls the hooks and runs    *)
(* the follow-ups, for any number of connections, slots and events.        *)
(*                                                                         *)
(* They rest on the invariant of ScriptQueueProofs: the list is a queue    *)
(* and each task is in one place.                                          *)
(***************************************************************************)
EXTENDS ScriptQueueProofs, ServedQueue

(* A slot whose follow_up has yet to run: from new_script_task until the   *)
(* worker that has it is past it.                                          *)
Due(t) ==
    /\ t \in used
    /\ follow_up[t] # NULL
    /\ \A w \in Workers : pc[w] = "free" => hand[w] # t

(* A client has one disconnect task, and is not yet unregistered as long   *)
(* as that task is due.                                                    *)
OnceInv ==
    /\ \A t, u \in Tasks : Due(t) /\ Due(u) /\ follow_up[t] = follow_up[u] => t = u
    /\ \A t \in Tasks : Due(t) => unreg[follow_up[t]] = 0
    /\ UnregOnce

LEMMA OnceInit == Init => OnceInv
BY DEF Init, OnceInv, Due, UnregOnce

(* Nothing becomes due and nothing runs. *)
LEMMA OnceKept ==
    ASSUME OnceInv, UNCHANGED unreg, used' \subseteq used,
           \A t \in used' : follow_up'[t] = follow_up[t],
           \A w \in Workers : pc[w] = "free" /\ hand[w] \in used' =>
                                pc'[w] = "free" /\ hand'[w] = hand[w]
    PROVE  OnceInv'
<1>1. ASSUME NEW t \in Tasks, Due(t)'
      PROVE  Due(t) /\ follow_up'[t] = follow_up[t]
  BY <1>1 DEF Due
<1>2. UnregOnce'
  BY DEF OnceInv, UnregOnce
<1>. QED  BY <1>1, <1>2 DEF OnceInv

(* The one event that makes a slot due is the first of its kind. *)
LEMMA SubmitOnce ==
    ASSUME IInv, OnceInv, PoolClears, NEW p \in Producers, NEW j, NEW f \in Conns \cup {NULL},
           pc[p] = "idle", Submit(p, j, f), f \in Conns => conn[f] # "closed"
    PROVE  OnceInv'
<1>. USE ThreadFacts
<1>t. /\ pc \in [Threads -> PCs]
      /\ hand \in [Threads -> Tasks \cup {NULL}]
      /\ follow_up \in [Tasks -> Conns \cup {NULL}]
      /\ unreg \in [Conns -> Nat]
  BY DEF IInv, TypeOK
<1>u. UNCHANGED unreg
  BY DEF Submit, effects
<1>1. CASE NewTask(p, j, f)
  <2>1. PICK t \in Tasks \ used :
          /\ used' = used \cup {t}
          /\ follow_up' = [follow_up EXCEPT ![t] = f]
          /\ hand' = [hand EXCEPT ![p] = t]
          /\ pc' = [pc EXCEPT ![p] = "select"]
    BY <1>t, <1>1 DEF NewTask, Goto
  <2>2. ASSUME NEW u \in Tasks, Due(u)'
        PROVE  \/ Due(u) /\ u # t /\ follow_up'[u] = follow_up[u]
               \/ u = t /\ follow_up'[u] = f /\ f # NULL
    BY <1>t, <2>1, <2>2 DEF Due
  <2>3. ASSUME NEW u \in Tasks, Due(u)
        PROVE  follow_up[u] # f
    BY <1>t, <2>3 DEF Due, IInv, FollowInv
  <2>4. f \in Conns => unreg[f] = 0
    BY <1>t DEF IInv, UnregAfterClose
  <2>5. UnregOnce'
    BY <1>u DEF OnceInv, UnregOnce
  <2>6. ASSUME NEW u \in Tasks, NEW v \in Tasks, Due(u)', Due(v)',
               follow_up'[u] = follow_up'[v]
        PROVE  u = v
    BY <2>2, <2>3, <2>6 DEF OnceInv
  <2>7. ASSUME NEW u \in Tasks, Due(u)'
        PROVE  unreg'[follow_up'[u]] = 0
    BY <1>u, <2>2, <2>4, <2>7 DEF OnceInv
  <2>. QED  BY <2>5, <2>6, <2>7 DEF OnceInv
<1>2. CASE NewTaskFails(p, j)
  <2>1. /\ UNCHANGED <<used, follow_up, hand>>
        /\ pc' \in {[pc EXCEPT ![p] = "segv"], [pc EXCEPT ![p] = "idle"]}
    BY <1>2 DEF NewTaskFails, Goto, slots
  <2>. QED  BY <1>t, <1>u, <2>1, OnceKept
<1>. QED  BY <1>1, <1>2 DEF Submit

LEMMA OnceStep == IInv /\ OnceInv /\ PoolClears /\ [Next]_vars => OnceInv'
<1>. SUFFICES ASSUME IInv, OnceInv, PoolClears, [Next]_vars
              PROVE  OnceInv'
  OBVIOUS
<1>. USE ThreadFacts
<1>t. /\ pc \in [Threads -> PCs]
      /\ hand \in [Threads -> Tasks \cup {NULL}]
      /\ follow_up \in [Tasks -> Conns \cup {NULL}]
      /\ unreg \in [Conns -> Nat]
  BY DEF IInv, TypeOK
<1>1. ASSUME NEW c \in Conns, NEW h, NEW j, NEW f \in Conns \cup {NULL}, Handle(c, h, j, f),
             f \in Conns => conn[f] # "closed"
      PROVE  OnceInv'
  <2>1. CASE h \in Hooks
    BY <1>1, <2>1, SubmitOnce DEF Handle
  <2>2. CASE h \notin Hooks
    BY <1>1, <2>2, OnceKept DEF Handle, slots, threads, effects
  <2>. QED  BY <2>1, <2>2
<1>2. ASSUME NEW c \in Conns, Event(c)
      PROVE  OnceInv'
  BY <1>1, <1>2 DEF Event, OnConnect, OnData, OnDisconnect
<1>3. CASE OnBaseClock
  BY <1>3, SubmitOnce DEF OnBaseClock
<1>4. ASSUME NEW w \in Workers, AfterDisconnectTask(w)
      PROVE  OnceInv'
  <2>. DEFINE t == hand[w]
              c == follow_up[t]
  <2>1. t \in Tasks /\ c \in Conns
    BY <1>t, <1>4 DEF AfterDisconnectTask, IInv, WorkerInv, FollowInv
  <2>2. HoldInv
    BY HoldIsOneHolder DEF IInv
  <2>3. Due(t)
    BY <1>t, <1>4, <2>1, <2>2 DEF AfterDisconnectTask, Due, HoldInv, Owns
  <2>4. unreg[c] = 0
    BY <2>1, <2>3 DEF OnceInv
  <2>5. unreg' = [unreg EXCEPT ![c] = 1]
    BY <2>4, <1>4 DEF AfterDisconnectTask
  <2>6. ASSUME NEW u \in Tasks, Due(u)'
        PROVE  Due(u) /\ u # t /\ follow_up'[u] = follow_up[u]
    BY <1>t, <1>4, <2>6 DEF AfterDisconnectTask, Due, Goto, slots
  <2>7. ASSUME NEW u \in Tasks, Due(u)'
        PROVE  unreg'[follow_up'[u]] = 0
    BY <1>t, <2>1, <2>3, <2>5, <2>6, <2>7 DEF OnceInv
  <2>8. UnregOnce'
    BY <1>t, <2>1, <2>5 DEF OnceInv, UnregOnce
  <2>. QED  BY <2>6, <2>7, <2>8 DEF OnceInv
<1>5. ASSUME NEW w \in Workers, DelTask(w)
      PROVE  OnceInv'
  BY <1>t, <1>5, OnceKept DEF DelTask, Goto, effects
<1>6. ASSUME UNCHANGED <<used, follow_up, unreg>>,
             \A w \in Workers : pc[w] = "free" => pc'[w] = "free" /\ hand'[w] = hand[w]
      PROVE  OnceInv'
  BY <1>6, OnceKept
<1>7. ASSUME NEW th \in Threads, Acquire(th) \/ Release(th)
      PROVE  OnceInv'
  BY <1>t, <1>6, <1>7 DEF Acquire, Release, Goto, slots, effects
<1>8. ASSUME NEW p \in Producers,
             SelectThread(p) \/ RefuseTask(p) \/ PushLink(p) \/ PushTail(p)
      PROVE  OnceInv'
  BY <1>t, <1>6, <1>8 DEF SelectThread, RefuseTask, PushLink, PushTail, Goto, slots, effects
<1>9. ASSUME NEW w \in Workers,
             WorkerOnPoke(w) \/ PopRead(w) \/ PopAdvance(w) \/ CallScript(w)
      PROVE  OnceInv'
  BY <1>t, <1>6, <1>9
     DEF WorkerOnPoke, PopRead, PopAdvance, CallScript, RunHook, Goto, slots, effects
<1>10. CASE UNCHANGED vars
  BY <1>6, <1>10 DEF vars
<1>11. CASE Quiescent
  BY <1>10, <1>11 DEF Quiescent
<1>. QED
  BY <1>2, <1>3, <1>4, <1>5, <1>7, <1>8, <1>9, <1>10, <1>11 DEF Next, Push, Work

(* _after_disconnect_task unregisters, and so frees, a client's session at *)
(* most once, for any number of workers, provided that                     *)
(* bsp_mempool_alloc clears what it hands out: new_script_task does not    *)
(* write follow_up.                                                        *)
THEOREM UnregOnceCorrect == Spec => [](PoolClears => UnregOnce)
<1>. DEFINE Inv == PoolClears => OnceInv
<1>1. Init => Inv
  BY OnceInit
<1>2. IInv /\ Inv /\ [Next]_vars => Inv'
  BY OnceStep
<1>3. Inv => (PoolClears => UnregOnce)
  BY DEF OnceInv
<1>. HIDE DEF Inv
<1>. QED  BY <1>1, <1>2, <1>3, Invariance, PTL DEF Spec
-----------------------------------------------------------------------------
(* One worker alone: the others have no script, or there are no others.    *)
Sole == \A v, w \in Scripted : v = w

BusyInv == \A w \in Workers : pc[w] # "idle" => w \in Scripted

LEMMA BusyInit == Init => BusyInv
BY ThreadFacts DEF Init, BusyInv

LEMMA BusyStep == IInv /\ BusyInv /\ [Next]_vars => BusyInv'
<1>. SUFFICES ASSUME IInv, BusyInv, [Next]_vars
              PROVE  BusyInv'
  OBVIOUS
<1>. USE ThreadFacts
<1>t. pc \in [Threads -> PCs]
  BY DEF IInv, TypeOK
<1>1. ASSUME NEW p \in Producers, EventOf(p)
      PROVE  BusyInv'
  BY <1>t, <1>1 DEF EventOf, Allocates, AllocatesNothing, BusyInv
<1>2. ASSUME NEW p \in Producers, SelectThread(p) \/ RefuseTask(p) \/ PushLink(p) \/ PushTail(p)
      PROVE  BusyInv'
  BY <1>t, <1>2 DEF SelectThread, RefuseTask, PushLink, PushTail, Goto, BusyInv
<1>3. ASSUME NEW th \in Threads, Acquire(th) \/ Release(th)
      PROVE  BusyInv'
  BY <1>t, <1>3 DEF Acquire, Release, Goto, BusyInv
<1>4. ASSUME NEW w \in Workers,
             \/ WorkerOnPoke(w) \/ PopRead(w) \/ PopAdvance(w)
             \/ CallScript(w) \/ AfterDisconnectTask(w) \/ DelTask(w)
      PROVE  BusyInv'
  BY <1>t, <1>4
     DEF WorkerOnPoke, PopRead, PopAdvance, CallScript, AfterDisconnectTask, DelTask, Goto, BusyInv
<1>5. CASE UNCHANGED vars
  BY <1>5 DEF vars, BusyInv
<1>. QED  BY <1>1, <1>2, <1>3, <1>4, <1>5, StepCases

(* Where the tasks are whose hook is still to be called. *)
Working == {t \in Tasks : \E w \in Workers : pc[w] \in {"unlock", "call"} /\ hand[w] = t}
Pushing == {t \in Tasks : \E p \in Producers : hand[p] = t}
Coming == Working \cup Waiting \cup Pushing

CallsHook(t) == job[t].type # "GC"

Before(t, u) ==
    CallsHook(t) /\ CallsHook(u) /\ job[t].who = job[u].who => job[t].no < job[u].no

(* From the hook called last to the event seen last, the numbers rise: the *)
(* worker's task, the queue from head to tail, the task being pushed.      *)
NumberInv ==
    /\ \A c \in Conns : ran[c] <= events[c]
    /\ \A t \in Coming : CallsHook(t) =>
        /\ job[t].who \in Conns
        /\ ran[job[t].who] < job[t].no
        /\ job[t].no <= events[job[t].who]

PushInv ==
    /\ \A c \in Conns : hand[c] # NULL =>
        /\ CallsHook(hand[c])
        /\ job[hand[c]].who = c
        /\ job[hand[c]].no = events[c]
    /\ hand[Boss] # NULL => ~CallsHook(hand[Boss])

LineInv ==
    /\ \A i, j \in Positions : i < j => Before(fifo[i], fifo[j])
    /\ \A t \in Working, u \in Waiting \cup Pushing : Before(t, u)
    /\ \A t \in Waiting, u \in Pushing : Before(t, u)

OrderInv == NumberInv /\ PushInv /\ LineInv

LEMMA OrderInit == Init => OrderInv
<1>. SUFFICES ASSUME Init
              PROVE  OrderInv
  OBVIOUS
<1>1. Working = {} /\ Pushing = {} /\ Waiting = {} /\ Positions = {}
  BY ThreadFacts DEF Init, Working, Pushing, Waiting, Positions
<1>. QED
  BY <1>1, ThreadFacts DEF Init, OrderInv, NumberInv, PushInv, LineInv, Coming

LEMMA NumberFacts ==
    ASSUME TypeOK
    PROVE  /\ \A t \in Tasks : job[t].no \in Nat
           /\ \A c \in Conns : ran[c] \in Nat /\ events[c] \in Nat
           /\ Coming \subseteq Tasks
           /\ \A i \in Positions : fifo[i] \in Waiting
           /\ \A i \in Positions : fifo[i] \in Tasks
BY DEF TypeOK, Job, Coming, Working, Pushing, Waiting, Positions

(* Nothing new is on its way. *)
LEMMA OrderKept ==
    ASSUME TypeOK, OrderInv, UNCHANGED <<job, ran, fifo>>,
           events' \in [Conns -> Nat],
           \A c \in Conns : events[c] <= events'[c],
           \A c \in Conns : hand'[c] # NULL => events'[c] = events[c],
           Working' \subseteq Working,
           \A p \in Producers : hand'[p] \in {hand[p], NULL}
    PROVE  OrderInv'
<1>1. Waiting' = Waiting /\ Positions' = Positions
  BY DEF Waiting, Positions
<1>2. Pushing' \subseteq Pushing
  BY ThreadFacts DEF Pushing
<1>3. Coming' \subseteq Coming
  BY <1>1, <1>2 DEF Coming
<1>4. PushInv'
  BY ThreadFacts DEF OrderInv, PushInv, CallsHook
<1>5. LineInv'
  BY <1>1, <1>2 DEF OrderInv, LineInv, Before, CallsHook
<1>6. (\A c \in Conns : ran[c] <= events[c])'
  BY NumberFacts DEF OrderInv, NumberInv
<1>7. ASSUME NEW t \in Coming', CallsHook(t)
      PROVE  /\ job[t].who \in Conns
             /\ ran[job[t].who] < job[t].no
             /\ job[t].no <= events'[job[t].who]
  BY <1>3, <1>7, NumberFacts DEF OrderInv, NumberInv
<1>8. NumberInv'
  BY <1>6, <1>7 DEF NumberInv, CallsHook
<1>. QED  BY <1>4, <1>5, <1>8 DEF OrderInv

(* A slot from the pool is on its way to no hook. *)
LEMMA FreshNotComing ==
    ASSUME IInv, NEW t \in Tasks \ used
    PROVE  t \notin Coming
<1>0. HoldInv
  BY HoldIsOneHolder DEF IInv
<1>1. t \notin Waiting
  BY <1>0 DEF HoldInv
<1>2. t \notin Working
  BY <1>0, ThreadFacts DEF Working, HoldInv, Owns
<1>3. t \notin Pushing
  BY <1>0, ThreadFacts DEF Pushing, HoldInv, Owns, IInv, ProducerInv, PushSteps
<1>. QED  BY <1>1, <1>2, <1>3 DEF Coming

(* A new task is the last of its connection's. *)
LEMMA SubmitOrder ==
    ASSUME IInv, OrderInv, NEW p \in Producers, NEW j \in Job, NEW f,
           pc[p] = "idle", Submit(p, j, f),
           p \in Conns => /\ j.type # "GC" /\ j.who = p /\ j.no = events[p] + 1
                          /\ events' = [events EXCEPT ![p] = @ + 1],
           p = Boss => j.type = "GC" /\ UNCHANGED events
    PROVE  OrderInv'
<1>. USE ThreadFacts
<1>t. /\ TypeOK
      /\ pc \in [Threads -> PCs]
      /\ hand \in [Threads -> Tasks \cup {NULL}]
      /\ events \in [Conns -> Nat]
      /\ job \in [Tasks -> Job]
  BY DEF IInv, TypeOK
<1>u. UNCHANGED <<ran, fifo>>
  BY DEF Submit, effects, list
<1>p. p \in Conns \/ p = Boss
  BY DEF Producers
<1>h. hand[p] = NULL
  BY DEF IInv, ProducerInv, PushSteps
<1>e. /\ events' \in [Conns -> Nat]
      /\ \A c \in Conns : events[c] <= events'[c]
      /\ \A c \in Conns \ {p} : events'[c] = events[c]
  BY <1>t, <1>p
<1>1. CASE NewTask(p, j, f)
  <2>1. PICK t \in Tasks \ used :
          /\ job' = [job EXCEPT ![t] = j]
          /\ hand' = [hand EXCEPT ![p] = t]
          /\ pc' = [pc EXCEPT ![p] = "select"]
    BY <1>1 DEF NewTask, Goto
  <2>2. t \notin Coming
    BY FreshNotComing
  <2>3. \A u \in Coming : job'[u] = job[u]
    BY <1>t, <2>1, <2>2, NumberFacts
  <2>4. job'[t] = j
    BY <1>t, <2>1
  <2>5. Waiting' = Waiting /\ Positions' = Positions
    BY <1>u DEF Waiting, Positions
  <2>6. Working' \subseteq Working
    BY <1>t, <2>1 DEF Working
  <2>7. Pushing' \subseteq Pushing \cup {t}
    BY <1>t, <2>1 DEF Pushing
  <2>8. Coming' \subseteq Coming \cup {t}
    BY <2>5, <2>6, <2>7 DEF Coming
  <2>9. ASSUME NEW u \in Coming, CallsHook(u), job[u].who = j.who, j.type # "GC"
        PROVE  job[u].no < j.no
    <3>1. p \in Conns /\ j.who = p /\ j.no = events[p] + 1
      BY <1>p, <2>9
    <3>2. job[u].no <= events[p]
      BY <2>9, <3>1 DEF OrderInv, NumberInv
    <3>. QED  BY <1>t, <3>1, <3>2, NumberFacts
  <2>10. PushInv'
    <3>1. ASSUME NEW c \in Conns, hand'[c] # NULL
          PROVE  /\ job'[hand'[c]].type # "GC"
                 /\ job'[hand'[c]].who = c
                 /\ job'[hand'[c]].no = events'[c]
      <4>1. CASE c = p
        BY <1>t, <2>1, <2>4, <4>1
      <4>2. CASE c # p
        <5>1. hand'[c] = hand[c] /\ hand[c] \in Coming
          BY <1>t, <2>1, <3>1, <4>2 DEF Coming, Pushing
        <5>. QED
          BY <1>e, <2>3, <3>1, <4>2, <5>1 DEF OrderInv, PushInv, CallsHook
      <4>. QED  BY <4>1, <4>2
    <3>2. ASSUME hand'[Boss] # NULL
          PROVE  job'[hand'[Boss]].type = "GC"
      <4>1. CASE p = Boss
        BY <1>t, <2>1, <2>4, <4>1
      <4>2. CASE p # Boss
        <5>1. hand'[Boss] = hand[Boss] /\ hand[Boss] \in Coming
          BY <1>t, <2>1, <3>2, <4>2 DEF Coming, Pushing
        <5>. QED  BY <2>3, <3>2, <5>1 DEF OrderInv, PushInv, CallsHook
      <4>. QED  BY <4>1, <4>2
    <3>. QED  BY <3>1, <3>2 DEF PushInv, CallsHook
  <2>11. LineInv'
    <3>1. ASSUME NEW u \in Coming, NEW v \in Coming, Before(u, v)
          PROVE  Before(u, v)'
      BY <2>3, <3>1 DEF Before, CallsHook
    <3>2. ASSUME NEW u \in Coming
          PROVE  Before(u, t)'
      BY <2>3, <2>4, <2>9 DEF Before, CallsHook
    <3>3. \A a, b \in Positions : a < b => Before(fifo[a], fifo[b])'
      BY <1>t, <1>u, <3>1, NumberFacts DEF OrderInv, LineInv, Coming
    <3>4. \A u \in Working', v \in Waiting \cup Pushing' : Before(u, v)'
      BY <2>6, <2>7, <3>1, <3>2 DEF OrderInv, LineInv, Coming
    <3>5. \A u \in Waiting, v \in Pushing' : Before(u, v)'
      BY <2>7, <3>1, <3>2 DEF OrderInv, LineInv, Coming
    <3>. QED  BY <1>u, <2>5, <3>3, <3>4, <3>5 DEF LineInv
  <2>12. (\A c \in Conns : ran[c] <= events[c])'
    BY <1>t, <1>u, <1>e, NumberFacts DEF OrderInv, NumberInv
  <2>13. ASSUME NEW u \in Coming', job'[u].type # "GC"
         PROVE  /\ job'[u].who \in Conns
                /\ ran'[job'[u].who] < job'[u].no
                /\ job'[u].no <= events'[job'[u].who]
    <3>1. CASE u = t
      <4>1. /\ p \in Conns /\ j.who = p /\ j.no = events[p] + 1
            /\ events'[p] = events[p] + 1
        BY <1>t, <1>p, <2>4, <2>13, <3>1
      <4>2. ran[p] <= events[p]
        BY <4>1 DEF OrderInv, NumberInv
      <4>. QED  BY <1>t, <1>u, <2>4, <3>1, <4>1, <4>2, NumberFacts
    <3>2. CASE u # t
      <4>1. u \in Coming /\ job'[u] = job[u]
        BY <2>3, <2>8, <3>2
      <4>. QED
        BY <1>t, <1>u, <1>e, <2>13, <4>1, NumberFacts DEF OrderInv, NumberInv, CallsHook
    <3>. QED  BY <3>1, <3>2
  <2>14. NumberInv'
    BY <2>12, <2>13 DEF NumberInv, CallsHook
  <2>. QED  BY <2>10, <2>11, <2>14 DEF OrderInv
<1>2. CASE NewTaskFails(p, j)
  <2>1. /\ UNCHANGED <<job, hand>>
        /\ pc' \in {[pc EXCEPT ![p] = "segv"], [pc EXCEPT ![p] = "idle"]}
    BY <1>2 DEF NewTaskFails, Goto, slots
  <2>2. Working' \subseteq Working
    BY <1>t, <2>1 DEF Working
  <2>. QED  BY <1>t, <1>u, <1>h, <1>e, <2>1, <2>2, OrderKept
<1>. QED  BY <1>1, <1>2 DEF Submit

LEMMA TailOrder ==
    ASSUME IInv, OrderInv, NEW p \in Producers, PushTail(p)
    PROVE  OrderInv'
<1>. USE ThreadFacts
<1>t. /\ TypeOK
      /\ pc \in [Threads -> PCs]
      /\ hand \in [Threads -> Tasks \cup {NULL}]
      /\ fifo \in Seq(Tasks)
  BY DEF IInv, TypeOK
<1>. DEFINE t == hand[p]
<1>1. /\ fifo' = Append(fifo, t)
      /\ hand' = [hand EXCEPT ![p] = NULL]
      /\ pc' = [pc EXCEPT ![p] = "unlock"]
      /\ UNCHANGED <<job, events, ran>>
      /\ pc[p] = "append"
  BY DEF PushTail, Goto, outside, slots, effects
<1>2. t \in Tasks /\ t \in Pushing
  BY <1>t, <1>1 DEF IInv, ProducerInv, PushSteps, Pushing
<1>3. /\ Waiting' = Waiting \cup {t}
      /\ Positions' = Positions \cup {Len(fifo) + 1}
      /\ \A i \in Positions : fifo'[i] = fifo[i] /\ i < Len(fifo) + 1
      /\ fifo'[Len(fifo) + 1] = t
      /\ Len(fifo) \in Nat
  <2>1. /\ Len(fifo') = Len(fifo) + 1
        /\ Len(fifo) \in Nat
        /\ fifo'[Len(fifo) + 1] = t
        /\ \A i \in 1..Len(fifo) : fifo'[i] = fifo[i]
    BY <1>t, <1>1, <1>2, AppendFacts
  <2>2. Positions' = Positions \cup {Len(fifo) + 1}
    BY <2>1 DEF Positions
  <2>3. \A i \in Positions : fifo'[i] = fifo[i] /\ i < Len(fifo) + 1
    BY <2>1 DEF Positions
  <2>4. Waiting' = Waiting \cup {t}
    BY <2>1, <2>2, <2>3 DEF Waiting
  <2>. QED  BY <2>1, <2>2, <2>3, <2>4
<1>4. Working' \subseteq Working
  BY <1>t, <1>1 DEF Working
<1>5. Pushing' \subseteq Pushing
  BY <1>t, <1>1 DEF Pushing
<1>6. Coming' \subseteq Coming
  BY <1>2, <1>3, <1>4, <1>5 DEF Coming
<1>7. PushInv'
  BY <1>t, <1>1 DEF OrderInv, PushInv, CallsHook
<1>8. NumberInv'
  BY <1>1, <1>6 DEF OrderInv, NumberInv, CallsHook
<1>9. ASSUME NEW v \in Pushing'
      PROVE  Before(t, v)
  <2>1. PICK d \in Producers \ {p} : hand[d] = v
    BY <1>t, <1>1 DEF Pushing
  <2>2. t # NULL /\ v # NULL
    BY <1>2 DEF Pushing
  <2>3. CASE p \in Conns /\ d \in Conns
    BY <2>1, <2>2, <2>3 DEF OrderInv, PushInv, Before
  <2>4. CASE p = Boss \/ d = Boss
    BY <2>1, <2>2, <2>4 DEF OrderInv, PushInv, Before
  <2>. QED  BY <2>3, <2>4 DEF Producers
<1>10. LineInv'
  <2>1. \A u, v : Before(u, v)' <=> Before(u, v)
    BY <1>1 DEF Before, CallsHook
  <2>2. ASSUME NEW a \in Positions', NEW b \in Positions', a < b
        PROVE  Before(fifo'[a], fifo'[b])
    <3>1. a \in Positions
      BY <1>3, <2>2 DEF Positions
    <3>2. CASE b \in Positions
      BY <1>3, <2>2, <3>1, <3>2 DEF OrderInv, LineInv
    <3>3. CASE b = Len(fifo) + 1
      BY <1>2, <1>3, <1>t, <3>1, <3>3, NumberFacts DEF OrderInv, LineInv
    <3>. QED  BY <1>3, <3>2, <3>3
  <2>3. \A u \in Working', v \in Waiting' \cup Pushing' : Before(u, v)
    BY <1>2, <1>3, <1>4, <1>5 DEF OrderInv, LineInv
  <2>4. \A u \in Waiting', v \in Pushing' : Before(u, v)
    BY <1>3, <1>5, <1>9 DEF OrderInv, LineInv
  <2>. QED  BY <2>1, <2>2, <2>3, <2>4 DEF LineInv
<1>. QED  BY <1>7, <1>8, <1>10 DEF OrderInv

(* One worker alone has at most one task. *)
OneBusy == \A v, w \in Workers : pc[v] # "idle" /\ pc[w] # "idle" => v = w

LEMMA SoleWorker ==
    ASSUME OneBusy, NEW v \in Workers, NEW w \in Workers, pc[v] # "idle", pc[w] # "idle"
    PROVE  v = w
BY DEF OneBusy

LEMMA AdvanceOrder ==
    ASSUME IInv, OneBusy, OrderInv, NEW w \in Workers, PopAdvance(w)
    PROVE  OrderInv'
<1>. USE ThreadFacts
<1>t. /\ TypeOK
      /\ pc \in [Threads -> PCs]
      /\ hand \in [Threads -> Tasks \cup {NULL}]
      /\ fifo \in Seq(Tasks)
  BY DEF IInv, TypeOK
<1>1. /\ fifo' = IF fifo = <<>> THEN fifo ELSE Tail(fifo)
      /\ pc' = [pc EXCEPT ![w] = "unlock"]
      /\ pc[w] = "advance"
      /\ UNCHANGED <<job, events, ran, hand>>
  BY DEF PopAdvance, Goto, outside, slots, effects
<1>2. fifo # <<>> /\ hand[w] = fifo[1]
  BY <1>1 DEF IInv, ListInv
<1>3. /\ Len(fifo) \in Nat \ {0}
      /\ 1 \in Positions
      /\ Positions' = 1..(Len(fifo) - 1)
      /\ \A i \in Positions' : i + 1 \in Positions /\ fifo'[i] = fifo[i + 1]
  BY <1>t, <1>1, <1>2, EmptySeq DEF Positions
<1>4. \A u \in Waiting' : \E i \in Positions : 1 < i /\ u = fifo[i]
  BY <1>3 DEF Waiting
<1>5. Waiting' \subseteq Waiting
  BY <1>4 DEF Waiting
<1>6. Working' \subseteq {hand[w]}
  BY <1>t, <1>1, SoleWorker DEF Working
<1>7. Pushing' = Pushing
  BY <1>1 DEF Pushing
<1>8. hand[w] \in Waiting
  BY <1>2, <1>3 DEF Waiting
<1>9. Coming' \subseteq Coming
  BY <1>5, <1>6, <1>7, <1>8 DEF Coming
<1>10. PushInv'
  BY <1>1 DEF OrderInv, PushInv, CallsHook
<1>11. NumberInv'
  BY <1>1, <1>9 DEF OrderInv, NumberInv, CallsHook
<1>12. LineInv'
  <2>1. \A u, v : Before(u, v)' <=> Before(u, v)
    BY <1>1 DEF Before, CallsHook
  <2>2. ASSUME NEW a \in Positions', NEW b \in Positions', a < b
        PROVE  Before(fifo'[a], fifo'[b])
    <3>1. a + 1 \in Positions /\ b + 1 \in Positions /\ a + 1 < b + 1
      BY <1>3, <2>2 DEF Positions
    <3>2. fifo'[a] = fifo[a + 1] /\ fifo'[b] = fifo[b + 1]
      BY <1>3
    <3>. QED  BY <3>1, <3>2 DEF OrderInv, LineInv
  <2>3. \A v \in Waiting' : Before(hand[w], v)
    BY <1>2, <1>3, <1>4 DEF OrderInv, LineInv
  <2>4. \A v \in Pushing' : Before(hand[w], v)
    BY <1>7, <1>8 DEF OrderInv, LineInv
  <2>5. \A u \in Waiting', v \in Pushing' : Before(u, v)
    BY <1>5, <1>7 DEF OrderInv, LineInv
  <2>. QED  BY <1>6, <2>1, <2>2, <2>3, <2>4, <2>5 DEF LineInv
<1>. QED  BY <1>10, <1>11, <1>12 DEF OrderInv

LEMMA CallOrder ==
    ASSUME IInv, OneBusy, OrderInv, NEW w \in Workers, CallScript(w)
    PROVE  OrderInv'
<1>. USE ThreadFacts
<1>t. /\ TypeOK
      /\ pc \in [Threads -> PCs]
      /\ hand \in [Threads -> Tasks \cup {NULL}]
      /\ events \in [Conns -> Nat]
      /\ ran \in [Conns -> Nat]
  BY DEF IInv, TypeOK
<1>. DEFINE t == hand[w]
<1>1. /\ pc[w] = "call"
      /\ pc' \in {[pc EXCEPT ![w] = "free"], [pc EXCEPT ![w] = "follow"]}
      /\ UNCHANGED <<job, events, fifo, hand>>
  BY DEF CallScript, Goto, outside, slots, list
<1>2. Working' = {}
  BY <1>t, <1>1, SoleWorker DEF Working
<1>3. t \in Tasks /\ t \in Working
  BY <1>t, <1>1 DEF IInv, WorkerInv, Working
<1>4. CASE ~CallsHook(t)
  <2>1. UNCHANGED ran
    BY <1>4 DEF CallScript, CallsHook
  <2>. QED  BY <1>t, <1>1, <1>2, <2>1, OrderKept
<1>5. CASE CallsHook(t)
  <2>. DEFINE c == job[t].who
  <2>1. c \in Conns /\ ran[c] < job[t].no /\ job[t].no <= events[c]
    BY <1>3, <1>5 DEF OrderInv, NumberInv, Coming
  <2>2. ran' = [ran EXCEPT ![c] = job[t].no]
    BY <1>5 DEF CallScript, RunHook, CallsHook
  <2>3. Waiting' = Waiting /\ Positions' = Positions /\ Pushing' = Pushing
    BY <1>1 DEF Waiting, Positions, Pushing
  <2>4. PushInv'
    BY <1>1 DEF OrderInv, PushInv, CallsHook
  <2>5. LineInv'
    BY <1>1, <1>2, <2>3 DEF OrderInv, LineInv, Before, CallsHook
  <2>6. (\A d \in Conns : ran[d] <= events[d])'
    BY <1>t, <1>1, <2>1, <2>2 DEF OrderInv, NumberInv
  <2>7. ASSUME NEW u \in Coming', CallsHook(u)
        PROVE  /\ job[u].who \in Conns
               /\ ran'[job[u].who] < job[u].no
               /\ job[u].no <= events[job[u].who]
    <3>1. u \in Waiting \cup Pushing /\ u \in Coming
      BY <1>2, <2>3 DEF Coming
    <3>2. job[u].who = c => job[t].no < job[u].no
      BY <1>3, <1>5, <2>7, <3>1 DEF OrderInv, LineInv, Before
    <3>. QED  BY <1>t, <2>1, <2>2, <2>7, <3>1, <3>2 DEF OrderInv, NumberInv
  <2>8. NumberInv'
    BY <1>1, <2>6, <2>7 DEF NumberInv, CallsHook
  <2>. QED  BY <2>4, <2>5, <2>8 DEF OrderInv
<1>. QED  BY <1>4, <1>5

LEMMA EventOrder ==
    ASSUME IInv, OrderInv, (\E c \in Conns : Event(c)) \/ OnBaseClock
    PROVE  OrderInv'
<1>. USE ThreadFacts
<1>t. /\ TypeOK
      /\ pc \in [Threads -> PCs]
      /\ hand \in [Threads -> Tasks \cup {NULL}]
      /\ events \in [Conns -> Nat]
  BY DEF IInv, TypeOK
<1>1. ASSUME NEW c \in Conns, NEW h, NEW k \in {"CTL", "DATA"}, NEW f,
             Handle(c, h, [type |-> k, who |-> c, no |-> events[c] + 1], f)
      PROVE  OrderInv'
  <2>. DEFINE j == [type |-> k, who |-> c, no |-> events[c] + 1]
  <2>1. j \in Job /\ j.type # "GC" /\ j.who = c /\ j.no = events[c] + 1
    BY <1>t DEF Job
  <2>2. pc[c] = "idle" /\ events' = [events EXCEPT ![c] = @ + 1]
    BY <1>1 DEF Handle
  <2>3. c # Boss
    BY ScriptQueueAssumption
  <2>4. CASE h \in Hooks
    <3>1. Submit(c, j, f)
      BY <1>1, <2>4 DEF Handle
    <3>. HIDE DEF j
    <3>. QED  BY <2>1, <2>2, <2>3, <3>1, SubmitOrder
  <2>5. CASE h \notin Hooks
    <3>1. UNCHANGED <<job, ran, fifo, hand, pc>>
      BY <1>1, <2>5 DEF Handle, slots, list, threads, effects
    <3>2. hand[c] = NULL
      BY <2>2 DEF IInv, ProducerInv, PushSteps
    <3>3. Working' = Working
      BY <3>1 DEF Working
    <3>. QED  BY <1>t, <2>2, <3>1, <3>2, <3>3, OrderKept
  <2>. QED  BY <2>4, <2>5
<1>2. ASSUME NEW c \in Conns, Event(c)
      PROVE  OrderInv'
  BY <1>1, <1>2 DEF Event, OnConnect, OnData, OnDisconnect
<1>3. CASE OnBaseClock
  <2>. DEFINE j == [type |-> "GC", who |-> ticks % NumWorkers, no |-> ticks + 1]
  <2>1. ticks % NumWorkers \in Workers
    BY ModFacts, ScriptQueueAssumption DEF IInv, TypeOK, Workers
  <2>2. j \in Job /\ j.type = "GC"
    BY <2>1 DEF IInv, TypeOK, Job
  <2>3. Submit(Boss, j, NULL) /\ pc[Boss] = "idle" /\ UNCHANGED events
    BY <1>3 DEF OnBaseClock
  <2>4. Boss \notin Conns
    BY ScriptQueueAssumption
  <2>. HIDE DEF j
  <2>. QED  BY <2>2, <2>3, <2>4, SubmitOrder
<1>. QED  BY <1>2, <1>3

LEMMA OrderStep == IInv /\ OneBusy /\ OrderInv /\ [Next]_vars => OrderInv'
<1>. SUFFICES ASSUME IInv, OneBusy, OrderInv, [Next]_vars
              PROVE  OrderInv'
  OBVIOUS
<1>. USE ThreadFacts
<1>t. /\ TypeOK
      /\ pc \in [Threads -> PCs]
      /\ hand \in [Threads -> Tasks \cup {NULL}]
      /\ events \in [Conns -> Nat]
  BY DEF IInv, TypeOK
<1>0. \A c \in Conns : events[c] \in Nat
  BY <1>t
<1>1. ASSUME UNCHANGED <<job, ran, fifo, events>>, Working' \subseteq Working,
             \A p \in Producers : hand'[p] \in {hand[p], NULL}
      PROVE  OrderInv'
  BY <1>t, <1>0, <1>1, OrderKept
<1>2. ASSUME NEW p \in Producers, SelectThread(p) \/ RefuseTask(p) \/ PushLink(p)
      PROVE  OrderInv'
  <2>1. /\ UNCHANGED <<job, ran, fifo, events>>
        /\ hand' \in {hand, [hand EXCEPT ![p] = NULL]}
        /\ \A w \in Workers : pc'[w] = pc[w]
    BY <1>t, <1>2 DEF SelectThread, RefuseTask, PushLink, Goto, outside, slots, list, effects
  <2>2. Working' \subseteq Working
    BY <1>t, <2>1 DEF Working
  <2>. QED  BY <1>t, <1>1, <2>1, <2>2
<1>3. ASSUME NEW th \in Threads, Acquire(th) \/ Release(th)
      PROVE  OrderInv'
  <2>1. /\ UNCHANGED <<job, ran, fifo, events, hand>>
        /\ \A w \in Workers : pc'[w] \in {"unlock", "call"} => pc[w] \in {"unlock", "call"}
    BY <1>t, <1>3 DEF Acquire, Release, Goto, outside, slots, list, effects
  <2>2. Working' \subseteq Working
    BY <2>1 DEF Working
  <2>. QED  BY <1>1, <2>1, <2>2
<1>4. ASSUME NEW w \in Workers,
             WorkerOnPoke(w) \/ PopRead(w) \/ AfterDisconnectTask(w) \/ DelTask(w)
      PROVE  OrderInv'
  <2>1. /\ UNCHANGED <<job, ran, fifo, events>>
        /\ \A p \in Producers : hand'[p] = hand[p]
        /\ \A v \in Workers : pc'[v] \in {"unlock", "call"} =>
               hand'[v] = NULL \/ (pc'[v] = pc[v] /\ hand'[v] = hand[v])
    BY <1>t, <1>4
       DEF WorkerOnPoke, PopRead, AfterDisconnectTask, DelTask, Goto, outside, slots, list,
           effects, IInv, TypeOK
  <2>2. Working' \subseteq Working
    BY <2>1 DEF Working
  <2>. QED  BY <1>1, <2>1, <2>2
<1>5. CASE UNCHANGED vars
  <2>1. Working' = Working
    BY <1>5 DEF vars, Working
  <2>. QED  BY <1>1, <1>5, <2>1 DEF vars
<1>6. CASE Quiescent
  BY <1>5, <1>6 DEF Quiescent
<1>7. CASE (\E c \in Conns : Event(c)) \/ OnBaseClock
  BY <1>7, EventOrder
<1>. QED
  BY <1>2, <1>3, <1>4, <1>5, <1>6, <1>7, TailOrder, AdvanceOrder, CallOrder
     DEF Next, Push, Work
-----------------------------------------------------------------------------
(* A disconnect task carries the number of its connection's last event, so *)
(* once its hook has been called no other hook of that connection is left. *)
LastInv ==
    /\ \A t \in used : follow_up[t] # NULL =>
        job[t].who = follow_up[t] /\ job[t].no = events[follow_up[t]]
    /\ \A w \in Workers : pc[w] = "follow" =>
        ran[follow_up[hand[w]]] = events[follow_up[hand[w]]]
    /\ \A c \in Conns : unreg[c] > 0 => ran[c] = events[c]

LEMMA LastInit == Init => LastInv
BY ThreadFacts DEF Init, LastInv

(* The task a worker runs is allocated. *)
LEMMA RunningUsed ==
    ASSUME IInv, NEW w \in Workers, pc[w] \in {"call", "follow", "free"}
    PROVE  hand[w] \in used /\ hand[w] \in Tasks
<1>1. HoldInv
  BY HoldIsOneHolder DEF IInv
<1>2. hand[w] # NULL
  BY DEF IInv, WorkerInv
<1>. QED  BY <1>1, <1>2, ThreadFacts DEF HoldInv, Owns, IInv, TypeOK

LEMMA LastKept ==
    ASSUME LastInv, UNCHANGED <<events, job, follow_up, unreg, ran>>, used' \subseteq used,
           \A w \in Workers : pc'[w] = "follow" => pc[w] = "follow" /\ hand'[w] = hand[w]
    PROVE  LastInv'
BY DEF LastInv

LEMMA SubmitLast ==
    ASSUME IInv, LastInv, PoolClears, NEW p \in Producers, NEW j, NEW f \in Conns \cup {NULL},
           pc[p] = "idle", Submit(p, j, f),
           f \in Conns => j.who = f /\ j.no = events'[f],
           \A c \in Conns : conn[c] = "closed" => events'[c] = events[c]
    PROVE  LastInv'
<1>. USE ThreadFacts
<1>t. /\ pc \in [Threads -> PCs]
      /\ hand \in [Threads -> Tasks \cup {NULL}]
      /\ follow_up \in [Tasks -> Conns \cup {NULL}]
      /\ job \in [Tasks -> Job]
      /\ used \subseteq Tasks
  BY DEF IInv, TypeOK
<1>u. UNCHANGED <<ran, unreg>>
  BY DEF Submit, effects
<1>c. \A t \in used : follow_up[t] # NULL =>
          follow_up[t] \in Conns /\ events'[follow_up[t]] = events[follow_up[t]]
  BY <1>t DEF IInv, FollowInv
<1>1. (\A c \in Conns : unreg[c] > 0 => ran[c] = events[c])'
  BY <1>u DEF LastInv, IInv, UnregAfterClose
<1>2. ASSUME UNCHANGED follow_up \/ NewTask(p, j, f), UNCHANGED job \/ NewTask(p, j, f),
             NEW w \in Workers, pc'[w] = "follow", pc[w] = "follow", hand'[w] = hand[w]
      PROVE  ran'[follow_up'[hand'[w]]] = events'[follow_up'[hand'[w]]]
  <2>1. hand[w] \in used /\ follow_up[hand[w]] # NULL
    BY <1>2, RunningUsed DEF IInv, FollowInv
  <2>2. follow_up'[hand[w]] = follow_up[hand[w]]
    BY <1>t, <1>2, <2>1 DEF NewTask
  <2>. QED  BY <1>u, <1>c, <1>2, <2>1, <2>2 DEF LastInv
<1>3. CASE NewTask(p, j, f)
  <2>1. PICK t \in Tasks \ used :
          /\ used' = used \cup {t}
          /\ follow_up' = [follow_up EXCEPT ![t] = f]
          /\ job' = [job EXCEPT ![t] = j]
          /\ hand' = [hand EXCEPT ![p] = t]
          /\ pc' = [pc EXCEPT ![p] = "select"]
    BY <1>t, <1>3 DEF NewTask, Goto
  <2>2. ASSUME NEW u \in used', follow_up'[u] # NULL
        PROVE  job'[u].who = follow_up'[u] /\ job'[u].no = events'[follow_up'[u]]
    <3>1. CASE u = t
      BY <1>t, <2>1, <2>2, <3>1
    <3>2. CASE u # t
      <4>1. u \in used /\ follow_up'[u] = follow_up[u] /\ job'[u] = job[u]
        BY <1>t, <2>1, <3>2
      <4>. QED  BY <1>c, <2>2, <4>1 DEF LastInv
    <3>. QED  BY <3>1, <3>2
  <2>3. \A w \in Workers : pc'[w] = "follow" => pc[w] = "follow" /\ hand'[w] = hand[w]
    BY <1>t, <2>1
  <2>. QED  BY <1>1, <1>2, <1>3, <2>2, <2>3 DEF LastInv
<1>4. CASE NewTaskFails(p, j)
  <2>1. /\ UNCHANGED <<used, follow_up, job, hand>>
        /\ \A w \in Workers : pc'[w] = pc[w]
    BY <1>t, <1>4 DEF NewTaskFails, Goto, slots
  <2>. QED  BY <1>1, <1>2, <1>c, <2>1 DEF LastInv
<1>. QED  BY <1>3, <1>4 DEF Submit

LEMMA CallLast ==
    ASSUME IInv, OneBusy, OrderInv, LastInv, NEW w \in Workers, CallScript(w)
    PROVE  LastInv'
<1>. USE ThreadFacts
<1>t. /\ pc \in [Threads -> PCs]
      /\ hand \in [Threads -> Tasks \cup {NULL}]
      /\ follow_up \in [Tasks -> Conns \cup {NULL}]
      /\ ran \in [Conns -> Nat]
      /\ events \in [Conns -> Nat]
  BY DEF IInv, TypeOK
<1>. DEFINE t == hand[w]
            c == job[t].who
<1>1. /\ pc[w] = "call"
      /\ UNCHANGED <<used, job, follow_up, events, hand, unreg>>
  BY DEF CallScript, outside, slots
<1>2. t \in used /\ t \in Tasks
  BY <1>1, RunningUsed
<1>3. CASE ~CallsHook(t)
  <2>1. UNCHANGED ran /\ pc' = [pc EXCEPT ![w] = "free"]
    BY <1>3 DEF CallScript, CallsHook, Goto
  <2>. QED  BY <1>t, <1>1, <2>1, LastKept
<1>4. CASE CallsHook(t)
  <2>1. /\ ran' = [ran EXCEPT ![c] = job[t].no]
        /\ pc' = [pc EXCEPT ![w] = IF follow_up[t] = NULL THEN "free" ELSE "follow"]
    BY <1>4 DEF CallScript, RunHook, CallsHook, Goto
  <2>2. t \in Coming
    BY <1>1, <1>2 DEF Coming, Working
  <2>3. c \in Conns /\ ran[c] < job[t].no /\ job[t].no <= events[c] /\ job[t].no \in Nat
    BY <1>4, <1>2, <2>2, NumberFacts DEF OrderInv, NumberInv, IInv
  <2>4. ASSUME NEW v \in Workers, pc'[v] = "follow"
        PROVE  ran'[follow_up'[hand'[v]]] = events'[follow_up'[hand'[v]]]
    <3>1. v = w
      BY <1>t, <1>1, <2>1, <2>4, SoleWorker
    <3>2. follow_up[t] # NULL
      BY <1>t, <2>1, <2>4, <3>1
    <3>3. c = follow_up[t] /\ job[t].no = events[c]
      BY <1>2, <3>2 DEF LastInv
    <3>. QED  BY <1>t, <1>1, <2>1, <2>3, <3>1, <3>3
  <2>5. ASSUME NEW d \in Conns, unreg[d] > 0
        PROVE  ran'[d] = events[d]
    <3>1. ran[d] = events[d]
      BY <2>5 DEF LastInv
    <3>2. d # c
      BY <1>t, <2>3, <3>1
    <3>. QED  BY <1>t, <2>1, <2>3, <3>1, <3>2
  <2>. QED  BY <1>1, <2>4, <2>5 DEF LastInv
<1>. QED  BY <1>3, <1>4

LEMMA LastStep ==
    IInv /\ OneBusy /\ OrderInv /\ LastInv /\ PoolClears /\ [Next]_vars => LastInv'
<1>. SUFFICES ASSUME IInv, OneBusy, OrderInv, LastInv, PoolClears, [Next]_vars
              PROVE  LastInv'
  OBVIOUS
<1>. USE ThreadFacts
<1>t. /\ pc \in [Threads -> PCs]
      /\ hand \in [Threads -> Tasks \cup {NULL}]
      /\ follow_up \in [Tasks -> Conns \cup {NULL}]
      /\ unreg \in [Conns -> Nat]
      /\ events \in [Conns -> Nat]
  BY DEF IInv, TypeOK
<1>1. ASSUME NEW c \in Conns, NEW h, NEW k \in {"CTL", "DATA"}, NEW f \in {NULL, c},
             Handle(c, h, [type |-> k, who |-> c, no |-> events[c] + 1], f), conn[c] # "closed"
      PROVE  LastInv'
  <2>. DEFINE j == [type |-> k, who |-> c, no |-> events[c] + 1]
  <2>1. j.who = c /\ j.no = events[c] + 1
    OBVIOUS
  <2>2. pc[c] = "idle" /\ events' = [events EXCEPT ![c] = @ + 1]
    BY <1>1 DEF Handle
  <2>3. /\ \A d \in Conns : conn[d] = "closed" => events'[d] = events[d]
        /\ events'[c] = events[c] + 1
    BY <1>t, <1>1, <2>2
  <2>4. CASE h \in Hooks
    <3>1. Submit(c, j, f)
      BY <1>1, <2>4 DEF Handle
    <3>. HIDE DEF j
    <3>. QED  BY <2>1, <2>2, <2>3, <3>1, SubmitLast
  <2>5. CASE h \notin Hooks
    <3>1. UNCHANGED <<used, job, follow_up, unreg, ran, hand, pc>>
      BY <1>1, <2>5 DEF Handle, slots, threads, effects
    <3>2. \A d \in Conns : unreg[d] > 0 => events'[d] = events[d]
      BY <2>3 DEF IInv, UnregAfterClose
    <3>3. \A t \in used : follow_up[t] # NULL => events'[follow_up[t]] = events[follow_up[t]]
      BY <1>t, <2>3 DEF IInv, TypeOK, FollowInv
    <3>4. \A w \in Workers : pc[w] = "follow" =>
             hand[w] \in used /\ follow_up[hand[w]] # NULL
      BY RunningUsed DEF IInv, FollowInv
    <3>. QED  BY <3>1, <3>2, <3>3, <3>4 DEF LastInv
  <2>. QED  BY <2>4, <2>5
<1>2. ASSUME NEW c \in Conns, Event(c)
      PROVE  LastInv'
  BY <1>1, <1>2 DEF Event, OnConnect, OnData, OnDisconnect
<1>3. CASE OnBaseClock
  BY <1>3, SubmitLast DEF OnBaseClock
<1>4. ASSUME NEW w \in Workers, AfterDisconnectTask(w)
      PROVE  LastInv'
  <2>. DEFINE f == follow_up[hand[w]]
  <2>1. /\ f \in Conns /\ ran[f] = events[f]
        /\ unreg' = [unreg EXCEPT ![f] = @ + 1]
        /\ pc' = [pc EXCEPT ![w] = "free"]
        /\ UNCHANGED <<used, job, follow_up, events, hand, ran>>
    BY <1>t, <1>4, RunningUsed
       DEF AfterDisconnectTask, Goto, outside, slots, LastInv, IInv, FollowInv
  <2>2. \A c \in Conns : unreg'[c] > 0 => c = f \/ unreg[c] > 0
    BY <1>t, <2>1
  <2>. QED  BY <1>t, <2>1, <2>2 DEF LastInv
<1>5. ASSUME UNCHANGED <<events, job, follow_up, unreg, ran>>, used' \subseteq used,
             \A w \in Workers : pc'[w] = "follow" => pc[w] = "follow" /\ hand'[w] = hand[w]
      PROVE  LastInv'
  BY <1>5, LastKept
<1>6. ASSUME NEW th \in Threads, Acquire(th) \/ Release(th)
      PROVE  LastInv'
  BY <1>t, <1>5, <1>6 DEF Acquire, Release, Goto, outside, slots, effects
<1>7. ASSUME NEW p \in Producers, SelectThread(p) \/ RefuseTask(p) \/ PushLink(p) \/ PushTail(p)
      PROVE  LastInv'
  BY <1>t, <1>5, <1>7
     DEF SelectThread, RefuseTask, PushLink, PushTail, Goto, outside, slots, effects
<1>8. ASSUME NEW w \in Workers, WorkerOnPoke(w) \/ PopRead(w) \/ PopAdvance(w) \/ DelTask(w)
      PROVE  LastInv'
  BY <1>t, <1>5, <1>8
     DEF WorkerOnPoke, PopRead, PopAdvance, DelTask, Goto, outside, slots, effects
<1>9. CASE UNCHANGED vars
  BY <1>5, <1>9 DEF vars
<1>10. CASE Quiescent
  BY <1>9, <1>10 DEF Quiescent
<1>. QED
  BY <1>2, <1>3, <1>4, <1>6, <1>7, <1>8, <1>9, <1>10, CallLast DEF Next, Push, Work
-----------------------------------------------------------------------------
(* Every event has a hook, and every task is made and taken over. *)
Complete ==
    /\ Hooks = {"connect", "data", "disconnect"}
    /\ ~OutOfMemory
    /\ ~SelectMayFail

(* Each event whose hook was not called yet has its task under way. *)
CoverInv ==
    \A c \in Conns, n \in Nat : ran[c] < n /\ n <= events[c] =>
        \E t \in Coming : CallsHook(t) /\ job[t].who = c /\ job[t].no = n

LEMMA CoverInit == Init => CoverInv
BY DEF Init, CoverInv

LEMMA CoverKept ==
    ASSUME CoverInv, UNCHANGED <<job, ran, events>>, Coming \subseteq Coming'
    PROVE  CoverInv'
BY DEF CoverInv, CallsHook

LEMMA SubmitCover ==
    ASSUME IInv, CoverInv, ~OutOfMemory, NEW p \in Producers, NEW j \in Job, NEW f,
           pc[p] = "idle", Submit(p, j, f),
           p \in Conns => /\ j.type # "GC" /\ j.who = p /\ j.no = events[p] + 1
                          /\ events' = [events EXCEPT ![p] = @ + 1],
           p = Boss => UNCHANGED events
    PROVE  CoverInv'
<1>. USE ThreadFacts
<1>t. /\ TypeOK
      /\ pc \in [Threads -> PCs]
      /\ hand \in [Threads -> Tasks \cup {NULL}]
      /\ events \in [Conns -> Nat]
      /\ ran \in [Conns -> Nat]
      /\ job \in [Tasks -> Job]
  BY DEF IInv, TypeOK
<1>u. UNCHANGED <<ran, fifo>>
  BY DEF Submit, effects, list
<1>1. PICK t \in Tasks \ used :
        /\ job' = [job EXCEPT ![t] = j]
        /\ hand' = [hand EXCEPT ![p] = t]
        /\ pc' = [pc EXCEPT ![p] = "select"]
  BY DEF Submit, NewTaskFails, NewTask, Goto
<1>2. t \notin Coming
  BY FreshNotComing
<1>3. \A u \in Coming : job'[u] = job[u]
  BY <1>t, <1>1, <1>2, NumberFacts
<1>4. Working \subseteq Working'
  BY <1>t, <1>1 DEF Working
<1>5. Pushing \cup {t} \subseteq Pushing'
  <2>1. hand[p] = NULL
    BY DEF IInv, ProducerInv, PushSteps
  <2>. QED  BY <1>t, <1>1, <2>1 DEF Pushing
<1>6. Coming \cup {t} \subseteq Coming'
  BY <1>u, <1>4, <1>5 DEF Coming, Waiting, Positions
<1>7. ASSUME NEW c \in Conns, NEW n \in Nat, ran'[c] < n, n <= events'[c]
      PROVE  \E u \in Coming' : job'[u].type # "GC" /\ job'[u].who = c /\ job'[u].no = n
  <2>1. CASE n <= events[c]
    <3>1. PICK u \in Coming : CallsHook(u) /\ job[u].who = c /\ job[u].no = n
      BY <1>u, <1>7, <2>1 DEF CoverInv
    <3>. QED  BY <1>3, <1>6, <3>1 DEF CallsHook
  <2>2. CASE ~(n <= events[c])
    <3>1. p = c
      BY <1>t, <1>7, <2>2 DEF Producers
    <3>2. n = events[c] + 1
      BY <1>t, <1>7, <2>2, <3>1
    <3>3. job'[t] = j
      BY <1>t, <1>1
    <3>. QED  BY <1>6, <3>1, <3>2, <3>3
  <2>. QED  BY <2>1, <2>2
<1>. QED  BY <1>7 DEF CoverInv, CallsHook

LEMMA EventCover ==
    ASSUME IInv, CoverInv, Complete, (\E c \in Conns : Event(c)) \/ OnBaseClock
    PROVE  CoverInv'
<1>. USE ThreadFacts
<1>t. events \in [Conns -> Nat]
  BY DEF IInv, TypeOK
<1>1. ASSUME NEW c \in Conns, NEW h \in Hooks, NEW k \in {"CTL", "DATA"}, NEW f,
             Handle(c, h, [type |-> k, who |-> c, no |-> events[c] + 1], f)
      PROVE  CoverInv'
  <2>. DEFINE j == [type |-> k, who |-> c, no |-> events[c] + 1]
  <2>1. j \in Job /\ j.type # "GC" /\ j.who = c /\ j.no = events[c] + 1
    BY <1>t DEF Job
  <2>2. /\ Submit(c, j, f)
        /\ pc[c] = "idle" /\ events' = [events EXCEPT ![c] = @ + 1]
    BY <1>1 DEF Handle
  <2>3. c # Boss
    BY ScriptQueueAssumption
  <2>. HIDE DEF j
  <2>. QED  BY <2>1, <2>2, <2>3, SubmitCover DEF Complete
<1>2. ASSUME NEW c \in Conns, Event(c)
      PROVE  CoverInv'
  BY <1>1, <1>2 DEF Event, OnConnect, OnData, OnDisconnect, Complete
<1>3. CASE OnBaseClock
  <2>. DEFINE j == [type |-> "GC", who |-> ticks % NumWorkers, no |-> ticks + 1]
  <2>1. ticks % NumWorkers \in Workers
    BY ModFacts, ScriptQueueAssumption DEF IInv, TypeOK, Workers
  <2>2. j \in Job
    BY <2>1 DEF IInv, TypeOK, Job
  <2>3. Submit(Boss, j, NULL) /\ pc[Boss] = "idle" /\ UNCHANGED events
    BY <1>3 DEF OnBaseClock
  <2>4. Boss \notin Conns
    BY ScriptQueueAssumption
  <2>. HIDE DEF j
  <2>. QED  BY <2>2, <2>3, <2>4, SubmitCover DEF Complete
<1>. QED  BY <1>2, <1>3

LEMMA CallCover ==
    ASSUME IInv, OneBusy, OrderInv, CoverInv, NEW w \in Workers, CallScript(w)
    PROVE  CoverInv'
<1>. USE ThreadFacts
<1>t. /\ TypeOK
      /\ pc \in [Threads -> PCs]
      /\ hand \in [Threads -> Tasks \cup {NULL}]
      /\ ran \in [Conns -> Nat]
      /\ job \in [Tasks -> Job]
  BY DEF IInv, TypeOK
<1>. DEFINE t == hand[w]
<1>1. /\ pc[w] = "call"
      /\ UNCHANGED <<job, events, fifo, hand>>
  BY DEF CallScript, outside, slots, list
<1>2. t \in Tasks /\ job[t].no \in Nat
  BY <1>1, <1>t, RunningUsed, NumberFacts
<1>3. Coming \ {t} \subseteq Coming'
  <2>1. Working \subseteq {t}
    BY <1>1, SoleWorker DEF Working
  <2>2. Waiting' = Waiting /\ Pushing' = Pushing
    BY <1>1 DEF Waiting, Positions, Pushing
  <2>. QED  BY <2>1, <2>2 DEF Coming
<1>4. ran' = IF CallsHook(t) THEN [ran EXCEPT ![job[t].who] = job[t].no] ELSE ran
  BY DEF CallScript, RunHook, CallsHook
<1>5. t \in Coming
  BY <1>1, <1>2 DEF Coming, Working
<1>6. ASSUME NEW c \in Conns, NEW n \in Nat, ran'[c] < n, n <= events'[c]
      PROVE  \E u \in Coming' : CallsHook(u) /\ job[u].who = c /\ job[u].no = n
  <2>1. ran[c] <= ran'[c]
    BY <1>t, <1>2, <1>4, <1>5, NumberFacts DEF OrderInv, NumberInv
  <2>2. ran[c] < n
    BY <1>t, <1>2, <1>4, <1>6, <2>1, NumberFacts
  <2>3. PICK u \in Coming : CallsHook(u) /\ job[u].who = c /\ job[u].no = n
    BY <1>1, <1>6, <2>2 DEF CoverInv
  <2>4. u # t
    BY <1>t, <1>2, <1>4, <1>6, <2>3
  <2>. QED  BY <1>3, <2>3, <2>4
<1>. QED  BY <1>1, <1>6 DEF CoverInv, CallsHook

LEMMA CoverStep ==
    IInv /\ OneBusy /\ OrderInv /\ CoverInv /\ Complete /\ [Next]_vars => CoverInv'
<1>. SUFFICES ASSUME IInv, OneBusy, OrderInv, CoverInv, Complete, [Next]_vars
              PROVE  CoverInv'
  OBVIOUS
<1>. USE ThreadFacts
<1>t. /\ pc \in [Threads -> PCs]
      /\ hand \in [Threads -> Tasks \cup {NULL}]
      /\ fifo \in Seq(Tasks)
      /\ head \in Tasks \cup {NULL}
  BY DEF IInv, TypeOK
<1>1. ASSUME UNCHANGED <<job, ran, events, fifo>>,
             \A p \in Producers : hand'[p] = hand[p],
             \A w \in Workers : pc[w] \in {"unlock", "call"} /\ hand[w] # NULL =>
                 pc'[w] \in {"unlock", "call"} /\ hand'[w] = hand[w]
      PROVE  CoverInv'
  <2>1. Waiting' = Waiting /\ Pushing' = Pushing
    BY <1>1 DEF Waiting, Positions, Pushing
  <2>2. Working \subseteq Working'
    BY <1>1 DEF Working
  <2>. QED  BY <1>1, <2>1, <2>2, CoverKept DEF Coming
<1>2. ASSUME NEW p \in Producers, SelectThread(p) \/ PushLink(p)
      PROVE  CoverInv'
  BY <1>t, <1>1, <1>2 DEF SelectThread, PushLink, Goto, outside, slots, list, effects
<1>3. ASSUME NEW p \in Producers, RefuseTask(p)
      PROVE  CoverInv'
  BY <1>3 DEF RefuseTask, Complete
<1>4. ASSUME NEW p \in Producers, PushTail(p)
      PROVE  CoverInv'
  <2>. DEFINE t == hand[p]
  <2>1. /\ fifo' = Append(fifo, t)
        /\ hand' = [hand EXCEPT ![p] = NULL]
        /\ pc' = [pc EXCEPT ![p] = "unlock"]
        /\ UNCHANGED <<job, events, ran>>
        /\ t \in Tasks
    BY <1>t, <1>4
       DEF PushTail, Goto, outside, slots, effects, IInv, ProducerInv, PushSteps
  <2>2. /\ Len(fifo') = Len(fifo) + 1
        /\ Len(fifo) \in Nat
        /\ fifo'[Len(fifo) + 1] = t
        /\ \A i \in 1..Len(fifo) : fifo'[i] = fifo[i]
    BY <1>t, <2>1, AppendFacts
  <2>3. Waiting \cup {t} \subseteq Waiting'
    BY <2>2 DEF Waiting, Positions
  <2>4. Working \subseteq Working'
    BY <1>t, <2>1 DEF Working
  <2>5. Pushing \ {t} \subseteq Pushing'
    BY <1>t, <2>1 DEF Pushing
  <2>6. Coming \subseteq Coming'
    BY <2>3, <2>4, <2>5 DEF Coming
  <2>. QED  BY <2>1, <2>6, CoverKept
<1>5. ASSUME NEW w \in Workers, PopAdvance(w)
      PROVE  CoverInv'
  <2>1. /\ fifo' = IF fifo = <<>> THEN fifo ELSE Tail(fifo)
        /\ pc' = [pc EXCEPT ![w] = "unlock"]
        /\ pc[w] = "advance"
        /\ UNCHANGED <<job, events, ran, hand>>
    BY <1>5 DEF PopAdvance, Goto, outside, slots, effects
  <2>2. fifo # <<>> /\ hand[w] = fifo[1] /\ hand[w] \in Tasks
    BY <1>t, <2>1 DEF IInv, ListInv, WorkerInv
  <2>3. /\ Len(fifo) \in Nat \ {0}
        /\ Positions' = 1..(Len(fifo) - 1)
        /\ \A i \in Positions' : fifo'[i] = fifo[i + 1]
    BY <1>t, <2>1, <2>2, TailFacts DEF Positions
  <2>4. ASSUME NEW i \in Positions
        PROVE  fifo[i] \in Waiting' \cup {hand[w]}
    <3>1. CASE i = 1
      BY <2>2, <3>1
    <3>2. CASE i # 1
      <4>1. i - 1 \in Positions' /\ fifo'[i - 1] = fifo[i]
        BY <2>3, <3>2 DEF Positions
      <4>. QED  BY <4>1 DEF Waiting
    <3>. QED  BY <3>1, <3>2
  <2>5. Waiting \subseteq Waiting' \cup {hand[w]}
    BY <2>4 DEF Waiting
  <2>6. Working \cup {hand[w]} \subseteq Working'
    BY <1>t, <2>1, <2>2 DEF Working
  <2>7. Pushing' = Pushing
    BY <2>1 DEF Pushing
  <2>8. Coming \subseteq Coming'
    BY <2>5, <2>6, <2>7 DEF Coming
  <2>. QED  BY <2>1, <2>8, CoverKept
<1>6. ASSUME NEW th \in Threads, Acquire(th) \/ Release(th)
      PROVE  CoverInv'
  BY <1>t, <1>1, <1>6 DEF Acquire, Release, Goto, outside, slots, list, effects
<1>7. ASSUME NEW w \in Workers,
             WorkerOnPoke(w) \/ PopRead(w) \/ AfterDisconnectTask(w) \/ DelTask(w)
      PROVE  CoverInv'
  BY <1>t, <1>1, <1>7
     DEF WorkerOnPoke, PopRead, AfterDisconnectTask, DelTask, Goto, outside, slots, list, effects
<1>8. CASE UNCHANGED vars
  BY <1>1, <1>8 DEF vars
<1>9. CASE Quiescent
  BY <1>8, <1>9 DEF Quiescent
<1>. QED
  BY <1>2, <1>3, <1>4, <1>5, <1>6, <1>7, <1>8, <1>9, CallCover, EventCover DEF Next, Push, Work

-----------------------------------------------------------------------------
(* ran changes only when the worker calls a hook, to the number of its task. *)
LEMMA RanStep ==
    ASSUME IInv, OneBusy, OrderInv, [Next]_vars, NEW c \in Conns, ran'[c] # ran[c]
    PROVE  \E w \in Workers :
             LET t == hand[w] IN
               /\ t \in Working /\ Working = {t} /\ CallsHook(t)
               /\ job[t].who = c /\ ran'[c] = job[t].no
<1>. USE ThreadFacts
<1>t. /\ hand \in [Threads -> Tasks \cup {NULL}]
      /\ ran \in [Conns -> Nat]
  BY DEF IInv, TypeOK
<1>1. PICK w \in Workers : CallScript(w)
  <2>1. ASSUME NEW p \in Producers, EventOf(p)
        PROVE  FALSE
    BY <2>1 DEF EventOf, effects
  <2>2. ASSUME NEW p \in Producers,
               SelectThread(p) \/ RefuseTask(p) \/ PushLink(p) \/ PushTail(p)
        PROVE  FALSE
    BY <2>2 DEF SelectThread, RefuseTask, PushLink, PushTail, effects
  <2>3. ASSUME NEW th \in Threads, Acquire(th) \/ Release(th)
        PROVE  FALSE
    BY <2>3 DEF Acquire, Release, effects
  <2>4. ASSUME NEW w \in Workers,
               \/ WorkerOnPoke(w) \/ PopRead(w) \/ PopAdvance(w)
               \/ AfterDisconnectTask(w) \/ DelTask(w)
        PROVE  FALSE
    BY <2>4 DEF WorkerOnPoke, PopRead, PopAdvance, AfterDisconnectTask, DelTask, effects
  <2>5. CASE UNCHANGED vars
    BY <2>5 DEF vars
  <2>. QED  BY <2>1, <2>2, <2>3, <2>4, <2>5, StepCases
<1>2. pc[w] = "call"
  BY <1>1 DEF CallScript
<1>3. hand[w] \in Tasks
  BY <1>2, RunningUsed
<1>4. Working = {hand[w]}
  BY <1>2, <1>3, SoleWorker DEF Working
<1>5. CallsHook(hand[w]) /\ job[hand[w]].who = c /\ ran'[c] = job[hand[w]].no
  BY <1>t, <1>1 DEF CallScript, RunHook, CallsHook
<1>. QED  BY <1>4, <1>5

LEMMA RiseStep ==
    ASSUME IInv, OneBusy, OrderInv, [Next]_vars, NEW c \in Conns, ran'[c] # ran[c]
    PROVE  ran'[c] > ran[c]
<1>1. PICK t \in Working : CallsHook(t) /\ job[t].who = c /\ ran'[c] = job[t].no
  BY RanStep
<1>. QED  BY <1>1, NumberFacts DEF OrderInv, NumberInv, Coming, IInv

LEMMA NoneLeftOut ==
    ASSUME IInv, OneBusy, OrderInv, CoverInv, [Next]_vars, NEW c \in Conns, ran'[c] # ran[c]
    PROVE  ran'[c] = ran[c] + 1
<1>1. PICK t \in Working :
        Working = {t} /\ CallsHook(t) /\ job[t].who = c /\ ran'[c] = job[t].no
  BY RanStep
<1>2. /\ ran[c] \in Nat /\ job[t].no \in Nat /\ events[c] \in Nat
      /\ ran[c] < job[t].no /\ job[t].no <= events[c]
  BY <1>1, NumberFacts DEF OrderInv, NumberInv, Coming, IInv
<1>3. PICK u \in Coming : CallsHook(u) /\ job[u].who = c /\ job[u].no = ran[c] + 1
  BY <1>2 DEF CoverInv
<1>4. u = t \/ job[t].no < job[u].no
  BY <1>1, <1>3 DEF OrderInv, LineInv, Before, Coming
<1>. QED  BY <1>1, <1>2, <1>3, <1>4

LEMMA NoHookAfterLast == IInv /\ OrderInv /\ LastInv => NoHookAfterUnreg
<1>. SUFFICES ASSUME IInv, OrderInv, LastInv, NEW w \in Workers, pc[w] = "call",
                     job[hand[w]].type # "GC"
              PROVE  unreg[job[hand[w]].who] = 0
  BY DEF NoHookAfterUnreg
<1>. DEFINE t == hand[w]
            c == job[t].who
<1>1. t \in Coming
  BY RunningUsed DEF Coming, Working
<1>2. c \in Conns /\ ran[c] < job[t].no /\ job[t].no <= events[c]
  BY <1>1 DEF OrderInv, NumberInv, CallsHook
<1>3. /\ ran[c] \in Nat /\ events[c] \in Nat /\ job[t].no \in Nat /\ unreg[c] \in Nat
  BY <1>1, <1>2, NumberFacts DEF IInv, TypeOK
<1>4. unreg[c] > 0 => ran[c] = events[c]
  BY <1>2 DEF LastInv
<1>. QED  BY <1>2, <1>3, <1>4
-----------------------------------------------------------------------------
(* The only worker with a script is the only one busy. *)
SoleInv == IInv /\ BusyInv /\ OneBusy /\ OrderInv

LEMMA SoleInvariance == Spec /\ Sole => []SoleInv
<1>1. Sole => Sole'
  BY DEF Sole
<1>2. BusyInv /\ Sole => OneBusy
  BY DEF BusyInv, Sole, OneBusy
<1>. QED
  BY <1>1, <1>2, InvInit, InvStep, BusyInit, BusyStep, OrderInit, OrderStep, PTL
     DEF Spec, SoleInv

(* A worker that serves alone calls the hooks of a connection in the order *)
(* of its events, even when tasks are refused or cannot be allocated, and  *)
(* whatever the pool leaves in its slots.                                  *)
THEOREM SoleHooksRise ==
    Spec /\ Sole => [][\A c \in Conns : ran'[c] # ran[c] => ran'[c] > ran[c]]_vars
<1>1. SoleInv /\ [Next]_vars =>
        [\A c \in Conns : ran'[c] # ran[c] => ran'[c] > ran[c]]_vars
  BY RiseStep DEF SoleInv
<1>. QED  BY <1>1, SoleInvariance, PTL DEF Spec

(* ... and if every event has a hook and no task is lost, it calls them    *)
(* one by one, none left out.                                              *)
THEOREM SoleHooksInOrder ==
    Spec /\ Sole /\ Complete =>
        [][\A c \in Conns : ran'[c] # ran[c] => ran'[c] = ran[c] + 1]_vars
<1>1. Spec /\ Sole /\ Complete => [](SoleInv /\ CoverInv)
  <2>1. Complete => Complete'
    BY DEF Complete
  <2>2. SoleInv => IInv /\ OneBusy /\ OrderInv
    BY DEF SoleInv
  <2>. QED  BY <2>1, <2>2, SoleInvariance, CoverInit, CoverStep, PTL DEF Spec
<1>2. SoleInv /\ CoverInv /\ [Next]_vars =>
        [\A c \in Conns : ran'[c] # ran[c] => ran'[c] = ran[c] + 1]_vars
  BY NoneLeftOut DEF SoleInv
<1>. QED  BY <1>1, <1>2, PTL DEF Spec

(* A worker that serves alone calls no hook for a client that was already  *)
(* unregistered, provided that the pool clears its slots.                  *)
THEOREM SoleNoHookAfterUnreg == Spec /\ Sole /\ PoolClears => []NoHookAfterUnreg
<1>1. SoleInv => IInv /\ OneBusy /\ OrderInv
  BY DEF SoleInv
<1>2. PoolClears => PoolClears'
  OBVIOUS
<1>. QED
  BY <1>1, <1>2, SoleInvariance, LastInit, LastStep, NoHookAfterLast, PTL DEF Spec
-----------------------------------------------------------------------------
(* The workers that libbsp serves are the only ones poked, so the only     *)
(* ones busy.                                                              *)
ServedInv ==
    /\ served \in Servings
    /\ \A p \in Producers : target[p] \in served \cup {NULL}
    /\ \A w \in Workers : pokes[w] > 0 \/ pc[w] # "idle" => w \in served

LEMMA ServedInvInit == ServedInit => ServedInv
BY ThreadFacts DEF ServedInit, Init, ServedInv

LEMMA ServedStep == IInv /\ ServedInv /\ [ServedNext]_<<vars, served>> => ServedInv'
<1>. SUFFICES ASSUME IInv, ServedInv, ServedNext \/ UNCHANGED <<vars, served>>
              PROVE  ServedInv'
  OBVIOUS
<1>. USE ThreadFacts
<1>t. /\ pc \in [Threads -> PCs]
      /\ pokes \in [Workers -> Nat]
  BY DEF IInv, TypeOK
<1>1. UNCHANGED served /\ [Next]_vars
  BY DEF ServedNext
<1>2. \A p \in Producers : target'[p] \in served \cup {NULL}
  BY DEF ServedNext, ServedInv, vars
<1>3. ASSUME \A w \in Workers : pokes'[w] > 0 \/ pc'[w] # "idle" =>
                 pokes[w] > 0 \/ pc[w] # "idle" \/ w \in served
      PROVE  ServedInv'
  BY <1>1, <1>2, <1>3 DEF ServedInv
<1>4. ASSUME NEW p \in Producers, EventOf(p)
      PROVE  ServedInv'
  BY <1>t, <1>3, <1>4 DEF EventOf, Allocates, AllocatesNothing
<1>5. ASSUME NEW p \in Producers, SelectThread(p) \/ RefuseTask(p) \/ PushLink(p)
      PROVE  ServedInv'
  BY <1>t, <1>3, <1>5 DEF SelectThread, RefuseTask, PushLink, Goto
<1>6. ASSUME NEW p \in Producers, PushTail(p)
      PROVE  ServedInv'
  <2>1. target[p] \in Workers /\ target[p] \in served
    BY <1>6 DEF PushTail, IInv, ProducerInv, ServedInv, Workers
  <2>2. /\ \A w \in Workers \ {target[p]} : pokes'[w] = pokes[w]
        /\ \A w \in Workers : pc'[w] = pc[w]
    BY <1>t, <1>6 DEF PushTail, Goto
  <2>. QED  BY <1>3, <2>1, <2>2
<1>7. ASSUME NEW th \in Threads, Acquire(th) \/ Release(th)
      PROVE  ServedInv'
  BY <1>t, <1>3, <1>7 DEF Acquire, Release, Goto
<1>8. ASSUME NEW w \in Workers,
             \/ WorkerOnPoke(w) \/ PopRead(w) \/ PopAdvance(w)
             \/ CallScript(w) \/ AfterDisconnectTask(w) \/ DelTask(w)
      PROVE  ServedInv'
  BY <1>t, <1>3, <1>8
     DEF WorkerOnPoke, PopRead, PopAdvance, CallScript, AfterDisconnectTask, DelTask, Goto
<1>9. CASE UNCHANGED vars
  BY <1>3, <1>9 DEF vars
<1>. QED  BY <1>1, <1>4, <1>5, <1>6, <1>7, <1>8, <1>9, StepCases

LEMMA AloneOneBusy == ServedInv /\ Alone => OneBusy
<1>. SUFFICES ASSUME ServedInv, Alone
              PROVE  OneBusy
  OBVIOUS
<1>1. served \subseteq Workers /\ IsFiniteSet(Workers)
  BY ServedQueueAssumption, ScriptQueueAssumption, FS_Interval DEF ServedInv, Workers
<1>2. PICK x : served = {x}
  BY <1>1, FS_Subset, FS_Singleton DEF Alone
<1>. QED  BY <1>2 DEF ServedInv, OneBusy

(* What holds of the queue, and of one worker served alone. *)
AloneInv ==
    /\ IInv /\ ServedInv
    /\ Alone => OneBusy /\ OrderInv
    /\ Alone /\ PoolClears => LastInv
    /\ Alone /\ Complete => CoverInv

LEMMA ServedIsQueue == ServedSpec => Spec
<1>1. ServedInit => Init
  BY DEF ServedInit
<1>2. [ServedNext]_<<vars, served>> => [Next]_vars
  BY DEF ServedNext
<1>. QED  BY <1>1, <1>2, PTL DEF ServedSpec, Spec

LEMMA AloneInvariance == ServedSpec => []AloneInv
<1>1. ServedInit => Init /\ ServedInv
  BY ServedInvInit DEF ServedInit
<1>2. [ServedNext]_<<vars, served>> => [Next]_vars /\ (Alone <=> Alone')
  BY DEF ServedNext, Alone
<1>3. (PoolClears <=> PoolClears') /\ (Complete <=> Complete')
  BY DEF Complete
<1>. QED
  BY <1>1, <1>2, <1>3, InvInit, InvStep, ServedStep, AloneOneBusy, OrderInit, OrderStep,
     LastInit, LastStep, CoverInit, CoverStep, PTL
  DEF ServedSpec, AloneInv

(* One worker served alone calls no hook for a client that was already     *)
(* unregistered, if the pool clears its slots; the worker has unregistered *)
(* it itself, after all its hooks (_worker_on_poke,                        *)
(* _after_disconnect_task).                                                *)
THEOREM AloneNoHookCorrect == ServedSpec /\ PoolClears => []AloneNoHookAfterUnreg
<1>1. AloneInv /\ PoolClears => AloneNoHookAfterUnreg
  BY NoHookAfterLast DEF AloneInv, AloneNoHookAfterUnreg
<1>2. PoolClears => PoolClears'
  OBVIOUS
<1>. QED  BY <1>1, <1>2, AloneInvariance, PTL

(* ... and calls the hooks of a connection one by one in the order of its  *)
(* events, if every event has a hook and no task is lost (_bspd_on_data,   *)
(* push_script_task, pop_script_task).                                     *)
THEOREM AloneHooksCorrect == ServedSpec /\ Complete => AloneHooksInOrder
<1>1. AloneInv /\ Complete /\ [Next]_vars =>
        [Alone => \A c \in Conns : ran'[c] # ran[c] => ran'[c] = ran[c] + 1]_vars
  BY NoneLeftOut DEF AloneInv
<1>2. Complete => Complete'
  BY DEF Complete
<1>. QED  BY <1>1, <1>2, AloneInvariance, ServedIsQueue, PTL DEF AloneHooksInOrder, Spec
=============================================================================
