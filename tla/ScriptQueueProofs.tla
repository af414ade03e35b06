-------------------------- MODULE ScriptQueueProofs --------------------------
(***************************************************************************)
(* Proofs about ScriptQueue, for any number of connections, workers, slots *)
(* and events and for every contract of the library the constants allow.   *)
(*                                                                         *)
(* IInv is the inductive invariant.  QueueShape speaks only of states in   *)
(* which the lock is free; to show that it holds again when the lock is    *)
(* released one has to say what the list looks like at every step of a     *)
(* critical section, whose critical section it is, and that no thread      *)
(* holds a task another one may write.                                     *)
(***************************************************************************)
EXTENDS ScriptQueue, SequenceTheorems, FiniteSetTheorems, TLAPS

(* Only the holder of the lock is in a critical section. *)
LockInv == \A th \in Threads : pc[th] \in Critical <=> lock = th

(* What a thread has in its hand at each step. *)
ProducerInv ==
    \A p \in Producers :
        /\ pc[p] \in PushSteps \cup {"idle", "unlock", "segv"}
        /\ hand[p] # NULL <=> pc[p] \in PushSteps
        /\ pc[p] \in {"lock", "link", "append"} => target[p] \in Workers

WorkerInv ==
    \A w \in Workers :
        /\ pc[w] \in {"idle", "lock", "read", "advance", "unlock", "call", "follow", "free"}
        /\ pc[w] \in {"idle", "lock", "read"} => hand[w] = NULL
        /\ pc[w] \in {"advance", "call", "follow", "free"} => hand[w] # NULL

(* The list at every step of a critical section.  A producer at "append"   *)
(* has hung its task behind the last one, or at the head of an empty list, *)
(* and not yet moved the tail; a worker at "advance" holds the first task. *)
Appending == {p \in Producers : pc[p] = "append"}

ListInv ==
    /\ fifo = <<>> =>
        /\ tail = NULL
        /\ Appending = {} => head = NULL
        /\ \A p \in Appending : head = hand[p]
    /\ fifo # <<>> =>
        /\ head = fifo[1]
        /\ tail = fifo[Len(fifo)]
        /\ Appending = {} => next[fifo[Len(fifo)]] = NULL
        /\ \A p \in Appending : next[fifo[Len(fifo)]] = hand[p]
    /\ \A i \in 1..(Len(fifo) - 1) : next[fifo[i]] = fifo[i + 1]
    /\ \A p \in Producers : hand[p] # NULL => next[hand[p]] = NULL
    /\ \A w \in Workers : pc[w] = "advance" => fifo # <<>> /\ hand[w] = fifo[1]

(* Slots, recycled or not, name only clients that are gone. *)
FollowInv ==
    /\ \A t \in Tasks : follow_up[t] # NULL => conn[follow_up[t]] = "closed"
    /\ \A w \in Workers : pc[w] = "follow" => follow_up[hand[w]] # NULL

IInv ==
    /\ TypeOK
    /\ LockInv /\ ProducerInv /\ WorkerInv
    /\ ListInv /\ OneHolder
    /\ FollowInv /\ UnregAfterClose

-----------------------------------------------------------------------------
(* The threads are of two kinds, and no sentinel is one of them. *)
LEMMA ThreadFacts ==
    /\ Boss \in Producers
    /\ Conns \subseteq Producers
    /\ Producers \subseteq Threads
    /\ Workers \subseteq Threads
    /\ \A th \in Threads : th \in Producers <=> th \notin Workers
    /\ NULL \notin Threads
    /\ NULL \notin Tasks
    /\ EMPTY \notin Tasks
    /\ EMPTY # NULL
BY ScriptQueueAssumption DEF Threads, Producers

(* What new_script_task does, as far as the queue and the hands go. *)
Allocates(p, t) ==
    /\ t \in Tasks \ used
    /\ used' = used \cup {t}
    /\ next' = [next EXCEPT ![t] = NULL]
    /\ hand' = [hand EXCEPT ![p] = t]
    /\ pc' = [pc EXCEPT ![p] = "select"]

AllocatesNothing(p) ==
    /\ pc' \in {pc, [pc EXCEPT ![p] = "segv"], [pc EXCEPT ![p] = "idle"]}
    /\ UNCHANGED <<used, next, hand>>

EventOf(p) ==
    /\ pc[p] = "idle"
    /\ (\E t \in Tasks : Allocates(p, t)) \/ AllocatesNothing(p)
    /\ UNCHANGED <<list, lock, pokes, target, effects>>

LEMMA SubmitEffect ==
    ASSUME NEW p \in Producers, NEW j, NEW f, pc[p] = "idle", Submit(p, j, f)
    PROVE  EventOf(p)
<1>1. CASE NewTask(p, j, f)
  BY <1>1 DEF Submit, NewTask, EventOf, Allocates, Goto
<1>2. CASE NewTaskFails(p, j)
  BY <1>2 DEF Submit, NewTaskFails, EventOf, AllocatesNothing, Goto, slots
<1>. QED  BY <1>1, <1>2 DEF Submit

(* Every event of a connection and every tick of the clock is, for the     *)
(* queue, an allocation by an idle producer or nothing at all.             *)
LEMMA EventEffect ==
    ASSUME (\E c \in Conns : Event(c)) \/ OnBaseClock
    PROVE  \E p \in Producers : EventOf(p)
<1>1. ASSUME NEW c \in Conns, NEW h, NEW j, NEW f, Handle(c, h, j, f)
      PROVE  EventOf(c)
  <2>1. CASE h \in Hooks
    BY <1>1, <2>1, SubmitEffect, ThreadFacts DEF Handle
  <2>2. CASE h \notin Hooks
    BY <1>1, <2>2 DEF Handle, EventOf, AllocatesNothing, slots, threads
  <2>. QED  BY <2>1, <2>2
<1>2. ASSUME NEW c \in Conns, Event(c)
      PROVE  EventOf(c)
  <2>1. CASE OnConnect(c)
    BY <1>1, <2>1 DEF OnConnect
  <2>2. CASE OnData(c)
    BY <1>1, <2>2 DEF OnData
  <2>3. CASE OnDisconnect(c)
    BY <1>1, <2>3 DEF OnDisconnect
  <2>. QED  BY <1>2, <2>1, <2>2, <2>3 DEF Event
<1>3. CASE OnBaseClock
  BY <1>3, SubmitEffect, ThreadFacts DEF OnBaseClock
<1>. QED  BY <1>2, <1>3, ThreadFacts

(* A step of the system, sorted by what it does to the queue. *)
LEMMA StepCases ==
    ASSUME [Next]_vars
    PROVE  \/ \E p \in Producers : EventOf(p)
           \/ \E p \in Producers : SelectThread(p) \/ RefuseTask(p) \/ PushLink(p) \/ PushTail(p)
           \/ \E th \in Threads : Acquire(th) \/ Release(th)
           \/ \E w \in Workers : \/ WorkerOnPoke(w) \/ PopRead(w) \/ PopAdvance(w)
                                 \/ CallScript(w) \/ AfterDisconnectTask(w) \/ DelTask(w)
           \/ UNCHANGED vars
<1>1. CASE \E c \in Conns : Event(c)
  BY <1>1, EventEffect
<1>2. CASE OnBaseClock
  BY <1>2, EventEffect
<1>3. ASSUME NEW p \in Producers, Push(p)
      PROVE  \/ SelectThread(p) \/ RefuseTask(p) \/ PushLink(p) \/ PushTail(p)
             \/ \E th \in Threads : Acquire(th) \/ Release(th)
  BY <1>3, ThreadFacts DEF Push
<1>4. ASSUME NEW w \in Workers, Work(w)
      PROVE  \/ WorkerOnPoke(w) \/ PopRead(w) \/ PopAdvance(w)
             \/ CallScript(w) \/ AfterDisconnectTask(w) \/ DelTask(w)
             \/ \E th \in Threads : Acquire(th) \/ Release(th)
  BY <1>4, ThreadFacts DEF Work
<1>5. CASE Quiescent
  BY <1>5 DEF Quiescent
<1>. QED  BY <1>1, <1>2, <1>3, <1>4, <1>5 DEF Next
-----------------------------------------------------------------------------
LEMMA ModFacts == ASSUME NEW a \in Nat, NEW n \in Nat \ {0}
                  PROVE  a % n \in 0..(n - 1)
OBVIOUS

(* Every variable keeps its type, whatever the library does. *)
LEMMA TypeInit == Init => TypeOK
BY ScriptQueueAssumption, ThreadFacts DEF Init, TypeOK, Job, PCs

LEMMA SubmitType ==
    ASSUME TypeOK, NEW p \in Producers, NEW j \in Job, NEW f \in Conns \cup {NULL},
           Submit(p, j, f), conn' \in [Conns -> {"new", "open", "closed"}],
           events' \in [Conns -> Nat], ticks' \in Nat
    PROVE  TypeOK'
<1>. USE ThreadFacts DEF TypeOK, Submit, list, effects
<1>1. CASE NewTask(p, j, f)
  BY <1>1 DEF NewTask, Goto, PCs, PushSteps
<1>2. CASE NewTaskFails(p, j)
  BY <1>2 DEF NewTaskFails, Goto, slots, PCs
<1>. QED  BY <1>1, <1>2

LEMMA EventType ==
    ASSUME TypeOK, (\E c \in Conns : Event(c)) \/ OnBaseClock
    PROVE  TypeOK'
<1>1. ASSUME NEW c \in Conns, NEW h, NEW j \in Job, NEW f \in Conns \cup {NULL},
             Handle(c, h, j, f), conn' \in [Conns -> {"new", "open", "closed"}]
      PROVE  TypeOK'
  <2>1. events' \in [Conns -> Nat] /\ ticks' \in Nat
    BY <1>1 DEF Handle, TypeOK
  <2>2. CASE h \in Hooks
    BY <1>1, <2>1, <2>2, SubmitType, ThreadFacts DEF Handle
  <2>3. CASE h \notin Hooks
    BY <1>1, <2>1, <2>3 DEF Handle, TypeOK, slots, list, threads, effects
  <2>. QED  BY <2>2, <2>3
<1>2. ASSUME NEW c \in Conns, NEW k \in {"CTL", "DATA"}
      PROVE  [type |-> k, who |-> c, no |-> events[c] + 1] \in Job
  BY DEF TypeOK, Job
<1>3. ASSUME NEW c \in Conns, Event(c)
      PROVE  TypeOK'
  <2>1. CASE OnConnect(c)
    BY <1>1, <1>2, <2>1 DEF OnConnect, TypeOK
  <2>2. CASE OnData(c)
    BY <1>1, <1>2, <2>2 DEF OnData, TypeOK
  <2>3. CASE OnDisconnect(c)
    BY <1>1, <1>2, <2>3 DEF OnDisconnect, TypeOK
  <2>. QED  BY <1>3, <2>1, <2>2, <2>3 DEF Event
<1>4. CASE OnBaseClock
  <2>1. ticks % NumWorkers \in Workers
    BY ModFacts, ScriptQueueAssumption DEF TypeOK, Workers
  <2>2. [type |-> "GC", who |-> ticks % NumWorkers, no |-> ticks + 1] \in Job
    BY <2>1 DEF TypeOK, Job
  <2>3. /\ conn' \in [Conns -> {"new", "open", "closed"}]
        /\ events' \in [Conns -> Nat]
        /\ ticks' \in Nat
    BY <1>4 DEF OnBaseClock, TypeOK
  <2>. QED  BY <1>4, <2>2, <2>3, SubmitType, ThreadFacts DEF OnBaseClock
<1>. QED  BY <1>3, <1>4

LEMMA TypeStep == TypeOK /\ ProducerInv /\ WorkerInv /\ [Next]_vars => TypeOK'
<1>. SUFFICES ASSUME TypeOK, ProducerInv, WorkerInv, [Next]_vars
              PROVE  TypeOK'
  OBVIOUS
<1>. USE ThreadFacts DEF TypeOK, outside, slots, list, effects, Goto, PCs, PushSteps, Critical
<1>1. ASSUME NEW p \in Producers, SelectThread(p)
      PROVE  TypeOK'
  BY <1>1 DEF SelectThread
<1>1a. ASSUME NEW p \in Producers, RefuseTask(p)
      PROVE  TypeOK'
  BY <1>1a DEF RefuseTask, ProducerInv
<1>2. ASSUME NEW th \in Threads, Acquire(th)
      PROVE  TypeOK'
  BY <1>2 DEF Acquire
<1>3. ASSUME NEW p \in Producers, PushLink(p)
      PROVE  TypeOK'
  BY <1>3 DEF PushLink
<1>4. ASSUME NEW p \in Producers, PushTail(p)
      PROVE  TypeOK'
  BY <1>4 DEF PushTail, ProducerInv
<1>5. ASSUME NEW th \in Threads, Release(th)
      PROVE  TypeOK'
  BY <1>5 DEF Release
<1>6. ASSUME NEW w \in Workers, WorkerOnPoke(w)
      PROVE  TypeOK'
  BY <1>6 DEF WorkerOnPoke
<1>7. ASSUME NEW w \in Workers, PopRead(w)
      PROVE  TypeOK'
  BY <1>7 DEF PopRead
<1>8. ASSUME NEW w \in Workers, PopAdvance(w)
      PROVE  TypeOK'
  BY <1>8 DEF PopAdvance, WorkerInv
<1>9. ASSUME NEW w \in Workers, CallScript(w)
      PROVE  TypeOK'
  <2>1. hand[w] \in Tasks
    BY <1>9 DEF CallScript, RunHook, WorkerInv
  <2>2. job[hand[w]].no \in Nat
    BY <2>1 DEF Job
  <2>3. ran' \in [Conns -> Nat]
    BY <1>9, <2>2 DEF CallScript, RunHook
  <2>. QED  BY <1>9, <2>3 DEF CallScript, RunHook
<1>10. ASSUME NEW w \in Workers, AfterDisconnectTask(w)
      PROVE  TypeOK'
  <2>1. unreg' \in [Conns -> Nat]
    <3>1. CASE follow_up[hand[w]] \in Conns
      BY <1>10, <3>1 DEF AfterDisconnectTask
    <3>2. CASE follow_up[hand[w]] \notin Conns
      BY <1>10, <3>2 DEF AfterDisconnectTask
    <3>. QED  BY <3>1, <3>2
  <2>. QED  BY <1>10, <2>1 DEF AfterDisconnectTask
<1>11. ASSUME NEW w \in Workers, DelTask(w)
      PROVE  TypeOK'
  BY <1>11 DEF DelTask
<1>12. CASE (\E c \in Conns : Event(c)) \/ OnBaseClock
  BY <1>12, EventType
<1>13. CASE UNCHANGED vars
  BY <1>13 DEF vars
<1>14. CASE Quiescent
  BY <1>13, <1>14 DEF Quiescent
<1>. QED
  BY <1>1, <1>1a, <1>2, <1>3, <1>4, <1>5, <1>6, <1>7, <1>8, <1>9, <1>10, <1>11, <1>12, <1>13,
     <1>14
     DEF Next, Push, Work
-----------------------------------------------------------------------------
(* Control: the lock excludes, and hands are full exactly when they should *)
(* be.                                                                     *)
ControlInv == LockInv /\ ProducerInv /\ WorkerInv

LEMMA ControlInit == Init => ControlInv
BY ThreadFacts DEF Init, ControlInv, LockInv, ProducerInv, WorkerInv, Critical, PushSteps

LEMMA ControlStep == TypeOK /\ ControlInv /\ [Next]_vars => ControlInv'
<1>. SUFFICES ASSUME TypeOK, ControlInv, [Next]_vars
              PROVE  ControlInv'
  OBVIOUS
<1>. USE ThreadFacts DEF ControlInv, LockInv, ProducerInv, WorkerInv, Goto, Critical, PushSteps
<1>t. /\ pc \in [Threads -> PCs]
      /\ hand \in [Threads -> Tasks \cup {NULL}]
      /\ target \in [Producers -> Workers \cup {NULL}]
      /\ head \in Tasks \cup {NULL}
  BY DEF TypeOK
<1>1. ASSUME NEW p \in Producers, EventOf(p)
      PROVE  ControlInv'
  <2>1. CASE \E t \in Tasks : Allocates(p, t)
    BY <1>t, <1>1, <2>1 DEF EventOf, Allocates
  <2>2. CASE AllocatesNothing(p)
    BY <1>t, <1>1, <2>2 DEF EventOf, AllocatesNothing
  <2>. QED  BY <1>1, <2>1, <2>2 DEF EventOf
<1>2. ASSUME NEW p \in Producers, SelectThread(p)
      PROVE  ControlInv'
  BY <1>t, <1>2 DEF SelectThread
<1>3. ASSUME NEW p \in Producers, RefuseTask(p)
      PROVE  ControlInv'
  BY <1>t, <1>3 DEF RefuseTask
<1>4. ASSUME NEW th \in Threads, Acquire(th)
      PROVE  ControlInv'
  BY <1>t, <1>4 DEF Acquire
<1>5. ASSUME NEW p \in Producers, PushLink(p)
      PROVE  ControlInv'
  BY <1>t, <1>5 DEF PushLink
<1>6. ASSUME NEW p \in Producers, PushTail(p)
      PROVE  ControlInv'
  BY <1>t, <1>6 DEF PushTail
<1>7. ASSUME NEW th \in Threads, Release(th)
      PROVE  ControlInv'
  BY <1>t, <1>7 DEF Release
<1>8. ASSUME NEW w \in Workers, WorkerOnPoke(w)
      PROVE  ControlInv'
  BY <1>t, <1>8 DEF WorkerOnPoke
<1>9. ASSUME NEW w \in Workers, PopRead(w)
      PROVE  ControlInv'
  BY <1>t, <1>9 DEF PopRead
<1>10. ASSUME NEW w \in Workers, PopAdvance(w)
      PROVE  ControlInv'
  BY <1>t, <1>10 DEF PopAdvance
<1>11. ASSUME NEW w \in Workers, CallScript(w)
      PROVE  ControlInv'
  BY <1>t, <1>11 DEF CallScript, RunHook
<1>12. ASSUME NEW w \in Workers, AfterDisconnectTask(w)
      PROVE  ControlInv'
  BY <1>t, <1>12 DEF AfterDisconnectTask
<1>13. ASSUME NEW w \in Workers, DelTask(w)
      PROVE  ControlInv'
  BY <1>t, <1>13 DEF DelTask
<1>14. CASE UNCHANGED vars
  BY <1>14 DEF vars
<1>. QED
  BY ONLY StepCases, [Next]_vars, <1>1, <1>2, <1>3, <1>4, <1>5, <1>6, <1>7, <1>8, <1>9, <1>10,
          <1>11, <1>12, <1>13, <1>14
-----------------------------------------------------------------------------
(* Elements of a sequence that grows at its end or shrinks at its front. *)
LEMMA AppendFacts ==
    ASSUME NEW S, NEW s \in Seq(S), NEW x \in S
    PROVE  /\ Append(s, x) \in Seq(S)
           /\ Append(s, x) # <<>>
           /\ Len(Append(s, x)) = Len(s) + 1
           /\ Len(s) \in Nat
           /\ s = <<>> <=> Len(s) = 0
           /\ Append(s, x)[Len(s) + 1] = x
           /\ \A i \in 1..Len(s) : Append(s, x)[i] = s[i]
OBVIOUS

LEMMA TailFacts ==
    ASSUME NEW S, NEW s \in Seq(S), s # <<>>
    PROVE  /\ Tail(s) \in Seq(S)
           /\ Len(Tail(s)) = Len(s) - 1
           /\ Len(s) \in Nat /\ Len(s) > 0
           /\ Tail(s) = <<>> <=> Len(s) = 1
           /\ \A i \in 1..(Len(s) - 1) : Tail(s)[i] = s[i + 1]
<1>1. Tail(s) \in Seq(S) /\ Len(Tail(s)) = Len(s) - 1 /\ Len(s) \in Nat /\ Len(s) > 0
  BY HeadTailProperties, EmptySeq
<1>2. \A i \in 1..(Len(s) - 1) : Tail(s)[i] = s[i + 1]
  BY <1>1, HeadTailProperties
<1>3. Tail(s) = <<>> <=> Len(s) = 1
  BY <1>1, EmptySeq
<1>. QED  BY <1>1, <1>2, <1>3

(* OneHolder, said of one slot, one thread and one position at a time. *)
HoldInv ==
    /\ \A th \in Threads : Owns(th) => hand[th] \in used \ (Waiting \cup dropped)
    /\ Waiting \subseteq used
    /\ dropped \subseteq used
    /\ Waiting \cap dropped = {}
    /\ \A t \in used : t \in Waiting \cup dropped \/ \E th \in Threads : Owns(th) /\ hand[th] = t
    /\ \A i, j \in Positions : fifo[i] = fifo[j] => i = j
    /\ \A a, b \in Threads : Owns(a) /\ Owns(b) /\ hand[a] = hand[b] => a = b

LEMMA HoldIsOneHolder == HoldInv <=> OneHolder
<1>1. \A t : t \in Held <=> \E th \in Threads : Owns(th) /\ hand[th] = t
  BY DEF Held
<1>2. HoldInv => OneHolder
  BY <1>1 DEF HoldInv, OneHolder
<1>3. OneHolder => HoldInv
  BY <1>1 DEF HoldInv, OneHolder
<1>. QED  BY <1>2, <1>3

LEMMA HoldInit == Init => HoldInv
<1>. SUFFICES ASSUME Init
              PROVE  HoldInv
  OBVIOUS
<1>1. Waiting = {} /\ Positions = {}
  BY DEF Init, Waiting, Positions
<1>2. \A th \in Threads : ~Owns(th)
  BY DEF Init, Owns
<1>. QED  BY <1>1, <1>2 DEF Init, HoldInv

(* A step that leaves every owner, the queue and the pool as they were. *)
LEMMA HoldKept ==
    ASSUME HoldInv, UNCHANGED <<used, dropped, fifo>>,
           \A th \in Threads : Owns(th)' <=> Owns(th),
           \A th \in Threads : Owns(th) => hand'[th] = hand[th]
    PROVE  HoldInv'
BY DEF HoldInv, Waiting, Positions

LEMMA HoldStep == TypeOK /\ ControlInv /\ ListInv /\ HoldInv /\ [Next]_vars => HoldInv'
<1>. SUFFICES ASSUME TypeOK, ControlInv, ListInv, HoldInv, [Next]_vars
              PROVE  HoldInv'
  OBVIOUS
<1>. USE ThreadFacts DEF Goto
<1>t. /\ pc \in [Threads -> PCs]
      /\ hand \in [Threads -> Tasks \cup {NULL}]
      /\ head \in Tasks \cup {NULL}
      /\ fifo \in Seq(Tasks)
      /\ used \subseteq Tasks
  BY DEF TypeOK
<1>p. \A p \in Producers : hand[p] # NULL <=> pc[p] \in PushSteps
  BY DEF ControlInv, ProducerInv
<1>w. \A w \in Workers :
        /\ pc[w] \in {"idle", "lock", "read"} => hand[w] = NULL
        /\ pc[w] \in {"advance", "call", "follow", "free"} => hand[w] # NULL
  BY DEF ControlInv, WorkerInv
<1>1. ASSUME NEW p \in Producers, EventOf(p)
      PROVE  HoldInv'
  <2>1. CASE \E t \in Tasks : Allocates(p, t)
    <3>. PICK t \in Tasks : Allocates(p, t)
      BY <2>1
    <3>1. UNCHANGED <<fifo, dropped, Waiting, Positions>>
      BY <1>1 DEF EventOf, list, effects, Waiting, Positions
    <3>2. /\ ~Owns(p)
          /\ Owns(p)' /\ hand'[p] = t
          /\ \A th \in Threads \ {p} : (Owns(th)' <=> Owns(th)) /\ hand'[th] = hand[th]
      BY <1>t, <1>p, <1>1 DEF EventOf, Allocates, Owns, PushSteps
    <3>3. t \notin used /\ used' = used \cup {t}
      BY DEF Allocates
    <3>. QED  BY <3>1, <3>2, <3>3 DEF HoldInv
  <2>2. CASE AllocatesNothing(p)
    BY <1>t, <1>1, <2>2, HoldKept DEF EventOf, AllocatesNothing, list, effects, Owns
  <2>. QED  BY <1>1, <2>1, <2>2 DEF EventOf
<1>2. ASSUME NEW p \in Producers, SelectThread(p)
      PROVE  HoldInv'
  BY <1>t, <1>2, HoldKept DEF SelectThread, slots, list, effects, Owns
<1>3. ASSUME NEW p \in Producers, RefuseTask(p)
      PROVE  HoldInv'
  <2>1. UNCHANGED <<fifo, used, Waiting, Positions>>
    BY <1>3 DEF RefuseTask, list, slots, Waiting, Positions
  <2>2. /\ Owns(p)
        /\ ~Owns(p)'
        /\ dropped' = dropped \cup {hand[p]}
        /\ \A th \in Threads \ {p} : (Owns(th)' <=> Owns(th)) /\ hand'[th] = hand[th]
    BY <1>t, <1>p, <1>3 DEF RefuseTask, Owns, PushSteps
  <2>. QED  BY <2>1, <2>2 DEF HoldInv
<1>4. ASSUME NEW th \in Threads, Acquire(th)
      PROVE  HoldInv'
  BY <1>t, <1>4, HoldKept DEF Acquire, slots, list, effects, Owns
<1>5. ASSUME NEW p \in Producers, PushLink(p)
      PROVE  HoldInv'
  BY <1>t, <1>5, HoldKept DEF PushLink, effects, Owns
<1>6. ASSUME NEW p \in Producers, PushTail(p)
      PROVE  HoldInv'
  <2>1. hand[p] \in Tasks /\ Owns(p)
    BY <1>t, <1>p, <1>6 DEF PushTail, PushSteps, Owns
  <2>2. /\ ~Owns(p)'
        /\ UNCHANGED <<used, dropped>>
        /\ \A th \in Threads \ {p} : (Owns(th)' <=> Owns(th)) /\ hand'[th] = hand[th]
    BY <1>t, <1>6 DEF PushTail, Owns, slots, effects
  <2>3. fifo' = Append(fifo, hand[p])
    BY <1>6 DEF PushTail
  <2>4. Positions' = Positions \cup {Len(fifo) + 1} /\ Len(fifo) + 1 \notin Positions
    BY <1>t, <2>1, <2>3, AppendFacts DEF Positions
  <2>5. fifo'[Len(fifo) + 1] = hand[p] /\ \A i \in Positions : fifo'[i] = fifo[i]
    BY <1>t, <2>1, <2>3, AppendFacts DEF Positions
  <2>6. Waiting' = Waiting \cup {hand[p]}
    BY <2>4, <2>5 DEF Waiting
  <2>7. \A i, j \in Positions' : fifo'[i] = fifo'[j] => i = j
    BY <2>1, <2>4, <2>5 DEF HoldInv, Waiting
  <2>. QED  BY <2>1, <2>2, <2>6, <2>7 DEF HoldInv
<1>7. ASSUME NEW th \in Threads, Release(th)
      PROVE  HoldInv'
  BY <1>t, <1>7, HoldKept DEF Release, slots, list, effects, Owns
<1>8. ASSUME NEW w \in Workers, WorkerOnPoke(w)
      PROVE  HoldInv'
  BY <1>t, <1>8, HoldKept DEF WorkerOnPoke, slots, list, effects, Owns
<1>9. ASSUME NEW w \in Workers, PopRead(w)
      PROVE  HoldInv'
  BY <1>t, <1>w, <1>9, HoldKept DEF PopRead, slots, list, effects, Owns
<1>10. ASSUME NEW w \in Workers, PopAdvance(w)
      PROVE  HoldInv'
  <2>1. /\ fifo # <<>>
        /\ hand[w] = fifo[1]
    BY <1>10 DEF PopAdvance, ListInv
  <2>2. /\ Owns(w)' /\ ~Owns(w)
        /\ UNCHANGED <<used, dropped, hand>>
        /\ \A th \in Threads \ {w} : Owns(th)' <=> Owns(th)
    BY <1>t, <1>w, <1>10 DEF PopAdvance, Owns, slots, effects
  <2>3. fifo' = Tail(fifo)
    BY <1>10, <2>1 DEF PopAdvance
  <2>4. \A i \in Positions' : i + 1 \in Positions /\ fifo'[i] = fifo[i + 1] /\ i + 1 # 1
    BY <1>t, <2>1, <2>3, TailFacts DEF Positions
  <2>5. \A i \in Positions : i # 1 => i - 1 \in Positions' /\ fifo'[i - 1] = fifo[i]
    BY <1>t, <2>1, <2>3, TailFacts DEF Positions
  <2>6. 1 \in Positions
    BY <1>t, <2>1, TailFacts DEF Positions
  <2>7. \A i, j \in Positions' : fifo'[i] = fifo'[j] => i = j
    <3>. SUFFICES ASSUME NEW i \in Positions', NEW j \in Positions', fifo'[i] = fifo'[j]
                  PROVE  i = j
      OBVIOUS
    <3>1. i + 1 = j + 1
      BY <2>4 DEF HoldInv
    <3>. QED  BY <3>1 DEF Positions
  <2>8. Waiting' = Waiting \ {hand[w]}
    BY <2>1, <2>4, <2>5, <2>6 DEF HoldInv, Waiting
  <2>9. hand[w] \in Waiting
    BY <2>1, <2>6 DEF Waiting
  <2>. QED  BY <2>2, <2>7, <2>8, <2>9 DEF HoldInv
<1>11. ASSUME NEW w \in Workers, CallScript(w)
      PROVE  HoldInv'
  BY <1>t, <1>11, HoldKept DEF CallScript, RunHook, slots, list, Owns
<1>12. ASSUME NEW w \in Workers, AfterDisconnectTask(w)
      PROVE  HoldInv'
  BY <1>t, <1>12, HoldKept DEF AfterDisconnectTask, slots, list, Owns
<1>13. ASSUME NEW w \in Workers, DelTask(w)
      PROVE  HoldInv'
  <2>1. UNCHANGED <<fifo, dropped, Waiting, Positions>>
    BY <1>13 DEF DelTask, list, effects, Waiting, Positions
  <2>2. /\ Owns(w) /\ ~Owns(w)'
        /\ used' = used \ {hand[w]}
        /\ \A th \in Threads \ {w} : (Owns(th)' <=> Owns(th)) /\ hand'[th] = hand[th]
    BY <1>t, <1>w, <1>13 DEF DelTask, Owns
  <2>. QED  BY <2>1, <2>2 DEF HoldInv
<1>14. CASE UNCHANGED vars
  BY <1>14, HoldKept DEF vars, Owns
<1>. QED
  BY ONLY StepCases, [Next]_vars, <1>1, <1>2, <1>3, <1>4, <1>5, <1>6, <1>7, <1>8, <1>9, <1>10,
          <1>11, <1>12, <1>13, <1>14
-----------------------------------------------------------------------------
(* The shape of the list. *)
LEMMA ListInit == Init => ListInv
BY ThreadFacts DEF Init, ListInv, Appending

(* A step that leaves the list, and the hands of those who work on it, as  *)
(* they were. *)
LEMMA ListKept ==
    ASSUME ListInv, UNCHANGED <<head, tail, fifo, next>>, UNCHANGED Appending,
           \A p \in Producers : hand'[p] \in {hand[p], NULL},
           \A p \in Appending : hand'[p] = hand[p],
           \A w \in Workers : pc'[w] = "advance" => pc[w] = "advance" /\ hand'[w] = hand[w]
    PROVE  ListInv'
BY DEF ListInv

LEMMA ListStep == TypeOK /\ ControlInv /\ ListInv /\ HoldInv /\ [Next]_vars => ListInv'
<1>. SUFFICES ASSUME TypeOK, ControlInv, ListInv, HoldInv, [Next]_vars
              PROVE  ListInv'
  OBVIOUS
<1>. USE ThreadFacts DEF Goto
<1>t. /\ pc \in [Threads -> PCs]
      /\ hand \in [Threads -> Tasks \cup {NULL}]
      /\ next \in [Tasks -> Tasks \cup {NULL}]
      /\ head \in Tasks \cup {NULL}
      /\ fifo \in Seq(Tasks)
      /\ used \subseteq Tasks
  BY DEF TypeOK
<1>c. \A a, b \in Threads : pc[a] \in Critical /\ pc[b] \in Critical => a = b
  BY DEF ControlInv, LockInv
<1>p. \A p \in Producers :
        /\ hand[p] # NULL <=> pc[p] \in PushSteps
        /\ hand[p] # NULL => hand[p] \in used \ Waiting
  <2>1. \A p \in Producers : hand[p] # NULL <=> pc[p] \in PushSteps
    BY DEF ControlInv, ProducerInv
  <2>2. \A p \in Producers : hand[p] # NULL => Owns(p)
    BY <2>1 DEF PushSteps, Owns
  <2>. QED  BY <2>1, <2>2 DEF HoldInv
<1>d. \A p, q \in Producers : hand[p] # NULL /\ hand[q] = hand[p] => p = q
  BY <1>p DEF HoldInv, Owns, PushSteps
<1>f. /\ Len(fifo) \in Nat
      /\ fifo = <<>> <=> Len(fifo) = 0
      /\ \A i \in 1..Len(fifo) : fifo[i] \in Waiting /\ fifo[i] \in used
      /\ \A i, j \in 1..Len(fifo) : fifo[i] = fifo[j] => i = j
  BY <1>t, EmptySeq DEF HoldInv, Waiting, Positions
<1>1. ASSUME NEW p \in Producers, EventOf(p)
      PROVE  ListInv'
  <2>1. CASE \E t \in Tasks : Allocates(p, t)
    <3>. PICK t \in Tasks : Allocates(p, t)
      BY <2>1
    <3>1. UNCHANGED <<head, tail, fifo>> /\ UNCHANGED Appending /\ p \notin Appending
      BY <1>t, <1>1 DEF EventOf, list, Allocates, Appending
    <3>2. /\ t \notin used
          /\ next'[t] = NULL
          /\ \A u \in Tasks \ {t} : next'[u] = next[u]
      BY <1>t DEF Allocates
    <3>3. \A i \in 1..Len(fifo) : next'[fifo[i]] = next[fifo[i]]
      BY <1>t, <1>f, <3>2
    <3>4. hand'[p] = t /\ \A th \in Threads \ {p} : hand'[th] = hand[th] /\ pc'[th] = pc[th]
      BY <1>t DEF Allocates
    <3>5. \A q \in Producers : hand'[q] # NULL => next'[hand'[q]] = NULL
      BY <1>t, <1>p, <3>2, <3>4 DEF ListInv
    <3>6. \A q \in Appending : hand'[q] = hand[q]
      BY <3>1, <3>4 DEF Appending
    <3>7. \A w \in Workers : pc'[w] = "advance" => pc[w] = "advance" /\ hand'[w] = hand[w]
      BY <3>4
    <3>8. fifo # <<>> => next'[fifo[Len(fifo)]] = next[fifo[Len(fifo)]]
      BY <1>f, <3>3
    <3>9. \A i \in 1..(Len(fifo) - 1) : next'[fifo[i]] = fifo[i + 1]
      BY <1>f, <3>3 DEF ListInv
    <3>. QED  BY <3>1, <3>5, <3>6, <3>7, <3>8, <3>9 DEF ListInv
  <2>2. CASE AllocatesNothing(p)
    BY <1>t, <1>1, <2>2, ListKept DEF EventOf, AllocatesNothing, list, Appending
  <2>. QED  BY <1>1, <2>1, <2>2 DEF EventOf
<1>2. ASSUME NEW p \in Producers, SelectThread(p)
      PROVE  ListInv'
  BY <1>t, <1>2, ListKept DEF SelectThread, slots, list, Appending
<1>3. ASSUME NEW p \in Producers, RefuseTask(p)
      PROVE  ListInv'
  BY <1>t, <1>3, ListKept DEF RefuseTask, slots, list, Appending
<1>4. ASSUME NEW th \in Threads, Acquire(th)
      PROVE  ListInv'
  BY <1>t, <1>4, ListKept DEF Acquire, slots, list, Appending
<1>5. ASSUME NEW p \in Producers, PushLink(p)
      PROVE  ListInv'
  <2>1. /\ hand[p] \in Tasks /\ hand[p] \notin Waiting
        /\ next[hand[p]] = NULL
    BY <1>t, <1>p, <1>5 DEF PushLink, PushSteps, ListInv
  <2>2. Appending = {} /\ Appending' = {p}
    BY <1>t, <1>c, <1>5 DEF PushLink, Appending, Critical
  <2>3. \A w \in Workers : pc'[w] # "advance"
    BY <1>t, <1>c, <1>5 DEF PushLink, Critical
  <2>4. UNCHANGED <<hand, tail, fifo>>
    BY <1>5 DEF PushLink
  <2>5. CASE fifo = <<>>
    <3>1. UNCHANGED next /\ head' = hand[p] /\ tail = NULL
      BY <1>5, <2>2, <2>5 DEF PushLink, ListInv
    <3>. QED  BY <1>f, <2>2, <2>3, <2>4, <2>5, <3>1 DEF ListInv
  <2>6. CASE fifo # <<>>
    <3>1. tail = fifo[Len(fifo)] /\ tail \in Waiting /\ tail \in Tasks /\ head = fifo[1] /\ head # NULL
      BY <1>t, <1>f, <2>6 DEF ListInv
    <3>2. head' = head /\ next' = [next EXCEPT ![tail] = hand[p]]
      BY <1>5, <3>1 DEF PushLink
    <3>3. \A i \in 1..(Len(fifo) - 1) : next'[fifo[i]] = fifo[i + 1]
      BY <1>t, <1>f, <3>1, <3>2 DEF ListInv
    <3>4. \A q \in Producers : hand[q] # NULL => next'[hand[q]] = NULL
      BY <1>t, <1>p, <3>1, <3>2 DEF ListInv
    <3>5. next'[fifo[Len(fifo)]] = hand[p]
      BY <1>t, <3>1, <3>2
    <3>. QED  BY <2>2, <2>3, <2>4, <2>6, <3>1, <3>2, <3>3, <3>4, <3>5 DEF ListInv
  <2>. QED  BY <2>5, <2>6
<1>6. ASSUME NEW p \in Producers, PushTail(p)
      PROVE  ListInv'
  <2>1. hand[p] \in Tasks /\ hand[p] \notin Waiting /\ next[hand[p]] = NULL
    BY <1>t, <1>p, <1>6 DEF PushTail, PushSteps, ListInv
  <2>2. Appending = {p} /\ Appending' = {}
    BY <1>t, <1>c, <1>6 DEF PushTail, Appending, Critical
  <2>3. \A w \in Workers : pc'[w] # "advance"
    BY <1>t, <1>c, <1>6 DEF PushTail, Critical
  <2>4. UNCHANGED <<next, head>> /\ tail' = hand[p]
    BY <1>6 DEF PushTail, slots
  <2>5. \A q \in Producers : hand'[q] # NULL => hand'[q] = hand[q]
    BY <1>t, <1>6 DEF PushTail
  <2>6. fifo' = Append(fifo, hand[p])
    BY <1>6 DEF PushTail
  <2>7. /\ fifo' # <<>>
        /\ Len(fifo') = Len(fifo) + 1
        /\ fifo'[Len(fifo) + 1] = hand[p]
        /\ \A i \in 1..Len(fifo) : fifo'[i] = fifo[i]
    BY <1>t, <2>1, <2>6, AppendFacts
  <2>8. fifo'[1] = head
    <3>1. CASE fifo = <<>>
      BY <1>f, <2>2, <2>7, <3>1 DEF ListInv
    <3>2. CASE fifo # <<>>
      BY <1>f, <2>7, <3>2 DEF ListInv
    <3>. QED  BY <3>1, <3>2
  <2>9. \A i \in 1..(Len(fifo') - 1) : next[fifo'[i]] = fifo'[i + 1]
    <3>. SUFFICES ASSUME NEW i \in 1..Len(fifo)
                  PROVE  next[fifo'[i]] = fifo'[i + 1]
      BY <1>f, <2>7
    <3>1. CASE i = Len(fifo)
      BY <1>f, <2>2, <2>7, <3>1 DEF ListInv
    <3>2. CASE i # Len(fifo)
      BY <1>f, <2>7, <3>2 DEF ListInv
    <3>. QED  BY <3>1, <3>2
  <2>. QED  BY <2>1, <2>2, <2>3, <2>4, <2>5, <2>7, <2>8, <2>9 DEF ListInv
<1>7. ASSUME NEW th \in Threads, Release(th)
      PROVE  ListInv'
  BY <1>t, <1>7, ListKept DEF Release, slots, list, Appending
<1>8. ASSUME NEW w \in Workers, WorkerOnPoke(w)
      PROVE  ListInv'
  BY <1>t, <1>8, ListKept DEF WorkerOnPoke, slots, list, Appending
<1>9. ASSUME NEW w \in Workers, PopRead(w)
      PROVE  ListInv'
  <2>1. Appending = {} /\ Appending' = {}
    BY <1>t, <1>c, <1>9 DEF PopRead, Appending, Critical
  <2>2. \A v \in Workers : pc'[v] = "advance" => v = w
    BY <1>t, <1>c, <1>9 DEF PopRead, Critical
  <2>3. /\ UNCHANGED <<head, tail, fifo, next>>
        /\ hand'[w] = head
        /\ \A p \in Producers : hand'[p] = hand[p]
        /\ pc'[w] = "advance" => head # NULL
    BY <1>t, <1>9 DEF PopRead, list, slots
  <2>. QED  BY <2>1, <2>2, <2>3 DEF ListInv
<1>10. ASSUME NEW w \in Workers, PopAdvance(w)
      PROVE  ListInv'
  <2>1. Appending = {} /\ Appending' = {}
    BY <1>t, <1>c, <1>10 DEF PopAdvance, Appending, Critical
  <2>2. \A v \in Workers : pc'[v] # "advance"
    BY <1>t, <1>c, <1>10 DEF PopAdvance, Critical
  <2>3. /\ fifo # <<>>
        /\ hand[w] = fifo[1]
    BY <1>10 DEF PopAdvance, ListInv
  <2>4. /\ UNCHANGED <<hand, next>>
        /\ head' = next[fifo[1]]
        /\ tail' = IF next[fifo[1]] = NULL THEN NULL ELSE tail
        /\ fifo' = Tail(fifo)
    BY <1>10, <2>3 DEF PopAdvance, slots
  <2>5. /\ Len(fifo) > 0
        /\ Len(fifo') = Len(fifo) - 1
        /\ fifo' = <<>> <=> Len(fifo) = 1
        /\ \A i \in 1..(Len(fifo) - 1) : fifo'[i] = fifo[i + 1]
    BY <1>t, <2>3, <2>4, TailFacts
  <2>6. CASE Len(fifo) = 1
    BY <2>1, <2>2, <2>3, <2>4, <2>5, <2>6 DEF ListInv
  <2>7. CASE Len(fifo) # 1
    <3>1. next[fifo[1]] = fifo[2] /\ fifo[2] # NULL
      BY <1>t, <1>f, <2>5, <2>7 DEF ListInv
    <3>2. fifo' # <<>> /\ fifo'[1] = fifo[2] /\ fifo'[Len(fifo')] = fifo[Len(fifo)]
      BY <1>f, <2>5, <2>7
    <3>3. \A i \in 1..(Len(fifo') - 1) : next[fifo'[i]] = fifo'[i + 1]
      BY <1>f, <2>5 DEF ListInv
    <3>. QED  BY <2>1, <2>2, <2>3, <2>4, <3>1, <3>2, <3>3 DEF ListInv
  <2>. QED  BY <2>6, <2>7
<1>11. ASSUME NEW w \in Workers, CallScript(w)
      PROVE  ListInv'
  BY <1>t, <1>11, ListKept DEF CallScript, RunHook, slots, list, Appending
<1>12. ASSUME NEW w \in Workers, AfterDisconnectTask(w)
      PROVE  ListInv'
  BY <1>t, <1>12, ListKept DEF AfterDisconnectTask, slots, list, Appending
<1>13. ASSUME NEW w \in Workers, DelTask(w)
      PROVE  ListInv'
  BY <1>t, <1>13, ListKept DEF DelTask, list, Appending
<1>14. CASE UNCHANGED vars
  BY <1>14, ListKept DEF vars, Appending
<1>. QED
  BY ONLY StepCases, [Next]_vars, <1>1, <1>2, <1>3, <1>4, <1>5, <1>6, <1>7, <1>8, <1>9, <1>10,
          <1>11, <1>12, <1>13, <1>14
-----------------------------------------------------------------------------
(* Slots name only clients that are gone, however often they are reused. *)
CloseInv == FollowInv /\ UnregAfterClose

LEMMA SubmitFollow ==
    ASSUME TypeOK, WorkerInv, CloseInv, NEW p \in Producers, NEW j, NEW f,
           pc[p] = "idle", Submit(p, j, f),
           \A c \in Conns : conn[c] = "closed" => conn'[c] = "closed",
           conn' \in [Conns -> {"new", "open", "closed"}],
           f \in Conns => conn'[f] = "closed", f \in Conns \cup {NULL},
           HoldInv
    PROVE  CloseInv'
<1>. USE ThreadFacts DEF CloseInv, FollowInv, UnregAfterClose
<1>t. /\ pc \in [Threads -> PCs]
      /\ hand \in [Threads -> Tasks \cup {NULL}]
      /\ follow_up \in [Tasks -> Conns \cup {NULL}]
  BY DEF TypeOK
<1>1. CASE NewTask(p, j, f)
  <2>1. PICK t \in Tasks \ used :
          /\ follow_up'[t] \in {f, follow_up[t], NULL}
          /\ \A u \in Tasks \ {t} : follow_up'[u] = follow_up[u]
          /\ hand' = [hand EXCEPT ![p] = t]
          /\ pc' = [pc EXCEPT ![p] = "select"]
    BY <1>t, <1>1 DEF NewTask, Goto
  <2>2. \A u \in Tasks : follow_up'[u] # NULL => conn'[follow_up'[u]] = "closed"
    BY <1>t, <2>1
  <2>3. \A w \in Workers : pc'[w] = "follow" =>
            pc[w] = "follow" /\ hand'[w] = hand[w] /\ hand[w] \in used
    BY <1>t, <2>1 DEF HoldInv, Owns, WorkerInv
  <2>4. UNCHANGED unreg
    BY DEF Submit, effects
  <2>. QED  BY <2>1, <2>2, <2>3, <2>4 DEF TypeOK
<1>2. CASE NewTaskFails(p, j)
  BY <1>t, <1>2 DEF NewTaskFails, Submit, effects, slots, Goto
<1>. QED  BY <1>1, <1>2 DEF Submit

LEMMA CloseStep ==
    TypeOK /\ ControlInv /\ HoldInv /\ CloseInv /\ [Next]_vars => CloseInv'
<1>. SUFFICES ASSUME TypeOK, ControlInv, HoldInv, CloseInv, [Next]_vars
              PROVE  CloseInv'
  OBVIOUS
<1>. USE ThreadFacts
<1>t. /\ pc \in [Threads -> PCs]
      /\ hand \in [Threads -> Tasks \cup {NULL}]
      /\ follow_up \in [Tasks -> Conns \cup {NULL}]
      /\ conn \in [Conns -> {"new", "open", "closed"}]
      /\ unreg \in [Conns -> Nat]
  BY DEF TypeOK
<1>w. \A w \in Workers : pc[w] = "follow" => hand[w] \in Tasks
  BY <1>t DEF ControlInv, WorkerInv
<1>0. WorkerInv
  BY DEF ControlInv
<1>1. ASSUME NEW c \in Conns, NEW h, NEW j, NEW f \in Conns \cup {NULL}, Handle(c, h, j, f),
             \A d \in Conns : conn[d] = "closed" => conn'[d] = "closed",
             conn' \in [Conns -> {"new", "open", "closed"}],
             f \in Conns => conn'[f] = "closed"
      PROVE  CloseInv'
  <2>1. CASE h \in Hooks
    BY <1>0, <1>1, <2>1, SubmitFollow DEF Handle
  <2>2. CASE h \notin Hooks
    BY <1>t, <1>1, <2>2 DEF Handle, slots, threads, effects, CloseInv, FollowInv, UnregAfterClose
  <2>. QED  BY <2>1, <2>2
<1>2. ASSUME NEW c \in Conns, OnConnect(c)
      PROVE  CloseInv'
  BY <1>t, <1>1, <1>2 DEF OnConnect
<1>3. ASSUME NEW c \in Conns, OnData(c)
      PROVE  CloseInv'
  BY <1>t, <1>1, <1>3 DEF OnData
<1>4. ASSUME NEW c \in Conns, OnDisconnect(c)
      PROVE  CloseInv'
  BY <1>t, <1>1, <1>4 DEF OnDisconnect
<1>5. CASE OnBaseClock
  BY <1>0, <1>t, <1>5, SubmitFollow DEF OnBaseClock
<1>6. ASSUME NEW w \in Workers, AfterDisconnectTask(w)
      PROVE  CloseInv'
  <2>1. follow_up[hand[w]] \in Conns /\ conn[follow_up[hand[w]]] = "closed"
    BY <1>t, <1>w, <1>6 DEF AfterDisconnectTask, CloseInv, FollowInv
  <2>. QED
    BY <1>t, <1>6, <2>1
       DEF AfterDisconnectTask, Goto, outside, slots, CloseInv, FollowInv, UnregAfterClose
<1>7. ASSUME NEW w \in Workers, CallScript(w)
      PROVE  CloseInv'
  BY <1>t, <1>7
     DEF CallScript, RunHook, Goto, outside, slots, CloseInv, FollowInv, UnregAfterClose
<1>8. ASSUME UNCHANGED <<conn, follow_up, unreg>>,
             \A w \in Workers : pc'[w] = "follow" => pc[w] = "follow" /\ hand'[w] = hand[w]
      PROVE  CloseInv'
  BY <1>8 DEF CloseInv, FollowInv, UnregAfterClose
<1>9. ASSUME NEW th \in Threads, Acquire(th) \/ Release(th)
      PROVE  CloseInv'
  BY <1>t, <1>8, <1>9 DEF Acquire, Release, Goto, outside, slots, effects
<1>10. ASSUME NEW p \in Producers,
              SelectThread(p) \/ RefuseTask(p) \/ PushLink(p) \/ PushTail(p)
       PROVE  CloseInv'
  BY <1>t, <1>8, <1>10
     DEF SelectThread, RefuseTask, PushLink, PushTail, Goto, outside, slots, effects
<1>11. ASSUME NEW w \in Workers,
              WorkerOnPoke(w) \/ PopRead(w) \/ PopAdvance(w) \/ DelTask(w)
       PROVE  CloseInv'
  BY <1>t, <1>8, <1>11
     DEF WorkerOnPoke, PopRead, PopAdvance, DelTask, Goto, outside, slots, effects
<1>12. CASE UNCHANGED vars
  BY <1>8, <1>12 DEF vars
<1>13. CASE Quiescent
  BY <1>12, <1>13 DEF Quiescent
<1>. QED
  BY <1>2, <1>3, <1>4, <1>5, <1>6, <1>7, <1>9, <1>10, <1>11, <1>12, <1>13
     DEF Next, Event, Push, Work
-----------------------------------------------------------------------------
(* The invariant, put together. *)
LEMMA InvInit == Init => IInv
<1>1. Init => CloseInv
  BY ThreadFacts DEF Init, CloseInv, FollowInv, UnregAfterClose
<1>. QED
  BY <1>1, TypeInit, ControlInit, ListInit, HoldInit, HoldIsOneHolder
     DEF IInv, ControlInv, CloseInv

LEMMA InvStep == IInv /\ [Next]_vars => IInv'
<1>. SUFFICES ASSUME IInv, [Next]_vars
              PROVE  IInv'
  OBVIOUS
<1>1. TypeOK /\ ControlInv /\ ListInv /\ HoldInv /\ CloseInv
  BY HoldIsOneHolder DEF IInv, ControlInv, CloseInv
<1>2. TypeOK' /\ ControlInv' /\ ListInv' /\ HoldInv' /\ CloseInv'
  BY <1>1, TypeStep, ControlStep, ListStep, HoldStep, CloseStep DEF ControlInv
<1>3. OneHolder'
  BY <1>2, HoldIsOneHolder, PTL
<1>. QED  BY <1>2, <1>3 DEF IInv, ControlInv, CloseInv

THEOREM Invariance == Spec => []IInv
<1>. QED  BY InvInit, InvStep, PTL DEF Spec

(* Every variable of the queue, of the pool and of the threads keeps its   *)
(* type: no NULL is dereferenced by push_script_task or pop_script_task.   *)
THEOREM TypeCorrect == Spec => []TypeOK
<1>1. IInv => TypeOK
  BY DEF IInv
<1>. QED  BY <1>1, Invariance, PTL

(* Whenever task_queue_lock is free, head, tail and the next pointers are  *)
(* exactly the tasks pushed and not yet popped, in order.                  *)
THEOREM ShapeCorrect == Spec => []QueueShape
<1>1. IInv => QueueShape
  <2>. SUFFICES ASSUME IInv, lock = NULL
                PROVE  /\ head = IF fifo = <<>> THEN NULL ELSE fifo[1]
                       /\ tail = IF fifo = <<>> THEN NULL ELSE fifo[Len(fifo)]
                       /\ \A i \in Positions :
                            next[fifo[i]] = IF i = Len(fifo) THEN NULL ELSE fifo[i + 1]
    BY DEF QueueShape
  <2>1. Appending = {}
    BY ThreadFacts DEF IInv, LockInv, Appending, Critical
  <2>2. Len(fifo) \in Nat /\ (fifo = <<>> <=> Len(fifo) = 0)
    BY EmptySeq DEF IInv, TypeOK
  <2>3. ASSUME NEW i \in Positions
        PROVE  next[fifo[i]] = IF i = Len(fifo) THEN NULL ELSE fifo[i + 1]
    <3>1. CASE i = Len(fifo)
      BY <2>1, <2>2, <3>1 DEF IInv, ListInv, Positions
    <3>2. CASE i # Len(fifo)
      BY <2>1, <2>2, <3>2 DEF IInv, ListInv, Positions
    <3>. QED  BY <3>1, <3>2
  <2>. QED  BY <2>1, <2>3 DEF IInv, ListInv
<1>. QED  BY <1>1, Invariance, PTL

(* Every allocated slot is in exactly one place and every other slot in    *)
(* none: no task is served or freed twice, none is lost unless             *)
(* push_script_task refused it.                                            *)
THEOREM OwnershipCorrect == Spec => []OneHolder
<1>1. IInv => OneHolder
  BY DEF IInv
<1>. QED  BY <1>1, Invariance, PTL

(* _after_disconnect_task unregisters only clients that disconnected, even *)
(* if the pool hands out slots with an old follow_up.                      *)
THEOREM UnregCorrect == Spec => []UnregAfterClose
<1>1. IInv => UnregAfterClose
  BY DEF IInv
<1>. QED  BY <1>1, Invariance, PTL

(* push_script_task never writes into a task that a worker has taken.      *)
THEOREM WritesCorrect == Spec => NoWriteToTaken
<1>1. IInv /\ [Next]_vars =>
        [\A t \in Tasks : next'[t] # next[t] => t \in Waiting \/ t \in used' \ used]_vars
  <2>. SUFFICES ASSUME IInv, [Next]_vars, NEW t \in Tasks, next'[t] # next[t]
                PROVE  t \in Waiting \/ t \in used' \ used
    OBVIOUS
  <2>t. next \in [Tasks -> Tasks \cup {NULL}] /\ fifo \in Seq(Tasks)
    BY DEF IInv, TypeOK
  <2>1. ASSUME NEW p \in Producers, EventOf(p)
        PROVE  t \in used' \ used
    BY <2>t, <2>1 DEF EventOf, Allocates, AllocatesNothing
  <2>2. ASSUME NEW p \in Producers, PushLink(p)
        PROVE  t \in Waiting
    <3>1. tail # NULL /\ t = tail
      BY <2>t, <2>2 DEF PushLink
    <3>2. fifo # <<>> /\ tail = fifo[Len(fifo)]
      BY <3>1 DEF IInv, ListInv
    <3>3. Len(fifo) \in Positions
      BY <2>t, <3>2, EmptySeq DEF Positions
    <3>. QED  BY <3>1, <3>2, <3>3 DEF Waiting
  <2>3. ASSUME UNCHANGED next
        PROVE  FALSE
    BY <2>3
  <2>4. ASSUME NEW p \in Producers, SelectThread(p) \/ RefuseTask(p) \/ PushTail(p)
        PROVE  FALSE
    BY <2>3, <2>4 DEF SelectThread, RefuseTask, PushTail, slots
  <2>5. ASSUME NEW th \in Threads, Acquire(th) \/ Release(th)
        PROVE  FALSE
    BY <2>3, <2>5 DEF Acquire, Release, slots
  <2>6. ASSUME NEW w \in Workers,
               \/ WorkerOnPoke(w) \/ PopRead(w) \/ PopAdvance(w)
               \/ CallScript(w) \/ AfterDisconnectTask(w) \/ DelTask(w)
        PROVE  FALSE
    BY <2>3, <2>6
       DEF WorkerOnPoke, PopRead, PopAdvance, CallScript, RunHook, AfterDisconnectTask, DelTask, slots
  <2>7. CASE UNCHANGED vars
    BY <2>3, <2>7 DEF vars
  <2>. QED  BY ONLY StepCases, [Next]_vars, <2>1, <2>2, <2>4, <2>5, <2>6, <2>7
<1>. QED  BY <1>1, Invariance, PTL DEF Spec, NoWriteToTaken
-----------------------------------------------------------------------------
(* Refinement.  A push appends to the abstract queue when the tail moves,  *)
(* a pop takes from it when the head moves (or when it read NULL), and     *)
(* freeing the task, or leaving with NULL, finishes it.                    *)
LEMMA GotFacts ==
    ASSUME IInv
    PROVE  \A w \in Workers :
             /\ pc[w] \in {"idle", "lock", "read", "advance"} => Got(w) = NULL
             /\ pc[w] \in {"call", "follow", "free"} => Got(w) = hand[w]
             /\ pc[w] = "unlock" => Got(w) = IF hand[w] = NULL THEN EMPTY ELSE hand[w]
BY DEF IInv, WorkerInv, Got, Owns

LEMMA FifoInit == Init => Fifo!Init
BY ThreadFacts DEF Init, Fifo!Init, Got, Owns

LEMMA FifoKept ==
    ASSUME UNCHANGED fifo, \A w \in Workers : Got(w)' = Got(w)
    PROVE  UNCHANGED Fifo!vars
BY DEF Fifo!vars

LEMMA GotChanges ==
    ASSUME NEW w \in Workers, NEW x, Got(w)' = x,
           \A v \in Workers \ {w} : Got(v)' = Got(v)
    PROVE  /\ [v \in Workers |-> Got(v)]' = [[v \in Workers |-> Got(v)] EXCEPT ![w] = x]
           /\ [v \in Workers |-> Got(v)][w] = Got(w)
<1>1. \A v \in Workers : Got(v)' = IF v = w THEN x ELSE Got(v)
  OBVIOUS
<1>2. [v \in Workers |-> Got(v)]' = [v \in Workers |-> IF v = w THEN x ELSE Got(v)]
  BY <1>1
<1>. QED  BY <1>2

LEMMA FifoStep == IInv /\ IInv' /\ [Next]_vars => [Fifo!Next]_(Fifo!vars)
<1>. SUFFICES ASSUME IInv, IInv', [Next]_vars
              PROVE  Fifo!Next \/ UNCHANGED Fifo!vars
  OBVIOUS
<1>. USE ThreadFacts DEF Goto
<1>t. /\ pc \in [Threads -> PCs]
      /\ hand \in [Threads -> Tasks \cup {NULL}]
      /\ head \in Tasks \cup {NULL}
      /\ fifo \in Seq(Tasks)
  BY DEF IInv, TypeOK
<1>w. \A w \in Workers :
        /\ pc[w] \in {"idle", "lock", "read"} => hand[w] = NULL
        /\ pc[w] \in {"advance", "call", "follow", "free"} => hand[w] # NULL
  BY DEF IInv, WorkerInv
<1>g. /\ \A w \in Workers :
             /\ pc[w] \in {"idle", "lock", "read", "advance"} => Got(w) = NULL
             /\ pc[w] \in {"call", "follow", "free"} => Got(w) = hand[w]
             /\ pc[w] = "unlock" => Got(w) = IF hand[w] = NULL THEN EMPTY ELSE hand[w]
  BY GotFacts
<1>h. HoldInv
  BY HoldIsOneHolder DEF IInv
<1>1. ASSUME NEW p \in Producers, EventOf(p)
      PROVE  UNCHANGED Fifo!vars
  <2>1. UNCHANGED fifo
    BY <1>1 DEF EventOf, list
  <2>2. \A w \in Workers : hand'[w] = hand[w] /\ pc'[w] = pc[w]
    BY <1>t, <1>1 DEF EventOf, Allocates, AllocatesNothing
  <2>. QED  BY <2>1, <2>2, FifoKept DEF Got, Owns
<1>2. ASSUME NEW p \in Producers, SelectThread(p) \/ RefuseTask(p) \/ PushLink(p)
      PROVE  UNCHANGED Fifo!vars
  <2>1. UNCHANGED fifo
    BY <1>2 DEF SelectThread, RefuseTask, PushLink, list
  <2>2. \A w \in Workers : hand'[w] = hand[w] /\ pc'[w] = pc[w]
    BY <1>t, <1>2 DEF SelectThread, RefuseTask, PushLink
  <2>. QED  BY <2>1, <2>2, FifoKept DEF Got, Owns
<1>3. ASSUME NEW p \in Producers, PushTail(p)
      PROVE  Fifo!Push(hand[p])
  <2>1. Owns(p) /\ hand[p] \notin Waiting
    BY <1>h, <1>3 DEF PushTail, Owns, IInv, ProducerInv, PushSteps, HoldInv
  <2>2. ~Fifo!Queued(hand[p])
    BY <2>1 DEF Fifo!Queued, Waiting, Positions
  <2>3. ASSUME NEW w \in Workers
        PROVE  Got(w) # hand[p]
    <3>1. hand[p] \in Tasks
      BY <1>t, <2>1 DEF Owns
    <3>2. CASE Owns(w)
      BY <1>h, <2>1, <3>1, <3>2 DEF HoldInv, Got
    <3>3. CASE ~Owns(w)
      BY <3>1, <3>3 DEF Got
    <3>. QED  BY <3>2, <3>3
  <2>4. \A w \in Workers : hand'[w] = hand[w] /\ pc'[w] = pc[w]
    BY <1>t, <1>3 DEF PushTail
  <2>5. \A w \in Workers : Got(w)' = Got(w)
    BY <2>4 DEF Got, Owns
  <2>. QED  BY <1>3, <2>2, <2>3, <2>5 DEF Fifo!Push, PushTail
<1>4. ASSUME NEW th \in Threads, Acquire(th)
      PROVE  UNCHANGED Fifo!vars
  <2>1. UNCHANGED fifo
    BY <1>4 DEF Acquire, list
  <2>2. \A w \in Workers : Got(w)' = Got(w)
    BY <1>t, <1>w, <1>4 DEF Acquire, Got, Owns
  <2>. QED  BY <2>1, <2>2, FifoKept
<1>5. ASSUME NEW w \in Workers, Got(w) # NULL, Got(w)' = NULL, UNCHANGED fifo,
             \A v \in Workers \ {w} : Got(v)' = Got(v)
      PROVE  Fifo!Finish(w)
  BY <1>5, GotChanges DEF Fifo!Finish
<1>6. ASSUME NEW th \in Threads, Release(th)
      PROVE  Fifo!Next \/ UNCHANGED Fifo!vars
  <2>1. UNCHANGED <<fifo, hand>>
    BY <1>6 DEF Release, list
  <2>2. CASE th \in Workers /\ hand[th] = NULL
    <3>1. Got(th) # NULL /\ Got(th)' = NULL
      BY <1>t, <1>6, <2>1, <2>2 DEF Release, Got, Owns
    <3>2. \A v \in Workers \ {th} : Got(v)' = Got(v)
      BY <1>t, <1>6, <2>1 DEF Release, Got, Owns
    <3>. QED  BY <1>5, <2>1, <2>2, <3>1, <3>2 DEF Fifo!Next
  <2>3. CASE ~(th \in Workers /\ hand[th] = NULL)
    <3>1. \A v \in Workers : Got(v)' = Got(v)
      BY <1>t, <1>6, <2>1, <2>3 DEF Release, Got, Owns
    <3>. QED  BY <2>1, <3>1, FifoKept
  <2>. QED  BY <2>2, <2>3
<1>7. ASSUME NEW w \in Workers, WorkerOnPoke(w)
      PROVE  UNCHANGED Fifo!vars
  <2>1. UNCHANGED fifo
    BY <1>7 DEF WorkerOnPoke, list
  <2>2. \A v \in Workers : Got(v)' = Got(v)
    BY <1>t, <1>w, <1>7 DEF WorkerOnPoke, Got, Owns
  <2>. QED  BY <2>1, <2>2, FifoKept
<1>8. ASSUME NEW w \in Workers, PopRead(w)
      PROVE  Fifo!Next \/ UNCHANGED Fifo!vars
  <2>1. UNCHANGED fifo
    BY <1>8 DEF PopRead, list
  <2>2. \A v \in Workers \ {w} : Got(v)' = Got(v)
    BY <1>t, <1>8 DEF PopRead, Got, Owns
  <2>3. CASE head = NULL
    <3>1. Got(w) = NULL /\ Got(w)' = EMPTY
      BY <1>t, <1>w, <1>8, <2>3 DEF PopRead, Got, Owns
    <3>2. fifo = <<>>
      <4>1. fifo # <<>> => head = fifo[1] /\ fifo[1] \in Tasks
        BY <1>t, EmptySeq DEF IInv, ListInv
      <4>. QED  BY <2>3, <4>1
    <3>3. Fifo!Miss(w)
      BY <2>1, <2>2, <3>1, <3>2, GotChanges DEF Fifo!Miss
    <3>. QED  BY <3>3 DEF Fifo!Next
  <2>4. CASE head # NULL
    <3>1. Got(w) = NULL /\ Got(w)' = NULL
      BY <1>t, <1>w, <1>8, <2>4 DEF PopRead, Got, Owns
    <3>. QED  BY <2>1, <2>2, <3>1, FifoKept
  <2>. QED  BY <2>3, <2>4
<1>9. ASSUME NEW w \in Workers, PopAdvance(w)
      PROVE  Fifo!Take(w)
  <2>1. fifo # <<>> /\ hand[w] = fifo[1] /\ hand[w] # NULL
    BY <1>w, <1>9 DEF PopAdvance, IInv, ListInv
  <2>2. UNCHANGED hand /\ fifo' = Tail(fifo)
    BY <1>9, <2>1 DEF PopAdvance
  <2>3. Got(w) = NULL /\ Got(w)' = Head(fifo)
    BY <1>t, <1>9, <2>1, <2>2 DEF PopAdvance, Got, Owns
  <2>4. \A v \in Workers \ {w} : Got(v)' = Got(v)
    BY <1>t, <1>9, <2>2 DEF PopAdvance, Got, Owns
  <2>. QED  BY <2>1, <2>2, <2>3, <2>4 DEF Fifo!Take
<1>10. ASSUME NEW w \in Workers, CallScript(w) \/ AfterDisconnectTask(w)
       PROVE  UNCHANGED Fifo!vars
  <2>1. UNCHANGED <<fifo, hand>>
    BY <1>10 DEF CallScript, RunHook, AfterDisconnectTask, list
  <2>2. \A v \in Workers : Got(v)' = Got(v)
    BY <1>t, <1>w, <1>10, <2>1 DEF CallScript, RunHook, AfterDisconnectTask, Got, Owns
  <2>. QED  BY <2>1, <2>2, FifoKept
<1>11. ASSUME NEW w \in Workers, DelTask(w)
       PROVE  Fifo!Finish(w)
  <2>1. Got(w) # NULL /\ Got(w)' = NULL
    BY <1>t, <1>w, <1>g, <1>11 DEF DelTask, Got, Owns
  <2>2. \A v \in Workers \ {w} : Got(v)' = Got(v)
    BY <1>t, <1>11 DEF DelTask, Got, Owns
  <2>3. UNCHANGED fifo
    BY <1>11 DEF DelTask, list
  <2>. QED  BY <1>5, <2>1, <2>2, <2>3
<1>12. CASE UNCHANGED vars
  BY <1>12, FifoKept DEF vars, Got, Owns
<1>13. ASSUME NEW p \in Producers, PushTail(p)
       PROVE  Fifo!Next
  <2>1. hand[p] \in Tasks
    BY <1>t, <1>13 DEF PushTail, IInv, ProducerInv, PushSteps
  <2>. QED  BY <1>3, <1>13, <2>1 DEF Fifo!Next
<1>14. ASSUME NEW w \in Workers, PopAdvance(w) \/ DelTask(w)
       PROVE  Fifo!Next
  BY <1>9, <1>11, <1>14 DEF Fifo!Next
<1>. QED
  BY ONLY StepCases, [Next]_vars, <1>1, <1>2, <1>4, <1>6, <1>7, <1>8, <1>10, <1>12, <1>13, <1>14

(* The pointer queue under its lock is a FIFO queue: each task goes to one *)
(* worker, in the order of the pushes, and NULL means empty.               *)
THEOREM Refinement == Spec => FifoSpec
<1>. QED  BY FifoInit, FifoStep, Invariance, PTL DEF Spec, FifoSpec, Fifo!Spec
-----------------------------------------------------------------------------
(* Notifications, counted as a set of pairs. *)
LEMMA NoticeFacts ==
    /\ \A w, k : <<w, k>> \in Notices <=> w \in Workers /\ k \in Pending(w)
    /\ \A n \in Notices : n = <<n[1], n[2]>>
BY DEF Notices

LEMMA NoticesFinite == TypeOK => IsFiniteSet(Notices)
<1>. SUFFICES ASSUME TypeOK
              PROVE  IsFiniteSet(Notices)
  OBVIOUS
<1>. DEFINE f == [w \in Workers |-> {w} \X Pending(w)]
            S == {f[w] : w \in Workers}
<1>1. ASSUME NEW w \in Workers
      PROVE  IsFiniteSet(f[w])
  <2>1. IsFiniteSet({w}) /\ IsFiniteSet(Pending(w))
    <3>1. 0 \in Int /\ 1 \in Int /\ pokes[w] \in Int
      BY DEF TypeOK
    <3>. QED  BY <3>1, FS_Singleton, FS_Interval DEF Pending
  <2>. QED  BY <2>1, FS_Product
<1>2. IsFiniteSet(Workers)
  BY ScriptQueueAssumption, FS_Interval DEF Workers
<1>3. Notices = UNION S
  BY DEF Notices
<1>4. f \in Surjection(Workers, S)
  BY DEF Surjection
<1>. HIDE DEF f
<1>5. IsFiniteSet(S)
  BY <1>2, <1>4, FS_Surjection
<1>. QED  BY <1>1, <1>3, <1>5, FS_UNION

(* The queue is as long as it was and no notification has gone. *)
LEMMA PokesKept ==
    ASSUME TypeOK, TypeOK', PokesCoverQueue, UNCHANGED fifo,
           \A w \in Workers : Pending(w) \subseteq Pending(w)'
    PROVE  PokesCoverQueue'
<1>1. Notices \subseteq Notices'
  BY DEF Notices
<1>2. IsFiniteSet(Notices')
  <2>1. TypeOK' => IsFiniteSet(Notices)'
    BY NoticesFinite, PTL
  <2>. QED  BY <2>1
<1>3. Cardinality(Notices) <= Cardinality(Notices')
  BY <1>1, <1>2, FS_Subset
<1>4. /\ Cardinality(Notices) \in Nat /\ Cardinality(Notices') \in Nat
      /\ Len(fifo) \in Nat
  BY <1>2, NoticesFinite, FS_CardinalityType DEF TypeOK
<1>. QED  BY <1>3, <1>4 DEF PokesCoverQueue

LEMMA PokesStep ==
    IInv /\ IInv' /\ CountedPokes /\ Scripted = Workers /\ PokesCoverQueue /\ [Next]_vars
        => PokesCoverQueue'
<1>. SUFFICES ASSUME IInv, IInv', CountedPokes, Scripted = Workers, PokesCoverQueue,
                     [Next]_vars
              PROVE  PokesCoverQueue'
  OBVIOUS
<1>. USE ThreadFacts
<1>t. /\ TypeOK /\ TypeOK'
      /\ pc \in [Threads -> PCs]
      /\ pokes \in [Workers -> Nat]
      /\ hand \in [Threads -> Tasks \cup {NULL}]
      /\ fifo \in Seq(Tasks)
      /\ \A w \in Workers : pokes[w] \in Nat
  BY DEF IInv, TypeOK
<1>f. /\ IsFiniteSet(Notices) /\ IsFiniteSet(Notices')
      /\ Cardinality(Notices) \in Nat /\ Cardinality(Notices') \in Nat
      /\ Len(fifo) \in Nat
  <2>1. TypeOK' => IsFiniteSet(Notices)'
    BY NoticesFinite, PTL
  <2>. QED  BY <1>t, <2>1, NoticesFinite, FS_CardinalityType
<1>1. ASSUME UNCHANGED fifo, \A w \in Workers : Pending(w) \subseteq Pending(w)'
      PROVE  PokesCoverQueue'
  BY <1>t, <1>1, PokesKept
<1>2. ASSUME NEW p \in Producers, EventOf(p)
      PROVE  PokesCoverQueue'
  BY <1>t, <1>1, <1>2 DEF EventOf, Allocates, AllocatesNothing, Pending, list
<1>3. ASSUME NEW p \in Producers, SelectThread(p) \/ RefuseTask(p) \/ PushLink(p)
      PROVE  PokesCoverQueue'
  BY <1>t, <1>1, <1>3 DEF SelectThread, RefuseTask, PushLink, Goto, Pending, list
<1>4. ASSUME NEW p \in Producers, PushTail(p)
      PROVE  PokesCoverQueue'
  <2>0. target[p] \in Workers /\ hand[p] \in Tasks
    BY <1>t, <1>4 DEF PushTail, IInv, ProducerInv, PushSteps
  <2>1. PICK w \in Workers :
          /\ fifo' = Append(fifo, hand[p]) /\ hand[p] \in Tasks
          /\ pokes' = [pokes EXCEPT ![w] = @ + 1]
          /\ pc' = [pc EXCEPT ![p] = "unlock"]
    BY <2>0, <1>4 DEF PushTail, Goto
  <2>n. PICK n : n = <<w, pokes[w] + 1>>
    OBVIOUS
  <2>2. Len(fifo') = Len(fifo) + 1
    BY <1>t, <2>1, AppendFacts
  <2>3. n \notin Notices
    <3>1. pokes[w] + 1 \notin Pending(w)
      BY <1>t DEF Pending
    <3>. QED  BY <2>n, <3>1, NoticeFacts
  <2>4. Notices \cup {n} \subseteq Notices'
    <3>1. \A v \in Workers : Pending(v) \subseteq Pending(v)'
      BY <1>t, <2>1 DEF Pending
    <3>2. pokes[w] + 1 \in Pending(w)'
      BY <1>t, <2>1 DEF Pending
    <3>. QED  BY <2>1, <2>n, <3>1, <3>2 DEF Notices
  <2>5. Cardinality(Notices) + 1 <= Cardinality(Notices')
    <3>1. Cardinality(Notices \cup {n}) = Cardinality(Notices) + 1
      BY <1>f, <2>3, FS_AddElement
    <3>. QED  BY <1>f, <2>4, <3>1, FS_Subset
  <2>. QED  BY <1>f, <2>2, <2>5 DEF PokesCoverQueue
<1>5. ASSUME NEW th \in Threads, Acquire(th) \/ Release(th)
      PROVE  PokesCoverQueue'
  BY <1>t, <1>1, <1>5 DEF Acquire, Release, Goto, Pending, list
<1>6. ASSUME NEW w \in Workers, WorkerOnPoke(w)
      PROVE  PokesCoverQueue'
  <2>p. PICK o, z : o = <<w, pokes[w]>> /\ z = <<w, 0>>
    OBVIOUS
  <2>1. /\ pc[w] = "idle" /\ pokes[w] > 0
        /\ pokes' = [pokes EXCEPT ![w] = @ - 1]
        /\ pc' = [pc EXCEPT ![w] = "lock"]
        /\ UNCHANGED fifo
    BY <1>6 DEF WorkerOnPoke, Goto, list
  <2>2. o \in Notices /\ z \notin Notices
    <3>1. pokes[w] \in Pending(w) /\ 0 \notin Pending(w)
      BY <1>t, <2>1 DEF Pending
    <3>. QED  BY <2>p, <3>1, NoticeFacts
  <2>3. (Notices \ {o}) \cup {z} \subseteq Notices'
    <3>1. \A v \in Workers \ {w} : Pending(v)' = Pending(v)
      BY <1>t, <2>1 DEF Pending
    <3>2. (Pending(w) \ {pokes[w]}) \cup {0} \subseteq Pending(w)'
      BY <1>t, <2>1 DEF Pending
    <3>. QED  BY <2>p, <3>1, <3>2 DEF Notices
  <2>4. Cardinality((Notices \ {o}) \cup {z}) = Cardinality(Notices)
    <3>1. /\ IsFiniteSet(Notices \ {o})
          /\ Cardinality(Notices \ {o}) = Cardinality(Notices) - 1
      BY <1>f, <2>2, FS_RemoveElement
    <3>2. z \notin Notices \ {o}
      BY <2>2
    <3>3. Cardinality((Notices \ {o}) \cup {z}) = Cardinality(Notices \ {o}) + 1
      BY <3>1, <3>2, FS_AddElement
    <3>. QED  BY <1>f, <3>1, <3>3
  <2>5. Cardinality(Notices) <= Cardinality(Notices')
    BY <1>f, <2>3, <2>4, FS_Subset
  <2>. QED  BY <1>f, <2>1, <2>5 DEF PokesCoverQueue
<1>7. ASSUME NEW w \in Workers, PopRead(w)
      PROVE  PokesCoverQueue'
  <2>1. UNCHANGED fifo
    BY <1>7 DEF PopRead, list
  <2>2. CASE head = NULL
    <3>1. fifo = <<>>
      <4>1. fifo # <<>> => fifo[1] \in Tasks
        BY <1>t, EmptySeq
      <4>. QED  BY <2>2, <4>1 DEF IInv, ListInv
    <3>. QED  BY <1>f, <2>1, <3>1 DEF PokesCoverQueue
  <2>3. CASE head # NULL
    BY <1>t, <1>1, <1>7, <2>1, <2>3 DEF PopRead, Goto, Pending
  <2>. QED  BY <2>2, <2>3
<1>8. ASSUME NEW w \in Workers, PopAdvance(w)
      PROVE  PokesCoverQueue'
  <2>z. PICK z : z = <<w, 0>>
    OBVIOUS
  <2>1. /\ pc[w] = "advance"
        /\ fifo' = IF fifo = <<>> THEN fifo ELSE Tail(fifo)
        /\ pc' = [pc EXCEPT ![w] = "unlock"]
        /\ UNCHANGED pokes
    BY <1>8 DEF PopAdvance, Goto
  <2>2. Len(fifo') = Len(fifo) - 1
    BY <1>t, <2>1, TailFacts DEF IInv, ListInv
  <2>3. z \in Notices
    BY <1>t, <2>1, <2>z, NoticeFacts DEF Pending
  <2>4. Notices \ {z} \subseteq Notices'
    <3>1. \A v \in Workers \ {w} : Pending(v)' = Pending(v)
      BY <1>t, <2>1 DEF Pending
    <3>2. Pending(w) \ {0} \subseteq Pending(w)'
      BY <1>t, <2>1 DEF Pending
    <3>. QED  BY <2>z, <3>1, <3>2 DEF Notices
  <2>5. Cardinality(Notices) - 1 <= Cardinality(Notices')
    <3>1. Cardinality(Notices \ {z}) = Cardinality(Notices) - 1
      BY <1>f, <2>3, FS_RemoveElement
    <3>. QED  BY <1>f, <2>4, <3>1, FS_Subset
  <2>. QED  BY <1>f, <2>2, <2>5 DEF PokesCoverQueue
<1>9. ASSUME NEW w \in Workers, CallScript(w) \/ AfterDisconnectTask(w) \/ DelTask(w)
      PROVE  PokesCoverQueue'
  BY <1>t, <1>1, <1>9 DEF CallScript, AfterDisconnectTask, DelTask, Goto, Pending, list
<1>10. CASE UNCHANGED vars
  BY <1>1, <1>10 DEF vars, Pending
<1>. QED
  BY StepCases, <1>2, <1>3, <1>4, <1>5, <1>6, <1>7, <1>8, <1>9, <1>10

(* For every task that waits a notification is pending or being answered,  *)
(* if every poke is delivered and every worker has a script: a worker that *)
(* finds the queue empty has left nobody's task behind (push_script_task,  *)
(* _worker_on_poke).                                                       *)
THEOREM PokesCorrect ==
    Spec /\ CountedPokes /\ Scripted = Workers => []PokesCoverQueue
<1>1. Init => PokesCoverQueue
  <2>. SUFFICES ASSUME Init
                PROVE  PokesCoverQueue
    OBVIOUS
  <2>1. Len(fifo) = 0
    BY DEF Init
  <2>2. Cardinality(Notices) \in Nat
    BY TypeInit, NoticesFinite, FS_CardinalityType
  <2>. QED  BY <2>1, <2>2 DEF PokesCoverQueue
<1>2. (CountedPokes => CountedPokes') /\ (Scripted = Workers => (Scripted = Workers)')
  BY DEF Workers
<1>. QED  BY <1>1, <1>2, InvInit, InvStep, PokesStep, PTL DEF Spec
=============================================================================
