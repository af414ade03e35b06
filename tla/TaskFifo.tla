------------------------------ MODULE TaskFifo ------------------------------
(***************************************************************************)
(* What the script-task queue of server/script.c promises to the threads   *)
(* that use it, without pointers, lock or notifications: tasks leave it in *)
(* the order in which they entered, each is handed to exactly one worker,  *)
(* and a worker is told "nothing to do" only when the queue is empty.      *)
(***************************************************************************)
EXTENDS Naturals, Sequences

CONSTANTS
    Tasks,      \* the task structures
    Workers,    \* the threads that take tasks
    Nothing,    \* stands for a worker that has no answer from the queue
    Empty       \* the answer of an empty queue; neither is a task

VARIABLES
    queue,      \* the tasks waiting, in order
    got         \* what each worker was last given and still holds

vars == <<queue, got>>

Queued(t) == \E i \in 1..Len(queue) : queue[i] = t

Init ==
    /\ queue = <<>>
    /\ got = [w \in Workers |-> Nothing]

(* A task enters at the back; it is neither waiting already nor in use. *)
Push(t) ==
    /\ ~Queued(t)
    /\ \A w \in Workers : got[w] # t
    /\ queue' = Append(queue, t)
    /\ UNCHANGED got

(* A worker takes the task at the front. *)
Take(w) ==
    /\ got[w] = Nothing
    /\ queue # <<>>
    /\ got' = [got EXCEPT ![w] = Head(queue)]
    /\ queue' = Tail(queue)

(* A worker finds nothing to do, which it may only in an empty queue. *)
Miss(w) ==
    /\ got[w] = Nothing
    /\ queue = <<>>
    /\ got' = [got EXCEPT ![w] = Empty]
    /\ UNCHANGED queue

(* A worker is through with what it was given. *)
Finish(w) ==
    /\ got[w] # Nothing
    /\ got' = [got EXCEPT ![w] = Nothing]
    /\ UNCHANGED queue

Next ==
    \/ \E t \in Tasks : Push(t)
    \/ \E w \in Workers : Take(w) \/ Miss(w) \/ Finish(w)

Spec == Init /\ [][Next]_vars

(* Whatever waits is eventually taken, and whatever is taken is finished. *)
Fairness ==
    /\ WF_vars(\E w \in Workers : Take(w))
    /\ \A w \in Workers : WF_vars(Finish(w))
=============================================================================
