------------------------------ MODULE TaskPool ------------------------------
(***************************************************************************)
(* What a pool of workers promises to the code that calls enqueue() and    *)
(* future::get(): tasks accepted while the pool is open are started in the *)
(* order of acceptance, each is run once, and the pool is gone only after  *)
(* every accepted task has its result.  Workers, the mutex and the         *)
(* condition variable do not appear: ThreadPool.tla has them and           *)
(* implements this specification.                                          *)
(***************************************************************************)
EXTENDS Naturals, Sequences

CONSTANT Tasks          \* identities of the packaged tasks

VARIABLES
    waiting,            \* accepted tasks not started yet, oldest first
    future,             \* state of the std::future of every task
    life                \* "open", "closed" (stop seen by enqueue), "gone"

poolVars == <<waiting, future, life>>

Init ==
    /\ waiting = <<>>
    /\ future = [t \in Tasks |-> "none"]
    /\ life = "open"

(* enqueue() on an open pool hands out a future and appends the task. *)
Accept(t) ==
    /\ life = "open"
    /\ future[t] = "none"
    /\ waiting' = Append(waiting, t)
    /\ future' = [future EXCEPT ![t] = "queued"]
    /\ UNCHANGED life

(* enqueue() on a closed pool throws. *)
Refuse(t) ==
    /\ life = "closed"
    /\ future[t] = "none"
    /\ future' = [future EXCEPT ![t] = "refused"]
    /\ UNCHANGED <<waiting, life>>

Start ==
    /\ waiting # <<>>
    /\ future' = [future EXCEPT ![Head(waiting)] = "running"]
    /\ waiting' = Tail(waiting)
    /\ UNCHANGED life

Complete(t) ==
    /\ future[t] = "running"
    /\ future' = [future EXCEPT ![t] = "ready"]
    /\ UNCHANGED <<waiting, life>>

Close ==
    /\ life = "open"
    /\ life' = "closed"
    /\ UNCHANGED <<waiting, future>>

Gone ==
    /\ life = "closed"
    /\ \A t \in Tasks : future[t] \notin {"queued", "running"}
    /\ life' = "gone"
    /\ UNCHANGED <<waiting, future>>

Next ==
    \/ \E t \in Tasks : Accept(t) \/ Refuse(t) \/ Complete(t)
    \/ Start \/ Close \/ Gone

Spec == Init /\ [][Next]_poolVars
=============================================================================
