----------------------------- MODULE ThreadPool -----------------------------
(***************************************************************************)
(* inc/ThreadPool.h: a fixed set of workers, a task queue under one mutex, *)
(* one condition variable and a stop flag.                                 *)
(*                                                                         *)
(* A critical section under queue_mutex is one step.  What the code does   *)
(* outside the mutex is a step of its own: notify_one and notify_all come  *)
(* after the unlock, a task runs unlocked.  condition.wait(lock, pred) is  *)
(* "test pred and go to sleep" in one step (the wait releases the mutex    *)
(* atomically), and a sleeper that is notified, or wakes spuriously, tests *)
(* pred again.                                                             *)
(***************************************************************************)
EXTENDS Naturals, Sequences, FiniteSets

CONSTANTS
    Workers,            \* the threads the constructor launches
    Tasks,              \* identities of the packaged tasks
    Callers,            \* threads that call enqueue
    NoTask              \* "no task in hand"

ASSUME PoolAssumption ==
    /\ Workers # {} /\ IsFiniteSet(Workers)
    /\ IsFiniteSet(Callers)
    /\ NoTask \notin Tasks

VARIABLES
    tasks,              \* ThreadPool::tasks
    stop,               \* ThreadPool::stop
    wpc,                \* worker: "test" pred, "asleep", "run", "exited"
    hand,               \* worker: the local variable task
    cpc,                \* caller: "idle", or "notify" before notify_one
    dpc,                \* destructor: "none", "notify", "join", "done"
    future              \* shared state of the future of every task

vars == <<tasks, stop, wpc, hand, cpc, dpc, future>>

Init ==
    /\ tasks = <<>>
    /\ stop = FALSE
    /\ wpc = [w \in Workers |-> "test"]
    /\ hand = [w \in Workers |-> NoTask]
    /\ cpc = [c \in Callers |-> "idle"]
    /\ dpc = "none"
    /\ future = [t \in Tasks |-> "none"]

(* enqueue(), up to the end of the locked block.  The pool object must     *)
(* still exist; on a stopped pool the call throws and no future is made.   *)
Enqueue(c, t) ==
    /\ cpc[c] = "idle"
    /\ dpc # "done"
    /\ future[t] = "none"
    /\ \/ /\ stop
          /\ future' = [future EXCEPT ![t] = "refused"]
          /\ UNCHANGED <<tasks, cpc>>
       \/ /\ ~stop
          /\ tasks' = Append(tasks, t)
          /\ future' = [future EXCEPT ![t] = "queued"]
          /\ cpc' = [cpc EXCEPT ![c] = "notify"]
    /\ UNCHANGED <<stop, wpc, hand, dpc>>

Asleep == {w \in Workers : wpc[w] = "asleep"}

\* Mutant: the notification is lost.
NotifyOneLost(c) ==
    /\ cpc[c] = "notify"
    /\ cpc' = [cpc EXCEPT ![c] = "idle"]
    /\ UNCHANGED <<tasks, stop, wpc, hand, dpc, future>>

(* condition.notify_one() after the unlock: wakes one sleeper if any. *)
NotifyOne(c) ==
    /\ cpc[c] = "notify"
    /\ cpc' = [cpc EXCEPT ![c] = "idle"]
    /\ \/ /\ Asleep = {}
          /\ UNCHANGED wpc
       \/ \E w \in Asleep : wpc' = [wpc EXCEPT ![w] = "test"]
    /\ UNCHANGED <<tasks, stop, hand, dpc, future>>

(* condition.wait: the predicate is false, the worker sleeps. *)
Sleep(w) ==
    /\ wpc[w] = "test"
    /\ ~stop
    /\ tasks = <<>>
    /\ wpc' = [wpc EXCEPT ![w] = "asleep"]
    /\ UNCHANGED <<tasks, stop, hand, cpc, dpc, future>>

SpuriousWakeup(w) ==
    /\ wpc[w] = "asleep"
    /\ wpc' = [wpc EXCEPT ![w] = "test"]
    /\ UNCHANGED <<tasks, stop, hand, cpc, dpc, future>>

(* if (stop && tasks.empty()) return; *)
Exit(w) ==
    /\ wpc[w] = "test"
    /\ stop
    /\ tasks = <<>>
    /\ wpc' = [wpc EXCEPT ![w] = "exited"]
    /\ UNCHANGED <<tasks, stop, hand, cpc, dpc, future>>

\* Mutant: front() without pop().
TakeNoPop(w) ==
    /\ wpc[w] = "test"
    /\ tasks # <<>>
    /\ hand' = [hand EXCEPT ![w] = Head(tasks)]
    /\ future' = [future EXCEPT ![Head(tasks)] = "running"]
    /\ wpc' = [wpc EXCEPT ![w] = "run"]
    /\ UNCHANGED <<tasks, stop, cpc, dpc>>

\* Mutant: the queue is used as a stack.
TakeNewest(w) ==
    /\ wpc[w] = "test"
    /\ tasks # <<>>
    /\ LET t == tasks[Len(tasks)] IN
         /\ hand' = [hand EXCEPT ![w] = t]
         /\ future' = [future EXCEPT ![t] = "running"]
    /\ tasks' = SubSeq(tasks, 1, Len(tasks) - 1)
    /\ wpc' = [wpc EXCEPT ![w] = "run"]
    /\ UNCHANGED <<stop, cpc, dpc>>

(* task = move(tasks.front()); tasks.pop(); *)
Take(w) ==
    /\ wpc[w] = "test"
    /\ tasks # <<>>
    /\ hand' = [hand EXCEPT ![w] = Head(tasks)]
    /\ future' = [future EXCEPT ![Head(tasks)] = "running"]
    /\ tasks' = Tail(tasks)
    /\ wpc' = [wpc EXCEPT ![w] = "run"]
    /\ UNCHANGED <<stop, cpc, dpc>>

(* task() returns: the packaged task has set the future's result. *)
Run(w) ==
    /\ wpc[w] = "run"
    /\ future' = [future EXCEPT ![hand[w]] = "ready"]
    /\ hand' = [hand EXCEPT ![w] = NoTask]
    /\ wpc' = [wpc EXCEPT ![w] = "test"]
    /\ UNCHANGED <<tasks, stop, cpc, dpc>>

(* ~ThreadPool: set stop under the lock ... *)
SetStop ==
    /\ dpc = "none"
    /\ stop' = TRUE
    /\ dpc' = "notify"
    /\ UNCHANGED <<tasks, wpc, hand, cpc, future>>

\* Mutant: notify_one() where notify_all() is needed.
NotifyAllButOne ==
    /\ dpc = "notify"
    /\ \/ Asleep = {} /\ UNCHANGED wpc
       \/ \E w \in Asleep : wpc' = [wpc EXCEPT ![w] = "test"]
    /\ dpc' = "join"
    /\ UNCHANGED <<tasks, stop, hand, cpc, future>>

(* ... condition.notify_all() ... *)
NotifyAll ==
    /\ dpc = "notify"
    /\ wpc' = [w \in Workers |-> IF wpc[w] = "asleep" THEN "test" ELSE wpc[w]]
    /\ dpc' = "join"
    /\ UNCHANGED <<tasks, stop, hand, cpc, future>>

(* ... and join every worker. *)
Join ==
    /\ dpc = "join"
    /\ \A w \in Workers : wpc[w] = "exited"
    /\ dpc' = "done"
    /\ UNCHANGED <<tasks, stop, wpc, hand, cpc, future>>

(* The destroyed pool: the only state in which nothing has to happen. *)
Destroyed == dpc = "done" /\ UNCHANGED vars

WorkerStep(w) == Sleep(w) \/ Exit(w) \/ Take(w) \/ Run(w)

DestructorStep == NotifyAll \/ Join

Next ==
    \/ \E c \in Callers : NotifyOne(c) \/ \E t \in Tasks : Enqueue(c, t)
    \/ \E w \in Workers : WorkerStep(w) \/ SpuriousWakeup(w)
    \/ SetStop \/ DestructorStep \/ Destroyed

Spec == Init /\ [][Next]_vars

(* Fairness: the OS scheduler runs every runnable thread, tasks return and *)
(* notify_one follows enqueue in the same thread.  Nobody has to enqueue,  *)
(* to destroy the pool, or to be woken without a notification.             *)
Fairness ==
    /\ \A w \in Workers : WF_vars(WorkerStep(w))
    /\ \A c \in Callers : WF_vars(NotifyOne(c))
    /\ WF_vars(DestructorStep)

FairSpec == Spec /\ Fairness

-----------------------------------------------------------------------------
(* Properties *)

(* The members of ThreadPool and where each thread is (ThreadPool.h 21-33). *)
TypeOK ==
    /\ tasks \in Seq(Tasks)
    /\ stop \in BOOLEAN
    /\ wpc \in [Workers -> {"test", "asleep", "run", "exited"}]
    /\ hand \in [Workers -> Tasks \cup {NoTask}]
    /\ cpc \in [Callers -> {"idle", "notify"}]
    /\ dpc \in {"none", "notify", "join", "done"}
    /\ future \in [Tasks -> {"none", "queued", "refused", "running", "ready"}]

Running == {w \in Workers : wpc[w] = "run"}

(* ThreadPool.h 45-55: the pop under the lock hands every accepted task to *)
(* exactly one worker.  A task is in the queue once while its future is    *)
(* pending and unstarted, in one worker's hand while it runs, and nowhere  *)
(* at any other time; so no task is lost and none runs twice.              *)
ExactlyOnce ==
    /\ \A t \in Tasks :
        /\ future[t] = "queued" <=> \E i \in 1..Len(tasks) : tasks[i] = t
        /\ future[t] = "running" <=> \E w \in Running : hand[w] = t
    /\ \A i, j \in 1..Len(tasks) : tasks[i] = tasks[j] => i = j
    /\ \A v, w \in Running : hand[v] = hand[w] => v = w

Testing == {w \in Workers : wpc[w] = "test"}

Notifying == {c \in Callers : cpc[c] = "notify"}

(* ThreadPool.h 78-80: notify_one is called after the mutex is released.   *)
(* While a worker sleeps, every queued task still has a worker about to    *)
(* test the predicate, or a notification of its own on the way: no         *)
(* interleaving of enqueue, wait and wake-up leaves a task behind an idle  *)
(* worker.                                                                 *)
WorkConserving ==
    Asleep # {} => Len(tasks) <= Cardinality(Testing) + Cardinality(Notifying)

(* ThreadPool.h 47-50, 85-94: the destructor returns only after every      *)
(* accepted task has run, and no worker is left asleep behind its          *)
(* notify_all.                                                             *)
DestructorDrains ==
    /\ dpc \in {"join", "done"} => Asleep = {}
    /\ dpc = "done" => \A t \in Tasks : future[t] \notin {"queued", "running"}

Shutdown ==
    /\ stop <=> dpc # "none"
    /\ \A w \in Workers : wpc[w] = "exited" => stop /\ tasks = <<>>
    /\ dpc \in {"join", "done"} => Asleep = {}
    /\ dpc = "done" => \A w \in Workers : wpc[w] = "exited"

(* The inductive invariant: what the threads rely on between two critical  *)
(* sections (ThreadPool.h 41-94).                                          *)
PoolInv ==
    /\ TypeOK
    /\ \A w \in Running : hand[w] \in Tasks
    /\ ExactlyOnce
    /\ WorkConserving
    /\ Shutdown

(* The pool implements TaskPool. *)
Pool == INSTANCE TaskPool WITH
            waiting <- tasks,
            life <- IF dpc = "done" THEN "gone"
                    ELSE IF stop THEN "closed" ELSE "open"

(* ThreadPool.h 35-94: seen from enqueue() and future::get() the workers,  *)
(* the condition variable and the stop flag are invisible: the pool is a   *)
(* FIFO of tasks that are run once each, and is destroyed when drained.    *)
ImplementsTaskPool == Pool!Spec

(* ThreadPool.h 41-57: a future handed out by enqueue becomes ready, even  *)
(* when the pool is destroyed meanwhile.                                   *)
EveryTaskCompletes ==
    \A t \in Tasks : future[t] = "queued" ~> future[t] = "ready"

(* ThreadPool.h 85-94: the destructor returns whatever the workers were    *)
(* doing when stop was set.                                                *)
DestructorReturns == dpc = "notify" ~> dpc = "done"
=============================================================================
