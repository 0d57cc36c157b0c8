-------------------------- MODULE ThreadPool_proofs --------------------------
(***************************************************************************)
(* For every number of workers, callers and tasks: PoolInv is an inductive *)
(* invariant of ThreadPool; exactly-once execution, work conservation and  *)
(* the drained destructor follow from it, and with it the pool implements  *)
(* TaskPool.                                                               *)
(***************************************************************************)
EXTENDS ThreadPool, FiniteSetTheorems, TLAPS

(* The sets counted by WorkConserving are finite. *)
LEMMA FiniteSides ==
    /\ IsFiniteSet(Testing) /\ Cardinality(Testing) \in Nat
    /\ IsFiniteSet(Notifying) /\ Cardinality(Notifying) \in Nat
<1>1. Testing \in SUBSET Workers /\ Notifying \in SUBSET Callers
  BY DEF Testing, Notifying
<1>2. IsFiniteSet(Testing) /\ IsFiniteSet(Notifying)
  BY <1>1, FS_Subset, PoolAssumption
<1> QED BY <1>2, FS_CardinalityType

(* The constructor's state satisfies the invariant (ThreadPool.h 36-58). *)
LEMMA InitPoolInv == Init => PoolInv
<1> SUFFICES ASSUME Init PROVE PoolInv
  OBVIOUS
<1>1. TypeOK
  <2>1. stop \in BOOLEAN /\ dpc \in {"none", "notify", "join", "done"}
    BY DEF Init
  <2>4. tasks \in Seq(Tasks)
    BY DEF Init
  <2>2. /\ wpc \in [Workers -> {"test", "asleep", "run", "exited"}]
        /\ hand \in [Workers -> Tasks \cup {NoTask}]
    BY DEF Init
  <2>3. /\ cpc \in [Callers -> {"idle", "notify"}]
        /\ future \in [Tasks -> {"none", "queued", "refused", "running", "ready"}]
    BY DEF Init
  <2> QED BY <2>1, <2>2, <2>3, <2>4 DEF TypeOK
<1>2. Running = {} /\ Asleep = {}
  BY DEF Init, Running, Asleep
<1>3. ExactlyOnce
  BY <1>2 DEF Init, ExactlyOnce
<1>4. WorkConserving /\ Shutdown
  BY <1>2 DEF Init, WorkConserving, Shutdown
<1> QED BY <1>1, <1>2, <1>3, <1>4 DEF PoolInv

(* No step leaves the types, and a running worker holds a task. *)
LEMMA TypeStep ==
    ASSUME PoolInv, [Next]_vars
    PROVE  TypeOK' /\ (\A w \in Running : hand[w] \in Tasks)'
<1> USE DEF PoolInv, TypeOK, Running
<1>1. ASSUME NEW c \in Callers, NEW t \in Tasks, Enqueue(c, t)
      PROVE  TypeOK' /\ (\A w \in Running : hand[w] \in Tasks)'
  <2>1. UNCHANGED <<stop, wpc, hand, dpc>>
    BY <1>1 DEF Enqueue
  <2>2. tasks' \in Seq(Tasks)
    BY <1>1 DEF Enqueue
  <2>3. cpc' \in [Callers -> {"idle", "notify"}]
    BY <1>1 DEF Enqueue
  <2>4. future' \in [Tasks -> {"none", "queued", "refused", "running", "ready"}]
    BY <1>1 DEF Enqueue
  <2> QED BY <2>1, <2>2, <2>3, <2>4
<1>2. ASSUME NEW c \in Callers, NotifyOne(c)
      PROVE  TypeOK' /\ (\A w \in Running : hand[w] \in Tasks)'
  BY <1>2 DEF NotifyOne, Asleep
<1>3. ASSUME NEW w \in Workers, Sleep(w) \/ SpuriousWakeup(w) \/ Exit(w)
      PROVE  TypeOK' /\ (\A v \in Running : hand[v] \in Tasks)'
  BY <1>3 DEF Sleep, SpuriousWakeup, Exit
<1>4. ASSUME NEW w \in Workers, Take(w)
      PROVE  TypeOK' /\ (\A v \in Running : hand[v] \in Tasks)'
  BY <1>4 DEF Take
<1>5. ASSUME NEW w \in Workers, Run(w)
      PROVE  TypeOK' /\ (\A v \in Running : hand[v] \in Tasks)'
  BY <1>5 DEF Run
<1>6. ASSUME SetStop \/ NotifyAll \/ Join \/ Destroyed \/ UNCHANGED vars
      PROVE  TypeOK' /\ (\A w \in Running : hand[w] \in Tasks)'
  BY <1>6 DEF SetStop, NotifyAll, Join, Destroyed, vars
<1> QED
  BY <1>1, <1>2, <1>3, <1>4, <1>5, <1>6
  DEF Next, WorkerStep, DestructorStep

(* Every accepted task stays in exactly one place (ThreadPool.h 43-55, 78). *)
LEMMA OnceStep ==
    ASSUME PoolInv, [Next]_vars
    PROVE  ExactlyOnce'
<1> USE DEF PoolInv, TypeOK, ExactlyOnce, Running
<1>1. ASSUME NEW c \in Callers, NEW t \in Tasks, Enqueue(c, t)
      PROVE  ExactlyOnce'
  <2>1. CASE stop
    BY <1>1, <2>1 DEF Enqueue
  <2>2. CASE ~stop
    <3>1. /\ tasks' = Append(tasks, t) /\ future[t] = "none"
          /\ future' = [future EXCEPT ![t] = "queued"]
          /\ UNCHANGED <<wpc, hand>>
      BY <1>1, <2>2 DEF Enqueue
    <3>2. /\ Len(tasks') = Len(tasks) + 1 /\ Len(tasks) \in Nat
          /\ \A i \in 1..Len(tasks) : tasks'[i] = tasks[i]
          /\ tasks'[Len(tasks) + 1] = t
      BY <3>1
    <3>3. \A i, j \in 1..Len(tasks') : tasks'[i] = tasks'[j] => i = j
      BY <3>1, <3>2
    <3>4. \A s \in Tasks : future'[s] = "queued" <=> \E i \in 1..Len(tasks') : tasks'[i] = s
      <4>1. \A s \in Tasks : s # t =>
              (future'[s] = "queued" <=> \E i \in 1..Len(tasks) : tasks[i] = s)
        BY <3>1
      <4> QED BY <3>1, <3>2, <4>1
    <3>5. \A s \in Tasks : future'[s] = "running" <=> \E w \in Running' : hand'[w] = s
      BY <3>1
    <3> QED BY <3>1, <3>3, <3>4, <3>5
  <2> QED BY <2>1, <2>2
<1>2. ASSUME NEW c \in Callers, NotifyOne(c)
      PROVE  ExactlyOnce'
  BY <1>2 DEF NotifyOne, Asleep
<1>3. ASSUME NEW w \in Workers, Sleep(w) \/ SpuriousWakeup(w) \/ Exit(w)
      PROVE  ExactlyOnce'
  BY <1>3 DEF Sleep, SpuriousWakeup, Exit
<1>4. ASSUME NEW w \in Workers, Take(w)
      PROVE  ExactlyOnce'
  <2> DEFINE t == Head(tasks)
  <2>1. /\ t = tasks[1] /\ t \in Tasks /\ Len(tasks) \in Nat /\ Len(tasks) > 0
        /\ Len(tasks') = Len(tasks) - 1
        /\ \A i \in 1..Len(tasks') : tasks'[i] = tasks[i + 1]
    BY <1>4 DEF Take
  <2>2. /\ wpc[w] = "test" /\ wpc' = [wpc EXCEPT ![w] = "run"]
        /\ hand' = [hand EXCEPT ![w] = t]
        /\ future' = [future EXCEPT ![t] = "running"]
    BY <1>4 DEF Take
  <2>3. \A i, j \in 1..Len(tasks') : tasks'[i] = tasks'[j] => i = j
    BY <2>1
  <2>4. future[t] = "queued"
    BY <2>1
  <2>5. Running' = Running \cup {w} /\ w \notin Running
    BY <2>2
  <2>6. \A v \in Running : hand'[v] = hand[v] /\ hand[v] # t
    BY <2>2, <2>4, <2>1
  <2>7. hand'[w] = t
    BY <2>2
  <2>8. \A v, u \in Running' : hand'[v] = hand'[u] => v = u
    BY <2>5, <2>6, <2>7
  <2>9. \A s \in Tasks : future'[s] = "running" <=> \E v \in Running' : hand'[v] = s
    BY <2>1, <2>2, <2>5, <2>6, <2>7
  <2>10. ASSUME NEW s \in Tasks
         PROVE  future'[s] = "queued" <=> \E i \in 1..Len(tasks') : tasks'[i] = s
    <3>1. CASE s = t
      BY <2>1, <2>2, <3>1
    <3>2. ASSUME s # t, NEW i \in 1..Len(tasks), tasks[i] = s
          PROVE  \E j \in 1..Len(tasks') : tasks'[j] = s
      <4>1. i # 1 /\ i - 1 \in 1..Len(tasks')
        BY <2>1, <3>2
      <4>2. tasks'[i - 1] = tasks[i]
        BY <2>1, <4>1
      <4> QED BY <4>1, <4>2, <3>2
    <3>3. ASSUME NEW j \in 1..Len(tasks'), tasks'[j] = s
          PROVE  \E i \in 1..Len(tasks) : tasks[i] = s
      BY <2>1, <3>3
    <3>4. s # t => (future'[s] = "queued" <=> future[s] = "queued")
      BY <2>2
    <3> QED BY <3>1, <3>2, <3>3, <3>4
  <2> HIDE DEF t
  <2> QED BY <2>3, <2>8, <2>9, <2>10
<1>5. ASSUME NEW w \in Workers, Run(w)
      PROVE  ExactlyOnce'
  <2> DEFINE t == hand[w]
  <2>1. /\ wpc[w] = "run" /\ wpc' = [wpc EXCEPT ![w] = "test"]
        /\ hand' = [hand EXCEPT ![w] = NoTask] /\ t \in Tasks
        /\ future' = [future EXCEPT ![t] = "ready"] /\ UNCHANGED tasks
    BY <1>5 DEF Run
  <2>2. future[t] = "running" /\ w \in Running /\ Running' = Running \ {w}
    BY <2>1
  <2>3. \A v \in Running' : hand'[v] = hand[v] /\ hand[v] # t
    BY <2>1, <2>2
  <2>4. \A s \in Tasks : s # t => future'[s] = future[s]
    BY <2>1
  <2>5. \A s \in Tasks : future'[s] = "queued" <=> \E i \in 1..Len(tasks') : tasks'[i] = s
    BY <2>1, <2>2, <2>4
  <2>6. \A s \in Tasks : future'[s] = "running" <=> \E v \in Running' : hand'[v] = s
    BY <2>1, <2>2, <2>3, <2>4
  <2>7. \A v, u \in Running' : hand'[v] = hand'[u] => v = u
    BY <2>2, <2>3
  <2> QED BY <2>1, <2>5, <2>6, <2>7
<1>6. ASSUME SetStop \/ NotifyAll \/ Join \/ Destroyed \/ UNCHANGED vars
      PROVE  ExactlyOnce'
  BY <1>6 DEF SetStop, NotifyAll, Join, Destroyed, vars
<1> QED
  BY <1>1, <1>2, <1>3, <1>4, <1>5, <1>6
  DEF Next, WorkerStep, DestructorStep

(* Counting: a notification or a spurious wake-up trades a sleeper for a   *)
(* tester, enqueue brings its own notification, Take removes one task and  *)
(* one tester (ThreadPool.h 47-52, 78-80).                                 *)
LEMMA ConservingStep ==
    ASSUME PoolInv, [Next]_vars
    PROVE  WorkConserving'
<1> USE DEF PoolInv, TypeOK, WorkConserving
<1> DEFINE T == Cardinality(Testing)
           N == Cardinality(Notifying)
<1>0. T \in Nat /\ N \in Nat /\ Len(tasks) \in Nat
  BY FiniteSides
<1>1. ASSUME NEW c \in Callers, NEW t \in Tasks, Enqueue(c, t)
      PROVE  WorkConserving'
  <2>1. Testing' = Testing /\ Asleep' = Asleep
    BY <1>1 DEF Enqueue, Testing, Asleep
  <2>2. CASE stop
    <3>1. Notifying' = Notifying /\ tasks' = tasks
      BY <1>1, <2>2 DEF Enqueue, Notifying
    <3> QED BY <2>1, <3>1
  <2>3. CASE ~stop
    <3>1. Notifying' = Notifying \cup {c} /\ c \notin Notifying /\ Len(tasks') = Len(tasks) + 1
      BY <1>1, <2>3 DEF Enqueue, Notifying
    <3>2. Cardinality(Notifying') = N + 1
      BY <3>1, FiniteSides, FS_AddElement
    <3> QED BY <1>0, <2>1, <3>1, <3>2
  <2> QED BY <2>2, <2>3
<1>2. ASSUME NEW c \in Callers, NotifyOne(c)
      PROVE  WorkConserving'
  <2>1. Notifying' = Notifying \ {c} /\ c \in Notifying /\ tasks' = tasks
    BY <1>2 DEF NotifyOne, Notifying
  <2>2. Cardinality(Notifying') = N - 1
    BY <2>1, FiniteSides, FS_RemoveElement
  <2>3. CASE Asleep = {} /\ UNCHANGED wpc
    BY <2>3 DEF Asleep
  <2>4. ASSUME NEW w \in Asleep, wpc' = [wpc EXCEPT ![w] = "test"]
        PROVE  WorkConserving'
    <3>1. Testing' = Testing \cup {w} /\ w \notin Testing
      BY <2>4 DEF Testing, Asleep
    <3>2. Cardinality(Testing') = T + 1
      BY <3>1, FiniteSides, FS_AddElement
    <3> QED BY <1>0, <2>1, <2>2, <2>4, <3>2
  <2> QED BY <1>2, <2>3, <2>4 DEF NotifyOne
<1>3. ASSUME NEW w \in Workers, Sleep(w) \/ Exit(w)
      PROVE  WorkConserving'
  <2>1. Len(tasks') = 0
    BY <1>3 DEF Sleep, Exit
  <2>2. Cardinality(Testing)' \in Nat /\ Cardinality(Notifying)' \in Nat
    <3>1. Testing' \in SUBSET Workers /\ Notifying' \in SUBSET Callers
      BY DEF Testing, Notifying
    <3>2. IsFiniteSet(Testing') /\ IsFiniteSet(Notifying')
      BY <3>1, FS_Subset, PoolAssumption
    <3> QED BY <3>2, FS_CardinalityType
  <2> QED BY <2>1, <2>2
<1>4. ASSUME NEW w \in Workers, SpuriousWakeup(w)
      PROVE  WorkConserving'
  <2>1. /\ Testing' = Testing \cup {w} /\ w \notin Testing /\ w \in Asleep
        /\ Notifying' = Notifying /\ tasks' = tasks
    BY <1>4 DEF SpuriousWakeup, Testing, Asleep, Notifying
  <2>2. Cardinality(Testing') = T + 1
    BY <2>1, FiniteSides, FS_AddElement
  <2> QED BY <1>0, <2>1, <2>2
<1>5. ASSUME NEW w \in Workers, Take(w)
      PROVE  WorkConserving'
  <2>1. /\ Testing' = Testing \ {w} /\ w \in Testing /\ Asleep' = Asleep
        /\ Notifying' = Notifying
    BY <1>5 DEF Take, Testing, Asleep, Notifying
  <2>2. Len(tasks') = Len(tasks) - 1
    BY <1>5 DEF Take
  <2>3. Cardinality(Testing') = T - 1
    BY <2>1, FiniteSides, FS_RemoveElement
  <2> QED BY <1>0, <2>1, <2>2, <2>3
<1>6. ASSUME NEW w \in Workers, Run(w)
      PROVE  WorkConserving'
  <2>1. /\ Testing' = Testing \cup {w} /\ w \notin Testing /\ Asleep' = Asleep
        /\ Notifying' = Notifying /\ tasks' = tasks
    BY <1>6 DEF Run, Testing, Asleep, Notifying
  <2>2. Cardinality(Testing') = T + 1
    BY <2>1, FiniteSides, FS_AddElement
  <2> QED BY <1>0, <2>1, <2>2
<1>7. CASE NotifyAll
  <2>1. Asleep' = {}
    BY <1>7 DEF NotifyAll, Asleep
  <2> QED BY <2>1
<1>8. CASE SetStop \/ Join \/ Destroyed \/ UNCHANGED vars
  <2>1. Testing' = Testing /\ Asleep' = Asleep /\ Notifying' = Notifying /\ tasks' = tasks
    BY <1>8 DEF SetStop, Join, Destroyed, vars, Testing, Asleep, Notifying
  <2> QED BY <2>1
<1> HIDE DEF WorkConserving
<1> QED
  BY <1>1, <1>2, <1>3, <1>4, <1>5, <1>6, <1>7, <1>8
  DEF Next, WorkerStep, DestructorStep

(* A worker leaves only a stopped and empty pool, and once notify_all has  *)
(* run nobody falls asleep again (ThreadPool.h 47-50, 85-94).              *)
LEMMA ShutdownStep ==
    ASSUME PoolInv, [Next]_vars
    PROVE  Shutdown'
<1> USE DEF PoolInv, TypeOK, Shutdown, Asleep
<1>1. ASSUME NEW c \in Callers, NEW t \in Tasks, Enqueue(c, t)
      PROVE  Shutdown'
  BY <1>1 DEF Enqueue
<1>2. ASSUME NEW c \in Callers, NotifyOne(c)
      PROVE  Shutdown'
  BY <1>2 DEF NotifyOne
<1>3. ASSUME NEW w \in Workers, WorkerStep(w) \/ SpuriousWakeup(w)
      PROVE  Shutdown'
  BY <1>3 DEF WorkerStep, Sleep, Exit, Take, Run, SpuriousWakeup
<1>4. CASE SetStop \/ NotifyAll \/ Join \/ Destroyed \/ UNCHANGED vars
  BY <1>4 DEF SetStop, NotifyAll, Join, Destroyed, vars
<1> QED
  BY <1>1, <1>2, <1>3, <1>4 DEF Next, DestructorStep

(* The invariant the pool's threads maintain between critical sections,    *)
(* for every number of workers, callers and tasks.                         *)
THEOREM PoolInvariant == Spec => []PoolInv
<1>1. PoolInv /\ [Next]_vars => PoolInv'
  BY TypeStep, OnceStep, ConservingStep, ShutdownStep DEF PoolInv
<1> QED BY InitPoolInv, <1>1, PTL DEF Spec

(* Every accepted task is in the queue or in one worker's hand, once       *)
(* (ThreadPool.h 45-55).                                                   *)
THEOREM TaskRunsOnce == Spec => []ExactlyOnce
<1>1. PoolInv => ExactlyOnce
  BY DEF PoolInv
<1> QED BY PoolInvariant, <1>1, PTL

(* No wake-up is lost although notify_one is called outside the mutex      *)
(* (ThreadPool.h 78-80).                                                   *)
THEOREM NoWakeupLost == Spec => []WorkConserving
<1>1. PoolInv => WorkConserving
  BY DEF PoolInv
<1> QED BY PoolInvariant, <1>1, PTL

(* ~ThreadPool returns only after every accepted task has run (85-94). *)
THEOREM DestructorIsDrained == Spec => []DestructorDrains
<1>1. PoolInv => DestructorDrains
  <2> SUFFICES ASSUME PoolInv PROVE DestructorDrains
    OBVIOUS
  <2>1. dpc \in {"join", "done"} => Asleep = {}
    BY DEF PoolInv, Shutdown
  <2>2. ASSUME dpc = "done", NEW t \in Tasks
        PROVE  future[t] \notin {"queued", "running"}
    <3>1. PICK w \in Workers : TRUE
      BY PoolAssumption
    <3>2. tasks = <<>> /\ Running = {}
      BY <2>2, <3>1 DEF PoolInv, Shutdown, Running
    <3> QED BY <3>2 DEF PoolInv, ExactlyOnce
  <2> QED BY <2>1, <2>2 DEF DestructorDrains
<1> QED BY PoolInvariant, <1>1, PTL

(* Every step of the pool is a step of TaskPool or invisible to it. *)
LEMMA PoolStepSimulates ==
    ASSUME PoolInv, [Next]_vars
    PROVE  [Pool!Next]_(Pool!poolVars)
<1> USE DEF Pool!Next, Pool!poolVars
<1>1. ASSUME NEW c \in Callers, NEW t \in Tasks, Enqueue(c, t)
      PROVE  Pool!Accept(t) \/ Pool!Refuse(t)
  BY <1>1 DEF Enqueue, Pool!Accept, Pool!Refuse
<1>2. ASSUME NEW c \in Callers, NotifyOne(c)
      PROVE  UNCHANGED Pool!poolVars
  BY <1>2 DEF NotifyOne
<1>3. ASSUME NEW w \in Workers, Sleep(w) \/ SpuriousWakeup(w) \/ Exit(w)
      PROVE  UNCHANGED Pool!poolVars
  BY <1>3 DEF Sleep, SpuriousWakeup, Exit
<1>4. ASSUME NEW w \in Workers, Take(w)
      PROVE  Pool!Start
  BY <1>4 DEF Take, Pool!Start
<1>5. ASSUME NEW w \in Workers, Run(w)
      PROVE  \E t \in Tasks : Pool!Complete(t)
  <2>1. w \in Running /\ hand[w] \in Tasks /\ future[hand[w]] = "running"
    BY <1>5 DEF Run, PoolInv, Running, ExactlyOnce
  <2>2. Pool!Complete(hand[w])
    BY <1>5, <2>1 DEF Run, Pool!Complete
  <2> QED BY <2>1, <2>2
<1>6. CASE SetStop
  <2>1. ~stop /\ dpc = "none"
    BY <1>6 DEF SetStop, PoolInv, Shutdown
  <2>2. Pool!Close
    BY <1>6, <2>1 DEF SetStop, Pool!Close
  <2> QED BY <2>2
<1>7. CASE NotifyAll
  BY <1>7 DEF NotifyAll
<1>8. CASE Join
  <2>1. PICK w \in Workers : TRUE
    BY PoolAssumption
  <2>2. stop /\ tasks = <<>> /\ Running = {}
    BY <1>8, <2>1 DEF Join, PoolInv, Shutdown, Running
  <2>3. \A t \in Tasks : future[t] \notin {"queued", "running"}
    BY <2>2 DEF PoolInv, ExactlyOnce
  <2>4. Pool!Gone
    BY <1>8, <2>2, <2>3 DEF Join, Pool!Gone
  <2> QED BY <2>4
<1>9. CASE Destroyed \/ UNCHANGED vars
  BY <1>9 DEF Destroyed, vars
<1> QED
  BY <1>1, <1>2, <1>3, <1>4, <1>5, <1>6, <1>7, <1>8, <1>9
  DEF Next, WorkerStep, DestructorStep

(* inc/ThreadPool.h implements the abstract pool, for every number of      *)
(* workers, callers and tasks.                                             *)
THEOREM PoolImplementsTaskPool == Spec => ImplementsTaskPool
<1>1. Init => Pool!Init
  BY DEF Init, Pool!Init
<1>2. PoolInv /\ [Next]_vars => [Pool!Next]_(Pool!poolVars)
  BY PoolStepSimulates
<1> QED
  BY PoolInvariant, <1>1, <1>2, PTL DEF Spec, ImplementsTaskPool, Pool!Spec
==============================================================================
