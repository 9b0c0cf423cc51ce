----------------------------- MODULE CommonProofs -----------------------------
(***************************************************************************)
(* Proofs about two parts of src/common that run by themselves: the thread *)
(* pool of utils and the TCP server of network.                            *)
(*                                                                         *)
(* ThreadPool, for any numbers of workers, clients, tasks and restarts:    *)
(*   - TasksCounted: m_tasksCount is exact, across restarts;               *)
(*   - WorkConserving: no worker sleeps while there is work for it;        *)
(*   - every step is one of TaskPool, the abstract pool, or a stutter.     *)
(* CountExact is not inductive: Init sets the counter to the length of the *)
(* queue, which is right because no task runs when Init goes ahead; that   *)
(* is what ThreadsOK says.  The refinement also needs that a task is in    *)
(* one place (Once), so that the set of running tasks shrinks with each    *)
(* that ends.                                                              *)
(*                                                                         *)
(* TcpServer, for any sessions, messages, heartbeats and sizes of queues:  *)
(*   - ServerConsistent: sessions_ has every open session;                 *)
(*   - SendsWhole: the writes of a session and what its peer makes of them.*)
(* Neither is inductive.  That stop() clears no open session from the list *)
(* rests on what its loop has still to close and on what a handler that    *)
(* waits for the mutex is about to do (Server); that the peer reads whole  *)
(* frames in order, on the order of the queue, on what the peer has seen   *)
(* of it and on the only write that may wait (SessionOK).                  *)
(***************************************************************************)
EXTENDS ThreadPool, TcpServer, SequenceTheorems, FiniteSetTheorems, TLAPS

-----------------------------------------------------------------------------
(* The thread pool. *)

\* A worker exists while m_threads lists it, leaves only a pool that is shut down and
\* has nothing left, and has a task exactly while it runs one; a call of Shutdown that
\* has returned has joined every thread.
ThreadsOK ==
    /\ m_threads = {} => \A w \in Worker : worker[w] = "none"
    /\ m_threads # {} => \A w \in Worker : worker[w] # "none"
    /\ m_shutdown /\ ctl = "idle" => m_threads = {}
    /\ ctl # "idle" => m_shutdown
    /\ \A w \in Worker :
          /\ worker[w] = "exited" => m_shutdown /\ m_tasks = << >>
          /\ worker[w] = "running" <=> task[w] # NoTask

\* A task is queued once or run by one worker.
Once ==
    /\ \A i, j \in 1..Len(m_tasks) : m_tasks[i] = m_tasks[j] => i = j
    /\ \A v, w \in In("running") : task[v] = task[w] => v = w
    /\ \A w \in In("running"), i \in 1..Len(m_tasks) : m_tasks[i] # task[w]

\* The clients that have pushed and not yet notified.
Notifying == {c \in Client : client[c] = "notify"}

PoolInv == TypeOK /\ ThreadsOK /\ Once /\ CountExact /\ WorkConserving
-----------------------------------------------------------------------------
(* What the proofs keep needing. *)

\* Workers and clients are finitely many, and so is every group of them.
LEMMA Finite ==
    /\ \A S \in SUBSET Worker : IsFiniteSet(S) /\ Cardinality(S) \in Nat
    /\ \A S \in SUBSET Client : IsFiniteSet(S) /\ Cardinality(S) \in Nat
  BY WorkerAssumption, ClientAssumption, FS_Subset, FS_CardinalityType

\* The same of the groups the properties count, before and after a step.
LEMMA Counts ==
    /\ \A x \in WorkerState : /\ IsFiniteSet(In(x)) /\ Cardinality(In(x)) \in Nat
                              /\ IsFiniteSet(In(x)') /\ Cardinality(In(x)') \in Nat
    /\ IsFiniteSet(Notifying) /\ Cardinality(Notifying) \in Nat
    /\ IsFiniteSet(Notifying') /\ Cardinality(Notifying') \in Nat
  BY Finite DEF In, Notifying

\* The queue of a well-typed state.
LEMMA Queue ==
    ASSUME TypeOK
    PROVE  /\ Len(m_tasks) \in Nat /\ DOMAIN m_tasks = 1..Len(m_tasks)
           /\ m_tasks # << >> => /\ Len(m_tasks) > 0 /\ Head(m_tasks) = m_tasks[1]
                                 /\ m_tasks[1] \in Task
           /\ \A i \in 1..Len(m_tasks) : m_tasks[i] \in Task
  BY LenProperties, EmptySeq DEF TypeOK

\* Push adds one element at the end.
LEMMA PushQueue ==
    ASSUME TypeOK, NEW c \in Client, NEW t \in Task, Push(c, t)
    PROVE  /\ m_tasks' \in Seq(Task) /\ Len(m_tasks') = Len(m_tasks) + 1
           /\ DOMAIN m_tasks' = 1..Len(m_tasks')
           /\ \A i \in 1..Len(m_tasks) : m_tasks'[i] = m_tasks[i]
           /\ m_tasks'[Len(m_tasks) + 1] = t
  BY AppendProperties, LenProperties DEF TypeOK, Push

\* Take removes the first.
LEMMA TakeQueue ==
    ASSUME TypeOK, NEW w \in Worker, Take(w)
    PROVE  /\ m_tasks' \in Seq(Task) /\ Len(m_tasks') = Len(m_tasks) - 1
           /\ DOMAIN m_tasks' = 1..Len(m_tasks')
           /\ \A i \in 1..Len(m_tasks') : m_tasks'[i] = m_tasks[i + 1]
  BY HeadTailProperties, LenProperties DEF TypeOK, Take
-----------------------------------------------------------------------------
(* The invariant, one lemma per part. *)

\* The initial state satisfies the invariant.
LEMMA PoolInitially == Init => PoolInv
  <1> SUFFICES ASSUME Init PROVE PoolInv
    OBVIOUS
  <1>1. TypeOK
    <2>1. m_tasks \in Seq(Task) /\ inits \in 0..MaxInits
      BY InitsAssumption, EmptySeq DEF Init
    <2>2. /\ worker \in [Worker -> WorkerState] /\ task \in [Worker -> Task \cup {NoTask}]
          /\ client \in [Client -> {"idle", "notify"}]
      BY DEF Init, WorkerState
    <2> QED
      BY <2>1, <2>2 DEF Init, TypeOK
  <1>2. ThreadsOK /\ Once
    BY EmptySeq DEF Init, ThreadsOK, Once, In
  <1>3. In("running") = {} /\ In("waiting") = {}
    BY DEF Init, In
  <1>4. Cardinality(In("running")) = 0 /\ Len(m_tasks) = 0
    BY <1>3, EmptySeq, FS_EmptySet DEF Init
  <1>5. CountExact /\ WorkConserving
    BY <1>3, <1>4 DEF Init, CountExact, WorkConserving
  <1> QED
    BY <1>1, <1>2, <1>5 DEF PoolInv

\* FinishTask does not take the counter below zero.
LEMMA RunningCounted ==
    ASSUME TypeOK, CountExact, NEW w \in Worker, worker[w] = "running"
    PROVE  m_tasksCount > 0
  <1>1. w \in In("running")
    BY DEF In
  <1>2. Cardinality(In("running")) # 0
    BY <1>1, Counts, FS_EmptySet DEF WorkerState
  <1> QED
    BY <1>2, Counts, Queue DEF CountExact, WorkerState

\* The type invariant.
LEMMA TypeStep ==
    ASSUME PoolInv, Next PROVE TypeOK'
  <1> USE DEF WorkerState
  <1>0. TypeOK /\ ThreadsOK /\ CountExact
    BY DEF PoolInv
  <1>1. CASE InitPool
    <2>1. inits' \in 0..MaxInits /\ m_tasksCount' \in Nat
      BY <1>0, <1>1, InitsAssumption, Queue DEF TypeOK, InitPool
    <2> QED
      BY <1>0, <1>1, <2>1 DEF TypeOK, InitPool
  <1>2. CASE SetShutdown
    BY <1>0, <1>2 DEF TypeOK, SetShutdown
  <1>3. CASE NotifyAll
    BY <1>0, <1>3 DEF TypeOK, NotifyAll
  <1>4. CASE Join
    BY <1>0, <1>4 DEF TypeOK, Join
  <1>5. ASSUME NEW c \in Client, NEW t \in Task, Push(c, t) PROVE TypeOK'
    BY <1>0, <1>5, PushQueue DEF TypeOK, Push
  <1>6. ASSUME NEW c \in Client, NotifyOne(c) PROVE TypeOK'
    BY <1>0, <1>6 DEF TypeOK, NotifyOne, In
  <1>7. ASSUME NEW w \in Worker, Wait(w) \/ Exit(w) \/ SpuriousWakeup(w) PROVE TypeOK'
    BY <1>0, <1>7 DEF TypeOK, Wait, Exit, SpuriousWakeup
  <1>8. ASSUME NEW w \in Worker, Take(w) PROVE TypeOK'
    <2>1. m_tasks' \in Seq(Task) /\ Head(m_tasks) \in Task
      BY <1>0, <1>8, TakeQueue, Queue DEF Take
    <2> QED
      BY <1>0, <1>8, <2>1 DEF TypeOK, Take
  <1>9. ASSUME NEW w \in Worker, FinishTask(w) PROVE TypeOK'
    <2>1. task[w] \in Task /\ m_tasksCount' \in Nat
      BY <1>0, <1>9, RunningCounted DEF TypeOK, ThreadsOK, FinishTask
    <2> QED
      BY <1>0, <1>9, <2>1 DEF TypeOK, FinishTask
  <1> QED
    BY <1>1, <1>2, <1>3, <1>4, <1>5, <1>6, <1>7, <1>8, <1>9
       DEF Next, Shutdown, Enqueue, WorkerThread

\* Threads and the calls that create and join them.
LEMMA ThreadsStep ==
    ASSUME PoolInv, Next PROVE ThreadsOK'
  <1>0. TypeOK /\ ThreadsOK
    BY DEF PoolInv
  <1>1. CASE InitPool
    <2>1. m_threads = {} /\ m_threads' # {}
      BY <1>0, <1>1, WorkerAssumption DEF InitPool, ThreadsOK
    <2>2. \A w \in Worker : task[w] = NoTask
      BY <1>0, <2>1 DEF TypeOK, ThreadsOK
    <2> QED
      BY <1>0, <1>1, <2>1, <2>2 DEF ThreadsOK, InitPool
  <1>2. CASE SetShutdown
    BY <1>0, <1>2 DEF TypeOK, ThreadsOK, SetShutdown
  <1>3. CASE NotifyAll
    BY <1>0, <1>3 DEF TypeOK, ThreadsOK, NotifyAll
  <1>4. CASE Join
    BY <1>0, <1>4 DEF TypeOK, ThreadsOK, Join
  <1>5. ASSUME NEW c \in Client, NEW t \in Task, Push(c, t) PROVE ThreadsOK'
    BY <1>0, <1>5 DEF TypeOK, ThreadsOK, Push
  <1>6. ASSUME NEW c \in Client, NotifyOne(c) PROVE ThreadsOK'
    BY <1>0, <1>6 DEF TypeOK, ThreadsOK, NotifyOne, In
  <1>7. ASSUME NEW w \in Worker, Wait(w) \/ Exit(w) \/ SpuriousWakeup(w) PROVE ThreadsOK'
    BY <1>0, <1>7 DEF TypeOK, ThreadsOK, Wait, Exit, SpuriousWakeup
  <1>8. ASSUME NEW w \in Worker, Take(w) PROVE ThreadsOK'
    <2>1. Head(m_tasks) # NoTask
      BY <1>0, <1>8, Queue, TaskAssumption DEF Take
    <2> QED
      BY <1>0, <1>8, <2>1 DEF TypeOK, ThreadsOK, Take
  <1>9. ASSUME NEW w \in Worker, FinishTask(w) PROVE ThreadsOK'
    BY <1>0, <1>9 DEF TypeOK, ThreadsOK, FinishTask
  <1> QED
    BY <1>1, <1>2, <1>3, <1>4, <1>5, <1>6, <1>7, <1>8, <1>9
       DEF Next, Shutdown, Enqueue, WorkerThread

\* A step that leaves the queue and the running workers alone.
LEMMA QuietStep ==
    ASSUME TypeOK, Once, CountExact, m_tasks' = m_tasks, m_tasksCount' = m_tasksCount,
           In("running")' = In("running"), task' = task
    PROVE  Once' /\ CountExact'
  BY DEF Once, CountExact

\* Which workers run a task changes only when one is taken or ends.
LEMMA RunningSame ==
    ASSUME TypeOK, ThreadsOK,
           \/ InitPool \/ SetShutdown \/ NotifyAll \/ Join
           \/ \E c \in Client : NotifyOne(c) \/ \E t \in Task : Push(c, t)
           \/ \E w \in Worker : Wait(w) \/ Exit(w) \/ SpuriousWakeup(w)
    PROVE  In("running")' = In("running") /\ task' = task
  <1>1. CASE InitPool
    BY <1>1 DEF TypeOK, ThreadsOK, InitPool, In
  <1>2. CASE SetShutdown
    BY <1>2 DEF SetShutdown, In
  <1>3. CASE NotifyAll
    BY <1>3 DEF TypeOK, NotifyAll, In
  <1>4. CASE Join
    <2>1. \A w \in Worker : worker[w] # "running"
      BY <1>4 DEF TypeOK, ThreadsOK, Join
    <2> QED
      BY <1>4, <2>1 DEF Join, In
  <1>5. ASSUME NEW c \in Client, NotifyOne(c) \/ \E t \in Task : Push(c, t)
        PROVE  In("running")' = In("running") /\ task' = task
    BY <1>5 DEF TypeOK, NotifyOne, Push, In
  <1>6. ASSUME NEW w \in Worker, Wait(w) \/ Exit(w) \/ SpuriousWakeup(w)
        PROVE  In("running")' = In("running") /\ task' = task
    BY <1>6 DEF TypeOK, Wait, Exit, SpuriousWakeup, In
  <1> QED
    BY <1>1, <1>2, <1>3, <1>4, <1>5, <1>6

\* Each task is in one place, and the counter counts them.
LEMMA TasksStep ==
    ASSUME PoolInv, Next PROVE Once' /\ CountExact'
  <1>0. TypeOK /\ ThreadsOK /\ Once /\ CountExact /\ Len(m_tasks) \in Nat
    BY Queue DEF PoolInv
  <1> USE DEF WorkerState
  <1>1. CASE InitPool
    <2>1. In("running")' = In("running") /\ task' = task /\ In("running") = {}
      BY <1>0, <1>1, RunningSame DEF ThreadsOK, InitPool, In
    <2>2. Cardinality(In("running")) = 0 /\ m_tasksCount' = Len(m_tasks) /\ m_tasks' = m_tasks
      BY <1>1, <2>1, FS_EmptySet DEF InitPool
    <2>3. m_tasksCount' = m_tasksCount
      BY <1>0, <2>2 DEF CountExact, TypeOK
    <2> QED
      BY <1>0, <2>1, <2>2, <2>3, QuietStep
  <1>2. CASE \/ SetShutdown \/ NotifyAll \/ Join
             \/ \E c \in Client : NotifyOne(c)
             \/ \E w \in Worker : Wait(w) \/ Exit(w) \/ SpuriousWakeup(w)
    <2>1. UNCHANGED <<m_tasks, m_tasksCount>>
      BY <1>2 DEF SetShutdown, NotifyAll, Join, NotifyOne, Wait, Exit, SpuriousWakeup
    <2> QED
      BY <1>0, <1>2, <2>1, RunningSame, QuietStep
  <1>3. ASSUME NEW c \in Client, NEW t \in Task, Push(c, t) PROVE Once' /\ CountExact'
    <2>1. In("running")' = In("running") /\ task' = task
      BY <1>0, <1>3, RunningSame
    <2>2. /\ \A i \in 1..Len(m_tasks) : m_tasks[i] # t
          /\ \A w \in In("running") : task[w] # t
      BY <1>0, <1>3, Queue DEF Push, Queued, Running
    <2>3. Once'
      BY <1>0, <1>3, <2>1, <2>2, PushQueue DEF Once
    <2> QED
      BY <1>0, <1>3, <2>1, <2>3, PushQueue, Counts DEF CountExact, Push
  <1>4. ASSUME NEW w \in Worker, Take(w) PROVE Once' /\ CountExact'
    <2>1. In("running")' = In("running") \cup {w} /\ w \notin In("running")
      BY <1>0, <1>4 DEF TypeOK, Take, In
    <2>2. /\ m_tasks # << >> /\ Len(m_tasks) > 0 /\ task' = [task EXCEPT ![w] = m_tasks[1]]
          /\ m_tasksCount' = m_tasksCount
      BY <1>0, <1>4, Queue DEF Take
    <2>3. \A v \in In("running")' : task'[v] = IF v = w THEN m_tasks[1] ELSE task[v]
      BY <1>0, <2>2 DEF TypeOK, In
    <2>4. Once'
      BY <1>0, <1>4, <2>1, <2>2, <2>3, TakeQueue DEF Once
    <2>5. Cardinality(In("running")') = Cardinality(In("running")) + 1
      BY <2>1, Counts, FS_AddElement
    <2>6. Len(m_tasks') = Len(m_tasks) - 1 /\ Cardinality(In("running")) \in Nat
      BY <1>0, <1>4, TakeQueue, Counts
    <2>7. CountExact'
      BY <1>0, <2>2, <2>5, <2>6 DEF CountExact
    <2> QED
      BY <2>4, <2>7
  <1>5. ASSUME NEW w \in Worker, FinishTask(w) PROVE Once' /\ CountExact'
    <2>1. In("running")' = In("running") \ {w} /\ w \in In("running")
      BY <1>0, <1>5 DEF TypeOK, FinishTask, In
    <2>2. \A v \in In("running")' : task'[v] = task[v]
      BY <1>0, <1>5, <2>1 DEF TypeOK, FinishTask, In
    <2>3. m_tasks' = m_tasks /\ m_tasksCount' = m_tasksCount - 1
      BY <1>5 DEF FinishTask
    <2>4. Once'
      BY <1>0, <2>1, <2>2, <2>3 DEF Once
    <2>5. Cardinality(In("running")') = Cardinality(In("running")) - 1
      BY <2>1, Counts, FS_RemoveElement
    <2> QED
      BY <1>0, <2>3, <2>4, <2>5, Counts DEF CountExact
  <1> QED
    BY <1>1, <1>2, <1>3, <1>4, <1>5 DEF Next, Shutdown, Enqueue, WorkerThread

\* No step leaves a queued task to sleepers.
LEMMA WorkStep ==
    ASSUME PoolInv, Next PROVE WorkConserving'
  <1> USE DEF WorkerState
  <1> DEFINE Work == Len(m_tasks) <= Cardinality(Notifying) + Cardinality(In("check"))
  <1>0. /\ TypeOK /\ Len(m_tasks) \in Nat
        /\ In("waiting") # {} => Work
    BY Queue DEF PoolInv, WorkConserving, Notifying
  <1> SUFFICES ASSUME In("waiting")' # {} PROVE Work'
    BY DEF WorkConserving, Notifying
  <1>1. CASE InitPool \/ NotifyAll \/ Join
    BY <1>0, <1>1 DEF InitPool, NotifyAll, Join, In
  <1>2. CASE SetShutdown
    BY <1>0, <1>2 DEF SetShutdown, In, Notifying
  <1>3. ASSUME NEW c \in Client, NEW t \in Task, Push(c, t) PROVE Work'
    <2>1. Notifying' = Notifying \cup {c} /\ c \notin Notifying /\ worker' = worker
      BY <1>0, <1>3 DEF TypeOK, Push, Notifying
    <2>2. Cardinality(Notifying') = Cardinality(Notifying) + 1
      BY <2>1, Counts, FS_AddElement
    <2>3. In("waiting")' = In("waiting") /\ In("check")' = In("check")
      BY <2>1 DEF In
    <2> QED
      BY <1>0, <1>3, <2>2, <2>3, Counts, PushQueue
  <1>4. ASSUME NEW c \in Client, NotifyOne(c) PROVE Work'
    <2>1. In("waiting") # {}
      BY <1>4 DEF NotifyOne, In
    <2>2. PICK w \in In("waiting") : worker' = [worker EXCEPT ![w] = "check"]
      BY <1>4, <2>1 DEF NotifyOne
    <2>3. In("check")' = In("check") \cup {w} /\ w \notin In("check")
      BY <1>0, <2>2 DEF TypeOK, In
    <2>4. Cardinality(In("check")') = Cardinality(In("check")) + 1
      BY <2>3, Counts, FS_AddElement
    <2>5. Notifying' = Notifying \ {c} /\ c \in Notifying /\ m_tasks' = m_tasks
      BY <1>0, <1>4 DEF TypeOK, NotifyOne, Notifying
    <2>6. Cardinality(Notifying') = Cardinality(Notifying) - 1
      BY <2>5, Counts, FS_RemoveElement
    <2> QED
      BY <1>0, <2>1, <2>4, <2>5, <2>6, Counts
  <1>5. ASSUME NEW w \in Worker, Wait(w) \/ Exit(w) PROVE Work'
    <2>1. m_tasks' = << >>
      BY <1>5 DEF Wait, Exit
    <2> QED
      BY <2>1, EmptySeq, Counts
  <1>6. ASSUME NEW w \in Worker, SpuriousWakeup(w) \/ FinishTask(w) PROVE Work'
    <2>1. /\ In("check")' = In("check") \cup {w} /\ m_tasks' = m_tasks /\ client' = client
          /\ In("waiting")' \subseteq In("waiting")
      BY <1>0, <1>6 DEF TypeOK, SpuriousWakeup, FinishTask, In
    <2>2. Cardinality(In("check")') >= Cardinality(In("check"))
      BY <2>1, Counts, FS_Subset
    <2>3. Notifying' = Notifying
      BY <2>1 DEF Notifying
    <2> QED
      BY <1>0, <2>1, <2>2, <2>3, Counts
  <1>7. ASSUME NEW w \in Worker, Take(w) PROVE Work'
    <2>1. /\ In("check")' = In("check") \ {w} /\ w \in In("check") /\ client' = client
          /\ In("waiting")' = In("waiting")
      BY <1>0, <1>7 DEF TypeOK, Take, In
    <2>2. Cardinality(In("check")') = Cardinality(In("check")) - 1
      BY <2>1, Counts, FS_RemoveElement
    <2>3. Notifying' = Notifying
      BY <2>1 DEF Notifying
    <2> QED
      BY <1>0, <1>7, <2>1, <2>2, <2>3, Counts, TakeQueue
  <1> QED
    BY <1>1, <1>2, <1>3, <1>4, <1>5, <1>6, <1>7 DEF Next, Shutdown, Enqueue, WorkerThread

\* Every step keeps the invariant.
LEMMA PoolStep == PoolInv /\ [Next]_vars => PoolInv'
  <1> SUFFICES ASSUME PoolInv, [Next]_vars PROVE PoolInv'
    OBVIOUS
  <1>1. CASE Next
    BY <1>1, TypeStep, ThreadsStep, TasksStep, WorkStep DEF PoolInv
  <1>2. CASE UNCHANGED vars
    BY <1>2 DEF vars, PoolInv, TypeOK, ThreadsOK, Once, CountExact, WorkConserving, In
  <1> QED
    BY <1>1, <1>2

\* The invariant holds in every state of every behaviour.
LEMMA PoolSafe == Spec => []PoolInv
  BY PoolInitially, PoolStep, PTL DEF Spec

(* The count that the gateway reports is the number of tasks queued or      *)
(* running, although it is decremented outside the mutex and Init sets it   *)
(* anew: the restart waits for the threads, so it never sets it while one   *)
(* still runs a task.                                                       *)
THEOREM CountCorrect == Spec => []TasksCounted
  <1>1. PoolInv => TasksCounted
    BY DEF PoolInv, TasksCounted
  <1> QED
    BY <1>1, PoolSafe, PTL

(* No wakeup of a worker is lost although Enqueue notifies after it has     *)
(* released the mutex: while a worker waits, every queued task has a        *)
(* notification to come or a worker about to test the predicate.            *)
THEOREM WorkIsConserved == Spec => []WorkConserving
  <1>1. PoolInv => WorkConserving
    BY DEF PoolInv
  <1> QED
    BY <1>1, PoolSafe, PTL
-----------------------------------------------------------------------------
(* The refinement of TaskPool. *)

\* No more tasks run than there are workers that run one.
LEMMA RunningBound ==
    ASSUME NEW w \in Worker, w \notin In("running")
    PROVE  Cardinality(Running) < Cardinality(Worker)
  <1> DEFINE f == [v \in In("running") |-> task[v]]
  <1>1. f \in Surjection(In("running"), Running)
    BY DEF Surjection, Running
  <1>2. IsFiniteSet(In("running")) /\ IsFiniteSet(Worker \ {w})
    BY Finite DEF In
  <1>3. Cardinality(Running) <= Cardinality(In("running")) /\ IsFiniteSet(Running)
    BY <1>1, <1>2, FS_Surjection
  <1>4. Cardinality(In("running")) <= Cardinality(Worker \ {w})
    BY <1>2, FS_Subset DEF In
  <1>5. Cardinality(Worker \ {w}) = Cardinality(Worker) - 1
    BY WorkerAssumption, FS_RemoveElement
  <1> QED
    BY <1>2, <1>3, <1>4, <1>5, WorkerAssumption, FS_CardinalityType

\* The pool starts as TaskPool does.
LEMMA TaskPoolInitially == Init => TaskPool!PoolInit
  BY DEF Init, TaskPool!PoolInit, Running, In

\* The steps of Init, Shutdown and the notifications.
LEMMA ControlImplements ==
    ASSUME PoolInv,
           \/ InitPool \/ SetShutdown \/ NotifyAll \/ Join
           \/ \E c \in Client : NotifyOne(c)
           \/ \E w \in Worker : Wait(w) \/ Exit(w) \/ SpuriousWakeup(w)
    PROVE  [TaskPool!PoolNext]_(TaskPool!pool)
  <1>0. TypeOK /\ ThreadsOK /\ Running' = Running
    BY RunningSame DEF PoolInv, Running
  <1>1. ASSUME UNCHANGED <<m_tasks, m_shutdown, m_threads, finished>>
        PROVE  UNCHANGED TaskPool!pool
    BY <1>0, <1>1 DEF TaskPool!pool
  <1>2. CASE InitPool
    <2>1. m_threads = {} /\ m_threads' # {}
      BY <1>0, <1>2, WorkerAssumption DEF InitPool, ThreadsOK
    <2>2. TaskPool!Open
      BY <1>0, <1>2, <2>1 DEF InitPool, TaskPool!Open
    <2> QED
      BY <2>2 DEF TaskPool!PoolNext
  <1>3. CASE SetShutdown
    <2>1. TaskPool!Shut
      BY <1>0, <1>3 DEF SetShutdown, TaskPool!Shut
    <2> QED
      BY <2>1 DEF TaskPool!PoolNext
  <1>4. CASE Join
    <2>1. CASE m_threads = {}
      BY <1>1, <1>4, <2>1 DEF Join
    <2>2. CASE m_threads # {}
      <3>1. \A w \in Worker : worker[w] = "exited"
        BY <1>0, <1>4, <2>2 DEF Join, TypeOK
      <3>2. m_tasks = << >> /\ m_shutdown /\ Running = {}
        BY <1>0, <3>1, WorkerAssumption DEF ThreadsOK, Running, In
      <3>3. TaskPool!Down
        BY <1>0, <1>4, <2>2, <3>2 DEF Join, TaskPool!Down
      <3> QED
        BY <3>3 DEF TaskPool!PoolNext
    <2> QED
      BY <2>1, <2>2
  <1>5. CASE \/ NotifyAll \/ \E c \in Client : NotifyOne(c)
             \/ \E w \in Worker : Wait(w) \/ Exit(w) \/ SpuriousWakeup(w)
    BY <1>1, <1>5 DEF NotifyAll, NotifyOne, Wait, Exit, SpuriousWakeup
  <1> QED
    BY <1>2, <1>3, <1>4, <1>5

\* Enqueue submits a task.
LEMMA PushImplements ==
    ASSUME PoolInv, NEW c \in Client, NEW t \in Task, Push(c, t)
    PROVE  TaskPool!Submit(t)
  <1>1. Running' = Running
    BY RunningSame DEF PoolInv, Running
  <1> QED
    BY <1>1 DEF Push, Queued, TaskPool!Submit, TaskPool!Submitted, TaskPool!Range1

\* A worker that takes a task starts the one that was submitted first.
LEMMA TakeImplements ==
    ASSUME PoolInv, NEW w \in Worker, Take(w)
    PROVE  \E t \in Task : TaskPool!Start(t)
  <1>1. /\ Head(m_tasks) = m_tasks[1] /\ m_tasks[1] \in Task /\ m_threads # {}
        /\ w \notin In("running")
    BY Queue DEF PoolInv, ThreadsOK, Take, In
  <1>2. Running' = Running \cup {m_tasks[1]}
    <2>1. In("running")' = In("running") \cup {w} /\ task' = [task EXCEPT ![w] = m_tasks[1]]
      BY <1>1 DEF PoolInv, TypeOK, Take, In
    <2>2. \A v \in In("running") : v # w /\ task'[v] = task[v]
      BY <1>1, <2>1 DEF PoolInv, TypeOK, In
    <2>3. task'[w] = m_tasks[1]
      BY <2>1 DEF PoolInv, TypeOK
    <2> QED
      BY <2>1, <2>2, <2>3 DEF Running
  <1>3. Cardinality(Running) < Cardinality(Worker)
    BY <1>1, RunningBound
  <1>4. /\ m_tasks # << >> /\ m_tasks' = Tail(m_tasks)
        /\ UNCHANGED <<m_threads, m_shutdown, finished>>
    BY DEF Take
  <1>5. TaskPool!Cardinality(Running) = Cardinality(Running)
    BY DEF TaskPool!Cardinality, Cardinality
  <1>6. TaskPool!Start(m_tasks[1])
    BY <1>1, <1>2, <1>3, <1>4, <1>5 DEF TaskPool!Start
  <1> QED
    BY <1>1, <1>6

\* A worker whose task returns or throws finishes it.
LEMMA FinishImplements ==
    ASSUME PoolInv, NEW w \in Worker, FinishTask(w)
    PROVE  \E t \in Task : TaskPool!Finish(t)
  <1>1. w \in In("running") /\ task[w] \in Running /\ task[w] \in Task
    BY DEF PoolInv, TypeOK, ThreadsOK, FinishTask, Running, In
  <1>2. Running' = Running \ {task[w]}
    <2>1. In("running")' = In("running") \ {w}
      BY DEF PoolInv, TypeOK, FinishTask, In
    <2>2. \A v \in In("running") : v # w => task'[v] = task[v] /\ task[v] # task[w]
      BY <1>1 DEF PoolInv, TypeOK, Once, FinishTask, In
    <2> QED
      BY <1>1, <2>1, <2>2 DEF Running
  <1>3. TaskPool!Finish(task[w])
    BY <1>1, <1>2 DEF FinishTask, TaskPool!Finish
  <1> QED
    BY <1>1, <1>3

\* Every step is one of TaskPool or changes nothing of it.
LEMMA TaskPoolStep == PoolInv /\ [Next]_vars => [TaskPool!PoolNext]_(TaskPool!pool)
  <1> SUFFICES ASSUME PoolInv, [Next]_vars PROVE [TaskPool!PoolNext]_(TaskPool!pool)
    OBVIOUS
  <1>1. ASSUME NEW c \in Client, NEW t \in Task, Push(c, t) PROVE TaskPool!PoolNext
    BY <1>1, PushImplements DEF TaskPool!PoolNext
  <1>2. ASSUME NEW w \in Worker, Take(w) PROVE TaskPool!PoolNext
    BY <1>2, TakeImplements DEF TaskPool!PoolNext
  <1>3. ASSUME NEW w \in Worker, FinishTask(w) PROVE TaskPool!PoolNext
    BY <1>3, FinishImplements DEF TaskPool!PoolNext
  <1>4. CASE UNCHANGED vars
    BY <1>4 DEF vars, TaskPool!pool, Running, In
  <1> QED
    BY <1>1, <1>2, <1>3, <1>4, ControlImplements
       DEF Next, Shutdown, Enqueue, WorkerThread

(* The safety part of ImplementsTaskPool: tasks start in the order of their *)
(* submission, each once, at most one per worker, and when the threads are  *)
(* joined every accepted task has run.                                      *)
THEOREM PoolImplementsTaskPool == Spec => TaskPool!PoolSpec
  <1>1. TaskPool!PoolSpec <=> TaskPool!PoolInit /\ [][TaskPool!PoolNext]_(TaskPool!pool)
    BY DEF TaskPool!PoolSpec
  <1> QED
    BY <1>1, TaskPoolInitially, TaskPoolStep, PoolSafe, PTL DEF Spec

-----------------------------------------------------------------------------
(* The TCP server. *)

\* A write under way: a heartbeat is only a header.
Write == {o \in [f : Nat, left : 1..2] : o.f = 0 => o.left = 1}

\* What the peer of a session can be at.
Peer == [want : Nat, last : Nat, ok : BOOLEAN]

\* The queue of a session: messages in the order of send, none of them twice.
QueueOK(q, n) ==
    /\ q \in Seq(Nat \ {0}) /\ Len(q) <= MaxQueue
    /\ \A i \in 1..Len(q) : q[i] <= n
    /\ \A i, j \in 1..Len(q) : i < j => q[i] < q[j]

\* The writes of a session with queue q, w if the handler of one is due: those of
\* messages are one at most, of the first message of the queue.
FrontOK(q, o, w) ==
    /\ o \in Seq(Write)
    /\ w \in BOOLEAN
    /\ \A i, j \in 1..Len(o) : o[i].f # 0 /\ o[j].f # 0 => i = j
    /\ \A i \in 1..Len(o) : o[i].f # 0 => q # <<>> /\ o[i].f = q[1] /\ ~w
    /\ w => q # <<>>

\* The peer has seen no message that is still to be written.
SeenOK(q, n, p) ==
    /\ p \in Peer
    /\ p.last <= n
    /\ q # <<>> => p.last <= q[1]

\* As long as the socket takes headers at once, the one write that can wait is of the
\* body that the peer of an open session expects.
WireOK(k, o, p, l) ==
    /\ l \in BOOLEAN
    /\ ~l => p.ok
    /\ ~l /\ k = "open" /\ o = <<>> => p.want = 0
    /\ ~l /\ k = "open" /\ o # <<>> =>
          Len(o) = 1 /\ o[1].f # 0 /\ o[1].left = 1 /\ p.want = o[1].f

\* Nothing was sent to a session that is not accepted yet.
NewOK(k, q, o, w, p) == k = "new" => q = <<>> /\ o = <<>> /\ ~w /\ p.want = 0

SessionOK(k, q, n, o, w, p, l) ==
    /\ QueueOK(q, n) /\ FrontOK(q, o, w) /\ SeenOK(q, n, p)
    /\ WireOK(k, o, p, l) /\ NewOK(k, q, o, w, p)

\* The functions of the state.
Shape ==
    /\ sock \in [Session -> {"new", "open", "closed"}]
    /\ rd \in [Session -> {"none", "header", "body"}]
    /\ ins \in [Session -> 0..MaxIn] /\ beats \in [Session -> 0..MaxBeats]
    /\ sent \in [Session -> 0..MaxSend]
    /\ rarmed \in [Session -> BOOLEAN] /\ rdue \in [Session -> BOOLEAN]
    /\ DOMAIN queue = Session /\ DOMAIN ops = Session /\ DOMAIN wdone = Session
    /\ DOMAIN peer = Session /\ DOMAIN slow = Session

Sessions == \A s \in Session :
    SessionOK(sock[s], queue[s], sent[s], ops[s], wdone[s], peer[s], slow[s])

\* The server: sessions_ changes only while stop() does not hold the mutex, so that the
\* loop of stop() still has before it every session that is open; a handler that waits
\* for the mutex has closed its session, or has not started it yet.
Server ==
    /\ acceptor \in {"pending", "ready", "none"} /\ stopped \in BOOLEAN
    /\ sessions \subseteq Session /\ todo \subseteq sessions
    /\ stopper \in {"none", "io", "main"}
    /\ stop \in {"no", "lock", "closing", "hung", "done"}
    /\ iowait \in [op : {"insert", "remove"}, s : Session] \cup {Nothing}
    /\ stopped <=> stop # "no"
    /\ ~Locked => todo = {}
    /\ iowait.op = "remove" => sock[iowait.s] = "closed"
    /\ iowait.op = "insert" => sock[iowait.s] = "new"
    /\ stop = "closing" => \A s \in Session : sock[s] = "open" => s \in todo

TcpInv == Shape /\ Sessions /\ Server /\ OpenListed
-----------------------------------------------------------------------------
(* Frames and their parts. *)

\* A heartbeat is a header, a message a header and a body.
LEMMA PartsOf ==
    ASSUME NEW f \in Nat
    PROVE  /\ f = 0 => Parts(f) = <<"H">> /\ Len(Parts(f)) = 1
           /\ f # 0 => Parts(f) = <<"H", "B">> /\ Len(Parts(f)) = 2
  BY DEF Parts

\* What the peer is at once it has read a part.
LEMMA ReadIs ==
    ASSUME NEW p \in Peer, NEW f \in Nat
    PROVE  /\ Read(p, f, "B") = [want |-> 0, last |-> p.last, ok |-> p.ok /\ p.want = f]
           /\ Read(p, f, "?") = [want |-> p.want, last |-> p.last, ok |-> FALSE]
           /\ f = 0 => Read(p, f, "H") =
                          [want |-> p.want, last |-> p.last, ok |-> p.ok /\ p.want = 0]
           /\ f # 0 => Read(p, f, "H") =
                          [want |-> f, last |-> f, ok |-> p.ok /\ p.want = 0 /\ f > p.last]
  <1>1. p = [want |-> p.want, last |-> p.last, ok |-> p.ok]
    BY DEF Peer
  <1>2. Read(p, f, "B") = [want |-> 0, last |-> p.last, ok |-> p.ok /\ p.want = f]
    BY <1>1 DEF Read
  <1>3. Read(p, f, "?") = [want |-> p.want, last |-> p.last, ok |-> FALSE]
    BY <1>1 DEF Read
  <1>4. f = 0 => Read(p, f, "H") = [want |-> p.want, last |-> p.last, ok |-> p.ok /\ p.want = 0]
    BY <1>1 DEF Read
  <1>5. f # 0 => Read(p, f, "H") = [want |-> f, last |-> f, ok |-> p.ok /\ p.want = 0 /\ f > p.last]
    BY <1>1 DEF Read
  <1> QED
    BY <1>2, <1>3, <1>4, <1>5

\* Its place in the stream.
LEMMA PeerReads ==
    ASSUME NEW p \in Peer, NEW f \in Nat
    PROVE  /\ Read(p, f, "B") \in Peer /\ Read(p, f, "B").want = 0 /\ Read(p, f, "B").last = p.last
           /\ Read(p, f, "?") \in Peer /\ Read(p, f, "?").last = p.last
           /\ Read(p, f, "H") \in Peer
           /\ f = 0 => Read(p, f, "H").want = p.want /\ Read(p, f, "H").last = p.last
           /\ f # 0 => Read(p, f, "H").want = f /\ Read(p, f, "H").last = f
  <1>1. 0 \in Nat /\ p.want \in Nat /\ p.last \in Nat /\ p.ok \in BOOLEAN
    BY DEF Peer
  <1>2. \A w, l \in Nat : \A b \in BOOLEAN : [want |-> w, last |-> l, ok |-> b] \in Peer
    BY DEF Peer
  <1>3. /\ (p.ok /\ p.want = f) \in BOOLEAN /\ (p.ok /\ p.want = 0) \in BOOLEAN
        /\ (p.ok /\ p.want = 0 /\ f > p.last) \in BOOLEAN
    OBVIOUS
  <1>4. Read(p, f, "B") \in Peer /\ Read(p, f, "?") \in Peer
    <2>1. /\ Read(p, f, "B") = [want |-> 0, last |-> p.last, ok |-> p.ok /\ p.want = f]
          /\ Read(p, f, "?") = [want |-> p.want, last |-> p.last, ok |-> FALSE]
      BY ReadIs
    <2> QED
      BY <1>1, <1>2, <1>3, <2>1, Zenon
  <1>5. Read(p, f, "H") \in Peer
    <2>1. /\ f = 0 => Read(p, f, "H") =
                       [want |-> p.want, last |-> p.last, ok |-> p.ok /\ p.want = 0]
          /\ f # 0 => Read(p, f, "H") =
                          [want |-> f, last |-> f, ok |-> p.ok /\ p.want = 0 /\ f > p.last]
      BY ReadIs
    <2> QED
      BY <1>1, <1>2, <1>3, <2>1, Zenon
  <1>6. /\ Read(p, f, "B").want = 0 /\ Read(p, f, "B").last = p.last
        /\ Read(p, f, "?").last = p.last
    BY ReadIs
  <1>7. f = 0 => Read(p, f, "H").want = p.want /\ Read(p, f, "H").last = p.last
    BY ReadIs
  <1>8. f # 0 => Read(p, f, "H").want = f /\ Read(p, f, "H").last = f
    BY ReadIs
  <1> QED
    BY <1>4, <1>5, <1>6, <1>7, <1>8

\* A peer that expects a header is well after it: of a heartbeat, of a new message, or of
\* a whole new message.
LEMMA ReadsWell ==
    ASSUME NEW p \in Peer, NEW f \in Nat
    PROVE  /\ f = 0 /\ p.ok /\ p.want = 0 => Read(p, f, "H").ok
           /\ f # 0 /\ p.ok /\ p.want = 0 /\ p.last < f => Read(p, f, "H").ok
           /\ p.ok /\ p.want = f => Read(p, f, "B").ok
  <1>1. f \in Nat /\ p.last \in Nat
    BY DEF Peer
  <1>2. ASSUME f = 0, p.ok, p.want = 0 PROVE Read(p, f, "H").ok
    <2>1. Read(p, f, "H").ok = (p.ok /\ p.want = 0)
      BY <1>2, ReadIs
    <2> QED
      BY <1>2, <2>1, Zenon
  <1>3. ASSUME f # 0, p.ok, p.want = 0, p.last < f PROVE Read(p, f, "H").ok
    <2>1. Read(p, f, "H").ok = (p.ok /\ p.want = 0 /\ f > p.last)
      BY <1>3, ReadIs
    <2>2. f > p.last
      BY <1>1, <1>3
    <2> QED
      BY <1>3, <2>1, <2>2, Zenon
  <1>4. ASSUME p.ok, p.want = f PROVE Read(p, f, "B").ok
    <2>1. Read(p, f, "B").ok = (p.ok /\ p.want = f)
      BY ReadIs
    <2> QED
      BY <1>4, <2>1, Zenon
  <1> QED
    BY <1>2, <1>3, <1>4

\* What the peer of a write that starts is at, for each number of parts taken at once.
LEMMA TakenAtOnce ==
    ASSUME NEW p \in Peer, NEW f \in Nat
    PROVE  /\ After(p, f, Len(Parts(f)), 0, FALSE) = {p}
           /\ After(p, f, Len(Parts(f)), 1, FALSE) = {Read(p, f, "H")}
           /\ f # 0 => After(p, f, Len(Parts(f)), 2, FALSE) = {Read(Read(p, f, "H"), f, "B")}
  <1>1. Len(Parts(f)) - Len(Parts(f)) + 1 = 1 /\ Parts(f)[1] = "H"
    BY PartsOf
  <1> QED
    BY <1>1 DEF After

\* The same of a write that waited: a header may be spoilt.
LEMMA TakenLater ==
    ASSUME NEW p \in Peer, NEW o \in Write, NEW n \in 1..o.left,
           NEW q \in After(p, o.f, o.left, n, TRUE)
    PROVE  /\ n = 1 /\ (o.f = 0 \/ o.left = 2) =>
                  q \in {Read(p, o.f, "H"), Read(p, o.f, "?")}
           /\ n = 1 /\ o.f # 0 /\ o.left = 1 => q = Read(p, o.f, "B")
           /\ n = 2 => q \in {Read(Read(p, o.f, "H"), o.f, "B"), Read(Read(p, o.f, "?"), o.f, "B")}
  <1>1. o.f \in Nat /\ o.left \in 1..2 /\ n \in 1..2 /\ (o.f = 0 => o.left = 1)
    BY DEF Write
  <1>2. /\ o.f = 0 \/ o.left = 2 => Parts(o.f)[Len(Parts(o.f)) - o.left + 1] = "H"
        /\ o.f # 0 /\ o.left = 1 => Parts(o.f)[Len(Parts(o.f)) - o.left + 1] = "B"
    <2>1. CASE o.f = 0
      <3>1. Parts(o.f) = <<"H">> /\ Len(Parts(o.f)) = 1 /\ o.left = 1
        BY <1>1, <2>1, PartsOf
      <3>2. Len(Parts(o.f)) - o.left + 1 = 1 /\ Parts(o.f)[1] = "H"
        BY <3>1
      <3> QED
        BY <2>1, <3>2
    <2>2. CASE o.f # 0
      <3>1. Parts(o.f) = <<"H", "B">> /\ Len(Parts(o.f)) = 2
        BY <1>1, <2>2, PartsOf
      <3>2. CASE o.left = 1
        BY <2>2, <3>1, <3>2
      <3>3. CASE o.left = 2
        BY <2>2, <3>1, <3>3
      <3> QED
        BY <1>1, <3>2, <3>3
    <2> QED
      BY <2>1, <2>2
  <1>3. CASE n = 1 /\ (o.f = 0 \/ o.left = 2)
    BY <1>1, <1>2, <1>3 DEF After
  <1>4. CASE n = 1 /\ o.f # 0 /\ o.left = 1
    BY <1>1, <1>2, <1>4 DEF After
  <1>5. CASE n = 2
    BY <1>1, <1>2, <1>5 DEF After
  <1> QED
    BY <1>1, <1>3, <1>4, <1>5

\* So the peer stays well typed, and what it saw last is what it had seen or the message.
LEMMA SeenLater ==
    ASSUME NEW p \in Peer, NEW o \in Write, NEW n \in 1..o.left,
           NEW q \in After(p, o.f, o.left, n, TRUE)
    PROVE  /\ q \in Peer
           /\ q.last = p.last \/ (o.f # 0 /\ q.last = o.f)
           /\ o.f # 0 /\ o.left = 1 => q.want = 0 /\ (p.ok /\ p.want = o.f => q.ok)
  <1>1. o.f \in Nat /\ o.left \in 1..2 /\ n \in 1..2 /\ (o.f = 0 => o.left = 1)
    BY DEF Write
  <1>2. /\ Read(p, o.f, "H") \in Peer /\ Read(p, o.f, "?") \in Peer
        /\ Read(p, o.f, "?").last = p.last
        /\ o.f = 0 => Read(p, o.f, "H").last = p.last
        /\ o.f # 0 => Read(p, o.f, "H").last = o.f
    BY <1>1, PeerReads
  <1>3. CASE n = 1 /\ (o.f = 0 \/ o.left = 2)
    <2>1. q = Read(p, o.f, "H") \/ q = Read(p, o.f, "?")
      BY <1>3, TakenLater
    <2> QED
      BY <1>1, <1>2, <1>3, <2>1
  <1>4. CASE n = 1 /\ o.f # 0 /\ o.left = 1
    <2>1. q = Read(p, o.f, "B")
      BY <1>4, TakenLater
    <2>2. /\ q \in Peer /\ q.last = p.last /\ q.want = 0
          /\ p.ok /\ p.want = o.f => q.ok
      <3>1. /\ Read(p, o.f, "B") \in Peer /\ Read(p, o.f, "B").last = p.last
            /\ Read(p, o.f, "B").want = 0
        BY <1>1, PeerReads
      <3>2. p.ok /\ p.want = o.f => Read(p, o.f, "B").ok
        BY <1>1, ReadsWell
      <3> QED
        BY <2>1, <3>1, <3>2, Zenon
    <2> QED
      BY <2>2
  <1>5. CASE n = 2
    <2>1. o.left = 2 /\ o.f # 0
      BY <1>1, <1>5
    <2>2. PICK r \in {Read(p, o.f, "H"), Read(p, o.f, "?")} : q = Read(r, o.f, "B")
      BY <1>5, TakenLater
    <2>3. r \in Peer /\ (r.last = p.last \/ r.last = o.f)
      BY <1>2, <2>1, <2>2
    <2>4. q \in Peer /\ q.last = r.last
      BY <1>1, <2>2, <2>3, PeerReads
    <2> QED
      BY <2>1, <2>3, <2>4
  <1> QED
    BY <1>1, <1>3, <1>4, <1>5
-----------------------------------------------------------------------------
(* Writes that start. *)

\* The functions of the state, as far as writes are concerned.
LEMMA Values ==
    ASSUME Shape, Sessions, NEW s \in Session
    PROVE  /\ sock[s] \in {"new", "open", "closed"} /\ sent[s] \in 0..MaxSend /\ sent[s] \in Nat
           /\ queue[s] \in Seq(Nat \ {0}) /\ ops[s] \in Seq(Write) /\ peer[s] \in Peer
           /\ wdone[s] \in BOOLEAN /\ slow[s] \in BOOLEAN
  BY TcpAssumption DEF Shape, Sessions, SessionOK, QueueOK, FrontOK, SeenOK, WireOK

\* A write starts: the socket takes nothing at once, all of it, or the header of a message.
Waits(s, f, d) ==
    /\ peer'[s] = peer[s] /\ ops'[s] = Append(ops[s], [f |-> f, left |-> Len(Parts(f))])
    /\ wdone'[s] = d /\ slow'[s] = TRUE

Whole(s, f, d) ==
    /\ ops[s] = <<>> /\ sock[s] = "open"
    /\ peer'[s] = IF f = 0 THEN Read(peer[s], f, "H") ELSE Read(Read(peer[s], f, "H"), f, "B")
    /\ ops'[s] = <<>> /\ wdone'[s] = (d \/ f # 0) /\ slow'[s] = slow[s]

HeaderOnly(s, f, d) ==
    /\ ops[s] = <<>> /\ sock[s] = "open" /\ f # 0
    /\ peer'[s] = Read(peer[s], f, "H")
    /\ ops'[s] = Append(<<>>, [f |-> f, left |-> 1]) /\ wdone'[s] = d /\ slow'[s] = slow[s]

\* Nothing of the writes of other sessions changes.
OthersKept(s) ==
    /\ DOMAIN ops' = Session /\ DOMAIN wdone' = Session
    /\ DOMAIN peer' = Session /\ DOMAIN slow' = Session
    /\ \A t \in Session \ {s} : /\ ops'[t] = ops[t] /\ wdone'[t] = wdone[t]
                                /\ peer'[t] = peer[t] /\ slow'[t] = slow[t]

\* A write that starts changes its session only, and waits, goes out whole or leaves its body
\* waiting behind the header.
LEMMA Starting ==
    ASSUME Shape, Sessions, NEW s \in Session, NEW f \in Nat, NEW d \in BOOLEAN, StartWrite(s, f, d)
    PROVE  /\ OthersKept(s)
           /\ Waits(s, f, d) \/ Whole(s, f, d) \/ HeaderOnly(s, f, d)
  <1>0. peer[s] \in Peer /\ wdone[s] \in BOOLEAN /\ slow[s] \in BOOLEAN
    BY Values
  <1> DEFINE len == Len(Parts(f))
  <1>1. PICK n \in IF ops[s] = <<>> /\ sock[s] = "open" THEN 0..len ELSE {0} :
            /\ peer' = [peer EXCEPT ![s] = CHOOSE p \in After(peer[s], f, len, n, FALSE) : TRUE]
            /\ ops' = [ops EXCEPT ![s] =
                          IF n = len THEN ops[s]
                          ELSE Append(ops[s], [f |-> f, left |-> len - n])]
            /\ wdone' = [wdone EXCEPT ![s] = d \/ (f # 0 /\ n = len)]
            /\ slow' = [slow EXCEPT ![s] = slow[s] \/ n = 0]
    BY DEF StartWrite
  <1>2. len \in {1, 2} /\ (f = 0 => len = 1) /\ (f # 0 => len = 2)
    BY PartsOf
  <1>a. n \in 0..len /\ (n # 0 => ops[s] = <<>> /\ sock[s] = "open")
    BY <1>1, <1>2
  <1>b. n \in {0, 1, 2} /\ (n = 2 => f # 0)
    BY <1>2, <1>a
  <1>3. OthersKept(s)
    BY <1>1 DEF OthersKept, Shape
  <1>4. /\ peer'[s] = CHOOSE p \in After(peer[s], f, len, n, FALSE) : TRUE
        /\ ops'[s] = IF n = len THEN ops[s] ELSE Append(ops[s], [f |-> f, left |-> len - n])
        /\ wdone'[s] = (d \/ (f # 0 /\ n = len))
        /\ slow'[s] = (slow[s] \/ n = 0)
    BY <1>1 DEF Shape
  <1>5. \A v : (CHOOSE p \in {v} : TRUE) = v
    OBVIOUS
  <1>6. CASE n = 0
    <2>1. After(peer[s], f, len, n, FALSE) = {peer[s]}
      BY <1>0, <1>6, TakenAtOnce
    <2>2. peer'[s] = peer[s]
      BY <1>4, <1>5, <2>1
    <2>3. n # len /\ len - n = len
      BY <1>2, <1>6
    <2> QED
      BY <1>3, <1>4, <1>6, <2>2, <2>3 DEF Waits
  <1>7. CASE n = 1 /\ f = 0
    <2>1. After(peer[s], f, len, n, FALSE) = {Read(peer[s], f, "H")}
      BY <1>0, <1>7, TakenAtOnce
    <2>2. peer'[s] = Read(peer[s], f, "H")
      BY <1>4, <1>5, <2>1
    <2>3. n = len /\ ops[s] = <<>> /\ sock[s] = "open"
      BY <1>2, <1>a, <1>7
    <2>4. wdone'[s] = (d \/ f # 0) /\ slow'[s] = slow[s]
      BY <1>0, <1>4, <1>7
    <2> QED
      BY <1>3, <1>4, <1>7, <2>2, <2>3, <2>4 DEF Whole
  <1>8. CASE n = 1 /\ f # 0
    <2>1. After(peer[s], f, len, n, FALSE) = {Read(peer[s], f, "H")}
      BY <1>0, <1>8, TakenAtOnce
    <2>2. peer'[s] = Read(peer[s], f, "H")
      BY <1>4, <1>5, <2>1
    <2>3. n # len /\ len - n = 1 /\ ops[s] = <<>> /\ sock[s] = "open"
      BY <1>2, <1>a, <1>8
    <2>4. wdone'[s] = d
      <3>1. (d \/ (f # 0 /\ n = len)) = d
        BY <2>3
      <3> QED
        BY <1>4, <3>1, Zenon
    <2>5. slow'[s] = slow[s]
      <3>1. (slow[s] \/ n = 0) = slow[s]
        BY <1>0, <1>8
      <3> QED
        BY <1>4, <3>1, Zenon
    <2> QED
      BY <1>3, <1>4, <1>8, <2>2, <2>3, <2>4, <2>5 DEF HeaderOnly
  <1>9. CASE n = 2
    <2>0. f # 0 /\ n = len /\ ops[s] = <<>> /\ sock[s] = "open"
      BY <1>2, <1>a, <1>b, <1>9
    <2>1. After(peer[s], f, len, n, FALSE) = {Read(Read(peer[s], f, "H"), f, "B")}
      BY <1>0, <1>9, <2>0, TakenAtOnce
    <2>2. peer'[s] = Read(Read(peer[s], f, "H"), f, "B")
      BY <1>4, <1>5, <2>1
    <2>4. wdone'[s] = (d \/ f # 0) /\ slow'[s] = slow[s]
      BY <1>0, <1>4, <1>9, <2>0
    <2> QED
      BY <1>3, <1>4, <2>0, <2>2, <2>4 DEF Whole
  <1> QED
    BY <1>b, <1>6, <1>7, <1>8, <1>9

\* A write is put behind the others.
LEMMA WriteBehind ==
    ASSUME NEW o \in Seq(Write), NEW x \in Write
    PROVE  /\ Append(o, x) \in Seq(Write) /\ Len(Append(o, x)) = Len(o) + 1 /\ Len(o) \in Nat
           /\ \A i \in 1..Len(o) : Append(o, x)[i] = o[i]
           /\ Append(o, x)[Len(o) + 1] = x
           /\ Append(o, x) # <<>>
  BY AppendProperties, LenProperties, EmptySeq

\* The frame of a message and a heartbeat as writes.
LEMMA NewWrite ==
    ASSUME NEW f \in Nat
    PROVE  /\ [f |-> f, left |-> Len(Parts(f))] \in Write
           /\ f # 0 => [f |-> f, left |-> 1] \in Write
  <1>1. Len(Parts(f)) \in 1..2 /\ (f = 0 => Len(Parts(f)) = 1)
    BY PartsOf
  <1>2. \A n \in 1..2 : (f = 0 => n = 1) => [f |-> f, left |-> n] \in Write
    BY DEF Write
  <1>3. ASSUME f # 0 PROVE [f |-> f, left |-> 1] \in Write
    BY <1>2, <1>3
  <1> QED
    BY <1>1, <1>2, <1>3

\* do_write of the message at the front of the queue q, when no other is written.
LEMMA StartMessage ==
    ASSUME Shape, Sessions, NEW s \in Session, NEW q, NEW m \in Nat, QueueOK(q, m), q # <<>>,
           sock[s] # "new", \A i \in 1..Len(ops[s]) : ops[s][i].f = 0, peer[s].last < q[1],
           StartWrite(s, q[1], FALSE)
    PROVE  SessionOK(sock[s], q, m, ops'[s], wdone'[s], peer'[s], slow'[s])
  <1> DEFINE f == q[1]
  <1>1. f \in Nat /\ f # 0 /\ f <= m
    BY EmptySeq, LenProperties DEF QueueOK
  <1>2. /\ ops[s] \in Seq(Write) /\ peer[s] \in Peer /\ slow[s] \in BOOLEAN
        /\ WireOK(sock[s], ops[s], peer[s], slow[s])
    BY Values DEF Sessions, SessionOK
  <1>3. Waits(s, f, FALSE) \/ Whole(s, f, FALSE) \/ HeaderOnly(s, f, FALSE)
    BY <1>1, Starting
  <1>4. NewOK(sock[s], q, ops'[s], wdone'[s], peer'[s])
    BY DEF NewOK
  <1> HIDE DEF f
  <1>f. f = q[1]
    BY DEF f
  <1>5. CASE Waits(s, f, FALSE)
    <2> DEFINE x == [f |-> f, left |-> Len(Parts(f))]
    <2>1. ops'[s] = Append(ops[s], x) /\ x \in Write /\ x.f = f
      BY <1>1, <1>5, NewWrite DEF Waits
    <2> HIDE DEF x
    <2>2. FrontOK(q, ops'[s], wdone'[s])
      <3>1. /\ ops'[s] \in Seq(Write) /\ Len(ops'[s]) = Len(ops[s]) + 1 /\ Len(ops[s]) \in Nat
            /\ \A i \in 1..Len(ops[s]) : ops'[s][i].f = 0
            /\ ops'[s][Len(ops[s]) + 1].f = f
        BY <1>2, <2>1, WriteBehind
      <3>2. \A i \in 1..Len(ops'[s]) : ops'[s][i].f # 0 => i = Len(ops[s]) + 1
        BY <3>1
      <3>3. wdone'[s] = FALSE
        BY <1>5 DEF Waits
      <3> QED
        BY <1>f, <3>1, <3>2, <3>3 DEF FrontOK
    <2>3. SeenOK(q, m, peer'[s])
      BY <1>1, <1>2, <1>5, <1>f DEF SeenOK, Waits, Peer
    <2>4. WireOK(sock[s], ops'[s], peer'[s], slow'[s])
      BY <1>5 DEF WireOK, Waits
    <2> QED
      BY <1>4, <2>2, <2>3, <2>4 DEF SessionOK
  <1>6. CASE Whole(s, f, FALSE)
    <2>1. /\ peer'[s] \in Peer /\ peer'[s].want = 0 /\ peer'[s].last = f
          /\ peer[s].ok /\ peer[s].want = 0 => peer'[s].ok
      <3> DEFINE h == Read(peer[s], f, "H")
      <3>1. h \in Peer /\ h.want = f /\ h.last = f /\ peer'[s] = Read(h, f, "B")
        BY <1>1, <1>2, <1>6, PeerReads DEF Whole
      <3>2. peer[s].ok /\ peer[s].want = 0 => h.ok
        BY <1>1, <1>2, <1>f, ReadsWell
      <3> HIDE DEF h
      <3> QED
        <4>1. peer'[s] \in Peer /\ peer'[s].want = 0 /\ peer'[s].last = f
          <5>1. Read(h, f, "B") \in Peer /\ Read(h, f, "B").want = 0 /\ Read(h, f, "B").last = h.last
            BY <1>1, <3>1, PeerReads
          <5> QED
            BY <3>1, <5>1, Zenon
        <4>2. h.ok => Read(h, f, "B").ok
          BY <1>1, <3>1, ReadsWell
        <4>3. h.ok => peer'[s].ok
          BY <3>1, <4>2, Zenon
        <4> QED
          BY <3>2, <4>1, <4>3
    <2>2. FrontOK(q, ops'[s], wdone'[s])
      BY <1>1, <1>6, EmptySeq DEF FrontOK, Whole
    <2>3. SeenOK(q, m, peer'[s])
      BY <1>1, <1>f, <2>1 DEF SeenOK
    <2>4. WireOK(sock[s], ops'[s], peer'[s], slow'[s])
      BY <1>1, <1>2, <1>6, <1>f, <2>1 DEF WireOK, Whole, Peer
    <2> QED
      BY <1>4, <2>2, <2>3, <2>4 DEF SessionOK
  <1>7. CASE HeaderOnly(s, f, FALSE)
    <2> DEFINE x == [f |-> f, left |-> 1]
    <2>1. ops'[s] = Append(<<>>, x) /\ x \in Write /\ x.f = f /\ x.left = 1
      BY <1>1, <1>7, NewWrite DEF HeaderOnly
    <2> HIDE DEF x
    <2>2. ops'[s] \in Seq(Write) /\ Len(ops'[s]) = 1 /\ ops'[s][1] = x /\ ops'[s] # <<>>
      BY <2>1, WriteBehind, EmptySeq
    <2>3. /\ peer'[s] \in Peer /\ peer'[s].want = f /\ peer'[s].last = f
          /\ peer[s].ok /\ peer[s].want = 0 => peer'[s].ok
      <3>1. peer'[s] = Read(peer[s], f, "H")
        BY <1>7 DEF HeaderOnly
      <3>2. peer'[s] \in Peer /\ peer'[s].want = f /\ peer'[s].last = f
        BY <1>1, <1>2, <3>1, PeerReads
      <3>3. peer[s].ok /\ peer[s].want = 0 => Read(peer[s], f, "H").ok
        BY <1>1, <1>2, <1>f, ReadsWell
      <3>4. peer[s].ok /\ peer[s].want = 0 => peer'[s].ok
        BY <3>1, <3>3, Zenon
      <3> QED
        BY <3>2, <3>4
    <2>4. FrontOK(q, ops'[s], wdone'[s])
      <3>1. wdone'[s] = FALSE
        BY <1>7 DEF HeaderOnly
      <3>2. \A i \in 1..Len(ops'[s]) : i = 1 /\ ops'[s][i].f = f
        BY <2>1, <2>2
      <3> QED
        BY <1>f, <2>2, <3>1, <3>2 DEF FrontOK
    <2>5. SeenOK(q, m, peer'[s])
      BY <1>1, <1>f, <2>3 DEF SeenOK
    <2>6. WireOK(sock[s], ops'[s], peer'[s], slow'[s])
      BY <1>1, <1>2, <1>7, <1>f, <2>1, <2>2, <2>3 DEF WireOK, HeaderOnly, Peer
    <2> QED
      BY <1>4, <2>4, <2>5, <2>6 DEF SessionOK
  <1> QED
    BY <1>3, <1>5, <1>6, <1>7

\* send_heartbeat to an open session.
LEMMA StartBeat ==
    ASSUME Shape, Sessions, NEW s \in Session, sock[s] = "open", StartWrite(s, 0, wdone[s])
    PROVE  SessionOK(sock[s], queue[s], sent[s], ops'[s], wdone'[s], peer'[s], slow'[s])
  <1>1. /\ ops[s] \in Seq(Write) /\ peer[s] \in Peer /\ slow[s] \in BOOLEAN /\ wdone[s] \in BOOLEAN
        /\ sent[s] \in Nat
        /\ QueueOK(queue[s], sent[s]) /\ FrontOK(queue[s], ops[s], wdone[s])
        /\ SeenOK(queue[s], sent[s], peer[s]) /\ WireOK(sock[s], ops[s], peer[s], slow[s])
    BY Values DEF Sessions, SessionOK
  <1>2. Waits(s, 0, wdone[s]) \/ Whole(s, 0, wdone[s])
    BY <1>1, Starting DEF HeaderOnly
  <1>3. NewOK(sock[s], queue[s], ops'[s], wdone'[s], peer'[s])
    BY DEF NewOK
  <1>4. CASE Waits(s, 0, wdone[s])
    <2> DEFINE x == [f |-> 0, left |-> Len(Parts(0))]
    <2>1. ops'[s] = Append(ops[s], x) /\ x \in Write /\ x.f = 0
      BY <1>4, NewWrite DEF Waits
    <2> HIDE DEF x
    <2>2. FrontOK(queue[s], ops'[s], wdone'[s])
      BY <1>1, <1>4, <2>1, WriteBehind DEF FrontOK, Waits
    <2>3. SeenOK(queue[s], sent[s], peer'[s])
      BY <1>1, <1>4 DEF Waits
    <2>4. WireOK(sock[s], ops'[s], peer'[s], slow'[s])
      BY <1>4 DEF WireOK, Waits
    <2> QED
      BY <1>1, <1>3, <2>2, <2>3, <2>4 DEF SessionOK
  <1>5. CASE Whole(s, 0, wdone[s])
    <2>1. peer'[s] = Read(peer[s], 0, "H") /\ wdone'[s] = wdone[s]
      BY <1>1, <1>5 DEF Whole
    <2>2. /\ peer'[s] \in Peer /\ peer'[s].want = peer[s].want /\ peer'[s].last = peer[s].last
          /\ peer[s].ok /\ peer[s].want = 0 => peer'[s].ok
      <3>1. /\ peer'[s] \in Peer /\ peer'[s].want = peer[s].want
            /\ peer'[s].last = peer[s].last
        <4>1. /\ Read(peer[s], 0, "H") \in Peer /\ Read(peer[s], 0, "H").want = peer[s].want
              /\ Read(peer[s], 0, "H").last = peer[s].last
          BY <1>1, PeerReads
        <4> QED
          BY <2>1, <4>1, Zenon
      <3>2. peer[s].ok /\ peer[s].want = 0 => Read(peer[s], 0, "H").ok
        BY <1>1, ReadsWell
      <3>3. peer[s].ok /\ peer[s].want = 0 => peer'[s].ok
        BY <2>1, <3>2, Zenon
      <3> QED
        BY <3>1, <3>3
    <2>3. FrontOK(queue[s], ops'[s], wdone'[s])
      BY <1>1, <1>5, <2>1, EmptySeq DEF FrontOK, Whole
    <2>4. SeenOK(queue[s], sent[s], peer'[s])
      BY <1>1, <2>2 DEF SeenOK
    <2>5. WireOK(sock[s], ops'[s], peer'[s], slow'[s])
      BY <1>1, <1>5, <2>2 DEF WireOK, Whole, Peer
    <2> QED
      BY <1>1, <1>3, <2>3, <2>4, <2>5 DEF SessionOK
  <1> QED
    BY <1>2, <1>4, <1>5
-----------------------------------------------------------------------------
(* What each operation does to the writes of its session. *)

\* An operation of one session leaves the others alone.
LEMMA OneSession ==
    ASSUME Sessions, NEW s \in Session,
           SessionOK(sock'[s], queue'[s], sent'[s], ops'[s], wdone'[s], peer'[s], slow'[s]),
           \A t \in Session \ {s} :
              /\ sock'[t] = sock[t] /\ queue'[t] = queue[t] /\ sent'[t] = sent[t] /\ ops'[t] = ops[t]
              /\ wdone'[t] = wdone[t] /\ peer'[t] = peer[t] /\ slow'[t] = slow[t]
    PROVE  Sessions'
  <1>1. \A t \in Session :
          SessionOK(sock'[t], queue'[t], sent'[t], ops'[t], wdone'[t], peer'[t], slow'[t])
    BY Zenon DEF Sessions
  <1> QED
    BY <1>1 DEF Sessions

\* Closing a session, and opening a new one.
LEMMA ClosedOK ==
    ASSUME NEW k, NEW q, NEW n, NEW o, NEW w, NEW p, NEW l, SessionOK(k, q, n, o, w, p, l)
    PROVE  SessionOK("closed", q, n, o, w, p, l)
  BY DEF SessionOK, WireOK, NewOK

\* A session that opens keeps what holds of it before it sends anything.
LEMMA OpenedOK ==
    ASSUME NEW q, NEW n, NEW o, NEW w, NEW p, NEW l, SessionOK("new", q, n, o, w, p, l)
    PROVE  SessionOK("open", q, n, o, w, p, l)
  BY DEF SessionOK, WireOK, NewOK

\* A message joins the queue.
LEMMA QueueGrows ==
    ASSUME NEW q, NEW n \in Nat, QueueOK(q, n), Len(q) < MaxQueue
    PROVE  /\ QueueOK(Append(q, n + 1), n + 1) /\ Append(q, n + 1) # <<>>
           /\ q = <<>> => Append(q, n + 1)[1] = n + 1
           /\ q # <<>> => Append(q, n + 1)[1] = q[1]
  <1> DEFINE a == Append(q, n + 1)
  <1>1. /\ q \in Seq(Nat \ {0}) /\ Len(q) \in Nat /\ n + 1 \in Nat \ {0} /\ MaxQueue \in Nat
        /\ q # <<>> => Len(q) >= 1
    BY LenProperties, EmptySeq, TcpAssumption DEF QueueOK
  <1>2. /\ a \in Seq(Nat \ {0}) /\ Len(a) = Len(q) + 1 /\ a # <<>>
        /\ \A i \in 1..Len(q) : a[i] = q[i]
        /\ a[Len(q) + 1] = n + 1
    <2> DEFINE N == Nat \ {0}
    <2>1. q \in Seq(N) /\ n + 1 \in N
      BY <1>1
    <2> HIDE DEF N
    <2>2. /\ a \in Seq(N) /\ Len(a) = Len(q) + 1
          /\ \A i \in 1..Len(q) : a[i] = q[i]
          /\ a[Len(q) + 1] = n + 1
      BY <2>1, AppendProperties
    <2>3. a # <<>>
      BY <1>1, <2>2, EmptySeq
    <2> QED
      BY <2>2, <2>3 DEF N
  <1>8. 1..Len(a) = 1..Len(q) \cup {Len(q) + 1}
    BY <1>1, <1>2
  <1>3. \A i \in 1..Len(q) : q[i] \in Nat /\ q[i] <= n
    BY <1>1, ElementOfSeq DEF QueueOK
  <1> HIDE DEF a
  <1>4. \A i \in 1..Len(a) : a[i] <= n + 1
    <2> SUFFICES ASSUME NEW i \in 1..Len(a) PROVE a[i] <= n + 1
      OBVIOUS
    <2>1. CASE i \in 1..Len(q)
      BY <1>2, <1>3, <2>1
    <2>2. CASE i = Len(q) + 1
      BY <1>2, <2>2
    <2> QED
      BY <1>8, <2>1, <2>2
  <1>5. \A i, j \in 1..Len(a) : i < j => a[i] < a[j]
    <2> SUFFICES ASSUME NEW i \in 1..Len(a), NEW j \in 1..Len(a), i < j PROVE a[i] < a[j]
      OBVIOUS
    <2>1. i \in 1..Len(q) /\ a[i] = q[i]
      BY <1>1, <1>2
    <2>2. CASE j \in 1..Len(q)
      BY <1>2, <2>1, <2>2 DEF QueueOK
    <2>3. CASE j = Len(q) + 1
      BY <1>2, <1>3, <2>1, <2>3
    <2> QED
      BY <1>8, <2>2, <2>3
  <1>6. QueueOK(a, n + 1)
    BY <1>1, <1>2, <1>4, <1>5 DEF QueueOK
  <1>7. (q = <<>> => a[1] = n + 1) /\ (q # <<>> => a[1] = q[1])
    BY <1>1, <1>2, EmptySeq
  <1> QED
    BY <1>2, <1>6, <1>7 DEF a

\* The first message leaves the queue.
LEMMA QueueShrinks ==
    ASSUME NEW q, NEW n \in Nat, QueueOK(q, n), q # <<>>
    PROVE  /\ QueueOK(Tail(q), n)
           /\ Tail(q) # <<>> <=> Len(q) > 1
           /\ Len(q) > 1 => Tail(q)[1] = q[2] /\ q[1] < q[2] /\ q[1] \in Nat /\ q[2] \in Nat
  <1> DEFINE a == Tail(q)
  <1>1. /\ q \in Seq(Nat \ {0}) /\ Len(q) \in Nat /\ MaxQueue \in Nat /\ Len(q) >= 1
    BY LenProperties, EmptySeq, TcpAssumption DEF QueueOK
  <1>2. /\ a \in Seq(Nat \ {0}) /\ Len(a) = Len(q) - 1
        /\ \A i \in 1..Len(a) : a[i] = q[i + 1]
    BY <1>1, HeadTailProperties
  <1>3. \A i \in 1..Len(q) : q[i] \in Nat
    BY <1>1, ElementOfSeq
  <1>4. a # <<>> <=> Len(q) > 1
    <2>1. a = <<>> <=> Len(a) = 0
      BY <1>2, EmptySeq
    <2> QED
      BY <1>1, <1>2, <2>1
  <1> HIDE DEF a
  <1>5. QueueOK(a, n)
    <2>1. Len(a) <= MaxQueue
      BY <1>1, <1>2 DEF QueueOK
    <2>2. \A i \in 1..Len(a) : i + 1 \in 1..Len(q) /\ a[i] = q[i + 1]
      BY <1>1, <1>2
    <2>3. \A i \in 1..Len(a) : a[i] <= n
      BY <2>2 DEF QueueOK
    <2>4. \A i, j \in 1..Len(a) : i < j => a[i] < a[j]
      <3> SUFFICES ASSUME NEW i \in 1..Len(a), NEW j \in 1..Len(a), i < j PROVE a[i] < a[j]
        OBVIOUS
      <3>1. i + 1 < j + 1 /\ i + 1 \in 1..Len(q) /\ j + 1 \in 1..Len(q)
        BY <1>1, <1>2
      <3> QED
        BY <2>2, <3>1 DEF QueueOK
    <2> QED
      BY <1>2, <2>1, <2>3, <2>4 DEF QueueOK
  <1>6. Len(q) > 1 => a[1] = q[2] /\ q[1] < q[2] /\ q[1] \in Nat /\ q[2] \in Nat
    BY <1>1, <1>2, <1>3 DEF QueueOK
  <1> QED
    BY <1>4, <1>5, <1>6 DEF a

\* The same queue after more messages were given to send.
LEMMA QueueSame ==
    ASSUME NEW q, NEW n \in Nat, QueueOK(q, n)
    PROVE  QueueOK(q, n + 1)
  <1>1. \A i \in 1..Len(q) : q[i] \in Nat
    BY ElementOfSeq DEF QueueOK
  <1> QED
    BY <1>1 DEF QueueOK

\* The invariant of a session, taken apart.
LEMMA Apart ==
    ASSUME Sessions, NEW s \in Session
    PROVE  /\ QueueOK(queue[s], sent[s]) /\ FrontOK(queue[s], ops[s], wdone[s])
           /\ SeenOK(queue[s], sent[s], peer[s]) /\ WireOK(sock[s], ops[s], peer[s], slow[s])
           /\ NewOK(sock[s], queue[s], ops[s], wdone[s], peer[s])
  BY DEF Sessions, SessionOK

\* send() queues a message and writes it when it is the first.
LEMMA SendStep ==
    ASSUME Shape, Sessions, NEW s \in Session, Send(s)
    PROVE  Sessions'
  <1> DEFINE q == queue[s]  n == sent[s]
  <1>1. /\ QueueOK(q, n) /\ FrontOK(q, ops[s], wdone[s]) /\ SeenOK(q, n, peer[s])
        /\ WireOK(sock[s], ops[s], peer[s], slow[s])
        /\ n \in Nat /\ sock[s] # "new" /\ q \in Seq(Nat \ {0}) /\ peer[s] \in Peer
    BY Apart, Values DEF Send
  <1>2. /\ sent' = [sent EXCEPT ![s] = n + 1]
        /\ queue' = IF Len(q) >= MaxQueue THEN queue ELSE [queue EXCEPT ![s] = Append(q, n + 1)]
        /\ sock' = sock
    BY DEF Send
  <1>3. /\ sent'[s] = n + 1
        /\ queue'[s] = IF Len(q) >= MaxQueue THEN q ELSE Append(q, n + 1)
        /\ \A t \in Session \ {s} : sent'[t] = sent[t] /\ queue'[t] = queue[t]
    BY <1>2 DEF Shape
  <1>4. Len(q) \in Nat /\ MaxQueue \in Nat /\ MaxQueue > 0
    BY <1>1, LenProperties, TcpAssumption
  <1>5. CASE q = <<>>
    <2>1. Len(q) < MaxQueue /\ ~(Len(q) >= MaxQueue)
      BY <1>4, <1>5
    <2>2. /\ QueueOK(queue'[s], n + 1) /\ queue'[s] # <<>> /\ queue'[s][1] = n + 1
      <3>1. queue'[s] = Append(q, n + 1)
        BY <1>3, <2>1
      <3>2. /\ QueueOK(Append(q, n + 1), n + 1) /\ Append(q, n + 1) # <<>>
            /\ q = <<>> => Append(q, n + 1)[1] = n + 1
        BY <1>1, <2>1, QueueGrows
      <3> QED
        BY <1>5, <3>1, <3>2, Zenon
    <2>3. StartWrite(s, queue'[s][1], FALSE)
      BY <1>5, <2>2 DEF Send
    <2>4. \A i \in 1..Len(ops[s]) : ops[s][i].f = 0
      BY <1>1, <1>5 DEF FrontOK
    <2>5. peer[s].last < queue'[s][1] /\ n + 1 \in Nat
      BY <1>1, <2>2 DEF SeenOK, Peer
    <2>6. SessionOK(sock[s], queue'[s], n + 1, ops'[s], wdone'[s], peer'[s], slow'[s])
      BY <1>1, <2>2, <2>3, <2>4, <2>5, StartMessage
    <2>7. OthersKept(s)
      BY <2>2, <2>3, <2>5, Starting
    <2> QED
      BY <1>2, <1>3, <2>6, <2>7, OneSession DEF OthersKept
  <1>6. CASE q # <<>>
    <2>1. UNCHANGED <<ops, wdone, peer, slow>>
      BY <1>6 DEF Send
    <2>2. QueueOK(queue'[s], n + 1) /\ queue'[s] # <<>> /\ queue'[s][1] = q[1]
      <3>1. CASE Len(q) >= MaxQueue
        BY <1>1, <1>3, <1>6, <3>1, QueueSame
      <3>2. CASE Len(q) < MaxQueue
        <4>1. queue'[s] = Append(q, n + 1)
          BY <1>3, <1>4, <3>2
        <4> QED
          BY <1>1, <1>6, <3>2, <4>1, QueueGrows
      <3> QED
        BY <1>4, <3>1, <3>2
    <2>3. FrontOK(queue'[s], ops[s], wdone[s])
      BY <1>1, <1>6, <2>2 DEF FrontOK
    <2>4. SeenOK(queue'[s], n + 1, peer[s])
      BY <1>1, <1>6, <2>2 DEF SeenOK, Peer
    <2>5. NewOK(sock[s], queue'[s], ops[s], wdone[s], peer[s])
      BY <1>1 DEF NewOK
    <2>6. SessionOK(sock[s], queue'[s], n + 1, ops[s], wdone[s], peer[s], slow[s])
      BY <1>1, <2>2, <2>3, <2>4, <2>5 DEF SessionOK
    <2> QED
      BY <1>2, <1>3, <2>1, <2>6, OneSession
  <1> QED
    BY <1>5, <1>6

\* The handler of a write pops the message it wrote and writes the next.
LEMMA WriteDoneStep ==
    ASSUME Shape, Sessions, NEW s \in Session, WriteDone(s)
    PROVE  Sessions'
  <1> DEFINE q == queue[s]  n == sent[s]
  <1>1. /\ QueueOK(q, n) /\ FrontOK(q, ops[s], wdone[s]) /\ SeenOK(q, n, peer[s])
        /\ WireOK(sock[s], ops[s], peer[s], slow[s])
        /\ n \in Nat /\ q \in Seq(Nat \ {0}) /\ peer[s] \in Peer
        /\ NewOK(sock[s], q, ops[s], wdone[s], peer[s])
    BY Apart, Values
  <1>2. /\ wdone[s] /\ sock' = sock /\ sent' = sent
        /\ queue'[s] = Tail(q)
        /\ \A t \in Session \ {s} : queue'[t] = queue[t]
    BY DEF WriteDone, Shape
  <1>3. /\ q # <<>> /\ sock[s] # "new"
        /\ \A i \in 1..Len(ops[s]) : ops[s][i].f = 0
    BY <1>1, <1>2 DEF FrontOK, NewOK
  <1>4. /\ QueueOK(queue'[s], n)
        /\ queue'[s] # <<>> <=> Len(q) > 1
        /\ Len(q) > 1 => queue'[s][1] = q[2] /\ q[1] < q[2] /\ q[1] \in Nat /\ q[2] \in Nat
    BY <1>1, <1>2, <1>3, QueueShrinks
  <1>5. CASE Len(q) > 1
    <2>1. StartWrite(s, queue'[s][1], FALSE) /\ queue'[s][1] \in Nat
      BY <1>4, <1>5 DEF WriteDone
    <2>2. peer[s].last < queue'[s][1]
      BY <1>1, <1>3, <1>4, <1>5 DEF SeenOK, Peer
    <2>3. SessionOK(sock[s], queue'[s], n, ops'[s], wdone'[s], peer'[s], slow'[s])
      BY <1>1, <1>3, <1>4, <1>5, <2>1, <2>2, StartMessage
    <2>4. OthersKept(s)
      BY <2>1, Starting
    <2> QED
      BY <1>2, <2>3, <2>4, OneSession DEF OthersKept
  <1>6. CASE ~(Len(q) > 1)
    <2>1. /\ wdone'[s] = FALSE /\ UNCHANGED <<ops, peer, slow>>
          /\ \A t \in Session \ {s} : wdone'[t] = wdone[t]
      BY <1>6 DEF WriteDone, Shape
    <2>2. queue'[s] = <<>>
      BY <1>4, <1>6
    <2>3. FrontOK(queue'[s], ops[s], FALSE)
      BY <1>1, <1>3 DEF FrontOK
    <2>4. SeenOK(queue'[s], n, peer[s])
      BY <1>1, <2>2 DEF SeenOK
    <2>5. NewOK(sock[s], queue'[s], ops[s], FALSE, peer[s])
      BY <1>3 DEF NewOK
    <2>6. SessionOK(sock[s], queue'[s], n, ops[s], FALSE, peer[s], slow[s])
      BY <1>1, <1>4, <2>3, <2>4, <2>5 DEF SessionOK
    <2> QED
      BY <1>2, <2>1, <2>6, OneSession
  <1> QED
    BY <1>5, <1>6

\* A write that waited is taken further.
LEMMA WriteSomeStep ==
    ASSUME Shape, Sessions, NEW s \in Session, WriteSome(s)
    PROVE  Sessions'
  <1> DEFINE q == queue[s]  n == sent[s]  o == ops[s]  h == Head(ops[s])
  <1>1. /\ QueueOK(q, n) /\ FrontOK(q, o, wdone[s]) /\ SeenOK(q, n, peer[s])
        /\ WireOK(sock[s], o, peer[s], slow[s])
        /\ n \in Nat /\ q \in Seq(Nat \ {0}) /\ o \in Seq(Write) /\ peer[s] \in Peer
        /\ wdone[s] \in BOOLEAN /\ slow[s] \in BOOLEAN
    BY Apart, Values
  <1>2. sock[s] = "open" /\ o # <<>>
    BY DEF WriteSome
  <1>a. PICK m \in 1..h.left : \E p \in After(peer[s], h.f, h.left, m, TRUE) :
           /\ peer' = [peer EXCEPT ![s] = p]
           /\ ops' = [ops EXCEPT ![s] = IF m = h.left THEN Tail(o)
                                        ELSE Append(Tail(o), [h EXCEPT !.left = h.left - m])]
           /\ wdone' = [wdone EXCEPT ![s] = wdone[s] \/ (h.f # 0 /\ m = h.left)]
    BY DEF WriteSome
  <1>3. PICK p \in After(peer[s], h.f, h.left, m, TRUE) :
           /\ peer' = [peer EXCEPT ![s] = p]
           /\ ops' = [ops EXCEPT ![s] = IF m = h.left THEN Tail(o)
                                        ELSE Append(Tail(o), [h EXCEPT !.left = h.left - m])]
           /\ wdone' = [wdone EXCEPT ![s] = wdone[s] \/ (h.f # 0 /\ m = h.left)]
    BY <1>a
  <1>4. UNCHANGED <<sock, queue, sent, slow>>
    BY DEF WriteSome
  <1>5. /\ Len(o) \in Nat \ {0} /\ h = o[1] /\ h \in Write
        /\ Tail(o) \in Seq(Write) /\ Len(Tail(o)) = Len(o) - 1
        /\ \A i \in 1..Len(Tail(o)) : Tail(o)[i] = o[i + 1]
    BY <1>1, <1>2, HeadTailProperties, LenProperties, EmptySeq
  <1>6. h.f \in Nat /\ h.left \in {1, 2} /\ (h.f = 0 => h.left = 1) /\ m \in {1, 2} /\ m <= h.left
    BY <1>3, <1>5 DEF Write
  <1>7. /\ p \in Peer /\ (p.last = peer[s].last \/ (h.f # 0 /\ p.last = h.f))
        /\ h.f # 0 /\ h.left = 1 => p.want = 0 /\ (peer[s].ok /\ peer[s].want = h.f => p.ok)
    BY <1>1, <1>3, <1>5, SeenLater
  <1>8. /\ \A i \in 2..Len(o) : h.f # 0 => o[i].f = 0
        /\ h.f # 0 => q # <<>> /\ h.f = q[1] /\ ~wdone[s]
    <2>1. 1 \in 1..Len(o) /\ \A i \in 2..Len(o) : i \in 1..Len(o) /\ i # 1
      BY <1>5
    <2> QED
      BY <1>1, <1>5, <2>1 DEF FrontOK
  <1>9. SeenOK(q, n, p)
    <2>1. q # <<>> => q[1] <= n /\ q[1] \in Nat
      BY <1>1, EmptySeq, LenProperties, ElementOfSeq DEF QueueOK
    <2> QED
      BY <1>1, <1>7, <1>8, <2>1 DEF SeenOK
  <1>10. /\ peer'[s] = p
         /\ \A t \in Session \ {s} :
               peer'[t] = peer[t] /\ ops'[t] = ops[t] /\ wdone'[t] = wdone[t]
         /\ ops'[s] = IF m = h.left THEN Tail(o) ELSE Append(Tail(o), [h EXCEPT !.left = h.left - m])
         /\ wdone'[s] = (wdone[s] \/ (h.f # 0 /\ m = h.left))
    BY <1>3 DEF Shape
  <1>11. NewOK(sock[s], q, ops'[s], wdone'[s], p)
    BY <1>2 DEF NewOK
  <1>12. CASE m = h.left
    <2>1. ops'[s] = Tail(o)
      BY <1>10, <1>12
    <2>2. wdone'[s] \in BOOLEAN /\ (wdone'[s] <=> wdone[s] \/ h.f # 0)
      BY <1>1, <1>10, <1>12
    <2>3. \A i \in 1..Len(Tail(o)) : i + 1 \in 2..Len(o) /\ Tail(o)[i] = o[i + 1]
      BY <1>5
    <2>4. FrontOK(q, ops'[s], wdone'[s])
      <3>1. \A i, j \in 1..Len(Tail(o)) : Tail(o)[i].f # 0 /\ Tail(o)[j].f # 0 => i = j
        <4> SUFFICES ASSUME NEW i \in 1..Len(Tail(o)), NEW j \in 1..Len(Tail(o)),
                            o[i + 1].f # 0, o[j + 1].f # 0
                     PROVE  i = j
          BY <2>3
        <4>1. i + 1 \in 1..Len(o) /\ j + 1 \in 1..Len(o)
          BY <1>5
        <4>2. i + 1 = j + 1
          BY <1>1, <4>1 DEF FrontOK
        <4> QED
          BY <4>2
      <3>2. \A i \in 1..Len(Tail(o)) :
               Tail(o)[i].f # 0 => q # <<>> /\ Tail(o)[i].f = q[1] /\ ~wdone'[s]
        <4> SUFFICES ASSUME NEW i \in 1..Len(Tail(o)), o[i + 1].f # 0
                     PROVE  q # <<>> /\ o[i + 1].f = q[1] /\ ~wdone'[s]
          BY <2>3
        <4>1. i + 1 \in 1..Len(o) /\ i + 1 \in 2..Len(o)
          BY <1>5
        <4>2. q # <<>> /\ o[i + 1].f = q[1] /\ ~wdone[s]
          BY <1>1, <4>1 DEF FrontOK
        <4>3. h.f = 0
          BY <1>8, <4>1
        <4> QED
          BY <2>2, <4>2, <4>3
      <3>3. wdone'[s] => q # <<>>
        BY <1>1, <1>8, <2>2 DEF FrontOK
      <3> QED
        BY <1>5, <2>1, <2>2, <3>1, <3>2, <3>3 DEF FrontOK
    <2>5. WireOK(sock[s], ops'[s], p, slow[s])
      <3>1. ASSUME ~slow[s] PROVE p.ok /\ Tail(o) = <<>> /\ p.want = 0
        <4>1. Len(o) = 1 /\ h.f # 0 /\ h.left = 1 /\ peer[s].want = h.f /\ peer[s].ok
          BY <1>1, <1>2, <1>5, <3>1 DEF WireOK
        <4>2. Tail(o) = <<>>
          <5>1. Len(Tail(o)) = 0
            BY <1>5, <4>1
          <5> QED
            BY <1>5, <5>1, EmptySeq
        <4> QED
          BY <1>7, <4>1, <4>2
      <3> QED
        BY <1>1, <2>1, <3>1 DEF WireOK
    <2>6. SessionOK(sock[s], q, n, ops'[s], wdone'[s], p, slow[s])
      BY <1>1, <1>9, <1>11, <2>4, <2>5 DEF SessionOK
    <2> QED
      BY <1>4, <1>10, <2>6, OneSession
  <1>13. CASE m # h.left
    <2>1. m = 1 /\ h.left = 2 /\ h.f # 0 /\ h.left - m = 1
      BY <1>6, <1>13
    <2> DEFINE x == [h EXCEPT !.left = h.left - m]
    <2>2. x \in Write /\ x.f = h.f
      BY <1>5, <2>1 DEF Write
    <2>3. ops'[s] = Append(Tail(o), x) /\ wdone'[s] = wdone[s]
      BY <1>1, <1>10, <1>13
    <2> HIDE DEF x
    <2>4. /\ ops'[s] \in Seq(Write) /\ Len(ops'[s]) = Len(o)
          /\ \A i \in 1..(Len(o) - 1) : ops'[s][i] = o[i + 1]
          /\ ops'[s][Len(o)] = x
      <3>1. /\ Append(Tail(o), x) \in Seq(Write) /\ Len(Append(Tail(o), x)) = Len(Tail(o)) + 1
            /\ \A i \in 1..Len(Tail(o)) : Append(Tail(o), x)[i] = Tail(o)[i]
            /\ Append(Tail(o), x)[Len(Tail(o)) + 1] = x
        BY <1>5, <2>2, WriteBehind
      <3>2. Len(Tail(o)) + 1 = Len(o) /\ Len(Tail(o)) = Len(o) - 1
        BY <1>5
      <3> QED
        BY <1>5, <2>3, <3>1, <3>2
    <2>5. \A i \in 1..Len(o) : ops'[s][i].f # 0 => i = Len(o)
      <3> SUFFICES ASSUME NEW i \in 1..Len(o), i # Len(o) PROVE ops'[s][i].f = 0
        OBVIOUS
      <3>1. i \in 1..(Len(o) - 1) /\ i + 1 \in 2..Len(o)
        BY <1>5
      <3> QED
        BY <1>8, <2>1, <2>4, <3>1
    <2>6. FrontOK(q, ops'[s], wdone'[s])
      BY <1>1, <1>8, <2>1, <2>2, <2>3, <2>4, <2>5 DEF FrontOK
    <2>7. WireOK(sock[s], ops'[s], p, slow[s])
      <3>1. slow[s]
        BY <1>1, <1>2, <1>5, <2>1 DEF WireOK
      <3> QED
        BY <1>1, <3>1 DEF WireOK
    <2>8. SessionOK(sock[s], q, n, ops'[s], wdone'[s], p, slow[s])
      BY <1>1, <1>9, <1>11, <2>6, <2>7 DEF SessionOK
    <2> QED
      BY <1>4, <1>10, <2>8, OneSession
  <1> QED
    BY <1>12, <1>13

\* A write that fails or is aborted leaves.
LEMMA WriteFailsStep ==
    ASSUME Shape, Sessions, NEW s \in Session, WriteFails(s)
    PROVE  Sessions'
  <1> DEFINE o == ops[s]
  <1>1. /\ QueueOK(queue[s], sent[s]) /\ FrontOK(queue[s], o, wdone[s])
        /\ SeenOK(queue[s], sent[s], peer[s]) /\ WireOK(sock[s], o, peer[s], slow[s])
        /\ o \in Seq(Write)
    BY Apart, Values
  <1>2. /\ o # <<>> /\ ops'[s] = Tail(o) /\ sock'[s] = "closed"
        /\ \A t \in Session \ {s} : ops'[t] = ops[t] /\ sock'[t] = sock[t]
        /\ UNCHANGED <<queue, sent, wdone, peer, slow>>
    BY DEF WriteFails, Close, Shape
  <1>3. /\ Len(o) \in Nat \ {0} /\ Tail(o) \in Seq(Write) /\ Len(Tail(o)) = Len(o) - 1
        /\ \A i \in 1..Len(Tail(o)) : Tail(o)[i] = o[i + 1]
    BY <1>1, <1>2, HeadTailProperties, LenProperties, EmptySeq
  <1>4. FrontOK(queue[s], Tail(o), wdone[s])
    <2>1. \A i \in 1..Len(Tail(o)) : i + 1 \in 1..Len(o) /\ Tail(o)[i] = o[i + 1]
      BY <1>3
    <2>2. ASSUME NEW i \in 1..Len(Tail(o)), NEW j \in 1..Len(Tail(o)),
                 Tail(o)[i].f # 0, Tail(o)[j].f # 0
          PROVE  i = j
      <3>1. i + 1 = j + 1
        BY <1>1, <2>1, <2>2 DEF FrontOK
      <3> QED
        BY <3>1
    <2> QED
      BY <1>1, <1>3, <2>1, <2>2 DEF FrontOK
  <1>5. SessionOK("closed", queue[s], sent[s], Tail(o), wdone[s], peer[s], slow[s])
    BY <1>1, <1>4 DEF SessionOK, WireOK, NewOK
  <1> QED
    BY <1>2, <1>5, OneSession

\* The writes of a closed socket end without reaching the peer.
LEMMA AbortedStep ==
    ASSUME Shape, Sessions, NEW s \in Session, Aborted(s)
    PROVE  Sessions'
  <1>1. /\ QueueOK(queue[s], sent[s]) /\ FrontOK(queue[s], ops[s], wdone[s])
        /\ SeenOK(queue[s], sent[s], peer[s]) /\ WireOK(sock[s], ops[s], peer[s], slow[s])
    BY Apart
  <1>2. /\ sock[s] = "closed" /\ ops'[s] = <<>>
        /\ \A t \in Session \ {s} : ops'[t] = ops[t]
        /\ UNCHANGED <<sock, queue, sent, wdone, peer, slow>>
    BY DEF Aborted, Shape
  <1>3. FrontOK(queue[s], <<>>, wdone[s])
    BY <1>1, EmptySeq DEF FrontOK
  <1>4. SessionOK(sock[s], queue[s], sent[s], <<>>, wdone[s], peer[s], slow[s])
    BY <1>1, <1>2, <1>3 DEF SessionOK, WireOK, NewOK
  <1> QED
    BY <1>2, <1>4, OneSession

\* A heartbeat, from the timer or for a PING.
LEMMA BeatStep ==
    ASSUME Shape, Sessions, NEW s \in Session, sock[s] = "open", SendHeartbeat(s), UNCHANGED sock
    PROVE  Sessions'
  <1>1. StartWrite(s, 0, wdone[s]) /\ UNCHANGED <<queue, sent>>
    BY DEF SendHeartbeat
  <1>2. SessionOK(sock[s], queue[s], sent[s], ops'[s], wdone'[s], peer'[s], slow'[s])
    BY <1>1, StartBeat
  <1>3. OthersKept(s)
    BY <1>1, Values, Starting
  <1> QED
    BY <1>1, <1>2, <1>3, OneSession DEF OthersKept

\* Nothing is written by a step that only closes a session, or only opens a new one.
LEMMA SockStep ==
    ASSUME Shape, Sessions, NEW s \in Session, UNCHANGED <<queue, sent, ops, wdone, peer, slow>>,
           \/ UNCHANGED sock
           \/ sock' = [sock EXCEPT ![s] = "closed"]
           \/ sock[s] = "new" /\ sock' = [sock EXCEPT ![s] = "open"]
    PROVE  Sessions'
  <1>1. SessionOK(sock[s], queue[s], sent[s], ops[s], wdone[s], peer[s], slow[s])
    BY DEF Sessions
  <1>2. \A t \in Session \ {s} : sock'[t] = sock[t]
    BY DEF Shape
  <1>3. SessionOK(sock'[s], queue[s], sent[s], ops[s], wdone[s], peer[s], slow[s])
    <2>1. CASE UNCHANGED sock
      BY <1>1, <2>1
    <2>2. CASE sock' = [sock EXCEPT ![s] = "closed"]
      <3>1. sock'[s] = "closed"
        BY <2>2 DEF Shape
      <3> QED
        BY <1>1, <3>1, ClosedOK
    <2>3. CASE sock[s] = "new" /\ sock' = [sock EXCEPT ![s] = "open"]
      <3>1. sock'[s] = "open"
        BY <2>3 DEF Shape
      <3> QED
        BY <1>1, <2>3, <3>1, OpenedOK
    <2> QED
      BY <2>1, <2>2, <2>3
  <1> QED
    BY <1>2, <1>3, OneSession
-----------------------------------------------------------------------------
(* The server. *)

\* A step that leaves the server and the sockets alone.
LEMMA QuietServer ==
    ASSUME Server, OpenListed, UNCHANGED <<serverVars, sock>>
    PROVE  (Server /\ OpenListed)'
  BY DEF Server, OpenListed, serverVars, Locked

\* close() of an open session, by a handler.
LEMMA CloseServer ==
    ASSUME Shape, Server, OpenListed, NEW s \in Session, IoFree, Close(s)
    PROVE  (Server /\ OpenListed)'
  <1>1. /\ sock' \in [Session -> {"new", "open", "closed"}] /\ sock'[s] = "closed"
        /\ \A t \in Session \ {s} : sock'[t] = sock[t]
        /\ iowait = Nothing /\ UNCHANGED <<acceptor, stopped, stopper, stop, todo>>
    BY DEF Shape, Close, IoFree
  <1>2. CASE Locked
    <2>1. iowait' = [op |-> "remove", s |-> s] /\ UNCHANGED sessions
      BY <1>2 DEF Close
    <2>2. /\ iowait' \in [op : {"insert", "remove"}, s : Session] \cup {Nothing}
          /\ iowait'.op = "remove" /\ iowait'.s = s
      BY <2>1
    <2> QED
      BY <1>1, <1>2, <2>1, <2>2 DEF Server, OpenListed, Locked
  <1>3. CASE ~Locked
    <2>1. sessions' = sessions \ {s} /\ UNCHANGED iowait
      BY <1>3 DEF Close
    <2> QED
      BY <1>1, <1>3, <2>1 DEF Server, OpenListed, Locked, Nothing
  <1> QED
    BY <1>2, <1>3

\* A session starts, with the mutex at hand.
LEMMA RegisterServer ==
    ASSUME Shape, Server, OpenListed, NEW s \in Session, ~Locked, Register(s), iowait' = Nothing,
           UNCHANGED <<stopped, stopper, stop, todo>>
    PROVE  (Server /\ OpenListed)'
  <1>1. /\ sock'[s] = "open" /\ \A t \in Session \ {s} : sock'[t] = sock[t]
        /\ sessions' = sessions \cup {s} /\ acceptor' \in {"none", "pending"}
    BY DEF Shape, Register
  <1> QED
    BY <1>1 DEF Server, OpenListed, Locked, Nothing

\* The steps of the server itself.
LEMMA StopServer ==
    ASSUME Shape, Server, OpenListed,
           Connect \/ StopStep \/ \E th \in {"io", "main"} : Stop(th)
    PROVE  (Server /\ OpenListed)'
  <1>1. CASE Connect
    BY <1>1 DEF Connect, Server, OpenListed, Locked
  <1>2. ASSUME NEW th \in {"io", "main"}, Stop(th) PROVE (Server /\ OpenListed)'
    BY <1>2 DEF Stop, Server, OpenListed, Locked
  <1>3. CASE StopLock
    BY <1>3 DEF StopLock, Server, OpenListed, Locked
  <1>4. CASE StopClear
    BY <1>4 DEF StopClear, Server, OpenListed, Locked
  <1>5. ASSUME NEW s \in Session, StopClose(s) PROVE (Server /\ OpenListed)'
    <2>1. CASE sock[s] = "open"
      <3>1. /\ sock'[s] = "closed" /\ \A t \in Session \ {s} : sock'[t] = sock[t]
            /\ stop = "closing" /\ stop' = "hung"
            /\ UNCHANGED <<acceptor, stopped, sessions, stopper, todo, iowait>>
        BY <1>5, <2>1 DEF StopClose, Shape
      <3>2. iowait.op \in {"insert", "remove"} => iowait.s \in Session
        BY DEF Server, Nothing
      <3> QED
        BY <2>1, <3>1, <3>2 DEF Server, OpenListed, Locked
    <2>2. CASE sock[s] # "open"
      BY <1>5, <2>2 DEF StopClose, Server, OpenListed, Locked
    <2> QED
      BY <2>1, <2>2
  <1> QED
    BY <1>1, <1>2, <1>3, <1>4, <1>5 DEF StopStep
-----------------------------------------------------------------------------
(* The functions of the state. *)

\* A write that starts keeps their domains.
LEMMA StartShape ==
    ASSUME Shape, Sessions, NEW s \in Session, NEW f \in Nat, NEW d \in BOOLEAN, StartWrite(s, f, d)
    PROVE  /\ DOMAIN ops' = Session /\ DOMAIN wdone' = Session
           /\ DOMAIN peer' = Session /\ DOMAIN slow' = Session
  BY Starting DEF OthersKept

\* A heartbeat counts itself and leaves the queue alone.
LEMMA BeatShape ==
    ASSUME Shape, Sessions, NEW s \in Session, SendHeartbeat(s)
    PROVE  /\ beats' \in [Session -> 0..MaxBeats] /\ UNCHANGED <<queue, sent>>
           /\ DOMAIN ops' = Session /\ DOMAIN wdone' = Session
           /\ DOMAIN peer' = Session /\ DOMAIN slow' = Session
  <1>1. MaxBeats \in Nat /\ beats[s] \in 0..MaxBeats /\ beats[s] + 1 \in 0..MaxBeats
    BY TcpAssumption DEF Shape, SendHeartbeat
  <1>2. beats' \in [Session -> 0..MaxBeats] /\ UNCHANGED <<queue, sent>>
    BY <1>1 DEF Shape, SendHeartbeat
  <1>3. StartWrite(s, 0, wdone[s])
    BY DEF SendHeartbeat
  <1> QED
    BY <1>2, <1>3, Values, StartShape

\* The shape of the state after a step that writes,
LEMMA WritesShape ==
    ASSUME Shape, Sessions, NEW s \in Session,
           Send(s) \/ WriteSome(s) \/ WriteDone(s) \/ Heartbeat(s)
    PROVE  Shape'
  <1>1. CASE Send(s)
    <2>1. sent[s] \in Nat /\ MaxSend \in Nat /\ sent[s] + 1 \in 0..MaxSend
      BY <1>1, Values, TcpAssumption DEF Send
    <2>2. /\ sent' \in [Session -> 0..MaxSend] /\ DOMAIN queue' = Session
          /\ UNCHANGED <<sock, beats, readVars>>
      BY <1>1, <2>1 DEF Send, Shape
    <2>3. /\ DOMAIN ops' = Session /\ DOMAIN wdone' = Session
          /\ DOMAIN peer' = Session /\ DOMAIN slow' = Session
      <3>1. CASE queue[s] = <<>>
        <4>1. StartWrite(s, sent[s] + 1, FALSE)
          BY <1>1, <3>1, Zenon DEF Send
        <4>2. sent[s] + 1 \in Nat
          BY <2>1
        <4> QED
          BY <4>1, <4>2, StartShape
      <3>2. CASE queue[s] # <<>>
        BY <1>1, <3>2 DEF Send, Shape
      <3> QED
        BY <3>1, <3>2
    <2> QED
      BY <2>2, <2>3 DEF Shape, readVars
  <1>2. CASE WriteSome(s)
    BY <1>2 DEF WriteSome, Shape, readVars
  <1>3. CASE WriteDone(s)
    <2>1. DOMAIN queue' = Session /\ UNCHANGED <<sock, sent, beats, readVars>>
      BY <1>3 DEF WriteDone, Shape
    <2>2. /\ DOMAIN ops' = Session /\ DOMAIN wdone' = Session
          /\ DOMAIN peer' = Session /\ DOMAIN slow' = Session
      <3>1. CASE Len(queue[s]) > 1
        <4>1. StartWrite(s, queue[s][2], FALSE)
          BY <1>3, <3>1 DEF WriteDone
        <4>2. queue[s][2] \in Nat
          BY <3>1, Values, LenProperties, ElementOfSeq
        <4> QED
          BY <4>1, <4>2, StartShape
      <3>2. CASE ~(Len(queue[s]) > 1)
        BY <1>3, <3>2 DEF WriteDone, Shape
      <3> QED
        BY <3>1, <3>2
    <2> QED
      BY <2>1, <2>2 DEF Shape, readVars
  <1>4. CASE Heartbeat(s)
    BY <1>4, BeatShape DEF Heartbeat, Shape, readVars
  <1> QED
    BY <1>1, <1>2, <1>3, <1>4

\* and after one that reads, times out or fails.
LEMMA ReadsShape ==
    ASSUME Shape, Sessions, NEW s \in Session,
           \/ ReadHeader(s) \/ ReadBody(s) \/ ReadFails(s) \/ ReadTimer(s) \/ ReadTimeout(s)
           \/ WriteFails(s) \/ Aborted(s)
    PROVE  Shape'
  <1>1. CASE ReadHeader(s)
    <2>1. ins' \in [Session -> 0..MaxIn]
      <3>1. MaxIn \in Nat /\ ins[s] \in 0..MaxIn /\ ins[s] + 1 \in 0..MaxIn
        BY <1>1, TcpAssumption DEF Shape, ReadHeader
      <3> QED
        BY <1>1, <3>1 DEF Shape, ReadHeader
    <2>2. CASE ReadNext(s, "header") /\ SendHeartbeat(s)
      BY <2>1, <2>2, BeatShape DEF Shape, ReadNext
    <2>3. CASE UNCHANGED writeVars /\ \E x \in {"header", "body"} : ReadNext(s, x)
      BY <2>1, <2>3 DEF Shape, ReadNext, writeVars
    <2>4. CASE Close(s) /\ rd' = [rd EXCEPT ![s] = "none"] /\ UNCHANGED <<writeVars, rdue>>
      BY <2>1, <2>4 DEF Shape, Close, writeVars
    <2> QED
      BY <1>1, <2>2, <2>3, <2>4 DEF ReadHeader
  <1>2. CASE ReadBody(s)
    BY <1>2 DEF ReadBody, ReadNext, Shape, writeVars
  <1>3. CASE ReadFails(s)
    BY <1>3 DEF ReadFails, Close, Shape, writeVars
  <1>4. CASE ReadTimer(s)
    BY <1>4 DEF ReadTimer, Shape, writeVars
  <1>5. CASE ReadTimeout(s)
    BY <1>5 DEF ReadTimeout, Close, Shape, writeVars
  <1>6. CASE WriteFails(s)
    BY <1>6 DEF WriteFails, Close, Shape
  <1>7. CASE Aborted(s)
    BY <1>7 DEF Aborted, Shape
  <1> QED
    BY <1>1, <1>2, <1>3, <1>4, <1>5, <1>6, <1>7

\* Every step of the next-state relation, one case each.
LEMMA TcpStep == TcpInv /\ [TcpNext]_tcpVars => TcpInv'
  <1> SUFFICES ASSUME TcpInv, [TcpNext]_tcpVars PROVE TcpInv'
    OBVIOUS
  <1>0. Shape /\ Sessions /\ Server /\ OpenListed
    BY DEF TcpInv
  <1>1. CASE UNCHANGED tcpVars
    <2>1. UNCHANGED <<serverVars, sock, queue, sent, ops, wdone, peer, slow>>
      BY <1>1 DEF tcpVars, writeVars
    <2>2. Shape'
      BY <1>0, <1>1 DEF tcpVars, writeVars, readVars, Shape
    <2>3. Sessions'
      BY <1>0, <2>1 DEF Sessions
    <2> QED
      BY <1>0, <2>1, <2>2, <2>3, QuietServer DEF TcpInv
  <1>2. CASE Connect \/ StopLock \/ StopClear \/ \E th \in {"io", "main"} : Stop(th)
    <2>1. UNCHANGED <<sock, writeVars, readVars>>
      BY <1>2 DEF Connect, StopLock, StopClear, Stop
    <2>2. Shape' /\ Sessions'
      BY <1>0, <2>1 DEF Shape, Sessions, writeVars, readVars
    <2> QED
      BY <1>0, <1>2, <2>2, StopServer DEF TcpInv, StopStep
  <1>3. ASSUME NEW s \in Session, StopClose(s) PROVE TcpInv'
    <2>1. /\ UNCHANGED sock \/ sock' = [sock EXCEPT ![s] = "closed"]
          /\ rarmed' = rarmed \/ rarmed' = [rarmed EXCEPT ![s] = FALSE]
          /\ UNCHANGED <<writeVars, rd, ins, rdue>>
      BY <1>3 DEF StopClose
    <2>2. Shape'
      BY <1>0, <2>1 DEF Shape, writeVars
    <2>3. Sessions'
      BY <1>0, <2>1, SockStep DEF writeVars
    <2> QED
      BY <1>0, <1>3, <2>2, <2>3, StopServer DEF TcpInv, StopStep
  <1>4. CASE IoResume
    <2>1. /\ iowait \in [op : {"insert", "remove"}, s : Session] /\ iowait' = Nothing /\ ~Locked
          /\ UNCHANGED <<stopped, stopper, stop, todo, writeVars, ins, rdue>>
      BY <1>0, <1>4 DEF IoResume, Server
    <2>2. PICK s \in Session : s = iowait.s
      BY <2>1
    <2>3. CASE iowait.op = "insert"
      <3>1. Register(s) /\ sock[s] = "new"
        BY <1>0, <1>4, <2>2, <2>3 DEF IoResume, Server
      <3>2. Shape'
        BY <1>0, <2>1, <3>1 DEF Shape, Register, writeVars
      <3>3. Sessions'
        BY <1>0, <2>1, <3>1, SockStep DEF Register, writeVars
      <3> QED
        BY <1>0, <2>1, <3>1, <3>2, <3>3, RegisterServer DEF TcpInv
    <2>4. CASE iowait.op # "insert"
      <3>1. /\ sessions' = sessions \ {s} /\ UNCHANGED <<sock, rd, rarmed, acceptor>>
            /\ sock[s] = "closed"
        BY <1>0, <1>4, <2>1, <2>2, <2>4 DEF IoResume, Server
      <3>2. Shape' /\ Sessions'
        BY <1>0, <2>1, <3>1 DEF Shape, Sessions, writeVars
      <3>3. (Server /\ OpenListed)'
        BY <1>0, <2>1, <3>1 DEF Server, OpenListed, Locked, Nothing
      <3> QED
        BY <3>2, <3>3 DEF TcpInv
    <2> QED
      BY <2>3, <2>4
  <1>5. ASSUME NEW s \in Session, HandleAccept(s) PROVE TcpInv'
    <2>1. /\ sock[s] = "new" /\ iowait = Nothing
          /\ UNCHANGED <<stopped, stopper, stop, todo, writeVars, ins, rdue>>
      BY <1>5 DEF HandleAccept, IoFree
    <2>2. CASE Locked
      <3>1. iowait' = [op |-> "insert", s |-> s] /\ UNCHANGED <<sessions, sock, rd, rarmed, acceptor>>
        BY <1>5, <2>2 DEF HandleAccept
      <3>2. Shape' /\ Sessions'
        BY <1>0, <2>1, <3>1 DEF Shape, Sessions, writeVars
      <3>3. /\ iowait' \in [op : {"insert", "remove"}, s : Session] \cup {Nothing}
            /\ iowait'.op = "insert" /\ iowait'.s = s
        BY <3>1
      <3>4. (Server /\ OpenListed)'
        BY <1>0, <2>1, <2>2, <3>1, <3>3 DEF Server, OpenListed, Locked
      <3> QED
        BY <3>2, <3>4 DEF TcpInv
    <2>3. CASE ~Locked
      <3>1. Register(s) /\ iowait' = Nothing
        BY <1>5, <2>1, <2>3 DEF HandleAccept
      <3>2. Shape'
        BY <1>0, <2>1, <3>1 DEF Shape, Register, writeVars
      <3>3. Sessions'
        BY <1>0, <2>1, <3>1, SockStep DEF Register, writeVars
      <3> QED
        BY <1>0, <2>1, <2>3, <3>1, <3>2, <3>3, RegisterServer DEF TcpInv
    <2> QED
      BY <2>2, <2>3
  <1>6. ASSUME NEW s \in Session, Send(s) \/ WriteSome(s) \/ WriteDone(s) \/ Heartbeat(s)
        PROVE  TcpInv'
    <2>1. UNCHANGED <<serverVars, sock>>
      BY <1>6 DEF Send, WriteSome, WriteDone, Heartbeat
    <2>2. Sessions'
      <3>1. CASE Heartbeat(s)
        BY <1>0, <3>1, BeatStep DEF Heartbeat
      <3> QED
        BY <1>0, <1>6, <3>1, SendStep, WriteSomeStep, WriteDoneStep
    <2> QED
      BY <1>0, <1>6, <2>1, <2>2, WritesShape, QuietServer DEF TcpInv
  <1>7. ASSUME NEW s \in Session, WriteFails(s) PROVE TcpInv'
    BY <1>0, <1>7, ReadsShape, WriteFailsStep, CloseServer DEF TcpInv, WriteFails
  <1>8. ASSUME NEW s \in Session, Aborted(s) PROVE TcpInv'
    <2>1. UNCHANGED <<serverVars, sock>>
      BY <1>8 DEF Aborted
    <2> QED
      BY <1>0, <1>8, <2>1, ReadsShape, AbortedStep, QuietServer DEF TcpInv
  <1>9. ASSUME NEW s \in Session, ReadHeader(s) PROVE TcpInv'
    <2>0. IoFree /\ sock[s] = "open" /\ Shape'
      BY <1>0, <1>9, ReadsShape DEF ReadHeader
    <2>1. CASE ReadNext(s, "header") /\ SendHeartbeat(s)
      <3>1. UNCHANGED <<serverVars, sock>>
        BY <2>1 DEF ReadNext
      <3> QED
        BY <1>0, <2>0, <2>1, <3>1, BeatStep, QuietServer DEF TcpInv
    <2>2. CASE UNCHANGED writeVars /\ \E x \in {"header", "body"} : ReadNext(s, x)
      <3>1. UNCHANGED <<serverVars, sock>>
        BY <2>2 DEF ReadNext
      <3>2. Sessions'
        BY <1>0, <2>2, <3>1, SockStep DEF writeVars
      <3> QED
        BY <1>0, <2>0, <3>1, <3>2, QuietServer DEF TcpInv
    <2>3. CASE Close(s) /\ UNCHANGED writeVars
      <3>1. Sessions'
        BY <1>0, <2>3, SockStep DEF Close, writeVars
      <3> QED
        BY <1>0, <2>0, <2>3, <3>1, CloseServer DEF TcpInv
    <2> QED
      BY <1>9, <2>1, <2>2, <2>3 DEF ReadHeader
  <1>10. ASSUME NEW s \in Session, ReadFails(s) PROVE TcpInv'
    <2>1. Close(s) /\ IoFree /\ UNCHANGED writeVars
      BY <1>10 DEF ReadFails
    <2>2. Sessions'
      BY <1>0, <2>1, SockStep DEF Close, writeVars
    <2> QED
      BY <1>0, <1>10, <2>1, <2>2, ReadsShape, CloseServer DEF TcpInv
  <1>11. ASSUME NEW s \in Session, ReadBody(s) \/ ReadTimer(s) PROVE TcpInv'
    <2>1. UNCHANGED <<serverVars, sock, writeVars>>
      BY <1>11 DEF ReadBody, ReadNext, ReadTimer
    <2>2. Sessions'
      BY <1>0, <2>1, SockStep DEF writeVars
    <2> QED
      BY <1>0, <1>11, <2>1, <2>2, ReadsShape, QuietServer DEF TcpInv
  <1>12. ASSUME NEW s \in Session, ReadTimeout(s) PROVE TcpInv'
    <2>0. Shape'
      BY <1>0, <1>12, ReadsShape
    <2>1. CASE sock[s] = "open"
      <3>1. Close(s) /\ IoFree /\ UNCHANGED writeVars
        BY <1>12, <2>1 DEF ReadTimeout
      <3>2. Sessions'
        BY <1>0, <3>1, SockStep DEF Close, writeVars
      <3> QED
        BY <1>0, <2>0, <3>1, <3>2, CloseServer DEF TcpInv
    <2>2. CASE sock[s] # "open"
      <3>1. UNCHANGED <<serverVars, sock, writeVars>>
        BY <1>12, <2>2 DEF ReadTimeout
      <3>2. Sessions'
        BY <1>0, <3>1, SockStep DEF writeVars
      <3> QED
        BY <1>0, <2>0, <3>1, <3>2, QuietServer DEF TcpInv
    <2> QED
      BY <2>1, <2>2
  <1> QED
    BY <1>1, <1>2, <1>3, <1>4, <1>5, <1>6, <1>7, <1>8, <1>9, <1>10, <1>11, <1>12
       DEF TcpNext, StopStep, Handler

\* A server that is made and not started satisfies the invariant.
LEMMA TcpInitially == TcpInit => TcpInv
  <1> SUFFICES ASSUME TcpInit PROVE TcpInv
    OBVIOUS
  <1>1. MaxQueue \in Nat /\ MaxSend \in Nat /\ MaxIn \in Nat /\ MaxBeats \in Nat
    BY TcpAssumption
  <1>2. Shape
    BY <1>1 DEF TcpInit, Shape
  <1>3. Sessions
    <2> SUFFICES ASSUME NEW s \in Session
                 PROVE  SessionOK(sock[s], queue[s], sent[s], ops[s], wdone[s], peer[s], slow[s])
      BY DEF Sessions
    <2>1. /\ sock[s] = "new" /\ queue[s] = <<>> /\ sent[s] = 0 /\ ops[s] = <<>>
          /\ wdone[s] = FALSE /\ peer[s] = [want |-> 0, last |-> 0, ok |-> TRUE] /\ slow[s] = FALSE
      BY DEF TcpInit
    <2>2. QueueOK(<<>>, 0) /\ FrontOK(<<>>, <<>>, FALSE)
      BY <1>1, EmptySeq DEF QueueOK, FrontOK
    <2>3. SeenOK(<<>>, 0, peer[s]) /\ WireOK("new", <<>>, peer[s], FALSE)
      BY <2>1 DEF SeenOK, WireOK, Peer
    <2>4. NewOK("new", <<>>, <<>>, FALSE, peer[s])
      BY <2>1 DEF NewOK
    <2> QED
      BY <2>1, <2>2, <2>3, <2>4 DEF SessionOK
  <1>4. Server /\ OpenListed
    BY DEF TcpInit, Server, OpenListed, Locked, Nothing
  <1> QED
    BY <1>2, <1>3, <1>4 DEF TcpInv

\* The invariant of the server and its sessions always holds.
LEMMA TcpSafe == TcpSpec => []TcpInv
  <1>1. TcpInit => TcpInv
    BY TcpInitially
  <1>2. TcpInv /\ [TcpNext]_tcpVars => TcpInv'
    BY TcpStep
  <1> QED
    BY <1>1, <1>2, PTL DEF TcpSpec

\* sessions_ has every open session: a session accepted while stop() runs is listed, and
\* stop() clears the list only when it has closed what is on it; the types of the state
\* are kept as well.
THEOREM OpenAreListed == TcpSpec => []ServerConsistent
  <1>1. TcpInv => ServerConsistent
    <2> SUFFICES ASSUME TcpInv PROVE ServerConsistent
      OBVIOUS
    <2>1. Shape /\ Sessions /\ Server /\ OpenListed
      BY DEF TcpInv
    <2>2. ASSUME NEW s \in Session
          PROVE  /\ Len(queue[s]) <= MaxQueue
                 /\ \A i \in DOMAIN ops[s] : ops[s][i].left \in 1..Len(Parts(ops[s][i].f))
                 /\ ins[s] \in 0..MaxIn /\ beats[s] \in 0..MaxBeats /\ sent[s] \in 0..MaxSend
                 /\ {wdone[s], slow[s], rarmed[s], rdue[s]} \subseteq BOOLEAN
      <3>1. Len(queue[s]) <= MaxQueue
        BY <2>1, Apart DEF QueueOK
      <3>2. ASSUME NEW i \in DOMAIN ops[s] PROVE ops[s][i].left \in 1..Len(Parts(ops[s][i].f))
        <4>1. ops[s] \in Seq(Write)
          BY <2>1, Values
        <4>2. ops[s][i] \in Write
          BY <4>1, LenProperties, ElementOfSeq
        <4>3. /\ ops[s][i].f \in Nat /\ ops[s][i].left \in 1..2
              /\ ops[s][i].f = 0 => ops[s][i].left = 1
          BY <4>2 DEF Write
        <4>4. CASE ops[s][i].f = 0
          <5>1. Len(Parts(ops[s][i].f)) = 1 /\ ops[s][i].left = 1
            BY <4>3, <4>4, PartsOf
          <5> QED
            BY <5>1
        <4>5. CASE ops[s][i].f # 0
          BY <4>3, <4>5, PartsOf
        <4> QED
          BY <4>4, <4>5
      <3>3. wdone[s] \in BOOLEAN /\ slow[s] \in BOOLEAN /\ rarmed[s] \in BOOLEAN /\ rdue[s] \in BOOLEAN
        BY <2>1, Values DEF Shape
      <3> QED
        BY <2>1, <3>1, <3>2, <3>3 DEF Shape
    <2>3. TcpTypeOK
      BY <2>1, <2>2 DEF TcpTypeOK, Shape, Server
    <2> QED
      BY <2>1, <2>3 DEF ServerConsistent
  <1> QED
    BY <1>1, TcpSafe, PTL

\* One message of a session is written at a time, the front of its queue, and as long as
\* the socket takes the header of every frame at once the peer reads whole frames, with
\* the messages in the order of send and none twice.
THEOREM FramesStayWhole == TcpSpec => []SendsWhole
  <1>1. TcpInv => SendsWhole
    <2> SUFFICES ASSUME TcpInv PROVE SendsWhole
      OBVIOUS
    <2>1. Shape /\ Sessions
      BY DEF TcpInv
    <2>2. WireReadable
      BY <2>1, Apart DEF WireReadable, WireOK
    <2>3. ASSUME NEW s \in Session
          PROVE  LET m == {i \in DOMAIN ops[s] : ops[s][i].f # 0}
                 IN  /\ Cardinality(m) + (IF wdone[s] THEN 1 ELSE 0) <= 1
                     /\ \A i \in m : queue[s] # <<>> /\ ops[s][i].f = Head(queue[s])
                     /\ wdone[s] => queue[s] # <<>>
      <3> DEFINE m == {i \in DOMAIN ops[s] : ops[s][i].f # 0}
      <3>1. /\ FrontOK(queue[s], ops[s], wdone[s]) /\ DOMAIN ops[s] = 1..Len(ops[s])
            /\ queue[s] \in Seq(Nat \ {0}) /\ wdone[s] \in BOOLEAN
        BY <2>1, Apart, Values, LenProperties
      <3>2. \A i \in m : queue[s] # <<>> /\ ops[s][i].f = Head(queue[s]) /\ ~wdone[s]
        BY <3>1, HeadTailProperties DEF FrontOK
      <3>3. CASE m = {}
        <4>1. Cardinality(m) = 0
          BY <3>3, FS_EmptySet
        <4>2. wdone[s] => queue[s] # <<>>
          BY <3>1 DEF FrontOK
        <4> QED
          BY <3>2, <4>1, <4>2
      <3>4. CASE m # {}
        <4>1. PICK i \in m : TRUE
          BY <3>4
        <4>2. m = {i}
          BY <3>1, <4>1 DEF FrontOK
        <4>3. Cardinality(m) = 1 /\ ~wdone[s]
          BY <3>2, <4>1, <4>2, FS_Singleton
        <4> QED
          BY <3>2, <4>3
      <3> QED
        BY <3>3, <3>4
    <2> QED
      BY <2>2, <2>3 DEF SendsWhole, FrontWritten
  <1> QED
    BY <1>1, TcpSafe, PTL
=============================================================================
