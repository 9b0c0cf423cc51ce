------------------------------- MODULE ThreadPool -------------------------------
(***************************************************************************)
(* im::utils::ThreadPool: a queue of tasks under one mutex, workers that   *)
(* wait on one condition variable, and the counter of unfinished tasks.    *)
(*                                                                         *)
(* A critical section is one step.  wait() releases the mutex and blocks   *)
(* in one step; a notified or spuriously woken worker tests the predicate  *)
(* again.  Enqueue notifies after it has released the mutex, so anything   *)
(* can happen between the push and the notification.  Init and Shutdown    *)
(* are called by one controlling thread (init_server and the destructor,   *)
(* or a test), Enqueue by any thread.                                      *)
(***************************************************************************)
EXTENDS Naturals, Sequences, FiniteSets

CONSTANTS
    Worker,     \* the threads that Init creates
    Client,     \* the threads that call Enqueue
    Task, NoTask,
    MaxInits    \* bound: calls of Init

ASSUME WorkerAssumption == Worker # {} /\ IsFiniteSet(Worker)
ASSUME ClientAssumption == IsFiniteSet(Client)
ASSUME TaskAssumption == NoTask \notin Task
ASSUME InitsAssumption == MaxInits \in Nat

VARIABLES
    m_tasks, m_shutdown, m_tasksCount,
    m_threads,   \* the workers that exist
    worker,      \* what each worker does
    task,        \* the task it runs
    client,      \* what each client does
    ctl,         \* where the controlling thread is
    finished,    \* tasks that have run
    inits

vars == <<m_tasks, m_shutdown, m_tasksCount, m_threads, worker, task, client, ctl,
          finished, inits>>

WorkerState == {"none", "check", "waiting", "running", "exited"}

TypeOK ==
    /\ m_tasks \in Seq(Task)
    /\ m_shutdown \in BOOLEAN
    /\ m_tasksCount \in Nat
    /\ m_threads \in {{}, Worker}
    /\ worker \in [Worker -> WorkerState]
    /\ task \in [Worker -> Task \cup {NoTask}]
    /\ client \in [Client -> {"idle", "notify"}]
    /\ ctl \in {"idle", "notify_all", "join"}
    /\ finished \subseteq Task
    /\ inits \in 0..MaxInits

Init ==
    /\ m_tasks = << >> /\ m_shutdown = FALSE /\ m_tasksCount = 0
    /\ m_threads = {}
    /\ worker = [w \in Worker |-> "none"]
    /\ task = [w \in Worker |-> NoTask]
    /\ client = [c \in Client |-> "idle"]
    /\ ctl = "idle"
    /\ finished = {}
    /\ inits = 0

In(state) == {w \in Worker : worker[w] = state}
Queued == {m_tasks[i] : i \in DOMAIN m_tasks}
Running == {task[w] : w \in In("running")}

-----------------------------------------------------------------------------
(* The controlling thread. *)

\* Init(n): nothing if the pool runs.
InitPool ==
    /\ ctl = "idle" /\ inits < MaxInits
    /\ m_threads = {} \/ m_shutdown
    /\ inits' = inits + 1
    /\ m_shutdown' = FALSE
    /\ m_tasksCount' = Len(m_tasks)
    /\ m_threads' = Worker
    /\ worker' = [w \in Worker |-> "check"]
    /\ UNCHANGED <<m_tasks, task, client, ctl, finished>>

\* Shutdown: the flag under the mutex, notify_all, then join each thread.
SetShutdown ==
    /\ ctl = "idle" /\ ~m_shutdown
    /\ m_shutdown' = TRUE
    /\ ctl' = "notify_all"
    /\ UNCHANGED <<m_tasks, m_tasksCount, m_threads, worker, task, client, finished, inits>>

NotifyAll ==
    /\ ctl = "notify_all"
    /\ worker' = [w \in Worker |-> IF worker[w] = "waiting" THEN "check" ELSE worker[w]]
    /\ ctl' = "join"
    /\ UNCHANGED <<m_tasks, m_shutdown, m_tasksCount, m_threads, task, client, finished, inits>>

Join ==
    /\ ctl = "join"
    /\ \A w \in m_threads : worker[w] = "exited"
    /\ m_threads' = {}
    /\ worker' = [w \in Worker |-> "none"]
    /\ ctl' = "idle"
    /\ UNCHANGED <<m_tasks, m_shutdown, m_tasksCount, task, client, finished, inits>>

-----------------------------------------------------------------------------
(* Enqueue. *)

\* Mutant of Push: a worker is notified only when the queue was empty.
PushNotifiesFirst(c, t) ==
    /\ client[c] = "idle"
    /\ t \notin Queued \cup Running \cup finished
    /\ ~m_shutdown
    /\ m_tasks' = Append(m_tasks, t)
    /\ m_tasksCount' = m_tasksCount + 1
    /\ client' = [client EXCEPT ![c] = IF m_tasks = << >> THEN "notify" ELSE "idle"]
    /\ UNCHANGED <<m_shutdown, m_threads, worker, task, ctl, finished, inits>>

\* The task is pushed, unless the pool is shut down: then Enqueue throws.
Push(c, t) ==
    /\ client[c] = "idle"
    /\ t \notin Queued \cup Running \cup finished      \* each call makes a new task
    /\ ~m_shutdown
    /\ m_tasks' = Append(m_tasks, t)
    /\ m_tasksCount' = m_tasksCount + 1
    /\ client' = [client EXCEPT ![c] = "notify"]
    /\ UNCHANGED <<m_shutdown, m_threads, worker, task, ctl, finished, inits>>

\* notify_one wakes one waiting worker, if there is one.
NotifyOne(c) ==
    /\ client[c] = "notify"
    /\ \/ \E w \in In("waiting") : worker' = [worker EXCEPT ![w] = "check"]
       \/ In("waiting") = {} /\ UNCHANGED worker
    /\ client' = [client EXCEPT ![c] = "idle"]
    /\ UNCHANGED <<m_tasks, m_shutdown, m_tasksCount, m_threads, task, ctl, finished, inits>>

-----------------------------------------------------------------------------
(* WorkerThread. *)

Wait(w) ==
    /\ worker[w] = "check"
    /\ ~m_shutdown /\ m_tasks = << >>
    /\ worker' = [worker EXCEPT ![w] = "waiting"]
    /\ UNCHANGED <<m_tasks, m_shutdown, m_tasksCount, m_threads, task, client, ctl,
                   finished, inits>>

SpuriousWakeup(w) ==
    /\ worker[w] = "waiting"
    /\ worker' = [worker EXCEPT ![w] = "check"]
    /\ UNCHANGED <<m_tasks, m_shutdown, m_tasksCount, m_threads, task, client, ctl,
                   finished, inits>>

\* Mutant of Exit: a worker leaves at once when the pool is shut down.
ExitAtOnce(w) ==
    /\ worker[w] = "check"
    /\ m_shutdown
    /\ worker' = [worker EXCEPT ![w] = "exited"]
    /\ UNCHANGED <<m_tasks, m_shutdown, m_tasksCount, m_threads, task, client, ctl,
                   finished, inits>>

Exit(w) ==
    /\ worker[w] = "check"
    /\ m_shutdown /\ m_tasks = << >>
    /\ worker' = [worker EXCEPT ![w] = "exited"]
    /\ UNCHANGED <<m_tasks, m_shutdown, m_tasksCount, m_threads, task, client, ctl,
                   finished, inits>>

\* Mutant of Take: the counter goes down when the task is taken as well.
TakeCounts(w) ==
    /\ worker[w] = "check"
    /\ m_tasks # << >>
    /\ worker' = [worker EXCEPT ![w] = "running"]
    /\ task' = [task EXCEPT ![w] = Head(m_tasks)]
    /\ m_tasks' = Tail(m_tasks)
    /\ m_tasksCount' = m_tasksCount - 1
    /\ UNCHANGED <<m_shutdown, m_threads, client, ctl, finished, inits>>

Take(w) ==
    /\ worker[w] = "check"
    /\ m_tasks # << >>
    /\ worker' = [worker EXCEPT ![w] = "running"]
    /\ task' = [task EXCEPT ![w] = Head(m_tasks)]
    /\ m_tasks' = Tail(m_tasks)
    /\ UNCHANGED <<m_shutdown, m_tasksCount, m_threads, client, ctl, finished, inits>>

\* The task returned or threw: both are caught, the counter goes down.
FinishTask(w) ==
    /\ worker[w] = "running"
    /\ finished' = finished \cup {task[w]}
    /\ task' = [task EXCEPT ![w] = NoTask]
    /\ m_tasksCount' = m_tasksCount - 1
    /\ worker' = [worker EXCEPT ![w] = "check"]
    /\ UNCHANGED <<m_tasks, m_shutdown, m_threads, client, ctl, inits>>

-----------------------------------------------------------------------------
Enqueue(c) == (\E t \in Task : Push(c, t)) \/ NotifyOne(c)
WorkerThread(w) == Wait(w) \/ Exit(w) \/ Take(w) \/ FinishTask(w)
Shutdown == NotifyAll \/ Join

Next ==
    \/ InitPool \/ SetShutdown \/ Shutdown
    \/ \E c \in Client : Enqueue(c)
    \/ \E w \in Worker : WorkerThread(w) \/ SpuriousWakeup(w)

Spec == Init /\ [][Next]_vars

\* Threads that can go on do; the tasks of the gateway end.
Fairness ==
    /\ \A w \in Worker : WF_vars(WorkerThread(w))
    /\ \A c \in Client : WF_vars(NotifyOne(c))
    /\ WF_vars(Shutdown)

FairSpec == Spec /\ Fairness

-----------------------------------------------------------------------------
(* Properties. *)

\* No worker sleeps while there is work for it: when one waits, every queued task has
\* a notification to come or a worker that is about to test the predicate (the
\* notification is sent outside the mutex).
WorkConserving ==
    In("waiting") # {} =>
       Len(m_tasks) <= Cardinality({c \in Client : client[c] = "notify"})
                       + Cardinality(In("check"))

\* m_tasksCount, which the gateway reports, is the number of tasks queued or running,
\* across restarts of the pool: it is decremented outside the mutex, and Init sets it.
CountExact == m_tasksCount = Len(m_tasks) + Cardinality(In("running"))

\* Queue, workers and counter fit together at every moment of a start, a stop and a restart.
TasksCounted == TypeOK /\ CountExact

\* The pool implements what TaskPool promises, with its liveness: tasks run in order,
\* once, and all of them, and Shutdown returns when the accepted ones are done.
TaskPool == INSTANCE TaskPool WITH
    MaxRunning <- Cardinality(Worker),
    up <- m_threads # {}, accepting <- ~m_shutdown,
    queue <- m_tasks, running <- Running, done <- finished

ImplementsTaskPool == TaskPool!PoolFairSpec
=============================================================================
