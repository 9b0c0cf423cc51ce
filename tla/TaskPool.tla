-------------------------------- MODULE TaskPool --------------------------------
(***************************************************************************)
(* What the thread pool promises to the code that submits tasks: tasks     *)
(* start in the order of their submission, each exactly once, at most      *)
(* MaxRunning of them at a time, and all of them when the pool goes on     *)
(* running; a pool that has been shut down refuses tasks, and has finished *)
(* the ones it accepted when it is down.                                   *)
(***************************************************************************)
EXTENDS Naturals, Sequences, FiniteSets

CONSTANTS Task, MaxRunning

ASSUME PoolAssumption == MaxRunning \in Nat \ {0}

VARIABLES
    up,         \* the pool has threads
    accepting,  \* it is not shut down
    queue, running, done

pool == <<up, accepting, queue, running, done>>

Range1(q) == {q[i] : i \in DOMAIN q}
Submitted == Range1(queue) \cup running \cup done

PoolType ==
    /\ up \in BOOLEAN /\ accepting \in BOOLEAN
    /\ queue \in Seq(Task)
    /\ running \subseteq Task /\ done \subseteq Task

PoolInit ==
    /\ up = FALSE /\ accepting = TRUE
    /\ queue = << >> /\ running = {} /\ done = {}

Open ==
    /\ ~up
    /\ up' = TRUE /\ accepting' = TRUE
    /\ UNCHANGED <<queue, running, done>>

\* Tasks are accepted before the first Open too, and wait for it.
Submit(t) ==
    /\ accepting /\ t \notin Submitted
    /\ queue' = Append(queue, t)
    /\ UNCHANGED <<up, accepting, running, done>>

Start(t) ==
    /\ up /\ queue # << >> /\ t = Head(queue)
    /\ Cardinality(running) < MaxRunning
    /\ queue' = Tail(queue)
    /\ running' = running \cup {t}
    /\ UNCHANGED <<up, accepting, done>>

Finish(t) ==
    /\ t \in running
    /\ running' = running \ {t}
    /\ done' = done \cup {t}
    /\ UNCHANGED <<up, accepting, queue>>

Shut ==
    /\ accepting
    /\ accepting' = FALSE
    /\ UNCHANGED <<up, queue, running, done>>

Down ==
    /\ up /\ ~accepting
    /\ queue = << >> /\ running = {}
    /\ up' = FALSE
    /\ UNCHANGED <<accepting, queue, running, done>>

PoolNext ==
    \/ Open \/ Shut \/ Down
    \/ \E t \in Task : Submit(t) \/ Start(t) \/ Finish(t)

PoolSpec == PoolInit /\ [][PoolNext]_pool

\* A running pool starts its tasks, tasks end, and a shutdown gets through.
PoolFairness ==
    /\ WF_pool(\E t \in Task : Start(t))
    /\ \A t \in Task : WF_pool(Finish(t))
    /\ WF_pool(Down)

PoolFairSpec == PoolSpec /\ PoolFairness
=============================================================================
