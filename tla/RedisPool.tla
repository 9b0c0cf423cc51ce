------------------------------ MODULE RedisPool ------------------------------
(***************************************************************************)
(* RedisManager: a pool of connections behind one mutex and one condition  *)
(* variable.  Every critical section of mutex_ is one step.  A thread that *)
(* calls get_connection takes a connection, or sleeps in wait_for until it *)
(* is notified, woken for no reason, or its deadline passes, and then      *)
(* competes for the mutex again.  The RedisConnection of execute gives the *)
(* connection back when the function returns or throws.  initialize and    *)
(* shutdown may come at any time, while connections are in use; what was   *)
(* handed out before carries an old generation.                            *)
(***************************************************************************)
EXTENDS Naturals, Sequences, FiniteSets

CONSTANTS Thread,
          Sizes,     \* values of pool_size
          MaxGen     \* bound: initialisations and shutdowns

ASSUME PoolAssumption ==
    /\ IsFiniteSet(Thread)
    /\ Sizes \subseteq Nat \ {0}
    /\ MaxGen \in Nat

VARIABLES available,     \* available_, a queue of connections <<generation, index>>
          total,         \* total_connections_
          active,        \* active_connections_
          initialized,   \* initialized_
          generation,    \* generation_
          pc,            \* of each thread
          held,          \* redis_ of its RedisConnection
          gen,           \* generation_ of its RedisConnection
          expired        \* has the deadline of its wait_for passed?

poolVars == <<available, total, active, initialized, generation>>
vars == <<poolVars, pc, held, gen, expired>>

NoConn == <<0, 0>>
PC == {"idle", "waiting", "woken", "using"}
At(l) == {t \in Thread : pc[t] = l}

Init ==
    /\ available = <<>> /\ total = 0 /\ active = 0
    /\ initialized = FALSE /\ generation = 0
    /\ pc = [t \in Thread |-> "idle"]
    /\ held = [t \in Thread |-> NoConn]
    /\ gen = [t \in Thread |-> 0]
    /\ expired = [t \in Thread |-> FALSE]

-----------------------------------------------------------------------------
(* notify_all and notify_one, after the statements that leave q for pc.    *)
NotifyAll == pc' = [t \in Thread |-> IF pc[t] = "waiting" THEN "woken" ELSE pc[t]]
NotifyOne(q) ==
    LET asleep == {t \in Thread : q[t] = "waiting"}
    IN  \/ asleep = {} /\ pc' = q
        \/ \E t \in asleep : pc' = [q EXCEPT ![t] = "woken"]

\* Mutant of Initialize: the connections of the old pool stay in the queue.
InitializeKeep == \E n \in Sizes :
    /\ generation < MaxGen
    /\ generation' = generation + 1
    /\ available' = available \o [i \in 1..n |-> <<generation', i>>]
    /\ total' = n /\ active' = 0
    /\ initialized' = TRUE
    /\ NotifyAll
    /\ UNCHANGED <<held, gen, expired>>

(* initialize(config): the pool is replaced.                               *)
Initialize == \E n \in Sizes :
    /\ generation < MaxGen
    /\ generation' = generation + 1
    /\ available' = [i \in 1..n |-> <<generation', i>>]
    /\ total' = n /\ active' = 0
    /\ initialized' = TRUE
    /\ NotifyAll
    /\ UNCHANGED <<held, gen, expired>>

(* A connection of the new pool cannot be made.  Nobody is notified.       *)
InitializeFails ==
    /\ generation < MaxGen
    /\ generation' = generation + 1
    /\ available' = <<>> /\ total' = 0 /\ active' = 0
    /\ initialized' = FALSE
    /\ UNCHANGED <<pc, held, gen, expired>>

Shutdown ==
    /\ generation < MaxGen
    /\ generation' = generation + 1
    /\ available' = <<>> /\ total' = 0 /\ active' = 0
    /\ initialized' = FALSE
    /\ NotifyAll
    /\ UNCHANGED <<held, gen, expired>>

-----------------------------------------------------------------------------
\* Mutant of Take: the front of the queue is copied and not popped.
TakeNoPop(t) ==
    /\ active' = active + 1
    /\ pc' = [pc EXCEPT ![t] = "using"]
    /\ held' = [held EXCEPT ![t] = Head(available)]
    /\ gen' = [gen EXCEPT ![t] = generation]
    /\ UNCHANGED <<available, total, initialized, generation, expired>>

(* The end of get_connection.                                              *)
Take(t) ==
    /\ available' = Tail(available)
    /\ active' = active + 1
    /\ pc' = [pc EXCEPT ![t] = "using"]
    /\ held' = [held EXCEPT ![t] = Head(available)]
    /\ gen' = [gen EXCEPT ![t] = generation]
    /\ UNCHANGED <<total, initialized, generation, expired>>

(* get_connection; of a manager that is not initialised it throws, which   *)
(* changes nothing.                                                        *)
GetConnection(t) ==
    /\ pc[t] = "idle" /\ initialized
    /\ \/ available # <<>> /\ Take(t)
       \/ /\ available = <<>>
          /\ pc' = [pc EXCEPT ![t] = "waiting"]
          /\ expired' = [expired EXCEPT ![t] = FALSE]
          /\ UNCHANGED <<poolVars, held, gen>>

\* Mutant of Deadline: the sleeper is not woken, as with wait.
DeadlineUnheard(t) ==
    /\ pc[t] \in {"waiting", "woken"} /\ ~expired[t]
    /\ expired' = [expired EXCEPT ![t] = TRUE]
    /\ UNCHANGED <<poolVars, pc, held, gen>>

(* pool_wait_timeout passes, for a sleeper or for one woken already.       *)
Deadline(t) ==
    /\ pc[t] \in {"waiting", "woken"} /\ ~expired[t]
    /\ expired' = [expired EXCEPT ![t] = TRUE]
    /\ pc' = [pc EXCEPT ![t] = "woken"]
    /\ UNCHANGED <<poolVars, held, gen>>

SpuriousWakeup(t) ==
    /\ pc[t] = "waiting"
    /\ pc' = [pc EXCEPT ![t] = "woken"]
    /\ UNCHANGED <<poolVars, held, gen, expired>>

(* wait_for evaluates its predicate again: throw, take or sleep on.        *)
Resume(t) ==
    /\ pc[t] = "woken"
    /\ \/ initialized /\ available # <<>> /\ Take(t)
       \/ /\ ~initialized \/ (available = <<>> /\ expired[t])
          /\ pc' = [pc EXCEPT ![t] = "idle"]
          /\ UNCHANGED <<poolVars, held, gen, expired>>
       \/ /\ initialized /\ available = <<>> /\ ~expired[t]
          /\ pc' = [pc EXCEPT ![t] = "waiting"]
          /\ UNCHANGED <<poolVars, held, gen, expired>>

-----------------------------------------------------------------------------
Dropped(t) ==
    /\ held' = [held EXCEPT ![t] = NoConn]
    /\ gen' = [gen EXCEPT ![t] = 0]

\* Mutant of Release: generations are not compared.
ReleaseAnyGeneration(t) ==
    /\ pc[t] = "using"
    /\ active' = IF active > 0 THEN active - 1 ELSE active
    /\ available' = IF initialized THEN Append(available, held[t]) ELSE available
    /\ UNCHANGED total
    /\ Dropped(t)
    /\ NotifyOne([pc EXCEPT ![t] = "idle"])
    /\ UNCHANGED <<initialized, generation, expired>>

\* Mutant of Release: nobody is notified.
ReleaseSilent(t) ==
    /\ pc[t] = "using"
    /\ active' = IF gen[t] = generation /\ active > 0 THEN active - 1 ELSE active
    /\ available' = IF gen[t] = generation /\ initialized THEN Append(available, held[t])
                                                          ELSE available
    /\ Dropped(t)
    /\ pc' = [pc EXCEPT ![t] = "idle"]
    /\ UNCHANGED <<total, initialized, generation, expired>>

(* ~RedisConnection: release and release_connection.  A connection of      *)
(* another generation is dropped.                                          *)
Release(t) ==
    LET current == gen[t] = generation
    IN  /\ pc[t] = "using"
        /\ active' = IF current /\ active > 0 THEN active - 1 ELSE active
        /\ available' = IF current /\ initialized THEN Append(available, held[t]) ELSE available
        /\ total' = IF current /\ ~initialized /\ total > 0 THEN total - 1 ELSE total
        /\ Dropped(t)
        /\ NotifyOne([pc EXCEPT ![t] = "idle"])
        /\ UNCHANGED <<initialized, generation, expired>>

Next ==
    \/ Initialize \/ InitializeFails \/ Shutdown
    \/ \E t \in Thread :
         \/ GetConnection(t) \/ Deadline(t) \/ SpuriousWakeup(t) \/ Resume(t)
         \/ Release(t)

(* Clocks run, and a thread that can have the mutex gets it.  Nothing is   *)
(* assumed of the users: a connection may be kept for ever.                *)
Fairness == \A t \in Thread : WF_vars(Deadline(t)) /\ WF_vars(Resume(t))

Spec == Init /\ [][Next]_vars /\ Fairness

-----------------------------------------------------------------------------
Conn == (1..MaxGen) \X (Nat \ {0})

TypeOK ==
    /\ available \in Seq(Conn)
    /\ total \in Nat /\ active \in Nat
    /\ initialized \in BOOLEAN /\ generation \in 0..MaxGen
    /\ pc \in [Thread -> PC]
    /\ held \in [Thread -> Conn \cup {NoConn}]
    /\ gen \in [Thread -> 0..MaxGen]
    /\ expired \in [Thread -> BOOLEAN]

(* A connection has one user: no two threads hold the same one, none that  *)
(* is held can be handed out, and none is in the queue twice, whatever     *)
(* initialisations and shutdowns come while connections are in use.        *)
ExclusiveUse ==
    /\ \A t \in Thread : (pc[t] = "using") <=> (held[t] # NoConn)
    /\ \A t, u \in At("using") : held[t] = held[u] => t = u
    /\ \A t \in At("using"), i \in DOMAIN available : held[t] # available[i]
    /\ \A i, j \in DOMAIN available : available[i] = available[j] => i = j

(* get_pool_stats adds up: every connection of the pool is in the queue or *)
(* counted as active, and as many are active as threads hold connections   *)
(* of this pool; the counter never misses one or counts one of a replaced  *)
(* pool.                                                                   *)
StatsTrue ==
    /\ active = Cardinality({t \in At("using") : gen[t] = generation})
    /\ total = Len(available) + active

(* Queue, counters and users of the pool fit together.                     *)
PoolConsistent == TypeOK /\ StatsTrue

(* No wakeup is lost: while a thread sleeps, at least as many threads are  *)
(* on their way out of wait_for as there are connections to take, although *)
(* a notification can go to a thread whose deadline passes, or a newcomer  *)
(* can take the connection it was for.                                     *)
NoLostWakeup == At("waiting") # {} => Cardinality(At("woken")) >= Len(available)

(* get_connection ends, with a connection or an exception, however long    *)
(* connections are kept and even when initialize fails and tells nobody.   *)
GetEnds == \A t \in Thread : pc[t] \in {"waiting", "woken"} ~> pc[t] \in {"idle", "using"}

Lease == INSTANCE ConnectionLease WITH
    free <- {available[i] : i \in DOMAIN available}, lease <- held, epoch <- generation

(* The pool implements the leases: connections go from free to one user    *)
(* and back, and never back into a pool that has replaced theirs.          *)
ImplementsLease == Lease!LeaseSpec
=============================================================================
