--------------------------- MODULE RedisPoolProofs ---------------------------
(***************************************************************************)
(* Proofs about RedisPool, for any set of threads, any pool sizes and any  *)
(* number of initialisations and shutdowns:                                *)
(*   - PoolConsistent: the counters agree with the queue and its users;    *)
(*   - ExclusiveUse: a connection has one user;                            *)
(*   - NoLostWakeup: sleepers never outnumber what they were told;         *)
(*   - ImplementsLease: the pool implements ConnectionLease.               *)
(* ExclusiveUse is not inductive: that a released connection may go back   *)
(* into the queue rests on generations, so the invariant also says how the *)
(* generation of a user relates to the pool (UserOK, QueueOK).             *)
(***************************************************************************)
EXTENDS RedisPool, SequenceTheorems, FiniteSetTheorems, TLAPS

\* A user holds a connection of the generation it noted, which is not ahead
\* of the pool's; a generation that can be current was initialised.
UserOK ==
    \A t \in Thread :
       IF pc[t] = "using"
       THEN /\ held[t] \in Conn /\ held[t][1] = gen[t]
            /\ gen[t] <= generation
            /\ gen[t] = generation => initialized
       ELSE held[t] = NoConn

\* What the queue offers was made by the initialisation in force.
QueueOK ==
    /\ \A i \in 1..Len(available) : available[i][1] = generation
    /\ available # <<>> => initialized

Ownership == UserOK /\ QueueOK /\ ExclusiveUse

\* The users of connections of this pool.
Current == {t \in At("using") : gen[t] = generation}

PoolInv == TypeOK /\ Ownership /\ StatsTrue /\ NoLostWakeup
-----------------------------------------------------------------------------
(* The steps that several actions share. *)

\* A connection is not the null connection, and is known by its parts.
LEMMA Connections == NoConn \notin Conn /\ \A c \in Conn : c[1] \in 1..MaxGen
  BY PoolAssumption DEF NoConn, Conn

\* notify_all and notify_one only turn sleepers into woken threads.
LEMMA Wakes ==
    ASSUME NEW q \in [Thread -> PC], \/ NotifyOne(q)
                                     \/ NotifyAll /\ q = pc
    PROVE  /\ pc' \in [Thread -> PC]
           /\ \A t \in Thread : pc'[t] # q[t] => q[t] = "waiting" /\ pc'[t] = "woken"
  BY DEF NotifyOne, NotifyAll, PC

\* A new pool: as many connections as asked for, all of the new generation.
LEMMA NewPool ==
    ASSUME NEW n \in Nat, NEW g \in 1..MaxGen
    PROVE  LET q == [i \in 1..n |-> <<g, i>>]
           IN  q \in Seq(Conn) /\ Len(q) = n
  <1> DEFINE q == [i \in 1..n |-> <<g, i>>]
  <1>1. \A i \in 1..n : <<g, i>> \in Conn
    BY DEF Conn
  <1>2. q \in [1..n -> Conn]
    BY <1>1
  <1>3. q \in Seq(Conn)
    BY <1>2, SeqDef
  <1>4. DOMAIN q = 1..n
    OBVIOUS
  <1>5. Len(q) = n
    BY <1>3, <1>4, LenProperties
  <1> QED
    BY <1>3, <1>5
-----------------------------------------------------------------------------
(* The type invariant. *)

\* The steps that replace the pool keep it well typed.
LEMMA ResetType ==
    ASSUME TypeOK, Initialize \/ InitializeFails \/ Shutdown PROVE TypeOK'
  <1>1. ASSUME Initialize PROVE TypeOK'
    <2>1. PICK n \in Sizes :
             /\ generation < MaxGen /\ generation' = generation + 1
             /\ available' = [i \in 1..n |-> <<generation', i>>]
             /\ total' = n /\ active' = 0 /\ initialized' = TRUE
             /\ NotifyAll /\ UNCHANGED <<held, gen, expired>>
      BY <1>1 DEF Initialize
    <2>2. n \in Nat /\ generation' \in 1..MaxGen
      BY <2>1, PoolAssumption DEF TypeOK
    <2>3. available' \in Seq(Conn)
      BY <2>1, <2>2, NewPool
    <2>4. pc' \in [Thread -> PC]
      BY <2>1, Wakes DEF TypeOK
    <2> QED
      BY <2>1, <2>2, <2>3, <2>4 DEF TypeOK
  <1>2. ASSUME InitializeFails PROVE TypeOK'
    <2>1. generation' \in 0..MaxGen
      BY <1>2, PoolAssumption DEF TypeOK, InitializeFails
    <2>2. available' \in Seq(Conn)
      BY <1>2, EmptySeq DEF InitializeFails
    <2> QED
      BY <1>2, <2>1, <2>2 DEF TypeOK, InitializeFails
  <1>3. ASSUME Shutdown PROVE TypeOK'
    <2>1. pc' \in [Thread -> PC]
      BY <1>3, Wakes DEF TypeOK, Shutdown
    <2>2. generation' \in 0..MaxGen
      BY <1>3, PoolAssumption DEF TypeOK, Shutdown
    <2>3. available' \in Seq(Conn)
      BY <1>3, EmptySeq DEF Shutdown
    <2> QED
      BY <1>3, <2>1, <2>2, <2>3 DEF TypeOK, Shutdown
  <1> QED
    BY <1>1, <1>2, <1>3

\* The steps of one thread keep the pool well typed.
LEMMA ThreadType ==
    ASSUME TypeOK, UserOK, NEW t \in Thread,
           GetConnection(t) \/ Deadline(t) \/ SpuriousWakeup(t) \/ Resume(t) \/ Release(t)
    PROVE  TypeOK'
  <1>1. ASSUME Take(t), available # <<>> PROVE TypeOK'
    BY <1>1 DEF TypeOK, Take, PC
  <1>2. CASE GetConnection(t)
    BY <1>1, <1>2 DEF TypeOK, GetConnection, PC, poolVars
  <1>3. CASE Deadline(t)
    BY <1>3 DEF TypeOK, Deadline, PC, poolVars
  <1>4. CASE SpuriousWakeup(t)
    BY <1>4 DEF TypeOK, SpuriousWakeup, PC, poolVars
  <1>5. CASE Resume(t)
    BY <1>1, <1>5 DEF TypeOK, Resume, PC, poolVars
  <1>6. CASE Release(t)
    <2>1. pc' \in [Thread -> PC]
      BY <1>6, Wakes DEF TypeOK, Release, PC
    <2>2. UNCHANGED <<initialized, generation, expired>>
      BY <1>6 DEF Release
    <2>3. available' \in Seq(Conn) /\ active' \in Nat /\ total' \in Nat
      BY <1>6 DEF TypeOK, UserOK, Release
    <2>4. held' \in [Thread -> Conn \cup {NoConn}] /\ gen' \in [Thread -> 0..MaxGen]
      BY <1>6, PoolAssumption DEF TypeOK, Release, Dropped
    <2> QED
      BY <2>1, <2>2, <2>3, <2>4 DEF TypeOK
  <1> QED
    BY <1>2, <1>3, <1>4, <1>5, <1>6
-----------------------------------------------------------------------------
(* Ownership. *)

\* A pool that is replaced: what is in use is of an older generation.
LEMMA ResetOwnership ==
    ASSUME TypeOK, Ownership, Initialize \/ InitializeFails \/ Shutdown PROVE Ownership'
  <1>1. /\ generation' = generation + 1
        /\ UNCHANGED <<held, gen>>
        /\ pc' \in [Thread -> PC]
        /\ \A u \in Thread : pc'[u] = "using" <=> pc[u] = "using"
    <2>1. /\ generation' = generation + 1
          /\ UNCHANGED <<held, gen>>
          /\ NotifyAll \/ pc' = pc
      BY DEF Initialize, InitializeFails, Shutdown
    <2> QED
      BY <2>1, Wakes DEF TypeOK
  <1>2. /\ Len(available') \in Nat
        /\ \A i \in 1..Len(available') : available'[i] = <<generation', i>>
        /\ available' # <<>> => initialized'
        /\ DOMAIN available' = 1..Len(available')
    <2>1. CASE Initialize
      <3>1. PICK n \in Sizes : /\ available' = [i \in 1..n |-> <<generation', i>>]
                               /\ initialized' = TRUE /\ generation < MaxGen
        BY <2>1 DEF Initialize
      <3>2. n \in Nat /\ generation' \in 1..MaxGen
        BY <3>1, <1>1, PoolAssumption DEF TypeOK
      <3> QED
        BY <3>1, <3>2, NewPool
    <2>2. CASE InitializeFails \/ Shutdown
      BY <2>2, EmptySeq DEF InitializeFails, Shutdown
    <2> QED
      BY <2>1, <2>2
  <1>3. UserOK'
    BY <1>1 DEF TypeOK, Ownership, UserOK
  <1>4. QueueOK'
    BY <1>2 DEF QueueOK
  <1>5. ExclusiveUse'
    <2>1. \A u \in At("using")' : u \in At("using") /\ held'[u] = held[u] /\ held[u][1] < generation'
      BY <1>1 DEF TypeOK, Ownership, UserOK, At
    <2>2. \A u \in Thread : (pc'[u] = "using") <=> (held'[u] # NoConn)
      BY <1>1 DEF Ownership, ExclusiveUse
    <2>3. \A i \in DOMAIN available' : available'[i][1] = generation' /\ available'[i][2] = i
      BY <1>2
    <2>4. generation' \in Nat /\ \A u \in At("using") : held[u][1] \in Nat
      BY <1>1, Connections DEF TypeOK, Ownership, UserOK, At
    <2>5. \A u \in At("using")', i \in DOMAIN available' : held'[u] # available'[i]
      BY <2>1, <2>3, <2>4
    <2> QED
      BY <2>1, <2>2, <2>3, <2>5 DEF Ownership, ExclusiveUse
  <1> QED
    BY <1>3, <1>4, <1>5 DEF Ownership

\* A step that leaves the queue and the connections in use alone.
LEMMA QuietOwnership ==
    ASSUME TypeOK, Ownership, UNCHANGED <<poolVars, held, gen>>,
           \A u \in Thread : pc'[u] = "using" <=> pc[u] = "using"
    PROVE  Ownership'
  BY DEF Ownership, UserOK, QueueOK, ExclusiveUse, At, poolVars

\* The front of the queue gets a user.
LEMMA TakeOwnership ==
    ASSUME TypeOK, Ownership, NEW t \in Thread, pc[t] # "using",
           available # <<>>, Take(t)
    PROVE  Ownership'
  <1>1. /\ available \in Seq(Conn) /\ Len(available) \in Nat /\ Len(available) > 0
        /\ DOMAIN available = 1..Len(available)
        /\ Head(available) = available[1]
    BY EmptySeq, LenProperties DEF TypeOK
  <1>2. /\ available' \in Seq(Conn)
        /\ Len(available') = Len(available) - 1
        /\ DOMAIN available' = 1..Len(available')
        /\ \A i \in 1..Len(available') : available'[i] = available[i + 1]
    BY <1>1, HeadTailProperties, LenProperties DEF Take
  <1>3. /\ held' = [held EXCEPT ![t] = available[1]] /\ gen' = [gen EXCEPT ![t] = generation]
        /\ pc' = [pc EXCEPT ![t] = "using"] /\ UNCHANGED <<generation, initialized>>
        /\ initialized
    BY <1>1 DEF Take, Ownership, QueueOK
  <1>4. available[1] \in Conn /\ available[1][1] = generation /\ available[1] # NoConn
    BY <1>1, Connections DEF TypeOK, Ownership, QueueOK
  <1>5. UserOK'
    BY <1>3, <1>4 DEF TypeOK, Ownership, UserOK
  <1>6. QueueOK'
    BY <1>1, <1>2, <1>3 DEF Ownership, QueueOK
  <1>7. ExclusiveUse'
    <2>1. \A u \in At("using")' : u = t \/ (u # t /\ u \in At("using") /\ held'[u] = held[u])
      BY <1>3 DEF TypeOK, At
    <2>2. \A u \in Thread : (pc'[u] = "using") <=> (held'[u] # NoConn)
      BY <1>3, <1>4 DEF TypeOK, Ownership, ExclusiveUse
    <2>3. held'[t] = available[1]
      BY <1>3 DEF TypeOK
    <2>4. \A i \in DOMAIN available' : i + 1 \in DOMAIN available /\ i + 1 # 1
      BY <1>1, <1>2
    <2>5. \A u, v \in At("using")' : held'[u] = held'[v] => u = v
      BY <1>1, <2>1, <2>3 DEF Ownership, ExclusiveUse
    <2>6. \A u \in At("using")', i \in DOMAIN available' : held'[u] # available'[i]
      BY <1>1, <1>2, <2>1, <2>3, <2>4 DEF Ownership, ExclusiveUse
    <2>7. \A i, j \in DOMAIN available' : available'[i] = available'[j] => i = j
      BY <1>1, <1>2, <2>4 DEF Ownership, ExclusiveUse
    <2> QED
      BY <2>2, <2>5, <2>6, <2>7 DEF ExclusiveUse
  <1> QED
    BY <1>5, <1>6, <1>7 DEF Ownership

\* A connection of this pool goes to the end of the queue, another is dropped.
LEMMA ReleaseOwnership ==
    ASSUME TypeOK, Ownership, NEW t \in Thread, Release(t)
    PROVE  Ownership'
  <1>1. /\ available \in Seq(Conn) /\ Len(available) \in Nat
        /\ DOMAIN available = 1..Len(available)
    BY LenProperties DEF TypeOK
  <1>2. /\ pc[t] = "using" /\ held[t] \in Conn /\ held[t][1] = gen[t]
        /\ gen[t] = generation => initialized
    BY DEF Release, Ownership, UserOK
  <1>3. /\ held' = [held EXCEPT ![t] = NoConn] /\ gen' = [gen EXCEPT ![t] = 0]
        /\ UNCHANGED <<initialized, generation>>
        /\ \A u \in Thread : pc'[u] = "using" <=> u # t /\ pc[u] = "using"
    <2>1. [pc EXCEPT ![t] = "idle"] \in [Thread -> PC] /\ NotifyOne([pc EXCEPT ![t] = "idle"])
      BY DEF Release, TypeOK, PC
    <2>2. \A u \in Thread : pc'[u] # [pc EXCEPT ![t] = "idle"][u] =>
                [pc EXCEPT ![t] = "idle"][u] = "waiting" /\ pc'[u] = "woken"
      BY <2>1, Wakes
    <2> QED
      BY <2>2 DEF Release, Dropped, TypeOK
  <1>4. available' = IF gen[t] = generation THEN Append(available, held[t]) ELSE available
    BY <1>2 DEF Release
  <1>5. UserOK'
    BY <1>3 DEF TypeOK, Ownership, UserOK
  <1>6. \A u \in At("using")' : u # t /\ u \in At("using") /\ held'[u] = held[u]
    BY <1>3 DEF TypeOK, At
  <1>7. \A u \in Thread : (pc'[u] = "using") <=> (held'[u] # NoConn)
    BY <1>3 DEF TypeOK, Ownership, ExclusiveUse
  <1>8. CASE gen[t] # generation
    BY <1>3, <1>4, <1>5, <1>6, <1>7, <1>8 DEF Ownership, QueueOK, ExclusiveUse
  <1>9. CASE gen[t] = generation
    <2>1. /\ available' \in Seq(Conn) /\ Len(available') = Len(available) + 1
          /\ \A i \in 1..Len(available) : available'[i] = available[i]
          /\ available'[Len(available) + 1] = held[t]
          /\ DOMAIN available' = 1..Len(available')
      BY <1>1, <1>2, <1>4, <1>9, AppendProperties, LenProperties
    <2>2. \A i \in DOMAIN available' :
             \/ i \in DOMAIN available /\ available'[i] = available[i]
             \/ i = Len(available) + 1 /\ available'[i] = held[t]
      BY <1>1, <2>1
    <2>3. QueueOK'
      BY <1>2, <1>3, <1>9, <2>1, <2>2 DEF Ownership, QueueOK
    <2>4. t \in At("using")
      BY <1>2 DEF At
    <2>5. \A u \in At("using")', i \in DOMAIN available' : held'[u] # available'[i]
      BY <1>6, <2>2, <2>4 DEF Ownership, ExclusiveUse
    <2>6. \A i, j \in DOMAIN available' : available'[i] = available'[j] => i = j
      BY <2>2, <2>4 DEF Ownership, ExclusiveUse
    <2>7. \A u, v \in At("using")' : held'[u] = held'[v] => u = v
      BY <1>6 DEF Ownership, ExclusiveUse
    <2> QED
      BY <1>5, <1>7, <2>3, <2>5, <2>6, <2>7 DEF Ownership, ExclusiveUse
  <1> QED
    BY <1>8, <1>9
-----------------------------------------------------------------------------
(* The counters. *)

\* The users of this pool are finitely many.
LEMMA CurrentFinite == IsFiniteSet(Current) /\ Cardinality(Current) \in Nat
  BY PoolAssumption, FS_Subset, FS_CardinalityType DEF Current, At

\* A pool that is replaced has no user yet, and its queue holds all of it.
LEMMA ResetStats ==
    ASSUME TypeOK, Ownership, Initialize \/ InitializeFails \/ Shutdown PROVE StatsTrue'
  <1>1. /\ generation' = generation + 1 /\ active' = 0 /\ gen' = gen
        /\ pc' \in [Thread -> PC]
        /\ \A u \in Thread : pc'[u] = "using" <=> pc[u] = "using"
    <2>1. /\ generation' = generation + 1 /\ active' = 0 /\ gen' = gen
          /\ NotifyAll \/ pc' = pc
      BY DEF Initialize, InitializeFails, Shutdown
    <2> QED
      BY <2>1, Wakes DEF TypeOK
  <1>2. Current' = {}
    BY <1>1 DEF Current, At, TypeOK, Ownership, UserOK
  <1>3. total' = Len(available')
    <2>1. CASE Initialize
      <3>1. PICK n \in Sizes : /\ available' = [i \in 1..n |-> <<generation', i>>]
                               /\ total' = n /\ generation < MaxGen
        BY <2>1 DEF Initialize
      <3>2. n \in Nat /\ generation' \in 1..MaxGen
        BY <3>1, <1>1, PoolAssumption DEF TypeOK
      <3> QED
        BY <3>1, <3>2, NewPool
    <2>2. CASE InitializeFails \/ Shutdown
      BY <2>2, EmptySeq DEF InitializeFails, Shutdown
    <2> QED
      BY <2>1, <2>2
  <1>4. Len(available') \in Nat
    BY ResetType, LenProperties DEF TypeOK
  <1> QED
    BY <1>1, <1>2, <1>3, <1>4, FS_EmptySet DEF StatsTrue, Current

\* Taking a connection moves it from the queue to the active ones.
LEMMA TakeStats ==
    ASSUME TypeOK, StatsTrue, NEW t \in Thread, pc[t] # "using",
           available # <<>>, Take(t)
    PROVE  StatsTrue'
  <1>1. Current' = Current \cup {t} /\ t \notin Current
    BY DEF Current, At, Take, TypeOK
  <1>2. Cardinality(Current') = Cardinality(Current) + 1
    BY <1>1, CurrentFinite, FS_AddElement
  <1>3. Len(available') = Len(available) - 1 /\ Len(available) \in Nat
    BY HeadTailProperties, LenProperties DEF Take, TypeOK
  <1> QED
    BY <1>2, <1>3, CurrentFinite DEF StatsTrue, Take, Current

\* Releasing one of this pool moves it back; another was not counted.
LEMMA ReleaseStats ==
    ASSUME TypeOK, Ownership, StatsTrue, NEW t \in Thread, Release(t)
    PROVE  StatsTrue'
  <1>1. /\ gen' = [gen EXCEPT ![t] = 0] /\ generation' = generation
        /\ \A u \in Thread : pc'[u] = "using" <=> u # t /\ pc[u] = "using"
    <2>1. [pc EXCEPT ![t] = "idle"] \in [Thread -> PC] /\ NotifyOne([pc EXCEPT ![t] = "idle"])
      BY DEF Release, TypeOK, PC
    <2>2. \A u \in Thread : pc'[u] # [pc EXCEPT ![t] = "idle"][u] =>
                [pc EXCEPT ![t] = "idle"][u] = "waiting" /\ pc'[u] = "woken"
      BY <2>1, Wakes
    <2> QED
      BY <2>2 DEF Release, Dropped, TypeOK
  <1>2. Current' = Current \ {t}
    BY <1>1 DEF Current, At, TypeOK
  <1>3. t \in Current <=> gen[t] = generation
    BY DEF Current, At, Release
  <1>4. Cardinality(Current') = IF gen[t] = generation THEN Cardinality(Current) - 1
                                                        ELSE Cardinality(Current)
    BY <1>2, <1>3, CurrentFinite, FS_RemoveElement
  <1>5. gen[t] = generation => Cardinality(Current) > 0
    BY <1>3, CurrentFinite, FS_EmptySet
  <1>6. /\ held[t] \in Conn
        /\ gen[t] = generation => initialized
    BY DEF Ownership, UserOK, Release
  <1>7. Len(available) \in Nat /\ Len(Append(available, held[t])) = Len(available) + 1
    BY <1>6, AppendProperties, LenProperties DEF TypeOK
  <1>8. CASE gen[t] = generation
    <2>1. /\ active' = active - 1 /\ total' = total
          /\ Len(available') = Len(available) + 1
      BY <1>5, <1>6, <1>7, <1>8 DEF StatsTrue, Release, Current, TypeOK
    <2> QED
      BY <1>4, <1>7, <1>8, <2>1, CurrentFinite DEF StatsTrue, Current
  <1>9. CASE gen[t] # generation
    <2>1. UNCHANGED <<active, total, available>>
      BY <1>9 DEF Release
    <2> QED
      BY <1>4, <1>9, <2>1 DEF StatsTrue, Current
  <1> QED
    BY <1>8, <1>9

\* A step that leaves the pool and its users alone leaves the counters true.
LEMMA QuietStats ==
    ASSUME StatsTrue, UNCHANGED <<poolVars, gen>>,
           \A u \in Thread : pc'[u] = "using" <=> pc[u] = "using"
    PROVE  StatsTrue'
  <1>1. Current' = Current
    BY DEF Current, At, poolVars
  <1> QED
    BY <1>1 DEF StatsTrue, Current, poolVars
-----------------------------------------------------------------------------
(* Wakeups. *)

\* The woken threads are finitely many, before and after a step.
LEMMA WokenFinite ==
    /\ IsFiniteSet(At("woken")) /\ Cardinality(At("woken")) \in Nat
    /\ IsFiniteSet(At("woken")') /\ Cardinality(At("woken")') \in Nat
  BY PoolAssumption, FS_Subset, FS_CardinalityType DEF At

\* A pool that is replaced wakes every sleeper or has nothing to hand out.
LEMMA ResetWakeup ==
    ASSUME TypeOK, Initialize \/ InitializeFails \/ Shutdown PROVE NoLostWakeup'
  <1>1. CASE Initialize \/ Shutdown
    BY <1>1 DEF Initialize, Shutdown, NotifyAll, NoLostWakeup, At
  <1>2. CASE InitializeFails
    BY <1>2, EmptySeq, WokenFinite DEF InitializeFails, NoLostWakeup, At
  <1> QED
    BY <1>1, <1>2

\* Taking one connection uses up at most one woken thread.
LEMMA TakeWakeup ==
    ASSUME TypeOK, NoLostWakeup, NEW t \in Thread, pc[t] # "using",
           available # <<>>, Take(t)
    PROVE  NoLostWakeup'
  <1>1. At("woken")' = At("woken") \ {t} /\ At("waiting")' \subseteq At("waiting")
    BY DEF At, Take, TypeOK
  <1>2. Cardinality(At("woken") \ {t}) >= Cardinality(At("woken")) - 1
    <2>1. Cardinality(At("woken") \ {t}) = IF t \in At("woken") THEN Cardinality(At("woken")) - 1
                                                               ELSE Cardinality(At("woken"))
      BY WokenFinite, FS_RemoveElement
    <2> QED
      BY <2>1, WokenFinite
  <1>3. Len(available') = Len(available) - 1 /\ Len(available) \in Nat
    BY HeadTailProperties, LenProperties DEF Take, TypeOK
  <1> QED
    BY <1>1, <1>2, <1>3, WokenFinite DEF NoLostWakeup

\* A thread that stops waiting or goes back to sleep leaves an empty queue.
LEMMA QuietWakeup ==
    ASSUME TypeOK, NoLostWakeup, available' = available,
           \/ available = <<>>
           \/ At("waiting")' \subseteq At("waiting") /\ At("woken") \subseteq At("woken")'
    PROVE  NoLostWakeup'
  <1>1. CASE available = <<>>
    BY <1>1, EmptySeq, WokenFinite DEF NoLostWakeup
  <1>2. CASE At("waiting")' \subseteq At("waiting") /\ At("woken") \subseteq At("woken")'
    <2>1. Cardinality(At("woken")) <= Cardinality(At("woken")')
      BY <1>2, WokenFinite, FS_Subset
    <2>2. Len(available) \in Nat
      BY LenProperties DEF TypeOK
    <2> QED
      BY <1>2, <2>1, <2>2, WokenFinite DEF NoLostWakeup
  <1> QED
    BY <1>1, <1>2

\* A release wakes a sleeper if there is one.
LEMMA ReleaseWakeup ==
    ASSUME TypeOK, Ownership, NoLostWakeup, NEW t \in Thread, Release(t)
    PROVE  NoLostWakeup'
  <1> DEFINE q == [pc EXCEPT ![t] = "idle"]
  <1>1. pc[t] = "using" /\ held[t] \in Conn
    BY DEF Release, Ownership, UserOK
  <1>2. /\ Len(available) \in Nat /\ Len(available') \in Nat
        /\ Len(available') <= Len(available) + 1
    BY <1>1, AppendProperties, LenProperties DEF TypeOK, Release
  <1>3. {u \in Thread : q[u] = "waiting"} = At("waiting")
    BY <1>1 DEF At, TypeOK
  <1>4. CASE At("waiting") = {}
    <2>1. pc' = q
      BY <1>3, <1>4 DEF Release, NotifyOne
    <2> QED
      BY <1>3, <1>4, <2>1 DEF NoLostWakeup, At
  <1>5. CASE At("waiting") # {}
    <2>1. PICK u \in At("waiting") : pc' = [q EXCEPT ![u] = "woken"]
      BY <1>3, <1>5 DEF Release, NotifyOne
    <2>2. At("woken")' = At("woken") \cup {u} /\ u \notin At("woken")
      BY <1>1, <2>1 DEF At, TypeOK
    <2>3. Cardinality(At("woken")') = Cardinality(At("woken")) + 1
      BY <2>2, WokenFinite, FS_AddElement
    <2> QED
      BY <1>2, <1>5, <2>3, WokenFinite DEF NoLostWakeup
  <1> QED
    BY <1>4, <1>5
-----------------------------------------------------------------------------
(* The invariant. *)

\* The initial state satisfies the invariant.
LEMMA PoolInit == Init => PoolInv
  <1> SUFFICES ASSUME Init PROVE PoolInv
    OBVIOUS
  <1>1. TypeOK
    <2>1. available \in Seq(Conn)
      BY EmptySeq DEF Init
    <2>2. 0 \in 0..MaxGen
      BY PoolAssumption
    <2>3. pc \in [Thread -> PC] /\ held \in [Thread -> Conn \cup {NoConn}]
      BY DEF Init, PC
    <2>4. gen \in [Thread -> 0..MaxGen] /\ expired \in [Thread -> BOOLEAN]
      BY <2>2 DEF Init
    <2> QED
      BY <2>1, <2>2, <2>3, <2>4 DEF Init, TypeOK
  <1>2. Ownership
    BY EmptySeq DEF Init, Ownership, UserOK, QueueOK, ExclusiveUse, At
  <1>3. Current = {} /\ At("waiting") = {}
    BY DEF Init, Current, At
  <1>4. StatsTrue
    BY <1>3, EmptySeq, FS_EmptySet DEF Init, StatsTrue, Current
  <1> QED
    BY <1>1, <1>2, <1>3, <1>4 DEF PoolInv, NoLostWakeup

\* A thread that takes a connection keeps the invariant.
LEMMA TakeKeeps ==
    ASSUME PoolInv, NEW t \in Thread, pc[t] # "using", available # <<>>, Take(t), TypeOK'
    PROVE  PoolInv'
  BY TakeOwnership, TakeStats, TakeWakeup DEF PoolInv

\* A thread that only sleeps, wakes or gives up keeps the invariant.
LEMMA QuietKeeps ==
    ASSUME PoolInv, TypeOK', UNCHANGED <<poolVars, held, gen>>,
           \A u \in Thread : pc'[u] = "using" <=> pc[u] = "using",
           \/ available = <<>>
           \/ At("waiting")' \subseteq At("waiting") /\ At("woken") \subseteq At("woken")'
    PROVE  PoolInv'
  <1>1. Ownership'
    BY QuietOwnership DEF PoolInv
  <1>2. StatsTrue'
    BY QuietStats DEF PoolInv
  <1>3. NoLostWakeup'
    BY QuietWakeup DEF PoolInv, poolVars
  <1> QED
    BY <1>1, <1>2, <1>3 DEF PoolInv

\* Every step of a thread keeps the invariant.
LEMMA ThreadKeeps ==
    ASSUME PoolInv, NEW t \in Thread,
           GetConnection(t) \/ Deadline(t) \/ SpuriousWakeup(t) \/ Resume(t) \/ Release(t)
    PROVE  PoolInv'
  <1>1. TypeOK /\ Ownership /\ StatsTrue /\ NoLostWakeup
    BY DEF PoolInv
  <1>2. TypeOK'
    BY <1>1, ThreadType DEF Ownership
  <1>3. CASE GetConnection(t)
    <2>1. CASE available # <<>>
      BY <1>2, <1>3, <2>1, TakeKeeps DEF GetConnection
    <2>2. CASE available = <<>>
      <3>1. /\ pc[t] = "idle" /\ pc' = [pc EXCEPT ![t] = "waiting"]
            /\ UNCHANGED <<poolVars, held, gen>>
        BY <1>3, <2>2 DEF GetConnection
      <3>2. \A u \in Thread : pc'[u] = "using" <=> pc[u] = "using"
        BY <1>1, <3>1 DEF TypeOK
      <3> QED
        BY <1>2, <2>2, <3>1, <3>2, QuietKeeps
    <2> QED
      BY <2>1, <2>2
  <1>4. CASE Deadline(t) \/ SpuriousWakeup(t)
    <2>1. /\ pc[t] \in {"waiting", "woken"} /\ pc' = [pc EXCEPT ![t] = "woken"]
          /\ UNCHANGED <<poolVars, held, gen>>
      BY <1>4 DEF Deadline, SpuriousWakeup
    <2>2. /\ \A u \in Thread : pc'[u] = "using" <=> pc[u] = "using"
          /\ At("waiting")' \subseteq At("waiting") /\ At("woken") \subseteq At("woken")'
      BY <1>1, <2>1 DEF TypeOK, At
    <2> QED
      BY <1>2, <2>1, <2>2, QuietKeeps
  <1>5. CASE Resume(t)
    <2>1. CASE initialized /\ available # <<>>
      BY <1>2, <1>5, <2>1, TakeKeeps DEF Resume
    <2>2. CASE ~initialized \/ available = <<>>
      <3>1. available = <<>>
        BY <1>1, <2>2 DEF Ownership, QueueOK
      <3>2. /\ pc[t] = "woken"
            /\ pc' = [pc EXCEPT ![t] = "idle"] \/ pc' = [pc EXCEPT ![t] = "waiting"]
            /\ UNCHANGED <<poolVars, held, gen>>
        BY <1>5, <2>2 DEF Resume
      <3>3. \A u \in Thread : pc'[u] = "using" <=> pc[u] = "using"
        BY <1>1, <3>2 DEF TypeOK
      <3> QED
        BY <1>2, <3>1, <3>2, <3>3, QuietKeeps
    <2> QED
      BY <2>1, <2>2 DEF PoolInv, TypeOK
  <1>6. CASE Release(t)
    BY <1>1, <1>2, <1>6, ReleaseOwnership, ReleaseStats, ReleaseWakeup DEF PoolInv
  <1> QED
    BY <1>3, <1>4, <1>5, <1>6

\* Every step keeps the invariant.
LEMMA PoolNext == PoolInv /\ [Next]_vars => PoolInv'
  <1> SUFFICES ASSUME PoolInv, [Next]_vars PROVE PoolInv'
    OBVIOUS
  <1>1. CASE Initialize \/ InitializeFails \/ Shutdown
    BY <1>1, ResetType, ResetOwnership, ResetStats, ResetWakeup DEF PoolInv
  <1>2. ASSUME NEW t \in Thread,
               GetConnection(t) \/ Deadline(t) \/ SpuriousWakeup(t) \/ Resume(t) \/ Release(t)
        PROVE  PoolInv'
    BY <1>2, ThreadKeeps
  <1>3. CASE UNCHANGED vars
    BY <1>3 DEF vars, poolVars, PoolInv, TypeOK, Ownership, UserOK, QueueOK, ExclusiveUse,
                StatsTrue, NoLostWakeup, At
  <1> QED
    BY <1>1, <1>2, <1>3 DEF Next

\* The invariant holds in every state of every behaviour of the pool.
LEMMA PoolSafe == Spec => []PoolInv
  BY PoolInit, PoolNext, PTL DEF Spec

(* get_pool_stats is true whatever initialisations and shutdowns come while *)
(* connections are in use: every connection of the pool is in available_ or *)
(* counted in active_connections_, which no thread that releases a          *)
(* connection of a replaced pool decrements.                                *)
THEOREM StatsCorrect == Spec => []PoolConsistent
  <1>1. PoolInv => PoolConsistent
    BY DEF PoolInv, PoolConsistent
  <1> QED
    BY <1>1, PoolSafe, PTL

(* release_connection never returns a connection that is still in use, or   *)
(* one of a replaced pool, to available_: a connection has one user.        *)
THEOREM UseIsExclusive == Spec => []ExclusiveUse
  <1>1. PoolInv => ExclusiveUse
    BY DEF PoolInv, Ownership
  <1> QED
    BY <1>1, PoolSafe, PTL

(* notify_one of release_connection is enough: while a thread sleeps in     *)
(* wait_for, as many threads are on their way out of it as there are        *)
(* connections to take.                                                     *)
THEOREM WakeupsAreEnough == Spec => []NoLostWakeup
  <1>1. PoolInv => NoLostWakeup
    BY DEF PoolInv
  <1> QED
    BY <1>1, PoolSafe, PTL
-----------------------------------------------------------------------------
(* The refinement of ConnectionLease. *)

\* The connections that the refinement mapping calls free.
Free == {available[i] : i \in DOMAIN available}

\* The pool starts as the leases do.
LEMMA LeaseInitially == Init => Lease!LeaseInit
  <1> SUFFICES ASSUME Init PROVE Free = {} /\ held = [t \in Thread |-> NoConn] /\ generation = 0
    BY DEF Lease!LeaseInit, Free
  <1>1. DOMAIN available = {}
    BY EmptySeq DEF Init
  <1> QED
    BY <1>1 DEF Init, Free

\* initialize and shutdown are resets, to no connection when they fail.
LEMMA ResetImplements ==
    ASSUME TypeOK, Initialize \/ InitializeFails \/ Shutdown PROVE Lease!Reset
  <1>1. ASSUME NEW n \in Sizes \cup {0}, generation' = generation + 1, UNCHANGED held,
               Free' = {<<generation + 1, i>> : i \in 1..n}
        PROVE  Lease!Reset
    BY <1>1 DEF Lease!Reset, Free
  <1>2. CASE Initialize
    <2>1. PICK n \in Sizes : /\ available' = [i \in 1..n |-> <<generation', i>>]
                             /\ generation' = generation + 1 /\ UNCHANGED held
      BY <1>2 DEF Initialize
    <2>2. DOMAIN available' = 1..n
      BY <2>1
    <2>3. Free' = {<<generation + 1, i>> : i \in 1..n}
      BY <2>1, <2>2 DEF Free
    <2> QED
      BY <1>1, <2>1, <2>3
  <1>3. CASE InitializeFails \/ Shutdown
    <2>1. available' = <<>> /\ generation' = generation + 1 /\ UNCHANGED held
      BY <1>3 DEF InitializeFails, Shutdown
    <2>2. DOMAIN available' = {} /\ 1..0 = {}
      BY <2>1, EmptySeq
    <2>3. Free' = {<<generation + 1, i>> : i \in 1..0}
      BY <2>2 DEF Free
    <2> QED
      BY <1>1, <2>1, <2>3
  <1> QED
    BY <1>2, <1>3

\* Taking the front of the queue is a grant.
LEMMA TakeImplements ==
    ASSUME PoolInv, NEW t \in Thread, pc[t] # "using", available # <<>>, Take(t)
    PROVE  Lease!Grant(t)
  <1>1. /\ available \in Seq(Conn) /\ Len(available) \in Nat /\ Len(available) > 0
        /\ DOMAIN available = 1..Len(available) /\ Head(available) = available[1]
    BY EmptySeq, LenProperties DEF PoolInv, TypeOK
  <1>2. /\ available' \in Seq(Conn) /\ Len(available') = Len(available) - 1
        /\ DOMAIN available' = 1..Len(available')
        /\ \A i \in 1..Len(available') : available'[i] = available[i + 1]
    BY <1>1, HeadTailProperties, LenProperties DEF Take
  <1>3. \A i, j \in 1..Len(available) : available[i] = available[j] => i = j
    BY <1>1 DEF PoolInv, Ownership, ExclusiveUse
  <1>4. Free' = Free \ {available[1]}
    <2>1. ASSUME NEW c \in Free' PROVE c \in Free /\ c # available[1]
      <3>1. PICK i \in DOMAIN available' : c = available'[i]
        BY DEF Free
      <3>2. i + 1 \in 1..Len(available) /\ i + 1 # 1 /\ c = available[i + 1]
        BY <1>1, <1>2, <3>1
      <3> QED
        BY <1>1, <1>3, <3>2 DEF Free
    <2>2. ASSUME NEW c \in Free, c # available[1] PROVE c \in Free'
      <3>1. PICK i \in DOMAIN available : c = available[i]
        BY DEF Free
      <3>2. i # 1 /\ i - 1 \in 1..Len(available')
        BY <1>1, <1>2, <2>2, <3>1
      <3>3. available'[i - 1] = c
        BY <1>1, <1>2, <3>1, <3>2
      <3> QED
        BY <1>2, <3>2, <3>3 DEF Free
    <2> QED
      BY <2>1, <2>2
  <1>5. available[1] \in Free /\ held[t] = NoConn
    BY <1>1 DEF Free, PoolInv, Ownership, UserOK
  <1> QED
    BY <1>1, <1>4, <1>5 DEF Take, Lease!Grant, Free

\* ~RedisConnection is a return.
LEMMA ReleaseImplements ==
    ASSUME PoolInv, NEW t \in Thread, Release(t)
    PROVE  Lease!Return(t)
  <1>1. /\ held[t] \in Conn /\ held[t] # NoConn /\ held[t][1] = gen[t]
        /\ gen[t] = generation => initialized
    BY Connections DEF PoolInv, Ownership, UserOK, Release
  <1>2. /\ held' = [held EXCEPT ![t] = NoConn] /\ generation' = generation
        /\ available' = IF gen[t] = generation THEN Append(available, held[t]) ELSE available
    BY <1>1 DEF Release, Dropped
  <1>3. Free' = IF gen[t] = generation THEN Free \cup {held[t]} ELSE Free
    <2>1. CASE gen[t] # generation
      BY <1>2, <2>1 DEF Free
    <2>2. CASE gen[t] = generation
      <3>1. available \in Seq(Conn)
        BY DEF PoolInv, TypeOK
      <3>2. /\ Len(available) \in Nat /\ DOMAIN available = 1..Len(available)
            /\ available' \in Seq(Conn) /\ Len(available') = Len(available) + 1
            /\ DOMAIN available' = 1..Len(available')
            /\ \A i \in 1..Len(available) : available'[i] = available[i]
            /\ available'[Len(available) + 1] = held[t]
        BY <1>1, <1>2, <2>2, <3>1, AppendProperties, LenProperties
      <3>3. ASSUME NEW c \in Free' PROVE c \in Free \cup {held[t]}
        <4>1. PICK i \in DOMAIN available' : c = available'[i]
          BY DEF Free
        <4>2. i \in 1..Len(available) \/ i = Len(available) + 1
          BY <3>2, <4>1
        <4> QED
          BY <3>2, <4>1, <4>2 DEF Free
      <3>4. ASSUME NEW c \in Free \cup {held[t]} PROVE c \in Free'
        <4>1. CASE c = held[t]
          <5>1. Len(available) + 1 \in DOMAIN available'
            BY <3>2
          <5> QED
            BY <3>2, <4>1, <5>1 DEF Free
        <4>2. CASE c \in Free
          <5>1. PICK i \in DOMAIN available : c = available[i]
            BY <4>2 DEF Free
          <5>2. i \in DOMAIN available' /\ available'[i] = c
            BY <3>2, <5>1
          <5> QED
            BY <5>2 DEF Free
        <4> QED
          BY <4>1, <4>2
      <3> QED
        BY <2>2, <3>3, <3>4
    <2> QED
      BY <2>1, <2>2
  <1> QED
    BY <1>1, <1>2, <1>3 DEF Lease!Return, Free

\* Every step of the pool is a step of the leases or changes nothing of them.
LEMMA LeaseStep == PoolInv /\ [Next]_vars => [Lease!LeaseNext]_(Lease!leaseVars)
  <1> SUFFICES ASSUME PoolInv, [Next]_vars PROVE [Lease!LeaseNext]_(Lease!leaseVars)
    OBVIOUS
  <1>1. CASE Initialize \/ InitializeFails \/ Shutdown
    BY <1>1, ResetImplements DEF PoolInv, Lease!LeaseNext
  <1>2. ASSUME NEW t \in Thread, pc[t] # "using", available # <<>>, Take(t)
        PROVE  Lease!LeaseNext
    BY <1>2, TakeImplements DEF Lease!LeaseNext
  <1>3. ASSUME NEW t \in Thread, Release(t) PROVE Lease!LeaseNext
    BY <1>3, ReleaseImplements DEF Lease!LeaseNext
  <1>4. ASSUME UNCHANGED <<poolVars, held>> PROVE UNCHANGED Lease!leaseVars
    BY <1>4 DEF Lease!leaseVars, poolVars
  <1>5. ASSUME NEW t \in Thread, GetConnection(t) \/ Deadline(t) \/ SpuriousWakeup(t) \/ Resume(t)
        PROVE  [Lease!LeaseNext]_(Lease!leaseVars)
    <2>1. CASE available # <<>> /\ pc[t] # "using" /\ Take(t)
      BY <1>2, <2>1
    <2>2. CASE UNCHANGED <<poolVars, held>>
      BY <1>4, <2>2
    <2> QED
      BY <1>5, <2>1, <2>2 DEF GetConnection, Deadline, SpuriousWakeup, Resume
  <1>6. CASE UNCHANGED vars
    BY <1>4, <1>6 DEF vars
  <1> QED
    BY <1>1, <1>3, <1>5, <1>6 DEF Next

(* RedisManager implements the leases it promises: connections go from free *)
(* to one user and back, and one of a replaced pool is never granted again. *)
THEOREM PoolImplementsLease == Spec => ImplementsLease
  <1>1. ImplementsLease <=> Lease!LeaseInit /\ [][Lease!LeaseNext]_(Lease!leaseVars)
    BY DEF ImplementsLease, Lease!LeaseSpec
  <1> QED
    BY <1>1, LeaseInitially, LeaseStep, PoolSafe, PTL DEF Spec
=============================================================================
