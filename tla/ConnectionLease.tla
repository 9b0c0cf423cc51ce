--------------------------- MODULE ConnectionLease ---------------------------
(***************************************************************************)
(* What RedisManager promises its users: a connection is used by at most   *)
(* one thread at a time, it may be granted only while it is free, and a    *)
(* connection of a pool that has been replaced is never granted again.     *)
(***************************************************************************)
EXTENDS Naturals

CONSTANTS Thread, NoConn, Sizes

VARIABLES free,    \* the connections that may be granted
          lease,   \* the connection of each thread
          epoch    \* the pool, a connection is <<epoch, index>>

leaseVars == <<free, lease, epoch>>

LeaseInit ==
    /\ free = {}
    /\ lease = [t \in Thread |-> NoConn]
    /\ epoch = 0

(* A new pool of n connections, none if n = 0.                             *)
Reset == \E n \in Sizes \cup {0} :
    /\ epoch' = epoch + 1
    /\ free' = {<<epoch + 1, i>> : i \in 1..n}
    /\ UNCHANGED lease

Grant(t) == \E c \in free :
    /\ lease[t] = NoConn
    /\ lease' = [lease EXCEPT ![t] = c]
    /\ free' = free \ {c}
    /\ UNCHANGED epoch

Return(t) ==
    /\ lease[t] # NoConn
    /\ lease' = [lease EXCEPT ![t] = NoConn]
    /\ free' = IF lease[t][1] = epoch THEN free \cup {lease[t]} ELSE free
    /\ UNCHANGED epoch

LeaseNext == Reset \/ \E t \in Thread : Grant(t) \/ Return(t)

LeaseSpec == LeaseInit /\ [][LeaseNext]_leaseVars
=============================================================================
