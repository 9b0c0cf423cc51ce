------------------------ MODULE ConnectionManagerProofs ------------------------
(***************************************************************************)
(* Proofs about ConnectionManager, for any sets of sessions, users,        *)
(* devices, platforms and workers and any number of failures:              *)
(*   - the type invariant;                                                 *)
(*   - RightOwner: the registry never lists a session under an identity    *)
(*     its token was not verified for, complete or in part;                *)
(*   - GhostsBoundedByFaults: a session that stays listed after its end is *)
(*     paid for by a Redis command that failed, or has a ':' in its device *)
(*     id;                                                                 *)
(*   - ViewsAgree: at rest the three views of the registry are in step;    *)
(*   - ClosedStaysOut: sessions_ does not take a closed session back.      *)
(* The invariants are not inductive: a removal works on values it read     *)
(* some steps ago, so the invariant also has to say what a thread in the   *)
(* middle of an operation may rely on (JobOK, Written, Halfway), and how    *)
(* far the views are apart in between (PlatformOK, OnlineOK).              *)
(***************************************************************************)
EXTENDS ConnectionManager, FiniteSetTheorems, TLAPS

\* What the local variables of a thread in the middle of an operation hold.
JobOK ==
    \A t \in Thread :
       /\ t # IO => job[t].pc \notin AddSteps \cup CloseSteps
       /\ job[t].pc = "idle" => job[t].s = NoSession
       /\ job[t].pc \in AddSteps =>
             /\ job[t].s \in Session /\ phase[job[t].s] = "open"
             /\ job[t].id \in Ident /\ job[t].id = ident[job[t].s]
       /\ job[t].pc \in RemoveSteps \cup CloseSteps => job[t].s \in Session
       /\ job[t].pc \in RemoveSteps \ {"lookup"} => job[t].id.user \in User
       /\ job[t].pc \in {"hdel", "srem", "del"} =>
             /\ job[t].v \in Session /\ ident[job[t].v] \in Ident
             /\ ident[job[t].v].user = job[t].id.user
             /\ FieldOf(ident[job[t].v]) = job[t].f

\* A session has an identity only from its connect handler on.
Fresh == \A s \in Session : phase[s] \in {"new", "handshake"} => ident[s] = NoId

\* user:sessions lists s (under the only entry that RightOwner allows).
Listed(s) == ident[s] # NoId /\ user_sessions[ident[s].user][FieldOf(ident[s])] = s

\* add_connection has not written s to user:sessions yet.
Unwritten(s) == job[IO].s = s /\ job[IO].pc \in {"kick", "hset"}

\* A session is listed, and read by a removal, only after it was written ...
Written ==
    /\ \A s \in Session : Listed(s) => ~Unwritten(s)
    /\ \A t \in Thread : job[t].pc \in {"hdel", "srem", "del"} => ~Unwritten(job[t].v)

\* ... and once a removal has deleted its entry, it is never listed again.
Unlisted ==
    \A t \in Thread : job[t].pc \in {"srem", "del"} => ~Listed(job[t].v)

\* Between the HSETs of user and device id a session that is still listed has the first.
Halfway ==
    job[IO].pc = "sdevice" /\ Listed(job[IO].s) =>
       session_user[job[IO].s].user = job[IO].id.user

Registry == TypeOK /\ JobOK /\ Fresh /\ RightOwner /\ Written /\ Unlisted /\ Halfway

\* add_connection has listed s and not yet written what a removal needs of session:user.
Adding(s) == job[IO].s = s /\ job[IO].pc \in {"sadd", "suser", "sdevice"}

\* A removal of s finds its user and its device in session:user.
Known(s) ==
    session_user[s].user = ident[s].user /\ session_user[s].device = ident[s].device

\* The disconnect handler is on its way to deleting the entry of s.
Removing(s) ==
    /\ job[IO].s = s
    /\ \/ job[IO].pc \in {"shutdown", "lookup"}
       \/ /\ job[IO].pc = "hgetall"
          /\ job[IO].id.user = ident[s].user /\ job[IO].id.device = ident[s].device
       \/ job[IO].pc = "hdel" /\ job[IO].v = s

\* The listed sessions whose entry no disconnect handler is going to delete.
Stranded ==
    {s \in Session :
        /\ Listed(s) /\ ~Adding(s) /\ Parses(ident[s])
        /\ ~Known(s) \/ (phase[s] = "closed" /\ ~Removing(s))}

StrandedBound ==
    crashes = 0 /\ Unconfused =>
       IsFiniteSet(Stranded) /\ Cardinality(Stranded) <= faults

Inv == Registry /\ StrandedBound
-----------------------------------------------------------------------------
(* The type invariant. *)

\* Threads: IO is one of them and is not a worker.
LEMMA Threads == IO \in Thread /\ \A w \in Worker : w \in Thread /\ w # IO
  BY ThreadAssumption DEF Thread

\* Identities and the empty one are entries of session:user; the empty one is none.
LEMMA Entries == Identity \subseteq Entry /\ NoId \in Entry /\ NoId \notin Identity
  BY NullAssumption DEF Identity, Entry, NoId

\* The fields of an identity, and its field in the hash, have their types.
LEMMA Parts == \A id \in Identity : id.user \in User /\ FieldOf(id) \in Field
  BY StringAssumption DEF Identity, FieldOf

\* The records that Begin and Idle build are jobs.
LEMMA JobRecords ==
    /\ Idle \in Job
    /\ \A s \in Session, id \in Entry :
          /\ Begin("kick", s, id) \in Job
          /\ Begin("shutdown", s, id) \in Job
          /\ Begin("abort", s, id) \in Job
          /\ Begin("lookup", s, id) \in Job
          /\ Begin("hgetall", s, id) \in Job
          /\ \A f \in Field, v \in Session : Found(s, id, f, v) \in Job
  BY Entries DEF Idle, Begin, Found, Job, AddSteps, RemoveSteps, CloseSteps

\* The initial state is well typed.
LEMMA InitType == Init => TypeOK
<1> SUFFICES ASSUME Init PROVE TypeOK
  OBVIOUS
<1>1. job \in [Thread -> Job]
  BY JobRecords DEF Init
<1>2. stopped \in BOOLEAN
  BY DEF Init
<1>3. /\ faults \in 0..MaxFaults
      /\ crashes \in 0..MaxCrashes
      /\ refusals \in 0..MaxRefused
  BY BoundAssumption DEF Init
<1>4. /\ phase \in [Session -> Phase]
      /\ ident \in [Session -> Ident \cup {NoId}]
      /\ session_user \in [Session -> Entry]
  BY Entries DEF Init, Phase
<1>5. /\ user_sessions \in [User -> [Field -> Session \cup {NoSession}]]
      /\ user_platform \in [User -> SUBSET Field]
  BY DEF Init
<1> QED
  BY <1>1, <1>2, <1>3, <1>4, <1>5 DEF Init, TypeOK

\* Moving on to another command, or finishing, leaves a well-typed job.
LEMMA JobSteps ==
    ASSUME job \in [Thread -> Job], NEW t \in Thread
    PROVE  /\ \A pc \in AddSteps \cup RemoveSteps : Goto(t, pc) => job' \in [Thread -> Job]
           /\ Done(t) => job' \in [Thread -> Job]
  BY JobRecords DEF Goto, Done, Job

\* Every step keeps the state well typed: a removal hands its session to the
\* delayed close, an addition its identity to Redis, so JobOK is needed.
LEMMA NextType == TypeOK /\ JobOK /\ [Next]_vars => TypeOK'
<1> SUFFICES ASSUME TypeOK, JobOK, [Next]_vars PROVE TypeOK'
  OBVIOUS
<1> USE Threads, IdentAssumption, Entries
<1>0. CASE UNCHANGED vars
  BY <1>0 DEF TypeOK, vars, server, queues, redis, counts
<1>1. ASSUME NEW s \in Session, Accept(s) PROVE TypeOK'
  BY <1>1 DEF TypeOK, Accept, server, queues, redis, counts, Phase
<1>2. ASSUME NEW s \in Session, HandshakeFails(s) PROVE TypeOK'
  BY <1>2, JobRecords DEF TypeOK, HandshakeFails, queues, redis, counts, Phase
<1>3. ASSUME NEW s \in Session, ConnectRefused(s) PROVE TypeOK'
  BY <1>3 DEF TypeOK, ConnectRefused, server, queues, redis, counts, Phase
<1>4. ASSUME NEW s \in Session, ConnectAnonymous(s) PROVE TypeOK'
  BY <1>4 DEF TypeOK, ConnectAnonymous, server, queues, redis, counts, Phase
<1>5. ASSUME NEW s \in Session, SocketFails(s) PROVE TypeOK'
  BY <1>5 DEF TypeOK, SocketFails, server, queues, redis, counts
<1>6. ASSUME NEW s \in Session, PerformClose(s) PROVE TypeOK'
  <2>1. job' \in [Thread -> Job]
    BY <1>6, JobRecords DEF TypeOK, PerformClose
  <2>2. phase' \in [Session -> Phase]
    BY <1>6 DEF TypeOK, PerformClose, Phase
  <2> QED
    BY <1>6, <2>1, <2>2 DEF TypeOK, PerformClose, redis, counts
<1>7. ASSUME NEW s \in Session, DelayedClose(s) PROVE TypeOK'
  BY <1>7 DEF TypeOK, DelayedClose, server, queues, redis, counts
<1>8. ASSUME NEW s \in Session, AuthTimeout(s) PROVE TypeOK'
  BY <1>8 DEF TypeOK, AuthTimeout, server, queues, redis, counts
<1>9. ASSUME NEW s \in Session, ReceiveBadMessage(s) PROVE TypeOK'
  BY <1>9, BoundAssumption DEF TypeOK, ReceiveBadMessage, server, queues, redis, counts
<1>10. ASSUME NEW s \in Session, NEW id \in Ident, ConnectValid(s, id) PROVE TypeOK'
  BY <1>10, JobRecords DEF TypeOK, ConnectValid, server, queues, redis, counts, Phase
<1>11. CASE Stop
  BY <1>11 DEF TypeOK, Stop, server, queues, redis, counts
<1>12. CASE CheckAndKick
  BY <1>12, JobRecords DEF TypeOK, CheckAndKick, server, queues, redis, counts, At, Goto, Done, Job, AddSteps
<1>13. CASE AddSession
  <2>1. job' \in [Thread -> Job]
    BY <1>13, JobSteps DEF AddSession, AddSteps, TypeOK
  <2>2. /\ job[IO].id \in Identity /\ FieldOf(job[IO].id) \in Field
        /\ job[IO].s \in Session
    BY <1>13, Parts DEF AddSession, At, JobOK, AddSteps
  <2>3. user_sessions' \in [User -> [Field -> Session \cup {NoSession}]]
    BY <1>13, <2>2, Parts DEF AddSession, TypeOK
  <2> QED
    BY <1>13, <2>1, <2>3 DEF AddSession, TypeOK, server, queues, counts
<1>14. CASE AddPlatform
  <2>1. job' \in [Thread -> Job]
    BY <1>14, JobSteps DEF AddPlatform, AddSteps, TypeOK
  <2>2. job[IO].id \in Identity /\ FieldOf(job[IO].id) \in Field
    BY <1>14, Parts DEF AddPlatform, At, JobOK, AddSteps
  <2>3. user_platform' \in [User -> SUBSET Field]
    BY <1>14, <2>2 DEF AddPlatform, TypeOK
  <2> QED
    BY <1>14, <2>1, <2>3 DEF AddPlatform, TypeOK, server, queues, counts
<1>15a. CASE AddUserId
  <2>1. job' \in [Thread -> Job]
    BY <1>15a, JobSteps DEF AddUserId, AfterHset, AddSteps, TypeOK
  <2>2. job[IO].id \in Identity /\ job[IO].s \in Session
    BY <1>15a DEF AddUserId, At, JobOK, AddSteps
  <2>3. [session_user[job[IO].s] EXCEPT !.user = job[IO].id.user] \in Entry
    BY <2>2 DEF TypeOK, Entry, Identity
  <2>4. session_user' \in [Session -> Entry]
    BY <1>15a, <2>2, <2>3 DEF AddUserId, TypeOK
  <2> QED
    BY <1>15a, <2>1, <2>4 DEF AddUserId, AfterHset, TypeOK, server, queues, counts
<1>15b. CASE AddDeviceId
  <2>1. job' \in [Thread -> Job]
    BY <1>15b, JobSteps DEF AddDeviceId, AfterHset, AddSteps, TypeOK
  <2>2. job[IO].id \in Identity /\ job[IO].s \in Session
    BY <1>15b DEF AddDeviceId, At, JobOK, AddSteps
  <2>3. [session_user[job[IO].s] EXCEPT !.device = job[IO].id.device] \in Entry
    BY <2>2 DEF TypeOK, Entry, Identity
  <2>4. session_user' \in [Session -> Entry]
    BY <1>15b, <2>2, <2>3 DEF AddDeviceId, TypeOK
  <2> QED
    BY <1>15b, <2>1, <2>4 DEF AddDeviceId, AfterHset, TypeOK, server, queues, counts
<1>15c. CASE AddPlatformName
  <2>1. job' \in [Thread -> Job]
    BY <1>15c, JobSteps DEF AddPlatformName, AfterHset, AddSteps, TypeOK
  <2>2. job[IO].id \in Identity /\ job[IO].s \in Session
    BY <1>15c DEF AddPlatformName, At, JobOK, AddSteps
  <2>3. [session_user[job[IO].s] EXCEPT !.platform = job[IO].id.platform] \in Entry
    BY <2>2 DEF TypeOK, Entry, Identity
  <2>4. session_user' \in [Session -> Entry]
    BY <1>15c, <2>2, <2>3 DEF AddPlatformName, TypeOK
  <2> QED
    BY <1>15c, <2>1, <2>4 DEF AddPlatformName, AfterHset, TypeOK, server, queues, counts
<1>16. CASE AddOnline
  <2>1. job' \in [Thread -> Job]
    BY <1>16, JobSteps DEF AddOnline, TypeOK
  <2>2. online_users' \subseteq User
    BY <1>16 DEF AddOnline, At, JobOK, AddSteps, Identity, TypeOK
  <2> QED
    BY <1>16, <2>1, <2>2 DEF AddOnline, TypeOK, server, queues, counts
<1>17. ASSUME NEW t \in Thread, LookupSession(t) PROVE TypeOK'
  <2>1. job[t].s \in Session
    BY <1>17 DEF LookupSession, At, JobOK, RemoveSteps
  <2>2. session_user[job[t].s] \in Entry
    BY <2>1 DEF TypeOK
  <2>3. job' \in [Thread -> Job]
    BY <1>17, <2>1, <2>2, JobSteps, JobRecords DEF LookupSession, EndRemoval, TypeOK
  <2>4. delayed' \subseteq Session
    BY <1>17, <2>1 DEF LookupSession, EndRemoval, TypeOK
  <2> QED
    BY <1>17, <2>3, <2>4 DEF LookupSession, TypeOK, server, redis, counts
<1>18. ASSUME NEW t \in Thread, FetchEntries(t) PROVE TypeOK'
  <2>1. job[t].id \in Entry /\ job[t].id.user \in User /\ job[t].s \in Session
    BY <1>18 DEF FetchEntries, At, JobOK, RemoveSteps, TypeOK, Job
  <2>2. \A f \in Fields(job[t].id.user) : f \in Field /\ user_sessions[job[t].id.user][f] \in Session
    BY <2>1 DEF Fields, TypeOK
  <2>3. job' \in [Thread -> Job]
    <3>1. CASE Goto(t, "recheck")
      BY <3>1, JobSteps DEF TypeOK, RemoveSteps
    <3>2. ASSUME NEW f \in Fields(job[t].id.user),
                 job' = [job EXCEPT ![t] = Found(job[t].s, job[t].id, f,
                                                 user_sessions[job[t].id.user][f])]
          PROVE  job' \in [Thread -> Job]
      BY <3>2, <2>2, <2>1, JobRecords DEF TypeOK
    <3> QED
      BY <1>18, <3>1, <3>2 DEF FetchEntries
  <2> QED
    BY <1>18, <2>3 DEF FetchEntries, TypeOK, server, queues, redis, counts
<1>19. ASSUME NEW t \in Thread, RemoveEntry(t) PROVE TypeOK'
  BY <1>19, JobRecords DEF TypeOK, RemoveEntry, server, queues, redis, counts, At, Goto, Done, EndRemoval, Job, RemoveSteps
<1>20. ASSUME NEW t \in Thread, RemovePlatform(t) PROVE TypeOK'
  BY <1>20, JobRecords DEF TypeOK, RemovePlatform, server, queues, redis, counts, At, Goto, Done, EndRemoval, Job, RemoveSteps
<1>21. ASSUME NEW t \in Thread, RemoveSessionUser(t) PROVE TypeOK'
  BY <1>21, JobRecords DEF TypeOK, RemoveSessionUser, server, queues, redis, counts, At, Goto, Done, EndRemoval, Job, RemoveSteps
<1>22. ASSUME NEW t \in Thread, RecheckEntries(t) PROVE TypeOK'
  <2>1. job' \in [Thread -> Job]
    BY <1>22, JobSteps DEF RecheckEntries, EndRemoval, RemoveSteps, TypeOK
  <2>2. delayed' \subseteq Session
    BY <1>22 DEF RecheckEntries, EndRemoval, At, JobOK, RemoveSteps, TypeOK
  <2> QED
    BY <1>22, <2>1, <2>2 DEF RecheckEntries, TypeOK, server, redis, counts
<1>23. ASSUME NEW t \in Thread, RemoveOnline(t) PROVE TypeOK'
  BY <1>23, JobRecords DEF TypeOK, JobOK, RemoveOnline, server, queues, redis, counts, At, Goto, Done, EndRemoval, Job, RemoveSteps
<1>24. ASSUME NEW t \in Thread, RedisFails(t) PROVE TypeOK'
  <2>1. job' \in [Thread -> Job]
    BY <1>24, JobSteps DEF RedisFails, EndRemoval, AddSteps, TypeOK
  <2>2. delayed' \subseteq Session
    BY <1>24 DEF RedisFails, EndRemoval, JobOK, TypeOK
  <2>3. faults' \in 0..MaxFaults
    BY <1>24, BoundAssumption DEF RedisFails, TypeOK
  <2>4. online_users' \subseteq User
    BY <1>24, IdentAssumption DEF RedisFails, At, AddSteps, JobOK, TypeOK, Identity
  <2> QED
    BY <1>24, <2>1, <2>2, <2>3, <2>4 DEF RedisFails, TypeOK, server
<1>25. ASSUME NEW w \in Worker, NEW s \in Session, RefuseMessage(w, s) PROVE TypeOK'
  BY <1>25, JobRecords DEF TypeOK, RefuseMessage, server, queues, redis, counts
<1>26. CASE Crash
  <2>1. job' \in [Thread -> Job]
    BY <1>26, JobRecords DEF Crash
  <2>2. phase' \in [Session -> Phase] /\ stopped' \in BOOLEAN
    BY <1>26 DEF Crash, TypeOK, Phase
  <2>3. crashes' \in 0..MaxCrashes
    BY <1>26, BoundAssumption DEF Crash, TypeOK
  <2> QED
    BY <1>26, <2>1, <2>2, <2>3 DEF Crash, TypeOK, redis
<1>27. CASE CloseSocket
  <2>1. job' \in [Thread -> Job]
    BY <1>27, JobSteps DEF CloseSocket, RemoveSteps, TypeOK
  <2> QED
    BY <1>27, <2>1 DEF CloseSocket, TypeOK, queues, redis, counts
<1>28. CASE AbortSocket
  <2>1. job' \in [Thread -> Job]
    BY <1>28, JobSteps DEF AbortSocket, TypeOK
  <2> QED
    BY <1>28, <2>1 DEF AbortSocket, TypeOK, server, queues, redis, counts
<1> QED
  BY <1>0, <1>1, <1>2, <1>3, <1>4, <1>5, <1>6, <1>7, <1>8, <1>9, <1>10, <1>11, <1>12, <1>13, <1>14, <1>15a, <1>15b, <1>15c, <1>16, <1>17, <1>18, <1>19, <1>20, <1>21, <1>22, <1>23, <1>24, <1>25, <1>26, <1>27, <1>28
  DEF Next, Connect, AddConnection, RemoveConnection
-----------------------------------------------------------------------------
(* The registry invariant. *)

\* A step that touches neither Redis, nor a thread's operation, nor the sessions
\* an addition works on.
LEMMA SocketStep ==
    ASSUME Registry, TypeOK', UNCHANGED <<ident, redis, job>>,
           job[IO].pc \in AddSteps => phase' = phase,
           \A s \in Session : phase'[s] \in {"new", "handshake"} =>
                               phase[s] \in {"new", "handshake"}
    PROVE  Registry'
<1>1. JobOK'
  BY Threads DEF Registry, JobOK
<1>2. Fresh'
  BY DEF Registry, Fresh
<1>3. RightOwner' /\ Written' /\ Unlisted' /\ Halfway'
  BY DEF Registry, RightOwner, Written, Unlisted, Halfway, Listed, Unwritten, redis
<1> QED
  BY <1>1, <1>2, <1>3 DEF Registry

\* A thread ends its operation.
LEMMA JobEnds ==
    ASSUME Registry, TypeOK', NEW t \in Thread, Done(t),
           UNCHANGED <<phase, ident, user_sessions, session_user>>
    PROVE  Registry'
<1> USE Threads DEF Done, Idle
<1>1. JobOK'
  BY DEF Registry, TypeOK, JobOK, AddSteps, RemoveSteps, CloseSteps
<1>2. Written' /\ Unlisted' /\ Halfway'
  BY DEF Registry, TypeOK, Written, Unlisted, Halfway, Listed, Unwritten
<1> QED
  BY <1>1, <1>2 DEF Registry, Fresh, RightOwner

\* A thread goes on to a command for which it needs nothing new.
LEMMA JobMoves ==
    ASSUME Registry, TypeOK', NEW t \in Thread, NEW pc, Goto(t, pc),
           <<job[t].pc, pc>> \in {<<"kick", "hset">>, <<"sadd", "suser">>,
                                 <<"hgetall", "recheck">>, <<"srem", "del">>,
                                 <<"recheck", "offline">>, <<"shutdown", "lookup">>},
           UNCHANGED <<phase, ident, user_sessions, session_user>>
    PROVE  Registry'
<1> USE Threads DEF Goto
<1>1. JobOK'
  BY DEF Registry, TypeOK, JobOK, AddSteps, RemoveSteps, CloseSteps, Job
<1>2. Written'
  BY DEF Registry, TypeOK, Written, Listed, Unwritten, Job
<1>3. Unlisted' /\ Halfway'
  BY DEF Registry, TypeOK, Unlisted, Halfway, Listed, Job
<1> QED
  BY <1>1, <1>2, <1>3 DEF Registry, Fresh, RightOwner

\* The io thread begins to shut a stream down.
LEMMA CloseBegins ==
    ASSUME Registry, TypeOK', UNCHANGED <<ident, redis>>, job[IO].pc = "idle",
           NEW s \in Session, NEW pc \in CloseSteps, job' = [job EXCEPT ![IO] = Begin(pc, s, NoId)],
           \A r \in Session : phase'[r] \in {"new", "handshake"} =>
                               phase[r] \in {"new", "handshake"}
    PROVE  Registry'
<1> USE Threads DEF Begin
<1>1. JobOK'
  BY DEF Registry, TypeOK, JobOK, AddSteps, RemoveSteps, CloseSteps
<1>2. Fresh'
  BY DEF Registry, Fresh
<1>3. RightOwner'
  BY DEF Registry, RightOwner, redis
<1>4. Written' /\ Unlisted' /\ Halfway'
  BY DEF Registry, TypeOK, CloseSteps, Written, Unlisted, Halfway, Listed, Unwritten, redis
<1> QED
  BY <1>1, <1>2, <1>3, <1>4 DEF Registry

\* Every step keeps the registry invariant.
LEMMA NextRegistry == Registry /\ [Next]_vars => Registry'
<1> SUFFICES ASSUME Registry, [Next]_vars PROVE Registry'
  OBVIOUS
<1> USE Threads, IdentAssumption, NullAssumption, Entries
<1>0. TypeOK'
  BY NextType DEF Registry
<1>1. CASE UNCHANGED vars
  BY <1>0, <1>1, SocketStep DEF vars, server
<1>2. ASSUME NEW s \in Session, Accept(s) PROVE Registry'
  BY <1>0, <1>2, SocketStep DEF Accept, At, AddSteps, server, Registry, TypeOK
<1>3. ASSUME NEW s \in Session, HandshakeFails(s) PROVE Registry'
  BY <1>0, <1>3, CloseBegins DEF HandshakeFails, At, CloseSteps, Registry, TypeOK
<1>4. ASSUME NEW s \in Session, ConnectRefused(s) PROVE Registry'
  BY <1>0, <1>4, SocketStep DEF ConnectRefused, At, AddSteps, server, Registry, TypeOK
<1>5. ASSUME NEW s \in Session, ConnectAnonymous(s) PROVE Registry'
  BY <1>0, <1>5, SocketStep DEF ConnectAnonymous, At, AddSteps, server, Registry, TypeOK
<1>6. ASSUME NEW s \in Session, SocketFails(s) PROVE Registry'
  BY <1>0, <1>6, SocketStep DEF SocketFails, At, AddSteps, server, Registry, TypeOK
<1>7. ASSUME NEW s \in Session, DelayedClose(s) PROVE Registry'
  BY <1>0, <1>7, SocketStep DEF DelayedClose, At, AddSteps, server, Registry, TypeOK
<1>8. ASSUME NEW s \in Session, AuthTimeout(s) PROVE Registry'
  BY <1>0, <1>8, SocketStep DEF AuthTimeout, At, AddSteps, server, Registry, TypeOK
<1>9. ASSUME NEW s \in Session, ReceiveBadMessage(s) PROVE Registry'
  BY <1>0, <1>9, SocketStep DEF ReceiveBadMessage, At, AddSteps, server, Registry, TypeOK
<1>10. CASE Stop
  BY <1>0, <1>10, SocketStep DEF Stop, At, AddSteps
<1>11. ASSUME NEW s \in Session, NEW id \in Ident, ConnectValid(s, id) PROVE Registry'
  <2>0. /\ ident[s] = NoId
        /\ \A u \in User, f \in Field : user_sessions[u][f] # s
        /\ \A t \in Thread : job[t].pc \in {"hdel", "srem", "del"} => job[t].v # s
    BY <1>11 DEF ConnectValid, Registry, Fresh, RightOwner, JobOK
  <2>1. JobOK'
    BY <1>11, <2>0 DEF ConnectValid, At, Begin, Registry, TypeOK, JobOK, AddSteps, RemoveSteps, CloseSteps
  <2>2. Fresh'
    BY <1>11 DEF ConnectValid, Registry, TypeOK, Fresh
  <2>3. RightOwner'
    <3>1. /\ session_user[s].user = Empty /\ session_user[s].device = Empty
          /\ session_user[s].platform = Empty
      BY <2>0 DEF Registry, RightOwner, NoId
    <3> QED
      BY <1>11, <2>0, <3>1 DEF ConnectValid, Registry, TypeOK, RightOwner, redis
  <2>4. Written'
    <3>1. ASSUME NEW r \in Session, Listed(r)' PROVE ~Unwritten(r)'
      <4>1. r # s
        BY <1>11, <2>0, <3>1, Parts DEF ConnectValid, Listed, redis, Registry, TypeOK
      <4> QED
        BY <1>11, <4>1 DEF ConnectValid, Unwritten, Begin, Registry, TypeOK
    <3>2. ASSUME NEW t \in Thread, (job[t].pc \in {"hdel", "srem", "del"})'
          PROVE  ~Unwritten(job[t].v)'
      BY <1>11, <2>0, <3>2 DEF ConnectValid, Unwritten, Begin, Registry, TypeOK
    <3> QED
      BY <3>1, <3>2 DEF Written
  <2>5. Unlisted'
    BY <1>11, <2>0 DEF ConnectValid, Begin, Registry, TypeOK, Unlisted, Listed, redis
  <2>6. Halfway'
    BY <1>11 DEF ConnectValid, Begin, Registry, TypeOK, Halfway
  <2> QED
    BY <1>0, <2>1, <2>2, <2>3, <2>4, <2>5, <2>6 DEF Registry
<1>12. ASSUME NEW s \in Session, PerformClose(s) PROVE Registry'
  <2>1. CASE phase[s] = "open"
    BY <1>0, <1>12, <2>1, CloseBegins DEF PerformClose, At, CloseSteps, Registry, TypeOK
  <2>2. CASE phase[s] # "open"
    BY <1>0, <1>12, <2>2, SocketStep DEF PerformClose, At, AddSteps
  <2> QED
    BY <2>1, <2>2
<1>13. CASE CheckAndKick
  BY <1>0, <1>13, JobMoves DEF CheckAndKick, At, server, redis
<1>14. CASE AddPlatform
  BY <1>0, <1>14, JobMoves DEF AddPlatform, At, server
<1>15. CASE AddSession
  <2>1. JobOK'
    BY <1>15 DEF AddSession, At, Goto, Registry, TypeOK, JobOK, Job, AddSteps, RemoveSteps, CloseSteps, server
  <2>2. Fresh'
    BY <1>15 DEF AddSession, Registry, Fresh, server
  <2>3. RightOwner'
    <3>1. /\ job[IO].s \in Session /\ job[IO].id \in Ident /\ job[IO].id = ident[job[IO].s]
          /\ job[IO].id # NoId
      BY <1>15 DEF AddSession, At, Registry, JobOK, AddSteps
    <3>2. /\ user_sessions' = [user_sessions EXCEPT ![job[IO].id.user][FieldOf(job[IO].id)] = job[IO].s]
          /\ UNCHANGED <<ident, session_user>>
      BY <1>15 DEF AddSession, server
    <3>3. \A u \in User, f \in Field :
             \/ user_sessions'[u][f] = user_sessions[u][f]
             \/ user_sessions'[u][f] = job[IO].s /\ u = job[IO].id.user /\ f = FieldOf(job[IO].id)
      BY <3>2 DEF Registry, TypeOK
    <3>4. ASSUME NEW u \in User, NEW f \in Field, user_sessions'[u][f] # NoSession
          PROVE  /\ ident[user_sessions'[u][f]] # NoId
                 /\ ident[user_sessions'[u][f]].user = u
                 /\ FieldOf(ident[user_sessions'[u][f]]) = f
      <4>1. CASE user_sessions'[u][f] = user_sessions[u][f]
        BY <3>4, <4>1 DEF Registry, RightOwner
      <4>2. CASE user_sessions'[u][f] = job[IO].s /\ u = job[IO].id.user /\ f = FieldOf(job[IO].id)
        BY <3>1, <4>2
      <4> QED
        BY <3>3, <4>1, <4>2
    <3> QED
      BY <3>2, <3>4 DEF Registry, RightOwner
  <2>4. Written'
    BY <1>15 DEF AddSession, At, Goto, Registry, TypeOK, JobOK, Written, Listed, Unwritten,
              Job, AddSteps, server
  <2>5. Unlisted'
    BY <1>15 DEF AddSession, At, Goto, Registry, TypeOK, JobOK, Written, Unlisted, Listed,
              Unwritten, Job, AddSteps, server
  <2>6. Halfway'
    BY <1>15 DEF AddSession, Goto, Registry, TypeOK, Job, Halfway
  <2> QED
    BY <1>0, <2>1, <2>2, <2>3, <2>4, <2>5, <2>6 DEF Registry
<1>16a. CASE AddUserId
  <2>1. JobOK'
    BY <1>16a DEF AddUserId, AfterHset, At, Goto, Registry, TypeOK, JobOK, Job, AddSteps, RemoveSteps, CloseSteps, server
  <2>2. Fresh'
    BY <1>16a DEF AddUserId, AfterHset, Registry, Fresh, server
  <2>3. RightOwner'
    <3>1. job[IO].s \in Session /\ job[IO].id = ident[job[IO].s]
      BY <1>16a DEF AddUserId, At, Registry, JobOK, AddSteps
    <3>2. /\ session_user'[job[IO].s] = [session_user[job[IO].s] EXCEPT !.user = job[IO].id.user]
          /\ \A r \in Session : r # job[IO].s => session_user'[r] = session_user[r]
          /\ session_user[job[IO].s] \in Entry
      BY <1>16a, <3>1 DEF AddUserId, Registry, TypeOK
    <3>3. UNCHANGED <<ident, user_sessions>>
      BY <1>16a DEF AddUserId, AfterHset, server
    <3> QED
      BY <3>1, <3>2, <3>3 DEF Registry, RightOwner, Entry
  <2>4. Written'
    BY <1>16a DEF AddUserId, AfterHset, At, Goto, Registry, TypeOK, Written, Listed, Unwritten, Job, server
  <2>5. Unlisted'
    BY <1>16a DEF AddUserId, AfterHset, Goto, Registry, TypeOK, Unlisted, Listed, Job, server
  <2>6. Halfway'
    BY <1>16a DEF AddUserId, AfterHset, At, Goto, Registry, TypeOK, JobOK, Job, AddSteps, Entry, Halfway
  <2> QED
    BY <1>0, <2>1, <2>2, <2>3, <2>4, <2>5, <2>6 DEF Registry
<1>16b. CASE AddDeviceId
  <2>1. JobOK'
    BY <1>16b DEF AddDeviceId, AfterHset, At, Goto, Registry, TypeOK, JobOK, Job, AddSteps, RemoveSteps, CloseSteps, server
  <2>2. Fresh'
    BY <1>16b DEF AddDeviceId, AfterHset, Registry, Fresh, server
  <2>3. RightOwner'
    <3>1. job[IO].s \in Session /\ job[IO].id = ident[job[IO].s]
      BY <1>16b DEF AddDeviceId, At, Registry, JobOK, AddSteps
    <3>2. /\ session_user'[job[IO].s] = [session_user[job[IO].s] EXCEPT !.device = job[IO].id.device]
          /\ \A r \in Session : r # job[IO].s => session_user'[r] = session_user[r]
          /\ session_user[job[IO].s] \in Entry
      BY <1>16b, <3>1 DEF AddDeviceId, Registry, TypeOK
    <3>3. UNCHANGED <<ident, user_sessions>>
      BY <1>16b DEF AddDeviceId, AfterHset, server
    <3> QED
      BY <3>1, <3>2, <3>3 DEF Registry, RightOwner, Entry
  <2>4. Written'
    BY <1>16b DEF AddDeviceId, AfterHset, At, Goto, Registry, TypeOK, Written, Listed, Unwritten, Job, server
  <2>5. Unlisted'
    BY <1>16b DEF AddDeviceId, AfterHset, Goto, Registry, TypeOK, Unlisted, Listed, Job, server
  <2>6. Halfway'
    BY <1>16b DEF AddDeviceId, AfterHset, At, Goto, Registry, TypeOK, JobOK, Job, AddSteps, Entry, Halfway
  <2> QED
    BY <1>0, <2>1, <2>2, <2>3, <2>4, <2>5, <2>6 DEF Registry
<1>16c. CASE AddPlatformName
  <2>1. JobOK'
    BY <1>16c DEF AddPlatformName, AfterHset, At, Goto, Registry, TypeOK, JobOK, Job, AddSteps, RemoveSteps, CloseSteps, server
  <2>2. Fresh'
    BY <1>16c DEF AddPlatformName, AfterHset, Registry, Fresh, server
  <2>3. RightOwner'
    <3>1. job[IO].s \in Session /\ job[IO].id = ident[job[IO].s]
      BY <1>16c DEF AddPlatformName, At, Registry, JobOK, AddSteps
    <3>2. /\ session_user'[job[IO].s] = [session_user[job[IO].s] EXCEPT !.platform = job[IO].id.platform]
          /\ \A r \in Session : r # job[IO].s => session_user'[r] = session_user[r]
          /\ session_user[job[IO].s] \in Entry
      BY <1>16c, <3>1 DEF AddPlatformName, Registry, TypeOK
    <3>3. UNCHANGED <<ident, user_sessions>>
      BY <1>16c DEF AddPlatformName, AfterHset, server
    <3> QED
      BY <3>1, <3>2, <3>3 DEF Registry, RightOwner, Entry
  <2>4. Written'
    BY <1>16c DEF AddPlatformName, AfterHset, At, Goto, Registry, TypeOK, Written, Listed, Unwritten, Job, server
  <2>5. Unlisted'
    BY <1>16c DEF AddPlatformName, AfterHset, Goto, Registry, TypeOK, Unlisted, Listed, Job, server
  <2>6. Halfway'
    BY <1>16c DEF AddPlatformName, AfterHset, At, Goto, Registry, TypeOK, JobOK, Job, AddSteps, Entry, Halfway
  <2> QED
    BY <1>0, <2>1, <2>2, <2>3, <2>4, <2>5, <2>6 DEF Registry
<1>17. CASE AddOnline
  BY <1>0, <1>17, JobEnds DEF AddOnline, server
<1>18. ASSUME NEW w \in Worker, NEW s \in Session, RefuseMessage(w, s) PROVE Registry'
  <2>1. JobOK'
    BY <1>18 DEF RefuseMessage, Begin, Registry, TypeOK, JobOK, AddSteps, RemoveSteps, CloseSteps, server
  <2>2. Fresh'
    BY <1>18 DEF RefuseMessage, Registry, Fresh, server
  <2>3. RightOwner'
    BY <1>18 DEF RefuseMessage, Registry, RightOwner, server, redis
  <2>4. Written'
    BY <1>18 DEF RefuseMessage, Begin, Registry, TypeOK, Written, Listed, Unwritten, server, redis
  <2>5. Unlisted'
    BY <1>18 DEF RefuseMessage, Begin, Registry, TypeOK, Unlisted, Listed, server, redis
  <2>6. Halfway'
    BY <1>18 DEF RefuseMessage, Registry, TypeOK, Halfway, Listed, server, redis
  <2> QED
    BY <1>0, <2>1, <2>2, <2>3, <2>4, <2>5, <2>6 DEF Registry
<1>19. ASSUME NEW t \in Thread, LookupSession(t) PROVE Registry'
  <2> DEFINE id == session_user[job[t].s]
  <2>1. CASE id.user = Empty
    BY <1>0, <1>19, <2>1, JobEnds DEF LookupSession, EndRemoval, server, redis
  <2>2. CASE id.user # Empty
    <3>1. id \in Entry /\ id.user \in User /\ job[t].s \in Session
      BY <1>19, <2>2 DEF LookupSession, At, Registry, TypeOK, JobOK, RemoveSteps, Entry
    <3>2. job' = [job EXCEPT ![t] = Begin("hgetall", job[t].s, id)]
      BY <1>19, <2>2 DEF LookupSession
    <3>3. JobOK'
      BY <1>19, <3>1, <3>2 DEF LookupSession, At, Begin, Registry, TypeOK, JobOK, AddSteps,
                            RemoveSteps, CloseSteps, server
    <3>4. Written' /\ Unlisted' /\ Halfway'
      BY <1>19, <3>2 DEF LookupSession, At, Begin, Registry, TypeOK, Written, Unlisted, Halfway, Listed,
                      Unwritten, server, redis
    <3> QED
      BY <1>0, <1>19, <3>3, <3>4 DEF LookupSession, Registry, Fresh, RightOwner, server, redis
  <2> QED
    BY <2>1, <2>2
<1>20. ASSUME NEW t \in Thread, FetchEntries(t) PROVE Registry'
  <2>1. CASE Goto(t, "recheck")
    BY <1>0, <1>20, <2>1, JobMoves DEF FetchEntries, At, server, redis
  <2>2. ASSUME NEW f \in Fields(job[t].id.user), Stem[f] = job[t].id.device,
               job' = [job EXCEPT ![t] = Found(job[t].s, job[t].id, f,
                                               user_sessions[job[t].id.user][f])]
        PROVE  Registry'
    <3> DEFINE v == user_sessions[job[t].id.user][f]
    <3>1. job[t].id.user \in User /\ job[t].s \in Session
      BY <1>20 DEF FetchEntries, At, Registry, JobOK, RemoveSteps
    <3>2. /\ v \in Session /\ ident[v] \in Ident /\ FieldOf(ident[v]) = f
          /\ ident[v].user = job[t].id.user
      BY <3>1, <2>2 DEF Fields, Registry, TypeOK, RightOwner
    <3>3. ~Unwritten(v)
      BY <3>2 DEF Registry, Written, Listed, RightOwner
    <3>4. JobOK'
      BY <1>20, <2>2, <3>1, <3>2 DEF FetchEntries, At, Found, Registry, TypeOK, JobOK, AddSteps,
                                  RemoveSteps, CloseSteps, server
    <3>5. Written'
      BY <1>20, <2>2, <3>3 DEF FetchEntries, Found, Registry, TypeOK, Written, Listed,
                            Unwritten, At, server, redis
    <3>6. Unlisted'
      BY <1>20, <2>2 DEF FetchEntries, Found, Registry, TypeOK, Unlisted, Listed, server, redis
    <3>7. Halfway'
      BY <1>20, <2>2 DEF FetchEntries, Found, Registry, TypeOK, Halfway, Listed, server, redis
    <3> QED
      BY <1>0, <1>20, <3>4, <3>5, <3>6, <3>7 DEF FetchEntries, Registry, Fresh, RightOwner, server, redis
  <2> QED
    BY <1>20, <2>1, <2>2 DEF FetchEntries
<1>21. ASSUME NEW t \in Thread, RemoveEntry(t) PROVE Registry'
  <2>1. JobOK'
    BY <1>21 DEF RemoveEntry, At, Goto, Registry, TypeOK, JobOK, Job, AddSteps, RemoveSteps, CloseSteps, server
  <2>2. Fresh'
    BY <1>21 DEF RemoveEntry, Registry, Fresh, server
  <2>3. RightOwner'
    BY <1>21 DEF RemoveEntry, Registry, TypeOK, RightOwner, server
  <2>4. Written'
    BY <1>21 DEF RemoveEntry, At, Goto, Registry, TypeOK, Written, Listed, Unwritten, Job, server
  <2>5. Unlisted'
    <3>1. /\ job[t].v \in Session /\ ident[job[t].v] \in Ident
          /\ ident[job[t].v].user = job[t].id.user
          /\ FieldOf(ident[job[t].v]) = job[t].f
      BY <1>21 DEF RemoveEntry, At, Registry, JobOK
    <3>4. job[t].id.user \in User /\ job[t].f \in Field
      BY <3>1, Parts
    <3>5. user_sessions'[job[t].id.user][job[t].f] = NoSession
      BY <1>21, <3>4 DEF RemoveEntry, Registry, TypeOK
    <3>6. job'[t].v = job[t].v /\ ident' = ident
      BY <1>21 DEF RemoveEntry, Goto, Registry, TypeOK, Job, server
    <3>2. ~Listed(job[t].v)'
      BY <3>1, <3>5, <3>6 DEF Listed
    <3>3. ASSUME NEW r \in Thread, r # t, (job[r].pc \in {"srem", "del"})'
          PROVE  ~Listed(job[r].v)'
      <4>1. job'[r] = job[r] /\ job[r].v \in Session /\ ~Listed(job[r].v)
        BY <1>21, <3>3 DEF RemoveEntry, Goto, Registry, TypeOK, JobOK, Unlisted
      <4> QED
        BY <1>21, <4>1 DEF RemoveEntry, Registry, TypeOK, Listed, server
    <3> QED
      BY <3>2, <3>3 DEF Unlisted
  <2>6. Halfway'
    <3>1. \A r \in Session : Listed(r)' => Listed(r)
      BY <1>21 DEF RemoveEntry, Registry, TypeOK, Listed, server
    <3>2. job'[IO].pc = "sdevice" => job'[IO] = job[IO] /\ job[IO].s \in Session
      BY <1>21 DEF RemoveEntry, Goto, Registry, TypeOK, Job, JobOK, AddSteps
    <3> QED
      BY <1>21, <3>1, <3>2 DEF RemoveEntry, Registry, Halfway
  <2> QED
    BY <1>0, <2>1, <2>2, <2>3, <2>4, <2>5, <2>6 DEF Registry
<1>22. ASSUME NEW t \in Thread, RemovePlatform(t) PROVE Registry'
  BY <1>0, <1>22, JobMoves DEF RemovePlatform, At, server
<1>23. ASSUME NEW t \in Thread, RemoveSessionUser(t) PROVE Registry'
  <2>1. JobOK'
    BY <1>23 DEF RemoveSessionUser, At, Goto, Registry, TypeOK, JobOK, Job, AddSteps, RemoveSteps,
              CloseSteps, server
  <2>2. Fresh'
    BY <1>23 DEF RemoveSessionUser, Registry, Fresh, server
  <2>3. RightOwner'
    BY <1>23 DEF RemoveSessionUser, NoId, Registry, TypeOK, RightOwner, server
  <2>4. Written'
    BY <1>23 DEF RemoveSessionUser, At, Goto, Registry, TypeOK, Written, Listed, Unwritten, Job,
              server
  <2>5. Unlisted'
    BY <1>23 DEF RemoveSessionUser, Goto, Registry, TypeOK, Unlisted, Listed, Job, server
  <2>6. Halfway'
    <3>1. ~Listed(job[t].v)
      BY <1>23 DEF RemoveSessionUser, At, Registry, Unlisted
    <3>2. job'[IO].pc = "sdevice" => job'[IO] = job[IO] /\ job[IO].s \in Session
      BY <1>23 DEF RemoveSessionUser, Goto, Registry, TypeOK, Job, JobOK, AddSteps
    <3> QED
      BY <1>23, <3>1, <3>2 DEF RemoveSessionUser, Registry, TypeOK, Halfway, Listed, server
  <2> QED
    BY <1>0, <2>1, <2>2, <2>3, <2>4, <2>5, <2>6 DEF Registry
<1>24. ASSUME NEW t \in Thread, RecheckEntries(t) PROVE Registry'
  BY <1>0, <1>24, JobMoves, JobEnds DEF RecheckEntries, EndRemoval, At, server, redis
<1>25. ASSUME NEW t \in Thread, RemoveOnline(t) PROVE Registry'
  BY <1>0, <1>25, JobEnds DEF RemoveOnline, EndRemoval, server
<1>26. ASSUME NEW t \in Thread, RedisFails(t) PROVE Registry'
  BY <1>0, <1>26, JobMoves, JobEnds DEF RedisFails, EndRemoval, At, server, redis
<1>27. CASE Crash
  <2>1. JobOK'
    BY <1>27 DEF Crash, Idle, JobOK, AddSteps, RemoveSteps, CloseSteps
  <2>2. Fresh'
    BY <1>27 DEF Crash, Registry, Fresh
  <2>3. RightOwner'
    BY <1>27 DEF Crash, Registry, RightOwner, redis
  <2>4. Written'
    BY <1>27 DEF Crash, Idle, Written, Unwritten
  <2>5. Unlisted' /\ Halfway'
    BY <1>27 DEF Crash, Idle, Unlisted, Halfway
  <2> QED
    BY <1>0, <2>1, <2>2, <2>3, <2>4, <2>5 DEF Registry
<1>28. CASE CloseSocket
  BY <1>0, <1>28, JobMoves DEF CloseSocket, At, redis
<1>29. CASE AbortSocket
  BY <1>0, <1>29, JobEnds DEF AbortSocket, server, redis
<1> QED
  BY <1>1, <1>2, <1>3, <1>4, <1>5, <1>6, <1>7, <1>8, <1>9, <1>10, <1>11, <1>12, <1>13, <1>14, <1>15, <1>16a, <1>16b, <1>16c, <1>28, <1>29, <1>17, <1>18, <1>19, <1>20, <1>21, <1>22, <1>23, <1>24, <1>25, <1>26, <1>27
  DEF Next, Connect, AddConnection, RemoveConnection
-----------------------------------------------------------------------------
(* Ghosts: how a session becomes stranded. *)

\* Nothing is stranded by a step that leaves the IO thread's operation alone, lists
\* nobody, and takes neither the session:user key nor the socket of a listed session.
LEMMA SameIO ==
    ASSUME job'[IO] = job[IO], ident' = ident, NEW r \in Session, r \in Stranded',
           Listed(r)' => Listed(r),
           Listed(r)' => session_user'[r] = session_user[r],
           Listed(r)' /\ phase'[r] = "closed" => phase[r] = "closed"
    PROVE  r \in Stranded
  BY DEF Stranded, Adding, Removing, Known

\* Nor by a step of the IO thread between commands that matter for nobody.
LEMMA OtherIO ==
    ASSUME NEW r \in Session, r \in Stranded',
           UNCHANGED <<phase, ident, user_sessions, session_user>>,
           ~Adding(r), ~Removing(r)
    PROVE  r \in Stranded
  BY DEF Stranded, Listed, Known

\* Nor when the io thread begins to shut down the stream of a session that is not listed.
LEMMA BeginsIO ==
    ASSUME NEW s \in Session, job[IO].s \notin Session, job'[IO].s = s,
           UNCHANGED <<ident, user_sessions, session_user>>,
           NEW r \in Session, r \in Stranded', r # s, phase'[r] = phase[r]
    PROVE  r \in Stranded
  BY DEF Stranded, Listed, Known, Adding, Removing

\* Without a failure no session becomes stranded; with one, at most the session the
\* IO thread was working on.
LEMMA StrandedStep ==
    ASSUME Registry, Registry', Unconfused, Next, crashes' = crashes
    PROVE  \/ faults' = faults /\ Stranded' \subseteq Stranded
           \/ faults' = faults + 1 /\ Stranded' \subseteq Stranded \cup {job[IO].s}
<1> USE Threads, IdentAssumption, NullAssumption, Entries
<1> DEFINE Safe == \A r \in Session : r \in Stranded' => r \in Stranded
<1>0. Safe => Stranded' \subseteq Stranded
  BY DEF Stranded
<1>1. ASSUME NEW s \in Session, Accept(s)
      PROVE  faults' = faults /\ Safe
  BY <1>1, SameIO DEF Accept, Registry, TypeOK, Fresh, Listed, redis, counts
<1>2. ASSUME NEW s \in Session, HandshakeFails(s)
      PROVE  faults' = faults /\ Safe
  <2> SUFFICES ASSUME NEW r \in Session, r \in Stranded' PROVE r \in Stranded
    BY <1>2 DEF HandshakeFails, counts
  <2>1. job[IO].s \notin Session /\ ident[s] = NoId
    BY <1>2 DEF HandshakeFails, At, Registry, JobOK, Fresh
  <2>2. job'[IO].s = s /\ \A q \in Session : q # s => phase'[q] = phase[q]
    BY <1>2 DEF HandshakeFails, Begin, Registry, TypeOK
  <2>3. r # s
    BY <1>2, <2>1 DEF HandshakeFails, Stranded, Listed
  <2> QED
    BY <1>2, <2>1, <2>2, <2>3, BeginsIO DEF HandshakeFails, redis
<1>3. ASSUME NEW s \in Session, ConnectRefused(s)
      PROVE  faults' = faults /\ Safe
  BY <1>3, SameIO DEF ConnectRefused, Registry, TypeOK, Fresh, Listed, redis, counts
<1>4. ASSUME NEW s \in Session, ConnectAnonymous(s)
      PROVE  faults' = faults /\ Safe
  BY <1>4, SameIO DEF ConnectAnonymous, Registry, TypeOK, Fresh, Listed, redis, counts
<1>5. ASSUME NEW s \in Session, SocketFails(s)
      PROVE  faults' = faults /\ Safe
  BY <1>5, SameIO DEF SocketFails, server, Listed, redis, counts
<1>6. ASSUME NEW s \in Session, DelayedClose(s)
      PROVE  faults' = faults /\ Safe
  BY <1>6, SameIO DEF DelayedClose, server, Listed, redis, counts
<1>7. ASSUME NEW s \in Session, AuthTimeout(s)
      PROVE  faults' = faults /\ Safe
  BY <1>7, SameIO DEF AuthTimeout, server, Listed, redis, counts
<1>8. ASSUME NEW s \in Session, ReceiveBadMessage(s)
      PROVE  faults' = faults /\ Safe
  BY <1>8, SameIO DEF ReceiveBadMessage, server, Listed, redis
<1>9. ASSUME Stop
      PROVE  faults' = faults /\ Safe
  BY <1>9, SameIO DEF Stop, Listed, redis, counts
<1>10. ASSUME NEW s \in Session, NEW id \in Ident, ConnectValid(s, id)
      PROVE  faults' = faults /\ Safe
  <2> SUFFICES ASSUME NEW r \in Session, r \in Stranded' PROVE r \in Stranded
    BY <1>10 DEF ConnectValid, counts
  <2>1. /\ \A u \in User, f \in Field : user_sessions[u][f] # s
        /\ job[IO].s = NoSession
    BY <1>10 DEF ConnectValid, At, Registry, Fresh, RightOwner, JobOK
  <2>2. r # s
    BY <1>10, <2>1, Parts DEF ConnectValid, Stranded, Listed, redis, Registry, TypeOK
  <2> QED
    BY <1>10, <2>1, <2>2 DEF ConnectValid, Stranded, Listed, Known, Adding, Removing, redis, Registry, TypeOK
<1>11. ASSUME NEW s \in Session, PerformClose(s)
      PROVE  faults' = faults /\ Safe
  <2> SUFFICES ASSUME NEW r \in Session, r \in Stranded' PROVE r \in Stranded
    BY <1>11 DEF PerformClose, counts
  <2>1. job[IO].s = NoSession
    BY <1>11 DEF PerformClose, At, Registry, JobOK
  <2>2. Listed(r) /\ UNCHANGED <<ident, session_user>> /\ Parses(ident[r])
    BY <1>11 DEF PerformClose, Stranded, Listed, redis
  <2>3. CASE r = s /\ phase[s] = "open"
    BY <1>11, <2>1, <2>2, <2>3 DEF PerformClose, Begin, Stranded, Known, Adding, Removing, Registry, TypeOK
  <2>4. CASE ~(r = s /\ phase[s] = "open")
    BY <1>11, <2>1, <2>2, <2>4 DEF PerformClose, Stranded, Known, Adding, Removing, Registry, TypeOK
  <2> QED
    BY <2>3, <2>4
<1>12. ASSUME CheckAndKick
      PROVE  faults' = faults /\ Safe
  <2>1. \A r \in Session : ~Adding(r) /\ ~Removing(r)
    BY <1>12 DEF CheckAndKick, At, Adding, Removing
  <2> QED
    BY <1>12, <2>1, OtherIO DEF CheckAndKick, server, redis, counts
<1>13. ASSUME AddSession
      PROVE  faults' = faults /\ Safe
  <2> SUFFICES ASSUME NEW r \in Session, r \in Stranded' PROVE r \in Stranded
    BY <1>13 DEF AddSession, counts
  <2>1. job[IO].id = ident[job[IO].s] /\ job[IO].id \in Ident /\ job[IO].s \in Session
    BY <1>13 DEF AddSession, At, Registry, JobOK, AddSteps
  <2>2. job'[IO].s = job[IO].s /\ job'[IO].pc = "sadd" /\ job[IO].pc = "hset"
    BY <1>13 DEF AddSession, At, Goto, Registry, TypeOK, Job
  <2>3. r # job[IO].s
    BY <2>2 DEF Stranded, Adding
  <2>4. Listed(r)
    BY <1>13, <2>1, <2>3 DEF AddSession, Stranded, Listed, Registry, TypeOK, server
  <2> QED
    BY <1>13, <2>2, <2>3, <2>4 DEF AddSession, Stranded, Known, Adding, Removing, server
<1>14. ASSUME AddPlatform
      PROVE  faults' = faults /\ Safe
  <2>1. job'[IO].s = job[IO].s /\ job'[IO].pc = "suser" /\ job[IO].pc = "sadd"
    BY <1>14 DEF AddPlatform, At, Goto, Registry, TypeOK, Job
  <2> QED
    BY <1>14, <2>1 DEF AddPlatform, Stranded, Listed, Known, Adding, Removing, server, counts
<1>15a. ASSUME AddUserId
      PROVE  faults' = faults /\ Safe
  <2> SUFFICES ASSUME NEW r \in Session, r \in Stranded' PROVE r \in Stranded
    BY <1>15a DEF AddUserId, AfterHset, counts
  <2>1. /\ job'[IO].s = job[IO].s /\ job[IO].pc = "suser" /\ job'[IO].pc = "sdevice"
        /\ UNCHANGED <<phase, ident, user_sessions>>
    BY <1>15a DEF AddUserId, AfterHset, At, Goto, Registry, TypeOK, Job, server
  <2>2. r # job[IO].s => session_user'[r] = session_user[r]
    BY <1>15a DEF AddUserId, Registry, TypeOK
  <2>3. r # job[IO].s => r \in Stranded
    BY <2>1, <2>2 DEF Stranded, Listed, Known, Adding, Removing
  <2>4. r # job[IO].s
    BY <2>1 DEF Stranded, Adding
  <2> QED
    BY <2>3, <2>4
<1>15b. ASSUME AddDeviceId
      PROVE  faults' = faults /\ Safe
  <2> SUFFICES ASSUME NEW r \in Session, r \in Stranded' PROVE r \in Stranded
    BY <1>15b DEF AddDeviceId, AfterHset, counts
  <2>1. /\ job'[IO].s = job[IO].s /\ job[IO].pc = "sdevice" /\ job'[IO].pc = "splatform"
        /\ UNCHANGED <<phase, ident, user_sessions>>
    BY <1>15b DEF AddDeviceId, AfterHset, At, Goto, Registry, TypeOK, Job, server
  <2>2. r # job[IO].s => session_user'[r] = session_user[r]
    BY <1>15b DEF AddDeviceId, Registry, TypeOK
  <2>3. r # job[IO].s => r \in Stranded
    BY <2>1, <2>2 DEF Stranded, Listed, Known, Adding, Removing
  <2>4. r # job[IO].s
    <3> SUFFICES ASSUME r = job[IO].s PROVE FALSE
      OBVIOUS
    <3>1. phase[r] = "open" /\ job[IO].id = ident[r] /\ session_user[r] \in Entry
      BY <2>1 DEF Registry, TypeOK, JobOK, AddSteps
    <3>2. session_user[r].user = ident[r].user
      BY <2>1, <3>1 DEF Registry, Halfway, Stranded, Listed
    <3>3. session_user'[r] = [session_user[r] EXCEPT !.device = ident[r].device]
      BY <1>15b, <3>1 DEF AddDeviceId, Registry, TypeOK
    <3>4. Known(r)'
      BY <2>1, <3>1, <3>2, <3>3 DEF Known, Entry
    <3> QED
      BY <2>1, <3>1, <3>4 DEF Stranded
  <2> QED
    BY <2>3, <2>4
<1>15c. ASSUME AddPlatformName
      PROVE  faults' = faults /\ Safe
  <2> SUFFICES ASSUME NEW r \in Session, r \in Stranded' PROVE r \in Stranded
    BY <1>15c DEF AddPlatformName, AfterHset, counts
  <2>1. /\ job'[IO].s = job[IO].s /\ job[IO].pc = "splatform" /\ job'[IO].pc = "online"
        /\ UNCHANGED <<phase, ident, user_sessions>>
    BY <1>15c DEF AddPlatformName, AfterHset, At, Goto, Registry, TypeOK, Job, server
  <2>2. r # job[IO].s => session_user'[r] = session_user[r]
    BY <1>15c DEF AddPlatformName, Registry, TypeOK
  <2>3. r # job[IO].s => r \in Stranded
    BY <2>1, <2>2 DEF Stranded, Listed, Known, Adding, Removing
  <2>4. r = job[IO].s => r \in Stranded
    <3> SUFFICES ASSUME r = job[IO].s PROVE r \in Stranded
      OBVIOUS
    <3>1. session_user'[r] = [session_user[r] EXCEPT !.platform = job[IO].id.platform]
      BY <1>15c DEF AddPlatformName, Registry, TypeOK
    <3>2. Known(r)' <=> Known(r)
      BY <2>1, <3>1 DEF Known, Entry, Registry, TypeOK
    <3> QED
      BY <2>1, <3>2 DEF Stranded, Listed, Adding, Removing
  <2> QED
    BY <2>3, <2>4
<1>16. ASSUME AddOnline
      PROVE  faults' = faults /\ Safe
  <2>1. \A r \in Session : ~Adding(r) /\ ~Removing(r)
    BY <1>16 DEF AddOnline, At, Adding, Removing
  <2> QED
    BY <1>16, <2>1, OtherIO DEF AddOnline, server, counts
<1>17. ASSUME NEW w \in Worker, NEW s \in Session, RefuseMessage(w, s)
      PROVE  faults' = faults /\ Safe
  <2>1. job'[IO] = job[IO]
    BY <1>17 DEF RefuseMessage, Registry, TypeOK
  <2> QED
    BY <1>17, <2>1, SameIO DEF RefuseMessage, Listed, server, redis, counts
<1>18. ASSUME NEW t \in Thread, LookupSession(t)
      PROVE  faults' = faults /\ Safe
  <2> SUFFICES ASSUME NEW r \in Session, r \in Stranded' PROVE r \in Stranded
    BY <1>18 DEF LookupSession, counts
  <2>1. CASE t # IO
    <3>1. job'[IO] = job[IO]
      BY <1>18, <2>1 DEF LookupSession, EndRemoval, Done, Registry, TypeOK
    <3> QED
      BY <1>18, <3>1, SameIO DEF LookupSession, Listed, server, redis
  <2>2. CASE t = IO /\ r # job[IO].s
    BY <1>18, <2>2, OtherIO DEF LookupSession, Adding, Removing, server, redis
  <2>3. CASE t = IO /\ r = job[IO].s
    <3>1. CASE ~Known(r)
      BY <1>18, <2>3, <3>1 DEF LookupSession, At, Stranded, Listed, Adding, server, redis
    <3>2. CASE Known(r)
      <4>1. session_user[r].user # Empty
        BY <1>18, <3>2, Parts DEF LookupSession, Known, Stranded, Listed, Registry, TypeOK, server
      <4>2. job'[IO] = Begin("hgetall", r, session_user[r])
        BY <1>18, <2>3, <4>1 DEF LookupSession, Registry, TypeOK
      <4> QED
        BY <1>18, <3>2, <4>2 DEF LookupSession, Begin, Stranded, Known, Removing, server, redis
    <3> QED
      BY <3>1, <3>2
  <2> QED
    BY <2>1, <2>2, <2>3
<1>19. ASSUME NEW t \in Thread, FetchEntries(t)
      PROVE  faults' = faults /\ Safe
  <2> SUFFICES ASSUME NEW r \in Session, r \in Stranded' PROVE r \in Stranded
    BY <1>19 DEF FetchEntries, counts
  <2>1. CASE t # IO
    <3>1. job'[IO] = job[IO]
      BY <1>19, <2>1 DEF FetchEntries, Goto, Registry, TypeOK
    <3> QED
      BY <1>19, <3>1, SameIO DEF FetchEntries, Listed, server, redis
  <2>2. CASE t = IO /\ ~Removing(r)
    BY <1>19, <2>2, OtherIO DEF FetchEntries, At, Adding, server, redis
  <2>3. CASE t = IO /\ Removing(r)
    <3>1. /\ job[IO].s = r /\ Listed(r) /\ Parses(ident[r])
          /\ job[IO].id.user = ident[r].user /\ job[IO].id.device = ident[r].device
      BY <1>19, <2>3 DEF FetchEntries, At, Removing, Stranded, Listed, server, redis
    <3>2. ident[r] \in Ident /\ ident[r].user \in User /\ FieldOf(ident[r]) \in Field
      BY <3>1, Parts DEF Listed, Registry, TypeOK
    <3>3. /\ FieldOf(ident[r]) \in Fields(ident[r].user)
          /\ Stem[FieldOf(ident[r])] = ident[r].device
      BY <3>1, <3>2 DEF Listed, Fields, Parses
    <3>4. PICK f \in Fields(ident[r].user) :
             /\ Stem[f] = ident[r].device
             /\ job' = [job EXCEPT ![IO] = Found(r, job[IO].id, f, user_sessions[ident[r].user][f])]
      BY <1>19, <2>3, <3>1, <3>3 DEF FetchEntries
    <3>5. f = FieldOf(ident[r])
      <4> DEFINE v == user_sessions[ident[r].user][f]
      <4>1. f \in Field /\ v \in Session
        BY <3>2, <3>4 DEF Fields, Registry, TypeOK
      <4>2. ident[v] \in Ident /\ ident[v].user = ident[r].user /\ FieldOf(ident[v]) = f
        BY <3>2, <3>4, <4>1 DEF Registry, TypeOK, RightOwner, Fields
      <4> QED
        BY <3>2, <3>4, <4>2 DEF Unconfused
    <3>6. Removing(r)'
      BY <3>1, <3>4, <3>5 DEF Removing, Found, Listed, Registry, TypeOK
    <3> QED
      BY <1>19, <2>3, <3>1, <3>6 DEF FetchEntries, At, Stranded, Known, Adding, server, redis
  <2> QED
    BY <2>1, <2>2, <2>3
<1>20. ASSUME NEW t \in Thread, RemoveEntry(t)
      PROVE  faults' = faults /\ Safe
  <2> SUFFICES ASSUME NEW r \in Session, r \in Stranded' PROVE r \in Stranded
    BY <1>20 DEF RemoveEntry, counts
  <2>1. Listed(r)
    BY <1>20 DEF RemoveEntry, Stranded, Listed, Registry, TypeOK, server
  <2>2. CASE t # IO
    <3>1. job'[IO] = job[IO]
      BY <1>20, <2>2 DEF RemoveEntry, Goto, Registry, TypeOK
    <3> QED
      BY <1>20, <2>1, <3>1, SameIO DEF RemoveEntry, server
  <2>3. CASE t = IO /\ job[IO].v = r
    <3>1. /\ ident[r] \in Ident /\ ident[r].user = job[IO].id.user
          /\ FieldOf(ident[r]) = job[IO].f
      BY <1>20, <2>3 DEF RemoveEntry, At, Registry, JobOK
    <3>2. ident[r].user \in User /\ FieldOf(ident[r]) \in Field
      BY <3>1, Parts
    <3>3. user_sessions'[ident[r].user][FieldOf(ident[r])] = NoSession
      BY <1>20, <2>3, <3>1, <3>2 DEF RemoveEntry, Registry, TypeOK
    <3> QED
      BY <1>20, <3>3 DEF RemoveEntry, Stranded, Listed, server
  <2>4. CASE t = IO /\ job[IO].v # r
    <3>1. ~Adding(r) /\ ~Removing(r)
      BY <1>20, <2>4 DEF RemoveEntry, At, Adding, Removing
    <3> QED
      BY <1>20, <2>1, <3>1 DEF RemoveEntry, Stranded, Known, server
  <2> QED
    BY <2>2, <2>3, <2>4
<1>21. ASSUME NEW t \in Thread, RemovePlatform(t)
      PROVE  faults' = faults /\ Safe
  <2>1. CASE t # IO
    <3>1. job'[IO] = job[IO]
      BY <1>21, <2>1 DEF RemovePlatform, Goto, Registry, TypeOK
    <3> QED
      BY <1>21, <3>1, SameIO DEF RemovePlatform, Listed, server, counts
  <2>2. CASE t = IO
    BY <1>21, <2>2, OtherIO DEF RemovePlatform, At, Adding, Removing, server, counts
  <2> QED
    BY <2>1, <2>2
<1>22. ASSUME NEW t \in Thread, RemoveSessionUser(t)
      PROVE  faults' = faults /\ Safe
  <2> SUFFICES ASSUME NEW r \in Session, r \in Stranded' PROVE r \in Stranded
    BY <1>22 DEF RemoveSessionUser, counts
  <2>1. Listed(r)
    BY <1>22 DEF RemoveSessionUser, Stranded, Listed, server
  <2>2. r # job[t].v
    BY <1>22, <2>1 DEF RemoveSessionUser, At, Registry, Unlisted
  <2>3. session_user'[r] = session_user[r]
    BY <1>22, <2>2 DEF RemoveSessionUser, Registry, TypeOK
  <2>4. CASE t # IO
    <3>1. job'[IO] = job[IO]
      BY <1>22, <2>4 DEF RemoveSessionUser, Goto, Registry, TypeOK
    <3> QED
      BY <1>22, <2>1, <2>3, <3>1, SameIO DEF RemoveSessionUser, server
  <2>5. CASE t = IO
    BY <1>22, <2>1, <2>3, <2>5 DEF RemoveSessionUser, At, Stranded, Known, Adding, Removing, server
  <2> QED
    BY <2>4, <2>5
<1>23. ASSUME NEW t \in Thread, RecheckEntries(t)
      PROVE  faults' = faults /\ Safe
  <2>1. CASE t # IO
    <3>1. job'[IO] = job[IO]
      BY <1>23, <2>1 DEF RecheckEntries, EndRemoval, Goto, Done, Registry, TypeOK
    <3> QED
      BY <1>23, <3>1, SameIO DEF RecheckEntries, Listed, server, redis, counts
  <2>2. CASE t = IO
    BY <1>23, <2>2, OtherIO DEF RecheckEntries, At, Adding, Removing, server, redis, counts
  <2> QED
    BY <2>1, <2>2
<1>24. ASSUME NEW t \in Thread, RemoveOnline(t)
      PROVE  faults' = faults /\ Safe
  <2>1. CASE t # IO
    <3>1. job'[IO] = job[IO]
      BY <1>24, <2>1 DEF RemoveOnline, EndRemoval, Done, Registry, TypeOK
    <3> QED
      BY <1>24, <3>1, SameIO DEF RemoveOnline, Listed, server, counts
  <2>2. CASE t = IO
    BY <1>24, <2>2, OtherIO DEF RemoveOnline, At, Adding, Removing, server, counts
  <2> QED
    BY <2>1, <2>2
<1>25. ASSUME NEW t \in Thread, RedisFails(t)
      PROVE  faults' = faults + 1 /\ \A r \in Session : r # job[IO].s /\ r \in Stranded' => r \in Stranded
  <2> SUFFICES ASSUME NEW r \in Session, r # job[IO].s, r \in Stranded' PROVE r \in Stranded
    BY <1>25 DEF RedisFails
  <2>1. CASE t # IO
    <3>1. job'[IO] = job[IO]
      BY <1>25, <2>1 DEF RedisFails, EndRemoval, Goto, Done, Registry, TypeOK
    <3> QED
      BY <1>25, <3>1, SameIO DEF RedisFails, Listed, server, redis
  <2>2. CASE t = IO
    BY <1>25, <2>2, OtherIO DEF RedisFails, Adding, Removing, server, redis
  <2> QED
    BY <2>1, <2>2
<1>26. Stranded' \subseteq Session
  BY DEF Stranded
<1>27. ~Crash
  BY DEF Crash, Registry, TypeOK
<1>28. ASSUME CloseSocket
       PROVE  faults' = faults /\ Safe
  <2>1. job'[IO].s = job[IO].s /\ job[IO].pc = "shutdown" /\ job'[IO].pc = "lookup"
    BY <1>28 DEF CloseSocket, At, Goto, Registry, TypeOK, Job
  <2> QED
    BY <1>28, <2>1 DEF CloseSocket, Stranded, Listed, Known, Adding, Removing, redis, counts
<1>29. ASSUME AbortSocket
       PROVE  faults' = faults /\ Safe
  <2>1. \A r \in Session : ~Adding(r) /\ ~Removing(r)
    BY <1>29 DEF AbortSocket, At, Adding, Removing
  <2> QED
    BY <1>29, <2>1, OtherIO DEF AbortSocket, server, redis, counts
<1> QED
  BY <1>0, <1>1, <1>2, <1>3, <1>4, <1>5, <1>6, <1>7, <1>8, <1>9, <1>10, <1>11, <1>12, <1>13, <1>14, <1>15a, <1>15b, <1>15c, <1>28, <1>29, <1>16, <1>17, <1>18, <1>19, <1>20, <1>21, <1>22, <1>23, <1>24, <1>25, <1>26, <1>27
  DEF Next, Connect, AddConnection, RemoveConnection
\* Crashes are only counted up.
LEMMA CrashesGrow == Next => crashes' \in {crashes, crashes + 1}
  BY DEF Next, Connect, AddConnection, RemoveConnection, Accept, HandshakeFails, ConnectValid,
         ConnectRefused, ConnectAnonymous, SocketFails, PerformClose, DelayedClose, AuthTimeout,
         ReceiveBadMessage, Stop, CheckAndKick, AddSession, AddPlatform, AddUserId,
         AddDeviceId, AddPlatformName, AfterHset, CloseSocket, AbortSocket, AddOnline, LookupSession, FetchEntries, RemoveEntry, RemovePlatform,
         RemoveSessionUser, RecheckEntries, RemoveOnline, RedisFails, RefuseMessage, Crash, counts
-----------------------------------------------------------------------------
(* Sessions that are closed stay out. *)

\* What a step may do to a closed session.
StaysOut(s) ==
    /\ phase'[s] = "closed" /\ (s \in sessions' => s \in sessions)
    /\ \A u \in User, f \in Field : user_sessions'[u][f] = s => user_sessions[u][f] = s

\* Every step keeps closed sessions out: only a handshake opens a session and adds it to
\* sessions_, and an addition works on an open one.
LEMMA OpenStep ==
    ASSUME Registry, [Next]_vars
    PROVE  \A s \in Session : phase[s] = "closed" => StaysOut(s)
<1> USE Threads
<1>1. phase \in [Session -> Phase] /\ sessions \subseteq Session
  BY DEF Registry, TypeOK
<1> DEFINE Good == \A s \in Session : phase[s] = "closed" => StaysOut(s)
<1>2. CASE UNCHANGED <<phase, sessions, user_sessions>>
  BY <1>1, <1>2 DEF StaysOut
<1>3. ASSUME NEW s \in Session, Accept(s) \/ HandshakeFails(s) \/ Connect(s) \/ PerformClose(s) PROVE Good
  BY <1>1, <1>3 DEF Accept, HandshakeFails, Connect, ConnectValid, ConnectRefused, ConnectAnonymous,
                    PerformClose, StaysOut, redis
<1>4. ASSUME NEW s \in Session, SocketFails(s) \/ DelayedClose(s) \/ AuthTimeout(s) \/ ReceiveBadMessage(s)
      PROVE  UNCHANGED <<phase, sessions, user_sessions>>
  BY <1>4 DEF SocketFails, DelayedClose, AuthTimeout, ReceiveBadMessage, server, redis
<1>5. CASE Stop
  BY <1>1, <1>5 DEF Stop, StaysOut, redis
<1>6. CASE CheckAndKick \/ AddPlatform \/ AddUserId \/ AddDeviceId \/ AddPlatformName \/ AddOnline \/ AbortSocket
  BY <1>2, <1>6 DEF CheckAndKick, AddPlatform, AddUserId, AddDeviceId, AddPlatformName, AfterHset, AddOnline,
                    AbortSocket, server, redis
<1>6a. CASE CloseSocket
  BY <1>1, <1>6a DEF CloseSocket, StaysOut, redis
<1>7. CASE AddSession
  <2>1. user_sessions \in [User -> [Field -> Session \cup {NoSession}]]
    BY DEF Registry, TypeOK
  <2>2. /\ user_sessions' = [user_sessions EXCEPT ![job[IO].id.user][FieldOf(job[IO].id)] = job[IO].s]
        /\ UNCHANGED <<phase, sessions>> /\ phase[job[IO].s] = "open"
    BY <1>7 DEF AddSession, At, AddSteps, Registry, JobOK, server
  <2>3. \A u \in User, f \in Field : user_sessions'[u][f] \in {user_sessions[u][f], job[IO].s}
    BY <2>1, <2>2
  <2> QED
    BY <1>1, <2>2, <2>3 DEF StaysOut
<1>8. ASSUME NEW t \in Thread, LookupSession(t) \/ FetchEntries(t) \/ RemovePlatform(t)
                               \/ RemoveSessionUser(t) \/ RecheckEntries(t) \/ RemoveOnline(t) \/ RedisFails(t)
      PROVE  UNCHANGED <<phase, sessions, user_sessions>>
  BY <1>8 DEF LookupSession, FetchEntries, RemovePlatform, RemoveSessionUser, RecheckEntries, RemoveOnline,
              RedisFails, server, redis
<1>9. ASSUME NEW t \in Thread, RemoveEntry(t) PROVE Good
  <2>1. user_sessions \in [User -> [Field -> Session \cup {NoSession}]]
    BY DEF Registry, TypeOK
  <2>2. /\ user_sessions' = [user_sessions EXCEPT ![job[t].id.user][job[t].f] = NoSession]
        /\ UNCHANGED <<phase, sessions>>
    BY <1>9 DEF RemoveEntry, server
  <2>3. \A u \in User, f \in Field : user_sessions'[u][f] \in {user_sessions[u][f], NoSession}
    BY <2>1, <2>2
  <2> QED
    BY <1>1, <2>2, <2>3, NullAssumption DEF StaysOut
<1>10. ASSUME NEW w \in Worker, NEW s \in Session, RefuseMessage(w, s)
       PROVE  UNCHANGED <<phase, sessions, user_sessions>>
  BY <1>10 DEF RefuseMessage, server, redis
<1>11. CASE Crash
  BY <1>1, <1>11 DEF Crash, StaysOut, redis
<1>12. CASE UNCHANGED vars
  BY <1>2, <1>12 DEF vars, server, redis
<1> QED
  BY <1>2, <1>3, <1>4, <1>5, <1>6, <1>6a, <1>7, <1>8, <1>9, <1>10, <1>11, <1>12
  DEF Next, AddConnection, RemoveConnection
-----------------------------------------------------------------------------
(* The views of who is online. *)

\* So far nothing failed and only the io thread has used the registry.
Solo == faults = 0 /\ crashes = 0 /\ refusals = 0

\* The io thread works for user u, and is at one of these commands.
InHand(u, pcs) == job[IO].pc \in pcs /\ job[IO].id.user = u

\* user:platform lags behind user:sessions by the field that is being written or removed.
PlatformOK(u) ==
    /\ InHand(u, {"sadd"}) => user_platform[u] \cup {FieldOf(job[IO].id)} = Fields(u)
    /\ InHand(u, {"srem"}) => user_platform[u] \ {job[IO].f} = Fields(u)
    /\ ~InHand(u, {"sadd", "srem"}) => user_platform[u] = Fields(u)

\* online:users lags behind for the user that an addition or a removal is about.
OnlineOK(u) ==
    /\ InHand(u, {"sadd", "suser", "sdevice", "splatform", "online"}) => Fields(u) # {}
    /\ InHand(u, {"srem", "del", "recheck", "offline"}) => (Fields(u) # {} => u \in online_users)
    /\ InHand(u, {"offline"}) => Fields(u) = {}
    /\ ~InHand(u, {"sadd", "suser", "sdevice", "splatform", "online",
                   "srem", "del", "recheck", "offline"}) =>
          (u \in online_users <=> Fields(u) # {})

Views ==
    Solo => /\ refused = {} /\ \A w \in Worker : job[w].pc = "idle"
            /\ \A u \in User : PlatformOK(u) /\ OnlineOK(u)

\* The commands before which the views agree.
Settled == {"idle", "kick", "hset", "shutdown", "abort", "lookup", "hgetall", "hdel"}

\* A step of the io thread that changes no view and begins or ends with the views settled.
LEMMA ViewsSettled ==
    ASSUME Registry, Views, Solo, NEW u \in User,
           UNCHANGED <<user_sessions, user_platform, online_users>>,
           job'[IO] = job[IO] \/ (job[IO].pc \in Settled /\ job'[IO].pc \in Settled)
    PROVE  (PlatformOK(u) /\ OnlineOK(u))'
<1>1. Fields(u)' = Fields(u) /\ user_platform' = user_platform /\ online_users' = online_users
  BY DEF Fields
<1>2. PlatformOK(u) /\ OnlineOK(u)
  BY DEF Views
<1> QED
  BY <1>1, <1>2 DEF PlatformOK, OnlineOK, InHand, Settled

\* Every step keeps the views as far apart as the command at hand explains.
LEMMA ViewsStep ==
    ASSUME Registry, Views, [Next]_vars
    PROVE  Views'
<1> USE Threads
<1>1. /\ job \in [Thread -> Job] /\ user_sessions \in [User -> [Field -> Session \cup {NoSession}]]
      /\ user_platform \in [User -> SUBSET Field] /\ faults \in Nat /\ crashes \in Nat /\ refusals \in Nat
  BY DEF Registry, TypeOK
<1> SUFFICES ASSUME Solo' PROVE /\ refused' = {} /\ \A w \in Worker : job'[w].pc = "idle"
                                /\ \A u \in User : (PlatformOK(u) /\ OnlineOK(u))'
  BY DEF Views
<1>2. /\ \A t \in Thread : ~RedisFails(t)
      /\ ~Crash /\ \A s \in Session : ~ReceiveBadMessage(s)
  BY <1>1 DEF Solo, RedisFails, Crash, ReceiveBadMessage
<1>3. Solo
  <2>1. ~(UNCHANGED vars) => UNCHANGED counts
    BY <1>2 DEF Next, Accept, HandshakeFails, Connect, ConnectValid, ConnectRefused, ConnectAnonymous, SocketFails,
         PerformClose, DelayedClose, AuthTimeout, Stop, AddConnection, CheckAndKick, AddSession, AddPlatform,
         AddUserId, AddDeviceId, AddPlatformName, AfterHset, CloseSocket, AbortSocket, AddOnline, RemoveConnection, LookupSession, FetchEntries, RemoveEntry, RemovePlatform,
         RemoveSessionUser, RecheckEntries, RemoveOnline, RefuseMessage
  <2> QED
    BY <2>1 DEF vars, counts, Solo
<1>4. refused = {} /\ (\A w \in Worker : job[w].pc = "idle") /\ \A u \in User : PlatformOK(u) /\ OnlineOK(u)
  BY <1>3 DEF Views
\* The workers stay idle.
<1>5. \A w \in Worker, s \in Session : ~RefuseMessage(w, s)
  BY <1>4 DEF RefuseMessage
<1>6. ASSUME NEW t \in Thread, RemoveConnection(t) PROVE t = IO
  <2>1. job[t].pc # "idle"
    BY <1>6 DEF RemoveConnection, LookupSession, FetchEntries, RemoveEntry, RemovePlatform,
                RemoveSessionUser, RecheckEntries, RemoveOnline, At
  <2> QED
    BY <1>4, <2>1 DEF Thread
<1>7. refused' = {}
  BY <1>2, <1>4, <1>5
  DEF Next, Accept, HandshakeFails, Connect, ConnectValid, ConnectRefused, ConnectAnonymous, SocketFails,
      PerformClose, DelayedClose, AuthTimeout, Stop, AddConnection, CheckAndKick, AddSession, AddPlatform,
      AddUserId, AddDeviceId, AddPlatformName, AfterHset, CloseSocket, AbortSocket, AddOnline, RemoveConnection, LookupSession, FetchEntries, RemoveEntry, RemovePlatform,
      RemoveSessionUser, RecheckEntries, RemoveOnline, queues, vars
<1>8. \A w \in Worker : job'[w] = job[w]
  BY <1>1, <1>2, <1>5, <1>6
  DEF Next, Accept, HandshakeFails, Connect, ConnectValid, ConnectRefused, ConnectAnonymous, SocketFails,
      PerformClose, DelayedClose, AuthTimeout, Stop, AddConnection, CheckAndKick, AddSession, AddPlatform,
      AddUserId, AddDeviceId, AddPlatformName, AfterHset, CloseSocket, AbortSocket, AddOnline, RemoveConnection, LookupSession, FetchEntries, RemoveEntry, RemovePlatform,
      RemoveSessionUser, RecheckEntries, RemoveOnline, EndRemoval, Goto, Done, vars
<1>9. ASSUME NEW u \in User PROVE (PlatformOK(u) /\ OnlineOK(u))'
  <2> DEFINE id == job[IO].id
             f == job[IO].f
  <2>1. PlatformOK(u) /\ OnlineOK(u) /\ job[IO] \in Job
    BY <1>1, <1>4
  <2>2. ASSUME NEW pc, Goto(IO, pc)
        PROVE  job'[IO].pc = pc /\ job'[IO].id = job[IO].id /\ job'[IO].f = job[IO].f
    BY <1>1, <2>1, <2>2 DEF Goto, Job
  <2>3. Done(IO) => job'[IO].pc = "idle"
    BY <1>1 DEF Done, Idle
  <2>4. CASE UNCHANGED vars
    BY <1>3, <2>4, ViewsSettled DEF vars, redis
  <2>5. ASSUME NEW s \in Session,
               Accept(s) \/ SocketFails(s) \/ DelayedClose(s) \/ AuthTimeout(s)
               \/ ConnectRefused(s) \/ ConnectAnonymous(s)
        PROVE  UNCHANGED <<redis, job>>
    BY <2>5 DEF Accept, SocketFails, DelayedClose, AuthTimeout, ConnectRefused, ConnectAnonymous
  <2>6. CASE UNCHANGED <<redis, job>>
    BY <1>3, <2>6, ViewsSettled DEF redis
  <2>7. ASSUME NEW s \in Session, NEW i \in Ident, ConnectValid(s, i) PROVE (PlatformOK(u) /\ OnlineOK(u))'
    <3>1. job[IO].pc = "idle" /\ job'[IO].pc = "kick" /\ UNCHANGED redis
      BY <1>1, <2>7 DEF ConnectValid, At, Begin
    <3> QED
      BY <1>3, <3>1, ViewsSettled DEF redis, Settled
  <2>8. ASSUME NEW s \in Session, PerformClose(s) \/ HandshakeFails(s) PROVE (PlatformOK(u) /\ OnlineOK(u))'
    <3>1. job[IO].pc = "idle" /\ (job' = job \/ job'[IO].pc \in CloseSteps) /\ UNCHANGED redis
      BY <1>1, <2>8 DEF PerformClose, HandshakeFails, At, Begin, CloseSteps
    <3> QED
      BY <1>3, <3>1, ViewsSettled DEF redis, CloseSteps, Settled
  <2>8a. CASE CloseSocket \/ AbortSocket
    <3>1. job[IO].pc \in CloseSteps /\ job'[IO].pc \in {"lookup", "idle"} /\ UNCHANGED redis
      BY <2>2, <2>3, <2>8a DEF CloseSocket, AbortSocket, At, CloseSteps
    <3> QED
      BY <1>3, <3>1, ViewsSettled DEF redis, CloseSteps, Settled
  <2>9. CASE Stop
    BY <2>6, <2>9 DEF Stop
  <2>10. CASE CheckAndKick
    <3>1. job[IO].pc = "kick" /\ job'[IO].pc = "hset" /\ UNCHANGED redis
      BY <2>2, <2>10 DEF CheckAndKick, At
    <3> QED
      BY <1>3, <3>1, ViewsSettled DEF redis, Settled
  <2>11. CASE AddSession
    <3>1. /\ job[IO].pc = "hset" /\ job'[IO].pc = "sadd" /\ job'[IO].id = id
          /\ user_sessions' = [user_sessions EXCEPT ![id.user][FieldOf(id)] = job[IO].s]
          /\ UNCHANGED <<user_platform, online_users>>
      BY <2>2, <2>11 DEF AddSession, At
    <3>2. id \in Identity /\ id.user \in User /\ FieldOf(id) \in Field /\ job[IO].s # NoSession
      BY <3>1, IdentAssumption, NullAssumption, Parts DEF Registry, JobOK, AddSteps
    <3>3. user_platform[u] = Fields(u) /\ (u \in online_users <=> Fields(u) # {})
      BY <2>1, <3>1 DEF PlatformOK, OnlineOK, InHand
    <3> HIDE DEF id
    <3>4. CASE u = id.user
      <4>1. Fields(u)' = Fields(u) \cup {FieldOf(id)}
        <5>1. \A g \in Field : user_sessions'[u][g] = IF g = FieldOf(id) THEN job[IO].s ELSE user_sessions[u][g]
          BY <1>1, <3>1, <3>2, <3>4
        <5> QED
          BY <3>2, <5>1 DEF Fields
      <4> QED
        BY <3>1, <3>3, <3>4, <4>1 DEF PlatformOK, OnlineOK, InHand
    <3>5. CASE u # id.user
      <4>1. Fields(u)' = Fields(u)
        BY <1>1, <3>1, <3>2, <3>5 DEF Fields
      <4> QED
        BY <3>1, <3>3, <3>5, <4>1 DEF PlatformOK, OnlineOK, InHand
    <3> QED
      BY <3>4, <3>5
  <2>12. CASE AddPlatform
    <3>1. /\ job[IO].pc = "sadd" /\ job'[IO].pc = "suser" /\ job'[IO].id = id
          /\ user_platform' = [user_platform EXCEPT ![id.user] = @ \cup {FieldOf(id)}]
          /\ UNCHANGED <<user_sessions, online_users>>
      BY <2>2, <2>12 DEF AddPlatform, At
    <3>2. Fields(u)' = Fields(u)
      BY <3>1 DEF Fields
    <3>3. user_platform'[u] = IF u = id.user THEN user_platform[u] \cup {FieldOf(id)} ELSE user_platform[u]
      BY <1>1, <3>1
    <3> QED
      BY <2>1, <3>1, <3>2, <3>3 DEF PlatformOK, OnlineOK, InHand
  <2>13. CASE AddUserId \/ AddDeviceId \/ AddPlatformName
    <3>1. /\ job[IO].pc \in {"suser", "sdevice", "splatform"} /\ job'[IO].id = id
          /\ job'[IO].pc \in {"sdevice", "splatform", "online"}
          /\ UNCHANGED <<user_platform, user_sessions, online_users>>
      BY <2>2, <2>13 DEF AddUserId, AddDeviceId, AddPlatformName, AfterHset, At
    <3>2. Fields(u)' = Fields(u)
      BY <3>1 DEF Fields
    <3> QED
      BY <2>1, <3>1, <3>2 DEF PlatformOK, OnlineOK, InHand
  <2>14. CASE AddOnline
    <3>1. /\ job[IO].pc = "online" /\ job'[IO].pc = "idle" /\ online_users' = online_users \cup {id.user}
          /\ UNCHANGED <<user_platform, user_sessions>>
      BY <2>3, <2>14 DEF AddOnline, At
    <3>2. Fields(u)' = Fields(u)
      BY <3>1 DEF Fields
    <3> QED
      BY <2>1, <3>1, <3>2 DEF PlatformOK, OnlineOK, InHand
  <2>15. CASE LookupSession(IO)
    <3>1. job[IO].pc = "lookup" /\ job'[IO].pc \in {"idle", "hgetall"} /\ UNCHANGED redis
      BY <1>1, <2>3, <2>15 DEF LookupSession, At, EndRemoval, Begin
    <3> QED
      BY <1>3, <3>1, ViewsSettled DEF redis, Settled
  <2>16. CASE FetchEntries(IO)
    <3>1. job[IO].pc = "hgetall" /\ UNCHANGED redis
      BY <2>16 DEF FetchEntries, At
    <3>2. CASE job'[IO].pc = "hdel"
      BY <1>3, <3>1, <3>2, ViewsSettled DEF redis, Settled
    <3>3. CASE job'[IO].pc = "recheck"
      <4>1. Fields(u)' = Fields(u) /\ UNCHANGED <<user_platform, online_users>>
        BY <3>1 DEF Fields, redis
      <4> QED
        BY <2>1, <3>1, <3>3, <4>1 DEF PlatformOK, OnlineOK, InHand
    <3>4. job'[IO].pc = "hdel" \/ job'[IO].pc = "recheck"
      BY <1>1, <2>2, <2>16 DEF FetchEntries, Found
    <3> QED
      BY <3>2, <3>3, <3>4
  <2>17. CASE RemoveEntry(IO)
    <3>1. /\ job[IO].pc = "hdel" /\ job'[IO].pc = "srem" /\ job'[IO].id = id /\ job'[IO].f = f
          /\ user_sessions' = [user_sessions EXCEPT ![id.user][f] = NoSession]
          /\ UNCHANGED <<user_platform, online_users>>
      BY <2>2, <2>17 DEF RemoveEntry, At
    <3>2. user_platform[u] = Fields(u) /\ (u \in online_users <=> Fields(u) # {})
      BY <2>1, <3>1 DEF PlatformOK, OnlineOK, InHand
    <3> HIDE DEF id, f
    <3>3. CASE u = id.user
      <4>1. Fields(u)' = Fields(u) \ {f}
        <5>1. \A g \in Field : user_sessions'[u][g] = IF g = f THEN NoSession ELSE user_sessions[u][g]
          BY <1>1, <3>1, <3>3
        <5> QED
          BY <5>1 DEF Fields
      <4> QED
        BY <3>1, <3>2, <3>3, <4>1 DEF PlatformOK, OnlineOK, InHand
    <3>4. CASE u # id.user
      <4>1. Fields(u)' = Fields(u)
        BY <1>1, <3>1, <3>4 DEF Fields
      <4> QED
        BY <3>1, <3>2, <3>4, <4>1 DEF PlatformOK, OnlineOK, InHand
    <3> QED
      BY <3>3, <3>4
  <2>18. CASE RemovePlatform(IO)
    <3>1. /\ job[IO].pc = "srem" /\ job'[IO].pc = "del" /\ job'[IO].id = id
          /\ user_platform' = [user_platform EXCEPT ![id.user] = @ \ {f}]
          /\ UNCHANGED <<user_sessions, online_users>>
      BY <2>2, <2>18 DEF RemovePlatform, At
    <3>2. Fields(u)' = Fields(u)
      BY <3>1 DEF Fields
    <3>3. user_platform'[u] = IF u = id.user THEN user_platform[u] \ {f} ELSE user_platform[u]
      BY <1>1, <3>1
    <3> QED
      BY <2>1, <3>1, <3>2, <3>3 DEF PlatformOK, OnlineOK, InHand
  <2>19. CASE RemoveSessionUser(IO)
    <3>1. /\ job[IO].pc = "del" /\ job'[IO].pc = "recheck" /\ job'[IO].id = id
          /\ UNCHANGED <<user_platform, user_sessions, online_users>>
      BY <2>2, <2>19 DEF RemoveSessionUser, At
    <3>2. Fields(u)' = Fields(u)
      BY <3>1 DEF Fields
    <3> QED
      BY <2>1, <3>1, <3>2 DEF PlatformOK, OnlineOK, InHand
  <2>20. CASE RecheckEntries(IO)
    <3>1. job[IO].pc = "recheck" /\ UNCHANGED <<user_platform, user_sessions, online_users>>
      BY <2>20 DEF RecheckEntries, At, redis
    <3>2. Fields(u)' = Fields(u)
      BY <3>1 DEF Fields
    <3>3. CASE Fields(id.user) = {} /\ Goto(IO, "offline")
      <4>1. job'[IO].pc = "offline" /\ job'[IO].id = id
        BY <2>2, <3>3
      <4> QED
        BY <2>1, <3>1, <3>2, <3>3, <4>1 DEF PlatformOK, OnlineOK, InHand
    <3>4. CASE Fields(id.user) # {} /\ Done(IO)
      <4>1. \E v \in User : v = id.user
        BY <3>1 DEF Registry, JobOK, RemoveSteps
      <4>2. id.user \in online_users
        <5>1. OnlineOK(id.user)
          BY <1>4, <4>1
        <5> QED
          BY <3>1, <3>4, <5>1 DEF OnlineOK, InHand
      <4>3. u = id.user => (u \in online_users /\ Fields(u) # {})
        BY <3>4, <4>2
      <4> QED
        BY <2>1, <2>3, <3>1, <3>2, <3>4, <4>3 DEF PlatformOK, OnlineOK, InHand
    <3> QED
      BY <2>20, <3>3, <3>4 DEF RecheckEntries, EndRemoval
  <2>21. CASE RemoveOnline(IO)
    <3>1. /\ job[IO].pc = "offline" /\ job'[IO].pc = "idle" /\ online_users' = online_users \ {id.user}
          /\ UNCHANGED <<user_platform, user_sessions>>
      BY <2>3, <2>21 DEF RemoveOnline, At, EndRemoval
    <3>2. Fields(u)' = Fields(u)
      BY <3>1 DEF Fields
    <3> QED
      BY <2>1, <3>1, <3>2 DEF PlatformOK, OnlineOK, InHand
  <2>22. CASE \E s \in Session : Connect(s)
    BY <2>5, <2>6, <2>7, <2>22 DEF Connect
  <2>23. CASE AddConnection
    BY <2>10, <2>11, <2>12, <2>13, <2>14, <2>23 DEF AddConnection
  <2>24. CASE \E t \in Thread : RemoveConnection(t)
    <3>1. RemoveConnection(IO)
      BY <1>6, <2>24
    <3> QED
      BY <2>15, <2>16, <2>17, <2>18, <2>19, <2>20, <2>21, <3>1 DEF RemoveConnection
  <2> QED
    BY <1>2, <1>5, <2>4, <2>5, <2>6, <2>8, <2>8a, <2>9, <2>22, <2>23, <2>24 DEF Next
<1> QED
  BY <1>4, <1>7, <1>8, <1>9
-----------------------------------------------------------------------------
(* The theorems. *)

\* The invariant holds initially: nothing is registered and no thread is busy.
LEMMA InitInv == Init => Inv
<1> SUFFICES ASSUME Init PROVE Inv
  OBVIOUS
<1>1. TypeOK
  BY InitType
<1>2. JobOK
  BY DEF Init, Idle, JobOK, AddSteps, RemoveSteps, CloseSteps
<1>3. Fresh /\ RightOwner /\ Written /\ Unlisted /\ Halfway
  BY Threads DEF Init, Idle, NoId, Fresh, RightOwner, Written, Unlisted, Halfway, Listed
<1>4. Stranded = {}
  BY DEF Init, Stranded, Listed
<1> QED
  BY <1>1, <1>2, <1>3, <1>4, FS_EmptySet DEF Inv, Registry, StrandedBound, Init

\* Every step keeps it.
LEMMA NextInv == Inv /\ [Next]_vars => Inv'
<1> SUFFICES ASSUME Inv, [Next]_vars PROVE Inv'
  OBVIOUS
<1>1. Registry'
  BY NextRegistry DEF Inv
<1>2. ASSUME crashes' = 0, Unconfused
      PROVE  IsFiniteSet(Stranded') /\ Cardinality(Stranded') <= faults'
  <2>1. CASE UNCHANGED vars
    <3>1. Stranded' = Stranded /\ faults' = faults /\ crashes' = crashes
      BY <2>1 DEF vars, server, redis, counts, Stranded, Listed, Known, Adding, Removing
    <3> QED
      BY <1>2, <3>1 DEF Inv, StrandedBound
  <2>2. CASE Next
    <3>1. crashes' = crashes /\ crashes = 0
      BY <1>2, <2>2, CrashesGrow DEF Inv, Registry, TypeOK
    <3>2. IsFiniteSet(Stranded) /\ Cardinality(Stranded) <= faults /\ faults \in Nat
      BY <1>2, <3>1 DEF Inv, StrandedBound, Registry, TypeOK
    <3>3. Cardinality(Stranded) \in Nat
      BY <3>2, FS_CardinalityType
    <3>4. CASE faults' = faults /\ Stranded' \subseteq Stranded
      <4>1. IsFiniteSet(Stranded') /\ Cardinality(Stranded') <= Cardinality(Stranded)
        BY <3>2, <3>4, FS_Subset
      <4>2. Cardinality(Stranded') \in Nat
        BY <4>1, FS_CardinalityType
      <4> QED
        BY <3>2, <3>3, <3>4, <4>1, <4>2
    <3>5. CASE faults' = faults + 1 /\ Stranded' \subseteq Stranded \cup {job[IO].s}
      <4> DEFINE S == Stranded \cup {job[IO].s}
      <4>1. /\ IsFiniteSet(S)
            /\ Cardinality(S) = Cardinality(Stranded) \/ Cardinality(S) = Cardinality(Stranded) + 1
        BY <3>2, FS_AddElement
      <4>2. IsFiniteSet(Stranded') /\ Cardinality(Stranded') <= Cardinality(S)
        BY <3>5, <4>1, FS_Subset
      <4>3. Cardinality(Stranded') \in Nat
        BY <4>2, FS_CardinalityType
      <4> QED
        BY <3>2, <3>3, <3>5, <4>1, <4>2, <4>3
    <3> QED
      BY <1>1, <1>2, <2>2, <3>1, <3>4, <3>5, StrandedStep DEF Inv
  <2> QED
    BY <2>1, <2>2
<1> QED
  BY <1>1, <1>2 DEF Inv, StrandedBound

\* The invariant is one of the specification.
LEMMA Invariance == Spec => []Inv
  BY InitInv, NextInv, PTL DEF Spec

\* The state stays well typed.
THEOREM TypeCorrect == Spec => []TypeOK
<1>1. Inv => TypeOK
  BY DEF Inv, Registry
<1> QED
  BY <1>1, Invariance, PTL

\* For any number of threads, failures and crashes, between any two commands, the registry
\* lists a session only under the identity its token was verified for, and session:user
\* holds nothing but parts of that identity (RightOwner).
THEOREM OwnerCorrect == Spec => []RightOwner
<1>1. Inv => RightOwner
  BY DEF Inv, Registry
<1> QED
  BY <1>1, Invariance, PTL

\* Without a crash, the sessions of devices without a ':' in their id that are listed
\* after their disconnect handler ended are at most as many as the Redis commands that
\* failed, whatever strings the clients choose, as long as no device id can be taken for
\* another field of its user (GhostsBoundedByFaults).
THEOREM GhostsBounded == Spec => []GhostsBoundedByFaults
<1>1. ASSUME Inv PROVE GhostsBoundedByFaults
  <2> DEFINE G == {s \in Ghosts : Parses(ident[s])}
  <2> SUFFICES ASSUME crashes = 0, Unconfused
               PROVE  Cardinality(G) <= faults
    BY DEF GhostsBoundedByFaults
  <2>1. ASSUME NEW s \in G PROVE s \in Stranded
    <3>1. s \in Session /\ phase[s] = "closed" /\ job[IO].s # s /\ Parses(ident[s])
      BY DEF Ghosts
    <3>2. PICK u \in User, f \in Field : user_sessions[u][f] = s
      BY DEF Ghosts
    <3>3. ident[s] # NoId /\ ident[s].user = u /\ FieldOf(ident[s]) = f
      BY <1>1, <3>1, <3>2, NullAssumption DEF Inv, Registry, RightOwner
    <3> QED
      BY <3>1, <3>2, <3>3 DEF Stranded, Listed, Adding, Removing
  <2>2. IsFiniteSet(Stranded) /\ Cardinality(Stranded) <= faults /\ faults \in Nat
    BY <1>1 DEF Inv, StrandedBound, Registry, TypeOK
  <2>3. IsFiniteSet(G) /\ Cardinality(G) <= Cardinality(Stranded)
    BY <2>1, <2>2, FS_Subset
  <2> QED
    BY <2>2, <2>3, FS_CardinalityType
<1> QED
  BY <1>1, Invariance, PTL

\* The invariant on the views holds as well.
LEMMA ViewsInvariance == Spec => []Views
<1>1. Init => Views
  <2> SUFFICES ASSUME Init PROVE Views
    OBVIOUS
  <2>1. \A u \in User : Fields(u) = {} /\ user_platform[u] = {} /\ u \notin online_users
    BY DEF Init, Fields
  <2>2. \A t \in Thread : job[t].pc = "idle"
    BY DEF Init, Idle
  <2> QED
    BY <2>1, <2>2, Threads DEF Init, Views, PlatformOK, OnlineOK, InHand
<1>2. Inv /\ Views /\ [Next]_vars => Views'
  BY ViewsStep DEF Inv
<1> QED
  BY <1>1, <1>2, Invariance, PTL DEF Spec

\* Between the operations of a gateway without failures and refused messages, user:platform
\* and online:users say exactly what user:sessions says (ViewsAgree).
THEOREM ViewsStayInStep == Spec => []ViewsAgree
<1>1. ASSUME Inv, Views PROVE ViewsAgree
  <2> SUFFICES ASSUME Quiet, Solo
               PROVE  /\ \A u \in User : user_platform[u] = Fields(u)
                      /\ online_users = {u \in User : Fields(u) # {}}
    BY DEF ViewsAgree, Solo
  <2>1. job[IO].pc = "idle" /\ online_users \subseteq User
    BY <1>1, Threads DEF Quiet, At, Inv, Registry, TypeOK
  <2>2. \A u \in User : PlatformOK(u) /\ OnlineOK(u)
    BY <1>1 DEF Views
  <2> QED
    BY <2>1, <2>2 DEF PlatformOK, OnlineOK, InHand
<1> QED
  BY <1>1, Invariance, ViewsInvariance, PTL

\* A closed session never comes back to sessions_ or to user:sessions, whatever crashes,
\* failures and late commands there are (ClosedStaysOut).
THEOREM ClosedForGood == Spec => ClosedStaysOut
<1>1. Inv /\ [Next]_vars =>
         [\A s \in Session : phase[s] = "closed" =>
             /\ phase'[s] = "closed" /\ (s \in sessions' => s \in sessions)
             /\ \A u \in User, f \in Field : user_sessions'[u][f] = s => user_sessions[u][f] = s]_vars
  BY OpenStep DEF Inv, StaysOut
<1> QED
  BY <1>1, Invariance, PTL DEF Spec, ClosedStaysOut
=============================================================================
