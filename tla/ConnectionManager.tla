---------------------------- MODULE ConnectionManager ----------------------------
(***************************************************************************)
(* The session registry of the gateway: the WebSocket sessions that        *)
(* WebSocketServer holds, the four Redis structures in which               *)
(* ConnectionManager records who is online and through which session, and  *)
(* the handlers of GatewayServer that keep the two in step.                *)
(*                                                                         *)
(* Redis executes one command at a time, but the code never uses MULTI, so *)
(* an operation of ConnectionManager is a sequence of commands that the    *)
(* operations of other threads interleave with.  Every command is one      *)
(* action here.  The threads are                                           *)
(*   - IO, the one thread of the io_context on which every accepted socket *)
(*     lives: connect handler, disconnect handler and perform_close run on *)
(*     it, one after the other; the calls that shut a stream down wait for *)
(*     the peer there, without a deadline;                                 *)
(*   - the workers of the thread pool, on which a message whose token is   *)
(*     refused removes its session from the registry.                      *)
(* The JSON value stored for a session is abstracted to the session id.    *)
(* Of the strings that clients choose, device id and platform, the model   *)
(* knows what the code compares: the field that joins the two, its part    *)
(* before the first ':', and which strings occur in it.                    *)
(***************************************************************************)
EXTENDS Naturals, FiniteSets

CONSTANTS
    Session,      \* session ids: generate_id never repeats one
    User, Device, Platform,
    Ident,        \* the identities that valid access tokens carry
    MultiDevice,  \* the platforms configured with enable_multi_device
    Field,        \* the strings that are fields of user:sessions
    FieldName,    \* FieldName[<<d, p>>] = d + ":" + p
    Stem,         \* Stem[f]: f up to its first ':'
    Within,       \* <<d, f>>: the string d occurs in the field f
    OnPlatform,   \* <<p, f>>: ":" + p occurs in the field f
    Worker,       \* thread-pool workers
    IO,           \* the io_context thread
    Empty,        \* the empty string: what HGETALL's map gives for a missing field
    NoSession, NoField,
    MaxFaults,    \* bound: Redis commands that fail
    MaxCrashes,   \* bound: crashes of the gateway process
    MaxRefused    \* bound: messages refused with AUTH_FAILED

Identity == [user : User, device : Device, platform : Platform]
FieldOf(id) == FieldName[<<id.device, id.platform>>]
Thread == Worker \cup {IO}

\* What session:user:{session} may hold: each of its fields, or not.
Entry == [user : User \cup {Empty}, device : Device \cup {Empty},
          platform : Platform \cup {Empty}]
NoId == [user |-> Empty, device |-> Empty, platform |-> Empty]

ASSUME IdentAssumption == Ident \subseteq Identity
ASSUME PlatformAssumption == MultiDevice \subseteq Platform
ASSUME StringAssumption ==
    /\ FieldName \in [Device \X Platform -> Field]
    /\ \A d \in Device, p \in Platform :
          <<d, FieldName[<<d, p>>]>> \in Within /\ <<p, FieldName[<<d, p>>]>> \in OnPlatform
ASSUME NullAssumption ==
    NoSession \notin Session /\ Empty \notin User /\ NoField \notin Field
ASSUME ThreadAssumption == IO \notin Worker
ASSUME BoundAssumption ==
    MaxFaults \in Nat /\ MaxCrashes \in Nat /\ MaxRefused \in Nat

VARIABLES
    phase,          \* life of a session's socket: see Phase
    ident,          \* the identity its token was verified for, or NoId
    sessions,       \* WebSocketServer::sessions_
    closing,        \* sessions with a posted perform_close
    delayed,        \* sessions whose 100 ms delayed close is in the thread pool
    timer,          \* sessions whose 30 s authentication timer runs
    refused,        \* sessions with a queued message that will be refused
    user_sessions,  \* Redis user:sessions:{user}: field -> session id
    user_platform,  \* Redis user:platform:{user}: set of fields
    session_user,   \* Redis session:user:{session}: see Entry
    online_users,   \* Redis online:users
    job,            \* the registry operation each thread is executing
    stopped,        \* WebSocketServer::stop has run
    faults, crashes, refusals    \* how often each bounded event happened

redis == <<user_sessions, user_platform, session_user, online_users>>
server == <<phase, ident, sessions, stopped>>
queues == <<closing, delayed, timer, refused>>
counts == <<faults, crashes, refusals>>
vars == <<server, queues, redis, job, counts>>

Phase == {"new", "handshake", "open", "closed"}

(***************************************************************************)
(* A thread's operation: the next command, the session it is about, the    *)
(* identity it works for, and for a removal the hash entry it read.        *)
(***************************************************************************)
AddSteps == {"kick", "hset", "sadd", "suser", "sdevice", "splatform", "online"}
RemoveSteps == {"lookup", "hgetall", "hdel", "srem", "del", "recheck", "offline"}
CloseSteps == {"shutdown", "abort"}

Job == [pc : AddSteps \cup RemoveSteps \cup CloseSteps \cup {"idle"},
        s  : Session \cup {NoSession},
        id : Entry,
        f  : Field \cup {NoField},
        v  : Session \cup {NoSession}]

Idle == [pc |-> "idle", s |-> NoSession, id |-> NoId, f |-> NoField, v |-> NoSession]
Begin(pc, s, id) == [pc |-> pc, s |-> s, id |-> id, f |-> NoField, v |-> NoSession]

Found(s, id, f, v) == [pc |-> "hdel", s |-> s, id |-> id, f |-> f, v |-> v]

TypeOK ==
    /\ phase \in [Session -> Phase]
    /\ ident \in [Session -> Ident \cup {NoId}]
    /\ sessions \subseteq Session
    /\ closing \subseteq Session
    /\ delayed \subseteq Session
    /\ timer \subseteq Session
    /\ refused \subseteq Session
    /\ user_sessions \in [User -> [Field -> Session \cup {NoSession}]]
    /\ user_platform \in [User -> SUBSET Field]
    /\ session_user \in [Session -> Entry]
    /\ online_users \subseteq User
    /\ job \in [Thread -> Job]
    /\ stopped \in BOOLEAN
    /\ faults \in 0..MaxFaults
    /\ crashes \in 0..MaxCrashes
    /\ refusals \in 0..MaxRefused

Init ==
    /\ phase = [s \in Session |-> "new"]
    /\ ident = [s \in Session |-> NoId]
    /\ sessions = {} /\ closing = {} /\ delayed = {} /\ timer = {} /\ refused = {}
    /\ user_sessions = [u \in User |-> [f \in Field |-> NoSession]]
    /\ user_platform = [u \in User |-> {}]
    /\ session_user = [s \in Session |-> NoId]
    /\ online_users = {}
    /\ job = [t \in Thread |-> Idle]
    /\ stopped = FALSE
    /\ faults = 0 /\ crashes = 0 /\ refusals = 0

At(t, pc) == job[t].pc = pc
Goto(t, pc) == job' = [job EXCEPT ![t].pc = pc]
Done(t) == job' = [job EXCEPT ![t] = Idle]

Fields(u) == {f \in Field : user_sessions[u][f] # NoSession}

(***************************************************************************)
(* A removal started by a worker ends with schedule_delayed_close: the     *)
(* removal never throws.  The disconnect handler just returns.             *)
(***************************************************************************)
EndRemoval(t) ==
    /\ Done(t)
    /\ delayed' = IF t = IO THEN delayed ELSE delayed \cup {job[t].s}

-----------------------------------------------------------------------------
(* The socket side: WebSocketServer and WebSocketSession. *)

\* do_accept: a socket is accepted while the acceptor is open.
Accept(s) ==
    /\ At(IO, "idle") /\ ~stopped
    /\ phase[s] = "new"
    /\ phase' = [phase EXCEPT ![s] = "handshake"]
    /\ UNCHANGED <<ident, sessions, stopped, queues, redis, job, counts>>

\* A handshake step fails: perform_close of a session that was never registered
\* shuts the TLS stream down.
HandshakeFails(s) ==
    /\ At(IO, "idle")
    /\ phase[s] = "handshake"
    /\ phase' = [phase EXCEPT ![s] = "closed"]
    /\ job' = [job EXCEPT ![IO] = Begin("abort", s, NoId)]
    /\ UNCHANGED <<ident, sessions, stopped, queues, redis, counts>>

\* Mutant of ConnectValid: a late accept completion registers a session that has
\* already been closed.
ConnectValidLate(s, id) ==
    /\ At(IO, "idle")
    /\ phase[s] \in {"handshake", "closed"}
    /\ phase' = [phase EXCEPT ![s] = "open"]
    /\ sessions' = sessions \cup {s}
    /\ ident' = [ident EXCEPT ![s] = id]
    /\ job' = [job EXCEPT ![IO] = Begin("kick", s, id)]
    /\ UNCHANGED <<stopped, queues, redis, counts>>

\* add_session, then on_websocket_connect with a token that verifies:
\* the thread goes on with add_connection.
ConnectValid(s, id) ==
    /\ At(IO, "idle")
    /\ phase[s] = "handshake"
    /\ phase' = [phase EXCEPT ![s] = "open"]
    /\ sessions' = sessions \cup {s}
    /\ ident' = [ident EXCEPT ![s] = id]
    /\ job' = [job EXCEPT ![IO] = Begin("kick", s, id)]
    /\ UNCHANGED <<stopped, queues, redis, counts>>

\* ... with a token that is refused: answer, and close after 100 ms.
ConnectRefused(s) ==
    /\ At(IO, "idle")
    /\ phase[s] = "handshake"
    /\ phase' = [phase EXCEPT ![s] = "open"]
    /\ sessions' = sessions \cup {s}
    /\ delayed' = delayed \cup {s}
    /\ UNCHANGED <<ident, stopped, closing, timer, refused, redis, job, counts>>

\* ... without a token: the 30 s timer is started.
ConnectAnonymous(s) ==
    /\ At(IO, "idle")
    /\ phase[s] = "handshake"
    /\ phase' = [phase EXCEPT ![s] = "open"]
    /\ sessions' = sessions \cup {s}
    /\ timer' = timer \cup {s}
    /\ UNCHANGED <<ident, stopped, closing, delayed, refused, redis, job, counts>>

\* A read or write error (peer gone, idle timeout): fail_and_close posts.
SocketFails(s) ==
    /\ At(IO, "idle") /\ phase[s] = "open"
    /\ closing' = closing \cup {s}
    /\ UNCHANGED <<server, delayed, timer, refused, redis, job, counts>>

\* The posted perform_close runs: only the first one does anything.  It waits for the
\* peer's close frame and close_notify, or for an error of the socket.
PerformClose(s) ==
    /\ At(IO, "idle")
    /\ s \in closing
    /\ closing' = closing \ {s}
    /\ \/ /\ phase[s] = "open"
          /\ phase' = [phase EXCEPT ![s] = "closed"]
          /\ job' = [job EXCEPT ![IO] = Begin("shutdown", s, NoId)]
       \/ /\ phase[s] # "open"
          /\ UNCHANGED <<phase, job>>
    /\ UNCHANGED <<ident, sessions, stopped, delayed, timer, refused, redis, counts>>

\* Mutant of CloseSocket: the disconnect handler is called only for a session that
\* sessions_ still holds.
CloseSocketIfHeld ==
    /\ At(IO, "shutdown")
    /\ sessions' = sessions \ {job[IO].s}
    /\ IF job[IO].s \in sessions THEN Goto(IO, "lookup") ELSE Done(IO)
    /\ UNCHANGED <<phase, ident, stopped, queues, redis, counts>>

\* The stream is shut down: perform_close closes the socket, erases the session from
\* sessions_ and calls the disconnect handler.
CloseSocket ==
    /\ At(IO, "shutdown")
    /\ sessions' = sessions \ {job[IO].s}
    /\ Goto(IO, "lookup")
    /\ UNCHANGED <<phase, ident, stopped, queues, redis, counts>>

\* ... of a session without a disconnect handler.
AbortSocket ==
    /\ At(IO, "abort")
    /\ Done(IO)
    /\ UNCHANGED <<server, queues, redis, counts>>

\* The thread-pool task of schedule_delayed_close: sleep, then post the close.
DelayedClose(s) ==
    /\ s \in delayed
    /\ delayed' = delayed \ {s}
    /\ closing' = closing \cup {s}
    /\ UNCHANGED <<server, timer, refused, redis, job, counts>>

\* is_session_authenticated: some online user has a hash entry with this session.
is_session_authenticated(s) ==
    \E u \in online_users : \E f \in Field : user_sessions[u][f] = s

\* The 30 s timer fires.  Its coroutine reads the captured session through the
\* closure it was called on, which was destroyed when the timer was scheduled:
\* the check and the close either happen for the session, or do not.
AuthTimeout(s) ==
    /\ s \in timer
    /\ timer' = timer \ {s}
    /\ \/ /\ ~is_session_authenticated(s)
          /\ delayed' = delayed \cup {s}
       \/ UNCHANGED delayed
    /\ UNCHANGED <<server, closing, refused, redis, job, counts>>

\* Mutant of Stop: the io_context is stopped with the closes still queued.
StopDropsQueue ==
    /\ At(IO, "idle") /\ ~stopped
    /\ stopped' = TRUE
    /\ sessions' = {}
    /\ closing' = {}
    /\ UNCHANGED <<phase, ident, delayed, timer, refused, redis, job, counts>>

\* WebSocketServer::stop: close the acceptor, forget and close every session.
Stop ==
    /\ At(IO, "idle") /\ ~stopped
    /\ stopped' = TRUE
    /\ sessions' = {}
    /\ closing' = closing \cup sessions
    /\ UNCHANGED <<phase, ident, delayed, timer, refused, redis, job, counts>>

-----------------------------------------------------------------------------
(* add_connection, on the IO thread. *)

\* check_and_kick_same_platform: one entry whose field contains the platform and not
\* the device id; its session is closed if this gateway holds it.
SamePlatform(u, d, p) ==
    {f \in Fields(u) : <<p, f>> \in OnPlatform /\ <<d, f>> \notin Within}

CheckAndKick ==
    LET id == job[IO].id
        others == SamePlatform(id.user, id.device, id.platform)
        Kicked(f) == user_sessions[id.user][f]
    IN /\ At(IO, "kick")
       /\ \/ /\ id.platform \notin MultiDevice
             /\ \E f \in others :
                   closing' = IF Kicked(f) \in sessions
                              THEN closing \cup {Kicked(f)} ELSE closing
          \/ /\ id.platform \in MultiDevice \/ others = {}
             /\ UNCHANGED closing
       /\ Goto(IO, "hset")
       /\ UNCHANGED <<server, delayed, timer, refused, redis, counts>>

\* Mutant of AddSession: the key of the hash lacks the user id.
AddSessionSharedKey ==
    LET id == job[IO].id
    IN /\ At(IO, "hset")
       /\ user_sessions' =
            [u \in User |-> [user_sessions[u] EXCEPT ![FieldOf(id)] = job[IO].s]]
       /\ Goto(IO, "sadd")
       /\ UNCHANGED <<server, queues, user_platform, session_user, online_users, counts>>

AddSession ==
    LET id == job[IO].id
    IN /\ At(IO, "hset")
       /\ user_sessions' =
            [user_sessions EXCEPT ![id.user][FieldOf(id)] = job[IO].s]
       /\ Goto(IO, "sadd")
       /\ UNCHANGED <<server, queues, user_platform, session_user, online_users, counts>>

AddPlatform ==
    LET id == job[IO].id
    IN /\ At(IO, "sadd")
       /\ user_platform' =
            [user_platform EXCEPT ![id.user] = @ \cup {FieldOf(id)}]
       /\ Goto(IO, "suser")
       /\ UNCHANGED <<server, queues, user_sessions, session_user, online_users, counts>>

\* The three HSETs of session:user:{session}.
AfterHset(next) ==
    /\ Goto(IO, next)
    /\ UNCHANGED <<server, queues, user_sessions, user_platform, online_users, counts>>

\* Mutant of AddUserId: user and device id are swapped.
AddUserIdSwapped ==
    /\ At(IO, "suser")
    /\ session_user' = [session_user EXCEPT ![job[IO].s].user = job[IO].id.device]
    /\ AfterHset("sdevice")

AddUserId ==
    /\ At(IO, "suser")
    /\ session_user' = [session_user EXCEPT ![job[IO].s].user = job[IO].id.user]
    /\ AfterHset("sdevice")

AddDeviceId ==
    /\ At(IO, "sdevice")
    /\ session_user' = [session_user EXCEPT ![job[IO].s].device = job[IO].id.device]
    /\ AfterHset("splatform")

AddPlatformName ==
    /\ At(IO, "splatform")
    /\ session_user' = [session_user EXCEPT ![job[IO].s].platform = job[IO].id.platform]
    /\ AfterHset("online")

AddOnline ==
    /\ At(IO, "online")
    /\ online_users' = online_users \cup {job[IO].id.user}
    /\ Done(IO)
    /\ UNCHANGED <<server, queues, user_sessions, user_platform, session_user, counts>>

-----------------------------------------------------------------------------
(* remove_connection, on any thread. *)

\* A worker refuses a queued message of s with AUTH_FAILED.
RefuseMessage(w, s) ==
    /\ At(w, "idle") /\ s \in refused
    /\ refused' = refused \ {s}
    /\ job' = [job EXCEPT ![w] = Begin("lookup", s, NoId)]
    /\ UNCHANGED <<server, closing, delayed, timer, redis, counts>>

\* A message that will be refused arrives: sessions read after their connect handler.
ReceiveBadMessage(s) ==
    /\ At(IO, "idle") /\ phase[s] = "open"
    /\ refusals < MaxRefused
    /\ refusals' = refusals + 1
    /\ refused' = refused \cup {s}
    /\ UNCHANGED <<server, closing, delayed, timer, redis, job, faults, crashes>>

\* remove_connection(session): HGETALL session:user:{session}; without a user id there
\* is nothing to remove.
LookupSession(t) ==
    /\ At(t, "lookup")
    /\ LET id == session_user[job[t].s]
       IN \/ /\ id.user # Empty
             /\ job' = [job EXCEPT ![t] = Begin("hgetall", job[t].s, id)]
             /\ UNCHANGED delayed
          \/ /\ id.user = Empty
             /\ EndRemoval(t)
    /\ UNCHANGED <<server, closing, timer, refused, redis, counts>>

\* remove_connection(user, device): the first entry, in hash order, whose field is the
\* device id up to its first ':'.
FetchEntries(t) ==
    LET id == job[t].id
        entries == {f \in Fields(id.user) : Stem[f] = id.device}
    IN /\ At(t, "hgetall")
       /\ \/ \E f \in entries :
                job' = [job EXCEPT ![t] = Found(job[t].s, id, f, user_sessions[id.user][f])]
          \/ entries = {} /\ Goto(t, "recheck")
       /\ UNCHANGED <<server, queues, redis, counts>>

RemoveEntry(t) ==
    /\ At(t, "hdel")
    /\ user_sessions' = [user_sessions EXCEPT ![job[t].id.user][job[t].f] = NoSession]
    /\ Goto(t, "srem")
    /\ UNCHANGED <<server, queues, user_platform, session_user, online_users, counts>>

RemovePlatform(t) ==
    /\ At(t, "srem")
    /\ user_platform' = [user_platform EXCEPT ![job[t].id.user] = @ \ {job[t].f}]
    /\ Goto(t, "del")
    /\ UNCHANGED <<server, queues, user_sessions, session_user, online_users, counts>>

RemoveSessionUser(t) ==
    /\ At(t, "del")
    /\ session_user' = [session_user EXCEPT ![job[t].v] = NoId]
    /\ Goto(t, "recheck")
    /\ UNCHANGED <<server, queues, user_sessions, user_platform, online_users, counts>>

\* Mutant of RecheckEntries: the user goes offline with any of its sessions.
RecheckNothing(t) ==
    /\ At(t, "recheck")
    /\ Goto(t, "offline")
    /\ UNCHANGED <<server, queues, redis, counts>>

\* The second HGETALL: does the user have any session left?
RecheckEntries(t) ==
    /\ At(t, "recheck")
    /\ \/ /\ Fields(job[t].id.user) = {}
          /\ Goto(t, "offline")
          /\ UNCHANGED delayed
       \/ /\ Fields(job[t].id.user) # {}
          /\ EndRemoval(t)
    /\ UNCHANGED <<server, closing, timer, refused, redis, counts>>

RemoveOnline(t) ==
    /\ At(t, "offline")
    /\ online_users' = online_users \ {job[t].id.user}
    /\ EndRemoval(t)
    /\ UNCHANGED <<server, closing, timer, refused, user_sessions, user_platform,
                   session_user, counts>>

-----------------------------------------------------------------------------
(* Failures. *)

\* A Redis command throws.  The kick's is caught inside and add_connection goes
\* on; elsewhere add_connection gives up, its caller closes the session after
\* 100 ms, and remove_connection gives up where it is.  If the command was executed
\* and only its reply is lost, that is the failure of the next command, except for
\* the last command of add_connection.
RedisFails(t) ==
    /\ faults < MaxFaults
    /\ faults' = faults + 1
    /\ \/ /\ At(t, "kick") /\ job[t].id.platform \notin MultiDevice
          /\ Goto(t, "hset")
          /\ UNCHANGED <<delayed, online_users>>
       \/ /\ job[t].pc \in AddSteps \ {"kick"}
          /\ Done(t)
          /\ delayed' = delayed \cup {job[t].s}
          /\ \/ UNCHANGED online_users
             \/ At(t, "online") /\ online_users' = online_users \cup {job[t].id.user}
       \/ /\ job[t].pc \in RemoveSteps
          /\ EndRemoval(t)
          /\ UNCHANGED online_users
    /\ UNCHANGED <<server, closing, timer, refused, user_sessions, user_platform,
                   session_user, crashes, refusals>>

\* The gateway process dies and is started again: sockets, queues and the
\* operations in progress are gone, Redis keeps what it holds.
Crash ==
    /\ crashes < MaxCrashes
    /\ crashes' = crashes + 1
    /\ phase' = [s \in Session |-> IF phase[s] = "new" THEN "new" ELSE "closed"]
    /\ sessions' = {} /\ closing' = {} /\ delayed' = {} /\ timer' = {} /\ refused' = {}
    /\ job' = [t \in Thread |-> Idle]
    /\ stopped' = FALSE
    /\ UNCHANGED <<ident, redis, faults, refusals>>

-----------------------------------------------------------------------------
AddConnection ==
    \/ CheckAndKick \/ AddSession \/ AddPlatform
    \/ AddUserId \/ AddDeviceId \/ AddPlatformName \/ AddOnline

RemoveConnection(t) ==
    \/ LookupSession(t) \/ FetchEntries(t) \/ RemoveEntry(t) \/ RemovePlatform(t)
    \/ RemoveSessionUser(t) \/ RecheckEntries(t) \/ RemoveOnline(t)

Connect(s) ==
    \/ \E id \in Ident : ConnectValid(s, id)
    \/ ConnectRefused(s)
    \/ ConnectAnonymous(s)

Next ==
    \/ \E s \in Session :
          \/ Accept(s) \/ HandshakeFails(s) \/ Connect(s) \/ SocketFails(s)
          \/ PerformClose(s) \/ DelayedClose(s) \/ AuthTimeout(s) \/ ReceiveBadMessage(s)
    \/ Stop \/ CloseSocket \/ AbortSocket
    \/ AddConnection
    \/ \E t \in Thread : RemoveConnection(t) \/ RedisFails(t)
    \/ \E w \in Worker, s \in Session : RefuseMessage(w, s)
    \/ Crash

Spec == Init /\ [][Next]_vars

\* The io_context thread keeps running its queue, and the thread pool the tasks
\* it was given: a scheduled close and a started operation go on.  When a peer lets
\* its stream be shut down (CloseSocket, AbortSocket) nothing in the code bounds.
Fairness ==
    /\ WF_vars(AddConnection)
    /\ \A t \in Thread : WF_vars(RemoveConnection(t))
    /\ \A s \in Session :
          /\ SF_vars(PerformClose(s))
          /\ WF_vars(DelayedClose(s))
          /\ WF_vars(AuthTimeout(s))
          /\ WF_vars(\E w \in Worker : RefuseMessage(w, s))

FairSpec == Spec /\ Fairness

-----------------------------------------------------------------------------
(* Properties. *)

Quiet == \A t \in Thread : At(t, "idle")

\* Every entry of user:sessions names a session whose token was verified for exactly
\* that user, device and platform, and session:user holds of a session only what its
\* token says: whatever threads interleave, and whichever commands of an addition or a
\* removal are carried out, a push for one user never selects a session of another, and
\* a removal never works on another user (add_connection, remove_connection).
RightOwner ==
    /\ \A u \in User, f \in Field :
          user_sessions[u][f] # NoSession =>
             LET id == ident[user_sessions[u][f]]
             IN id # NoId /\ id.user = u /\ FieldOf(id) = f
    /\ \A s \in Session :
          /\ session_user[s].user \in {Empty, ident[s].user}
          /\ session_user[s].device \in {Empty, ident[s].device}
          /\ session_user[s].platform \in {Empty, ident[s].platform}

\* The sessions that user:sessions still lists although they are closed and have
\* been through their disconnect handler.
Ghosts ==
    {s \in Session :
        /\ phase[s] = "closed" /\ job[IO].s # s
        /\ \E u \in User, f \in Field : user_sessions[u][f] = s}

\* The field of id, cut at its first ':', is its device id: the device id has no ':'.
Parses(id) == Stem[FieldOf(id)] = id.device

\* A user has no second field that the device id of a token could be taken for: a token
\* identifies one platform per device, and no device id starts with another and a ':'.
Unconfused ==
    \A i, j \in Ident :
       i.user = j.user /\ Stem[FieldOf(j)] = i.device => FieldOf(j) = FieldOf(i)

\* As long as the gateway has not crashed, the sessions of devices without a ':' in
\* their id that stay listed after their end are at most as many as the Redis commands
\* that failed: without a failure none does, although removals by the disconnect handler
\* and by workers interleave (remove_connection looks the entry up by device, not by
\* session).  (Device ids with a ':': NoGhosts below.)
GhostsBoundedByFaults ==
    crashes = 0 /\ Unconfused =>
       Cardinality({s \in Ghosts : Parses(ident[s])}) <= faults

\* Between operations of a gateway that suffered no failure, and in which only the io
\* thread has used the registry so far, the three views of who is online agree:
\* user:platform lists exactly the fields of user:sessions, and online:users exactly
\* the users with a field.  (With removals by workers: OnlineWhileBound below.)
ViewsAgree ==
    Quiet /\ faults = 0 /\ crashes = 0 /\ refusals = 0 =>
       /\ \A u \in User : user_platform[u] = Fields(u)
       /\ online_users = {u \in User : Fields(u) # {}}

\* A session that must be closed (refused token, refused message, failed bind,
\* kicked, socket error) is closed, and leaves sessions_, unless the io thread waits for
\* ever for a peer, this one's or another's, in the shutdown of its stream.
CloseCompletes ==
    \A s \in Session :
       []<>(job[IO].pc \notin CloseSteps) =>
          (s \in delayed \cup closing ~> phase[s] = "closed" /\ s \notin sessions)

\* A closed session does not come back to sessions_ or to user:sessions: its id is
\* never bound again.
ClosedStaysOut ==
    [][\A s \in Session : phase[s] = "closed" =>
          /\ phase'[s] = "closed" /\ (s \in sessions' => s \in sessions)
          /\ \A u \in User, f \in Field :
                user_sessions'[u][f] = s => user_sessions[u][f] = s]_vars

-----------------------------------------------------------------------------
(* Statements of the code's comments and documents that the code does not meet. *)

\* "the only criterion of authentication: whether the session is bound to a user in
\* ConnectionManager" (is_session_authenticated): an open session that was bound,
\* that nobody replaced and nobody refused, is bound.
BoundStaysBound ==
    Quiet =>
       \A s \in Session :
          /\ phase[s] = "open" /\ ident[s] # NoId
          /\ s \notin closing \cup delayed \cup refused
          /\ \A r \in Session \ {s} : phase[r] = "open" => ident[r] # ident[s]
          => is_session_authenticated(s)

\* "if the platform does not allow several devices, the old connection of the
\* platform is kicked" (check_and_kick_same_platform): once the closes it posted
\* have run, at most one session of a user is open on such a platform.
OneDevicePerPlatform ==
    Quiet /\ closing = {} =>
       \A r, s \in Session :
          /\ phase[r] = "open" /\ phase[s] = "open"
          /\ ident[r] # NoId /\ ident[s] # NoId
          /\ ident[r].user = ident[s].user
          /\ ident[r].platform = ident[s].platform
          /\ ident[r].platform \notin MultiDevice
          => ident[r].device = ident[s].device

\* "if the user has no session left, leave the global online set" (remove_connection):
\* a user who has one stays in it.
OnlineWhileBound ==
    Quiet => \A u \in User : Fields(u) # {} => u \in online_users

\* "deletes the session information of the user's device, with all the mappings
\* that belong to it" (remove_connection): no entry outlives its session.
NoGhosts == Ghosts = {}

\* "if still not authenticated, send a timeout notice and close the connection"
\* (schedule_unauthenticated_timeout).
TimeoutCloses ==
    \A s \in Session : s \in timer ~> phase[s] = "closed"
=============================================================================
