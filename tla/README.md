# MyChat: a TLA+ model of its sessions, messages, tokens, services and threads

MyChat is an instant messenger: a C++ gateway (WebSocket and HTTP) in front of
user, friend, group, message and push services, which are linked into the gateway
or run as gRPC servers, with PostgreSQL for messages and accounts and Redis for the
registry of sessions and for tokens. This directory models the parts in which
threads, sockets, remote calls and failures meet, checks them with TLC on small
instances and proves with TLAPS, for instances of any size, what matters most of the
session registry, the WebSocket sessions, message dispatch and delivery, the tokens,
the two pools, the TCP server, and the user, friend and group services.

Paths below are relative to the repository.

## 1. Inventory

| Component | State | Operations | Hard behaviour | Correct when |
|---|---|---|---|---|
| Session registry, `gateway/connection_manager` | Redis: `user:sessions:{u}` (hash, field `device:platform`), `user:platform:{u}`, `session:user:{s}`, `online:users` | `add_connection`, `remove_connection` by session and by device, `check_and_kick_same_platform`, queries | each operation is several Redis commands; io threads and workers run them at once; commands fail; a crash leaves Redis behind | entries name the right user; closed sessions leave; one device per exclusive platform; the views agree |
| Connection lifecycle, `gateway_server.cpp` 1960-2196 | timers, delayed closes | connect and disconnect handlers, bind, authentication timeout, delayed close, stop | timers and pool tasks race with the peer | what must close does |
| WebSocket sessions, `common/network/websocket_*.cpp` | `send_queue_`, `closed_`, `registered_`, `handshake_active_`; `sessions_`, `active_handshakes_` | accept, three handshake steps, read, write, send, close, stop | completions, posted sends and closes in one queue of handlers; closes that wait for the peer | messages in order, one write at a time, one disconnect per session, every failure closes as far as peers let it |
| Thread pool, `common/utils/thread_pool.*` | queue, shutdown flag, counter, threads | `Init`, `Enqueue`, `WorkerThread`, `Shutdown` | condition variable, notification outside the mutex, restart | tasks run once, in order, all of them |
| Message dispatch, `gateway_server.cpp` 1219-1344, `message_processor.cpp` | `ws_inflight_messages_` | handler, task, `process_message_sync` | counter shared by io threads and workers, failing `Enqueue`, pool tasks that submit tasks | limit, answers, places given back |
| Message delivery: `message_*`, `group_message_*`, `services/push`, `gateway/push` | `im_messages`, `im_group_messages`, send queues | send, push, mark, offline pull, read | store, push, mark and pull are separate steps in separate processes; deadlines | a stored message is received |
| Tokens, `gateway/auth` | Redis: `refresh_token:{rt}`, `user:{u}:refresh_tokens`, `revoked_access_token:{jti}` | generate, verify, refresh, revoke, unrevoke, delete | each operation is several commands; keys expire; commands fail or are repeated | what was revoked or deleted is refused, what is accepted expires |
| Users, friends, groups, `services/*` with their controllers, clients and gRPC servers | tables `users`, `im_friends`, groups, members, group messages | register, login, update; request, respond; create, join, leave, send | check and act in separate transactions; lost confirmations; deadlines of RPCs | answers are true, friends by consent, one owner, only members speak |
| Redis connections, `redis_mgr.cpp` | `available_`, counters, `generation_` | `initialize`, `get_connection`, release, `shutdown` | waiting with a deadline, a pool replaced under its users | one user per connection, no lost wakeup, every wait ends |
| TCP server, `common/network/tcp_*.cpp` | `send_queue_`, timers; `sessions_` and its mutex | send, write, heartbeat, read, timeout, close, accept, stop | parallel writes, timers against data, a callback under a mutex | frames whole and in order, silent peers go, stop ends |
| Codec, parser, router | none | encode, decode, route | formats | round trip |

Interactions: `WebSocketServer` calls the gateway's connect, disconnect and message
handlers in the io thread of a session; the handlers call `ConnectionManager` and put
tasks into the `ThreadPool`; a task calls a processor, which stores the message and
calls `PushNotifier`; the push runtime, in the gateway or in a server, asks the
registry for sessions and posts payloads to them. HTTP controllers call the user,
friend and group services in the gateway or over gRPC, with a token that
`MultiPlatformAuthManager` verified; it and the registry reach Redis through the pool of
`RedisManager`. The TCP server is not used by the gateway. `PROJECT.json` lists every
component with its status, and the hazards at their lines.

## 2. Modules

| Module | Models | Uses |
|---|---|---|
| `ConnectionManager` | the registry and the connection lifecycle around it | |
| `WebSocketSession` | sessions and their server, down to single handlers | |
| `MessageDelivery` | sending, pushing, pulling | |
| `TaskPool` | what the thread pool promises | |
| `ThreadPool` | the thread pool, which implements `TaskPool` | `TaskPool` |
| `MessageDispatch` | frames to tasks to answers | extends `TaskPool` |
| `AuthTokens` | access and refresh tokens over Redis keys | |
| `ServiceCall` | how a request reaches a service: local or remote, database errors, deadlines | |
| `UserService`, `FriendService`, `GroupService` | the three services with controllers, clients and gRPC servers | extend `ServiceCall`; friends and groups extend `UserService` |
| `Services` | the three over one database | extends them |
| `RedisPool` | the pool of Redis connections | `ConnectionLease` |
| `ConnectionLease` | what the pool promises, implemented by `RedisPool` | |
| `TcpServer` | TCP sessions and their server | |
| `MC*` | instances for TLC | |
| `ConnectionManagerProofs`, `WebSocketSessionProofs`, `MessageDeliveryProofs`, `MessageDispatchProofs`, `AuthTokensProofs`, `RedisPoolProofs`, `ServicesProofs` | the theorems about each, with their proofs | extend it |
| `CommonProofs` | the theorems about the thread pool and the TCP server | extends `ThreadPool`, `TcpServer` |

A definition that starts with "Mutant of" in its comment is a plausible bug, used to
show that a property can fail; no specification contains it.

### ConnectionManager

One thread `IO` runs the socket handlers, one at a time, and `add_connection` inside
the connect handler; `Worker` threads run `remove_connection` for messages whose
token is refused. `job[t]` is the operation thread `t` is in: every Redis command is a
step, the three HSETs of `session:user` included, so the operations of different threads,
failures and crashes fall between any two commands (the code's comment speaks of a
transaction; there is none). `RedisFails` lets the command at hand
throw; an executed command whose reply is lost is the failure of the next one.
`Crash` keeps Redis and loses the rest. `phase`, `sessions`, `closing`, `delayed`,
`timer`, `refused` are the sockets, `WebSocketServer::sessions_`, the posted closes, the
delayed closes in the pool, the timers and the queued messages that will be refused.
A close is two steps of `IO`: `PerformClose` (or `HandshakeFails`) ends at the calls that shut
the stream down, which wait for the peer, and `CloseSocket` (or `AbortSocket`) is what follows
once they return. Until then the thread does nothing else.

Device ids and platforms are strings that clients choose, which the code joins to a field
`device:platform`, cuts at the first `:` and searches with `find`. The constants `Field`,
`FieldName`, `Stem`, `Within` and `OnPlatform` are what the code can tell of them: the field
of a device and a platform, the part of a field before its first `:`, and which device ids
and platforms occur in which fields. `StringAssumption` asks only that joining is what it
is; a device id may contain a `:`, and then the `Stem` of its field is not the device id.
`Parses` is that it does not, `Unconfused` that no user has a second field whose stem is the
device id of one of the user's tokens. Sessions have fresh ids, so `Session` also bounds the
number of connections. With several io threads add operations would interleave as well;
removals by workers already show what that does.

### WebSocketSession

The handlers of a session run in one io thread: `ready[s]` is its queue of posted
handlers and completions, and each `Run...` action is one handler. The environment
completes an operation that is outstanding with success or an error (`Complete`).
`perform_close` is two steps: `PerformClose` up to the synchronous `ws_stream_.close` and
`ssl_stream.shutdown`, and `CloseSocket` once they have returned; in between the session is in
`shutting` and the io thread runs no other handler (`IoFree`). Whether they return is up to the
peer.
`undefined` marks a `pop_front` of an empty queue. `MaxQueue` is the limit of the send
queue (1024 in the code), `MaxSends`, `MaxReads`, `MaxCloses` bound the inputs, and peers
of sessions outside `Busy` stay silent.

### MessageDelivery

A direct message is a row of `im_messages`, a group message a row of
`im_group_messages`; ids come from separate sequences, so both have an id 1. A send
handler stores, reads back, calls `notify_user` and answers. `push[p][u]` is
`PushRuntime::notify_user` for payload `p` and user `u`; with `Remote` it goes on when the
RPC that started it reached its deadline, and its own calls can fail before or after
they took effect. A pull finds, marks one by one and answers. The WebSocket session is
reduced to `posted` and `received`. Faults (`MaxFaults`) and losses (`MaxLost`: a session
that closes on posted payloads, an answer that does not arrive) are counted apart,
since the first must be harmless and the second is where the code loses messages.
`MaxRows` bounds direct and group messages together.

### ThreadPool and TaskPool

A critical section is a step; `wait` releases the mutex and blocks in one step, wakes
for a notification or spuriously and tests again. `TaskPool` has one queue, a set of
running tasks and a flag for each of "has threads" and "accepts tasks". The mapping
takes `m_threads # {}` for `up` and `~m_shutdown` for `accepting`. Not modelled: calls of `Init`
from another thread while `Shutdown` joins.

### MessageDispatch

Extends `TaskPool` rather than `ThreadPool`: `pool_refines` justifies that. Each session
handles one frame at a time; `at[s]` is between `fetch_add` and the queue or the refusal.
The counter is a number modulo `Width`, as `size_t` is. `EnqueueThrows` has two outcomes:
before the guard exists, and after, when the guard and the catch block both subtract;
`doubles` counts those. The pool is up throughout: only the destructor at the end of the
process shuts it down, so `Enqueue` fails for want of memory alone. The removal of a
refused session from the registry is in `ConnectionManager` (`RefuseMessage`). The branch for a
missing message processor is not reachable after `init_server`.

### AuthTokens

Every Redis command of an operation is a step of the thread that `call[p]` describes;
between commands other threads run and the clock ticks, `Sub` ticks to a second, so that
lifetimes that the code rounds to seconds differ from the exact ones. A key is its flag
and its deadline: SET drops the deadline, EXPIRE sets it, `Tick` removes the key. The
metadata of a refresh token other than the flag never changes and is kept beside the key.
`RedisFails` lets a command throw, executed or not, and `CommandRepeats` executes it twice,
as `RedisClient::command` does when the reply is lost. `verify_access_token` changes nothing
and is a predicate. The set `user:{u}:refresh_tokens` is written and never read by the code.
The `history` variables record what clients were told.

### Services

A request occupies a slot from its arrival to its end; `pc` is the next transaction.
`Db` chooses the outcome of a transaction: done, failed, or committed with the confirmation
lost; a failed lookup looks like an absent row, as the repositories' `catch` blocks have it.
`remote` selects the gRPC path, on which `Deadline` answers the client for a request that goes
on. Unique indexes are guards of the inserts. The answer to a request is the HTTP status
the controller maps the error code to. `answers`, `upd`, `accepts`, `decisions`, `settled`, `told`
are history (`decisions` are the decisions on friend requests that were stored, `settled` those
stored while no other response to the row was between its lookup and its update); the field
`at` of a friend request and `member` of a message tell what was so when the request came.
`Mixes` bounds the kinds of requests that meet in one behaviour: those of one service,
and registrations with friend requests, whose target must exist.

### RedisPool and ConnectionLease

Every critical section of `mutex_` is a step; a waiting thread is asleep or woken, and
its deadline passes at any time. A connection is `<<generation, index>>`. Users keep
connections as long as they like. `ConnectionLease` has the free connections, the lease of
each thread and the number of the pool; the mapping forgets order, counters and waiting.

### TcpServer

`ops[s]` are the writes in progress on a socket, which takes a header or a body of the
first of them at a time (`WriteSome`); `peer[s]` is the reader at the other end, `ok` while
it sees whole frames in order. `slow[s]` records that the socket left a header waiting: from
then on the code is undefined, since the header was a local variable, and heartbeats may
land inside a message. `stop` and `stopper` are the progress of `stop()` and its thread,
`iowait` a handler that waits for `sessions_mutex_`. Sessions outside `Busy` send nothing. The
specification is `TcpSpec`, with `TcpInit`, `TcpNext` and `TcpTypeOK`, so that one module of
proofs can extend it together with `ThreadPool`.

## 3. Runs

Passing runs:

| Run | Checks | Instance |
|---|---|---|
| `registry_faults` | `TypeOK`, `RightOwner`, `GhostsBoundedByFaults`, `ClosedStaysOut` | 2 sessions of 2 users, the second's device id being the first's, a `:` and more, a worker, 2 failures, a crash; symmetric |
| `registry_close` | `ViewsAgree`, `CloseCompletes` | 2 sessions, 2 devices of one user, a worker, a refused message; fair |
| `session` | `SessionsTracked`, `SendsInOrder`, `WrittenOrClosed`, `ClosesInTheEnd` | 2 sessions, one with a silent peer; queue of 2, 3 sends, a read, a close, stop; fair |
| `delivery` | `MessagesKept`, `MarkedWhenHanded`, `PushedOnce`, `ReceivedUnlessLost` | 2 users, a device, 2 direct messages or a direct and a group one, pages of 1, remote push, a fault, a loss; fair |
| `pool_refines` | `TasksCounted`, `WorkConserving`, `ImplementsTaskPool` | 2 workers, 2 clients, 3 tasks, 2 starts; fair |
| `dispatch_live` | `InflightBounded`, `KnownAnswered`, `BusyOnlyAtLimit`, `TasksConclude` | 2 sessions, 3 messages, limit 1, 1 worker, 2 faults; fair |
| `auth_tokens` | `RevokedAccessRefused`, `RefreshRefused`, `AcceptedExpires`, `TokensKept` | 2 threads, a login and 2 more operations, 2 s lifetimes of 3 ticks a second, a fault; symmetric |
| `services` | `TablesConsistent`, `AnswersTrue`, `LostOnlyByOverlap`, `FriendsByConsent`, `DecisionsHold`, `MessagesTrue`, `ReverseRefused` | 3 requests, 2 at a time, 3 accounts, a pending request and a group at the start, local and remote, a database error, a deadline; symmetric |
| `redis_pool` | `PoolConsistent`, `ExclusiveUse`, `NoLostWakeup`, `GetEnds`, `ImplementsLease` | 4 threads, pools of 1 or 2, 3 initialisations or shutdowns; fair |
| `tcp_server` | `ServerConsistent`, `SendsWhole`, `NothingLingers` | 2 sessions, 3 sends to one of them, queue of 2, a heartbeat, a message in, stop on either thread; fair |

Several of these are conjunctions of parts that are named and explained in the modules;
one part is usually the module's `TypeOK` (`TcpTypeOK` in `TcpServer`):

| Property | Parts besides `TypeOK` |
|---|---|
| `SessionsTracked` | `HandshakesCounted`, `DisconnectedOnce` |
| `SendsInOrder` | `InOrder`, `WireIncreases`, `PopsItsMessage` |
| `MessagesKept` | `NoSilentLoss` |
| `TasksCounted` | `CountExact` |
| `InflightBounded` | `InflightCounts`, `WithinLimit` |
| `TasksConclude` | `PlaceGivenBack`, `AuthFailedCloses` |
| `RefreshRefused` | `DeletedRefused`, `MisusedRefused` |
| `TokensKept` | `KeptUntilExpiry` |
| `TablesConsistent` | `OwnerStays` |
| `AnswersTrue` | `UserAnswersTrue`, `FriendAnswersTrue` |
| `MessagesTrue` | `SpeakersAreMembers`, `ToldOwnTimestamp` |
| `PoolConsistent` | `StatsTrue` |
| `ServerConsistent` | `OpenListed` |
| `SendsWhole` | `FrontWritten`, `WireReadable` |
| `NothingLingers` | `SilentGone`, `StopEndsIfClosed` |

What the bounds are for: two sessions of one device make a reconnect, two devices of one
user a kick; two handlers and a worker are enough for a race on a counter or an entry, since
each operation holds at most one of them at a time; a queue of two with three sends
overflows; pages of one with two messages make a second page; a limit of one is passed by
three messages; three operations on a token are its login and two that race; three requests
of which two overlap are a conflict and a witness of its outcome; four threads on a
connection are one that uses it, two that sleep and a newcomer; seven ticks pass the expiry
of every token made at the start. `registry_close` has no failing Redis command, since a
failed bind ends in the same delayed close as a refused message. Deadlock checking is off
everywhere: the bounds on inputs end every behaviour.

Runs that show where the code differs from what its comments or documents say;
`PROJECT.json` quotes the statements under "findings":

| Run | Property | Shows |
|---|---|---|
| `stale_disconnect` | `BoundStaysBound` | the disconnect of an old session unbinds the new session of the device |
| `group_mark` | `EventuallyReceived` | a group push marks the direct message with the same id |

Further statements of comments and documents that the code does not meet are written
down at the end of each module and have no run of their own; naming one in a
configuration like the ones above makes TLC print the behaviour:

| Module, property | Instance | Behaviour |
|---|---|---|
| `ConnectionManager`, `OneDevicePerPlatform` | 3 sessions of a user's 3 devices on one platform | the kick (`connection_manager.cpp:399`) closes one entry's session and removes no entry, so a third device kicks the first one again and two devices stay |
| `ConnectionManager`, `OnlineWhileBound` | 2 devices of a user on a multi-device platform, 1 worker, `MaxRefused = 1` | a connection added between the check and the `SREM` (`:195`) is not in `online:users` |
| `ConnectionManager`, `NoGhosts` | 2 sessions, 1 device of a user on 2 platforms | the removal takes the first entry of the device (`:186`), which may be the other platform's |
| `ConnectionManager`, `NoGhosts` | `ColonDevice`, no workers, `MaxFaults = 0` | the removal cuts the field at its first `:` (`:172`), and `device_id` is what the client sent: the entry of a device whose id has a `:` is never found, although nothing fails, where the comment (`:153`) says "从Redis中删除指定用户和设备的会话信息，包括所有相关的映射关系。" |
| `ConnectionManager`, `TimeoutCloses` | `FairSpec`, 1 session | the timer's coroutine (`gateway_server.cpp:2106`) outlives its closure: undefined, the session may stay |
| `MessageDelivery`, `DeliveredReached` | `delivery.cfg` | a session takes the payload into its queue and closes before the write (`push_service.cpp:70`): the message is DELIVERED, nobody has it and no pull returns it, where `docs/final_sum_docs/06_单聊消息链路分析.md:437` promises "消息至少被投递到接收者的一个在线 session，或者被接收者离线拉取到。" |
| `MessageDelivery`, `PulledOnce` | 2 pullers | a second pull before the first one's marks (`message_http_controller.cpp:234`) returns the message again |
| `WebSocketSession`, `NeverBlocks` | `FairSpec`, 2 sessions with `Busy` peers, no sends, `MaxCloses = 2` | `perform_close` waits for the peer of one session in the io thread of all (`websocket_session.cpp:274`, `:282`): the posted close of another is never carried out, where `docs/modules/network/legacy_network_docs/websocket.md:601` says "**异步优先**: 所有网络操作都是异步的，避免阻塞" |
| `WebSocketSession`, `HandshakeEnds` | `FairSpec`, 1 session | the timeouts are set after the TLS handshake and the upgrade request (`websocket_session.cpp:121`), where `docs/history/devlog/phase20_gateway_ws_lifecycle_heartbeat.md:64` says "握手阶段不能无限挂起。" |
| `FriendService`, `DecidedOnce` | `services.cfg` without faults and deadlines, `MaxRequests = 2` | the status is checked in one transaction (`friend_service.cpp:102`) and written in another that does not look at it (`friend_repository.cpp:131`): an accept and a reject that overlap are both stored and answered 200, the later replaces the earlier, where `docs/modules/friend.md:70` says "非 pending 状态不能重复处理。" |
| `AuthTokens`, `RevokedUntilExpiry` | `auth_tokens.cfg` | the blacklist key's lifetime is rounded down to seconds (`multi_platform_auth.cpp:376`): a revoked token is accepted in its last second |
| `WebSocketSession`, `StopClosesAll` | `Spec`, 1 session | a handshake that ends after `stop` (`websocket_server.cpp:150`) leaves an open session |
| `MessageDispatch`, `Answered` | `FairSpec`, `MaxFaults = 0` | a command without a processor (`message_processor.cpp:138`) gets no answer |

What remains true beside `NoGhosts`, `NeverBlocks` and `DecidedOnce` is in the properties of
the runs: `GhostsBoundedByFaults` counts the entries that do not come of such ids,
`CloseCompletes` and `ClosesInTheEnd` say what closes as long as no peer holds the thread,
`DecisionsHold` that a decision which no other response overlapped is final. Three more
disagreements are in the properties themselves. Of two friend requests that cross, both are
stored (`friend_service.cpp:58` checks both directions, the unique index one), where
`docs/modules/friend.md:68` says "重复申请或反向重复申请拒绝。"; `ReverseRefused` says when. And
`TCPServer::stop` locks `sessions_mutex_` and closes each session, whose close callback
`remove_session` locks it again (`tcp_server.cpp:79`): `stop()` hangs unless every session
it finds is closed already, which `StopEndsIfClosed` states. Two `Enqueue` calls that throw
with the guard made are counted off twice (`gateway_server.cpp:1330`), by the guard and by
the `catch` block: the unsigned counter wraps and an idle gateway refuses. `BusyOnlyAtLimit`
says exactly when. A TCP session and its `close_callback_` also refer to each other, so that
it is never destroyed.

## 4. Fairness

Weak fairness of steps that the code takes by itself. A thread in the middle of an
operation goes on (registry, dispatch, workers, controlling thread); the io context runs
the handlers it has, as long as its thread is free (strong fairness of `PerformClose` in
`ConnectionManager`, since the thread is busy in between); the accept of the WebSocket
completes or fails, because the stream's `handshake_timeout` (15 s) is set by then; a delayed
close and a timer fire; tasks end, since their remote calls have deadlines. In `RedisPool`
clocks run and a woken thread gets the mutex; users may keep connections for ever. In
`TcpServer` read timers run, the io thread runs due handlers and the thread in `stop()` goes
on.

Nothing is assumed of arrivals, of faults, or of peers, except in `delivery` (below). In
particular nothing in the code bounds these, and no fairness says that they end:

- the TLS handshake and the read of the upgrade request (no timeout is set yet);
- a write: `idle_timeout` (30 s, `websocket_session.cpp:120`) looks at what is received, so a
  peer that keeps sending and never reads leaves it outstanding; `WrittenOrClosed` is about peers that take
  what is written in the end;
- the synchronous `ws_stream_.close` and `ssl_stream.shutdown` of `perform_close`
  (`websocket_session.cpp:274`, `:282`): a peer that does not answer holds the thread of all
  sessions. `CloseCompletes`, `WrittenOrClosed` and `ClosesInTheEnd` are about behaviours in which
  the thread is free again and again; `NeverBlocks` (section 3) shows what else can happen.

`delivery` is about receivers that cooperate: they read their sockets, no close holds the io
thread of the gateway for ever, so that a session writes what was posted to it (`Write`), and
they keep pulling, whenever a puller is free (strong fairness, since pulls take turns). In
`MessageDispatch` a session is closed when its close is posted; when that is carried out is
the matter of `CloseCompletes`. The liveness of `MessageDispatch` rests on `StartTask`, which is
`TaskPool`'s fairness, which `pool_refines` derives from that of the threads.

## 5. Proofs

The theorems hold for every value of the constants that the named assumptions of the
modules admit: sets of sessions, users, threads, workers, messages and so on of any size
(finite where they are counted), null values outside them, positive sizes and lifetimes.
The counter of `MessageDispatch` must not wrap by itself: `Width` is more than the limit, the
sessions, the messages and the failures together, which holds of a 64-bit `size_t`.
In `ConnectionManager`, `StringAssumption` says that the field of a device and a platform
contains both; which strings contain a `:` or each other is left open, and the bound on ghosts
carries the conditions `Parses` and `Unconfused` itself.
The tables of `Services` at the start are numbered, groups have their creators as owners and no
friend request is accepted yet, since `accepts` begins empty.

| Module | Theorem | States |
|---|---|---|
| `ConnectionManagerProofs` | `TypeCorrect`, `OwnerCorrect`, `GhostsBounded` | `TypeOK`, `RightOwner`, `GhostsBoundedByFaults` |
| | `ViewsStayInStep`, `ClosedForGood` | `ViewsAgree`, `ClosedStaysOut` |
| `RedisPoolProofs` | `StatsCorrect`, `UseIsExclusive`, `WakeupsAreEnough` | `PoolConsistent`, `ExclusiveUse`, `NoLostWakeup` |
| | `PoolImplementsLease` | `ImplementsLease`: the pool implements `ConnectionLease` |
| `CommonProofs` | `CountCorrect`, `WorkIsConserved` | `TasksCounted`, `WorkConserving` |
| | `PoolImplementsTaskPool` | every step is a step of `TaskPool` or a stutter (the safety part of `ImplementsTaskPool`) |
| | `OpenAreListed`, `FramesStayWhole` | `ServerConsistent`, `SendsWhole` of `TcpServer` |
| `MessageDispatchProofs` | `LimitHolds`, `AnswersAreSent`, `RefusedAtLimit` | `InflightBounded`, `KnownAnswered`, `BusyOnlyAtLimit` |
| `WebSocketSessionProofs` | `ServerTracksSessions`, `SendOrderKept` | `SessionsTracked`, `SendsInOrder` |
| `MessageDeliveryProofs` | `StoredAreKept`, `MarkedAfterHanding`, `NothingPushedTwice` | `MessagesKept`, `MarkedWhenHanded`, `PushedOnce` |
| `ServicesProofs` | `TablesStayConsistent`, `AnswersStayTrue`, `MembersSpeak` | `TablesConsistent`, `AnswersTrue`, `MessagesTrue` |
| | `UpdatesLostByOverlapOnly` | `LostOnlyByOverlap` |
| | `FriendsHaveAgreed`, `DecisionsFinal`, `SecondRequestRefused` | `FriendsByConsent`, `DecisionsHold`, `ReverseRefused` |
| `AuthTokensProofs` | `VoidStaysVoid`, `BlacklistHolds`, `AcceptedTokensExpire`, `TokensStayStored` | `RefreshRefused`, `RevokedAccessRefused`, `AcceptedExpires`, `TokensKept` |

Hardly any of these is inductive as it stands; what the proofs add:

- **ConnectionManager.** A removal or an addition under way carries identities and entries
  in `job`. `Registry` adds that a job's session, identity and entry belong together (`JobOK`),
  that sessions not yet open have no identity (`Fresh`), that a session is listed, or held by a
  removal, only once an addition has written it (`Written`), what a removal has
  already taken out (`Unlisted`), and that between the HSETs of `session:user` a listed session
  has the first of them (`Halfway`). For the bound on ghosts a session that no handler will
  remove is *stranded*: it is listed under a device id without `:`, no addition of it is under
  way, and either `session:user` lacks its user or device (`Known`) or it is closed and its
  disconnect handler is past it. `StrandedBound` says that,
  without a crash, the stranded sessions are finitely many and at most `faults`: each step but
  `RedisFails` leaves the set no larger, and `RedisFails` adds at most the session of its
  thread. Every ghost is stranded. For `ViewsAgree`, `Views` says how far `user:platform` and
  `online:users` may be behind `user:sessions` (`PlatformOK`, `OnlineOK`): only by what the
  commands still to come of an operation under way will write (`InHand`, `Solo`). `ClosedStaysOut`
  follows from `JobOK`: an addition under way is of an open session.
- **RedisPool.** That a released connection may go back into the queue rests on
  generations: `UserOK` relates the generation a user noted to the pool's, `QueueOK` says that
  what the queue offers is of the current one.
- **ThreadPool.** Each thread is in one place of its loop and each task in one place
  (`ThreadsOK`, `Once`), from which the count follows and the mapping to `TaskPool`.
- **MessageDispatch.** The handlers that passed the test of the limit are counted with the
  tasks that came of it (`Admitted`); the counter is the sum of these and the handlers before
  the test, less what was subtracted twice.
- **WebSocketSession.** For every handler that can be in a session's queue, what was so when
  it was put there and still is (`HandlerOK`), at most one read, write and handshake step
  outstanding (`OnePending`), the life of a session from accept through the shutdown of its
  stream to removal (`Life`), at most one session being shut down, and the relation of the
  queue, the write in progress and the wire (`WriteOK`, `Chained`, `Gapless`).
- **MessageDelivery.** What each stage of a send, a push and a pull knows of the row it works
  on (`SendOK`, `PushOK`, `PullOK`).
- **AuthTokens.** The properties speak of keys, and a key is what calls under way have made of
  it and will make of it. Five layers: `Control` (the step of a call, whose token it works on,
  one maker of a token in the making), `Voided` (a revocation whose SET is done has voided its
  token), `Clock` (deadlines lie ahead by one lifetime at most), `Blacklist` (the seconds a
  revocation read are enough for the blacklist) and `Storage` (the deadlines of stored tokens
  and what the calls that will EXPIRE them have read; the half second lost in rounding is
  paid for by the SET in between).
- **Services.** A request works on what earlier transactions of it read. `UserReq`,
  `FriendReq` and `GroupReq` say of every request in hand what still holds of that: the
  profile that a login or an update will write back agrees with every last clean update of a
  field it does not set itself; a row once seen stays; no response between its lookup and
  its update is to a row whose decision is settled (`Unsettled`); past its lookup with a row
  there, a friend request has a counted failure; a leave past its check is no owner's; a
  send has noted whether its user was a member at any time since it came. `Calls`, `Users`,
  `Friends` and `Groups` add the types, the unique ids and accounts and the owners. `Within`
  says that a step of one service moves and answers requests of its own only, so each step
  is proved against one service's part and the other two follow.

- **TcpServer.** `Server` is about `sessions_mutex_`: while `stop()` holds it, its loop has every
  open session still before it, and a handler that waits for it has closed its session or has
  not started it, so no open session is cleared from the list or taken off it. `SessionOK` is
  about one session at a time: the queue is in the order of send (`QueueOK`), the only message
  being written is its first (`FrontOK`), the peer has seen no message that is still to be
  written (`SeenOK`), and, while headers are taken at once, the only write that waits is the
  body that the peer of an open session expects (`WireOK`). Nothing reaches the peer of a closed
  session.

Only model-checked: the liveness properties `CloseCompletes`, `GetEnds`, `TasksConclude`,
`WrittenOrClosed`, `ClosesInTheEnd`, `ReceivedUnlessLost`, `NothingLingers` and the fairness part of
`ImplementsTaskPool`, because liveness under fairness and `ENABLED` are outside the prover.

## 6. Not modelled

Contents, encodings and times of messages; history queries, lists and searches, which
only read; HTTP parsing, routing and the text of responses, which keep no state; metrics;
start-up, configuration, logging and the order in which the gateway stops its parts; the
coroutine processor and the PostgreSQL connection pool (`connection_pool.hpp`, `pgsql_mgr.hpp`),
which no server uses; the web client; signatures of tokens and hashes of passwords.
Generated code (protobuf, ODB) and the vendored JSON library are most of the repository's
lines and have no logic of their own to model.

In `ConnectionManager` a Redis command is executed once or fails; the repetition after a
lost reply is modelled in `AuthTokens` only. The member list of `MessageDelivery` is fixed; how
it changes is in `GroupService`.

## 7. Plan

The model is complete to the extent of section 6, and every safety property and action property
of the passing runs is a theorem. What stays with TLC is liveness. A change of the code that
touches a mapped line is to be made in the model first, then checked with the run, and then
brought through the proof, whose invariants say which assumption it breaks.
