---------------------------- MODULE WebSocketSession ----------------------------
(***************************************************************************)
(* The life of WebSocket sessions and their send queues: WebSocketSession  *)
(* and the WebSocketServer that accepts and stops them.                    *)
(*                                                                         *)
(* Every handler of a session runs on the one thread of its io_context, in *)
(* the order in which the handlers became ready: ready[s] is that queue.   *)
(* A handler is a posted call (send, close) or the completion of an        *)
(* asynchronous operation (the TLS handshake, the read of the upgrade      *)
(* request, the WebSocket accept, a read, a write) with its result.  When  *)
(* an operation completes is up to the peer and the network.               *)
(*                                                                         *)
(* perform_close is two steps: it shuts the WebSocket and the TLS stream   *)
(* down with synchronous calls, for which only the peer or an error of the *)
(* socket sets a limit, and the thread runs no other handler meanwhile     *)
(* (shutting).                                                             *)
(*                                                                         *)
(* broken[s] is the state of the Beast stream: once an operation failed or *)
(* the stream was closed by close(), a completion that is already in the   *)
(* queue is delivered as an error.  A stream whose socket was just closed  *)
(* under it still delivers the result it has.                              *)
(***************************************************************************)
EXTENDS Naturals, Sequences, FiniteSets

CONSTANTS
    Session,
    MaxQueue,    \* max_send_queue_size
    MaxSends,    \* bound: messages sent to one session
    MaxReads,    \* bound: messages read from one session
    MaxCloses,   \* bound: calls of close() by the application
    Busy         \* bound: the sessions whose peer answers; the others stay silent

ASSUME SessionAssumption == IsFiniteSet(Session) /\ Busy \subseteq Session
ASSUME SizeAssumption ==
    MaxQueue \in Nat \ {0} /\ MaxSends \in Nat /\ MaxReads \in Nat /\ MaxCloses \in Nat

VARIABLES
    accepting,          \* an async_accept is outstanding
    stopped,            \* WebSocketServer::stop has run
    sessions_,          \* WebSocketServer::sessions_
    active_handshakes,  \* WebSocketServer::active_handshakes_
    shutting,           \* the session in whose shutdown the io thread waits, if any
    stage,              \* the operation the session is at
    closed_, registered_, handshake_active_,
    send_queue_,        \* message numbers; the front is being written
    writes,             \* outstanding async_write operations
    reading,            \* an async_read is outstanding
    broken,             \* the stream has failed or was closed
    ready,              \* the handlers ready to run, in order
    sent, wire,         \* messages passed to send(), and written to the peer
    reads, closes,      \* how often the bounded events happened
    disconnects,        \* calls of the disconnect handler
    overflowed,         \* the send queue has been full
    undefined           \* pop_front was called on an empty deque

flags == <<closed_, registered_, handshake_active_>>
server == <<accepting, stopped, sessions_, active_handshakes, shutting>>
queue == <<send_queue_, writes, overflowed, undefined>>
bounds == <<sent, reads, closes>>
vars == <<server, stage, flags, queue, reading, broken, ready, wire, bounds, disconnects>>

Stage == {"new", "ssl", "upgrade", "accept", "open"}

Op == {"ssl", "upgrade", "accept", "read", "write"}
Handler ==      \* a completion with its result, a posted send, a posted close
    [op : Op, ok : BOOLEAN] \cup [op : {"send"}, msg : 1..MaxSends]
        \cup [op : {"close"}, graceful : BOOLEAN]

Completion(op, ok) == [op |-> op, ok |-> ok]
SendOf(m) == [op |-> "send", msg |-> m]
CloseOf(graceful) == [op |-> "close", graceful |-> graceful]

TypeOK ==
    /\ accepting \in BOOLEAN /\ stopped \in BOOLEAN
    /\ sessions_ \subseteq Session
    /\ active_handshakes \in Nat
    /\ shutting \subseteq Session
    /\ stage \in [Session -> Stage]
    /\ closed_ \in [Session -> BOOLEAN]
    /\ registered_ \in [Session -> BOOLEAN]
    /\ handshake_active_ \in [Session -> BOOLEAN]
    /\ send_queue_ \in [Session -> Seq(1..MaxSends)]
    /\ \A s \in Session : Len(send_queue_[s]) <= MaxQueue
    /\ writes \in [Session -> Nat]
    /\ reading \in [Session -> BOOLEAN]
    /\ broken \in [Session -> BOOLEAN]
    /\ ready \in [Session -> Seq(Handler)]
    /\ sent \in [Session -> 0..MaxSends]
    /\ wire \in [Session -> Seq(1..MaxSends)]
    /\ reads \in [Session -> 0..MaxReads]
    /\ closes \in 0..MaxCloses
    /\ disconnects \in [Session -> Nat]
    /\ overflowed \in [Session -> BOOLEAN]
    /\ undefined \in [Session -> BOOLEAN]

AllFalse == [s \in Session |-> FALSE]

Init ==
    /\ accepting = TRUE /\ stopped = FALSE
    /\ sessions_ = {} /\ active_handshakes = 0 /\ shutting = {}
    /\ stage = [s \in Session |-> "new"]
    /\ closed_ = AllFalse /\ registered_ = AllFalse /\ handshake_active_ = AllFalse
    /\ send_queue_ = [s \in Session |-> << >>]
    /\ writes = [s \in Session |-> 0]
    /\ reading = AllFalse /\ broken = AllFalse
    /\ ready = [s \in Session |-> << >>]
    /\ sent = [s \in Session |-> 0]
    /\ wire = [s \in Session |-> << >>]
    /\ reads = [s \in Session |-> 0]
    /\ closes = 0
    /\ disconnects = [s \in Session |-> 0]
    /\ overflowed = AllFalse /\ undefined = AllFalse

-----------------------------------------------------------------------------
(* The server. *)

\* The io thread is not held by a shutdown: it runs handlers and sees completions.
IoFree == shutting = {}

\* do_accept and start(): the TLS handshake begins, without a deadline.
Accept(s) ==
    /\ IoFree /\ accepting /\ stage[s] = "new"
    /\ stage' = [stage EXCEPT ![s] = "ssl"]
    /\ handshake_active_' = [handshake_active_ EXCEPT ![s] = TRUE]
    /\ active_handshakes' = active_handshakes + 1
    /\ UNCHANGED <<accepting, stopped, sessions_, shutting, closed_, registered_, queue, reading,
                   broken, ready, wire, bounds, disconnects>>

\* async_accept completes with an error: it is not started again.
AcceptFails ==
    /\ IoFree /\ accepting
    /\ accepting' = FALSE
    /\ UNCHANGED <<stopped, sessions_, active_handshakes, shutting, stage, flags, queue, reading,
                   broken, ready, wire, bounds, disconnects>>

\* stop(): the acceptor is closed, sessions_ is emptied, and what it held is closed.
Stop ==
    /\ IoFree /\ ~stopped
    /\ stopped' = TRUE /\ accepting' = FALSE /\ sessions_' = {}
    /\ ready' = [s \in Session |-> IF s \in sessions_
                                   THEN Append(ready[s], CloseOf(TRUE)) ELSE ready[s]]
    /\ UNCHANGED <<active_handshakes, shutting, stage, flags, queue, reading, broken, wire, bounds,
                   disconnects>>

-----------------------------------------------------------------------------
(* Calls from other threads: they only post. *)

Send(s) ==
    /\ stage[s] = "open" /\ sent[s] < MaxSends
    /\ sent' = [sent EXCEPT ![s] = @ + 1]
    /\ ready' = [ready EXCEPT ![s] = Append(@, SendOf(sent[s] + 1))]
    /\ UNCHANGED <<server, stage, flags, queue, reading, broken, wire, reads, closes,
                   disconnects>>

Close(s) ==
    /\ stage[s] = "open" /\ closes < MaxCloses
    /\ closes' = closes + 1
    /\ ready' = [ready EXCEPT ![s] = Append(@, CloseOf(TRUE))]
    /\ UNCHANGED <<server, stage, flags, queue, reading, broken, wire, sent, reads,
                   disconnects>>

-----------------------------------------------------------------------------
(* The network: an outstanding operation completes. *)

Waiting(s, op) ==
    /\ \A i \in DOMAIN ready[s] : ready[s][i].op # op
    /\ CASE op = "read"  -> reading[s]
         [] op = "write" -> writes[s] > 0
         [] OTHER        -> stage[s] = op

\* Once perform_close has closed the socket an operation can only fail.
Complete(s, op, ok) ==
    /\ IoFree /\ Waiting(s, op)
    /\ ok => ~closed_[s] /\ s \in Busy /\ (op = "read" => reads[s] < MaxReads)
    /\ reads' = IF op = "read" /\ ok THEN [reads EXCEPT ![s] = @ + 1] ELSE reads
    /\ ready' = [ready EXCEPT ![s] = Append(@, Completion(op, ok))]
    /\ UNCHANGED <<server, stage, flags, queue, reading, broken, wire, sent, closes,
                   disconnects>>

-----------------------------------------------------------------------------
(* The handlers: each consumes the head of ready[s]. *)

Head1(s) == Head(ready[s])
Runs(s, op) == IoFree /\ ready[s] # << >> /\ Head1(s).op = op
Consume(s) == ready' = [ready EXCEPT ![s] = Tail(@)]

\* Mutant of fail_and_close: the error is only logged.
fail_and_log(s) == Consume(s)

\* fail_and_close: perform_close is posted; the operation that failed broke the stream.
fail_and_close(s) ==
    ready' = [ready EXCEPT ![s] = Append(Tail(@), CloseOf(FALSE))]

\* The result a completion handler sees.
Ok(s) == Head1(s).ok /\ ~broken[s]

\* Mutant of finish_handshake_tracking: every close counts, finished or not.
finish_always(s) ==
    /\ handshake_active_' = [handshake_active_ EXCEPT ![s] = FALSE]
    /\ active_handshakes' = IF active_handshakes > 0
                            THEN active_handshakes - 1 ELSE active_handshakes

\* finish_handshake_tracking and record_handshake_finished.
finish_handshake_tracking(s) ==
    /\ handshake_active_' = [handshake_active_ EXCEPT ![s] = FALSE]
    /\ active_handshakes' = IF handshake_active_[s] /\ active_handshakes > 0
                            THEN active_handshakes - 1 ELSE active_handshakes

\* Mutant of RunSend: every message starts a write of its own.
RunSendWrites(s) ==
    /\ Runs(s, "send")
    /\ Consume(s)
    /\ IF closed_[s] THEN UNCHANGED <<send_queue_, writes>>
       ELSE /\ send_queue_' = [send_queue_ EXCEPT ![s] = Append(@, Head1(s).msg)]
            /\ writes' = [writes EXCEPT ![s] = @ + 1]
    /\ UNCHANGED <<server, stage, flags, overflowed, undefined, reading, broken, wire, bounds,
                   disconnects>>

RunSend(s) ==
    LET q == send_queue_[s]
    IN /\ Runs(s, "send")
       /\ \/ /\ closed_[s]
             /\ Consume(s)
             /\ UNCHANGED queue
          \/ /\ ~closed_[s] /\ Len(q) >= MaxQueue
             /\ fail_and_close(s)
             /\ overflowed' = [overflowed EXCEPT ![s] = TRUE]
             /\ UNCHANGED <<send_queue_, writes, undefined>>
          \/ /\ ~closed_[s] /\ Len(q) < MaxQueue
             /\ Consume(s)
             /\ send_queue_' = [send_queue_ EXCEPT ![s] = Append(q, Head1(s).msg)]
             /\ writes' = IF q = << >> THEN [writes EXCEPT ![s] = @ + 1] ELSE writes
             /\ UNCHANGED <<overflowed, undefined>>
       /\ UNCHANGED <<server, stage, flags, reading, broken, wire, bounds, disconnects>>

\* The TLS handshake, and the read of the upgrade request, are over.
RunHandshake(s, op, next) ==
    /\ Runs(s, op)
    /\ \/ /\ Ok(s)
          /\ Consume(s)
          /\ stage' = [stage EXCEPT ![s] = next]
          /\ UNCHANGED broken
       \/ /\ ~Ok(s)
          /\ fail_and_close(s)
          /\ broken' = [broken EXCEPT ![s] = TRUE]
          /\ UNCHANGED stage
    /\ UNCHANGED <<server, flags, queue, reading, wire, bounds, disconnects>>

\* The WebSocket accept is over: the session gets its id, is added to the server
\* (which calls the connect handler), and starts to read.
RunAccept(s) ==
    /\ Runs(s, "accept")
    /\ \/ /\ Ok(s)
          /\ Consume(s)
          /\ stage' = [stage EXCEPT ![s] = "open"]
          /\ registered_' = [registered_ EXCEPT ![s] = TRUE]
          /\ sessions_' = sessions_ \cup {s}
          /\ finish_handshake_tracking(s)
          /\ reading' = [reading EXCEPT ![s] = TRUE]
          /\ UNCHANGED broken
       \/ /\ ~Ok(s)
          /\ fail_and_close(s)
          /\ broken' = [broken EXCEPT ![s] = TRUE]
          /\ UNCHANGED <<stage, registered_, sessions_, handshake_active_,
                         active_handshakes, reading>>
    /\ UNCHANGED <<accepting, stopped, shutting, closed_, queue, wire, bounds, disconnects>>

\* A message was read: the message handler is called, and the next read started.
RunRead(s) ==
    /\ Runs(s, "read")
    /\ \/ Ok(s) /\ Consume(s) /\ UNCHANGED <<reading, broken>>
       \/ /\ ~Ok(s)
          /\ fail_and_close(s)
          /\ reading' = [reading EXCEPT ![s] = FALSE]
          /\ broken' = [broken EXCEPT ![s] = TRUE]
    /\ UNCHANGED <<server, stage, flags, queue, wire, bounds, disconnects>>

\* Mutant of RunWrite: the next message is not started.
RunWriteOne(s) ==
    /\ Runs(s, "write") /\ send_queue_[s] # << >>
    /\ Consume(s)
    /\ wire' = [wire EXCEPT ![s] = Append(@, Head(send_queue_[s]))]
    /\ send_queue_' = [send_queue_ EXCEPT ![s] = Tail(@)]
    /\ writes' = [writes EXCEPT ![s] = @ - 1]
    /\ UNCHANGED <<server, stage, flags, overflowed, undefined, reading, broken, bounds,
                   disconnects>>

\* A message was written: it leaves the queue, and the next one is written.
\* pop_front of an empty deque is undefined; here the queue then stays empty.
RunWrite(s) ==
    LET q == send_queue_[s]
    IN /\ Runs(s, "write")
       /\ \/ /\ Ok(s) /\ q # << >>
             /\ Consume(s)
             /\ wire' = [wire EXCEPT ![s] = Append(@, Head(q))]
             /\ send_queue_' = [send_queue_ EXCEPT ![s] = Tail(q)]
             /\ writes' = IF Len(q) = 1 THEN [writes EXCEPT ![s] = @ - 1] ELSE writes
             /\ UNCHANGED <<broken, undefined>>
          \/ /\ Ok(s) /\ q = << >>
             /\ Consume(s)
             /\ writes' = [writes EXCEPT ![s] = @ - 1]
             /\ undefined' = [undefined EXCEPT ![s] = TRUE]
             /\ UNCHANGED <<send_queue_, wire, broken>>
          \/ /\ ~Ok(s)
             /\ fail_and_close(s)
             /\ writes' = [writes EXCEPT ![s] = @ - 1]
             /\ broken' = [broken EXCEPT ![s] = TRUE]
             /\ UNCHANGED <<send_queue_, wire, undefined>>
       /\ UNCHANGED <<server, stage, flags, reading, overflowed, bounds, disconnects>>

\* perform_close: the first one clears the queue and shuts the stream down (a graceful
\* one through close(), which breaks it).
PerformClose(s) ==
    /\ Runs(s, "close")
    /\ Consume(s)
    /\ \/ /\ closed_[s]
          /\ UNCHANGED <<closed_, handshake_active_, active_handshakes, shutting, send_queue_, broken>>
       \/ /\ ~closed_[s]
          /\ closed_' = [closed_ EXCEPT ![s] = TRUE]
          /\ finish_handshake_tracking(s)
          /\ send_queue_' = [send_queue_ EXCEPT ![s] = << >>]
          /\ broken' = [broken EXCEPT ![s] = @ \/ Head1(s).graceful]
          /\ shutting' = {s}
    /\ UNCHANGED <<accepting, stopped, sessions_, registered_, stage, writes, overflowed, undefined,
                   reading, wire, bounds, disconnects>>

\* The stream is shut down: perform_close goes on, closes the socket, and removes a
\* registered session.
CloseSocket(s) ==
    /\ s \in shutting
    /\ shutting' = {}
    /\ registered_' = [registered_ EXCEPT ![s] = FALSE]
    /\ sessions_' = IF registered_[s] THEN sessions_ \ {s} ELSE sessions_
    /\ disconnects' = IF registered_[s] THEN [disconnects EXCEPT ![s] = @ + 1] ELSE disconnects
    /\ UNCHANGED <<accepting, stopped, active_handshakes, stage, closed_, handshake_active_, queue,
                   reading, broken, ready, wire, bounds>>

-----------------------------------------------------------------------------
Run(s) ==
    \/ RunSend(s) \/ RunHandshake(s, "ssl", "upgrade") \/ RunHandshake(s, "upgrade", "accept")
    \/ RunAccept(s) \/ RunRead(s) \/ RunWrite(s) \/ PerformClose(s)

Next ==
    \/ AcceptFails \/ Stop
    \/ \E s \in Session :
          \/ Accept(s) \/ Send(s) \/ Close(s) \/ Run(s) \/ CloseSocket(s)
          \/ \E op \in Op, ok \in BOOLEAN : Complete(s, op, ok)

Spec == Init /\ [][Next]_vars

\* The io_context runs what is ready, while it is free, and handshake_timeout ends an
\* accept that makes no progress.  Nothing ends the TLS handshake or the read of the
\* upgrade request (the timeouts are set after it), nor a write to a peer that sends and
\* does not read (idle_timeout looks at what is received), nor the shutdown of a stream;
\* and a healthy connection may be silent for ever.
Fairness ==
    \A s \in Session :
       /\ WF_vars(Run(s))
       /\ WF_vars(\E ok \in BOOLEAN : Complete(s, "accept", ok))

FairSpec == Spec /\ Fairness

-----------------------------------------------------------------------------
(* Properties. *)

\* active_handshakes, which the server reports, is the number of sessions whose
\* handshake is neither finished nor closed: accept and close never count twice.
HandshakesCounted ==
    /\ active_handshakes = Cardinality({s \in Session : handshake_active_[s]})
    /\ \A s \in Session :
          handshake_active_[s] <=> stage[s] \in {"ssl", "upgrade", "accept"} /\ ~closed_[s]

\* The disconnect handler is called exactly once for a session whose connect handler
\* was called, once its stream is shut down, and never for another, however many of its
\* operations fail and whoever calls close(); meanwhile sessions_ holds it, unless stop
\* emptied it.
DisconnectedOnce ==
    \A s \in Session :
       /\ disconnects[s] = IF stage[s] = "open" /\ closed_[s] /\ s \notin shutting THEN 1 ELSE 0
       /\ s \in sessions_ => registered_[s]
       /\ registered_[s] /\ ~stopped => s \in sessions_

\* What the server knows of its sessions is true of them: the handshakes it counts, the
\* sessions it holds and the disconnects it reports.
SessionsTracked == TypeOK /\ HandshakesCounted /\ DisconnectedOnce

\* Where the sends that are posted and have not run are in ready[s].
Posted(s) == {i \in DOMAIN ready[s] : ready[s][i].op = "send"}

\* As long as the session is open the messages passed to send() are on the wire, in the
\* queue or posted, each once and in the order of the calls, and one write is
\* outstanding exactly when the queue is not empty.
InOrder ==
    \A s \in Session :
       LET written == Len(wire[s])
           taken == written + Len(send_queue_[s])
       IN  ~closed_[s] /\ ~overflowed[s] =>
             /\ \A i \in DOMAIN wire[s] : wire[s][i] = i
             /\ \A i \in DOMAIN send_queue_[s] : send_queue_[s][i] = written + i
             /\ {ready[s][i].msg : i \in Posted(s)} = (taken + 1)..sent[s]
             /\ \A i, j \in Posted(s) : i < j => ready[s][i].msg < ready[s][j].msg
             /\ ~broken[s] => writes[s] = IF send_queue_[s] = << >> THEN 0 ELSE 1

\* What reaches the peer is a subsequence of what was sent, in order, also when the
\* session overflows or closes.
WireIncreases ==
    \A s \in Session : \A i, j \in DOMAIN wire[s] : i < j => wire[s][i] < wire[s][j]

\* The completion handler of a write finds its message in the queue, unless the send
\* queue overflowed: perform_close clears the queue under an outstanding write, and
\* only after an overflow the stream still delivers the success it had.
PopsItsMessage == \A s \in Session : undefined[s] => overflowed[s]

\* The queue, its one write in progress and the wire stay in step, whatever fails or
\* closes meanwhile.
SendsInOrder == InOrder /\ WireIncreases /\ PopsItsMessage

\* Once sends stop, every message passed to send() is on the wire (by WireIncreases the
\* lengths tell), or the session is closed, or its peer leaves a write outstanding for
\* ever, or some peer holds the io thread for ever: the chain of writes, each started by
\* the completion of the one before, is never interrupted with messages waiting.
WrittenOrClosed ==
    \A s \in Busy :
       []<>IoFree /\ []<>(~Waiting(s, "write")) =>
          (sent[s] > 0 ~> Len(wire[s]) = sent[s] \/ closed_[s])

\* A session whose stream failed or whose queue overflowed is closed, and leaves
\* sessions_ for good, unless some peer holds the io thread for ever.
ClosesInTheEnd ==
    \A s \in Session :
       []<>IoFree => (broken[s] \/ overflowed[s] ~> [](closed_[s] /\ s \notin sessions_))

-----------------------------------------------------------------------------
(* Statements of the documents that the code does not meet. *)

\* "asynchronous first: all network operations are asynchronous, to avoid blocking": a
\* session that has to be closed is closed, whatever the peers of other sessions do.
NeverBlocks ==
    \A s \in Session : (\E i \in DOMAIN ready[s] : ready[s][i].op = "close") ~> closed_[s]

\* "the handshake phase cannot hang forever".
HandshakeEnds ==
    \A s \in Session : stage[s] = "ssl" ~> stage[s] = "open" \/ closed_[s]

\* "stop the WebSocket server, closing all connections".
StopClosesAll ==
    stopped => \A s \in Session :
       registered_[s] => \E i \in DOMAIN ready[s] : ready[s][i].op = "close"
=============================================================================
