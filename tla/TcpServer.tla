------------------------------ MODULE TcpServer ------------------------------
(***************************************************************************)
(* TCPServer and TCPSession.  The handlers of the server and of the        *)
(* sessions it accepts run one after the other on the thread of one        *)
(* io_context ("io"); stop() runs there too, for a signal, or on another   *)
(* thread ("main").  sessions_mutex_ is not recursive: a thread that locks *)
(* it twice waits for ever.                                                *)
(*                                                                         *)
(* A write is a composed operation: what the socket does not take at once  *)
(* is written later, behind the writes that were started meanwhile.  The   *)
(* header of a frame is a local variable of the function that starts the   *)
(* write, so a header written later than that may be anything ("?").  A    *)
(* message is a header and a body, a heartbeat only a header.              *)
(***************************************************************************)
EXTENDS Naturals, Sequences, FiniteSets

CONSTANTS Session,
          MaxQueue,             \* max_send_queue_size
          MaxSend, MaxIn,       \* bounds: messages sent, frames received, per session
          MaxBeats,             \* bound: heartbeats per session
          Busy                  \* bound: the sessions with any traffic

ASSUME TcpAssumption ==
    /\ {MaxQueue, MaxSend, MaxIn, MaxBeats} \subseteq Nat /\ MaxQueue > 0
    /\ Busy \subseteq Session

VARIABLES acceptor,   \* "pending": in async_accept; "ready": its handler is due; "none"
          stopped,    \* stopped_
          sessions,   \* sessions_
          stopper,    \* the thread that runs stop()
          stop,       \* how far it is
          todo,       \* the sessions its loop has still to close
          iowait,     \* what the io thread wants sessions_mutex_ for: [op, s]
          sock,       \* socket_ of each session
          queue,      \* send_queue_
          sent,       \* messages given to send()
          ops,        \* writes under way: [f, left], f = 0 for a heartbeat
          wdone,      \* is the handler of a finished message write due?
          peer,       \* what the peer makes of the bytes: the message whose body
                      \* it expects (0: a header), the last one, and if all is well
          rd,         \* the read under way
          ins,        \* frames received
          rarmed, rdue,   \* read_timeout_timer_: waiting; handler due
          beats,      \* heartbeats sent
          slow        \* history: the header of a frame was not taken at once

serverVars == <<acceptor, stopped, sessions, stopper, stop, todo, iowait>>
writeVars == <<queue, sent, ops, wdone, peer, beats, slow>>
readVars == <<rd, ins, rarmed, rdue>>
tcpVars == <<serverVars, sock, writeVars, readVars>>

Nothing == [op |-> "none", s |-> "none"]

TcpInit ==
    /\ acceptor = "pending" /\ stopped = FALSE /\ sessions = {}
    /\ stopper = "none" /\ stop = "no" /\ todo = {}
    /\ iowait = Nothing
    /\ sock = [s \in Session |-> "new"]
    /\ queue = [s \in Session |-> <<>>] /\ sent = [s \in Session |-> 0]
    /\ ops = [s \in Session |-> <<>>] /\ wdone = [s \in Session |-> FALSE]
    /\ peer = [s \in Session |-> [want |-> 0, last |-> 0, ok |-> TRUE]]
    /\ beats = [s \in Session |-> 0] /\ slow = [s \in Session |-> FALSE]
    /\ rd = [s \in Session |-> "none"] /\ ins = [s \in Session |-> 0]
    /\ rarmed = [s \in Session |-> FALSE] /\ rdue = [s \in Session |-> FALSE]

(* stop() holds sessions_mutex_.                                           *)
Locked == stop \in {"closing", "hung"}

(* The io thread runs the next handler.                                    *)
IoFree == iowait = Nothing /\ ~(stopper = "io" /\ stop # "done")

-----------------------------------------------------------------------------
(* Writes.                                                                 *)
Parts(f) == IF f = 0 THEN <<"H">> ELSE <<"H", "B">>

(* The peer reads a header of frame f, right or spoilt, or a body.         *)
Read(p, f, part) ==
    CASE part = "B" -> [p EXCEPT !.want = 0, !.ok = @ /\ p.want = f]
      [] part = "?" -> [p EXCEPT !.ok = FALSE]
      [] part = "H" /\ f = 0 -> [p EXCEPT !.ok = @ /\ p.want = 0]
      [] part = "H" /\ f # 0 ->
            [want |-> f, last |-> f, ok |-> p.ok /\ p.want = 0 /\ f > p.last]

(* The peer after it reads the first n of the last "left" parts of frame   *)
(* f; a late header may be spoilt.                                         *)
After(p, f, left, n, late) ==
    LET part(i) == Parts(f)[Len(Parts(f)) - left + i]
    IN  {CASE n = 0 -> p
           [] n = 1 -> Read(p, f, IF part(1) = "H" THEN h ELSE "B")
           [] OTHER -> Read(Read(p, f, h), f, "B") : h \in IF late THEN {"H", "?"} ELSE {"H"}}

(* async_write of frame f: the socket takes some of it now, unless a write *)
(* is waiting already.  done: is a handler due otherwise?                  *)
StartWrite(s, f, done) ==
    LET len == Len(Parts(f))
    IN  \E n \in IF ops[s] = <<>> /\ sock[s] = "open" THEN 0..len ELSE {0} :
            /\ peer' = [peer EXCEPT ![s] = CHOOSE p \in After(@, f, len, n, FALSE) : TRUE]
            /\ ops' = [ops EXCEPT ![s] = IF n = len THEN @ ELSE Append(@, [f |-> f, left |-> len - n])]
            /\ wdone' = [wdone EXCEPT ![s] = done \/ (f # 0 /\ n = len)]
            /\ slow' = [slow EXCEPT ![s] = @ \/ n = 0]

(* send: the posted handler.                                               *)
Send(s) ==
    /\ IoFree
    /\ s \in Busy /\ sock[s] # "new" /\ sent[s] < MaxSend
    /\ sent' = [sent EXCEPT ![s] = @ + 1]
    /\ queue' = IF Len(queue[s]) >= MaxQueue THEN queue
                ELSE [queue EXCEPT ![s] = Append(@, sent[s] + 1)]
    /\ IF queue[s] = <<>> THEN StartWrite(s, sent[s] + 1, FALSE)
                          ELSE UNCHANGED <<ops, wdone, peer, slow>>
    /\ UNCHANGED <<serverVars, sock, beats, readVars>>

(* The socket takes more of the first write that waits; what is left of it *)
(* goes behind the others.                                                 *)
WriteSome(s) ==
    /\ IoFree /\ sock[s] = "open" /\ ops[s] # <<>>
    /\ LET o == Head(ops[s])
       IN  \E n \in 1..o.left : \E p \in After(peer[s], o.f, o.left, n, TRUE) :
             /\ peer' = [peer EXCEPT ![s] = p]
             /\ ops' = [ops EXCEPT ![s] = IF n = o.left THEN Tail(@)
                                          ELSE Append(Tail(@), [o EXCEPT !.left = @ - n])]
             /\ wdone' = [wdone EXCEPT ![s] = @ \/ (o.f # 0 /\ n = o.left)]
    /\ UNCHANGED <<serverVars, sock, queue, sent, beats, slow, readVars>>

\* Mutant of WriteDone: the queue is popped after the next write is started.
WriteDoneThenPop(s) ==
    /\ IoFree /\ wdone[s]
    /\ queue' = [queue EXCEPT ![s] = Tail(@)]
    /\ IF Len(queue[s]) > 1
         THEN StartWrite(s, queue[s][1], FALSE)
         ELSE wdone' = [wdone EXCEPT ![s] = FALSE] /\ UNCHANGED <<ops, peer, slow>>
    /\ UNCHANGED <<serverVars, sock, sent, beats, readVars>>

(* The handler of do_write: the next message, if there is one.             *)
WriteDone(s) ==
    /\ IoFree /\ wdone[s]
    /\ queue' = [queue EXCEPT ![s] = Tail(@)]
    /\ IF Len(queue[s]) > 1
         THEN StartWrite(s, queue[s][2], FALSE)
         ELSE wdone' = [wdone EXCEPT ![s] = FALSE] /\ UNCHANGED <<ops, peer, slow>>
    /\ UNCHANGED <<serverVars, sock, sent, beats, readVars>>

(* send_heartbeat.                                                         *)
SendHeartbeat(s) ==
    /\ s \in Busy /\ beats[s] < MaxBeats
    /\ beats' = [beats EXCEPT ![s] = @ + 1]
    /\ StartWrite(s, 0, wdone[s])
    /\ UNCHANGED <<queue, sent>>

-----------------------------------------------------------------------------
(* close() on the io thread: it calls remove_session, which waits for the  *)
(* mutex.                                                                  *)
Close(s) ==
    /\ sock' = [sock EXCEPT ![s] = "closed"]
    /\ rarmed' = [rarmed EXCEPT ![s] = FALSE]
    /\ IF Locked
         THEN iowait' = [op |-> "remove", s |-> s] /\ UNCHANGED sessions
         ELSE sessions' = sessions \ {s} /\ UNCHANGED iowait
    /\ UNCHANGED <<acceptor, stopped, stopper, stop, todo>>

(* A write fails, and its handler closes the session.                      *)
WriteFails(s) ==
    /\ IoFree /\ sock[s] = "open" /\ ops[s] # <<>>
    /\ ops' = [ops EXCEPT ![s] = Tail(@)]
    /\ Close(s)
    /\ UNCHANGED <<queue, sent, wdone, peer, beats, slow, rd, ins, rdue>>

(* The writes and the read of a closed socket end: handle_error finds it   *)
(* closed.                                                                 *)
Aborted(s) ==
    /\ IoFree /\ sock[s] = "closed"
    /\ ops[s] # <<>> \/ rd[s] # "none"
    /\ ops' = [ops EXCEPT ![s] = <<>>]
    /\ rd' = [rd EXCEPT ![s] = "none"]
    /\ UNCHANGED <<serverVars, sock, queue, sent, wdone, peer, beats, slow, ins, rarmed, rdue>>

-----------------------------------------------------------------------------
(* do_read_header and do_read_body set the read timeout; their handlers    *)
(* cancel it first, which does not help if the timer's handler is due.     *)
ReadNext(s, what) ==
    /\ rd' = [rd EXCEPT ![s] = what]
    /\ rarmed' = [rarmed EXCEPT ![s] = TRUE]
    /\ UNCHANGED <<serverVars, sock, rdue>>

(* A message, a PING, a PONG; or a header that is not valid.               *)
ReadHeader(s) ==
    /\ IoFree /\ sock[s] = "open" /\ rd[s] = "header" /\ s \in Busy /\ ins[s] < MaxIn
    /\ ins' = [ins EXCEPT ![s] = @ + 1]
    /\ \/ ReadNext(s, "body") /\ UNCHANGED writeVars
       \/ ReadNext(s, "header") /\ SendHeartbeat(s)
       \/ ReadNext(s, "header") /\ UNCHANGED writeVars
       \/ /\ Close(s)
          /\ rd' = [rd EXCEPT ![s] = "none"]
          /\ UNCHANGED <<writeVars, rdue>>

ReadBody(s) ==
    /\ IoFree /\ sock[s] = "open" /\ rd[s] = "body"
    /\ ReadNext(s, "header")
    /\ UNCHANGED <<writeVars, ins>>

(* The peer closes the connection, or it breaks.                           *)
ReadFails(s) ==
    /\ IoFree /\ sock[s] = "open" /\ rd[s] # "none"
    /\ Close(s)
    /\ rd' = [rd EXCEPT ![s] = "none"]
    /\ UNCHANGED <<writeVars, ins, rdue>>

ReadTimer(s) ==
    /\ rarmed[s]
    /\ rarmed' = [rarmed EXCEPT ![s] = FALSE]
    /\ rdue' = [rdue EXCEPT ![s] = TRUE]
    /\ UNCHANGED <<serverVars, sock, writeVars, rd, ins>>

\* Mutant of ReadTimeout: the session is not closed.
ReadTimeoutIgnored(s) ==
    /\ IoFree /\ rdue[s]
    /\ rdue' = [rdue EXCEPT ![s] = FALSE]
    /\ UNCHANGED <<serverVars, sock, rarmed, writeVars, rd, ins>>

ReadTimeout(s) ==
    /\ IoFree /\ rdue[s]
    /\ rdue' = [rdue EXCEPT ![s] = FALSE]
    /\ IF sock[s] = "open" THEN Close(s) ELSE UNCHANGED <<serverVars, sock, rarmed>>
    /\ UNCHANGED <<writeVars, rd, ins>>

(* The heartbeat timer and its handler, which does nothing to a session    *)
(* that was closed meanwhile.                                              *)
Heartbeat(s) ==
    /\ IoFree /\ sock[s] = "open"
    /\ SendHeartbeat(s)
    /\ UNCHANGED <<serverVars, sock, readVars>>

-----------------------------------------------------------------------------
(* A client connects; or async_accept fails, and is not called again.      *)
Connect ==
    /\ acceptor = "pending"
    /\ acceptor' \in {"ready", "none"}
    /\ acceptor' = "ready" => \E s \in Session : sock[s] = "new"
    /\ UNCHANGED <<stopped, sessions, stopper, stop, todo, iowait, sock, writeVars, readVars>>

(* The rest of handle_accept once it has the mutex, and start().           *)
Register(s) ==
    /\ sessions' = sessions \cup {s}
    /\ sock' = [sock EXCEPT ![s] = "open"]
    /\ rd' = [rd EXCEPT ![s] = "header"]
    /\ rarmed' = [rarmed EXCEPT ![s] = TRUE]
    /\ acceptor' = IF stopped THEN "none" ELSE "pending"

\* Mutant of HandleAccept: the session is not listed once the server is stopped.
HandleAcceptUnlisted(s) ==
    /\ IoFree /\ acceptor = "ready" /\ sock[s] = "new"
    /\ ~Locked
    /\ sessions' = IF stopped THEN sessions ELSE sessions \cup {s}
    /\ sock' = [sock EXCEPT ![s] = "open"]
    /\ rd' = [rd EXCEPT ![s] = "header"]
    /\ rarmed' = [rarmed EXCEPT ![s] = TRUE]
    /\ acceptor' = IF stopped THEN "none" ELSE "pending"
    /\ UNCHANGED <<iowait, stopped, stopper, stop, todo, writeVars, ins, rdue>>

HandleAccept(s) ==
    /\ IoFree /\ acceptor = "ready" /\ sock[s] = "new"
    /\ IF Locked
         THEN /\ iowait' = [op |-> "insert", s |-> s]
              /\ UNCHANGED <<sessions, sock, rd, rarmed, acceptor>>
         ELSE Register(s) /\ UNCHANGED iowait
    /\ UNCHANGED <<stopped, stopper, stop, todo, writeVars, ins, rdue>>

(* The io thread gets the mutex.                                           *)
IoResume ==
    /\ iowait # Nothing /\ ~Locked
    /\ iowait' = Nothing
    /\ IF iowait.op = "insert" THEN Register(iowait.s)
       ELSE sessions' = sessions \ {iowait.s} /\ UNCHANGED <<sock, rd, rarmed, acceptor>>
    /\ UNCHANGED <<stopped, stopper, stop, todo, writeVars, ins, rdue>>

-----------------------------------------------------------------------------
(* stop(), on thread th; a second call does nothing.                       *)
Stop(th) ==
    /\ ~stopped
    /\ th = "io" => IoFree
    /\ stopped' = TRUE /\ stopper' = th /\ stop' = "lock"
    /\ acceptor' = IF acceptor = "pending" THEN "none" ELSE acceptor
    /\ UNCHANGED <<sessions, todo, iowait, sock, writeVars, readVars>>

StopLock ==
    /\ stop = "lock"
    /\ stop' = "closing" /\ todo' = sessions
    /\ UNCHANGED <<acceptor, stopped, sessions, stopper, iowait, sock, writeVars, readVars>>

(* close() of a session from the loop of stop().  That of an open session  *)
(* calls remove_session, which locks the mutex that stop() holds.          *)
StopClose(s) ==
    /\ stop = "closing" /\ s \in todo
    /\ IF sock[s] = "open"
         THEN /\ sock' = [sock EXCEPT ![s] = "closed"]
              /\ stop' = "hung"
              /\ rarmed' = [rarmed EXCEPT ![s] = FALSE]
              /\ UNCHANGED todo
         ELSE todo' = todo \ {s} /\ UNCHANGED <<stop, sock, rarmed>>
    /\ UNCHANGED <<acceptor, stopped, sessions, stopper, iowait, writeVars, rd, ins, rdue>>

StopClear ==
    /\ stop = "closing" /\ todo = {}
    /\ sessions' = {} /\ stop' = "done"
    /\ UNCHANGED <<acceptor, stopped, stopper, todo, iowait, sock, writeVars, readVars>>

StopStep == StopLock \/ StopClear \/ \E s \in Session : StopClose(s)

Handler(s) ==
    \/ WriteDone(s) \/ Aborted(s) \/ ReadTimeout(s) \/ Heartbeat(s) \/ HandleAccept(s)

TcpNext ==
    \/ Connect \/ IoResume \/ StopStep
    \/ \E th \in {"io", "main"} : Stop(th)
    \/ \E s \in Session :
         \/ Send(s) \/ WriteSome(s) \/ WriteFails(s)
         \/ ReadHeader(s) \/ ReadBody(s) \/ ReadFails(s)
         \/ ReadTimer(s) \/ Handler(s)

(* The io thread runs every handler that is due, the read timer runs, and  *)
(* the thread in stop() goes on.  Nothing is assumed of the peers.         *)
TcpFairness ==
    /\ WF_tcpVars(IoResume) /\ WF_tcpVars(StopStep)
    /\ \A s \in Session : WF_tcpVars(ReadTimer(s)) /\ WF_tcpVars(ReadTimeout(s))

TcpSpec == TcpInit /\ [][TcpNext]_tcpVars /\ TcpFairness

-----------------------------------------------------------------------------
TcpTypeOK ==
    /\ acceptor \in {"pending", "ready", "none"} /\ stopped \in BOOLEAN
    /\ sessions \subseteq Session /\ todo \subseteq sessions
    /\ stopper \in {"none", "io", "main"}
    /\ stop \in {"no", "lock", "closing", "hung", "done"}
    /\ iowait \in [op : {"insert", "remove"}, s : Session] \cup {Nothing}
    /\ sock \in [Session -> {"new", "open", "closed"}]
    /\ rd \in [Session -> {"none", "header", "body"}]
    /\ \A s \in Session :
         /\ Len(queue[s]) <= MaxQueue
         /\ \A i \in DOMAIN ops[s] : ops[s][i].left \in 1..Len(Parts(ops[s][i].f))
         /\ ins[s] \in 0..MaxIn /\ beats[s] \in 0..MaxBeats /\ sent[s] \in 0..MaxSend
         /\ {wdone[s], slow[s], rarmed[s], rdue[s]} \subseteq BOOLEAN

(* At most one message of a session is being written, and it is the first  *)
(* of the queue: do_write keeps a reference to it until its handler pops   *)
(* it, so nothing else may take it from there.                             *)
FrontWritten == \A s \in Session :
    LET m == {i \in DOMAIN ops[s] : ops[s][i].f # 0}
    IN  /\ Cardinality(m) + (IF wdone[s] THEN 1 ELSE 0) <= 1
        /\ \A i \in m : queue[s] # <<>> /\ ops[s][i].f = Head(queue[s])
        /\ wdone[s] => queue[s] # <<>>

(* As long as the socket takes at least the header of every frame at once, *)
(* so that no header is read from a dead variable and no heartbeat starts  *)
(* in the middle of a message that waits, a peer reads whole frames, a     *)
(* body right behind its header, with the messages in the order of send    *)
(* and none of them twice.                                                 *)
WireReadable == \A s \in Session : ~slow[s] => peer[s].ok

(* One message at a time goes out, and arrives whole and in order.         *)
SendsWhole == FrontWritten /\ WireReadable

(* The server knows every open session, also one whose accept handler ran  *)
(* while stop() did.                                                       *)
OpenListed == \A s \in Session : sock[s] = "open" => s \in sessions

(* The state is well formed and sessions_ has every open session.          *)
ServerConsistent == TcpTypeOK /\ OpenListed

(* A session whose peer falls silent is closed and forgotten, whatever the *)
(* heartbeats do, unless stop() hangs.                                     *)
SilentGone == \A s \in Session :
    sock[s] = "open" ~> (sock[s] = "closed" /\ s \notin sessions) \/ stop = "hung"

(* stop() ends if none of the sessions it finds is open.                   *)
StopEndsIfClosed == stop = "closing" /\ (\A s \in todo : sock[s] = "closed") ~> stop = "done"

(* Nothing waits for ever: silent sessions go, and a stop() that finds     *)
(* nothing open ends.                                                      *)
NothingLingers == SilentGone /\ StopEndsIfClosed
=============================================================================
