---------------------------- MODULE MessageDispatch ----------------------------
(***************************************************************************)
(* How the gateway takes a frame of a WebSocket to a worker and back: the  *)
(* message handler of GatewayServer, the count of messages in hand that    *)
(* limits them, the thread pool (TaskPool is what it promises), the        *)
(* processing of a message and the delayed close of a session whose token  *)
(* is refused.                                                             *)
(*                                                                         *)
(* A session reads one frame at a time and calls the handler in its own io *)
(* thread, so handlers of different sessions interleave.  init_server has  *)
(* started the pool before the first frame, and only the end of the        *)
(* process shuts it down: Enqueue fails here only for want of memory.      *)
(***************************************************************************)
EXTENDS TaskPool

CONSTANTS
    Session, NoSession,
    Msg, NoMsg,
    Limit,      \* max_ws_inflight_messages_
    Width,      \* the counter is a size_t: it counts modulo Width
    MaxFaults   \* bound: calls of Enqueue or of a handler that throw

\* The task that closes the session of m after a delay.
Closer(m) == <<"close", m>>

ASSUME DispatchTasks == Task = Msg \cup {Closer(m) : m \in Msg}
ASSUME DispatchNone ==
    /\ NoSession \notin Session /\ NoMsg \notin Msg
    /\ \A m \in Msg : Closer(m) \notin Msg
ASSUME DispatchSizes ==
    /\ IsFiniteSet(Session) /\ IsFiniteSet(Msg)
    /\ Limit \in Nat \ {0} /\ Width \in Nat /\ MaxFaults \in Nat
    /\ Width > Limit + Cardinality(Session) + Cardinality(Msg) + MaxFaults

VARIABLES
    ws_inflight_messages_,
    at,       \* where the handler of each session is
    cur,      \* the message it handles
    from,     \* the session a message came from
    cmd,      \* whether the command of a message has a processor
    stage,    \* how far a message has come
    answer,   \* what its sender is sent
    closed,   \* sessions whose close() was posted, or that failed
    faults,
    doubles   \* failed calls of Enqueue that were counted off twice

dispatch == <<ws_inflight_messages_, at, cur, from, cmd, stage, answer, closed, faults,
              doubles>>
vars == <<pool, dispatch>>

Stage == {"unsent", "dropped", "handling", "refused", "pooled", "closing", "ended",
          "gone"}

TypeOK ==
    /\ PoolType /\ up /\ accepting
    /\ ws_inflight_messages_ \in 0..(Width - 1)
    /\ at \in [Session -> {"read", "enqueue", "refuse"}]
    /\ cur \in [Session -> Msg \cup {NoMsg}]
    /\ from \in [Msg -> Session \cup {NoSession}]
    /\ cmd \in [Msg -> {"known", "unknown"}]
    /\ stage \in [Msg -> Stage]
    /\ answer \in [Msg -> {"none", "busy", "response", "auth_failed"}]
    /\ closed \subseteq Session
    /\ faults \in 0..MaxFaults /\ doubles \in 0..faults
    /\ \A s \in Session : at[s] = "read" <=> cur[s] = NoMsg

Init ==
    /\ up = TRUE /\ accepting = TRUE
    /\ queue = << >> /\ running = {} /\ done = {}
    /\ ws_inflight_messages_ = 0
    /\ at = [s \in Session |-> "read"]
    /\ cur = [s \in Session |-> NoMsg]
    /\ from = [m \in Msg |-> NoSession]
    /\ cmd = [m \in Msg |-> "known"]
    /\ stage = [m \in Msg |-> "unsent"]
    /\ answer = [m \in Msg |-> "none"]
    /\ closed = {}
    /\ faults = 0 /\ doubles = 0

fetch_add(n) == (n + 1) % Width
fetch_sub(n) == (n + Width - 1) % Width

\* send() on a closed session sends nothing.
send(m, what) ==
    answer' = IF from[m] \in closed THEN answer ELSE [answer EXCEPT ![m] = what]

-----------------------------------------------------------------------------
(* The message handler, in the io thread of the session. *)

\* A frame that cannot be parsed is dropped; the sender hears nothing.
ParseFails(s, m) ==
    /\ at[s] = "read" /\ s \notin closed /\ stage[m] = "unsent"
    /\ stage' = [stage EXCEPT ![m] = "dropped"]
    /\ from' = [from EXCEPT ![m] = s]
    /\ UNCHANGED <<pool, ws_inflight_messages_, at, cur, cmd, answer, closed, faults, doubles>>

\* Mutant of Receive: the count before the addition is compared with the limit.
ReceiveComparesOld(s, m) ==
    /\ at[s] = "read" /\ s \notin closed /\ stage[m] = "unsent"
    /\ stage' = [stage EXCEPT ![m] = "handling"]
    /\ from' = [from EXCEPT ![m] = s]
    /\ cur' = [cur EXCEPT ![s] = m]
    /\ \E c \in {"known", "unknown"} : cmd' = [cmd EXCEPT ![m] = c]
    /\ ws_inflight_messages_' = fetch_add(ws_inflight_messages_)
    /\ at' = [at EXCEPT ![s] = IF ws_inflight_messages_ > Limit THEN "refuse" ELSE "enqueue"]
    /\ UNCHANGED <<pool, answer, closed, faults, doubles>>

\* Mutant of Receive: the limit itself is refused.
ReceiveBelowLimit(s, m) ==
    /\ at[s] = "read" /\ s \notin closed /\ stage[m] = "unsent"
    /\ stage' = [stage EXCEPT ![m] = "handling"]
    /\ from' = [from EXCEPT ![m] = s]
    /\ cur' = [cur EXCEPT ![s] = m]
    /\ \E c \in {"known", "unknown"} : cmd' = [cmd EXCEPT ![m] = c]
    /\ ws_inflight_messages_' = fetch_add(ws_inflight_messages_)
    /\ at' = [at EXCEPT ![s] = IF ws_inflight_messages_' >= Limit THEN "refuse" ELSE "enqueue"]
    /\ UNCHANGED <<pool, answer, closed, faults, doubles>>

Receive(s, m) ==
    /\ at[s] = "read" /\ s \notin closed /\ stage[m] = "unsent"
    /\ stage' = [stage EXCEPT ![m] = "handling"]
    /\ from' = [from EXCEPT ![m] = s]
    /\ cur' = [cur EXCEPT ![s] = m]
    /\ \E c \in {"known", "unknown"} : cmd' = [cmd EXCEPT ![m] = c]
    /\ ws_inflight_messages_' = fetch_add(ws_inflight_messages_)
    /\ at' = [at EXCEPT ![s] = IF ws_inflight_messages_' > Limit THEN "refuse" ELSE "enqueue"]
    /\ UNCHANGED <<pool, answer, closed, faults, doubles>>

\* Mutant of Refuse: the sender is not told.
RefuseQuietly(s) ==
    /\ at[s] = "refuse"
    /\ ws_inflight_messages_' = fetch_sub(ws_inflight_messages_)
    /\ UNCHANGED answer
    /\ stage' = [stage EXCEPT ![cur[s]] = "refused"]
    /\ at' = [at EXCEPT ![s] = "read"]
    /\ cur' = [cur EXCEPT ![s] = NoMsg]
    /\ UNCHANGED <<pool, from, cmd, closed, faults, doubles>>

\* Over the limit, and in the catch block of a failed Enqueue: the count goes down
\* and the sender is told to retry.
Refuse(s) ==
    /\ at[s] = "refuse"
    /\ ws_inflight_messages_' = fetch_sub(ws_inflight_messages_)
    /\ send(cur[s], "busy")
    /\ stage' = [stage EXCEPT ![cur[s]] = "refused"]
    /\ at' = [at EXCEPT ![s] = "read"]
    /\ cur' = [cur EXCEPT ![s] = NoMsg]
    /\ UNCHANGED <<pool, from, cmd, closed, faults, doubles>>

Enqueue(s) ==
    /\ at[s] = "enqueue"
    /\ Submit(cur[s])
    /\ stage' = [stage EXCEPT ![cur[s]] = "pooled"]
    /\ at' = [at EXCEPT ![s] = "read"]
    /\ cur' = [cur EXCEPT ![s] = NoMsg]
    /\ UNCHANGED <<ws_inflight_messages_, from, cmd, answer, closed, faults, doubles>>

\* Enqueue throws.  If the guard of the task was made by then, its destructor counts
\* the message off, and the catch block does so again.
EnqueueThrows(s) ==
    /\ at[s] = "enqueue" /\ faults < MaxFaults
    /\ faults' = faults + 1
    /\ \/ /\ ws_inflight_messages_' = fetch_sub(ws_inflight_messages_)
          /\ doubles' = doubles + 1
       \/ UNCHANGED <<ws_inflight_messages_, doubles>>
    /\ at' = [at EXCEPT ![s] = "refuse"]
    /\ UNCHANGED <<pool, cur, from, cmd, stage, answer, closed>>

\* The peer goes away.
Disconnect(s) ==
    /\ at[s] = "read" /\ s \notin closed
    /\ closed' = closed \cup {s}
    /\ UNCHANGED <<pool, ws_inflight_messages_, at, cur, from, cmd, stage, answer, faults,
                   doubles>>

-----------------------------------------------------------------------------
(* The task, in a worker. *)

StartTask ==
    /\ \E t \in Task : Start(t)
    /\ UNCHANGED dispatch

\* The processor of the command makes a response, or an error response.
Respond(m) ==
    /\ m \in running /\ stage[m] = "pooled" /\ cmd[m] = "known"
    /\ send(m, "response")
    /\ stage' = [stage EXCEPT ![m] = "ended"]
    /\ UNCHANGED <<pool, ws_inflight_messages_, at, cur, from, cmd, closed, faults, doubles>>

\* No processor for the command: the result has a code and no body, nothing is sent.
UnknownCommand(m) ==
    /\ m \in running /\ stage[m] = "pooled" /\ cmd[m] = "unknown"
    /\ stage' = [stage EXCEPT ![m] = "ended"]
    /\ UNCHANGED <<pool, ws_inflight_messages_, at, cur, from, cmd, answer, closed, faults,
                   doubles>>

\* The processor throws: again a code and no body.
ProcessorThrows(m) ==
    /\ m \in running /\ stage[m] = "pooled" /\ cmd[m] = "known"
    /\ faults < MaxFaults
    /\ faults' = faults + 1
    /\ stage' = [stage EXCEPT ![m] = "ended"]
    /\ UNCHANGED <<pool, ws_inflight_messages_, at, cur, from, cmd, answer, closed, doubles>>

\* The processor refuses the token: the sender is told so, and the session will close.
AuthFailed(m) ==
    /\ m \in running /\ stage[m] = "pooled" /\ cmd[m] = "known"
    /\ send(m, "auth_failed")
    /\ stage' = [stage EXCEPT ![m] = "closing"]
    /\ UNCHANGED <<pool, ws_inflight_messages_, at, cur, from, cmd, closed, faults, doubles>>

\* Mutant of schedule_delayed_close: the task waits for the closing task.
schedule_and_wait(m) ==
    /\ m \in running /\ stage[m] = "closing"
    /\ \/ Submit(Closer(m)) /\ UNCHANGED stage
       \/ /\ Closer(m) \in done
          /\ stage' = [stage EXCEPT ![m] = "ended"]
          /\ UNCHANGED pool
    /\ UNCHANGED <<ws_inflight_messages_, at, cur, from, cmd, answer, closed, faults, doubles>>

\* A task of its own closes the session; if it cannot be queued, this one does.
schedule_delayed_close(m) ==
    /\ m \in running /\ stage[m] = "closing"
    /\ stage' = [stage EXCEPT ![m] = "ended"]
    /\ \/ Submit(Closer(m)) /\ UNCHANGED <<closed, faults>>
       \/ /\ faults < MaxFaults
          /\ faults' = faults + 1
          /\ closed' = closed \cup {from[m]}
          /\ UNCHANGED pool
    /\ UNCHANGED <<ws_inflight_messages_, at, cur, from, cmd, answer, doubles>>

\* The task object dies with the guard it holds.
TaskEnds(m) ==
    /\ stage[m] = "ended"
    /\ Finish(m)
    /\ stage' = [stage EXCEPT ![m] = "gone"]
    /\ ws_inflight_messages_' = fetch_sub(ws_inflight_messages_)
    /\ UNCHANGED <<at, cur, from, cmd, answer, closed, faults, doubles>>

CloserEnds(m) ==
    /\ Finish(Closer(m))
    /\ closed' = closed \cup {from[m]}
    /\ UNCHANGED <<ws_inflight_messages_, at, cur, from, cmd, stage, answer, faults, doubles>>

-----------------------------------------------------------------------------
Handler(s) == Refuse(s) \/ Enqueue(s) \/ EnqueueThrows(s)
Worker(m) ==
    \/ Respond(m) \/ UnknownCommand(m) \/ ProcessorThrows(m) \/ AuthFailed(m)
    \/ schedule_delayed_close(m) \/ TaskEnds(m) \/ CloserEnds(m)

Next ==
    \/ \E s \in Session, m \in Msg : ParseFails(s, m) \/ Receive(s, m)
    \/ \E s \in Session : Handler(s) \/ Disconnect(s)
    \/ \E m \in Msg : Worker(m)
    \/ StartTask

Spec == Init /\ [][Next]_vars

\* Io threads return from the handler, the pool starts its tasks (TaskPool), and tasks
\* end: processing waits for nothing but calls with a deadline.
Fairness ==
    /\ \A s \in Session : WF_vars(Handler(s))
    /\ \A m \in Msg : WF_vars(Worker(m))
    /\ WF_vars(StartTask)

FairSpec == Spec /\ Fairness

-----------------------------------------------------------------------------
(* Properties. *)

Handled == {s \in Session : at[s] # "read"}
InPool == {m \in Msg : stage[m] \in {"pooled", "closing", "ended"}}
InHand == Cardinality(Handled) + Cardinality(InPool)

\* The count is the number of messages between fetch_add and the fetch_sub of the
\* handler or of the guard, short of the ones counted off twice; it wraps with them.
InflightCounts ==
    (ws_inflight_messages_ + doubles) % Width = InHand

\* The limit holds for the messages queued and running, for handlers that interleave
\* between the count and the queue; each double fetch_sub lets one more in.
WithinLimit == Cardinality(InPool) <= Limit + doubles

\* The counter tells the messages in hand, and they are within the limit.
InflightBounded == TypeOK /\ InflightCounts /\ WithinLimit

\* A message is refused for the limit only if so many others were in hand, or if more
\* messages have been counted off twice than are in hand with it: then the size_t has
\* wrapped, and the gateway refuses however idle it is.
BusyOnlyAtLimit ==
    [][\A s \in Session :
         at[s] = "read" /\ at'[s] = "refuse"
            => InHand >= Limit \/ InHand + 1 < doubles]_vars

\* Every message with a processor that does not throw is answered, with a response, a
\* refusal of its token or the request to retry, unless its session closes.
KnownAnswered ==
    faults = 0 =>
      \A m \in Msg : stage[m] \in {"refused", "gone"} /\ cmd[m] = "known"
                        => answer[m] # "none" \/ from[m] \in closed

\* A frame that parses is answered or its session closes.
Answered ==
    \A m \in Msg : stage[m] = "handling" ~> answer[m] # "none" \/ from[m] \in closed

\* A message that is taken in is finished with, and gives its place back.
PlaceGivenBack == \A m \in Msg : stage[m] = "handling" ~> stage[m] \in {"refused", "gone"}

\* The close of a session whose token was refused is posted (when it is carried out is
\* CloseCompletes of ConnectionManager), even when the pool cannot take the closing task.
AuthFailedCloses == \A m \in Msg : answer[m] = "auth_failed" ~> from[m] \in closed

\* What is taken in comes to its end: the message is finished with, and the close of a
\* session whose token was refused is posted.
TasksConclude == PlaceGivenBack /\ AuthFailedCloses
=============================================================================
