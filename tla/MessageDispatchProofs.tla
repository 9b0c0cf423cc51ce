------------------------- MODULE MessageDispatchProofs -------------------------
(***************************************************************************)
(* Proofs about MessageDispatch, for any sets of sessions and messages,    *)
(* any limit, any number of workers and any number of failures:            *)
(*   - InflightBounded: the counter tells the messages in hand, modulo its *)
(*     width, and the messages of the pool are within the limit;           *)
(*   - KnownAnswered: without failures, what has a processor is answered;  *)
(*   - BusyOnlyAtLimit: who is refused, and why.                           *)
(* WithinLimit is not inductive: a handler that has been let in still has  *)
(* to queue its message, so the invariant bounds the messages of the pool  *)
(* and those handlers together (Admitted).                                 *)
(***************************************************************************)
EXTENDS MessageDispatch, SequenceTheorems, FiniteSetTheorems, TLAPS

\* The handlers that were let in and have not queued their message yet.
Entering == {s \in Session : at[s] = "enqueue"}

\* A handler has a message of its own in hand.
HandlerOK ==
    \A s \in Session : at[s] # "read" => /\ cur[s] \in Msg /\ stage[cur[s]] = "handling"
                                         /\ from[cur[s]] = s

\* A message that was sent, or has a task to close its session, has a session.
FromOK ==
    \A m \in Msg : stage[m] # "unsent" \/ Closer(m) \in Submitted => from[m] \in Session

\* Who is let in, and is not done, keeps within the limit.
Admitted == Cardinality(Entering) + Cardinality(InPool) <= Limit + doubles

\* Once its processor has returned, a message with one is answered.
AnswerOK ==
    faults = 0 =>
      \A m \in Msg : stage[m] \in {"refused", "closing", "ended", "gone"} /\ cmd[m] = "known"
                        => answer[m] # "none" \/ from[m] \in closed

DispatchInv == TypeOK /\ HandlerOK /\ FromOK /\ InflightCounts /\ Admitted /\ AnswerOK
-----------------------------------------------------------------------------
(* The counter. *)

\* The remainder of what is below twice the divisor.
LEMMA Remainder ==
    ASSUME NEW w \in Nat, w > 0, NEW x \in Nat, x < 2 * w
    PROVE  x % w = IF x < w THEN x ELSE x - w
  BY SMT

\* What fetch_add and fetch_sub do to the count of the messages in hand: n is that
\* count, c the counter and d the number of messages counted off twice.
LEMMA Counting ==
    ASSUME NEW c \in 0..(Width - 1), NEW d \in 0..MaxFaults, NEW n \in Nat,
           (c + d) % Width = n
    PROVE  /\ fetch_add(c) \in 0..(Width - 1) /\ fetch_sub(c) \in 0..(Width - 1)
           /\ n + 1 < Width => (fetch_add(c) + d) % Width = n + 1
           /\ n > 0 => (fetch_sub(c) + d) % Width = n - 1
           /\ d + 1 <= MaxFaults => (fetch_sub(c) + (d + 1)) % Width = n
  <1>1. Width \in Nat /\ MaxFaults \in Nat /\ MaxFaults + 1 < Width
    <2>1. Cardinality(Session) \in Nat /\ Cardinality(Msg) \in Nat
      BY DispatchSizes, FS_CardinalityType
    <2> QED
      BY <2>1, DispatchSizes
  <1>2. n = IF c + d < Width THEN c + d ELSE c + d - Width
    BY <1>1, Remainder
  <1>3. fetch_add(c) = IF c + 1 < Width THEN c + 1 ELSE 0
    BY <1>1, Remainder DEF fetch_add
  <1>4. fetch_sub(c) = IF c = 0 THEN Width - 1 ELSE c - 1
    BY <1>1, Remainder DEF fetch_sub
  <1>5. n + 1 < Width => (fetch_add(c) + d) % Width = n + 1
    BY <1>1, <1>2, <1>3, Remainder
  <1>6. n > 0 => (fetch_sub(c) + d) % Width = n - 1
    BY <1>1, <1>2, <1>4, Remainder
  <1>7. d + 1 <= MaxFaults => (fetch_sub(c) + (d + 1)) % Width = n
    BY <1>1, <1>2, <1>4, Remainder
  <1> QED
    BY <1>1, <1>3, <1>4, <1>5, <1>6, <1>7

\* The groups that are counted are finite, and together smaller than the width.
LEMMA Sizes ==
    /\ IsFiniteSet(Handled) /\ Cardinality(Handled) \in Nat
    /\ IsFiniteSet(Entering) /\ Cardinality(Entering) \in Nat
    /\ IsFiniteSet(InPool) /\ Cardinality(InPool) \in Nat
    /\ InHand \in Nat /\ InHand + Limit + MaxFaults < Width
  <1>1. /\ IsFiniteSet(Session) /\ Cardinality(Session) \in Nat
        /\ IsFiniteSet(Msg) /\ Cardinality(Msg) \in Nat
    BY DispatchSizes, FS_CardinalityType
  <1>2. /\ Handled \subseteq Session /\ Entering \subseteq Session /\ InPool \subseteq Msg
    BY DEF Handled, Entering, InPool
  <1>3. /\ IsFiniteSet(Handled) /\ Cardinality(Handled) \in Nat
        /\ Cardinality(Handled) <= Cardinality(Session)
    BY <1>1, <1>2, FS_Subset, FS_CardinalityType
  <1>4. IsFiniteSet(Entering) /\ Cardinality(Entering) \in Nat
    BY <1>1, <1>2, FS_Subset, FS_CardinalityType
  <1>5. /\ IsFiniteSet(InPool) /\ Cardinality(InPool) \in Nat
        /\ Cardinality(InPool) <= Cardinality(Msg)
    BY <1>1, <1>2, FS_Subset, FS_CardinalityType
  <1> QED
    BY <1>1, <1>3, <1>4, <1>5, DispatchSizes DEF InHand

\* A handler that enters is one of those counted.
LEMMA EnteringCounted == Cardinality(Entering) <= Cardinality(Handled)
  <1>1. Entering \subseteq Handled
    BY DEF Entering, Handled
  <1> QED
    BY <1>1, Sizes, FS_Subset
-----------------------------------------------------------------------------
(* The type invariant. *)

\* The steps of the pool keep its state well typed.
LEMMA PoolSteps ==
    ASSUME PoolType, NEW t \in Task, Submit(t) \/ Start(t) \/ Finish(t) \/ UNCHANGED pool
    PROVE  PoolType' /\ UNCHANGED <<up, accepting>>
  <1>1. CASE Submit(t)
    BY <1>1, AppendProperties DEF PoolType, Submit
  <1>2. CASE Start(t)
    BY <1>2, HeadTailProperties DEF PoolType, Start
  <1>3. CASE Finish(t)
    BY <1>3 DEF PoolType, Finish
  <1>4. CASE UNCHANGED pool
    BY <1>4 DEF PoolType, pool
  <1> QED
    BY <1>1, <1>2, <1>3, <1>4

\* What has been submitted is never forgotten, and only Submit adds to it.
LEMMA SubmittedSteps ==
    ASSUME PoolType, NEW t \in Task
    PROVE  /\ Submit(t) => Submitted' = Submitted \cup {t}
           /\ Start(t) \/ Finish(t) \/ UNCHANGED pool => Submitted' = Submitted
  <1>0. queue \in Seq(Task) /\ Len(queue) \in Nat /\ DOMAIN queue = 1..Len(queue)
    BY LenProperties DEF PoolType
  <1>1. ASSUME Submit(t) PROVE Submitted' = Submitted \cup {t}
    <2>1. /\ queue' \in Seq(Task) /\ Len(queue') = Len(queue) + 1
          /\ \A i \in 1..Len(queue) : queue'[i] = queue[i]
          /\ queue'[Len(queue) + 1] = t /\ DOMAIN queue' = 1..Len(queue')
      BY <1>0, <1>1, AppendProperties, LenProperties DEF Submit
    <2>2. \A x : x \in Range1(queue') <=> x \in Range1(queue) \/ x = t
      <3>1. ASSUME NEW x \in Range1(queue') PROVE x \in Range1(queue) \/ x = t
        <4>1. PICK i \in DOMAIN queue' : x = queue'[i]
          BY DEF Range1
        <4>2. i \in 1..Len(queue) \/ i = Len(queue) + 1
          BY <1>0, <2>1, <4>1
        <4> QED
          BY <1>0, <2>1, <4>1, <4>2 DEF Range1
      <3>2. ASSUME NEW x \in Range1(queue) PROVE x \in Range1(queue')
        <4>1. PICK i \in DOMAIN queue : x = queue[i]
          BY DEF Range1
        <4>2. i \in DOMAIN queue' /\ queue'[i] = x
          BY <1>0, <2>1, <4>1
        <4> QED
          BY <4>2 DEF Range1
      <3>3. t \in Range1(queue')
        <4>1. Len(queue) + 1 \in DOMAIN queue'
          BY <1>0, <2>1
        <4> QED
          BY <2>1, <4>1 DEF Range1
      <3> QED
        BY <3>1, <3>2, <3>3
    <2> QED
      BY <1>1, <2>2 DEF Submitted, Submit
  <1>2. ASSUME Start(t) PROVE Submitted' = Submitted
    <2>1. /\ queue' \in Seq(Task) /\ Len(queue') = Len(queue) - 1 /\ Len(queue) > 0
          /\ \A i \in 1..Len(queue') : queue'[i] = queue[i + 1]
          /\ queue[1] = t /\ DOMAIN queue' = 1..Len(queue')
      BY <1>0, <1>2, HeadTailProperties, LenProperties, EmptySeq DEF Start
    <2>2. ASSUME NEW x \in Range1(queue') PROVE x \in Range1(queue)
      <3>1. PICK i \in DOMAIN queue' : x = queue'[i]
        BY DEF Range1
      <3>2. i + 1 \in DOMAIN queue /\ queue[i + 1] = x
        BY <1>0, <2>1, <3>1
      <3> QED
        BY <3>2 DEF Range1
    <2>3. ASSUME NEW x \in Range1(queue) PROVE x \in Range1(queue') \/ x = t
      <3>1. PICK i \in DOMAIN queue : x = queue[i]
        BY DEF Range1
      <3>2. CASE i = 1
        BY <2>1, <3>1, <3>2
      <3>3. CASE i # 1
        <4>1. i - 1 \in DOMAIN queue' /\ queue'[i - 1] = queue[(i - 1) + 1] /\ (i - 1) + 1 = i
          BY <1>0, <2>1, <3>1, <3>3
        <4> QED
          BY <3>1, <4>1 DEF Range1
      <3> QED
        BY <3>2, <3>3
    <2>4. t \in Range1(queue)
      BY <1>0, <2>1 DEF Range1
    <2> QED
      BY <1>2, <2>2, <2>3, <2>4 DEF Submitted, Start
  <1>3. ASSUME Finish(t) PROVE Submitted' = Submitted
    BY <1>3 DEF Submitted, Finish
  <1>4. ASSUME UNCHANGED pool PROVE Submitted' = Submitted
    BY <1>4 DEF Submitted, pool
  <1> QED
    BY <1>1, <1>2, <1>3, <1>4

\* Messages and the tasks that close their sessions are tasks, and different ones.
LEMMA Tasks ==
    /\ \A m \in Msg : m \in Task /\ Closer(m) \in Task /\ Closer(m) \notin Msg
    /\ \A m, n \in Msg : Closer(m) = Closer(n) => m = n
    /\ NoMsg \notin Msg
  BY DispatchTasks, DispatchNone DEF Closer

\* The handler's steps.
LEMMA HandlerType ==
    ASSUME DispatchInv, NEW s \in Session,
           \/ \E m \in Msg : ParseFails(s, m) \/ Receive(s, m)
           \/ Refuse(s) \/ Enqueue(s) \/ EnqueueThrows(s) \/ Disconnect(s)
    PROVE  TypeOK' /\ HandlerOK'
  <1>0. TypeOK /\ HandlerOK /\ InflightCounts
    BY DEF DispatchInv
  <1>a. /\ fetch_add(ws_inflight_messages_) \in 0..(Width - 1)
        /\ fetch_sub(ws_inflight_messages_) \in 0..(Width - 1)
        /\ doubles \in 0..MaxFaults
    <2>1. doubles \in 0..MaxFaults
      BY <1>0, DispatchSizes DEF TypeOK
    <2> QED
      BY <1>0, <2>1, Counting, Sizes DEF TypeOK, InflightCounts
  <1>b. ASSUME UNCHANGED pool PROVE PoolType' /\ up' /\ accepting'
    BY <1>0, <1>b DEF TypeOK, PoolType, pool
  <1> USE DEF Stage
  <1>1. ASSUME NEW m \in Msg, ParseFails(s, m) PROVE TypeOK' /\ HandlerOK'
    <2>1. \A u \in Session : at[u] # "read" => cur[u] # m
      BY <1>0, <1>1 DEF HandlerOK, ParseFails
    <2>2. TypeOK'
      BY <1>0, <1>1, <1>b DEF TypeOK, ParseFails
    <2>3. HandlerOK'
      BY <1>0, <1>1, <2>1 DEF TypeOK, HandlerOK, ParseFails
    <2> QED
      BY <2>2, <2>3
  <1>2. ASSUME NEW m \in Msg, Receive(s, m) PROVE TypeOK' /\ HandlerOK'
    <2>1. \A u \in Session : at[u] # "read" => cur[u] # m
      BY <1>0, <1>2 DEF HandlerOK, Receive
    <2>2. TypeOK'
      <3>1. cmd' \in [Msg -> {"known", "unknown"}]
        BY <1>0, <1>2 DEF TypeOK, Receive
      <3>2. at' \in [Session -> {"read", "enqueue", "refuse"}] /\ at'[s] # "read"
        BY <1>0, <1>2 DEF TypeOK, Receive
      <3>3. \A u \in Session : at'[u] = "read" <=> cur'[u] = NoMsg
        BY <1>0, <1>2, <3>2, Tasks DEF TypeOK, Receive
      <3> QED
        BY <1>0, <1>2, <1>a, <1>b, <3>1, <3>2, <3>3 DEF TypeOK, Receive
    <2>3. HandlerOK'
      BY <1>0, <1>2, <2>1 DEF TypeOK, HandlerOK, Receive
    <2> QED
      BY <2>2, <2>3
  <1>c. at[s] # "read" => /\ cur[s] \in Msg
                          /\ \A u \in Session : at[u] # "read" /\ u # s => cur[u] # cur[s]
    BY <1>0 DEF HandlerOK
  <1>3. CASE Refuse(s)
    <2>1. answer' \in [Msg -> {"none", "busy", "response", "auth_failed"}]
      BY <1>0, <1>3, <1>c DEF TypeOK, Refuse, send
    <2>2. TypeOK'
      BY <1>0, <1>3, <1>a, <1>b, <1>c, <2>1 DEF TypeOK, Refuse
    <2>3. HandlerOK'
      BY <1>0, <1>3, <1>c DEF TypeOK, HandlerOK, Refuse
    <2> QED
      BY <2>2, <2>3
  <1>4. CASE Enqueue(s)
    <2>1. PoolType' /\ up' /\ accepting'
      BY <1>0, <1>4, <1>c, PoolSteps, Tasks DEF TypeOK, Enqueue
    <2>2. TypeOK'
      BY <1>0, <1>4, <1>c, <2>1 DEF TypeOK, Enqueue
    <2>3. HandlerOK'
      BY <1>0, <1>4, <1>c DEF TypeOK, HandlerOK, Enqueue
    <2> QED
      BY <2>2, <2>3
  <1>5. CASE EnqueueThrows(s)
    <2>1. faults' \in 0..MaxFaults /\ doubles' \in 0..faults'
      BY <1>0, <1>5, DispatchSizes DEF TypeOK, EnqueueThrows
    <2>2. TypeOK'
      BY <1>0, <1>5, <1>a, <1>b, <2>1 DEF TypeOK, EnqueueThrows
    <2>3. HandlerOK'
      BY <1>0, <1>5 DEF TypeOK, HandlerOK, EnqueueThrows
    <2> QED
      BY <2>2, <2>3
  <1>6. CASE Disconnect(s)
    <2>1. TypeOK'
      BY <1>0, <1>6, <1>b DEF TypeOK, Disconnect
    <2>2. HandlerOK'
      BY <1>0, <1>6 DEF HandlerOK, Disconnect
    <2> QED
      BY <2>1, <2>2
  <1> QED
    BY <1>1, <1>2, <1>3, <1>4, <1>5, <1>6

\* The worker's steps; no handler has a message in hand that a worker has.
LEMMA WorkerType ==
    ASSUME DispatchInv, NEW m \in Msg, Worker(m)
    PROVE  TypeOK' /\ HandlerOK'
  <1>0. TypeOK /\ HandlerOK /\ FromOK /\ InflightCounts
    BY DEF DispatchInv
  <1>a. fetch_sub(ws_inflight_messages_) \in 0..(Width - 1)
    <2>1. doubles \in 0..MaxFaults
      BY <1>0, DispatchSizes DEF TypeOK
    <2> QED
      BY <1>0, <2>1, Counting, Sizes DEF TypeOK, InflightCounts
  <1>b. ASSUME \/ UNCHANGED pool \/ Submit(Closer(m)) \/ Finish(m) \/ Finish(Closer(m))
        PROVE  PoolType' /\ up' /\ accepting'
    BY <1>0, <1>b, PoolSteps, Tasks DEF TypeOK
  <1> USE DEF Stage
  <1>1. CASE Respond(m) \/ UnknownCommand(m) \/ AuthFailed(m)
    <2>1. answer' \in [Msg -> {"none", "busy", "response", "auth_failed"}]
      BY <1>0, <1>1 DEF TypeOK, Respond, UnknownCommand, AuthFailed, send
    <2>2. TypeOK'
      BY <1>0, <1>1, <1>b, <2>1 DEF TypeOK, Respond, UnknownCommand, AuthFailed
    <2>3. HandlerOK'
      BY <1>0, <1>1 DEF TypeOK, HandlerOK, Respond, UnknownCommand, AuthFailed
    <2> QED
      BY <2>2, <2>3
  <1>2. CASE ProcessorThrows(m)
    <2>1. faults' \in 0..MaxFaults /\ doubles' \in 0..faults'
      BY <1>0, <1>2, DispatchSizes DEF TypeOK, ProcessorThrows
    <2>2. TypeOK'
      BY <1>0, <1>2, <1>b, <2>1 DEF TypeOK, ProcessorThrows
    <2>3. HandlerOK'
      BY <1>0, <1>2 DEF TypeOK, HandlerOK, ProcessorThrows
    <2> QED
      BY <2>2, <2>3
  <1>3. CASE schedule_delayed_close(m)
    <2>1. faults' \in 0..MaxFaults /\ doubles' \in 0..faults'
      BY <1>0, <1>3, DispatchSizes DEF TypeOK, schedule_delayed_close
    <2>2. closed' \subseteq Session
      BY <1>0, <1>3 DEF TypeOK, FromOK, schedule_delayed_close
    <2>3. PoolType' /\ up' /\ accepting'
      BY <1>3, <1>b DEF schedule_delayed_close
    <2>4. TypeOK'
      BY <1>0, <1>3, <2>1, <2>2, <2>3 DEF TypeOK, schedule_delayed_close
    <2>5. HandlerOK'
      BY <1>0, <1>3 DEF TypeOK, HandlerOK, schedule_delayed_close
    <2> QED
      BY <2>4, <2>5
  <1>4. CASE TaskEnds(m)
    <2>1. TypeOK'
      BY <1>0, <1>4, <1>a, <1>b DEF TypeOK, TaskEnds
    <2>2. HandlerOK'
      BY <1>0, <1>4 DEF TypeOK, HandlerOK, TaskEnds
    <2> QED
      BY <2>1, <2>2
  <1>5. CASE CloserEnds(m)
    <2>1. from[m] \in Session
      BY <1>0, <1>5 DEF FromOK, CloserEnds, Finish, Submitted
    <2>2. TypeOK'
      BY <1>0, <1>5, <1>b, <2>1 DEF TypeOK, CloserEnds
    <2>3. HandlerOK'
      BY <1>0, <1>5 DEF HandlerOK, CloserEnds
    <2> QED
      BY <2>2, <2>3
  <1> QED
    BY <1>1, <1>2, <1>3, <1>4, <1>5 DEF Worker

\* A message keeps its session.
LEMMA FromStep ==
    ASSUME DispatchInv, Next PROVE FromOK'
  <1>0. TypeOK /\ HandlerOK /\ FromOK /\ PoolType
    BY DEF DispatchInv, TypeOK
  <1>1. ASSUME NEW s \in Session, NEW m \in Msg, ParseFails(s, m) \/ Receive(s, m) PROVE FromOK'
    <2>1. /\ from' = [from EXCEPT ![m] = s] /\ UNCHANGED pool
          /\ \A n \in Msg : n # m => stage'[n] = stage[n]
      BY <1>0, <1>1 DEF TypeOK, ParseFails, Receive
    <2>2. Submitted' = Submitted
      BY <2>1 DEF pool, Submitted
    <2> QED
      BY <1>0, <2>1, <2>2 DEF FromOK, TypeOK
  <1>2. ASSUME NEW s \in Session, Refuse(s) \/ EnqueueThrows(s) \/ Disconnect(s) PROVE FromOK'
    <2>1. UNCHANGED <<pool, from>> /\ \A n \in Msg : stage'[n] # stage[n] => stage[n] # "unsent"
      BY <1>0, <1>2 DEF TypeOK, HandlerOK, Refuse, EnqueueThrows, Disconnect
    <2>2. Submitted' = Submitted
      BY <2>1 DEF pool, Submitted
    <2> QED
      BY <1>0, <2>1, <2>2 DEF FromOK
  <1>3. ASSUME NEW s \in Session, Enqueue(s) PROVE FromOK'
    <2>1. /\ cur[s] \in Msg /\ Submit(cur[s]) /\ from' = from
          /\ \A n \in Msg : stage'[n] # stage[n] => stage[n] # "unsent"
      BY <1>0, <1>3 DEF TypeOK, HandlerOK, Enqueue
    <2>2. Submitted' = Submitted \cup {cur[s]} /\ \A n \in Msg : Closer(n) # cur[s]
      BY <1>0, <2>1, SubmittedSteps, Tasks
    <2> QED
      BY <1>0, <2>1, <2>2 DEF FromOK
  <1>4. ASSUME NEW m \in Msg, Worker(m), UNCHANGED pool \/ Finish(m) \/ Finish(Closer(m))
        PROVE  FromOK'
    <2>1. Submitted' = Submitted
      BY <1>0, <1>4, SubmittedSteps, Tasks
    <2>2. /\ from' = from
          /\ \A n \in Msg : stage'[n] # stage[n] => stage[n] # "unsent"
      BY <1>0, <1>4 DEF TypeOK, Worker, Respond, UnknownCommand, ProcessorThrows, AuthFailed,
                        schedule_delayed_close, TaskEnds, CloserEnds
    <2> QED
      BY <1>0, <2>1, <2>2 DEF FromOK
  <1>5. ASSUME NEW m \in Msg, schedule_delayed_close(m), Submit(Closer(m)) PROVE FromOK'
    <2>1. Submitted' = Submitted \cup {Closer(m)}
      BY <1>0, <1>5, SubmittedSteps, Tasks
    <2>2. /\ from' = from /\ stage[m] = "closing"
          /\ \A n \in Msg : stage'[n] # stage[n] => stage[n] # "unsent"
      BY <1>0, <1>5 DEF TypeOK, schedule_delayed_close
    <2> QED
      BY <1>0, <2>1, <2>2, Tasks DEF FromOK
  <1>6. CASE StartTask
    <2>1. Submitted' = Submitted /\ UNCHANGED <<from, stage>>
      BY <1>0, <1>6, SubmittedSteps DEF StartTask, dispatch
    <2> QED
      BY <1>0, <2>1 DEF FromOK
  <1>7. ASSUME NEW m \in Msg, Worker(m) PROVE FromOK'
    BY <1>4, <1>5, <1>7 DEF Worker, Respond, UnknownCommand, ProcessorThrows, AuthFailed,
                            schedule_delayed_close, TaskEnds, CloserEnds
  <1> QED
    BY <1>1, <1>2, <1>3, <1>6, <1>7 DEF Next, Handler
-----------------------------------------------------------------------------
(* The count and the limit. *)

\* What a step does to the groups that are counted.
Grows(S, T, x) == T = S \cup {x} /\ x \notin S
Shrinks(S, T, x) == T = S \ {x} /\ x \in S

\* One more or one less, when the set is finite.
LEMMA OneMore ==
    ASSUME NEW S, NEW T, NEW x, IsFiniteSet(S)
    PROVE  /\ Grows(S, T, x) => Cardinality(T) = Cardinality(S) + 1
           /\ Shrinks(S, T, x) => Cardinality(T) = Cardinality(S) - 1 /\ Cardinality(S) > 0
  <1>1. Grows(S, T, x) => Cardinality(T) = Cardinality(S) + 1
    BY FS_AddElement DEF Grows
  <1>2. Shrinks(S, T, x) => Cardinality(T) = Cardinality(S) - 1
    BY FS_RemoveElement DEF Shrinks
  <1>3. Shrinks(S, T, x) => Cardinality(S) # 0
    BY FS_EmptySet DEF Shrinks
  <1>4. Cardinality(S) \in Nat
    BY FS_CardinalityType
  <1> QED
    BY <1>1, <1>2, <1>3, <1>4

\* The handler takes a message in hand.
LEMMA ReceiveGroups ==
    ASSUME TypeOK, HandlerOK, NEW s \in Session, NEW m \in Msg, Receive(s, m)
    PROVE  /\ Grows(Handled, Handled', s) /\ InPool' = InPool
           /\ at'[s] = "enqueue" => Grows(Entering, Entering', s)
           /\ at'[s] # "enqueue" => Entering' = Entering
           /\ at'[s] = IF ws_inflight_messages_' > Limit THEN "refuse" ELSE "enqueue"
           /\ \A u \in Session : u # s => at'[u] = at[u]
  <1>1. at'[s] = IF ws_inflight_messages_' > Limit THEN "refuse" ELSE "enqueue"
    BY DEF TypeOK, Receive
  <1>2. \A u \in Session : u # s => at'[u] = at[u]
    BY DEF TypeOK, Receive
  <1>3. at[s] = "read"
    BY DEF Receive
  <1>4. Grows(Handled, Handled', s)
    BY <1>1, <1>2, <1>3 DEF Grows, Handled
  <1>5. InPool' = InPool
    BY DEF TypeOK, Receive, InPool
  <1>6. at'[s] = "enqueue" => Grows(Entering, Entering', s)
    BY <1>2, <1>3 DEF Grows, Entering
  <1>7. at'[s] # "enqueue" => Entering' = Entering
    BY <1>2, <1>3 DEF Entering
  <1> QED
    BY <1>1, <1>2, <1>4, <1>5, <1>6, <1>7

\* The handler is done with it, one way or another.
LEMMA HandlerGroups ==
    ASSUME TypeOK, HandlerOK, NEW s \in Session
    PROVE  /\ Refuse(s) => /\ Shrinks(Handled, Handled', s)
                           /\ InPool' = InPool /\ Entering' = Entering
           /\ Enqueue(s) => /\ Shrinks(Handled, Handled', s) /\ Shrinks(Entering, Entering', s)
                            /\ Grows(InPool, InPool', cur[s])
           /\ EnqueueThrows(s) => /\ Handled' = Handled /\ InPool' = InPool
                                  /\ Shrinks(Entering, Entering', s)
  <1>1. ASSUME Refuse(s)
        PROVE  Shrinks(Handled, Handled', s) /\ InPool' = InPool /\ Entering' = Entering
    BY <1>1 DEF TypeOK, HandlerOK, Refuse, Shrinks, Handled, InPool, Entering
  <1>2. ASSUME Enqueue(s)
        PROVE  /\ Shrinks(Handled, Handled', s) /\ Shrinks(Entering, Entering', s)
               /\ Grows(InPool, InPool', cur[s])
    <2>1. Shrinks(Handled, Handled', s) /\ Shrinks(Entering, Entering', s)
      BY <1>2 DEF TypeOK, Enqueue, Shrinks, Handled, Entering
    <2>2. Grows(InPool, InPool', cur[s])
      BY <1>2 DEF TypeOK, HandlerOK, Enqueue, Grows, InPool
    <2> QED
      BY <2>1, <2>2
  <1>3. ASSUME EnqueueThrows(s)
        PROVE  Handled' = Handled /\ InPool' = InPool /\ Shrinks(Entering, Entering', s)
    BY <1>3 DEF TypeOK, EnqueueThrows, Shrinks, Handled, InPool, Entering
  <1> QED
    BY <1>1, <1>2, <1>3

\* The steps that neither count nor move a message in or out of hand.
LEMMA OtherGroups ==
    ASSUME TypeOK,
           \/ \E s \in Session : Disconnect(s) \/ \E m \in Msg : ParseFails(s, m)
           \/ \E m \in Msg : \/ Respond(m) \/ UnknownCommand(m) \/ ProcessorThrows(m)
                             \/ AuthFailed(m) \/ schedule_delayed_close(m) \/ CloserEnds(m)
           \/ StartTask
    PROVE  UNCHANGED <<Handled, InPool, Entering, ws_inflight_messages_, doubles, at>>
  <1>1. UNCHANGED <<ws_inflight_messages_, doubles, at>>
    BY DEF Disconnect, ParseFails, Respond, UnknownCommand, ProcessorThrows, AuthFailed,
           schedule_delayed_close, CloserEnds, StartTask, dispatch
  <1>2. InPool' = InPool
    BY DEF TypeOK, Disconnect, ParseFails, Respond, UnknownCommand, ProcessorThrows, AuthFailed,
           schedule_delayed_close, CloserEnds, StartTask, dispatch, InPool
  <1> QED
    BY <1>1, <1>2 DEF Handled, Entering

\* The worker gives a message's place back.
LEMMA TaskEndsGroups ==
    ASSUME TypeOK, NEW m \in Msg, TaskEnds(m)
    PROVE  Shrinks(InPool, InPool', m) /\ UNCHANGED <<Handled, Entering>>
  BY DEF TypeOK, TaskEnds, Shrinks, InPool, Handled, Entering

\* The counter counts on, and who is let in is within the limit.
LEMMA CountStep ==
    ASSUME DispatchInv, Next PROVE InflightCounts' /\ Admitted'
  <1> DEFINE c == ws_inflight_messages_
             d == doubles
  <1>0. TypeOK /\ HandlerOK /\ InflightCounts /\ Admitted
    BY DEF DispatchInv
  <1>a. /\ c \in 0..(Width - 1) /\ d \in 0..MaxFaults /\ (c + d) % Width = InHand
        /\ InHand \in Nat /\ InHand + Limit + MaxFaults < Width
        /\ Limit \in Nat /\ Width \in Nat /\ MaxFaults \in Nat
    BY <1>0, Sizes, DispatchSizes DEF TypeOK, InflightCounts
  <1>b. /\ fetch_add(c) \in 0..(Width - 1) /\ fetch_sub(c) \in 0..(Width - 1)
        /\ InHand + 1 < Width => (fetch_add(c) + d) % Width = InHand + 1
        /\ InHand > 0 => (fetch_sub(c) + d) % Width = InHand - 1
        /\ d + 1 <= MaxFaults => (fetch_sub(c) + (d + 1)) % Width = InHand
    BY <1>a, Counting
  <1>1. ASSUME NEW s \in Session, NEW m \in Msg, Receive(s, m) PROVE InflightCounts' /\ Admitted'
    <2>1. c' = fetch_add(c) /\ d' = d
      BY <1>1 DEF Receive
    <2>2. /\ Grows(Handled, Handled', s) /\ InPool' = InPool
          /\ at'[s] = "enqueue" => Grows(Entering, Entering', s) /\ c' <= Limit
          /\ at'[s] # "enqueue" => Entering' = Entering
      BY <1>0, <1>1, <1>a, <1>b, <2>1, ReceiveGroups
    <2>3. Cardinality(Handled') = Cardinality(Handled) + 1
      BY <2>2, OneMore, Sizes
    <2>4. InHand' = InHand + 1
      BY <2>2, <2>3, Sizes DEF InHand
    <2>5. 1 + InHand < Width
      BY <1>a, DispatchSizes
    <2>6. (c' + d') % Width = InHand'
      BY <1>a, <1>b, <2>1, <2>4, <2>5
    <2>7. Admitted'
      <3>1. CASE at'[s] # "enqueue"
        BY <1>0, <2>1, <2>2, <3>1 DEF Admitted
      <3>2. CASE at'[s] = "enqueue"
        <4>1. c' + d' < Width /\ c' + d' \in Nat /\ Width > 0
          BY <1>a, <1>b, <2>1, <2>2, <3>2
        <4>2. InHand' = c' + d'
          BY <1>a, <2>6, <4>1, Remainder
        <4>3. Entering' \subseteq Handled'
          BY DEF Entering, Handled
        <4>4. IsFiniteSet(Handled') /\ Cardinality(Handled') \in Nat
          BY <2>2, <2>3, Sizes, FS_AddElement DEF Grows
        <4>5. Cardinality(Entering') <= Cardinality(Handled') /\ Cardinality(Entering') \in Nat
          BY <4>3, <4>4, FS_Subset, FS_CardinalityType
        <4>6. InHand' = Cardinality(Handled') + Cardinality(InPool') /\ Cardinality(InPool') \in Nat
          BY <2>2, Sizes DEF InHand
        <4>7. Cardinality(Entering') + Cardinality(InPool') <= InHand'
          BY <4>4, <4>5, <4>6
        <4>8. InHand' <= Limit + doubles'
          BY <1>a, <1>b, <2>1, <2>2, <3>2, <4>2
        <4> QED
          BY <1>a, <2>1, <4>1, <4>2, <4>5, <4>6, <4>7, <4>8 DEF Admitted
      <3> QED
        BY <3>1, <3>2
    <2> QED
      BY <2>6, <2>7 DEF InflightCounts
  <1>2. ASSUME NEW s \in Session, Refuse(s) PROVE InflightCounts' /\ Admitted'
    <2>1. c' = fetch_sub(c) /\ d' = d
      BY <1>2 DEF Refuse
    <2>2. Shrinks(Handled, Handled', s) /\ InPool' = InPool /\ Entering' = Entering
      BY <1>0, <1>2, HandlerGroups
    <2>3. Cardinality(Handled') = Cardinality(Handled) - 1 /\ Cardinality(Handled) > 0
      BY <2>2, OneMore, Sizes
    <2>4. InHand' = InHand - 1 /\ InHand > 0
      BY <2>2, <2>3, Sizes DEF InHand
    <2>5. Admitted'
      BY <1>0, <2>1, <2>2 DEF Admitted
    <2> QED
      BY <1>b, <2>1, <2>4, <2>5 DEF InflightCounts
  <1>3. ASSUME NEW s \in Session, Enqueue(s) PROVE InflightCounts' /\ Admitted'
    <2>1. c' = c /\ d' = d
      BY <1>3 DEF Enqueue
    <2>2. /\ Shrinks(Handled, Handled', s) /\ Shrinks(Entering, Entering', s)
          /\ Grows(InPool, InPool', cur[s])
      BY <1>0, <1>3, HandlerGroups
    <2>3. /\ Cardinality(Handled') = Cardinality(Handled) - 1
          /\ Cardinality(Entering') = Cardinality(Entering) - 1
          /\ Cardinality(InPool') = Cardinality(InPool) + 1
      BY <2>2, OneMore, Sizes
    <2>4. InHand' = InHand
      BY <2>3, Sizes DEF InHand
    <2> QED
      BY <1>0, <1>a, <2>1, <2>3, <2>4, Sizes DEF InflightCounts, Admitted
  <1>4. ASSUME NEW s \in Session, EnqueueThrows(s) PROVE InflightCounts' /\ Admitted'
    <2>1. Handled' = Handled /\ InPool' = InPool /\ Shrinks(Entering, Entering', s)
      BY <1>0, <1>4, HandlerGroups
    <2>2. Cardinality(Entering') = Cardinality(Entering) - 1
      BY <2>1, OneMore, Sizes
    <2>3. InHand' = InHand
      BY <2>1 DEF InHand
    <2>4. \/ c' = c /\ d' = d
          \/ c' = fetch_sub(c) /\ d' = d + 1 /\ d + 1 <= MaxFaults
      BY <1>0, <1>4, <1>a DEF TypeOK, EnqueueThrows
    <2>5. InflightCounts'
      BY <1>a, <1>b, <2>3, <2>4 DEF InflightCounts
    <2>6. Admitted'
      BY <1>0, <1>a, <2>1, <2>2, <2>4, Sizes DEF Admitted
    <2> QED
      BY <2>5, <2>6
  <1>5. ASSUME NEW m \in Msg, TaskEnds(m) PROVE InflightCounts' /\ Admitted'
    <2>1. c' = fetch_sub(c) /\ d' = d
      BY <1>5 DEF TaskEnds
    <2>2. Shrinks(InPool, InPool', m) /\ Handled' = Handled /\ Entering' = Entering
      BY <1>0, <1>5, TaskEndsGroups
    <2>3. Cardinality(InPool') = Cardinality(InPool) - 1 /\ Cardinality(InPool) > 0
      BY <2>2, OneMore, Sizes
    <2>4. InHand' = InHand - 1 /\ InHand > 0
      BY <2>2, <2>3, Sizes DEF InHand
    <2> QED
      BY <1>0, <1>a, <1>b, <2>1, <2>2, <2>3, <2>4, Sizes DEF InflightCounts, Admitted
  <1>6. ASSUME UNCHANGED <<Handled, InPool, Entering, ws_inflight_messages_, doubles>>
        PROVE  InflightCounts' /\ Admitted'
    BY <1>0, <1>6 DEF InflightCounts, Admitted, InHand
  <1> QED
    BY <1>0, <1>1, <1>2, <1>3, <1>4, <1>5, <1>6, OtherGroups DEF Next, Handler, Worker
-----------------------------------------------------------------------------
(* Answers. *)

\* A message whose processor has returned is answered.
LEMMA AnswerStep ==
    ASSUME DispatchInv, Next PROVE AnswerOK'
  <1>0. TypeOK /\ HandlerOK /\ AnswerOK
    BY DEF DispatchInv
  <1>1. ASSUME NEW s \in Session, NEW m \in Msg, ParseFails(s, m) PROVE AnswerOK'
    BY <1>0, <1>1 DEF TypeOK, AnswerOK, ParseFails
  <1>2. ASSUME NEW s \in Session, NEW m \in Msg, Receive(s, m) PROVE AnswerOK'
    BY <1>0, <1>2 DEF TypeOK, AnswerOK, Receive
  <1>3. ASSUME NEW s \in Session, Refuse(s) PROVE AnswerOK'
    BY <1>0, <1>3 DEF TypeOK, HandlerOK, AnswerOK, Refuse, send
  <1>4. ASSUME NEW s \in Session, Enqueue(s) PROVE AnswerOK'
    BY <1>0, <1>4 DEF TypeOK, HandlerOK, AnswerOK, Enqueue
  <1>5. ASSUME NEW s \in Session, EnqueueThrows(s) PROVE AnswerOK'
    BY <1>0, <1>5 DEF TypeOK, AnswerOK, EnqueueThrows
  <1>6. ASSUME NEW s \in Session, Disconnect(s) PROVE AnswerOK'
    BY <1>0, <1>6 DEF TypeOK, AnswerOK, Disconnect
  <1>7. ASSUME NEW m \in Msg, Respond(m) \/ UnknownCommand(m) \/ AuthFailed(m) PROVE AnswerOK'
    BY <1>0, <1>7 DEF TypeOK, AnswerOK, Respond, UnknownCommand, AuthFailed, send
  <1>8. ASSUME NEW m \in Msg, ProcessorThrows(m) PROVE AnswerOK'
    BY <1>0, <1>8 DEF TypeOK, AnswerOK, ProcessorThrows
  <1>9. ASSUME NEW m \in Msg, schedule_delayed_close(m) \/ TaskEnds(m) \/ CloserEnds(m)
        PROVE  AnswerOK'
    BY <1>0, <1>9 DEF TypeOK, AnswerOK, schedule_delayed_close, TaskEnds, CloserEnds
  <1>10. CASE StartTask
    BY <1>0, <1>10 DEF AnswerOK, StartTask, dispatch
  <1> QED
    BY <1>1, <1>2, <1>3, <1>4, <1>5, <1>6, <1>7, <1>8, <1>9, <1>10 DEF Next, Handler, Worker
-----------------------------------------------------------------------------
(* The theorems. *)

\* The initial state satisfies the invariant.
LEMMA DispatchInitially == Init => DispatchInv
  <1> SUFFICES ASSUME Init PROVE DispatchInv
    OBVIOUS
  <1>1. TypeOK
    <2>1. PoolType /\ up /\ accepting
      BY EmptySeq DEF Init, PoolType
    <2>2. ws_inflight_messages_ \in 0..(Width - 1) /\ faults \in 0..MaxFaults /\ doubles \in 0..faults
      BY Sizes, DispatchSizes DEF Init
    <2> QED
      BY <2>1, <2>2 DEF Init, TypeOK, Stage
  <1>2. Handled = {} /\ InPool = {} /\ Entering = {}
    BY DEF Init, Handled, InPool, Entering
  <1>3. InflightCounts /\ Admitted
    <2>1. Cardinality(Handled) = 0 /\ Cardinality(InPool) = 0 /\ Cardinality(Entering) = 0
      BY <1>2, FS_EmptySet
    <2>2. Width \in Nat /\ Width > 0 /\ Limit \in Nat
      BY Sizes, DispatchSizes
    <2>3. (0 + 0) % Width = 0
      BY <2>2, Remainder
    <2> QED
      BY <2>1, <2>2, <2>3 DEF Init, InflightCounts, Admitted, InHand
  <1>4. Submitted = {}
    BY EmptySeq DEF Init, Submitted, Range1
  <1> QED
    BY <1>1, <1>3, <1>4 DEF Init, DispatchInv, HandlerOK, FromOK, AnswerOK

\* Every step keeps the invariant.
LEMMA DispatchStep == DispatchInv /\ [Next]_vars => DispatchInv'
  <1> SUFFICES ASSUME DispatchInv, [Next]_vars PROVE DispatchInv'
    OBVIOUS
  <1>1. CASE Next
    <2>1. TypeOK' /\ HandlerOK'
      <3>1. ASSUME StartTask PROVE TypeOK' /\ HandlerOK'
        <4>1. PoolType' /\ UNCHANGED <<up, accepting>>
          BY <3>1, PoolSteps DEF DispatchInv, TypeOK, StartTask
        <4>2. UNCHANGED dispatch
          BY <3>1 DEF StartTask
        <4> QED
          BY <4>1, <4>2 DEF DispatchInv, TypeOK, HandlerOK, dispatch
      <3> QED
        BY <1>1, <3>1, HandlerType, WorkerType DEF Next, Handler
    <2> QED
      BY <1>1, <2>1, FromStep, CountStep, AnswerStep DEF DispatchInv
  <1>2. CASE UNCHANGED vars
    BY <1>2 DEF vars, pool, dispatch, DispatchInv, TypeOK, PoolType, HandlerOK, FromOK, Submitted,
                InflightCounts, Admitted, AnswerOK, InHand, Handled, InPool, Entering
  <1> QED
    BY <1>1, <1>2

\* The invariant holds in every state of every behaviour.
LEMMA DispatchSafe == Spec => []DispatchInv
  BY DispatchInitially, DispatchStep, PTL DEF Spec

(* ws_inflight_messages_ is the number of messages in hand, short of the    *)
(* failed calls of Enqueue that were counted off twice, whatever handlers   *)
(* and workers interleave; and no more than the limit, and one for each of  *)
(* those, are ever queued or processed.                                     *)
THEOREM LimitHolds == Spec => []InflightBounded
  <1>1. DispatchInv => InflightBounded
    <2> SUFFICES ASSUME DispatchInv PROVE WithinLimit
      BY DEF DispatchInv, InflightBounded
    <2>1. doubles \in Nat /\ Limit \in Nat
      BY DispatchSizes DEF DispatchInv, TypeOK
    <2> QED
      BY <2>1, Sizes DEF DispatchInv, Admitted, WithinLimit
  <1> QED
    BY <1>1, DispatchSafe, PTL

(* Without a failure, every message whose command has a processor is        *)
(* answered when the gateway is done with it, unless its session is closed. *)
THEOREM AnswersAreSent == Spec => []KnownAnswered
  <1>1. DispatchInv => KnownAnswered
    BY DEF DispatchInv, AnswerOK, KnownAnswered
  <1> QED
    BY <1>1, DispatchSafe, PTL

(* The handler refuses a message only when as many as the limit are in hand *)
(* already, or when double fetch_subs have taken the counter below zero.    *)
THEOREM RefusedAtLimit == Spec => BusyOnlyAtLimit
  <1> DEFINE Fair(s) == at[s] = "read" /\ at'[s] = "refuse"
                           => InHand >= Limit \/ InHand + 1 < doubles
  <1>1. ASSUME DispatchInv, [Next]_vars PROVE \A s \in Session : Fair(s)
    <2>0. TypeOK /\ HandlerOK /\ InflightCounts
      BY <1>1 DEF DispatchInv
    <2>1. SUFFICES ASSUME NEW s \in Session, at[s] = "read", at'[s] = "refuse"
                   PROVE  InHand >= Limit \/ InHand + 1 < doubles
      OBVIOUS
    <2>2. PICK m \in Msg : Receive(s, m)
      <3>1. CASE UNCHANGED vars
        BY <2>1, <3>1 DEF vars, dispatch
      <3>2. ASSUME NEW u \in Session, NEW m \in Msg, Receive(u, m) PROVE u = s
        BY <2>0, <2>1, <3>2, ReceiveGroups
      <3>3. ASSUME NEW u \in Session, Handler(u) PROVE FALSE
        BY <2>0, <2>1, <3>3 DEF Handler, Refuse, Enqueue, EnqueueThrows, TypeOK
      <3>4. ASSUME NEW m \in Msg, TaskEnds(m) PROVE FALSE
        BY <2>1, <3>4 DEF TaskEnds
      <3> QED
        BY <1>1, <2>0, <2>1, <3>1, <3>2, <3>3, <3>4, OtherGroups DEF Next, Worker
    <2>3. /\ ws_inflight_messages_ \in 0..(Width - 1) /\ doubles \in 0..MaxFaults
          /\ (ws_inflight_messages_ + doubles) % Width = InHand
          /\ InHand \in Nat /\ InHand + Limit + MaxFaults < Width
          /\ Limit \in Nat \ {0} /\ Width \in Nat /\ MaxFaults \in Nat
      BY <2>0, Sizes, DispatchSizes DEF TypeOK, InflightCounts
    <2>4. ws_inflight_messages_' > Limit /\ ws_inflight_messages_' = fetch_add(ws_inflight_messages_)
      BY <2>0, <2>1, <2>2, ReceiveGroups DEF Receive
    <2>5. /\ fetch_add(ws_inflight_messages_) \in 0..(Width - 1)
          /\ (fetch_add(ws_inflight_messages_) + doubles) % Width = InHand + 1
      <3>1. InHand + 1 < Width
        BY <2>3
      <3> QED
        BY <2>3, <3>1, Counting
    <2>6. \/ ws_inflight_messages_' + doubles = InHand + 1
          \/ ws_inflight_messages_' + doubles = InHand + 1 + Width
      BY <2>3, <2>4, <2>5, Remainder
    <2> QED
      BY <2>3, <2>4, <2>5, <2>6
  <1>2. ASSUME DispatchInv, [Next]_vars PROVE [\A s \in Session : Fair(s)]_vars
    BY <1>1, <1>2
  <1> QED
    BY <1>2, DispatchSafe, PTL DEF Spec, BusyOnlyAtLimit
=============================================================================
