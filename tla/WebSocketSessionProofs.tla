------------------------ MODULE WebSocketSessionProofs ------------------------
(***************************************************************************)
(* Proofs about WebSocketSession, for any set of sessions, any size of the *)
(* send queue and any number of messages, reads and closes:                *)
(*   - SessionsTracked: the handshakes the server counts, the sessions it  *)
(*     holds and the disconnects it reports are true of the sessions;      *)
(*   - SendsInOrder: queue, write and wire stay in step.                   *)
(* None is inductive: the handlers that are ready were posted or completed *)
(* some steps ago, and act on what the session is when they run.  The      *)
(* invariant therefore says of each handler that is ready what its session *)
(* still has to be like (HandlerOK), that an operation completes once      *)
(* (OnePending), and what closing and failing leave behind (Life, WriteOK).*)
(***************************************************************************)
EXTENDS WebSocketSession, SequenceTheorems, FiniteSetTheorems, TLAPS

\* What a handler that is ready relies on.
HandlerOK(s, h) ==
    /\ h.op \in {"ssl", "upgrade", "accept"} => stage[s] = h.op
    /\ h.op = "read" => reading[s]
    /\ h.op = "write" => writes[s] > 0
    /\ h.op = "send" => stage[s] = "open"
    /\ h.op = "close" => stage[s] = "open" \/ broken[s]
    /\ h.op = "close" /\ ~h.graceful => broken[s] \/ overflowed[s]

HandlersOK(s) == \A i \in 1..Len(ready[s]) : HandlerOK(s, ready[s][i])

\* An operation that is outstanding completes once.
OnePending(s) ==
    \A i, j \in 1..Len(ready[s]) :
       ready[s][i].op = ready[s][j].op /\ ready[s][i].op \in Op => i = j

\* The stages of a session: only an open one reads and writes, and one that was closed
\* before it was open has failed.
Life(s) ==
    /\ stage[s] = "new" => ~broken[s]
    /\ stage[s] # "open" => ~reading[s] /\ writes[s] = 0
    /\ closed_[s] /\ stage[s] # "open" => broken[s]
    /\ s \in shutting => closed_[s]
    /\ registered_[s] <=> stage[s] = "open" /\ (closed_[s] => s \in shutting)
    /\ handshake_active_[s] <=> stage[s] \in {"ssl", "upgrade", "accept"} /\ ~closed_[s]
    /\ disconnects[s] = IF stage[s] = "open" /\ closed_[s] /\ s \notin shutting THEN 1 ELSE 0

\* The write in progress and the queue.
WriteOK(s) ==
    /\ ~closed_[s] /\ ~broken[s] => writes[s] = IF send_queue_[s] = << >> THEN 0 ELSE 1
    /\ closed_[s] => send_queue_[s] = << >>
    /\ closed_[s] /\ ~broken[s] => overflowed[s]
    /\ undefined[s] => overflowed[s]

\* The wire w, the queue q and the sends among the ready handlers r, in this order, carry
\* increasing message numbers up to n.
Chained(w, q, r, n) ==
    /\ \A i \in 1..Len(w) : w[i] <= n
    /\ \A i \in 1..Len(q) : q[i] <= n
    /\ \A i, j \in 1..Len(w) : i < j => w[i] < w[j]
    /\ \A i, j \in 1..Len(q) : i < j => q[i] < q[j]
    /\ \A i \in 1..Len(w), j \in 1..Len(q) : w[i] < q[j]
    /\ \A i \in 1..Len(r) :
          r[i].op = "send" =>
             /\ \A j \in 1..Len(w) : w[j] < r[i].msg
             /\ \A j \in 1..Len(q) : q[j] < r[i].msg
             /\ r[i].msg <= n
             /\ \A j \in 1..Len(r) : r[j].op = "send" /\ i < j => r[i].msg < r[j].msg

\* None of the numbers up to n is missing from them.
Gapless(w, q, r, n) ==
    /\ \A i \in 1..Len(w) : w[i] = i
    /\ \A i \in 1..Len(q) : q[i] = Len(w) + i
    /\ Len(w) + Len(q) <= n
    /\ \A m \in (Len(w) + Len(q) + 1)..n : \E i \in 1..Len(r) : r[i].op = "send" /\ r[i].msg = m

Chain(s) == Chained(wire[s], send_queue_[s], ready[s], sent[s])
Whole(s) ==
    ~closed_[s] /\ ~overflowed[s] => Gapless(wire[s], send_queue_[s], ready[s], sent[s])

SessionInv(s) ==
    HandlersOK(s) /\ OnePending(s) /\ Life(s) /\ WriteOK(s) /\ Chain(s) /\ Whole(s)

\* What the server holds and counts.
ServerInv ==
    /\ active_handshakes = Cardinality({s \in Session : handshake_active_[s]})
    /\ \A s \in Session : /\ s \in sessions_ => registered_[s]
                          /\ registered_[s] /\ ~stopped => s \in sessions_
    /\ \A s, u \in shutting : s = u

Inv == TypeOK /\ ServerInv /\ \A s \in Session : SessionInv(s)
-----------------------------------------------------------------------------
(* The queue of ready handlers. *)

\* Handlers are told apart by what they are.
LEMMA Handlers ==
    /\ \A op \in Op, ok \in BOOLEAN : /\ Completion(op, ok) \in Handler
                                      /\ Completion(op, ok).op = op
                                      /\ Completion(op, ok).ok = ok
    /\ \A m \in 1..MaxSends : SendOf(m) \in Handler /\ SendOf(m).op = "send" /\ SendOf(m).msg = m
    /\ \A g \in BOOLEAN : /\ CloseOf(g) \in Handler /\ CloseOf(g).op = "close"
                          /\ CloseOf(g).graceful = g
    /\ \A h \in Handler : /\ h.op \in Op => h.ok \in BOOLEAN
                          /\ h.op = "send" => h.msg \in 1..MaxSends
                          /\ h.op = "close" => h.graceful \in BOOLEAN
    /\ "send" \notin Op /\ "close" \notin Op
    /\ {"ssl", "upgrade", "accept", "read", "write"} \subseteq Op
  BY DEF Handler, Completion, SendOf, CloseOf, Op

\* Posting adds a handler at the end.
LEMMA Posts ==
    ASSUME TypeOK, NEW s \in Session, NEW h \in Handler,
           ready' = [ready EXCEPT ![s] = Append(@, h)]
    PROVE  /\ ready' \in [Session -> Seq(Handler)]
           /\ Len(ready[s]) \in Nat /\ Len(ready'[s]) = Len(ready[s]) + 1
           /\ \A i \in 1..Len(ready[s]) : ready'[s][i] = ready[s][i]
           /\ ready'[s][Len(ready[s]) + 1] = h
           /\ \A u \in Session : u # s => ready'[u] = ready[u]
  <1>1. ready[s] \in Seq(Handler) /\ ready'[s] = Append(ready[s], h)
    BY DEF TypeOK
  <1>2. ready'[s] \in Seq(Handler)
    BY <1>1, AppendProperties
  <1> QED
    BY <1>1, <1>2, AppendProperties, LenProperties DEF TypeOK

\* A handler that runs leaves the queue.
LEMMA Consumes ==
    ASSUME TypeOK, NEW s \in Session, ready[s] # << >>, Consume(s)
    PROVE  /\ ready' \in [Session -> Seq(Handler)]
           /\ Len(ready[s]) \in Nat /\ Len(ready'[s]) = Len(ready[s]) - 1
           /\ Len(ready[s]) > 0 /\ Head1(s) = ready[s][1] /\ Head1(s) \in Handler
           /\ \A i \in 1..Len(ready'[s]) : ready'[s][i] = ready[s][i + 1]
           /\ \A u \in Session : u # s => ready'[u] = ready[u]
  <1>1. ready[s] \in Seq(Handler) /\ ready'[s] = Tail(ready[s])
    BY DEF TypeOK, Consume
  <1>2. /\ ready'[s] \in Seq(Handler) /\ Len(ready'[s]) = Len(ready[s]) - 1
        /\ \A i \in 1..Len(ready'[s]) : ready'[s][i] = ready[s][i + 1]
    BY <1>1, HeadTailProperties
  <1>3. Len(ready[s]) \in Nat /\ Len(ready[s]) > 0 /\ Head1(s) = ready[s][1]
    BY <1>1, LenProperties, EmptySeq DEF Head1
  <1>4. Head1(s) \in Handler
    BY <1>1, HeadTailProperties DEF Head1
  <1>5. ready' \in [Session -> Seq(Handler)] /\ \A u \in Session : u # s => ready'[u] = ready[u]
    BY <1>2 DEF TypeOK, Consume
  <1> QED
    BY <1>2, <1>3, <1>4, <1>5

\* One that fails posts a close.
LEMMA Fails ==
    ASSUME TypeOK, NEW s \in Session, ready[s] # << >>, fail_and_close(s)
    PROVE  /\ ready' \in [Session -> Seq(Handler)]
           /\ Len(ready[s]) \in Nat /\ Len(ready'[s]) = Len(ready[s])
           /\ Len(ready[s]) > 0 /\ Head1(s) = ready[s][1] /\ Head1(s) \in Handler
           /\ \A i \in 1..(Len(ready[s]) - 1) : ready'[s][i] = ready[s][i + 1]
           /\ ready'[s][Len(ready[s])] = CloseOf(FALSE)
           /\ \A u \in Session : u # s => ready'[u] = ready[u]
  <1>1. ready[s] \in Seq(Handler) /\ ready'[s] = Append(Tail(ready[s]), CloseOf(FALSE))
    BY DEF TypeOK, fail_and_close
  <1>2. /\ Tail(ready[s]) \in Seq(Handler) /\ Len(Tail(ready[s])) = Len(ready[s]) - 1
        /\ \A i \in 1..Len(Tail(ready[s])) : Tail(ready[s])[i] = ready[s][i + 1]
    BY <1>1, HeadTailProperties
  <1>3. Len(ready[s]) \in Nat /\ Len(ready[s]) > 0 /\ Head1(s) = ready[s][1]
    BY <1>1, LenProperties, EmptySeq DEF Head1
  <1>4. Head1(s) \in Handler
    BY <1>1, HeadTailProperties DEF Head1
  <1>5. /\ ready'[s] \in Seq(Handler) /\ Len(ready'[s]) = Len(ready[s])
        /\ \A i \in 1..(Len(ready[s]) - 1) : ready'[s][i] = ready[s][i + 1]
        /\ ready'[s][Len(ready[s])] = CloseOf(FALSE)
    <2> DEFINE q == Tail(ready[s])
               c == CloseOf(FALSE)
    <2>1. c \in Handler /\ q \in Seq(Handler) /\ ready'[s] = Append(q, c)
      BY <1>1, <1>2, Handlers
    <2>2. Len(q) = Len(ready[s]) - 1 /\ \A i \in 1..Len(q) : q[i] = ready[s][i + 1]
      BY <1>2
    <2> HIDE DEF q, c
    <2>3. /\ Append(q, c) \in Seq(Handler) /\ Len(Append(q, c)) = Len(q) + 1
          /\ \A i \in 1..Len(q) : Append(q, c)[i] = q[i]
          /\ Append(q, c)[Len(q) + 1] = c
      BY <2>1, AppendProperties
    <2>4. Len(q) + 1 = Len(ready[s]) /\ 1..Len(q) = 1..(Len(ready[s]) - 1)
      BY <1>3, <2>2
    <2>5. ready'[s][Len(ready[s])] = c
      BY <2>1, <2>3, <2>4
    <2> QED
      BY <2>1, <2>2, <2>3, <2>4, <2>5 DEF c
  <1>6. ready' \in [Session -> Seq(Handler)] /\ \A u \in Session : u # s => ready'[u] = ready[u]
    BY <1>5 DEF TypeOK, fail_and_close
  <1> QED
    BY <1>3, <1>4, <1>5, <1>6

\* A handler that runs, with or without a close behind it.
Steps(s) == ready[s] # << >> /\ (Consume(s) \/ fail_and_close(s))

\* The handlers that are ready afterwards were ready before, or are that close.
LEMMA StepsHandlers ==
    ASSUME TypeOK, NEW s \in Session, Steps(s), OnePending(s)
    PROVE  /\ OnePending(s)'
           /\ \A i \in 1..Len(ready'[s]) :
                 \/ /\ i + 1 \in 1..Len(ready[s]) /\ ready'[s][i] = ready[s][i + 1]
                    /\ ready[s][i + 1].op \in Op => ready[s][i + 1].op # Head1(s).op
                 \/ ~Consume(s) /\ i = Len(ready'[s]) /\ ready'[s][i] = CloseOf(FALSE)
           /\ \A i \in 2..Len(ready[s]) : i - 1 \in 1..Len(ready'[s]) /\ ready'[s][i - 1] = ready[s][i]
           /\ Head1(s) = ready[s][1] /\ 1 \in 1..Len(ready[s]) /\ Head1(s) \in Handler
           /\ \A u \in Session : u # s => ready'[u] = ready[u]
           /\ ready' \in [Session -> Seq(Handler)]
  <1>1. CASE Consume(s)
    <2>1. /\ Len(ready[s]) \in Nat /\ Len(ready'[s]) = Len(ready[s]) - 1 /\ Len(ready[s]) > 0
          /\ Head1(s) = ready[s][1] /\ Head1(s) \in Handler
          /\ \A i \in 1..Len(ready'[s]) : ready'[s][i] = ready[s][i + 1]
          /\ \A u \in Session : u # s => ready'[u] = ready[u]
          /\ ready' \in [Session -> Seq(Handler)]
      BY <1>1, Consumes DEF Steps
    <2>2. \A i \in 1..Len(ready'[s]) : i + 1 \in 1..Len(ready[s]) /\ i + 1 # 1
      BY <2>1
    <2>3. 1 \in 1..Len(ready[s])
      BY <2>1
    <2>4. \A i \in 1..Len(ready'[s]) :
             ready[s][i + 1].op \in Op => ready[s][i + 1].op # Head1(s).op
      BY <2>1, <2>2, <2>3 DEF OnePending
    <2>5. OnePending(s)'
      <3> SUFFICES ASSUME NEW i \in 1..Len(ready'[s]), NEW j \in 1..Len(ready'[s]),
                          ready'[s][i].op = ready'[s][j].op, ready'[s][i].op \in Op
                   PROVE  i = j
        BY DEF OnePending
      <3>1. i + 1 = j + 1
        BY <2>1, <2>2 DEF OnePending
      <3> QED
        BY <2>1, <3>1
    <2>6. \A i \in 2..Len(ready[s]) : i - 1 \in 1..Len(ready'[s]) /\ ready'[s][i - 1] = ready[s][i]
      <3> SUFFICES ASSUME NEW i \in 2..Len(ready[s])
                   PROVE  i - 1 \in 1..Len(ready'[s]) /\ ready'[s][i - 1] = ready[s][i]
        OBVIOUS
      <3>1. i - 1 \in 1..Len(ready'[s]) /\ (i - 1) + 1 = i
        BY <2>1
      <3>2. ready'[s][i - 1] = ready[s][(i - 1) + 1]
        BY <2>1, <3>1
      <3> QED
        BY <3>1, <3>2
    <2> QED
      BY <2>1, <2>2, <2>3, <2>4, <2>5, <2>6
  <1>2. CASE ~Consume(s)
    <2>1. /\ Len(ready[s]) \in Nat /\ Len(ready'[s]) = Len(ready[s]) /\ Len(ready[s]) > 0
          /\ Head1(s) = ready[s][1] /\ Head1(s) \in Handler
          /\ \A i \in 1..(Len(ready[s]) - 1) : ready'[s][i] = ready[s][i + 1]
          /\ ready'[s][Len(ready[s])] = CloseOf(FALSE)
          /\ \A u \in Session : u # s => ready'[u] = ready[u]
          /\ ready' \in [Session -> Seq(Handler)]
      BY <1>2, Fails DEF Steps
    <2>2. \A i \in 1..(Len(ready[s]) - 1) : i + 1 \in 1..Len(ready[s]) /\ i + 1 # 1
      BY <2>1
    <2>3. /\ 1 \in 1..Len(ready[s])
          /\ \A i \in 1..Len(ready'[s]) : i \in 1..(Len(ready[s]) - 1) \/ i = Len(ready[s])
      BY <2>1
    <2>4. \A i \in 1..(Len(ready[s]) - 1) :
             ready[s][i + 1].op \in Op => ready[s][i + 1].op # Head1(s).op
      BY <2>1, <2>2, <2>3 DEF OnePending
    <2>5. OnePending(s)'
      <3> SUFFICES ASSUME NEW i \in 1..Len(ready'[s]), NEW j \in 1..Len(ready'[s]),
                          ready'[s][i].op = ready'[s][j].op, ready'[s][i].op \in Op
                   PROVE  i = j
        BY DEF OnePending
      <3>1. CloseOf(FALSE).op \notin Op
        BY Handlers
      <3>2. i \in 1..(Len(ready[s]) - 1) /\ j \in 1..(Len(ready[s]) - 1)
        BY <2>1, <2>3, <3>1
      <3>3. i + 1 = j + 1
        BY <2>1, <2>2, <3>2 DEF OnePending
      <3> QED
        BY <2>1, <3>2, <3>3
    <2>6. \A i \in 2..Len(ready[s]) : i - 1 \in 1..Len(ready'[s]) /\ ready'[s][i - 1] = ready[s][i]
      <3> SUFFICES ASSUME NEW i \in 2..Len(ready[s])
                   PROVE  i - 1 \in 1..Len(ready'[s]) /\ ready'[s][i - 1] = ready[s][i]
        OBVIOUS
      <3>1. i - 1 \in 1..(Len(ready[s]) - 1) /\ i - 1 \in 1..Len(ready'[s]) /\ (i - 1) + 1 = i
        BY <2>1
      <3>2. ready'[s][i - 1] = ready[s][(i - 1) + 1]
        BY <2>1, <3>1
      <3> QED
        BY <3>1, <3>2
    <2>7. ASSUME NEW i \in 1..Len(ready'[s])
          PROVE  \/ /\ i + 1 \in 1..Len(ready[s]) /\ ready'[s][i] = ready[s][i + 1]
                    /\ ready[s][i + 1].op \in Op => ready[s][i + 1].op # Head1(s).op
                 \/ i = Len(ready'[s]) /\ ready'[s][i] = CloseOf(FALSE)
      BY <2>1, <2>2, <2>3, <2>4
    <2> QED
      BY <1>2, <2>1, <2>3, <2>5, <2>6, <2>7
  <1> QED
    BY <1>1, <1>2 DEF Steps
-----------------------------------------------------------------------------
(* Sessions that a step does not touch, and parts that it keeps. *)

Kept(u) ==
    /\ stage'[u] = stage[u] /\ closed_'[u] = closed_[u] /\ registered_'[u] = registered_[u]
    /\ handshake_active_'[u] = handshake_active_[u] /\ send_queue_'[u] = send_queue_[u]
    /\ writes'[u] = writes[u] /\ overflowed'[u] = overflowed[u] /\ undefined'[u] = undefined[u]
    /\ reading'[u] = reading[u] /\ broken'[u] = broken[u] /\ ready'[u] = ready[u]
    /\ wire'[u] = wire[u] /\ sent'[u] = sent[u] /\ disconnects'[u] = disconnects[u]
    /\ u \in shutting' <=> u \in shutting

LEMMA KeptInv ==
    ASSUME NEW u \in Session, SessionInv(u), Kept(u)
    PROVE  SessionInv(u)'
  <1>1. HandlersOK(u)'
    BY DEF SessionInv, Kept, HandlersOK, HandlerOK
  <1>2. OnePending(u)'
    BY DEF SessionInv, Kept, OnePending
  <1>3. Life(u)' /\ WriteOK(u)'
    BY DEF SessionInv, Kept, Life, WriteOK
  <1>4. Chain(u)'
    BY DEF SessionInv, Kept, Chain
  <1>5. Whole(u)'
    BY DEF SessionInv, Kept, Whole
  <1> QED
    BY <1>1, <1>2, <1>3, <1>4, <1>5 DEF SessionInv

\* The invariant of the sessions, when a step concerns s only.
LEMMA OneSession ==
    ASSUME Inv, NEW s \in Session, \A u \in Session : u # s => Kept(u),
           SessionInv(s)'
    PROVE  \A u \in Session : SessionInv(u)'
  BY KeptInv DEF Inv

\* The handlers that stay ready when one runs.
LEMMA StepsOK ==
    ASSUME TypeOK, NEW s \in Session, Steps(s), OnePending(s), HandlersOK(s),
           \A h \in Handler :
              HandlerOK(s, h) /\ (h.op \in Op => h.op # Head1(s).op) => HandlerOK(s, h)',
           Consume(s) \/ HandlerOK(s, CloseOf(FALSE))'
    PROVE  HandlersOK(s)' /\ HandlerOK(s, Head1(s))
  <1>1. /\ \A i \in 1..Len(ready'[s]) :
               \/ /\ i + 1 \in 1..Len(ready[s]) /\ ready'[s][i] = ready[s][i + 1]
                  /\ ready[s][i + 1].op \in Op => ready[s][i + 1].op # Head1(s).op
               \/ ~Consume(s) /\ i = Len(ready'[s]) /\ ready'[s][i] = CloseOf(FALSE)
        /\ Head1(s) = ready[s][1] /\ 1 \in 1..Len(ready[s])
    BY StepsHandlers
  <1>2. \A i \in 1..Len(ready[s]) : ready[s][i] \in Handler /\ HandlerOK(s, ready[s][i])
    BY ElementOfSeq DEF TypeOK, HandlersOK
  <1>3. ASSUME NEW i \in 1..Len(ready'[s])
        PROVE  \E h : h = ready'[s][i] /\ HandlerOK(s, h)'
    <2>1. CASE /\ i + 1 \in 1..Len(ready[s]) /\ ready'[s][i] = ready[s][i + 1]
               /\ ready[s][i + 1].op \in Op => ready[s][i + 1].op # Head1(s).op
      BY <1>2, <2>1
    <2>2. CASE ~Consume(s) /\ ready'[s][i] = CloseOf(FALSE)
      BY <2>2
    <2> QED
      BY <1>1, <2>1, <2>2
  <1>4. HandlersOK(s)'
    BY <1>3 DEF HandlersOK, HandlerOK
  <1> QED
    BY <1>1, <1>2, <1>4
-----------------------------------------------------------------------------
(* The numbers of the messages. *)

\* What r2 keeps of the sends in r when the first handler of r has run.
Dropped(r, r2) ==
    /\ \A i \in 1..Len(r2) :
          (i + 1 \in 1..Len(r) /\ r2[i] = r[i + 1]) \/ r2[i].op # "send"
    /\ \A i \in 2..Len(r) : i - 1 \in 1..Len(r2) /\ r2[i - 1] = r[i]

LEMMA StepsDrop ==
    ASSUME TypeOK, NEW s \in Session, Steps(s), OnePending(s)
    PROVE  Dropped(ready[s], ready'[s])
  <1>1. CloseOf(FALSE).op # "send"
    BY DEF CloseOf
  <1> QED
    BY <1>1, StepsHandlers DEF Dropped

\* A handler that is no send, or whose message is dropped, runs.
LEMMA ChainedDrop ==
    ASSUME NEW w \in Seq(Nat), NEW q \in Seq(Nat), NEW r \in Seq(Handler), NEW r2 \in Seq(Handler),
           NEW n \in Nat, Dropped(r, r2), Chained(w, q, r, n)
    PROVE  Chained(w, q, r2, n) /\ Chained(w, << >>, r2, n)
  <1>1. \A i \in 1..Len(r2) :
           r2[i].op = "send" => i \in Nat /\ i + 1 \in 1..Len(r) /\ r2[i] = r[i + 1]
    BY DEF Dropped
  <1>2. ASSUME NEW i \in 1..Len(r2), r2[i].op = "send"
        PROVE  /\ \A j \in 1..Len(w) : w[j] < r2[i].msg
               /\ \A j \in 1..Len(q) : q[j] < r2[i].msg
               /\ r2[i].msg <= n
               /\ \A j \in 1..Len(r2) : r2[j].op = "send" /\ i < j => r2[i].msg < r2[j].msg
    <2>1. i + 1 \in 1..Len(r) /\ r2[i] = r[i + 1]
      BY <1>1, <1>2
    <2>2. ASSUME NEW j \in 1..Len(r2), r2[j].op = "send", i < j
          PROVE  r2[i].msg < r2[j].msg
      <3>1. j + 1 \in 1..Len(r) /\ r2[j] = r[j + 1] /\ i + 1 < j + 1
        BY <1>1, <2>2
      <3> QED
        BY <1>2, <2>1, <2>2, <3>1 DEF Chained
    <2> QED
      BY <1>2, <2>1, <2>2 DEF Chained
  <1>3. Len(<< >>) = 0 /\ 1..Len(<< >>) = {}
    OBVIOUS
  <1> QED
    BY <1>2, <1>3 DEF Chained

LEMMA GaplessDrop ==
    ASSUME NEW w, NEW q, NEW r \in Seq(Handler), NEW r2, NEW n,
           Dropped(r, r2), Gapless(w, q, r, n), 1 \in 1..Len(r) => r[1].op # "send"
    PROVE  Gapless(w, q, r2, n)
  <1>1. ASSUME NEW m, NEW i \in 1..Len(r), r[i].op = "send" /\ r[i].msg = m
        PROVE  \E j \in 1..Len(r2) : r2[j].op = "send" /\ r2[j].msg = m
    <2>1. i # 1
      BY <1>1
    <2>2. i \in 2..Len(r)
      BY <2>1
    <2> QED
      BY <1>1, <2>2 DEF Dropped
  <1> QED
    BY <1>1 DEF Gapless

\* A send is posted.
LEMMA ChainedPost ==
    ASSUME NEW w \in Seq(Nat), NEW q \in Seq(Nat), NEW r \in Seq(Handler), NEW n \in Nat,
           n + 1 \in 1..MaxSends, Chained(w, q, r, n)
    PROVE  Chained(w, q, Append(r, SendOf(n + 1)), n + 1)
  <1> DEFINE h == SendOf(n + 1)
             r2 == Append(r, h)
  <1>1. h \in Handler /\ h.op = "send" /\ h.msg = n + 1
    BY Handlers
  <1> HIDE DEF h
  <1>2. /\ Len(r) \in Nat /\ Len(r2) = Len(r) + 1 /\ r2[Len(r) + 1] = h
        /\ \A i \in 1..Len(r) : r2[i] = r[i]
    BY <1>1, AppendProperties, LenProperties
  <1> HIDE DEF r2
  <1>3. \A i \in 1..Len(r2) : i \in 1..Len(r) \/ i = Len(r) + 1
    BY <1>2
  <1>4. \A i \in 1..Len(w) : w[i] \in Nat /\ w[i] <= n
    BY ElementOfSeq DEF Chained
  <1>5. \A i \in 1..Len(q) : q[i] \in Nat /\ q[i] <= n
    BY ElementOfSeq DEF Chained
  <1>6. \A i \in 1..Len(r) : r[i].op = "send" => r[i].msg \in Nat /\ r[i].msg <= n
    <2>1. ASSUME NEW i \in 1..Len(r), r[i].op = "send" PROVE r[i].msg \in 1..MaxSends
      BY <2>1, ElementOfSeq, Handlers
    <2> QED
      BY <2>1, SizeAssumption DEF Chained
  <1>7. ASSUME NEW i \in 1..Len(r2), r2[i].op = "send"
        PROVE  /\ \A j \in 1..Len(w) : w[j] < r2[i].msg
               /\ \A j \in 1..Len(q) : q[j] < r2[i].msg
               /\ r2[i].msg <= n + 1
               /\ \A j \in 1..Len(r2) : r2[j].op = "send" /\ i < j => r2[i].msg < r2[j].msg
    <2>1. CASE i \in 1..Len(r)
      <3>1. /\ \A j \in 1..Len(w) : w[j] < r2[i].msg
            /\ \A j \in 1..Len(q) : q[j] < r2[i].msg
            /\ r2[i].msg <= n + 1
        <4>1. r2[i] = r[i] /\ r[i].op = "send" /\ r[i].msg \in Nat /\ r[i].msg <= n
          BY <1>2, <1>6, <1>7, <2>1
        <4>2. /\ \A j \in 1..Len(w) : w[j] < r[i].msg
              /\ \A j \in 1..Len(q) : q[j] < r[i].msg
          BY <2>1, <4>1 DEF Chained
        <4> QED
          BY <4>1, <4>2
      <3>2. ASSUME NEW j \in 1..Len(r2), r2[j].op = "send", i < j
            PROVE  r2[i].msg < r2[j].msg
        <4>1. CASE j \in 1..Len(r)
          BY <1>2, <1>7, <2>1, <3>2, <4>1 DEF Chained
        <4>2. CASE j = Len(r) + 1
          <5>1. r2[j].msg = n + 1
            BY <1>1, <1>2, <4>2
          <5>2. r2[i].msg \in Nat /\ r2[i].msg <= n
            BY <1>2, <1>6, <1>7, <2>1
          <5> QED
            BY <5>1, <5>2
        <4> QED
          BY <1>3, <4>1, <4>2
      <3> QED
        BY <3>1, <3>2
    <2>2. CASE i = Len(r) + 1
      <3>1. r2[i].msg = n + 1
        BY <1>1, <1>2, <2>2
      <3>2. \A j \in 1..Len(r2) : ~(i < j)
        BY <1>2, <2>2
      <3> QED
        BY <1>4, <1>5, <3>1, <3>2
    <2> QED
      BY <1>3, <2>1, <2>2
  <1>8. Chained(w, q, r2, n + 1)
    BY <1>4, <1>5, <1>7 DEF Chained
  <1> QED
    BY <1>8 DEF r2, h

LEMMA GaplessPost ==
    ASSUME NEW w \in Seq(Nat), NEW q \in Seq(Nat), NEW r \in Seq(Handler), NEW n \in Nat,
           n + 1 \in 1..MaxSends, Gapless(w, q, r, n)
    PROVE  Gapless(w, q, Append(r, SendOf(n + 1)), n + 1)
  <1> DEFINE h == SendOf(n + 1)
             r2 == Append(r, h)
  <1>1. h \in Handler /\ h.op = "send" /\ h.msg = n + 1
    BY Handlers
  <1> HIDE DEF h
  <1>2. /\ Len(r) \in Nat /\ Len(r2) = Len(r) + 1 /\ r2[Len(r) + 1] = h
        /\ \A i \in 1..Len(r) : r2[i] = r[i]
    BY <1>1, AppendProperties, LenProperties
  <1> HIDE DEF r2
  <1>3. Len(w) \in Nat /\ Len(q) \in Nat
    BY LenProperties
  <1>4. ASSUME NEW m \in (Len(w) + Len(q) + 1)..(n + 1)
        PROVE  \E i \in 1..Len(r2) : r2[i].op = "send" /\ r2[i].msg = m
    <2>1. CASE m = n + 1
      <3>1. Len(r) + 1 \in 1..Len(r2)
        BY <1>2
      <3> QED
        BY <1>1, <1>2, <2>1, <3>1
    <2>2. CASE m # n + 1
      <3>1. m \in (Len(w) + Len(q) + 1)..n
        BY <1>3, <2>2
      <3>2. PICK i \in 1..Len(r) : r[i].op = "send" /\ r[i].msg = m
        BY <3>1 DEF Gapless
      <3>3. i \in 1..Len(r2) /\ r2[i] = r[i]
        BY <1>2
      <3> QED
        BY <3>2, <3>3
    <2> QED
      BY <2>1, <2>2
  <1>5. Gapless(w, q, r2, n + 1)
    BY <1>3, <1>4 DEF Gapless
  <1> QED
    BY <1>5 DEF r2, h

\* A send runs: its message goes to the end of the queue.
LEMMA ChainedTake ==
    ASSUME NEW w \in Seq(Nat), NEW q \in Seq(Nat), NEW r \in Seq(Handler), NEW r2 \in Seq(Handler),
           NEW n \in Nat, Dropped(r, r2), Chained(w, q, r, n), 1 \in 1..Len(r), r[1].op = "send"
    PROVE  r[1].msg \in Nat /\ Chained(w, Append(q, r[1].msg), r2, n)
  <1> DEFINE m == r[1].msg
             q2 == Append(q, m)
  <1>1. m \in Nat
    <2>1. r[1] \in Handler
      BY ElementOfSeq
    <2>2. m \in 1..MaxSends
      BY <2>1, Handlers
    <2> QED
      BY <2>2, SizeAssumption
  <1>2. /\ \A j \in 1..Len(w) : w[j] < m
        /\ \A j \in 1..Len(q) : q[j] < m
        /\ m <= n
        /\ \A j \in 1..Len(r) : r[j].op = "send" /\ 1 < j => m < r[j].msg
    BY DEF Chained
  <1>3. Chained(w, q, r2, n)
    BY ChainedDrop
  <1>4. \A i \in 1..Len(r2) : r2[i].op = "send" => m < r2[i].msg
    <2> SUFFICES ASSUME NEW i \in 1..Len(r2), r2[i].op = "send"
                 PROVE  m < r2[i].msg
      OBVIOUS
    <2>1. i + 1 \in 1..Len(r) /\ r2[i] = r[i + 1] /\ 1 < i + 1
      BY DEF Dropped
    <2> QED
      BY <1>2, <2>1
  <1> HIDE DEF m
  <1>5. /\ Len(q) \in Nat /\ Len(q2) = Len(q) + 1 /\ q2[Len(q) + 1] = m
        /\ \A i \in 1..Len(q) : q2[i] = q[i]
    BY <1>1, AppendProperties, LenProperties
  <1> HIDE DEF q2
  <1>6. \A i \in 1..Len(q2) : i \in 1..Len(q) \/ i = Len(q) + 1
    BY <1>5
  <1>7. \A i \in 1..Len(q2) : q2[i] <= n
    BY <1>2, <1>3, <1>5, <1>6 DEF Chained
  <1>8. ASSUME NEW i \in 1..Len(q2), NEW j \in 1..Len(q2), i < j
        PROVE  q2[i] < q2[j]
    <2>1. i \in 1..Len(q)
      BY <1>5, <1>6, <1>8
    <2> QED
      BY <1>2, <1>3, <1>5, <1>6, <1>8, <2>1 DEF Chained
  <1>9. \A i \in 1..Len(w), j \in 1..Len(q2) : w[i] < q2[j]
    BY <1>2, <1>3, <1>5, <1>6 DEF Chained
  <1>10. ASSUME NEW i \in 1..Len(r2), r2[i].op = "send", NEW j \in 1..Len(q2)
         PROVE  q2[j] < r2[i].msg
    BY <1>3, <1>4, <1>5, <1>6, <1>10 DEF Chained
  <1>11. Chained(w, q2, r2, n)
    BY <1>3, <1>7, <1>8, <1>9, <1>10 DEF Chained
  <1> QED
    BY <1>1, <1>11 DEF q2, m

LEMMA GaplessTake ==
    ASSUME NEW w \in Seq(Nat), NEW q \in Seq(Nat), NEW r \in Seq(Handler), NEW r2 \in Seq(Handler),
           NEW n \in Nat, Dropped(r, r2), Chained(w, q, r, n), Gapless(w, q, r, n),
           1 \in 1..Len(r), r[1].op = "send"
    PROVE  Gapless(w, Append(q, r[1].msg), r2, n)
  <1> DEFINE m == r[1].msg
             q2 == Append(q, m)
             k == Len(w) + Len(q) + 1
  <1>1. Len(w) \in Nat /\ Len(q) \in Nat
    BY LenProperties
  <1>2. m \in Nat /\ 1 <= m
    <2>1. r[1] \in Handler
      BY ElementOfSeq
    <2>2. m \in 1..MaxSends
      BY <2>1, Handlers
    <2> QED
      BY <2>2, SizeAssumption
  <1>3. m <= n /\ \A j \in 1..Len(r) : r[j].op = "send" /\ 1 < j => m < r[j].msg
    BY DEF Chained
  <1>4. k <= m
    <2>1. CASE Len(q) > 0
      <3>1. Len(q) \in 1..Len(q)
        BY <1>1, <2>1
      <3>2. q[Len(q)] < m /\ q[Len(q)] = Len(w) + Len(q)
        BY <3>1 DEF Chained, Gapless
      <3> QED
        BY <1>1, <1>2, <3>2
    <2>2. CASE Len(q) = 0 /\ Len(w) > 0
      <3>1. Len(w) \in 1..Len(w)
        BY <1>1, <2>2
      <3>2. w[Len(w)] < m /\ w[Len(w)] = Len(w)
        BY <3>1 DEF Chained, Gapless
      <3> QED
        BY <1>1, <1>2, <2>2, <3>2
    <2>3. CASE Len(q) = 0 /\ Len(w) = 0
      BY <1>2, <2>3
    <2> QED
      BY <1>1, <2>1, <2>2, <2>3
  <1>5. m = k
    <2>1. k \in k..n
      BY <1>1, <1>2, <1>3, <1>4
    <2>2. PICK i \in 1..Len(r) : r[i].op = "send" /\ r[i].msg = k
      BY <2>1 DEF Gapless
    <2>3. ~(1 < i)
      BY <1>1, <1>2, <1>3, <1>4, <2>2
    <2>4. i = 1
      BY <2>3
    <2> QED
      BY <2>2, <2>4
  <1> HIDE DEF m
  <1>6. /\ Len(q2) = Len(q) + 1 /\ q2[Len(q) + 1] = m
        /\ \A i \in 1..Len(q) : q2[i] = q[i]
    BY <1>2, AppendProperties
  <1> HIDE DEF q2
  <1>7. \A i \in 1..Len(q2) : q2[i] = Len(w) + i
    <2> SUFFICES ASSUME NEW i \in 1..Len(q2)
                 PROVE  q2[i] = Len(w) + i
      OBVIOUS
    <2>1. i \in 1..Len(q) \/ i = Len(q) + 1
      BY <1>1, <1>6
    <2>2. CASE i \in 1..Len(q)
      BY <1>6, <2>2 DEF Gapless
    <2>3. CASE i = Len(q) + 1
      BY <1>1, <1>5, <1>6, <2>3
    <2> QED
      BY <2>1, <2>2, <2>3
  <1>8. Len(w) + Len(q2) <= n
    BY <1>1, <1>2, <1>3, <1>5, <1>6
  <1>9. ASSUME NEW l \in (Len(w) + Len(q2) + 1)..n
        PROVE  \E i \in 1..Len(r2) : r2[i].op = "send" /\ r2[i].msg = l
    <2>1. l \in k..n /\ l # m
      BY <1>1, <1>5, <1>6
    <2>2. PICK i \in 1..Len(r) : r[i].op = "send" /\ r[i].msg = l
      BY <2>1 DEF Gapless
    <2>3. i # 1
      BY <2>1, <2>2 DEF m
    <2>4. i \in 2..Len(r)
      BY <2>3
    <2>5. i - 1 \in 1..Len(r2) /\ r2[i - 1] = r[i]
      BY <2>4 DEF Dropped
    <2> QED
      BY <2>2, <2>5
  <1>10. Gapless(w, q2, r2, n)
    BY <1>7, <1>8, <1>9 DEF Gapless
  <1> QED
    BY <1>10 DEF q2, m

\* A write succeeded: the message at the front of the queue is on the wire.
LEMMA NumbersWrite ==
    ASSUME NEW w \in Seq(Nat), NEW q \in Seq(Nat), NEW r \in Seq(Handler), NEW n \in Nat,
           q # << >>, Chained(w, q, r, n)
    PROVE  /\ Chained(Append(w, Head(q)), Tail(q), r, n)
           /\ Gapless(w, q, r, n) => Gapless(Append(w, Head(q)), Tail(q), r, n)
  <1> DEFINE w2 == Append(w, Head(q))
             q2 == Tail(q)
  <1>1. /\ Len(w) \in Nat /\ Len(q) \in Nat /\ Len(q) > 0 /\ Head(q) = q[1] /\ Head(q) \in Nat
        /\ Len(q2) = Len(q) - 1 /\ \A i \in 1..Len(q2) : q2[i] = q[i + 1]
    BY LenProperties, HeadTailProperties, EmptySeq
  <1>2. /\ Len(w2) = Len(w) + 1 /\ w2[Len(w) + 1] = q[1]
        /\ \A i \in 1..Len(w) : w2[i] = w[i]
    BY <1>1, AppendProperties
  <1> HIDE DEF w2, q2
  <1>3. /\ \A i \in 1..Len(w2) : i \in 1..Len(w) \/ i = Len(w) + 1
        /\ \A i \in 1..Len(q2) : i + 1 \in 1..Len(q) /\ 1 < i + 1
        /\ 1 \in 1..Len(q)
    BY <1>1, <1>2
  <1>4. /\ \A i \in 1..Len(w2) : w2[i] <= n
        /\ \A i \in 1..Len(q2) : q2[i] <= n
    BY <1>1, <1>2, <1>3 DEF Chained
  <1>5. ASSUME NEW i \in 1..Len(w2), NEW j \in 1..Len(w2), i < j
        PROVE  w2[i] < w2[j]
    <2>1. i \in 1..Len(w)
      BY <1>1, <1>2, <1>3, <1>5
    <2> QED
      BY <1>2, <1>3, <1>5, <2>1 DEF Chained
  <1>6. ASSUME NEW i \in 1..Len(q2), NEW j \in 1..Len(q2), i < j
        PROVE  q2[i] < q2[j]
    <2>1. i + 1 < j + 1
      BY <1>6
    <2> QED
      BY <1>1, <1>3, <2>1 DEF Chained
  <1>7. \A i \in 1..Len(w2), j \in 1..Len(q2) : w2[i] < q2[j]
    BY <1>1, <1>2, <1>3 DEF Chained
  <1>8. ASSUME NEW i \in 1..Len(r), r[i].op = "send"
        PROVE  /\ \A j \in 1..Len(w2) : w2[j] < r[i].msg
               /\ \A j \in 1..Len(q2) : q2[j] < r[i].msg
    BY <1>1, <1>2, <1>3, <1>8 DEF Chained
  <1>9. Chained(w2, q2, r, n)
    BY <1>4, <1>5, <1>6, <1>7, <1>8 DEF Chained
  <1>10. ASSUME Gapless(w, q, r, n)
         PROVE  Gapless(w2, q2, r, n)
    <2>1. /\ \A i \in 1..Len(w) : w[i] = i
          /\ \A i \in 1..Len(q) : q[i] = Len(w) + i
          /\ Len(w) + Len(q) <= n
      BY <1>10 DEF Gapless
    <2>2. \A i \in 1..Len(w2) : w2[i] = i
      BY <1>1, <1>2, <1>3, <2>1
    <2>3. ASSUME NEW i \in 1..Len(q2)
          PROVE  q2[i] = Len(w2) + i
      <3>1. q2[i] = Len(w) + (i + 1)
        BY <1>1, <1>3, <2>1
      <3> QED
        BY <1>1, <1>2, <3>1
    <2>4. Len(w2) + Len(q2) = Len(w) + Len(q)
      BY <1>1, <1>2
    <2> QED
      BY <1>10, <2>1, <2>2, <2>3, <2>4 DEF Gapless
  <1> QED
    BY <1>9, <1>10 DEF w2, q2
-----------------------------------------------------------------------------
(* The server's count, and the steps of its sessions. *)

LEMMA ActiveFinite == IsFiniteSet({u \in Session : handshake_active_[u]})
  BY FS_Subset, SessionAssumption

\* A handshake that ends is counted down once.
LEMMA Finishes ==
    ASSUME Inv, NEW s \in Session, finish_handshake_tracking(s)
    PROVE  /\ handshake_active_' \in [Session -> BOOLEAN]
           /\ handshake_active_'[s] = FALSE
           /\ \A u \in Session : u # s => handshake_active_'[u] = handshake_active_[u]
           /\ active_handshakes' \in Nat
           /\ active_handshakes' = Cardinality({u \in Session : handshake_active_[u]}')
  <1> DEFINE A == {u \in Session : handshake_active_[u]}
             B == {u \in Session : handshake_active_'[u]}
  <1>1. /\ handshake_active_' \in [Session -> BOOLEAN] /\ handshake_active_'[s] = FALSE
        /\ \A u \in Session : u # s => handshake_active_'[u] = handshake_active_[u]
    BY DEF Inv, TypeOK, finish_handshake_tracking
  <1>2. B = A \ {s} /\ (s \in A <=> handshake_active_[s])
    BY <1>1
  <1>3. IsFiniteSet(A) /\ active_handshakes = Cardinality(A) /\ active_handshakes \in Nat
    BY ActiveFinite DEF Inv, ServerInv, TypeOK
  <1> HIDE DEF A, B
  <1>4. CASE handshake_active_[s]
    <2>1. Cardinality(A \ {s}) = Cardinality(A) - 1 /\ Cardinality(A \ {s}) \in Nat
      <3>1. IsFiniteSet(A \ {s}) /\ s \in A
        BY <1>2, <1>3, <1>4, FS_RemoveElement
      <3>2. Cardinality(A \ {s}) = IF s \in A THEN Cardinality(A) - 1 ELSE Cardinality(A)
        BY <1>3, FS_RemoveElement
      <3> QED
        BY <3>1, <3>2, FS_CardinalityType
    <2>2. active_handshakes > 0
      BY <1>3, <2>1
    <2>3. active_handshakes' = active_handshakes - 1
      BY <1>4, <2>2 DEF finish_handshake_tracking
    <2> QED
      BY <1>1, <1>2, <1>3, <2>1, <2>3 DEF B
  <1>5. CASE ~handshake_active_[s]
    <2>1. A \ {s} = A /\ active_handshakes' = active_handshakes
      BY <1>2, <1>5 DEF finish_handshake_tracking
    <2> QED
      BY <1>1, <1>2, <1>3, <2>1 DEF B
  <1> QED
    BY <1>4, <1>5

\* One that starts is counted up.
LEMMA AcceptStep ==
    ASSUME Inv, NEW s \in Session, Accept(s)
    PROVE  Inv'
  <1> DEFINE A == {u \in Session : handshake_active_[u]}
             B == {u \in Session : handshake_active_'[u]}
  <1>1. /\ stage[s] = "new" /\ stage'[s] = "ssl" /\ handshake_active_'[s] = TRUE
        /\ closed_'[s] = closed_[s] /\ registered_'[s] = registered_[s]
        /\ send_queue_'[s] = send_queue_[s] /\ writes'[s] = writes[s]
        /\ overflowed'[s] = overflowed[s] /\ undefined'[s] = undefined[s]
        /\ reading'[s] = reading[s] /\ broken'[s] = broken[s] /\ ready'[s] = ready[s]
        /\ wire'[s] = wire[s] /\ sent'[s] = sent[s] /\ disconnects'[s] = disconnects[s]
        /\ shutting' = shutting
    BY DEF Inv, TypeOK, Accept, queue, bounds
  <1>2. TypeOK'
    BY DEF Inv, TypeOK, Accept, queue, bounds, Stage
  <1>3. \A u \in Session : u # s => Kept(u)
    BY DEF Inv, TypeOK, Accept, queue, bounds, Kept
  <1>4. ~broken[s] /\ ~closed_[s] /\ ~handshake_active_[s]
    BY <1>1 DEF Inv, SessionInv, Life
  <1>5. ServerInv'
    <2>1. B = A \cup {s} /\ s \notin A
      BY <1>3, <1>1, <1>4 DEF Kept
    <2>2. IsFiniteSet(A) /\ active_handshakes = Cardinality(A) /\ active_handshakes \in Nat
          /\ active_handshakes' = active_handshakes + 1
      BY ActiveFinite DEF Inv, ServerInv, TypeOK, Accept
    <2> HIDE DEF A, B
    <2>3. Cardinality(A \cup {s}) = IF s \in A THEN Cardinality(A) ELSE Cardinality(A) + 1
      BY <2>2, FS_AddElement
    <2>4. active_handshakes' = Cardinality(B)
      BY <2>1, <2>2, <2>3
    <2>5. UNCHANGED <<sessions_, registered_, stopped, shutting>>
      BY DEF Accept
    <2> QED
      BY <2>4, <2>5 DEF B, ServerInv, Inv
  <1>6. HandlersOK(s)'
    <2>1. ASSUME NEW i \in 1..Len(ready[s]) PROVE FALSE
      <3>1. ready[s][i] \in Handler /\ HandlerOK(s, ready[s][i])
        BY ElementOfSeq DEF Inv, TypeOK, SessionInv, HandlersOK
      <3>2. ready[s][i].op \in Op \cup {"send", "close"}
        BY <3>1 DEF Handler
      <3> QED
        BY <1>1, <1>4, <3>1, <3>2 DEF HandlerOK, Op, Inv, SessionInv, Life
    <2> QED
      BY <1>1, <2>1 DEF HandlersOK
  <1>7. OnePending(s)' /\ Chain(s)' /\ Whole(s)'
    BY <1>1 DEF Inv, SessionInv, OnePending, Chain, Whole
  <1>8. Life(s)' /\ WriteOK(s)'
    BY <1>1, <1>4 DEF Inv, SessionInv, Life, WriteOK
  <1> QED
    BY <1>2, <1>3, <1>5, <1>6, <1>7, <1>8, OneSession DEF Inv, SessionInv
-----------------------------------------------------------------------------
(* Calls and completions only post. *)

\* Nothing of s changes but what is ready, and perhaps what was sent.
OnlyPosts(s, h) ==
    /\ stage'[s] = stage[s] /\ closed_'[s] = closed_[s] /\ registered_'[s] = registered_[s]
    /\ handshake_active_'[s] = handshake_active_[s] /\ send_queue_'[s] = send_queue_[s]
    /\ writes'[s] = writes[s] /\ overflowed'[s] = overflowed[s] /\ undefined'[s] = undefined[s]
    /\ reading'[s] = reading[s] /\ broken'[s] = broken[s]
    /\ wire'[s] = wire[s] /\ disconnects'[s] = disconnects[s]
    /\ s \in shutting' <=> s \in shutting
    /\ ready'[s] = Append(ready[s], h)

LEMMA Numbers ==
    ASSUME TypeOK, NEW s \in Session
    PROVE  wire[s] \in Seq(Nat) /\ send_queue_[s] \in Seq(Nat) /\ sent[s] \in Nat
  <1>1. 1..MaxSends \subseteq Nat /\ 0..MaxSends \subseteq Nat
    BY SizeAssumption
  <1>2. /\ wire[s] \in Seq(1..MaxSends) /\ send_queue_[s] \in Seq(1..MaxSends)
        /\ sent[s] \in 0..MaxSends
    BY DEF TypeOK
  <1> QED
    BY <1>1, <1>2, SeqMonotonic

\* A handler that is no send leaves the numbers alone.
LEMMA NumbersPost ==
    ASSUME NEW w, NEW q, NEW r \in Seq(Handler), NEW n, NEW h \in Handler, h.op # "send"
    PROVE  /\ Chained(w, q, r, n) => Chained(w, q, Append(r, h), n)
           /\ Gapless(w, q, r, n) => Gapless(w, q, Append(r, h), n)
  <1> DEFINE r2 == Append(r, h)
  <1>1. /\ Len(r) \in Nat /\ Len(r2) = Len(r) + 1 /\ r2[Len(r) + 1] = h
        /\ \A i \in 1..Len(r) : r2[i] = r[i]
    BY AppendProperties, LenProperties
  <1> HIDE DEF r2
  <1>2. /\ \A i \in 1..Len(r2) : r2[i].op = "send" => i \in 1..Len(r) /\ r2[i] = r[i]
        /\ \A i \in 1..Len(r) : i \in 1..Len(r2) /\ r2[i] = r[i]
    BY <1>1
  <1>3. Chained(w, q, r, n) => Chained(w, q, r2, n)
    BY <1>2 DEF Chained
  <1>4. Gapless(w, q, r, n) => Gapless(w, q, r2, n)
    BY <1>2 DEF Gapless
  <1> QED
    BY <1>3, <1>4 DEF r2

LEMMA PostInv ==
    ASSUME Inv, NEW s \in Session, NEW h \in Handler, OnlyPosts(s, h), HandlerOK(s, h),
           h.op \in Op => \A i \in 1..Len(ready[s]) : ready[s][i].op # h.op,
           IF h.op = "send"
           THEN /\ sent'[s] = sent[s] + 1 /\ sent[s] + 1 \in 1..MaxSends /\ h = SendOf(sent[s] + 1)
           ELSE sent'[s] = sent[s]
    PROVE  SessionInv(s)'
  <1> DEFINE r == ready[s]
             r2 == ready'[s]
  <1>1. /\ r \in Seq(Handler) /\ wire[s] \in Seq(1..MaxSends) /\ send_queue_[s] \in Seq(1..MaxSends)
        /\ sent[s] \in 0..MaxSends
    BY DEF Inv, TypeOK
  <1>2. /\ Len(r) \in Nat /\ Len(r2) = Len(r) + 1 /\ r2[Len(r) + 1] = h
        /\ \A i \in 1..Len(r) : r2[i] = r[i]
    BY <1>1, AppendProperties, LenProperties DEF OnlyPosts
  <1>3. \A i \in 1..Len(r2) :
           (i \in 1..Len(r) /\ r2[i] = r[i]) \/ (i = Len(r) + 1 /\ r2[i] = h)
    <2>1. \A i \in 1..(Len(r) + 1) : i \in 1..Len(r) \/ i = Len(r) + 1
      BY <1>2
    <2> QED
      BY <1>2, <2>1
  <1>4. HandlersOK(s)'
    <2>1. \A x : HandlerOK(s, x)' <=> HandlerOK(s, x)
      BY DEF OnlyPosts, HandlerOK
    <2>2. \A i \in 1..Len(r) : HandlerOK(s, r[i])
      BY DEF Inv, SessionInv, HandlersOK
    <2>3. \A i \in 1..Len(r2) : HandlerOK(s, r2[i])
      BY <1>3, <2>2
    <2>4. ASSUME NEW i \in 1..Len(r2)
          PROVE  \E x : x = r2[i] /\ HandlerOK(s, x)'
      BY <2>1, <2>3
    <2> QED
      BY <2>4 DEF HandlersOK, HandlerOK
  <1>5. OnePending(s)'
    BY <1>2, <1>3 DEF Inv, SessionInv, OnePending
  <1>6. Life(s)' /\ WriteOK(s)'
    BY DEF Inv, SessionInv, Life, WriteOK, OnlyPosts
  <1>7. wire[s] \in Seq(Nat) /\ send_queue_[s] \in Seq(Nat) /\ sent[s] \in Nat
    BY Numbers DEF Inv
  <1>8. Chained(wire[s], send_queue_[s], r, sent[s])
    BY DEF Inv, SessionInv, Chain
  <1>9. ~closed_[s] /\ ~overflowed[s] => Gapless(wire[s], send_queue_[s], r, sent[s])
    BY DEF Inv, SessionInv, Whole
  <1>10. CASE h.op = "send"
    <2>1. /\ Chained(wire[s], send_queue_[s], Append(r, h), sent[s] + 1)
          /\ ~closed_[s] /\ ~overflowed[s] =>
                Gapless(wire[s], send_queue_[s], Append(r, h), sent[s] + 1)
      BY <1>1, <1>7, <1>8, <1>9, <1>10, ChainedPost, GaplessPost
    <2> QED
      BY <1>4, <1>5, <1>6, <1>10, <2>1 DEF SessionInv, Chain, Whole, OnlyPosts
  <1>11. CASE h.op # "send"
    <2>1. /\ Chained(wire[s], send_queue_[s], Append(r, h), sent[s])
          /\ ~closed_[s] /\ ~overflowed[s] =>
                Gapless(wire[s], send_queue_[s], Append(r, h), sent[s])
      BY <1>1, <1>8, <1>9, <1>11, NumbersPost
    <2> QED
      BY <1>4, <1>5, <1>6, <1>11, <2>1 DEF SessionInv, Chain, Whole, OnlyPosts
  <1> QED
    BY <1>10, <1>11

LEMMA SendStep ==
    ASSUME Inv, NEW s \in Session, Send(s)
    PROVE  Inv'
  <1> DEFINE h == SendOf(sent[s] + 1)
  <1>1. sent[s] + 1 \in 1..MaxSends /\ sent[s] \in 0..MaxSends
    BY SizeAssumption DEF Inv, TypeOK, Send
  <1>2. h \in Handler /\ h.op = "send" /\ h.op \notin Op
    BY <1>1, Handlers
  <1>3. OnlyPosts(s, h) /\ sent'[s] = sent[s] + 1
    BY DEF Inv, TypeOK, Send, server, flags, queue, OnlyPosts
  <1>4. \A u \in Session : u # s => Kept(u)
    BY DEF Inv, TypeOK, Send, server, flags, queue, Kept
  <1>5. TypeOK'
    <2>1. sent' \in [Session -> 0..MaxSends]
      <3>1. sent[s] + 1 \in 0..MaxSends
        BY <1>1, SizeAssumption
      <3> QED
        BY <3>1 DEF Inv, TypeOK, Send
    <2>2. ready' \in [Session -> Seq(Handler)]
      BY <1>2, Posts DEF Inv, Send
    <2> QED
      BY <2>1, <2>2 DEF Inv, TypeOK, Send, server, flags, queue
  <1>6. HandlerOK(s, h)
    <2> HIDE DEF h
    <2> QED
      BY <1>2 DEF HandlerOK, Send, Op
  <1>7. ServerInv'
    BY DEF Inv, ServerInv, Send, server, flags
  <1>8. SessionInv(s)'
    <2> HIDE DEF h
    <2>1. h = SendOf(sent[s] + 1)
      BY DEF h
    <2> QED
      BY <1>1, <1>2, <1>3, <1>6, <2>1, PostInv
  <1> QED
    BY <1>4, <1>5, <1>7, <1>8, OneSession DEF Inv

LEMMA CloseStep ==
    ASSUME Inv, NEW s \in Session, Close(s)
    PROVE  Inv'
  <1> DEFINE h == CloseOf(TRUE)
  <1>1. h \in Handler /\ h.op = "close" /\ h.graceful = TRUE /\ h.op \notin Op
    BY Handlers
  <1>2. OnlyPosts(s, h) /\ sent'[s] = sent[s]
    BY DEF Inv, TypeOK, Close, server, flags, queue, OnlyPosts
  <1>3. \A u \in Session : u # s => Kept(u)
    BY DEF Inv, TypeOK, Close, server, flags, queue, Kept
  <1>4. TypeOK'
    <2>1. closes' \in 0..MaxCloses
      BY SizeAssumption DEF Inv, TypeOK, Close
    <2>2. ready' \in [Session -> Seq(Handler)]
      BY <1>1, Posts DEF Inv, Close
    <2> QED
      BY <2>1, <2>2 DEF Inv, TypeOK, Close, server, flags, queue
  <1>5. ServerInv'
    BY DEF Inv, ServerInv, Close, server, flags
  <1>6. HandlerOK(s, h)
    <2> HIDE DEF h
    <2> QED
      BY <1>1 DEF HandlerOK, Close, Op
  <1>7. SessionInv(s)'
    <2> HIDE DEF h
    <2> QED
      BY <1>1, <1>2, <1>6, PostInv
  <1> QED
    BY <1>3, <1>4, <1>5, <1>7, OneSession DEF Inv

LEMMA CompleteStep ==
    ASSUME Inv, NEW s \in Session, NEW op \in Op, NEW ok \in BOOLEAN, Complete(s, op, ok)
    PROVE  Inv'
  <1> DEFINE h == Completion(op, ok)
  <1>1. h \in Handler /\ h.op = op /\ h.op # "send" /\ h.op # "close"
    BY Handlers
  <1>2. OnlyPosts(s, h) /\ sent'[s] = sent[s]
    BY DEF Inv, TypeOK, Complete, server, flags, queue, OnlyPosts
  <1>3. \A u \in Session : u # s => Kept(u)
    BY DEF Inv, TypeOK, Complete, server, flags, queue, Kept
  <1>4. TypeOK'
    <2>1. reads' \in [Session -> 0..MaxReads]
      <3>1. CASE op = "read" /\ ok
        <4>1. reads[s] + 1 \in 0..MaxReads
          BY <3>1, SizeAssumption DEF Inv, TypeOK, Complete
        <4> QED
          BY <3>1, <4>1 DEF Inv, TypeOK, Complete
      <3>2. CASE ~(op = "read" /\ ok)
        BY <3>2 DEF Inv, TypeOK, Complete
      <3> QED
        BY <3>1, <3>2
    <2>2. ready' \in [Session -> Seq(Handler)]
      BY <1>1, Posts DEF Inv, Complete
    <2> QED
      BY <2>1, <2>2 DEF Inv, TypeOK, Complete, server, flags, queue
  <1>5. ServerInv'
    BY DEF Inv, ServerInv, Complete, server, flags
  <1>6. HandlerOK(s, h) /\ \A i \in 1..Len(ready[s]) : ready[s][i].op # op
    <2>1. Waiting(s, op)
      BY DEF Complete
    <2>2. ready[s] \in Seq(Handler) /\ DOMAIN ready[s] = 1..Len(ready[s])
      BY LenProperties DEF Inv, TypeOK
    <2> HIDE DEF h
    <2> QED
      BY <1>1, <2>1, <2>2 DEF HandlerOK, Waiting, Op
  <1>7. SessionInv(s)'
    <2> HIDE DEF h
    <2> QED
      BY <1>1, <1>2, <1>6, PostInv
  <1> QED
    BY <1>3, <1>4, <1>5, <1>7, OneSession DEF Inv

LEMMA StopStep ==
    ASSUME Inv, Stop
    PROVE  Inv'
  <1> DEFINE h == CloseOf(TRUE)
  <1>1. h \in Handler /\ h.op = "close" /\ h.graceful = TRUE /\ h.op \notin Op
    BY Handlers
  <1>2. ASSUME NEW s \in Session PROVE SessionInv(s)' /\ ready'[s] \in Seq(Handler)
    <2>1. CASE s \in sessions_
      <3>1. OnlyPosts(s, h) /\ sent'[s] = sent[s]
        BY <2>1 DEF Inv, TypeOK, Stop, flags, queue, bounds, OnlyPosts
      <3>2. stage[s] = "open"
        BY <2>1 DEF Inv, ServerInv, SessionInv, Life
      <3> HIDE DEF h
      <3>3. HandlerOK(s, h)
        BY <1>1, <3>2 DEF HandlerOK, Op
      <3>4. SessionInv(s)'
        BY <1>1, <3>1, <3>3, PostInv
      <3>5. ready'[s] \in Seq(Handler)
        BY <1>1, <3>1, AppendProperties DEF OnlyPosts, Inv, TypeOK
      <3> QED
        BY <3>4, <3>5
    <2>2. CASE s \notin sessions_
      <3>1. Kept(s)
        BY <2>2 DEF Inv, TypeOK, Stop, flags, queue, bounds, Kept
      <3> QED
        BY <3>1, KeptInv DEF Inv, Kept, TypeOK
    <2> QED
      BY <2>1, <2>2
  <1>3. TypeOK'
    <2>1. ready' \in [Session -> Seq(Handler)]
      <3>1. ready' = [s \in Session |-> ready'[s]]
        BY DEF Stop
      <3> QED
        BY <1>2, <3>1
    <2> QED
      BY <2>1 DEF Inv, TypeOK, Stop, flags, queue, bounds
  <1>4. ServerInv'
    BY DEF Inv, ServerInv, Stop, flags
  <1> QED
    BY <1>2, <1>3, <1>4 DEF Inv
-----------------------------------------------------------------------------
(* The handlers run. *)

\* What a handler that runs finds.
LEMMA Head1OK ==
    ASSUME Inv, NEW s \in Session, ready[s] # << >>
    PROVE  /\ 1 \in 1..Len(ready[s]) /\ Head1(s) = ready[s][1]
           /\ Head1(s) \in Handler /\ HandlerOK(s, Head1(s))
  <1>1. ready[s] \in Seq(Handler)
    BY DEF Inv, TypeOK
  <1>2. 1 \in 1..Len(ready[s])
    BY <1>1, EmptySeq, LenProperties
  <1>3. Head1(s) = ready[s][1] /\ Head1(s) \in Handler
    BY <1>1, HeadTailProperties DEF Head1
  <1> QED
    BY <1>2, <1>3 DEF Inv, SessionInv, HandlersOK

\* The numbers, when neither the wire nor the queue changes, or the queue is cleared.
LEMMA StepsNumbers ==
    ASSUME Inv, NEW s \in Session, Steps(s), sent'[s] = sent[s], wire'[s] = wire[s],
           send_queue_'[s] \in {send_queue_[s], << >>}
    PROVE  /\ Chain(s)'
           /\ \/ closed_'[s] \/ overflowed'[s]
              \/ /\ Head1(s).op # "send" /\ send_queue_'[s] = send_queue_[s]
                 /\ closed_'[s] = closed_[s] /\ overflowed'[s] = overflowed[s]
              => Whole(s)'
  <1>1. /\ TypeOK /\ OnePending(s) /\ Chained(wire[s], send_queue_[s], ready[s], sent[s])
        /\ ~closed_[s] /\ ~overflowed[s] => Gapless(wire[s], send_queue_[s], ready[s], sent[s])
    BY DEF Inv, SessionInv, Chain, Whole
  <1>2. Dropped(ready[s], ready'[s]) /\ ready'[s] \in Seq(Handler) /\ ready[s] \in Seq(Handler)
    BY <1>1, StepsDrop, StepsHandlers DEF TypeOK
  <1>3. Chained(wire[s], send_queue_[s], ready'[s], sent[s])
        /\ Chained(wire[s], << >>, ready'[s], sent[s])
    BY <1>1, <1>2, Numbers, ChainedDrop
  <1>4. Head1(s) = ready[s][1]
    BY Head1OK DEF Steps
  <1>5. ASSUME Head1(s).op # "send", ~closed_[s], ~overflowed[s]
        PROVE  Gapless(wire[s], send_queue_[s], ready'[s], sent[s])
    BY <1>1, <1>2, <1>4, <1>5, GaplessDrop
  <1> QED
    BY <1>3, <1>5 DEF Chain, Whole

LEMMA RunHandshakeStep ==
    ASSUME Inv, NEW s \in Session, NEW op, NEW next,
           <<op, next>> \in {<<"ssl", "upgrade">>, <<"upgrade", "accept">>},
           RunHandshake(s, op, next)
    PROVE  Inv'
  <1>1. /\ Steps(s) /\ Head1(s).op = op /\ ready[s] # << >>
        /\ op \in {"ssl", "upgrade"} /\ next \in {"upgrade", "accept"}
    BY DEF RunHandshake, Runs, Steps
  <1>2. HandlerOK(s, Head1(s)) /\ stage[s] = op
    BY <1>1, Head1OK DEF HandlerOK
  <1>3. /\ closed_'[s] = closed_[s] /\ registered_'[s] = registered_[s]
        /\ handshake_active_'[s] = handshake_active_[s]
        /\ send_queue_'[s] = send_queue_[s] /\ writes'[s] = writes[s]
        /\ overflowed'[s] = overflowed[s] /\ undefined'[s] = undefined[s]
        /\ reading'[s] = reading[s] /\ wire'[s] = wire[s] /\ sent'[s] = sent[s]
        /\ disconnects'[s] = disconnects[s] /\ shutting' = shutting
    BY DEF RunHandshake, server, flags, queue, bounds
  <1>4. \/ Consume(s) /\ stage'[s] = next /\ broken'[s] = broken[s]
        \/ stage'[s] = op /\ broken'[s] = TRUE
    BY <1>2 DEF RunHandshake, Inv, TypeOK
  <1>5. TypeOK' /\ \A u \in Session : u # s => Kept(u)
    <2>1. ready' \in [Session -> Seq(Handler)] /\ \A u \in Session : u # s => ready'[u] = ready[u]
      BY <1>1, StepsHandlers DEF Inv, SessionInv
    <2>2. stage' \in [Session -> Stage] /\ broken' \in [Session -> BOOLEAN]
      BY <1>1 DEF Inv, TypeOK, RunHandshake, Stage
    <2> QED
      BY <2>1, <2>2 DEF Inv, TypeOK, Kept, RunHandshake, server, flags, queue, bounds
  <1>6. ServerInv'
    BY DEF Inv, ServerInv, RunHandshake, server, flags
  <1>7. HandlersOK(s)'
    <2>1. ASSUME NEW h \in Handler, HandlerOK(s, h), h.op \in Op => h.op # Head1(s).op
          PROVE  HandlerOK(s, h)'
      BY <1>1, <1>2, <1>3, <1>4, <2>1 DEF HandlerOK, Op
    <2>2. Consume(s) \/ HandlerOK(s, CloseOf(FALSE))'
      BY <1>4 DEF HandlerOK, CloseOf
    <2> QED
      BY <1>1, <2>1, <2>2, StepsOK DEF Inv, SessionInv
  <1>8. OnePending(s)'
    BY <1>1, StepsHandlers DEF Inv, SessionInv
  <1>9. Life(s)'
    BY <1>1, <1>2, <1>3, <1>4 DEF Inv, SessionInv, Life
  <1>10. WriteOK(s)'
    BY <1>1, <1>2, <1>3, <1>4 DEF Inv, SessionInv, WriteOK
  <1>11. Chain(s)' /\ Whole(s)'
    BY <1>1, <1>3, StepsNumbers
  <1> QED
    BY <1>5, <1>6, <1>7, <1>8, <1>9, <1>10, <1>11, OneSession DEF Inv, SessionInv

LEMMA RunReadStep ==
    ASSUME Inv, NEW s \in Session, RunRead(s)
    PROVE  Inv'
  <1>1. Steps(s) /\ Head1(s).op = "read" /\ ready[s] # << >>
    BY DEF RunRead, Runs, Steps
  <1>2. HandlerOK(s, Head1(s)) /\ stage[s] = "open"
    BY <1>1, Head1OK DEF HandlerOK, Inv, SessionInv, Life
  <1>3. /\ stage'[s] = stage[s] /\ closed_'[s] = closed_[s] /\ registered_'[s] = registered_[s]
        /\ handshake_active_'[s] = handshake_active_[s]
        /\ send_queue_'[s] = send_queue_[s] /\ writes'[s] = writes[s]
        /\ overflowed'[s] = overflowed[s] /\ undefined'[s] = undefined[s]
        /\ wire'[s] = wire[s] /\ sent'[s] = sent[s] /\ disconnects'[s] = disconnects[s]
        /\ shutting' = shutting
    BY DEF RunRead, server, flags, queue, bounds
  <1>4. \/ Consume(s) /\ reading'[s] = reading[s] /\ broken'[s] = broken[s]
        \/ reading'[s] = FALSE /\ broken'[s] = TRUE
    BY DEF RunRead, Inv, TypeOK
  <1>5. TypeOK' /\ \A u \in Session : u # s => Kept(u)
    <2>1. ready' \in [Session -> Seq(Handler)] /\ \A u \in Session : u # s => ready'[u] = ready[u]
      BY <1>1, StepsHandlers DEF Inv, SessionInv
    <2>2. reading' \in [Session -> BOOLEAN] /\ broken' \in [Session -> BOOLEAN]
      BY DEF Inv, TypeOK, RunRead
    <2> QED
      BY <2>1, <2>2 DEF Inv, TypeOK, Kept, RunRead, server, flags, queue, bounds
  <1>6. ServerInv'
    BY DEF Inv, ServerInv, RunRead, server, flags
  <1>7. HandlersOK(s)'
    <2>1. ASSUME NEW h \in Handler, HandlerOK(s, h), h.op \in Op => h.op # Head1(s).op
          PROVE  HandlerOK(s, h)'
      BY <1>1, <1>2, <1>3, <1>4, <2>1 DEF HandlerOK, Op
    <2>2. Consume(s) \/ HandlerOK(s, CloseOf(FALSE))'
      BY <1>4 DEF HandlerOK, CloseOf
    <2> QED
      BY <1>1, <2>1, <2>2, StepsOK DEF Inv, SessionInv
  <1>8. OnePending(s)'
    BY <1>1, StepsHandlers DEF Inv, SessionInv
  <1>9. Life(s)' /\ WriteOK(s)'
    BY <1>2, <1>3, <1>4 DEF Inv, SessionInv, Life, WriteOK
  <1>10. Chain(s)' /\ Whole(s)'
    BY <1>1, <1>3, StepsNumbers
  <1> QED
    BY <1>5, <1>6, <1>7, <1>8, <1>9, <1>10, OneSession DEF Inv, SessionInv

LEMMA RunAcceptStep ==
    ASSUME Inv, NEW s \in Session, RunAccept(s)
    PROVE  Inv'
  <1>1. Steps(s) /\ Head1(s).op = "accept" /\ ready[s] # << >>
    BY DEF RunAccept, Runs, Steps
  <1>2. HandlerOK(s, Head1(s)) /\ stage[s] = "accept"
    BY <1>1, Head1OK DEF HandlerOK
  <1>3. /\ closed_'[s] = closed_[s] /\ send_queue_'[s] = send_queue_[s] /\ writes'[s] = writes[s]
        /\ overflowed'[s] = overflowed[s] /\ undefined'[s] = undefined[s]
        /\ wire'[s] = wire[s] /\ sent'[s] = sent[s] /\ disconnects'[s] = disconnects[s]
        /\ shutting' = shutting
    BY DEF RunAccept, queue, bounds
  <1>4. ready' \in [Session -> Seq(Handler)] /\ \A u \in Session : u # s => ready'[u] = ready[u]
    BY <1>1, StepsHandlers DEF Inv, SessionInv
  <1>5. OnePending(s)' /\ Chain(s)' /\ Whole(s)'
    BY <1>1, <1>3, StepsHandlers, StepsNumbers DEF Inv, SessionInv
  <1>6. CASE /\ Ok(s) /\ Consume(s)
             /\ stage' = [stage EXCEPT ![s] = "open"]
             /\ registered_' = [registered_ EXCEPT ![s] = TRUE]
             /\ sessions_' = sessions_ \cup {s}
             /\ finish_handshake_tracking(s)
             /\ reading' = [reading EXCEPT ![s] = TRUE]
             /\ UNCHANGED broken
    <2>1. /\ stage'[s] = "open" /\ registered_'[s] = TRUE /\ reading'[s] = TRUE
          /\ broken'[s] = broken[s] /\ ~broken[s] /\ handshake_active_'[s] = FALSE
      BY <1>6, Finishes DEF Inv, TypeOK, Ok
    <2>2. ~closed_[s]
      BY <1>2, <2>1 DEF Inv, SessionInv, Life
    <2>3. TypeOK' /\ \A u \in Session : u # s => Kept(u)
      <3>1. /\ handshake_active_' \in [Session -> BOOLEAN] /\ active_handshakes' \in Nat
            /\ \A u \in Session : u # s => handshake_active_'[u] = handshake_active_[u]
        BY <1>6, Finishes
      <3>2. /\ stage' \in [Session -> Stage] /\ registered_' \in [Session -> BOOLEAN]
            /\ reading' \in [Session -> BOOLEAN] /\ sessions_' \subseteq Session
        BY <1>6 DEF Inv, TypeOK, Stage
      <3>3. TypeOK'
        BY <1>4, <1>6, <3>1, <3>2 DEF Inv, TypeOK, RunAccept, queue, bounds
      <3>4. \A u \in Session : u # s => Kept(u)
        BY <1>4, <1>6, <3>1 DEF Inv, TypeOK, Kept, RunAccept, queue, bounds
      <3> QED
        BY <3>3, <3>4
    <2>4. ServerInv'
      <3>1. active_handshakes' = Cardinality({u \in Session : handshake_active_[u]}')
        BY <1>6, Finishes
      <3>2. \A u \in Session : /\ u \in sessions_' => registered_'[u]
                               /\ registered_'[u] /\ ~stopped' => u \in sessions_'
        BY <1>6 DEF Inv, TypeOK, ServerInv, RunAccept
      <3> QED
        BY <1>3, <3>1, <3>2 DEF Inv, ServerInv
    <2>5. HandlersOK(s)'
      <3>1. ASSUME NEW h \in Handler, HandlerOK(s, h), h.op \in Op => h.op # Head1(s).op
            PROVE  HandlerOK(s, h)'
        BY <1>1, <1>2, <1>3, <2>1, <3>1 DEF HandlerOK, Op
      <3> QED
        BY <1>1, <1>6, <3>1, StepsOK DEF Inv, SessionInv
    <2>6. Life(s)' /\ WriteOK(s)'
      BY <1>2, <1>3, <2>1, <2>2 DEF Inv, SessionInv, Life, WriteOK
    <2> QED
      BY <1>5, <2>3, <2>4, <2>5, <2>6, OneSession DEF Inv, SessionInv
  <1>7. CASE /\ broken' = [broken EXCEPT ![s] = TRUE]
             /\ UNCHANGED <<stage, registered_, sessions_, handshake_active_,
                            active_handshakes, reading>>
    <2>1. broken'[s] = TRUE /\ broken' \in [Session -> BOOLEAN]
      BY <1>7 DEF Inv, TypeOK
    <2>2. TypeOK' /\ \A u \in Session : u # s => Kept(u)
      BY <1>4, <1>7, <2>1 DEF Inv, TypeOK, Kept, RunAccept, queue, bounds
    <2>3. ServerInv'
      BY <1>7 DEF Inv, ServerInv, RunAccept
    <2>4. HandlersOK(s)'
      <3>1. ASSUME NEW h \in Handler, HandlerOK(s, h), h.op \in Op => h.op # Head1(s).op
            PROVE  HandlerOK(s, h)'
        BY <1>3, <1>7, <2>1, <3>1 DEF HandlerOK
      <3>2. HandlerOK(s, CloseOf(FALSE))'
        BY <2>1 DEF HandlerOK, CloseOf
      <3> QED
        BY <1>1, <3>1, <3>2, StepsOK DEF Inv, SessionInv
    <2>5. Life(s)' /\ WriteOK(s)'
      BY <1>2, <1>3, <1>7, <2>1 DEF Inv, SessionInv, Life, WriteOK
    <2> QED
      BY <1>5, <2>2, <2>3, <2>4, <2>5, OneSession DEF Inv, SessionInv
  <1> QED
    BY <1>6, <1>7 DEF RunAccept

LEMMA PerformCloseStep ==
    ASSUME Inv, NEW s \in Session, PerformClose(s)
    PROVE  Inv'
  <1>1. /\ Steps(s) /\ Consume(s) /\ Head1(s).op = "close" /\ ready[s] # << >>
        /\ shutting = {}
    BY DEF PerformClose, Runs, IoFree, Steps
  <1>2. HandlerOK(s, Head1(s)) /\ Head1(s).graceful \in BOOLEAN
    BY <1>1, Head1OK, Handlers
  <1>3. /\ stage'[s] = stage[s] /\ writes'[s] = writes[s] /\ overflowed'[s] = overflowed[s]
        /\ undefined'[s] = undefined[s] /\ reading'[s] = reading[s] /\ wire'[s] = wire[s]
        /\ sent'[s] = sent[s] /\ registered_'[s] = registered_[s]
        /\ disconnects'[s] = disconnects[s]
    BY DEF PerformClose, bounds
  <1>4. ready' \in [Session -> Seq(Handler)] /\ \A u \in Session : u # s => ready'[u] = ready[u]
    BY <1>1, StepsHandlers DEF Inv, SessionInv
  <1>5. OnePending(s)'
    BY <1>1, StepsHandlers DEF Inv, SessionInv
  <1>6. CASE /\ closed_[s]
             /\ UNCHANGED <<closed_, handshake_active_, active_handshakes, shutting, send_queue_,
                            broken>>
    <2>1. TypeOK' /\ \A u \in Session : u # s => Kept(u)
      BY <1>4, <1>6 DEF Inv, TypeOK, Kept, PerformClose, bounds
    <2>2. ServerInv'
      BY <1>6 DEF Inv, ServerInv, PerformClose
    <2>3. HandlersOK(s)'
      <3>1. ASSUME NEW h \in Handler, HandlerOK(s, h) PROVE HandlerOK(s, h)'
        BY <1>3, <1>6, <3>1 DEF HandlerOK
      <3> QED
        BY <1>1, <3>1, StepsOK DEF Inv, SessionInv
    <2>4. Life(s)' /\ WriteOK(s)'
      BY <1>3, <1>6 DEF Inv, SessionInv, Life, WriteOK
    <2>5. Chain(s)' /\ Whole(s)'
      BY <1>1, <1>3, <1>6, StepsNumbers
    <2> QED
      BY <1>5, <2>1, <2>2, <2>3, <2>4, <2>5, OneSession DEF Inv, SessionInv
  <1>7. CASE ~closed_[s]
    <2>1. /\ closed_' = [closed_ EXCEPT ![s] = TRUE]
          /\ finish_handshake_tracking(s)
          /\ send_queue_' = [send_queue_ EXCEPT ![s] = << >>]
          /\ broken' = [broken EXCEPT ![s] = @ \/ Head1(s).graceful]
          /\ shutting' = {s}
          /\ UNCHANGED <<accepting, stopped, sessions_, registered_, disconnects>>
      BY <1>7 DEF PerformClose
    <2>2. /\ closed_'[s] = TRUE /\ send_queue_'[s] = << >>
          /\ broken'[s] = (broken[s] \/ Head1(s).graceful)
          /\ handshake_active_'[s] = FALSE
      BY <2>1, Finishes DEF Inv, TypeOK
    <2>3. TypeOK' /\ \A u \in Session : u # s => Kept(u)
      <3>1. /\ handshake_active_' \in [Session -> BOOLEAN] /\ active_handshakes' \in Nat
            /\ \A u \in Session : u # s => handshake_active_'[u] = handshake_active_[u]
        BY <2>1, Finishes
      <3>2. closed_' \in [Session -> BOOLEAN] /\ shutting' \subseteq Session
        BY <2>1 DEF Inv, TypeOK
      <3>3. broken' \in [Session -> BOOLEAN]
        BY <1>2, <2>1, Zenon DEF Inv, TypeOK
      <3>4. /\ send_queue_' \in [Session -> Seq(1..MaxSends)]
            /\ \A u \in Session : Len(send_queue_'[u]) <= MaxQueue
        <4>1. << >> \in Seq(1..MaxSends) /\ Len(<< >>) = 0
          BY EmptySeq
        <4>2. 0 <= MaxQueue
          BY SizeAssumption
        <4> QED
          BY <2>1, <4>1, <4>2 DEF Inv, TypeOK
      <3>5. TypeOK'
        BY <1>4, <2>1, <3>1, <3>2, <3>3, <3>4 DEF Inv, TypeOK, PerformClose, bounds
      <3>6. \A u \in Session : u # s => Kept(u)
        BY <1>1, <1>4, <2>1, <3>1 DEF Inv, TypeOK, Kept, PerformClose, bounds
      <3> QED
        BY <3>5, <3>6
    <2>4. ServerInv'
      <3>1. active_handshakes' = Cardinality({u \in Session : handshake_active_[u]}')
        BY <2>1, Finishes
      <3> QED
        BY <2>1, <3>1 DEF Inv, ServerInv
    <2>5. HandlersOK(s)'
      <3>1. ASSUME NEW h \in Handler, HandlerOK(s, h) PROVE HandlerOK(s, h)'
        BY <1>3, <2>2, <3>1 DEF HandlerOK
      <3> QED
        BY <1>1, <3>1, StepsOK DEF Inv, SessionInv
    <2>6. Life(s)'
      <3>1. Life(s) /\ (stage[s] = "open" \/ broken[s])
        BY <1>1, <1>2 DEF Inv, SessionInv, HandlerOK
      <3>2. (registered_[s] <=> stage[s] = "open") /\ s \in shutting'
        BY <1>7, <2>1, <3>1 DEF Life
      <3>3. disconnects[s] = 0
        BY <1>7, <3>1 DEF Life
      <3>4. stage[s] # "new" /\ (stage[s] # "open" => ~reading[s] /\ writes[s] = 0)
        BY <3>1 DEF Life
      <3>5. stage[s] # "open" => broken'[s]
        BY <2>2, <3>1
      <3> QED
        BY <1>3, <2>2, <3>2, <3>3, <3>4, <3>5 DEF Life
    <2>7. WriteOK(s)'
      BY <1>1, <1>2, <1>3, <1>7, <2>2 DEF Inv, SessionInv, WriteOK, HandlerOK
    <2>8. Chain(s)' /\ Whole(s)'
      BY <1>1, <1>3, <2>2, StepsNumbers
    <2> QED
      BY <1>5, <2>3, <2>4, <2>5, <2>6, <2>7, <2>8, OneSession DEF Inv, SessionInv
  <1> QED
    BY <1>6, <1>7 DEF PerformClose

\* perform_close goes on after the shutdown: a registered session is reported once.
LEMMA CloseSocketStep ==
    ASSUME Inv, NEW s \in Session, CloseSocket(s)
    PROVE  Inv'
  <1>1. /\ closed_[s] /\ Life(s)
        /\ registered_[s] <=> stage[s] = "open"
        /\ disconnects[s] = 0
    BY DEF Inv, SessionInv, Life, CloseSocket
  <1>2. /\ \A u \in Session : u # s => u \notin shutting
        /\ shutting' = {} /\ registered_'[s] = FALSE
        /\ disconnects'[s] = IF stage[s] = "open" THEN 1 ELSE 0
    BY <1>1 DEF Inv, TypeOK, ServerInv, CloseSocket
  <1>3. /\ stage' = stage /\ closed_' = closed_ /\ handshake_active_' = handshake_active_
        /\ send_queue_' = send_queue_ /\ writes' = writes /\ overflowed' = overflowed
        /\ undefined' = undefined /\ reading' = reading /\ broken' = broken
        /\ ready' = ready /\ wire' = wire /\ sent' = sent
        /\ stopped' = stopped /\ active_handshakes' = active_handshakes
    BY DEF CloseSocket, queue, bounds
  <1>4. TypeOK'
    <2>1. /\ registered_' \in [Session -> BOOLEAN] /\ sessions_' \subseteq Session
          /\ disconnects' \in [Session -> Nat] /\ shutting' \subseteq Session
      BY DEF Inv, TypeOK, CloseSocket
    <2> QED
      BY <1>3, <2>1 DEF Inv, TypeOK, CloseSocket, bounds
  <1>5. \A u \in Session : u # s => Kept(u)
    BY <1>2, <1>3 DEF Inv, TypeOK, Kept, CloseSocket
  <1>6. ServerInv'
    <2>1. \A u \in Session : /\ u \in sessions_' => registered_'[u]
                             /\ registered_'[u] /\ ~stopped' => u \in sessions_'
      BY DEF Inv, TypeOK, ServerInv, CloseSocket
    <2> QED
      BY <1>2, <1>3, <2>1 DEF Inv, ServerInv
  <1>7. HandlersOK(s)' /\ OnePending(s)' /\ WriteOK(s)' /\ Chain(s)' /\ Whole(s)'
    BY <1>3 DEF Inv, SessionInv, HandlersOK, HandlerOK, OnePending, WriteOK, Chain, Whole
  <1>8. Life(s)'
    BY <1>1, <1>2, <1>3 DEF Life
  <1> QED
    BY <1>4, <1>5, <1>6, <1>7, <1>8, OneSession DEF Inv, SessionInv

LEMMA RunSendStep ==
    ASSUME Inv, NEW s \in Session, RunSend(s)
    PROVE  Inv'
  <1> DEFINE q == send_queue_[s]
  <1>1. Steps(s) /\ Head1(s).op = "send" /\ ready[s] # << >>
    BY DEF RunSend, Runs, Steps
  <1>2. HandlerOK(s, Head1(s)) /\ stage[s] = "open" /\ Head1(s).msg \in 1..MaxSends
    BY <1>1, Head1OK, Handlers DEF HandlerOK
  <1>3. /\ stage'[s] = stage[s] /\ closed_'[s] = closed_[s] /\ registered_'[s] = registered_[s]
        /\ handshake_active_'[s] = handshake_active_[s] /\ reading'[s] = reading[s]
        /\ broken'[s] = broken[s] /\ wire'[s] = wire[s] /\ sent'[s] = sent[s]
        /\ disconnects'[s] = disconnects[s] /\ shutting' = shutting
    BY DEF RunSend, server, flags, bounds
  <1>4. ready' \in [Session -> Seq(Handler)] /\ \A u \in Session : u # s => ready'[u] = ready[u]
    BY <1>1, StepsHandlers DEF Inv, SessionInv
  <1>5. OnePending(s)'
    BY <1>1, StepsHandlers DEF Inv, SessionInv
  <1>6. ServerInv'
    BY DEF Inv, ServerInv, RunSend, server, flags
  <1>7. Life(s) /\ WriteOK(s)
    BY DEF Inv, SessionInv
  <1>8. CASE closed_[s] /\ Consume(s) /\ UNCHANGED queue
    <2>1. TypeOK' /\ \A u \in Session : u # s => Kept(u)
      BY <1>4, <1>8 DEF Inv, TypeOK, Kept, RunSend, server, flags, queue, bounds
    <2>2. HandlersOK(s)'
      <3>1. ASSUME NEW h \in Handler, HandlerOK(s, h) PROVE HandlerOK(s, h)'
        BY <1>3, <1>8, <3>1 DEF HandlerOK, queue
      <3> QED
        BY <1>1, <1>8, <3>1, StepsOK DEF Inv, SessionInv
    <2>3. Life(s)' /\ WriteOK(s)'
      BY <1>3, <1>7, <1>8 DEF Life, WriteOK, queue
    <2>4. Chain(s)' /\ Whole(s)'
      BY <1>1, <1>3, <1>8, StepsNumbers DEF queue
    <2> QED
      BY <1>5, <1>6, <2>1, <2>2, <2>3, <2>4, OneSession DEF Inv, SessionInv
  <1>9. CASE /\ ~closed_[s] /\ fail_and_close(s)
             /\ overflowed' = [overflowed EXCEPT ![s] = TRUE]
             /\ UNCHANGED <<send_queue_, writes, undefined>>
    <2>1. overflowed'[s] = TRUE /\ overflowed' \in [Session -> BOOLEAN]
      BY <1>9 DEF Inv, TypeOK
    <2>2. TypeOK' /\ \A u \in Session : u # s => Kept(u)
      BY <1>4, <1>9, <2>1 DEF Inv, TypeOK, Kept, RunSend, server, flags, bounds
    <2>3. HandlersOK(s)'
      <3>1. ASSUME NEW h \in Handler, HandlerOK(s, h) PROVE HandlerOK(s, h)'
        BY <1>3, <1>9, <2>1, <3>1 DEF HandlerOK
      <3>2. HandlerOK(s, CloseOf(FALSE))'
        BY <1>2, <1>3, <2>1 DEF HandlerOK, CloseOf
      <3> QED
        BY <1>1, <3>1, <3>2, StepsOK DEF Inv, SessionInv
    <2>4. Life(s)' /\ WriteOK(s)'
      BY <1>3, <1>7, <1>9, <2>1 DEF Life, WriteOK
    <2>5. Chain(s)' /\ Whole(s)'
      BY <1>1, <1>3, <1>9, <2>1, StepsNumbers
    <2> QED
      BY <1>5, <1>6, <2>2, <2>3, <2>4, <2>5, OneSession DEF Inv, SessionInv
  <1>10. CASE /\ ~closed_[s] /\ Len(q) < MaxQueue
              /\ Consume(s)
              /\ send_queue_' = [send_queue_ EXCEPT ![s] = Append(q, Head1(s).msg)]
              /\ writes' = IF q = << >> THEN [writes EXCEPT ![s] = @ + 1] ELSE writes
              /\ UNCHANGED <<overflowed, undefined>>
    <2>1. /\ q \in Seq(1..MaxSends) /\ Len(q) \in Nat
          /\ send_queue_'[s] = Append(q, Head1(s).msg)
          /\ writes[s] \in Nat /\ writes'[s] = IF q = << >> THEN writes[s] + 1 ELSE writes[s]
      BY <1>10, LenProperties DEF Inv, TypeOK
    <2>2. /\ send_queue_'[s] \in Seq(1..MaxSends) /\ Len(send_queue_'[s]) = Len(q) + 1
          /\ send_queue_'[s] # << >>
      BY <1>2, <2>1, AppendProperties
    <2>3. TypeOK' /\ \A u \in Session : u # s => Kept(u)
      <3>1. Len(q) + 1 <= MaxQueue
        BY <1>10, <2>1, SizeAssumption
      <3>2. /\ send_queue_' \in [Session -> Seq(1..MaxSends)]
            /\ \A u \in Session : Len(send_queue_'[u]) <= MaxQueue
        BY <1>10, <2>2, <3>1 DEF Inv, TypeOK
      <3>3. writes' \in [Session -> Nat]
        BY <1>10 DEF Inv, TypeOK
      <3>4. TypeOK'
        BY <1>4, <1>10, <3>2, <3>3 DEF Inv, TypeOK, RunSend, server, flags, bounds
      <3>5. \A u \in Session : u # s => Kept(u)
        BY <1>4, <1>10 DEF Inv, TypeOK, Kept, RunSend, server, flags, bounds
      <3> QED
        BY <3>4, <3>5
    <2>4. HandlersOK(s)'
      <3>1. writes[s] > 0 => writes'[s] > 0
        BY <2>1
      <3>2. ASSUME NEW h \in Handler, HandlerOK(s, h) PROVE HandlerOK(s, h)'
        BY <1>3, <1>10, <3>1, <3>2 DEF HandlerOK
      <3> QED
        BY <1>1, <1>10, <3>2, StepsOK DEF Inv, SessionInv
    <2>5. Life(s)'
      BY <1>2, <1>3, <1>7 DEF Life
    <2>6. WriteOK(s)'
      <3>1. ~broken[s] => writes'[s] = 1
        BY <1>7, <1>10, <2>1 DEF WriteOK
      <3> QED
        BY <1>3, <1>7, <1>10, <2>2, <3>1 DEF WriteOK
    <2>7. Chain(s)' /\ Whole(s)'
      <3>1. /\ TypeOK /\ OnePending(s) /\ Chained(wire[s], q, ready[s], sent[s])
            /\ ~overflowed[s] => Gapless(wire[s], q, ready[s], sent[s])
        BY <1>10 DEF Inv, SessionInv, Chain, Whole
      <3>2. /\ Dropped(ready[s], ready'[s]) /\ ready'[s] \in Seq(Handler)
            /\ ready[s] \in Seq(Handler)
        BY <1>1, <1>4, <3>1, StepsDrop DEF TypeOK
      <3>3. 1 \in 1..Len(ready[s]) /\ Head1(s) = ready[s][1]
        BY <1>1, Head1OK
      <3>4. Chained(wire[s], Append(q, Head1(s).msg), ready'[s], sent[s])
        BY <1>1, <3>1, <3>2, <3>3, Numbers, ChainedTake
      <3>5. ~overflowed[s] => Gapless(wire[s], Append(q, Head1(s).msg), ready'[s], sent[s])
        BY <1>1, <3>1, <3>2, <3>3, Numbers, GaplessTake
      <3> QED
        BY <1>3, <1>10, <2>1, <3>4, <3>5 DEF Chain, Whole
    <2> QED
      BY <1>5, <1>6, <2>3, <2>4, <2>5, <2>6, <2>7, OneSession DEF Inv, SessionInv
  <1> QED
    BY <1>8, <1>9, <1>10 DEF RunSend

LEMMA RunWriteStep ==
    ASSUME Inv, NEW s \in Session, RunWrite(s)
    PROVE  Inv'
  <1> DEFINE q == send_queue_[s]
  <1>1. Steps(s) /\ Head1(s).op = "write" /\ ready[s] # << >>
    BY DEF RunWrite, Runs, Steps
  <1>2. HandlerOK(s, Head1(s)) /\ writes[s] > 0 /\ writes[s] \in Nat /\ writes[s] - 1 \in Nat
    <2>1. writes[s] > 0 /\ writes[s] \in Nat
      BY <1>1, Head1OK DEF HandlerOK, Inv, TypeOK
    <2> QED
      BY <1>1, <2>1, Head1OK
  <1>3. /\ stage'[s] = stage[s] /\ closed_'[s] = closed_[s] /\ registered_'[s] = registered_[s]
        /\ handshake_active_'[s] = handshake_active_[s] /\ reading'[s] = reading[s]
        /\ overflowed'[s] = overflowed[s] /\ sent'[s] = sent[s]
        /\ disconnects'[s] = disconnects[s] /\ shutting' = shutting
    BY DEF RunWrite, server, flags, bounds
  <1>4. ready' \in [Session -> Seq(Handler)] /\ \A u \in Session : u # s => ready'[u] = ready[u]
    BY <1>1, StepsHandlers DEF Inv, SessionInv
  <1>5. OnePending(s)'
    BY <1>1, StepsHandlers DEF Inv, SessionInv
  <1>6. ServerInv'
    BY DEF Inv, ServerInv, RunWrite, server, flags
  <1>7. Life(s) /\ WriteOK(s) /\ stage[s] = "open"
    <2>1. Life(s) /\ WriteOK(s)
      BY DEF Inv, SessionInv
    <2>2. writes[s] # 0
      BY <1>2
    <2> QED
      BY <2>1, <2>2 DEF Life
  <1>8. ASSUME broken'[s] = broken[s] \/ broken'[s] = TRUE,
               Consume(s) \/ HandlerOK(s, CloseOf(FALSE))'
        PROVE  HandlersOK(s)'
    <2>1. ASSUME NEW h \in Handler, HandlerOK(s, h), h.op \in Op => h.op # Head1(s).op
          PROVE  HandlerOK(s, h)'
      BY <1>1, <1>3, <1>8, <2>1 DEF HandlerOK, Op
    <2> QED
      BY <1>1, <1>8, <2>1, StepsOK DEF Inv, SessionInv
  <1>9. CASE /\ Ok(s) /\ q # << >>
             /\ Consume(s)
             /\ wire' = [wire EXCEPT ![s] = Append(@, Head(q))]
             /\ send_queue_' = [send_queue_ EXCEPT ![s] = Tail(q)]
             /\ writes' = IF Len(q) = 1 THEN [writes EXCEPT ![s] = @ - 1] ELSE writes
             /\ UNCHANGED <<broken, undefined>>
    <2>1. /\ q \in Seq(1..MaxSends) /\ Len(q) \in Nat /\ Len(q) > 0 /\ Head(q) \in 1..MaxSends
          /\ Tail(q) \in Seq(1..MaxSends) /\ Len(Tail(q)) = Len(q) - 1
      <3>1. q \in Seq(1..MaxSends)
        BY DEF Inv, TypeOK
      <3>2. q # << >>
        BY <1>9
      <3> HIDE DEF q
      <3>3. Len(q) \in Nat /\ Len(q) # 0
        BY <3>1, <3>2, LenProperties, EmptySeq
      <3>4. /\ Head(q) \in 1..MaxSends /\ Tail(q) \in Seq(1..MaxSends)
            /\ Len(Tail(q)) = Len(q) - 1
        BY <3>1, <3>2, HeadTailProperties
      <3> QED
        BY <3>1, <3>3, <3>4
    <2>2. /\ send_queue_'[s] = Tail(q) /\ wire'[s] = Append(wire[s], Head(q))
          /\ writes'[s] = IF Len(q) = 1 THEN writes[s] - 1 ELSE writes[s]
          /\ broken'[s] = broken[s] /\ undefined'[s] = undefined[s] /\ ~broken[s]
      BY <1>9 DEF Inv, TypeOK, Ok
    <2>3. TypeOK' /\ \A u \in Session : u # s => Kept(u)
      <3>1. Append(wire[s], Head(q)) \in Seq(1..MaxSends)
        BY <2>1, AppendProperties DEF Inv, TypeOK
      <3>2. wire' \in [Session -> Seq(1..MaxSends)]
        BY <1>9, <3>1 DEF Inv, TypeOK
      <3>3. Len(q) <= MaxQueue /\ Len(q) - 1 <= MaxQueue
        BY <2>1, SizeAssumption DEF Inv, TypeOK
      <3>4. /\ send_queue_' \in [Session -> Seq(1..MaxSends)]
            /\ \A u \in Session : Len(send_queue_'[u]) <= MaxQueue
        BY <1>9, <2>1, <3>3 DEF Inv, TypeOK
      <3>5. writes' \in [Session -> Nat]
        BY <1>2, <1>9 DEF Inv, TypeOK
      <3>6. TypeOK'
        BY <1>4, <1>9, <3>2, <3>4, <3>5 DEF Inv, TypeOK, RunWrite, server, flags, bounds
      <3>7. \A u \in Session : u # s => Kept(u)
        BY <1>4, <1>9 DEF Inv, TypeOK, Kept, RunWrite, server, flags, bounds
      <3> QED
        BY <3>6, <3>7
    <2>4. Life(s)'
      BY <1>3, <1>7, <2>2 DEF Life
    <2>5. WriteOK(s)'
      <3>1. ~closed_[s] /\ writes[s] = 1
        BY <1>7, <1>9, <2>2 DEF WriteOK
      <3>2. Tail(q) = << >> <=> Len(q) = 1
        <4>1. Tail(q) = << >> <=> Len(Tail(q)) = 0
          BY <2>1, EmptySeq
        <4> QED
          BY <2>1, <4>1
      <3>3. writes'[s] = IF Tail(q) = << >> THEN 0 ELSE 1
        BY <2>2, <3>1, <3>2
      <3> QED
        BY <1>3, <1>7, <2>2, <3>1, <3>3 DEF WriteOK
    <2>6. Chain(s)' /\ Whole(s)'
      <3>1. /\ TypeOK /\ OnePending(s) /\ Chained(wire[s], q, ready[s], sent[s])
            /\ ~closed_[s] /\ ~overflowed[s] => Gapless(wire[s], q, ready[s], sent[s])
        BY DEF Inv, SessionInv, Chain, Whole
      <3>2. /\ Dropped(ready[s], ready'[s]) /\ ready'[s] \in Seq(Handler)
            /\ ready[s] \in Seq(Handler)
        BY <1>1, <1>4, <3>1, StepsDrop DEF TypeOK
      <3>3. Head1(s) = ready[s][1]
        BY <1>1, Head1OK
      <3>4. Chained(wire[s], q, ready'[s], sent[s])
        BY <3>1, <3>2, Numbers, ChainedDrop
      <3>5. ~closed_[s] /\ ~overflowed[s] => Gapless(wire[s], q, ready'[s], sent[s])
        BY <1>1, <3>1, <3>2, <3>3, GaplessDrop
      <3>6. wire[s] \in Seq(Nat) /\ q \in Seq(Nat) /\ sent[s] \in Nat
        BY <3>1, Numbers
      <3> HIDE DEF q
      <3>7. /\ Chained(Append(wire[s], Head(q)), Tail(q), ready'[s], sent[s])
            /\ ~closed_[s] /\ ~overflowed[s] =>
                  Gapless(Append(wire[s], Head(q)), Tail(q), ready'[s], sent[s])
        BY <1>9, <3>2, <3>4, <3>5, <3>6, NumbersWrite
      <3> QED
        BY <1>3, <2>2, <3>7 DEF Chain, Whole
    <2> QED
      BY <1>5, <1>6, <1>8, <1>9, <2>2, <2>3, <2>4, <2>5, <2>6, OneSession DEF Inv, SessionInv
  <1>10. CASE /\ Ok(s) /\ q = << >>
              /\ Consume(s)
              /\ writes' = [writes EXCEPT ![s] = @ - 1]
              /\ undefined' = [undefined EXCEPT ![s] = TRUE]
              /\ UNCHANGED <<send_queue_, wire, broken>>
    <2>1. ~broken[s] /\ closed_[s] /\ overflowed[s]
      <3>1. ~broken[s]
        BY <1>10 DEF Ok
      <3>2. closed_[s]
        BY <1>2, <1>7, <1>10, <3>1 DEF WriteOK
      <3> QED
        BY <1>7, <3>1, <3>2 DEF WriteOK
    <2>2. TypeOK' /\ \A u \in Session : u # s => Kept(u)
      <3>1. writes' \in [Session -> Nat] /\ undefined' \in [Session -> BOOLEAN]
        BY <1>2, <1>10 DEF Inv, TypeOK
      <3>2. TypeOK'
        BY <1>4, <1>10, <3>1 DEF Inv, TypeOK, RunWrite, server, flags, bounds
      <3>3. \A u \in Session : u # s => Kept(u)
        BY <1>4, <1>10 DEF Inv, TypeOK, Kept, RunWrite, server, flags, bounds
      <3> QED
        BY <3>2, <3>3
    <2>3. Life(s)' /\ WriteOK(s)'
      BY <1>3, <1>7, <1>10, <2>1 DEF Life, WriteOK
    <2>4. Chain(s)' /\ Whole(s)'
      BY <1>1, <1>3, <1>10, StepsNumbers
    <2> QED
      BY <1>5, <1>6, <1>8, <1>10, <2>2, <2>3, <2>4, OneSession DEF Inv, SessionInv
  <1>11. CASE /\ ~Ok(s)
              /\ writes' = [writes EXCEPT ![s] = @ - 1]
              /\ broken' = [broken EXCEPT ![s] = TRUE]
              /\ UNCHANGED <<send_queue_, wire, undefined>>
    <2>1. broken'[s] = TRUE
      BY <1>11 DEF Inv, TypeOK
    <2>2. TypeOK' /\ \A u \in Session : u # s => Kept(u)
      <3>1. writes' \in [Session -> Nat] /\ broken' \in [Session -> BOOLEAN]
        BY <1>2, <1>11 DEF Inv, TypeOK
      <3>2. TypeOK'
        BY <1>4, <1>11, <3>1 DEF Inv, TypeOK, RunWrite, server, flags, bounds
      <3>3. \A u \in Session : u # s => Kept(u)
        BY <1>4, <1>11 DEF Inv, TypeOK, Kept, RunWrite, server, flags, bounds
      <3> QED
        BY <3>2, <3>3
    <2>3. HandlerOK(s, CloseOf(FALSE))'
      BY <2>1 DEF HandlerOK, CloseOf
    <2>4. Life(s)' /\ WriteOK(s)'
      BY <1>3, <1>7, <1>11, <2>1 DEF Life, WriteOK
    <2>5. Chain(s)' /\ Whole(s)'
      BY <1>1, <1>3, <1>11, StepsNumbers
    <2> QED
      BY <1>5, <1>6, <1>8, <2>1, <2>2, <2>3, <2>4, <2>5, OneSession DEF Inv, SessionInv
  <1> QED
    BY <1>9, <1>10, <1>11 DEF RunWrite
-----------------------------------------------------------------------------
LEMMA InitInv == Init => Inv
  <1> SUFFICES ASSUME Init PROVE Inv
    OBVIOUS
  <1>1. /\ << >> \in Seq(1..MaxSends) /\ << >> \in Seq(Handler) /\ Len(<< >>) = 0
        /\ 1..Len(<< >>) = {}
    BY EmptySeq
  <1>2. 0 \in 0..MaxSends /\ 0 \in 0..MaxReads /\ 0 \in 0..MaxCloses /\ 0 <= MaxQueue
    BY SizeAssumption
  <1>3. TypeOK
    BY <1>1, <1>2 DEF Init, TypeOK, AllFalse, Stage
  <1>4. ServerInv
    <2>1. {s \in Session : handshake_active_[s]} = {}
      BY DEF Init, AllFalse
    <2>2. sessions_ = {} /\ shutting = {} /\ \A s \in Session : ~registered_[s]
      BY DEF Init, AllFalse
    <2> QED
      BY <2>1, <2>2, FS_EmptySet DEF ServerInv, Init
  <1>5. ASSUME NEW s \in Session PROVE SessionInv(s)
    <2>1. /\ ready[s] = << >> /\ wire[s] = << >> /\ send_queue_[s] = << >> /\ sent[s] = 0
          /\ stage[s] = "new" /\ writes[s] = 0 /\ disconnects[s] = 0
          /\ ~closed_[s] /\ ~registered_[s] /\ ~handshake_active_[s] /\ ~reading[s]
          /\ ~broken[s] /\ ~overflowed[s] /\ ~undefined[s] /\ s \notin shutting
      BY DEF Init, AllFalse
    <2>2. HandlersOK(s) /\ OnePending(s)
      BY <1>1, <2>1 DEF HandlersOK, OnePending
    <2>3. Life(s) /\ WriteOK(s)
      BY <2>1 DEF Life, WriteOK
    <2>4. Chain(s)
      BY <1>1, <2>1 DEF Chain, Chained
    <2>5. Whole(s)
      <3>1. (0 + 0 + 1)..0 = {}
        OBVIOUS
      <3>2. Gapless(<< >>, << >>, << >>, 0)
        BY <1>1, <3>1 DEF Gapless
      <3> QED
        BY <2>1, <3>2 DEF Whole
    <2> QED
      BY <2>2, <2>3, <2>4, <2>5 DEF SessionInv
  <1> QED
    BY <1>3, <1>4, <1>5 DEF Inv

LEMMA StepInv == Inv /\ [Next]_vars => Inv'
  <1> SUFFICES ASSUME Inv, [Next]_vars PROVE Inv'
    OBVIOUS
  <1>1. CASE AcceptFails
    <2>1. TypeOK' /\ ServerInv' /\ \A u \in Session : Kept(u)
      BY <1>1 DEF AcceptFails, Inv, TypeOK, ServerInv, Kept, flags, queue, bounds
    <2> QED
      BY <2>1, KeptInv DEF Inv
  <1>2. CASE Stop
    BY <1>2, StopStep
  <1>3. ASSUME NEW s \in Session, Accept(s) \/ Send(s) \/ Close(s) \/ Run(s) \/ CloseSocket(s)
        PROVE  Inv'
    <2>1. CASE Accept(s)
      BY <2>1, AcceptStep
    <2>2. CASE Send(s)
      BY <2>2, SendStep
    <2>3. CASE Close(s)
      BY <2>3, CloseStep
    <2>4. CASE RunSend(s)
      BY <2>4, RunSendStep
    <2>5. CASE RunHandshake(s, "ssl", "upgrade")
      BY <2>5, RunHandshakeStep
    <2>6. CASE RunHandshake(s, "upgrade", "accept")
      BY <2>6, RunHandshakeStep
    <2>7. CASE RunAccept(s)
      BY <2>7, RunAcceptStep
    <2>8. CASE RunRead(s)
      BY <2>8, RunReadStep
    <2>9. CASE RunWrite(s)
      BY <2>9, RunWriteStep
    <2>10. CASE PerformClose(s)
      BY <2>10, PerformCloseStep
    <2>11. CASE CloseSocket(s)
      BY <2>11, CloseSocketStep
    <2> QED
      BY <1>3, <2>1, <2>2, <2>3, <2>4, <2>5, <2>6, <2>7, <2>8, <2>9, <2>10, <2>11 DEF Run
  <1>4. ASSUME NEW s \in Session, NEW op \in Op, NEW ok \in BOOLEAN, Complete(s, op, ok)
        PROVE  Inv'
    BY <1>4, CompleteStep
  <1>5. CASE UNCHANGED vars
    <2>1. TypeOK' /\ ServerInv' /\ \A u \in Session : Kept(u)
      BY <1>5 DEF Inv, TypeOK, ServerInv, Kept, vars, server, flags, queue, bounds
    <2> QED
      BY <2>1, KeptInv DEF Inv
  <1> QED
    BY <1>1, <1>2, <1>3, <1>4, <1>5 DEF Next

LEMMA InvHolds == Spec => []Inv
  BY InitInv, StepInv, PTL DEF Spec

\* What WebSocketServer reports is true of its sessions: active_handshakes counts the
\* handshakes in progress, each once, and a session that was registered is in sessions_
\* until it closes and is reported as disconnected exactly once, however many of its
\* operations fail and however the calls of close(), the failures and stop() interleave.
THEOREM ServerTracksSessions == Spec => []SessionsTracked
  <1>1. Inv => SessionsTracked
    BY DEF Inv, ServerInv, SessionInv, Life, SessionsTracked, HandshakesCounted, DisconnectedOnce
  <1> QED
    BY <1>1, InvHolds, PTL

\* send(): as long as a session is open its messages are on the wire, in the queue or
\* posted, in the order of the calls, with one write outstanding exactly when the queue
\* is not empty; the wire never goes back, and only after an overflow does a write's
\* completion find the queue empty.
THEOREM SendOrderKept == Spec => []SendsInOrder
  <1>1. ASSUME Inv PROVE InOrder
    <2> SUFFICES ASSUME NEW s \in Session, ~closed_[s], ~overflowed[s]
                 PROVE  /\ \A i \in DOMAIN wire[s] : wire[s][i] = i
                        /\ \A i \in DOMAIN send_queue_[s] :
                              send_queue_[s][i] = Len(wire[s]) + i
                        /\ {ready[s][i].msg : i \in Posted(s)} =
                              (Len(wire[s]) + Len(send_queue_[s]) + 1)..sent[s]
                        /\ \A i, j \in Posted(s) : i < j => ready[s][i].msg < ready[s][j].msg
                        /\ ~broken[s] => writes[s] = IF send_queue_[s] = << >> THEN 0 ELSE 1
      BY DEF InOrder
    <2> DEFINE w == wire[s]
               q == send_queue_[s]
               r == ready[s]
               n == sent[s]
               low == Len(w) + Len(q) + 1
    <2>1. Gapless(w, q, r, n) /\ Chained(w, q, r, n) /\ WriteOK(s)
      BY <1>1 DEF Inv, SessionInv, Chain, Whole
    <2>2. w \in Seq(Nat) /\ q \in Seq(Nat) /\ n \in Nat /\ r \in Seq(Handler)
      BY <1>1, Numbers DEF Inv, TypeOK
    <2> HIDE DEF w, q, r, n
    <2>3. /\ DOMAIN w = 1..Len(w) /\ DOMAIN q = 1..Len(q) /\ DOMAIN r = 1..Len(r)
          /\ Len(w) \in Nat /\ Len(q) \in Nat /\ Len(r) \in Nat
      BY <2>2, LenProperties
    <2>4. Posted(s) = {i \in 1..Len(r) : r[i].op = "send"}
      BY <2>3 DEF Posted, r
    <2>5. ASSUME NEW i \in Posted(s) PROVE r[i].msg \in low..n
      <3>1. i \in 1..Len(r) /\ r[i].op = "send"
        BY <2>4, <2>5
      <3>2. r[i].msg \in Nat /\ 1 <= r[i].msg
        <4>1. r[i].msg \in 1..MaxSends
          BY <2>2, <3>1, ElementOfSeq, Handlers
        <4> QED
          BY <4>1, SizeAssumption
      <3>3. /\ \A j \in 1..Len(w) : w[j] < r[i].msg
            /\ \A j \in 1..Len(q) : q[j] < r[i].msg
            /\ r[i].msg <= n
        BY <2>1, <3>1 DEF Chained
      <3>4. CASE Len(q) > 0
        <4>1. Len(q) \in 1..Len(q)
          BY <2>3, <3>4
        <4>2. q[Len(q)] = Len(w) + Len(q)
          BY <2>1, <4>1 DEF Gapless
        <4> QED
          BY <2>2, <2>3, <3>2, <3>3, <4>1, <4>2
      <3>5. CASE Len(q) = 0 /\ Len(w) > 0
        <4>1. Len(w) \in 1..Len(w)
          BY <2>3, <3>5
        <4>2. w[Len(w)] = Len(w)
          BY <2>1, <4>1 DEF Gapless
        <4> QED
          BY <2>2, <2>3, <3>2, <3>3, <3>5, <4>1, <4>2
      <3>6. CASE Len(q) = 0 /\ Len(w) = 0
        BY <2>2, <3>2, <3>3, <3>6
      <3> QED
        BY <2>3, <3>4, <3>5, <3>6
    <2>6. \A m \in low..n : \E i \in Posted(s) : r[i].msg = m
      BY <2>1, <2>4 DEF Gapless
    <2>7. {r[i].msg : i \in Posted(s)} = low..n
      BY <2>5, <2>6
    <2>8. \A i, j \in Posted(s) : i < j => r[i].msg < r[j].msg
      BY <2>1, <2>4 DEF Chained
    <2>9. /\ \A i \in DOMAIN w : w[i] = i
          /\ \A i \in DOMAIN q : q[i] = Len(w) + i
      BY <2>1, <2>3 DEF Gapless
    <2> QED
      BY <2>1, <2>7, <2>8, <2>9 DEF w, q, r, n, WriteOK
  <1>2. ASSUME Inv PROVE WireIncreases
    <2> SUFFICES ASSUME NEW s \in Session
                 PROVE  \A i, j \in DOMAIN wire[s] : i < j => wire[s][i] < wire[s][j]
      BY DEF WireIncreases
    <2>1. wire[s] \in Seq(Nat) /\ Chained(wire[s], send_queue_[s], ready[s], sent[s])
      BY <1>2, Numbers DEF Inv, SessionInv, Chain
    <2>2. DOMAIN wire[s] = 1..Len(wire[s])
      BY <2>1, LenProperties
    <2> QED
      BY <2>1, <2>2 DEF Chained
  <1>3. Inv => PopsItsMessage
    BY DEF Inv, SessionInv, WriteOK, PopsItsMessage
  <1> QED
    BY <1>1, <1>2, <1>3, InvHolds, PTL DEF SendsInOrder
=============================================================================
