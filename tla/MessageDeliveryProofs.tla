------------------------ MODULE MessageDeliveryProofs ------------------------
(***************************************************************************)
(* Proofs about MessageDelivery, for any users, sessions, group, number of *)
(* messages, faults and losses, with the push runtime local or remote:     *)
(*   - MessagesKept: no stored message is lost by the code itself;         *)
(*   - MarkedWhenHanded: what becomes DELIVERED was handed to somebody;    *)
(*   - PushedOnce: no session is handed a payload twice.                   *)
(* None is inductive.  A push marks a row some steps after a session took  *)
(* the payload, and a pull marks rows that it found some steps before; in  *)
(* between sessions close and other threads mark.  The invariant therefore *)
(* says of every running send, push and pull what it may still rely on:    *)
(* SendOK, PushOK and PullOK.                                              *)
(***************************************************************************)
EXTENDS MessageDelivery, SequenceTheorems, FiniteSetTheorems, TLAPS

Stored(p) ==
    IF p[1] = "direct" THEN p[2] \in DOMAIN im_messages ELSE p[2] <= group_messages

\* A receiver is notified once, and only of a row that is stored and is for it.
SendOK ==
    \A p \in Payload :
       /\ send[p].pc = "none" => \A u \in User : push[p][u].pc = "none"
       /\ \A u \in send[p].left : push[p][u].pc = "none"
       /\ send[p].pc # "none" => Stored(p)
       /\ p[1] = "direct" /\ send[p].pc # "none" =>
             send[p].left \subseteq {im_messages[p[2]].to}

\* A session of u holds p, or has written it.
Handed(p, u) ==
    \E s \in Session : Owner[s] = u /\ ((s \in live /\ p \in posted[s]) \/ p \in received[s])

\* p was not yet handed to s.
New(p, s) == p \notin posted[s] /\ p \notin received[s]

\* A push goes to the sessions of its user, each of which it has not reached; it
\* knows whether one took the payload, and that one still has it if nothing was lost.
PushOK(p, u) ==
    /\ \A s \in push[p][u].todo : Owner[s] = u /\ New(p, s)
    /\ push[p][u].pc \in {"none", "lookup"} =>
          ~push[p][u].ok /\ \A s \in Session : Owner[s] = u => New(p, s)
    /\ push[p][u].pc = "mark" => push[p][u].ok
    /\ push[p][u].pc # "none" /\ p[1] = "direct" =>
          p[2] \in DOMAIN im_messages /\ im_messages[p[2]].to = u
    /\ push[p][u].ok /\ lost = 0 => Handed(p, u)

\* A pull marks what it returns, and returns what is stored for its user.
PullOK(t) ==
    /\ pull[t].pc = "idle" => pull[t].got = {}
    /\ pull[t].left \subseteq pull[t].got
    /\ pull[t].pc # "idle" => pull[t].user \in User
    /\ \A i \in pull[t].got : i \in DOMAIN im_messages /\ im_messages[i].to = pull[t].user

Inv ==
    /\ TypeOK /\ SendOK
    /\ \A p \in Payload, u \in User : PushOK(p, u)
    /\ \A t \in Puller : PullOK(t)
    /\ \A s \in Session : posted[s] \cap received[s] = {}
    /\ NoSilentLoss
-----------------------------------------------------------------------------
(* Payloads and rows. *)

LEMMA Payloads ==
    /\ \A p \in Payload : /\ p = <<p[1], p[2]>> /\ p[1] \in {"direct", "group"} /\ p[2] \in Nat
                          /\ p[1] = "direct" => p[2] \in 1..MaxDirect
                          /\ p[1] = "group" => p \in Group
    /\ \A i \in 1..MaxDirect : <<"direct", i>> \in Payload
    /\ \A i \in 1..MaxGroup : <<"group", i>> \in Payload
  BY SizeAssumption DEF Payload, Direct, Group

LEMMA Rows ==
    ASSUME TypeOK
    PROVE  /\ Len(im_messages) \in Nat /\ Len(im_messages) <= MaxDirect
           /\ DOMAIN im_messages = 1..Len(im_messages)
           /\ DOMAIN im_messages \subseteq 1..MaxDirect
           /\ \A i \in DOMAIN im_messages : im_messages[i] \in Row
  <1>1. im_messages \in Seq(Row) /\ Len(im_messages) <= MaxDirect
    BY DEF TypeOK
  <1>2. Len(im_messages) \in Nat /\ DOMAIN im_messages = 1..Len(im_messages)
    BY <1>1, LenProperties
  <1>3. \A i \in DOMAIN im_messages : im_messages[i] \in Row
    BY <1>1, <1>2, ElementOfSeq
  <1> QED
    BY <1>1, <1>2, <1>3, SizeAssumption

\* The rows keep their receivers, and none is removed.
RowsKept ==
    /\ im_messages' \in Seq(Row)
    /\ \A i \in DOMAIN im_messages :
          i \in DOMAIN im_messages' /\ im_messages'[i].to = im_messages[i].to

\* A change of a status keeps the rows.
LEMMA StatusChanges ==
    ASSUME TypeOK, NEW i \in DOMAIN im_messages, NEW v \in Status,
           im_messages' = [im_messages EXCEPT ![i].status = v]
    PROVE  /\ RowsKept /\ Len(im_messages') = Len(im_messages)
           /\ DOMAIN im_messages' = DOMAIN im_messages
           /\ \A j \in DOMAIN im_messages : j # i => im_messages'[j] = im_messages[j]
           /\ im_messages'[i].status = v
  <1>1. im_messages \in Seq(Row) /\ i \in 1..Len(im_messages) /\ im_messages[i] \in Row
        /\ DOMAIN im_messages = 1..Len(im_messages) /\ Len(im_messages) \in Nat
    BY Rows DEF TypeOK
  <1> DEFINE e == [im_messages[i] EXCEPT !.status = v]
  <1>2. e \in Row /\ e.to = im_messages[i].to /\ e.status = v
    BY <1>1 DEF Row
  <1>3. im_messages' = [im_messages EXCEPT ![i] = e]
    OBVIOUS
  <1> HIDE DEF e
  <1>4. /\ im_messages' \in Seq(Row) /\ Len(im_messages') = Len(im_messages)
        /\ \A j \in 1..Len(im_messages) :
              im_messages'[j] = IF j = i THEN e ELSE im_messages[j]
    BY <1>1, <1>2, <1>3, ExceptSeq
  <1>5. DOMAIN im_messages' = DOMAIN im_messages
    BY <1>3
  <1> QED
    BY <1>1, <1>2, <1>4, <1>5 DEF RowsKept

LEMMA Marks ==
    ASSUME TypeOK, NEW id, mark_delivered(id)
    PROVE  /\ RowsKept /\ Len(im_messages') = Len(im_messages)
           /\ DOMAIN im_messages' = DOMAIN im_messages
           /\ \A j \in DOMAIN im_messages : j # id => im_messages'[j] = im_messages[j]
  <1>1. CASE id \in DOMAIN im_messages
    <2>1. im_messages' = [im_messages EXCEPT ![id].status = "DELIVERED"]
      BY <1>1 DEF mark_delivered
    <2> QED
      BY <1>1, <2>1, StatusChanges DEF Status
  <1>2. CASE id \notin DOMAIN im_messages
    BY <1>2 DEF mark_delivered, RowsKept, TypeOK
  <1> QED
    BY <1>1, <1>2

LEMMA RowsSame ==
    ASSUME TypeOK, UNCHANGED im_messages
    PROVE  RowsKept
  BY DEF RowsKept, TypeOK

-----------------------------------------------------------------------------
(* What one step leaves alone. *)

\* What was handed out is not taken back, unless it is counted as lost.
Progress ==
    /\ RowsKept
    /\ \A p \in Payload, u \in User : push[p][u].ok => push'[p][u].ok
    /\ \A u \in User : pulled[u] \subseteq pulled'[u]
    /\ \A s \in Session : received[s] \subseteq received'[s]
    /\ lost' = 0 =>
          /\ lost = 0
          /\ \A s \in live : \A p \in posted[s] :
                (s \in live' /\ p \in posted'[s]) \/ p \in received'[s]
          /\ \A t \in Puller :
                \/ pull'[t].user = pull[t].user /\ pull[t].got \subseteq pull'[t].got
                \/ pull[t].got \subseteq pulled'[pull[t].user]

\* Where a message that is no longer SENT is.
Safe(i) ==
    \/ \E u \in User, g \in Group : g[2] = i /\ push[g][u].ok
    \/ InFlight(i)
    \/ i \in Got(im_messages[i].to)

LEMMA HandedKept ==
    ASSUME TypeOK, Progress, lost' = 0, NEW p, NEW u, Handed(p, u)
    PROVE  Handed(p, u)'
  <1>1. PICK s \in Session : Owner[s] = u /\ ((s \in live /\ p \in posted[s]) \/ p \in received[s])
    BY DEF Handed
  <1>2. (s \in live' /\ p \in posted'[s]) \/ p \in received'[s]
    BY <1>1 DEF Progress
  <1> QED
    BY <1>1, <1>2 DEF Handed

LEMMA SafeKept ==
    ASSUME TypeOK, Progress, lost' = 0, NEW i \in DOMAIN im_messages, Safe(i)
    PROVE  Safe(i)'
  <1> DEFINE to == im_messages[i].to
  <1>1. im_messages'[i].to = to /\ to \in User /\ i \in 1..MaxDirect
    BY Rows DEF Progress, RowsKept, Row
  <1>2. CASE \E u \in User, g \in Group : g[2] = i /\ push[g][u].ok
    <2>1. Group \subseteq Payload
      BY DEF Payload
    <2> QED
      BY <1>2, <2>1 DEF Safe, Progress
  <1>3. i \in Got(to) => i \in Got(to)'
    BY <1>1 DEF Got, Progress
  <1>4. CASE \E s \in live : Owner[s] = to /\ <<"direct", i>> \in posted[s]
    <2>1. PICK s \in live : Owner[s] = to /\ <<"direct", i>> \in posted[s]
      BY <1>4
    <2>2. \/ s \in live' /\ <<"direct", i>> \in posted'[s]
          \/ <<"direct", i>> \in received'[s]
      BY <2>1 DEF Progress
    <2>3. s \in Session
      BY <2>1 DEF TypeOK
    <2>4. InFlight(i)' \/ i \in Got(to)'
      BY <1>1, <2>1, <2>2, <2>3 DEF InFlight, Got
    <2> QED
      BY <1>1, <2>4 DEF Safe
  <1>5. CASE \E t \in Puller : pull[t].user = to /\ i \in pull[t].got
    <2>1. PICK t \in Puller : pull[t].user = to /\ i \in pull[t].got
      BY <1>5
    <2>2. \/ pull'[t].user = to /\ i \in pull'[t].got
          \/ i \in pulled'[to]
      BY <2>1 DEF Progress
    <2>3. InFlight(i)' \/ i \in Got(to)'
      BY <1>1, <2>1, <2>2 DEF InFlight, Got
    <2> QED
      BY <1>1, <2>3 DEF Safe
  <1>6. CASE i \in Got(to)
    BY <1>1, <1>3, <1>6 DEF Safe
  <1> QED
    BY <1>2, <1>4, <1>5, <1>6 DEF Safe, InFlight

\* A status is changed only for a message that is safe.
LEMMA LossKept ==
    ASSUME Inv, Progress,
           \A i \in DOMAIN im_messages' :
              \/ im_messages'[i].status = "SENT"
              \/ /\ i \in DOMAIN im_messages
                 /\ im_messages'[i].status = im_messages[i].status \/ (lost = 0 => Safe(i))
    PROVE  NoSilentLoss'
  <1> SUFFICES ASSUME lost' = 0, NEW i \in DOMAIN im_messages', im_messages'[i].status # "SENT"
               PROVE  Safe(i)'
    BY DEF NoSilentLoss, Safe
  <1>1. lost = 0
    BY DEF Progress
  <1>2. i \in DOMAIN im_messages /\ Safe(i)
    BY <1>1 DEF Inv, NoSilentLoss, Safe
  <1> QED
    BY <1>2, SafeKept DEF Inv

LEMMA PushKept ==
    ASSUME Inv, Progress, NEW p \in Payload, NEW u \in User, push'[p][u] = push[p][u],
           \A s \in Session : Owner[s] = u /\ New(p, s) =>
              New(p, s)' \/ (s \notin push[p][u].todo /\ push[p][u].pc \notin {"none", "lookup"})
    PROVE  PushOK(p, u)'
  <1>1. PushOK(p, u) /\ push[p][u] \in PushJob
    BY DEF Inv, TypeOK
  <1>2. push[p][u].todo \subseteq Session
    BY <1>1 DEF PushJob
  <1>3. \A s \in push'[p][u].todo : Owner[s] = u /\ New(p, s)'
    BY <1>1, <1>2 DEF PushOK
  <1>4. push'[p][u].pc \in {"none", "lookup"} =>
          ~push'[p][u].ok /\ \A s \in Session : Owner[s] = u => New(p, s)'
    BY <1>1 DEF PushOK
  <1>5. push'[p][u].pc # "none" /\ p[1] = "direct" =>
          p[2] \in DOMAIN im_messages' /\ im_messages'[p[2]].to = u
    BY <1>1 DEF PushOK, Progress, RowsKept
  <1>6. push'[p][u].ok /\ lost' = 0 => Handed(p, u)'
    BY <1>1, HandedKept DEF PushOK, Progress, Inv
  <1> QED
    BY <1>1, <1>3, <1>4, <1>5, <1>6 DEF PushOK

LEMMA PullKept ==
    ASSUME Inv, RowsKept, NEW t \in Puller, pull'[t] = pull[t]
    PROVE  PullOK(t)'
  BY DEF Inv, PullOK, RowsKept

\* Sends do not notice a push that is under way.
LEMMA SendKept ==
    ASSUME Inv, RowsKept, UNCHANGED <<send, group_messages>>,
           \A p \in Payload, u \in User : push[p][u].pc = "none" <=> push'[p][u].pc = "none"
    PROVE  SendOK'
  <1> SUFFICES ASSUME NEW p \in Payload
               PROVE  /\ send[p].pc = "none" => \A u \in User : push'[p][u].pc = "none"
                      /\ \A u \in send[p].left : push'[p][u].pc = "none"
                      /\ send[p].pc # "none" => Stored(p)'
                      /\ p[1] = "direct" /\ send[p].pc # "none" =>
                            send[p].left \subseteq {im_messages'[p[2]].to}
    BY DEF SendOK
  <1>1. send[p].left \subseteq User
    BY DEF Inv, TypeOK, SendJob
  <1>2. Stored(p) => Stored(p)'
    BY DEF Stored, RowsKept
  <1>3. /\ send[p].pc = "none" => \A u \in User : push[p][u].pc = "none"
        /\ \A u \in send[p].left : push[p][u].pc = "none"
        /\ send[p].pc # "none" => Stored(p)
        /\ p[1] = "direct" /\ send[p].pc # "none" =>
              send[p].left \subseteq {im_messages[p[2]].to}
    BY DEF Inv, SendOK
  <1>4. p[1] = "direct" /\ send[p].pc # "none" => im_messages'[p[2]].to = im_messages[p[2]].to
    BY <1>3 DEF Stored, RowsKept
  <1> QED
    BY <1>1, <1>2, <1>3, <1>4
-----------------------------------------------------------------------------
(* The receivers' sessions. *)

LEMMA ConnectStep ==
    ASSUME Inv, NEW s \in Session, Connect(s)
    PROVE  Inv'
  <1>1. TypeOK'
    BY DEF Inv, TypeOK, Connect, store, counts
  <1>2. UNCHANGED <<im_messages, group_messages, posted, received, send, push, pull, pulled, lost>>
        /\ live \subseteq live'
    BY DEF Connect, store, counts
  <1>3. RowsKept /\ Progress
    BY <1>2, RowsSame DEF Inv, Progress, TypeOK
  <1>4. SendOK' /\ \A t \in Puller : PullOK(t)'
    BY <1>2, <1>3, SendKept, PullKept
  <1>5. \A p \in Payload, u \in User : PushOK(p, u)'
    BY <1>2, <1>3, PushKept DEF New
  <1>6. NoSilentLoss'
    BY <1>2, <1>3, LossKept
  <1> QED
    BY <1>1, <1>2, <1>4, <1>5, <1>6 DEF Inv

LEMMA UnlistStep ==
    ASSUME Inv, NEW s \in Session, Unlist(s)
    PROVE  Inv'
  <1>1. TypeOK'
    BY DEF Inv, TypeOK, Unlist, store, counts
  <1>2. UNCHANGED <<im_messages, group_messages, live, posted, received, send, push, pull, pulled,
                    lost>>
    BY DEF Unlist, store, counts
  <1>3. RowsKept /\ Progress
    BY <1>2, RowsSame DEF Inv, Progress, TypeOK
  <1>4. SendOK' /\ \A t \in Puller : PullOK(t)'
    BY <1>2, <1>3, SendKept, PullKept
  <1>5. \A p \in Payload, u \in User : PushOK(p, u)'
    BY <1>2, <1>3, PushKept DEF New
  <1>6. NoSilentLoss'
    BY <1>2, <1>3, LossKept
  <1> QED
    BY <1>1, <1>2, <1>4, <1>5, <1>6 DEF Inv

\* A session that closes with payloads in its queue is counted in lost.
LEMMA CloseStep ==
    ASSUME Inv, NEW s \in Session, Close(s)
    PROVE  Inv'
  <1>1. TypeOK'
    <2>1. lost' \in 0..MaxLost
      BY SizeAssumption DEF Inv, TypeOK, Close
    <2>2. posted' \in [Session -> SUBSET Payload] /\ live' \subseteq used
      BY DEF Inv, TypeOK, Close
    <2> QED
      BY <2>1, <2>2 DEF Inv, TypeOK, Close, store
  <1>2. UNCHANGED <<im_messages, group_messages, received, send, push, pull, pulled>>
    BY DEF Close, store
  <1>3. /\ posted'[s] = {} /\ \A v \in Session : v # s => posted'[v] = posted[v]
        /\ live' = live \ {s}
    BY DEF Close, Inv, TypeOK
  <1>4. lost' = 0 => lost = 0 /\ posted[s] = {}
    BY DEF Close, Inv, TypeOK
  <1>5. RowsKept /\ Progress
    BY <1>2, <1>3, <1>4, RowsSame DEF Inv, Progress, TypeOK
  <1>6. SendOK' /\ \A t \in Puller : PullOK(t)'
    BY <1>2, <1>5, SendKept, PullKept
  <1>7. \A p \in Payload, v \in Session : New(p, v) => New(p, v)'
    BY <1>2, <1>3 DEF New
  <1>8. \A p \in Payload, u \in User : PushOK(p, u)'
    BY <1>2, <1>5, <1>7, PushKept
  <1>9. NoSilentLoss'
    BY <1>2, <1>5, LossKept
  <1>10. \A v \in Session : posted'[v] \cap received'[v] = {}
    BY <1>2, <1>3 DEF Inv
  <1> QED
    BY <1>1, <1>6, <1>8, <1>9, <1>10 DEF Inv

LEMMA WriteStep ==
    ASSUME Inv, NEW s \in Session, Write(s)
    PROVE  Inv'
  <1>1. PICK x \in posted[s] : /\ posted' = [posted EXCEPT ![s] = @ \ {x}]
                              /\ received' = [received EXCEPT ![s] = @ \cup {x}]
    BY DEF Write
  <1>2. TypeOK'
    <2>1. posted' \in [Session -> SUBSET Payload] /\ received' \in [Session -> SUBSET Payload]
      BY <1>1 DEF Inv, TypeOK
    <2> QED
      BY <2>1 DEF Inv, TypeOK, Write, store, counts
  <1>3. UNCHANGED <<im_messages, group_messages, live, send, push, pull, pulled, lost>>
    BY DEF Write, store, counts
  <1>4. /\ posted'[s] = posted[s] \ {x} /\ received'[s] = received[s] \cup {x}
        /\ \A v \in Session : v # s => posted'[v] = posted[v] /\ received'[v] = received[v]
    BY <1>1 DEF Inv, TypeOK
  <1>5. RowsKept /\ Progress
    <2>1. /\ \A v \in Session : received[v] \subseteq received'[v]
          /\ \A v \in live : \A p \in posted[v] : p \in posted'[v] \/ p \in received'[v]
      BY <1>4 DEF Inv, TypeOK
    <2> QED
      BY <1>3, <2>1, RowsSame DEF Inv, Progress
  <1>6. SendOK' /\ \A t \in Puller : PullOK(t)'
    BY <1>3, <1>5, SendKept, PullKept
  <1>7. \A p \in Payload, v \in Session : New(p, v) => New(p, v)'
    BY <1>4 DEF New
  <1>8. \A p \in Payload, u \in User : PushOK(p, u)'
    BY <1>3, <1>5, <1>7, PushKept
  <1>9. NoSilentLoss'
    BY <1>3, <1>5, LossKept
  <1>10. \A v \in Session : posted'[v] \cap received'[v] = {}
    BY <1>4 DEF Inv
  <1> QED
    BY <1>2, <1>6, <1>8, <1>9, <1>10 DEF Inv
-----------------------------------------------------------------------------
(* The send handlers. *)

\* The rows and pushes that a step of a send handler leaves alone.
LEMMA SendingKeeps ==
    ASSUME Inv, RowsKept, UNCHANGED <<sockets, pull, pulled, lost>>, UNCHANGED push,
           \A i \in DOMAIN im_messages' :
              \/ im_messages'[i].status = "SENT"
              \/ i \in DOMAIN im_messages /\ im_messages'[i].status = im_messages[i].status
    PROVE  /\ \A p \in Payload, u \in User : PushOK(p, u)'
           /\ \A t \in Puller : PullOK(t)'
           /\ \A s \in Session : posted'[s] \cap received'[s] = {}
           /\ NoSilentLoss'
  <1>1. UNCHANGED <<live, posted, received>>
    BY DEF sockets
  <1>2. Progress
    BY <1>1 DEF Inv, Progress, TypeOK
  <1>3. \A p \in Payload, u \in User : PushOK(p, u)'
    BY <1>1, <1>2, PushKept DEF New
  <1>4. NoSilentLoss'
    BY <1>2, LossKept
  <1> QED
    BY <1>1, <1>3, <1>4, PullKept DEF Inv

LEMMA SendDirectStep ==
    ASSUME Inv, NEW u \in User, SendDirect(u)
    PROVE  Inv'
  <1> DEFINE id == Len(im_messages) + 1
             x == <<"direct", id>>
             row == [to |-> u, status |-> "SENT"]
             job == [pc |-> "readback", left |-> {u}, to |-> NoUser]
  <1>1. /\ id <= MaxDirect /\ im_messages' = Append(im_messages, row)
        /\ send' = [send EXCEPT ![x] = job]
        /\ UNCHANGED <<group_messages, sockets, push, pull, pulled, counts>>
    BY DEF SendDirect
  <1>2. /\ Len(im_messages) \in Nat /\ DOMAIN im_messages = 1..Len(im_messages)
        /\ im_messages \in Seq(Row) /\ id \in 1..MaxDirect
    BY <1>1, Rows, SizeAssumption DEF Inv, TypeOK
  <1>3. row \in Row /\ row.to = u /\ row.status = "SENT"
    BY DEF Row, Status
  <1>4. job \in SendJob /\ job.pc = "readback" /\ job.left = {u}
    BY DEF SendJob
  <1>5. x \in Payload /\ x[1] = "direct" /\ x[2] = id
    BY <1>2, Payloads
  <1> HIDE DEF row, job, x
  <1>6. /\ im_messages' \in Seq(Row) /\ Len(im_messages') = id
        /\ \A i \in 1..Len(im_messages) : im_messages'[i] = im_messages[i]
        /\ im_messages'[id] = row
    BY <1>1, <1>2, <1>3, AppendProperties
  <1>7. DOMAIN im_messages' = 1..id
    BY <1>6, LenProperties
  <1>8. RowsKept
    BY <1>2, <1>6, <1>7 DEF RowsKept
  <1>9. \A i \in DOMAIN im_messages' :
           \/ im_messages'[i].status = "SENT"
           \/ i \in DOMAIN im_messages /\ im_messages'[i].status = im_messages[i].status
    <2>1. \A i \in 1..id : i \in 1..Len(im_messages) \/ i = id
      BY <1>2
    <2> QED
      BY <1>2, <1>3, <1>6, <1>7, <2>1
  <1>10. TypeOK'
    <2>1. Len(im_messages') <= MaxDirect
      BY <1>1, <1>6
    <2>2. send' \in [Payload -> SendJob]
      BY <1>1, <1>4 DEF Inv, TypeOK
    <2> QED
      BY <1>1, <1>6, <2>1, <2>2 DEF Inv, TypeOK, sockets, counts
  <1>11. send[x].pc = "none" /\ \A v \in User : push[x][v].pc = "none"
    <2>1. ~Stored(x)
      BY <1>2, <1>5 DEF Stored
    <2> QED
      BY <1>5, <2>1 DEF Inv, SendOK
  <1>12. SendOK'
    <2> SUFFICES ASSUME NEW p \in Payload
                 PROVE  /\ send'[p].pc = "none" => \A v \in User : push'[p][v].pc = "none"
                        /\ \A v \in send'[p].left : push'[p][v].pc = "none"
                        /\ send'[p].pc # "none" => Stored(p)'
                        /\ p[1] = "direct" /\ send'[p].pc # "none" =>
                              send'[p].left \subseteq {im_messages'[p[2]].to}
      BY DEF SendOK
    <2>1. CASE p = x
      <3>1. send'[p] = job
        BY <1>1, <1>5, <2>1 DEF Inv, TypeOK
      <3>2. Stored(p)' /\ im_messages'[p[2]].to = u
        BY <1>2, <1>3, <1>5, <1>6, <1>7, <2>1 DEF Stored
      <3> QED
        BY <1>1, <1>4, <1>11, <2>1, <3>1, <3>2
    <2>2. CASE p # x
      <3>1. send'[p] = send[p]
        BY <1>1, <2>2 DEF Inv, TypeOK
      <3>2. /\ send[p].pc = "none" => \A v \in User : push[p][v].pc = "none"
            /\ \A v \in send[p].left : push[p][v].pc = "none"
            /\ send[p].pc # "none" => Stored(p)
            /\ p[1] = "direct" /\ send[p].pc # "none" =>
                  send[p].left \subseteq {im_messages[p[2]].to}
        BY DEF Inv, SendOK
      <3>3. Stored(p) => Stored(p)'
        BY <1>1, <1>8 DEF Stored, RowsKept
      <3>4. p[1] = "direct" /\ send[p].pc # "none" =>
               im_messages'[p[2]].to = im_messages[p[2]].to
        BY <1>8, <3>2 DEF Stored, RowsKept
      <3> QED
        BY <1>1, <3>1, <3>2, <3>3, <3>4
    <2> QED
      BY <2>1, <2>2
  <1> QED
    BY <1>1, <1>8, <1>9, <1>10, <1>12, SendingKeeps DEF Inv, counts

LEMMA SendGroupStep ==
    ASSUME Inv, NEW u \in User, SendGroup(u)
    PROVE  Inv'
  <1> DEFINE id == group_messages + 1
             x == <<"group", id>>
             job == [pc |-> "notify", left |-> Member \ {u}, to |-> NoUser]
  <1>1. /\ id <= MaxGroup /\ group_messages' = id
        /\ send' = [send EXCEPT ![x] = job]
        /\ UNCHANGED <<im_messages, sockets, push, pull, pulled, counts>>
    BY DEF SendGroup
  <1>2. group_messages \in Nat /\ id \in 1..MaxGroup /\ group_messages' \in 0..MaxGroup
    BY <1>1, SizeAssumption DEF Inv, TypeOK
  <1>3. job \in SendJob /\ job.pc = "notify" /\ job.left \subseteq User
    BY MemberAssumption DEF SendJob
  <1>4. x \in Payload /\ x[1] = "group" /\ x[2] = id
    BY <1>2, Payloads
  <1> HIDE DEF job, x
  <1>5. RowsKept
    BY <1>1, RowsSame DEF Inv
  <1>6. TypeOK'
    <2>1. send' \in [Payload -> SendJob]
      BY <1>1, <1>3 DEF Inv, TypeOK
    <2> QED
      BY <1>1, <1>2, <2>1 DEF Inv, TypeOK, sockets, counts
  <1>7. \A v \in User : push[x][v].pc = "none"
    <2>1. ~Stored(x)
      BY <1>2, <1>4 DEF Stored
    <2> QED
      BY <1>4, <2>1 DEF Inv, SendOK
  <1>8. SendOK'
    <2> SUFFICES ASSUME NEW p \in Payload
                 PROVE  /\ send'[p].pc = "none" => \A v \in User : push'[p][v].pc = "none"
                        /\ \A v \in send'[p].left : push'[p][v].pc = "none"
                        /\ send'[p].pc # "none" => Stored(p)'
                        /\ p[1] = "direct" /\ send'[p].pc # "none" =>
                              send'[p].left \subseteq {im_messages'[p[2]].to}
      BY DEF SendOK
    <2>1. CASE p = x
      <3>1. send'[p] = job
        BY <1>1, <1>4, <2>1 DEF Inv, TypeOK
      <3>2. Stored(p)' /\ p[1] # "direct"
        BY <1>1, <1>2, <1>4, <2>1 DEF Stored
      <3> QED
        BY <1>1, <1>3, <1>7, <2>1, <3>1, <3>2
    <2>2. CASE p # x
      <3>1. send'[p] = send[p]
        BY <1>1, <2>2 DEF Inv, TypeOK
      <3>2. /\ send[p].pc = "none" => \A v \in User : push[p][v].pc = "none"
            /\ \A v \in send[p].left : push[p][v].pc = "none"
            /\ send[p].pc # "none" => Stored(p)
            /\ p[1] = "direct" /\ send[p].pc # "none" =>
                  send[p].left \subseteq {im_messages[p[2]].to}
        BY DEF Inv, SendOK
      <3>3. Stored(p) => Stored(p)'
        BY <1>1, <1>2, Payloads DEF Stored
      <3> QED
        BY <1>1, <3>1, <3>2, <3>3
    <2> QED
      BY <2>1, <2>2
  <1> QED
    BY <1>1, <1>5, <1>6, <1>8, SendingKeeps DEF Inv, counts

\* A handler that goes on without a new row or push.
LEMMA SendGoesOn ==
    ASSUME Inv, NEW x \in Payload, NEW job \in SendJob, send' = [send EXCEPT ![x] = job],
           send[x].pc # "none", job.pc # "none", job.left \subseteq send[x].left,
           faults' \in 0..MaxFaults,
           UNCHANGED <<store, sockets, push, pull, pulled, lost>>
    PROVE  Inv'
  <1>1. TypeOK'
    <2>1. send' \in [Payload -> SendJob]
      BY DEF Inv, TypeOK
    <2> QED
      BY <2>1 DEF Inv, TypeOK, store, sockets
  <1>2. RowsKept /\ UNCHANGED <<im_messages, group_messages>>
    BY RowsSame DEF Inv, store
  <1>3. SendOK'
    <2> SUFFICES ASSUME NEW p \in Payload
                 PROVE  /\ send'[p].pc = "none" => \A v \in User : push[p][v].pc = "none"
                        /\ \A v \in send'[p].left : push[p][v].pc = "none"
                        /\ send'[p].pc # "none" => Stored(p)
                        /\ p[1] = "direct" /\ send'[p].pc # "none" =>
                              send'[p].left \subseteq {im_messages[p[2]].to}
      BY <1>2 DEF SendOK, Stored
    <2>1. send'[p] = IF p = x THEN job ELSE send[p]
      BY DEF Inv, TypeOK
    <2> QED
      BY <2>1 DEF Inv, SendOK
  <1> QED
    BY <1>1, <1>2, <1>3, SendingKeeps DEF Inv

LEMMA FaultBound ==
    ASSUME Inv, Fault \/ NoFault
    PROVE  faults' \in 0..MaxFaults
  BY SizeAssumption DEF Inv, TypeOK, Fault, NoFault

LEMMA SendJobs ==
    ASSUME Inv, NEW p \in Payload
    PROVE  /\ send[p] \in SendJob /\ send[p].left \subseteq User
           /\ \A u \in User : push[p][u] \in PushJob
  BY DEF Inv, TypeOK, SendJob

LEMMA ReadBackStep ==
    ASSUME Inv, NEW p \in Payload, ReadBack(p)
    PROVE  Inv'
  <1>1. send[p] \in SendJob /\ send[p].pc = "readback"
    BY SendJobs DEF ReadBack
  <1>2. faults' \in 0..MaxFaults
    BY FaultBound DEF ReadBack
  <1>3. CASE send' = [send EXCEPT ![p].pc = "notify"]
    <2> DEFINE job == [send[p] EXCEPT !.pc = "notify"]
    <2>1. job \in SendJob /\ job.pc = "notify" /\ job.left = send[p].left
      BY <1>1 DEF SendJob
    <2>2. send' = [send EXCEPT ![p] = job]
      BY <1>3
    <2> HIDE DEF job
    <2> QED
      BY <1>1, <1>2, <2>1, <2>2, SendGoesOn DEF ReadBack
  <1>4. CASE send' = [send EXCEPT ![p] = [pc |-> "failed", left |-> {}, to |-> NoUser]]
    <2> DEFINE job == [pc |-> "failed", left |-> {}, to |-> NoUser]
    <2>1. job \in SendJob /\ job.pc = "failed" /\ job.left = {}
      BY DEF SendJob
    <2>2. send' = [send EXCEPT ![p] = job]
      BY <1>4
    <2> HIDE DEF job
    <2> QED
      BY <1>1, <1>2, <2>1, <2>2, SendGoesOn DEF ReadBack
  <1> QED
    BY <1>3, <1>4 DEF ReadBack

LEMMA NotifyReturnsStep ==
    ASSUME Inv, NEW p \in Payload, NotifyReturns(p)
    PROVE  Inv'
  <1>1. send[p] \in SendJob /\ send[p].pc = "wait"
    BY SendJobs DEF NotifyReturns
  <1>2. faults' \in 0..MaxFaults
    BY FaultBound DEF NotifyReturns
  <1> DEFINE job == [send[p] EXCEPT !.pc = "notify", !.to = NoUser]
  <1>3. job \in SendJob /\ job.pc = "notify" /\ job.left = send[p].left
    BY <1>1 DEF SendJob
  <1>4. send' = [send EXCEPT ![p] = job]
    BY DEF NotifyReturns, Inv, TypeOK
  <1> HIDE DEF job
  <1> QED
    BY <1>1, <1>2, <1>3, <1>4, SendGoesOn DEF NotifyReturns

LEMMA AckStep ==
    ASSUME Inv, NEW p \in Payload, Ack(p)
    PROVE  Inv'
  <1>1. send[p] \in SendJob /\ send[p].pc = "notify"
    BY SendJobs DEF Ack
  <1> DEFINE job == [send[p] EXCEPT !.pc = "acked"]
  <1>2. job \in SendJob /\ job.pc = "acked" /\ job.left = send[p].left
    BY <1>1 DEF SendJob
  <1>3. send' = [send EXCEPT ![p] = job]
    BY DEF Ack
  <1>4. faults' \in 0..MaxFaults /\ UNCHANGED lost
    BY DEF Ack, counts, Inv, TypeOK
  <1> HIDE DEF job
  <1> QED
    BY <1>1, <1>2, <1>3, <1>4, SendGoesOn DEF Ack

\* A receiver is notified that was not yet.
LEMMA NotifyStep ==
    ASSUME Inv, NEW p \in Payload, Notify(p)
    PROVE  Inv'
  <1>1. PICK u \in send[p].left :
           /\ send' = [send EXCEPT ![p] = [pc |-> "wait", left |-> @.left \ {u}, to |-> u]]
           /\ push' = [push EXCEPT ![p][u].pc = "lookup"]
    BY DEF Notify
  <1>2. /\ send[p].pc = "notify" /\ UNCHANGED <<im_messages, group_messages, live, posted, received,
                                              pull, pulled, lost>>
    BY DEF Notify, store, sockets, counts
  <1>3. u \in User /\ push[p][u] \in PushJob /\ push[p][u].pc = "none"
    BY <1>1, SendJobs DEF Inv, SendOK
  <1> DEFINE job == [pc |-> "wait", left |-> send[p].left \ {u}, to |-> u]
             new == [push[p][u] EXCEPT !.pc = "lookup"]
  <1>4. job \in SendJob /\ job.pc = "wait" /\ job.left = send[p].left \ {u}
    BY <1>3, SendJobs DEF SendJob
  <1>5. /\ new \in PushJob /\ new.pc = "lookup" /\ new.todo = push[p][u].todo
        /\ new.ok = push[p][u].ok
    BY <1>3 DEF PushJob
  <1>6. \A q \in Payload : send'[q] = IF q = p THEN job ELSE send[q]
    BY <1>1 DEF Inv, TypeOK
  <1>7. \A q \in Payload, v \in User : push'[q][v] = IF q = p /\ v = u THEN new ELSE push[q][v]
    BY <1>1, <1>3 DEF Inv, TypeOK
  <1>8. TypeOK'
    <2>1. send' \in [Payload -> SendJob]
      BY <1>1, <1>4 DEF Inv, TypeOK
    <2>2. push' \in [Payload -> [User -> PushJob]]
      BY <1>1, <1>5 DEF Inv, TypeOK
    <2> QED
      BY <2>1, <2>2 DEF Inv, TypeOK, Notify, store, sockets, counts
  <1> HIDE DEF job, new
  <1>9. Progress
    <2>1. \A q \in Payload, v \in User : push[q][v].ok => push'[q][v].ok
      BY <1>5, <1>7
    <2> QED
      BY <1>2, <2>1, RowsSame DEF Inv, Progress, TypeOK
  <1>10. SendOK'
    <2> SUFFICES ASSUME NEW q \in Payload
                 PROVE  /\ send'[q].pc = "none" => \A v \in User : push'[q][v].pc = "none"
                        /\ \A v \in send'[q].left : push'[q][v].pc = "none"
                        /\ send'[q].pc # "none" => Stored(q)
                        /\ q[1] = "direct" /\ send'[q].pc # "none" =>
                              send'[q].left \subseteq {im_messages[q[2]].to}
      BY <1>2 DEF SendOK, Stored
    <2>1. /\ send[q].pc = "none" => \A v \in User : push[q][v].pc = "none"
          /\ \A v \in send[q].left : push[q][v].pc = "none"
          /\ send[q].pc # "none" => Stored(q)
          /\ q[1] = "direct" /\ send[q].pc # "none" =>
                send[q].left \subseteq {im_messages[q[2]].to}
      BY DEF Inv, SendOK
    <2>2. send[q].left \subseteq User
      BY SendJobs
    <2>3. CASE q = p
      BY <1>2, <1>4, <1>6, <1>7, <2>1, <2>2, <2>3
    <2>4. CASE q # p
      BY <1>6, <1>7, <2>1, <2>2, <2>4
    <2> QED
      BY <2>3, <2>4
  <1>11. ASSUME NEW q \in Payload, NEW v \in User PROVE PushOK(q, v)'
    <2>1. CASE q = p /\ v = u
      <3>1. PushOK(p, u) /\ push'[q][v] = new
        BY <1>3, <1>7, <2>1 DEF Inv
      <3>2. p[1] = "direct" => p[2] \in DOMAIN im_messages /\ im_messages[p[2]].to = u
        BY <1>1, <1>2 DEF Inv, SendOK, Stored
      <3>3. \A s \in Session : New(p, s)' <=> New(p, s)
        BY <1>2 DEF New
      <3>4. push[p][u].todo \subseteq Session
        BY <1>3 DEF PushJob
      <3> QED
        BY <1>2, <1>3, <1>5, <2>1, <3>1, <3>2, <3>3, <3>4 DEF PushOK
    <2>2. CASE ~(q = p /\ v = u)
      <3>1. push'[q][v] = push[q][v]
        BY <1>7, <2>2
      <3> QED
        BY <1>2, <1>9, <3>1, PushKept DEF New
    <2> QED
      BY <2>1, <2>2
  <1>12. NoSilentLoss'
    BY <1>2, <1>9, LossKept
  <1>13. \A t \in Puller : PullOK(t)'
    BY <1>2, <1>9, PullKept DEF Progress
  <1> QED
    BY <1>2, <1>8, <1>10, <1>11, <1>12, <1>13 DEF Inv
-----------------------------------------------------------------------------
(* PushRuntime::notify_user. *)

\* A push goes on: it posts at most its own payload, to sessions of its user.
LEMMA PushGoesOn ==
    ASSUME Inv, NEW x \in Payload, NEW u \in User, NEW job \in PushJob,
           push' = [push EXCEPT ![x][u] = job],
           push[x][u].pc # "none", job.pc # "none", push[x][u].ok => job.ok,
           faults' \in 0..MaxFaults,
           UNCHANGED <<group_messages, live, listed, used, received, send, pull, pulled, lost>>,
           RowsKept, Len(im_messages') <= MaxDirect,
           \A i \in DOMAIN im_messages' :
              \/ im_messages'[i].status = "SENT"
              \/ /\ i \in DOMAIN im_messages
                 /\ im_messages'[i].status = im_messages[i].status \/ (lost = 0 => Safe(i)),
           posted' \in [Session -> SUBSET Payload],
           \A s \in Session : \/ posted'[s] = posted[s]
                              \/ /\ Owner[s] = u /\ posted'[s] = posted[s] \cup {x}
                                 /\ x \notin received[s],
           PushOK(x, u)'
    PROVE  Inv'
  <1>1. \A q \in Payload, v \in User : push'[q][v] = IF q = x /\ v = u THEN job ELSE push[q][v]
    BY DEF Inv, TypeOK
  <1>2. TypeOK'
    <2>1. push' \in [Payload -> [User -> PushJob]]
      BY DEF Inv, TypeOK
    <2> QED
      BY <2>1 DEF Inv, TypeOK, RowsKept
  <1>3. Progress
    <2>1. \A s \in live : \A q \in posted[s] : s \in live' /\ q \in posted'[s]
      BY DEF Inv, TypeOK
    <2> QED
      BY <1>1, <2>1 DEF Inv, Progress
  <1>4. SendOK'
    BY <1>1, SendKept
  <1>5. ASSUME NEW q \in Payload, NEW v \in User PROVE PushOK(q, v)'
    <2>1. CASE q = x /\ v = u
      BY <2>1
    <2>2. CASE ~(q = x /\ v = u)
      <3>1. push'[q][v] = push[q][v]
        BY <1>1, <2>2
      <3>2. \A s \in Session : Owner[s] = v /\ New(q, s) => New(q, s)'
        BY <2>2 DEF New
      <3> QED
        BY <1>3, <3>1, <3>2, PushKept
    <2> QED
      BY <2>1, <2>2
  <1>6. \A t \in Puller : PullOK(t)'
    BY PullKept
  <1>7. NoSilentLoss'
    BY <1>3, LossKept
  <1>8. \A s \in Session : posted'[s] \cap received'[s] = {}
    BY DEF Inv
  <1> QED
    BY <1>2, <1>4, <1>5, <1>6, <1>7, <1>8 DEF Inv

LEMMA PushLookupStep ==
    ASSUME Inv, NEW p \in Payload, NEW u \in User, PushLookup(p, u)
    PROVE  Inv'
  <1>1. /\ push[p][u] \in PushJob /\ push[p][u].pc = "lookup" /\ PushOK(p, u)
        /\ faults' \in 0..MaxFaults
        /\ UNCHANGED <<im_messages, group_messages, live, listed, used, posted, received, send, pull,
                       pulled, lost>>
    BY SendJobs, FaultBound DEF PushLookup, Inv, store, sockets
  <1>2. RowsKept /\ Len(im_messages') <= MaxDirect /\ posted' \in [Session -> SUBSET Payload]
    BY <1>1, RowsSame DEF Inv, TypeOK
  <1>3. ~push[p][u].ok /\ \A s \in Session : Owner[s] = u => New(p, s)' /\ New(p, s)
    BY <1>1 DEF PushOK, New
  <1>4. p[1] = "direct" => p[2] \in DOMAIN im_messages' /\ im_messages'[p[2]].to = u
    BY <1>1 DEF PushOK
  <1>5. ASSUME NEW job \in PushJob, push' = [push EXCEPT ![p][u] = job],
               job.pc \in {"sending", "done"}, ~job.ok,
               \A s \in job.todo : s \in Session /\ Owner[s] = u
        PROVE  Inv'
    <2>1. push'[p][u] = job
      BY <1>5 DEF Inv, TypeOK
    <2>2. PushOK(p, u)'
      BY <1>3, <1>4, <1>5, <2>1 DEF PushOK
    <2> QED
      BY <1>1, <1>2, <1>3, <1>5, <2>2, PushGoesOn
  <1>6. CASE LET online == {s \in listed : Owner[s] = u}
             IN  push' = [push EXCEPT ![p][u] =
                            [pc |-> IF online = {} THEN "done" ELSE "sending",
                             todo |-> online, ok |-> FALSE]]
    <2> DEFINE online == {s \in listed : Owner[s] = u}
               job == [pc |-> IF online = {} THEN "done" ELSE "sending",
                       todo |-> online, ok |-> FALSE]
    <2>1. listed \subseteq Session
      BY DEF Inv, TypeOK
    <2>2. /\ job \in PushJob /\ job.pc \in {"sending", "done"} /\ job.ok = FALSE
          /\ job.todo = online
      BY <2>1 DEF PushJob
    <2>3. push' = [push EXCEPT ![p][u] = job]
      BY <1>6
    <2>4. \A s \in online : s \in Session /\ Owner[s] = u
      BY <2>1
    <2> HIDE DEF job, online
    <2> QED
      BY <1>5, <2>2, <2>3, <2>4
  <1>7. CASE push' = [push EXCEPT ![p][u].pc = "done"]
    <2> DEFINE job == [push[p][u] EXCEPT !.pc = "done"]
    <2>1. /\ job \in PushJob /\ job.pc = "done" /\ job.ok = push[p][u].ok
          /\ job.todo = push[p][u].todo
      BY <1>1 DEF PushJob
    <2>2. push' = [push EXCEPT ![p][u] = job]
      BY <1>7
    <2>3. \A s \in push[p][u].todo : s \in Session /\ Owner[s] = u
      BY <1>1 DEF PushOK, PushJob
    <2> HIDE DEF job
    <2> QED
      BY <1>3, <1>5, <2>1, <2>2, <2>3
  <1> QED
    BY <1>6, <1>7 DEF PushLookup

\* A session takes the payload, or does not, and is not tried again.
LEMMA PushSendStep ==
    ASSUME Inv, NEW p \in Payload, NEW u \in User, PushSend(p, u)
    PROVE  Inv'
  <1>1. /\ push[p][u] \in PushJob /\ push[p][u].pc = "sending" /\ PushOK(p, u)
        /\ UNCHANGED <<im_messages, group_messages, live, listed, used, received, send, pull, pulled,
                       lost>>
    BY SendJobs DEF PushSend, Inv, store
  <1>2. faults' \in 0..MaxFaults
    BY FaultBound DEF PushSend
  <1>3. PICK s \in push[p][u].todo :
           \/ /\ s \in live
              /\ posted' = [posted EXCEPT ![s] = @ \cup {p}]
              /\ push' = [push EXCEPT ![p][u].todo = @ \ {s}, ![p][u].ok = TRUE]
           \/ /\ push' = [push EXCEPT ![p][u].todo = @ \ {s}]
              /\ UNCHANGED posted
           \/ /\ posted' \in {posted, [posted EXCEPT ![s] = IF s \in live THEN @ \cup {p} ELSE @]}
              /\ push' = [push EXCEPT ![p][u].todo = @ \ {s}]
    BY DEF PushSend
  <1>4. s \in Session /\ Owner[s] = u /\ New(p, s)
    BY <1>1 DEF PushJob, PushOK
  <1>5. RowsKept /\ Len(im_messages') <= MaxDirect
    BY <1>1, RowsSame DEF Inv, TypeOK
  <1>6. /\ posted' \in [Session -> SUBSET Payload]
        /\ posted'[s] \in {posted[s], posted[s] \cup {p}}
        /\ \A v \in Session : v # s => posted'[v] = posted[v]
    <2>1. posted \in [Session -> SUBSET Payload]
      BY DEF Inv, TypeOK
    <2>2. CASE UNCHANGED posted
      BY <2>1, <2>2
    <2>3. CASE posted' = [posted EXCEPT ![s] = @ \cup {p}]
      BY <1>4, <2>1, <2>3
    <2>4. CASE posted' = [posted EXCEPT ![s] = IF s \in live THEN @ \cup {p} ELSE @]
      BY <1>4, <2>1, <2>4
    <2> QED
      BY <1>3, <2>2, <2>3, <2>4
  <1>7. \A v \in push[p][u].todo \ {s} : Owner[v] = u /\ New(p, v)'
    <2> SUFFICES ASSUME NEW v \in push[p][u].todo, v # s
                 PROVE  Owner[v] = u /\ New(p, v)'
      OBVIOUS
    <2>1. v \in Session /\ Owner[v] = u /\ New(p, v)
      BY <1>1 DEF PushOK, PushJob
    <2> QED
      BY <1>1, <1>6, <2>1 DEF New
  <1>8. p[1] = "direct" => p[2] \in DOMAIN im_messages' /\ im_messages'[p[2]].to = u
    BY <1>1 DEF PushOK
  <1>9. \A v \in Session : \/ posted'[v] = posted[v]
                           \/ /\ Owner[v] = u /\ posted'[v] = posted[v] \cup {p}
                              /\ p \notin received[v]
    BY <1>4, <1>6 DEF New
  <1>10. ASSUME NEW job \in PushJob, push' = [push EXCEPT ![p][u] = job], job.pc = "sending",
                job.todo = push[p][u].todo \ {s}, push[p][u].ok => job.ok,
                job.ok => Handed(p, u)' \/ push[p][u].ok
         PROVE  Inv'
    <2>1. push'[p][u] = job
      BY <1>10 DEF Inv, TypeOK
    <2>2. push[p][u].ok /\ lost = 0 => Handed(p, u)'
      <3>1. push[p][u].ok /\ lost = 0 => Handed(p, u)
        BY <1>1 DEF PushOK
      <3>2. Handed(p, u) => Handed(p, u)'
        BY <1>1, <1>6 DEF Handed
      <3> QED
        BY <3>1, <3>2
    <2>3. PushOK(p, u)'
      BY <1>1, <1>7, <1>8, <1>10, <2>1, <2>2 DEF PushOK
    <2> QED
      BY <1>1, <1>2, <1>5, <1>6, <1>9, <1>10, <2>3, PushGoesOn
  <1>11. CASE /\ s \in live
              /\ posted' = [posted EXCEPT ![s] = @ \cup {p}]
              /\ push' = [push EXCEPT ![p][u].todo = @ \ {s}, ![p][u].ok = TRUE]
    <2> DEFINE job == [push[p][u] EXCEPT !.todo = @ \ {s}, !.ok = TRUE]
    <2>1. /\ job \in PushJob /\ job.pc = "sending" /\ job.ok = TRUE
          /\ job.todo = push[p][u].todo \ {s}
      BY <1>1 DEF PushJob
    <2>2. push' = [push EXCEPT ![p][u] = job]
      BY <1>11 DEF Inv, TypeOK
    <2>3. Handed(p, u)'
      BY <1>1, <1>4, <1>11 DEF Handed, Inv, TypeOK
    <2> HIDE DEF job
    <2> QED
      BY <1>10, <2>1, <2>2, <2>3
  <1>12. CASE push' = [push EXCEPT ![p][u].todo = @ \ {s}]
    <2> DEFINE job == [push[p][u] EXCEPT !.todo = @ \ {s}]
    <2>1. /\ job \in PushJob /\ job.pc = "sending" /\ job.ok = push[p][u].ok
          /\ job.todo = push[p][u].todo \ {s}
      BY <1>1 DEF PushJob
    <2>2. push' = [push EXCEPT ![p][u] = job]
      BY <1>12
    <2> HIDE DEF job
    <2> QED
      BY <1>10, <2>1, <2>2
  <1> QED
    BY <1>3, <1>11, <1>12

LEMMA PushEndStep ==
    ASSUME Inv, NEW p \in Payload, NEW u \in User, PushEnd(p, u)
    PROVE  Inv'
  <1>1. /\ push[p][u] \in PushJob /\ push[p][u].pc = "sending" /\ PushOK(p, u)
        /\ push[p][u].todo = {}
        /\ UNCHANGED <<im_messages, group_messages, live, listed, used, posted, received, send, pull,
                       pulled, lost>>
        /\ faults' \in 0..MaxFaults
    BY SendJobs DEF PushEnd, Inv, TypeOK, store, sockets, counts
  <1> DEFINE job == [push[p][u] EXCEPT !.pc = IF push[p][u].ok THEN "mark" ELSE "done"]
  <1>2. /\ job \in PushJob /\ job.pc = (IF push[p][u].ok THEN "mark" ELSE "done")
        /\ job.ok = push[p][u].ok /\ job.todo = {}
    BY <1>1 DEF PushJob
  <1>3. push' = [push EXCEPT ![p][u] = job]
    BY DEF PushEnd
  <1> HIDE DEF job
  <1>4. push'[p][u] = job
    BY <1>3 DEF Inv, TypeOK
  <1>5. RowsKept /\ Len(im_messages') <= MaxDirect /\ posted' \in [Session -> SUBSET Payload]
    BY <1>1, RowsSame DEF Inv, TypeOK
  <1>6. PushOK(p, u)'
    <2>1. Handed(p, u) => Handed(p, u)'
      BY <1>1 DEF Handed
    <2> QED
      BY <1>1, <1>2, <1>4, <2>1 DEF PushOK
  <1>7. job.pc # "none"
    BY <1>2
  <1> QED
    BY <1>1, <1>2, <1>3, <1>5, <1>6, <1>7, PushGoesOn

\* The mark: a session of the receiver has the payload, or a group message of the
\* same id was pushed.
LEMMA PushMarkStep ==
    ASSUME Inv, NEW p \in Payload, NEW u \in User, PushMark(p, u)
    PROVE  Inv'
  <1>1. /\ push[p][u] \in PushJob /\ push[p][u].pc = "mark" /\ PushOK(p, u) /\ push[p][u].ok
        /\ UNCHANGED <<group_messages, live, listed, used, posted, received, send, pull, pulled,
                       lost>>
        /\ mark_delivered(p[2]) \/ UNCHANGED im_messages
    BY SendJobs DEF PushMark, Inv, PushOK, sockets
  <1>2. faults' \in 0..MaxFaults
    BY FaultBound DEF PushMark
  <1>3. /\ RowsKept /\ Len(im_messages') <= MaxDirect
        /\ DOMAIN im_messages' = DOMAIN im_messages
        /\ \A j \in DOMAIN im_messages : j # p[2] => im_messages'[j] = im_messages[j]
    BY <1>1, Marks, RowsSame, Rows DEF Inv
  <1>4. ASSUME p[2] \in DOMAIN im_messages, lost = 0 PROVE Safe(p[2])
    <2>1. CASE p[1] = "group"
      BY <1>1, <2>1, Payloads DEF Safe
    <2>2. CASE p[1] = "direct"
      <3>1. p = <<"direct", p[2]>> /\ p[2] \in 1..MaxDirect /\ im_messages[p[2]].to = u
        BY <1>1, <2>2, Payloads DEF PushOK
      <3>2. PICK s \in Session :
               Owner[s] = u /\ ((s \in live /\ p \in posted[s]) \/ p \in received[s])
        BY <1>1, <1>4 DEF PushOK, Handed
      <3>3. InFlight(p[2]) \/ p[2] \in Got(u)
        BY <3>1, <3>2 DEF InFlight, Got
      <3> QED
        BY <3>1, <3>3 DEF Safe
    <2> QED
      BY <2>1, <2>2, Payloads
  <1>5. \A i \in DOMAIN im_messages' :
           \/ im_messages'[i].status = "SENT"
           \/ /\ i \in DOMAIN im_messages
              /\ im_messages'[i].status = im_messages[i].status \/ (lost = 0 => Safe(i))
    BY <1>3, <1>4
  <1> DEFINE job == [push[p][u] EXCEPT !.pc = "done"]
  <1>6. /\ job \in PushJob /\ job.pc = "done" /\ job.ok = push[p][u].ok
        /\ job.todo = push[p][u].todo
    BY <1>1 DEF PushJob
  <1>7. push' = [push EXCEPT ![p][u] = job]
    BY DEF PushMark
  <1> HIDE DEF job
  <1>8. push'[p][u] = job
    BY <1>7 DEF Inv, TypeOK
  <1>9. PushOK(p, u)'
    <2>1. Handed(p, u) => Handed(p, u)'
      BY <1>1 DEF Handed
    <2>2. \A s \in job.todo : Owner[s] = u /\ New(p, s)'
      BY <1>1, <1>6 DEF PushOK, New
    <2>3. p[1] = "direct" => p[2] \in DOMAIN im_messages' /\ im_messages'[p[2]].to = u
      BY <1>1, <1>3 DEF PushOK, RowsKept
    <2> QED
      BY <1>1, <1>6, <1>8, <2>1, <2>2, <2>3 DEF PushOK
  <1>10. posted' \in [Session -> SUBSET Payload] /\ job.pc # "none"
    BY <1>1, <1>6 DEF Inv, TypeOK
  <1> QED
    BY <1>1, <1>2, <1>3, <1>5, <1>6, <1>7, <1>9, <1>10, PushGoesOn
-----------------------------------------------------------------------------
(* Offline pulls, and reading. *)

LEMMA PullJobs ==
    ASSUME Inv, NEW t \in Puller
    PROVE  /\ pull[t] \in PullJob /\ PullOK(t)
           /\ pull[t].left \subseteq 1..MaxDirect /\ pull[t].got \subseteq 1..MaxDirect
  BY DEF Inv, TypeOK, PullJob

\* A pull goes on; only it changes, and perhaps a status or what its user has.
LEMMA PullGoesOn ==
    ASSUME Inv, NEW t \in Puller, NEW job \in PullJob, pull' = [pull EXCEPT ![t] = job],
           faults' \in 0..MaxFaults, lost' \in 0..MaxLost,
           UNCHANGED <<group_messages, sockets, send, push>>,
           RowsKept, Len(im_messages') <= MaxDirect,
           \A i \in DOMAIN im_messages' :
              \/ im_messages'[i].status = "SENT"
              \/ /\ i \in DOMAIN im_messages
                 /\ im_messages'[i].status = im_messages[i].status \/ (lost = 0 => Safe(i)),
           pulled' \in [User -> SUBSET (1..MaxDirect)],
           \A u \in User : pulled[u] \subseteq pulled'[u],
           lost' = 0 => lost = 0,
           \/ lost' # 0
           \/ job.user = pull[t].user /\ pull[t].got \subseteq job.got
           \/ pull[t].got \subseteq pulled'[pull[t].user],
           PullOK(t)'
    PROVE  Inv'
  <1>1. \A v \in Puller : pull'[v] = IF v = t THEN job ELSE pull[v]
    BY DEF Inv, TypeOK
  <1>2. TypeOK'
    <2>1. pull' \in [Puller -> PullJob]
      BY DEF Inv, TypeOK
    <2> QED
      BY <2>1 DEF Inv, TypeOK, RowsKept, sockets
  <1>3. UNCHANGED <<live, posted, received>>
    BY DEF sockets
  <1>4. Progress
    <2>1. lost' = 0 => \A v \in Puller :
             \/ pull'[v].user = pull[v].user /\ pull[v].got \subseteq pull'[v].got
             \/ pull[v].got \subseteq pulled'[pull[v].user]
      BY <1>1
    <2>2. lost' = 0 => lost = 0
      OBVIOUS
    <2>3. \A s \in live : \A q \in posted[s] : s \in live' /\ q \in posted'[s]
      BY <1>3
    <2>4. \A s \in Session : received[s] \subseteq received'[s]
      BY <1>3
    <2> QED
      BY <2>1, <2>2, <2>3, <2>4 DEF Progress
  <1>5. SendOK'
    BY SendKept
  <1>6. \A p \in Payload, u \in User : PushOK(p, u)'
    BY <1>3, <1>4, PushKept DEF New
  <1>7. \A v \in Puller : PullOK(v)'
    BY <1>1, PullKept
  <1>8. NoSilentLoss'
    BY <1>4, LossKept
  <1> QED
    BY <1>2, <1>3, <1>5, <1>6, <1>7, <1>8 DEF Inv

LEMMA PullFindStep ==
    ASSUME Inv, NEW t \in Puller, NEW u \in User, PullFind(t, u)
    PROVE  Inv'
  <1> DEFINE found == find_offline(u)
             job == [pc |-> "mark", user |-> u, left |-> found, got |-> found]
  <1>1. found \subseteq DOMAIN im_messages /\ \A i \in found : im_messages[i].to = u
    BY DEF find_offline, Sent
  <1>2. found \subseteq 1..MaxDirect
    BY <1>1, Rows DEF Inv
  <1>3. pull' = [pull EXCEPT ![t] = job] /\ pull[t].pc = "idle"
    BY DEF PullFind
  <1> HIDE DEF found
  <1>4. /\ job \in PullJob /\ job.pc = "mark" /\ job.user = u /\ job.left = found
        /\ job.got = found
    BY <1>2 DEF PullJob
  <1> HIDE DEF job
  <1>5. /\ UNCHANGED <<im_messages, group_messages, sockets, send, push, pulled, lost>>
        /\ faults' \in 0..MaxFaults /\ lost' \in 0..MaxLost
        /\ pulled' \in [User -> SUBSET (1..MaxDirect)]
    BY DEF PullFind, Inv, TypeOK, store, counts
  <1>6. RowsKept /\ Len(im_messages') <= MaxDirect
    BY <1>5, RowsSame DEF Inv, TypeOK
  <1>7. PullOK(t)'
    <2>1. pull'[t] = job
      BY <1>3 DEF Inv, TypeOK
    <2> QED
      BY <1>1, <1>4, <1>5, <2>1 DEF PullOK
  <1>8. pull[t].got = {}
    BY <1>3, PullJobs DEF PullOK
  <1> QED
    BY <1>3, <1>4, <1>5, <1>6, <1>7, <1>8, PullGoesOn

\* What a pull returns is safe while it runs.
LEMMA PullSafe ==
    ASSUME Inv, NEW t \in Puller, NEW i \in pull[t].got
    PROVE  i \in DOMAIN im_messages /\ Safe(i)
  <1>1. i \in DOMAIN im_messages /\ im_messages[i].to = pull[t].user
    BY PullJobs DEF PullOK
  <1> QED
    BY <1>1 DEF Safe, InFlight

LEMMA PullMarkStep ==
    ASSUME Inv, NEW t \in Puller, PullMark(t)
    PROVE  Inv'
  <1>1. PICK i \in pull[t].left :
           /\ mark_delivered(i) \/ UNCHANGED im_messages
           /\ pull' = [pull EXCEPT ![t].left = @ \ {i},
                                   ![t].pc = IF pull[t].left = {i} THEN "respond" ELSE "mark"]
    BY DEF PullMark
  <1>2. /\ pull[t].pc = "mark" /\ pull[t] \in PullJob /\ PullOK(t)
        /\ UNCHANGED <<group_messages, sockets, send, push, pulled, lost>>
    BY PullJobs DEF PullMark
  <1>3. faults' \in 0..MaxFaults
    BY FaultBound DEF PullMark
  <1> DEFINE job == [pull[t] EXCEPT !.left = @ \ {i},
                                    !.pc = IF pull[t].left = {i} THEN "respond" ELSE "mark"]
  <1>4. /\ job \in PullJob /\ job.pc # "idle" /\ job.user = pull[t].user
        /\ job.left = pull[t].left \ {i} /\ job.got = pull[t].got
    BY <1>2 DEF PullJob
  <1>5. pull' = [pull EXCEPT ![t] = job]
    BY <1>1 DEF Inv, TypeOK
  <1> HIDE DEF job
  <1>6. /\ RowsKept /\ Len(im_messages') <= MaxDirect
        /\ DOMAIN im_messages' = DOMAIN im_messages
        /\ \A j \in DOMAIN im_messages : j # i => im_messages'[j] = im_messages[j]
    BY <1>1, Marks, RowsSame, Rows DEF Inv
  <1>7. Safe(i)
    BY <1>2, PullSafe DEF PullOK
  <1>8. \A j \in DOMAIN im_messages' :
           \/ im_messages'[j].status = "SENT"
           \/ /\ j \in DOMAIN im_messages
              /\ im_messages'[j].status = im_messages[j].status \/ (lost = 0 => Safe(j))
    BY <1>6, <1>7
  <1>9. PullOK(t)'
    <2>1. pull'[t] = job
      BY <1>5 DEF Inv, TypeOK
    <2>2. job.left \subseteq job.got /\ job.user \in User
      BY <1>2, <1>4 DEF PullOK
    <2>3. \A j \in job.got : j \in DOMAIN im_messages' /\ im_messages'[j].to = job.user
      BY <1>2, <1>4, <1>6 DEF PullOK, RowsKept
    <2> QED
      BY <1>4, <2>1, <2>2, <2>3 DEF PullOK
  <1>10. lost' \in 0..MaxLost /\ pulled' \in [User -> SUBSET (1..MaxDirect)]
    BY <1>2 DEF Inv, TypeOK
  <1> QED
    BY <1>2, <1>3, <1>4, <1>5, <1>6, <1>8, <1>9, <1>10, PullGoesOn

LEMMA PullRespondStep ==
    ASSUME Inv, NEW t \in Puller, PullRespond(t)
    PROVE  Inv'
  <1>1. /\ pull[t].pc = "respond" /\ pull[t] \in PullJob /\ PullOK(t)
        /\ pull[t].got \subseteq 1..MaxDirect
        /\ UNCHANGED <<im_messages, group_messages, sockets, send, push, faults>>
    BY PullJobs DEF PullRespond, store
  <1>2. pull[t].user \in User
    BY <1>1 DEF PullOK
  <1>3. NotPulling \in PullJob /\ NotPulling.pc = "idle" /\ NotPulling.got = {}
        /\ NotPulling.left = {}
    BY DEF NotPulling, PullJob
  <1>4. pull' = [pull EXCEPT ![t] = NotPulling]
    BY DEF PullRespond
  <1>5. RowsKept /\ Len(im_messages') <= MaxDirect /\ faults' \in 0..MaxFaults
    BY <1>1, RowsSame DEF Inv, TypeOK
  <1>6. PullOK(t)'
    <2>1. pull'[t] = NotPulling
      BY <1>4 DEF Inv, TypeOK
    <2> QED
      BY <1>3, <2>1 DEF PullOK
  <1>7. CASE pulled' = [pulled EXCEPT ![pull[t].user] = @ \cup pull[t].got] /\ UNCHANGED lost
    <2>1. /\ pulled' \in [User -> SUBSET (1..MaxDirect)] /\ lost' \in 0..MaxLost
          /\ \A u \in User : pulled[u] \subseteq pulled'[u]
          /\ pull[t].got \subseteq pulled'[pull[t].user]
      BY <1>1, <1>2, <1>7 DEF Inv, TypeOK
    <2> QED
      BY <1>1, <1>3, <1>4, <1>5, <1>6, <1>7, <2>1, PullGoesOn
  <1>8. CASE lost < MaxLost /\ lost' = lost + 1 /\ UNCHANGED pulled
    <2>1. lost' \in 0..MaxLost /\ lost' # 0
      BY <1>8, SizeAssumption DEF Inv, TypeOK
    <2>2. pulled' \in [User -> SUBSET (1..MaxDirect)]
      BY <1>8 DEF Inv, TypeOK
    <2> QED
      BY <1>1, <1>3, <1>4, <1>5, <1>6, <1>8, <2>1, <2>2, PullGoesOn
  <1> QED
    BY <1>7, <1>8 DEF PullRespond

LEMMA MarkReadStep ==
    ASSUME Inv, NEW i \in 1..MaxDirect, MarkRead(i)
    PROVE  Inv'
  <1>1. /\ i \in DOMAIN im_messages /\ i \in Got(im_messages[i].to)
        /\ im_messages' = [im_messages EXCEPT ![i].status = "READ"]
        /\ UNCHANGED <<group_messages, sockets, send, push, pull, pulled, counts>>
    BY DEF MarkRead
  <1>2. /\ RowsKept /\ Len(im_messages') = Len(im_messages)
        /\ DOMAIN im_messages' = DOMAIN im_messages
        /\ \A j \in DOMAIN im_messages : j # i => im_messages'[j] = im_messages[j]
    BY <1>1, StatusChanges DEF Inv, Status
  <1>3. TypeOK'
    BY <1>1, <1>2 DEF Inv, TypeOK, RowsKept, sockets, counts
  <1>4. UNCHANGED <<live, posted, received, lost>>
    BY <1>1 DEF sockets, counts
  <1>5. Progress
    BY <1>1, <1>2, <1>4 DEF Inv, Progress, TypeOK
  <1>6. Safe(i)
    BY <1>1 DEF Safe
  <1>7. \A j \in DOMAIN im_messages' :
           \/ im_messages'[j].status = "SENT"
           \/ /\ j \in DOMAIN im_messages
              /\ im_messages'[j].status = im_messages[j].status \/ (lost = 0 => Safe(j))
    BY <1>2, <1>6
  <1>8. NoSilentLoss'
    BY <1>5, <1>7, LossKept
  <1>9. SendOK' /\ \A t \in Puller : PullOK(t)'
    BY <1>1, <1>2, SendKept, PullKept
  <1>10. \A p \in Payload, u \in User : PushOK(p, u)'
    BY <1>1, <1>4, <1>5, PushKept DEF New
  <1> QED
    BY <1>3, <1>4, <1>8, <1>9, <1>10 DEF Inv
-----------------------------------------------------------------------------
LEMMA InitInv == Init => Inv
  <1> SUFFICES ASSUME Init PROVE Inv
    OBVIOUS
  <1>1. im_messages = << >> /\ << >> \in Seq(Row) /\ Len(<< >>) = 0 /\ DOMAIN << >> = {}
    BY EmptySeq DEF Init
  <1>2. 0 <= MaxDirect /\ 0 \in 0..MaxGroup /\ 0 \in 0..MaxFaults /\ 0 \in 0..MaxLost
    BY SizeAssumption
  <1>3. /\ NotSending \in SendJob /\ NotSending.pc = "none" /\ NotSending.left = {}
        /\ NotPushing \in PushJob /\ NotPushing.pc = "none" /\ NotPushing.todo = {}
        /\ NotPushing.ok = FALSE
        /\ NotPulling \in PullJob /\ NotPulling.pc = "idle" /\ NotPulling.left = {}
        /\ NotPulling.got = {}
    BY DEF NotSending, SendJob, NotPushing, PushJob, NotPulling, PullJob
  <1>4. TypeOK
    BY <1>1, <1>2, <1>3 DEF Init, TypeOK
  <1>5. SendOK
    BY <1>3 DEF Init, SendOK
  <1>6. \A p \in Payload, u \in User : PushOK(p, u)
    BY <1>3 DEF Init, PushOK, New
  <1>7. \A t \in Puller : PullOK(t)
    BY <1>3 DEF Init, PullOK
  <1>8. NoSilentLoss
    BY <1>1 DEF NoSilentLoss
  <1>9. \A s \in Session : posted[s] \cap received[s] = {}
    BY DEF Init
  <1> QED
    BY <1>4, <1>5, <1>6, <1>7, <1>8, <1>9 DEF Inv

LEMMA StepInv == Inv /\ [Next]_vars => Inv'
  <1> SUFFICES ASSUME Inv, [Next]_vars PROVE Inv'
    OBVIOUS
  <1>1. ASSUME NEW s \in Session, Connect(s) \/ Close(s) \/ Unlist(s) \/ Write(s) PROVE Inv'
    BY <1>1, ConnectStep, CloseStep, UnlistStep, WriteStep
  <1>2. ASSUME NEW u \in User, SendDirect(u) \/ SendGroup(u) PROVE Inv'
    BY <1>2, SendDirectStep, SendGroupStep
  <1>3. ASSUME NEW p \in Payload, Sending(p) PROVE Inv'
    BY <1>3, ReadBackStep, NotifyStep, NotifyReturnsStep, AckStep DEF Sending
  <1>4. ASSUME NEW p \in Payload, NEW u \in User, Pushing(p, u) PROVE Inv'
    BY <1>4, PushLookupStep, PushSendStep, PushEndStep, PushMarkStep DEF Pushing
  <1>5. ASSUME NEW t \in Puller, Pulling(t) PROVE Inv'
    BY <1>5, PullFindStep, PullMarkStep, PullRespondStep DEF Pulling
  <1>6. ASSUME NEW i \in 1..MaxDirect, MarkRead(i) PROVE Inv'
    BY <1>6, MarkReadStep
  <1>7. CASE UNCHANGED vars
    <2>1. UNCHANGED <<im_messages, group_messages, live, listed, used, posted, received, send, push,
                      pull, pulled, faults, lost>>
      BY <1>7 DEF vars, store, sockets, counts
    <2>2. TypeOK' /\ SendOK'
      BY <2>1 DEF Inv, TypeOK, SendOK, Stored
    <2>3. /\ \A p \in Payload, u \in User : PushOK(p, u)'
          /\ \A t \in Puller : PullOK(t)'
      BY <2>1 DEF Inv, PushOK, PullOK, Handed, New
    <2>4. NoSilentLoss' /\ \A s \in Session : posted'[s] \cap received'[s] = {}
      BY <2>1 DEF Inv, NoSilentLoss, InFlight, Got
    <2> QED
      BY <2>2, <2>3, <2>4 DEF Inv
  <1> QED
    BY <1>1, <1>2, <1>3, <1>4, <1>5, <1>6, <1>7 DEF Next

LEMMA InvHolds == Spec => []Inv
  BY InitInv, StepInv, PTL DEF Spec

\* As long as no session closes on unsent payloads and no answer is lost, every row of
\* im_messages is still SENT, on its way or with its receiver, or a group message of the
\* same id was pushed: the marks of PushRuntime and of handle_offline hide nothing,
\* however sends, pushes, deadlines, pulls and closing sessions interleave.
THEOREM StoredAreKept == Spec => []MessagesKept
  <1>1. Inv => MessagesKept
    BY DEF Inv, MessagesKept
  <1> QED
    BY <1>1, InvHolds, PTL

\* A message becomes DELIVERED only when a session took a push with its id, or a pull
\* that returns it runs (PushRuntime::notify_user, handle_offline).
THEOREM MarkedAfterHanding == Spec => MarkedWhenHanded
  <1> DEFINE Handing(i) == \/ \E p \in Payload, u \in User : p[2] = i /\ push[p][u].ok
                           \/ \E t \in Puller : i \in pull[t].got
             A == \A i \in DOMAIN im_messages :
                     im_messages[i].status = "SENT" /\ im_messages'[i].status = "DELIVERED" =>
                        Handing(i)
  <1>1. ASSUME Inv, Next PROVE A
    <2> SUFFICES ASSUME NEW i \in DOMAIN im_messages, im_messages[i].status = "SENT",
                        im_messages'[i].status = "DELIVERED"
                 PROVE  Handing(i)
      OBVIOUS
    <2> HIDE DEF Handing
    <2>1. CASE UNCHANGED im_messages
      BY <2>1
    <2>2. CASE \E u \in User : SendDirect(u)
      <3>1. PICK u \in User : im_messages' = Append(im_messages, [to |-> u, status |-> "SENT"])
        BY <2>2 DEF SendDirect
      <3>2. im_messages \in Seq(Row) /\ [to |-> u, status |-> "SENT"] \in Row
            /\ i \in 1..Len(im_messages)
        BY <1>1, Rows DEF Inv, TypeOK, Row, Status
      <3>3. im_messages'[i] = im_messages[i]
        BY <3>1, <3>2, AppendProperties
      <3> QED
        BY <3>3
    <2>3. ASSUME NEW p \in Payload, NEW u \in User, PushMark(p, u) PROVE Handing(i)
      <3>1. push[p][u].ok
        BY <1>1, <2>3 DEF Inv, PushOK, PushMark
      <3>2. mark_delivered(p[2]) \/ UNCHANGED im_messages
        BY <2>3 DEF PushMark
      <3>3. i = p[2]
        BY <1>1, <3>2, Marks DEF Inv
      <3> QED
        BY <3>1, <3>3 DEF Handing
    <2>4. ASSUME NEW t \in Puller, PullMark(t) PROVE Handing(i)
      <3>1. PICK j \in pull[t].left : mark_delivered(j) \/ UNCHANGED im_messages
        BY <2>4 DEF PullMark
      <3>2. i = j
        BY <1>1, <3>1, Marks DEF Inv
      <3>3. i \in pull[t].got
        BY <1>1, <3>2, PullJobs DEF PullOK
      <3> QED
        BY <3>3 DEF Handing
    <2>5. ASSUME NEW j \in 1..MaxDirect, MarkRead(j) PROVE Handing(i)
      <3>1. j \in DOMAIN im_messages /\ im_messages' = [im_messages EXCEPT ![j].status = "READ"]
        BY <2>5 DEF MarkRead
      <3>2. /\ \A k \in DOMAIN im_messages : k # j => im_messages'[k] = im_messages[k]
            /\ im_messages'[j].status = "READ"
        BY <1>1, <3>1, StatusChanges DEF Inv, Status
      <3> QED
        BY <3>2
    <2>6. \/ UNCHANGED im_messages \/ \E u \in User : SendDirect(u)
          \/ \E p \in Payload, u \in User : PushMark(p, u)
          \/ \E t \in Puller : PullMark(t)
          \/ \E j \in 1..MaxDirect : MarkRead(j)
      BY <1>1 DEF Next, Sending, Pushing, Pulling, Connect, Close, Unlist, Write, SendGroup, ReadBack,
                  Notify, NotifyReturns, Ack, PushLookup, PushSend, PushEnd, PullFind, PullRespond, store
    <2> QED
      BY <2>1, <2>2, <2>3, <2>4, <2>5, <2>6
  <1>2. Inv /\ [Next]_vars => [A]_vars
    BY <1>1
  <1>3. MarkedWhenHanded <=> [][A]_vars
    BY DEF MarkedWhenHanded
  <1> QED
    BY <1>2, <1>3, InvHolds, PTL DEF Spec

\* What a session has written to its socket is not posted to it again: a deadline that
\* passes while the push goes on starts no second push (RemotePushNotifier::notify_user).
THEOREM NothingPushedTwice == Spec => PushedOnce
  <1> DEFINE A == \A s \in Session : \A p \in received[s] : p \notin posted'[s]
  <1>1. ASSUME Inv, Inv', Next PROVE A
    <2>1. \A s \in Session : received[s] \subseteq received'[s]
      <3>1. CASE UNCHANGED received
        BY <3>1
      <3>2. CASE \E s \in Session : Write(s)
        BY <1>1, <3>2 DEF Write, Inv, TypeOK
      <3>3. UNCHANGED received \/ \E s \in Session : Write(s)
        BY <1>1 DEF Next, Sending, Pushing, Pulling, Connect, Close, Unlist, SendDirect, SendGroup,
                    ReadBack, Notify, NotifyReturns, Ack, PushLookup, PushSend, PushEnd, PushMark,
                    PullFind, PullMark, PullRespond, MarkRead, sockets
      <3> QED
        BY <3>1, <3>2, <3>3
    <2> QED
      BY <1>1, <2>1 DEF Inv
  <1>2. Inv /\ Inv' /\ [Next]_vars => [A]_vars
    BY <1>1
  <1>3. PushedOnce <=> [][A]_vars
    BY DEF PushedOnce
  <1> QED
    BY <1>2, <1>3, InvHolds, PTL DEF Spec
=============================================================================
