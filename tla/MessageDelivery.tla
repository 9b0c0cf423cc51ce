---------------------------- MODULE MessageDelivery ----------------------------
(***************************************************************************)
(* How a chat message reaches its receiver.                                *)
(*                                                                         *)
(* A send handler (MessageHttpController, MessageWsHandler or              *)
(* GroupMessageHttpController) stores the message, lets PushRuntime hand   *)
(* it to the receiver's online sessions, and answers the sender.  When at  *)
(* least one session took it the runtime marks the message DELIVERED in    *)
(* im_messages.  A receiver who was not reached pulls the messages that    *)
(* are still SENT (MessageHttpController::handle_offline).                 *)
(*                                                                         *)
(* Direct messages are rows of im_messages and group messages rows of      *)
(* im_group_messages, both with an id of their own sequence.  The push     *)
(* runtime is in the gateway (Remote = FALSE) or in a server that works    *)
(* through RPCs with deadlines (Remote = TRUE).  The session registry is   *)
(* the module ConnectionManager; here a session is listed in Redis, held   *)
(* by WebSocketServer, or neither.  Content, time and the limit on the     *)
(* history query are left out.                                             *)
(***************************************************************************)
EXTENDS Naturals, Sequences, FiniteSets

CONSTANTS
    User, Session,
    Owner,       \* Owner[s]: the user whose token session s carries
    Member,      \* the members of the one group
    Puller,      \* the HTTP threads that serve offline pulls
    Limit,       \* the limit of one offline pull
    Remote,      \* push.mode = "remote"
    NoUser,
    MaxDirect,   \* bound: rows of im_messages
    MaxGroup,    \* bound: rows of im_group_messages
    MaxRows,     \* bound: rows of both
    MaxFaults,   \* bound: failures of the database, of Redis and of RPCs
    MaxLost      \* bound: sessions that close on unsent payloads, answers that are lost

ASSUME OwnerAssumption == Owner \in [Session -> User]
ASSUME MemberAssumption == Member \subseteq User
ASSUME NoUserAssumption == NoUser \notin User
ASSUME RemoteAssumption == Remote \in BOOLEAN
ASSUME SizeAssumption ==
    /\ Limit \in Nat \ {0} /\ MaxDirect \in Nat /\ MaxGroup \in Nat /\ MaxRows \in Nat
    /\ MaxFaults \in Nat /\ MaxLost \in Nat

Direct == {"direct"} \X (1..MaxDirect)
Group == {"group"} \X (1..MaxGroup)
Payload == Direct \cup Group

VARIABLES
    im_messages,     \* the rows of direct messages, by id
    group_messages,  \* the number of rows of group messages
    live,            \* WebSocketServer::sessions_
    listed,          \* the sessions in user:sessions:{user}
    used,            \* session ids that have been given out
    posted,          \* payloads posted to a session, not yet written to its socket
    received,        \* payloads written to the socket of a session
    send,            \* the send handler of each payload
    push,            \* PushRuntime::notify_user for a payload and a user
    pull,            \* handle_offline of each puller
    pulled,          \* ids a user got in the answer of an offline pull
    faults, lost

store == <<im_messages, group_messages>>
sockets == <<live, listed, used, posted, received>>
counts == <<faults, lost>>
vars == <<store, sockets, send, push, pull, pulled, counts>>

Status == {"SENT", "DELIVERED", "READ"}
Row == [to : User, status : Status]

SendJob == [pc   : {"none", "readback", "notify", "wait", "acked", "failed"},
            left : SUBSET User,
            to   : User \cup {NoUser}]

PushJob == [pc   : {"none", "lookup", "sending", "mark", "done"},
            todo : SUBSET Session,
            ok   : BOOLEAN]

PullJob == [pc   : {"idle", "mark", "respond"},
            user : User \cup {NoUser},
            left : SUBSET (1..MaxDirect),
            got  : SUBSET (1..MaxDirect)]

NotSending == [pc |-> "none", left |-> {}, to |-> NoUser]
NotPushing == [pc |-> "none", todo |-> {}, ok |-> FALSE]
NotPulling == [pc |-> "idle", user |-> NoUser, left |-> {}, got |-> {}]

TypeOK ==
    /\ im_messages \in Seq(Row) /\ Len(im_messages) <= MaxDirect
    /\ group_messages \in 0..MaxGroup
    /\ live \subseteq used /\ listed \subseteq used /\ used \subseteq Session
    /\ posted \in [Session -> SUBSET Payload]
    /\ received \in [Session -> SUBSET Payload]
    /\ send \in [Payload -> SendJob]
    /\ push \in [Payload -> [User -> PushJob]]
    /\ pull \in [Puller -> PullJob]
    /\ pulled \in [User -> SUBSET (1..MaxDirect)]
    /\ faults \in 0..MaxFaults
    /\ lost \in 0..MaxLost

Init ==
    /\ im_messages = << >> /\ group_messages = 0
    /\ live = {} /\ listed = {} /\ used = {}
    /\ posted = [s \in Session |-> {}]
    /\ received = [s \in Session |-> {}]
    /\ send = [p \in Payload |-> NotSending]
    /\ push = [p \in Payload |-> [u \in User |-> NotPushing]]
    /\ pull = [t \in Puller |-> NotPulling]
    /\ pulled = [u \in User |-> {}]
    /\ faults = 0 /\ lost = 0

\* A database, Redis or RPC failure, as many as the bound allows.
Fault == faults < MaxFaults /\ faults' = faults + 1
NoFault == UNCHANGED faults

-----------------------------------------------------------------------------
(* The receivers' sessions. *)

Connect(s) ==
    /\ s \notin used
    /\ used' = used \cup {s} /\ live' = live \cup {s} /\ listed' = listed \cup {s}
    /\ UNCHANGED <<store, posted, received, send, push, pull, pulled, counts>>

\* perform_close clears the send queue; what was posted later is ignored.
Close(s) ==
    /\ s \in live
    /\ \/ posted[s] = {} /\ UNCHANGED lost
       \/ posted[s] # {} /\ lost < MaxLost /\ lost' = lost + 1
    /\ live' = live \ {s}
    /\ posted' = [posted EXCEPT ![s] = {}]
    /\ UNCHANGED <<store, listed, used, received, send, push, pull, pulled, faults>>

\* The disconnect handler's remove_connection, after the session left sessions_.
Unlist(s) ==
    /\ s \in listed /\ s \notin live
    /\ listed' = listed \ {s}
    /\ UNCHANGED <<store, live, used, posted, received, send, push, pull, pulled, counts>>

Write(s) ==
    /\ s \in live
    /\ \E p \in posted[s] :
          /\ posted' = [posted EXCEPT ![s] = @ \ {p}]
          /\ received' = [received EXCEPT ![s] = @ \cup {p}]
    /\ UNCHANGED <<store, live, listed, used, send, push, pull, pulled, counts>>

-----------------------------------------------------------------------------
(* The send handlers.  A send whose row is not stored answers an error and  *)
(* leaves nothing behind: there is no action for it.                        *)

\* MessageService::send_text_message: the row is persisted.
SendDirect(u) ==
    LET id == Len(im_messages) + 1
    IN /\ id <= MaxDirect /\ id + group_messages <= MaxRows
       /\ im_messages' = Append(im_messages, [to |-> u, status |-> "SENT"])
       /\ send' = [send EXCEPT ![<<"direct", id>>] =
                      [pc |-> "readback", left |-> {u}, to |-> NoUser]]
       /\ UNCHANGED <<group_messages, sockets, push, pull, pulled, counts>>

\* The row is read back; if that fails, or the answer of the message server is
\* late, the sender is told that the send failed although the row is there.
ReadBack(p) ==
    /\ send[p].pc = "readback"
    /\ \/ NoFault /\ send' = [send EXCEPT ![p].pc = "notify"]
       \/ Fault /\ send' = [send EXCEPT ![p] = [pc |-> "failed", left |-> {}, to |-> NoUser]]
    /\ UNCHANGED <<store, sockets, push, pull, pulled, lost>>

\* handle_send_message of a group: the member list is read, the row persisted.
SendGroup(u) ==
    LET id == group_messages + 1
    IN /\ u \in Member /\ id <= MaxGroup /\ id + Len(im_messages) <= MaxRows
       /\ group_messages' = id
       /\ send' = [send EXCEPT ![<<"group", id>>] =
                      [pc |-> "notify", left |-> Member \ {u}, to |-> NoUser]]
       /\ UNCHANGED <<im_messages, sockets, push, pull, pulled, counts>>

\* notify_user for the next receiver; the handler waits for it.
Notify(p) ==
    /\ send[p].pc = "notify"
    /\ \E u \in send[p].left :
          /\ send' = [send EXCEPT ![p] = [pc |-> "wait", left |-> @.left \ {u}, to |-> u]]
          /\ push' = [push EXCEPT ![p][u].pc = "lookup"]
    /\ UNCHANGED <<store, sockets, pull, pulled, counts>>

\* Mutant of NotifyReturns: an RPC that reaches its deadline is tried again.
NotifyRetries(p) ==
    /\ send[p].pc = "wait"
    /\ \/ /\ push[p][send[p].to].pc = "done" /\ NoFault
          /\ send' = [send EXCEPT ![p].pc = "notify", ![p].to = NoUser]
       \/ /\ Remote /\ Fault
          /\ send' = [send EXCEPT ![p] = [pc |-> "notify", left |-> @.left \cup {@.to},
                                          to |-> NoUser]]
    /\ UNCHANGED <<store, sockets, push, pull, pulled, lost>>

\* notify_user returns, or its RPC reaches the deadline while the push goes on.
NotifyReturns(p) ==
    /\ send[p].pc = "wait"
    /\ \/ push[p][send[p].to].pc = "done" /\ NoFault
       \/ Remote /\ Fault
    /\ send' = [send EXCEPT ![p].pc = "notify", ![p].to = NoUser]
    /\ UNCHANGED <<store, sockets, push, pull, pulled, lost>>

Ack(p) ==
    /\ send[p].pc = "notify" /\ send[p].left = {}
    /\ send' = [send EXCEPT ![p].pc = "acked"]
    /\ UNCHANGED <<store, sockets, push, pull, pulled, counts>>

-----------------------------------------------------------------------------
(* PushRuntime::notify_user. *)

\* get_sessions and the fanout to all of them; a failed query looks like nobody online.
PushLookup(p, u) ==
    /\ push[p][u].pc = "lookup"
    /\ \/ /\ NoFault
          /\ LET online == {s \in listed : Owner[s] = u}
             IN push' = [push EXCEPT ![p][u] =
                           [pc |-> IF online = {} THEN "done" ELSE "sending",
                            todo |-> online, ok |-> FALSE]]
       \/ Fault /\ push' = [push EXCEPT ![p][u].pc = "done"]
    /\ UNCHANGED <<store, sockets, send, pull, pulled, lost>>

\* Mutant of PushSend: a session that sessions_ no longer holds counts as reached.
PushSendBlind(p, u) ==
    /\ push[p][u].pc = "sending"
    /\ \E s \in push[p][u].todo :
          /\ posted' = [posted EXCEPT ![s] = IF s \in live THEN @ \cup {p} ELSE @]
          /\ push' = [push EXCEPT ![p][u].todo = @ \ {s}, ![p][u].ok = TRUE]
    /\ UNCHANGED <<store, live, listed, used, received, send, pull, pulled, counts>>

\* send_payload to one session: TRUE as soon as sessions_ holds it.  A remote call
\* can fail before or after the gateway posted the payload.
PushSend(p, u) ==
    /\ push[p][u].pc = "sending"
    /\ \E s \in push[p][u].todo :
          /\ \/ /\ s \in live /\ NoFault
                /\ posted' = [posted EXCEPT ![s] = @ \cup {p}]
                /\ push' = [push EXCEPT ![p][u].todo = @ \ {s}, ![p][u].ok = TRUE]
             \/ /\ s \notin live /\ NoFault
                /\ push' = [push EXCEPT ![p][u].todo = @ \ {s}]
                /\ UNCHANGED posted
             \/ /\ Remote /\ Fault
                /\ posted' \in {posted, [posted EXCEPT ![s] =
                                   IF s \in live THEN @ \cup {p} ELSE @]}
                /\ push' = [push EXCEPT ![p][u].todo = @ \ {s}]
    /\ UNCHANGED <<store, live, listed, used, received, send, pull, pulled, lost>>

\* Mutant of PushEnd: the message is marked although no session took it.
PushEndAlways(p, u) ==
    /\ push[p][u].pc = "sending" /\ push[p][u].todo = {}
    /\ push' = [push EXCEPT ![p][u].pc = "mark"]
    /\ UNCHANGED <<store, sockets, send, pull, pulled, counts>>

PushEnd(p, u) ==
    /\ push[p][u].pc = "sending" /\ push[p][u].todo = {}
    /\ push' = [push EXCEPT ![p][u].pc = IF push[p][u].ok THEN "mark" ELSE "done"]
    /\ UNCHANGED <<store, sockets, send, pull, pulled, counts>>

\* MessageRepository::mark_delivered: whatever the status was, in im_messages.
mark_delivered(id) ==
    im_messages' = IF id \in DOMAIN im_messages
                   THEN [im_messages EXCEPT ![id].status = "DELIVERED"]
                   ELSE im_messages

PushMark(p, u) ==
    /\ push[p][u].pc = "mark"
    /\ \/ NoFault /\ mark_delivered(p[2])
       \/ Fault /\ UNCHANGED im_messages
    /\ push' = [push EXCEPT ![p][u].pc = "done"]
    /\ UNCHANGED <<group_messages, sockets, send, pull, pulled, lost>>

-----------------------------------------------------------------------------
(* Offline pulls, and reading. *)

Sent(u) == {i \in DOMAIN im_messages :
               im_messages[i].to = u /\ im_messages[i].status = "SENT"}

\* find_offline: the Limit oldest messages that are still SENT.
find_offline(u) ==
    {i \in Sent(u) : Cardinality({j \in Sent(u) : j < i}) < Limit}

\* Mutant of PullFind: more is marked than the page that is returned.
PullFindMarkAll(t, u) ==
    /\ pull[t].pc = "idle"
    /\ find_offline(u) # {}
    /\ pull' = [pull EXCEPT ![t] = [pc |-> "mark", user |-> u,
                                    left |-> Sent(u), got |-> find_offline(u)]]
    /\ UNCHANGED <<store, sockets, send, push, pulled, counts>>

PullFind(t, u) ==
    /\ pull[t].pc = "idle"
    /\ find_offline(u) # {}      \* an empty answer changes nothing
    /\ pull' = [pull EXCEPT ![t] = [pc |-> "mark", user |-> u,
                                    left |-> find_offline(u), got |-> find_offline(u)]]
    /\ UNCHANGED <<store, sockets, send, push, pulled, counts>>

\* mark_delivered for each of them in turn; its result is not looked at.
PullMark(t) ==
    /\ pull[t].pc = "mark"
    /\ \E i \in pull[t].left :
          /\ \A j \in pull[t].left : i <= j
          /\ \/ NoFault /\ mark_delivered(i)
             \/ Fault /\ UNCHANGED im_messages
          /\ pull' = [pull EXCEPT ![t].left = @ \ {i},
                                  ![t].pc = IF pull[t].left = {i} THEN "respond" ELSE "mark"]
    /\ UNCHANGED <<group_messages, sockets, send, push, pulled, lost>>

\* The answer reaches the client, or the connection is gone.
PullRespond(t) ==
    /\ pull[t].pc = "respond"
    /\ \/ /\ pulled' = [pulled EXCEPT ![pull[t].user] = @ \cup pull[t].got]
          /\ UNCHANGED lost
       \/ lost < MaxLost /\ lost' = lost + 1 /\ UNCHANGED pulled
    /\ pull' = [pull EXCEPT ![t] = NotPulling]
    /\ UNCHANGED <<store, sockets, send, push, faults>>

\* What user u has received of the direct messages.
Got(u) == pulled[u] \cup {i \in 1..MaxDirect :
              \E s \in Session : Owner[s] = u /\ <<"direct", i>> \in received[s]}

\* MessageService::mark_read, which the user calls for a message it has.
MarkRead(i) ==
    /\ i \in DOMAIN im_messages /\ i \in Got(im_messages[i].to)
    /\ im_messages[i].status # "READ"
    /\ im_messages' = [im_messages EXCEPT ![i].status = "READ"]
    /\ UNCHANGED <<group_messages, sockets, send, push, pull, pulled, counts>>

-----------------------------------------------------------------------------
Sending(p) == ReadBack(p) \/ Notify(p) \/ NotifyReturns(p) \/ Ack(p)
Pushing(p, u) == PushLookup(p, u) \/ PushSend(p, u) \/ PushEnd(p, u) \/ PushMark(p, u)
Pulling(t) == (\E u \in User : PullFind(t, u)) \/ PullMark(t) \/ PullRespond(t)

Next ==
    \/ \E s \in Session : Connect(s) \/ Close(s) \/ Unlist(s) \/ Write(s)
    \/ \E u \in User : SendDirect(u) \/ SendGroup(u)
    \/ \E p \in Payload : Sending(p)
    \/ \E p \in Payload, u \in User : Pushing(p, u)
    \/ \E t \in Puller : Pulling(t)
    \/ \E i \in 1..MaxDirect : MarkRead(i)

Spec == Init /\ [][Next]_vars

\* Threads go on with what they started, and receivers cooperate: they read their
\* sockets, so that a session writes what it holds (and no other peer holds the io
\* thread in a close), and a user whose messages are not delivered pulls again and
\* again (the web client does so whenever it opens a conversation).
Fairness ==
    /\ \A p \in Payload : WF_vars(Sending(p))
    /\ \A p \in Payload, u \in User : WF_vars(Pushing(p, u))
    /\ \A s \in Session : WF_vars(Write(s))
    /\ \A t \in Puller : WF_vars(PullMark(t)) /\ WF_vars(PullRespond(t))
    /\ \A u \in User : SF_vars(\E t \in Puller : PullFind(t, u))

FairSpec == Spec /\ Fairness

-----------------------------------------------------------------------------
(* Properties. *)

InFlight(i) ==
    LET to == im_messages[i].to
    IN \/ \E s \in live : Owner[s] = to /\ <<"direct", i>> \in posted[s]
       \/ \E t \in Puller : pull[t].user = to /\ i \in pull[t].got

\* As long as no session dropped a payload and no answer was lost, a stored message
\* is still pullable, on its way, or with its receiver: whatever order the push, the
\* pulls, the marks and the sessions' ends take, and whatever fails, mark_delivered
\* does not hide a message that nobody has.  (The exception in the second line is
\* the run group_mark.)
NoSilentLoss ==
    lost = 0 =>
       \A i \in DOMAIN im_messages :
          \/ \E u \in User, g \in Group : g[2] = i /\ push[g][u].ok
          \/ im_messages[i].status = "SENT"
          \/ InFlight(i)
          \/ i \in Got(im_messages[i].to)

\* The tables are well formed and no stored message is lost by the code itself.
MessagesKept == TypeOK /\ NoSilentLoss

\* A message leaves SENT for DELIVERED only when a session took a push with its id
\* or a running pull returns it (PushRuntime::notify_user counts the sessions that
\* accepted, handle_offline marks what it returns).
MarkedWhenHanded ==
    [][\A i \in DOMAIN im_messages :
          im_messages[i].status = "SENT" /\ im_messages'[i].status = "DELIVERED" =>
             \/ \E p \in Payload, u \in User : p[2] = i /\ push[p][u].ok
             \/ \E t \in Puller : i \in pull[t].got]_vars

\* A session is handed a payload at most once: a deadline that passes while the push
\* goes on does not make the gateway push again (RemotePushNotifier::notify_user).
PushedOnce ==
    [][\A s \in Session : \A p \in received[s] : p \notin posted'[s]]_vars

\* A stored message is received in the end, by a push or by a pull.
EventuallyReceived ==
    \A i \in 1..MaxDirect :
       i \in DOMAIN im_messages ~>
          i \in DOMAIN im_messages /\ i \in Got(im_messages[i].to)

\* The same as long as nothing was lost on a socket or with an answer, and no group
\* message with the same id was pushed: not even a failed mark, query or RPC, or a
\* limit on the answer, keeps a message from its receiver.
ReceivedUnlessLost ==
    \A i \in 1..MaxDirect :
       i \in DOMAIN im_messages ~>
          \/ i \in DOMAIN im_messages /\ i \in Got(im_messages[i].to)
          \/ lost > 0
          \/ \E u \in User, g \in Group : g[2] = i /\ push[g][u].ok

-----------------------------------------------------------------------------
(* Statements of the documents that the code does not meet. *)

\* "delivered: the message was delivered to at least one online session of its
\* receiver, or the receiver got it by an offline pull".
DeliveredReached ==
    \A i \in DOMAIN im_messages :
       im_messages[i].status = "SENT" \/ InFlight(i) \/ i \in Got(im_messages[i].to)

\* "marked delivered after the pull, so that it is not returned again as an offline
\* message" (handle_offline).
PulledOnce ==
    \A t \in Puller :
       pull[t].pc = "respond" => pull[t].got \cap pulled[pull[t].user] = {}
=============================================================================
