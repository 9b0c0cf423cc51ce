---------------------------- MODULE GroupService ----------------------------
(***************************************************************************)
(* GroupService, GroupMessageService and their repositories with the       *)
(* endpoints of GroupHttpController and GroupMessageHttpController that    *)
(* change im_groups, im_group_members and im_group_messages.  Groups are   *)
(* never deleted, so a lookup of the group that succeeds is one step with  *)
(* the lookup of its members that follows it.  The push of a stored group  *)
(* message is in MessageDelivery.                                          *)
(***************************************************************************)
EXTENDS UserService

CONSTANTS InitGroups, InitMembers,   \* rows at the start
          MaxStamp                   \* bound: timestamps of messages

\* The groups are numbered and have their creators as owners; a user is in a group once.
ASSUME GroupsAssumption ==
    /\ MaxStamp \in Nat
    /\ IsFiniteSet(InitGroups)
    /\ InitGroups \subseteq [id : 1..Cardinality(InitGroups), creator : InitUsers]
    /\ \A g, h \in InitGroups : g.id = h.id => g = h
    /\ InitMembers \subseteq [group : {g.id : g \in InitGroups}, user : InitUsers,
                              role : {"OWNER", "MEMBER"}]
    /\ \A r, q \in InitMembers : r.group = q.group /\ r.user = q.user => r = q
    /\ \A g \in InitGroups : \E r \in InitMembers :
          r.group = g.id /\ r.user = g.creator /\ r.role = "OWNER"
    /\ \A r \in InitMembers : r.role = "OWNER" =>
          \E g \in InitGroups : g.id = r.group /\ g.creator = r.user

VARIABLES groups,    \* im_groups
          members,   \* im_group_members
          messages,  \* im_group_messages
          told       \* history: the message ids that senders were told

groupVars == <<groups, members, messages, told>>

GroupRow(id, u) == [id |-> id, creator |-> u]
MemberRow(g, u, role) == [group |-> g, user |-> u, role |-> role]

GroupInit ==
    /\ groups = InitGroups
    /\ members = InitMembers
    /\ messages = {}
    /\ told = {}

find_group_by_id(g) == {r \in groups : r.id = g}
find_member(g, u) == {r \in members : r.group = g /\ r.user = u}
IsMember(g, u) == find_member(g, u) # {}
GroupIds == 1..(Cardinality(groups) + 1)

-----------------------------------------------------------------------------
(* The remote client turns every code for something not found into         *)
(* GROUP_NOT_FOUND, which the handler of a new group does not ask for.     *)
CreateStatus(code) ==
    CASE code = "ok" -> 201
      [] code = "CREATOR_NOT_FOUND" /\ ~remote -> 404
      [] OTHER -> 400
JoinStatus(code) ==
    CASE code = "ok" -> 200
      [] code \in {"GROUP_NOT_FOUND", "USER_NOT_FOUND"} -> 404
      [] code = "ALREADY_MEMBER" -> 409
      [] OTHER -> 400
LeaveStatus(code) ==
    CASE code = "ok" -> 200
      [] code = "GROUP_NOT_FOUND" -> 404
      [] code \in {"NOT_MEMBER", "OWNER_CANNOT_LEAVE"} -> 403
      [] OTHER -> 400

-----------------------------------------------------------------------------
(* create_group.                                                           *)
CreateGroup(s) == \E a \in Registered :
    /\ Begin(s, [NoReq EXCEPT !.op = "create", !.pc = "creator", !.who = a])
    /\ UNCHANGED groupVars

CreateCreator(s) == \E d \in ReadOutcome :
    /\ At(s, "create", "creator")
    /\ Db(d)
    /\ IF d = "ok" /\ find_by_account(req[s].who) # {}
         THEN Goto(s, "persist")
         ELSE Reply(s, CreateStatus("CREATOR_NOT_FOUND"))
    /\ UNCHANGED groupVars

(* Answers the request in slot s, which put its user into group g if       *)
(* "stored": the flag of a send in hand notes that its sender is a member  *)
(* at some time of the request.                                            *)
ReplyMember(s, g, stored, status) ==
    /\ req' = [t \in Slot |->
                 IF t = s THEN NoReq
                 ELSE IF stored /\ req[t].op = "send" /\ req[t].id = g
                              /\ req[t].who = req[s].who
                 THEN [req[t] EXCEPT !.flag = TRUE] ELSE req[t]]
    /\ answers' = IF req[s].open THEN answers \cup {AnswerOf(req[s], status)} ELSE answers
    /\ UNCHANGED <<remote, mix, started, timeouts>>

(* create_group_with_owner: the group and its owner in one transaction.    *)
CreatePersist(s) == \E d \in WriteOutcome :
    LET g == Cardinality(groups) + 1
        stored == d # "fail"
    IN  /\ At(s, "create", "persist")
        /\ Db(d)
        /\ groups' = IF stored THEN groups \cup {GroupRow(g, req[s].who)} ELSE groups
        /\ members' = IF stored THEN members \cup {MemberRow(g, req[s].who, "OWNER")}
                                ELSE members
        /\ ReplyMember(s, g, stored, CreateStatus(IF d = "ok" THEN "ok" ELSE "PERSIST_FAILED"))
        /\ UNCHANGED <<messages, told>>

-----------------------------------------------------------------------------
(* join_group.                                                             *)
JoinGroup(s) == \E a \in Registered, g \in GroupIds :
    /\ Begin(s, [NoReq EXCEPT !.op = "join", !.pc = "group", !.who = a, !.id = g])
    /\ UNCHANGED groupVars

JoinGroupFind(s) == \E d \in ReadOutcome :
    /\ At(s, "join", "group")
    /\ Db(d)
    /\ IF d = "ok" /\ find_group_by_id(req[s].id) # {}
         THEN Goto(s, "user")
         ELSE Reply(s, JoinStatus("GROUP_NOT_FOUND"))
    /\ UNCHANGED groupVars

JoinUser(s) == \E d \in ReadOutcome :
    /\ At(s, "join", "user")
    /\ Db(d)
    /\ IF d = "ok" /\ find_by_account(req[s].who) # {}
         THEN Goto(s, "member")
         ELSE Reply(s, JoinStatus("USER_NOT_FOUND"))
    /\ UNCHANGED groupVars

JoinMember(s) == \E d \in ReadOutcome :
    /\ At(s, "join", "member")
    /\ Db(d)
    /\ IF d = "ok" /\ IsMember(req[s].id, req[s].who)
         THEN Reply(s, JoinStatus("ALREADY_MEMBER"))
         ELSE Goto(s, "add")
    /\ UNCHANGED groupVars

(* The index on group and user refuses a second row.                       *)
JoinAdd(s) == \E d \in WriteOutcome :
    LET stored == d # "fail" /\ ~IsMember(req[s].id, req[s].who)
    IN  /\ At(s, "join", "add")
        /\ Db(d)
        /\ members' = IF stored THEN members \cup {MemberRow(req[s].id, req[s].who, "MEMBER")}
                                ELSE members
        /\ ReplyMember(s, req[s].id, stored,
                       JoinStatus(IF stored /\ d = "ok" THEN "ok" ELSE "PERSIST_FAILED"))
        /\ UNCHANGED <<groups, messages, told>>

-----------------------------------------------------------------------------
(* leave_group.                                                            *)
LeaveGroup(s) == \E a \in Registered, g \in GroupIds :
    /\ Begin(s, [NoReq EXCEPT !.op = "leave", !.pc = "member", !.who = a, !.id = g])
    /\ UNCHANGED groupVars

\* Mutant of LeaveMember: the owner may leave.
LeaveMemberAny(s) == \E d \in ReadOutcome :
    /\ At(s, "leave", "member")
    /\ Db(d)
    /\ IF d = "fail" \/ find_group_by_id(req[s].id) = {}
         THEN Reply(s, LeaveStatus("GROUP_NOT_FOUND"))
         ELSE IF IsMember(req[s].id, req[s].who)
         THEN Goto(s, "remove") ELSE Reply(s, LeaveStatus("NOT_MEMBER"))
    /\ UNCHANGED groupVars

(* A failed lookup is that of the group or that of the member.             *)
LeaveMember(s) == \E d \in ReadOutcome :
    /\ At(s, "leave", "member")
    /\ Db(d)
    /\ LET m == IF d = "ok" THEN find_member(req[s].id, req[s].who) ELSE {}
       IN  \/ /\ d = "fail" \/ find_group_by_id(req[s].id) = {}
              /\ Reply(s, LeaveStatus("GROUP_NOT_FOUND"))
           \/ /\ find_group_by_id(req[s].id) # {} /\ m = {}
              /\ Reply(s, LeaveStatus("NOT_MEMBER"))
           \/ \E r \in m : IF r.role = "OWNER" THEN Reply(s, LeaveStatus("OWNER_CANNOT_LEAVE"))
                                               ELSE Goto(s, "remove")
    /\ UNCHANGED groupVars

(* remove_member deletes what there is; that there was nothing is no       *)
(* error.                                                                  *)
LeaveRemove(s) == \E d \in WriteOutcome :
    /\ At(s, "leave", "remove")
    /\ Db(d)
    /\ members' = IF d = "fail" THEN members ELSE members \ find_member(req[s].id, req[s].who)
    /\ Reply(s, LeaveStatus(IF d = "ok" THEN "ok" ELSE "REMOVE_FAILED"))
    /\ UNCHANGED <<groups, messages, told>>

-----------------------------------------------------------------------------
(* handle_send_message asks for the members, send_message of the service   *)
(* asks again, stores the message with the timestamp of the handler, and   *)
(* the remote service reads back the newest message up to it.              *)
SendGroupMessage(s) == \E a \in Registered, g \in GroupIds, at \in 1..MaxStamp :
    /\ Begin(s, [NoReq EXCEPT !.op = "send", !.pc = "check", !.who = a, !.id = g, !.at = at,
                              !.flag = IsMember(g, a)])
    /\ UNCHANGED groupVars

SendCheck(s) == \E d \in ReadOutcome :
    /\ At(s, "send", "check")
    /\ Db(d)
    /\ \/ find_group_by_id(req[s].id) = {} /\ Reply(s, 404)
       \/ d = "fail" /\ find_group_by_id(req[s].id) # {} /\ \E x \in {403, 404} : Reply(s, x)
       \/ /\ d = "ok" /\ find_group_by_id(req[s].id) # {}
          /\ IF IsMember(req[s].id, req[s].who) THEN Goto(s, "recheck") ELSE Reply(s, 403)
    /\ UNCHANGED groupVars

SendRecheck(s) == \E d \in ReadOutcome :
    /\ At(s, "send", "recheck")
    /\ Db(d)
    /\ IF d = "ok" /\ IsMember(req[s].id, req[s].who) THEN Goto(s, "store") ELSE Reply(s, 500)
    /\ UNCHANGED groupVars

SendStore(s) == \E d \in WriteOutcome :
    LET m == [id |-> Cardinality(messages) + 1, group |-> req[s].id, user |-> req[s].who,
              at |-> req[s].at, member |-> req[s].flag]
    IN  /\ At(s, "send", "store")
        /\ Db(d)
        /\ messages' = IF d = "fail" THEN messages ELSE messages \cup {m}
        /\ \/ d # "ok" /\ Reply(s, 500) /\ UNCHANGED told
           \/ /\ d = "ok" /\ remote
              /\ req' = [req EXCEPT ![s].pc = "readback", ![s].msg = m.id]
              /\ UNCHANGED <<remote, mix, started, timeouts, answers, told>>
           \/ /\ d = "ok" /\ ~remote
              /\ Reply(s, 201)
              /\ told' = told \cup {[group |-> m.group, at |-> m.at, id |-> m.id]}
        /\ UNCHANGED <<groups, members>>

\* Mutant of ReadBack: the newest message of the group.
ReadBackNewest(s) ==
    /\ At(s, "send", "readback")
    /\ \E m \in {x \in messages : x.group = req[s].id} :
         /\ \A x \in messages : x.group = m.group => x.at <= m.at
         /\ told' = IF req[s].open THEN told \cup {[group |-> m.group, at |-> req[s].at, id |-> m.id]}
                                   ELSE told
    /\ Reply(s, 201)
    /\ UNCHANGED <<faults, groups, members, messages>>

(* get_history(group, sent_at + 1, 1): of messages with one timestamp any  *)
(* may come first.  If the query fails the id of persist is used.          *)
ReadBack(s) == \E d \in ReadOutcome :
    LET upTo == {x \in messages : x.group = req[s].id /\ x.at <= req[s].at}
        found == IF d = "ok" THEN {x.id : x \in {y \in upTo : \A z \in upTo : z.at <= y.at}}
                             ELSE {req[s].msg}
    IN  /\ At(s, "send", "readback")
        /\ Db(d)
        /\ \E i \in found :
             told' = IF req[s].open THEN told \cup {[group |-> req[s].id, at |-> req[s].at, id |-> i]}
                                    ELSE told
        /\ Reply(s, 201)
        /\ UNCHANGED <<groups, members, messages>>

GroupDeadline(s) ==
    /\ \/ req[s].op \in {"create", "join", "leave"} /\ Deadline(s, 400)
       \/ req[s].op = "send" /\ req[s].pc # "check" /\ Deadline(s, 500)
    /\ UNCHANGED groupVars

GroupNext(s) ==
    \/ CreateGroup(s) \/ CreateCreator(s) \/ CreatePersist(s)
    \/ JoinGroup(s) \/ JoinGroupFind(s) \/ JoinUser(s) \/ JoinMember(s) \/ JoinAdd(s)
    \/ LeaveGroup(s) \/ LeaveMember(s) \/ LeaveRemove(s)
    \/ SendGroupMessage(s) \/ SendCheck(s) \/ SendRecheck(s) \/ SendStore(s) \/ ReadBack(s)
    \/ GroupDeadline(s)

-----------------------------------------------------------------------------
(* Every group has exactly one owner among its members, its creator, who   *)
(* is there from the transaction that creates it on, and a user is in a    *)
(* group once, however joins and leaves race.                              *)
OwnerStays ==
    /\ \A g \in groups : {r \in members : r.group = g.id /\ r.role = "OWNER"}
                           = {MemberRow(g.id, g.creator, "OWNER")}
    /\ \A r \in members : Cardinality(find_member(r.group, r.user)) = 1

(* A message is stored only for a user who was a member of the group at    *)
(* some moment of the request: the checks come before the insert, so the   *)
(* sender may have left by then, but one who had left before it asked has  *)
(* no message stored.                                                      *)
SpeakersAreMembers == \A m \in messages : m.member

(* The id a sender is told, and under which the message is pushed, is that *)
(* of a message of its group with its own timestamp: its own, if no other  *)
(* message of the group has that timestamp.                                *)
ToldOwnTimestamp == \A x \in told : \E m \in messages :
    m.id = x.id /\ m.group = x.group /\ m.at = x.at

(* A message of a group is a member's, and its sender is told of it.       *)
MessagesTrue == SpeakersAreMembers /\ ToldOwnTimestamp
=============================================================================
