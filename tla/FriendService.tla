---------------------------- MODULE FriendService ----------------------------
(***************************************************************************)
(* FriendService and FriendRepository with the endpoints of                *)
(* FriendHttpController that change the table im_friends: sending a        *)
(* request and responding to one.  A row is looked for in both directions, *)
(* but the unique index of the table is on the ordered pair.               *)
(***************************************************************************)
EXTENDS UserService

CONSTANT InitFriends   \* rows the table may hold at the start

\* The rows are numbered, and none is accepted: the history of acceptances begins empty.
ASSUME FriendsAssumption ==
    /\ IsFiniteSet(InitFriends)
    /\ InitFriends \subseteq [id : 1..Cardinality(InitFriends), requester : Account,
                              target : Account, status : {"PENDING", "REJECTED"}]
    /\ \A r, q \in InitFriends : r.id = q.id => r = q

VARIABLES friends,     \* im_friends
          accepts,     \* history: <<user, id>> of the requests to accept
          decisions,   \* history: the decisions that were stored
          settled      \* history: those stored while no other response to the row
                       \* was between its lookup and its update

friendVars == <<friends, accepts, decisions, settled>>

FriendRow(id, from, to, status) ==
    [id |-> id, requester |-> from, target |-> to, status |-> status]

FriendInit ==
    /\ friends \in {{}, InitFriends}
    /\ accepts = {} /\ decisions = {} /\ settled = {}

find_relationship(a, b) == {r \in friends : {r.requester, r.target} = {a, b}}
find_pair(a, b) == {r \in friends : r.requester = a /\ r.target = b}
get_friends(u) == {v \in Account :
    \E r \in friends : r.status = "ACCEPTED" /\ {r.requester, r.target} = {u, v}}

-----------------------------------------------------------------------------
(* The remote client knows one code for what was not found, and the        *)
(* handler of a sent request does not ask for it.                          *)
SendStatus(code) ==
    CASE code = "ok" -> 201
      [] code = "ALREADY_EXISTS" -> 409
      [] code = "TARGET_NOT_FOUND" /\ ~remote -> 404
      [] OTHER -> 400
RespondStatus(code) ==
    CASE code = "ok" -> 200
      [] code = "NOT_FOUND" -> 404
      [] code = "FORBIDDEN" -> 403
      [] OTHER -> 400

-----------------------------------------------------------------------------
(* send_request; at: history, 1 if the users had a row when it came.       *)
SendRequest(s) == \E a \in Registered, b \in Account :
    /\ Begin(s, [NoReq EXCEPT !.op = "befriend", !.pc = "target", !.who = a, !.to = b,
                              !.at = IF find_relationship(a, b) = {} THEN 0 ELSE 1])
    /\ UNCHANGED friendVars

SendTarget(s) == \E d \in ReadOutcome :
    /\ At(s, "befriend", "target")
    /\ IF req[s].who = req[s].to
         THEN d = "ok" /\ UNCHANGED faults /\ Reply(s, SendStatus("SELF_REQUEST"))
         ELSE /\ Db(d)
              /\ IF d = "ok" /\ find_by_account(req[s].to) # {}
                   THEN Goto(s, "relation")
                   ELSE Reply(s, SendStatus("TARGET_NOT_FOUND"))
    /\ UNCHANGED friendVars

\* Mutant of SendRelation: only the direction of the request is looked at.
SendRelationOneWay(s) == \E d \in ReadOutcome :
    /\ At(s, "befriend", "relation")
    /\ Db(d)
    /\ IF d = "ok" /\ find_pair(req[s].who, req[s].to) # {}
         THEN Reply(s, SendStatus("ALREADY_EXISTS"))
         ELSE Goto(s, "create")
    /\ UNCHANGED friendVars

SendRelation(s) == \E d \in ReadOutcome :
    /\ At(s, "befriend", "relation")
    /\ Db(d)
    /\ IF d = "ok" /\ find_relationship(req[s].who, req[s].to) # {}
         THEN Reply(s, SendStatus("ALREADY_EXISTS"))
         ELSE Goto(s, "create")
    /\ UNCHANGED friendVars

(* The index on the ordered pair refuses a second row in one direction.    *)
SendCreate(s) == \E d \in WriteOutcome :
    LET stored == d # "fail" /\ find_pair(req[s].who, req[s].to) = {}
    IN  /\ At(s, "befriend", "create")
        /\ Db(d)
        /\ friends' = IF stored
                        THEN friends \cup {FriendRow(Cardinality(friends) + 1, req[s].who,
                                                     req[s].to, "PENDING")}
                        ELSE friends
        /\ Reply(s, SendStatus(IF stored /\ d = "ok" THEN "ok" ELSE "PERSIST_FAILED"))
        /\ UNCHANGED <<accepts, decisions, settled>>

-----------------------------------------------------------------------------
(* respond_to_request; flag: accept.                                       *)
Respond(s) == \E a \in Registered, id \in 1..(Cardinality(friends) + 1), accept \in BOOLEAN :
    /\ Begin(s, [NoReq EXCEPT !.op = "respond", !.pc = "find", !.who = a, !.id = id,
                              !.flag = accept])
    /\ accepts' = IF accept THEN accepts \cup {<<a, id>>} ELSE accepts
    /\ UNCHANGED <<friends, decisions, settled>>

\* Mutant of RespondFind: either user of the row may respond.
RespondFindEither(s) == \E d \in ReadOutcome :
    /\ At(s, "respond", "find")
    /\ Db(d)
    /\ LET found == IF d = "ok" THEN {r \in friends : r.id = req[s].id} ELSE {}
       IN  \/ found = {} /\ Reply(s, RespondStatus("NOT_FOUND"))
           \/ \E r \in found :
                IF req[s].who \notin {r.target, r.requester} THEN Reply(s, RespondStatus("FORBIDDEN"))
                ELSE IF r.status # "PENDING" THEN Reply(s, RespondStatus("NOT_PENDING"))
                ELSE Goto(s, "update")
    /\ UNCHANGED friendVars

\* Mutant of RespondFind: a decided request may be decided again.
RespondFindAny(s) == \E d \in ReadOutcome :
    /\ At(s, "respond", "find")
    /\ Db(d)
    /\ LET found == IF d = "ok" THEN {r \in friends : r.id = req[s].id} ELSE {}
       IN  \/ found = {} /\ Reply(s, RespondStatus("NOT_FOUND"))
           \/ \E r \in found :
                IF r.target # req[s].who THEN Reply(s, RespondStatus("FORBIDDEN"))
                ELSE IF r.status = "REJECTED" THEN Reply(s, RespondStatus("NOT_PENDING"))
                ELSE Goto(s, "update")
    /\ UNCHANGED friendVars

RespondFind(s) == \E d \in ReadOutcome :
    /\ At(s, "respond", "find")
    /\ Db(d)
    /\ LET found == IF d = "ok" THEN {r \in friends : r.id = req[s].id} ELSE {}
       IN  \/ found = {} /\ Reply(s, RespondStatus("NOT_FOUND"))
           \/ \E r \in found :
                IF r.target # req[s].who THEN Reply(s, RespondStatus("FORBIDDEN"))
                ELSE IF r.status # "PENDING" THEN Reply(s, RespondStatus("NOT_PENDING"))
                ELSE Goto(s, "update")
    /\ UNCHANGED friendVars

Decision(s) == [id |-> req[s].id, status |-> IF req[s].flag THEN "ACCEPTED" ELSE "REJECTED"]

(* Is another response to the row between its lookup and its update?       *)
OtherResponse(s) == \E t \in Slot \ {s} :
    At(t, "respond", "update") /\ req[t].id = req[s].id

(* update_status loads the row again and writes the status, whatever it is *)
(* by now.                                                                 *)
RespondUpdate(s) == \E d \in WriteOutcome :
    /\ At(s, "respond", "update")
    /\ Db(d)
    /\ \/ d = "fail" /\ UNCHANGED <<friends, decisions, settled>>
       \/ /\ d # "fail"
          /\ friends' = {IF r.id = req[s].id THEN [r EXCEPT !.status = Decision(s).status] ELSE r :
                           r \in friends}
          /\ decisions' = decisions \cup {Decision(s)}
          /\ settled' = IF OtherResponse(s) THEN settled ELSE settled \cup {Decision(s)}
    /\ Reply(s, RespondStatus(IF d = "ok" THEN "ok" ELSE "UPDATE_FAILED"))
    /\ UNCHANGED accepts

FriendDeadline(s) ==
    /\ req[s].op \in {"befriend", "respond"}
    /\ Deadline(s, 400)
    /\ UNCHANGED friendVars

FriendNext(s) ==
    \/ SendRequest(s) \/ SendTarget(s) \/ SendRelation(s) \/ SendCreate(s)
    \/ Respond(s) \/ RespondFind(s) \/ RespondUpdate(s)
    \/ FriendDeadline(s)

-----------------------------------------------------------------------------
(* What the answers to a sent request say is so: 201 means that the        *)
(* request of this user to that user is stored (even when both sent one,   *)
(* or one was sent twice at once), 409 that the two users have a row, 200  *)
(* to a response that the row is the user's and decided, and 403 that it   *)
(* is another's.                                                           *)
FriendAnswersTrue == \A x \in answers :
    /\ x.op = "befriend" /\ x.status = 201 => find_pair(x.who, x.to) # {}
    /\ x.op = "befriend" /\ x.status = 409 => find_relationship(x.who, x.to) # {}
    /\ x.op = "respond" /\ x.status = 200 =>
         \E r \in friends : r.id = x.id /\ r.target = x.who /\ r.status # "PENDING"
    /\ x.op = "respond" /\ x.status = 403 =>
         \E r \in friends : r.id = x.id /\ r.target # x.who

(* Nobody has a friend who did not agree: of two users whom get_friends    *)
(* gives to each other, one asked and the other, the target of a request   *)
(* between them, called to accept it, whichever requests raced.            *)
FriendsByConsent == \A u \in Account : \A v \in get_friends(u) :
    \E r \in find_relationship(u, v) : <<r.target, r.id>> \in accepts

(* A decision stored while no other response to the request was between    *)
(* its lookup and its update is final: no response that comes later, or    *)
(* comes again after a lost confirmation or a passed deadline, turns a     *)
(* friend into a refusal or back.  Of responses that overlap all may be    *)
(* stored, and the last one stays.                                         *)
DecisionsHold == \A x \in settled : \E r \in friends : r.id = x.id /\ r.status = x.status

(* A request between two users who have a row, in either direction, is     *)
(* stored only if it came before that row was, or if a lookup failed: of   *)
(* two requests in turn the second is refused, of two that cross both may  *)
(* be stored, since the index is on the ordered pair.                      *)
ReverseRefused == [][\A r \in friends' :
    (\E q \in find_relationship(r.requester, r.target) : q.id # r.id)
      /\ ~(\E q \in friends : q.id = r.id)
      => faults > 0 \/ \E s \in Slot :
            /\ At(s, "befriend", "create") /\ req[s].at = 0
            /\ req[s].who = r.requester /\ req[s].to = r.target]_friends

-----------------------------------------------------------------------------
(* A statement of the documents that the code does not meet.               *)

(* "what is not pending cannot be processed again": no request is both     *)
(* accepted and rejected.                                                  *)
DecidedOnce == \A x, y \in decisions : x.id = y.id => x = y
=============================================================================
