--------------------------- MODULE ServicesProofs ---------------------------
(***************************************************************************)
(* Proofs about Services, for any slots, accounts and stamps, any number   *)
(* of requests, database errors and passed deadlines, and any well-formed  *)
(* tables at the start:                                                    *)
(*   - TablesConsistent: rows refer to rows that exist, and a group has    *)
(*     its one owner;                                                      *)
(*   - AnswersTrue: no answer claims what the tables do not bear out;      *)
(*   - LostOnlyByOverlap: a lost update had another writer beside it;      *)
(*   - FriendsByConsent, DecisionsHold, ReverseRefused: friendship;        *)
(*   - MessagesTrue: who speaks in a group is a member.                    *)
(* A request works on what it read in earlier transactions.  The inductive *)
(* invariant says what it may still rely on, per service: UserReq,         *)
(* FriendReq and GroupReq of every request in hand.                        *)
(***************************************************************************)
EXTENDS Services, FiniteSetTheorems, TLAPS

UserOp == {"register", "login", "update"}
FriendOp == {"befriend", "respond"}
GroupOp == {"create", "join", "leave", "send"}

Pc == {"none", "exists", "create", "find", "load", "write", "current", "target", "relation",
       "update", "creator", "persist", "group", "user", "member", "add", "remove", "check",
       "recheck", "store", "readback"}

AnyReq == [op : {"idle"} \cup UserOp \cup FriendOp \cup GroupOp, pc : Pc,
           who : Account \cup {Nobody}, to : Account \cup {Nobody}, id : Nat, flag : BOOLEAN,
           prof : Profile, at : Nat, msg : Nat, open : BOOLEAN]

Code == {200, 201, 400, 401, 403, 404, 409, 500}

\* A request in hand has a user, which is registered unless it is about to be.
Busy(r) ==
    /\ r.op # "idle" /\ r.pc # "none" /\ r.who \in Account
    /\ r.op \notin {"register", "login"} => r.who \in Registered

Calls ==
    /\ remote \in BOOLEAN
    /\ started \in 0..MaxRequests /\ faults \in 0..MaxFaults /\ timeouts \in 0..MaxTimeouts
    /\ req \in [Slot -> AnyReq]
    /\ \A s \in Slot : req[s] = NoReq \/ Busy(req[s])
    /\ answers \subseteq [op : UserOp \cup FriendOp \cup GroupOp, who : Account,
                          to : Account \cup {Nobody}, id : Nat, status : Code]

\* What a step of a service with these operations leaves to the others: it begins,
\* moves and answers requests of its own only.
Within(ops) ==
    /\ \A t \in Slot : req'[t] = req[t] \/ req'[t].op \in ops \cup {"idle"}
    /\ \A x \in answers' : x \in answers \/ x.op \in ops

-----------------------------------------------------------------------------
(* What a request to UserService relies on.  A login at its write has read *)
(* the row, an update from its load on all fields but its own: what it     *)
(* will write back is what the last clean update of the field wrote.       *)
Writing(r, f) ==
    \/ r.op = "login" /\ r.pc = "write"
    \/ r.op = "update" /\ r.pc \in {"load", "write"} /\ f # (IF r.flag THEN "nick" ELSE "sign")

UserReq(r) ==
    /\ r.op = "register" => r.to = Nobody /\ r.id \in 1..MaxRequests
    /\ r.op = "login" /\ r.pc \in {"load", "write"} => r.who \in Registered
    /\ \A f \in Field : Writing(r, f) =>
          (upd[r.who][f].clean => r.prof[f] = upd[r.who][f].val)

UserAnswer(x) == x.op = "register" =>
    /\ x.to = Nobody
    /\ x.status = 201 => \E r \in users : r.account = x.who /\ r.uid = x.id
    /\ x.status = 409 => x.who \in Registered

Users ==
    /\ users \subseteq [account : Account, uid : 0..MaxRequests, prof : Profile]
    /\ \A r, q \in users : r.account = q.account => r = q
    /\ upd \in [Account -> [Field -> [val : 0..1, clean : BOOLEAN]]]
    /\ \A a \in Account \ Registered, f \in Field : upd[a][f].val = 0
    /\ LostOnlyByOverlap
    /\ \A s \in Slot : UserReq(req[s])
    /\ \A x \in answers : UserAnswer(x)

-----------------------------------------------------------------------------
(* What a request to FriendService relies on: rows stay, a failed lookup   *)
(* is counted, and no response is about to overrule a settled decision.    *)
Unsettled(r) == r.op = "respond" /\ r.pc = "update" => \A x \in settled : x.id # r.id

FriendReq(r) ==
    /\ r.op = "befriend" =>
         /\ r.to \in Account /\ r.at \in {0, 1}
         /\ r.at = 1 => find_relationship(r.who, r.to) # {}
         /\ r.pc = "create" /\ r.at = 1 => faults > 0
    /\ r.op = "respond" =>
         /\ r.flag => <<r.who, r.id>> \in accepts
         /\ r.pc = "update" => \E q \in friends : q.id = r.id /\ q.target = r.who
    /\ Unsettled(r)

FriendAnswer(x) ==
    /\ x.op = "befriend" /\ x.status = 201 => find_pair(x.who, x.to) # {}
    /\ x.op = "befriend" /\ x.status = 409 => find_relationship(x.who, x.to) # {}
    /\ x.op = "respond" /\ x.status = 200 =>
         \E r \in friends : r.id = x.id /\ r.target = x.who /\ r.status # "PENDING"
    /\ x.op = "respond" /\ x.status = 403 =>
         \E r \in friends : r.id = x.id /\ r.target # x.who

Friends ==
    /\ IsFiniteSet(friends)
    /\ friends \subseteq [id : Nat \ {0}, requester : Account, target : Account, status : Status]
    /\ \A r \in friends : r.id <= Cardinality(friends)
    /\ \A r, q \in friends : r.id = q.id => r = q
    /\ \A r \in friends : r.status = "ACCEPTED" => <<r.target, r.id>> \in accepts
    /\ \A x \in settled : x.status # "PENDING"
    /\ DecisionsHold
    /\ \A s \in Slot : FriendReq(req[s])
    /\ \A x \in answers : FriendAnswer(x)

-----------------------------------------------------------------------------
(* What a request to GroupService relies on: groups stay; a leave that has *)
(* passed its check is no owner's; a send has noted whether its user was a *)
(* member at any time since it came.                                       *)
Ids == {g.id : g \in groups}

GroupReq(r) ==
    /\ r.op = "join" /\ r.pc \in {"user", "member", "add"} => r.id \in Ids
    /\ r.op = "leave" /\ r.pc = "remove" =>
         r.id \in Ids /\ \A m \in find_member(r.id, r.who) : m.role # "OWNER"
    /\ r.op = "send" => r.at \in 1..MaxStamp /\ (IsMember(r.id, r.who) => r.flag)
    /\ r.op = "send" /\ r.pc \in {"recheck", "store", "readback"} => r.id \in Ids /\ r.flag
    /\ r.op = "send" /\ r.pc = "readback" =>
         \E m \in messages : m.id = r.msg /\ m.group = r.id /\ m.at = r.at

Groups ==
    /\ IsFiniteSet(groups)
    /\ groups \subseteq [id : Nat \ {0}, creator : Registered]
    /\ \A g \in groups : g.id <= Cardinality(groups)
    /\ \A g, h \in groups : g.id = h.id => g = h
    /\ members \subseteq [group : Ids, user : Registered, role : {"OWNER", "MEMBER"}]
    /\ \A r, q \in members : r.group = q.group /\ r.user = q.user => r = q
    /\ \A g \in groups : \E r \in find_member(g.id, g.creator) : r.role = "OWNER"
    /\ \A r \in members : r.role = "OWNER" =>
          \E g \in groups : g.id = r.group /\ g.creator = r.user
    /\ IsFiniteSet(messages)
    /\ messages \subseteq [id : Nat \ {0}, group : Ids, user : Registered, at : 1..MaxStamp,
                           member : BOOLEAN]
    /\ MessagesTrue
    /\ \A s \in Slot : GroupReq(req[s])

Inv == Calls /\ Users /\ Friends /\ Groups

-----------------------------------------------------------------------------
(* The pieces that every operation is made of.                             *)
-----------------------------------------------------------------------------
\* NoReq is a request, and no request in hand.
LEMMA NoReqType == NoReq \in AnyReq /\ NoReq.op = "idle"
  BY CallAssumption DEF NoReq, NoProfile, AnyReq, Pc, Profile

\* A request has a user, unless the slot is free.
LEMMA InHand ==
    ASSUME Calls, NEW s \in Slot, req[s].op # "idle"
    PROVE  req[s] \in AnyReq /\ Busy(req[s])
  BY NoReqType DEF Calls

\* A transaction counts its failure.
LEMMA DbCounts ==
    ASSUME Calls, NEW d, Db(d)
    PROVE  faults' \in 0..MaxFaults /\ faults <= faults' /\ (d # "ok" => faults' > 0)
  BY CallAssumption DEF Db, Calls

\* Begin starts one request.
LEMMA BeginCalls ==
    ASSUME Calls, NEW s \in Slot, NEW r \in AnyReq, NEW ops, r.op \in ops, Busy(r),
           users' = users, Begin(s, r)
    PROVE  /\ Calls' /\ Within(ops) /\ faults' = faults /\ answers' = answers
           /\ req' = [req EXCEPT ![s] = [r EXCEPT !.open = TRUE]]
           /\ req'[s] = [r EXCEPT !.open = TRUE] /\ req'[s].op = r.op
           /\ \A t \in Slot : t # s => req'[t] = req[t]
<1>1. req \in [Slot -> AnyReq]
  BY DEF Calls
<1>2. req' = [req EXCEPT ![s] = [r EXCEPT !.open = TRUE]] /\ started' = started + 1
      /\ started < MaxRequests /\ UNCHANGED <<remote, mix, faults, timeouts, answers>>
  BY DEF Begin
<1>3. [r EXCEPT !.open = TRUE] \in AnyReq
  BY DEF AnyReq
<1>4. req' \in [Slot -> AnyReq] /\ req'[s] = [r EXCEPT !.open = TRUE] /\ req'[s].op = r.op
      /\ req'[s].pc = r.pc /\ req'[s].who = r.who /\ \A t \in Slot : t # s => req'[t] = req[t]
  BY <1>1, <1>2, <1>3 DEF AnyReq
<1>5. Registered' = Registered
  BY DEF Registered
<1>6. \A t \in Slot : req'[t] = NoReq \/ Busy(req[t])'
  BY <1>4, <1>5 DEF Calls, Busy
<1>7. started' \in 0..MaxRequests
  BY <1>2, CallAssumption DEF Calls
<1> QED
  BY <1>2, <1>4, <1>6, <1>7 DEF Calls, Within

\* Goto moves a request on.
LEMMA GotoCalls ==
    ASSUME Calls, NEW s \in Slot, NEW pc \in Pc \ {"none"}, NEW ops, req[s].op \in ops,
           req[s].op # "idle", Registered \subseteq Registered', faults' \in 0..MaxFaults,
           Goto(s, pc)
    PROVE  /\ Calls' /\ Within(ops) /\ answers' = answers
           /\ req'[s] = [req[s] EXCEPT !.pc = pc]
           /\ \A t \in Slot : t # s => req'[t] = req[t]
<1>1. req \in [Slot -> AnyReq] /\ Busy(req[s])
  BY InHand DEF Calls
<1>2. req' = [req EXCEPT ![s] = [req[s] EXCEPT !.pc = pc]]
      /\ UNCHANGED <<remote, mix, started, timeouts, answers>>
  BY DEF Goto
<1>3. [req[s] EXCEPT !.pc = pc] \in AnyReq
  BY <1>1 DEF AnyReq
<1>4. req' \in [Slot -> AnyReq] /\ req'[s] = [req[s] EXCEPT !.pc = pc] /\ req'[s].op = req[s].op
      /\ req'[s].pc = pc /\ req'[s].who = req[s].who /\ \A t \in Slot : t # s => req'[t] = req[t]
  BY <1>1, <1>2, <1>3 DEF AnyReq
<1>6. \A t \in Slot : req'[t] = NoReq \/ Busy(req[t])'
  BY <1>1, <1>4 DEF Calls, Busy
<1> QED
  BY <1>2, <1>4, <1>6 DEF Calls, Within

\* Reply frees the slot and tells the client, who may not listen any more.
LEMMA ReplyCalls ==
    ASSUME Calls, NEW s \in Slot, NEW status \in Code, NEW ops, req[s].op \in ops,
           req[s].op # "idle", Registered \subseteq Registered', faults' \in 0..MaxFaults,
           Reply(s, status)
    PROVE  /\ Calls' /\ Within(ops) /\ req'[s] = NoReq
           /\ \A t \in Slot : t # s => req'[t] = req[t]
           /\ \A x \in answers' : x \in answers \/ x = AnswerOf(req[s], status)
<1>1. req \in [Slot -> AnyReq] /\ Busy(req[s])
  BY InHand DEF Calls
<1>2. req' = [req EXCEPT ![s] = NoReq] /\ UNCHANGED <<remote, mix, started, timeouts>>
      /\ answers' \subseteq answers \cup {AnswerOf(req[s], status)}
  BY DEF Reply
<1>3. req' \in [Slot -> AnyReq] /\ req'[s] = NoReq /\ \A t \in Slot : t # s => req'[t] = req[t]
  BY <1>1, <1>2, NoReqType
<1>4. \A t \in Slot : req'[t] = NoReq \/ Busy(req[t])'
  BY <1>3 DEF Calls, Busy
<1>5. AnswerOf(req[s], status) \in [op : UserOp \cup FriendOp \cup GroupOp, who : Account,
                          to : Account \cup {Nobody}, id : Nat, status : Code]
      /\ AnswerOf(req[s], status).op = req[s].op
  BY <1>1 DEF AnswerOf, AnyReq, Busy
<1> QED
  BY <1>2, <1>3, <1>4, <1>5, NoReqType DEF Calls, Within

\* A deadline tells the client and leaves the request to itself.
LEMMA DeadlineCalls ==
    ASSUME Calls, NEW s \in Slot, NEW status \in Code, NEW ops, req[s].op \in ops,
           req[s].op # "idle", users' = users, Deadline(s, status)
    PROVE  /\ Calls' /\ Within(ops) /\ faults' = faults
           /\ req'[s] = [req[s] EXCEPT !.open = FALSE]
           /\ \A t \in Slot : t # s => req'[t] = req[t]
           /\ \A x \in answers' : x \in answers \/ x = AnswerOf(req[s], status)
<1>1. req \in [Slot -> AnyReq] /\ Busy(req[s])
  BY InHand DEF Calls
<1>2. req' = [req EXCEPT ![s] = [req[s] EXCEPT !.open = FALSE]]
      /\ UNCHANGED <<remote, mix, started, faults>>
      /\ answers' \subseteq answers \cup {AnswerOf(req[s], status)}
  BY DEF Deadline
<1>3. [req[s] EXCEPT !.open = FALSE] \in AnyReq
  BY <1>1 DEF AnyReq
<1>4. req' \in [Slot -> AnyReq] /\ req'[s] = [req[s] EXCEPT !.open = FALSE]
      /\ req'[s].op = req[s].op
      /\ req'[s].pc = req[s].pc /\ req'[s].who = req[s].who
      /\ \A t \in Slot : t # s => req'[t] = req[t]
  BY <1>1, <1>2, <1>3 DEF AnyReq
<1>5. Registered' = Registered
  BY DEF Registered
<1>6. \A t \in Slot : req'[t] = NoReq \/ Busy(req[t])'
  BY <1>1, <1>4, <1>5 DEF Calls, Busy
<1>7. AnswerOf(req[s], status) \in [op : UserOp \cup FriendOp \cup GroupOp, who : Account,
                          to : Account \cup {Nobody}, id : Nat, status : Code]
      /\ AnswerOf(req[s], status).op = req[s].op
  BY <1>1 DEF AnswerOf, AnyReq, Busy
<1>8. timeouts' \in 0..MaxTimeouts
  BY CallAssumption DEF Calls, Deadline
<1> QED
  BY <1>2, <1>4, <1>6, <1>7, <1>8 DEF Calls, Within

-----------------------------------------------------------------------------
(* UserService.                                                            *)
-----------------------------------------------------------------------------
\* What UserReq and UserAnswer say is about requests to UserService only.
LEMMA UserReqOwn ==
    ASSUME NEW r, r.op \notin UserOp
    PROVE  UserReq(r) /\ UserReq(r)'
  BY DEF UserReq, Writing, UserOp

\* A step that leaves im_users alone disturbs the requests it moves only.
LEMMA UserKept ==
    ASSUME Users, UNCHANGED userVars,
           \A t \in Slot : req'[t] = req[t] \/ UserReq(req[t])',
           \A x \in answers' : x \in answers \/ UserAnswer(x)'
    PROVE  Users'
<1>1. users' = users /\ upd' = upd /\ Registered' = Registered
  BY DEF userVars, Registered
<1>2. LostOnlyByOverlap'
  BY <1>1 DEF Users, LostOnlyByOverlap
<1>3. \A t \in Slot : UserReq(req[t])'
  BY <1>1 DEF Users, UserReq
<1>4. \A x \in answers' : UserAnswer(x)'
  BY <1>1 DEF Users, UserAnswer
<1> QED
  BY <1>1, <1>2, <1>3, <1>4 DEF Users

\* The same for a step of another service.
LEMMA UserOthers ==
    ASSUME Users, UNCHANGED userVars, NEW ops, Within(ops), ops \cap UserOp = {}
    PROVE  Users'
<1>2. \A t \in Slot : req'[t] = req[t] \/ UserReq(req[t])'
  BY DEF Within, UserOp, UserReq, Writing
<1>3. \A x \in answers' : x \in answers \/ UserAnswer(x)'
  BY DEF Within, UserAnswer, UserOp
<1> QED
  BY <1>2, <1>3, UserKept

\* A begun request reads like the one that was asked for.
LEMMA AskedFor ==
    ASSUME NEW r \in AnyReq, NEW q, q = [r EXCEPT !.open = TRUE]
    PROVE  /\ q.op = r.op /\ q.pc = r.pc /\ q.who = r.who /\ q.to = r.to /\ q.id = r.id
           /\ q.flag = r.flag /\ q.prof = r.prof /\ q.at = r.at /\ q.msg = r.msg
  BY DEF AnyReq

\* A registration begins with an id of its own.
LEMMA RegisterStep ==
    ASSUME Calls, Users, NEW s \in Slot, Register(s)
    PROVE  Calls' /\ Users' /\ Within(UserOp) /\ faults' = faults
<1>1. PICK a \in Account :
         Begin(s, [NoReq EXCEPT !.op = "register", !.pc = "exists", !.who = a, !.id = started + 1])
  BY DEF Register
<1> DEFINE r == [NoReq EXCEPT !.op = "register", !.pc = "exists", !.who = a, !.id = started + 1]
<1>0. started \in Nat /\ started + 1 \in Nat
  BY CallAssumption DEF Calls
<1>2. r \in AnyReq
  <2>1. "exists" \in Pc /\ "register" \in UserOp
    BY DEF Pc, UserOp
  <2> QED
    BY <1>0, <2>1, NoReqType DEF AnyReq
<1>9. r.op = "register" /\ r.pc = "exists" /\ r.who = a /\ r.to = Nobody /\ r.id = started + 1
  BY DEF NoReq
<1>3. UNCHANGED userVars /\ users' = users
  BY DEF Register, userVars
<1>4. started < MaxRequests
  BY <1>1 DEF Begin
<1> HIDE DEF r
<1>5. Busy(r) /\ r.op \in UserOp
  BY <1>9 DEF Busy, UserOp
<1>6. /\ Calls' /\ Within(UserOp) /\ faults' = faults /\ answers' = answers
      /\ req'[s] = [r EXCEPT !.open = TRUE]
      /\ \A t \in Slot : t # s => req'[t] = req[t]
  BY <1>1, <1>2, <1>3, <1>5, BeginCalls DEF r
<1>7. UserReq(req[s])'
  BY <1>0, <1>2, <1>4, <1>6, <1>9, AskedFor, CallAssumption DEF UserReq, Writing
<1> QED
  BY <1>3, <1>6, <1>7, UserKept

\* The answers.
LEMMA UserCodes ==
    /\ RegisterStatus("ok") = 201 /\ RegisterStatus("DUPLICATE_ACCOUNT") = 409
    /\ RegisterStatus("PERSIST_FAILED") = 500
    /\ LoginStatus("ok") \in Code /\ LoginStatus("INVALID_ACCOUNT") \in Code
    /\ LoginStatus("WRONG_PASSWORD") \in Code
    /\ UpdateStatus("ok") \in Code /\ UpdateStatus("USER_NOT_FOUND") \in Code
    /\ {201, 409, 500} \subseteq Code
  BY DEF RegisterStatus, LoginStatus, UpdateStatus, Code

\* A reply that leaves im_users alone and claims nothing that is not so.
LEMMA UserReplies ==
    ASSUME Calls, Users, NEW s \in Slot, req[s].op \in UserOp, UNCHANGED userVars,
           faults' \in 0..MaxFaults, NEW status \in Code, Reply(s, status),
           req[s].op = "register" => status # 201 /\ (status = 409 => req[s].who \in Registered)
    PROVE  Calls' /\ Users' /\ Within(UserOp)
<1>1. Registered' = Registered /\ req[s].op # "idle"
  BY DEF userVars, Registered, UserOp
<1>2. /\ Calls' /\ Within(UserOp) /\ req'[s] = NoReq
      /\ \A t \in Slot : t # s => req'[t] = req[t]
      /\ \A x \in answers' : x \in answers \/ x = AnswerOf(req[s], status)
  BY <1>1, ReplyCalls
<1>3. UserReq(req[s])'
  BY <1>2, NoReqType DEF UserReq, Writing
<1>4. ASSUME NEW x, x = AnswerOf(req[s], status) PROVE UserAnswer(x)'
  BY <1>1, <1>4 DEF UserAnswer, AnswerOf, Users, UserReq
<1> QED
  BY <1>2, <1>3, <1>4, UserKept

\* The lookup of a registration: 409 is answered only with the account there.
LEMMA RegisterExistsStep ==
    ASSUME Calls, Users, NEW s \in Slot, RegisterExists(s)
    PROVE  Calls' /\ Users' /\ Within(UserOp) /\ faults <= faults'
<1>1. PICK d \in ReadOutcome :
        /\ At(s, "register", "exists") /\ Db(d)
        /\ IF d = "ok" /\ find_by_account(req[s].who) # {}
             THEN Reply(s, RegisterStatus("DUPLICATE_ACCOUNT"))
             ELSE Goto(s, "create")
        /\ UNCHANGED userVars
  BY DEF RegisterExists
<1>2. faults' \in 0..MaxFaults /\ faults <= faults'
  BY <1>1, DbCounts
<1>3. req[s].op = "register" /\ req[s].op \in UserOp /\ Registered' = Registered
  BY <1>1 DEF At, userVars, Registered, UserOp
<1>4. CASE find_by_account(req[s].who) # {} /\ Reply(s, 409)
  <2>1. req[s].who \in Registered
    BY <1>4 DEF find_by_account, Registered
  <2> QED
    BY <1>1, <1>2, <1>3, <1>4, <2>1, UserReplies, UserCodes
<1>5. CASE Goto(s, "create")
  <2>1. /\ Calls' /\ Within(UserOp) /\ answers' = answers
        /\ req'[s] = [req[s] EXCEPT !.pc = "create"]
        /\ \A t \in Slot : t # s => req'[t] = req[t]
    BY <1>2, <1>3, <1>5, GotoCalls DEF Pc
  <2>2. UserReq(req[s]) /\ req[s] \in AnyReq
    BY DEF Users, Calls
  <2>3. req'[s].op = "register" /\ req'[s].to = req[s].to /\ req'[s].id = req[s].id
    BY <1>3, <2>1, <2>2 DEF AnyReq
  <2>4. UserReq(req[s])'
    BY <1>3, <2>2, <2>3 DEF UserReq, Writing
  <2> QED
    BY <1>1, <1>2, <2>1, <2>4, UserKept
<1> QED
  BY <1>1, <1>4, <1>5, UserCodes

\* The insert of a registration: 201 is answered only for the row it made.
LEMMA RegisterCreateStep ==
    ASSUME Calls, Users, NEW s \in Slot, RegisterCreate(s)
    PROVE  Calls' /\ Users' /\ Within(UserOp) /\ faults <= faults' /\ Registered \subseteq Registered'
<1> DEFINE stored(d) == d # "fail" /\ find_by_account(req[s].who) = {}
           row == UserRow(req[s].who, req[s].id, NoProfile)
           status(d) == RegisterStatus(IF stored(d) /\ d = "ok" THEN "ok" ELSE "PERSIST_FAILED")
<1>1. PICK d \in WriteOutcome :
        /\ At(s, "register", "create") /\ Db(d)
        /\ users' = IF stored(d) THEN users \cup {row} ELSE users
        /\ Reply(s, status(d))
        /\ UNCHANGED upd
  BY DEF RegisterCreate
<1>2. faults' \in 0..MaxFaults /\ faults <= faults'
  BY <1>1, DbCounts
<1>3. /\ req[s].op = "register" /\ req[s].op \in UserOp /\ req[s].op # "idle"
      /\ req[s] \in AnyReq /\ Busy(req[s]) /\ UserReq(req[s])
  BY <1>1, InHand DEF At, UserOp, Users
<1>4. CASE ~stored(d)
  <2>1. Reply(s, 500) /\ UNCHANGED userVars /\ Registered' = Registered
    BY <1>1, <1>4, UserCodes DEF userVars, Registered
  <2> QED
    BY <1>2, <1>3, <2>1, UserReplies, UserCodes
<1>5. CASE stored(d)
  <2>1. users' = users \cup {row} /\ req[s].who \notin Registered
    BY <1>1, <1>5 DEF find_by_account, Registered
  <2>2. row.account = req[s].who /\ row.uid = req[s].id /\ row.prof = NoProfile
        /\ row \in [account : Account, uid : 0..MaxRequests, prof : Profile]
    BY <1>3, CallAssumption DEF UserRow, Busy, UserReq, NoProfile, Profile
  <2>3. Registered' = Registered \cup {req[s].who}
    BY <2>1, <2>2 DEF Registered
  <2>4. status(d) \in Code /\ status(d) # 409
    BY UserCodes
  <2>5. /\ Calls' /\ Within(UserOp) /\ req'[s] = NoReq
        /\ \A t \in Slot : t # s => req'[t] = req[t]
        /\ \A x \in answers' : x \in answers \/ x = AnswerOf(req[s], status(d))
    <3> HIDE DEF status
    <3> QED
      BY <1>1, <1>2, <1>3, <2>3, <2>4, ReplyCalls
  <2>6. /\ users' \subseteq [account : Account, uid : 0..MaxRequests, prof : Profile]
        /\ \A r, q \in users' : r.account = q.account => r = q
    BY <2>1, <2>2 DEF Users, Registered
  <2>7. upd' = upd /\ \A a \in Account \ Registered', f \in Field : upd[a][f].val = 0
    BY <1>1, <2>3 DEF Users
  <2>8. LostOnlyByOverlap'
    <3>1. \A f \in Field : upd[req[s].who][f].val = 0
      BY <1>3, <2>1 DEF Users, Busy
    <3>2. \A f \in Field : row.prof[f] = 0
      BY <2>2 DEF NoProfile, Field
    <3> QED
      BY <2>1, <2>2, <2>7, <3>1, <3>2 DEF Users, LostOnlyByOverlap
  <2>9. \A t \in Slot : UserReq(req[t])'
    BY <2>3, <2>5, <2>7, NoReqType DEF Users, UserReq, Writing
  <2>10. \A x \in answers' : UserAnswer(x)'
    <3>1. \A x \in answers : UserAnswer(x)'
      BY <2>1, <2>3 DEF Users, UserAnswer
    <3>2. ASSUME NEW x, x = AnswerOf(req[s], status(d)) PROVE UserAnswer(x)'
      BY <3>2, <1>3, <2>1, <2>2, <2>4 DEF UserAnswer, AnswerOf, UserReq
    <3> QED
      BY <2>5, <3>1, <3>2
  <2> QED
    BY <1>2, <2>3, <2>5, <2>6, <2>7, <2>8, <2>9, <2>10 DEF Users
<1> QED
  BY <1>4, <1>5

\* A login begins and relies on nothing yet.
LEMMA LoginStep ==
    ASSUME Calls, Users, NEW s \in Slot, Login(s)
    PROVE  Calls' /\ Users' /\ Within(UserOp) /\ faults' = faults
<1>1. PICK a \in Account, right \in BOOLEAN :
         Begin(s, [NoReq EXCEPT !.op = "login", !.pc = "find", !.who = a, !.flag = right])
  BY DEF Login
<1> DEFINE r == [NoReq EXCEPT !.op = "login", !.pc = "find", !.who = a, !.flag = right]
<1>2. r \in AnyReq
  <2>1. "find" \in Pc /\ "login" \in UserOp
    BY DEF Pc, UserOp
  <2> QED
    BY <2>1, NoReqType DEF AnyReq
<1>3. r.op = "login" /\ r.pc = "find" /\ r.who = a
  BY DEF NoReq
<1>4. UNCHANGED userVars /\ users' = users
  BY DEF Login, userVars
<1> HIDE DEF r
<1>5. Busy(r) /\ r.op \in UserOp
  BY <1>3 DEF Busy, UserOp
<1>6. /\ Calls' /\ Within(UserOp) /\ faults' = faults /\ answers' = answers
      /\ req'[s] = [r EXCEPT !.open = TRUE]
      /\ \A t \in Slot : t # s => req'[t] = req[t]
  BY <1>1, <1>2, <1>4, <1>5, BeginCalls DEF r
<1>7. UserReq(req[s])'
  BY <1>2, <1>3, <1>6, AskedFor DEF UserReq, Writing
<1> QED
  BY <1>4, <1>6, <1>7, UserKept

\* An update begins for a registered user.
LEMMA UpdateProfileStep ==
    ASSUME Calls, Users, NEW s \in Slot, UpdateProfile(s)
    PROVE  Calls' /\ Users' /\ Within(UserOp) /\ faults' = faults
<1>1. PICK a \in Registered, nick \in BOOLEAN :
         Begin(s, [NoReq EXCEPT !.op = "update", !.pc = "current", !.who = a, !.flag = nick])
  BY DEF UpdateProfile
<1> DEFINE r == [NoReq EXCEPT !.op = "update", !.pc = "current", !.who = a, !.flag = nick]
<1>0. a \in Account
  BY DEF Registered, Users
<1>2. r \in AnyReq
  <2>1. "current" \in Pc /\ "update" \in UserOp
    BY DEF Pc, UserOp
  <2> QED
    BY <1>0, <2>1, NoReqType DEF AnyReq
<1>3. r.op = "update" /\ r.pc = "current" /\ r.who = a
  BY DEF NoReq
<1>4. UNCHANGED userVars /\ users' = users
  BY DEF UpdateProfile, userVars
<1> HIDE DEF r
<1>5. Busy(r) /\ r.op \in UserOp
  BY <1>0, <1>3 DEF Busy, UserOp
<1>6. /\ Calls' /\ Within(UserOp) /\ faults' = faults /\ answers' = answers
      /\ req'[s] = [r EXCEPT !.open = TRUE]
      /\ \A t \in Slot : t # s => req'[t] = req[t]
  BY <1>1, <1>2, <1>4, <1>5, BeginCalls DEF r
<1>7. UserReq(req[s])'
  BY <1>2, <1>3, <1>6, AskedFor DEF UserReq, Writing
<1> QED
  BY <1>4, <1>6, <1>7, UserKept

\* A step that moves a login or an update on with profile v in hand.
LEMMA HoldsProfile ==
    ASSUME Calls, Users, NEW s \in Slot, req[s].op \in {"login", "update"},
           NEW pc \in Pc \ {"none"}, NEW v \in Profile,
           req' = [req EXCEPT ![s] = [req[s] EXCEPT !.pc = pc, !.prof = v]],
           UNCHANGED <<remote, mix, started, timeouts, answers>>, UNCHANGED userVars,
           faults' \in 0..MaxFaults,
           req[s].op = "login" => req[s].who \in Registered,
           \A f \in Field :
              (\/ req[s].op = "login" /\ pc = "write"
               \/ req[s].op = "update" /\ f # UpdatedField(s)) =>
                (upd[req[s].who][f].clean => v[f] = upd[req[s].who][f].val)
    PROVE  Calls' /\ Users' /\ Within(UserOp)
<1>1. req \in [Slot -> AnyReq] /\ Busy(req[s]) /\ req[s] \in AnyReq /\ req[s].op \in UserOp
  BY InHand DEF Calls, UserOp
<1>2. [req[s] EXCEPT !.pc = pc, !.prof = v] \in AnyReq
  BY <1>1 DEF AnyReq
<1>3. /\ req' \in [Slot -> AnyReq]
      /\ req'[s].op = req[s].op /\ req'[s].pc = pc /\ req'[s].who = req[s].who
      /\ req'[s].prof = v /\ req'[s].flag = req[s].flag
      /\ \A t \in Slot : t # s => req'[t] = req[t]
  BY <1>1, <1>2 DEF AnyReq
<1>4. Registered' = Registered /\ upd' = upd
  BY DEF Registered, userVars
<1>5. \A t \in Slot : req'[t] = NoReq \/ Busy(req[t])'
  BY <1>1, <1>3, <1>4 DEF Calls, Busy
<1>6. Calls' /\ Within(UserOp)
  BY <1>1, <1>3, <1>5 DEF Calls, Within
<1>7. UserReq(req[s])'
  <2>1. ASSUME NEW f \in Field, Writing(req[s], f)', upd[req[s].who][f].clean
        PROVE  v[f] = upd[req[s].who][f].val
    BY <1>1, <1>3, <2>1 DEF Writing, UpdatedField, AnyReq
  <2>2. \A f \in Field : Writing(req[s], f)' =>
           (upd'[req'[s].who][f].clean => req'[s].prof[f] = upd'[req'[s].who][f].val)
    BY <1>3, <1>4, <2>1
  <2> QED
    BY <1>3, <1>4, <2>2 DEF UserReq
<1> QED
  BY <1>3, <1>6, <1>7, UserKept

\* What a row says of a field that was last written by a clean update.
LEMMA RowRead ==
    ASSUME Users, NEW a, NEW r \in find_by_account(a)
    PROVE  /\ r \in users /\ r.account = a /\ a \in Registered /\ r.prof \in Profile
           /\ \A f \in Field : upd[a][f].clean => r.prof[f] = upd[a][f].val
  BY DEF Users, find_by_account, Registered, LostOnlyByOverlap

\* The lookup of a login; the profile it finds is read again before it is written.
LEMMA LoginFindStep ==
    ASSUME Calls, Users, NEW s \in Slot, LoginFind(s)
    PROVE  Calls' /\ Users' /\ Within(UserOp) /\ faults <= faults'
<1> DEFINE found(d) == IF d = "ok" THEN find_by_account(req[s].who) ELSE {}
<1>1. PICK d \in ReadOutcome :
        /\ At(s, "login", "find") /\ Db(d)
        /\ \/ found(d) = {} /\ Reply(s, LoginStatus("INVALID_ACCOUNT"))
           \/ found(d) # {} /\ ~req[s].flag /\ Reply(s, LoginStatus("WRONG_PASSWORD"))
           \/ /\ req[s].flag
              /\ \E r \in found(d) : req' = [req EXCEPT ![s].pc = "load", ![s].prof = r.prof]
              /\ UNCHANGED <<remote, mix, started, timeouts, answers>>
        /\ UNCHANGED userVars
  BY DEF LoginFind
<1>2. faults' \in 0..MaxFaults /\ faults <= faults'
  BY <1>1, DbCounts
<1>3. req[s].op = "login" /\ req[s].op \in UserOp
  BY <1>1 DEF At, UserOp
<1>4. CASE \E status \in Code : Reply(s, status)
  BY <1>1, <1>2, <1>3, <1>4, UserReplies
<1>5. ASSUME NEW r \in found(d), req' = [req EXCEPT ![s].pc = "load", ![s].prof = r.prof],
             UNCHANGED <<remote, mix, started, timeouts, answers>>
      PROVE  Calls' /\ Users' /\ Within(UserOp)
  <2>1. r.prof \in Profile /\ req[s].who \in Registered
    BY RowRead
  <2>2. req' = [req EXCEPT ![s] = [req[s] EXCEPT !.pc = "load", !.prof = r.prof]]
    BY <1>5 DEF Calls
  <2>3. "load" \in Pc \ {"none"} /\ "load" # "write"
    BY DEF Pc
  <2>4. \A f \in Field :
              (\/ req[s].op = "login" /\ "load" = "write"
               \/ req[s].op = "update" /\ f # UpdatedField(s)) =>
                (upd[req[s].who][f].clean => r.prof[f] = upd[req[s].who][f].val)
    BY <1>3, <2>3
  <2> QED
    BY <1>1, <1>2, <1>3, <1>5, <2>1, <2>2, <2>3, <2>4, HoldsProfile
<1> HIDE DEF found
<1> QED
  BY <1>1, <1>2, <1>4, <1>5, UserCodes

\* The read of an update takes over all fields but its own.
LEMMA UpdateCurrentStep ==
    ASSUME Calls, Users, NEW s \in Slot, UpdateCurrent(s)
    PROVE  Calls' /\ Users' /\ Within(UserOp) /\ faults <= faults'
<1>1. PICK d \in ReadOutcome :
        /\ At(s, "update", "current") /\ Db(d)
        /\ \/ /\ d = "ok"
              /\ \E r \in find_by_account(req[s].who) :
                   req' = [req EXCEPT ![s].pc = "load",
                                      ![s].prof = [r.prof EXCEPT ![UpdatedField(s)] = 1]]
              /\ UNCHANGED <<remote, mix, started, timeouts, answers>>
           \/ d = "fail" /\ Reply(s, UpdateStatus("USER_NOT_FOUND"))
        /\ UNCHANGED userVars
  BY DEF UpdateCurrent
<1>2. faults' \in 0..MaxFaults /\ faults <= faults'
  BY <1>1, DbCounts
<1>3. req[s].op = "update" /\ req[s].op \in UserOp
  BY <1>1 DEF At, UserOp
<1>4. CASE Reply(s, UpdateStatus("USER_NOT_FOUND"))
  BY <1>1, <1>2, <1>3, <1>4, UserReplies, UserCodes
<1>5. ASSUME NEW r \in find_by_account(req[s].who),
             req' = [req EXCEPT ![s].pc = "load",
                                ![s].prof = [r.prof EXCEPT ![UpdatedField(s)] = 1]],
             UNCHANGED <<remote, mix, started, timeouts, answers>>
      PROVE  Calls' /\ Users' /\ Within(UserOp)
  <2> DEFINE v == [r.prof EXCEPT ![UpdatedField(s)] = 1]
  <2>1. r.prof \in Profile /\ \A f \in Field :
           upd[req[s].who][f].clean => r.prof[f] = upd[req[s].who][f].val
    BY RowRead
  <2>2. UpdatedField(s) \in Field
    BY DEF UpdatedField, Field
  <2>3. v \in Profile /\ \A f \in Field : f # UpdatedField(s) => v[f] = r.prof[f]
    BY <2>1, <2>2 DEF Profile, Field
  <2>4. req' = [req EXCEPT ![s] = [req[s] EXCEPT !.pc = "load", !.prof = v]]
    BY <1>5 DEF Calls
  <2> HIDE DEF v
  <2>5. "load" \in Pc \ {"none"}
    BY DEF Pc
  <2>6. \A f \in Field :
              (\/ req[s].op = "login" /\ "load" = "write"
               \/ req[s].op = "update" /\ f # UpdatedField(s)) =>
                (upd[req[s].who][f].clean => v[f] = upd[req[s].who][f].val)
    BY <1>3, <2>1, <2>3
  <2> QED
    BY <1>1, <1>2, <1>3, <1>5, <2>3, <2>4, <2>5, <2>6, HoldsProfile
<1> QED
  BY <1>1, <1>2, <1>4, <1>5

\* The load: a login reads the profile anew, an update keeps the one it has.
LEMMA LoadRowStep ==
    ASSUME Calls, Users, NEW s \in Slot, LoadRow(s)
    PROVE  Calls' /\ Users' /\ Within(UserOp) /\ faults <= faults'
<1>1. PICK d \in ReadOutcome :
        /\ req[s].op \in {"login", "update"} /\ req[s].pc = "load" /\ Db(d)
        /\ \/ /\ d = "ok"
              /\ \E r \in find_by_account(req[s].who) :
                   req' = [req EXCEPT ![s].pc = "write",
                                      ![s].prof = IF req[s].op = "login" THEN r.prof ELSE @]
              /\ UNCHANGED <<remote, mix, started, timeouts, answers>>
           \/ d = "fail" /\ LoadFails(s)
        /\ UNCHANGED userVars
  BY DEF LoadRow
<1>2. faults' \in 0..MaxFaults /\ faults <= faults'
  BY <1>1, DbCounts
<1>3. req[s].op \in UserOp /\ req[s].op # "register" /\ req[s] \in AnyReq /\ UserReq(req[s])
  BY <1>1 DEF UserOp, Calls, Users
<1>4. CASE LoadFails(s)
  <2>1. \E status \in Code : Reply(s, status)
    BY <1>4, UserCodes DEF LoadFails
  <2> QED
    BY <1>1, <1>2, <1>3, <2>1, UserReplies
<1>5. ASSUME NEW r \in find_by_account(req[s].who),
             req' = [req EXCEPT ![s].pc = "write",
                                ![s].prof = IF req[s].op = "login" THEN r.prof ELSE @],
             UNCHANGED <<remote, mix, started, timeouts, answers>>
      PROVE  Calls' /\ Users' /\ Within(UserOp)
  <2> DEFINE v == IF req[s].op = "login" THEN r.prof ELSE req[s].prof
  <2>1. r.prof \in Profile /\ req[s].who \in Registered /\ \A f \in Field :
           upd[req[s].who][f].clean => r.prof[f] = upd[req[s].who][f].val
    BY RowRead
  <2>2. v \in Profile
    BY <1>3, <2>1 DEF AnyReq
  <2>3. \A f \in Field : req[s].op = "login" \/ (req[s].op = "update" /\ f # UpdatedField(s)) =>
                (upd[req[s].who][f].clean => v[f] = upd[req[s].who][f].val)
    BY <1>1, <1>3, <2>1 DEF UserReq, Writing, UpdatedField
  <2>4. req' = [req EXCEPT ![s] = [req[s] EXCEPT !.pc = "write", !.prof = v]]
    BY <1>5 DEF Calls, AnyReq
  <2> HIDE DEF v
  <2>5. "write" \in Pc \ {"none"}
    BY DEF Pc
  <2>6. \A f \in Field :
              (\/ req[s].op = "login" /\ "write" = "write"
               \/ req[s].op = "update" /\ f # UpdatedField(s)) =>
                (upd[req[s].who][f].clean => v[f] = upd[req[s].who][f].val)
    BY <2>3
  <2>7. UNCHANGED userVars /\ req[s].op \in {"login", "update"} /\ req[s].who \in Registered
    BY <1>1, <2>1
  <2>8. faults' \in 0..MaxFaults /\ UNCHANGED <<remote, mix, started, timeouts, answers>>
    BY <1>2, <1>5
  <2> QED
    BY <2>2, <2>4, <2>5, <2>6, <2>7, <2>8, HoldsProfile
<1> QED
  BY <1>1, <1>2, <1>4, <1>5

\* A deadline claims nothing.
LEMMA UserDeadlineStep ==
    ASSUME Calls, Users, NEW s \in Slot, UserDeadline(s)
    PROVE  Calls' /\ Users' /\ Within(UserOp) /\ faults' = faults
<1>1. req[s].op \in UserOp /\ req[s].op # "idle" /\ Deadline(s, 500) /\ UNCHANGED userVars
      /\ users' = users /\ req[s] \in AnyReq /\ 500 \in Code
  BY DEF UserDeadline, UserOp, userVars, Calls, Code
<1>2. /\ Calls' /\ Within(UserOp) /\ faults' = faults
      /\ req'[s] = [req[s] EXCEPT !.open = FALSE]
      /\ \A t \in Slot : t # s => req'[t] = req[t]
      /\ \A x \in answers' : x \in answers \/ x = AnswerOf(req[s], 500)
  BY <1>1, DeadlineCalls
<1>3. UserReq(req[s]) /\ Registered' = Registered /\ upd' = upd
  BY <1>1 DEF Users, Registered, userVars
<1>4. UserReq(req[s])'
  BY <1>1, <1>2, <1>3 DEF UserReq, Writing, AnyReq
<1>5. ASSUME NEW x, x = AnswerOf(req[s], 500) PROVE UserAnswer(x)'
  BY <1>3, <1>5 DEF UserAnswer, AnswerOf, UserReq
<1> QED
  BY <1>1, <1>2, <1>4, <1>5, UserKept

\* The UPDATE writes back a profile in which every field of a clean last update is as that
\* update left it; its own field is clean only if no one else has the row in hand.
LEMMA WriteRowStep ==
    ASSUME Calls, Users, NEW s \in Slot, WriteRow(s)
    PROVE  Calls' /\ Users' /\ Within(UserOp) /\ faults <= faults' /\ Registered' = Registered
<1> DEFINE me == req[s]
           f0 == UpdatedField(s)
           Put(r) == IF r.account = me.who THEN [r EXCEPT !.prof = me.prof] ELSE r
           Last == [val |-> me.prof[f0], clean |-> ~OtherWriter(s)]
<1>1. PICK d \in WriteOutcome :
        /\ me.op \in {"login", "update"} /\ me.pc = "write" /\ Db(d)
        /\ users' = IF d = "fail" THEN users ELSE {Put(r) : r \in users}
        /\ upd' = IF me.op = "update" /\ d # "fail" THEN [upd EXCEPT ![me.who][f0] = Last] ELSE upd
        /\ IF d = "ok" \/ me.op = "login"
             THEN Reply(s, IF me.op = "login" THEN LoginStatus("ok") ELSE UpdateStatus("ok"))
             ELSE LoadFails(s)
  BY DEF WriteRow
<1>2. faults' \in 0..MaxFaults /\ faults <= faults'
  BY <1>1, DbCounts
<1>3. PICK status \in Code : Reply(s, status)
  BY <1>1, UserCodes DEF LoadFails
<1>4. /\ me.op \in UserOp /\ me.op # "register" /\ me.op # "idle" /\ me \in AnyReq
      /\ me.who \in Account /\ me.who \in Registered /\ me.prof \in Profile /\ UserReq(me)
  <2>1. me.op \in UserOp /\ me.op # "register" /\ me.op # "idle" /\ me \in AnyReq
        /\ UserReq(me) /\ Busy(me)
    BY <1>1, InHand DEF UserOp, Users
  <2> QED
    BY <1>1, <2>1 DEF Busy, UserReq, AnyReq
<1>5. CASE d = "fail"
  <2>1. UNCHANGED userVars /\ Registered' = Registered
    BY <1>1, <1>5 DEF userVars, Registered
  <2> QED
    BY <1>2, <1>3, <1>4, <2>1, UserReplies
<1>6. CASE d # "fail"
  <2>1. users' = {Put(r) : r \in users}
    BY <1>1, <1>6
  <2>2. ASSUME NEW r \in users
        PROVE  /\ Put(r) \in [account : Account, uid : 0..MaxRequests, prof : Profile]
               /\ Put(r).account = r.account /\ Put(r).uid = r.uid
               /\ Put(r).prof = IF r.account = me.who THEN me.prof ELSE r.prof
    BY <1>4 DEF Users
  <2> HIDE DEF Put
  <2>3. Registered' = Registered
    BY <2>1, <2>2 DEF Registered
  <2>4. /\ users' \subseteq [account : Account, uid : 0..MaxRequests, prof : Profile]
        /\ \A r, q \in users' : r.account = q.account => r = q
    BY <2>1, <2>2 DEF Users
  <2>5. f0 \in Field /\ Last \in [val : 0..1, clean : BOOLEAN]
        /\ Last.clean = ~OtherWriter(s) /\ Last.val = me.prof[f0]
    BY <1>4 DEF UpdatedField, Field, Profile, OtherWriter
  <2> HIDE DEF Last
  <2>6. /\ upd' \in [Account -> [Field -> [val : 0..1, clean : BOOLEAN]]]
        /\ \A a \in Account, f \in Field :
             upd'[a][f] = IF me.op = "update" /\ a = me.who /\ f = f0 THEN Last ELSE upd[a][f]
    BY <1>1, <1>4, <1>6, <2>5 DEF Users
  <2>7. \A a \in Account \ Registered, f \in Field : upd'[a][f].val = 0
    BY <1>4, <2>6 DEF Users
  <2>8. /\ Calls' /\ Within(UserOp) /\ req'[s] = NoReq
        /\ \A t \in Slot : t # s => req'[t] = req[t]
        /\ \A x \in answers' : x \in answers \/ x = AnswerOf(me, status)
    BY <1>2, <1>3, <1>4, <2>3, ReplyCalls
  <2>9. ASSUME NEW f \in Field, upd'[me.who][f].clean
        PROVE  me.prof[f] = upd'[me.who][f].val
    <3>1. CASE me.op = "update" /\ f = f0
      BY <1>4, <2>5, <2>6, <3>1
    <3>2. CASE ~(me.op = "update" /\ f = f0)
      BY <1>1, <1>4, <2>6, <2>9, <3>2 DEF UserReq, Writing, UpdatedField
    <3> QED
      BY <3>1, <3>2
  <2>10. LostOnlyByOverlap'
    <3> SUFFICES ASSUME NEW q \in users', NEW f \in Field, upd'[q.account][f].clean
                 PROVE  q.prof[f] = upd'[q.account][f].val
      BY DEF LostOnlyByOverlap
    <3>1. PICK r \in users : q = Put(r)
      BY <2>1
    <3>2. CASE r.account = me.who
      BY <2>2, <2>9, <3>1, <3>2
    <3>3. CASE r.account # me.who
      <4>1. r.account \in Account
        BY DEF Users
      <4> QED
        BY <2>2, <2>6, <3>1, <3>3, <4>1 DEF Users, LostOnlyByOverlap
    <3> QED
      BY <3>2, <3>3
  <2>11. ASSUME NEW t \in Slot PROVE UserReq(req[t])'
    <3>1. CASE t = s
      BY <2>8, <3>1, NoReqType DEF UserReq, Writing
    <3>2. CASE t # s
      <4>1. req'[t] = req[t] /\ UserReq(req[t])
        BY <2>8, <3>2 DEF Users
      <4>2. ASSUME NEW f \in Field, Writing(req[t], f), upd'[req[t].who][f].clean
            PROVE  req[t].prof[f] = upd'[req[t].who][f].val
        <5>1. req[t].who \in Account
          BY <4>2, InHand DEF Writing, Busy
        <5>2. CASE me.op = "update" /\ req[t].who = me.who /\ f = f0
          <6>1. OtherWriter(s)
            BY <3>2, <4>2, <5>2 DEF OtherWriter, Writing
          <6> QED
            BY <2>5, <2>6, <4>2, <5>1, <5>2, <6>1
        <5>3. CASE ~(me.op = "update" /\ req[t].who = me.who /\ f = f0)
          BY <2>6, <4>1, <4>2, <5>1, <5>3 DEF UserReq
        <5> QED
          BY <5>2, <5>3
      <4>3. \A f \in Field : Writing(req[t], f)' => Writing(req[t], f)
        BY <4>1 DEF Writing
      <4> QED
        BY <2>3, <4>1, <4>2, <4>3 DEF UserReq
    <3> QED
      BY <3>1, <3>2
  <2>12. \A x \in answers' : UserAnswer(x)'
    <3>1. \A x \in answers : UserAnswer(x)'
      BY <2>1, <2>2, <2>3 DEF Users, UserAnswer
    <3>2. ASSUME NEW x, x = AnswerOf(me, status) PROVE UserAnswer(x)'
      BY <1>4, <3>2 DEF UserAnswer, AnswerOf
    <3> QED
      BY <2>8, <3>1, <3>2
  <2> QED
    BY <1>2, <2>3, <2>4, <2>6, <2>7, <2>8, <2>10, <2>11, <2>12 DEF Users
<1> QED
  BY <1>5, <1>6

\* Every step of UserService.
LEMMA UserStep ==
    ASSUME Calls, Users, NEW s \in Slot, UserNext(s)
    PROVE  /\ Calls' /\ Users' /\ Within(UserOp)
           /\ Registered \subseteq Registered' /\ faults <= faults'
<1>1. CASE RegisterCreate(s) \/ WriteRow(s)
  BY <1>1, RegisterCreateStep, WriteRowStep
<1>2. CASE UNCHANGED userVars
  <2>1. Registered' = Registered
    BY <1>2 DEF userVars, Registered
  <2>2. faults' = faults => faults <= faults'
    BY DEF Calls
  <2> QED
    BY <1>1, <2>1, <2>2, RegisterStep, RegisterExistsStep, LoginStep, LoginFindStep, LoadRowStep,
       UpdateProfileStep, UpdateCurrentStep, UserDeadlineStep DEF UserNext
<1>3. UNCHANGED userVars \/ RegisterCreate(s) \/ WriteRow(s)
  BY DEF UserNext, Register, RegisterExists, Login, LoginFind, LoadRow, UpdateProfile,
         UpdateCurrent, UserDeadline
<1> QED
  BY <1>1, <1>2, <1>3

-----------------------------------------------------------------------------
(* FriendService.                                                          *)
-----------------------------------------------------------------------------
\* Rows are never deleted and never change their id or users, and a decision may be
\* replaced by another but not taken back.
RowsStay ==
    /\ \A r \in friends : \E q \in friends' :
         /\ q.id = r.id /\ q.requester = r.requester /\ q.target = r.target
         /\ r.status # "PENDING" => q.status # "PENDING"
    /\ accepts \subseteq accepts' /\ faults <= faults'
    /\ faults \in Nat /\ faults' \in Nat

\* So what a request has seen of the rows, and what a client was told of them, stays so.
LEMMA FriendStable ==
    ASSUME RowsStay
    PROVE  /\ \A r : FriendReq(r) /\ Unsettled(r)' => FriendReq(r)'
           /\ \A x : FriendAnswer(x) => FriendAnswer(x)'
<1>1. \A a, b : find_relationship(a, b) # {} => find_relationship(a, b)' # {}
  BY DEF RowsStay, find_relationship
<1>2. \A a, b : find_pair(a, b) # {} => find_pair(a, b)' # {}
  BY DEF RowsStay, find_pair
<1>3. faults > 0 => faults' > 0
  BY DEF RowsStay
<1>4. ASSUME NEW r, FriendReq(r), Unsettled(r)' PROVE FriendReq(r)'
  <2>1. r.op = "respond" => (r.flag => <<r.who, r.id>> \in accepts')
    BY <1>4 DEF RowsStay, FriendReq
  <2>2. r.op = "respond" /\ r.pc = "update" => \E q \in friends' : q.id = r.id /\ q.target = r.who
    BY <1>4 DEF RowsStay, FriendReq
  <2> QED
    BY <1>1, <1>3, <1>4, <2>1, <2>2 DEF FriendReq
<1>5. ASSUME NEW x, FriendAnswer(x) PROVE FriendAnswer(x)'
  BY <1>1, <1>2, <1>5 DEF FriendAnswer, RowsStay
<1> QED
  BY <1>4, <1>5

\* A step that leaves im_friends alone disturbs the requests it moves only.
LEMMA FriendKept ==
    ASSUME Calls, Friends, friends' = friends, accepts \subseteq accepts', settled' = settled,
           faults' \in 0..MaxFaults, faults <= faults',
           \A t \in Slot : req'[t] = req[t] \/ FriendReq(req[t])',
           \A x \in answers' : x \in answers \/ FriendAnswer(x)'
    PROVE  Friends'
<1>1. RowsStay
  BY CallAssumption DEF RowsStay, Calls
<1>2. \A t \in Slot : FriendReq(req[t])'
  <2> SUFFICES ASSUME NEW t \in Slot, req'[t] = req[t] PROVE FriendReq(req[t])'
    OBVIOUS
  <2>1. PICK r : r = req[t]
    OBVIOUS
  <2>2. FriendReq(r) /\ Unsettled(r)'
    BY <2>1 DEF Friends, FriendReq, Unsettled
  <2>3. FriendReq(r)'
    BY <1>1, <2>2, FriendStable
  <2> QED
    BY <2>1, <2>3
<1>3. \A x \in answers' : FriendAnswer(x)'
  BY <1>1, FriendStable DEF Friends
<1> QED
  BY <1>2, <1>3 DEF Friends, DecisionsHold

\* The same for a step of another service.
LEMMA FriendOthers ==
    ASSUME Calls, Calls', Friends, UNCHANGED friendVars, faults <= faults',
           NEW ops, Within(ops), ops \cap FriendOp = {}
    PROVE  Friends'
<1>1. \A t \in Slot : req'[t] = req[t] \/ FriendReq(req[t])'
  BY DEF Within, FriendOp, FriendReq, Unsettled
<1>2. \A x \in answers' : x \in answers \/ FriendAnswer(x)'
  BY DEF Within, FriendAnswer, FriendOp
<1>3. friends' = friends /\ accepts' = accepts /\ settled' = settled /\ faults' \in 0..MaxFaults
  BY DEF friendVars, Calls
<1> QED
  BY <1>1, <1>2, <1>3, FriendKept

\* The answers.
LEMMA FriendCodes ==
    /\ SendStatus("ok") = 201 /\ SendStatus("ALREADY_EXISTS") = 409
    /\ SendStatus("SELF_REQUEST") = 400 /\ SendStatus("PERSIST_FAILED") = 400
    /\ SendStatus("TARGET_NOT_FOUND") \in {400, 404}
    /\ RespondStatus("ok") = 200 /\ RespondStatus("NOT_FOUND") = 404
    /\ RespondStatus("FORBIDDEN") = 403 /\ RespondStatus("NOT_PENDING") = 400
    /\ RespondStatus("UPDATE_FAILED") = 400
    /\ {200, 201, 400, 403, 404, 409} \subseteq Code
  BY DEF SendStatus, RespondStatus, Code

\* A reply that leaves im_friends alone and claims nothing that is not so.
LEMMA FriendReplies ==
    ASSUME Calls, Friends, NEW s \in Slot, req[s].op \in FriendOp, UNCHANGED friendVars,
           UNCHANGED userVars, faults' \in 0..MaxFaults, faults <= faults',
           NEW status \in Code, Reply(s, status), FriendAnswer(AnswerOf(req[s], status))
    PROVE  Calls' /\ Friends' /\ Within(FriendOp)
<1>1. /\ Registered' = Registered /\ req[s].op # "idle" /\ friends' = friends
      /\ accepts' = accepts /\ settled' = settled
  BY DEF userVars, friendVars, Registered, FriendOp
<1>2. /\ Calls' /\ Within(FriendOp) /\ req'[s] = NoReq
      /\ \A t \in Slot : t # s => req'[t] = req[t]
      /\ \A x \in answers' : x \in answers \/ x = AnswerOf(req[s], status)
  BY <1>1, ReplyCalls
<1>3. FriendReq(req[s])'
  BY <1>2, NoReqType DEF FriendReq, Unsettled
<1>4. RowsStay
  BY <1>1, CallAssumption DEF RowsStay, Calls
<1>5. \A x \in answers' : x \in answers \/ FriendAnswer(x)'
  BY <1>2, <1>4, FriendStable
<1> QED
  BY <1>1, <1>2, <1>3, <1>5, FriendKept

\* A step that moves a request on to where it may rely on more.
LEMMA FriendGoto ==
    ASSUME Calls, Friends, NEW s \in Slot, req[s].op \in FriendOp, UNCHANGED friendVars,
           UNCHANGED userVars, faults' \in 0..MaxFaults, faults <= faults',
           NEW pc \in Pc \ {"none"}, Goto(s, pc),
           req[s].op = "befriend" /\ pc = "create" /\ req[s].at = 1 => faults' > 0,
           req[s].op = "respond" /\ pc = "update" =>
               /\ \E q \in friends : q.id = req[s].id /\ q.target = req[s].who
               /\ \A x \in settled : x.id # req[s].id
    PROVE  Calls' /\ Friends' /\ Within(FriendOp)
<1>1. /\ Registered' = Registered /\ req[s].op # "idle" /\ friends' = friends
      /\ accepts' = accepts /\ settled' = settled
  BY DEF userVars, friendVars, Registered, FriendOp
<1>2. /\ Calls' /\ Within(FriendOp) /\ answers' = answers
      /\ req'[s] = [req[s] EXCEPT !.pc = pc]
      /\ \A t \in Slot : t # s => req'[t] = req[t]
  BY <1>1, GotoCalls
<1>3. req[s] \in AnyReq /\ FriendReq(req[s])
  BY DEF Calls, Friends
<1>4. /\ req'[s].op = req[s].op /\ req'[s].pc = pc /\ req'[s].who = req[s].who
      /\ req'[s].to = req[s].to /\ req'[s].id = req[s].id /\ req'[s].flag = req[s].flag
      /\ req'[s].at = req[s].at
  BY <1>2, <1>3 DEF AnyReq
<1>5. \A a, b : find_relationship(a, b)' = find_relationship(a, b)
  BY <1>1 DEF find_relationship
<1>6. FriendReq(req[s])'
  BY <1>1, <1>3, <1>4, <1>5 DEF FriendReq, Unsettled
<1> QED
  BY <1>1, <1>2, <1>6, FriendKept

\* A friend request begins and notes whether the users have a row.
LEMMA SendRequestStep ==
    ASSUME Calls, Users, Friends, NEW s \in Slot, SendRequest(s), UNCHANGED userVars
    PROVE  Calls' /\ Friends' /\ Within(FriendOp) /\ faults' = faults
<1> DEFINE seen(a, b) == IF find_relationship(a, b) = {} THEN 0 ELSE 1
<1>1. PICK a \in Registered, b \in Account :
         Begin(s, [NoReq EXCEPT !.op = "befriend", !.pc = "target", !.who = a, !.to = b,
                                !.at = seen(a, b)])
  BY DEF SendRequest
<1> DEFINE r == [NoReq EXCEPT !.op = "befriend", !.pc = "target", !.who = a, !.to = b,
                              !.at = seen(a, b)]
<1>0. a \in Account /\ seen(a, b) \in {0, 1} /\ (seen(a, b) = 1 => find_relationship(a, b) # {})
  BY DEF Registered, Users
<1> HIDE DEF seen
<1>2. r \in AnyReq
  <2>1. "target" \in Pc /\ "befriend" \in FriendOp /\ seen(a, b) \in Nat
    BY <1>0 DEF Pc, FriendOp
  <2> DEFINE r0 == [NoReq EXCEPT !.op = "befriend", !.pc = "target", !.who = a]
  <2>2. r0 \in AnyReq
    BY <1>0, <2>1, NoReqType DEF AnyReq
  <2>3. r = [r0 EXCEPT !.to = b, !.at = seen(a, b)]
    OBVIOUS
  <2> HIDE DEF r0
  <2> QED
    BY <2>1, <2>2, <2>3 DEF AnyReq
<1>3. r.op = "befriend" /\ r.pc = "target" /\ r.who = a /\ r.to = b /\ r.at = seen(a, b)
  BY DEF NoReq
<1>4. friends' = friends /\ accepts' = accepts /\ settled' = settled /\ users' = users
  BY DEF SendRequest, friendVars, userVars
<1> HIDE DEF r
<1>5. Busy(r) /\ r.op \in FriendOp
  BY <1>0, <1>3 DEF Busy, FriendOp
<1>6. /\ Calls' /\ Within(FriendOp) /\ faults' = faults /\ answers' = answers
      /\ req'[s] = [r EXCEPT !.open = TRUE]
      /\ \A t \in Slot : t # s => req'[t] = req[t]
  BY <1>1, <1>2, <1>4, <1>5, BeginCalls DEF r
<1>7. find_relationship(a, b)' = find_relationship(a, b)
  BY <1>4 DEF find_relationship
<1>8. FriendReq(req[s])'
  BY <1>0, <1>2, <1>3, <1>6, <1>7, AskedFor DEF FriendReq, Unsettled
<1>9. faults' \in 0..MaxFaults /\ faults <= faults' /\ accepts \subseteq accepts'
  BY <1>4, <1>6 DEF Calls
<1> QED
  BY <1>4, <1>6, <1>8, <1>9, FriendKept

\* The lookup of the target claims nothing about rows.
LEMMA SendTargetStep ==
    ASSUME Calls, Friends, NEW s \in Slot, SendTarget(s), UNCHANGED userVars
    PROVE  Calls' /\ Friends' /\ Within(FriendOp) /\ faults <= faults'
<1>1. At(s, "befriend", "target") /\ UNCHANGED friendVars
  BY DEF SendTarget
<1>2. faults' \in 0..MaxFaults /\ faults <= faults'
  BY DbCounts DEF SendTarget, Calls
<1>3. req[s].op = "befriend" /\ req[s].op \in FriendOp
  BY <1>1 DEF At, FriendOp
<1>4. Goto(s, "relation") \/ \E status \in {400, 404} : Reply(s, status)
  BY FriendCodes DEF SendTarget
<1>5. CASE Goto(s, "relation")
  BY <1>1, <1>2, <1>3, <1>5, FriendGoto DEF Pc
<1>6. CASE \E status \in {400, 404} : Reply(s, status)
  <2>1. PICK status \in {400, 404} : Reply(s, status)
    BY <1>6
  <2>2. FriendAnswer(AnswerOf(req[s], status)) /\ status \in Code
    BY <1>3 DEF FriendAnswer, AnswerOf, Code
  <2> QED
    BY <1>1, <1>2, <1>3, <2>1, <2>2, FriendReplies
<1> QED
  BY <1>2, <1>4, <1>5, <1>6

\* The lookup of a row: past it with a row there, it has failed and was counted.
LEMMA SendRelationStep ==
    ASSUME Calls, Friends, NEW s \in Slot, SendRelation(s), UNCHANGED userVars
    PROVE  Calls' /\ Friends' /\ Within(FriendOp) /\ faults <= faults'
<1>1. PICK d \in ReadOutcome :
        /\ At(s, "befriend", "relation") /\ Db(d)
        /\ IF d = "ok" /\ find_relationship(req[s].who, req[s].to) # {}
             THEN Reply(s, SendStatus("ALREADY_EXISTS"))
             ELSE Goto(s, "create")
        /\ UNCHANGED friendVars
  BY DEF SendRelation
<1>2. faults' \in 0..MaxFaults /\ faults <= faults' /\ (d # "ok" => faults' > 0)
  BY <1>1, DbCounts
<1>3. req[s].op = "befriend" /\ req[s].op \in FriendOp
  BY <1>1 DEF At, FriendOp
<1>4. CASE d = "ok" /\ find_relationship(req[s].who, req[s].to) # {}
  <2>1. Reply(s, 409) /\ FriendAnswer(AnswerOf(req[s], 409)) /\ 409 \in Code
    BY <1>1, <1>3, <1>4, FriendCodes DEF FriendAnswer, AnswerOf
  <2> QED
    BY <1>1, <1>2, <1>3, <2>1, FriendReplies
<1>5. CASE ~(d = "ok" /\ find_relationship(req[s].who, req[s].to) # {})
  <2>1. Goto(s, "create") /\ "create" \in Pc \ {"none"} /\ "create" # "update"
    BY <1>1, <1>5 DEF Pc
  <2>2. req[s].at = 1 => faults' > 0
    BY <1>2, <1>3, <1>5 DEF Friends, FriendReq
  <2> QED
    BY <1>1, <1>2, <1>3, <2>1, <2>2, FriendGoto
<1> QED
  BY <1>4, <1>5

\* The insert of a friend request adds one pending row with the next id.
LEMMA SendCreateStep ==
    ASSUME Calls, Friends, NEW s \in Slot, SendCreate(s), UNCHANGED userVars
    PROVE  Calls' /\ Friends' /\ Within(FriendOp) /\ faults <= faults'
<1> DEFINE stored(d) == d # "fail" /\ find_pair(req[s].who, req[s].to) = {}
           row == FriendRow(Cardinality(friends) + 1, req[s].who, req[s].to, "PENDING")
           status(d) == SendStatus(IF stored(d) /\ d = "ok" THEN "ok" ELSE "PERSIST_FAILED")
<1>1. PICK d \in WriteOutcome :
        /\ At(s, "befriend", "create") /\ Db(d)
        /\ friends' = IF stored(d) THEN friends \cup {row} ELSE friends
        /\ Reply(s, status(d))
        /\ UNCHANGED <<accepts, decisions, settled>>
  BY DEF SendCreate
<1>2. faults' \in 0..MaxFaults /\ faults <= faults'
  BY <1>1, DbCounts
<1>3. /\ req[s].op = "befriend" /\ req[s].op \in FriendOp /\ req[s].op # "idle"
      /\ req[s] \in AnyReq /\ req[s].who \in Account /\ req[s].to \in Account
      /\ Registered' = Registered
  BY <1>1, InHand DEF At, FriendOp, Friends, FriendReq, Busy, userVars, Registered
<1>4. CASE ~stored(d)
  <2>1. Reply(s, 400) /\ UNCHANGED friendVars /\ 400 \in Code
        /\ FriendAnswer(AnswerOf(req[s], 400))
    BY <1>1, <1>3, <1>4, FriendCodes DEF friendVars, FriendAnswer, AnswerOf
  <2> QED
    BY <1>2, <1>3, <2>1, FriendReplies
<1>5. CASE stored(d)
  <2>0. Cardinality(friends) \in Nat /\ friends' = friends \cup {row}
    BY <1>1, <1>5, FS_CardinalityType DEF Friends
  <2>1. row.id = Cardinality(friends) + 1 /\ row.requester = req[s].who /\ row.target = req[s].to
        /\ row.status = "PENDING"
        /\ row \in [id : Nat \ {0}, requester : Account, target : Account, status : Status]
    BY <1>3, <2>0 DEF FriendRow, Status
  <2> HIDE DEF row
  <2>2. row \notin friends /\ \A r \in friends : r.id # row.id
    BY <2>0, <2>1 DEF Friends
  <2>3. IsFiniteSet(friends') /\ Cardinality(friends') = Cardinality(friends) + 1
    BY <2>0, <2>2, FS_AddElement DEF Friends
  <2>4. /\ friends' \subseteq [id : Nat \ {0}, requester : Account, target : Account, status : Status]
        /\ \A r \in friends' : r.id <= Cardinality(friends')
        /\ \A r, q \in friends' : r.id = q.id => r = q
    BY <2>0, <2>1, <2>2, <2>3 DEF Friends
  <2>5. \A r \in friends' : r.status = "ACCEPTED" => <<r.target, r.id>> \in accepts'
    BY <1>1, <2>0, <2>1 DEF Friends
  <2>6. RowsStay
    BY <1>1, <1>2, <2>0, CallAssumption DEF RowsStay, Calls
  <2>7. status(d) \in {201, 400} /\ status(d) \in Code
    BY FriendCodes
  <2>8. /\ Calls' /\ Within(FriendOp) /\ req'[s] = NoReq
        /\ \A t \in Slot : t # s => req'[t] = req[t]
        /\ \A x \in answers' : x \in answers \/ x = AnswerOf(req[s], status(d))
    <3> HIDE DEF status
    <3> QED
      BY <1>1, <1>2, <1>3, <2>7, ReplyCalls
  <2>9. ASSUME NEW t \in Slot PROVE FriendReq(req[t])'
    <3>1. CASE t = s
      BY <2>8, <3>1, NoReqType DEF FriendReq, Unsettled
    <3>2. CASE t # s
      <4>1. PICK r : r = req[t]
        OBVIOUS
      <4>2. FriendReq(r) /\ Unsettled(r)' /\ req'[t] = r
        BY <1>1, <2>8, <3>2, <4>1 DEF Friends, FriendReq, Unsettled
      <4>3. FriendReq(r)'
        BY <2>6, <4>2, FriendStable
      <4> QED
        BY <4>2, <4>3
    <3> QED
      BY <3>1, <3>2
  <2>10. \A x \in answers' : FriendAnswer(x)'
    <3>1. \A x \in answers : FriendAnswer(x)'
      BY <2>6, FriendStable DEF Friends
    <3>2. ASSUME NEW x, x = AnswerOf(req[s], status(d)) PROVE FriendAnswer(x)'
      <4>1. x.op = "befriend" /\ x.who = req[s].who /\ x.to = req[s].to /\ x.status \in {201, 400}
        BY <1>3, <2>7, <3>2 DEF AnswerOf
      <4>2. find_pair(x.who, x.to)' # {}
        BY <2>0, <2>1, <4>1 DEF find_pair
      <4> QED
        BY <4>1, <4>2 DEF FriendAnswer
    <3> QED
      BY <2>8, <3>1, <3>2
  <2>11. DecisionsHold' /\ \A x \in settled' : x.status # "PENDING"
    BY <1>1, <2>0 DEF Friends, DecisionsHold
  <2> QED
    BY <1>2, <2>3, <2>4, <2>5, <2>8, <2>9, <2>10, <2>11 DEF Friends
<1> QED
  BY <1>4, <1>5

\* A response begins.
LEMMA RespondStep ==
    ASSUME Calls, Users, Friends, NEW s \in Slot, Respond(s), UNCHANGED userVars
    PROVE  Calls' /\ Friends' /\ Within(FriendOp) /\ faults' = faults
<1>1. PICK a \in Registered, i \in 1..(Cardinality(friends) + 1), accept \in BOOLEAN :
        /\ Begin(s, [NoReq EXCEPT !.op = "respond", !.pc = "find", !.who = a, !.id = i,
                                  !.flag = accept])
        /\ accepts' = IF accept THEN accepts \cup {<<a, i>>} ELSE accepts
        /\ UNCHANGED <<friends, decisions, settled>>
  BY DEF Respond
<1> DEFINE r == [NoReq EXCEPT !.op = "respond", !.pc = "find", !.who = a, !.id = i,
                              !.flag = accept]
<1>0. a \in Account /\ i \in Nat
  BY FS_CardinalityType DEF Registered, Users, Friends
<1>2. r \in AnyReq
  <2>1. "find" \in Pc /\ "respond" \in FriendOp
    BY DEF Pc, FriendOp
  <2> DEFINE r0 == [NoReq EXCEPT !.op = "respond", !.pc = "find", !.who = a, !.id = i]
  <2>2. r0 \in AnyReq
    BY <1>0, <2>1, NoReqType DEF AnyReq
  <2>3. r = [r0 EXCEPT !.flag = accept]
    OBVIOUS
  <2> HIDE DEF r0
  <2> QED
    BY <2>1, <2>2, <2>3 DEF AnyReq
<1>3. r.op = "respond" /\ r.pc = "find" /\ r.who = a /\ r.id = i /\ r.flag = accept
  BY DEF NoReq
<1>4. friends' = friends /\ accepts \subseteq accepts' /\ settled' = settled /\ users' = users
      /\ (accept => <<a, i>> \in accepts')
  BY <1>1 DEF userVars
<1> HIDE DEF r
<1>5. Busy(r) /\ r.op \in FriendOp
  BY <1>0, <1>3 DEF Busy, FriendOp
<1>6. /\ Calls' /\ Within(FriendOp) /\ faults' = faults /\ answers' = answers
      /\ req'[s] = [r EXCEPT !.open = TRUE]
      /\ \A t \in Slot : t # s => req'[t] = req[t]
  BY <1>1, <1>2, <1>4, <1>5, BeginCalls DEF r
<1>8. FriendReq(req[s])'
  BY <1>0, <1>2, <1>3, <1>4, <1>6, AskedFor DEF FriendReq, Unsettled
<1>9. faults' \in 0..MaxFaults /\ faults <= faults' /\ accepts \subseteq accepts'
  BY <1>4, <1>6 DEF Calls
<1> QED
  BY <1>4, <1>6, <1>8, <1>9, FriendKept

\* The lookup of a response: past it, the row is the user's and not settled.
LEMMA RespondFindStep ==
    ASSUME Calls, Friends, NEW s \in Slot, RespondFind(s), UNCHANGED userVars
    PROVE  Calls' /\ Friends' /\ Within(FriendOp) /\ faults <= faults'
<1> DEFINE found(d) == IF d = "ok" THEN {r \in friends : r.id = req[s].id} ELSE {}
<1>1. PICK d \in ReadOutcome :
        /\ At(s, "respond", "find") /\ Db(d)
        /\ \/ found(d) = {} /\ Reply(s, RespondStatus("NOT_FOUND"))
           \/ \E r \in found(d) :
                IF r.target # req[s].who THEN Reply(s, RespondStatus("FORBIDDEN"))
                ELSE IF r.status # "PENDING" THEN Reply(s, RespondStatus("NOT_PENDING"))
                ELSE Goto(s, "update")
        /\ UNCHANGED friendVars
  BY DEF RespondFind
<1>2. faults' \in 0..MaxFaults /\ faults <= faults'
  BY <1>1, DbCounts
<1>3. req[s].op = "respond" /\ req[s].op \in FriendOp
  BY <1>1 DEF At, FriendOp
<1>4. CASE \E status \in {400, 404} : Reply(s, status)
  <2>1. PICK status \in {400, 404} : Reply(s, status)
    BY <1>4
  <2>2. FriendAnswer(AnswerOf(req[s], status)) /\ status \in Code
    BY <1>3 DEF FriendAnswer, AnswerOf, Code
  <2> QED
    BY <1>1, <1>2, <1>3, <2>1, <2>2, FriendReplies
<1>5. ASSUME NEW r \in found(d), r.target # req[s].who, Reply(s, 403)
      PROVE  Calls' /\ Friends' /\ Within(FriendOp)
  <2>1. FriendAnswer(AnswerOf(req[s], 403)) /\ 403 \in Code
    BY <1>3, <1>5 DEF FriendAnswer, AnswerOf, Code
  <2> QED
    BY <1>1, <1>2, <1>3, <1>5, <2>1, FriendReplies
<1>6. ASSUME NEW r \in found(d), r.target = req[s].who, r.status = "PENDING", Goto(s, "update")
      PROVE  Calls' /\ Friends' /\ Within(FriendOp)
  <2>1. r \in friends /\ r.id = req[s].id
    BY <1>6
  <2>2. \A x \in settled : x.id # req[s].id
    BY <1>6, <2>1 DEF Friends, DecisionsHold
  <2>3. "update" \in Pc \ {"none"} /\ "update" # "create"
    BY DEF Pc
  <2> QED
    BY <1>1, <1>2, <1>3, <1>6, <2>1, <2>2, <2>3, FriendGoto
<1> HIDE DEF found
<1> QED
  BY <1>1, <1>2, <1>4, <1>5, <1>6, FriendCodes

\* The update of a response decides the one row of its id, by its target's consent.
LEMMA RespondUpdateStep ==
    ASSUME Calls, Friends, NEW s \in Slot, RespondUpdate(s), UNCHANGED userVars
    PROVE  Calls' /\ Friends' /\ Within(FriendOp) /\ faults <= faults'
<1> DEFINE me == req[s]
           v == IF me.flag THEN "ACCEPTED" ELSE "REJECTED"
           Put(r) == IF r.id = me.id THEN [r EXCEPT !.status = v] ELSE r
           status(d) == RespondStatus(IF d = "ok" THEN "ok" ELSE "UPDATE_FAILED")
<1>1. PICK d \in WriteOutcome :
        /\ At(s, "respond", "update") /\ Db(d)
        /\ \/ d = "fail" /\ UNCHANGED <<friends, decisions, settled>>
           \/ /\ d # "fail" /\ friends' = {Put(r) : r \in friends}
              /\ settled' = IF OtherResponse(s) THEN settled ELSE settled \cup {Decision(s)}
        /\ Reply(s, status(d))
        /\ UNCHANGED accepts
  BY DEF RespondUpdate, Decision
<1>2. faults' \in 0..MaxFaults /\ faults <= faults'
  BY <1>1, DbCounts
<1>3. /\ me.op = "respond" /\ me.pc = "update" /\ me.op \in FriendOp /\ me.op # "idle"
      /\ FriendReq(me) /\ Registered' = Registered
  BY <1>1 DEF At, FriendOp, Friends, userVars, Registered
<1>4. status(d) \in {200, 400} /\ status(d) \in Code
  BY FriendCodes
<1>5. d = "fail" => status(d) = 400
  BY FriendCodes
<1> HIDE DEF status
<1>6. CASE d = "fail"
  <2>1. UNCHANGED friendVars
    BY <1>1, <1>6 DEF friendVars
  <2>2. FriendAnswer(AnswerOf(me, status(d)))
    BY <1>3, <1>5, <1>6 DEF FriendAnswer, AnswerOf
  <2> QED
    BY <1>1, <1>2, <1>3, <1>4, <2>1, <2>2, FriendReplies
<1>7. CASE d # "fail"
  <2>1. /\ friends' = {Put(r) : r \in friends}
        /\ settled' = IF OtherResponse(s) THEN settled ELSE settled \cup {Decision(s)}
    BY <1>1, <1>7
  <2>12. Decision(s).id = me.id /\ Decision(s).status = v
    BY DEF Decision
  <2>2. ASSUME NEW r \in friends
        PROVE  /\ Put(r) \in [id : Nat \ {0}, requester : Account, target : Account, status : Status]
               /\ Put(r).id = r.id /\ Put(r).requester = r.requester /\ Put(r).target = r.target
               /\ Put(r).status = IF r.id = me.id THEN v ELSE r.status
    <3>1. r \in [id : Nat \ {0}, requester : Account, target : Account, status : Status]
          /\ v \in Status
      BY DEF Friends, Status
    <3> QED
      BY <3>1
  <2>3. v # "PENDING" /\ (v = "ACCEPTED" => me.flag)
    OBVIOUS
  <2> HIDE DEF Put, v
  <2>4. IsFiniteSet(friends') /\ Cardinality(friends') = Cardinality(friends)
    <3> DEFINE F == [r \in friends |-> Put(r)]
    <3>1. F \in Surjection(friends, friends')
      BY <2>1 DEF Surjection
    <3>2. \A r, q \in friends : F[r] = F[q] => r = q
      BY <2>2 DEF Friends
    <3>3. F \in Injection(friends, friends')
      <4>1. F \in [friends -> friends']
        BY <2>1
      <4> HIDE DEF F
      <4> QED
        BY <3>2, <4>1 DEF Injection, IsInjective
    <3> HIDE DEF F
    <3> QED
      BY <3>1, <3>3, FS_Surjection DEF Friends
  <2>5. /\ friends' \subseteq [id : Nat \ {0}, requester : Account, target : Account, status : Status]
        /\ \A r \in friends' : r.id <= Cardinality(friends')
    <3>1. \A r \in friends : r.id <= Cardinality(friends')
      BY <2>4 DEF Friends
    <3>2. \A q \in friends' : \E r \in friends : q = Put(r)
      BY <2>1
    <3> QED
      BY <2>2, <3>1, <3>2
  <2>11. \A r, q \in friends' : r.id = q.id => r = q
    <3> SUFFICES ASSUME NEW r \in friends, NEW q \in friends, Put(r).id = Put(q).id
                 PROVE  Put(r) = Put(q)
      BY <2>1
    <3>1. r = q
      BY <2>2 DEF Friends
    <3> QED
      BY <3>1
  <2>6. \A r \in friends' : r.status = "ACCEPTED" => <<r.target, r.id>> \in accepts'
    <3> SUFFICES ASSUME NEW r \in friends, Put(r).status = "ACCEPTED"
                 PROVE  <<Put(r).target, Put(r).id>> \in accepts
      BY <1>1, <2>1
    <3>1. CASE r.id = me.id
      <4>1. me.flag /\ <<me.who, me.id>> \in accepts
        BY <1>3, <2>2, <2>3, <3>1 DEF FriendReq
      <4>2. r.target = me.who
        BY <1>3, <3>1 DEF FriendReq, Friends
      <4> QED
        BY <2>2, <3>1, <4>1, <4>2
    <3>2. CASE r.id # me.id
      BY <2>2, <3>2 DEF Friends
    <3> QED
      BY <3>1, <3>2
  <2>7. RowsStay
    <3>1. ASSUME NEW r \in friends
          PROVE  \E q \in friends' :
                   /\ q.id = r.id /\ q.requester = r.requester /\ q.target = r.target
                   /\ r.status # "PENDING" => q.status # "PENDING"
      <4>1. Put(r) \in friends'
        BY <2>1
      <4> QED
        BY <2>2, <2>3, <4>1
    <3> QED
      BY <1>1, <1>2, <3>1, CallAssumption DEF RowsStay, Calls
  <2>8. /\ Calls' /\ Within(FriendOp) /\ req'[s] = NoReq
        /\ \A t \in Slot : t # s => req'[t] = req[t]
        /\ \A x \in answers' : x \in answers \/ x = AnswerOf(me, status(d))
    BY <1>1, <1>2, <1>3, <1>4, ReplyCalls
  <2>9. ASSUME NEW t \in Slot PROVE FriendReq(req[t])'
    <3>1. CASE t = s
      BY <2>8, <3>1, NoReqType DEF FriendReq, Unsettled
    <3>2. CASE t # s
      <4>1. PICK r : r = req[t]
        OBVIOUS
      <4>2. FriendReq(r) /\ req'[t] = r
        BY <2>8, <3>2, <4>1 DEF Friends
      <4>3. Unsettled(r)'
        BY <2>1, <2>12, <3>2, <4>1, <4>2 DEF FriendReq, Unsettled, OtherResponse, At
      <4>4. FriendReq(r)'
        BY <2>7, <4>2, <4>3, FriendStable
      <4> QED
        BY <4>2, <4>4
    <3> QED
      BY <3>1, <3>2
  <2>13. PICK row \in friends : row.id = me.id /\ row.target = me.who
    BY <1>3 DEF FriendReq
  <2>14. /\ Put(row) \in friends' /\ Put(row).id = me.id /\ Put(row).target = me.who
         /\ Put(row).status = v
    BY <2>1, <2>2, <2>13
  <2>10. \A x \in answers' : FriendAnswer(x)'
    <3>1. ASSUME NEW x, x = AnswerOf(me, status(d)) PROVE FriendAnswer(x)'
      <4>1. x.op = "respond" /\ x.id = me.id /\ x.who = me.who /\ x.status \in {200, 400}
        BY <1>3, <1>4, <3>1 DEF AnswerOf
      <4> QED
        BY <2>3, <2>14, <4>1 DEF FriendAnswer
    <3> QED
      BY <2>7, <2>8, <3>1, FriendStable DEF Friends
  <2>15. DecisionsHold' /\ \A x \in settled' : x.status # "PENDING"
    <3> SUFFICES ASSUME NEW x \in settled'
                 PROVE  /\ \E r \in friends' : r.id = x.id /\ r.status = x.status
                        /\ x.status # "PENDING"
      BY DEF DecisionsHold
    <3>1. CASE x \in settled
      <4>1. PICK r \in friends : r.id = x.id /\ r.status = x.status
        BY <3>1 DEF Friends, DecisionsHold
      <4>2. x.id # me.id /\ x.status # "PENDING"
        BY <1>3, <3>1 DEF FriendReq, Unsettled, Friends
      <4> QED
        BY <2>1, <2>2, <4>1, <4>2
    <3>2. CASE x = Decision(s)
      BY <2>3, <2>12, <2>14, <3>2
    <3> QED
      BY <2>1, <3>1, <3>2
  <2> QED
    BY <1>2, <2>4, <2>5, <2>6, <2>8, <2>9, <2>10, <2>11, <2>15 DEF Friends
<1> QED
  BY <1>6, <1>7

\* A deadline claims nothing.
LEMMA FriendDeadlineStep ==
    ASSUME Calls, Friends, NEW s \in Slot, FriendDeadline(s), UNCHANGED userVars
    PROVE  Calls' /\ Friends' /\ Within(FriendOp) /\ faults' = faults
<1>1. /\ req[s].op \in FriendOp /\ req[s].op # "idle" /\ Deadline(s, 400)
      /\ friends' = friends /\ accepts' = accepts /\ settled' = settled
      /\ users' = users /\ req[s] \in AnyReq /\ 400 \in Code
  BY DEF FriendDeadline, FriendOp, friendVars, userVars, Calls, Code
<1>2. /\ Calls' /\ Within(FriendOp) /\ faults' = faults
      /\ req'[s] = [req[s] EXCEPT !.open = FALSE]
      /\ \A t \in Slot : t # s => req'[t] = req[t]
      /\ \A x \in answers' : x \in answers \/ x = AnswerOf(req[s], 400)
  BY <1>1, DeadlineCalls
<1>3. FriendReq(req[s]) /\ \A a, b : find_relationship(a, b)' = find_relationship(a, b)
  BY <1>1 DEF Friends, find_relationship
<1>4. FriendReq(req[s])'
  BY <1>1, <1>2, <1>3 DEF FriendReq, Unsettled, AnyReq
<1>5. ASSUME NEW x, x = AnswerOf(req[s], 400) PROVE FriendAnswer(x)'
  BY <1>5 DEF FriendAnswer, AnswerOf
<1>6. faults' \in 0..MaxFaults /\ faults <= faults' /\ accepts \subseteq accepts'
  BY <1>1, <1>2 DEF Calls
<1> QED
  BY <1>1, <1>2, <1>4, <1>5, <1>6, FriendKept

\* Every step of FriendService.
LEMMA FriendStep ==
    ASSUME Calls, Users, Friends, NEW s \in Slot, FriendNext(s), UNCHANGED userVars
    PROVE  Calls' /\ Friends' /\ Within(FriendOp) /\ faults <= faults'
<1>1. faults' = faults => faults <= faults'
  BY DEF Calls
<1> QED
  BY <1>1, SendRequestStep, SendTargetStep, SendRelationStep, SendCreateStep, RespondStep,
     RespondFindStep, RespondUpdateStep, FriendDeadlineStep DEF FriendNext

\* Only SendCreate adds a row, that of its request, and with a row of the two users there
\* it does so only if it came before that row or a lookup failed.
LEMMA ReverseStep ==
    ASSUME Calls, Friends, NEW s \in Slot, FriendNext(s), NEW r \in friends',
           ~\E q \in friends : q.id = r.id
    PROVE  \/ faults > 0
           \/ /\ At(s, "befriend", "create") /\ req[s].at = 0
              /\ req[s].who = r.requester /\ req[s].to = r.target
<1>1. SendCreate(s)
  <2>1. CASE RespondUpdate(s)
    <3>1. r \notin friends
      OBVIOUS
    <3>2. PICK q \in friends : q.id = req[s].id
             /\ r = [q EXCEPT !.status = Decision(s).status]
      BY <2>1, <3>1 DEF RespondUpdate
    <3>3. r.id = q.id
      BY <3>2 DEF Friends
    <3> QED
      BY <3>3
  <2> QED
    BY <2>1 DEF FriendNext, SendRequest, SendTarget, SendRelation, Respond, RespondFind,
                FriendDeadline, friendVars
<1>2. At(s, "befriend", "create") /\ (req[s].at = 0 \/ faults > 0)
  BY <1>1 DEF SendCreate, At, Friends, FriendReq
<1>3. r = FriendRow(Cardinality(friends) + 1, req[s].who, req[s].to, "PENDING")
  BY <1>1 DEF SendCreate
<1>4. r.requester = req[s].who /\ r.target = req[s].to
  BY <1>3 DEF FriendRow
<1> QED
  BY <1>2, <1>4

-----------------------------------------------------------------------------
(* GroupService.                                                           *)
-----------------------------------------------------------------------------
\* What a request has seen of the tables stays so while groups and messages stay and no new
\* row makes an owner of an old group's member, or a member of a sender that did not note it.
LEMMA GroupStable ==
    ASSUME Ids \subseteq Ids', messages \subseteq messages', NEW r, GroupReq(r),
           \A m \in members' \ members : m.role # "OWNER" \/ m.group \notin Ids,
           \A m \in members' \ members : r.op = "send" /\ m.group = r.id /\ m.user = r.who => r.flag
    PROVE  GroupReq(r)'
<1>1. \A g, u : \A m \in find_member(g, u)' : m \in find_member(g, u) \/ m \in members' \ members
  BY DEF find_member
<1>2. \A g, u : \A m \in find_member(g, u)' : m.group = g /\ m.user = u
  BY DEF find_member
<1>3. r.op = "send" /\ IsMember(r.id, r.who)' => r.flag
  BY <1>1, <1>2 DEF GroupReq, IsMember
<1>4. r.op = "leave" /\ r.pc = "remove" => \A m \in find_member(r.id, r.who)' : m.role # "OWNER"
  BY <1>1, <1>2 DEF GroupReq
<1> QED
  BY <1>3, <1>4 DEF GroupReq

\* A step that leaves the tables alone disturbs the requests it moves only.
LEMMA GroupKept ==
    ASSUME Groups, groups' = groups, members' = members, messages' = messages,
           Registered \subseteq Registered', ToldOwnTimestamp',
           \A t \in Slot : req'[t] = req[t] \/ GroupReq(req[t])'
    PROVE  Groups'
<1>1. Ids' = Ids /\ \A g, u : find_member(g, u)' = find_member(g, u)
  BY DEF Ids, find_member
<1>2. \A t \in Slot : GroupReq(req[t])'
  <2> SUFFICES ASSUME NEW t \in Slot, req'[t] = req[t] PROVE GroupReq(req[t])'
    OBVIOUS
  <2>1. PICK r : r = req[t]
    OBVIOUS
  <2>2. GroupReq(r)'
    BY <1>1, <2>1, GroupStable DEF Groups
  <2> QED
    BY <2>1, <2>2
<1>3. MessagesTrue'
  BY DEF Groups, MessagesTrue, SpeakersAreMembers
<1> QED
  BY <1>1, <1>2, <1>3 DEF Groups

\* The same for a step of another service.
LEMMA GroupOthers ==
    ASSUME Groups, UNCHANGED groupVars, Registered \subseteq Registered',
           NEW ops, Within(ops), ops \cap GroupOp = {}
    PROVE  Groups'
<1>1. \A t \in Slot : req'[t] = req[t] \/ GroupReq(req[t])'
  BY DEF Within, GroupOp, GroupReq
<1>2. groups' = groups /\ members' = members /\ messages' = messages /\ ToldOwnTimestamp'
  BY DEF groupVars, Groups, MessagesTrue, ToldOwnTimestamp
<1> QED
  BY <1>1, <1>2, GroupKept

\* The answers.
LEMMA GroupCodes ==
    /\ CreateStatus("ok") \in Code /\ CreateStatus("CREATOR_NOT_FOUND") \in Code
    /\ CreateStatus("PERSIST_FAILED") \in Code
    /\ JoinStatus("ok") \in Code /\ JoinStatus("GROUP_NOT_FOUND") \in Code
    /\ JoinStatus("USER_NOT_FOUND") \in Code /\ JoinStatus("ALREADY_MEMBER") \in Code
    /\ JoinStatus("PERSIST_FAILED") \in Code
    /\ LeaveStatus("ok") \in Code /\ LeaveStatus("GROUP_NOT_FOUND") \in Code
    /\ LeaveStatus("NOT_MEMBER") \in Code /\ LeaveStatus("OWNER_CANNOT_LEAVE") \in Code
    /\ LeaveStatus("REMOVE_FAILED") \in Code
    /\ {201, 400, 403, 404, 500} \subseteq Code
  BY DEF CreateStatus, JoinStatus, LeaveStatus, Code

\* A reply that leaves the tables alone.
LEMMA GroupReplies ==
    ASSUME Calls, Groups, NEW s \in Slot, req[s].op \in GroupOp, UNCHANGED groupVars,
           UNCHANGED userVars, faults' \in 0..MaxFaults, NEW status \in Code, Reply(s, status)
    PROVE  Calls' /\ Groups' /\ Within(GroupOp)
<1>1. /\ Registered' = Registered /\ req[s].op # "idle" /\ groups' = groups /\ members' = members
      /\ messages' = messages /\ ToldOwnTimestamp'
  BY DEF userVars, groupVars, Registered, GroupOp, Groups, MessagesTrue, ToldOwnTimestamp
<1>2. /\ Calls' /\ Within(GroupOp) /\ req'[s] = NoReq
      /\ \A t \in Slot : t # s => req'[t] = req[t]
  BY <1>1, ReplyCalls
<1>3. GroupReq(req[s])'
  BY <1>2, NoReqType DEF GroupReq
<1> QED
  BY <1>1, <1>2, <1>3, GroupKept

\* A step that moves a request on to where it may rely on more.
LEMMA GroupGoto ==
    ASSUME Calls, Groups, NEW s \in Slot, req[s].op \in GroupOp, UNCHANGED groupVars,
           UNCHANGED userVars, faults' \in 0..MaxFaults, NEW pc \in Pc \ {"none"}, Goto(s, pc),
           req[s].op = "join" => req[s].id \in Ids,
           req[s].op = "leave" =>
               req[s].id \in Ids /\ \A m \in find_member(req[s].id, req[s].who) : m.role # "OWNER",
           req[s].op = "send" => pc # "readback" /\ IsMember(req[s].id, req[s].who)
    PROVE  Calls' /\ Groups' /\ Within(GroupOp)
<1>1. /\ Registered' = Registered /\ req[s].op # "idle" /\ groups' = groups /\ members' = members
      /\ messages' = messages /\ ToldOwnTimestamp'
  BY DEF userVars, groupVars, Registered, GroupOp, Groups, MessagesTrue, ToldOwnTimestamp
<1>2. /\ Calls' /\ Within(GroupOp)
      /\ req'[s] = [req[s] EXCEPT !.pc = pc]
      /\ \A t \in Slot : t # s => req'[t] = req[t]
  BY <1>1, GotoCalls
<1>3. req[s] \in AnyReq /\ GroupReq(req[s])
  BY DEF Calls, Groups
<1>4. /\ req'[s].op = req[s].op /\ req'[s].pc = pc /\ req'[s].who = req[s].who
      /\ req'[s].id = req[s].id /\ req'[s].flag = req[s].flag /\ req'[s].at = req[s].at
  BY <1>2, <1>3 DEF AnyReq
<1>5. Ids' = Ids /\ \A g, u : find_member(g, u)' = find_member(g, u) /\ IsMember(g, u)' = IsMember(g, u)
  BY <1>1 DEF Ids, find_member, IsMember
<1>6. IsMember(req[s].id, req[s].who) => req[s].id \in Ids
  BY DEF IsMember, find_member, Groups
<1>7. GroupReq(req[s])'
  BY <1>1, <1>3, <1>4, <1>5, <1>6 DEF GroupReq
<1> QED
  BY <1>1, <1>2, <1>7, GroupKept

\* ReplyMember answers one request and notes the new member in its sends in hand.
LEMMA MemberCalls ==
    ASSUME Calls, NEW s \in Slot, NEW status \in Code, NEW g, NEW stored \in BOOLEAN,
           req[s].op \in GroupOp, users' = users, faults' \in 0..MaxFaults,
           ReplyMember(s, g, stored, status)
    PROVE  /\ Calls' /\ Within(GroupOp) /\ req'[s] = NoReq
           /\ \A t \in Slot : t # s =>
                 \/ req'[t] = req[t]
                 \/ req[t].op = "send" /\ req'[t] = [req[t] EXCEPT !.flag = TRUE]
           /\ \A t \in Slot : stored /\ t # s /\ req[t].op = "send" /\ req[t].id = g
                              /\ req[t].who = req[s].who => req'[t].flag
<1>1. req \in [Slot -> AnyReq] /\ Busy(req[s]) /\ req[s].op # "idle"
  BY InHand DEF Calls, GroupOp
<1>2. /\ req' = [t \in Slot |->
                 IF t = s THEN NoReq
                 ELSE IF stored /\ req[t].op = "send" /\ req[t].id = g
                              /\ req[t].who = req[s].who
                 THEN [req[t] EXCEPT !.flag = TRUE] ELSE req[t]]
      /\ UNCHANGED <<remote, mix, started, timeouts>>
      /\ answers' \subseteq answers \cup {AnswerOf(req[s], status)}
  BY DEF ReplyMember
<1>3. ASSUME NEW r \in AnyReq PROVE [r EXCEPT !.flag = TRUE] \in AnyReq /\ [r EXCEPT !.flag = TRUE].flag
                                    /\ [r EXCEPT !.flag = TRUE].op = r.op
                                    /\ [r EXCEPT !.flag = TRUE].pc = r.pc
                                    /\ [r EXCEPT !.flag = TRUE].who = r.who
  BY DEF AnyReq
<1>4. req' \in [Slot -> AnyReq]
  BY <1>1, <1>2, <1>3, NoReqType
<1>5. ASSUME NEW t \in Slot, t # s
      PROVE  /\ \/ req'[t] = req[t]
                \/ req[t].op = "send" /\ req'[t] = [req[t] EXCEPT !.flag = TRUE]
             /\ stored /\ req[t].op = "send" /\ req[t].id = g /\ req[t].who = req[s].who
                  => req'[t].flag
             /\ req'[t].op = req[t].op /\ req'[t].pc = req[t].pc /\ req'[t].who = req[t].who
  BY <1>1, <1>2, <1>3, <1>5
<1>6. req'[s] = NoReq
  BY <1>2
<1>7. Registered' = Registered
  BY DEF Registered
<1>8. \A t \in Slot : req'[t] = NoReq \/ Busy(req[t])'
  <2> SUFFICES ASSUME NEW t \in Slot, t # s PROVE req'[t] = NoReq \/ Busy(req[t])'
    BY <1>6
  <2>1. CASE req'[t] = req[t]
    BY <1>7, <2>1 DEF Calls, Busy
  <2>2. CASE req[t].op = "send"
    BY <1>5, <1>7, <2>2, InHand DEF Busy
  <2> QED
    BY <1>5, <2>1, <2>2
<1>9. AnswerOf(req[s], status) \in [op : UserOp \cup FriendOp \cup GroupOp, who : Account,
                          to : Account \cup {Nobody}, id : Nat, status : Code]
      /\ AnswerOf(req[s], status).op = req[s].op
  BY <1>1 DEF AnswerOf, AnyReq, Busy
<1>10. Calls'
  BY <1>2, <1>4, <1>8, <1>9 DEF Calls
<1>11. Within(GroupOp)
  <2>1. \A t \in Slot : req'[t] = req[t] \/ req'[t].op \in GroupOp \cup {"idle"}
    BY <1>5, <1>6, NoReqType DEF GroupOp
  <2> QED
    BY <1>2, <1>9, <2>1 DEF Within
<1> QED
  BY <1>5, <1>6, <1>10, <1>11

\* The four operations begin.
LEMMA GroupBegins ==
    ASSUME Calls, Users, Groups, NEW s \in Slot, UNCHANGED <<userVars, groupVars>>,
           NEW r \in AnyReq, r.op \in GroupOp, r.pc \in {"creator", "group", "member", "check"},
           r.op = "join" => r.pc = "group", r.who \in Registered,
           r.op = "send" => r.at \in 1..MaxStamp /\ r.flag = IsMember(r.id, r.who),
           Begin(s, r)
    PROVE  Calls' /\ Groups' /\ Within(GroupOp) /\ faults' = faults
<1>1. /\ Registered' = Registered /\ users' = users /\ groups' = groups /\ members' = members
      /\ messages' = messages /\ ToldOwnTimestamp'
  BY DEF userVars, groupVars, Registered, Groups, MessagesTrue, ToldOwnTimestamp
<1>2. Busy(r)
  BY DEF Busy, GroupOp, Registered, Users
<1>3. /\ Calls' /\ Within(GroupOp) /\ faults' = faults
      /\ req'[s] = [r EXCEPT !.open = TRUE]
      /\ \A t \in Slot : t # s => req'[t] = req[t]
  BY <1>1, <1>2, BeginCalls
<1>4. IsMember(r.id, r.who)' = IsMember(r.id, r.who)
  BY <1>1 DEF IsMember, find_member
<1>5. r.pc \notin {"user", "add", "remove", "recheck", "store", "readback"}
  OBVIOUS
<1>6. r.op = "join" => r.pc # "member"
  OBVIOUS
<1>7. GroupReq(req[s])'
  BY <1>3, <1>4, <1>5, <1>6, AskedFor DEF GroupReq
<1> QED
  BY <1>1, <1>3, <1>7, GroupKept

\* A creation begins.
LEMMA CreateGroupStep ==
    ASSUME Calls, Users, Groups, NEW s \in Slot, CreateGroup(s), UNCHANGED userVars
    PROVE  Calls' /\ Groups' /\ Within(GroupOp) /\ faults' = faults
<1>1. PICK a \in Registered : Begin(s, [NoReq EXCEPT !.op = "create", !.pc = "creator", !.who = a])
  BY DEF CreateGroup
<1> DEFINE r == [NoReq EXCEPT !.op = "create", !.pc = "creator", !.who = a]
<1>2. a \in Account /\ "creator" \in Pc /\ "create" \in GroupOp
  BY FS_CardinalityType
     DEF Registered, Users, Groups, GroupIds, Pc, GroupOp, IsMember
<1>3. r \in AnyReq
  BY <1>2, NoReqType DEF AnyReq
<1>4. r.op = "create" /\ r.pc = "creator" /\ r.who = a
  BY DEF NoReq
<1>5. UNCHANGED <<userVars, groupVars>>
  BY DEF CreateGroup
<1>6. Begin(s, r)
  BY <1>1
<1> HIDE DEF r
<1> QED
  BY <1>2, <1>3, <1>4, <1>5, <1>6, GroupBegins

\* A join begins.
LEMMA JoinGroupStep ==
    ASSUME Calls, Users, Groups, NEW s \in Slot, JoinGroup(s), UNCHANGED userVars
    PROVE  Calls' /\ Groups' /\ Within(GroupOp) /\ faults' = faults
<1>1. PICK a \in Registered, g \in GroupIds : Begin(s, [NoReq EXCEPT !.op = "join", !.pc = "group", !.who = a, !.id = g])
  BY DEF JoinGroup
<1> DEFINE r == [NoReq EXCEPT !.op = "join", !.pc = "group", !.who = a, !.id = g]
<1>2. a \in Account /\ "group" \in Pc /\ "join" \in GroupOp /\ g \in Nat
  BY FS_CardinalityType
     DEF Registered, Users, Groups, GroupIds, Pc, GroupOp, IsMember
<1>3. r \in AnyReq
  BY <1>2, NoReqType DEF AnyReq
<1>4. r.op = "join" /\ r.pc = "group" /\ r.who = a
  BY DEF NoReq
<1>5. UNCHANGED <<userVars, groupVars>>
  BY DEF JoinGroup
<1>6. Begin(s, r)
  BY <1>1
<1> HIDE DEF r
<1> QED
  BY <1>2, <1>3, <1>4, <1>5, <1>6, GroupBegins

\* A leave begins.
LEMMA LeaveGroupStep ==
    ASSUME Calls, Users, Groups, NEW s \in Slot, LeaveGroup(s), UNCHANGED userVars
    PROVE  Calls' /\ Groups' /\ Within(GroupOp) /\ faults' = faults
<1>1. PICK a \in Registered, g \in GroupIds : Begin(s, [NoReq EXCEPT !.op = "leave", !.pc = "member", !.who = a, !.id = g])
  BY DEF LeaveGroup
<1> DEFINE r == [NoReq EXCEPT !.op = "leave", !.pc = "member", !.who = a, !.id = g]
<1>2. a \in Account /\ "member" \in Pc /\ "leave" \in GroupOp /\ g \in Nat
  BY FS_CardinalityType
     DEF Registered, Users, Groups, GroupIds, Pc, GroupOp, IsMember
<1>3. r \in AnyReq
  BY <1>2, NoReqType DEF AnyReq
<1>4. r.op = "leave" /\ r.pc = "member" /\ r.who = a
  BY DEF NoReq
<1>5. UNCHANGED <<userVars, groupVars>>
  BY DEF LeaveGroup
<1>6. Begin(s, r)
  BY <1>1
<1> HIDE DEF r
<1> QED
  BY <1>2, <1>3, <1>4, <1>5, <1>6, GroupBegins

\* A send begins and notes whether its user is a member.
LEMMA SendGroupMessageStep ==
    ASSUME Calls, Users, Groups, NEW s \in Slot, SendGroupMessage(s), UNCHANGED userVars
    PROVE  Calls' /\ Groups' /\ Within(GroupOp) /\ faults' = faults
<1>1. PICK a \in Registered, g \in GroupIds, at \in 1..MaxStamp : Begin(s, [NoReq EXCEPT !.op = "send", !.pc = "check", !.who = a, !.id = g,
                              !.at = at, !.flag = IsMember(g, a)])
  BY DEF SendGroupMessage
<1> DEFINE r == [NoReq EXCEPT !.op = "send", !.pc = "check", !.who = a, !.id = g,
                              !.at = at, !.flag = IsMember(g, a)]
<1>2. a \in Account /\ "check" \in Pc /\ "send" \in GroupOp /\ g \in Nat /\ at \in Nat /\ IsMember(g, a) \in BOOLEAN
  BY FS_CardinalityType, GroupsAssumption
     DEF Registered, Users, Groups, GroupIds, Pc, GroupOp, IsMember
<1>3. r \in AnyReq
  <2> DEFINE r0 == [NoReq EXCEPT !.op = "send", !.pc = "check", !.who = a, !.id = g]
  <2>1. r0 \in AnyReq
    BY <1>2, NoReqType DEF AnyReq
  <2>2. r = [r0 EXCEPT !.at = at, !.flag = IsMember(g, a)]
    OBVIOUS
  <2> HIDE DEF r0
  <2> QED
    BY <1>2, <2>1, <2>2 DEF AnyReq
<1>4. r.op = "send" /\ r.pc = "check" /\ r.who = a /\ r.id = g /\ r.at = at /\ r.flag = IsMember(g, a)
  BY DEF NoReq
<1>5. UNCHANGED <<userVars, groupVars>>
  BY DEF SendGroupMessage
<1>6. Begin(s, r)
  BY <1>1
<1> HIDE DEF r
<1> QED
  BY <1>2, <1>3, <1>4, <1>5, <1>6, GroupBegins

\* The lookup of the creator.
LEMMA CreateCreatorStep ==
    ASSUME Calls, Groups, NEW s \in Slot, CreateCreator(s), UNCHANGED userVars
    PROVE  Calls' /\ Groups' /\ Within(GroupOp) /\ faults <= faults'
<1>1. At(s, "create", "creator") /\ UNCHANGED groupVars
  BY DEF CreateCreator
<1>2. faults' \in 0..MaxFaults /\ faults <= faults'
  BY DbCounts DEF CreateCreator
<1>3. req[s].op = "create" /\ req[s].pc = "creator" /\ req[s].op \in GroupOp /\ GroupReq(req[s])
  BY <1>1 DEF At, GroupOp, Groups
<1>4. Goto(s, "persist") \/ \E status \in Code : Reply(s, status)
  BY GroupCodes DEF CreateCreator
<1>5. CASE Goto(s, "persist")
  <2>1. "persist" \in Pc \ {"none"} /\ "persist" # "readback"
    BY DEF Pc
  <2> QED
    BY <1>1, <1>2, <1>3, <1>4, <1>5, <2>1, GroupGoto
<1>6. CASE \E status \in Code : Reply(s, status)
  BY <1>1, <1>2, <1>3, <1>6, GroupReplies
<1> QED
  BY <1>2, <1>4, <1>5, <1>6

\* The lookup of the group: past it, the group exists.
LEMMA JoinGroupFindStep ==
    ASSUME Calls, Groups, NEW s \in Slot, JoinGroupFind(s), UNCHANGED userVars
    PROVE  Calls' /\ Groups' /\ Within(GroupOp) /\ faults <= faults'
<1>1. At(s, "join", "group") /\ UNCHANGED groupVars
  BY DEF JoinGroupFind
<1>2. faults' \in 0..MaxFaults /\ faults <= faults'
  BY DbCounts DEF JoinGroupFind
<1>3. req[s].op = "join" /\ req[s].pc = "group" /\ req[s].op \in GroupOp /\ GroupReq(req[s])
  BY <1>1 DEF At, GroupOp, Groups
<1>4. \/ Goto(s, "user") /\ req[s].id \in Ids
      \/ \E status \in Code : Reply(s, status)
  BY GroupCodes DEF JoinGroupFind, find_group_by_id, Ids
<1>5. CASE Goto(s, "user") /\ req[s].id \in Ids
  <2>1. "user" \in Pc \ {"none"} /\ "user" # "readback"
    BY DEF Pc
  <2> QED
    BY <1>1, <1>2, <1>3, <1>4, <1>5, <2>1, GroupGoto
<1>6. CASE \E status \in Code : Reply(s, status)
  BY <1>1, <1>2, <1>3, <1>6, GroupReplies
<1> QED
  BY <1>2, <1>4, <1>5, <1>6

\* The lookup of the user; groups stay.
LEMMA JoinUserStep ==
    ASSUME Calls, Groups, NEW s \in Slot, JoinUser(s), UNCHANGED userVars
    PROVE  Calls' /\ Groups' /\ Within(GroupOp) /\ faults <= faults'
<1>1. At(s, "join", "user") /\ UNCHANGED groupVars
  BY DEF JoinUser
<1>2. faults' \in 0..MaxFaults /\ faults <= faults'
  BY DbCounts DEF JoinUser
<1>3. req[s].op = "join" /\ req[s].pc = "user" /\ req[s].op \in GroupOp /\ GroupReq(req[s])
  BY <1>1 DEF At, GroupOp, Groups
<1>4. /\ req[s].id \in Ids
      /\ Goto(s, "member") \/ \E status \in Code : Reply(s, status)
  BY <1>3, GroupCodes DEF JoinUser, GroupReq
<1>5. CASE Goto(s, "member")
  <2>1. "member" \in Pc \ {"none"} /\ "member" # "readback"
    BY DEF Pc
  <2> QED
    BY <1>1, <1>2, <1>3, <1>4, <1>5, <2>1, GroupGoto
<1>6. CASE \E status \in Code : Reply(s, status)
  BY <1>1, <1>2, <1>3, <1>6, GroupReplies
<1> QED
  BY <1>2, <1>4, <1>5, <1>6

\* The lookup of the member; groups stay.
LEMMA JoinMemberStep ==
    ASSUME Calls, Groups, NEW s \in Slot, JoinMember(s), UNCHANGED userVars
    PROVE  Calls' /\ Groups' /\ Within(GroupOp) /\ faults <= faults'
<1>1. At(s, "join", "member") /\ UNCHANGED groupVars
  BY DEF JoinMember
<1>2. faults' \in 0..MaxFaults /\ faults <= faults'
  BY DbCounts DEF JoinMember
<1>3. req[s].op = "join" /\ req[s].pc = "member" /\ req[s].op \in GroupOp /\ GroupReq(req[s])
  BY <1>1 DEF At, GroupOp, Groups
<1>4. /\ req[s].id \in Ids
      /\ Goto(s, "add") \/ \E status \in Code : Reply(s, status)
  BY <1>3, GroupCodes DEF JoinMember, GroupReq
<1>5. CASE Goto(s, "add")
  <2>1. "add" \in Pc \ {"none"} /\ "add" # "readback"
    BY DEF Pc
  <2> QED
    BY <1>1, <1>2, <1>3, <1>4, <1>5, <2>1, GroupGoto
<1>6. CASE \E status \in Code : Reply(s, status)
  BY <1>1, <1>2, <1>3, <1>6, GroupReplies
<1> QED
  BY <1>2, <1>4, <1>5, <1>6

\* The lookup of the member: past it, the user owns no part of the group.
LEMMA LeaveMemberStep ==
    ASSUME Calls, Groups, NEW s \in Slot, LeaveMember(s), UNCHANGED userVars
    PROVE  Calls' /\ Groups' /\ Within(GroupOp) /\ faults <= faults'
<1>1. At(s, "leave", "member") /\ UNCHANGED groupVars
  BY DEF LeaveMember
<1>2. faults' \in 0..MaxFaults /\ faults <= faults'
  BY DbCounts DEF LeaveMember
<1>3. req[s].op = "leave" /\ req[s].pc = "member" /\ req[s].op \in GroupOp /\ GroupReq(req[s])
  BY <1>1 DEF At, GroupOp, Groups
<1>4. \/ /\ Goto(s, "remove") /\ req[s].id \in Ids
         /\ \A m \in find_member(req[s].id, req[s].who) : m.role # "OWNER"
      \/ \E status \in Code : Reply(s, status)
  <2>1. ASSUME NEW r \in find_member(req[s].id, req[s].who), r.role # "OWNER"
        PROVE  req[s].id \in Ids /\ \A m \in find_member(req[s].id, req[s].who) : m.role # "OWNER"
    BY <2>1 DEF find_member, Groups
  <2> QED
    BY <2>1, GroupCodes DEF LeaveMember
<1>5. CASE /\ Goto(s, "remove") /\ req[s].id \in Ids
           /\ \A m \in find_member(req[s].id, req[s].who) : m.role # "OWNER"
  <2>1. "remove" \in Pc \ {"none"} /\ "remove" # "readback"
    BY DEF Pc
  <2> QED
    BY <1>1, <1>2, <1>3, <1>4, <1>5, <2>1, GroupGoto
<1>6. CASE \E status \in Code : Reply(s, status)
  BY <1>1, <1>2, <1>3, <1>6, GroupReplies
<1> QED
  BY <1>2, <1>4, <1>5, <1>6

\* The check of the handler: past it, the user was a member during the request.
LEMMA SendCheckStep ==
    ASSUME Calls, Groups, NEW s \in Slot, SendCheck(s), UNCHANGED userVars
    PROVE  Calls' /\ Groups' /\ Within(GroupOp) /\ faults <= faults'
<1>1. At(s, "send", "check") /\ UNCHANGED groupVars
  BY DEF SendCheck
<1>2. faults' \in 0..MaxFaults /\ faults <= faults'
  BY DbCounts DEF SendCheck
<1>3. req[s].op = "send" /\ req[s].pc = "check" /\ req[s].op \in GroupOp /\ GroupReq(req[s])
  BY <1>1 DEF At, GroupOp, Groups
<1>4. \/ Goto(s, "recheck") /\ IsMember(req[s].id, req[s].who)
      \/ \E status \in Code : Reply(s, status)
  BY GroupCodes DEF SendCheck
<1>5. CASE Goto(s, "recheck") /\ IsMember(req[s].id, req[s].who)
  <2>1. "recheck" \in Pc \ {"none"} /\ "recheck" # "readback"
    BY DEF Pc
  <2> QED
    BY <1>1, <1>2, <1>3, <1>4, <1>5, <2>1, GroupGoto
<1>6. CASE \E status \in Code : Reply(s, status)
  BY <1>1, <1>2, <1>3, <1>6, GroupReplies
<1> QED
  BY <1>2, <1>4, <1>5, <1>6

\* The check of the service, likewise.
LEMMA SendRecheckStep ==
    ASSUME Calls, Groups, NEW s \in Slot, SendRecheck(s), UNCHANGED userVars
    PROVE  Calls' /\ Groups' /\ Within(GroupOp) /\ faults <= faults'
<1>1. At(s, "send", "recheck") /\ UNCHANGED groupVars
  BY DEF SendRecheck
<1>2. faults' \in 0..MaxFaults /\ faults <= faults'
  BY DbCounts DEF SendRecheck
<1>3. req[s].op = "send" /\ req[s].pc = "recheck" /\ req[s].op \in GroupOp /\ GroupReq(req[s])
  BY <1>1 DEF At, GroupOp, Groups
<1>4. \/ Goto(s, "store") /\ IsMember(req[s].id, req[s].who)
      \/ \E status \in Code : Reply(s, status)
  BY GroupCodes DEF SendRecheck
<1>5. CASE Goto(s, "store") /\ IsMember(req[s].id, req[s].who)
  <2>1. "store" \in Pc \ {"none"} /\ "store" # "readback"
    BY DEF Pc
  <2> QED
    BY <1>1, <1>2, <1>3, <1>4, <1>5, <2>1, GroupGoto
<1>6. CASE \E status \in Code : Reply(s, status)
  BY <1>1, <1>2, <1>3, <1>6, GroupReplies
<1> QED
  BY <1>2, <1>4, <1>5, <1>6

\* A send in hand goes on relying on what it did when a member is added and it notes it.
LEMMA NotedSends ==
    ASSUME Calls, Groups, NEW t \in Slot, Ids \subseteq Ids', messages \subseteq messages',
           \/ req'[t] = req[t]
           \/ req[t].op = "send" /\ req'[t] = [req[t] EXCEPT !.flag = TRUE],
           \A m \in members' \ members : m.role # "OWNER" \/ m.group \notin Ids,
           \A m \in members' \ members :
              req[t].op = "send" /\ m.group = req[t].id /\ m.user = req[t].who => req'[t].flag
    PROVE  GroupReq(req[t])'
<1>1. PICK q : q = req'[t]
  OBVIOUS
<1>2. req[t] \in AnyReq /\ GroupReq(req[t])
  BY DEF Calls, Groups
<1>3. /\ q.op = req[t].op /\ q.pc = req[t].pc /\ q.who = req[t].who /\ q.id = req[t].id
      /\ q.at = req[t].at /\ q.msg = req[t].msg /\ (req[t].flag => q.flag)
  BY <1>1, <1>2 DEF AnyReq
<1>4. GroupReq(q)
  BY <1>2, <1>3 DEF GroupReq
<1>5. GroupReq(q)'
  BY <1>1, <1>3, <1>4, GroupStable
<1> QED
  BY <1>1, <1>5

\* A new group has a new id; its creator is its owner and only member.
LEMMA CreatePersistStep ==
    ASSUME Calls, Groups, NEW s \in Slot, CreatePersist(s), UNCHANGED userVars
    PROVE  Calls' /\ Groups' /\ Within(GroupOp) /\ faults <= faults'
<1> DEFINE me == req[s]
           g == Cardinality(groups) + 1
           status(d) == CreateStatus(IF d = "ok" THEN "ok" ELSE "PERSIST_FAILED")
           row == GroupRow(g, me.who)
           own == MemberRow(g, me.who, "OWNER")
<1>1. PICK d \in WriteOutcome :
        /\ At(s, "create", "persist") /\ Db(d)
        /\ groups' = IF d # "fail" THEN groups \cup {row} ELSE groups
        /\ members' = IF d # "fail" THEN members \cup {own} ELSE members
        /\ ReplyMember(s, g, d # "fail", status(d))
        /\ UNCHANGED <<messages, told>>
  BY DEF CreatePersist
<1>2. faults' \in 0..MaxFaults /\ faults <= faults'
  BY <1>1, DbCounts
<1>3. /\ me.op = "create" /\ me.op \in GroupOp /\ me.who \in Registered /\ status(d) \in Code
      /\ users' = users /\ Registered' = Registered /\ Cardinality(groups) \in Nat
  BY <1>1, InHand, GroupCodes, FS_CardinalityType
     DEF At, GroupOp, Busy, userVars, Registered, Groups
<1> HIDE DEF status
<1>4. /\ Calls' /\ Within(GroupOp) /\ req'[s] = NoReq
      /\ \A t \in Slot : t # s =>
            \/ req'[t] = req[t]
            \/ req[t].op = "send" /\ req'[t] = [req[t] EXCEPT !.flag = TRUE]
      /\ \A t \in Slot : d # "fail" /\ t # s /\ req[t].op = "send" /\ req[t].id = g
                         /\ req[t].who = me.who => req'[t].flag
  <2>1. PICK b \in BOOLEAN : b = (d # "fail")
    OBVIOUS
  <2>2. ReplyMember(s, g, b, status(d))
    BY <1>1, <2>1
  <2> HIDE DEF g
  <2>3. /\ Calls' /\ Within(GroupOp) /\ req'[s] = NoReq
        /\ \A t \in Slot : t # s =>
              \/ req'[t] = req[t]
              \/ req[t].op = "send" /\ req'[t] = [req[t] EXCEPT !.flag = TRUE]
        /\ \A t \in Slot : b /\ t # s /\ req[t].op = "send" /\ req[t].id = g
                           /\ req[t].who = me.who => req'[t].flag
    BY <1>2, <1>3, <2>2, MemberCalls
  <2> QED
    BY <2>1, <2>3
<1>5. /\ row.id = g /\ row.creator = me.who /\ row \in [id : Nat \ {0}, creator : Registered]
      /\ own.group = g /\ own.user = me.who /\ own.role = "OWNER"
      /\ own \in [group : {g}, user : Registered, role : {"OWNER", "MEMBER"}]
  BY <1>3 DEF GroupRow, MemberRow
<1>6. /\ row \notin groups /\ g \notin Ids /\ own \notin members
      /\ \A r \in members : r.group # g
  BY <1>3, <1>5 DEF Groups, Ids
<1> HIDE DEF row, own
<1>7. CASE d # "fail"
  <2>1. groups' = groups \cup {row} /\ members' = members \cup {own} /\ messages' = messages
        /\ told' = told
    BY <1>1, <1>7
  <2>2. IsFiniteSet(groups') /\ Cardinality(groups') = g
    BY <1>6, <2>1, FS_AddElement DEF Groups
  <2>3. Ids' = Ids \cup {g}
    BY <1>5, <2>1 DEF Ids
  <2>4. /\ groups' \subseteq [id : Nat \ {0}, creator : Registered']
        /\ \A h \in groups' : h.id <= Cardinality(groups')
        /\ \A h, k \in groups' : h.id = k.id => h = k
    BY <1>3, <1>5, <1>6, <2>1, <2>2 DEF Groups, Ids
  <2>5. members' \subseteq [group : Ids', user : Registered', role : {"OWNER", "MEMBER"}]
    <3>1. own \in [group : Ids', user : Registered', role : {"OWNER", "MEMBER"}]
      BY <1>3, <1>5, <2>3
    <3>2. members \subseteq [group : Ids', user : Registered', role : {"OWNER", "MEMBER"}]
      BY <1>3, <2>3 DEF Groups
    <3> QED
      BY <2>1, <3>1, <3>2
  <2>6. \A r, q \in members' : r.group = q.group /\ r.user = q.user => r = q
    BY <1>5, <1>6, <2>1 DEF Groups
  <2>7. \A h \in groups' : \E r \in find_member(h.id, h.creator)' : r.role = "OWNER"
    BY <1>5, <2>1 DEF Groups, find_member
  <2>8. \A r \in members' : r.role = "OWNER" =>
          \E h \in groups' : h.id = r.group /\ h.creator = r.user
    BY <1>5, <2>1 DEF Groups
  <2>9. messages' \subseteq [id : Nat \ {0}, group : Ids', user : Registered', at : 1..MaxStamp,
                             member : BOOLEAN]
    BY <1>3, <2>1, <2>3 DEF Groups
  <2>10. MessagesTrue'
    BY <2>1 DEF Groups, MessagesTrue, SpeakersAreMembers, ToldOwnTimestamp
  <2>11. ASSUME NEW t \in Slot PROVE GroupReq(req[t])'
    <3>1. CASE t = s
      BY <1>4, <3>1, NoReqType DEF GroupReq
    <3>2. CASE t # s
      <4>1. \A m \in members' \ members : m = own
        BY <2>1
      <4>2. \A m \in members' \ members : m.group \notin Ids
        BY <1>5, <1>6, <4>1
      <4>3. \A m \in members' \ members :
               req[t].op = "send" /\ m.group = req[t].id /\ m.user = req[t].who => req'[t].flag
        BY <1>4, <1>5, <1>7, <3>2, <4>1
      <4> QED
        BY <1>4, <2>1, <2>3, <3>2, <4>2, <4>3, NotedSends
    <3> QED
      BY <3>1, <3>2
  <2> QED
    BY <1>2, <1>4, <2>1, <2>2, <2>4, <2>5, <2>6, <2>7, <2>8, <2>9, <2>10, <2>11 DEF Groups
<1>8. CASE d = "fail"
  <2>1. groups' = groups /\ members' = members /\ messages' = messages /\ told' = told
    BY <1>1, <1>8
  <2>2. ToldOwnTimestamp'
    BY <2>1 DEF Groups, MessagesTrue, ToldOwnTimestamp
  <2>3. ASSUME NEW t \in Slot PROVE GroupReq(req[t])'
    <3>1. CASE t = s
      BY <1>4, <3>1, NoReqType DEF GroupReq
    <3>2. CASE t # s
      BY <1>4, <2>1, <3>2, NotedSends DEF Ids
    <3> QED
      BY <3>1, <3>2
  <2> QED
    BY <1>2, <1>3, <1>4, <2>1, <2>2, <2>3, GroupKept
<1> QED
  BY <1>7, <1>8

\* A join adds a member of an existing group that is no owner.
LEMMA JoinAddStep ==
    ASSUME Calls, Groups, NEW s \in Slot, JoinAdd(s), UNCHANGED userVars
    PROVE  Calls' /\ Groups' /\ Within(GroupOp) /\ faults <= faults'
<1> DEFINE me == req[s]
           stored(d) == d # "fail" /\ ~IsMember(me.id, me.who)
           status(d) == JoinStatus(IF stored(d) /\ d = "ok" THEN "ok" ELSE "PERSIST_FAILED")
           row == MemberRow(me.id, me.who, "MEMBER")
<1>1. PICK d \in WriteOutcome :
        /\ At(s, "join", "add") /\ Db(d)
        /\ members' = IF stored(d) THEN members \cup {row} ELSE members
        /\ ReplyMember(s, me.id, stored(d), status(d))
        /\ UNCHANGED <<groups, messages, told>>
  BY DEF JoinAdd
<1>2. faults' \in 0..MaxFaults /\ faults <= faults'
  BY <1>1, DbCounts
<1>3. /\ me.op = "join" /\ me.pc = "add" /\ me.op \in GroupOp /\ me.who \in Registered
      /\ me.id \in Ids
      /\ users' = users /\ Registered' = Registered
  BY <1>1, InHand DEF At, GroupOp, Busy, userVars, Registered, Groups, GroupReq
<1>9. status(d) \in Code
  BY GroupCodes
<1> HIDE DEF status
<1>4. /\ Calls' /\ Within(GroupOp) /\ req'[s] = NoReq
      /\ \A t \in Slot : t # s =>
            \/ req'[t] = req[t]
            \/ req[t].op = "send" /\ req'[t] = [req[t] EXCEPT !.flag = TRUE]
      /\ \A t \in Slot : stored(d) /\ t # s /\ req[t].op = "send" /\ req[t].id = me.id
                         /\ req[t].who = me.who => req'[t].flag
  <2>1. stored(d) \in BOOLEAN
    OBVIOUS
  <2> QED
    BY <1>1, <1>2, <1>3, <1>9, <2>1, MemberCalls
<1>5. /\ row.group = me.id /\ row.user = me.who /\ row.role = "MEMBER"
      /\ row \in [group : Ids, user : Registered, role : {"OWNER", "MEMBER"}]
  BY <1>3 DEF MemberRow
<1> HIDE DEF row
<1>6. groups' = groups /\ messages' = messages /\ told' = told /\ Ids' = Ids
  BY <1>1 DEF Ids
<1>7. CASE stored(d)
  <2>1. members' = members \cup {row} /\ \A r \in members : ~(r.group = me.id /\ r.user = me.who)
    BY <1>1, <1>7 DEF IsMember, find_member
  <2>5. members' \subseteq [group : Ids', user : Registered', role : {"OWNER", "MEMBER"}]
    BY <1>3, <1>5, <1>6, <2>1 DEF Groups
  <2>6. \A r, q \in members' : r.group = q.group /\ r.user = q.user => r = q
    BY <1>5, <2>1 DEF Groups
  <2>7. \A h \in groups' : \E r \in find_member(h.id, h.creator)' : r.role = "OWNER"
    BY <1>6, <2>1 DEF Groups, find_member
  <2>8. \A r \in members' : r.role = "OWNER" =>
          \E h \in groups' : h.id = r.group /\ h.creator = r.user
    BY <1>5, <1>6, <2>1 DEF Groups
  <2>10. MessagesTrue'
    BY <1>6 DEF Groups, MessagesTrue, SpeakersAreMembers, ToldOwnTimestamp
  <2>11. ASSUME NEW t \in Slot PROVE GroupReq(req[t])'
    <3>1. CASE t = s
      BY <1>4, <3>1, NoReqType DEF GroupReq
    <3>2. CASE t # s
      <4>1. \A m \in members' \ members : m = row
        BY <2>1
      <4>2. \A m \in members' \ members : m.role # "OWNER"
        BY <1>5, <4>1
      <4>3. \A m \in members' \ members :
               req[t].op = "send" /\ m.group = req[t].id /\ m.user = req[t].who => req'[t].flag
        BY <1>4, <1>5, <1>7, <3>2, <4>1
      <4> QED
        BY <1>4, <1>6, <3>2, <4>2, <4>3, NotedSends
    <3> QED
      BY <3>1, <3>2
  <2> QED
    BY <1>2, <1>3, <1>4, <1>6, <2>5, <2>6, <2>7, <2>8, <2>10, <2>11 DEF Groups
<1>8. CASE ~stored(d)
  <2>1. members' = members
    BY <1>1, <1>8
  <2>2. ToldOwnTimestamp'
    BY <1>6 DEF Groups, MessagesTrue, ToldOwnTimestamp
  <2>3. ASSUME NEW t \in Slot PROVE GroupReq(req[t])'
    <3>1. CASE t = s
      BY <1>4, <3>1, NoReqType DEF GroupReq
    <3>2. CASE t # s
      BY <1>4, <1>6, <2>1, <3>2, NotedSends
    <3> QED
      BY <3>1, <3>2
  <2> QED
    BY <1>2, <1>3, <1>4, <1>6, <2>1, <2>2, <2>3, GroupKept
<1> QED
  BY <1>7, <1>8

\* A leave takes away rows of a user who owns no part of the group.
LEMMA LeaveRemoveStep ==
    ASSUME Calls, Groups, NEW s \in Slot, LeaveRemove(s), UNCHANGED userVars
    PROVE  Calls' /\ Groups' /\ Within(GroupOp) /\ faults <= faults'
<1> DEFINE me == req[s]
<1>1. PICK d \in WriteOutcome :
        /\ At(s, "leave", "remove") /\ Db(d)
        /\ members' = IF d = "fail" THEN members ELSE members \ find_member(me.id, me.who)
        /\ Reply(s, LeaveStatus(IF d = "ok" THEN "ok" ELSE "REMOVE_FAILED"))
        /\ UNCHANGED <<groups, messages, told>>
  BY DEF LeaveRemove
<1>2. faults' \in 0..MaxFaults /\ faults <= faults'
  BY <1>1, DbCounts
<1>3. /\ me.op = "leave" /\ me.op \in GroupOp /\ me.op # "idle"
      /\ \A m \in find_member(me.id, me.who) : m.role # "OWNER"
      /\ users' = users /\ Registered' = Registered
  BY <1>1 DEF At, GroupOp, userVars, Registered, Groups, GroupReq
<1>4. PICK status \in Code : Reply(s, status)
  BY <1>1, GroupCodes
<1>5. /\ Calls' /\ Within(GroupOp) /\ req'[s] = NoReq
      /\ \A t \in Slot : t # s => req'[t] = req[t]
  BY <1>2, <1>3, <1>4, ReplyCalls
<1>6. groups' = groups /\ messages' = messages /\ told' = told /\ Ids' = Ids
  BY <1>1 DEF Ids
<1>7. members' \subseteq members /\ \A r \in members : r.role = "OWNER" => r \in members'
  BY <1>1, <1>3
<1>8. /\ members' \subseteq [group : Ids', user : Registered', role : {"OWNER", "MEMBER"}]
      /\ \A r, q \in members' : r.group = q.group /\ r.user = q.user => r = q
      /\ \A r \in members' : r.role = "OWNER" =>
           \E h \in groups' : h.id = r.group /\ h.creator = r.user
  BY <1>3, <1>6, <1>7 DEF Groups
<1>9. \A h \in groups' : \E r \in find_member(h.id, h.creator)' : r.role = "OWNER"
  BY <1>6, <1>7 DEF Groups, find_member
<1>10. MessagesTrue'
  BY <1>6 DEF Groups, MessagesTrue, SpeakersAreMembers, ToldOwnTimestamp
<1>11. ASSUME NEW t \in Slot PROVE GroupReq(req[t])'
  <2>1. CASE t = s
    BY <1>5, <2>1, NoReqType DEF GroupReq
  <2>2. CASE t # s
    <3>1. members' \ members = {}
      BY <1>7
    <3> QED
      BY <1>5, <1>6, <2>2, <3>1, NotedSends
  <2> QED
    BY <2>1, <2>2
<1> QED
  BY <1>2, <1>3, <1>5, <1>6, <1>8, <1>9, <1>10, <1>11 DEF Groups

\* A stored message is one of a sender that was a member, and the request keeps its id.
LEMMA SendStoreStep ==
    ASSUME Calls, Groups, NEW s \in Slot, SendStore(s), UNCHANGED userVars
    PROVE  Calls' /\ Groups' /\ Within(GroupOp) /\ faults <= faults'
<1> DEFINE me == req[s]
           m == [id |-> Cardinality(messages) + 1, group |-> me.id, user |-> me.who,
                 at |-> me.at, member |-> me.flag]
           note == [group |-> m.group, at |-> m.at, id |-> m.id]
<1>1. PICK d \in WriteOutcome :
        /\ At(s, "send", "store") /\ Db(d)
        /\ messages' = IF d = "fail" THEN messages ELSE messages \cup {m}
        /\ \/ d # "ok" /\ Reply(s, 500) /\ UNCHANGED told
           \/ /\ d = "ok" /\ remote
              /\ req' = [req EXCEPT ![s].pc = "readback", ![s].msg = m.id]
              /\ UNCHANGED <<remote, mix, started, timeouts, answers, told>>
           \/ /\ d = "ok" /\ ~remote /\ Reply(s, 201)
              /\ told' = told \cup {note}
        /\ UNCHANGED <<groups, members>>
  BY DEF SendStore
<1>2. faults' \in 0..MaxFaults /\ faults <= faults'
  BY <1>1, DbCounts
<1>3. /\ me.op = "send" /\ me.pc = "store" /\ me.op \in GroupOp /\ me.op # "idle"
      /\ GroupReq(me) /\ me \in AnyReq
      /\ Busy(me) /\ users' = users /\ Registered' = Registered
      /\ Cardinality(messages) \in Nat /\ {201, 500} \subseteq Code
  BY <1>1, InHand, FS_CardinalityType DEF At, GroupOp, userVars, Registered, Groups, Code
<1>4. /\ me.who \in Registered /\ me.id \in Ids /\ me.flag = TRUE /\ me.at \in 1..MaxStamp
      /\ req \in [Slot -> AnyReq]
  BY <1>3 DEF Busy, GroupReq, AnyReq, Calls
<1>5. /\ m \in [id : Nat \ {0}, group : Ids, user : Registered, at : 1..MaxStamp, member : BOOLEAN]
      /\ m.id \in Nat /\ m.group = me.id /\ m.at = me.at /\ m.member
  <2>1. m.id = Cardinality(messages) + 1 /\ m.group = me.id /\ m.at = me.at /\ m.member = me.flag
    OBVIOUS
  <2>4. Cardinality(messages) + 1 \in Nat \ {0}
    BY <1>3
  <2>5. me.flag \in BOOLEAN
    BY <1>3 DEF AnyReq
  <2>2. Cardinality(messages) + 1 \in Nat \ {0} /\ me.flag \in BOOLEAN
    BY <2>4, <2>5
  <2>3. m \in [id : Nat \ {0}, group : Ids, user : Registered, at : 1..MaxStamp, member : BOOLEAN]
    BY <1>4, <2>2
  <2> QED
    BY <1>4, <2>1, <2>2, <2>3
<1>6. note.group = m.group /\ note.at = m.at /\ note.id = m.id
  OBVIOUS
<1> HIDE DEF m, note
<1>7. /\ groups' = groups /\ members' = members /\ Ids' = Ids /\ messages \subseteq messages'
      /\ \A g, u : find_member(g, u)' = find_member(g, u)
      /\ \A g, u : IsMember(g, u)' = IsMember(g, u)
  BY <1>1 DEF Ids, find_member, IsMember
<1>8. /\ IsFiniteSet(messages')
      /\ messages' \subseteq [id : Nat \ {0}, group : Ids', user : Registered', at : 1..MaxStamp,
                              member : BOOLEAN]
      /\ SpeakersAreMembers'
  BY <1>1, <1>3, <1>5, <1>7, FS_AddElement DEF Groups, MessagesTrue, SpeakersAreMembers
<1>9. ToldOwnTimestamp'
  <2>1. \A x \in told : \E n \in messages' : n.id = x.id /\ n.group = x.group /\ n.at = x.at
    BY <1>7 DEF Groups, MessagesTrue, ToldOwnTimestamp
  <2>2. told' = told \/ (m \in messages' /\ told' = told \cup {note})
    BY <1>1
  <2> QED
    BY <1>6, <2>1, <2>2 DEF ToldOwnTimestamp
<1>10. /\ Calls' /\ Within(GroupOp) /\ GroupReq(req[s])'
       /\ \A t \in Slot : t # s => req'[t] = req[t]
  <2>1. CASE \E status \in {201, 500} : Reply(s, status)
    <3>1. PICK status \in {201, 500} : Reply(s, status)
      BY <2>1
    <3>2. /\ Calls' /\ Within(GroupOp) /\ req'[s] = NoReq
          /\ \A t \in Slot : t # s => req'[t] = req[t]
      BY <1>2, <1>3, <3>1, ReplyCalls
    <3> QED
      BY <3>2, NoReqType DEF GroupReq
  <2>2. CASE /\ d = "ok" /\ req' = [req EXCEPT ![s].pc = "readback", ![s].msg = m.id]
             /\ UNCHANGED <<remote, mix, started, timeouts, answers, told>>
    <3> DEFINE q == [me EXCEPT !.pc = "readback", !.msg = m.id]
    <3>0. q \in AnyReq
      <4>1. "readback" \in Pc
        BY DEF Pc
      <4>2. [me EXCEPT !.pc = "readback"] \in AnyReq
        BY <1>3, <4>1 DEF AnyReq
      <4>3. m.id \in Nat
        BY <1>5
      <4>4. \A r \in AnyReq, n \in Nat : [r EXCEPT !.msg = n] \in AnyReq
        BY DEF AnyReq
      <4> QED
        BY <4>2, <4>3, <4>4
    <3>1. q.op = "send" /\ q.pc = "readback" /\ q.who = me.who /\ q.id = me.id
          /\ q.flag = me.flag /\ q.at = me.at /\ q.msg = m.id
      BY <1>3 DEF AnyReq
    <3>2. req' = [req EXCEPT ![s] = q]
      BY <1>4, <2>2
    <3> HIDE DEF q
    <3>3. req' \in [Slot -> AnyReq] /\ req'[s] = q /\ \A t \in Slot : t # s => req'[t] = req[t]
      BY <1>4, <3>0, <3>2
    <3>4. \A t \in Slot : req'[t] = NoReq \/ Busy(req[t])'
      BY <1>3, <3>1, <3>3 DEF Calls, Busy
    <3>5. Calls' /\ Within(GroupOp)
      BY <1>2, <1>3, <2>2, <3>1, <3>3, <3>4 DEF Calls, Within
    <3>6. m \in messages'
      BY <1>1, <2>2
    <3>7. GroupReq(req[s])'
      BY <1>3, <1>4, <1>5, <1>7, <3>1, <3>3, <3>6 DEF GroupReq
    <3> QED
      BY <3>3, <3>5, <3>7
  <2> QED
    BY <1>1, <2>1, <2>2
<1>11. ASSUME NEW t \in Slot PROVE GroupReq(req[t])'
  BY <1>7, <1>10, NotedSends
<1> QED
  BY <1>2, <1>3, <1>7, <1>8, <1>9, <1>10, <1>11 DEF Groups, MessagesTrue

\* The newest message up to the timestamp of a stored one has that timestamp.
LEMMA ReadBackStep ==
    ASSUME Calls, Groups, NEW s \in Slot, ReadBack(s), UNCHANGED userVars
    PROVE  Calls' /\ Groups' /\ Within(GroupOp) /\ faults <= faults'
<1> DEFINE me == req[s]
           upTo == {x \in messages : x.group = me.id /\ x.at <= me.at}
           newest == {y \in upTo : \A z \in upTo : z.at <= y.at}
           found(d) == IF d = "ok" THEN {x.id : x \in newest} ELSE {me.msg}
           note(i) == [group |-> me.id, at |-> me.at, id |-> i]
<1>1. PICK d \in ReadOutcome :
        /\ At(s, "send", "readback") /\ Db(d)
        /\ \E i \in found(d) : told' = IF me.open THEN told \cup {note(i)} ELSE told
        /\ Reply(s, 201)
        /\ UNCHANGED <<groups, members, messages>>
  BY DEF ReadBack
<1>2. faults' \in 0..MaxFaults /\ faults <= faults'
  BY <1>1, DbCounts
<1>3. /\ me.op = "send" /\ me.pc = "readback" /\ me.op \in GroupOp /\ me.op # "idle"
      /\ GroupReq(me) /\ users' = users /\ Registered' = Registered /\ 201 \in Code
  BY <1>1 DEF At, GroupOp, userVars, Registered, Groups, Code
<1>4. PICK own \in messages : own.id = me.msg /\ own.group = me.id /\ own.at = me.at
  BY <1>3 DEF GroupReq
<1>5. PICK i \in found(d) : told' = IF me.open THEN told \cup {note(i)} ELSE told
  BY <1>1
<1>6. \E m \in messages : m.id = i /\ m.group = me.id /\ m.at = me.at
  <2>1. CASE d # "ok"
    BY <1>4, <2>1
  <2>2. CASE d = "ok"
    <3>1. PICK y \in newest : y.id = i
      BY <2>2
    <3>2. own.at \in Nat /\ y \in messages /\ y.at \in Nat /\ y.group = me.id /\ y.at <= me.at
      BY <3>1, GroupsAssumption DEF Groups
    <3>3. own \in upTo
      BY <1>4, <3>2
    <3>4. own.at <= y.at
      BY <3>1, <3>3
    <3> QED
      BY <1>4, <3>1, <3>2, <3>4
  <2> QED
    BY <2>1, <2>2
<1>7. groups' = groups /\ members' = members /\ messages' = messages
  BY <1>1
<1>8. note(i).group = me.id /\ note(i).at = me.at /\ note(i).id = i
  OBVIOUS
<1> HIDE DEF note, found
<1>9. ToldOwnTimestamp'
  BY <1>5, <1>6, <1>7, <1>8 DEF Groups, MessagesTrue, ToldOwnTimestamp
<1>10. /\ Calls' /\ Within(GroupOp) /\ req'[s] = NoReq
       /\ \A t \in Slot : t # s => req'[t] = req[t]
  BY <1>1, <1>2, <1>3, ReplyCalls
<1>11. GroupReq(req[s])'
  BY <1>10, NoReqType DEF GroupReq
<1> QED
  BY <1>2, <1>3, <1>7, <1>9, <1>10, <1>11, GroupKept

\* A deadline changes no table.
LEMMA GroupDeadlineStep ==
    ASSUME Calls, Groups, NEW s \in Slot, GroupDeadline(s), UNCHANGED userVars
    PROVE  Calls' /\ Groups' /\ Within(GroupOp) /\ faults' = faults
<1>1. PICK status \in {400, 500} : Deadline(s, status)
  BY DEF GroupDeadline
<1>2. /\ req[s].op \in GroupOp /\ req[s].op # "idle" /\ status \in Code
      /\ groups' = groups /\ members' = members /\ messages' = messages /\ told' = told
      /\ users' = users /\ Registered' = Registered /\ req[s] \in AnyReq
  BY DEF GroupDeadline, GroupOp, groupVars, userVars, Registered, Calls, Code
<1>3. /\ Calls' /\ Within(GroupOp) /\ faults' = faults
      /\ req'[s] = [req[s] EXCEPT !.open = FALSE]
      /\ \A t \in Slot : t # s => req'[t] = req[t]
  BY <1>1, <1>2, DeadlineCalls
<1>4. /\ GroupReq(req[s]) /\ Ids' = Ids
      /\ \A g, u : find_member(g, u)' = find_member(g, u) /\ IsMember(g, u)' = IsMember(g, u)
  BY <1>2 DEF Groups, Ids, find_member, IsMember
<1>5. GroupReq(req[s])'
  BY <1>2, <1>3, <1>4 DEF GroupReq, AnyReq
<1>6. ToldOwnTimestamp'
  BY <1>2 DEF Groups, MessagesTrue, ToldOwnTimestamp
<1> QED
  BY <1>2, <1>3, <1>5, <1>6, GroupKept

\* Every step of GroupService.
LEMMA GroupStep ==
    ASSUME Calls, Users, Groups, NEW s \in Slot, GroupNext(s), UNCHANGED userVars
    PROVE  Calls' /\ Groups' /\ Within(GroupOp) /\ faults <= faults'
<1>1. faults' = faults => faults <= faults'
  BY DEF Calls
<1> QED
  BY <1>1, CreateGroupStep, CreateCreatorStep, CreatePersistStep, JoinGroupStep,
     JoinGroupFindStep, JoinUserStep, JoinMemberStep, JoinAddStep, LeaveGroupStep,
     LeaveMemberStep, LeaveRemoveStep, SendGroupMessageStep, SendCheckStep, SendRecheckStep,
     SendStoreStep, ReadBackStep, GroupDeadlineStep DEF GroupNext

-----------------------------------------------------------------------------
(* The services together.                                                  *)
-----------------------------------------------------------------------------
\* The tables at the start are as the assumptions on them say.
LEMMA InitInv == Init => Inv
<1> SUFFICES ASSUME Init PROVE Inv
  OBVIOUS
<1> USE DEF Init, CallInit, UserInit, FriendInit, GroupInit
<1>1. \A s \in Slot : req[s] = NoReq /\ req[s].op = "idle"
  BY NoReqType
<1>2. Calls
  <2>1. req \in [Slot -> AnyReq] /\ remote \in BOOLEAN
    BY NoReqType, CallAssumption
  <2> QED
    BY <1>1, <2>1, CallAssumption DEF Calls
<1>3. /\ \A r \in users : r.account \in InitUsers /\ r.uid = 0 /\ r.prof = NoProfile
                          /\ r = UserRow(r.account, 0, NoProfile)
      /\ Registered = InitUsers
  <2>1. \A r \in users : \E a \in InitUsers : r = UserRow(a, 0, NoProfile)
    OBVIOUS
  <2>2. \A a : /\ UserRow(a, 0, NoProfile).account = a /\ UserRow(a, 0, NoProfile).uid = 0
               /\ UserRow(a, 0, NoProfile).prof = NoProfile
    BY DEF UserRow
  <2>3. \A a \in InitUsers : UserRow(a, 0, NoProfile) \in users
    OBVIOUS
  <2> QED
    BY <2>1, <2>2, <2>3 DEF Registered
<1>4. Users
  <2>1. users \subseteq [account : Account, uid : 0..MaxRequests, prof : Profile]
    BY UsersAssumption, CallAssumption DEF UserRow, NoProfile, Profile
  <2>2. \A r, q \in users : r.account = q.account => r = q
    BY <1>3
  <2>3. /\ upd \in [Account -> [Field -> [val : 0..1, clean : BOOLEAN]]]
        /\ \A a \in Account, f \in Field : upd[a][f].val = 0
    OBVIOUS
  <2>4. LostOnlyByOverlap
    BY <1>3, <2>3, UsersAssumption DEF LostOnlyByOverlap, NoProfile, Field
  <2>5. \A s \in Slot : UserReq(req[s])
    BY <1>1 DEF UserReq, Writing
  <2> QED
    BY <2>1, <2>2, <2>3, <2>4, <2>5 DEF Users
<1>5. Friends
  <2>1. /\ \A s \in Slot : FriendReq(req[s])
        /\ DecisionsHold /\ \A x \in settled : x.status # "PENDING"
    BY <1>1 DEF FriendReq, Unsettled, DecisionsHold
  <2>2. CASE friends = {}
    BY <2>1, <2>2, FS_EmptySet DEF Friends
  <2>3. CASE friends = InitFriends
    <3>1. /\ IsFiniteSet(friends) /\ Cardinality(friends) \in Nat
          /\ \A r, q \in friends : r.id = q.id => r = q
      BY <2>3, FriendsAssumption, FS_CardinalityType
    <3>2. ASSUME NEW r \in friends
          PROVE  /\ r \in [id : Nat \ {0}, requester : Account, target : Account, status : Status]
                 /\ r.id <= Cardinality(friends) /\ r.status # "ACCEPTED"
      <4>1. r \in [id : 1..Cardinality(friends), requester : Account, target : Account,
                   status : {"PENDING", "REJECTED"}]
        BY <2>3, FriendsAssumption
      <4> QED
        BY <3>1, <4>1 DEF Status
    <3> QED
      BY <2>1, <3>1, <3>2 DEF Friends
  <2> QED
    BY <2>2, <2>3
<1>6. Groups
  <2>1. \A s \in Slot : GroupReq(req[s])
    BY <1>1 DEF GroupReq
  <2>2. /\ IsFiniteSet(groups) /\ Cardinality(groups) \in Nat
        /\ \A g, h \in groups : g.id = h.id => g = h
    BY GroupsAssumption, FS_CardinalityType
  <2>3. ASSUME NEW g \in groups
        PROVE  g \in [id : Nat \ {0}, creator : Registered] /\ g.id <= Cardinality(groups)
    <3>1. g \in [id : 1..Cardinality(groups), creator : InitUsers]
      BY GroupsAssumption
    <3> QED
      BY <1>3, <2>2, <3>1
  <2>4. /\ members \subseteq [group : Ids, user : Registered, role : {"OWNER", "MEMBER"}]
        /\ \A r, q \in members : r.group = q.group /\ r.user = q.user => r = q
        /\ \A r \in members : r.role = "OWNER" =>
              \E g \in groups : g.id = r.group /\ g.creator = r.user
    BY <1>3, GroupsAssumption DEF Ids
  <2>5. \A g \in groups : \E r \in find_member(g.id, g.creator) : r.role = "OWNER"
    BY GroupsAssumption DEF find_member
  <2>6. IsFiniteSet(messages) /\ messages = {} /\ MessagesTrue
    BY FS_EmptySet DEF MessagesTrue, SpeakersAreMembers, ToldOwnTimestamp
  <2> QED
    BY <2>1, <2>2, <2>3, <2>4, <2>5, <2>6 DEF Groups
<1> QED
  BY <1>2, <1>4, <1>5, <1>6 DEF Inv

\* A step of one service leaves the invariants of the others.
LEMMA NextInv == Inv /\ [Next]_vars => Inv'
<1> SUFFICES ASSUME Inv, [Next]_vars PROVE Inv'
  OBVIOUS
<1>0. Calls /\ Users /\ Friends /\ Groups
  BY DEF Inv
<1>1. CASE UNCHANGED vars
  <2> USE <1>1 DEF vars, callVars, userVars, friendVars, groupVars
  <2>1. Calls' /\ Registered' = Registered
    BY <1>0 DEF Calls, Busy, Registered
  <2>2. Within({}) /\ faults <= faults'
    BY <1>0 DEF Within, Calls
  <2> QED
    BY <1>0, <2>1, <2>2, UserOthers, FriendOthers, GroupOthers DEF Inv
<1>2. CASE Next
  <2>1. PICK s \in Slot :
          \/ UserNext(s) /\ UNCHANGED <<friendVars, groupVars>>
          \/ FriendNext(s) /\ UNCHANGED <<userVars, groupVars>>
          \/ GroupNext(s) /\ UNCHANGED <<userVars, friendVars>>
    BY <1>2 DEF Next
  <2>2. CASE UserNext(s) /\ UNCHANGED <<friendVars, groupVars>>
    <3>1. /\ Calls' /\ Users' /\ Within(UserOp)
          /\ Registered \subseteq Registered' /\ faults <= faults'
      BY <1>0, <2>2, UserStep
    <3>2. UserOp \cap FriendOp = {} /\ UserOp \cap GroupOp = {}
      BY DEF UserOp, FriendOp, GroupOp
    <3> QED
      BY <1>0, <2>2, <3>1, <3>2, FriendOthers, GroupOthers DEF Inv
  <2>3. CASE FriendNext(s) /\ UNCHANGED <<userVars, groupVars>>
    <3>1. Calls' /\ Friends' /\ Within(FriendOp)
      BY <1>0, <2>3, FriendStep
    <3>2. FriendOp \cap UserOp = {} /\ FriendOp \cap GroupOp = {}
      BY DEF UserOp, FriendOp, GroupOp
    <3>3. Registered' = Registered
      BY <2>3 DEF userVars, Registered
    <3> QED
      BY <1>0, <2>3, <3>1, <3>2, <3>3, UserOthers, GroupOthers DEF Inv
  <2>4. CASE GroupNext(s) /\ UNCHANGED <<userVars, friendVars>>
    <3>1. Calls' /\ Groups' /\ Within(GroupOp) /\ faults <= faults'
      BY <1>0, <2>4, GroupStep
    <3>2. GroupOp \cap UserOp = {} /\ GroupOp \cap FriendOp = {}
      BY DEF UserOp, FriendOp, GroupOp
    <3> QED
      BY <1>0, <2>4, <3>1, <3>2, UserOthers, FriendOthers DEF Inv
  <2> QED
    BY <2>1, <2>2, <2>3, <2>4
<1> QED
  BY <1>1, <1>2

\* The invariant holds throughout.
LEMMA Invariance == Spec => []Inv
  BY InitInv, NextInv, PTL DEF Spec

\* Rows refer to rows that exist, and every group has exactly one owner, its creator, and
\* no user twice, however creations, joins and leaves interleave (TablesConsistent).
THEOREM TablesStayConsistent == Spec => []TablesConsistent
<1>1. ASSUME Inv PROVE TablesConsistent
  <2>0. Calls /\ Users /\ Friends /\ Groups
    BY <1>1 DEF Inv
  <2>1. TypeOK
    <3>1. /\ remote \in BOOLEAN
          /\ started \in 0..MaxRequests /\ faults \in 0..MaxFaults /\ timeouts \in 0..MaxTimeouts
          /\ \A x \in answers : x.status \in {200, 201, 400, 401, 403, 404, 409, 500}
      BY <2>0 DEF Calls, Code
    <3>2. \A s \in Slot : req[s] \in AnyReq /\ (req[s] = NoReq \/ req[s].pc # "none")
      BY <2>0 DEF Calls, Busy
    <3>3. \A s \in Slot :
             /\ req[s].who \in Account \cup {Nobody} /\ req[s].to \in Account \cup {Nobody}
             /\ req[s].prof \in Profile /\ req[s].flag \in BOOLEAN /\ req[s].open \in BOOLEAN
      BY <3>2 DEF AnyReq
    <3>4. /\ users \subseteq [account : Account, uid : 0..MaxRequests, prof : Profile]
          /\ friends \subseteq [id : Nat \ {0}, requester : Account, target : Account, status : Status]
          /\ groups \subseteq [id : Nat \ {0}, creator : Registered]
          /\ members \subseteq [group : {g.id : g \in groups}, user : Registered,
                                role : {"OWNER", "MEMBER"}]
          /\ messages \subseteq [id : Nat \ {0}, group : {g.id : g \in groups}, user : Registered,
                                 at : 1..MaxStamp, member : BOOLEAN]
      BY <2>0 DEF Users, Friends, Groups, Ids
    <3> QED
      BY <3>1, <3>2, <3>3, <3>4 DEF TypeOK
  <2>2. ASSUME NEW g \in groups
        PROVE  {r \in members : r.group = g.id /\ r.role = "OWNER"}
                 = {MemberRow(g.id, g.creator, "OWNER")}
    <3>1. PICK o \in members : o.group = g.id /\ o.user = g.creator /\ o.role = "OWNER"
      BY <2>0 DEF Groups, find_member
    <3>2. o = MemberRow(g.id, g.creator, "OWNER")
      BY <2>0, <3>1 DEF Groups, MemberRow
    <3>3. ASSUME NEW r \in members, r.group = g.id, r.role = "OWNER" PROVE r = o
      <4>1. PICK h \in groups : h.id = r.group /\ h.creator = r.user
        BY <2>0, <3>3 DEF Groups
      <4>2. h = g
        BY <2>0, <3>3, <4>1 DEF Groups
      <4> QED
        BY <2>0, <3>1, <3>3, <4>1, <4>2 DEF Groups
    <3> QED
      BY <3>1, <3>2, <3>3
  <2>3. ASSUME NEW r \in members PROVE Cardinality(find_member(r.group, r.user)) = 1
    <3>1. find_member(r.group, r.user) = {r}
      BY <2>0 DEF Groups, find_member
    <3> QED
      BY <3>1, FS_Singleton
  <2> QED
    BY <2>1, <2>2, <2>3 DEF TablesConsistent, OwnerStays
<1> QED
  BY <1>1, Invariance, PTL

\* Whatever requests raced and whichever transactions and deadlines failed, an answer of a
\* registration, of a friend request and of a response is so and stays so (AnswersTrue).
THEOREM AnswersStayTrue == Spec => []AnswersTrue
<1>1. ASSUME Inv PROVE AnswersTrue
  <2>0. Calls /\ Users /\ Friends
    BY <1>1 DEF Inv
  <2>1. FriendAnswersTrue
    BY <2>0 DEF FriendAnswersTrue, Friends, FriendAnswer
  <2>2. ASSUME NEW x \in answers, x.op = "register"
        PROVE  Cardinality({y \in answers : y.op = "register" /\ y.who = x.who /\ y.status = 201}) <= 1
    <3> DEFINE S == {y \in answers : y.op = "register" /\ y.who = x.who /\ y.status = 201}
    <3>1. ASSUME NEW y \in S, NEW z \in S PROVE y = z
      <4>1. /\ y \in [op : UserOp \cup FriendOp \cup GroupOp, who : Account,
                      to : Account \cup {Nobody}, id : Nat, status : Code]
            /\ z \in [op : UserOp \cup FriendOp \cup GroupOp, who : Account,
                      to : Account \cup {Nobody}, id : Nat, status : Code]
        BY <2>0 DEF Calls
      <4>2. UserAnswer(y) /\ UserAnswer(z)
        BY <2>0 DEF Users
      <4>3. y.to = z.to /\ y.op = z.op /\ y.who = z.who /\ y.status = z.status
        BY <4>2 DEF UserAnswer
      <4>4. y.id = z.id
        BY <2>0, <4>2 DEF UserAnswer, Users
      <4> QED
        BY <4>1, <4>3, <4>4
    <3>2. S = {} \/ \E y : S = {y}
      BY <3>1
    <3> HIDE DEF S
    <3>3. Cardinality(S) \in {0, 1}
      BY <3>2, FS_EmptySet, FS_Singleton
    <3> QED
      BY <3>3 DEF S
  <2>3. UserAnswersTrue
    BY <2>0, <2>2 DEF UserAnswersTrue, Users, UserAnswer
  <2> QED
    BY <2>1, <2>3 DEF AnswersTrue
<1> QED
  BY <1>1, Invariance, PTL

\* Although every update writes back a profile and every login a row that was read before, a
\* field loses its last update only if another request had the row in hand when that update
\* was stored (LostOnlyByOverlap).
THEOREM UpdatesLostByOverlapOnly == Spec => []LostOnlyByOverlap
<1>1. Inv => LostOnlyByOverlap
  BY DEF Inv, Users
<1> QED
  BY <1>1, Invariance, PTL

\* Of two friends, one asked and the other called to accept it, whichever requests and
\* responses raced (FriendsByConsent).
THEOREM FriendsHaveAgreed == Spec => []FriendsByConsent
<1>1. ASSUME Inv PROVE FriendsByConsent
  <2> SUFFICES ASSUME NEW u \in Account, NEW v \in get_friends(u)
               PROVE  \E r \in find_relationship(u, v) : <<r.target, r.id>> \in accepts
    BY DEF FriendsByConsent
  <2>1. PICK r \in friends : r.status = "ACCEPTED" /\ {r.requester, r.target} = {u, v}
    BY DEF get_friends
  <2> QED
    BY <1>1, <2>1 DEF find_relationship, Inv, Friends
<1> QED
  BY <1>1, Invariance, PTL

\* A group message is stored only for a user who was a member during the request, and the
\* id its sender is told is that of a message with its timestamp (MessagesTrue).
THEOREM MembersSpeak == Spec => []MessagesTrue
<1>1. Inv => MessagesTrue
  BY DEF Inv, Groups
<1> QED
  BY <1>1, Invariance, PTL

\* A decision on a friend request that was stored with no other response between its lookup
\* and its update stays for good: what comes later finds the row decided (DecisionsHold).
THEOREM DecisionsFinal == Spec => []DecisionsHold
<1>1. Inv => DecisionsHold
  BY DEF Inv, Friends
<1> QED
  BY <1>1, Invariance, PTL

\* A friend request between users who have a row is stored only if it came before that row
\* or a lookup failed (ReverseRefused).
THEOREM SecondRequestRefused == Spec => ReverseRefused
<1>1. ASSUME Inv, [Next]_vars
      PROVE  [\A r \in friends' :
                (\E q \in find_relationship(r.requester, r.target) : q.id # r.id)
                  /\ ~(\E q \in friends : q.id = r.id)
                  => faults > 0 \/ \E s \in Slot :
                        /\ At(s, "befriend", "create") /\ req[s].at = 0
                        /\ req[s].who = r.requester /\ req[s].to = r.target]_friends
  <2> SUFFICES ASSUME friends' # friends, NEW r \in friends', ~\E q \in friends : q.id = r.id
               PROVE  faults > 0 \/ \E s \in Slot :
                        /\ At(s, "befriend", "create") /\ req[s].at = 0
                        /\ req[s].who = r.requester /\ req[s].to = r.target
    OBVIOUS
  <2>1. PICK s \in Slot : FriendNext(s)
    BY <1>1 DEF Next, vars, friendVars
  <2> QED
    BY <1>1, <2>1, ReverseStep DEF Inv
<1> QED
  BY <1>1, Invariance, PTL DEF Spec, ReverseRefused
=============================================================================
