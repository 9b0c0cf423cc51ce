----------------------------- MODULE UserService -----------------------------
(***************************************************************************)
(* UserService and UserRepository with the endpoints of                    *)
(* UserHttpController that change the table im_users: register, login and  *)
(* update of the profile.  update_last_login and update_profile load the   *)
(* row and write back all of its columns; under PostgreSQL's default       *)
(* isolation (READ COMMITTED) nothing keeps the row from changing between  *)
(* the two statements.  The columns modelled are two of the profile.       *)
(***************************************************************************)
EXTENDS ServiceCall

CONSTANT InitUsers    \* the accounts registered at the start

ASSUME UsersAssumption == InitUsers \subseteq Account

VARIABLES users,   \* im_users
          upd      \* history: the last update of each field, and whether any other
                   \* request on the row was between its read and its write then

userVars == <<users, upd>>

Field == {"nick", "sign"}
UserRow(a, uid, p) == [account |-> a, uid |-> uid, prof |-> p]

UserInit ==
    /\ users = {UserRow(a, 0, NoProfile) : a \in InitUsers}
    /\ upd = [a \in Account |-> [f \in Field |-> [val |-> 0, clean |-> TRUE]]]

find_by_account(a) == {r \in users : r.account = a}
Registered == {r.account : r \in users}

-----------------------------------------------------------------------------
(* The answers of handle_register, handle_login and handle_update_profile; *)
(* the remote client maps the codes back to these.                         *)
RegisterStatus(code) ==
    CASE code = "ok" -> 201 [] code = "DUPLICATE_ACCOUNT" -> 409 [] OTHER -> 500
LoginStatus(code) ==
    CASE code = "ok" -> 200
      [] code \in {"INVALID_ACCOUNT", "WRONG_PASSWORD"} -> 401
      [] OTHER -> 500
UpdateStatus(code) ==
    CASE code = "ok" -> 200 [] code = "USER_NOT_FOUND" -> 404 [] OTHER -> 500

-----------------------------------------------------------------------------
(* register_user.                                                          *)
Register(s) == \E a \in Account :
    /\ Begin(s, [NoReq EXCEPT !.op = "register", !.pc = "exists", !.who = a,
                              !.id = started + 1])
    /\ UNCHANGED userVars

RegisterExists(s) == \E d \in ReadOutcome :
    /\ At(s, "register", "exists")
    /\ Db(d)
    /\ IF d = "ok" /\ find_by_account(req[s].who) # {}
         THEN Reply(s, RegisterStatus("DUPLICATE_ACCOUNT"))
         ELSE Goto(s, "create")
    /\ UNCHANGED userVars

\* Mutant of RegisterCreate: the table has no unique index on account.
RegisterCreateNoIndex(s) == \E d \in WriteOutcome :
    /\ At(s, "register", "create")
    /\ Db(d)
    /\ users' = IF d # "fail" THEN users \cup {UserRow(req[s].who, req[s].id, NoProfile)}
                              ELSE users
    /\ Reply(s, RegisterStatus(IF d = "ok" THEN "ok" ELSE "PERSIST_FAILED"))
    /\ UNCHANGED upd

(* The unique index on account refuses a second row.                       *)
RegisterCreate(s) == \E d \in WriteOutcome :
    LET stored == d # "fail" /\ find_by_account(req[s].who) = {}
    IN  /\ At(s, "register", "create")
        /\ Db(d)
        /\ users' = IF stored THEN users \cup {UserRow(req[s].who, req[s].id, NoProfile)}
                              ELSE users
        /\ Reply(s, RegisterStatus(IF stored /\ d = "ok" THEN "ok" ELSE "PERSIST_FAILED"))
        /\ UNCHANGED upd

-----------------------------------------------------------------------------
(* login_by_account; flag: the password is right.                          *)
Login(s) == \E a \in Account, right \in BOOLEAN :
    /\ Begin(s, [NoReq EXCEPT !.op = "login", !.pc = "find", !.who = a, !.flag = right])
    /\ UNCHANGED userVars

LoginFind(s) == \E d \in ReadOutcome :
    /\ At(s, "login", "find")
    /\ Db(d)
    /\ LET found == IF d = "ok" THEN find_by_account(req[s].who) ELSE {}
       IN  \/ found = {} /\ Reply(s, LoginStatus("INVALID_ACCOUNT"))
           \/ found # {} /\ ~req[s].flag /\ Reply(s, LoginStatus("WRONG_PASSWORD"))
           \/ /\ req[s].flag
              /\ \E r \in found : req' = [req EXCEPT ![s].pc = "load", ![s].prof = r.prof]
              /\ UNCHANGED <<remote, mix, started, timeouts, answers>>
    /\ UNCHANGED userVars

(* The load of update_last_login and of update_profile.  A failure of the  *)
(* first is ignored by the login, of the second is USER_NOT_FOUND.         *)
LoadFails(s) ==
    Reply(s, IF req[s].op = "login" THEN LoginStatus("ok") ELSE UpdateStatus("USER_NOT_FOUND"))

\* Mutant of LoadRow: the login writes back the row that its lookup found.
LoadRowBefore(s) ==
    /\ req[s].op \in {"login", "update"} /\ req[s].pc = "load"
    /\ Goto(s, "write")
    /\ UNCHANGED <<userVars, faults>>

LoadRow(s) == \E d \in ReadOutcome :
    /\ req[s].op \in {"login", "update"} /\ req[s].pc = "load"
    /\ Db(d)
    /\ \/ /\ d = "ok"
          /\ \E r \in find_by_account(req[s].who) :
               req' = [req EXCEPT ![s].pc = "write",
                                  ![s].prof = IF req[s].op = "login" THEN r.prof ELSE @]
          /\ UNCHANGED <<remote, mix, started, timeouts, answers>>
       \/ d = "fail" /\ LoadFails(s)
    /\ UNCHANGED userVars

(* Is another request on the row between a read and a write of it?         *)
OtherWriter(s) == \E t \in Slot \ {s} :
    /\ req[t].who = req[s].who
    /\ \/ req[t].op = "update" /\ req[t].pc \in {"load", "write"}
       \/ req[t].op = "login" /\ req[t].pc = "write"

UpdatedField(s) == IF req[s].flag THEN "nick" ELSE "sign"

(* The UPDATE of all columns.                                              *)
WriteRow(s) == \E d \in WriteOutcome :
    /\ req[s].op \in {"login", "update"} /\ req[s].pc = "write"
    /\ Db(d)
    /\ users' = IF d = "fail" THEN users
                ELSE {IF r.account = req[s].who THEN [r EXCEPT !.prof = req[s].prof] ELSE r :
                        r \in users}
    /\ upd' = IF req[s].op = "update" /\ d # "fail"
                THEN [upd EXCEPT ![req[s].who][UpdatedField(s)] =
                        [val |-> req[s].prof[UpdatedField(s)], clean |-> ~OtherWriter(s)]]
                ELSE upd
    /\ IF d = "ok" \/ req[s].op = "login"
         THEN Reply(s, IF req[s].op = "login" THEN LoginStatus("ok") ELSE UpdateStatus("ok"))
         ELSE LoadFails(s)

-----------------------------------------------------------------------------
(* handle_update_profile reads the profile, takes from it the fields that  *)
(* the request leaves out, and has the service write all of them; flag:    *)
(* the request sets the nickname, or else the signature.                   *)
UpdateProfile(s) == \E a \in Registered, nick \in BOOLEAN :
    /\ Begin(s, [NoReq EXCEPT !.op = "update", !.pc = "current", !.who = a, !.flag = nick])
    /\ UNCHANGED userVars

UpdateCurrent(s) == \E d \in ReadOutcome :
    /\ At(s, "update", "current")
    /\ Db(d)
    /\ \/ /\ d = "ok"
          /\ \E r \in find_by_account(req[s].who) :
               req' = [req EXCEPT ![s].pc = "load",
                                  ![s].prof = [r.prof EXCEPT ![UpdatedField(s)] = 1]]
          /\ UNCHANGED <<remote, mix, started, timeouts, answers>>
       \/ d = "fail" /\ Reply(s, UpdateStatus("USER_NOT_FOUND"))
    /\ UNCHANGED userVars

(* An RPC to UserServer times out.  The read of the current profile then   *)
(* looks like a failed lookup, which UpdateCurrent has.                    *)
UserDeadline(s) ==
    /\ \/ req[s].op \in {"register", "login"}
       \/ req[s].op = "update" /\ req[s].pc \in {"load", "write"}
    /\ Deadline(s, 500)
    /\ UNCHANGED userVars

UserNext(s) ==
    \/ Register(s) \/ RegisterExists(s) \/ RegisterCreate(s)
    \/ Login(s) \/ LoginFind(s) \/ LoadRow(s) \/ WriteRow(s)
    \/ UpdateProfile(s) \/ UpdateCurrent(s)
    \/ UserDeadline(s)

-----------------------------------------------------------------------------
(* What the answers to a registration say is so and stays so: 201 means    *)
(* that the account is the one this request created (so only one of racing *)
(* requests is told so), 409 that the account exists.                      *)
UserAnswersTrue == \A x \in answers : x.op = "register" =>
    /\ x.status = 201 => \E r \in users : r.account = x.who /\ r.uid = x.id
    /\ x.status = 409 => x.who \in Registered
    /\ Cardinality({y \in answers : y.op = "register" /\ y.who = x.who /\ y.status = 201}) <= 1

(* A field of a profile keeps the value of the last update of that field,  *)
(* although every update rewrites the whole profile and every login the    *)
(* whole row, unless another request on the row was between its read and   *)
(* its write when the update was stored.                                   *)
LostOnlyByOverlap == \A r \in users, f \in Field :
    upd[r.account][f].clean => r.prof[f] = upd[r.account][f].val
=============================================================================
