------------------------------ MODULE Services ------------------------------
(***************************************************************************)
(* The user, friend and group services over one database.  FriendService   *)
(* and GroupService look users up in the table that UserService writes;    *)
(* requests to all of them share the slots.                                *)
(***************************************************************************)
EXTENDS FriendService, GroupService

vars == <<callVars, userVars, friendVars, groupVars>>

Init == CallInit /\ UserInit /\ FriendInit /\ GroupInit

Next == \E s \in Slot :
    \/ UserNext(s) /\ UNCHANGED <<friendVars, groupVars>>
    \/ FriendNext(s) /\ UNCHANGED <<userVars, groupVars>>
    \/ GroupNext(s) /\ UNCHANGED <<userVars, friendVars>>

Spec == Init /\ [][Next]_vars

Profile == [nick : 0..1, sign : 0..1]
Status == {"PENDING", "ACCEPTED", "REJECTED"}
TypeOK ==
    /\ remote \in BOOLEAN
    /\ started \in 0..MaxRequests /\ faults \in 0..MaxFaults /\ timeouts \in 0..MaxTimeouts
    /\ \A s \in Slot :
         /\ req[s].who \in Account \cup {Nobody} /\ req[s].to \in Account \cup {Nobody}
         /\ req[s].prof \in Profile /\ req[s].flag \in BOOLEAN /\ req[s].open \in BOOLEAN
         /\ req[s] = NoReq \/ req[s].pc # "none"
    /\ users \subseteq [account : Account, uid : 0..MaxRequests, prof : Profile]
    /\ friends \subseteq [id : Nat \ {0}, requester : Account, target : Account, status : Status]
    /\ groups \subseteq [id : Nat \ {0}, creator : Registered]
    /\ members \subseteq [group : {g.id : g \in groups}, user : Registered,
                          role : {"OWNER", "MEMBER"}]
    /\ messages \subseteq [id : Nat \ {0}, group : {g.id : g \in groups}, user : Registered,
                           at : 1..MaxStamp, member : BOOLEAN]
    /\ \A x \in answers : x.status \in {200, 201, 400, 401, 403, 404, 409, 500}

(* No answer of a service claims what the tables do not bear out, for      *)
(* accounts and for friend requests.                                       *)
AnswersTrue == UserAnswersTrue /\ FriendAnswersTrue

(* The tables refer to rows that exist, and every group has its one owner. *)
TablesConsistent == TypeOK /\ OwnerStays
=============================================================================
