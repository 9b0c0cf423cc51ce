---------------------------- MODULE ServiceCall ----------------------------
(***************************************************************************)
(* How a request reaches UserService, FriendService and GroupService: an   *)
(* HTTP controller of the gateway calls the service, either in its own     *)
(* process (Local...Client) or over gRPC (Remote...Client), and turns the  *)
(* error code into a status.  Every call of a repository is a transaction  *)
(* of its own, so that requests interleave between them.  A repository     *)
(* catches every database error: a failed lookup looks like an absent row, *)
(* a failed write answers false, and may have been committed all the same. *)
(* An RPC has a deadline: the gateway answers for it and the service goes  *)
(* on.                                                                     *)
(*                                                                         *)
(* Abstraction: an account stands for the user and the uid that belong to  *)
(* it (the index on account makes that a bijection), and a request comes   *)
(* with a valid token of its user.                                         *)
(***************************************************************************)
EXTENDS Naturals, FiniteSets

CONSTANTS Slot,          \* requests handled at the same time
          Account, Nobody,
          Deployments,   \* values of "remote": clients are remote or local
          Mixes,         \* bound: the sets of operations that the requests of
                         \* one behaviour are taken from
          MaxRequests,   \* bound: requests
          MaxFaults,     \* bound: database errors
          MaxTimeouts    \* bound: deadlines that pass

ASSUME CallAssumption ==
    /\ Nobody \notin Account
    /\ Deployments \subseteq BOOLEAN
    /\ MaxRequests \in Nat /\ MaxFaults \in Nat /\ MaxTimeouts \in Nat

VARIABLES remote,    \* are the clients remote?
          mix,       \* the operations of this behaviour
          req,       \* the request in each slot
          started,   \* requests so far
          faults, timeouts,
          answers    \* history: the answers that clients got

callVars == <<remote, mix, req, started, faults, timeouts, answers>>

NoProfile == [nick |-> 0, sign |-> 0]
NoReq == [op |-> "idle", pc |-> "none", who |-> Nobody, to |-> Nobody, id |-> 0,
          flag |-> FALSE, prof |-> NoProfile, at |-> 0, msg |-> 0,
          open |-> FALSE]

CallInit ==
    /\ remote \in Deployments /\ mix \in Mixes
    /\ req = [s \in Slot |-> NoReq]
    /\ started = 0 /\ faults = 0 /\ timeouts = 0
    /\ answers = {}

Begin(s, r) ==
    /\ req[s] = NoReq
    /\ r.op \in mix
    /\ started < MaxRequests
    /\ started' = started + 1
    /\ req' = [req EXCEPT ![s] = [r EXCEPT !.open = TRUE]]
    /\ UNCHANGED <<remote, mix, faults, timeouts, answers>>

At(s, op, pc) == req[s].op = op /\ req[s].pc = pc

(* The outcome of a transaction: done; failed; or committed with the       *)
(* confirmation lost.                                                      *)
ReadOutcome == {"ok", "fail"}
WriteOutcome == {"ok", "fail", "lost"}
Db(d) ==
    IF d = "ok" THEN UNCHANGED faults
    ELSE faults < MaxFaults /\ faults' = faults + 1

AnswerOf(r, status) ==
    [op |-> r.op, who |-> r.who, to |-> r.to, id |-> r.id, status |-> status]

Goto(s, pc) ==
    /\ req' = [req EXCEPT ![s].pc = pc]
    /\ UNCHANGED <<remote, mix, started, timeouts, answers>>

(* The service returns; nobody hears of it when the deadline has passed.   *)
Reply(s, status) ==
    /\ req' = [req EXCEPT ![s] = NoReq]
    /\ answers' = IF req[s].open THEN answers \cup {AnswerOf(req[s], status)} ELSE answers
    /\ UNCHANGED <<remote, mix, started, timeouts>>

(* apply_deadline: the RPC fails at the client and runs on at the server.  *)
Deadline(s, status) ==
    /\ remote /\ req[s].open
    /\ timeouts < MaxTimeouts
    /\ timeouts' = timeouts + 1
    /\ req' = [req EXCEPT ![s].open = FALSE]
    /\ answers' = answers \cup {AnswerOf(req[s], status)}
    /\ UNCHANGED <<remote, mix, started, faults>>
=============================================================================
