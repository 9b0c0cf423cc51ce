----------------------------- MODULE AuthTokens -----------------------------
(***************************************************************************)
(* MultiPlatformAuthManager (gateway/auth/multi_platform_auth.cpp): access *)
(* tokens are signed and carry their expiry, refresh tokens and the        *)
(* blacklist of access tokens are Redis keys with a time to live.  Every   *)
(* operation is a sequence of Redis commands; operations of several        *)
(* request threads interleave between the commands, time passes between    *)
(* them, and a command may fail, executed or not, or be executed twice     *)
(* (RedisClient::command repeats it once and then throws).                 *)
(*                                                                         *)
(* Abstractions.  The metadata of a refresh token never changes after it   *)
(* was created, except for its flag "revoked": a key holds the flag, and   *)
(* rtIssued and rtExpire stand for create_time and expire_time.  A request *)
(* carries the right device or a wrong one.  Every platform of             *)
(* gateway/auth/config.json has the same lifetimes, so there is one.       *)
(* Time is counted in ticks, Sub of them to a second.                      *)
(***************************************************************************)
EXTENDS Integers, FiniteSets

CONSTANTS Procs,        \* request threads
          Sub,          \* ticks per second
          AccessTTL,    \* access_token_expire_seconds
          RefreshTTL,   \* refresh_token_expire_seconds
          RotateNum,    \* refresh_precentage = RotateNum / RotateDen
          RotateDen,
          MaxNow,       \* bound: the clock
          MaxLogins,    \* bound: logins; other tokens come from refreshes
          MaxOps,       \* bound: operations
          MaxFaults     \* bound: failed Redis commands

ASSUME AuthAssumption ==
    /\ IsFiniteSet(Procs)
    /\ Sub \in Nat \ {0} /\ AccessTTL \in Nat \ {0} /\ RefreshTTL \in Nat \ {0}
    /\ RotateNum \in Nat /\ RotateDen \in Nat \ {0}
    /\ MaxNow \in Nat \ {0} /\ MaxLogins \in Nat /\ MaxOps \in Nat /\ MaxFaults \in Nat

VARIABLES now,          \* system_clock
          rt,           \* refresh_token:<rt>
          rtIssued,     \* create_time of its metadata
          rtExpire,     \* expire_time of its metadata
          nrt,          \* refresh tokens generated so far
          userSet,      \* user:<uid>:refresh_tokens, its members
          userSetUntil, \*   and its deadline
          atExpire,     \* exp of the access tokens issued, in order
          black,        \* revoked_access_token:<jti>
          call,         \* what each thread executes
          ops, faults,  \* bounds
          handedAt,     \* history: when a refresh token reached its client
          deleted,      \* history: refresh tokens a DEL removed
          unrevoked,    \* history: refresh tokens an unrevoke wrote
          misused,      \* history: refresh tokens a wrong device presented
          rewrites,     \* history: SETs of revoke and unrevoke
          blacklisted   \* history: access tokens SET since their last DEL

keys == <<rt, userSet, userSetUntil, black>>
issue == <<rtIssued, rtExpire, nrt, atExpire>>
history == <<handedAt, deleted, unrevoked, misused, rewrites, blacklisted>>
vars == <<now, keys, issue, call, ops, faults, history>>

Tokens == 1..MaxOps           \* at most one of a kind is made per operation
NoTtl == 0                    \* deadlines are after the first tick, 1
NotHanded == 0
Times == 0..(MaxNow + Sub * (AccessTTL + RefreshTTL))

(***************************************************************************)
(* Redis keys (external): SET drops the time to live, EXPIRE acts on keys  *)
(* that exist, TTL rounds to seconds and is -1 without a deadline and -2   *)
(* without a key.                                                          *)
(***************************************************************************)
Key == [val : {"none", "valid", "revoked"}, until : Times]
Gone == [val |-> "none", until |-> NoTtl]
There(k) == k.val # "none"
SetKey(v) == [val |-> v, until |-> NoTtl]
ExpireKey(k, secs) ==
    IF There(k) THEN [k EXCEPT !.until = now + Sub * secs] ELSE k
Ttl(k) ==
    IF ~There(k) THEN -2
    ELSE IF k.until = NoTtl THEN -1
    ELSE (2 * (k.until - now) + Sub) \div (2 * Sub)
AtTime(k, t) == IF k.until # NoTtl /\ k.until <= t THEN Gone ELSE k

Call(op, step, t, secs, device) ==
    [op |-> op, step |-> step, tok |-> t, secs |-> secs, device |-> device]
Idle == Call("idle", "none", 0, 0, "right")
Init ==
    /\ now = 1
    /\ rt = [t \in Tokens |-> Gone]
    /\ rtIssued = [t \in Tokens |-> 0]
    /\ rtExpire = [t \in Tokens |-> 0]
    /\ nrt = 0
    /\ userSet = {} /\ userSetUntil = NoTtl
    /\ atExpire = [a \in Tokens |-> 0]
    /\ black = [a \in Tokens |-> Gone]
    /\ call = [p \in Procs |-> Idle]
    /\ ops = 0 /\ faults = 0
    /\ handedAt = [t \in Tokens |-> NotHanded]
    /\ deleted = {} /\ unrevoked = {} /\ misused = {}
    /\ rewrites = [t \in Tokens |-> 0]
    /\ blacklisted = {}

Handed == {t \in Tokens : handedAt[t] # NotHanded}
Issued == {a \in Tokens : atExpire[a] # 0}

(* Would verify_refresh_token with the right device accept the token now?  *)
(* It looks at the key and its flag, not at expire_time.                   *)
verify_refresh_token(t) == rt[t].val = "valid"

is_token_revoked(a) == There(black[a])
(* Would verify_access_token accept the token now?  The library refuses it *)
(* after exp.                                                              *)
verify_access_token(a) ==
    /\ a \in Issued
    /\ now <= atExpire[a]
    /\ ~is_token_revoked(a)

(* should_rotate_refresh_token: less than refresh_precentage of the        *)
(* lifetime is left.                                                       *)
should_rotate_refresh_token(t) ==
    /\ There(rt[t])
    /\ (rtExpire[t] - now) * RotateDen < RotateNum * (rtExpire[t] - rtIssued[t])

-----------------------------------------------------------------------------
Step(p, op, step) == call[p].op = op /\ call[p].step = step
Goto(p, step) == call' = [call EXCEPT ![p].step = step]
Return(p) == call' = [call EXCEPT ![p] = Idle]

Begin(p, c) ==
    /\ call[p].op = "idle"
    /\ ops < MaxOps
    /\ ops' = ops + 1
    /\ call' = [call EXCEPT ![p] = c]

(* generate_access_token: exp is written in whole seconds.                 *)
generate_access_token ==
    LET a == Cardinality(Issued) + 1
    IN  atExpire' = [atExpire EXCEPT ![a] = ((now + Sub * AccessTTL) \div Sub) * Sub]

(* generate_refresh_token up to its first Redis command.                   *)
NewRefreshToken ==
    /\ nrt' = nrt + 1
    /\ rtIssued' = [rtIssued EXCEPT ![nrt'] = now]
    /\ rtExpire' = [rtExpire EXCEPT ![nrt'] = now + Sub * RefreshTTL]

(* generate_tokens, as login and registration call it.                     *)
GenerateTokens(p) ==
    /\ nrt < MaxLogins
    /\ Begin(p, Call("login", "set", nrt + 1, 0, "right"))
    /\ generate_access_token
    /\ NewRefreshToken
    /\ UNCHANGED <<now, keys, faults, history>>

RefreshAccessToken(p) == \E t \in Handed, device \in {"right", "wrong"} :
    /\ Begin(p, Call("refresh", "verify", t, 0, device))
    /\ UNCHANGED <<now, keys, issue, faults, history>>

BeginOnRefresh(p) == \E t \in Handed, op \in {"revoke", "unrevoke", "del"} :
    /\ Begin(p, Call(op, "get", t, 0, "right"))
    /\ UNCHANGED <<now, keys, issue, faults, history>>

(* revoke_token computes the lifetime that is left, in whole seconds.      *)
\* Mutant of BlacklistTtl: the key goes a second early.
BlacklistTtlShort(a) == IF atExpire[a] > now THEN (atExpire[a] - now) \div Sub - 1 ELSE 0

BlacklistTtl(a) == IF atExpire[a] > now THEN (atExpire[a] - now) \div Sub ELSE 0
RevokeToken(p) == \E a \in Issued :
    /\ Begin(p, Call("revoke_at", "set", a, BlacklistTtl(a), "right"))
    /\ UNCHANGED <<now, keys, issue, faults, history>>

UnrevokeToken(p) == \E a \in Issued :
    /\ Begin(p, Call("unrevoke_at", "del", a, 0, "right"))
    /\ UNCHANGED <<now, keys, issue, faults, history>>

-----------------------------------------------------------------------------
(* The commands that write, with the history they make.                    *)
WriteRefresh(p) == LET t == call[p].tok IN
    \/ /\ call[p].op \in {"login", "rotate"} /\ call[p].step = "set"
       /\ rt' = [rt EXCEPT ![t] = SetKey("valid")]
       /\ UNCHANGED <<userSet, userSetUntil, black, history>>
    \/ /\ call[p].op \in {"login", "rotate"} /\ call[p].step = "expire"
       /\ rt' = [rt EXCEPT ![t] = ExpireKey(@, RefreshTTL)]
       /\ UNCHANGED <<userSet, userSetUntil, black, history>>
    \/ /\ call[p].step = "sadd"
       /\ userSet' = userSet \cup {t}
       /\ UNCHANGED <<rt, userSetUntil, black, history>>
    \/ /\ call[p].step = "expire_set"
       /\ userSetUntil' = IF userSet = {} THEN NoTtl ELSE now + Sub * RefreshTTL
       /\ UNCHANGED <<rt, userSet, black, history>>

\* Mutant of WriteFlag: the metadata is written back as it was read.
WriteMetaBack(p) == LET t == call[p].tok IN
    \/ /\ call[p].op \in {"revoke", "unrevoke", "misuse"} /\ call[p].step = "set"
       /\ rt' = [rt EXCEPT ![t] = SetKey("valid")]
       /\ UNCHANGED <<userSet, userSetUntil, black, history>>
    \/ /\ call[p].op \in {"revoke", "unrevoke", "misuse"} /\ call[p].step = "expire"
       /\ rt' = [rt EXCEPT ![t] = ExpireKey(@, call[p].secs)]
       /\ UNCHANGED <<userSet, userSetUntil, black, history>>

(* revoke_refresh_token and unrevoke_refresh_token write the whole key.    *)
WriteFlag(p) == LET t == call[p].tok IN
    \/ /\ call[p].op \in {"revoke", "unrevoke", "misuse"} /\ call[p].step = "set"
       /\ rt' = [rt EXCEPT ![t] = SetKey(IF call[p].op = "unrevoke" THEN "valid" ELSE "revoked")]
       /\ rewrites' = [rewrites EXCEPT ![t] = @ + 1]
       /\ unrevoked' = IF call[p].op = "unrevoke" THEN unrevoked \cup {t} ELSE unrevoked
       /\ UNCHANGED <<userSet, userSetUntil, black, handedAt, deleted, misused, blacklisted>>
    \/ /\ call[p].op \in {"revoke", "unrevoke", "misuse"} /\ call[p].step = "expire"
       /\ rt' = [rt EXCEPT ![t] = ExpireKey(@, call[p].secs)]
       /\ UNCHANGED <<userSet, userSetUntil, black, history>>

DeleteRefresh(p) == LET t == call[p].tok IN
    \/ /\ Step(p, "del", "del")
       /\ rt' = [rt EXCEPT ![t] = Gone]
       /\ deleted' = deleted \cup {t}
       /\ UNCHANGED <<userSet, userSetUntil, black, handedAt, unrevoked, misused,
                      rewrites, blacklisted>>
    \/ /\ Step(p, "del", "srem")
       /\ userSet' = userSet \ {t}
       /\ userSetUntil' = IF userSet' = {} THEN NoTtl ELSE userSetUntil
       /\ UNCHANGED <<rt, black, history>>

WriteBlacklist(p) == LET a == call[p].tok IN
    \/ /\ Step(p, "revoke_at", "set")
       /\ black' = [black EXCEPT ![a] = SetKey("revoked")]
       /\ blacklisted' = blacklisted \cup {a}
       /\ UNCHANGED <<rt, userSet, userSetUntil, handedAt, deleted, unrevoked, misused, rewrites>>
    \/ /\ Step(p, "revoke_at", "expire")
       /\ black' = [black EXCEPT ![a] = ExpireKey(@, call[p].secs)]
       /\ UNCHANGED <<rt, userSet, userSetUntil, history>>
    \/ /\ Step(p, "unrevoke_at", "del")
       /\ black' = [black EXCEPT ![a] = Gone]
       /\ blacklisted' = blacklisted \ {a}
       /\ UNCHANGED <<rt, userSet, userSetUntil, handedAt, deleted, unrevoked, misused, rewrites>>

Write(p) == WriteRefresh(p) \/ WriteFlag(p) \/ DeleteRefresh(p) \/ WriteBlacklist(p)

\* Mutant of Rest: a new refresh token is stored without its EXPIRE.
RestNoExpire(c) ==
    CASE c.op \in {"login", "rotate"} /\ c.step = "set" -> "sadd"
      [] c.step = "sadd" -> "expire_set"
      [] c.op \in {"revoke", "unrevoke", "misuse", "revoke_at"} /\ c.step = "set" /\ c.secs > 0
           -> "expire"
      [] c.op = "del" /\ c.step = "del" /\ c.secs > 0 -> "srem"
      [] OTHER -> IF c.op \in {"login", "rotate", "misuse"} THEN "reply" ELSE "none"

(* The step after a command that writes.                                   *)
Rest(c) ==
    CASE c.op \in {"login", "rotate"} /\ c.step = "set" -> "expire"
      [] c.op \in {"login", "rotate"} /\ c.step = "expire" -> "sadd"
      [] c.step = "sadd" -> "expire_set"
      [] c.op \in {"revoke", "unrevoke", "misuse", "revoke_at"} /\ c.step = "set" /\ c.secs > 0
           -> "expire"
      [] c.op = "del" /\ c.step = "del" /\ c.secs > 0 -> "srem"
      [] OTHER -> IF c.op \in {"login", "rotate", "misuse"} THEN "reply" ELSE "none"

WriteStep(p) ==
    /\ Write(p)
    /\ LET s == Rest(call[p])
       IN  IF s = "none" THEN Return(p) ELSE Goto(p, s)
    /\ UNCHANGED <<now, issue, ops, faults>>

(* verify_refresh_token: a wrong device makes it revoke the token, and in  *)
(* every case but one the refresh ends here.                               *)
VerifyRefresh(p) == LET t == call[p].tok IN
    /\ Step(p, "refresh", "verify")
    /\ IF There(rt[t]) /\ call[p].device = "wrong"
         THEN call' = [call EXCEPT ![p].op = "misuse", ![p].step = "get"]
         ELSE IF verify_refresh_token(t) THEN Goto(p, "rotate") ELSE Return(p)
    /\ UNCHANGED <<now, keys, issue, ops, faults, history>>

(* should_rotate_refresh_token reads the key again.                        *)
CheckRotate(p) ==
    /\ Step(p, "refresh", "rotate")
    /\ IF should_rotate_refresh_token(call[p].tok)
         THEN /\ NewRefreshToken
              /\ call' = [call EXCEPT ![p].op = "rotate", ![p].step = "set", ![p].tok = nrt']
              /\ UNCHANGED atExpire
         ELSE /\ Goto(p, "reply")
              /\ UNCHANGED issue
    /\ UNCHANGED <<now, keys, ops, faults, history>>

(* The GET of revoke_refresh_token, unrevoke_refresh_token and             *)
(* del_refresh_token; the last deletes whatever it read.                   *)
GetMeta(p) == LET k == rt[call[p].tok] IN
    /\ call[p].step = "get"
    /\ \/ /\ call[p].op = "del"
          /\ call' = [call EXCEPT ![p].step = "del", ![p].secs = IF There(k) THEN 1 ELSE 0]
          /\ UNCHANGED misused
       \/ /\ call[p].op # "del" /\ There(k)
          /\ Goto(p, "ttl")
          /\ UNCHANGED misused
       \/ /\ call[p].op # "del" /\ ~There(k)
          /\ Return(p)
          /\ misused' = IF call[p].op = "misuse" THEN misused \cup {call[p].tok} ELSE misused
    /\ UNCHANGED <<now, keys, issue, ops, faults, handedAt, deleted, unrevoked,
                   rewrites, blacklisted>>

\* Mutant of GetTtl: the time that is left is rounded down once more.
GetTtlShort(p) ==
    /\ call[p].step = "ttl"
    /\ call' = [call EXCEPT ![p].step = "set", ![p].secs = (rt[call[p].tok].until - now) \div Sub]
    /\ UNCHANGED <<now, keys, issue, ops, faults, history>>

GetTtl(p) ==
    /\ call[p].step = "ttl"
    /\ call' = [call EXCEPT ![p].step = "set", ![p].secs = Ttl(rt[call[p].tok])]
    /\ UNCHANGED <<now, keys, issue, ops, faults, history>>

(* The answer of the operations that hand something out, and of the        *)
(* refresh that a wrong device tried.                                      *)
Reply(p) == LET t == call[p].tok IN
    /\ call[p].step = "reply"
    /\ Return(p)
    /\ IF call[p].op \in {"refresh", "rotate"}
         THEN generate_access_token ELSE UNCHANGED atExpire
    /\ handedAt' = IF call[p].op \in {"login", "rotate"}
                     THEN [handedAt EXCEPT ![t] = now] ELSE handedAt
    /\ misused' = IF call[p].op = "misuse" THEN misused \cup {t} ELSE misused
    /\ UNCHANGED <<now, keys, rtIssued, rtExpire, nrt, ops, faults, deleted, unrevoked,
                   rewrites, blacklisted>>

(* A command throws, executed or not.  generate_refresh_token answers ""   *)
(* and a refresh still issues its access token; every other operation      *)
(* answers false.                                                          *)
RedisFails(p) ==
    /\ call[p].op # "idle" /\ call[p].step # "reply"
    /\ faults < MaxFaults
    /\ faults' = faults + 1
    /\ IF call[p].op = "rotate" \/ Step(p, "refresh", "rotate")
         THEN call' = [call EXCEPT ![p].op = "refresh", ![p].step = "reply"]
         ELSE Return(p)
    /\ \/ Write(p)
       \/ UNCHANGED <<keys, history>>
    /\ UNCHANGED <<now, issue, ops>>

(* The reply to a command is lost and RedisClient::command sends it again  *)
(* over a new connection: it is executed twice, and commands of other      *)
(* threads may come in between.                                            *)
CommandRepeats(p) ==
    /\ faults < MaxFaults
    /\ faults' = faults + 1
    /\ Write(p)
    /\ UNCHANGED <<now, issue, call, ops>>

(* Time passes; Redis drops the keys whose time is over.                   *)
Tick ==
    /\ now < MaxNow
    /\ now' = now + 1
    /\ rt' = [t \in Tokens |-> AtTime(rt[t], now')]
    /\ black' = [a \in Tokens |-> AtTime(black[a], now')]
    /\ LET over == userSetUntil # NoTtl /\ userSetUntil <= now'
       IN  /\ userSet' = IF over THEN {} ELSE userSet
           /\ userSetUntil' = IF over THEN NoTtl ELSE userSetUntil
    /\ UNCHANGED <<issue, call, ops, faults, history>>

Next ==
    \/ Tick
    \/ \E p \in Procs :
         \/ GenerateTokens(p) \/ RefreshAccessToken(p) \/ BeginOnRefresh(p)
         \/ RevokeToken(p) \/ UnrevokeToken(p)
         \/ WriteStep(p) \/ VerifyRefresh(p) \/ CheckRotate(p) \/ GetMeta(p) \/ GetTtl(p)
         \/ Reply(p) \/ RedisFails(p) \/ CommandRepeats(p)

Spec == Init /\ [][Next]_vars

-----------------------------------------------------------------------------
Steps == {"none", "set", "expire", "sadd", "expire_set", "verify", "rotate", "get",
          "ttl", "del", "srem", "reply"}
Ops == {"idle", "login", "refresh", "rotate", "misuse", "revoke", "unrevoke", "del",
        "revoke_at", "unrevoke_at"}
TypeOK ==
    /\ now \in 1..MaxNow /\ ops \in 0..MaxOps /\ faults \in 0..MaxFaults
    /\ rt \in [Tokens -> Key] /\ black \in [Tokens -> Key]
    /\ rtIssued \in [Tokens -> Times] /\ rtExpire \in [Tokens -> Times]
    /\ nrt \in 0..MaxOps /\ atExpire \in [Tokens -> Times]
    /\ userSet \subseteq Tokens /\ userSetUntil \in Times
    /\ call \in [Procs -> [op : Ops, step : Steps, tok : 0..MaxOps,
                           secs : -2..(MaxNow + AccessTTL + RefreshTTL), device : {"right", "wrong"}]]
    /\ handedAt \in [Tokens -> Times] /\ rewrites \in [Tokens -> Nat]
    /\ deleted \subseteq Tokens /\ unrevoked \subseteq Tokens
    /\ misused \subseteq Tokens /\ blacklisted \subseteq Tokens

(* An access token whose blacklist key was written, and not deleted since  *)
(* by unrevoke_token, is refused until less than a second before its own   *)
(* expiry: revoke_token rounds the lifetime that is left down, reads the   *)
(* clock before it writes, and drops the deadline an earlier revocation    *)
(* set.                                                                    *)
RevokedAccessRefused ==
    \A a \in blacklisted : verify_access_token(a) => atExpire[a] - now < Sub

(* The same without the last second, as the description of revoke_token    *)
(* has it ("TTL aligned to token remaining lifetime").                     *)
RevokedUntilExpiry ==
    \A a \in blacklisted : ~verify_access_token(a)

(* A refresh token that del_refresh_token deleted is never accepted again, *)
(* although a revocation that read it before may write it back; only an    *)
(* unrevocation can bring it back to life.                                 *)
DeletedRefused ==
    \A t \in deleted \ unrevoked : ~verify_refresh_token(t)

(* After a refresh with a wrong device has been answered, and Redis did    *)
(* not fail in it, the token is refused for its own device too, whatever   *)
(* ran in between, unless it was unrevoked.                                *)
MisusedRefused ==
    \A t \in misused \ unrevoked : ~verify_refresh_token(t)

(* What makes a refresh token void, a deletion or a wrong device, makes it *)
(* void for good.                                                          *)
RefreshRefused == DeletedRefused /\ MisusedRefused

(* A client never holds a refresh token that outlives its time:            *)
(* verify_refresh_token leaves expiry to Redis, so the key of a token that *)
(* was handed out and is accepted has a deadline, at most one lifetime     *)
(* after it was handed out, whichever commands failed; an unrevocation is  *)
(* the exception.                                                          *)
AcceptedExpires ==
    \A t \in Handed \ unrevoked :
        verify_refresh_token(t) =>
            rt[t].until # NoTtl /\ rt[t].until <= handedAt[t] + Sub * RefreshTTL

(* Rewriting a key for its flag preserves its time to live to half a       *)
(* second: a refresh token that was handed out and not deleted is stored   *)
(* until its expire_time, less half a second for every SET of              *)
(* revoke_refresh_token or unrevoke_refresh_token, even when commands of   *)
(* two such operations interleave.                                         *)
KeptUntilExpiry ==
    \A t \in Handed \ deleted :
        2 * (rtExpire[t] - now) > Sub * rewrites[t] => There(rt[t])

(* The keys are well formed and a valid token is not lost before its time. *)
TokensKept == TypeOK /\ KeptUntilExpiry
=============================================================================
