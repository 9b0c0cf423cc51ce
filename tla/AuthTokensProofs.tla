--------------------------- MODULE AuthTokensProofs ---------------------------
(***************************************************************************)
(* Proofs about AuthTokens, for any request threads, lifetimes, tick, rate *)
(* of rotation and numbers of operations and failures:                     *)
(*   - RefreshRefused: what voids a refresh token voids it for good;       *)
(*   - RevokedAccessRefused: the blacklist holds to the last second;       *)
(*   - AcceptedExpires: a token that is held and accepted has a deadline;  *)
(*   - TokensKept: rewriting a key keeps its time to live.                 *)
(* None is inductive: they speak of keys, and a key is what calls that are *)
(* under way have made of it and will make of it.  The inductive invariant *)
(* Inv is built in layers, each of which rests on the ones before:         *)
(*   - Control: which step a call is at, whose token it works on, and that *)
(*     a token in the making has one maker;                                *)
(*   - Voided: a revocation whose SET is done has voided its token;        *)
(*   - Clock: deadlines lie ahead, by one lifetime at most;                *)
(*   - Blacklist: the seconds a revocation read are enough;                *)
(*   - Storage: the deadlines of stored tokens, and what the calls that    *)
(*     will EXPIRE them have read.                                         *)
(***************************************************************************)
EXTENDS AuthTokens, FiniteSetTheorems, TLAPS

\* The steps of each operation.
StepOK(op, step) ==
    /\ op = "idle" => step = "none"
    /\ op \in {"login", "rotate"} => step \in {"set", "expire", "sadd", "expire_set", "reply"}
    /\ op = "refresh" => step \in {"verify", "rotate", "reply"}
    /\ op \in {"revoke", "unrevoke"} => step \in {"get", "ttl", "set", "expire"}
    /\ op = "misuse" => step \in {"get", "ttl", "set", "expire", "reply"}
    /\ op = "del" => step \in {"get", "del", "srem"}
    /\ op = "revoke_at" => step \in {"set", "expire"}
    /\ op = "unrevoke_at" => step = "del"

\* A call that makes a refresh token, and one that works on a token of a client.
Making(c) == c.op \in {"login", "rotate"}
OnHanded(c) ==
    c.op \in {"misuse", "revoke", "unrevoke", "del"} \/ (c.op = "refresh" /\ c.step # "reply")

\* A token in the making is with no client yet; every other operation works on a token
\* that a client presented.
CallFits(c) ==
    /\ StepOK(c.op, c.step)
    /\ Making(c) => c.tok \in 1..nrt /\ c.tok \notin Handed
    /\ OnHanded(c) => c.tok \in Handed
    /\ c.op \in {"revoke_at", "unrevoke_at"} => c.tok \in Issued
    /\ c.step = "expire" /\ ~Making(c) => c.secs > 0

\* A token in the making has one maker.
OneMaker ==
    \A p, q \in Procs :
       Making(call[p]) /\ Making(call[q]) /\ call[p].tok = call[q].tok => p = q

\* The refreshes that may still make a refresh token are paid for.
Refreshing == {p \in Procs : call[p].op = "refresh" /\ call[p].step # "reply"}
Budget == nrt + Cardinality(Refreshing) <= ops

CallType == [op : Ops, step : Steps, tok : 0..MaxOps, secs : Int, device : {"right", "wrong"}]
Stored == [val : {"none", "valid", "revoked"}, until : Nat]

Types ==
    /\ now \in 1..MaxNow /\ ops \in 0..MaxOps /\ faults \in 0..MaxFaults
    /\ rt \in [Tokens -> Stored] /\ black \in [Tokens -> Stored]
    /\ rtIssued \in [Tokens -> Nat] /\ rtExpire \in [Tokens -> Nat]
    /\ nrt \in 0..MaxOps /\ atExpire \in [Tokens -> Nat]
    /\ userSet \subseteq Tokens /\ userSetUntil \in Nat
    /\ call \in [Procs -> CallType]
    /\ handedAt \in [Tokens -> Nat] /\ rewrites \in [Tokens -> Nat]
    /\ deleted \subseteq Handed /\ unrevoked \subseteq Tokens
    /\ misused \subseteq Handed /\ blacklisted \subseteq Issued
    /\ Handed \subseteq 1..nrt

Control == Types /\ OneMaker /\ Budget /\ \A p \in Procs : CallFits(call[p])
-----------------------------------------------------------------------------
(* Arithmetic. *)

\* The constants, and the lifetimes in ticks.
LEMMA Sizes ==
    /\ Sub \in Nat /\ Sub > 0 /\ MaxNow \in Nat /\ MaxOps \in Nat /\ MaxFaults \in Nat
    /\ AccessTTL \in Nat /\ AccessTTL > 0 /\ RefreshTTL \in Nat /\ RefreshTTL > 0
    /\ Sub * AccessTTL \in Nat /\ Sub * RefreshTTL \in Nat
    /\ Sub * AccessTTL >= Sub /\ Sub * RefreshTTL >= Sub
  BY AuthAssumption

\* What division rounds down to.
LEMMA Quotient ==
    ASSUME NEW s \in Nat, s > 0, NEW x \in Nat
    PROVE  x \div s \in Nat /\ s * (x \div s) <= x /\ x < s * (x \div s) + s
  OBVIOUS

\* A bound on the dividend bounds the quotient.
LEMMA QuotientBound ==
    ASSUME NEW s \in Nat, s > 0, NEW x \in Nat, NEW n \in Nat, x < s * n + s
    PROVE  x \div s <= n
  <1> DEFINE q == x \div s
  <1>1. s * q <= x /\ q \in Nat
    BY Quotient
  <1> HIDE DEF q
  <1>2. ASSUME q >= n + 1 PROVE FALSE
    <2>1. s * q >= s * (n + 1) /\ s * (n + 1) = s * n + s
      BY <1>1, <1>2
    <2> QED
      BY <2>1, <1>1
  <1> QED
    BY <1>1, <1>2 DEF q

\* Seconds in ticks: monotone, and linear.
LEMMA Products ==
    \A n, m \in Nat : /\ Sub * n \in Nat /\ Sub * (n + 1) = Sub * n + Sub
                      /\ n <= m => Sub * n <= Sub * m
                      /\ n > 0 => Sub * n > 0
  BY Sizes

\* exp of an access token.
Exp == ((now + Sub * AccessTTL) \div Sub) * Sub

\* It is a whole second, not after the moment it stands for.
LEMMA Expiry ==
    ASSUME now \in 1..MaxNow
    PROVE  Exp \in Nat /\ Exp > 0 /\ Exp <= now + Sub * AccessTTL
  <1> DEFINE q == (now + Sub * AccessTTL) \div Sub
  <1>1. now + Sub * AccessTTL \in Nat /\ now + Sub * AccessTTL >= Sub
    BY Sizes
  <1>2. q \in Nat /\ Sub * q <= now + Sub * AccessTTL /\ now + Sub * AccessTTL < Sub * q + Sub
    BY <1>1, Sizes, Quotient
  <1>3. Exp = Sub * q
    BY <1>2, Sizes DEF Exp
  <1> HIDE DEF q
  <1> QED
    BY <1>1, <1>2, <1>3, Sizes
-----------------------------------------------------------------------------
(* Control. *)

\* A step of thread p leaves the calls of the others.
Others(p) == \A q \in Procs \ {p} : call'[q] = call[q]

\* A step of one thread changes the refreshes under way by that thread at most.
LEMMA Refreshes ==
    ASSUME Control, NEW p \in Procs, Others(p)
    PROVE  /\ Cardinality(Refreshing) \in Nat /\ Cardinality(Refreshing') \in Nat
           /\ p \in Refreshing => Cardinality(Refreshing) > 0
           /\ (p \in Refreshing <=> p \in Refreshing') => Cardinality(Refreshing') = Cardinality(Refreshing)
           /\ p \in Refreshing /\ p \notin Refreshing' => Cardinality(Refreshing') = Cardinality(Refreshing) - 1
           /\ p \notin Refreshing /\ p \in Refreshing' => Cardinality(Refreshing') = Cardinality(Refreshing) + 1
  <1>1. IsFiniteSet(Refreshing) /\ IsFiniteSet(Refreshing')
    BY AuthAssumption, FS_Subset DEF Refreshing
  <1>2. Cardinality(Refreshing) \in Nat /\ Cardinality(Refreshing') \in Nat
    BY <1>1, FS_CardinalityType
  <1>3. \A q \in Procs : q # p => (q \in Refreshing <=> q \in Refreshing')
    BY DEF Others, Refreshing
  <1>4. Refreshing \subseteq Procs /\ Refreshing' \subseteq Procs
    BY DEF Refreshing
  <1>5. Cardinality(Refreshing \ {p}) = IF p \in Refreshing THEN Cardinality(Refreshing) - 1 ELSE Cardinality(Refreshing)
    BY <1>1, FS_RemoveElement
  <1>6. Cardinality(Refreshing' \ {p}) = IF p \in Refreshing' THEN Cardinality(Refreshing') - 1 ELSE Cardinality(Refreshing')
    BY <1>1, FS_RemoveElement
  <1>7. Refreshing \ {p} = Refreshing' \ {p}
    BY <1>3, <1>4
  <1>8. p \in Refreshing => Cardinality(Refreshing) # 0
    BY <1>1, FS_EmptySet
  <1> QED
    BY <1>2, <1>5, <1>6, <1>7, <1>8

\* The tokens of every thread stay what they are to it, when thread p hands out at most
\* the token it makes and starts to make at most a new one.
LEMMA CallsFit ==
    ASSUME Control, NEW p \in Procs, Others(p),
           nrt' \in Nat, nrt' >= nrt, Issued \subseteq Issued', Handed \subseteq Handed',
           \A t \in Handed' \ Handed : Making(call[p]) /\ call[p].tok = t,
           CallFits(call[p])',
           Making(call[p])' => \/ Making(call[p]) /\ call'[p].tok = call[p].tok
                               \/ call'[p].tok > nrt
    PROVE  OneMaker' /\ \A q \in Procs : CallFits(call[q])'
  <1>1. \A q \in Procs : q # p => call'[q] = call[q]
    BY DEF Others
  <1>2. ASSUME NEW q \in Procs, q # p PROVE CallFits(call[q])'
    <2>1. CallFits(call[q]) /\ call'[q] = call[q]
      BY <1>1, <1>2 DEF Control
    <2>2. nrt \in Nat
      BY DEF Control, Types
    <2>3. Making(call[q]) => call[q].tok \notin Handed'
      BY <1>2, <2>1 DEF Control, OneMaker, CallFits
    <2>4. call[q].tok \in 1..nrt => call[q].tok \in 1..nrt'
      BY <2>2
    <2> QED
      BY <2>1, <2>3, <2>4 DEF CallFits, Making, OnHanded
  <1>3. OneMaker'
    <2>1. \A q \in Procs : Making(call[q]) => call[q].tok <= nrt
      BY DEF Control, CallFits, Types
    <2>2. nrt \in Nat /\ \A q \in Procs : call[q].tok \in Nat
      BY Sizes DEF Control, Types, CallType
    <2>3. ASSUME NEW q \in Procs, q # p, Making(call[q])', Making(call[p])',
                 call'[q].tok = call'[p].tok
          PROVE  FALSE
      <3>1. Making(call[q]) /\ call[q].tok = call'[p].tok
        BY <1>1, <2>3 DEF Making
      <3> QED
        BY <3>1, <2>1, <2>2, <2>3 DEF Control, OneMaker
    <2> QED
      BY <1>1, <2>3 DEF Control, OneMaker, Making
  <1> QED
    BY <1>2, <1>3

\* The calls that begin: a thread is idle and takes up an operation c.
LEMMA Begins ==
    ASSUME Control, NEW p \in Procs, call[p].op = "idle", ops < MaxOps, ops' = ops + 1,
           call' \in [Procs -> CallType], Others(p),
           CallFits(call[p])', Making(call[p])' => call'[p].tok > nrt /\ nrt' = nrt + 1,
           ~Making(call[p])' => nrt' = nrt,
           Issued \subseteq Issued', UNCHANGED <<now, keys, faults, history>>,
           rtIssued' \in [Tokens -> Nat], rtExpire' \in [Tokens -> Nat], atExpire' \in [Tokens -> Nat]
    PROVE  Control'
  <1>1. nrt \in 0..MaxOps /\ ops \in 0..MaxOps /\ MaxOps \in Nat
    BY Sizes DEF Control, Types
  <1>2. Handed' = Handed
    BY DEF Handed, history
  <1>3. p \notin Refreshing
    BY DEF Refreshing
  <1>4. p \in Refreshing' => ~Making(call[p])'
    BY DEF Refreshing, Making
  <1>5. Budget' /\ nrt' \in 0..MaxOps /\ nrt' >= nrt
    BY <1>1, <1>3, <1>4, Refreshes DEF Control, Budget
  <1>6. OneMaker' /\ \A q \in Procs : CallFits(call[q])'
    BY <1>1, <1>2, <1>5, CallsFit DEF Making
  <1>7. ops' \in 0..MaxOps
    BY <1>1
  <1>8. Handed' \subseteq 1..nrt'
    BY <1>1, <1>2, <1>5 DEF Control, Types
  <1>9. Types'
    BY <1>2, <1>5, <1>7, <1>8 DEF Control, Types, keys, history
  <1> QED
    BY <1>5, <1>6, <1>9 DEF Control

\* The next step of a call, or its end: nothing is made, nothing handed out.
LEMMA GoesOn ==
    ASSUME Control, NEW p \in Procs, call' \in [Procs -> CallType], Others(p), CallFits(call[p])',
           Making(call[p])' => Making(call[p]) /\ call'[p].tok = call[p].tok,
           p \in Refreshing' => p \in Refreshing,
           UNCHANGED <<now, issue, ops, handedAt>>, faults' \in 0..MaxFaults,
           rt' \in [Tokens -> Stored], black' \in [Tokens -> Stored],
           userSet' \subseteq Tokens, userSetUntil' \in Nat, rewrites' \in [Tokens -> Nat],
           deleted' \subseteq Handed, unrevoked' \subseteq Tokens,
           misused' \subseteq Handed, blacklisted' \subseteq Issued
    PROVE  Control'
  <1>1. nrt \in Nat /\ nrt' = nrt /\ ops' = ops /\ ops \in Nat
    BY Sizes DEF Control, Types, issue
  <1>2. Handed' = Handed /\ Issued' = Issued
    BY DEF Handed, Issued, issue
  <1>3. Budget'
    BY <1>1, Refreshes DEF Control, Budget
  <1>4. OneMaker' /\ \A q \in Procs : CallFits(call[q])'
    BY <1>1, <1>2, CallsFit
  <1>5. Types'
    BY <1>1, <1>2 DEF Control, Types, issue
  <1> QED
    BY <1>3, <1>4, <1>5 DEF Control

\* The call that an operation begins with.
LEMMA Calls ==
    ASSUME NEW op \in Ops, NEW step \in Steps, NEW t \in 0..MaxOps, NEW n \in Int, NEW d \in {"right", "wrong"}
    PROVE  /\ Call(op, step, t, n, d) \in CallType
           /\ Call(op, step, t, n, d).op = op /\ Call(op, step, t, n, d).step = step
           /\ Call(op, step, t, n, d).tok = t /\ Call(op, step, t, n, d).secs = n
  BY DEF Call, CallType

\* What a thread may be told to do next.
LEMMA Moves ==
    ASSUME Control, NEW p \in Procs
    PROVE  /\ Idle \in CallType /\ StepOK(Idle.op, Idle.step)
           /\ Return(p) => /\ call' \in [Procs -> CallType] /\ Others(p) /\ call'[p] = Idle
           /\ \A s \in Steps : Goto(p, s) =>
                 /\ call' \in [Procs -> CallType] /\ Others(p)
                 /\ call'[p] = [call[p] EXCEPT !.step = s]
                 /\ call'[p].op = call[p].op /\ call'[p].step = s /\ call'[p].tok = call[p].tok
                 /\ call'[p].secs = call[p].secs
           /\ call[p] \in CallType /\ CallFits(call[p])
  <1>1. Idle \in CallType /\ StepOK(Idle.op, Idle.step)
    <2>1. "idle" \in Ops /\ "none" \in Steps /\ 0 \in 0..MaxOps
      BY Sizes DEF Ops, Steps
    <2> QED
      BY <2>1, Calls DEF Idle, StepOK
  <1>2. call \in [Procs -> CallType] /\ call[p] \in CallType /\ CallFits(call[p])
    BY DEF Control, Types
  <1>3. ASSUME NEW s \in Steps PROVE [call[p] EXCEPT !.step = s] \in CallType
    BY <1>2 DEF CallType
  <1>4. Return(p) => /\ call' \in [Procs -> CallType] /\ Others(p) /\ call'[p] = Idle
    BY <1>1, <1>2 DEF Return, Others
  <1>5. ASSUME NEW s \in Steps, Goto(p, s)
        PROVE  /\ call' \in [Procs -> CallType] /\ Others(p)
               /\ call'[p] = [call[p] EXCEPT !.step = s]
               /\ call'[p].op = call[p].op /\ call'[p].step = s /\ call'[p].tok = call[p].tok
               /\ call'[p].secs = call[p].secs
    <2>1. /\ call' \in [Procs -> CallType] /\ Others(p)
          /\ call'[p] = [call[p] EXCEPT !.step = s]
      BY <1>2, <1>3, <1>5 DEF Goto, Others
    <2>2. LET c == [call[p] EXCEPT !.step = s]
          IN  c.op = call[p].op /\ c.step = s /\ c.tok = call[p].tok /\ c.secs = call[p].secs
      BY <1>2 DEF CallType
    <2> QED
      BY <2>1, <2>2
  <1>6. \A s \in Steps : Goto(p, s) =>
           /\ call' \in [Procs -> CallType] /\ Others(p)
           /\ call'[p] = [call[p] EXCEPT !.step = s]
           /\ call'[p].op = call[p].op /\ call'[p].step = s /\ call'[p].tok = call[p].tok
           /\ call'[p].secs = call[p].secs
    BY <1>5
  <1> QED
    BY <1>1, <1>2, <1>4, <1>6

\* The making of a refresh token.
LEMMA Makes ==
    ASSUME Control, NewRefreshToken, nrt < MaxOps
    PROVE  /\ nrt' = nrt + 1 /\ nrt' \in Tokens
           /\ rtIssued' \in [Tokens -> Nat] /\ rtExpire' \in [Tokens -> Nat]
           /\ rtIssued'[nrt'] = now /\ rtExpire'[nrt'] = now + Sub * RefreshTTL
           /\ \A t \in Tokens : t # nrt' => rtIssued'[t] = rtIssued[t] /\ rtExpire'[t] = rtExpire[t]
           /\ nrt' \notin Handed
  <1>1. nrt' = nrt + 1 /\ nrt \in 0..MaxOps /\ now \in 1..MaxNow
    BY DEF NewRefreshToken, Control, Types
  <1>2. nrt' \in Tokens /\ nrt \in Nat /\ now \in Nat /\ now + Sub * RefreshTTL \in Nat
    BY <1>1, Sizes DEF Tokens
  <1> QED
    BY <1>1, <1>2 DEF NewRefreshToken, Control, Types

\* The issue of an access token.
LEMMA Issues ==
    ASSUME Control, generate_access_token
    PROVE  /\ atExpire' \in [Tokens -> Nat] /\ Issued \subseteq Issued'
           /\ \A a \in Tokens : atExpire'[a] \in {atExpire[a], Exp}
  <1>1. Exp \in Nat /\ Exp > 0
    BY Expiry DEF Control, Types
  <1>2. PICK b : atExpire' = [atExpire EXCEPT ![b] = Exp]
    BY DEF generate_access_token, Exp
  <1>3. atExpire \in [Tokens -> Nat]
    BY DEF Control, Types
  <1>4. \A a \in Tokens : atExpire'[a] \in {atExpire[a], Exp}
    BY <1>2, <1>3
  <1>5. \A a \in Tokens : atExpire'[a] = 0 => atExpire[a] = 0
    BY <1>1, <1>2, <1>3
  <1> QED
    BY <1>1, <1>2, <1>3, <1>4, <1>5 DEF Issued

\* A login begins.
LEMMA GenerateControl ==
    ASSUME Control, NEW p \in Procs, GenerateTokens(p)
    PROVE  Control' /\ Others(p)
  <1> DEFINE c == Call("login", "set", nrt + 1, 0, "right")
  <1>1. /\ call[p].op = "idle" /\ ops < MaxOps /\ ops' = ops + 1
        /\ call' = [call EXCEPT ![p] = c] /\ generate_access_token /\ NewRefreshToken
    BY DEF GenerateTokens, Begin
  <1>2. nrt \in Nat /\ ops \in Nat /\ Cardinality(Refreshing) \in Nat /\ nrt <= ops /\ nrt < MaxOps
    <2>1. nrt \in Nat /\ ops \in Nat
      BY Sizes DEF Control, Types
    <2>2. IsFiniteSet(Refreshing)
      BY AuthAssumption, FS_Subset DEF Refreshing
    <2>3. Cardinality(Refreshing) \in Nat
      BY <2>2, FS_CardinalityType
    <2> QED
      BY <1>1, <2>1, <2>3, Sizes DEF Control, Budget
  <1>3. c \in CallType /\ c.op = "login" /\ c.step = "set" /\ c.tok = nrt + 1
    <2>1. nrt + 1 \in 0..MaxOps /\ "login" \in Ops /\ "set" \in Steps
      BY <1>2, Sizes DEF Ops, Steps
    <2> QED
      BY <2>1, Calls
  <1> HIDE DEF c
  <1>4. call' \in [Procs -> CallType] /\ call'[p] = c /\ Others(p)
    BY <1>1, <1>3 DEF Control, Types, Others
  <1>5. Handed' = Handed /\ nrt' = nrt + 1
    BY <1>1 DEF GenerateTokens, history, Handed, NewRefreshToken
  <1>6. Handed \subseteq 1..nrt
    BY DEF Control, Types
  <1>7. CallFits(call[p])'
    BY <1>2, <1>3, <1>4, <1>5, <1>6 DEF CallFits, Making, OnHanded, StepOK
  <1>8. Making(call[p])' /\ call'[p].tok > nrt
    BY <1>2, <1>3, <1>4 DEF Making
  <1>9. UNCHANGED <<now, keys, faults, history>>
    BY DEF GenerateTokens
  <1> QED
    BY <1>1, <1>2, <1>4, <1>5, <1>7, <1>8, <1>9, Issues, Makes, Begins

\* The operations on what a client holds begin.
LEMMA BeginControl ==
    ASSUME Control, NEW p \in Procs,
           RefreshAccessToken(p) \/ BeginOnRefresh(p) \/ RevokeToken(p) \/ UnrevokeToken(p)
    PROVE  Control' /\ Others(p)
  <1> DEFINE Ready(c) ==
        /\ c \in CallType /\ StepOK(c.op, c.step) /\ ~Making(c)
        /\ OnHanded(c) => c.tok \in Handed
        /\ c.op \in {"revoke_at", "unrevoke_at"} => c.tok \in Issued
        /\ c.step # "expire"
  <1>1. /\ UNCHANGED <<now, keys, issue, faults, history>>
        /\ \E c : Ready(c) /\ Begin(p, c)
    <2>1. /\ \A t \in Tokens : t \in 0..MaxOps
          /\ Ops = {"idle", "login", "refresh", "rotate", "misuse", "revoke", "unrevoke", "del",
                    "revoke_at", "unrevoke_at"}
          /\ {"verify", "get", "set", "del"} \subseteq Steps
      BY Sizes DEF Tokens, Ops, Steps
    <2>2. CASE RefreshAccessToken(p)
      <3>1. PICK t \in Handed, device \in {"right", "wrong"} :
              /\ Begin(p, Call("refresh", "verify", t, 0, device))
              /\ UNCHANGED <<now, keys, issue, faults, history>>
        BY <2>2 DEF RefreshAccessToken
      <3>2. Ready(Call("refresh", "verify", t, 0, device))
        BY <2>1, Calls DEF Handed, StepOK, Making, OnHanded
      <3> QED
        BY <3>1, <3>2
    <2>3. CASE BeginOnRefresh(p)
      <3>1. PICK t \in Handed, op \in {"revoke", "unrevoke", "del"} :
              /\ Begin(p, Call(op, "get", t, 0, "right"))
              /\ UNCHANGED <<now, keys, issue, faults, history>>
        BY <2>3 DEF BeginOnRefresh
      <3>2. Ready(Call(op, "get", t, 0, "right"))
        BY <2>1, Calls DEF Handed, StepOK, Making, OnHanded
      <3> QED
        BY <3>1, <3>2
    <2>4. CASE RevokeToken(p)
      <3>1. PICK a \in Issued :
              /\ Begin(p, Call("revoke_at", "set", a, BlacklistTtl(a), "right"))
              /\ UNCHANGED <<now, keys, issue, faults, history>>
        BY <2>4 DEF RevokeToken
      <3>2. BlacklistTtl(a) \in Int
        <4>1. atExpire[a] \in Nat /\ now \in Nat
          BY Sizes DEF Issued, Control, Types
        <4>2. ASSUME atExpire[a] > now PROVE (atExpire[a] - now) \div Sub \in Nat
          BY <4>1, <4>2, Sizes, Quotient
        <4> QED
          BY <4>1, <4>2 DEF BlacklistTtl
      <3>3. Ready(Call("revoke_at", "set", a, BlacklistTtl(a), "right"))
        BY <2>1, <3>2, Calls DEF Issued, StepOK, Making, OnHanded
      <3> QED
        BY <3>1, <3>3
    <2>5. CASE UnrevokeToken(p)
      <3>1. PICK a \in Issued :
              /\ Begin(p, Call("unrevoke_at", "del", a, 0, "right"))
              /\ UNCHANGED <<now, keys, issue, faults, history>>
        BY <2>5 DEF UnrevokeToken
      <3>2. Ready(Call("unrevoke_at", "del", a, 0, "right"))
        BY <2>1, Calls DEF Issued, StepOK, Making, OnHanded
      <3> QED
        BY <3>1, <3>2
    <2> QED
      BY <2>2, <2>3, <2>4, <2>5
  <1>2. PICK c : /\ Ready(c) /\ call' = [call EXCEPT ![p] = c]
                 /\ call[p].op = "idle" /\ ops < MaxOps /\ ops' = ops + 1
    BY <1>1 DEF Begin
  <1>3. call' \in [Procs -> CallType] /\ call'[p] = c /\ Others(p)
    BY <1>2 DEF Control, Types, Others
  <1>4. Handed' = Handed /\ Issued' = Issued /\ nrt' = nrt
    BY <1>1 DEF history, issue, Handed, Issued
  <1>5. CallFits(call[p])' /\ ~Making(call[p])'
    BY <1>2, <1>3, <1>4 DEF CallFits, Making, OnHanded
  <1>6. rtIssued' \in [Tokens -> Nat] /\ rtExpire' \in [Tokens -> Nat] /\ atExpire' \in [Tokens -> Nat]
    BY <1>1 DEF issue, Control, Types
  <1> QED
    BY <1>1, <1>2, <1>3, <1>4, <1>5, <1>6, Begins

\* The values of keys.
LEMMA Keys ==
    ASSUME now \in 1..MaxNow
    PROVE  /\ Gone \in Stored /\ ~There(Gone) /\ Gone.until = 0 /\ Gone.val = "none"
           /\ \A v \in {"valid", "revoked"} : /\ SetKey(v) \in Stored /\ There(SetKey(v))
                                              /\ SetKey(v).val = v /\ SetKey(v).until = 0
           /\ \A k \in Stored, n \in Nat :
                 /\ ExpireKey(k, n) \in Stored
                 /\ There(ExpireKey(k, n)) <=> There(k)
                 /\ ExpireKey(k, n).val = k.val
                 /\ ExpireKey(k, n).until = IF There(k) THEN now + Sub * n ELSE k.until
           /\ \A k \in Stored, t \in Nat :
                 AtTime(k, t) = IF k.until # 0 /\ k.until <= t THEN Gone ELSE k
  <1>1. /\ Gone \in Stored /\ ~There(Gone) /\ Gone.until = 0 /\ Gone.val = "none"
        /\ \A v \in {"valid", "revoked"} : /\ SetKey(v) \in Stored /\ There(SetKey(v))
                                           /\ SetKey(v).val = v /\ SetKey(v).until = 0
    BY DEF Gone, SetKey, Stored, NoTtl, There
  <1>2. ASSUME NEW k \in Stored, NEW n \in Nat
        PROVE  /\ ExpireKey(k, n) \in Stored
               /\ There(ExpireKey(k, n)) <=> There(k)
               /\ ExpireKey(k, n).val = k.val
               /\ ExpireKey(k, n).until = IF There(k) THEN now + Sub * n ELSE k.until
    <2>1. now + Sub * n \in Nat
      BY Sizes
    <2> QED
      BY <2>1 DEF ExpireKey, Stored, There
  <1>3. \A k \in Stored, t \in Nat : AtTime(k, t) = IF k.until # 0 /\ k.until <= t THEN Gone ELSE k
    BY DEF AtTime, NoTtl
  <1> QED
    BY <1>1, <1>2, <1>3

\* A command that writes: what it may change, and which calls issue it.
LEMMA Writes ==
    ASSUME Control, NEW p \in Procs, Write(p)
    PROVE  /\ rt' \in [Tokens -> Stored] /\ black' \in [Tokens -> Stored]
           /\ userSet' \subseteq Tokens /\ userSetUntil' \in Nat /\ rewrites' \in [Tokens -> Nat]
           /\ deleted' \subseteq Handed /\ unrevoked' \subseteq Tokens
           /\ misused' = misused /\ blacklisted' \subseteq Issued /\ handedAt' = handedAt
           /\ call[p].op \notin {"idle", "refresh"} /\ call[p].step \notin {"reply", "verify", "get", "ttl"}
  <1>1. call[p] \in CallType /\ CallFits(call[p])
    BY DEF Control, Types
  <1>2. now \in 1..MaxNow /\ now + Sub * RefreshTTL \in Nat
    BY Sizes DEF Control, Types
  <1>3. rt \in [Tokens -> Stored] /\ black \in [Tokens -> Stored]
    BY DEF Control, Types
  <1>4. /\ Handed \subseteq Tokens /\ Issued \subseteq Tokens
        /\ 1..nrt \subseteq Tokens
    BY Sizes DEF Handed, Issued, Control, Types, Tokens
  <1>5. Making(call[p]) \/ OnHanded(call[p]) => call[p].tok \in Tokens
    BY <1>1, <1>4 DEF CallFits
  <1>6. CASE WriteRefresh(p)
    <2>1. Making(call[p])
      BY <1>1, <1>6 DEF WriteRefresh, CallFits, StepOK, Making, CallType, Ops
    <2>2. RefreshTTL \in Nat
      BY Sizes
    <2>3. rt' \in [Tokens -> Stored]
      <3>1. SetKey("valid") \in Stored /\ ExpireKey(rt[call[p].tok], RefreshTTL) \in Stored
        BY <1>2, <1>3, <1>5, <2>1, <2>2, Keys
      <3> QED
        BY <1>3, <1>6, <3>1 DEF WriteRefresh
    <2>4. userSet' \subseteq Tokens /\ userSetUntil' \in Nat
      BY <1>2, <1>5, <1>6, <2>1 DEF WriteRefresh, Control, Types, NoTtl
    <2> QED
      BY <1>1, <1>6, <2>1, <2>3, <2>4 DEF WriteRefresh, Control, Types, history, Making, CallFits, StepOK
  <1>7. CASE WriteFlag(p)
    <2>1. OnHanded(call[p]) /\ call[p].op \in {"revoke", "unrevoke", "misuse"}
      BY <1>7 DEF WriteFlag, OnHanded
    <2>2. call[p].step = "expire" => call[p].secs \in Nat
      BY <1>1, <2>1 DEF CallFits, CallType, Making
    <2>3. rt' \in [Tokens -> Stored]
      <3>1. SetKey("valid") \in Stored /\ SetKey("revoked") \in Stored
        BY <1>2, Keys
      <3>2. call[p].step = "expire" => ExpireKey(rt[call[p].tok], call[p].secs) \in Stored
        BY <1>2, <1>3, <1>5, <2>1, <2>2, Keys
      <3> QED
        BY <1>3, <1>7, <3>1, <3>2 DEF WriteFlag
    <2>4. rewrites' \in [Tokens -> Nat]
      BY <1>7 DEF WriteFlag, Control, Types, history
    <2> QED
      BY <1>1, <1>5, <1>7, <2>1, <2>3, <2>4 DEF WriteFlag, Control, Types, history
  <1>8. CASE DeleteRefresh(p)
    <2>1. call[p].tok \in Handed /\ call[p].op = "del" /\ call[p].step \in {"del", "srem"}
      BY <1>1, <1>8 DEF DeleteRefresh, Step, CallFits, OnHanded
    <2>2. rt' \in [Tokens -> Stored]
      <3>1. Gone \in Stored
        BY <1>2, Keys
      <3> QED
        BY <1>3, <1>8, <3>1 DEF DeleteRefresh
    <2>3. userSet' \subseteq Tokens /\ userSetUntil' \in Nat
      BY <1>8 DEF DeleteRefresh, Control, Types, NoTtl
    <2>4. deleted' \subseteq Handed
      BY <1>8, <2>1 DEF DeleteRefresh, Control, Types, history
    <2> QED
      BY <1>3, <1>8, <2>1, <2>2, <2>3, <2>4 DEF DeleteRefresh, Control, Types, history
  <1>9. CASE WriteBlacklist(p)
    <2>1. call[p].tok \in Issued /\ call[p].op \in {"revoke_at", "unrevoke_at"}
          /\ call[p].step \in {"set", "expire", "del"}
      BY <1>1, <1>9 DEF WriteBlacklist, Step, CallFits
    <2>2. call[p].step = "expire" => call[p].secs \in Nat
      BY <1>1, <2>1 DEF CallFits, CallType, Making
    <2>3. black' \in [Tokens -> Stored]
      <3>1. SetKey("revoked") \in Stored /\ Gone \in Stored
        BY <1>2, Keys
      <3>2. call[p].step = "expire" => ExpireKey(black[call[p].tok], call[p].secs) \in Stored
        BY <1>2, <1>3, <1>4, <2>1, <2>2, Keys
      <3> QED
        BY <1>3, <1>9, <3>1, <3>2 DEF WriteBlacklist, Step
    <2> QED
      BY <1>9, <2>1, <2>3 DEF WriteBlacklist, Control, Types, history
  <1> QED
    BY <1>6, <1>7, <1>8, <1>9 DEF Write

\* A thread that returns, or keeps its token for its next step, fits on.
LEMMA Returns ==
    ASSUME Control, NEW p \in Procs, Return(p)
    PROVE  /\ call' \in [Procs -> CallType] /\ Others(p) /\ CallFits(call[p])'
           /\ ~Making(call[p])' /\ p \notin Refreshing'
  <1>1. call' \in [Procs -> CallType] /\ Others(p) /\ call'[p] = Idle
    BY Moves
  <1>2. Idle.op = "idle" /\ Idle.step = "none"
    BY DEF Idle, Call
  <1> QED
    BY <1>1, <1>2 DEF CallFits, StepOK, Making, OnHanded, Refreshing

\* A thread that goes to a further step of its operation keeps its token.
LEMMA Continues ==
    ASSUME Control, NEW p \in Procs, NEW s \in Steps, Goto(p, s), StepOK(call[p].op, s),
           s = "expire" /\ ~Making(call[p]) => call[p].secs > 0,
           UNCHANGED <<nrt, atExpire, handedAt>>,
           call[p].op = "refresh" => s # "verify" /\ call[p].step # "reply"
    PROVE  /\ call' \in [Procs -> CallType] /\ Others(p) /\ CallFits(call[p])'
           /\ Making(call[p])' => Making(call[p]) /\ call'[p].tok = call[p].tok
           /\ p \in Refreshing' => p \in Refreshing
  <1>1. /\ call' \in [Procs -> CallType] /\ Others(p)
        /\ call'[p].op = call[p].op /\ call'[p].step = s /\ call'[p].tok = call[p].tok
        /\ call'[p].secs = call[p].secs /\ CallFits(call[p])
    BY Moves
  <1>2. Handed' = Handed /\ Issued' = Issued
    BY DEF Handed, Issued
  <1> QED
    BY <1>1, <1>2 DEF CallFits, Making, OnHanded, Refreshing

\* The step that Rest chooses is one of the operation, and an EXPIRE has a time.
LEMMA RestOK ==
    ASSUME Control, NEW p \in Procs, Write(p), Rest(call[p]) # "none"
    PROVE  /\ Rest(call[p]) \in Steps /\ StepOK(call[p].op, Rest(call[p]))
           /\ Rest(call[p]) = "expire" /\ ~Making(call[p]) => call[p].secs > 0
           /\ call[p].op # "refresh"
  <1>1. CallFits(call[p]) /\ call[p] \in CallType
    BY DEF Control, Types
  <1>2. call[p].op \notin {"idle", "refresh"}
    BY Writes
  <1>3. Rest(call[p]) \in {"expire", "sadd", "expire_set", "srem", "reply"}
    BY DEF Rest
  <1>4. Rest(call[p]) \in Steps
    BY <1>3 DEF Steps
  <1> QED
    BY <1>1, <1>2, <1>4 DEF Rest, CallFits, StepOK, CallType, Ops, Making

\* A command is executed, and the call goes on, ends, or sends it again.
LEMMA WriteControl ==
    ASSUME Control, NEW p \in Procs, WriteStep(p) \/ CommandRepeats(p)
    PROVE  Control' /\ Others(p)
  <1>1. Write(p) /\ UNCHANGED <<now, issue, ops>>
    BY DEF WriteStep, CommandRepeats
  <1>2. /\ call' \in [Procs -> CallType] /\ Others(p) /\ CallFits(call[p])'
        /\ Making(call[p])' => Making(call[p]) /\ call'[p].tok = call[p].tok
        /\ p \in Refreshing' => p \in Refreshing
    <2>1. UNCHANGED <<nrt, atExpire, handedAt>>
      BY <1>1, Writes DEF issue
    <2>2. CASE WriteStep(p) /\ Rest(call[p]) = "none"
      BY <2>2, Returns DEF WriteStep
    <2>3. CASE WriteStep(p) /\ Rest(call[p]) # "none"
      BY <1>1, <2>1, <2>3, RestOK, Continues DEF WriteStep
    <2>4. CASE CommandRepeats(p)
      <3>1. call' = call
        BY <2>4 DEF CommandRepeats
      <3>2. Handed' = Handed /\ Issued' = Issued
        BY <2>1 DEF Handed, Issued
      <3>3. CallFits(call[p]) /\ call \in [Procs -> CallType]
        BY DEF Control, Types
      <3> QED
        BY <2>1, <3>1, <3>2, <3>3 DEF Others, CallFits, Making, OnHanded, Refreshing
    <2> QED
      BY <2>2, <2>3, <2>4
  <1>3. faults' \in 0..MaxFaults
    BY Sizes DEF WriteStep, CommandRepeats, Control, Types
  <1>4. misused' \subseteq Handed
    BY <1>1, Writes DEF Control, Types
  <1>5. Control'
    BY <1>1, <1>2, <1>3, <1>4, Writes, GoesOn
  <1> QED
    BY <1>2, <1>5

\* The keys and the history of a step that writes nothing.
LEMMA Untouched ==
    ASSUME Control, UNCHANGED <<keys, deleted, unrevoked, rewrites, blacklisted>>
    PROVE  /\ rt' \in [Tokens -> Stored] /\ black' \in [Tokens -> Stored]
           /\ userSet' \subseteq Tokens /\ userSetUntil' \in Nat /\ rewrites' \in [Tokens -> Nat]
           /\ deleted' \subseteq Handed /\ unrevoked' \subseteq Tokens /\ blacklisted' \subseteq Issued
  BY DEF Control, Types, keys

\* A command fails, executed or not: the call is over, or answers without a new token.
LEMMA FailControl ==
    ASSUME Control, NEW p \in Procs, RedisFails(p)
    PROVE  Control' /\ Others(p)
  <1>1. /\ rt' \in [Tokens -> Stored] /\ black' \in [Tokens -> Stored]
        /\ userSet' \subseteq Tokens /\ userSetUntil' \in Nat /\ rewrites' \in [Tokens -> Nat]
        /\ deleted' \subseteq Handed /\ unrevoked' \subseteq Tokens /\ blacklisted' \subseteq Issued
        /\ misused' = misused /\ handedAt' = handedAt
    <2>1. CASE Write(p)
      BY <2>1, Writes
    <2>2. CASE UNCHANGED <<keys, history>>
      BY <2>2, Untouched DEF history
    <2> QED
      BY <2>1, <2>2 DEF RedisFails
  <1>2. /\ call' \in [Procs -> CallType] /\ Others(p) /\ CallFits(call[p])'
        /\ ~Making(call[p])' /\ p \notin Refreshing'
    <2>1. CASE Return(p)
      BY <2>1, Returns
    <2>2. CASE call' = [call EXCEPT ![p].op = "refresh", ![p].step = "reply"]
      <3> DEFINE c == [call[p] EXCEPT !.op = "refresh", !.step = "reply"]
      <3>1. call \in [Procs -> CallType]
        BY DEF Control, Types
      <3>2. c \in CallType /\ c.op = "refresh" /\ c.step = "reply"
        BY <3>1 DEF CallType, Ops, Steps
      <3>3. call' = [call EXCEPT ![p] = c]
        BY <2>2, <3>1
      <3> HIDE DEF c
      <3>4. call' \in [Procs -> CallType] /\ Others(p) /\ call'[p] = c
        BY <3>1, <3>2, <3>3 DEF Others
      <3> QED
        BY <3>2, <3>4 DEF CallFits, StepOK, Making, OnHanded, Refreshing
    <2> QED
      BY <2>1, <2>2 DEF RedisFails
  <1>3. faults' \in 0..MaxFaults /\ UNCHANGED <<now, issue, ops>>
    BY Sizes DEF RedisFails, Control, Types
  <1>4. misused' \subseteq Handed
    BY <1>1 DEF Control, Types
  <1>5. Control'
    BY <1>1, <1>2, <1>3, <1>4, GoesOn
  <1> QED
    BY <1>2, <1>5

\* The seconds TTL answers, of a key that has not expired.
LEMMA TtlInt ==
    ASSUME Control, NEW t \in Tokens
    PROVE  Ttl(rt[t]) \in Int
  <1>1. rt[t] \in Stored /\ now \in Int /\ Sub \in Int
    BY Sizes DEF Control, Types
  <1>2. 2 * (rt[t].until - now) + Sub \in Int /\ 2 * Sub \in Int /\ 2 * Sub > 0
    BY <1>1, Sizes DEF Stored
  <1>3. (2 * (rt[t].until - now) + Sub) \div (2 * Sub) \in Int
    BY <1>2
  <1> QED
    BY <1>3 DEF Ttl

\* The commands that read.
LEMMA ReadControl ==
    ASSUME Control, NEW p \in Procs, VerifyRefresh(p) \/ GetMeta(p) \/ GetTtl(p)
    PROVE  Control' /\ Others(p)
  <1>1. call \in [Procs -> CallType] /\ call[p] \in CallType /\ CallFits(call[p])
    BY DEF Control, Types
  <1>2. /\ UNCHANGED <<now, keys, issue, ops, faults, handedAt, deleted, unrevoked, rewrites, blacklisted>>
    BY DEF VerifyRefresh, GetMeta, GetTtl, history
  <1>3. Handed' = Handed /\ Issued' = Issued /\ nrt' = nrt /\ atExpire' = atExpire
    BY <1>2 DEF Handed, Issued, issue
  <1>4. call[p].op \notin {"login", "rotate", "idle", "revoke_at", "unrevoke_at"}
    BY <1>1 DEF VerifyRefresh, GetMeta, GetTtl, Step, CallFits, StepOK
  <1>5. call[p].tok \in Handed /\ call[p].tok \in Tokens
    BY <1>1, <1>4 DEF VerifyRefresh, GetMeta, GetTtl, Step, CallFits, StepOK, OnHanded, CallType, Ops, Handed
  <1>6. misused' \subseteq Handed
    BY <1>5 DEF VerifyRefresh, GetMeta, GetTtl, Control, Types, history
  <1> DEFINE Fit(c) == /\ StepOK(c.op, c.step) /\ ~Making(c)
                       /\ OnHanded(c) => c.tok = call[p].tok
                       /\ c.op \notin {"revoke_at", "unrevoke_at"} /\ c.step # "expire"
                       /\ c.op = "refresh" => call[p].op = "refresh" /\ call[p].step = "verify"
  <1>7. \E c \in CallType : Fit(c) /\ call' = [call EXCEPT ![p] = c]
    <2>1. Idle \in CallType /\ Idle.op = "idle" /\ Idle.step = "none" /\ Idle.tok = 0
      <3>1. Idle \in CallType
        BY Moves
      <3> QED
        BY <3>1 DEF Idle, Call
    <2>2. CASE Return(p)
      <3>1. Fit(Idle)
        BY <2>1 DEF StepOK, Making, OnHanded
      <3> QED
        BY <2>1, <2>2, <3>1 DEF Return
    <2>3. CASE VerifyRefresh(p) /\ Goto(p, "rotate")
      <3> DEFINE c == [call[p] EXCEPT !.step = "rotate"]
      <3>1. c \in CallType /\ c.op = "refresh" /\ c.step = "rotate" /\ c.tok = call[p].tok
        BY <1>1, <2>3 DEF CallType, Steps, VerifyRefresh, Step
      <3>2. Fit(c)
        BY <2>3, <3>1 DEF VerifyRefresh, Step, StepOK, Making, OnHanded
      <3>3. call' = [call EXCEPT ![p] = c]
        BY <1>1, <2>3 DEF Goto
      <3> QED
        BY <3>1, <3>2, <3>3
    <2>4. CASE VerifyRefresh(p) /\ call' = [call EXCEPT ![p].op = "misuse", ![p].step = "get"]
      <3> DEFINE c == [call[p] EXCEPT !.op = "misuse", !.step = "get"]
      <3>1. c \in CallType /\ c.op = "misuse" /\ c.step = "get" /\ c.tok = call[p].tok
        BY <1>1 DEF CallType, Steps, Ops
      <3>2. Fit(c)
        BY <3>1 DEF StepOK, Making, OnHanded
      <3>3. call' = [call EXCEPT ![p] = c]
        BY <1>1, <2>4
      <3> QED
        BY <3>1, <3>2, <3>3
    <2>5. CASE GetMeta(p) /\ call[p].op # "del" /\ Goto(p, "ttl")
      <3> DEFINE c == [call[p] EXCEPT !.step = "ttl"]
      <3>1. c \in CallType /\ c.op = call[p].op /\ c.step = "ttl" /\ c.tok = call[p].tok
        BY <1>1 DEF CallType, Steps
      <3>2. c.op \in {"misuse", "revoke", "unrevoke"}
        BY <1>1, <1>4, <2>5, <3>1 DEF GetMeta, CallFits, StepOK, CallType, Ops
      <3>3. Fit(c)
        BY <3>1, <3>2 DEF StepOK, Making, OnHanded
      <3>4. call' = [call EXCEPT ![p] = c]
        BY <1>1, <2>5 DEF Goto
      <3> QED
        BY <3>1, <3>3, <3>4
    <2>6. CASE /\ call[p].op = "del"
               /\ call' = [call EXCEPT ![p].step = "del", ![p].secs = IF There(rt[call[p].tok]) THEN 1 ELSE 0]
      <3> DEFINE c == [call[p] EXCEPT !.step = "del", !.secs = IF There(rt[call[p].tok]) THEN 1 ELSE 0]
      <3>1. c \in CallType /\ c.op = "del" /\ c.step = "del" /\ c.tok = call[p].tok
        <4> DEFINE n == IF There(rt[call[p].tok]) THEN 1 ELSE 0
        <4>1. n \in Int
          OBVIOUS
        <4> HIDE DEF n
        <4>2. LET d == [call[p] EXCEPT !.step = "del", !.secs = n]
              IN  d \in CallType /\ d.op = call[p].op /\ d.step = "del" /\ d.tok = call[p].tok
          BY <1>1, <4>1 DEF CallType, Steps
        <4> QED
          BY <2>6, <4>2 DEF n
      <3>2. Fit(c)
        BY <3>1 DEF StepOK, Making, OnHanded
      <3>3. call' = [call EXCEPT ![p] = c]
        BY <1>1, <2>6
      <3> QED
        BY <3>1, <3>2, <3>3
    <2>7. CASE GetTtl(p)
      <3> DEFINE c == [call[p] EXCEPT !.step = "set", !.secs = Ttl(rt[call[p].tok])]
      <3>1. c \in CallType /\ c.op = call[p].op /\ c.step = "set" /\ c.tok = call[p].tok
        BY <1>1, <1>5, TtlInt DEF CallType, Steps
      <3>2. c.op \in {"misuse", "revoke", "unrevoke"}
        BY <1>1, <1>4, <2>7, <3>1 DEF GetTtl, CallFits, StepOK, CallType, Ops
      <3>3. Fit(c)
        BY <3>1, <3>2 DEF StepOK, Making, OnHanded
      <3>4. call' = [call EXCEPT ![p] = c]
        BY <1>1, <2>7 DEF GetTtl
      <3> QED
        BY <3>1, <3>3, <3>4
    <2> QED
      BY <2>2, <2>3, <2>4, <2>5, <2>6, <2>7 DEF VerifyRefresh, GetMeta
  <1>8. PICK c \in CallType : Fit(c) /\ call' = [call EXCEPT ![p] = c]
    BY <1>7
  <1>9. call' \in [Procs -> CallType] /\ Others(p) /\ call'[p] = c
    BY <1>1, <1>8 DEF Others
  <1>10. CallFits(call[p])' /\ ~Making(call[p])' /\ (p \in Refreshing' => p \in Refreshing)
    BY <1>3, <1>5, <1>8, <1>9 DEF CallFits, Making, OnHanded, Refreshing
  <1>11. faults' \in 0..MaxFaults
    BY <1>2 DEF Control, Types
  <1>12. Control'
    BY <1>2, <1>6, <1>9, <1>10, <1>11, Untouched, GoesOn
  <1> QED
    BY <1>9, <1>12

\* A refresh rotates its refresh token, for which its budget pays, or keeps it.
LEMMA RotateControl ==
    ASSUME Control, NEW p \in Procs, CheckRotate(p)
    PROVE  Control' /\ Others(p)
  <1>1. call \in [Procs -> CallType] /\ call[p] \in CallType /\ CallFits(call[p])
    BY DEF Control, Types
  <1>2. /\ UNCHANGED <<now, keys, ops, faults, history>>
        /\ call[p].op = "refresh" /\ call[p].step = "rotate"
    BY DEF CheckRotate, Step
  <1>3. Handed' = Handed /\ Handed \subseteq 1..nrt
    BY <1>2 DEF Handed, history, Control, Types
  <1>4. CASE Goto(p, "reply") /\ UNCHANGED issue
    <2>1. UNCHANGED <<nrt, atExpire, handedAt>>
      BY <1>2, <1>4 DEF issue, history
    <2>2. "reply" \in Steps /\ StepOK("refresh", "reply")
      BY DEF Steps, StepOK
    <2>3. /\ call' \in [Procs -> CallType] /\ Others(p) /\ CallFits(call[p])'
          /\ Making(call[p])' => Making(call[p]) /\ call'[p].tok = call[p].tok
          /\ p \in Refreshing' => p \in Refreshing
      BY <1>2, <1>4, <2>1, <2>2, Continues
    <2>4. faults' \in 0..MaxFaults /\ misused' \subseteq Handed
      BY <1>2 DEF Control, Types, history
    <2>5. UNCHANGED <<keys, deleted, unrevoked, rewrites, blacklisted, handedAt, now, ops, issue>>
      BY <1>2, <1>4 DEF history
    <2> QED
      BY <2>3, <2>4, <2>5, Untouched, GoesOn
  <1>5. CASE /\ NewRefreshToken /\ UNCHANGED atExpire
             /\ call' = [call EXCEPT ![p].op = "rotate", ![p].step = "set", ![p].tok = nrt']
    <2>1. p \in Refreshing
      BY <1>2 DEF Refreshing
    <2>2. nrt \in 0..MaxOps /\ ops \in 0..MaxOps /\ MaxOps \in Nat
      BY Sizes DEF Control, Types
    <2>3. nrt < MaxOps
      <3>1. IsFiniteSet(Refreshing)
        BY AuthAssumption, FS_Subset DEF Refreshing
      <3>2. Cardinality(Refreshing) \in Nat /\ Cardinality(Refreshing) # 0
        BY <2>1, <3>1, FS_CardinalityType, FS_EmptySet
      <3> QED
        BY <2>2, <3>2 DEF Control, Budget
    <2>4. /\ nrt' = nrt + 1 /\ nrt' \in Tokens /\ nrt' \notin Handed
          /\ rtIssued' \in [Tokens -> Nat] /\ rtExpire' \in [Tokens -> Nat]
      BY <1>5, <2>3, Makes
    <2>5. nrt' \in 0..MaxOps /\ nrt' \in 1..nrt' /\ nrt' > nrt /\ nrt' \in Nat
      BY <2>2, <2>3, <2>4
    <2> DEFINE c == [call[p] EXCEPT !.op = "rotate", !.step = "set", !.tok = nrt']
    <2>6. c \in CallType /\ c.op = "rotate" /\ c.step = "set" /\ c.tok = nrt'
      BY <1>1, <2>5 DEF CallType, Ops, Steps
    <2>7. call' = [call EXCEPT ![p] = c]
      BY <1>1, <1>5
    <2> HIDE DEF c
    <2>8. call' \in [Procs -> CallType] /\ Others(p) /\ call'[p] = c
      BY <1>1, <2>6, <2>7 DEF Others
    <2>9. CallFits(call[p])'
      BY <1>3, <2>4, <2>5, <2>6, <2>8 DEF CallFits, StepOK, Making, OnHanded
    <2>10. p \notin Refreshing'
      BY <2>6, <2>8 DEF Refreshing
    <2>11. Budget'
      BY <1>2, <2>1, <2>2, <2>4, <2>8, <2>10, Refreshes DEF Control, Budget
    <2>12. Issued' = Issued
      BY <1>5 DEF Issued
    <2>13. OneMaker' /\ \A q \in Procs : CallFits(call[q])'
      <3>1. nrt' >= nrt /\ call'[p].tok > nrt /\ nrt' \in Nat
        BY <2>2, <2>5, <2>6, <2>8
      <3> QED
        BY <1>3, <2>8, <2>9, <2>12, <3>1, CallsFit
    <2>14. Handed' \subseteq 1..nrt'
      BY <1>3, <2>2, <2>4
    <2>15. Types'
      BY <1>2, <1>3, <1>5, <2>4, <2>5, <2>8, <2>12, <2>14 DEF Control, Types, keys, history
    <2> QED
      BY <2>8, <2>11, <2>13, <2>15 DEF Control
  <1> QED
    BY <1>4, <1>5 DEF CheckRotate

\* An answer: the client holds the token its call made.
LEMMA ReplyControl ==
    ASSUME Control, NEW p \in Procs, Reply(p)
    PROVE  Control' /\ Others(p)
  <1>1. call \in [Procs -> CallType] /\ call[p] \in CallType /\ CallFits(call[p])
    BY DEF Control, Types
  <1>2. UNCHANGED <<now, keys, rtIssued, rtExpire, nrt, ops, faults, deleted, unrevoked, rewrites, blacklisted>>
    BY DEF Reply
  <1>3. /\ call' \in [Procs -> CallType] /\ Others(p) /\ CallFits(call[p])'
        /\ ~Making(call[p])' /\ p \notin Refreshing'
    BY Returns DEF Reply
  <1>4. atExpire' \in [Tokens -> Nat] /\ Issued \subseteq Issued'
    <2>1. CASE generate_access_token
      BY <2>1, Issues
    <2>2. CASE UNCHANGED atExpire
      BY <2>2 DEF Control, Types, Issued
    <2> QED
      BY <2>1, <2>2 DEF Reply
  <1>5. now \in Nat /\ now # 0 /\ nrt \in Nat /\ nrt' = nrt /\ ops \in Nat /\ ops' = ops
    BY <1>2, Sizes DEF Control, Types
  <1>6. handedAt \in [Tokens -> Nat] /\ Handed \subseteq 1..nrt /\ misused \subseteq Handed
    BY DEF Control, Types
  <1>7. handedAt' = IF Making(call[p]) THEN [handedAt EXCEPT ![call[p].tok] = now] ELSE handedAt
    BY DEF Reply, Making
  <1>8. Making(call[p]) => call[p].tok \in 1..nrt
    BY <1>1 DEF CallFits
  <1>9. /\ handedAt' \in [Tokens -> Nat] /\ Handed \subseteq Handed' /\ Handed' \subseteq 1..nrt'
        /\ \A t \in Handed' \ Handed : Making(call[p]) /\ call[p].tok = t
    BY <1>5, <1>6, <1>7, <1>8 DEF Handed, NotHanded
  <1>10. misused' \subseteq Handed'
    <2>1. call[p].op = "misuse" => call[p].tok \in Handed
      BY <1>1 DEF CallFits, OnHanded
    <2> QED
      BY <1>6, <1>9, <2>1 DEF Reply
  <1>11. Budget'
    BY <1>3, <1>5, Refreshes DEF Control, Budget
  <1>12. OneMaker' /\ \A q \in Procs : CallFits(call[q])'
    BY <1>3, <1>4, <1>5, <1>9, CallsFit
  <1>13. Types'
    BY <1>2, <1>3, <1>4, <1>9, <1>10 DEF Control, Types, keys
  <1> QED
    BY <1>3, <1>11, <1>12, <1>13 DEF Control

\* Time passes.
LEMMA TickControl ==
    ASSUME Control, Tick
    PROVE  Control' /\ call' = call
  <1>1. UNCHANGED <<issue, call, ops, faults, history>>
    BY DEF Tick
  <1>2. now' \in 1..MaxNow /\ now' \in Nat /\ now \in 1..MaxNow
    BY Sizes DEF Tick, Control, Types
  <1>3. rt' \in [Tokens -> Stored] /\ black' \in [Tokens -> Stored]
    <2>1. Gone \in Stored
      BY <1>2, Keys
    <2>2. \A k \in Stored : AtTime(k, now') \in Stored
      BY <2>1 DEF AtTime
    <2>3. \A t \in Tokens : rt[t] \in Stored /\ black[t] \in Stored
      BY DEF Control, Types
    <2> QED
      BY <2>2, <2>3 DEF Tick
  <1>4. userSet' \subseteq Tokens /\ userSetUntil' \in Nat
    BY DEF Tick, Control, Types, NoTtl
  <1>5. Handed' = Handed /\ Issued' = Issued /\ Refreshing' = Refreshing
    BY <1>1 DEF Handed, Issued, Refreshing, history, issue
  <1>6. Types'
    BY <1>1, <1>2, <1>3, <1>4, <1>5 DEF Control, Types, history, issue
  <1>7. OneMaker' /\ Budget'
    BY <1>1, <1>5 DEF Control, OneMaker, Budget, Making, issue
  <1>8. \A q \in Procs : CallFits(call[q])'
    BY <1>1, <1>5 DEF Control, CallFits, Making, OnHanded, issue
  <1> QED
    BY <1>1, <1>6, <1>7, <1>8 DEF Control

\* Control holds initially.
LEMMA ControlInit == Init => Control
  <1> SUFFICES ASSUME Init PROVE Control
    OBVIOUS
  <1>1. Handed = {} /\ Issued = {}
    BY DEF Init, Handed, Issued, NotHanded
  <1>2. Gone \in Stored
    BY DEF Gone, Stored, NoTtl
  <1>3. /\ 0 \in 0..MaxOps /\ 0 \in 0..MaxFaults /\ 1 \in 1..MaxNow
    BY AuthAssumption
  <1>4. Idle \in CallType /\ Idle.op = "idle" /\ Idle.step = "none"
    <2>1. "idle" \in Ops /\ "none" \in Steps
      BY DEF Ops, Steps
    <2> QED
      BY <1>3, <2>1, Calls DEF Idle
  <1>5. Types
    BY <1>1, <1>2, <1>3, <1>4 DEF Init, Types, NoTtl, NotHanded
  <1>6. \A p \in Procs : call[p].op = "idle" /\ call[p].step = "none"
    BY <1>4 DEF Init
  <1>7. Refreshing = {}
    BY <1>6 DEF Refreshing
  <1>8. Budget
    BY <1>7, FS_EmptySet DEF Budget, Init
  <1> QED
    BY <1>5, <1>6, <1>8 DEF Control, OneMaker, CallFits, StepOK, Making, OnHanded

\* Every step preserves Control.
LEMMA ControlStep ==
    ASSUME Control, [Next]_vars
    PROVE  Control'
  <1>1. CASE Tick
    BY <1>1, TickControl
  <1>2. ASSUME NEW p \in Procs, GenerateTokens(p) PROVE Control'
    BY <1>2, GenerateControl
  <1>3. ASSUME NEW p \in Procs,
               RefreshAccessToken(p) \/ BeginOnRefresh(p) \/ RevokeToken(p) \/ UnrevokeToken(p)
        PROVE  Control'
    BY <1>3, BeginControl
  <1>4. ASSUME NEW p \in Procs, WriteStep(p) \/ CommandRepeats(p) PROVE Control'
    BY <1>4, WriteControl
  <1>5. ASSUME NEW p \in Procs, VerifyRefresh(p) \/ GetMeta(p) \/ GetTtl(p) PROVE Control'
    BY <1>5, ReadControl
  <1>6. ASSUME NEW p \in Procs, CheckRotate(p) PROVE Control'
    BY <1>6, RotateControl
  <1>7. ASSUME NEW p \in Procs, Reply(p) PROVE Control'
    BY <1>7, ReplyControl
  <1>8. ASSUME NEW p \in Procs, RedisFails(p) PROVE Control'
    BY <1>8, FailControl
  <1>9. CASE UNCHANGED vars
    BY <1>9 DEF vars, keys, issue, history, Control, Types, OneMaker, Budget, CallFits, StepOK,
                Making, OnHanded, Refreshing, Handed, Issued
  <1> QED
    BY <1>1, <1>2, <1>3, <1>4, <1>5, <1>6, <1>7, <1>8, <1>9 DEF Next

\* A step lets time pass, executes a command that writes, or leaves the keys alone.
LEMMA Kinds ==
    ASSUME [Next]_vars
    PROVE  \/ Tick
           \/ \E p \in Procs : Write(p) /\ UNCHANGED <<now, issue, misused, handedAt>>
           \/ UNCHANGED <<now, keys, deleted, unrevoked, rewrites, blacklisted>>
  <1>1. ASSUME NEW p \in Procs, Write(p) PROVE UNCHANGED <<misused, handedAt>>
    BY <1>1 DEF Write, WriteRefresh, WriteFlag, DeleteRefresh, WriteBlacklist, history
  <1>2. ASSUME NEW p \in Procs, WriteStep(p) \/ CommandRepeats(p)
        PROVE  Write(p) /\ UNCHANGED <<now, issue, misused, handedAt>>
    BY <1>1, <1>2 DEF WriteStep, CommandRepeats
  <1>3. ASSUME NEW p \in Procs, RedisFails(p)
        PROVE  \/ Write(p) /\ UNCHANGED <<now, issue, misused, handedAt>>
               \/ UNCHANGED <<now, keys, deleted, unrevoked, rewrites, blacklisted>>
    BY <1>1, <1>3 DEF RedisFails, history
  <1>4. ASSUME NEW p \in Procs, \/ GenerateTokens(p) \/ RefreshAccessToken(p) \/ BeginOnRefresh(p)
                                \/ RevokeToken(p) \/ UnrevokeToken(p) \/ VerifyRefresh(p)
                                \/ CheckRotate(p) \/ GetMeta(p) \/ GetTtl(p) \/ Reply(p)
        PROVE  UNCHANGED <<now, keys, deleted, unrevoked, rewrites, blacklisted>>
    BY <1>4 DEF GenerateTokens, RefreshAccessToken, BeginOnRefresh, RevokeToken, UnrevokeToken,
                VerifyRefresh, CheckRotate, GetMeta, GetTtl, Reply, history
  <1>5. CASE UNCHANGED vars
    BY <1>5 DEF vars, history
  <1> QED
    BY <1>2, <1>3, <1>4, <1>5 DEF Next

\* How a call changes: it begins, ends, or goes on.
CallBegins(p) ==
    /\ call[p].op = "idle"
    /\ \/ call'[p].op = "revoke_at" /\ call'[p].step = "set" /\ call'[p].secs = BlacklistTtl(call'[p].tok)
          /\ call'[p].tok \in Issued
       \/ call'[p].op = "login" /\ call'[p].step = "set" /\ call'[p].secs = 0
       \/ call'[p].op \in {"refresh", "revoke", "unrevoke", "del", "unrevoke_at"}
          /\ call'[p].step \in {"verify", "get", "del"} /\ call'[p].secs = 0
CallRefreshes(p) ==
    /\ call[p].op \in {"refresh", "rotate"} /\ call'[p].secs = call[p].secs
    /\ \/ call'[p].op = "refresh"
       \/ call'[p].op = "misuse" /\ call'[p].step = "get"
       \/ call'[p].op = "rotate" /\ call'[p].step = "set" /\ CheckRotate(p) /\ NewRefreshToken /\ call'[p].tok = nrt'
CallGoesOn(p) ==
    /\ call'[p].op = call[p].op /\ call'[p].tok = call[p].tok /\ call[p].op # "refresh"
    /\ \/ WriteStep(p) /\ call'[p].step = Rest(call[p]) /\ call'[p].secs = call[p].secs
       \/ GetMeta(p) /\ call'[p].step = "ttl" /\ call'[p].secs = call[p].secs
       \/ GetMeta(p) /\ call'[p].step = "del" /\ call'[p].op = "del" /\ call'[p].secs \in {0, 1}
       \/ GetTtl(p) /\ call'[p].step = "set" /\ call'[p].secs = Ttl(rt[call[p].tok])

\* A call that changes does so in one of these ways.
LEMMA CallSteps ==
    ASSUME Control, [Next]_vars, NEW p \in Procs, call'[p] # call[p]
    PROVE  call'[p] = Idle \/ CallBegins(p) \/ CallRefreshes(p) \/ CallGoesOn(p)
  <1>1. call \in [Procs -> CallType] /\ call[p] \in CallType /\ CallFits(call[p])
    BY DEF Control, Types
  <1>2. ASSUME NEW q \in Procs, Others(q) PROVE q = p
    BY <1>2 DEF Others
  <1>3. ASSUME NEW c, call' = [call EXCEPT ![p] = c] PROVE call'[p] = c
    BY <1>1, <1>3
  <1>4. ASSUME Return(p) PROVE call'[p] = Idle
    BY <1>1, <1>4 DEF Return
  <1>5. ASSUME NEW q \in Procs, GenerateTokens(q) PROVE CallBegins(p)
    <2>1. q = p
      BY <1>2, <1>5, GenerateControl
    <2>2. call[p].op = "idle" /\ call'[p] = Call("login", "set", nrt + 1, 0, "right")
      BY <1>1, <1>5, <2>1 DEF GenerateTokens, Begin
    <2> QED
      BY <2>2 DEF CallBegins, Call
  <1>6. ASSUME NEW q \in Procs,
               RefreshAccessToken(q) \/ BeginOnRefresh(q) \/ RevokeToken(q) \/ UnrevokeToken(q)
        PROVE  CallBegins(p)
    <2>1. q = p
      BY <1>2, <1>6, BeginControl
    <2>2. CASE RefreshAccessToken(p)
      BY <1>1, <2>2 DEF RefreshAccessToken, Begin, CallBegins, Call
    <2>3. CASE BeginOnRefresh(p)
      BY <1>1, <2>3 DEF BeginOnRefresh, Begin, CallBegins, Call
    <2>4. CASE RevokeToken(p)
      BY <1>1, <2>4 DEF RevokeToken, Begin, CallBegins, Call
    <2>5. CASE UnrevokeToken(p)
      BY <1>1, <2>5 DEF UnrevokeToken, Begin, CallBegins, Call
    <2> QED
      BY <1>6, <2>1, <2>2, <2>3, <2>4, <2>5
  <1>7. ASSUME NEW q \in Procs, WriteStep(q) PROVE call'[p] = Idle \/ CallGoesOn(p)
    <2>1. q = p
      BY <1>2, <1>7, WriteControl
    <2>2. CASE Rest(call[p]) # "none"
      <3>1. Goto(p, Rest(call[p])) /\ Write(p)
        BY <1>7, <2>1, <2>2 DEF WriteStep
      <3>2. Rest(call[p]) \in Steps /\ call[p].op # "refresh"
        BY <2>2, <3>1, RestOK
      <3>3. /\ call'[p].op = call[p].op /\ call'[p].step = Rest(call[p]) /\ call'[p].tok = call[p].tok
            /\ call'[p].secs = call[p].secs
        BY <3>1, <3>2, Moves
      <3> QED
        BY <1>7, <2>1, <3>2, <3>3 DEF CallGoesOn
    <2> QED
      BY <1>4, <1>7, <2>1, <2>2 DEF WriteStep
  <1>8. ASSUME NEW q \in Procs, CommandRepeats(q) PROVE FALSE
    BY <1>8 DEF CommandRepeats
  <1>9. ASSUME NEW q \in Procs, VerifyRefresh(q) \/ GetMeta(q) \/ GetTtl(q)
        PROVE  call'[p] = Idle \/ CallRefreshes(p) \/ CallGoesOn(p)
    <2>1. q = p
      BY <1>2, <1>9, ReadControl
    <2>2. CASE VerifyRefresh(p)
      <3>1. call[p].op = "refresh"
        BY <2>2 DEF VerifyRefresh, Step
      <3>2. CASE Goto(p, "rotate")
        BY <1>1, <3>1, <3>2 DEF Goto, CallRefreshes, CallType
      <3>3. CASE call' = [call EXCEPT ![p].op = "misuse", ![p].step = "get"]
        BY <1>1, <3>1, <3>3 DEF CallRefreshes, CallType
      <3> QED
        BY <1>4, <2>2, <3>2, <3>3 DEF VerifyRefresh
    <2>3. CASE GetMeta(p)
      <3>1. call[p].op # "refresh"
        BY <1>1, <2>3 DEF GetMeta, CallFits, StepOK
      <3>2. CASE Goto(p, "ttl")
        BY <1>1, <2>3, <3>1, <3>2 DEF Goto, CallGoesOn, CallType
      <3>3. CASE /\ call[p].op = "del"
                 /\ call' = [call EXCEPT ![p].step = "del", ![p].secs = IF There(rt[call[p].tok]) THEN 1 ELSE 0]
        BY <1>1, <2>3, <3>3 DEF CallGoesOn, CallType
      <3> QED
        BY <1>4, <2>3, <3>2, <3>3 DEF GetMeta
    <2>4. CASE GetTtl(p)
      <3>1. call[p].op # "refresh"
        BY <1>1, <2>4 DEF GetTtl, CallFits, StepOK
      <3>2. call' = [call EXCEPT ![p].step = "set", ![p].secs = Ttl(rt[call[p].tok])]
        BY <2>4 DEF GetTtl
      <3> QED
        BY <1>1, <2>4, <3>1, <3>2 DEF CallGoesOn, CallType
    <2> QED
      BY <1>9, <2>1, <2>2, <2>3, <2>4
  <1>10. ASSUME NEW q \in Procs, CheckRotate(q) PROVE CallRefreshes(p)
    <2>1. q = p
      BY <1>2, <1>10, RotateControl
    <2>2. call[p].op = "refresh"
      BY <1>10, <2>1 DEF CheckRotate, Step
    <2>3. CASE Goto(p, "reply")
      BY <1>1, <2>2, <2>3 DEF Goto, CallRefreshes, CallType
    <2>4. CASE /\ NewRefreshToken
               /\ call' = [call EXCEPT ![p].op = "rotate", ![p].step = "set", ![p].tok = nrt']
      BY <1>1, <1>10, <2>1, <2>2, <2>4 DEF CallRefreshes, CallType
    <2> QED
      BY <1>10, <2>1, <2>3, <2>4 DEF CheckRotate
  <1>11. ASSUME NEW q \in Procs, Reply(q) PROVE call'[p] = Idle
    <2>1. q = p
      BY <1>2, <1>11, ReplyControl
    <2> QED
      BY <1>4, <1>11, <2>1 DEF Reply
  <1>12. ASSUME NEW q \in Procs, RedisFails(q) PROVE call'[p] = Idle \/ CallRefreshes(p)
    <2>1. q = p
      BY <1>2, <1>12, FailControl
    <2>2. CASE /\ call' = [call EXCEPT ![p].op = "refresh", ![p].step = "reply"]
               /\ call[p].op \in {"refresh", "rotate"}
      BY <1>1, <2>2 DEF CallRefreshes, CallType
    <2> QED
      BY <1>4, <1>12, <2>1, <2>2 DEF RedisFails, Step
  <1>13. CASE Tick \/ UNCHANGED vars
    BY <1>13 DEF Tick, vars
  <1> QED
    BY <1>5, <1>6, <1>7, <1>8, <1>9, <1>10, <1>11, <1>12, <1>13 DEF Next
-----------------------------------------------------------------------------
(* Refresh tokens that are void. *)

\* The token is refused, or an unrevocation has brought it back.
Void(t) == t \in unrevoked \/ ~verify_refresh_token(t)

\* A revocation has voided its token as soon as its SET is done, and an unrevocation
\* is on record.
CallVoids(c) ==
    /\ c.op \in {"misuse", "revoke"} /\ c.step \in {"expire", "reply"} => Void(c.tok)
    /\ c.op = "unrevoke" /\ c.step = "expire" => c.tok \in unrevoked

Voided ==
    /\ \A t \in deleted \cup misused : Void(t)
    /\ \A p \in Procs : CallVoids(call[p])

\* What a void token that a client holds can become.
LEMMA StaysVoid ==
    ASSUME Control, Voided, [Next]_vars, NEW t \in Handed, Void(t)
    PROVE  Void(t)'
  <1>1. t \in Tokens /\ rt[t] \in Stored /\ now \in 1..MaxNow /\ rt \in [Tokens -> Stored]
    BY DEF Handed, Control, Types
  <1>2. CASE rt' = rt /\ unrevoked' = unrevoked
    BY <1>2 DEF Void, verify_refresh_token
  <1>3. CASE Tick
    <2>1. now' \in Nat /\ unrevoked' = unrevoked /\ rt'[t] = AtTime(rt[t], now')
      BY <1>1, <1>3, Sizes DEF Tick, history
    <2>2. rt'[t] = rt[t] \/ rt'[t] = Gone
      BY <2>1 DEF AtTime
    <2>3. Gone.val = "none"
      BY DEF Gone
    <2> QED
      BY <2>1, <2>2, <2>3 DEF Void, verify_refresh_token
  <1>4. ASSUME NEW p \in Procs, Write(p) PROVE Void(t)'
    <2>1. call[p] \in CallType /\ CallFits(call[p]) /\ CallVoids(call[p])
      BY DEF Control, Types, Voided
    <2>2. CASE t # call[p].tok
      <3>1. rt'[t] = rt[t] /\ unrevoked \subseteq unrevoked'
        BY <1>1, <1>4, <2>2
           DEF Write, WriteRefresh, WriteFlag, DeleteRefresh, WriteBlacklist, history
      <3> QED
        BY <3>1 DEF Void, verify_refresh_token
    <2>3. CASE t = call[p].tok /\ WriteRefresh(p)
      <3>1. Making(call[p])
        BY <2>1, <2>3 DEF WriteRefresh, CallFits, StepOK, Making, CallType, Ops
      <3> QED
        BY <2>1, <2>3, <3>1 DEF CallFits
    <2>4. CASE t = call[p].tok /\ WriteFlag(p) /\ call[p].step = "set"
      <3>1. CASE call[p].op = "unrevoke"
        BY <2>4, <3>1 DEF WriteFlag, Void
      <3>2. CASE call[p].op # "unrevoke"
        <4>1. rt'[t] = SetKey("revoked")
          BY <1>1, <2>4, <3>2 DEF WriteFlag
        <4> QED
          BY <4>1 DEF SetKey, Void, verify_refresh_token
      <3> QED
        BY <3>1, <3>2
    <2>5. CASE t = call[p].tok /\ WriteFlag(p) /\ call[p].step = "expire"
      <3>1. rt'[t] = ExpireKey(rt[t], call[p].secs) /\ unrevoked' = unrevoked
        BY <1>1, <2>5 DEF WriteFlag, history
      <3>2. call[p].secs \in Nat
        BY <2>1, <2>5 DEF CallFits, CallType, WriteFlag, Making
      <3>3. rt'[t].val = rt[t].val
        BY <1>1, <3>1, <3>2, Keys
      <3> QED
        BY <3>1, <3>3 DEF Void, verify_refresh_token
    <2>6. CASE t = call[p].tok /\ DeleteRefresh(p)
      <3>1. (rt'[t] = Gone \/ rt'[t] = rt[t]) /\ unrevoked' = unrevoked
        BY <1>1, <2>6 DEF DeleteRefresh, history
      <3> QED
        BY <3>1 DEF Void, verify_refresh_token, Gone
    <2>7. CASE WriteBlacklist(p)
      BY <2>7 DEF WriteBlacklist, Void, verify_refresh_token, history
    <2> QED
      BY <1>4, <2>2, <2>3, <2>4, <2>5, <2>6, <2>7 DEF Write, WriteFlag
  <1> QED
    BY <1>2, <1>3, <1>4, Kinds DEF keys

\* Every step preserves Voided.
LEMMA VoidedStep ==
    ASSUME Control, Voided, [Next]_vars
    PROVE  Voided'
  <1>1. ASSUME NEW t \in Handed, Void(t) PROVE Void(t)'
    BY <1>1, StaysVoid
  <1>2. deleted \subseteq Handed /\ misused \subseteq Handed
    BY DEF Control, Types
  <1>3. \A t \in deleted \cup misused : Void(t)'
    BY <1>1, <1>2 DEF Voided
  <1>4. unrevoked \subseteq unrevoked'
    BY Kinds DEF Tick, Write, WriteRefresh, WriteFlag, DeleteRefresh, WriteBlacklist, history
  <1>5. \A q \in Procs : /\ call[q] \in CallType /\ CallFits(call[q]) /\ CallVoids(call[q])
                         /\ call[q].op \in {"misuse", "revoke", "unrevoke", "del"} =>
                               call[q].tok \in Handed /\ call[q].tok \in Tokens
    BY DEF Control, Types, Voided, CallFits, OnHanded, Handed
  <1>6. rt \in [Tokens -> Stored]
    BY DEF Control, Types
  <1>7. ASSUME NEW t \in deleted', t \notin deleted PROVE Void(t)'
    <2>1. PICK q \in Procs : Write(q)
      BY <1>7, Kinds DEF Tick, history
    <2>2. Step(q, "del", "del") /\ t = call[q].tok /\ rt' = [rt EXCEPT ![t] = Gone]
      BY <1>7, <2>1 DEF Write, WriteRefresh, WriteFlag, DeleteRefresh, WriteBlacklist, history
    <2>3. rt'[t] = Gone
      BY <1>5, <1>6, <2>2 DEF Step
    <2> QED
      BY <2>3 DEF Gone, Void, verify_refresh_token
  <1>8. ASSUME NEW t \in misused', t \notin misused PROVE Void(t)'
    <2>1. PICK q \in Procs : GetMeta(q) \/ Reply(q)
      <3>1. misused' # misused
        BY <1>8
      <3>2. ASSUME NEW q \in Procs, WriteStep(q) \/ CommandRepeats(q) \/ RedisFails(q) PROVE FALSE
        BY <3>1, <3>2, Writes DEF WriteStep, CommandRepeats, RedisFails, history
      <3>3. ASSUME NEW q \in Procs, \/ GenerateTokens(q) \/ RefreshAccessToken(q) \/ BeginOnRefresh(q)
                                    \/ RevokeToken(q) \/ UnrevokeToken(q) \/ VerifyRefresh(q)
                                    \/ CheckRotate(q) \/ GetTtl(q)
            PROVE  FALSE
        BY <3>1, <3>3 DEF GenerateTokens, RefreshAccessToken, BeginOnRefresh, RevokeToken,
                          UnrevokeToken, VerifyRefresh, CheckRotate, GetTtl, history
      <3>4. ~Tick /\ ~UNCHANGED vars
        BY <3>1 DEF Tick, vars, history
      <3> QED
        BY <3>2, <3>3, <3>4 DEF Next
    <2>2. /\ call[q].op = "misuse" /\ t = call[q].tok
          /\ call[q].step = "reply" \/ ~There(rt[t])
      BY <1>8, <2>1 DEF GetMeta, Reply
    <2>3. Void(t)
      BY <1>5, <2>2 DEF CallVoids, There, Void, verify_refresh_token
    <2> QED
      BY <1>1, <1>5, <2>2, <2>3
  <1>9. ASSUME NEW q \in Procs PROVE CallVoids(call[q])'
    <2>1. CASE call'[q] = call[q]
      BY <1>1, <1>4, <1>5, <2>1 DEF CallVoids
    <2>2. CASE call'[q] = Idle
      BY <2>2 DEF CallVoids, Idle, Call
    <2>3. CASE CallBegins(q) \/ CallRefreshes(q)
      BY <2>3 DEF CallVoids, CallBegins, CallRefreshes
    <2>4. CASE CallGoesOn(q) /\ ~WriteStep(q)
      BY <2>4 DEF CallVoids, CallGoesOn
    <2>5. CASE CallGoesOn(q) /\ WriteStep(q)
      <3>1. call'[q].op = call[q].op /\ call'[q].tok = call[q].tok
        BY <2>5 DEF CallGoesOn
      <3>2. CASE call[q].op \notin {"misuse", "revoke", "unrevoke"}
        BY <3>1, <3>2 DEF CallVoids
      <3>3. CASE call[q].op \in {"misuse", "revoke", "unrevoke"} /\ call[q].step = "expire"
        BY <1>1, <1>4, <1>5, <3>1, <3>3 DEF CallVoids
      <3>4. CASE call[q].op \in {"misuse", "revoke", "unrevoke"} /\ call[q].step # "expire"
        <4>1. WriteFlag(q) /\ call[q].step = "set"
          BY <1>5, <2>5, <3>4 DEF WriteStep, Write, WriteRefresh, WriteFlag, DeleteRefresh, WriteBlacklist,
                                  Step, CallFits, StepOK
        <4>2. CASE call[q].op = "unrevoke"
          BY <3>1, <4>1, <4>2 DEF WriteFlag, CallVoids
        <4>3. CASE call[q].op # "unrevoke"
          <5>1. rt'[call[q].tok] = SetKey("revoked")
            BY <1>5, <1>6, <3>4, <4>1, <4>3 DEF WriteFlag
          <5> QED
            BY <3>1, <4>3, <5>1 DEF CallVoids, Void, verify_refresh_token, SetKey
        <4> QED
          BY <4>2, <4>3
      <3> QED
        BY <3>2, <3>3, <3>4
    <2> QED
      BY <2>1, <2>2, <2>3, <2>4, <2>5, CallSteps
  <1> QED
    BY <1>3, <1>7, <1>8, <1>9 DEF Voided
-----------------------------------------------------------------------------
(* Time. *)

\* A key with a deadline exists, is not over, and has at most a lifetime left.
Dated(k, life) ==
    k.until # NoTtl => There(k) /\ now < k.until /\ k.until <= now + Sub * life

Longest(c) == IF c.op = "revoke_at" THEN AccessTTL ELSE RefreshTTL

Clock ==
    /\ \A t \in Tokens : /\ rtIssued[t] <= now /\ handedAt[t] <= now
                         /\ rtExpire[t] <= now + Sub * RefreshTTL
                         /\ atExpire[t] <= now + Sub * AccessTTL
                         /\ Dated(rt[t], RefreshTTL) /\ Dated(black[t], AccessTTL)
    /\ userSetUntil <= now + Sub * RefreshTTL
    /\ \A p \in Procs : -2 <= call[p].secs /\ call[p].secs <= Longest(call[p])

\* TTL rounds what is left to the nearest second.
LEMMA TtlRange ==
    ASSUME Control, Clock, NEW t \in Tokens
    PROVE  /\ -2 <= Ttl(rt[t]) /\ Ttl(rt[t]) <= RefreshTTL
           /\ There(rt[t]) /\ rt[t].until # NoTtl =>
                 /\ Ttl(rt[t]) \in Nat
                 /\ 2 * (now + Sub * Ttl(rt[t])) + Sub > 2 * rt[t].until
           /\ ~(There(rt[t]) /\ rt[t].until # NoTtl) => Ttl(rt[t]) <= 0
  <1>1. rt[t] \in Stored /\ now \in Nat /\ Dated(rt[t], RefreshTTL)
    BY Sizes DEF Control, Types, Clock
  <1>2. CASE ~(There(rt[t]) /\ rt[t].until # NoTtl)
    BY <1>2, Sizes DEF Ttl
  <1>3. CASE There(rt[t]) /\ rt[t].until # NoTtl
    <2> DEFINE x == 2 * (rt[t].until - now) + Sub
               q == x \div (2 * Sub)
    <2>1. rt[t].until \in Nat /\ now < rt[t].until /\ rt[t].until <= now + Sub * RefreshTTL
      BY <1>1, <1>3 DEF Dated, Stored
    <2>2. x \in Nat /\ 2 * Sub \in Nat /\ 2 * Sub > 0 /\ x <= 2 * (Sub * RefreshTTL) + Sub
      BY <1>1, <2>1, Sizes
    <2>3. (2 * Sub) * RefreshTTL = 2 * (Sub * RefreshTTL)
      BY Sizes
    <2>4. Ttl(rt[t]) = q
      BY <1>3 DEF Ttl
    <2>5. x = 2 * (rt[t].until - now) + Sub
      OBVIOUS
    <2> HIDE DEF x
    <2>6. q \in Nat /\ x < (2 * Sub) * q + 2 * Sub
      BY <2>2, Quotient
    <2>7. x < (2 * Sub) * RefreshTTL + 2 * Sub
      BY <2>2, <2>3, Sizes
    <2>8. q <= RefreshTTL
      BY <2>2, <2>7, QuotientBound, Sizes
    <2> HIDE DEF q
    <2>9. (2 * Sub) * q = 2 * (Sub * q) /\ Sub * q \in Nat
      BY <2>6, Sizes
    <2>10. 2 * (now + Sub * q) + Sub > 2 * rt[t].until
      BY <1>1, <2>1, <2>5, <2>6, <2>9, Sizes
    <2> QED
      BY <2>4, <2>6, <2>8, <2>10, <1>3
  <1> QED
    BY <1>2, <1>3

\* revoke_token rounds what is left down to seconds.
LEMMA BlacklistRange ==
    ASSUME Control, Clock, NEW a \in Tokens
    PROVE  /\ BlacklistTtl(a) \in Nat /\ BlacklistTtl(a) <= AccessTTL
           /\ now + Sub * BlacklistTtl(a) + Sub > atExpire[a]
  <1>1. atExpire[a] \in Nat /\ now \in Nat /\ atExpire[a] <= now + Sub * AccessTTL
    BY Sizes DEF Control, Types, Clock
  <1>2. CASE atExpire[a] <= now
    <2>1. BlacklistTtl(a) = 0 /\ Sub * 0 = 0
      BY <1>1, <1>2, Sizes DEF BlacklistTtl
    <2> QED
      BY <1>1, <1>2, <2>1, Sizes
  <1>3. CASE atExpire[a] > now
    <2> DEFINE x == atExpire[a] - now
               q == x \div Sub
    <2>1. x \in Nat /\ x < Sub * AccessTTL + Sub /\ BlacklistTtl(a) = q
      BY <1>1, <1>3, Sizes DEF BlacklistTtl
    <2>2. atExpire[a] = now + x
      BY <1>1
    <2> HIDE DEF x
    <2>3. q \in Nat /\ x < Sub * q + Sub /\ q <= AccessTTL
      BY <2>1, Quotient, QuotientBound, Sizes
    <2> HIDE DEF q
    <2>4. Sub * q \in Nat
      BY <2>3, Sizes
    <2> QED
      BY <1>1, <2>1, <2>2, <2>3, <2>4, Sizes
  <1> QED
    BY <1>1, <1>2, <1>3

\* The deadlines that the commands leave behind.
LEMMA DatedWrite ==
    ASSUME now \in 1..MaxNow, NEW k \in Stored, NEW life \in Nat, Dated(k, life)
    PROVE  /\ Dated(Gone, life) /\ Dated(SetKey("valid"), life) /\ Dated(SetKey("revoked"), life)
           /\ \A n \in 1..life : Dated(ExpireKey(k, n), life)
  <1>1. Dated(Gone, life) /\ Dated(SetKey("valid"), life) /\ Dated(SetKey("revoked"), life)
    BY DEF Dated, Gone, SetKey
  <1>2. ASSUME NEW n \in 1..life PROVE Dated(ExpireKey(k, n), life)
    <2>1. n \in Nat /\ n > 0 /\ n <= life
      OBVIOUS
    <2>2. Sub * n \in Nat /\ Sub * n > 0 /\ Sub * n <= Sub * life /\ Sub * life \in Nat
      BY <2>1, Products
    <2>3. /\ There(ExpireKey(k, n)) <=> There(k)
          /\ ExpireKey(k, n).until = IF There(k) THEN now + Sub * n ELSE k.until
      BY <2>1, Keys
    <2>4. now \in Nat
      BY Sizes
    <2>5. CASE There(k)
      BY <2>2, <2>3, <2>4, <2>5 DEF Dated
    <2>6. CASE ~There(k)
      BY <2>3, <2>6 DEF Dated
    <2> QED
      BY <2>5, <2>6
  <1> QED
    BY <1>1, <1>2

\* A key that time has not removed is dated on.
LEMMA Ages ==
    ASSUME now \in 1..MaxNow, now' = now + 1, NEW k \in Stored, NEW life \in Nat, Dated(k, life)
    PROVE  LET j == AtTime(k, now')
           IN  j.until # NoTtl => There(j) /\ now' < j.until /\ j.until <= now' + Sub * life
  <1>1. now \in Nat /\ now' \in Nat /\ k.until \in Nat /\ Sub * life \in Nat
    BY Sizes DEF Stored
  <1>2. CASE k.until # 0 /\ k.until <= now'
    BY <1>1, <1>2, Keys DEF NoTtl
  <1>3. CASE ~(k.until # 0 /\ k.until <= now')
    <2>1. AtTime(k, now') = k
      BY <1>1, <1>3, Keys
    <2> QED
      BY <1>1, <1>3, <2>1 DEF Dated, NoTtl
  <1> QED
    BY <1>2, <1>3

\* What a step stamps with the time.
LEMMA Stamps ==
    ASSUME Control, [Next]_vars
    PROVE  /\ now' \in {now, now + 1}
           /\ \A t \in Tokens : /\ rtIssued'[t] \in {rtIssued[t], now}
                                /\ rtExpire'[t] \in {rtExpire[t], now + Sub * RefreshTTL}
                                /\ atExpire'[t] \in {atExpire[t], Exp}
                                /\ handedAt'[t] \in {handedAt[t], now}
  <1> DEFINE Stamped == /\ now' \in {now, now + 1}
                        /\ \A t \in Tokens : /\ rtIssued'[t] \in {rtIssued[t], now}
                                             /\ rtExpire'[t] \in {rtExpire[t], now + Sub * RefreshTTL}
                                             /\ atExpire'[t] \in {atExpire[t], Exp}
                                             /\ handedAt'[t] \in {handedAt[t], now}
  <1>1. /\ rtIssued \in [Tokens -> Nat] /\ rtExpire \in [Tokens -> Nat]
        /\ handedAt \in [Tokens -> Nat]
    BY DEF Control, Types
  <1>2. ASSUME NewRefreshToken
        PROVE  \A t \in Tokens : /\ rtIssued'[t] \in {rtIssued[t], now}
                                 /\ rtExpire'[t] \in {rtExpire[t], now + Sub * RefreshTTL}
    BY <1>1, <1>2 DEF NewRefreshToken
  <1>3. CASE Tick
    BY <1>3 DEF Tick, issue, history
  <1>4. CASE UNCHANGED vars
    BY <1>4 DEF vars, issue, history
  <1>5. ASSUME NEW p \in Procs, GenerateTokens(p) PROVE Stamped
    BY <1>2, <1>5, Issues DEF GenerateTokens, history
  <1>6. ASSUME NEW p \in Procs,
               \/ RefreshAccessToken(p) \/ BeginOnRefresh(p) \/ RevokeToken(p) \/ UnrevokeToken(p)
               \/ VerifyRefresh(p) \/ GetMeta(p) \/ GetTtl(p)
        PROVE  Stamped
    BY <1>6 DEF RefreshAccessToken, BeginOnRefresh, RevokeToken, UnrevokeToken, VerifyRefresh,
                GetMeta, GetTtl, issue, history
  <1>7. ASSUME NEW p \in Procs, WriteStep(p) \/ CommandRepeats(p) \/ RedisFails(p) PROVE Stamped
    <2>1. UNCHANGED <<now, issue, handedAt>>
      BY <1>7, Writes DEF WriteStep, CommandRepeats, RedisFails, history
    <2> QED
      BY <2>1 DEF issue
  <1>8. ASSUME NEW p \in Procs, CheckRotate(p) PROVE Stamped
    BY <1>2, <1>8 DEF CheckRotate, issue, history
  <1>9. ASSUME NEW p \in Procs, Reply(p) PROVE Stamped
    <2>1. \A t \in Tokens : atExpire'[t] \in {atExpire[t], Exp}
      BY <1>9, Issues DEF Reply
    <2>2. \A t \in Tokens : handedAt'[t] \in {handedAt[t], now}
      BY <1>1, <1>9 DEF Reply
    <2> QED
      BY <1>9, <2>1, <2>2 DEF Reply
  <1> QED
    BY <1>3, <1>4, <1>5, <1>6, <1>7, <1>8, <1>9 DEF Next

\* Every step preserves Clock.
LEMMA ClockStep ==
    ASSUME Control, Clock, [Next]_vars
    PROVE  Clock'
  <1>1. /\ now \in 1..MaxNow /\ now \in Nat /\ Sub * RefreshTTL \in Nat /\ Sub * AccessTTL \in Nat
        /\ RefreshTTL \in Nat /\ AccessTTL \in Nat /\ RefreshTTL > 0 /\ AccessTTL > 0
    BY Sizes DEF Control, Types
  <1>2. now' \in {now, now + 1} /\ now' \in Nat /\ now' >= now
    BY <1>1, Stamps
  <1>3. ASSUME NEW t \in Tokens
        PROVE  /\ rtIssued'[t] <= now' /\ handedAt'[t] <= now'
               /\ rtExpire'[t] <= now' + Sub * RefreshTTL
               /\ atExpire'[t] <= now' + Sub * AccessTTL
    <2>1. /\ rtIssued[t] \in Nat /\ handedAt[t] \in Nat /\ rtExpire[t] \in Nat /\ atExpire[t] \in Nat
          /\ rtIssued[t] <= now /\ handedAt[t] <= now
          /\ rtExpire[t] <= now + Sub * RefreshTTL /\ atExpire[t] <= now + Sub * AccessTTL
      BY DEF Control, Types, Clock
    <2>2. Exp \in Nat /\ Exp <= now + Sub * AccessTTL
      BY <1>1, Expiry
    <2>3. /\ rtIssued'[t] \in {rtIssued[t], now} /\ rtExpire'[t] \in {rtExpire[t], now + Sub * RefreshTTL}
          /\ atExpire'[t] \in {atExpire[t], Exp} /\ handedAt'[t] \in {handedAt[t], now}
      BY Stamps
    <2> QED
      BY <1>1, <1>2, <2>1, <2>2, <2>3
  <1>4. rt \in [Tokens -> Stored] /\ black \in [Tokens -> Stored]
    BY DEF Control, Types
  <1>5. ASSUME NEW t \in Tokens
        PROVE  Dated(rt[t], RefreshTTL) /\ Dated(black[t], AccessTTL) /\ rt[t] \in Stored /\ black[t] \in Stored
    BY <1>4 DEF Clock
  <1>6. \A p \in Procs : call[p] \in CallType /\ CallFits(call[p]) /\ call[p].secs <= Longest(call[p])
    BY DEF Control, Types, Clock
  <1>7. ASSUME NEW t \in Tokens PROVE (Dated(rt[t], RefreshTTL) /\ Dated(black[t], AccessTTL))'
    <2>1. CASE Tick
      <3>1. rt'[t] = AtTime(rt[t], now') /\ black'[t] = AtTime(black[t], now') /\ now' = now + 1
        BY <2>1 DEF Tick
      <3>3. rt'[t].until # NoTtl => There(rt'[t]) /\ now' < rt'[t].until /\ rt'[t].until <= now' + Sub * RefreshTTL
        BY <1>1, <1>5, <3>1, Ages
      <3>4. black'[t].until # NoTtl =>
               There(black'[t]) /\ now' < black'[t].until /\ black'[t].until <= now' + Sub * AccessTTL
        BY <1>1, <1>5, <3>1, Ages
      <3> QED
        BY <3>3, <3>4 DEF Dated, There
    <2>2. ASSUME NEW p \in Procs, Write(p), UNCHANGED <<now, issue, misused, handedAt>>
          PROVE  (Dated(rt[t], RefreshTTL) /\ Dated(black[t], AccessTTL))'
      <3>1. /\ Dated(Gone, RefreshTTL) /\ Dated(SetKey("valid"), RefreshTTL) /\ Dated(SetKey("revoked"), RefreshTTL)
            /\ \A n \in 1..RefreshTTL : Dated(ExpireKey(rt[t], n), RefreshTTL)
        BY <1>1, <1>5, DatedWrite
      <3>2. /\ Dated(Gone, AccessTTL) /\ Dated(SetKey("revoked"), AccessTTL)
            /\ \A n \in 1..AccessTTL : Dated(ExpireKey(black[t], n), AccessTTL)
        BY <1>1, <1>5, DatedWrite
      <3>3. RefreshTTL \in 1..RefreshTTL
        BY <1>1
      <3>4. call[p].step = "expire" /\ ~Making(call[p]) => call[p].secs \in 1..Longest(call[p])
        BY <1>1, <1>6 DEF CallFits, CallType, Longest
      <3>5. Dated(rt'[t], RefreshTTL)
        <4>1. CASE WriteRefresh(p)
          BY <1>4, <1>5, <3>1, <3>3, <4>1 DEF WriteRefresh
        <4>2. CASE WriteFlag(p)
          <5>1. call[p].step = "expire" => call[p].secs \in 1..RefreshTTL
            BY <3>4, <4>2 DEF WriteFlag, Longest, Making
          <5> QED
            BY <1>4, <1>5, <3>1, <4>2, <5>1 DEF WriteFlag
        <4>3. CASE DeleteRefresh(p)
          BY <1>4, <1>5, <3>1, <4>3 DEF DeleteRefresh
        <4>4. CASE WriteBlacklist(p)
          BY <1>5, <4>4 DEF WriteBlacklist
        <4> QED
          BY <2>2, <4>1, <4>2, <4>3, <4>4 DEF Write
      <3>6. Dated(black'[t], AccessTTL)
        <4>1. CASE WriteBlacklist(p)
          <5>1. call[p].step = "expire" => call[p].secs \in 1..AccessTTL
            BY <3>4, <4>1 DEF WriteBlacklist, Step, Longest, Making
          <5> QED
            BY <1>4, <1>5, <3>2, <4>1, <5>1 DEF WriteBlacklist, Step
        <4>2. CASE ~WriteBlacklist(p)
          BY <1>5, <2>2, <4>2 DEF Write, WriteRefresh, WriteFlag, DeleteRefresh
        <4> QED
          BY <4>1, <4>2
      <3> QED
        BY <2>2, <3>5, <3>6 DEF Dated
    <2>3. CASE UNCHANGED <<now, keys>>
      BY <1>5, <2>3 DEF Dated, keys
    <2> QED
      BY <2>1, <2>2, <2>3, Kinds
  <1>8. userSetUntil' <= now' + Sub * RefreshTTL
    <2>1. userSetUntil \in Nat /\ userSetUntil <= now + Sub * RefreshTTL
      BY DEF Control, Types, Clock
    <2>2. userSetUntil' \in {userSetUntil, 0, now + Sub * RefreshTTL}
      BY Kinds DEF Tick, Write, WriteRefresh, WriteFlag, DeleteRefresh, WriteBlacklist, keys, NoTtl
    <2> QED
      BY <1>1, <1>2, <2>1, <2>2
  <1>9. ASSUME NEW p \in Procs PROVE -2 <= call'[p].secs /\ call'[p].secs <= Longest(call'[p])
    <2>1. call[p].secs \in Int /\ -2 <= call[p].secs /\ call[p].secs <= Longest(call[p])
      BY <1>6 DEF Clock, CallType
    <2>2. CASE call'[p] = call[p]
      BY <2>1, <2>2
    <2>3. CASE call'[p] = Idle
      BY <1>1, <2>3 DEF Idle, Call, Longest
    <2>4. CASE CallBegins(p)
      <3>1. CASE call'[p].op = "revoke_at"
        <4>1. call'[p].secs = BlacklistTtl(call'[p].tok) /\ call'[p].tok \in Tokens
          BY <2>4, <3>1 DEF CallBegins, Issued
        <4> QED
          BY <1>1, <3>1, <4>1, BlacklistRange DEF Longest
      <3>2. CASE call'[p].op # "revoke_at"
        BY <1>1, <2>4, <3>2 DEF CallBegins, Longest
      <3> QED
        BY <3>1, <3>2
    <2>5. CASE CallRefreshes(p)
      BY <2>1, <2>5 DEF CallRefreshes, Longest
    <2>6. CASE CallGoesOn(p)
      <3>1. CASE call'[p].secs = call[p].secs
        BY <2>1, <2>6, <3>1 DEF CallGoesOn, Longest
      <3>2. CASE call'[p].secs \in {0, 1} /\ call'[p].op = "del"
        BY <1>1, <3>2 DEF Longest
      <3>3. CASE GetTtl(p) /\ call'[p].secs = Ttl(rt[call[p].tok])
        <4>1. call[p].op \in {"revoke", "unrevoke", "misuse"}
          BY <1>6, <3>3 DEF GetTtl, CallFits, StepOK, CallType, Ops
        <4>2. call[p].tok \in Tokens
          BY <1>6, <4>1 DEF CallFits, OnHanded, Handed
        <4> QED
          BY <1>1, <2>6, <3>3, <4>1, <4>2, TtlRange DEF CallGoesOn, Longest
      <3> QED
        BY <2>6, <3>1, <3>2, <3>3 DEF CallGoesOn
    <2> QED
      BY <2>2, <2>3, <2>4, <2>5, <2>6, CallSteps
  <1> QED
    BY <1>3, <1>7, <1>8, <1>9 DEF Clock, Longest
-----------------------------------------------------------------------------
(* Access tokens on the blacklist. *)

\* Access tokens are issued in order.
Numbered == \E k \in 0..MaxOps : Issued = 1..k

\* A revocation knows the seconds its token had left, up to the last one.
CallBlacks(c) == c.op = "revoke_at" => now + Sub * c.secs + Sub > atExpire[c.tok]

\* The token is on the blacklist up to its last second, or is in its last second.
Barred(a) ==
    \/ now + Sub > atExpire[a]
    \/ There(black[a]) /\ (black[a].until = NoTtl \/ black[a].until + Sub > atExpire[a])

Blacklist ==
    /\ Numbered
    /\ \A a \in blacklisted : Barred(a)
    /\ \A p \in Procs : CallBlacks(call[p])

\* An access token keeps its expiry.
LEMMA ExpiryStays ==
    ASSUME Control, Numbered, [Next]_vars
    PROVE  Numbered' /\ \A a \in Issued : atExpire'[a] = atExpire[a]
  <1>1. CASE atExpire' = atExpire
    BY <1>1 DEF Numbered, Issued
  <1>2. CASE generate_access_token
    <2>1. PICK k \in 0..MaxOps : Issued = 1..k
      BY DEF Numbered
    <2>2. k \in Nat /\ Cardinality(1..k) = k
      <3>1. k \in Int /\ k >= 0
        BY Sizes
      <3>2. Cardinality(1..k) = IF 1 > k THEN 0 ELSE k - 1 + 1
        BY <3>1, FS_Interval
      <3> QED
        BY <3>1, <3>2
    <2>3. atExpire' = [atExpire EXCEPT ![k + 1] = Exp]
      BY <1>2, <2>1, <2>2 DEF generate_access_token, Exp
    <2>4. atExpire \in [Tokens -> Nat] /\ Exp \in Nat /\ Exp > 0
      BY Expiry DEF Control, Types
    <2>5. \A a \in Issued : atExpire'[a] = atExpire[a]
      BY <2>1, <2>2, <2>3, <2>4 DEF Issued
    <2>6. CASE k < MaxOps
      <3>1. Issued' = 1..(k + 1)
        <4>1. \A a \in Tokens : a # k + 1 => atExpire'[a] = atExpire[a]
          BY <2>3, <2>4
        <4>2. k + 1 \in Tokens
          BY <2>2, <2>6, Sizes DEF Tokens
        <4>3. atExpire'[k + 1] # 0
          BY <2>3, <2>4, <4>2
        <4>4. 1..(k + 1) = (1..k) \cup {k + 1}
          BY <2>2
        <4>5. Issued' = Issued \cup {k + 1}
          BY <4>1, <4>2, <4>3 DEF Issued
        <4> QED
          BY <2>1, <4>4, <4>5
      <3>2. k + 1 \in 0..MaxOps
        BY <2>2, <2>6, Sizes
      <3> QED
        BY <2>5, <3>1, <3>2 DEF Numbered
    <2>7. CASE k = MaxOps
      <3>1. k + 1 \notin Tokens
        BY <2>2, <2>7, Sizes DEF Tokens
      <3>2. atExpire' = atExpire
        BY <2>3, <2>4, <3>1
      <3> QED
        BY <3>2 DEF Numbered, Issued
    <2> QED
      BY <2>1, <2>2, <2>6, <2>7, Sizes
  <1>3. atExpire' = atExpire \/ generate_access_token
    <2>1. ASSUME NEW p \in Procs, WriteStep(p) \/ CommandRepeats(p) \/ RedisFails(p) PROVE atExpire' = atExpire
      BY <2>1 DEF WriteStep, CommandRepeats, RedisFails, issue
    <2>2. ASSUME NEW p \in Procs,
               \/ RefreshAccessToken(p) \/ BeginOnRefresh(p) \/ RevokeToken(p) \/ UnrevokeToken(p)
               \/ VerifyRefresh(p) \/ GetMeta(p) \/ GetTtl(p) \/ CheckRotate(p)
          PROVE atExpire' = atExpire
      BY <2>2 DEF RefreshAccessToken, BeginOnRefresh, RevokeToken, UnrevokeToken, VerifyRefresh,
                  GetMeta, GetTtl, CheckRotate, issue
    <2>3. ASSUME NEW p \in Procs, GenerateTokens(p) \/ Reply(p)
          PROVE  atExpire' = atExpire \/ generate_access_token
      BY <2>3 DEF GenerateTokens, Reply
    <2>4. CASE Tick \/ UNCHANGED vars
      BY <2>4 DEF Tick, vars, issue
    <2> QED
      BY <2>1, <2>2, <2>3, <2>4 DEF Next
  <1> QED
    BY <1>1, <1>2, <1>3

\* Every step preserves Blacklist.
LEMMA BlacklistStep ==
    ASSUME Control, Clock, Blacklist, [Next]_vars
    PROVE  Blacklist'
  <1>1. Numbered' /\ \A a \in Issued : atExpire'[a] = atExpire[a] /\ atExpire[a] \in Nat /\ a \in Tokens
    BY ExpiryStays DEF Blacklist, Control, Types, Issued
  <1>2. now \in Nat /\ now \in 1..MaxNow /\ now' \in {now, now + 1} /\ now' \in Nat /\ now' >= now
    BY Sizes, Stamps DEF Control, Types
  <1>3. blacklisted \subseteq Issued /\ black \in [Tokens -> Stored]
    BY DEF Control, Types
  <1>4. \A p \in Procs : /\ call[p] \in CallType /\ CallFits(call[p]) /\ CallBlacks(call[p])
                         /\ call[p].op \in {"revoke_at", "unrevoke_at"} => call[p].tok \in Issued
                         /\ -2 <= call[p].secs
    BY DEF Control, Types, Blacklist, CallFits, Clock
  <1>5. ASSUME NEW p \in Procs, Write(p), UNCHANGED <<now, issue, misused, handedAt>>,
               NEW a \in blacklisted'
        PROVE  Barred(a)'
    <2>1. CASE WriteBlacklist(p) /\ a = call[p].tok
      <3>1. a \in Issued /\ black[a] \in Stored /\ a \in Tokens
        BY <1>1, <1>3, <1>4, <2>1 DEF WriteBlacklist, Step
      <3>2. CASE Step(p, "revoke_at", "set")
        <4>1. black'[a] = SetKey("revoked")
          BY <1>3, <2>1, <3>1, <3>2 DEF WriteBlacklist, Step
        <4> QED
          BY <4>1 DEF Barred, SetKey, There, NoTtl
      <3>3. CASE Step(p, "revoke_at", "expire")
        <4>1. black'[a] = ExpireKey(black[a], call[p].secs) /\ a \in blacklisted
          BY <1>3, <1>5, <2>1, <3>1, <3>3 DEF WriteBlacklist, Step, history
        <4>2. Barred(a) /\ now + Sub * call[p].secs + Sub > atExpire[a] /\ call[p].secs \in Nat
          BY <1>4, <2>1, <3>3, <4>1 DEF Blacklist, CallBlacks, Step, CallFits, Making, CallType
        <4> DEFINE k == ExpireKey(black[a], call[p].secs)
        <4>3. /\ There(k) <=> There(black[a])
              /\ k.until = IF There(black[a]) THEN now + Sub * call[p].secs ELSE black[a].until
          <5>1. \A n \in Nat : /\ There(ExpireKey(black[a], n)) <=> There(black[a])
                               /\ ExpireKey(black[a], n).until = IF There(black[a]) THEN now + Sub * n ELSE black[a].until
            BY <1>2, <3>1, Keys
          <5> QED
            BY <4>2, <5>1
        <4> HIDE DEF k
        <4>4. black'[a] = k
          BY <4>1 DEF k
        <4> QED
          BY <1>1, <1>5, <3>1, <4>2, <4>3, <4>4 DEF Barred, There
      <3>4. CASE Step(p, "unrevoke_at", "del")
        BY <1>5, <2>1, <3>4 DEF WriteBlacklist, Step
      <3> QED
        BY <2>1, <3>2, <3>3, <3>4 DEF WriteBlacklist
    <2>2. CASE ~(WriteBlacklist(p) /\ a = call[p].tok)
      <3>1. a \in blacklisted
        BY <1>5, <2>2 DEF Write, WriteRefresh, WriteFlag, DeleteRefresh, WriteBlacklist, history
      <3>2. a \in Issued /\ a \in Tokens
        BY <1>1, <1>3, <3>1
      <3>3. black'[a] = black[a]
        BY <1>3, <1>5, <2>2, <3>2 DEF Write, WriteRefresh, WriteFlag, DeleteRefresh, WriteBlacklist
      <3> QED
        BY <1>1, <1>5, <3>1, <3>2, <3>3 DEF Blacklist, Barred, There
    <2> QED
      BY <2>1, <2>2
  <1>6. ASSUME NEW a \in blacklisted' PROVE Barred(a)'
    <2>1. CASE \E p \in Procs : Write(p) /\ UNCHANGED <<now, issue, misused, handedAt>>
      BY <1>5, <1>6, <2>1
    <2>2. CASE ~(\E p \in Procs : Write(p) /\ UNCHANGED <<now, issue, misused, handedAt>>)
      <3>1. Tick \/ UNCHANGED <<now, keys, deleted, unrevoked, rewrites, blacklisted>>
        BY <2>2, Kinds
      <3>2. blacklisted' = blacklisted
        BY <3>1 DEF Tick, history
      <3>3. Barred(a) /\ a \in Issued
        BY <1>3, <1>6, <3>2 DEF Blacklist
      <3>4. CASE Tick
        <4>1. black'[a] = AtTime(black[a], now') /\ black[a] \in Stored
          BY <1>1, <1>3, <3>3, <3>4 DEF Tick
        <4>2. black'[a] = black[a] \/ (black[a].until # 0 /\ black[a].until <= now')
          BY <1>2, <4>1 DEF AtTime, NoTtl
        <4>3. black[a].until \in Nat
          BY <4>1 DEF Stored
        <4> QED
          BY <1>1, <1>2, <3>3, <4>2, <4>3, Sizes DEF Barred, NoTtl, There
      <3>5. CASE UNCHANGED <<now, keys>>
        BY <1>1, <3>3, <3>5 DEF Barred, keys, There
      <3> QED
        BY <3>1, <3>4, <3>5
    <2> QED
      BY <2>1, <2>2
  <1>7. ASSUME NEW p \in Procs PROVE CallBlacks(call[p])'
    <2>1. CASE call'[p].op # "revoke_at"
      BY <2>1 DEF CallBlacks
    <2>2. CASE call'[p].op = "revoke_at" /\ call[p].op = "revoke_at" /\ call'[p].tok = call[p].tok
               /\ call'[p].secs = call[p].secs
      <3>1. call[p].secs \in Int /\ call[p].tok \in Issued /\ now + Sub * call[p].secs + Sub > atExpire[call[p].tok]
        BY <1>4, <2>2 DEF CallBlacks, CallType
      <3>2. Sub * call[p].secs \in Int
        BY <3>1, Sizes
      <3> QED
        BY <1>1, <1>2, <2>2, <3>1, <3>2, Sizes DEF CallBlacks
    <2>3. CASE CallBegins(p) /\ call'[p].op = "revoke_at"
      <3>1. call'[p].secs = BlacklistTtl(call'[p].tok) /\ call'[p].tok \in Issued
        BY <2>3 DEF CallBegins
      <3> DEFINE a == call'[p].tok
      <3>2. now + Sub * BlacklistTtl(a) + Sub > atExpire[a] /\ BlacklistTtl(a) \in Nat
        BY <1>1, <3>1, BlacklistRange
      <3>3. Sub * BlacklistTtl(a) \in Int
        BY <3>2, Sizes
      <3> QED
        BY <1>1, <1>2, <3>1, <3>2, <3>3, Sizes DEF CallBlacks
    <2>4. CASE CallGoesOn(p) /\ call'[p].op = "revoke_at"
      <3>1. call[p].op = "revoke_at" /\ call[p].step \notin {"get", "ttl"}
        BY <1>4, <2>4 DEF CallGoesOn, CallFits, StepOK
      <3> QED
        BY <2>2, <2>4, <3>1 DEF CallGoesOn, GetMeta, GetTtl
    <2>5. CASE CallRefreshes(p) \/ call'[p] = Idle
      BY <2>1, <2>5 DEF CallRefreshes, Idle, Call
    <2>6. CASE call'[p] = call[p] /\ call'[p].op = "revoke_at"
      BY <2>2, <2>6
    <2> QED
      BY <2>1, <2>3, <2>4, <2>5, <2>6, CallSteps
  <1> QED
    BY <1>1, <1>6, <1>7 DEF Blacklist
-----------------------------------------------------------------------------
(* Refresh tokens that are stored: their deadlines. *)

\* The token is stored to its expire_time, less half a second for every SET of a
\* revocation or an unrevocation, or that time is over.
Long(t) ==
    IF There(rt[t]) THEN rt[t].until = NoTtl \/ 2 * rt[t].until + Sub * rewrites[t] >= 2 * rtExpire[t]
                    ELSE 2 * rtExpire[t] <= 2 * now + Sub * rewrites[t]

\* A token that is handed out and accepted expires a lifetime later at most.
Expiring(t) ==
    verify_refresh_token(t) => rt[t].until # NoTtl /\ rt[t].until <= handedAt[t] + Sub * RefreshTTL

\* A token in the making has a deadline once its EXPIRE is done.
CallStores(c) ==
    Making(c) =>
       /\ c.step \in {"sadd", "expire_set", "reply"} /\ There(rt[c.tok]) => rt[c.tok].until # NoTtl
       /\ c.step # "set" => Long(c.tok)

\* A revocation or an unrevocation read a time to live that is long enough: half a second
\* is lost in the rounding, which its SET is to pay for.
CallKeeps(c) ==
    c.op \in {"revoke", "unrevoke", "misuse"} /\ c.tok \notin deleted =>
       /\ c.step = "set" /\ c.secs > 0 =>
             2 * (now + Sub * c.secs) + Sub * rewrites[c.tok] + Sub >= 2 * rtExpire[c.tok]
       /\ c.step = "expire" =>
             2 * (now + Sub * c.secs) + Sub * rewrites[c.tok] >= 2 * rtExpire[c.tok]

Storage ==
    /\ \A t \in Handed \ unrevoked : Expiring(t)
    /\ \A t \in Handed \ deleted : Long(t)
    /\ \A p \in Procs : CallStores(call[p]) /\ CallKeeps(call[p])

\* What a command does to the key of token t.
LEMMA WriteOn ==
    ASSUME Control, NEW p \in Procs, Write(p), NEW t \in Tokens
    PROVE  /\ \/ rt'[t] = rt[t] /\ rewrites'[t] = rewrites[t]
              \/ /\ Making(call[p]) /\ call[p].step \in {"set", "expire"} /\ call[p].tok = t
                 /\ rewrites'[t] = rewrites[t]
              \/ /\ call[p].op \in {"revoke", "unrevoke", "misuse"} /\ call[p].step = "set" /\ call[p].tok = t
                 /\ rt'[t] = SetKey(IF call[p].op = "unrevoke" THEN "valid" ELSE "revoked")
                 /\ rewrites'[t] = rewrites[t] + 1
                 /\ call[p].op = "unrevoke" => t \in unrevoked'
              \/ /\ call[p].op \in {"revoke", "unrevoke", "misuse"} /\ call[p].step = "expire" /\ call[p].tok = t
                 /\ rt'[t] = ExpireKey(rt[t], call[p].secs) /\ rewrites'[t] = rewrites[t]
              \/ /\ call[p].op = "del" /\ call[p].tok = t /\ t \in deleted'
                 /\ rt'[t] = Gone /\ rewrites'[t] = rewrites[t]
           /\ Making(call[p]) /\ call[p].tok = t /\ call[p].step = "set" => rt'[t] = SetKey("valid")
           /\ Making(call[p]) /\ call[p].tok = t /\ call[p].step = "expire" => rt'[t] = ExpireKey(rt[t], RefreshTTL)
           /\ Making(call[p]) /\ call[p].step \notin {"set", "expire"} => rt'[t] = rt[t]
           /\ Making(call[p]) => rewrites' = rewrites
  <1>1. rt \in [Tokens -> Stored] /\ rewrites \in [Tokens -> Nat] /\ call[p] \in CallType /\ CallFits(call[p])
    BY DEF Control, Types
  <1>2. CASE WriteRefresh(p)
    <2>1. Making(call[p])
      BY <1>1, <1>2 DEF WriteRefresh, CallFits, StepOK, Making, CallType, Ops
    <2> QED
      BY <1>1, <1>2, <2>1 DEF WriteRefresh, history
  <1>3. CASE WriteFlag(p)
    <2>1. ~Making(call[p])
      BY <1>3 DEF WriteFlag, Making
    <2> QED
      BY <1>1, <1>3, <2>1 DEF WriteFlag, history
  <1>4. CASE DeleteRefresh(p)
    <2>1. ~Making(call[p])
      BY <1>4 DEF DeleteRefresh, Step, Making
    <2> QED
      BY <1>1, <1>4, <2>1 DEF DeleteRefresh, Step, history
  <1>5. CASE WriteBlacklist(p)
    <2>1. ~Making(call[p])
      BY <1>5 DEF WriteBlacklist, Step, Making
    <2> QED
      BY <1>5, <2>1 DEF WriteBlacklist, history
  <1> QED
    BY <1>2, <1>3, <1>4, <1>5 DEF Write

\* A token that is with a client was there before or is handed out by the call that made it.
LEMMA Hands ==
    ASSUME Control, [Next]_vars, NEW t \in Handed'
    PROVE  \/ t \in Handed /\ handedAt'[t] = handedAt[t]
           \/ /\ handedAt'[t] = now /\ UNCHANGED <<now, keys, unrevoked, deleted, rewrites, rtExpire>>
              /\ \E p \in Procs : Making(call[p]) /\ call[p].step = "reply" /\ call[p].tok = t
  <1>1. CASE handedAt' = handedAt
    BY <1>1 DEF Handed
  <1>2. ASSUME NEW p \in Procs, Reply(p), handedAt' # handedAt
        PROVE  \/ t \in Handed /\ handedAt'[t] = handedAt[t]
               \/ /\ handedAt'[t] = now /\ UNCHANGED <<now, keys, unrevoked, deleted, rewrites, rtExpire>>
                  /\ \E q \in Procs : Making(call[q]) /\ call[q].step = "reply" /\ call[q].tok = t
    <2>1. handedAt \in [Tokens -> Nat] /\ t \in Tokens
      BY DEF Control, Types, Handed
    <2>2. Making(call[p]) /\ call[p].step = "reply" /\ handedAt' = [handedAt EXCEPT ![call[p].tok] = now]
      BY <1>2 DEF Reply, Making
    <2>3. CASE t = call[p].tok
      <3>1. handedAt'[t] = now
        BY <2>1, <2>2, <2>3
      <3>2. UNCHANGED <<now, keys, unrevoked, deleted, rewrites, rtExpire>>
        BY <1>2 DEF Reply
      <3> QED
        BY <2>2, <2>3, <3>1, <3>2
    <2>4. CASE t # call[p].tok
      BY <2>1, <2>2, <2>4 DEF Handed
    <2> QED
      BY <2>3, <2>4
  <1>3. handedAt' = handedAt \/ \E p \in Procs : Reply(p)
    <2>1. ASSUME NEW p \in Procs, WriteStep(p) \/ CommandRepeats(p) \/ RedisFails(p) PROVE handedAt' = handedAt
      BY <2>1, Writes DEF WriteStep, CommandRepeats, RedisFails, history
    <2>2. ASSUME NEW p \in Procs,
               \/ GenerateTokens(p) \/ RefreshAccessToken(p) \/ BeginOnRefresh(p) \/ RevokeToken(p)
               \/ UnrevokeToken(p) \/ VerifyRefresh(p) \/ GetMeta(p) \/ GetTtl(p) \/ CheckRotate(p)
          PROVE handedAt' = handedAt
      BY <2>2 DEF GenerateTokens, RefreshAccessToken, BeginOnRefresh, RevokeToken, UnrevokeToken,
                  VerifyRefresh, GetMeta, GetTtl, CheckRotate, history
    <2>3. CASE Tick \/ UNCHANGED vars
      BY <2>3 DEF Tick, vars, history
    <2> QED
      BY <2>1, <2>2, <2>3 DEF Next
  <1> QED
    BY <1>1, <1>2, <1>3

\* A refresh token keeps its expire_time.
LEMMA ExpireTimeStays ==
    ASSUME Control, [Next]_vars, NEW t \in 1..nrt
    PROVE  rtExpire'[t] = rtExpire[t] /\ t \in Tokens /\ rtExpire[t] \in Nat
  <1>1. rtExpire \in [Tokens -> Nat] /\ nrt \in 0..MaxOps /\ MaxOps \in Nat
    BY Sizes DEF Control, Types
  <1>2. t \in Tokens /\ t # nrt + 1
    BY <1>1 DEF Tokens
  <1>3. CASE NewRefreshToken
    BY <1>1, <1>2, <1>3 DEF NewRefreshToken
  <1>4. rtExpire' = rtExpire \/ NewRefreshToken
    <2>1. ASSUME NEW p \in Procs, WriteStep(p) \/ CommandRepeats(p) \/ RedisFails(p) PROVE rtExpire' = rtExpire
      BY <2>1 DEF WriteStep, CommandRepeats, RedisFails, issue
    <2>2. ASSUME NEW p \in Procs,
               \/ RefreshAccessToken(p) \/ BeginOnRefresh(p) \/ RevokeToken(p)
               \/ UnrevokeToken(p) \/ VerifyRefresh(p) \/ GetMeta(p) \/ GetTtl(p) \/ Reply(p)
          PROVE rtExpire' = rtExpire
      BY <2>2 DEF RefreshAccessToken, BeginOnRefresh, RevokeToken, UnrevokeToken,
                  VerifyRefresh, GetMeta, GetTtl, Reply, issue
    <2>3. ASSUME NEW p \in Procs, GenerateTokens(p) \/ CheckRotate(p) PROVE rtExpire' = rtExpire \/ NewRefreshToken
      BY <2>3 DEF GenerateTokens, CheckRotate, issue
    <2>4. CASE Tick \/ UNCHANGED vars
      BY <2>4 DEF Tick, vars, issue
    <2> QED
      BY <2>1, <2>2, <2>3, <2>4 DEF Next
  <1> QED
    BY <1>1, <1>2, <1>3, <1>4

\* The SETs that are counted only grow in number.
LEMMA RewritesGrow ==
    ASSUME Control, [Next]_vars, NEW t \in Tokens
    PROVE  /\ rewrites'[t] \in {rewrites[t], rewrites[t] + 1}
           /\ rewrites[t] \in Nat /\ Sub * rewrites[t] \in Nat
           /\ Sub * (rewrites[t] + 1) = Sub * rewrites[t] + Sub
           /\ Sub * rewrites'[t] \in Nat /\ Sub * rewrites'[t] >= Sub * rewrites[t]
  <1>1. rewrites \in [Tokens -> Nat] /\ rewrites[t] \in Nat
    BY DEF Control, Types
  <1>2. rewrites'[t] \in {rewrites[t], rewrites[t] + 1}
    BY Kinds, WriteOn DEF Tick, history
  <1>3. Sub * rewrites[t] \in Nat /\ Sub * (rewrites[t] + 1) = Sub * rewrites[t] + Sub
    BY <1>1, Products
  <1> QED
    BY <1>1, <1>2, <1>3, Sizes

\* A token that is stored long enough stays so, unless it is deleted.
LEMMA LongStep ==
    ASSUME Control, Clock, Storage, [Next]_vars, NEW t \in 1..nrt, Long(t), t \notin deleted'
    PROVE  Long(t)'
  <1>1. /\ t \in Tokens /\ rtExpire'[t] = rtExpire[t] /\ rtExpire[t] \in Nat
    BY ExpireTimeStays
  <1>2. /\ rewrites'[t] \in {rewrites[t], rewrites[t] + 1}
        /\ Sub * rewrites[t] \in Nat /\ Sub * (rewrites[t] + 1) = Sub * rewrites[t] + Sub
        /\ Sub * rewrites'[t] \in Nat /\ Sub * rewrites'[t] >= Sub * rewrites[t]
    BY <1>1, RewritesGrow
  <1>3. /\ now \in Nat /\ now \in 1..MaxNow /\ now' \in {now, now + 1}
        /\ rt[t] \in Stored /\ rt[t].until \in Nat /\ rt \in [Tokens -> Stored]
    BY <1>1, Sizes, Stamps DEF Control, Types, Stored
  <1>4. CASE rt'[t] = rt[t] /\ rewrites'[t] = rewrites[t] /\ now' = now
    BY <1>1, <1>4 DEF Long, There
  <1>5. CASE Tick
    <2>1. rt'[t] = AtTime(rt[t], now') /\ rewrites' = rewrites /\ now' = now + 1
      BY <1>1, <1>5 DEF Tick, history
    <2>2. CASE rt'[t] = rt[t]
      BY <1>1, <1>2, <1>3, <2>1, <2>2 DEF Long, There
    <2>3. CASE rt'[t] = Gone /\ rt'[t] # rt[t] /\ rt[t].until # 0 /\ rt[t].until <= now'
      <3>1. ~There(rt'[t])
        BY <2>3 DEF There, Gone
      <3>2. 2 * rt[t].until + Sub * rewrites[t] >= 2 * rtExpire[t]
        <4>1. Dated(rt[t], RefreshTTL)
          BY <1>1 DEF Clock
        <4>2. There(rt[t])
          BY <2>3, <4>1 DEF Dated, NoTtl
        <4> QED
          BY <2>3, <4>2 DEF Long, NoTtl
      <3> QED
        BY <1>1, <1>2, <1>3, <2>1, <2>3, <3>1, <3>2 DEF Long, There
    <2> QED
      BY <2>1, <2>2, <2>3 DEF AtTime, NoTtl
  <1>6. ASSUME NEW p \in Procs, Write(p), now' = now PROVE Long(t)'
    <2>1. ASSUME NEW v \in {"valid", "revoked"}, rt'[t] = SetKey(v) PROVE Long(t)'
      BY <2>1 DEF Long, SetKey, There
    <2>2. CASE Making(call[p]) /\ call[p].step = "expire" /\ call[p].tok = t /\ rewrites'[t] = rewrites[t]
      <3>1. rt'[t] = ExpireKey(rt[t], RefreshTTL)
        BY <1>1, <1>6, <2>2, WriteOn
      <3> DEFINE k == ExpireKey(rt[t], RefreshTTL)
      <3>2. (There(k) <=> There(rt[t])) /\ k.until = IF There(rt[t]) THEN now + Sub * RefreshTTL ELSE rt[t].until
        BY <1>3, Sizes, Keys
      <3> HIDE DEF k
      <3>3. rt'[t] = k
        BY <3>1 DEF k
      <3>4. rtExpire[t] <= now + Sub * RefreshTTL /\ Sub * RefreshTTL \in Nat
        BY <1>1, Sizes DEF Clock
      <3>5. CASE There(rt[t])
        BY <1>1, <1>2, <1>3, <1>6, <3>2, <3>3, <3>4, <3>5 DEF Long, There
      <3>6. CASE ~There(rt[t])
        BY <1>1, <1>2, <1>6, <2>2, <3>2, <3>3, <3>6 DEF Long, There
      <3> QED
        BY <3>5, <3>6
    <2>3. CASE /\ call[p].op \in {"revoke", "unrevoke", "misuse"} /\ call[p].step = "expire" /\ call[p].tok = t
               /\ rt'[t] = ExpireKey(rt[t], call[p].secs) /\ rewrites'[t] = rewrites[t]
      <3>1. call[p].secs \in Nat
        <4>1. CallFits(call[p]) /\ call[p] \in CallType /\ ~Making(call[p])
          BY <2>3 DEF Control, Types, Making
        <4> QED
          BY <2>3, <4>1 DEF CallFits, CallType
      <3>2. t \notin deleted
        BY <1>6 DEF Write, WriteRefresh, WriteFlag, DeleteRefresh, WriteBlacklist, history
      <3>3. 2 * (now + Sub * call[p].secs) + Sub * rewrites[t] >= 2 * rtExpire[t]
        BY <2>3, <3>2 DEF Storage, CallKeeps
      <3> DEFINE k == ExpireKey(rt[t], call[p].secs)
      <3>4. (There(k) <=> There(rt[t])) /\ k.until = IF There(rt[t]) THEN now + Sub * call[p].secs ELSE rt[t].until
        <4>1. \A n \in Nat : /\ There(ExpireKey(rt[t], n)) <=> There(rt[t])
                             /\ ExpireKey(rt[t], n).until = IF There(rt[t]) THEN now + Sub * n ELSE rt[t].until
          BY <1>3, Keys
        <4> QED
          BY <3>1, <4>1
      <3> HIDE DEF k
      <3>5. rt'[t] = k
        BY <2>3 DEF k
      <3>6. CASE There(rt[t])
        BY <1>1, <1>6, <2>3, <3>3, <3>4, <3>5, <3>6 DEF Long, There
      <3>7. CASE ~There(rt[t])
        BY <1>1, <1>6, <2>3, <3>4, <3>5, <3>7 DEF Long, There
      <3> QED
        BY <3>6, <3>7
    <2>4. CASE Making(call[p]) /\ call[p].step = "set" /\ call[p].tok = t
      BY <1>1, <1>6, <2>1, <2>4, WriteOn
    <2>5. CASE /\ call[p].op \in {"revoke", "unrevoke", "misuse"}
               /\ rt'[t] = SetKey(IF call[p].op = "unrevoke" THEN "valid" ELSE "revoked")
      BY <2>1, <2>5
    <2> QED
      BY <1>1, <1>4, <1>6, <2>2, <2>3, <2>4, <2>5, WriteOn
  <1>7. CASE UNCHANGED <<now, keys, deleted, unrevoked, rewrites, blacklisted>>
    BY <1>4, <1>7 DEF keys
  <1> QED
    BY <1>5, <1>6, <1>7, Kinds

\* Every step preserves Storage.
LEMMA StorageStep ==
    ASSUME Control, Clock, Voided, Storage, [Next]_vars, Control'
    PROVE  Storage'
  <1>1. rt \in [Tokens -> Stored] /\ now \in 1..MaxNow /\ Handed \subseteq 1..nrt /\ deleted \subseteq deleted'
        /\ unrevoked \subseteq unrevoked' /\ deleted' \subseteq Handed'
    <2>1. deleted \subseteq deleted' /\ unrevoked \subseteq unrevoked'
      BY Kinds DEF Tick, Write, WriteRefresh, WriteFlag, DeleteRefresh, WriteBlacklist, history
    <2> QED
      BY <2>1 DEF Control, Types
  <1>2. \A t \in 1..nrt : t \in Tokens
    BY Sizes DEF Control, Types, Tokens
  <1>3. \A p \in Procs : /\ call[p] \in CallType /\ CallFits(call[p]) /\ CallVoids(call[p])
                         /\ CallStores(call[p]) /\ CallKeeps(call[p]) /\ CallFits(call[p])'
    BY DEF Control, Types, Voided, Storage
  \* Time and the commands on other tokens.
  <1>4. ASSUME NEW t \in Tokens, ~(\E p \in Procs : Write(p) /\ UNCHANGED <<now, issue, misused, handedAt>>)
        PROVE  rt'[t] = rt[t] \/ rt'[t] = Gone
    <2>1. CASE Tick
      BY <2>1 DEF Tick, AtTime
    <2> QED
      BY <1>4, <2>1, Kinds DEF keys
  <1>5. ASSUME NEW t \in Handed' \ unrevoked' PROVE Expiring(t)'
    <2> SUFFICES ASSUME verify_refresh_token(t)'
                 PROVE  rt'[t].until # NoTtl /\ rt'[t].until <= handedAt'[t] + Sub * RefreshTTL
      BY DEF Expiring
    <2>1. rt'[t].val = "valid"
      BY DEF verify_refresh_token
    <2>2. CASE t \in Handed /\ handedAt'[t] = handedAt[t]
      <3>1. t \in Tokens /\ t \notin unrevoked /\ Expiring(t)
        BY <1>1, <1>5, <2>2 DEF Storage, Handed
      <3>2. rt'[t] = rt[t]
        <4>1. CASE \E p \in Procs : Write(p) /\ UNCHANGED <<now, issue, misused, handedAt>>
          <5>1. PICK p \in Procs : Write(p)
            BY <4>1
          <5>2. ~(Making(call[p]) /\ call[p].tok = t)
            BY <1>3, <2>2 DEF CallFits
          <5>3. CASE /\ call[p].op \in {"revoke", "unrevoke", "misuse"} /\ call[p].step = "set"
                     /\ rt'[t] = SetKey(IF call[p].op = "unrevoke" THEN "valid" ELSE "revoked")
                     /\ call[p].op = "unrevoke" => t \in unrevoked'
            <6>1. rt'[t] = SetKey("revoked")
              BY <1>5, <5>3
            <6> QED
              BY <2>1, <6>1 DEF SetKey
          <5>4. CASE /\ call[p].op \in {"revoke", "unrevoke", "misuse"} /\ call[p].step = "expire"
                     /\ call[p].tok = t /\ rt'[t] = ExpireKey(rt[t], call[p].secs)
            <6>1. Void(t) /\ ~verify_refresh_token(t)
              BY <1>3, <3>1, <5>4 DEF CallVoids, Void
            <6>2. call[p].secs \in Nat
              BY <1>3, <5>4 DEF CallFits, CallType, Making
            <6>3. rt'[t].val = rt[t].val
              BY <1>1, <3>1, <5>4, <6>2, Keys
            <6> QED
              BY <2>1, <6>1, <6>3 DEF verify_refresh_token
          <5>5. rt'[t] # Gone
            BY <2>1 DEF Gone
          <5> QED
            BY <3>1, <5>1, <5>2, <5>3, <5>4, <5>5, WriteOn
        <4>2. CASE ~(\E p \in Procs : Write(p) /\ UNCHANGED <<now, issue, misused, handedAt>>)
          BY <1>4, <2>1, <3>1, <4>2 DEF Gone
        <4> QED
          BY <4>1, <4>2
      <3>3. verify_refresh_token(t)
        BY <2>1, <3>2 DEF verify_refresh_token
      <3> QED
        BY <2>2, <3>1, <3>2, <3>3 DEF Expiring
    <2>3. CASE /\ handedAt'[t] = now /\ UNCHANGED <<now, keys, unrevoked, deleted, rewrites, rtExpire>>
               /\ \E p \in Procs : Making(call[p]) /\ call[p].step = "reply" /\ call[p].tok = t
      <3>1. t \in Tokens
        BY DEF Handed
      <3>2. Dated(rt[t], RefreshTTL) /\ rt'[t] = rt[t]
        BY <2>3, <3>1 DEF Clock, keys
      <3>3. There(rt[t])
        BY <2>1, <3>2 DEF There
      <3>4. rt[t].until # NoTtl
        BY <1>3, <2>3, <3>3 DEF CallStores
      <3> QED
        BY <2>3, <3>2, <3>4 DEF Dated
    <2> QED
      BY <2>2, <2>3, Hands
  <1>6. ASSUME NEW t \in Handed' \ deleted' PROVE Long(t)'
    <2>1. t \in 1..nrt /\ Long(t)
      <3>1. CASE t \in Handed
        BY <1>1, <1>6, <3>1 DEF Storage
      <3>2. CASE \E p \in Procs : Making(call[p]) /\ call[p].step = "reply" /\ call[p].tok = t
        BY <1>3, <3>2 DEF CallStores, CallFits
      <3> QED
        BY <3>1, <3>2, Hands
    <2> QED
      BY <1>6, <2>1, LongStep
  \* The calls that make a token.
  <1>7. ASSUME NEW q \in Procs PROVE CallStores(call[q])'
    <2> SUFFICES ASSUME Making(call[q])', call'[q].step # "set"
                 PROVE  /\ Long(call[q].tok)'
                        /\ call'[q].step \in {"sadd", "expire_set", "reply"} /\ There(rt'[call'[q].tok]) =>
                              rt'[call'[q].tok].until # NoTtl
      BY DEF CallStores, There
    <2> PICK t : t = call[q].tok
      OBVIOUS
    <2>1. /\ Making(call[q]) /\ call'[q].tok = t
          /\ call'[q] # call[q] => WriteStep(q) /\ call'[q].step = Rest(call[q])
      <3>1. CASE call'[q] = call[q]
        <4>1. Making(call[q])
          BY <3>1 DEF Making
        <4>2. call'[q].tok = t
          BY <3>1
        <4> QED
          BY <3>1, <4>1, <4>2
      <3>2. CASE call'[q] = Idle
        BY <3>2 DEF Idle, Call, Making
      <3>3. CASE CallBegins(q) \/ CallRefreshes(q)
        BY <3>3 DEF CallBegins, CallRefreshes, Making
      <3>4. CASE CallGoesOn(q)
        <4>1. Making(call[q]) /\ call'[q].tok = t
          BY <3>4 DEF CallGoesOn, Making
        <4>2. call[q].step \notin {"get", "ttl"}
          BY <1>3, <4>1 DEF CallFits, StepOK, Making
        <4> QED
          BY <3>4, <4>1, <4>2 DEF CallGoesOn, GetMeta, GetTtl
      <3> QED
        BY <3>1, <3>2, <3>3, <3>4, CallSteps
    <2>2. t \in 1..nrt /\ t \in Tokens /\ t \notin Handed
      BY <1>2, <1>3, <2>1 DEF CallFits
    <2>3. t \notin deleted'
      <3>1. t \notin Handed'
        BY <1>3, <2>1 DEF CallFits, Making
      <3> QED
        BY <1>1, <3>1
    <2>4. CASE call[q].step = "set"
      <3>1. WriteStep(q) /\ call'[q].step = Rest(call[q]) /\ Write(q)
        BY <2>1, <2>4 DEF WriteStep
      <3>2. rt'[t] = SetKey("valid")
        BY <2>1, <2>2, <2>4, <3>1, WriteOn
      <3>3. call'[q].step = "expire"
        BY <2>1, <2>4, <3>1 DEF Rest, Making
      <3> QED
        BY <2>1, <3>2, <3>3 DEF Long, SetKey, There
    <2>5. CASE call[q].step # "set"
      <3>1. Long(t)
        BY <1>3, <2>1, <2>5 DEF CallStores
      <3>2. Long(t)'
        BY <2>2, <2>3, <3>1, LongStep
      <3>3. ASSUME call'[q].step \in {"sadd", "expire_set", "reply"}, There(rt'[t])
            PROVE  rt'[t].until # NoTtl
        <4>1. CASE call[q].step = "expire"
          <5>1. Write(q)
            BY <2>1, <3>3, <4>1 DEF WriteStep
          <5>2. rt'[t] = ExpireKey(rt[t], RefreshTTL) /\ rt[t] \in Stored
            BY <1>1, <2>1, <2>2, <4>1, <5>1, WriteOn
          <5> DEFINE k == ExpireKey(rt[t], RefreshTTL)
          <5>3. (There(k) <=> There(rt[t])) /\ k.until = IF There(rt[t]) THEN now + Sub * RefreshTTL ELSE rt[t].until
            BY <1>1, <5>2, Sizes, Keys
          <5> HIDE DEF k
          <5>4. rt'[t] = k
            BY <5>2 DEF k
          <5> QED
            BY <1>1, <3>3, <5>3, <5>4, Sizes DEF NoTtl
        <4>2. CASE call[q].step # "expire"
          <5>1. call[q].step \in {"sadd", "expire_set", "reply"}
            BY <1>3, <2>1, <2>5, <4>2 DEF CallFits, StepOK, Making
          <5>2. There(rt[t]) => rt[t].until # NoTtl
            BY <1>3, <2>1, <5>1 DEF CallStores
          <5>3. rt'[t] = rt[t] \/ rt'[t] = Gone
            <6>1. ASSUME NEW p \in Procs, Write(p) PROVE rt'[t] = rt[t]
              <7>1. CASE p = q
                BY <2>1, <2>2, <5>1, <6>1, <7>1, WriteOn
              <7>2. CASE p # q
                <8>1. call[p].tok = t => ~Making(call[p])
                  BY <2>1, <7>2 DEF Control, OneMaker
                <8>2. call[p].op \in {"revoke", "unrevoke", "misuse", "del"} => call[p].tok # t
                  BY <1>3, <2>2 DEF CallFits, OnHanded
                <8> QED
                  BY <2>2, <6>1, <8>1, <8>2, WriteOn
              <7> QED
                BY <7>1, <7>2
            <6> QED
              BY <1>4, <2>2, <6>1
          <5> QED
            BY <3>3, <5>2, <5>3 DEF There, Gone
        <4> QED
          BY <4>1, <4>2
      <3> QED
        BY <2>1, <3>2, <3>3
    <2> QED
      BY <2>4, <2>5
  \* The calls that rewrite a token.
  <1>8. ASSUME NEW q \in Procs PROVE CallKeeps(call[q])'
    <2> DEFINE t == call'[q].tok
    <2> SUFFICES ASSUME call'[q].op \in {"revoke", "unrevoke", "misuse"}, t \notin deleted',
                        call'[q].step \in {"set", "expire"}
                 PROVE  /\ call'[q].step = "set" /\ call'[q].secs > 0 =>
                              2 * (now' + Sub * call'[q].secs) + Sub * rewrites'[t] + Sub >= 2 * rtExpire'[t]
                        /\ call'[q].step = "expire" =>
                              2 * (now' + Sub * call'[q].secs) + Sub * rewrites'[t] >= 2 * rtExpire'[t]
      BY DEF CallKeeps
    <2>1. /\ call'[q].op = call[q].op /\ call'[q].tok = call[q].tok /\ call[q].op \in {"revoke", "unrevoke", "misuse"}
          /\ \/ call'[q] = call[q]
             \/ WriteStep(q) /\ call'[q].step = Rest(call[q]) /\ call'[q].secs = call[q].secs
             \/ GetTtl(q) /\ call'[q].step = "set" /\ call'[q].secs = Ttl(rt[t])
      <3>1. CASE call'[q] = call[q]
        BY <3>1
      <3>2. CASE call'[q] = Idle
        BY <3>2 DEF Idle, Call
      <3>3. CASE CallBegins(q) \/ CallRefreshes(q)
        BY <3>3 DEF CallBegins, CallRefreshes
      <3>4. CASE CallGoesOn(q)
        BY <3>4 DEF CallGoesOn
      <3> QED
        BY <3>1, <3>2, <3>3, <3>4, CallSteps
    <2>2. t \in Handed /\ t \in 1..nrt /\ t \in Tokens /\ t \notin deleted /\ Long(t)
      <3>1. t \in Handed /\ t \notin deleted
        BY <1>1, <1>3, <2>1 DEF CallFits, OnHanded
      <3> QED
        BY <1>1, <1>2, <3>1 DEF Storage
    <2>3. rtExpire'[t] = rtExpire[t] /\ rtExpire[t] \in Nat
      BY <2>2, ExpireTimeStays
    <2>4. /\ rewrites'[t] \in {rewrites[t], rewrites[t] + 1}
          /\ Sub * rewrites[t] \in Nat /\ Sub * (rewrites[t] + 1) = Sub * rewrites[t] + Sub
          /\ Sub * rewrites'[t] \in Nat /\ Sub * rewrites'[t] >= Sub * rewrites[t]
      BY <2>2, RewritesGrow
    <2>5. now \in Nat /\ now' \in Nat /\ now' >= now
      BY Sizes, Stamps DEF Control, Types
    <2>6. CASE GetTtl(q) /\ call'[q].step = "set" /\ call'[q].secs = Ttl(rt[t])
      <3>1. UNCHANGED <<now, rewrites>>
        BY <2>6 DEF GetTtl, history
      <3>2. ASSUME Ttl(rt[t]) > 0
            PROVE  2 * (now + Sub * Ttl(rt[t])) + Sub * rewrites[t] + Sub >= 2 * rtExpire[t]
        <4>1. Ttl(rt[t]) \in Int /\ (Ttl(rt[t]) <= 0 => FALSE)
          BY <2>2, <3>2, TtlInt
        <4>2. There(rt[t]) /\ rt[t].until # NoTtl
          BY <2>2, <4>1, TtlRange
        <4>3. Ttl(rt[t]) \in Nat /\ 2 * (now + Sub * Ttl(rt[t])) + Sub > 2 * rt[t].until
          BY <2>2, <4>2, TtlRange
        <4>4. 2 * rt[t].until + Sub * rewrites[t] >= 2 * rtExpire[t]
          BY <2>2, <4>2 DEF Long
        <4>5. rt[t].until \in Nat /\ Sub * Ttl(rt[t]) \in Nat /\ Sub \in Nat
          BY <1>1, <2>2, <4>3, Products, Sizes DEF Stored
        <4> HIDE DEF t
        <4> QED
          BY <2>3, <2>4, <2>5, <4>3, <4>4, <4>5
      <3> QED
        BY <2>3, <2>6, <3>1, <3>2
    <2>7. CASE call'[q] = call[q]
      <3>1. call[q].secs \in Int /\ Sub \in Nat
        BY <1>3, Sizes DEF CallType
      <3>2. Sub * call[q].secs \in Int
        BY <3>1
      <3>3. /\ call[q].step = "set" /\ call[q].secs > 0 =>
                  2 * (now + Sub * call[q].secs) + Sub * rewrites[t] + Sub >= 2 * rtExpire[t]
            /\ call[q].step = "expire" =>
                  2 * (now + Sub * call[q].secs) + Sub * rewrites[t] >= 2 * rtExpire[t]
        BY <1>3, <2>1, <2>2 DEF CallKeeps
      <3> HIDE DEF t
      <3> QED
        BY <2>3, <2>4, <2>5, <2>7, <3>1, <3>2, <3>3
    <2>8. CASE WriteStep(q) /\ call'[q].step = Rest(call[q]) /\ call'[q].secs = call[q].secs
      <3>1. call'[q].step = "expire" /\ call[q].step = "set" /\ call[q].secs > 0
        <4>1. Rest(call[q]) = "expire"
          BY <2>1, <2>8 DEF Rest
        <4> QED
          BY <2>1, <2>8, <4>1 DEF Rest
      <3>2. 2 * (now + Sub * call[q].secs) + Sub * rewrites[t] + Sub >= 2 * rtExpire[t]
        BY <1>3, <2>1, <2>2, <3>1 DEF CallKeeps
      <3>3. rewrites'[t] = rewrites[t] + 1 /\ now' = now
        <4>1. WriteFlag(q)
          BY <2>1, <2>8, <3>1 DEF WriteStep, Write, WriteRefresh, DeleteRefresh, WriteBlacklist, Step
        <4>2. rewrites \in [Tokens -> Nat]
          BY DEF Control, Types
        <4> QED
          BY <2>1, <2>2, <2>8, <3>1, <4>1, <4>2 DEF WriteFlag, WriteStep
      <3>4. call[q].secs \in Int /\ Sub \in Nat
        BY <1>3, Sizes DEF CallType
      <3>5. Sub * call[q].secs \in Int
        BY <3>4
      <3> HIDE DEF t
      <3> QED
        BY <2>3, <2>4, <2>5, <2>8, <3>1, <3>2, <3>3, <3>4, <3>5
    <2> QED
      BY <2>1, <2>6, <2>7, <2>8
  <1> QED
    BY <1>5, <1>6, <1>7, <1>8 DEF Storage
-----------------------------------------------------------------------------
(* The theorems. *)

Inv == Control /\ Voided /\ Clock /\ Blacklist /\ Storage

\* The inductive invariant holds initially: no token exists and no call is under way.
LEMMA InvInit == Init => Inv
  <1> SUFFICES ASSUME Init PROVE Inv
    OBVIOUS
  <1>1. Control
    BY ControlInit
  <1>2. Handed = {} /\ Issued = {} /\ deleted = {} /\ misused = {} /\ blacklisted = {}
    BY DEF Init, Handed, Issued, NotHanded
  <1>3. \A p \in Procs : call[p].op = "idle" /\ call[p].step = "none" /\ call[p].secs = 0
    BY DEF Init, Idle, Call
  <1>4. Voided
    BY <1>2, <1>3 DEF Voided, CallVoids
  <1>5. Clock
    <2>1. Dated(Gone, RefreshTTL) /\ Dated(Gone, AccessTTL)
      BY DEF Dated, Gone
    <2>2. now = 1 /\ now + Sub * RefreshTTL \in Nat /\ now + Sub * AccessTTL \in Nat
      BY Sizes DEF Init
    <2>3. \A t \in Tokens : /\ rtIssued[t] = 0 /\ handedAt[t] = 0 /\ rtExpire[t] = 0 /\ atExpire[t] = 0
                            /\ rt[t] = Gone /\ black[t] = Gone
      BY DEF Init, NotHanded
    <2>4. userSetUntil = 0
      BY DEF Init, NoTtl
    <2>5. \A p \in Procs : -2 <= call[p].secs /\ call[p].secs <= Longest(call[p])
      BY <1>3, Sizes DEF Longest
    <2> QED
      BY <2>1, <2>2, <2>3, <2>4, <2>5 DEF Clock
  <1>6. Blacklist
    <2>1. Issued = 1..0 /\ 0 \in 0..MaxOps
      BY <1>2, Sizes
    <2> QED
      BY <1>2, <1>3, <2>1 DEF Blacklist, Numbered, CallBlacks
  <1>7. Storage
    BY <1>2, <1>3 DEF Storage, CallStores, CallKeeps, Making
  <1> QED
    BY <1>1, <1>4, <1>5, <1>6, <1>7 DEF Inv

\* Every step preserves the inductive invariant.
LEMMA InvStep == Inv /\ [Next]_vars => Inv'
  BY ControlStep, VoidedStep, ClockStep, BlacklistStep, StorageStep DEF Inv

\* The inductive invariant holds in every behaviour.
LEMMA InvAlways == Spec => []Inv
  BY InvInit, InvStep, PTL DEF Spec

\* A refresh token that del_refresh_token deleted, or that a wrong device presented to
\* verify_refresh_token, is refused for good, however revocations, deletions, refreshes and
\* failing or repeated Redis commands interleave; only unrevoke_refresh_token brings it back.
THEOREM VoidStaysVoid == Spec => []RefreshRefused
  <1>1. Inv => RefreshRefused
    BY DEF Inv, Voided, Void, RefreshRefused, DeletedRefused, MisusedRefused
  <1> QED
    BY <1>1, InvAlways, PTL

\* An access token on the blacklist of revoke_token is refused until the last second of its
\* lifetime, for every lifetime and every clock: what rounding down loses is less than a second,
\* and no order of two revocations loses more.
THEOREM BlacklistHolds == Spec => []RevokedAccessRefused
  <1>1. ASSUME Inv PROVE RevokedAccessRefused
    <2>1. SUFFICES ASSUME NEW a \in blacklisted, verify_access_token(a)
                   PROVE  atExpire[a] - now < Sub
      BY DEF RevokedAccessRefused
    <2>2. Barred(a)
      BY <1>1 DEF Inv, Blacklist
    <2>3. now + Sub > atExpire[a]
      BY <2>1, <2>2 DEF Barred, verify_access_token, is_token_revoked
    <2>4. now \in Nat /\ atExpire[a] \in Nat /\ Sub \in Nat
      BY <1>1, <2>1, Sizes DEF Inv, Control, Types, verify_access_token, Issued
    <2> QED
      BY <2>3, <2>4
  <1> QED
    BY <1>1, InvAlways, PTL

\* A refresh token that a client holds and verify_refresh_token accepts has a deadline in Redis,
\* one lifetime after it was handed out at most, whichever command of generate_refresh_token
\* failed, unless it was unrevoked.
THEOREM AcceptedTokensExpire == Spec => []AcceptedExpires
  <1>1. Inv => AcceptedExpires
    BY DEF Inv, Storage, Expiring, AcceptedExpires
  <1> QED
    BY <1>1, InvAlways, PTL

\* The state is well typed and within the bounds of time, and a refresh token that was handed
\* out and not deleted is stored until its expire_time, less half a second for every SET of
\* revoke_refresh_token and unrevoke_refresh_token.
THEOREM TokensStayStored == Spec => []TokensKept
  <1>1. ASSUME Inv PROVE TypeOK
    <2> DEFINE M == MaxNow + Sub * (AccessTTL + RefreshTTL)
    <2>1. Types /\ Clock
      BY <1>1 DEF Inv, Control
    <2>2. /\ now \in 1..MaxNow /\ now \in Nat /\ MaxNow \in Nat /\ Sub * RefreshTTL \in Nat /\ Sub * AccessTTL \in Nat
          /\ M = MaxNow + Sub * AccessTTL + Sub * RefreshTTL /\ M \in Nat
          /\ AccessTTL \in Nat /\ RefreshTTL \in Nat
      BY <2>1, Sizes DEF Types
    <2> HIDE DEF M
    <2>3. Times = 0..M
      BY DEF Times, M
    <2>4. /\ now <= M /\ now + Sub * RefreshTTL <= M /\ now + Sub * AccessTTL <= M
          /\ now + Sub * RefreshTTL \in Nat /\ now + Sub * AccessTTL \in Nat
      BY <2>2
    <2>5. \A n \in Nat : n <= now \/ n <= now + Sub * RefreshTTL \/ n <= now + Sub * AccessTTL => n \in Times
      BY <2>2, <2>3, <2>4
    <2>6. 0 \in Times
      BY <2>2, <2>3
    <2>7. /\ rtIssued \in [Tokens -> Times] /\ rtExpire \in [Tokens -> Times]
          /\ atExpire \in [Tokens -> Times] /\ handedAt \in [Tokens -> Times] /\ userSetUntil \in Times
      BY <2>1, <2>5 DEF Types, Clock
    <2>8. ASSUME NEW k \in Stored, NEW l \in {RefreshTTL, AccessTTL}, Dated(k, l) PROVE k \in Key
      <3>1. k.until \in Nat /\ k.val \in {"none", "valid", "revoked"}
        BY DEF Stored
      <3>2. k.until \in Times
        BY <2>5, <2>6, <2>8, <3>1 DEF Dated, NoTtl
      <3> QED
        BY <3>2 DEF Key, Stored
    <2>9. rt \in [Tokens -> Key] /\ black \in [Tokens -> Key]
      <3>1. \A t \in Tokens : rt[t] \in Stored /\ black[t] \in Stored /\ Dated(rt[t], RefreshTTL) /\ Dated(black[t], AccessTTL)
        BY <2>1 DEF Types, Clock
      <3>2. \A t \in Tokens : rt[t] \in Key /\ black[t] \in Key
        BY <2>8, <3>1
      <3> QED
        BY <2>1, <3>2 DEF Types
    <2>10. call \in [Procs -> [op : Ops, step : Steps, tok : 0..MaxOps,
                               secs : -2..(MaxNow + AccessTTL + RefreshTTL), device : {"right", "wrong"}]]
      <3>1. ASSUME NEW p \in Procs
            PROVE  call[p] \in [op : Ops, step : Steps, tok : 0..MaxOps,
                                secs : -2..(MaxNow + AccessTTL + RefreshTTL), device : {"right", "wrong"}]
        <4>1. call[p] \in CallType /\ -2 <= call[p].secs /\ call[p].secs <= Longest(call[p])
          BY <2>1 DEF Types, Clock
        <4>2. call[p].secs \in Int
          BY <4>1 DEF CallType
        <4>3. Longest(call[p]) \in {AccessTTL, RefreshTTL}
          BY DEF Longest
        <4>4. call[p].secs \in -2..(MaxNow + AccessTTL + RefreshTTL)
          BY <2>2, <4>1, <4>2, <4>3
        <4> QED
          BY <4>1, <4>4 DEF CallType
      <3> QED
        BY <2>1, <3>1 DEF Types
    <2>11. Handed \subseteq Tokens /\ Issued \subseteq Tokens
      BY DEF Handed, Issued
    <2> QED
      BY <2>1, <2>7, <2>9, <2>10, <2>11 DEF Types, TypeOK
  <1>2. ASSUME Inv PROVE KeptUntilExpiry
    <2>1. SUFFICES ASSUME NEW t \in Handed \ deleted, 2 * (rtExpire[t] - now) > Sub * rewrites[t], ~There(rt[t])
                   PROVE  FALSE
      BY DEF KeptUntilExpiry
    <2>2. 2 * rtExpire[t] <= 2 * now + Sub * rewrites[t]
      BY <1>2, <2>1 DEF Inv, Storage, Long
    <2>3. rtExpire[t] \in Nat /\ rewrites[t] \in Nat /\ now \in Nat
      BY <1>2, Sizes DEF Inv, Control, Types, Handed
    <2>4. Sub * rewrites[t] \in Nat
      BY <2>3, Products
    <2> QED
      BY <2>1, <2>2, <2>3, <2>4
  <1> QED
    BY <1>1, <1>2, InvAlways, PTL DEF TokensKept
=============================================================================
