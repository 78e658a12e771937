--------------------------- MODULE BanGate_proofs ---------------------------
(***************************************************************************)
(* Proofs about BanGate, for any accounts, requests and TTL: types, that   *)
(* admin operations only run for admins, and that a banned user cannot     *)
(* prolong the window in which the cache still vouches for him.            *)
(***************************************************************************)
EXTENDS BanGate, TLAPS

-----------------------------------------------------------------------------
(* Records.                                                                *)

LEMMA NoEntryType == NoEntry \in Entry
  BY BanGateAssumption DEF NoEntry, Entry

LEMMA SetType ==
  ASSUME NEW verdict \in {"banned", "clear"}
  PROVE  [verdict |-> verdict, left |-> TTL] \in Entry
  BY BanGateAssumption DEF Entry

LEMMA AgedType ==
  ASSUME NEW entry \in Entry
  PROVE  Aged(entry) \in Entry
  <1>1. CASE entry.left <= 1
    BY <1>1, NoEntryType DEF Aged
  <1>2. CASE ~(entry.left <= 1)
    <2>1. entry.left \in 0..TTL /\ TTL \in Nat
      BY BanGateAssumption DEF Entry
    <2>2. entry.left - 1 \in 0..TTL
      BY <1>2, <2>1
    <2> QED
      BY <1>2, <2>2 DEF Aged, Entry
  <1> QED
    BY <1>1, <1>2

LEMMA NoRequestType ==
  /\ NoRequest \in Request
  /\ NoRequest.step = "idle" /\ NoRequest.op = "serve" /\ NoRequest.role = "none"
  BY DEF NoRequest, Request, Steps, Ops

\* The request that LoginRead and Check put in place.
LEMMA ArrivedType ==
  /\ \A u \in Users, rl \in {"user", "admin"} :
       [NoRequest EXCEPT !.step = "login", !.caller = u, !.role = rl] \in Request
  /\ \A u \in Users, op \in Ops, target \in Users \cup {NoUser},
        step \in {"admitted", "lookup"} :
       [NoRequest EXCEPT !.step = step, !.caller = u, !.op = op, !.target = target]
         \in Request
  BY DEF NoRequest, Request, Steps, Ops, AdminOps

LEMMA StepType ==
  ASSUME NEW q \in Request, NEW step \in Steps
  PROVE  [q EXCEPT !.step = step] \in Request
  BY DEF Request

-----------------------------------------------------------------------------
(* Type correctness.                                                       *)

LEMMA InitType == Init => TypeOK
  BY NoEntryType, NoRequestType DEF Init, TypeOK

LEMMA EndType ==
  ASSUME TypeOK, NEW r \in Requests, End(r)
  PROVE  request' \in [Requests -> Request]
  BY NoRequestType DEF TypeOK, End

LEMMA GotoType ==
  ASSUME TypeOK, NEW r \in Requests, NEW step \in Steps, Goto(r, step)
  PROVE  request' \in [Requests -> Request]
  <1>1. [request[r] EXCEPT !.step = step] \in Request
    BY StepType DEF TypeOK
  <1> QED
    BY <1>1 DEF TypeOK, Goto

LEMMA RequestFields ==
  ASSUME TypeOK, NEW r \in Requests
  PROVE  /\ request[r].step \in Steps /\ request[r].op \in Ops
         /\ request[r].caller \in Users \cup {NoUser}
         /\ request[r].target \in Users \cup {NoUser}
         /\ request[r].role \in {"none", "user", "admin"}
  BY DEF TypeOK, Request

LEMMA ArriveType ==
  ASSUME TypeOK, NEW r \in Requests, NEW u \in Users, Arrive(r, u)
  PROVE  TypeOK'
  <1>1. CASE LoginRead(r, u)
    <2>1. role[u] \in {"user", "admin"}
      BY DEF TypeOK
    <2> QED
      BY <1>1, <2>1, ArrivedType DEF LoginRead, TypeOK
  <1>2. ASSUME NEW op \in Ops, NEW target \in Users \cup {NoUser}, Check(r, u, op, target)
        PROVE  TypeOK'
    <2>1. request' = [request EXCEPT ![r] =
             [NoRequest EXCEPT !.step = IF Fresh(u) THEN "admitted" ELSE "lookup",
                               !.caller = u, !.op = op, !.target = target]]
      BY <1>2 DEF Check
    <2>2. [NoRequest EXCEPT !.step = IF Fresh(u) THEN "admitted" ELSE "lookup",
                            !.caller = u, !.op = op, !.target = target] \in Request
      <3>1. (IF Fresh(u) THEN "admitted" ELSE "lookup") \in {"admitted", "lookup"}
        OBVIOUS
      <3> QED
        BY <3>1, ArrivedType
    <2>3. request' \in [Requests -> Request]
      BY <2>1, <2>2 DEF TypeOK
    <2> QED
      BY <1>2, <2>3 DEF Check, TypeOK
  <1>3. "serve" \in Ops /\ AdminOps \subseteq Ops /\ Targets \subseteq Users
    BY BanGateAssumption DEF Ops
  <1> QED
    BY <1>1, <1>2, <1>3 DEF Arrive

LEMMA ProceedType ==
  ASSUME TypeOK, IInv, NEW r \in Requests, Proceed(r)
  PROVE  TypeOK'
  <1>s. {"store_banned", "store_clear", "admitted", "evict", "promote_write"} \subseteq Steps
    BY DEF Steps
  <1>c. ~At(r, "idle") => request[r].caller \in Users
    BY DEF IInv, RequestInv
  <1>t. request[r].op \in AdminOps => request[r].target \in Users
    BY DEF IInv, RequestInv
  <1>1. CASE LoginIssue(r)
    BY <1>1, EndType, RequestFields DEF LoginIssue, TypeOK
  <1>2. CASE Lookup(r)
    <2>1. request' \in [Requests -> Request]
      BY <1>2, <1>s, GotoType DEF Lookup
    <2> QED
      BY <1>2, <2>1 DEF Lookup, TypeOK
  <1>3. CASE Refuse(r)
    BY <1>3, EndType, SetType DEF Refuse, Set, TypeOK
  <1>4. CASE Admit(r)
    BY <1>4, <1>s, GotoType, SetType DEF Admit, Set, TypeOK
  <1>5. CASE Serve(r)
    BY <1>5, EndType DEF Serve, TypeOK
  <1>6. CASE SetBanned(r)
    <2>1. request' \in [Requests -> Request]
      BY <1>6, <1>s, EndType, GotoType DEF SetBanned
    <2>2. banned' \in [Users -> BOOLEAN]
      BY <1>6 DEF SetBanned, TypeOK
    <2> QED
      BY <1>6, <2>1, <2>2 DEF SetBanned, TypeOK
  <1>7. CASE Evict(r)
    BY <1>7, EndType, NoEntryType DEF Evict, TypeOK
  <1>8. CASE PromoteRead(r)
    <2>1. request' \in [Requests -> Request]
      BY <1>8, <1>s, EndType, GotoType DEF PromoteRead
    <2> QED
      BY <1>8, <2>1 DEF PromoteRead, TypeOK
  <1>9. CASE PromoteWrite(r)
    BY <1>9, EndType DEF PromoteWrite, TypeOK
  <1>10. CASE RequestFails(r)
    BY <1>10, EndType DEF RequestFails, TypeOK
  <1> QED
    BY <1>1, <1>2, <1>3, <1>4, <1>5, <1>6, <1>7, <1>8, <1>9, <1>10 DEF Proceed

LEMMA NextType ==
  ASSUME TypeOK, IInv, [Next]_vars
  PROVE  TypeOK'
  <1>1. ASSUME NEW r \in Requests, NEW u \in Users, Arrive(r, u) PROVE TypeOK'
    BY <1>1, ArriveType
  <1>2. ASSUME NEW r \in Requests, Proceed(r) PROVE TypeOK'
    BY <1>2, ProceedType
  <1>3. ASSUME NEW u \in Users, TokenGone(u) PROVE TypeOK'
    BY <1>3 DEF TokenGone, TypeOK
  <1>4. CASE Tick
    BY <1>4, AgedType DEF Tick, TypeOK
  <1>5. CASE Restart
    BY <1>5, NoEntryType, NoRequestType DEF Restart, TypeOK
  <1>6. CASE UNCHANGED vars
    BY <1>6 DEF vars, TypeOK
  <1> QED
    BY <1>1, <1>2, <1>3, <1>4, <1>5, <1>6 DEF Next

-----------------------------------------------------------------------------
(* The inductive invariant.                                                *)

LEMMA InitIInv == Init => IInv
  BY NoRequestType DEF Init, IInv, RequestInv, At, AdminOps

\* Nobody ever loses the admin role.
LEMMA RoleGrows ==
  ASSUME TypeOK, [Next]_vars, NEW u \in Users, role[u] = "admin"
  PROVE  role'[u] = "admin"
  <1>1. ASSUME NEW r \in Requests, PromoteWrite(r) PROVE role'[u] = "admin"
    BY <1>1 DEF PromoteWrite, TypeOK
  <1> QED
    BY <1>1 DEF Next, Arrive, LoginRead, Check, Proceed, LoginIssue, Lookup, Refuse,
                Admit, Serve, SetBanned, Evict, PromoteRead, RequestFails, TokenGone,
                Tick, Restart, vars

\* A request that a step does not change keeps what it knows.
LEMMA RequestKept ==
  ASSUME TypeOK, IInv, [Next]_vars, NEW q \in Requests, request'[q] = request[q]
  PROVE  RequestInv(q)'
  <1>1. RequestInv(q)
    BY DEF IInv
  <1>2. request[q].op \in AdminOps \/ request[q].role = "admin" => request[q].caller \in Users
    BY <1>1, NoRequestType DEF RequestInv, AdminOps
  <1>3. request[q].caller \in Users /\ role[request[q].caller] = "admin"
          => role'[request[q].caller] = "admin"
    BY RoleGrows
  <1> QED
    BY <1>1, <1>2, <1>3 DEF RequestInv, At

\* So does one that ends, or that goes on to a step of the same operation.
LEMMA RequestEnds ==
  ASSUME TypeOK, NEW r \in Requests, End(r)
  PROVE  /\ RequestInv(r)'
         /\ \A q \in Requests \ {r} : request'[q] = request[q]
  <1>1. request'[r] = NoRequest /\ \A q \in Requests \ {r} : request'[q] = request[q]
    BY DEF End, TypeOK
  <1> QED
    BY <1>1, NoRequestType DEF RequestInv, At, AdminOps

LEMMA RequestGoes ==
  ASSUME TypeOK, IInv, NEW r \in Requests, NEW step \in Steps \ {"idle"}, Goto(r, step),
         ~At(r, "idle"), role' = role,
         step = "evict" => request[r].op \in {"ban", "unban"},
         step = "promote_write" => request[r].op = "promote"
  PROVE  /\ RequestInv(r)'
         /\ \A q \in Requests \ {r} : request'[q] = request[q]
  <1>1. /\ request'[r] = [request[r] EXCEPT !.step = step]
        /\ \A q \in Requests \ {r} : request'[q] = request[q]
    BY DEF Goto, TypeOK
  <1>2. request[r] \in Request
    BY DEF TypeOK
  <1>3. /\ request'[r].step = step
        /\ request'[r].caller = request[r].caller /\ request'[r].op = request[r].op
        /\ request'[r].target = request[r].target /\ request'[r].role = request[r].role
    BY <1>1, <1>2 DEF Request
  <1>4. RequestInv(r)
    BY DEF IInv
  <1> QED
    BY <1>1, <1>3, <1>4 DEF RequestInv, At

LEMMA ArriveIInv ==
  ASSUME TypeOK, IInv, NEW r \in Requests, NEW u \in Users, Arrive(r, u)
  PROVE  RequestInv(r)' /\ \A q \in Requests \ {r} : request'[q] = request[q]
  <1>1. CASE LoginRead(r, u)
    <2>1. /\ request'[r] = [NoRequest EXCEPT !.step = "login", !.caller = u, !.role = role[u]]
          /\ \A q \in Requests \ {r} : request'[q] = request[q]
          /\ role' = role
      BY <1>1 DEF LoginRead, TypeOK
    <2>2. /\ request'[r].step = "login" /\ request'[r].caller = u
          /\ request'[r].role = role[u] /\ request'[r].op = "serve"
      BY <2>1 DEF NoRequest
    <2> QED
      BY <2>1, <2>2 DEF RequestInv, At, AdminOps
  <1>2. ASSUME NEW op \in Ops, NEW target, Check(r, u, op, target),
               op \in AdminOps => target \in Users
        PROVE  RequestInv(r)' /\ \A q \in Requests \ {r} : request'[q] = request[q]
    <2>1. PICK step \in {"admitted", "lookup"} :
            request' = [request EXCEPT ![r] =
              [NoRequest EXCEPT !.step = step, !.caller = u, !.op = op, !.target = target]]
      BY <1>2 DEF Check
    <2>2. /\ request'[r] =
               [NoRequest EXCEPT !.step = step, !.caller = u, !.op = op, !.target = target]
          /\ \A q \in Requests \ {r} : request'[q] = request[q]
      BY <2>1 DEF TypeOK
    <2>3. /\ request'[r].step = step /\ request'[r].caller = u
          /\ request'[r].role = "none" /\ request'[r].op = op
          /\ request'[r].target = target
      BY <2>2 DEF NoRequest
    <2>4. op \in AdminOps => role[u] = "admin"
      BY <1>2 DEF Check, IInv
    <2>5. role' = role
      BY <1>2 DEF Check
    <2> QED
      BY <1>2, <2>2, <2>3, <2>4, <2>5 DEF RequestInv, At
  <1>3. /\ "serve" \in Ops /\ "serve" \notin AdminOps /\ AdminOps \subseteq Ops
        /\ Targets \subseteq Users
    BY BanGateAssumption DEF Ops, AdminOps
  <1> QED
    BY <1>1, <1>2, <1>3 DEF Arrive

LEMMA ProceedIInv ==
  ASSUME TypeOK, IInv, NEW r \in Requests, Proceed(r)
  PROVE  RequestInv(r)' /\ \A q \in Requests \ {r} : request'[q] = request[q]
  <1>s. {"store_banned", "store_clear", "admitted", "evict", "promote_write"}
          \subseteq Steps \ {"idle"}
    BY DEF Steps
  <1>1. CASE End(r)
    BY <1>1, RequestEnds
  <1>2. CASE Lookup(r)
    BY <1>2, <1>s, RequestGoes DEF Lookup, At
  <1>3. CASE Admit(r)
    BY <1>3, <1>s, RequestGoes DEF Admit, At
  <1>4. CASE SetBanned(r)
    BY <1>4, <1>s, <1>1, RequestGoes DEF SetBanned, At
  <1>5. CASE PromoteRead(r)
    BY <1>5, <1>s, <1>1, RequestGoes DEF PromoteRead, At
  <1> QED
    BY <1>1, <1>2, <1>3, <1>4, <1>5 DEF Proceed, LoginIssue, Refuse, Serve, Evict,
                                        PromoteWrite, RequestFails

LEMMA TokenNext ==
  ASSUME TypeOK, IInv, [Next]_vars, NEW u \in Users, token'[u] = "admin"
  PROVE  role'[u] = "admin"
  <1>1. token[u] = "admin" => role'[u] = "admin"
    BY RoleGrows DEF IInv
  <1>2. ASSUME NEW r \in Requests, LoginIssue(r), token'[u] # token[u]
        PROVE  role'[u] = "admin"
    <2>1. request[r].caller = u /\ request[r].role = "admin"
      BY <1>2 DEF LoginIssue, TypeOK
    <2>2. role[u] = "admin"
      BY <2>1 DEF IInv, RequestInv
    <2> QED
      BY <2>2, RoleGrows
  <1>3. ASSUME NEW v \in Users, TokenGone(v) PROVE token'[u] = token[u]
    BY <1>3 DEF TokenGone, TypeOK
  <1>4. \/ token' = token
        \/ \E r \in Requests : LoginIssue(r)
        \/ \E v \in Users : TokenGone(v)
    BY DEF Next, Arrive, LoginRead, Check, Proceed, Lookup, Refuse, Admit, Serve,
           SetBanned, Evict, PromoteRead, PromoteWrite, RequestFails, Tick, Restart, vars
  <1> QED
    BY <1>1, <1>2, <1>3, <1>4

LEMMA NextIInv ==
  ASSUME TypeOK, IInv, [Next]_vars
  PROVE  IInv'
  <1>1. \A u \in Users : token'[u] = "admin" => role'[u] = "admin"
    BY TokenNext
  <1>2. ASSUME NEW q \in Requests PROVE RequestInv(q)'
    <2>1. CASE request'[q] = request[q]
      BY <2>1, RequestKept
    <2>2. ASSUME NEW r \in Requests, NEW u \in Users, Arrive(r, u) PROVE RequestInv(q)'
      BY <2>1, <2>2, ArriveIInv
    <2>3. ASSUME NEW r \in Requests, Proceed(r) PROVE RequestInv(q)'
      BY <2>1, <2>3, ProceedIInv
    <2>4. CASE Restart
      <3>1. request'[q] = NoRequest
        BY <2>4 DEF Restart
      <3> QED
        BY <3>1, NoRequestType DEF RequestInv, At, AdminOps
    <2> QED
      BY <2>1, <2>2, <2>3, <2>4 DEF Next, TokenGone, Tick, vars
  <1> QED
    BY <1>1, <1>2 DEF IInv

\* Types and the invariant, together.
LEMMA Inductive == Spec => [](TypeOK /\ IInv)
  <1>1. Init => TypeOK /\ IInv
    BY InitType, InitIInv
  <1>2. TypeOK /\ IInv /\ [Next]_vars => (TypeOK /\ IInv)'
    BY NextType, NextIInv
  <1> QED
    BY <1>1, <1>2, PTL DEF Spec

\* TypeOK, for any accounts, number of requests and TTL.
THEOREM TypeCorrect == Spec => []TypeOK
  BY Inductive, PTL

\* A token is proof enough: an admin operation never runs for somebody the
\* users table does not call an admin.
THEOREM OnlyAdminsAdminister == Spec => []AdminOpsByAdmins
  <1>1. IInv => AdminOpsByAdmins
    BY DEF IInv, RequestInv, AdminOpsByAdmins
  <1> QED
    BY <1>1, Inductive, PTL

-----------------------------------------------------------------------------
(* The cache.                                                              *)

LEMMA VouchedType ==
  ASSUME TypeOK, NEW u \in Users
  PROVE  /\ Vouched(u) \in Nat
         /\ cache[u].left \in Nat
         /\ cache[u].verdict \in {"banned", "clear"}
  BY BanGateAssumption DEF TypeOK, Entry, Vouched

\* No step makes the cache vouch longer for u, but that of a stale lookup or
\* of a lookup that found u not banned.
LEMMA VouchedNext ==
  ASSUME TypeOK, [Next]_vars, NEW u \in Users, banned[u], ~StaleLookup(u)
  PROVE  Vouched(u)' <= Vouched(u)
  <1>t. Vouched(u) \in Nat /\ cache[u].left \in Nat /\ cache \in [Users -> Entry]
    BY VouchedType DEF TypeOK
  <1>0. cache'[u] = cache[u] => Vouched(u)' <= Vouched(u)
    BY <1>t DEF Vouched
  <1>n. cache'[u] = NoEntry => Vouched(u)' <= Vouched(u)
    <2>1. cache'[u] = NoEntry => Vouched(u)' = 0
      BY DEF Vouched, NoEntry
    <2> QED
      BY <2>1, <1>t
  <1>1. ASSUME NEW r \in Requests, Refuse(r) PROVE Vouched(u)' <= Vouched(u)
    <2>1. cache' = [cache EXCEPT ![request[r].caller] = [verdict |-> "banned", left |-> TTL]]
      BY <1>1 DEF Refuse, Set
    <2>2. CASE request[r].caller = u
      <3>1. cache'[u].verdict = "banned"
        BY <2>1, <2>2, <1>t
      <3>2. Vouched(u)' = 0
        BY <3>1 DEF Vouched
      <3> QED
        BY <3>2, <1>t
    <2>3. CASE request[r].caller # u
      BY <2>1, <2>3, <1>0
    <2> QED
      BY <2>2, <2>3
  <1>2. ASSUME NEW r \in Requests, Admit(r) PROVE Vouched(u)' <= Vouched(u)
    <2>1. request[r].caller # u
      BY <1>2 DEF Admit, StaleLookup
    <2>2. cache'[u] = cache[u]
      BY <1>2, <2>1 DEF Admit, Set
    <2> QED
      BY <2>2, <1>0
  <1>3. ASSUME NEW r \in Requests, Evict(r) PROVE Vouched(u)' <= Vouched(u)
    <2>1. cache'[u] = cache[u] \/ cache'[u] = NoEntry
      BY <1>3, <1>t DEF Evict
    <2> QED
      BY <2>1, <1>0, <1>n
  <1>4. CASE Tick
    <2>1. cache'[u] = Aged(cache[u])
      BY <1>4 DEF Tick
    <2>2. CASE cache[u].left <= 1
      BY <2>1, <2>2, <1>n DEF Aged
    <2>3. CASE ~(cache[u].left <= 1)
      <3>1. cache[u] \in Entry
        BY <1>t
      <3>2. cache'[u].verdict = cache[u].verdict /\ cache'[u].left = cache[u].left - 1
        BY <2>1, <2>3, <3>1 DEF Aged, Entry
      <3> QED
        BY <3>2, <1>t DEF Vouched
    <2> QED
      BY <2>2, <2>3
  <1>5. CASE Restart
    BY <1>5, <1>n DEF Restart
  <1> QED
    BY <1>0, <1>1, <1>2, <1>3, <1>4, <1>5
       DEF Next, Arrive, LoginRead, Check, Proceed, LoginIssue, Lookup, Serve,
           SetBanned, PromoteRead, PromoteWrite, RequestFails, TokenGone, vars

\* The window a ban leaves open cannot be prolonged by using it.
THEOREM BanNeverRenewed == Spec => NoRenewal
  <1>1. TypeOK /\ [Next]_vars
          => [\A u \in Users : banned[u] /\ ~StaleLookup(u) => Vouched(u)' <= Vouched(u)]_cache
    BY VouchedNext
  <1>2. TypeOK /\ IInv /\ [Next]_vars
          => [\A u \in Users : banned[u] /\ ~StaleLookup(u) => Vouched(u)' <= Vouched(u)]_cache
    BY <1>1
  <1> QED
    BY <1>2, Inductive, PTL DEF Spec, NoRenewal

=============================================================================
