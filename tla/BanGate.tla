------------------------------ MODULE BanGate ------------------------------
(***************************************************************************)
(* Who gets past the door: login, the role in a token, the per-request ban *)
(* check with its cache, and the admin operations that change roles and    *)
(* bans.                                                                   *)
(*                                                                         *)
(* A token carries the role it was issued with and is not revoked.  A      *)
(* banned flag lives in the users table; BannedCheck keeps what it last    *)
(* read for TTL ticks in a cache that ban and unban evict.  Requests run   *)
(* concurrently and interleave at every database call and at every         *)
(* (mutex-protected) call of the cache.  A database call may fail, and may *)
(* fail after it took effect; the process may restart with an empty cache. *)
(***************************************************************************)
EXTENDS Integers

CONSTANTS
  Users,
  Targets,       \* the accounts that admin operations are aimed at
  Admins,        \* the accounts that registered with AdminEmail
  Requests,      \* the requests the server can have in flight at once
  TTL,           \* bannedCacheTTL, in ticks of the clock
  MayFail,       \* whether database calls can fail
  NoUser

ASSUME BanGateAssumption ==
  /\ Targets \subseteq Users
  /\ Admins \subseteq Users
  /\ TTL \in Nat \ {0}
  /\ MayFail \in BOOLEAN
  /\ NoUser \notin Users

VARIABLES
  role, banned,  \* columns of the users table
  token,         \* the role in the token a user holds, or "none"
  cache,         \* BannedCache.entries: verdict and ticks left
  request        \* the requests in flight

vars == <<role, banned, token, cache, request>>

-----------------------------------------------------------------------------

AdminOps == {"ban", "unban", "promote"}

\* serve stands for every route that is not an admin operation.
Ops == {"serve"} \cup AdminOps

Steps == {"idle", "login", "lookup", "store_banned", "store_clear", "admitted",
          "promote_write", "evict"}

Entry == [verdict : {"banned", "clear"}, left : 0..TTL]

\* No entry, or one whose time is up: IsBanned treats them alike.
NoEntry == [verdict |-> "clear", left |-> 0]

Fresh(u) == cache[u].left > 0

Request == [step : Steps, caller : Users \cup {NoUser}, op : Ops,
            target : Users \cup {NoUser}, role : {"none", "user", "admin"}]

NoRequest == [step |-> "idle", caller |-> NoUser, op |-> "serve",
              target |-> NoUser, role |-> "none"]

TypeOK ==
  /\ role \in [Users -> {"user", "admin"}]
  /\ banned \in [Users -> BOOLEAN]
  /\ token \in [Users -> {"none", "user", "admin"}]
  /\ cache \in [Users -> Entry]
  /\ request \in [Requests -> Request]

Init ==
  /\ role = [u \in Users |-> IF u \in Admins THEN "admin" ELSE "user"]
  /\ banned = [u \in Users |-> FALSE]
  /\ token = [u \in Users |-> "none"]
  /\ cache = [u \in Users |-> NoEntry]
  /\ request = [r \in Requests |-> NoRequest]

-----------------------------------------------------------------------------
(* Requests.                                                               *)

At(r, step) == request[r].step = step

Goto(r, step) == request' = [request EXCEPT ![r].step = step]

End(r) == request' = [request EXCEPT ![r] = NoRequest]

\* A database call fails without effect, and the handler returns 500.
RequestFails(r) ==
  /\ MayFail
  /\ request[r].step \in {"admitted", "promote_write"}
  /\ End(r)
  /\ UNCHANGED <<role, banned, token, cache>>

-----------------------------------------------------------------------------
(* POST /auth/login: handler Login.                                        *)

\* The row is read and its banned flag checked; the password takes a while.
LoginRead(r, u) ==
  /\ At(r, "idle")
  /\ ~banned[u]
  /\ request' = [request EXCEPT ![r] =
                   [NoRequest EXCEPT !.step = "login", !.caller = u, !.role = role[u]]]
  /\ UNCHANGED <<role, banned, token, cache>>

\* GenerateToken, with the role that was read; or the password was wrong.
LoginIssue(r) ==
  /\ At(r, "login")
  /\ \/ token' = [token EXCEPT ![request[r].caller] = request[r].role]
     \/ UNCHANGED token
  /\ End(r)
  /\ UNCHANGED <<role, banned, cache>>

\* The token runs out (JWTExpiry), or the client forgets it.
TokenGone(u) ==
  /\ token[u] # "none"
  /\ token' = [token EXCEPT ![u] = "none"]
  /\ UNCHANGED <<role, banned, cache, request>>

-----------------------------------------------------------------------------
(* Authenticated routes: middlewares Auth, BannedCheck, Admin.             *)

\* Mutant: the route group lacks the Admin middleware.
CheckNoAdmin(r, u, op, target) ==
  /\ At(r, "idle")
  /\ token[u] # "none"
  /\ Fresh(u) => cache[u].verdict = "clear"
  /\ request' = [request EXCEPT ![r] =
       [NoRequest EXCEPT !.step = IF Fresh(u) THEN "admitted" ELSE "lookup",
                         !.caller = u, !.op = op, !.target = target]]
  /\ UNCHANGED <<role, banned, token, cache>>

\* Mutant: a hit prolongs the entry.
CheckSliding(r, u, op, target) ==
  /\ At(r, "idle")
  /\ token[u] # "none"
  /\ op \in AdminOps => token[u] = "admin"
  /\ cache' = IF Fresh(u) THEN [cache EXCEPT ![u].left = TTL] ELSE cache
  /\ IF Fresh(u) /\ cache[u].verdict = "banned"
       THEN UNCHANGED request
       ELSE request' = [request EXCEPT ![r] =
              [NoRequest EXCEPT !.step = IF Fresh(u) THEN "admitted" ELSE "lookup",
                                !.caller = u, !.op = op, !.target = target]]
  /\ UNCHANGED <<role, banned, token>>

\* Auth takes caller and role from the token.  IsBanned: a fresh entry
\* decides (one that says banned ends the request, and nothing changes);
\* without one the database has to be asked.  The Admin check comes after
\* BannedCheck but looks only at the token, so it is made here: a user who
\* is not an admin and asks for an admin route counts as "serve".
Check(r, u, op, target) ==
  /\ At(r, "idle")
  /\ token[u] # "none"
  /\ op \in AdminOps => token[u] = "admin"
  /\ Fresh(u) => cache[u].verdict = "clear"
  /\ request' = [request EXCEPT ![r] =
       [NoRequest EXCEPT !.step = IF Fresh(u) THEN "admitted" ELSE "lookup",
                         !.caller = u, !.op = op, !.target = target]]
  /\ UNCHANGED <<role, banned, token, cache>>

\* Mutant: when the database does not answer, the caller passes.
LookupFailsOpen(r) ==
  /\ At(r, "lookup")
  /\ \/ Goto(r, IF banned[request[r].caller] THEN "store_banned" ELSE "store_clear")
     \/ MayFail /\ Goto(r, "store_clear")
  /\ UNCHANGED <<role, banned, token, cache>>

\* GetUserByID: an error counts as banned.
Lookup(r) ==
  /\ At(r, "lookup")
  /\ \/ Goto(r, IF banned[request[r].caller] THEN "store_banned" ELSE "store_clear")
     \/ MayFail /\ Goto(r, "store_banned")
  /\ UNCHANGED <<role, banned, token, cache>>

\* Mutant: the entry outlives its time by a tick.
SetLonger(u, verdict) == cache' = [cache EXCEPT ![u] = [verdict |-> verdict, left |-> TTL + 1]]

\* BannedCache.Set.
Set(u, verdict) == cache' = [cache EXCEPT ![u] = [verdict |-> verdict, left |-> TTL]]

Refuse(r) ==
  /\ At(r, "store_banned")
  /\ Set(request[r].caller, "banned")
  /\ End(r)
  /\ UNCHANGED <<role, banned, token>>

Admit(r) ==
  /\ At(r, "store_clear")
  /\ Set(request[r].caller, "clear")
  /\ Goto(r, "admitted")
  /\ UNCHANGED <<role, banned, token>>

\* Any handler but those of the admin operations below.
Serve(r) ==
  /\ At(r, "admitted") /\ request[r].op = "serve"
  /\ End(r)
  /\ UNCHANGED <<role, banned, token, cache>>

-----------------------------------------------------------------------------
(* POST /admin/users/{id}/ban, /unban, /promote.                           *)

\* SetBanned.  When it reports an error after it took effect, the handler
\* returns before Evict.
SetBanned(r) ==
  /\ At(r, "admitted") /\ request[r].op \in {"ban", "unban"}
  /\ banned' = [banned EXCEPT ![request[r].target] = (request[r].op = "ban")]
  /\ \/ Goto(r, "evict")
     \/ MayFail /\ End(r)
  /\ UNCHANGED <<role, token, cache>>

Evict(r) ==
  /\ At(r, "evict")
  /\ cache' = [cache EXCEPT ![request[r].target] = NoEntry]
  /\ End(r)
  /\ UNCHANGED <<role, banned, token>>

\* The target is read: a banned user is refused, an admin stays one.
PromoteRead(r) ==
  /\ At(r, "admitted") /\ request[r].op = "promote"
  /\ LET u == request[r].target IN
       IF banned[u] \/ role[u] = "admin" THEN End(r) ELSE Goto(r, "promote_write")
  /\ UNCHANGED <<role, banned, token, cache>>

\* SetRole: WHERE id = $2, banned or not.
PromoteWrite(r) ==
  /\ At(r, "promote_write")
  /\ role' = [role EXCEPT ![request[r].target] = "admin"]
  /\ End(r)
  /\ UNCHANGED <<banned, token, cache>>

-----------------------------------------------------------------------------
(* Time and the process.                                                   *)

\* What is left of an entry after one tick of the clock.
Aged(entry) ==
  IF entry.left <= 1 THEN NoEntry ELSE [entry EXCEPT !.left = @ - 1]

Tick ==
  /\ \E u \in Users : Fresh(u)
  /\ cache' = [u \in Users |-> Aged(cache[u])]
  /\ UNCHANGED <<role, banned, token, request>>

\* The process is replaced: the cache and the requests are gone.
Restart ==
  /\ cache' = [u \in Users |-> NoEntry]
  /\ request' = [r \in Requests |-> NoRequest]
  /\ UNCHANGED <<role, banned, token>>

-----------------------------------------------------------------------------

\* A request of u arrives.
Arrive(r, u) ==
  \/ LoginRead(r, u)
  \/ Check(r, u, "serve", NoUser)
  \/ \E op \in AdminOps, target \in Targets : Check(r, u, op, target)

\* A request in flight takes its next step.
Proceed(r) ==
  \/ LoginIssue(r)
  \/ Lookup(r) \/ Refuse(r) \/ Admit(r) \/ Serve(r)
  \/ SetBanned(r) \/ Evict(r)
  \/ PromoteRead(r) \/ PromoteWrite(r)
  \/ RequestFails(r)

Next ==
  \/ \E r \in Requests, u \in Users : Arrive(r, u)
  \/ \E r \in Requests : Proceed(r)
  \/ \E u \in Users : TokenGone(u)
  \/ Tick
  \/ Restart

Spec == Init /\ [][Next]_vars

\* Goroutines run and database calls return; time passes.  Nobody is bound
\* to log in, to send a request or to use an admin operation.
Fairness == WF_vars(Tick) /\ \A r \in Requests : WF_vars(Proceed(r))

FairSpec == Spec /\ Fairness

-----------------------------------------------------------------------------
(* Properties.                                                             *)

\* The role in a token is never looked up again, yet no admin operation is
\* ever under way for someone who is not an admin in the users table: roles
\* only go up (middleware/auth.go:47-57, handler/admin.go:256-259).
AdminOpsByAdmins ==
  \A r \in Requests :
    ~At(r, "idle") /\ request[r].op \in AdminOps => role[request[r].caller] = "admin"

\* How long the cache still vouches for u.
Vouched(u) == IF cache[u].verdict = "clear" THEN cache[u].left ELSE 0

\* A request of u that saw the row before the ban and has not stored it yet.
StaleLookup(u) == \E r \in Requests : At(r, "store_clear") /\ request[r].caller = u

\* The window in which a banned user still passes cannot be prolonged by
\* using it: only a lookup made before the ban can vouch for them anew
\* (middleware/banned.go:44-52, 88-95).
NoRenewal ==
  [][\A u \in Users : banned[u] /\ ~StaleLookup(u) => Vouched(u)' <= Vouched(u)]_cache

\* A ban that stays ends every request of the user before its handler, from
\* some point on, even if the eviction never ran (the database reported an
\* error for an UPDATE it made, or the process was replaced), if a lookup
\* raced the ban, and if lookups fail.
BanEventuallyBites ==
  \A u \in Users :
    <>[]banned[u]
      => <>[](\A r \in Requests : At(r, "admitted") => request[r].caller # u)

\* A user the cache takes for banned without cause (the lookup failed,
\* middleware/banned.go:89, or an unban was not evicted) does not stay so.
Miscached(u) == Fresh(u) /\ cache[u].verdict = "banned" /\ ~banned[u]

WrongBanExpires == \A u \in Users : Miscached(u) ~> ~Miscached(u)

-----------------------------------------------------------------------------
(* The inductive invariant behind AdminOpsByAdmins.                        *)

\* Every admin role that was ever read is still in the table, and a request
\* knows for whom and on whom it acts.
RequestInv(r) ==
  LET q == request[r] IN
  /\ At(r, "idle") => q = NoRequest
  /\ ~At(r, "idle") => q.caller \in Users
  /\ q.op \in AdminOps => q.target \in Users /\ role[q.caller] = "admin"
  /\ q.role = "admin" => role[q.caller] = "admin"
  /\ At(r, "evict") => q.op \in {"ban", "unban"}
  /\ At(r, "promote_write") => q.op = "promote"

IInv ==
  /\ \A u \in Users : token[u] = "admin" => role[u] = "admin"
  /\ \A r \in Requests : RequestInv(r)

-----------------------------------------------------------------------------
(* Properties the repository states and the server does not have.          *)

\* The ban of u has been carried out: the row is written, the entry evicted.
BanDone(u) ==
  /\ banned[u]
  /\ \A r \in Requests :
       ~(At(r, "evict") /\ request[r].op = "ban" /\ request[r].target = u)

\* docs/superpowers/specs/2026-03-23-refactor-design.md:927: "The per-request
\* banned check catches them on their very next API call".
NextCallRefused ==
  [][\A r \in Requests :
       At(r, "idle") /\ request'[r].step = "admitted" => ~BanDone(request'[r].caller)]_request

=============================================================================
