---------------------------- MODULE RateLimiter ----------------------------
(***************************************************************************)
(* The fixed-window rate limiter in front of the routes, in one process.   *)
(*                                                                         *)
(* A mutex is held during all of Allow, so a request is one step.  Time is *)
(* counted in ticks; several requests may arrive within one.  The window   *)
(* of a key opens with the first request after the last one is over, so    *)
(* windows of different keys, and of one key over time, are not aligned.   *)
(* log and first are history: when requests of a key were let through, and *)
(* which of them opened the window each was counted in.                    *)
(***************************************************************************)
EXTENDS Integers, Sequences

CONSTANTS
  Keys,       \* remote addresses or user ids
  Max,        \* NewRateLimiter(max, ...): a limit of config.go, 0 included
  Window,     \* NewRateLimiter(..., window)
  MaxTime     \* bound on the clock

ASSUME RateLimiterAssumption ==
  /\ Max \in Nat
  /\ Window \in Nat \ {0}
  /\ MaxTime \in Nat

VARIABLES
  now,
  entries,    \* per key: requests counted, and windowEnd; -1 before the first
  reply,      \* per key: the last answer, and when it was given
  log,        \* per key: the times of the requests let through
  first       \* per key: for each of them, the one that opened its window

vars == <<now, entries, reply, log, first>>

-----------------------------------------------------------------------------

\* What a window admits: the request that opens it is never refused.
Quota == IF Max = 0 THEN 1 ELSE Max

TypeOK ==
  /\ now \in 0..MaxTime
  /\ entries \in [Keys -> [count : 0..Quota, windowEnd : Int]]
  /\ reply \in [Keys -> [what : {"none", "served", "limited"}, at : 0..MaxTime]]
  /\ log \in [Keys -> Seq(0..MaxTime)]
  /\ first \in [Keys -> Seq(Nat \ {0})]
  /\ \A k \in Keys : Len(first[k]) = Len(log[k])

Init ==
  /\ now = 0
  /\ entries = [k \in Keys |-> [count |-> 0, windowEnd |-> -1]]
  /\ reply = [k \in Keys |-> [what |-> "none", at |-> 0]]
  /\ log = [k \in Keys |-> <<>>]
  /\ first = [k \in Keys |-> <<>>]

\* !ok || now.After(e.windowEnd)
Over(k) == now > entries[k].windowEnd

\* The request is let through and counted, in the window opened by the
\* opener-th request of the log.
Grant(k, entry, opener) ==
  /\ entries' = [entries EXCEPT ![k] = entry]
  /\ log' = [log EXCEPT ![k] = Append(@, now)]
  /\ first' = [first EXCEPT ![k] = Append(@, opener)]
  /\ reply' = [reply EXCEPT ![k] = [what |-> "served", at |-> now]]
  /\ UNCHANGED now

Open(k) ==
  /\ Over(k)
  /\ Grant(k, [count |-> 1, windowEnd |-> now + Window], Len(log[k]) + 1)

\* Mutant: e.count > rl.max refuses.
CountOneMore(k) ==
  /\ ~Over(k)
  /\ entries[k].count <= Max
  /\ Grant(k, [entries[k] EXCEPT !.count = @ + 1], first[k][Len(log[k])])

Count(k) ==
  /\ ~Over(k)
  /\ entries[k].count < Max
  /\ Grant(k, [entries[k] EXCEPT !.count = @ + 1], first[k][Len(log[k])])

\* Mutant: the counter is incremented before it is compared.
RefuseEarly(k) ==
  /\ ~Over(k)
  /\ entries[k].count + 1 >= Max
  /\ reply' = [reply EXCEPT ![k] = [what |-> "limited", at |-> now]]
  /\ UNCHANGED <<now, entries, log, first>>

\* Mutant: a refusal adds another window.
RefuseAndProlong(k) ==
  /\ ~Over(k)
  /\ entries[k].count >= Max
  /\ reply' = [reply EXCEPT ![k] = [what |-> "limited", at |-> now]]
  /\ entries' = [entries EXCEPT ![k].windowEnd = @ + Window]
  /\ UNCHANGED <<now, log, first>>

\* 429, with Retry-After: Window.
Refuse(k) ==
  /\ ~Over(k)
  /\ entries[k].count >= Max
  /\ reply' = [reply EXCEPT ![k] = [what |-> "limited", at |-> now]]
  /\ UNCHANGED <<now, entries, log, first>>

Tick ==
  /\ now < MaxTime
  /\ now' = now + 1
  /\ UNCHANGED <<entries, reply, log, first>>

\* PerIP and PerUser: they differ in what the key is.
Allow(k) == Open(k) \/ Count(k) \/ Refuse(k)

Next == Tick \/ \E k \in Keys : Allow(k)

Spec == Init /\ [][Next]_vars

-----------------------------------------------------------------------------
(* Properties.                                                             *)

\* Two windows can meet, so twice the quota may pass within one window's
\* length, but never more: of any 2 * Quota + 1 requests let through, the
\* first and the last are more than Window apart (ratelimit.go:41-48).
AtMostTwoQuotas ==
  \A k \in Keys : \A i \in DOMAIN log[k] :
    i + 2 * Quota \in DOMAIN log[k] => log[k][i + 2 * Quota] > log[k][i] + Window

\* Nobody is refused without having used up the quota: the last Quota
\* requests let through all lie within the last Window ticks.
RefusedOnlyOverQuota ==
  \A k \in Keys : reply[k].what = "limited" =>
    /\ Len(log[k]) >= Quota
    /\ log[k][Len(log[k]) - Quota + 1] >= reply[k].at - Window

\* Retry-After tells the truth: who was refused, and then waits for more than
\* Window ticks, is let through (ratelimit.go:54-58, 69-78).
RetryAfterSuffices ==
  \A k \in Keys :
    reply[k].what = "limited" /\ now > reply[k].at + Window => Over(k)

\* What a window is, seen in the log, for one key.
\* The log is in the order of time, and nothing in it lies ahead.
LogInv(k) ==
  /\ \A i, j \in DOMAIN log[k] : i <= j => log[k][i] <= log[k][j]
  /\ \A i \in DOMAIN log[k] : log[k][i] <= now

\* Each window has one opener and at most Quota requests in a row.
FirstInv(k) ==
  /\ \A i \in DOMAIN log[k] :
       /\ first[k][i] <= i /\ i < first[k][i] + Quota
       /\ first[k][first[k][i]] = first[k][i]
  /\ \A i, j \in DOMAIN log[k] :
       i <= j => first[k][j] = first[k][i] \/ first[k][j] > i

\* A window opens only when the one before is over.
ApartInv(k) ==
  \A i, j \in DOMAIN log[k] :
    first[k][i] < first[k][j] => log[k][first[k][j]] > log[k][first[k][i]] + Window

\* The entry describes the last window.
EntryInv(k) ==
  LET n == Len(log[k]) IN
  IF n = 0 THEN entries[k] = [count |-> 0, windowEnd |-> -1]
  ELSE /\ entries[k].count = n - first[k][n] + 1
       /\ entries[k].windowEnd = log[k][first[k][n]] + Window

IInv == \A k \in Keys : LogInv(k) /\ FirstInv(k) /\ ApartInv(k) /\ EntryInv(k)

=============================================================================
